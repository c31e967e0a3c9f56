------------------------------ MODULE DataDirPage ------------------------------
(***************************************************************************)
(* The console's panel for moving the data directory                       *)
(* (src/web/src/components/DataDirManager.tsx) and its banner              *)
(* (RestartRequiredBanner.tsx), with the data-dir and health routes of     *)
(* src/src/admin/router.ts and what the server lets through while the      *)
(* database is closed (src/src/server.ts, src/src/auth/middleware.ts).     *)
(*                                                                         *)
(* A preview and a move are requests that take their time; the panel may   *)
(* be cancelled, closed and opened again meanwhile.  How the files are     *)
(* copied is in Migration: here a move begins, and then succeeds or fails. *)
(* The server was started with neither --data-dir nor MIMO2CODEX_DATA_DIR. *)
(***************************************************************************)
EXTENDS Naturals, Sequences, FiniteSets

CONSTANTS
  Places,     \* directories the data can be in, or be moved to
  Home,       \* ~/.mimo2codex
  Wrong,      \* targets that are refused by their path alone
  AuthModes,  \* authMode: "on" when the console's requests carry a session
  MaxAsks,    \* bound: previews and moves asked for
  MaxMishaps  \* bound: answers lost, failures, stops, directories others fill

ASSUME DataDirPageAssumption ==
  /\ Home \in Places /\ Wrong \cap Places = {} /\ AuthModes \subseteq {"on", "off"}
  /\ MaxAsks \in Nat /\ MaxMishaps \in Nat

VARIABLES
  host,     \* the process: authMode, up, data directory, and whether it moves it or has moved it
  pointer,  \* the pointer file: the directory of the next start, or Nowhere
  full,     \* the directories that hold something
  moving,   \* the number of the request that is being carried out, or 0
  panel,    \* what DataDirManager keeps
  asks,     \* previews and moves asked for, oldest first
  holder,   \* abortRef: the move that closing the panel aborts, or 0
  banner,   \* the directory the banner names, or Nowhere
  strayed,  \* history: a preview was cancelled on its way, or a move that had not arrived
  died,     \* history: the process was ended by a request it let in
  mishaps

dataDirPageVars == <<host, pointer, full, moving, panel, asks, holder, banner, strayed, died, mishaps>>

Nowhere == ""            \* no directory, and an empty input
NotPreviewed == [of |-> Nowhere, ok |-> FALSE]
PanelClosed == [phase |-> "closed", target |-> Nowhere, preview |-> NotPreviewed, dest |-> Nowhere,
           code |-> "", editable |-> FALSE]

DataDirPageInit ==
  /\ \E mode \in AuthModes :
       host = [mode |-> mode, up |-> TRUE, dir |-> Home, state |-> "serving"]
  /\ pointer = Nowhere /\ full = {Home} /\ moving = 0
  /\ panel = PanelClosed /\ asks = <<>> /\ holder = 0 /\ banner = Nowhere
  /\ strayed = FALSE /\ died = FALSE /\ mishaps = 0

Mishap == mishaps < MaxMishaps /\ mishaps' = mishaps + 1

------------------------------------------------------------------------------
(* The server.                                                             *)

\* The database is closed from the first copied file to the restart; the guard
\* looks the session up in it before any route of the console.
GuardThrows == host.mode = "on" /\ host.state # "serving"

\* The process ends: a move under way leaves what it has copied, and what was
\* asked is answered by a broken connection.
Ended(stopped) ==
  /\ host' = [host EXCEPT !.up = FALSE, !.state = "serving"]
  /\ full' = IF moving = 0 THEN full ELSE full \cup {asks[moving].of}
  /\ moving' = 0
  /\ asks' = [k \in DOMAIN asks |->
                IF asks[k].at = "over" THEN asks[k] ELSE [asks[k] EXCEPT !.at = "read", !.answer = "lost"]]
  /\ died' = (died \/ ~stopped)

Answers(k, answer) == asks' = [asks EXCEPT ![k].at = "read", ![k].answer = answer]

\* validatePaths and the look into the target.
Suits(dir) == dir \notin Wrong \cup full \cup {host.dir, Nowhere}

\* POST data-dir/preview.
PreviewArrives(k) ==
  /\ IF host.state = "moved" THEN Answers(k, "refused")
     ELSE Answers(k, IF Suits(asks[k].of) THEN "ok" ELSE "errors")
  /\ UNCHANGED <<host, full, moving, died, mishaps>>

\* POST data-dir/migrate, up to where runMigration begins to copy.
MoveArrives(k) ==
  /\ UNCHANGED <<full, died>>
  /\ LET Refused(answer) == Answers(k, answer) /\ UNCHANGED <<host, moving, mishaps>>
     IN CASE host.state # "serving" -> Refused("http_409")
          [] host.state = "serving" /\ asks[k].of = Nowhere -> Refused("http_400")
          [] OTHER ->
               \/ ~Suits(asks[k].of) /\ Refused("preflight_failed")
               \/ Suits(asks[k].of) /\ Mishap /\ Answers(k, "scan_failed") /\ UNCHANGED <<host, moving>>
               \/ /\ Suits(asks[k].of)
                  /\ host' = [host EXCEPT !.state = "moving"] /\ moving' = k
                  /\ asks' = [asks EXCEPT ![k].at = "moving"] /\ UNCHANGED mishaps

Arrives(k) ==
  /\ host.up /\ asks[k].at = "sent"
  /\ IF GuardThrows THEN Ended(FALSE) /\ UNCHANGED mishaps
     ELSE IF asks[k].kind = "preview" THEN PreviewArrives(k) ELSE MoveArrives(k)
  /\ UNCHANGED <<pointer, panel, holder, banner, strayed>>

\* The answer of a move whose listener is gone is not kept.
Reports(k, answer) ==
  asks' = [asks EXCEPT ![k] = IF @.at = "moving" THEN [@ EXCEPT !.at = "read", !.answer = answer] ELSE @]

\* Everything is copied and the pointer file written: maintenance stays on.
MoveSucceeds ==
  /\ moving # 0
  /\ LET dir == asks[moving].of
     IN pointer' = dir /\ full' = full \cup {dir}
  /\ host' = [host EXCEPT !.state = "moved"]
  /\ Reports(moving, "done") /\ moving' = 0
  /\ UNCHANGED <<panel, holder, banner, strayed, died, mishaps>>

\* A copy fails and is rolled back, or the pointer file cannot be written
\* and the copy stays: either way the service goes on where it was.
MoveFails(code) ==
  /\ moving # 0 /\ Mishap
  /\ full' = IF code = "pointer_write_failed" THEN full \cup {asks[moving].of} ELSE full
  /\ host' = [host EXCEPT !.state = "serving"]
  /\ Reports(moving, code) /\ moving' = 0
  /\ UNCHANGED <<pointer, panel, holder, banner, strayed, died>>

\* The user stops the process, or it is killed.
ServerStopped ==
  /\ host.up /\ Mishap /\ Ended(TRUE)
  /\ UNCHANGED <<pointer, panel, holder, banner, strayed>>

\* resolveDataDir at the start: the pointer file, else the default.
ServerStarted ==
  /\ ~host.up
  /\ host' = [host EXCEPT !.up = TRUE, !.dir = IF pointer = Nowhere THEN Home ELSE pointer]
  /\ UNCHANGED <<pointer, full, moving, panel, asks, holder, banner, strayed, died, mishaps>>

\* Something else writes into a directory.
OthersFill(dir) ==
  /\ dir \notin full /\ Mishap
  /\ full' = full \cup {dir}
  /\ UNCHANGED <<host, pointer, moving, panel, asks, holder, banner, strayed, died>>

------------------------------------------------------------------------------
(* The panel.                                                              *)

Shows(phases) == panel.phase \in phases
FormPhases == {"form", "previewing", "previewed"}

\* GET data-dir/info: a path the user may change is the default, or what
\* the pointer file names.
Editable == host.dir \in {Home, pointer}

\* Nothing but a spinner is shown until the answer is there, and none ever if
\* it fails.
OpenPanel ==
  /\ panel = PanelClosed
  /\ panel' = [PanelClosed EXCEPT !.phase = "loading"]
  /\ UNCHANGED <<host, pointer, full, moving, asks, holder, banner, strayed, died, mishaps>>

InfoArrives ==
  /\ Shows({"loading"}) /\ host.up
  /\ IF GuardThrows THEN Ended(FALSE) /\ UNCHANGED panel
     ELSE /\ panel' = [panel EXCEPT !.phase = "viewing", !.editable = Editable]
          /\ UNCHANGED <<host, full, moving, asks, died>>
  /\ UNCHANGED <<pointer, holder, banner, strayed, mishaps>>

\* Closing the panel aborts the move it holds, but not what the server is
\* already doing; nobody listens any more.
ClosePanel ==
  /\ panel # PanelClosed /\ panel' = PanelClosed
  /\ \E dropped \in SUBSET ({holder} \ {0}) :
       asks' = [k \in DOMAIN asks |->
                  IF k \in dropped /\ asks[k].at = "sent" THEN [asks[k] EXCEPT !.at = "over"]
                  ELSE [asks[k] EXCEPT !.heard = FALSE]]
  /\ strayed' = (strayed \/ \E k \in DOMAIN asks : asks[k].at = "sent")
  /\ holder' = 0
  /\ UNCHANGED <<host, pointer, full, moving, banner, died, mishaps>>

ClickMigrate ==
  /\ Shows({"viewing"}) /\ panel.editable
  /\ panel' = [panel EXCEPT !.phase = "form"]
  /\ UNCHANGED <<host, pointer, full, moving, asks, holder, banner, strayed, died, mishaps>>

\* Seeded fault: what was previewed stays when the input changes.
TypeTarget_KeepsPreview(dir) ==
  /\ Shows({"form", "previewed"}) /\ dir # panel.target
  /\ panel' = [panel EXCEPT !.target = dir, !.phase = "form"]
  /\ UNCHANGED <<host, pointer, full, moving, asks, holder, banner, strayed, died, mishaps>>

\* The input is disabled only while a preview is awaited.
TypeTarget(dir) ==
  /\ Shows({"form", "previewed"}) /\ dir # panel.target
  /\ panel' = [panel EXCEPT !.target = dir, !.phase = "form", !.preview = NotPreviewed]
  /\ UNCHANGED <<host, pointer, full, moving, asks, holder, banner, strayed, died, mishaps>>

Sends(kind) ==
  /\ Len(asks) < MaxAsks
  /\ asks' = Append(asks, [kind |-> kind, of |-> panel.target, at |-> "sent", heard |-> TRUE, answer |-> ""])

DoPreview ==
  /\ Shows({"form", "previewed"}) /\ panel.target # Nowhere
  /\ Sends("preview")
  /\ panel' = [panel EXCEPT !.phase = "previewing", !.preview = NotPreviewed]
  /\ UNCHANGED <<host, pointer, full, moving, holder, banner, strayed, died, mishaps>>

\* The button is there with a preview that found no error; what is sent is
\* the text of the input.
StartMigration ==
  /\ Shows(FormPhases) /\ panel.preview.ok
  /\ Sends("move")
  /\ panel' = [panel EXCEPT !.phase = "running", !.dest = panel.preview.of]
  /\ holder' = Len(asks) + 1
  /\ UNCHANGED <<host, pointer, full, moving, banner, strayed, died, mishaps>>

\* Cancel of the form, also while a preview is awaited, and the button of
\* the error.
Reset ==
  /\ Shows(FormPhases \cup {"error"})
  /\ panel' = [PanelClosed EXCEPT !.phase = "viewing", !.editable = panel.editable]
  /\ strayed' = (strayed \/ Shows({"previewing"}))
  /\ UNCHANGED <<host, pointer, full, moving, asks, holder, banner, died, mishaps>>

\* The answer of a preview goes to the panel as it is by then.
PreviewHeard(k) ==
  panel' = CASE asks[k].answer \in {"lost", "refused"} -> [panel EXCEPT !.phase = "form"]
             [] OTHER -> [panel EXCEPT !.phase = "previewed",
                            !.preview = [of |-> asks[k].of, ok |-> asks[k].answer = "ok"]]

\* So does the last event of a move, or the failure to read one.
MoveHeard(k) ==
  panel' = CASE asks[k].answer = "done" -> [panel EXCEPT !.phase = "done", !.dest = asks[k].of]
             [] asks[k].answer = "lost" -> [panel EXCEPT !.phase = "error", !.code = "network_error"]
             [] OTHER -> [panel EXCEPT !.phase = "error", !.code = asks[k].answer]

Heard(k) ==
  /\ asks[k].at = "read"
  /\ asks' = [asks EXCEPT ![k].at = "over"]
  /\ IF ~asks[k].heard THEN UNCHANGED <<panel, holder>>
     ELSE IF asks[k].kind = "preview" THEN PreviewHeard(k) /\ UNCHANGED holder
     ELSE MoveHeard(k) /\ holder' = 0
  /\ UNCHANGED <<host, pointer, full, moving, banner, strayed, died, mishaps>>

\* The connection breaks, whatever the server goes on to do.
ConnectionLost(k) ==
  /\ asks[k].at \in {"sent", "moving"} /\ Mishap
  /\ Answers(k, "lost")
  /\ UNCHANGED <<host, pointer, full, moving, panel, holder, banner, strayed, died>>

\* The banner polls GET health; what it shows stays when a poll fails.
PullHealth ==
  /\ host.up
  /\ IF GuardThrows THEN Ended(FALSE) /\ UNCHANGED banner
     ELSE /\ banner' = IF host.state = "moved" THEN pointer ELSE Nowhere
          /\ UNCHANGED <<host, full, moving, asks, died>>
  /\ UNCHANGED <<pointer, panel, holder, strayed, mishaps>>

------------------------------------------------------------------------------
DataDirPageNext ==
  \/ \E k \in DOMAIN asks : Arrives(k) \/ Heard(k) \/ ConnectionLost(k)
  \/ MoveSucceeds \/ \E code \in {"copy_failed", "pointer_write_failed"} : MoveFails(code)
  \/ ServerStopped \/ ServerStarted \/ \E dir \in Places : OthersFill(dir)
  \/ OpenPanel \/ InfoArrives \/ ClosePanel \/ ClickMigrate
  \/ \E dir \in Places \cup Wrong \cup {Nowhere} : TypeTarget(dir)
  \/ DoPreview \/ StartMigration \/ Reset \/ PullHealth

DataDirPageSpec == DataDirPageInit /\ [][DataDirPageNext]_dataDirPageVars

------------------------------------------------------------------------------
\* A panel that says the data has been moved is right: the pointer file names
\* that directory, and it holds the data from the next start on.
DoneIsTrue ==
  panel.phase = "done" =>
    pointer = panel.dest /\ (host.dir = panel.dest \/ host.state = "moved" \/ ~host.up)

\* A failure the server itself told of leaves the service running where it was.
FailureIsTrue ==
  panel.phase = "error" /\ panel.code \notin {"network_error", "http_409"} /\ ~strayed
    => host.state = "serving"

\* What is previewed is what would be moved to, unless a preview was cancelled
\* on its way: its late answer fills a panel that has moved on.
PreviewedIsTarget == ~strayed /\ panel.preview # NotPreviewed => panel.preview.of = panel.target

\* A progress bar has a move behind it that will end it.
ProgressEnds ==
  panel.phase = "running" =>
    \E k \in DOMAIN asks : asks[k].kind = "move" /\ asks[k].heard /\ asks[k].at # "over"

\* What the panel says of a move is so (DataDirManager.tsx:118-152).
MoveIsTold == DoneIsTrue /\ FailureIsTrue /\ PreviewedIsTarget /\ ProgressEnds

\* "The admin UI is whitelisted so the banner + close-modal still work"
\* (migration.ts:374-375): while and after the data is moved, the process
\* answers what the console asks.
ConsoleIsServed == ~died
==============================================================================
