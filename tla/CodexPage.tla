------------------------------- MODULE CodexPage -------------------------------
(***************************************************************************)
(* The "enable Codex" page of the console with the status card above it:   *)
(* src/web/src/pages/codex, src/web/src/components/CodexStatusHeader.tsx   *)
(* and the routes of src/src/admin/router.ts they call.                    *)
(*                                                                         *)
(* The page changes something and then loads everything again, in three    *)
(* requests that it awaits together; the card above it polls on its own,   *)
(* may point the server at another Codex directory and does not tell the   *)
(* page.  What apply and restore do to the two files, step by step, is in  *)
(* CodexFiles; here an operation happens or fails as a whole.              *)
(***************************************************************************)
EXTENDS Naturals, Sequences, FiniteSets

CONSTANTS
  Targets,       \* rows of the page: a provider and a model
  Keyed,         \* those whose provider has an API key
  CodexDirs,          \* Codex directories
  Modes,         \* of authMode: "off" or "on"
  MaxTouches,    \* bound: what is clicked and what users do elsewhere
  MaxFailures    \* bound: requests that fail

ASSUME CodexPageAssumption ==
  /\ CodexDirs # {}
  /\ Keyed \subseteq Targets /\ Modes \subseteq {"off", "on"}
  /\ MaxTouches \in Nat /\ MaxFailures \in Nat

VARIABLES
  auth,          \* authMode
  dirInUse,      \* codexDir()
  files,         \* who owns auth.json of each directory, and the target in config.toml
  pairs,         \* backup pairs: [ts, dir, was, preserved]
  override,      \* active override
  thinking,      \* settings thinking.disabled and thinking.forceHighEffort
  entries,       \* codex_config_history of all users, oldest first
  view,          \* what the page shows
  flows,         \* what the page has under way, by kind
  busy,          \* the kind the page is busy with
  notice,        \* its two messages
  card,          \* the owner, directory and override the status card shows
  exporting,     \* the export of the status card
  version,       \* history: the changes to who owns the auth.json in use
  warned,        \* history: the pairs whose deletion was confirmed twice
  doubt,         \* history: the last load failed or overlapped another change, or the
                 \* override was changed elsewhere after it
  touches, failures

serverVars == <<dirInUse, files, pairs, override, thinking, entries, version>>
screenVars == <<view, flows, busy, notice, card, exporting>>
codexPageVars == <<auth, serverVars, screenVars, warned, doubt, touches, failures>>

Blank == ""              \* no target, no message
Off == [step |-> "off"]
Settings == {"disabled", "forceHigh"}
Parts == {"state", "targets", "thinking"}
Me == "me"               \* the user of this page, when there are users

Used(n) == touches + n <= MaxTouches /\ touches' = touches + n

--------------------------------------------------------------------------------
(* The server *)

PairsIn(dir) == {p \in pairs : p.dir = dir}

\* What the three requests of a load answer.
Answer(part) ==
  CASE part = "state"    -> [owner |-> files[dirInUse].owner, pairs |-> PairsIn(dirInUse),
                             override |-> override, version |-> version]
    [] part = "targets"  -> override          \* isCurrentOverride
    [] part = "thinking" -> thinking

\* The user a row of the timeline belongs to: the local timeline has none.
Mine == IF auth = "on" THEN Me ELSE Blank

\* The server writes files, and backs them up, only in local mode.
ApplyServed(target) ==
  /\ entries' = Append(entries, [user |-> Mine, target |-> target])
  /\ IF auth = "on" THEN UNCHANGED <<files, pairs, version>>
     ELSE LET was == files[dirInUse]
          IN /\ pairs' = IF was.owner = "missing" THEN pairs
                         ELSE pairs \cup {[ts |-> version, dir |-> dirInUse, was |-> was,
                                           preserved |-> was.owner = "external"]}
             /\ files' = [files EXCEPT ![dirInUse] = [owner |-> "ours", target |-> target]]
             /\ version' = version + 1
  /\ UNCHANGED <<dirInUse, override, thinking>>

RestoreServed(ts) ==
  \E p \in PairsIn(dirInUse) :
    /\ p.ts = ts
    /\ files' = [files EXCEPT ![dirInUse] = p.was]
    /\ entries' = Append(entries, [user |-> Mine, target |-> p.was.target])
    /\ version' = version + 1
    /\ UNCHANGED <<dirInUse, pairs, override, thinking>>

DeleteServed(ts, force) ==
  \E p \in PairsIn(dirInUse) :
    /\ p.ts = ts /\ (p.preserved => force)
    /\ pairs' = pairs \ {p}
    /\ UNCHANGED <<dirInUse, files, override, thinking, entries, version>>

OverrideServed(target) ==
  /\ target \in Keyed \cup {Blank}
  /\ override' = target
  /\ UNCHANGED <<dirInUse, files, pairs, thinking, entries, version>>

SettingServed(name, on) ==
  /\ thinking' = IF on THEN thinking \cup {name} ELSE thinking \ {name}
  /\ UNCHANGED <<dirInUse, files, pairs, override, entries, version>>

Served(flow) ==
  CASE flow.kind = "apply"    -> ApplyServed(flow.arg)
    [] flow.kind = "override" -> OverrideServed(flow.arg)
    [] flow.kind = "clear"    -> OverrideServed(Blank)
    [] flow.kind = "restore"  -> RestoreServed(flow.arg.ts)
    [] flow.kind = "delete"   -> DeleteServed(flow.arg.ts, flow.arg.preserved)
    [] OTHER                  -> SettingServed(flow.kind, flow.arg)

--------------------------------------------------------------------------------
(* The page *)

Kinds == {"mount", "apply", "override", "clear", "restore", "delete"} \cup Settings
Resting(kind) == flows[kind] = Off
Calm == \A kind \in Kinds : Resting(kind)

\* A change is sent: but for the switches of the thinking tab the page is busy with
\* it and drops its messages.
Send(kind, arg, extra) ==
  /\ Resting(kind) /\ Used(1)
  /\ flows' = [flows EXCEPT ![kind] = [step |-> "sent", kind |-> kind, arg |-> arg, asked |-> extra,
                                       version |-> view.version]]
  /\ doubt' = (doubt \/ ~Calm)
  /\ IF kind \in Settings THEN UNCHANGED <<busy, notice>>
     ELSE busy' = kind /\ notice' = [error |-> Blank, success |-> Blank]
  /\ UNCHANGED <<auth, serverVars, view, card, exporting, failures>>

\* An external auth.json is overwritten only after a confirmation.
ClickApply(target) ==
  view.shown /\ busy = "none" /\ Send("apply", target, view.owner = "external") /\ UNCHANGED warned

ClickOverride(target) ==
  view.shown /\ busy = "none" /\ target \in Keyed /\ Send("override", target, FALSE) /\ UNCHANGED warned

\* The one button that does not look at what else the page is busy with.
ClickClear ==
  view.shown /\ busy # "clear" /\ view.override # Blank /\ Send("clear", Blank, FALSE) /\ UNCHANGED warned

ClickRestore(pair) ==
  view.shown /\ busy = "none" /\ Send("restore", pair, TRUE) /\ UNCHANGED warned

\* Seeded fault: the deletion is forced for every pair, with the plain question.
ClickDelete_AlwaysForces(pair) ==
  /\ view.shown /\ busy = "none" /\ Send("delete", [pair EXCEPT !.preserved = TRUE], TRUE)
  /\ UNCHANGED warned

\* A preserved pair has a question of its own, and is then deleted with force.
ClickDelete(pair) ==
  /\ view.shown /\ busy = "none" /\ Send("delete", pair, TRUE)
  /\ warned' = IF pair.preserved THEN warned \cup {pair.ts} ELSE warned

ClickSwitch(name) ==
  /\ view.shown /\ Send(name, name \notin view.thinking, FALSE) /\ UNCHANGED warned
  /\ name = "forceHigh" => "disabled" \notin view.thinking

\* The server handles the change, or refuses it, or is not reached.
Handle(kind) ==
  /\ flows[kind].step = "sent"
  /\ \/ Served(flows[kind]) /\ flows' = [flows EXCEPT ![kind].step = "done"] /\ UNCHANGED failures
     \/ /\ ~ENABLED Served(flows[kind])
        /\ flows' = [flows EXCEPT ![kind].step = "failed"] /\ UNCHANGED <<serverVars, failures>>
     \/ /\ failures < MaxFailures /\ failures' = failures + 1
        /\ flows' = [flows EXCEPT ![kind].step = "failed"] /\ UNCHANGED serverVars
  /\ UNCHANGED <<auth, view, busy, notice, card, exporting, warned, doubt, touches>>

Loading == [step |-> "loading", got |-> <<>>]

\* Seeded fault: a cleared override is told without a load.
HearDone_ClearUnloaded(kind) ==
  /\ flows[kind].step = "done"
  /\ IF kind \in Settings
     THEN /\ view' = [view EXCEPT !.thinking = IF flows[kind].arg THEN @ \cup {kind} ELSE @ \ {kind}]
          /\ UNCHANGED <<notice, busy>>
     ELSE /\ notice' = [error |-> Blank, success |-> kind]
          /\ busy' = IF kind = "clear" THEN "none" ELSE busy
          /\ UNCHANGED view
  /\ flows' = [flows EXCEPT ![kind] = IF kind \in Settings \cup {"clear"} THEN Off ELSE Loading]
  /\ doubt' = (doubt /\ (kind \in Settings \/ \E other \in Kinds \ {kind} : ~Resting(other)))
  /\ UNCHANGED <<auth, serverVars, card, exporting, warned, touches, failures>>

\* The answer comes: the page says so and loads, and is busy until it has loaded.
HearDone(kind) ==
  /\ flows[kind].step = "done"
  /\ IF kind \in Settings
     THEN /\ view' = [view EXCEPT !.thinking = IF flows[kind].arg THEN @ \cup {kind} ELSE @ \ {kind}]
          /\ flows' = [flows EXCEPT ![kind] = Off]
          /\ UNCHANGED notice
     ELSE /\ notice' = [error |-> Blank, success |-> kind]
          /\ flows' = [flows EXCEPT ![kind] = Loading]
          /\ UNCHANGED view
  /\ doubt' = (doubt /\ (kind \in Settings \/ \E other \in Kinds \ {kind} : ~Resting(other)))
  /\ UNCHANGED <<auth, serverVars, busy, card, exporting, warned, touches, failures>>

HearFailed(kind) ==
  /\ flows[kind].step = "failed"
  /\ notice' = [notice EXCEPT !.error = kind]
  /\ flows' = [flows EXCEPT ![kind] = Off]
  /\ busy' = IF kind \in Settings THEN busy ELSE "none"
  /\ UNCHANGED <<auth, serverVars, view, card, exporting, warned, doubt, touches, failures>>

\* One of the three requests of a load is answered.
Serve(kind, part) ==
  /\ flows[kind].step = "loading" /\ part \notin DOMAIN flows[kind].got
  /\ flows' = [flows EXCEPT ![kind].got =
       [p \in DOMAIN @ \cup {part} |-> IF p = part THEN Answer(part) ELSE @[p]]]
  /\ UNCHANGED <<auth, serverVars, view, busy, notice, card, exporting, warned, doubt, touches, failures>>

ViewOf(got) ==
  [shown |-> TRUE, owner |-> got["state"].owner, pairs |-> got["state"].pairs,
   override |-> got["state"].override, version |-> got["state"].version,
   current |-> got["targets"], thinking |-> got["thinking"]]

\* All three have come; whoever waited for them is through.
FinishLoad(kind) ==
  /\ flows[kind].step = "loading" /\ DOMAIN flows[kind].got = Parts
  /\ view' = ViewOf(flows[kind].got)
  /\ flows' = [flows EXCEPT ![kind] = Off]
  /\ busy' = "none"
  /\ UNCHANGED <<auth, serverVars, notice, card, exporting, warned, doubt, touches, failures>>

FailLoad(kind) ==
  /\ flows[kind].step = "loading" /\ failures < MaxFailures
  /\ notice' = [notice EXCEPT !.error = "load"]
  /\ flows' = [flows EXCEPT ![kind] = Off]
  /\ busy' = "none" /\ doubt' = TRUE /\ failures' = failures + 1
  /\ UNCHANGED <<auth, serverVars, view, card, exporting, warned, touches>>

--------------------------------------------------------------------------------
(* The status card, and what others do *)

CardState == [dir |-> dirInUse, owner |-> files[dirInUse].owner, override |-> override]

Poll ==
  /\ card' = CardState
  /\ UNCHANGED <<auth, serverVars, view, flows, busy, notice, exporting, warned, doubt, touches, failures>>

\* PUT and DELETE codex-dir: any absolute path that is not a file will do.
DirServed(dir) == dir # dirInUse /\ dirInUse' = dir /\ version' = version + 1

\* The directory is set or reset on the card, which loads itself again.
SetCodexDir(dir) ==
  /\ DirServed(dir) /\ Used(1)
  /\ card' = [dir |-> dir, owner |-> files[dir].owner, override |-> override]
  /\ UNCHANGED <<auth, files, pairs, override, thinking, entries, view, flows, busy, notice, exporting,
                 warned, doubt, failures>>

\* The rows of a user's timeline, and the newest of them.
RowsOf(user) == {n \in DOMAIN entries : entries[n].user = user}
NewestOf(rows) == CHOOSE n \in rows : \A m \in rows : m <= n

\* The rows codex-current-bundle chooses from.
FindEntry == RowsOf(Mine)

\* Export, with users: the server names a row, the browser follows to its files.
Export ==
  /\ auth = "on" /\ exporting = Off /\ Used(1)
  /\ exporting' = IF FindEntry = {} THEN Off
                  ELSE [step |-> "following", row |-> NewestOf(FindEntry),
                        last |-> IF RowsOf(Me) = {} THEN Blank ELSE entries[NewestOf(RowsOf(Me))].target]
  /\ UNCHANGED <<auth, serverVars, view, flows, busy, notice, card, warned, doubt, failures>>

Follow ==
  /\ exporting.step = "following"
  /\ exporting' = [exporting EXCEPT !.step = IF exporting.row \in DOMAIN entries THEN "saved" ELSE "failed"]
  /\ UNCHANGED <<auth, serverVars, view, flows, busy, notice, card, warned, doubt, touches, failures>>

\* Import, with users: the pasted files are a row of the user's timeline.
Import(user, target) ==
  /\ auth = "on" /\ Used(1)
  /\ entries' = Append(entries, [user |-> user, target |-> target])
  /\ UNCHANGED <<auth, dirInUse, files, pairs, override, thinking, version, screenVars, warned, doubt, failures>>

\* Codex is logged in again; another tab sets or clears the override.
Elsewhere ==
  /\ Used(1)
  /\ \/ /\ \E dir \in CodexDirs : files' = [files EXCEPT ![dir].owner = "external"]
        /\ version' = version + 1
        /\ UNCHANGED <<override, doubt>>
     \/ /\ override' \in Keyed \cup {Blank} /\ override' # override
        /\ doubt' = TRUE
        /\ UNCHANGED <<files, version>>
  /\ UNCHANGED <<auth, dirInUse, pairs, thinking, entries, screenVars, warned, failures>>

--------------------------------------------------------------------------------
CodexPageInit ==
  /\ auth \in Modes
  /\ dirInUse = CHOOSE dir \in CodexDirs : TRUE     \* the default one
  /\ files \in [CodexDirs -> {[owner |-> o, target |-> Blank] : o \in {"missing", "external"}}]
  /\ pairs = {} /\ override = Blank /\ thinking = {} /\ entries = <<>>
  /\ view = [shown |-> FALSE, version |-> 0]
  /\ flows = [kind \in Kinds |-> IF kind = "mount" THEN Loading ELSE Off]
  /\ busy = "none" /\ notice = [error |-> Blank, success |-> Blank]
  /\ card = CardState /\ exporting = Off
  /\ version = 0 /\ warned = {} /\ doubt = FALSE /\ touches = 0 /\ failures = 0

CodexPageNext ==
  \/ \E t \in Targets : ClickApply(t) \/ ClickOverride(t)
  \/ view.shown /\ \E p \in view.pairs : ClickRestore(p) \/ ClickDelete(p)
  \/ ClickClear
  \/ \E name \in Settings : ClickSwitch(name)
  \/ \E kind \in Kinds : Handle(kind) \/ HearDone(kind) \/ HearFailed(kind) \/ FinishLoad(kind) \/ FailLoad(kind)
  \/ \E kind \in Kinds, part \in Parts : Serve(kind, part)
  \/ Poll
  \/ \E dir \in CodexDirs : SetCodexDir(dir)
  \/ Export \/ Follow
  \/ \E user \in {Me, "other"}, t \in Targets : Import(user, t)
  \/ Elsewhere

--------------------------------------------------------------------------------
(* Properties *)

\* A preserved pair, the only way back to a login, goes only when the user said so
\* to the question that names it as that (admin/router.ts: "so a careless click
\* can't lose the only path back"), whichever directory the page was loaded from;
\* and an auth.json that is not ours is overwritten by an apply only after a
\* question, unless it came there after the page had loaded (CodexEnable.tsx,
\* onApplyClick).
WarnedBeforeLoss ==
  [][/\ \A p \in pairs \ pairs' : p.preserved => p.ts \in warned
     /\ flows["apply"].step = "sent" /\ flows'["apply"].step = "done"
          /\ auth = "off" /\ files[dirInUse].owner = "external"
            => flows["apply"].asked \/ flows["apply"].version # version]_codexPageVars

\* When nothing is under way and no change overlapped a load, the page shows what
\* the server has, but for what happened elsewhere since: the two places that show
\* the override agree, the pairs are those of the directory it was loaded from, and
\* nothing this page did is missing (CodexEnable.tsx: every change awaits a load).
PageSettles ==
  Calm /\ view.shown /\ ~doubt =>
    /\ view.thinking = thinking /\ view.override = override /\ view.current = override
    /\ view.version = version => /\ view.pairs = PairsIn(dirInUse)
                                 /\ view.owner = files[dirInUse].owner
    /\ busy = "none"

\* What a user exports is the last configuration of that user's own timeline when
\* the export was asked for, whatever other users record meanwhile
\* (admin/router.ts, codex-current-bundle).
ExportIsMine ==
  exporting.step = "saved" => entries[exporting.row] = [user |-> Me, target |-> exporting.last]

\* Both together: what the page shows and hands out is what the server has.
PageIsTrue == PageSettles /\ ExportIsMine
================================================================================
