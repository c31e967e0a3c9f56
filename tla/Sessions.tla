-------------------------------- MODULE Sessions --------------------------------
(***************************************************************************)
(* The session manager of the console: src/web/src/pages/sessions, the     *)
(* codex routes of src/src/admin/router.ts it uses and the modules         *)
(* src/src/codex/sessions.ts, transcript.ts and restart.ts behind them.    *)
(*                                                                         *)
(* Codex Desktop tags a session with a provider twice: in the session's    *)
(* row of its database and in the first line of the session's rollout      *)
(* file.  To move a session the server copies both, commits the row and    *)
(* then rewrites the file.  It answers one request at a time, but it may   *)
(* stop between two of those steps, and Codex writes whenever it runs.     *)
(***************************************************************************)
EXTENDS Naturals, Sequences, FiniteSets

CONSTANTS
  Threads,       \* Codex's sessions
  Homes,         \* provider keys a session can be tagged with
  Dialogs,       \* migrations a page may have under way: a dialog can be closed
                 \* while its requests go on
  Lines,         \* lines Codex writes: [kind, call]
  MaxWrites,     \* bound: lines it writes and sessions it removes
  Found,         \* what the page may find: [rows, place, lines, codex]
  MaxClicks      \* bound: migrations, previews, reloads, launches and stops of the server

LineRecords == [kind : {"message", "hidden", "call", "output"}, call : STRING]

ASSUME SessionsAssumption ==
  /\ "" \notin Homes
  /\ {"page", "codex"} \cap Dialogs = {}
  /\ Lines \subseteq LineRecords
  /\ \A start \in Found : /\ start.rows \in [Threads -> Homes]
                          /\ start.place \in [Threads -> {"stored", "elsewhere", "missing"}]
                          /\ start.lines \in [Threads -> Seq(LineRecords)]
  /\ MaxWrites \in Nat /\ MaxClicks \in Nat

VARIABLES
  rows,          \* threads.model_provider of each session, "" when it is deleted
  rollouts,      \* each session's rollout: its tag and its lines
  place,         \* where that file is: "stored" as in the row, "elsewhere" or "missing"
  codex,         \* Codex Desktop: "off", "on" or "writing" with its database locked
  task,          \* the migration the server works on
  list,          \* the sessions the page shows
  loads,         \* lists on their way to the page, by who asked
  dialogs,       \* the confirmed migrations
  said,          \* the page's message
  preview,       \* the preview drawer
  texts,         \* transcripts on their way to the page
  clicks,        \* for the bounds
  written,
  wrote,         \* history: what Codex wrote to each rollout
  torn,          \* history: sessions it wrote to while their file was rewritten
  split,         \* history: sessions whose last migration stopped halfway
  mover          \* history: who changed each row last, a dialog, "codex" or "nobody", and
                 \* the dialogs that were confirmed before

codexVars == <<codex, wrote, torn>>
listVars == <<list, loads, dialogs, said>>
previewVars == <<preview, texts>>
historyVars == <<wrote, torn, split, mover>>
bounds == <<clicks, written>>
sessionsVars == <<rows, rollouts, place, codex, task, listVars, previewVars, bounds,
                  historyVars>>

By(who) == [by |-> who, after |-> Dialogs]

Click(n) == clicks + n <= MaxClicks /\ clicks' = clicks + n /\ UNCHANGED written

NoTask == [step |-> "none"]
NoDialog == [phase |-> "none"]
NoText == [items |-> "none"]
Silence == [error |-> "", success |-> [ok |-> 0, fail |-> 0]]

--------------------------------------------------------------------------------
(* Codex Desktop, and the routes that launch and restart it *)

CodexWrites(thread, line) ==
  /\ codex = "on" /\ written < MaxWrites /\ written' = written + 1
  /\ rollouts' = [rollouts EXCEPT ![thread].lines = Append(@, line)]
  /\ wrote' = [wrote EXCEPT ![thread] = Append(@, line)]
  /\ torn' = IF task.step = "write" /\ task.thread = thread THEN torn \cup {thread} ELSE torn
  /\ UNCHANGED <<rows, place, codex, task, listVars, previewVars, clicks, split, mover>>

\* A transaction of Codex: it may remove a session.
CodexLocks == codex = "on" /\ codex' = "writing" /\ UNCHANGED <<rows, mover, bounds>>

CodexCommits ==
  /\ codex = "writing" /\ codex' = "on" /\ UNCHANGED clicks
  /\ \/ UNCHANGED <<rows, mover, written>>
     \/ \E thread \in Threads :
          /\ rows[thread] # "" /\ written < MaxWrites /\ written' = written + 1
          /\ rows' = [rows EXCEPT ![thread] = ""] /\ mover' = [mover EXCEPT ![thread] = By("codex")]

CodexQuits == codex # "off" /\ codex' = "off" /\ UNCHANGED <<rows, mover, bounds>>

\* launchCodex; restartCodex kills what runs and launches it, if it finds it.
LaunchCodex == codex = "off" /\ codex' = "on" /\ Click(1) /\ UNCHANGED <<rows, mover>>
RestartCodex == codex # "off" /\ codex' \in {"on", "off"} /\ UNCHANGED <<rows, mover, bounds>>

CodexRuns ==
  /\ CodexLocks \/ CodexCommits \/ CodexQuits \/ LaunchCodex \/ RestartCodex
  /\ UNCHANGED <<rollouts, place, task, listVars, previewVars, wrote, torn, split>>

--------------------------------------------------------------------------------
(* The page: its list and its migrations *)

ListNow == [thread \in {t \in Threads : rows[t] # ""} |-> rows[thread]]

\* load(): the error goes, the list is asked for; the server answers between two
\* migrations; answers may overtake each other.
AskForList(who) ==
  /\ loads' = [loads EXCEPT ![who] = [step |-> "asked"]]

Refresh ==
  /\ loads["page"].step = "none" /\ Click(1)
  /\ AskForList("page") /\ said' = [said EXCEPT !.error = ""]
  /\ UNCHANGED <<rows, rollouts, place, codex, task, list, dialogs, previewVars, historyVars>>

ServeList(who) ==
  /\ task = NoTask /\ loads[who].step = "asked"
  /\ loads' = [loads EXCEPT ![who] = [step |-> "answered", list |-> ListNow]]
  /\ UNCHANGED <<rows, rollouts, place, codex, task, list, dialogs, said, previewVars, bounds, historyVars>>

\* A batch that has its list clears the selection and says how it went.
Tell(d) ==
  LET it == dialogs[d]
  IN IF ~it.batch THEN said
     ELSE IF it.aborted THEN [said EXCEPT !.error = "codexRunning"]
     ELSE [said EXCEPT !.success = [ok |-> Cardinality(it.ok), fail |-> Cardinality(it.fail)]]

ListArrives(who) ==
  /\ loads[who].step = "answered"
  /\ list' = loads[who].list
  /\ loads' = [loads EXCEPT ![who] = [step |-> "none"]]
  /\ IF who \in Dialogs
     THEN said' = Tell(who) /\ dialogs' = [dialogs EXCEPT ![who] = NoDialog]
     ELSE UNCHANGED <<said, dialogs>>
  /\ UNCHANGED <<rows, rollouts, place, codex, task, previewVars, bounds, historyVars>>

\* onMigrate and onBatchMigrate, confirmed: the ids are those selected from the list
\* at some time, one request after the other.
Confirm(d, chosen, to, batch) ==
  /\ dialogs[d] = NoDialog /\ Click(Cardinality(chosen))
  /\ chosen # {} /\ (~batch => Cardinality(chosen) = 1)
  /\ chosen \subseteq DOMAIN list
  /\ dialogs' = [dialogs EXCEPT ![d] =
       [phase |-> "asking", batch |-> batch, to |-> to, todo |-> chosen,
        ok |-> {}, fail |-> {}, aborted |-> FALSE]]
  /\ said' = Silence
  /\ mover' = [t \in Threads |-> [mover[t] EXCEPT !.after = @ \ {d}]]
  /\ UNCHANGED <<rows, rollouts, place, codex, task, list, loads, previewVars, wrote, torn, split>>

\* Seeded fault: a locked database counts as any other answer.
Answered_BusyIsOk(d, thread, result) ==
  LET it == dialogs[d]
      rest == it.todo \ {thread}
      told == [it EXCEPT !.todo = rest,
                 !.ok = IF result # "failed" THEN @ \cup {thread} ELSE @,
                 !.fail = IF result = "failed" THEN @ \cup {thread} ELSE @]
  IN /\ task' = NoTask
     /\ IF ~it.batch /\ result = "failed"
        THEN /\ dialogs' = [dialogs EXCEPT ![d] = NoDialog]
             /\ said' = [said EXCEPT !.error = result]
             /\ UNCHANGED loads
        ELSE /\ dialogs' = [dialogs EXCEPT ![d] = IF rest = {} THEN [told EXCEPT !.phase = "loading"]
                                                  ELSE told]
             /\ IF rest = {}
                THEN /\ AskForList(d)
                     /\ said' = [error |-> "",
                                 success |-> IF it.batch THEN said.success ELSE [ok |-> 1, fail |-> 0]]
                ELSE UNCHANGED <<said, loads>>

\* The answer to one request: the batch goes on, or ends when Codex holds the
\* database; a single migration reloads the list only when it succeeded.
Answered(d, thread, result) ==
  LET it == dialogs[d]
      rest == it.todo \ {thread}
      told == [it EXCEPT !.todo = rest,
                 !.ok = IF result = "ok" THEN @ \cup {thread} ELSE @,
                 !.fail = IF result = "failed" THEN @ \cup {thread} ELSE @,
                 !.aborted = result = "codexRunning"]
      over == rest = {} \/ result = "codexRunning"
  IN /\ task' = NoTask
     /\ IF ~it.batch /\ result # "ok"
        THEN /\ dialogs' = [dialogs EXCEPT ![d] = NoDialog]
             /\ said' = [said EXCEPT !.error = result]
             /\ UNCHANGED loads
        ELSE /\ dialogs' = [dialogs EXCEPT ![d] = IF over THEN [told EXCEPT !.phase = "loading"]
                                                  ELSE told]
             /\ IF over
                THEN /\ AskForList(d)
                     /\ said' = [error |-> "",
                                 success |-> IF it.batch THEN said.success ELSE [ok |-> 1, fail |-> 0]]
                ELSE UNCHANGED <<said, loads>>

--------------------------------------------------------------------------------
(* The server: migrateSessionProvider *)

\* It reads the row and copies the database and the rollout.
TakeUp(d, thread) ==
  /\ task = NoTask /\ dialogs[d].phase = "asking" /\ thread \in dialogs[d].todo
  /\ IF rows[thread] = ""
     THEN Answered(d, thread, "failed")
     ELSE /\ task' = [step |-> "commit", dialog |-> d, thread |-> thread, to |-> dialogs[d].to]
          /\ UNCHANGED <<loads, dialogs, said>>
  /\ UNCHANGED <<rows, rollouts, place, codex, list, previewVars, bounds, historyVars>>

\* BEGIN IMMEDIATE fails when Codex holds the lock longer than the busy timeout.
CommitRow ==
  /\ task.step = "commit"
  /\ IF codex = "writing"
     THEN Answered(task.dialog, task.thread, "codexRunning") /\ UNCHANGED <<rows, mover, split>>
     ELSE /\ IF rows[task.thread] = "" THEN UNCHANGED <<rows, mover>>
             ELSE /\ rows' = [rows EXCEPT ![task.thread] = task.to]
                  /\ mover' = [mover EXCEPT ![task.thread] = By(task.dialog)]
          /\ task' = [task EXCEPT !.step = "read"]
          /\ UNCHANGED <<loads, dialogs, said, split>>
  /\ UNCHANGED <<rollouts, place, codex, list, previewVars, bounds, wrote, torn>>

\* rewriteRolloutProvider: the whole file is read and written back with another
\* first line; a file that is not there is passed over.
ReadRollout ==
  /\ task.step = "read"
  /\ IF place[task.thread] = "stored"
     THEN /\ task' = [step |-> "write", dialog |-> task.dialog, thread |-> task.thread,
                      to |-> task.to, lines |-> rollouts[task.thread].lines]
          /\ UNCHANGED <<loads, dialogs, said>>
     ELSE Answered(task.dialog, task.thread, "ok")
  /\ UNCHANGED <<rows, rollouts, place, codex, list, previewVars, bounds, historyVars>>

WriteRollout ==
  /\ task.step = "write"
  /\ rollouts' = [rollouts EXCEPT ![task.thread] = [tag |-> task.to, lines |-> task.lines]]
  /\ split' = split \ {task.thread}
  /\ Answered(task.dialog, task.thread, "ok")
  /\ UNCHANGED <<rows, place, codex, list, previewVars, bounds, wrote, torn, mover>>

\* The server stops in the middle of a migration and is started again.
ServerStops ==
  /\ task # NoTask /\ Click(1)
  /\ split' = IF task.step = "commit" THEN split ELSE split \cup {task.thread}
  /\ Answered(task.dialog, task.thread, "failed")
  /\ UNCHANGED <<rows, rollouts, place, codex, list, previewVars, wrote, torn, mover>>

--------------------------------------------------------------------------------
(* The preview: parseTranscript and the drawer *)

\* Seeded fault: an output is put with the call before it.
Transcript_ByPosition(lines) ==
  LET after[n \in 0..Len(lines)] ==
        IF n = 0 THEN <<>>
        ELSE LET before == after[n - 1]
             IN CASE lines[n].kind \in {"message", "call"} ->
                       Append(before, [line |-> n, output |-> 0])
                  [] lines[n].kind = "output" /\ before # <<>> ->
                       [before EXCEPT ![Len(before)].output = n]
                  [] OTHER -> before
  IN after[Len(lines)]

\* One item for each message and call; an output is put with the call that last
\* used its id, wherever that is in the file.
Transcript(lines) ==
  LET after[n \in 0..Len(lines)] ==
        IF n = 0 THEN [items |-> <<>>, open |-> <<>>]
        ELSE LET before == after[n - 1]
                 line == lines[n]
                 added == Append(before.items, [line |-> n, output |-> 0])
             IN CASE line.kind = "message" -> [before EXCEPT !.items = added]
                  [] line.kind = "call" ->
                       [items |-> added,
                        open |-> [c \in DOMAIN before.open \cup {line.call} |->
                                    IF c = line.call THEN Len(added) ELSE before.open[c]]]
                  [] line.kind = "output" /\ line.call \in DOMAIN before.open ->
                       [before EXCEPT !.items[before.open[line.call]].output = n]
                  [] OTHER -> before
  IN after[Len(lines)].items

OpenPreview(thread) ==
  /\ preview.of = "" /\ thread \in DOMAIN list /\ Click(1)
  /\ preview' = [of |-> thread, loading |-> TRUE, text |-> NoText]
  /\ texts' = texts \cup {[step |-> "asked", of |-> thread]}

\* The file is found where the row says, or else by its name.
ServeTranscript(thread) ==
  /\ task = NoTask /\ [step |-> "asked", of |-> thread] \in texts
  /\ texts' = (texts \ {[step |-> "asked", of |-> thread]})
       \cup {[step |-> "answered", of |-> thread,
              text |-> IF place[thread] = "missing" THEN NoText
                       ELSE [lines |-> rollouts[thread].lines,
                             items |-> Transcript(rollouts[thread].lines)]]}
  /\ UNCHANGED <<preview, bounds>>

\* The drawer takes whatever answer comes; what it holds while it is closed is
\* gone when it is opened again.
NoPreview == [of |-> "", loading |-> FALSE, text |-> NoText]

TextArrives ==
  /\ \E t \in texts :
       /\ t.step = "answered" /\ texts' = texts \ {t}
       /\ preview' = IF preview.of = "" THEN preview
                     ELSE [preview EXCEPT !.loading = FALSE, !.text = t.text]
  /\ UNCHANGED bounds

ClosePreview == preview.of # "" /\ preview' = NoPreview /\ UNCHANGED <<texts, bounds>>

Previews ==
  /\ \/ \E thread \in Threads : OpenPreview(thread) \/ ServeTranscript(thread)
     \/ TextArrives
     \/ ClosePreview
  /\ UNCHANGED <<rows, rollouts, place, codex, task, listVars, historyVars>>

--------------------------------------------------------------------------------
SessionsInit ==
  /\ \E start \in Found : /\ rows = start.rows /\ place = start.place
                          /\ wrote = start.lines /\ codex = start.codex
  /\ rollouts = [t \in Threads |-> [tag |-> rows[t], lines |-> wrote[t]]]
  /\ list = rows
  /\ task = NoTask
  /\ loads = [who \in Dialogs \cup {"page"} |-> [step |-> "none"]]
  /\ dialogs = [d \in Dialogs |-> NoDialog]
  /\ said = Silence
  /\ preview = NoPreview /\ texts = {}
  /\ clicks = 0 /\ written = 0 /\ torn = {} /\ split = {}
  /\ mover = [t \in Threads |-> [by |-> "nobody", after |-> {}]]

SessionsNext ==
  \/ \E t \in Threads, line \in Lines : CodexWrites(t, line)
  \/ CodexRuns
  \/ Refresh
  \/ \E who \in Dialogs \cup {"page"} : ServeList(who) \/ ListArrives(who)
  \/ \E d \in Dialogs, chosen \in SUBSET Threads, to \in Homes, batch \in BOOLEAN :
       Confirm(d, chosen, to, batch)
  \/ \E d \in Dialogs, t \in Threads : TakeUp(d, t)
  \/ CommitRow \/ ReadRollout \/ WriteRollout \/ ServerStops
  \/ Previews

SessionsSpec == SessionsInit /\ [][SessionsNext]_sessionsVars

--------------------------------------------------------------------------------
(* Properties *)

\* A migration leaves the two places that name a session's provider in agreement
\* (sessions.ts: "so the on-disk session record stays consistent with the threads
\* row") unless the server stopped between them, and then until the session is
\* migrated again; and it loses no line of the rollout unless Codex wrote to the
\* file while it was rewritten.
MigrationKeeps ==
  \A t \in Threads :
    /\ place[t] = "stored" /\ rows[t] # "" /\ t \notin split /\ (task # NoTask => task.thread # t)
         => rollouts[t].tag = rows[t]
    /\ t \notin torn => rollouts[t].lines = wrote[t]

\* When a batch says what it did, every session it counts as migrated had its row
\* changed since the batch was confirmed, is shown under the provider it was moved
\* to unless it was changed again, and the two numbers make up the sessions that
\* were confirmed (Sessions.tsx, onBatchMigrate: the list is loaded before the
\* result is told).
ChangedSince(d, t) == d \in mover[t].after
MovedBy(d, t) == mover[t].by = d /\ ChangedSince(d, t)
BatchTold ==
  [][\A d \in Dialogs :
       dialogs[d].phase = "loading" /\ dialogs[d].batch /\ dialogs'[d] = NoDialog =>
         /\ \A t \in dialogs[d].ok :
              /\ ChangedSince(d, t)
              /\ MovedBy(d, t) => t \in DOMAIN list' /\ list'[t] = dialogs[d].to
         /\ said'.error = "" => dialogs[d].todo = {}
         /\ \A t \in dialogs[d].ok \ split :
              place[t] = "stored" /\ MovedBy(d, t) => rollouts[t].tag = dialogs[d].to]_sessionsVars

\* Both together: what is moved stays whole, and what is told of it is so.
MovedAsTold == []MigrationKeeps /\ BatchTold

\* A transcript has the file's messages and calls in their order, and each call has
\* the last output written for it before its id was used again (transcript.ts,
\* parseTranscript).
Said(line) == line.kind \in {"message", "call"}
OutputOf(lines, n) ==
  LET again == {k \in n+1..Len(lines) : lines[k] = lines[n]}
      outputs == {k \in n+1..Len(lines) : /\ lines[k].kind = "output" /\ lines[k].call = lines[n].call
                                          /\ \A a \in again : k < a}
  IN IF lines[n].kind = "call" /\ outputs # {}
     THEN CHOOSE k \in outputs : \A o \in outputs : o <= k ELSE 0
OutputsShown ==
  preview.text # NoText =>
    LET lines == preview.text.lines
        items == preview.text.items
        shown == {n \in DOMAIN lines : Said(lines[n])}
    IN /\ {items[k].line : k \in DOMAIN items} = shown
       /\ \A j, k \in DOMAIN items : j < k => items[j].line < items[k].line
       /\ \A k \in DOMAIN items : items[k].output = OutputOf(lines, items[k].line)
================================================================================
