-------------------------------- MODULE Desktop ---------------------------------
(***************************************************************************)
(* The desktop shell around the router: SidecarManager                     *)
(* (src/package/desktop/src/sidecar.ts), the launch, restart, save and     *)
(* quit of main.ts, the settings window (windows/settings.ts), the data    *)
(* directory it can move (dataDir.ts) and the signal file that the admin   *)
(* pages send to it through the router (signalWatcher.ts and the route     *)
(* desktop/signal of src/src/admin/router.ts).                             *)
(*                                                                         *)
(* The router is a process of its own: it writes, dies and is killed while *)
(* the shell runs.  The shell is one thread: what it does between two      *)
(* awaits is one step, except the copy of a data directory, during which   *)
(* the router goes on writing.  A directory is abstracted to whether it    *)
(* has a database, the rows of it, and whether its .env has a usable key.  *)
(***************************************************************************)
EXTENDS Integers, Sequences, FiniteSets

CONSTANTS
  Dirs, Default,   \* data directories; the one Electron gives
  MaxRestarts,     \* automatic restarts after a start
  Slots,           \* restarts, saves and quits that may run at the same time
  MaxOps, MaxCrashes, MaxRows, MaxSignals, MaxLaunches   \* bounds

ASSUME DesktopAssumption ==
  /\ Default \in Dirs
  /\ MaxRestarts \in Nat
  /\ {MaxOps, MaxCrashes, MaxRows, MaxSignals, MaxLaunches} \subseteq Nat

VARIABLES
  app,       \* the shell: up, the settings window, the directory watched
  sidecar,   \* the SidecarManager
  routers,   \* the router processes ever spawned
  op,        \* the restart, save or quit in each slot
  disk,      \* the data directories
  marker,    \* data-dir-override.txt: the directory the data is in
  signal,    \* .desktop-signal.json of each directory: the launch it is from
  written,   \* history: the rows written
  used       \* counters of the bounds

vars == <<app, sidecar, routers, op, disk, marker, signal, written, used>>

Idle == [kind |-> "idle", phase |-> "idle", child |-> 0]
NoChild == 0
NoSignal == 0

Alive(p) == routers[p].state \in {"up", "term", "kill"}
Busy(o)  == op[o].phase # "idle"

\* Continuations and the save handler run before the next event of the shell.
Settled == app.up /\ \A o \in Slots : op[o].phase \notin {"copied", "stopped"}

Count(what) == used' = [used EXCEPT ![what] = @ + 1]
Within(what, max) == used[what] < max

--------------------------------------------------------------------------------
\* spawnOnce, with routers and disk as they are before: the process opens, and
\* if need be makes, the database of its directory.
Child(n) == [sidecar EXCEPT !.child = n, !.status = "running"]
Spawned(rs, dir) == Append(rs, [dir |-> dir, state |-> "up"])
Opened(dir) == [disk EXCEPT ![dir].db = TRUE]

\* start: the intentional stop is forgotten and the budget restored.
Start(dir) ==
  /\ routers' = Spawned(routers, dir)
  /\ disk' = Opened(dir)
  /\ sidecar' = [Child(Len(routers) + 1) EXCEPT !.intentional = FALSE, !.budget = MaxRestarts, !.dir = dir]

NewSidecar(dir) == [child |-> NoChild, intentional |-> FALSE, budget |-> MaxRestarts, status |-> "starting", dir |-> dir]

Init ==
  /\ app = [up |-> FALSE, window |-> FALSE, watch |-> Default]
  /\ sidecar = NewSidecar(Default)
  /\ routers = <<>>
  /\ op = [o \in Slots |-> Idle]
  /\ disk \in [Dirs -> {[db |-> FALSE, rows |-> {}, key |-> FALSE]}]
  /\ marker = Default
  /\ signal = [d \in Dirs |-> NoSignal]
  /\ written = {}
  /\ used = [launch |-> 0, op |-> 0, crash |-> 0, signal |-> 0]

\* main: a left-over signal is wiped, then the router started; on a first run,
\* without a usable key, the settings window opens instead.
Launch ==
  /\ ~app.up /\ Within("launch", MaxLaunches)
  /\ app' = [up |-> TRUE, window |-> ~disk[marker].key, watch |-> marker]
  /\ signal' = [signal EXCEPT ![marker] = NoSignal]
  /\ IF disk[marker].key THEN Start(marker) ELSE sidecar' = NewSidecar(marker) /\ UNCHANGED <<routers, disk>>
  /\ op' = [o \in Slots |-> Idle]
  /\ Count("launch")
  /\ UNCHANGED <<marker, written>>

--------------------------------------------------------------------------------
\* The router processes.
Insert(p) ==
  /\ Alive(p)
  /\ Cardinality(written) < MaxRows
  /\ LET row == Cardinality(written) + 1
     IN  /\ disk' = [disk EXCEPT ![routers[p].dir].rows = @ \cup {row}]
         /\ written' = written \cup {row}
  /\ UNCHANGED <<app, sidecar, routers, op, marker, signal, used>>

PostSignal(p) ==
  /\ Alive(p) /\ Within("signal", MaxSignals)
  /\ signal' = [signal EXCEPT ![routers[p].dir] = used.launch]
  /\ Count("signal")
  /\ UNCHANGED <<app, sidecar, routers, op, disk, marker, written>>

Crash(p) ==
  /\ Alive(p) /\ Within("crash", MaxCrashes)
  /\ routers' = [routers EXCEPT ![p].state = "dead"]
  /\ Count("crash")
  /\ UNCHANGED <<app, sidecar, op, disk, marker, signal, written>>

\* A router asked to end may hang; a killed one dies.
ObeysTerm(p) ==
  /\ routers[p].state = "term"
  /\ routers' = [routers EXCEPT ![p].state = "dead"]
  /\ UNCHANGED <<app, sidecar, op, disk, marker, signal, written, used>>

Dies(p) ==
  /\ routers[p].state = "kill"
  /\ routers' = [routers EXCEPT ![p].state = "dead"]
  /\ UNCHANGED <<app, sidecar, op, disk, marker, signal, written, used>>

Sent(rs, p, state) == IF rs[p].state \in {"up", "term"} THEN [rs EXCEPT ![p].state = state] ELSE rs

\* The stops that wait for the exit of p go on; one that was within its grace
\* kills the child there is now.
Resumed(p) == [o \in Slots |-> IF op[o].phase \in {"stopping", "killing"} /\ op[o].child = p
                               THEN [op[o] EXCEPT !.phase = "stopped"] ELSE op[o]]
Awaited(p) == \E o \in Slots : op[o].phase = "stopping" /\ op[o].child = p

OnExit_ForgetsIntent(p) ==
  /\ Settled
  /\ routers[p].state = "dead"
  /\ LET reaped == [routers EXCEPT ![p].state = "reaped"]
         again  == sidecar.budget > 0
     IN  /\ sidecar' = IF again THEN [Child(Len(routers) + 1) EXCEPT !.budget = @ - 1]
                       ELSE [sidecar EXCEPT !.child = NoChild, !.status = "crashed"]
         /\ routers' = IF again THEN Spawned(reaped, sidecar.dir) ELSE reaped
         /\ disk' = IF again THEN Opened(sidecar.dir) ELSE disk
  /\ op' = Resumed(p)
  /\ UNCHANGED <<app, marker, signal, written, used>>

\* onExit of any child, then the continuations of the stops that wait for it.
OnExit(p) ==
  /\ Settled
  /\ routers[p].state = "dead"
  /\ LET reaped == [routers EXCEPT ![p].state = "reaped"]
         again  == ~sidecar.intentional /\ sidecar.budget > 0
         next   == Len(routers) + 1
     IN  /\ sidecar' =
              CASE again -> [Child(next) EXCEPT !.budget = @ - 1]
                [] ~again /\ sidecar.intentional -> [sidecar EXCEPT !.child = NoChild]
                [] OTHER -> [sidecar EXCEPT !.child = NoChild, !.status = "crashed"]
         /\ routers' =
              IF ~again THEN reaped
              ELSE IF Awaited(p) THEN Sent(Spawned(reaped, sidecar.dir), next, "kill")
              ELSE Spawned(reaped, sidecar.dir)
         /\ disk' = IF again THEN Opened(sidecar.dir) ELSE disk
  /\ op' = Resumed(p)
  /\ UNCHANGED <<app, marker, signal, written, used>>

--------------------------------------------------------------------------------
\* stop up to its await: nothing to do without a child, else SIGTERM.
BeginStop(o, kind) ==
  IF sidecar.child = NoChild
  THEN /\ op' = [op EXCEPT ![o] = [Idle EXCEPT !.kind = kind, !.phase = "stopped"]]
       /\ UNCHANGED <<sidecar, routers>>
  ELSE /\ op' = [op EXCEPT ![o] = [kind |-> kind, phase |-> "stopping", child |-> sidecar.child]]
       /\ sidecar' = [sidecar EXCEPT !.intentional = TRUE]
       /\ routers' = Sent(routers, sidecar.child, "term")

GraceEnds_AsksAgain(o) ==
  /\ Settled
  /\ op[o].phase = "stopping"
  /\ IF sidecar.child = NoChild
     THEN op' = [op EXCEPT ![o].phase = "stopped"] /\ UNCHANGED routers
     ELSE op' = [op EXCEPT ![o].phase = "killing"] /\ routers' = Sent(routers, sidecar.child, "term")
  /\ UNCHANGED <<app, sidecar, disk, marker, signal, written, used>>

\* killGraceMs have passed: the child there is now gets SIGKILL.
GraceEnds(o) ==
  /\ Settled
  /\ op[o].phase = "stopping"
  /\ IF sidecar.child = NoChild
     THEN op' = [op EXCEPT ![o].phase = "stopped"] /\ UNCHANGED routers
     ELSE op' = [op EXCEPT ![o].phase = "killing"] /\ routers' = Sent(routers, sidecar.child, "kill")
  /\ UNCHANGED <<app, sidecar, disk, marker, signal, written, used>>

Ready(o) == Settled /\ ~Busy(o) /\ Within("op", MaxOps)

\* The tray's restart
Restart(o) ==
  /\ Ready(o)
  /\ BeginStop(o, "restart")
  /\ Count("op")
  /\ UNCHANGED <<app, disk, marker, signal, written>>

EndRestart(o) ==
  /\ app.up
  /\ op[o].kind = "restart" /\ op[o].phase = "stopped"
  /\ Start(sidecar.dir)
  /\ op' = [op EXCEPT ![o] = Idle]
  /\ UNCHANGED <<app, marker, signal, written, used>>

\* before-quit, and the cancelled first run: after a crash nothing is stopped.
Quit(o) ==
  /\ Ready(o)
  /\ \A other \in Slots : op[other].kind # "quit"
  /\ IF sidecar.status = "crashed"
     THEN app' = [app EXCEPT !.up = FALSE, !.window = FALSE] /\ UNCHANGED <<sidecar, routers, op>>
     ELSE BeginStop(o, "quit") /\ UNCHANGED app
  /\ Count("op")
  /\ UNCHANGED <<disk, marker, signal, written>>

EndQuit(o) ==
  /\ app.up
  /\ op[o].kind = "quit" /\ op[o].phase = "stopped"
  /\ app' = [app EXCEPT !.up = FALSE, !.window = FALSE]
  /\ op' = [other \in Slots |-> Idle]
  /\ UNCHANGED <<sidecar, routers, disk, marker, signal, written, used>>

--------------------------------------------------------------------------------
OpenSettings ==
  /\ Settled /\ ~app.window
  /\ app' = [app EXCEPT !.window = TRUE]
  /\ UNCHANGED <<sidecar, routers, op, disk, marker, signal, written, used>>

CloseSettings ==
  /\ Settled /\ app.window
  /\ app' = [app EXCEPT !.window = FALSE]
  /\ UNCHANGED <<sidecar, routers, op, disk, marker, signal, written, used>>

\* cpSync with force off: what is there already is left as it is.
Copied(from, to) ==
  [disk EXCEPT ![to].db = disk[from].db \/ @, ![to].rows = IF disk[to].db THEN @ ELSE disk[from].rows]
SignalCopied(from, to) == IF signal[to] = NoSignal THEN [signal EXCEPT ![to] = signal[from]] ELSE signal

\* settings:save, its synchronous half: setDataDir when the directory changes,
\* then saveRuntime and writeEnv.
Save(o, dir, key) ==
  /\ Ready(o) /\ app.window
  /\ disk' = LET copied == IF dir = marker THEN disk ELSE Copied(marker, dir)
             IN  [copied EXCEPT ![dir].key = key]
  /\ signal' = IF dir = marker THEN signal ELSE SignalCopied(marker, dir)
  /\ marker' = dir
  /\ op' = [op EXCEPT ![o] = [Idle EXCEPT !.kind = "save", !.phase = "copied"]]
  /\ Count("op")
  /\ UNCHANGED <<app, sidecar, routers, written>>

\* setDataDir throws: some of the files are there, the window stays open.
SaveFails(o, dir) ==
  /\ Ready(o) /\ app.window
  /\ dir # marker
  /\ disk' \in {disk, Copied(marker, dir)}
  /\ Count("op")
  /\ UNCHANGED <<app, sidecar, routers, op, marker, signal, written>>

\* The window closes and onSaved stops the router, which has gone on till now.
SaveStops(o) ==
  /\ op[o].phase = "copied"
  /\ app' = [app EXCEPT !.window = FALSE]
  /\ BeginStop(o, "save")
  /\ UNCHANGED <<disk, marker, signal, written, used>>

\* onSaved waits for findFreePort.
SaveProbes(o) ==
  /\ app.up
  /\ op[o].kind = "save" /\ op[o].phase = "stopped"
  /\ op' = [op EXCEPT ![o].phase = "probing"]
  /\ UNCHANGED <<app, sidecar, routers, disk, marker, signal, written, used>>

\* start on the new directory; the watcher follows and wipes what is there.
EndSave(o) ==
  /\ Settled
  /\ op[o].phase = "probing"
  /\ Start(marker)
  /\ app' = [app EXCEPT !.watch = marker]
  /\ signal' = [signal EXCEPT ![marker] = NoSignal]
  /\ op' = [op EXCEPT ![o] = Idle]
  /\ UNCHANGED <<marker, written, used>>

\* processSignal
HandleSignal ==
  /\ Settled
  /\ signal[app.watch] # NoSignal
  /\ signal' = [signal EXCEPT ![app.watch] = NoSignal]
  /\ app' = [app EXCEPT !.window = TRUE]
  /\ UNCHANGED <<sidecar, routers, op, disk, marker, written, used>>

--------------------------------------------------------------------------------
RouterStep(p) == Insert(p) \/ PostSignal(p) \/ Crash(p) \/ ObeysTerm(p) \/ Dies(p) \/ OnExit(p)
OpStep(o) == GraceEnds(o) \/ EndRestart(o) \/ EndQuit(o) \/ SaveStops(o) \/ SaveProbes(o) \/ EndSave(o)

Next ==
  \/ Launch \/ OpenSettings \/ CloseSettings \/ HandleSignal
  \/ \E p \in 1 .. Len(routers) : RouterStep(p)
  \/ \E o \in Slots :
       \/ OpStep(o) \/ Restart(o) \/ Quit(o)
       \/ \E dir \in Dirs : SaveFails(o, dir) \/ \E key \in BOOLEAN : Save(o, dir, key)

\* A router is spawned for a launch, an operation, or the exit of another.
MaxSpawns == MaxLaunches + 2 * MaxOps + MaxCrashes

\* Timers fire, continuations run, a killed process dies and its exit is told.
Fairness ==
  /\ \A o \in Slots : WF_vars(OpStep(o))
  /\ \A p \in 1 .. MaxSpawns : WF_vars(p \in DOMAIN routers /\ (Dies(p) \/ OnExit(p)))

Spec == Init /\ [][Next]_vars /\ Fairness

--------------------------------------------------------------------------------
Phases == {"idle", "copied", "stopping", "killing", "stopped", "probing"}

(* Type invariant: the manager's child is a process that was spawned, and the *)
(* counters keep within the bounds.                                           *)
TypeOK ==
  /\ app \in [up : BOOLEAN, window : BOOLEAN, watch : Dirs]
  /\ sidecar \in [child : 0 .. Len(routers), intentional : BOOLEAN, budget : 0 .. MaxRestarts,
                  status : {"starting", "running", "crashed"}, dir : Dirs]
  /\ routers \in Seq([dir : Dirs, state : {"up", "term", "kill", "dead", "reaped"}])
  /\ op \in [Slots -> [kind : {"idle", "restart", "save", "quit"}, phase : Phases, child : 0 .. Len(routers)]]
  /\ disk \in [Dirs -> [db : BOOLEAN, rows : SUBSET Nat, key : BOOLEAN]]
  /\ marker \in Dirs /\ signal \in [Dirs -> Nat]
  /\ written \subseteq Nat /\ used \in [{"launch", "op", "crash", "signal"} -> Nat]

(* sidecar.ts - one router at a time: no two run at once on the same data, the *)
(* one that runs is the one the manager would stop, and when the manager has   *)
(* given up none is running.                                                   *)
OneRouter ==
  /\ \A p, q \in 1 .. Len(routers) : Alive(p) /\ Alive(q) => p = q
  /\ app.up => \A p \in 1 .. Len(routers) : Alive(p) => sidecar.child = p
  /\ app.up /\ sidecar.status = "crashed" => sidecar.child = NoChild

(* main.ts:453 - "Graceful shutdown - give sidecar a chance to stop before    *)
(* exiting": once the shell has quit no router is left running.               *)
QuitStopsRouter == ~app.up => \A p \in 1 .. Len(routers) : ~Alive(p)

(* Both together: whatever router runs, there is a shell that will stop it.    *)
RouterAccountedFor == OneRouter /\ QuitStopsRouter

(* signalWatcher.ts:9-16 - the signal file watched is the one the router       *)
(* writes, and a signal of an earlier launch is never acted on.                *)
SignalsReachApp ==
  app.up => /\ signal[app.watch] \in {NoSignal, used.launch}
            /\ \A p \in 1 .. Len(routers) :
                 Alive(p) /\ (\A o \in Slots : ~Busy(o)) => routers[p].dir = app.watch

(* Both together: the shell and the router it is to look after are in step.   *)
ShellInStep == RouterAccountedFor /\ SignalsReachApp

(* dataDir.ts:69-71 - a move deletes and overwrites nothing: every row ever    *)
(* written is still in the database of some directory.                         *)
NothingOverwritten == \A row \in written : \E d \in Dirs : disk[d].db /\ row \in disk[d].rows

(* Whatever the order of signals, crashes, moves and quits.                    *)
DesktopSound == ShellInStep /\ NothingOverwritten

(* A restart, a save or a quit ends even when the router does not answer       *)
(* SIGTERM or crashes while it is being stopped.                               *)
OperationsEnd == \A o \in Slots : Busy(o) ~> ~Busy(o)
================================================================================
