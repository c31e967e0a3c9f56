------------------------------- MODULE Migration -------------------------------
(***************************************************************************)
(* Moving the data directory: the admin route data-dir/migrate             *)
(* (src/src/admin/router.ts), the copy itself (src/src/admin/migration.ts),*)
(* the maintenance flags (src/src/util/maintenance.ts), the SQLite handle  *)
(* (src/src/db/index.ts) and the pointer file that tells the next boot     *)
(* where the data is (src/src/db/dataDirPointer.ts, dataDir.ts).           *)
(*                                                                         *)
(* The database is abstracted to the rows it holds; a directory to how far *)
(* each of its files has been written.  The process may be killed between  *)
(* any two of its steps, and inside writeFileSync, which truncates the     *)
(* file before it writes it.                                               *)
(***************************************************************************)
EXTENDS Integers, FiniteSets

CONSTANTS
  Dirs,        \* directories data can live in
  Default,     \* ~/.mimo2codex
  Files,       \* the names of the files of a data directory
  Db,          \* data.db
  Nested,      \* those that live in a subdirectory
  Tasks,       \* migrate requests that may be in progress at the same time
  MaxMoves,    \* bound: migrate requests accepted in all
  MaxRows,     \* bound: rows written in all
  MaxStarts     \* bound: times the process is started

None == "none"
Torn == "torn"     \* a pointer file that is not valid JSON

\* The two marks are no names of directories, and the first is no file's.
ASSUME MigrationAssumption ==
  /\ Default \in Dirs /\ None \notin Dirs /\ Torn \notin Dirs
  /\ Db \in Files /\ None \notin Files
  /\ Nested \subseteq Files \ {Db}
  /\ MaxMoves \in Nat /\ MaxRows \in Nat /\ MaxStarts \in Nat

VARIABLES
  disk,      \* per directory: does it exist, its files, the rows of its data.db
  pointer,   \* the pointer file: a directory, None or Torn
  server,      \* the process: its data directory, open handle and flags
  task,      \* the migrate requests in progress
  written,   \* history: rows whose insert succeeded
  misled,    \* history: some boot could not read the pointer file
  moves, starts  \* counters of the bounds

migrationVars == <<disk, pointer, server, task, written, misled, moves, starts>>

NoFiles == [f \in Files |-> "none"]
NoDir   == [exists |-> FALSE, files |-> NoFiles, rows |-> {}]
Idle    == [phase |-> "idle", target |-> Default, created |-> FALSE, copied |-> {}, current |-> None]

\* resolveDataDir, with neither --data-dir nor MIMO2CODEX_DATA_DIR
ResolveDataDir(p) == IF p \in Dirs THEN p ELSE Default

\* openDb creates what is missing and fails on a half-written file.
OpenDb(d) ==
  CASE disk[d].files[Db] = "whole"   -> disk
    [] disk[d].files[Db] = "partial" -> disk
    [] OTHER -> [disk EXCEPT ![d].exists = TRUE, ![d].files[Db] = "whole", ![d].rows = {}]

Opens(d) == disk[d].files[Db] # "partial"

\* writePointer is synchronous: while it runs nothing else in the process does.
Busy == \E t \in Tasks : task[t].phase = "pointer"

Running == server.up /\ ~Busy

--------------------------------------------------------------------------------
MigrationInit ==
  /\ disk = [d \in Dirs |-> IF d = Default
                            THEN [exists |-> TRUE, files |-> [f \in Files |-> "whole"], rows |-> {}]
                            ELSE NoDir]
  /\ pointer = None
  /\ server = [up |-> FALSE, dir |-> Default, open |-> FALSE, maintenance |-> FALSE, restart |-> FALSE]
  /\ task = [t \in Tasks |-> Idle]
  /\ written = {} /\ misled = FALSE /\ moves = 0 /\ starts = 0

StartServer ==
  /\ ~server.up
  /\ starts < MaxStarts
  /\ LET d == ResolveDataDir(pointer)
     IN  /\ server' = [up |-> TRUE, dir |-> d, open |-> Opens(d), maintenance |-> FALSE, restart |-> FALSE]
         /\ disk' = OpenDb(d)
  /\ misled' = (misled \/ pointer = Torn)
  /\ starts' = starts + 1
  /\ UNCHANGED <<pointer, task, written, moves>>

\* The process is killed, or the user restarts it.
Stop ==
  /\ server.up
  /\ server' = [server EXCEPT !.up = FALSE, !.open = FALSE]
  /\ task' = [t \in Tasks |-> Idle]
  /\ UNCHANGED <<disk, pointer, written, misled, moves, starts>>

\* Any handler that was let in before the maintenance began inserts a row; with
\* the handle closed getDb throws and the row is dropped.
Insert ==
  /\ Running /\ server.open
  /\ Cardinality(written) < MaxRows
  /\ LET row == Cardinality(written) + 1
     IN  /\ disk' = [disk EXCEPT ![server.dir].rows = @ \cup {row}]
         /\ written' = written \cup {row}
  /\ UNCHANGED <<pointer, server, task, misled, moves, starts>>

\* The route checks the two flags, then waits for the body of the request.
AskToMigrate(t, d) ==
  /\ Running
  /\ task[t].phase = "idle"
  /\ moves < MaxMoves
  /\ ~server.restart /\ ~server.maintenance
  /\ task' = [task EXCEPT ![t] = [Idle EXCEPT !.phase = "asked", !.target = d]]
  /\ moves' = moves + 1
  /\ UNCHANGED <<disk, pointer, server, written, misled, starts>>

PreviewOk(d) == d # server.dir /\ disk[d].files = NoFiles

\* setMaintenance(false) and openDb on the old path; the reopening may fail.
Resume(reopens) == server' = [server EXCEPT !.maintenance = FALSE, !.open = (@ \/ (reopens /\ Opens(server.dir)))]

\* The target is refused, or it does not exist and cannot be made.
Refuse(t) ==
  /\ Running
  /\ task[t].phase = "asked"
  /\ ~PreviewOk(task[t].target) \/ ~disk[task[t].target].exists
  /\ task' = [task EXCEPT ![t] = Idle]
  /\ UNCHANGED <<disk, pointer, server, written, misled, moves, starts>>

BeginMigration_InService(t) ==
  /\ Running
  /\ task[t].phase = "asked"
  /\ PreviewOk(task[t].target)
  /\ disk' = [disk EXCEPT ![task[t].target].exists = TRUE]
  /\ task' = [task EXCEPT ![t].phase = "copying", ![t].created = ~disk[task[t].target].exists]
  /\ UNCHANGED <<pointer, server, written, misled, moves, starts>>

\* runMigration up to its first await: mkdir, maintenance, closeDb, scan.
BeginMigration(t) ==
  /\ Running
  /\ task[t].phase = "asked"
  /\ PreviewOk(task[t].target)
  /\ disk' = [disk EXCEPT ![task[t].target].exists = TRUE]
  /\ task' = [task EXCEPT ![t].phase = "copying", ![t].created = ~disk[task[t].target].exists]
  /\ server' = [server EXCEPT !.maintenance = TRUE, !.open = FALSE]
  /\ UNCHANGED <<pointer, written, misled, moves, starts>>

\* The scan throws: the empty target stays, the old path is opened again.
ScanFails(t, reopens) ==
  /\ Running
  /\ task[t].phase = "asked"
  /\ PreviewOk(task[t].target)
  /\ disk' = [disk EXCEPT ![task[t].target].exists = TRUE]
  /\ task' = [task EXCEPT ![t] = Idle]
  /\ Resume(reopens)
  /\ UNCHANGED <<pointer, written, misled, moves, starts>>

ToCopy(t) == {f \in Files : disk[server.dir].files[f] = "whole"} \ task[t].copied

\* copyFile: the write stream creates the file, the data follow, the await ends.
BeginCopy(t, f) ==
  /\ Running
  /\ task[t].phase = "copying" /\ task[t].current = None
  /\ f \in ToCopy(t)
  /\ disk' = [disk EXCEPT ![task[t].target].files[f] = "partial"]
  /\ task' = [task EXCEPT ![t].current = f]
  /\ UNCHANGED <<pointer, server, written, misled, moves, starts>>

EndCopy_NotRecorded(t) ==
  /\ Running
  /\ task[t].phase = "copying" /\ task[t].current # None
  /\ LET f == task[t].current
         d == task[t].target
     IN  /\ disk' = [disk EXCEPT ![d].files[f] = "whole",
                                 ![d].rows = IF f = Db THEN disk[server.dir].rows ELSE @]
         /\ task' = [task EXCEPT ![t].current = None]
  /\ UNCHANGED <<pointer, server, written, misled, moves, starts>>

EndCopy(t) ==
  /\ Running
  /\ task[t].phase = "copying" /\ task[t].current # None
  /\ LET f == task[t].current
         d == task[t].target
     IN  /\ disk' = [disk EXCEPT ![d].files[f] = "whole",
                                 ![d].rows = IF f = Db THEN disk[server.dir].rows ELSE @]
         /\ task' = [task EXCEPT ![t].copied = @ \cup {f}, ![t].current = None]
  /\ UNCHANGED <<pointer, server, written, misled, moves, starts>>

\* The files copied so far are removed, and the directory if it was made for them.
RolledBack(t) ==
  IF task[t].created THEN NoDir
  ELSE [disk[task[t].target] EXCEPT
          !.files = [f \in Files |-> IF f \notin task[t].copied THEN @[f]
                                     ELSE IF f \in Nested THEN "dir" ELSE "none"]]

CopyFails(t, reopens) ==
  /\ Running
  /\ task[t].phase = "copying" /\ task[t].current # None
  /\ disk' = [disk EXCEPT ![task[t].target] = RolledBack(t)]
  /\ Resume(reopens)
  /\ task' = [task EXCEPT ![t] = [Idle EXCEPT !.phase = "undone", !.target = task[t].target]]
  /\ UNCHANGED <<pointer, written, misled, moves, starts>>

\* All files are there: writeFileSync opens the pointer file, which empties it.
BeginPointer(t) ==
  /\ Running
  /\ task[t].phase = "copying" /\ task[t].current = None /\ ToCopy(t) = {}
  /\ task' = [task EXCEPT ![t].phase = "pointer"]
  /\ pointer' = Torn
  /\ UNCHANGED <<disk, server, written, misled, moves, starts>>

EndPointer(t) ==
  /\ server.up
  /\ task[t].phase = "pointer"
  /\ pointer' = task[t].target
  /\ server' = [server EXCEPT !.restart = TRUE]
  /\ task' = [task EXCEPT ![t] = [Idle EXCEPT !.phase = "done", !.target = task[t].target]]
  /\ UNCHANGED <<disk, written, misled, moves, starts>>

\* writePointer throws, on opening the file (untouched) or on writing it (torn).
PointerFails(t, reopens) ==
  /\ server.up
  /\ \/ task[t].phase = "pointer"
     \/ ~Busy /\ task[t].phase = "copying" /\ task[t].current = None /\ ToCopy(t) = {}
  /\ Resume(reopens)
  /\ task' = [task EXCEPT ![t] = Idle]
  /\ UNCHANGED <<disk, pointer, written, misled, moves, starts>>

\* The answer of a finished request is sent; its task slot is free again.
Answered(t) ==
  /\ Running
  /\ task[t].phase \in {"undone", "done"}
  /\ task' = [task EXCEPT ![t] = Idle]
  /\ UNCHANGED <<disk, pointer, server, written, misled, moves, starts>>

Migrate(t) ==
  \/ Refuse(t) \/ BeginMigration(t)
  \/ \E f \in Files : BeginCopy(t, f)
  \/ EndCopy(t) \/ BeginPointer(t) \/ EndPointer(t) \/ Answered(t)
  \/ \E reopens \in BOOLEAN : ScanFails(t, reopens) \/ CopyFails(t, reopens) \/ PointerFails(t, reopens)

MigrationNext ==
  \/ StartServer \/ Stop \/ Insert
  \/ \E t \in Tasks : Migrate(t) \/ \E d \in Dirs : AskToMigrate(t, d)

MigrationSpec == MigrationInit /\ [][MigrationNext]_migrationVars

\* File operations end, one way or the other; nobody is obliged to boot or ask.
MigrationFairness == \A t \in Tasks : WF_migrationVars(Migrate(t))


--------------------------------------------------------------------------------
Phases == {"idle", "asked", "copying", "pointer", "undone", "done"}

(* Type invariant: directories, pointer file, process and requests keep their *)
(* shape.                                                                     *)
MigrationTypeOK ==
  /\ disk \in [Dirs -> [exists : BOOLEAN, files : [Files -> {"none", "dir", "partial", "whole"}],
                        rows : SUBSET Nat]]
  /\ pointer \in Dirs \cup {None, Torn}
  /\ server \in [up : BOOLEAN, dir : Dirs, open : BOOLEAN, maintenance : BOOLEAN, restart : BOOLEAN]
  /\ task \in [Tasks -> [phase : Phases, target : Dirs, created : BOOLEAN,
                         copied : SUBSET Files, current : Files \cup {None}]]
  /\ written \in SUBSET Nat /\ misled \in BOOLEAN /\ moves \in Nat /\ starts \in Nat

(* As long as the pointer file can be read, the directory it leads the next   *)
(* boot to holds every row that was ever written, wherever a migration is, or *)
(* was when the process died; and a pointer always leads to whole files.      *)
NothingLost ==
  /\ (~misled /\ pointer # Torn /\ starts > 0) =>
       LET d == disk[ResolveDataDir(pointer)] IN d.files[Db] = "whole" /\ d.rows = written
  /\ pointer \in Dirs => \A f \in Files : disk[pointer].files[f] = "whole"

(* migration.ts:374 - after a migration every request gets 503 until the      *)
(* restart, so nothing is written that the next boot would not see.           *)
MaintenanceStaysOn == (server.up /\ server.restart) => server.maintenance /\ ~server.open

(* The process is not left out of service by a migration that did not happen: *)
(* outside a migration the maintenance flag is down, unless a restart is due. *)
BackInService ==
  (server.up /\ server.maintenance /\ ~server.restart) => \E t \in Tasks : task[t].phase \in {"copying", "pointer"}

(* Both together: the maintenance flag says what the data directory is going   *)
(* through, neither lifted too early nor left behind.                          *)
MaintenanceFits == MaintenanceStaysOn /\ BackInService

(* Both together: no row is lost, and the service is down no longer than the move. *)
MigrationSafe == NothingLost /\ MaintenanceFits

(* A migration that has begun ends: it succeeds, is undone, or dies with the  *)
(* process.                                                                   *)
MigrationEnds == \A t \in Tasks : task[t].phase = "copying" ~> task[t].phase # "copying"
================================================================================
