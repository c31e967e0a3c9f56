----------------------------- MODULE StorageProofs -----------------------------
(***************************************************************************)
(* Proofs about what the program keeps on disk: the database (Database.tla)*)
(* and the directory it is in, which may be moved (Migration.tla).         *)
(*                                                                         *)
(* The schema: a recorded version is complete, a process that is up finds  *)
(* all of its release's, and a boot that nothing disturbs opens.  The      *)
(* catalogue: the tables show what was seeded last, and the users' own     *)
(* models.  All for any set of processes and sources and any number of     *)
(* boots and faults.                                                       *)
(*                                                                         *)
(* The move: no row is lost, for any directories and files, any number of  *)
(* requests, moves and starts, and whatever dies or fails in between.  Two *)
(* requests that are both past the test of the flags can each begin a      *)
(* move, and then rows can be lost; the theorems are about the behaviours  *)
(* in which at most one request at a time is in hand.                      *)
(***************************************************************************)
EXTENDS Migration, Database, SequenceTheorems, FiniteSetTheorems, TLAPS

ProcType == [state : {"down", "booting", "up", "noAdmin"}, source : Sources, v : Nat \ {0}, k : Nat \ {0}]

\* Versions 1 .. v are recorded.
Recorded(v) == \A w \in 1 .. v : w \in versions

\* The statements of the version a process is at, before its own position.
Behind(p) == \A n \in 1 .. (proc[p].k - 1) : MIGRATIONS[proc[p].v][n].name \in objects

(* The strengthening: versions are recorded without gaps, a boot has all the  *)
(* versions below its position, and has executed what lies behind it.         *)
SchemaInv ==
  /\ versions \subseteq Versions
  /\ proc \in [Procs -> ProcType]
  /\ RowsTellTruth
  /\ \A v \in versions : Recorded(v)
  /\ \A p \in Procs : Booting(p) => Recorded(proc[p].v - 1)
  /\ \A p \in Procs : Pending(p) => Behind(p)
  /\ \A p \in Procs : proc[p].state = "up" => Recorded(proc[p].source.version)

--------------------------------------------------------------------------------
LEMMA MigrationsType ==
  /\ Len(MIGRATIONS) = 5 /\ Versions = 1 .. 5
  /\ \A v \in Versions : /\ Len(MIGRATIONS[v]) \in Nat
                          /\ DOMAIN MIGRATIONS[v] = 1 .. Len(MIGRATIONS[v])
<1>1. Len(MIGRATIONS) = 5 /\ Versions = 1 .. 5
  BY DEF MIGRATIONS, Versions
<1>2. ASSUME NEW v \in 1 .. 5
      PROVE  Len(MIGRATIONS[v]) \in Nat /\ DOMAIN MIGRATIONS[v] = 1 .. Len(MIGRATIONS[v])
  <2>1. CASE v = 1
    <3>1. MIGRATIONS[v] = <<Create("tables")>> BY <2>1 DEF MIGRATIONS
    <3>. QED BY <3>1
  <2>2. CASE v = 2
    <3>1. MIGRATIONS[v] = <<Alter("request_body"), Alter("response_body"), Alter("tool_call_count")>>
      BY <2>2 DEF MIGRATIONS
    <3>. QED BY <3>1
  <2>3. CASE v = 3
    <3>1. MIGRATIONS[v] = <<Alter("cached_tokens")>> BY <2>3 DEF MIGRATIONS
    <3>. QED BY <3>1
  <2>4. CASE v = 4
    <3>1. MIGRATIONS[v] = <<Create("auth_tables")>> BY <2>4 DEF MIGRATIONS
    <3>. QED BY <3>1
  <2>5. CASE v = 5
    <3>1. MIGRATIONS[v] = <<Alter("user_id"), Create("idx_chat_logs_user")>> BY <2>5 DEF MIGRATIONS
    <3>. QED BY <3>1
  <2>. QED BY <1>2, <2>1, <2>2, <2>3, <2>4, <2>5
<1>. QED BY <1>1, <1>2

LEMMA SourceVersions == \A s \in Sources : s.version \in Versions
BY DatabaseAssumption DEF SourceType

\* MAX(version) exists and is recorded with everything below it.
LEMMA LatestRecorded ==
  ASSUME versions \subseteq Versions, \A v \in versions : Recorded(v)
  PROVE  Latest \in Nat /\ Recorded(Latest) /\ \A w \in versions : w <= Latest
<1>1. \E m \in versions \cup {0} : \A w \in versions : w <= m
  <2>. \A w \in versions : w = 1 \/ w = 2 \/ w = 3 \/ w = 4 \/ w = 5 BY MigrationsType
  <2>1. CASE 5 \in versions BY <2>1
  <2>2. CASE 5 \notin versions /\ 4 \in versions BY <2>2
  <2>3. CASE 5 \notin versions /\ 4 \notin versions /\ 3 \in versions BY <2>3
  <2>4. CASE 5 \notin versions /\ 4 \notin versions /\ 3 \notin versions /\ 2 \in versions BY <2>4
  <2>5. CASE 5 \notin versions /\ 4 \notin versions /\ 3 \notin versions /\ 2 \notin versions
    <3>1. \A w \in versions : w = 1 BY <2>5
    <3>. QED BY <3>1
  <2>. QED BY <2>1, <2>2, <2>3, <2>4, <2>5
<1>2. Latest \in versions \cup {0} /\ \A w \in versions : w <= Latest BY <1>1 DEF Latest
<1>3. CASE Latest \in versions BY <1>2, <1>3, MigrationsType
<1>4. CASE Latest = 0 BY <1>2, <1>4 DEF Recorded
<1>. QED BY <1>2, <1>3, <1>4

LEMMA InitSchema == Init => SchemaInv
<1>. SUFFICES ASSUME Init PROVE SchemaInv OBVIOUS
<1>1. Down \in ProcType
  <2>1. (CHOOSE s \in Sources : TRUE) \in Sources BY DatabaseAssumption
  <2>. QED BY <2>1 DEF Down, ProcType
<1>2. \A p \in Procs : proc[p].state = "down" BY DEF Init, Down
<1>. QED BY <1>1, <1>2 DEF Init, SchemaInv, RowsTellTruth, Booting, Pending

\* A step that leaves the schema alone and moves one process to a state
\* without obligations.
LEMMA Leaves ==
  ASSUME SchemaInv, NEW p \in Procs, NEW q \in ProcType,
         q.state \in {"down", "noAdmin"},
         proc' = [proc EXCEPT ![p] = q],
         UNCHANGED <<objects, versions>>
  PROVE  SchemaInv'
BY DEF SchemaInv, RowsTellTruth, Recorded, Booting, Pending, Behind

LEMMA Refused ==
  ASSUME SchemaInv, NEW p \in Procs, WithoutAdmin(p) PROVE SchemaInv'
<1>1. [proc[p] EXCEPT !.state = "noAdmin"] \in ProcType BY DEF SchemaInv, ProcType
<1>2. proc' = [proc EXCEPT ![p] = [proc[p] EXCEPT !.state = "noAdmin"]] BY DEF WithoutAdmin
<1>3. [proc[p] EXCEPT !.state = "noAdmin"].state = "noAdmin" BY DEF SchemaInv, ProcType
<1>. QED BY <1>1, <1>2, <1>3, Leaves DEF WithoutAdmin

LEMMA BootKeeps ==
  ASSUME SchemaInv, NEW p \in Procs, NEW s \in Sources, Boot(p, s) PROVE SchemaInv'
<1>1. Latest \in Nat /\ Recorded(Latest) BY LatestRecorded DEF SchemaInv
<1>2. [state |-> "booting", source |-> s, v |-> Latest + 1, k |-> 1] \in ProcType BY <1>1 DEF ProcType
<1>. QED BY <1>1, <1>2 DEF SchemaInv, Boot, RowsTellTruth, Recorded, Booting, Pending, Behind

LEMMA ExecKeeps ==
  ASSUME SchemaInv, NEW p \in Procs, ExecStatement(p) PROVE SchemaInv'
<1>. DEFINE s == MIGRATIONS[proc[p].v][proc[p].k]
<1>1. CASE s.kind = "alter" /\ s.name \in objects BY <1>1, Refused DEF ExecStatement
<1>2. CASE ~(s.kind = "alter" /\ s.name \in objects)
  <2>1. /\ objects' = objects \cup {s.name}
        /\ proc' = [proc EXCEPT ![p].k = @ + 1]
        /\ versions' = versions
    BY <1>2 DEF ExecStatement
  <2>2. proc' \in [Procs -> ProcType] BY <2>1 DEF SchemaInv, ProcType
  <2>3. \A q \in Procs : /\ proc'[q].state = proc[q].state /\ proc'[q].source = proc[q].source
                         /\ proc'[q].v = proc[q].v
                         /\ proc'[q].k = IF q = p THEN proc[q].k + 1 ELSE proc[q].k
    BY <2>1 DEF SchemaInv, ProcType
  <2>4. ASSUME NEW q \in Procs, Pending(q)' PROVE Behind(q)'
    <3>1. Pending(q) BY <2>3, <2>4 DEF Pending, Booting
    <3>2. Behind(q) BY <3>1 DEF SchemaInv
    <3>3. ASSUME NEW n \in 1 .. (proc'[q].k - 1) PROVE MIGRATIONS[proc[q].v][n].name \in objects'
      <4>1. CASE n \in 1 .. (proc[q].k - 1) BY <4>1, <3>2, <2>1 DEF Behind
      <4>2. CASE n \notin 1 .. (proc[q].k - 1)
        <5>1. q = p /\ n = proc[p].k BY <4>2, <2>3, <3>3 DEF SchemaInv, ProcType
        <5>. QED BY <5>1, <2>1
      <4>. QED BY <4>1, <4>2
    <3>. QED BY <3>3, <2>3 DEF Behind
  <2>. QED BY <2>1, <2>2, <2>3, <2>4 DEF SchemaInv, RowsTellTruth, Recorded, Booting
<1>. QED BY <1>1, <1>2

LEMMA Moved ==
  ASSUME NEW r \in ProcType, NEW n \in Nat
  PROVE  [r EXCEPT !.v = n + 1, !.k = 1] \in ProcType
<1>1. [r EXCEPT !.v = n + 1] \in ProcType BY DEF ProcType
<1>2. \A q \in ProcType : [q EXCEPT !.k = 1] \in ProcType BY DEF ProcType
<1>3. [r EXCEPT !.v = n + 1, !.k = 1] = [[r EXCEPT !.v = n + 1] EXCEPT !.k = 1] OBVIOUS
<1>. QED BY <1>1, <1>2, <1>3

LEMMA RecordKeeps ==
  ASSUME SchemaInv, NEW p \in Procs, RecordVersion(p) PROVE SchemaInv'
<1>1. CASE proc[p].v \in versions BY <1>1, Refused DEF RecordVersion
<1>2. CASE proc[p].v \notin versions
  <2>. DEFINE v == proc[p].v
  <2>1. /\ versions' = versions \cup {v}
        /\ proc' = [proc EXCEPT ![p].v = @ + 1, ![p].k = 1]
        /\ objects' = objects
        /\ Pending(p) /\ proc[p].k \notin DOMAIN MIGRATIONS[v]
    BY <1>2 DEF RecordVersion
  <2>2. v \in Versions /\ v \in Nat \ {0} /\ proc[p].k \in Nat \ {0}
    <3>1. proc[p] \in ProcType BY DEF SchemaInv
    <3>2. v \in Nat \ {0} /\ proc[p].k \in Nat \ {0} /\ proc[p].source.version \in 1 .. 5
      BY <3>1, SourceVersions, MigrationsType DEF ProcType
    <3>3. v <= proc[p].source.version BY <2>1 DEF Pending
    <3>4. v \in 1 .. 5 BY <3>2, <3>3
    <3>. QED BY <3>2, <3>4, MigrationsType, SMTT(30)
  <2>3. proc' \in [Procs -> ProcType]
    <3>1. proc[p] \in ProcType BY DEF SchemaInv
    <3>2. [proc[p] EXCEPT !.v = v + 1, !.k = 1] \in ProcType BY <3>1, <2>2, Moved
    <3>3. proc' = [proc EXCEPT ![p] = [proc[p] EXCEPT !.v = v + 1, !.k = 1]] BY <2>1
    <3>. QED BY <3>2, <3>3 DEF SchemaInv
  <2>4. Names(v) \subseteq objects
    <3>1. DOMAIN MIGRATIONS[v] = 1 .. Len(MIGRATIONS[v]) /\ Len(MIGRATIONS[v]) \in Nat
      BY <2>2, MigrationsType
    <3>2. DOMAIN MIGRATIONS[v] \subseteq 1 .. (proc[p].k - 1) BY <3>1, <2>1, <2>2
    <3>3. Behind(p) BY <2>1 DEF SchemaInv
    <3>. QED BY <3>2, <3>3 DEF Names, Behind
  <2>5. Recorded(v - 1) BY <2>1 DEF SchemaInv, Pending
  <2>6. \A w \in 1 .. v : w \in versions'
    <3>1. \A w \in 1 .. v : w = v \/ w \in 1 .. (v - 1) BY <2>2
    <3>. QED BY <3>1, <2>1, <2>5 DEF Recorded
  <2>7. \A q \in Procs : q # p => proc'[q] = proc[q] BY <2>1 DEF SchemaInv
  <2>8. proc'[p].state = "booting" /\ proc'[p].v = v + 1 /\ proc'[p].k = 1
    BY <2>1 DEF SchemaInv, ProcType, Pending, Booting
  <2>9. RowsTellTruth' /\ \A w \in versions' : \A u \in 1 .. w : u \in versions'
    <3>1. \A w \in versions' : w = v \/ w \in versions BY <2>1
    <3>2. \A w \in versions : \A u \in 1 .. w : u \in versions' BY <2>1 DEF SchemaInv, Recorded
    <3>3. \A w \in versions' : \A u \in 1 .. w : u \in versions' BY <3>1, <3>2, <2>6
    <3>4. \A w \in versions : Names(w) \subseteq objects BY DEF SchemaInv, RowsTellTruth
    <3>. QED BY <3>1, <3>3, <3>4, <2>1, <2>4 DEF RowsTellTruth
  <2>10. \A q \in Procs : /\ Booting(q)' => Recorded(proc[q].v - 1)'
                          /\ Pending(q)' => Behind(q)'
                          /\ proc'[q].state = "up" => Recorded(proc[q].source.version)'
    <3>. SUFFICES ASSUME NEW q \in Procs
                  PROVE  /\ Booting(q)' => Recorded(proc[q].v - 1)'
                         /\ Pending(q)' => Behind(q)'
                         /\ proc'[q].state = "up" => Recorded(proc[q].source.version)'
      OBVIOUS
    <3>1. CASE q = p BY <3>1, <2>2, <2>6, <2>8 DEF Recorded, Behind
    <3>2. CASE q # p BY <3>2, <2>1, <2>7 DEF SchemaInv, Booting, Pending, Behind, Recorded
    <3>. QED BY <3>1, <3>2
  <2>11. versions' \subseteq Versions BY <2>1, <2>2 DEF SchemaInv
  <2>. QED BY <2>3, <2>9, <2>10, <2>11 DEF SchemaInv, Recorded
<1>. QED BY <1>1, <1>2

LEMMA SeedKeeps ==
  ASSUME SchemaInv, NEW p \in Procs, SeedBuiltins(p) PROVE SchemaInv'
<1>1. CASE ShortcutTaken(proc[p].source.list) BY <1>1, Refused DEF SeedBuiltins
<1>2. CASE ~ShortcutTaken(proc[p].source.list)
  <2>1. /\ proc' = [proc EXCEPT ![p].state = "up"]
        /\ objects' = objects /\ versions' = versions
        /\ Booting(p) /\ ~Pending(p)
    BY <1>2 DEF SeedBuiltins
  <2>2. proc' \in [Procs -> ProcType] BY <2>1 DEF SchemaInv, ProcType
  <2>3. Recorded(proc[p].v - 1) /\ proc[p].v > proc[p].source.version
        /\ proc[p].v \in Nat /\ proc[p].source.version \in Nat
    <3>1. proc[p] \in ProcType BY DEF SchemaInv
    <3>2. proc[p].v \in Nat \ {0} /\ proc[p].source.version \in 1 .. 5
      BY <3>1, SourceVersions, MigrationsType DEF ProcType
    <3>3. ~(proc[p].v <= proc[p].source.version) /\ Recorded(proc[p].v - 1)
      BY <2>1 DEF SchemaInv, Pending
    <3>. QED BY <3>2, <3>3
  <2>4. Recorded(proc[p].source.version) BY <2>3 DEF Recorded
  <2>5. proc'[p].state = "up" /\ proc'[p].source = proc[p].source BY <2>1 DEF SchemaInv, ProcType
  <2>6. \A q \in Procs : q # p => proc'[q] = proc[q] BY <2>1 DEF SchemaInv
  <2>. QED BY <2>1, <2>2, <2>4, <2>5, <2>6 DEF SchemaInv, RowsTellTruth, Recorded, Booting, Pending, Behind
<1>. QED BY <1>1, <1>2

LEMMA DiesKeeps ==
  ASSUME SchemaInv, NEW p \in Procs, Dies(p) PROVE SchemaInv'
<1>1. Down \in ProcType
  <2>1. (CHOOSE s \in Sources : TRUE) \in Sources BY DatabaseAssumption
  <2>. QED BY <2>1 DEF Down, ProcType
<1>. QED BY <1>1, Leaves DEF Dies, Down

\* Steps of the users and stuttering leave the schema and the processes alone.
LEMMA SchemaUnchanged ==
  ASSUME SchemaInv, UNCHANGED <<objects, versions, proc>> PROVE SchemaInv'
BY DEF SchemaInv, RowsTellTruth, Recorded, Booting, Pending, Behind

LEMMA NextSchema == SchemaInv /\ [Next]_vars => SchemaInv'
<1>. SUFFICES ASSUME SchemaInv, [Next]_vars PROVE SchemaInv' OBVIOUS
<1>1. CASE UNCHANGED vars BY <1>1, SchemaUnchanged DEF vars
<1>2. CASE Next
  <2>1. PICK p \in Procs :
          \/ \E s \in Sources : Boot(p, s)
          \/ Step(p) \/ Throws(p) \/ Dies(p) \/ EditModels(p)
    BY <1>2 DEF Next
  <2>2. CASE \E s \in Sources : Boot(p, s) BY <2>2, BootKeeps
  <2>3. CASE Step(p) BY <2>3, ExecKeeps, RecordKeeps, SeedKeeps DEF Step
  <2>4. CASE Throws(p) BY <2>4, Refused DEF Throws
  <2>5. CASE Dies(p) BY <2>5, DiesKeeps
  <2>6. CASE EditModels(p)
    BY <2>6, SchemaUnchanged DEF EditModels, InsertCustomModel, DeleteModel, PatchModel, ChangeModels
  <2>. QED BY <2>1, <2>2, <2>3, <2>4, <2>5, <2>6
<1>. QED BY <1>1, <1>2

LEMMA SchemaSafety == SchemaInv => RowsTellTruth /\ UpMeansWhole
BY SourceVersions, MigrationsType DEF SchemaInv, ProcType, RowsTellTruth, UpMeansWhole, Recorded

(* db/index.ts:45-61 - a row of schema_version is written only when every     *)
(* statement of its version is in the schema, whatever crashed or raced.      *)
THEOREM VersionsComplete == Spec => []RowsTellTruth
<1>. QED BY InitSchema, NextSchema, SchemaSafety, PTL DEF Spec

(* db/index.ts:12-28 - a process whose openDb returned has its whole schema,  *)
(* for any number of processes, releases, crashes and boots.                  *)
THEOREM OpenedMeansWhole == Spec => []UpMeansWhole
<1>. QED BY InitSchema, NextSchema, SchemaSafety, PTL DEF Spec

--------------------------------------------------------------------------------
(* A boot that was not disturbed *)

\* A column is there only when its version is recorded, or by the boot under way.
Altered ==
  \A v \in Versions : \A n \in DOMAIN MIGRATIONS[v] :
    MIGRATIONS[v][n].kind = "alter" /\ MIGRATIONS[v][n].name \in objects =>
      v \in versions \/ \E p \in Procs : Booting(p) /\ v = proc[p].v /\ n < proc[p].k

(* The strengthening, as long as nothing was disturbed: one process boots at a *)
(* time, past the recorded versions, and no column lies before it that it has  *)
(* to add.                                                                     *)
Quiet ==
  /\ \A p, q \in Procs : Booting(p) /\ Booting(q) => p = q
  /\ Altered
  /\ \A p \in Procs : Booting(p) => /\ \A w \in versions : w < proc[p].v
                                    /\ ~Pending(p) => proc[p].k = 1

QuietInv == SchemaInv /\ disturbed \in BOOLEAN /\ (disturbed \/ Quiet)

QuietBoot ==
  \A p \in Procs :
    (proc[p].state = "booting" /\ proc'[p].state = "noAdmin") => disturbed' \/ ShortcutTaken(proc[p].source.list)

\* No two statements that add a column are about the same name.
LEMMA AltersApart ==
  ASSUME NEW v \in Versions, NEW w \in Versions,
         NEW n \in DOMAIN MIGRATIONS[v], NEW m \in DOMAIN MIGRATIONS[w],
         MIGRATIONS[v][n].kind = "alter", MIGRATIONS[v][n].name = MIGRATIONS[w][m].name
  PROVE  v = w /\ n = m
<1>1. ASSUME NEW x \in Versions, NEW k \in DOMAIN MIGRATIONS[x]
      PROVE  LET it == MIGRATIONS[x][k].name IN
             \/ x = 1 /\ k = 1 /\ it = "tables"
             \/ x = 2 /\ k = 1 /\ it = "request_body"
             \/ x = 2 /\ k = 2 /\ it = "response_body"
             \/ x = 2 /\ k = 3 /\ it = "tool_call_count"
             \/ x = 3 /\ k = 1 /\ it = "cached_tokens"
             \/ x = 4 /\ k = 1 /\ it = "auth_tables"
             \/ x = 5 /\ k = 1 /\ it = "user_id"
             \/ x = 5 /\ k = 2 /\ it = "idx_chat_logs_user"
  <2>. DEFINE ms == MIGRATIONS[x]
  <2>1. CASE x = 1
    <3>1. ms = <<Create("tables")>> BY <2>1 DEF MIGRATIONS
    <3>2. k = 1 /\ ms[k] = Create("tables") BY <3>1
    <3>. QED BY <2>1, <3>2 DEF Create
  <2>2. CASE x = 2
    <3>1. ms = <<Alter("request_body"), Alter("response_body"), Alter("tool_call_count")>>
      BY <2>2 DEF MIGRATIONS
    <3>2. \/ k = 1 /\ ms[k] = Alter("request_body")
          \/ k = 2 /\ ms[k] = Alter("response_body")
          \/ k = 3 /\ ms[k] = Alter("tool_call_count")
      BY <3>1
    <3>. QED BY <2>2, <3>2 DEF Alter
  <2>3. CASE x = 3
    <3>1. ms = <<Alter("cached_tokens")>> BY <2>3 DEF MIGRATIONS
    <3>2. k = 1 /\ ms[k] = Alter("cached_tokens") BY <3>1
    <3>. QED BY <2>3, <3>2 DEF Alter
  <2>4. CASE x = 4
    <3>1. ms = <<Create("auth_tables")>> BY <2>4 DEF MIGRATIONS
    <3>2. k = 1 /\ ms[k] = Create("auth_tables") BY <3>1
    <3>. QED BY <2>4, <3>2 DEF Create
  <2>5. CASE x = 5
    <3>1. ms = <<Alter("user_id"), Create("idx_chat_logs_user")>> BY <2>5 DEF MIGRATIONS
    <3>2. \/ k = 1 /\ ms[k] = Alter("user_id")
          \/ k = 2 /\ ms[k] = Create("idx_chat_logs_user")
      BY <3>1
    <3>. QED BY <2>5, <3>2 DEF Alter, Create
  <2>. QED BY <2>1, <2>2, <2>3, <2>4, <2>5, MigrationsType
<1>2. PICK one : one = MIGRATIONS[v][n].name OBVIOUS
<1>3. one = MIGRATIONS[w][m].name BY <1>2
<1>. QED BY <1>1, <1>2, <1>3

\* The position of a process is one that a boot can be at.
LEMMA Position ==
  ASSUME SchemaInv, NEW p \in Procs
  PROVE  /\ proc[p] \in ProcType /\ proc[p].v \in Nat /\ proc[p].k \in Nat /\ proc[p].k > 0
         /\ proc[p].source.version \in Nat
         /\ Pending(p) => proc[p].v \in Versions
<1>1. proc[p] \in ProcType BY DEF SchemaInv
<1>2. /\ proc[p].v \in Nat \ {0} /\ proc[p].k \in Nat \ {0} /\ proc[p].source.version \in 1 .. 5
  BY <1>1, SourceVersions, MigrationsType DEF ProcType
<1>3. ASSUME Pending(p) PROVE proc[p].v \in Versions
  <2>1. proc[p].v <= proc[p].source.version BY <1>3 DEF Pending
  <2>2. proc[p].v \in 1 .. 5 BY <1>2, <2>1
  <2>. QED BY <2>2, MigrationsType
<1>. QED BY <1>1, <1>2, <1>3

LEMMA BootQuiet ==
  ASSUME QuietInv, NEW p \in Procs, NEW s \in Sources, Boot(p, s)
  PROVE  (disturbed' \in BOOLEAN /\ (disturbed' \/ Quiet')) /\ QuietBoot
<1>1. /\ SchemaInv /\ disturbed' = (disturbed \/ \E q \in Procs : Booting(q))
      /\ objects' = objects /\ versions' = versions
      /\ proc[p].state = "down"
      /\ proc' = [proc EXCEPT ![p] = [state |-> "booting", source |-> s, v |-> Latest + 1, k |-> 1]]
  BY DEF QuietInv, Boot
<1>2. /\ \A q \in Procs : q # p => proc'[q] = proc[q]
      /\ proc'[p].state = "booting" /\ proc'[p].v = Latest + 1 /\ proc'[p].k = 1
  BY <1>1 DEF SchemaInv
<1>3. QuietBoot BY <1>2 DEF QuietBoot
<1>4. ASSUME ~disturbed' PROVE Quiet'
  <2>1. Quiet /\ \A q \in Procs : ~Booting(q) BY <1>1, <1>4 DEF QuietInv
  <2>2. \A q \in Procs : Booting(q)' => q = p BY <1>2, <2>1 DEF Booting
  <2>3. Latest \in Nat /\ \A w \in versions : w <= Latest BY <1>1, LatestRecorded DEF SchemaInv
  <2>4. \A w \in versions' : w < proc'[p].v
    <3>1. \A w \in versions : w \in Nat BY <1>1, MigrationsType DEF SchemaInv
    <3>. QED BY <1>1, <1>2, <2>3, <3>1
  <2>5. Altered' BY <1>1, <2>1 DEF Quiet, Altered
  <2>. QED BY <1>2, <2>2, <2>4, <2>5 DEF Quiet
<1>5. disturbed' \in BOOLEAN BY <1>1
<1>. QED BY <1>3, <1>4, <1>5

LEMMA ExecQuiet ==
  ASSUME QuietInv, NEW p \in Procs, ExecStatement(p)
  PROVE  (disturbed' \in BOOLEAN /\ (disturbed' \/ Quiet')) /\ QuietBoot
<1>1. PICK v, k : v = proc[p].v /\ k = proc[p].k OBVIOUS
<1>2. PICK s : s = MIGRATIONS[v][k] OBVIOUS
<1>3. /\ SchemaInv /\ Pending(p) /\ Booting(p) /\ k \in DOMAIN MIGRATIONS[v] /\ disturbed' = disturbed
      /\ v \in Versions /\ v \in Nat /\ k \in Nat
  BY <1>1, Position DEF QuietInv, ExecStatement, Pending, history
<1>4. CASE disturbed
  BY <1>3, <1>4 DEF QuietInv, QuietBoot
<1>5. CASE ~disturbed
  <2>1. Quiet BY <1>5 DEF QuietInv
  <2>2. ~(s.kind = "alter" /\ s.name \in objects)
    <3>1. SUFFICES ASSUME s.kind = "alter", s.name \in objects PROVE FALSE OBVIOUS
    <3>2. v \in versions \/ \E q \in Procs : Booting(q) /\ v = proc[q].v /\ k < proc[q].k
      BY <1>2, <1>3, <2>1, <3>1 DEF Quiet, Altered
    <3>3. v \notin versions BY <1>1, <1>3, <2>1 DEF Quiet
    <3>4. \A q \in Procs : Booting(q) => q = p BY <1>3, <2>1 DEF Quiet
    <3>. QED BY <1>1, <1>3, <3>2, <3>3, <3>4
  <2>3. /\ objects' = objects \cup {s.name} /\ versions' = versions
        /\ proc' = [proc EXCEPT ![p].k = @ + 1]
    BY <1>1, <1>2, <2>2 DEF ExecStatement
  <2>4. /\ \A q \in Procs : /\ proc'[q].state = proc[q].state /\ proc'[q].source = proc[q].source
                            /\ proc'[q].v = proc[q].v
                            /\ q # p => proc'[q] = proc[q]
        /\ proc'[p].k = k + 1
    BY <1>1, <1>3, <2>3 DEF SchemaInv, ProcType
  <2>5. \A q \in Procs : (Booting(q)' <=> Booting(q)) /\ (Pending(q)' <=> Pending(q))
    BY <2>4 DEF Booting, Pending
  <2>6. Altered'
    <3>1. SUFFICES ASSUME NEW w \in Versions, NEW n \in DOMAIN MIGRATIONS[w],
                          MIGRATIONS[w][n].kind = "alter", MIGRATIONS[w][n].name \in objects'
                   PROVE  w \in versions \/ \E q \in Procs : Booting(q) /\ w = proc'[q].v /\ n < proc'[q].k
      BY <2>3, <2>5 DEF Altered
    <3>2. CASE MIGRATIONS[w][n].name \in objects
      <4>1. w \in versions \/ \E q \in Procs : Booting(q) /\ w = proc[q].v /\ n < proc[q].k
        BY <2>1, <3>1, <3>2 DEF Quiet, Altered
      <4>2. \A q \in Procs : Booting(q) => q = p BY <1>3, <2>1 DEF Quiet
      <4>3. n \in Nat BY MigrationsType
      <4>4. n < k => n < k + 1 BY <1>3, <4>3
      <4>. QED BY <1>1, <1>3, <2>4, <4>1, <4>2, <4>4
    <3>3. CASE MIGRATIONS[w][n].name = s.name
      <4>1. w = v /\ n = k BY <1>2, <1>3, <3>1, <3>3, AltersApart
      <4>. QED BY <1>1, <1>3, <2>4, <4>1
    <3>. QED BY <2>3, <3>1, <3>2, <3>3
  <2>7. Quiet' BY <1>3, <2>1, <2>3, <2>4, <2>5, <2>6 DEF Quiet
  <2>8. QuietBoot BY <2>4 DEF QuietBoot
  <2>. QED BY <1>3, <2>7, <2>8 DEF QuietInv
<1>. QED BY <1>3, <1>4, <1>5 DEF QuietInv

LEMMA RecordQuiet ==
  ASSUME QuietInv, NEW p \in Procs, RecordVersion(p)
  PROVE  (disturbed' \in BOOLEAN /\ (disturbed' \/ Quiet')) /\ QuietBoot
<1>1. PICK v : v = proc[p].v OBVIOUS
<1>2. /\ SchemaInv /\ Pending(p) /\ Booting(p) /\ disturbed' = disturbed /\ v \in Versions /\ v \in Nat
  BY <1>1, Position DEF QuietInv, RecordVersion, Pending, history
<1>3. CASE disturbed
  BY <1>2, <1>3 DEF QuietInv, QuietBoot
<1>4. CASE ~disturbed
  <2>1. Quiet BY <1>4 DEF QuietInv
  <2>2. v \notin versions BY <1>1, <1>2, <2>1 DEF Quiet
  <2>3. /\ objects' = objects /\ versions' = versions \cup {v}
        /\ proc' = [proc EXCEPT ![p].v = @ + 1, ![p].k = 1]
    BY <1>1, <2>2 DEF RecordVersion
  <2>4. /\ \A q \in Procs : /\ proc'[q].state = proc[q].state
                            /\ q # p => proc'[q] = proc[q]
        /\ proc'[p].v = v + 1 /\ proc'[p].k = 1
    <3>1. proc \in [Procs -> ProcType] BY <1>2 DEF SchemaInv
    <3>2. PICK r : r = proc[p] OBVIOUS
    <3>3. proc' = [proc EXCEPT ![p] = [r EXCEPT !.v = v + 1, !.k = 1]] BY <1>1, <2>3, <3>2
    <3>4. /\ [r EXCEPT !.v = v + 1, !.k = 1].state = r.state
          /\ [r EXCEPT !.v = v + 1, !.k = 1].v = v + 1 /\ [r EXCEPT !.v = v + 1, !.k = 1].k = 1
      BY <3>1, <3>2 DEF ProcType
    <3>. QED BY <3>1, <3>2, <3>3, <3>4
  <2>5. \A q \in Procs : Booting(q)' <=> Booting(q) BY <2>4 DEF Booting
  <2>6. \A q \in Procs : Booting(q) => q = p BY <1>2, <2>1 DEF Quiet
  <2>7. Altered'
    <3>1. SUFFICES ASSUME NEW w \in Versions, NEW n \in DOMAIN MIGRATIONS[w],
                          MIGRATIONS[w][n].kind = "alter", MIGRATIONS[w][n].name \in objects
                   PROVE  w \in versions'
      BY <2>3 DEF Altered
    <3>2. w \in versions \/ \E q \in Procs : Booting(q) /\ w = proc[q].v /\ n < proc[q].k
      BY <2>1, <3>1 DEF Quiet, Altered
    <3>. QED BY <1>1, <2>3, <2>6, <3>2
  <2>8. \A w \in versions' : w < v + 1
    <3>1. \A w \in versions : w \in Nat BY <1>2, MigrationsType DEF SchemaInv
    <3>2. \A w \in versions : w < v BY <1>1, <1>2, <2>1 DEF Quiet
    <3>. QED BY <1>2, <2>3, <3>1, <3>2
  <2>9. Quiet' BY <2>4, <2>5, <2>6, <2>7, <2>8 DEF Quiet
  <2>10. QuietBoot BY <2>4 DEF QuietBoot
  <2>. QED BY <1>2, <2>9, <2>10 DEF QuietInv
<1>. QED BY <1>3, <1>4

LEMMA SeedQuiet ==
  ASSUME QuietInv, NEW p \in Procs, SeedBuiltins(p)
  PROVE  (disturbed' \in BOOLEAN /\ (disturbed' \/ Quiet')) /\ QuietBoot
<1>1. /\ SchemaInv /\ Booting(p) /\ ~Pending(p) /\ disturbed' = disturbed
      /\ objects' = objects /\ versions' = versions
  BY DEF QuietInv, SeedBuiltins, WithoutAdmin
<1>2. PICK state : proc' = [proc EXCEPT ![p].state = state] /\ state \in {"up", "noAdmin"}
                   /\ (state = "noAdmin" => ShortcutTaken(proc[p].source.list))
  BY DEF SeedBuiltins, WithoutAdmin
<1>3. /\ proc'[p].state = state /\ \A q \in Procs : q # p => proc'[q] = proc[q]
  BY <1>1, <1>2 DEF SchemaInv, ProcType
<1>4. QuietBoot BY <1>2, <1>3 DEF QuietBoot
<1>5. ASSUME ~disturbed PROVE Quiet'
  <2>1. Quiet BY <1>5 DEF QuietInv
  <2>2. \A q \in Procs : ~Booting(q)'
    <3>1. \A q \in Procs : Booting(q) => q = p BY <1>1, <2>1 DEF Quiet
    <3>. QED BY <1>2, <1>3, <3>1 DEF Booting
  <2>3. Altered'
    <3>1. SUFFICES ASSUME NEW w \in Versions, NEW n \in DOMAIN MIGRATIONS[w],
                          MIGRATIONS[w][n].kind = "alter", MIGRATIONS[w][n].name \in objects
                   PROVE  w \in versions
      BY <1>1 DEF Altered
    <3>2. w \in versions \/ \E q \in Procs : Booting(q) /\ w = proc[q].v /\ n < proc[q].k
      BY <2>1, <3>1 DEF Quiet, Altered
    <3>3. \A q \in Procs : Booting(q) => q = p /\ proc[q].k = 1 BY <1>1, <2>1 DEF Quiet
    <3>4. n \in Nat /\ n >= 1 BY MigrationsType
    <3>. QED BY <3>2, <3>3, <3>4
  <2>. QED BY <2>2, <2>3 DEF Quiet
<1>. QED BY <1>1, <1>4, <1>5 DEF QuietInv

LEMMA QuietStep ==
  ASSUME QuietInv, [Next]_vars
  PROVE  QuietInv' /\ QuietBoot
<1>1. SchemaInv' BY NextSchema DEF QuietInv
<1>2. CASE UNCHANGED vars
  <2>1. UNCHANGED <<objects, versions, proc, disturbed>> BY <1>2 DEF vars, history
  <2>2. QuietBoot BY <2>1 DEF QuietBoot
  <2>3. Quiet => Quiet' BY <2>1 DEF Quiet, Altered, Booting, Pending
  <2>. QED BY <1>1, <2>1, <2>2, <2>3 DEF QuietInv
<1>3. CASE Next
  <2>1. PICK p \in Procs :
          \/ \E s \in Sources : Boot(p, s)
          \/ Step(p) \/ Throws(p) \/ Dies(p) \/ EditModels(p)
    BY <1>3 DEF Next
  <2>2. CASE \E s \in Sources : Boot(p, s) BY <1>1, <2>2, BootQuiet DEF QuietInv
  <2>3. CASE Step(p) BY <1>1, <2>3, ExecQuiet, RecordQuiet, SeedQuiet DEF Step, QuietInv
  <2>4. CASE Throws(p) BY <1>1, <2>4 DEF QuietInv, QuietBoot, Throws
  <2>5. CASE Dies(p)
    <3>1. /\ proc' = [proc EXCEPT ![p] = Down] /\ UNCHANGED <<objects, versions>>
          /\ disturbed' = (disturbed \/ Booting(p))
      BY <2>5 DEF Dies
    <3>2. /\ proc'[p].state = "down" /\ \A q \in Procs : q # p => proc'[q] = proc[q]
      BY <3>1 DEF QuietInv, SchemaInv, Down
    <3>3. QuietBoot BY <3>2 DEF QuietBoot
    <3>4. ASSUME ~disturbed' PROVE Quiet'
      <4>1. Quiet /\ ~Booting(p) BY <3>1, <3>4 DEF QuietInv
      <4>2. \A q \in Procs : /\ Booting(q)' <=> Booting(q)
                             /\ Booting(q) => proc'[q] = proc[q]
        BY <3>2, <4>1 DEF Booting
      <4>. QED BY <3>1, <4>1, <4>2 DEF Quiet, Altered, Pending
    <3>. QED BY <1>1, <3>1, <3>3, <3>4 DEF QuietInv
  <2>6. CASE EditModels(p)
    <3>1. UNCHANGED <<objects, versions, proc, disturbed>>
      BY <2>6 DEF EditModels, InsertCustomModel, DeleteModel, PatchModel, ChangeModels
    <3>2. QuietBoot BY <3>1 DEF QuietBoot
    <3>3. Quiet => Quiet' BY <3>1 DEF Quiet, Altered, Booting, Pending
    <3>. QED BY <1>1, <3>1, <3>2, <3>3 DEF QuietInv
  <2>. QED BY <2>1, <2>2, <2>3, <2>4, <2>5, <2>6
<1>. QED BY <1>2, <1>3

LEMMA QuietStart == Init => QuietInv
<1>. SUFFICES ASSUME Init PROVE QuietInv OBVIOUS
<1>1. SchemaInv BY InitSchema
<1>2. objects = {} /\ disturbed = FALSE /\ \A p \in Procs : proc[p].state = "down" BY DEF Init, Down
<1>. QED BY <1>1, <1>2 DEF QuietInv, Quiet, Altered, Booting

(* db/index.ts:12-61 - as long as no boot was interrupted or met another one,  *)
(* the database opens, unless a provider's shortcut is taken by the row of     *)
(* another: for any releases, one after the other, forward or back.            *)
THEOREM BootsOpen == Spec => QuietBootsSucceed
<1>1. QuietInv /\ [Next]_vars => QuietInv' /\ QuietBoot BY QuietStep
<1>2. QuietInv /\ [Next]_vars => [QuietBoot]_vars BY <1>1
<1>. QED BY QuietStart, <1>1, <1>2, PTL DEF Spec, QuietBootsSucceed, QuietBoot

--------------------------------------------------------------------------------
Keyed(r) == r = [provider |-> r.provider, id |-> r.id, builtin |-> r.builtin]

(* The strengthening: rows and what users hold have their shape, every process *)
(* has one of the sources.                                                     *)
CatalogueInv ==
  /\ \A r \in models : Keyed(r)
  /\ \A x \in mine : x = <<x[1], x[2]>>
  /\ \A p \in Procs : proc[p].source \in Sources
  /\ DOMAIN proc = Procs
  /\ seeded \subseteq Sources
  /\ CatalogueMirrored
  /\ CustomModelsKept

LEMMA SourceLists ==
  ASSUME NEW s \in Sources
  PROVE  /\ s.list \in Seq([id : STRING, shortcut : STRING, models : SUBSET ModelIds])
         /\ DOMAIN s.list = 1 .. Len(s.list)
         /\ \A e, d \in Entries(s.list) : e.id = d.id => e = d
<1>1. s.list \in Seq([id : STRING, shortcut : STRING, models : SUBSET ModelIds])
  BY DatabaseAssumption DEF SourceType
<1> QED BY <1>1, DatabaseAssumption DEF Entries

LEMMA CatalogueInit == Init => CatalogueInv
<1>1. (CHOOSE s \in Sources : TRUE) \in Sources BY DatabaseAssumption
<1> QED BY <1>1 DEF Init, CatalogueInv, CatalogueMirrored, CustomModelsKept, Down

LEMMA RowsUnchanged ==
  ASSUME CatalogueInv, UNCHANGED <<providers, models, seeded, mine, catalogued>>,
         DOMAIN proc' = Procs, \A q \in Procs : proc'[q].source \in Sources
  PROVE  CatalogueInv'
BY DEF CatalogueInv, CatalogueMirrored, CustomModelsKept

LEMMA RefusalKeeps ==
  ASSUME CatalogueInv, NEW p \in Procs, WithoutAdmin(p) PROVE CatalogueInv'
<1>1. UNCHANGED <<providers, models, seeded, mine, catalogued>> BY DEF WithoutAdmin, rows
<1>2. DOMAIN proc' = Procs /\ \A q \in Procs : proc'[q].source \in Sources
  BY DEF WithoutAdmin, CatalogueInv
<1> QED BY <1>1, <1>2, RowsUnchanged

\* The seeding leaves of a seeded provider just what the list says, and takes no
\* model of a user's but one that the list has.
LEMMA SeedingMirrors ==
  ASSUME CatalogueInv, NEW p \in Procs, SeedBuiltins(p) PROVE CatalogueInv'
<1> DEFINE s == proc[p].source
           list == s.list
           new == BuiltinRows(list)
           ours == {e.id : e \in Entries(list)}
           kept == {r \in models : ~\E b \in new : b.provider = r.provider /\ b.id = r.id}
<1>1. CASE ShortcutTaken(list)
  <2>1. WithoutAdmin(p) /\ UNCHANGED <<disturbed, faults>> BY <1>1 DEF SeedBuiltins
  <2> QED BY <2>1, RefusalKeeps
<1>2. CASE ~ShortcutTaken(list)
  <2>1. /\ providers' = Upserted(list, Len(list))
        /\ models' = {r \in kept : r.builtin => r.provider \notin ours} \cup new
        /\ proc' = [proc EXCEPT ![p].state = "up"]
        /\ seeded' = {s}
        /\ catalogued' = catalogued \cup {<<r.provider, r.id>> : r \in new}
        /\ mine' = mine
    BY <1>2 DEF SeedBuiltins, SeededModels
  <2>2. s \in Sources BY DEF CatalogueInv
  <2>3. \A r \in new : Keyed(r) /\ r.builtin /\ \E e \in Entries(list) : r.provider = e.id /\ r.id \in e.models
    <3> SUFFICES ASSUME NEW r \in new
                 PROVE  Keyed(r) /\ r.builtin /\ \E e \in Entries(list) : r.provider = e.id /\ r.id \in e.models
      OBVIOUS
    <3>1. PICK e \in Entries(list) : r \in {[provider |-> e.id, id |-> i, builtin |-> TRUE] : i \in e.models}
      BY DEF BuiltinRows
    <3> QED BY <3>1 DEF Keyed
  <2>4. \A e \in Entries(list) : \A i \in e.models : [provider |-> e.id, id |-> i, builtin |-> TRUE] \in new
    <3> SUFFICES ASSUME NEW e \in Entries(list), NEW i \in e.models
                 PROVE  [provider |-> e.id, id |-> i, builtin |-> TRUE] \in new
      OBVIOUS
    <3> DEFINE some(d) == {[provider |-> d.id, id |-> j, builtin |-> TRUE] : j \in d.models}
    <3>1. [provider |-> e.id, id |-> i, builtin |-> TRUE] \in some(e) OBVIOUS
    <3>2. new = UNION {some(d) : d \in Entries(list)} BY DEF BuiltinRows
    <3> HIDE DEF some, new
    <3> QED BY <3>1, <3>2
  <2> HIDE DEF new
  <2>5. ASSUME NEW e \in Entries(list) PROVE [id |-> e.id, shortcut |-> e.shortcut] \in providers'
    <3>1. PICK n \in 1 .. Len(list) : e = list[n] BY <2>2, SourceLists DEF Entries
    <3> QED BY <2>1, <3>1 DEF Upserted
  <2>6. ASSUME NEW e \in Entries(list) PROVE {r.id : r \in {q \in models' : q.provider = e.id /\ q.builtin}} = e.models
    <3>1. \A q \in models' : q.provider = e.id /\ q.builtin => q \in new
      BY <2>1
    <3>2. \A q \in new : q.provider = e.id => q.id \in e.models
      <4> SUFFICES ASSUME NEW q \in new, q.provider = e.id PROVE q.id \in e.models
        OBVIOUS
      <4>1. PICK d \in Entries(list) : q.provider = d.id /\ q.id \in d.models BY <2>3
      <4>2. d = e BY <2>2, <4>1, SourceLists
      <4> QED BY <4>1, <4>2
    <3>3. ASSUME NEW i \in e.models PROVE \E q \in models' : q.provider = e.id /\ q.builtin /\ q.id = i
      <4> DEFINE q == [provider |-> e.id, id |-> i, builtin |-> TRUE]
      <4>1. q \in models' BY <2>1, <2>4
      <4>2. q.provider = e.id /\ q.builtin /\ q.id = i OBVIOUS
      <4> HIDE DEF q
      <4> QED BY <4>1, <4>2
    <3> HIDE DEF list
    <3> QED BY <3>1, <3>2, <3>3
  <2>7. CatalogueMirrored'
    BY <2>1, <2>5, <2>6 DEF CatalogueMirrored
  <2>8. ASSUME NEW x \in mine', x \notin catalogued' PROVE Row(x[1], x[2], FALSE) \in models'
    <3>1. x \in mine /\ x \notin catalogued /\ x = <<x[1], x[2]>>
      BY <2>1, <2>8 DEF CatalogueInv
    <3>2. Row(x[1], x[2], FALSE) \in models BY <3>1 DEF CatalogueInv, CustomModelsKept
    <3>3. ~\E b \in new : b.provider = x[1] /\ b.id = x[2] BY <2>1, <2>8, <3>1
    <3> QED BY <2>1, <3>2, <3>3 DEF Row
  <2>9. \A r \in models' : Keyed(r) BY <2>1, <2>3 DEF CatalogueInv
  <2>10. DOMAIN proc' = Procs /\ \A q \in Procs : proc'[q].source \in Sources
    BY <2>1 DEF CatalogueInv
  <2> QED BY <2>1, <2>2, <2>7, <2>8, <2>9, <2>10 DEF CatalogueInv, CustomModelsKept
<1> QED BY <1>1, <1>2

\* What users do is about rows that are no catalogue's.
LEMMA EditsKeep ==
  ASSUME CatalogueInv, NEW p \in Procs, EditModels(p) PROVE CatalogueInv'
<1>1. CatalogueMirrored' \/ ~\A r \in models' \cup models : r.builtin => r \in models' \cap models
  BY DEF CatalogueInv, CatalogueMirrored, EditModels, InsertCustomModel, DeleteModel, PatchModel, ChangeModels
<1>2. CASE \E r \in providers, id \in ModelIds : InsertCustomModel(p, r.id, id)
  <2>1. PICK a, id : models' = models \cup {Row(a, id, FALSE)} /\ mine' = mine \cup {<<a, id>>}
    BY <1>2 DEF InsertCustomModel, ChangeModels
  <2>2. UNCHANGED <<proc, seeded, providers, catalogued>>
    BY <1>2 DEF InsertCustomModel, ChangeModels
  <2>3. \A x \in mine' : x = <<x[1], x[2]>> /\ (x \notin catalogued => Row(x[1], x[2], FALSE) \in models')
    <3> SUFFICES ASSUME NEW x \in mine'
                 PROVE  x = <<x[1], x[2]>> /\ (x \notin catalogued => Row(x[1], x[2], FALSE) \in models')
      OBVIOUS
    <3>1. CASE x \in mine BY <2>1, <3>1 DEF CatalogueInv, CustomModelsKept
    <3>2. CASE x = <<a, id>> BY <2>1, <3>2
    <3> QED BY <2>1, <3>1, <3>2
  <2>4. Row(a, id, FALSE).builtin = FALSE /\ Keyed(Row(a, id, FALSE)) BY DEF Row, Keyed
  <2>5. CatalogueMirrored' BY <1>1, <2>1, <2>4
  <2> QED BY <2>1, <2>2, <2>3, <2>4, <2>5 DEF CatalogueInv, CustomModelsKept
<1>3. ASSUME NEW row \in models, DeleteModel(p, row) PROVE CatalogueInv'
  <2>1. /\ models' = models \ {row} /\ mine' = mine \ {<<row.provider, row.id>>} /\ ~row.builtin
        /\ UNCHANGED <<proc, seeded, providers, catalogued>>
    BY <1>3 DEF DeleteModel, ChangeModels
  <2>2. ASSUME NEW x \in mine', x \notin catalogued PROVE Row(x[1], x[2], FALSE) \in models'
    <3>1. x \in mine /\ x = <<x[1], x[2]>> /\ x # <<row.provider, row.id>> BY <2>1, <2>2 DEF CatalogueInv
    <3>2. Row(x[1], x[2], FALSE) \in models BY <2>2, <3>1 DEF CatalogueInv, CustomModelsKept
    <3>3. Row(x[1], x[2], FALSE) # row BY <3>1 DEF Row
    <3> QED BY <2>1, <3>2, <3>3
  <2> QED BY <1>1, <2>1, <2>2 DEF CatalogueInv, CustomModelsKept
<1>4. ASSUME NEW row \in models, NEW id \in ModelIds, PatchModel(p, row, id) PROVE CatalogueInv'
  <2>1. /\ models' = (models \ {row}) \cup {Row(row.provider, id, FALSE)}
        /\ mine' = (mine \ {<<row.provider, row.id>>}) \cup {<<row.provider, id>>} /\ ~row.builtin
        /\ UNCHANGED <<proc, seeded, providers, catalogued>>
    BY <1>4 DEF PatchModel, ChangeModels
  <2>2. ASSUME NEW x \in mine', x \notin catalogued PROVE Row(x[1], x[2], FALSE) \in models'
    <3>0. CASE x = <<row.provider, id>> BY <2>1, <3>0
    <3>1. CASE x # <<row.provider, id>>
      <4>1. x \in mine /\ x = <<x[1], x[2]>> /\ x # <<row.provider, row.id>> BY <2>1, <2>2, <3>1 DEF CatalogueInv
      <4>2. Row(x[1], x[2], FALSE) \in models BY <2>2, <4>1 DEF CatalogueInv, CustomModelsKept
      <4>3. Row(x[1], x[2], FALSE) # row BY <4>1 DEF Row
      <4> QED BY <2>1, <4>2, <4>3
    <3> QED BY <3>0, <3>1
  <2>3. \A r \in models' \cup models : r.builtin => r \in models' \cap models
    BY <2>1 DEF Row
  <2>4. (\A r \in models' : Keyed(r)) /\ \A x \in mine' : x = <<x[1], x[2]>>
    BY <2>1 DEF CatalogueInv, Row, Keyed
  <2> QED BY <1>1, <2>1, <2>2, <2>3, <2>4 DEF CatalogueInv, CustomModelsKept
<1> QED BY <1>2, <1>3, <1>4 DEF EditModels

LEMMA CatalogueStep == CatalogueInv /\ [Next]_vars => CatalogueInv'
<1>1. ASSUME CatalogueInv, UNCHANGED vars PROVE CatalogueInv'
  BY <1>1 DEF vars, rows, history, CatalogueInv, CatalogueMirrored, CustomModelsKept
<1>2. ASSUME CatalogueInv, Next PROVE CatalogueInv'
  <2>1. PICK p \in Procs :
          \/ \E s \in Sources : Boot(p, s)
          \/ Step(p) \/ Throws(p) \/ Dies(p) \/ EditModels(p)
    BY <1>2 DEF Next
  <2>2. CASE SeedBuiltins(p) BY <1>2, <2>2, SeedingMirrors
  <2>3. CASE EditModels(p) BY <1>2, <2>3, EditsKeep
  <2>4. CASE Throws(p) BY <1>2, <2>4, RefusalKeeps DEF Throws
  <2>5. CASE ExecStatement(p) \/ RecordVersion(p)
    <3>1. CASE WithoutAdmin(p) BY <1>2, <3>1, RefusalKeeps
    <3>2. CASE ~WithoutAdmin(p)
      <4>1. UNCHANGED <<rows, seeded, mine, catalogued>>
        <5>1. CASE ExecStatement(p) BY <3>2, <5>1 DEF ExecStatement, history
        <5>2. CASE RecordVersion(p) BY <3>2, <5>2 DEF RecordVersion, history
        <5> QED BY <2>5, <5>1, <5>2
      <4>2. DOMAIN proc' = Procs /\ \A q \in Procs : proc'[q].source = proc[q].source
        <5>1. CASE ExecStatement(p)
          <6>1. proc' = [proc EXCEPT ![p].k = @ + 1] BY <3>2, <5>1 DEF ExecStatement
          <6> QED BY <1>2, <6>1 DEF CatalogueInv
        <5>2. CASE RecordVersion(p)
          <6>1. proc' = [proc EXCEPT ![p].v = @ + 1, ![p].k = 1] BY <3>2, <5>2 DEF RecordVersion
          <6> QED BY <1>2, <6>1 DEF CatalogueInv
        <5> QED BY <2>5, <5>1, <5>2
      <4> QED BY <1>2, <4>1, <4>2, RowsUnchanged DEF rows, CatalogueInv
    <3> QED BY <3>1, <3>2
  <2>6. CASE (\E s \in Sources : Boot(p, s)) \/ Dies(p)
    <3>1. (CHOOSE s \in Sources : TRUE) \in Sources BY DatabaseAssumption
    <3>2. UNCHANGED <<rows, seeded, mine, catalogued>> BY <2>6 DEF Boot, Dies
    <3>3. DOMAIN proc' = Procs /\ \A q \in Procs : proc'[q].source \in Sources
      BY <1>2, <2>6, <3>1 DEF Boot, Dies, Down, CatalogueInv
    <3> QED BY <1>2, <3>2, <3>3, RowsUnchanged DEF rows
  <2> QED BY <2>1, <2>2, <2>3, <2>4, <2>5, <2>6 DEF Step
<1> QED BY <1>1, <1>2

(* db/index.ts:84-105 - the tables show of each provider what was seeded last, *)
(* and every model of a user's that no catalogue took over, for any lists, any *)
(* number of processes, boots and failures, and whatever users edit between.   *)
THEOREM CatalogueIsSound == Spec => []CatalogueSound
<1>1. CatalogueInv => CatalogueSound
  BY DEF CatalogueInv, CatalogueSound
<1> QED BY <1>1, CatalogueInit, CatalogueStep, PTL DEF Spec

--------------------------------------------------------------------------------
WholeDir(d) == \A f \in Files : disk[d].files[f] = "whole"

InHand(t) == task[t].phase \in {"asked", "copying", "pointer"}
Moving(t) == task[t].phase \in {"copying", "pointer"}

\* The hypothesis: no request is let in while another is being worked on.
OneAtATime == \A t, u \in Tasks : InHand(t) /\ InHand(u) => t = u

\* A directory that is served, or that a boot may be led to, is whole.
Homes ==
  /\ WholeDir(Default)
  /\ pointer \in Dirs => WholeDir(pointer)
  /\ server.up => WholeDir(server.dir)

\* What the flags say of the requests.
Flags ==
  /\ \A t \in Tasks : task[t].phase # "idle" => server.up
  /\ server.open => server.up /\ ~server.maintenance
  /\ (server.up /\ server.restart) => server.maintenance /\ \A t \in Tasks : ~InHand(t)
  /\ (server.up /\ server.maintenance /\ ~server.restart) => \E t \in Tasks : Moving(t)

\* Where the rows are: in the directory served, until a move is done, and in
\* the one the next boot is led to.
RowsKept ==
  /\ (server.up /\ ~server.restart /\ pointer # Torn) => server.dir = ResolveDataDir(pointer)
  /\ (server.up /\ ~server.restart /\ ~misled) => disk[server.dir].rows = written
  /\ (pointer # Torn /\ ~misled) => disk[ResolveDataDir(pointer)].rows = written

\* A move goes to a directory nobody uses, and what it has copied is there.
MoveInv(t) ==
  /\ task[t].target \notin {Default, server.dir, pointer}
  /\ server.maintenance
  /\ task[t].current \notin task[t].copied
  /\ \A f \in task[t].copied : disk[task[t].target].files[f] = "whole"
  /\ Db \in task[t].copied => disk[task[t].target].rows = disk[server.dir].rows
  /\ task[t].phase = "pointer" => task[t].copied = Files

Moves ==
  \A t \in Tasks :
    /\ Moving(t) => MoveInv(t)
    /\ task[t].phase = "asked" => task[t].copied = {}

Typed == MigrationTypeOK /\ IsFiniteSet(written)

MigrationInv == Typed /\ Homes /\ Flags /\ RowsKept /\ Moves

LEMMA MoveInit == MigrationInit => MigrationInv
<1>1. SUFFICES ASSUME MigrationInit PROVE MigrationInv
  OBVIOUS
<1>2. Typed
  BY <1>1, MigrationAssumption, FS_EmptySet
  DEF MigrationInit, Typed, MigrationTypeOK, NoDir, NoFiles, Idle, Phases
<1>3. Homes /\ Flags /\ RowsKept /\ Moves
  BY <1>1, MigrationAssumption
  DEF MigrationInit, Homes, WholeDir, Flags, RowsKept, Moves, Moving, ResolveDataDir, None, Torn, Idle
<1> QED BY <1>2, <1>3 DEF MigrationInv

(* A boot leaves every file alone: the directory it is led to is whole.      *)
LEMMA BootFindsWhole ==
  ASSUME MigrationInv
  PROVE  LET d == ResolveDataDir(pointer)
         IN  d \in Dirs /\ WholeDir(d) /\ OpenDb(d) = disk /\ Opens(d)
<1> DEFINE d == ResolveDataDir(pointer)
<1>1. d \in Dirs /\ WholeDir(d)
  BY MigrationAssumption DEF MigrationInv, Homes, ResolveDataDir
<1>2. disk[d].files[Db] = "whole"
  BY <1>1, MigrationAssumption DEF WholeDir
<1> QED BY <1>1, <1>2 DEF OpenDb, Opens

DirType == [exists : BOOLEAN, files : [Files -> {"none", "dir", "partial", "whole"}], rows : SUBSET Nat]

TaskType == [phase : Phases, target : Dirs, created : BOOLEAN,
             copied : SUBSET Files, current : Files \cup {None}]

\* A request that is idle, and one that is so but for its phase and target.
LEMMA IdleTyped ==
  ASSUME NEW p \in Phases, NEW d \in Dirs
  PROVE  /\ Idle \in TaskType
         /\ [Idle EXCEPT !.phase = p, !.target = d] \in TaskType
         /\ [Idle EXCEPT !.phase = p, !.target = d].copied = {}
BY MigrationAssumption DEF Idle, TaskType, Phases

\* What the steps write into a directory is a directory.
LEMMA DirTyped ==
  ASSUME MigrationTypeOK, NEW d \in Dirs
  PROVE  /\ disk \in [Dirs -> DirType] /\ disk[d] \in DirType
         /\ [disk[d] EXCEPT !.exists = TRUE] \in DirType
         /\ \A f \in Files, R \in SUBSET Nat :
              /\ [disk[d] EXCEPT !.files[f] = "partial"] \in DirType
              /\ [disk[d] EXCEPT !.files[f] = "whole", !.rows = R] \in DirType
         /\ \A x \in DirType : [disk EXCEPT ![d] = x] \in [Dirs -> DirType]
<1>1. disk \in [Dirs -> DirType] /\ disk[d] \in DirType
  BY DEF MigrationTypeOK, DirType
<1>2. ASSUME NEW f \in Files, NEW R \in SUBSET Nat, NEW w \in {"partial", "whole"}
      PROVE  /\ [disk[d] EXCEPT !.files[f] = w] \in DirType
             /\ [disk[d] EXCEPT !.files[f] = w, !.rows = R] \in DirType
  BY <1>1 DEF DirType
<1>3. [disk[d] EXCEPT !.exists = TRUE] \in DirType
  BY <1>1 DEF DirType
<1>4. \A x \in DirType : [disk EXCEPT ![d] = x] \in [Dirs -> DirType]
  BY <1>1
<1> QED BY <1>1, <1>2, <1>3, <1>4

LEMMA ResumeTyped ==
  ASSUME MigrationTypeOK, NEW reopens \in BOOLEAN, Resume(reopens)
  PROVE  server' \in [up : BOOLEAN, dir : Dirs, open : BOOLEAN, maintenance : BOOLEAN, restart : BOOLEAN]
<1>1. Opens(server.dir) \in BOOLEAN
  BY DEF Opens
<1> QED BY <1>1 DEF Resume, MigrationTypeOK

(* The types are kept by every step.                                         *)
LEMMA TypeStep ==
  ASSUME MigrationInv, MigrationNext PROVE Typed'
<1> USE MigrationAssumption
<1>0. MigrationTypeOK /\ IsFiniteSet(written)
  BY DEF MigrationInv, Typed
<1>1. CASE StartServer
  BY <1>0, <1>1, BootFindsWhole DEF StartServer, Typed, MigrationTypeOK
<1>2. CASE Stop
  BY <1>0, <1>2 DEF Stop, Typed, MigrationTypeOK, Idle, Phases
<1>3. CASE Insert
  <2>1. Cardinality(written) + 1 \in Nat
    BY <1>0, FS_CardinalityType
  <2>2. IsFiniteSet(written')
    BY <1>0, <1>3, FS_AddElement DEF Insert
  <2>3. server.dir \in Dirs /\ disk \in [Dirs -> DirType]
    BY <1>0 DEF MigrationTypeOK, DirType
  <2>4. disk' = [disk EXCEPT ![server.dir].rows = @ \cup {Cardinality(written) + 1}]
        /\ written' = written \cup {Cardinality(written) + 1}
    BY <1>3 DEF Insert
  <2>5. disk' \in [Dirs -> DirType] /\ written' \in SUBSET Nat
    <3> DEFINE row == Cardinality(written) + 1
    <3>1. disk[server.dir] \in DirType /\ row \in Nat
      BY <2>1, <2>3
    <3> HIDE DEF row
    <3>2. [disk[server.dir] EXCEPT !.rows = @ \cup {row}] \in DirType
      BY <3>1 DEF DirType
    <3>3. disk' = [disk EXCEPT ![server.dir] = [disk[server.dir] EXCEPT !.rows = @ \cup {row}]]
      BY <2>3, <2>4 DEF row
    <3>4. written' \in SUBSET Nat
      BY <1>0, <2>4, <3>1 DEF MigrationTypeOK, row
    <3> QED BY <2>3, <3>2, <3>3, <3>4
  <2> QED BY <1>0, <1>3, <2>2, <2>5 DEF Insert, Typed, MigrationTypeOK, DirType
<1>4. ASSUME NEW t \in Tasks, NEW d \in Dirs, AskToMigrate(t, d) PROVE Typed'
  <2>1. [Idle EXCEPT !.phase = "asked", !.target = d] \in TaskType
    BY IdleTyped DEF Phases
  <2>2. task' \in [Tasks -> TaskType]
    BY <1>0, <1>4, <2>1 DEF AskToMigrate, MigrationTypeOK, TaskType
  <2> QED BY <1>0, <1>4, <2>2 DEF AskToMigrate, Typed, MigrationTypeOK, TaskType
<1>5. ASSUME NEW t \in Tasks, Migrate(t) PROVE Typed'
  <2>0. /\ task \in [Tasks -> TaskType] /\ task[t] \in TaskType
        /\ Idle \in TaskType
        /\ [Idle EXCEPT !.phase = "undone", !.target = task[t].target] \in TaskType
        /\ [Idle EXCEPT !.phase = "done", !.target = task[t].target] \in TaskType
    <3>1. task \in [Tasks -> TaskType] /\ task[t] \in TaskType
      BY <1>0 DEF MigrationTypeOK, TaskType
    <3>2. task[t].target \in Dirs
      BY <3>1 DEF TaskType
    <3> QED BY <3>1, <3>2, IdleTyped DEF Phases
  <2>1. CASE Refuse(t) \/ Answered(t)
    <3>1. task' \in [Tasks -> TaskType]
      BY <2>0, <2>1 DEF Refuse, Answered
    <3> QED BY <1>0, <2>1, <3>1 DEF Refuse, Answered, Typed, MigrationTypeOK, TaskType
  <2>2. CASE BeginMigration(t)
    <3>1. task' \in [Tasks -> TaskType]
      <4> DEFINE made == ~disk[task[t].target].exists
      <4>1. made \in BOOLEAN
        OBVIOUS
      <4>2. [task[t] EXCEPT !.phase = "copying", !.created = made] \in TaskType
        BY <2>0, <4>1 DEF TaskType, Phases
      <4>3. task' = [task EXCEPT ![t] = [task[t] EXCEPT !.phase = "copying", !.created = made]]
        BY <2>0, <2>2 DEF BeginMigration
      <4> QED BY <2>0, <4>2, <4>3
    <3>2. disk' \in [Dirs -> DirType]
      <4>1. disk' = [disk EXCEPT ![task[t].target] = [disk[task[t].target] EXCEPT !.exists = TRUE]]
        BY <2>2 DEF BeginMigration
      <4> QED BY <1>0, <2>0, <4>1, DirTyped DEF TaskType
    <3>3. server' = [server EXCEPT !.maintenance = TRUE, !.open = FALSE]
      BY <2>2 DEF BeginMigration
    <3>4. server' \in [up : BOOLEAN, dir : Dirs, open : BOOLEAN, maintenance : BOOLEAN, restart : BOOLEAN]
      BY <1>0, <3>3 DEF MigrationTypeOK
    <3> QED BY <1>0, <2>2, <3>1, <3>2, <3>4 DEF BeginMigration, Typed, MigrationTypeOK, TaskType, DirType
  <2>3. ASSUME NEW f \in Files, BeginCopy(t, f) PROVE Typed'
    <3>1. disk' \in [Dirs -> DirType]
      <4>1. disk' = [disk EXCEPT ![task[t].target] = [disk[task[t].target] EXCEPT !.files[f] = "partial"]]
        BY <2>3 DEF BeginCopy
      <4> QED BY <1>0, <2>0, <4>1, DirTyped DEF TaskType
    <3>2. [task[t] EXCEPT !.current = f] \in TaskType
      BY <2>0 DEF TaskType
    <3>3. task' = [task EXCEPT ![t] = [task[t] EXCEPT !.current = f]]
      BY <2>0, <2>3 DEF BeginCopy
    <3>4. task' \in [Tasks -> TaskType]
      BY <2>0, <3>2, <3>3
    <3> QED BY <1>0, <2>3, <3>1, <3>4 DEF BeginCopy, Typed, MigrationTypeOK, TaskType, DirType
  <2>4. CASE EndCopy(t)
    <3>1. task[t].current \in Files
      BY <2>0, <2>4 DEF EndCopy, TaskType
    <3>2. [task[t] EXCEPT !.copied = @ \cup {task[t].current}, !.current = None] \in TaskType
      BY <2>0, <3>1 DEF TaskType
    <3>3. task' = [task EXCEPT ![t] = [task[t] EXCEPT !.copied = @ \cup {task[t].current}, !.current = None]]
      BY <2>0, <2>4 DEF EndCopy
    <3>4. task' \in [Tasks -> TaskType]
      BY <2>0, <3>2, <3>3
    <3>5. server.dir \in Dirs /\ disk[server.dir].rows \in SUBSET Nat
      BY <1>0 DEF MigrationTypeOK
    <3>6. disk' \in [Dirs -> DirType]
      <4> DEFINE new == IF task[t].current = Db THEN disk[server.dir].rows ELSE disk[task[t].target].rows
      <4>1. disk' = [disk EXCEPT ![task[t].target] =
                       [disk[task[t].target] EXCEPT !.files[task[t].current] = "whole", !.rows = new]]
        BY <1>0, <2>0, <2>4 DEF EndCopy, MigrationTypeOK, TaskType
      <4>2. new \in SUBSET Nat /\ task[t].target \in Dirs
        <5>1. task[t].target \in Dirs BY <2>0 DEF TaskType
        <5>2. disk[task[t].target] \in DirType BY <1>0, <5>1, DirTyped
        <5> QED BY <3>5, <5>1, <5>2 DEF DirType
      <4> HIDE DEF new
      <4> QED BY <1>0, <3>1, <4>1, <4>2, DirTyped
    <3> QED BY <1>0, <2>4, <3>4, <3>6 DEF EndCopy, Typed, MigrationTypeOK, TaskType, DirType
  <2>5. CASE BeginPointer(t)
    <3>1. [task[t] EXCEPT !.phase = "pointer"] \in TaskType
      BY <2>0 DEF TaskType, Phases
    <3>2. task' \in [Tasks -> TaskType]
      BY <2>0, <2>5, <3>1 DEF BeginPointer
    <3> QED BY <1>0, <2>5, <3>2 DEF BeginPointer, Typed, MigrationTypeOK, TaskType
  <2>6. CASE EndPointer(t)
    <3>1. task' \in [Tasks -> TaskType]
      BY <2>0, <2>6 DEF EndPointer
    <3>2. task[t].target \in Dirs
      BY <2>0 DEF TaskType
    <3> QED BY <1>0, <2>6, <3>1, <3>2 DEF EndPointer, Typed, MigrationTypeOK, TaskType
  <2>7. ASSUME NEW reopens \in BOOLEAN, ScanFails(t, reopens) \/ PointerFails(t, reopens) PROVE Typed'
    <3>1. task' \in [Tasks -> TaskType]
      BY <2>0, <2>7 DEF ScanFails, PointerFails
    <3>2. server' \in [up : BOOLEAN, dir : Dirs, open : BOOLEAN, maintenance : BOOLEAN, restart : BOOLEAN]
      BY <1>0, <2>7, ResumeTyped DEF ScanFails, PointerFails
    <3>3. disk' \in [Dirs -> DirType]
      <4>1. \/ disk' = disk
            \/ disk' = [disk EXCEPT ![task[t].target] = [disk[task[t].target] EXCEPT !.exists = TRUE]]
        BY <2>7 DEF ScanFails, PointerFails
      <4>2. disk \in [Dirs -> DirType]
        BY <1>0 DEF MigrationTypeOK, DirType
      <4>3. task[t].target \in Dirs
        BY <2>0 DEF TaskType
      <4>4. [disk EXCEPT ![task[t].target] = [disk[task[t].target] EXCEPT !.exists = TRUE]] \in [Dirs -> DirType]
        BY <1>0, <4>3, DirTyped
      <4> QED BY <4>1, <4>2, <4>4
    <3>4. UNCHANGED <<pointer, written, misled, moves, starts>>
      BY <2>7 DEF ScanFails, PointerFails
    <3> QED BY <1>0, <3>1, <3>2, <3>3, <3>4 DEF Typed, MigrationTypeOK, TaskType, DirType
  <2>8. ASSUME NEW reopens \in BOOLEAN, CopyFails(t, reopens) PROVE Typed'
    <3>1. task' \in [Tasks -> TaskType]
      BY <2>0, <2>8 DEF CopyFails
    <3>2. server' \in [up : BOOLEAN, dir : Dirs, open : BOOLEAN, maintenance : BOOLEAN, restart : BOOLEAN]
      BY <1>0, <2>8, ResumeTyped DEF CopyFails
    <3>3. RolledBack(t) \in DirType
      <4>1. task[t].target \in Dirs
        BY <2>0 DEF TaskType
      <4>2. /\ disk[task[t].target].exists \in BOOLEAN
            /\ disk[task[t].target].files \in [Files -> {"none", "dir", "partial", "whole"}]
            /\ disk[task[t].target].rows \in SUBSET Nat
        BY <1>0, <4>1 DEF MigrationTypeOK
      <4> DEFINE old == disk[task[t].target]
                 left == [f \in Files |-> IF f \notin task[t].copied THEN old.files[f]
                                          ELSE IF f \in Nested THEN "dir" ELSE "none"]
      <4>3. left \in [Files -> {"none", "dir", "partial", "whole"}]
        BY <4>2
      <4>4. old = [exists |-> old.exists, files |-> old.files, rows |-> old.rows]
        BY <1>0, <4>1 DEF MigrationTypeOK
      <4>5. [old EXCEPT !.files = left] = [exists |-> old.exists, files |-> left, rows |-> old.rows]
        BY <4>4
      <4>6. RolledBack(t) \in {NoDir, [old EXCEPT !.files = left]}
        BY DEF RolledBack
      <4>7. NoDir \in [exists : BOOLEAN, files : [Files -> {"none", "dir", "partial", "whole"}], rows : SUBSET Nat]
        BY DEF NoDir, NoFiles
      <4> HIDE DEF left, old
      <4> QED BY <4>2, <4>3, <4>5, <4>6, <4>7 DEF old, DirType
    <3>4. disk' \in [Dirs -> DirType]
      BY <1>0, <2>0, <2>8, <3>3, DirTyped DEF CopyFails, TaskType
    <3> QED BY <1>0, <2>8, <3>1, <3>2, <3>4 DEF CopyFails, Typed, MigrationTypeOK, TaskType, DirType
  <2> QED BY <1>5, <2>1, <2>2, <2>3, <2>4, <2>5, <2>6, <2>7, <2>8 DEF Migrate
<1> QED BY <1>1, <1>2, <1>3, <1>4, <1>5 DEF MigrationNext

Kept == Homes /\ Flags /\ RowsKept /\ Moves

LEMMA ProcessStep ==
  ASSUME MigrationInv, StartServer \/ Stop \/ Insert PROVE Kept'
<1> USE MigrationAssumption DEF MigrationInv, Typed
<1>1. CASE StartServer
  <2>1. disk' = disk /\ WholeDir(ResolveDataDir(pointer)) /\ ResolveDataDir(pointer) \in Dirs
    BY <1>1, BootFindsWhole DEF StartServer
  <2>2. \A t \in Tasks : task'[t].phase = "idle"
    BY <1>1 DEF StartServer, Flags
  <2>3. /\ pointer' = pointer /\ written' = written /\ misled' = (misled \/ pointer = Torn)
        /\ server'.up /\ server'.dir = ResolveDataDir(pointer) /\ ~server'.maintenance /\ ~server'.restart
    BY <1>1 DEF StartServer
  <2>4. Homes'
    BY <2>1, <2>3 DEF Homes, WholeDir
  <2>5. Flags' /\ Moves'
    BY <2>2, <2>3 DEF Flags, Moves, InHand, Moving
  <2>6. RowsKept'
    BY <2>1, <2>3 DEF RowsKept, ResolveDataDir
  <2> QED BY <2>4, <2>5, <2>6 DEF Kept
<1>2. CASE Stop
  BY <1>2
    DEF Stop, Kept, MigrationTypeOK, Idle, Homes, WholeDir, Flags, RowsKept, Moves, MoveInv, Moving, InHand,
        ResolveDataDir
<1>3. CASE Insert
  <2>1. server.up /\ server.open /\ ~server.maintenance /\ ~server.restart
    BY <1>3 DEF Insert, Running, Flags
  <2>2. \A t \in Tasks : ~Moving(t)
    BY <2>1 DEF Moves, MoveInv
  <2>3. /\ \A d \in Dirs : disk'[d].files = disk[d].files
        /\ disk'[server.dir].rows = disk[server.dir].rows \cup {Cardinality(written) + 1}
        /\ written' = written \cup {Cardinality(written) + 1}
    BY <1>3 DEF Insert, MigrationTypeOK
  <2> QED
    BY <1>3, <2>1, <2>2, <2>3
      DEF Insert, Kept, MigrationTypeOK, Homes, WholeDir, Flags, RowsKept, Moves, MoveInv, Moving, InHand,
          ResolveDataDir
<1> QED BY <1>1, <1>2, <1>3

LEMMA AskStep ==
  ASSUME MigrationInv, NEW t \in Tasks, NEW d \in Dirs, AskToMigrate(t, d) PROVE Kept'
BY MigrationAssumption
DEF MigrationInv, Typed, AskToMigrate, Running, Kept, MigrationTypeOK, Idle, Homes, WholeDir, Flags, RowsKept,
    Moves, MoveInv, Moving, InHand, ResolveDataDir

(* While one request is in hand, no restart is due, and no other moves.       *)
LEMMA InHandAlone ==
  ASSUME MigrationInv, OneAtATime, NEW t \in Tasks, InHand(t)
  PROVE  /\ server.up /\ ~server.restart
         /\ \A u \in Tasks \ {t} : ~InHand(u) /\ ~Moving(u)
         /\ server.maintenance => Moving(t)
BY DEF MigrationInv, Flags, OneAtATime, InHand, Moving

LEMMA MigrateStep ==
  ASSUME MigrationInv, OneAtATime, NEW t \in Tasks, Migrate(t) PROVE Kept'
<1> USE MigrationAssumption DEF MigrationInv, Typed
<1>0. MigrationTypeOK
  OBVIOUS
<1>1. CASE Refuse(t)
  <2>1. InHand(t) /\ ~Moving(t)
    BY <1>1 DEF Refuse, InHand, Moving
  <2> QED BY <1>0, <1>1, <2>1, InHandAlone
    DEF Refuse, Kept, MigrationTypeOK, Idle, Homes, WholeDir, Flags, RowsKept, Moves, MoveInv, Moving, InHand,
        ResolveDataDir
<1>2. CASE Answered(t)
  BY <1>0, <1>2
    DEF Answered, Kept, MigrationTypeOK, Idle, Homes, WholeDir, Flags, RowsKept, Moves, MoveInv, Moving, InHand,
        ResolveDataDir
<1>3. CASE BeginMigration(t)
  <2>1. InHand(t)
    BY <1>3 DEF BeginMigration, InHand
  <2>2. task[t].target \notin {Default, server.dir, pointer}
    BY <1>0, <1>3, <2>1, InHandAlone DEF BeginMigration, PreviewOk, NoFiles, Homes, WholeDir, MigrationTypeOK
  <2>3. \A d \in Dirs : disk'[d].files = disk[d].files /\ disk'[d].rows = disk[d].rows
    BY <1>0, <1>3 DEF BeginMigration, MigrationTypeOK
  <2>4. task[t].copied = {}
    BY <1>3 DEF BeginMigration, Moves
  <2>5. /\ UNCHANGED <<pointer, written, misled>>
        /\ server' = [server EXCEPT !.maintenance = TRUE, !.open = FALSE]
        /\ task'[t].phase = "copying" /\ task'[t].target = task[t].target
        /\ task'[t].copied = {} /\ task'[t].current = task[t].current
        /\ \A u \in Tasks \ {t} : task'[u] = task[u]
    BY <1>0, <1>3, <2>4 DEF BeginMigration, MigrationTypeOK
  <2>6. /\ server'.up = server.up /\ server'.dir = server.dir /\ server'.restart = server.restart
        /\ server'.maintenance /\ ~server'.open /\ server.dir \in Dirs
    BY <1>0, <2>5 DEF MigrationTypeOK
  <2>7. /\ server.up /\ ~server.restart
        /\ \A u \in Tasks \ {t} : ~InHand(u) /\ ~Moving(u)
    BY <2>1, InHandAlone
  <2>8. Homes' /\ RowsKept'
    BY <1>0, <2>3, <2>5, <2>6 DEF Homes, WholeDir, RowsKept, ResolveDataDir, MigrationTypeOK
  <2>9. Flags'
    BY <2>5, <2>6, <2>7 DEF Flags, InHand, Moving
  <2>10. Moves'
    BY <2>2, <2>5, <2>6, <2>7 DEF Moves, MoveInv, InHand, Moving
  <2> QED BY <2>8, <2>9, <2>10 DEF Kept
<1>4. ASSUME NEW f \in Files, BeginCopy(t, f) PROVE Kept'
  <2>1. Moving(t) /\ InHand(t) /\ MoveInv(t) /\ f \notin task[t].copied
    BY <1>4 DEF BeginCopy, Moving, InHand, Moves, ToCopy
  <2>2. /\ \A d \in Dirs : disk'[d].rows = disk[d].rows
        /\ \A d \in Dirs \ {task[t].target} : disk'[d] = disk[d]
        /\ \A g \in Files \ {f} : disk'[task[t].target].files[g] = disk[task[t].target].files[g]
    BY <1>0, <1>4 DEF BeginCopy, MigrationTypeOK
  <2> QED BY <1>0, <1>4, <2>1, <2>2, InHandAlone
    DEF BeginCopy, Kept, MigrationTypeOK, Homes, WholeDir, Flags, RowsKept, Moves, MoveInv, Moving, InHand,
        ResolveDataDir
<1>5. CASE EndCopy(t)
  <2>1. Moving(t) /\ InHand(t) /\ MoveInv(t)
    BY <1>5 DEF EndCopy, Moving, InHand, Moves
  <2>2. /\ \A d \in Dirs \ {task[t].target} : disk'[d] = disk[d]
        /\ \A g \in task'[t].copied : disk'[task[t].target].files[g] = "whole"
        /\ Db \in task'[t].copied => disk'[task[t].target].rows = disk[server.dir].rows
    BY <1>0, <1>5, <2>1 DEF EndCopy, MoveInv, MigrationTypeOK
  <2>3. task' = [task EXCEPT ![t].copied = @ \cup {task[t].current}, ![t].current = None]
    BY <1>5 DEF EndCopy
  <2>4. None \notin task'[t].copied
    <3>1. task'[t].copied = task[t].copied \cup {task[t].current}
      BY <1>0, <2>3 DEF MigrationTypeOK
    <3> QED BY <1>0, <1>5, <3>1 DEF EndCopy, MigrationTypeOK
  <2>5. /\ \A u \in Tasks \ {t} : task'[u] = task[u]
        /\ task'[t].phase = "copying" /\ task[t].phase = "copying"
        /\ task'[t].target = task[t].target /\ task'[t].current = None
    BY <1>0, <1>5, <2>3 DEF EndCopy, MigrationTypeOK
  <2>6. Homes' /\ RowsKept'
    <3>1. /\ UNCHANGED <<pointer, server, written, misled>>
          /\ task[t].target \notin {Default, server.dir, pointer}
      BY <1>5, <2>1 DEF EndCopy, MoveInv
    <3>2. ResolveDataDir(pointer) \in Dirs \ {task[t].target} /\ server.dir \in Dirs \ {task[t].target}
      BY <1>0, <3>1 DEF ResolveDataDir, MigrationTypeOK
    <3> QED BY <2>2, <3>1, <3>2 DEF Homes, WholeDir, RowsKept, ResolveDataDir
  <2>7. Flags'
    BY <1>5, <2>5 DEF EndCopy, Flags, InHand, Moving
  <2>8. \A u \in Tasks \ {t} : ~Moving(u)
    BY <2>1, OneAtATime DEF OneAtATime, InHand, Moving
  <2>9. MoveInv(t)'
    <3>1. pointer' = pointer /\ server' = server
      BY <1>5 DEF EndCopy
    <3>2. /\ task[t].target \notin {Default, server.dir, pointer} /\ server.maintenance
          /\ task'[t].current \notin task'[t].copied
          /\ task'[t].phase # "pointer"
      BY <2>1, <2>4, <2>5 DEF MoveInv
    <3>3. server.dir \in Dirs \ {task[t].target}
      BY <1>0, <3>2 DEF MigrationTypeOK
    <3> QED BY <2>2, <2>5, <3>1, <3>2, <3>3 DEF MoveInv
  <2>10. Moves'
    BY <2>5, <2>8, <2>9 DEF Moves, Moving
  <2> QED BY <2>6, <2>7, <2>10 DEF Kept
<1>6. CASE BeginPointer(t)
  <2>1. Moving(t) /\ InHand(t) /\ MoveInv(t)
    BY <1>6 DEF BeginPointer, Moving, InHand, Moves
  <2>2. task[t].copied = Files
    <3>1. WholeDir(server.dir)
      BY <1>6 DEF BeginPointer, Running, Homes
    <3>2. Files \ task[t].copied = {}
      BY <1>6, <3>1 DEF BeginPointer, ToCopy, WholeDir
    <3> QED BY <1>0, <3>2 DEF MigrationTypeOK
  <2> QED BY <1>0, <1>6, <2>1, <2>2, InHandAlone
    DEF BeginPointer, Kept, MigrationTypeOK, Homes, WholeDir, Flags, RowsKept, Moves, MoveInv, Moving, InHand,
        ResolveDataDir
<1>7. CASE EndPointer(t)
  <2>1. Moving(t) /\ InHand(t) /\ MoveInv(t)
    BY <1>7 DEF EndPointer, Moving, InHand, Moves
  <2>2. WholeDir(task[t].target) /\ disk[task[t].target].rows = disk[server.dir].rows
    BY <1>7, <2>1 DEF EndPointer, MoveInv, WholeDir
  <2> QED BY <1>0, <1>7, <2>1, <2>2, InHandAlone
    DEF EndPointer, Kept, MigrationTypeOK, Idle, Homes, WholeDir, Flags, RowsKept, Moves, MoveInv, Moving,
        InHand, ResolveDataDir
<1>8. ASSUME NEW reopens \in BOOLEAN, ScanFails(t, reopens) PROVE Kept'
  <2>1. InHand(t) /\ ~Moving(t)
    BY <1>8 DEF ScanFails, InHand, Moving
  <2>2. \A d \in Dirs : disk'[d].files = disk[d].files /\ disk'[d].rows = disk[d].rows
    BY <1>0, <1>8 DEF ScanFails, MigrationTypeOK
  <2> QED BY <1>0, <1>8, <2>1, <2>2, InHandAlone
    DEF ScanFails, Resume, Kept, MigrationTypeOK, Idle, Homes, WholeDir, Flags, RowsKept, Moves, MoveInv,
        Moving, InHand, ResolveDataDir
<1>9. ASSUME NEW reopens \in BOOLEAN, CopyFails(t, reopens) PROVE Kept'
  <2>1. Moving(t) /\ InHand(t) /\ MoveInv(t)
    BY <1>9 DEF CopyFails, Moving, InHand, Moves
  <2>2. \A d \in Dirs \ {task[t].target} : disk'[d] = disk[d]
    BY <1>0, <1>9 DEF CopyFails, MigrationTypeOK
  <2> QED BY <1>0, <1>9, <2>1, <2>2, InHandAlone
    DEF CopyFails, Resume, Kept, MigrationTypeOK, Idle, Homes, WholeDir, Flags, RowsKept, Moves, MoveInv,
        Moving, InHand, ResolveDataDir
<1>10. ASSUME NEW reopens \in BOOLEAN, PointerFails(t, reopens) PROVE Kept'
  <2>1. Moving(t) /\ InHand(t)
    BY <1>10 DEF PointerFails, Moving, InHand
  <2> QED BY <1>0, <1>10, <2>1, InHandAlone
    DEF PointerFails, Resume, Kept, MigrationTypeOK, Idle, Homes, WholeDir, Flags, RowsKept, Moves, MoveInv,
        Moving, InHand, ResolveDataDir
<1> QED BY <1>1, <1>2, <1>3, <1>4, <1>5, <1>6, <1>7, <1>8, <1>9, <1>10 DEF Migrate

LEMMA MoveStep ==
  ASSUME MigrationInv, OneAtATime, [MigrationNext]_migrationVars PROVE MigrationInv'
<1>1. CASE MigrationNext
  <2>1. Kept'
    BY <1>1, ProcessStep, AskStep, MigrateStep DEF MigrationNext
  <2> QED BY <1>1, <2>1, TypeStep DEF MigrationInv, Kept
<1>2. CASE UNCHANGED migrationVars
  BY <1>2
    DEF migrationVars, MigrationInv, Typed, MigrationTypeOK, Homes, WholeDir, Flags, RowsKept, Moves, MoveInv,
        Moving, InHand, ResolveDataDir
<1> QED BY <1>1, <1>2

(* Whatever is asked for, dies or fails, directories, pointer file, process   *)
(* and requests keep their shape.                                             *)
THEOREM MigrationTypeCorrect == MigrationSpec /\ []OneAtATime => []MigrationTypeOK
<1>1. MigrationInv => MigrationTypeOK
  BY DEF MigrationInv, Typed
<1> QED BY <1>1, MoveInit, MoveStep, PTL DEF MigrationSpec

(* As long as requests to move the data come one at a time, no row is lost by *)
(* a copy, a rollback, a pointer that could not be written or a death at any  *)
(* moment, and the maintenance flag stands exactly as long as the move does.  *)
THEOREM MovesAreSafe == MigrationSpec /\ []OneAtATime => []MigrationSafe
<1>1. MigrationInv => MigrationSafe
  BY MigrationAssumption
 
    DEF MigrationInv, Typed, MigrationTypeOK, MigrationSafe, NothingLost, MaintenanceFits, MaintenanceStaysOn,
        BackInService,
      Homes, WholeDir, Flags, RowsKept, Moves, MoveInv, Moving, InHand, ResolveDataDir
<1> QED BY <1>1, MoveInit, MoveStep, PTL DEF MigrationSpec
================================================================================
