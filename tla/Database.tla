-------------------------------- MODULE Database -------------------------------
(***************************************************************************)
(* Opening the sqlite database: the schema migrations and the seeding of   *)
(* the built-in rows (src/src/db/index.ts, schema.ts) and the user's own   *)
(* models (db/models.ts).  Several processes (a terminal, the desktop      *)
(* application) may open the same file; the program is replaced by other   *)
(* releases and providers.json is edited between two boots.                *)
(*                                                                         *)
(* A migration is not one transaction: every statement of it and the row   *)
(* of schema_version commit one by one.  The seeding is one transaction.   *)
(***************************************************************************)
EXTENDS Integers, Sequences, FiniteSets

CONSTANTS
  Procs,      \* processes that open the database
  Sources,    \* what a boot may find in its code and providers.json
  ModelIds,   \* upstream ids a user may add
  MaxBoots,   \* bound: boots
  MaxFaults   \* bound: statements that throw, deaths during a boot

VARIABLES
  objects,    \* tables, columns and indexes that exist
  versions,   \* rows of schema_version
  providers,  \* rows of providers
  models,     \* rows of models
  proc,       \* the processes
  seeded,     \* history: the source that was seeded last
  mine,       \* history: models users added and did not delete
  catalogued, \* history: models that were ever seeded
  disturbed,  \* history: a boot was interrupted or met another boot
  boots,      \* counter of the bound
  faults      \* counter of the bound

rows    == <<providers, models>>
history == <<seeded, mine, catalogued, disturbed>>
vars    == <<objects, versions, rows, proc, history, boots, faults>>

Create(name) == [kind |-> "create", name |-> name]   \* IF NOT EXISTS
Alter(name)  == [kind |-> "alter",  name |-> name]   \* ADD COLUMN

\* The statements of each version; those that are repeatable are one step.
MIGRATIONS ==
  << <<Create("tables")>>,
     <<Alter("request_body"), Alter("response_body"), Alter("tool_call_count")>>,
     <<Alter("cached_tokens")>>,
     <<Create("auth_tables")>>,
     <<Alter("user_id"), Create("idx_chat_logs_user")>> >>

Versions == DOMAIN MIGRATIONS
Names(v) == {MIGRATIONS[v][n].name : n \in DOMAIN MIGRATIONS[v]}

\* A source has the migrations 1 .. version and a list of providers.
SourceType == [version : Versions, list : Seq([id : STRING, shortcut : STRING, models : SUBSET ModelIds])]

ASSUME DatabaseAssumption ==
  /\ MaxBoots \in Nat /\ MaxFaults \in Nat
  /\ Sources # {} /\ Sources \subseteq SourceType
  /\ \A s \in Sources : \A m, n \in DOMAIN s.list : m # n => s.list[m].id # s.list[n].id

Entries(list) == {list[n] : n \in DOMAIN list}

\* The rows of providers after the first n upserts.
Upserted(list, n) ==
  {r \in providers : \A m \in 1 .. n : list[m].id # r.id}
    \cup {[id |-> list[m].id, shortcut |-> list[m].shortcut] : m \in 1 .. n}

\* Some upsert meets another provider's row with its shortcut (UNIQUE).
ShortcutTaken(list) ==
  \E n \in DOMAIN list : \E r \in Upserted(list, n - 1) :
    r.shortcut = list[n].shortcut /\ r.id # list[n].id

BuiltinRows(list) == UNION {{[provider |-> e.id, id |-> i, builtin |-> TRUE] : i \in e.models} : e \in Entries(list)}

SeededModels_PrunesCustom(list) ==
  {r \in models : \A e \in Entries(list) : e.id # r.provider} \cup BuiltinRows(list)

\* Rows of the list's models are upserted; other built-in rows of its providers
\* are pruned.
SeededModels(list) ==
  LET new  == BuiltinRows(list)
      ours == {e.id : e \in Entries(list)}
      kept == {r \in models : ~\E b \in new : b.provider = r.provider /\ b.id = r.id}
  IN  {r \in kept : r.builtin => r.provider \notin ours} \cup new

Down == [state |-> "down", source |-> CHOOSE s \in Sources : TRUE, v |-> 1, k |-> 1]
Booting(p) == proc[p].state = "booting"
Pending(p) == Booting(p) /\ proc[p].v <= proc[p].source.version
Latest == CHOOSE v \in versions \cup {0} : \A w \in versions : w <= v

--------------------------------------------------------------------------------
Init ==
  /\ objects = {} /\ versions = {} /\ providers = {} /\ models = {}
  /\ proc = [p \in Procs |-> Down]
  /\ seeded = {} /\ mine = {} /\ catalogued = {} /\ disturbed = FALSE
  /\ boots = 0 /\ faults = 0

Boot_FromLatest(p, source) ==
  /\ proc[p].state = "down" /\ boots < MaxBoots
  /\ proc' = [proc EXCEPT ![p] = [state |-> "booting", source |-> source,
                                  v |-> IF Latest = 0 THEN 1 ELSE Latest, k |-> 1]]
  /\ disturbed' = (disturbed \/ \E q \in Procs : Booting(q))
  /\ boots' = boots + 1
  /\ UNCHANGED <<objects, versions, rows, seeded, mine, catalogued, faults>>

Boot_PastNext(p, source) ==
  /\ proc[p].state = "down" /\ boots < MaxBoots
  /\ proc' = [proc EXCEPT ![p] = [state |-> "booting", source |-> source,
                                  v |-> IF Latest = 0 THEN 1 ELSE Latest + 2, k |-> 1]]
  /\ disturbed' = (disturbed \/ \E q \in Procs : Booting(q))
  /\ boots' = boots + 1
  /\ UNCHANGED <<objects, versions, rows, seeded, mine, catalogued, faults>>

\* openDb: the version is read once, before the first migration.
Boot(p, source) ==
  /\ proc[p].state = "down" /\ boots < MaxBoots
  /\ proc' = [proc EXCEPT ![p] = [state |-> "booting", source |-> source, v |-> Latest + 1, k |-> 1]]
  /\ disturbed' = (disturbed \/ \E q \in Procs : Booting(q))
  /\ boots' = boots + 1
  /\ UNCHANGED <<objects, versions, rows, seeded, mine, catalogued, faults>>

\* openDb throws: the proxy goes on without the database (cli.ts:666).
WithoutAdmin(p) ==
  /\ proc' = [proc EXCEPT ![p].state = "noAdmin"]
  /\ UNCHANGED <<objects, versions, rows, seeded, mine, catalogued, boots>>

\* db.exec runs the statements one by one; an ADD COLUMN that exists throws.
ExecStatement(p) ==
  /\ Pending(p) /\ proc[p].k \in DOMAIN MIGRATIONS[proc[p].v]
  /\ LET s == MIGRATIONS[proc[p].v][proc[p].k]
     IN  IF s.kind = "alter" /\ s.name \in objects
         THEN WithoutAdmin(p) /\ UNCHANGED <<disturbed, faults>>
         ELSE /\ objects' = objects \cup {s.name}
              /\ proc' = [proc EXCEPT ![p].k = @ + 1]
              /\ UNCHANGED <<versions, rows, history, boots, faults>>

RecordVersion_First(p) ==
  /\ Pending(p)
  /\ versions' = versions \cup {proc[p].v}
  /\ proc' = [proc EXCEPT ![p].v = @ + 1, ![p].k = 1]
  /\ UNCHANGED <<objects, rows, history, boots, faults>>

\* The row of schema_version; its version is a primary key.
RecordVersion(p) ==
  /\ Pending(p) /\ proc[p].k \notin DOMAIN MIGRATIONS[proc[p].v]
  /\ IF proc[p].v \in versions
     THEN WithoutAdmin(p) /\ UNCHANGED <<disturbed, faults>>
     ELSE /\ versions' = versions \cup {proc[p].v}
          /\ proc' = [proc EXCEPT ![p].v = @ + 1, ![p].k = 1]
          /\ UNCHANGED <<objects, rows, history, boots, faults>>

\* seedBuiltins: one transaction, rolled back by a taken shortcut.
SeedBuiltins(p) ==
  /\ Booting(p) /\ ~Pending(p)
  /\ LET list == proc[p].source.list
     IN  IF ShortcutTaken(list)
         THEN WithoutAdmin(p) /\ UNCHANGED <<disturbed, faults>>
         ELSE /\ providers' = Upserted(list, Len(list))
              /\ models' = SeededModels(list)
              /\ proc' = [proc EXCEPT ![p].state = "up"]
              /\ seeded' = {proc[p].source}
              /\ catalogued' = catalogued \cup {<<r.provider, r.id>> : r \in BuiltinRows(list)}
              /\ UNCHANGED <<objects, versions, mine, disturbed, boots, faults>>

\* A statement or the transaction throws: disk full, file locked for too long.
Throws(p) ==
  /\ Booting(p) /\ faults < MaxFaults
  /\ WithoutAdmin(p)
  /\ faults' = faults + 1 /\ disturbed' = TRUE

\* The process ends; only an end during a boot disturbs anything.
Dies(p) ==
  /\ proc[p].state # "down"
  /\ Booting(p) => faults < MaxFaults
  /\ proc' = [proc EXCEPT ![p] = Down]
  /\ faults' = IF Booting(p) THEN faults + 1 ELSE faults
  /\ disturbed' = (disturbed \/ Booting(p))
  /\ UNCHANGED <<objects, versions, rows, seeded, mine, catalogued, boots>>

Row(provider, id, builtin) == [provider |-> provider, id |-> id, builtin |-> builtin]
Exists(provider, id) == \E r \in models : r.provider = provider /\ r.id = id
ChangeModels(p, set, own) ==
  /\ proc[p].state = "up"
  /\ models' = set /\ mine' = own
  /\ UNCHANGED <<objects, versions, providers, proc, seeded, catalogued, disturbed, boots, faults>>

InsertCustomModel(p, provider, id) ==
  /\ ~Exists(provider, id)
  /\ provider \in {e.id : e \in Entries(proc[p].source.list)}
  /\ ChangeModels(p, models \cup {Row(provider, id, FALSE)}, mine \cup {<<provider, id>>})

\* PATCH of the upstream id: UNIQUE(provider_id, upstream_id) refuses a taken one.
PatchModel(p, row, id) ==
  /\ ~row.builtin /\ ~Exists(row.provider, id)
  /\ ChangeModels(p, (models \ {row}) \cup {Row(row.provider, id, FALSE)},
                  (mine \ {<<row.provider, row.id>>}) \cup {<<row.provider, id>>})

DeleteModel(p, row) ==
  /\ ~row.builtin
  /\ ChangeModels(p, models \ {row}, mine \ {<<row.provider, row.id>>})

\* The console's routes: POST a model of a provider, PATCH or DELETE a model.
EditModels(p) ==
  \/ \E r \in providers, id \in ModelIds : InsertCustomModel(p, r.id, id)
  \/ \E row \in models : DeleteModel(p, row) \/ \E id \in ModelIds : PatchModel(p, row, id)

Step(p) == ExecStatement(p) \/ RecordVersion(p) \/ SeedBuiltins(p)

Next ==
  \E p \in Procs :
    \/ \E s \in Sources : Boot(p, s)
    \/ Step(p) \/ Throws(p) \/ Dies(p) \/ EditModels(p)

Spec == Init /\ [][Next]_vars

--------------------------------------------------------------------------------
(* Type invariant; a model and a provider have one row each.                  *)
TypeOK ==
  /\ objects \subseteq UNION {Names(v) : v \in Versions} /\ versions \subseteq Versions
  /\ \A r \in providers : r.id \in STRING /\ r.shortcut \in STRING
  /\ \A r, q \in providers : r # q => r.id # q.id /\ r.shortcut # q.shortcut
  /\ \A r \in models : r.id \in ModelIds /\ r.builtin \in BOOLEAN /\ \E q \in providers : q.id = r.provider
  /\ \A r, q \in models : r # q => <<r.provider, r.id>> # <<q.provider, q.id>>
  /\ proc \in [Procs -> [state : {"down", "booting", "up", "noAdmin"}, source : Sources,
                          v : 1 .. Len(MIGRATIONS) + 1, k : 1 .. 4]]
  /\ seeded \subseteq Sources /\ disturbed \in BOOLEAN
  /\ boots \in 0 .. MaxBoots /\ faults \in 0 .. MaxFaults

(* A row of schema_version is never ahead of the schema: whatever crashed or  *)
(* raced, every statement of a recorded version has been executed.            *)
RowsTellTruth == \A v \in versions : Names(v) \subseteq objects

(* A process that serves with the database finds every table and column its   *)
(* own code knows, whichever process created them and in whichever order.     *)
UpMeansWhole ==
  \A p \in Procs : proc[p].state = "up" => \A v \in 1 .. proc[p].source.version : Names(v) \subseteq objects

(* What was seeded last is what the tables show of its providers, whatever    *)
(* the user has added, edited or deleted since (db/index.ts:84-87).           *)
CatalogueMirrored ==
  \A s \in seeded : \A e \in Entries(s.list) :
    /\ [id |-> e.id, shortcut |-> e.shortcut] \in providers
    /\ {r.id : r \in {q \in models : q.provider = e.id /\ q.builtin}} = e.models

(* db/index.ts:105 - custom models survive every boot, upgrade and removal of *)
(* a provider, unless a catalogue has taken over their id.                    *)
CustomModelsKept == \A x \in mine \ catalogued : Row(x[1], x[2], FALSE) \in models

(* Both together: the tables show the catalogue and the user's own models.     *)
CatalogueSound == CatalogueMirrored /\ CustomModelsKept

(* Without a boot that was interrupted or met another one, and without a      *)
(* stolen shortcut, the database opens: any release after any other, forward  *)
(* or back, any number of times.                                              *)
QuietBootsSucceed ==
  [][\A p \in Procs :
       (proc[p].state = "booting" /\ proc'[p].state = "noAdmin")
         => disturbed' \/ ShortcutTaken(proc[p].source.list)]_vars
================================================================================
