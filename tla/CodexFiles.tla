------------------------------- MODULE CodexFiles ------------------------------
(***************************************************************************)
(* How the proxy takes over Codex's own configuration: apply, import,      *)
(* restore and delete of src/src/codex/state.ts, files.ts and the import   *)
(* route of src/src/admin/router.ts, over the two files auth.json and      *)
(* config.toml and their backups in .m2c-backups; and the timeline that     *)
(* local mode keeps of it in codex_config_history                          *)
(* (src/src/db/codexHistory.ts).                                           *)
(*                                                                         *)
(* Each operation is one synchronous run over a plan of file operations,   *)
(* any of which may throw or be the last before the process dies.  Codex   *)
(* and its user change the files between operations, not during them.      *)
(* Copying or renaming one of these small files is one step.               *)
(***************************************************************************)
EXTENDS Integers, Sequences, FiniteSets

CONSTANTS
  Logins,     \* contents of an auth.json that is not ours
  Sections,   \* what the user may have in config.toml beside the provider
  Keep,       \* BACKUP_KEEP
  Recent,     \* RECENT_KEEP of the timeline
  MaxOps,     \* bound: applies and imports
  MaxFaults   \* bound: file operations that throw, deaths of the process

\* A file is the sequence of its one content, and empty when there is no file.
NoFile == <<>>
NoSections == "none"      \* no sections of the user's own
Ours == "ours"      \* OPENAI_API_KEY is the sentinel

ASSUME CodexAssumption ==
  /\ Ours \notin Logins
  /\ Keep \in Nat \ {0} /\ Recent \in Nat \ {0} /\ MaxOps \in Nat /\ MaxFaults \in Nat

FileNames == {"auth", "toml"}

VARIABLES
  live,      \* the two files as Codex sees them
  backups,   \* the files of .m2c-backups
  timeline,  \* codex_config_history, oldest row first
  op,        \* the operation in progress
  prior,     \* history: what the files were when apply or import number ts began
  wrote,     \* history: the last of these that wrote a file
  captured,  \* history: logins an apply has overwritten
  dropped,   \* history: pairs a delete has begun to remove
  released,  \* history: logins of the preserved pairs among them
  missed,    \* history: an initial snapshot could not be recorded
  faults     \* counter of the bound

history == <<prior, wrote, captured, dropped, released, missed>>
codexFilesVars == <<live, backups, timeline, op, history, faults>>

\* provider: the apply that wrote the provider keys, 0 for the user's own
TomlType == [provider : 0 .. MaxOps, rest : Sections \cup {NoSections}]
Toml(provider, rest) == <<[provider |-> provider, rest |-> rest]>>
NoFiles == [auth |-> NoFile, toml |-> NoFile]

Idle == [kind |-> "idle", todo |-> <<>>, ts |-> 0, preserve |-> FALSE,
         auth |-> NoFile, toml |-> NoFile]

Do(verb, file) == [verb |-> verb, file |-> file]
Pair(verb) == <<Do(verb, "auth"), Do(verb, "toml")>>
Record == <<Do("record", "timeline")>>

\* What each operation does to the two files, in order.
Plan(kind) ==
  CASE kind = "apply"   -> Pair("backup") \o Pair("write") \o Pair("prune") \o Record
    [] kind = "import"  -> Pair("backup") \o Pair("write") \o Record
    [] kind = "restore" -> Pair("restore") \o Record
    [] kind = "delete"  -> Pair("drop")

\* detectAuthJsonOwner
AuthOwner == IF live.auth = NoFile THEN "missing" ELSE IF live.auth = <<Ours>> THEN "mimo2codex" ELSE "external"

Contents(file) == {file[n] : n \in DOMAIN file}
BackupsOf(f) == {b \in backups : b.file = f}
PairAt(ts)   == {b \in backups : b.ts = ts}
Preserved(ts) == \E b \in PairAt(ts) : b.preserved

\* What restoring the pair ts makes of a file: no backup means it was not there.
RestoredTo(f, ts) ==
  IF \E b \in PairAt(ts) : b.file = f THEN (CHOOSE b \in PairAt(ts) : b.file = f).content ELSE NoFile

\* mergeCodexProviderToml: the provider keys are replaced, the rest stays.
Merged(ts) == IF live.toml = NoFile THEN Toml(ts, NoSections) ELSE Toml(ts, live.toml[1].rest)

--------------------------------------------------------------------------------
CodexFilesInit ==
  /\ live \in [auth : {NoFile} \cup {<<a>> : a \in Logins}, toml : {NoFile} \cup {Toml(0, s) : s \in Sections}]
  /\ backups = {} /\ timeline = <<>> /\ op = Idle
  /\ prior = <<>> /\ wrote = 0 /\ captured = {} /\ dropped = {} /\ released = {} /\ missed = FALSE /\ faults = 0

\* The user logs in or out, or edits config.toml.
UserActs ==
  /\ op = Idle
  /\ \/ \E a \in {NoFile} \cup {<<l>> : l \in Logins} : live' = [live EXCEPT !.auth = a]
     \/ \E s \in Sections :
          live' = [live EXCEPT !.toml = IF @ = NoFile THEN Toml(0, s) ELSE Toml(@[1].provider, s)]
  /\ UNCHANGED <<backups, timeline, op, history, faults>>

\* A row of the timeline; of the initial one the files matter.
Row(kind, files) == [kind |-> kind, files |-> files]
Newer(rows, n) == {m \in DOMAIN rows : m > n /\ rows[m].kind # "initial"}

PrunedHistory_AnyKind(rows) ==
  LET kept == {n \in DOMAIN rows : Cardinality({m \in DOMAIN rows : m > n}) < Recent}
  IN  [k \in 1 .. Cardinality(kept) |->
         rows[CHOOSE n \in kept : Cardinality({m \in kept : m <= n}) = k]]

\* pruneCodexHistory: initial rows and the Recent newest others.
PrunedHistory(rows) ==
  LET kept == {n \in DOMAIN rows : rows[n].kind = "initial" \/ Cardinality(Newer(rows, n)) < Recent}
  IN  [k \in 1 .. Cardinality(kept) |->
         rows[CHOOSE n \in kept : Cardinality({m \in kept : m <= n}) = k]]

HasInitialHistory == \E n \in DOMAIN timeline : timeline[n].kind = "initial"

\* The first apply or import snapshots the files it finds; a failure of that
\* is passed over, and the next one tries again.
CaptureInitial ==
  IF HasInitialHistory THEN UNCHANGED <<timeline, missed, faults>>
  ELSE \/ /\ timeline' = PrunedHistory(Append(timeline, Row("initial", live)))
          /\ UNCHANGED <<missed, faults>>
       \/ /\ faults < MaxFaults /\ faults' = faults + 1 /\ missed' = TRUE
          /\ UNCHANGED timeline

Begin(o) ==
  /\ op = Idle
  /\ op' = [o EXCEPT !.todo = Plan(o.kind)]
  /\ UNCHANGED <<live, backups, wrote, captured>>

ApplyCodex ==
  /\ Len(prior) < MaxOps
  /\ Begin([Idle EXCEPT !.kind = "apply", !.ts = Len(prior) + 1, !.preserve = (AuthOwner = "external")])
  /\ prior' = Append(prior, live)
  /\ CaptureInitial
  /\ UNCHANGED <<dropped, released>>

\* The route backs up without the preserve flag and writes what was uploaded.
ImportCodex(auth, toml) ==
  /\ Len(prior) < MaxOps
  /\ Begin([Idle EXCEPT !.kind = "import", !.ts = Len(prior) + 1, !.auth = auth, !.toml = toml])
  /\ prior' = Append(prior, live)
  /\ CaptureInitial
  /\ UNCHANGED <<dropped, released>>

RestoreCodex(ts) ==
  /\ PairAt(ts) # {}
  /\ Begin([Idle EXCEPT !.kind = "restore", !.ts = ts])
  /\ UNCHANGED <<timeline, prior, dropped, released, missed, faults>>

DeleteBackupPair(ts, force) ==
  /\ PairAt(ts) # {}
  /\ Preserved(ts) => force
  /\ Begin([Idle EXCEPT !.kind = "delete", !.ts = ts])
  /\ dropped' = dropped \cup {ts}
  /\ released' = released \cup (UNION {Contents(b.content) : b \in {c \in PairAt(ts) : c.preserved /\ c.file = "auth"}})
  /\ UNCHANGED <<timeline, prior, missed, faults>>

Doing(verb, f) == op.todo # <<>> /\ Head(op.todo) = Do(verb, f)
Advance == op' = IF Len(op.todo) = 1 THEN Idle ELSE [op EXCEPT !.todo = Tail(@)]

BackupFile(f) ==
  /\ Doing("backup", f)
  /\ backups' = IF live[f] = NoFile THEN backups
                ELSE backups \cup {[file |-> f, ts |-> op.ts, preserved |-> op.preserve, content |-> live[f]]}
  /\ Advance
  /\ UNCHANGED <<live, timeline, history, faults>>

AtomicWrite(f) ==
  /\ Doing("write", f)
  /\ live' = CASE op.kind = "import"            -> [live EXCEPT ![f] = op[f]]
               [] op.kind = "apply" /\ f = "auth" -> [live EXCEPT !.auth = <<Ours>>]
               [] op.kind = "apply" /\ f = "toml" -> [live EXCEPT !.toml = Merged(op.ts)]
  /\ wrote' = op.ts
  /\ captured' = IF op.kind = "apply" /\ f = "auth" THEN captured \cup (Contents(live.auth) \cap Logins) ELSE captured
  /\ Advance
  /\ UNCHANGED <<backups, timeline, prior, dropped, released, missed, faults>>

\* All but the Keep newest of the file's backups that are not preserved.
Surplus(f) ==
  LET rolling == {b \in BackupsOf(f) : ~b.preserved}
  IN  {b \in rolling : Cardinality({c \in rolling : c.ts > b.ts}) >= Keep}

\* Removals are best-effort: a locked file stays.
Unlink(set) ==
  \E kept \in SUBSET set :
    /\ faults + Cardinality(kept) <= MaxFaults
    /\ backups' = backups \ (set \ kept)
    /\ faults' = faults + Cardinality(kept)

PruneBackups(f) ==
  /\ Doing("prune", f)
  /\ Unlink(Surplus(f))
  /\ Advance
  /\ UNCHANGED <<live, timeline, history>>

RestoreFile(f) ==
  /\ Doing("restore", f)
  /\ live' = [live EXCEPT ![f] = RestoredTo(f, op.ts)]
  /\ Advance
  /\ UNCHANGED <<backups, timeline, history, faults>>

DeleteBackupsAt(f) ==
  /\ Doing("drop", f)
  /\ Unlink(PairAt(op.ts) \cap BackupsOf(f))
  /\ Advance
  /\ UNCHANGED <<live, timeline, history>>

\* appendCodexHistory: the row of an operation that has gone through.
RecordRow ==
  /\ Doing("record", "timeline")
  /\ timeline' = PrunedHistory(Append(timeline, Row(IF op.kind = "restore" THEN "restore" ELSE "apply", NoFiles)))
  /\ Advance
  /\ UNCHANGED <<live, backups, history, faults>>

DeleteHistory(n) ==
  /\ op = Idle
  /\ timeline[n].kind # "initial"
  /\ timeline' = [k \in 1 .. Len(timeline) - 1 |-> timeline[IF k < n THEN k ELSE k + 1]]
  /\ UNCHANGED <<live, backups, op, history, faults>>

\* A file operation or the insert of the row throws, or the process dies: the rest of the plan is not done.
Interrupted ==
  /\ faults < MaxFaults
  /\ op # Idle
  /\ op' = Idle
  /\ faults' = faults + 1
  /\ UNCHANGED <<live, backups, timeline, history>>

CodexFilesNext ==
  \/ UserActs \/ ApplyCodex \/ RecordRow \/ Interrupted
  \/ \E n \in DOMAIN timeline : DeleteHistory(n)
  \/ \E auth \in Logins \cup {Ours}, s \in Sections : ImportCodex(<<auth>>, Toml(0, s))
  \/ \E ts \in DOMAIN prior : RestoreCodex(ts) \/ \E force \in BOOLEAN : DeleteBackupPair(ts, force)
  \/ \E f \in FileNames :
       BackupFile(f) \/ AtomicWrite(f) \/ PruneBackups(f) \/ RestoreFile(f) \/ DeleteBackupsAt(f)

CodexFilesSpec == CodexFilesInit /\ [][CodexFilesNext]_codexFilesVars

--------------------------------------------------------------------------------
AuthFiles == {<<a>> : a \in Logins \cup {Ours}}
TomlFiles == {<<t>> : t \in TomlType}
Live == [auth : AuthFiles \cup {NoFile}, toml : TomlFiles \cup {NoFile}]

(* Type invariant: a backup is a file that existed.                           *)
CodexFilesTypeOK ==
  /\ live \in Live
  /\ \A b \in backups :
       /\ b.file \in FileNames /\ b.ts \in DOMAIN prior /\ b.preserved \in BOOLEAN
       /\ b.content \in (IF b.file = "auth" THEN AuthFiles ELSE TomlFiles)
  /\ op.todo \in Seq([verb : {"backup", "write", "prune", "restore", "drop", "record"},
                     file : FileNames \cup {"timeline"}])
  /\ timeline \in Seq([kind : {"initial", "apply", "restore"}, files : Live])
  /\ prior \in Seq(Live) /\ wrote \in 0 .. MaxOps /\ captured \subseteq Logins
  /\ dropped \subseteq DOMAIN prior /\ released \subseteq Logins /\ faults \in 0 .. MaxFaults

(* doc/codex-enable.md:49 - switch models 100 times and the real Codex login  *)
(* survives: every login an apply has overwritten is in a preserved backup    *)
(* that only a forced delete removes, whatever failed or crashed in between.  *)
OriginalKept ==
  \A a \in captured \ released : \E b \in BackupsOf("auth") : b.preserved /\ b.content = <<a>>

(* The last operation that wrote anything, even one that died half-way, can   *)
(* be undone exactly: restoring its backups gives both files back as they     *)
(* were, unless the user has deleted the pair or there was no file at all.    *)
UndoLast ==
  (wrote > 0 /\ wrote \notin dropped /\ prior[wrote] # NoFiles)
    => PairAt(wrote) # {} /\ \A f \in FileNames : RestoredTo(f, wrote) = prior[wrote][f]

(* admin/router.ts:1334-1336 - the timeline always leads back to what was      *)
(* there before the first apply: one initial row, with the files as they were, *)
(* that neither rotation nor deletion takes away, and at most one however      *)
(* often its snapshot failed.                                                  *)
InitialKept ==
  /\ \A n, m \in DOMAIN timeline :
       timeline[n].kind = "initial" /\ timeline[m].kind = "initial" => n = m
  /\ (prior # <<>> /\ ~missed) => \E n \in DOMAIN timeline : timeline[n] = Row("initial", prior[1])

(* Together: the way back stays open, to the user's own setup and to what was  *)
(* there before the last operation.                                            *)
WayBackKept == OriginalKept /\ InitialKept /\ UndoLast
================================================================================
