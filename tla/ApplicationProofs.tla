--------------------------- MODULE ApplicationProofs ---------------------------
(***************************************************************************)
(* Proofs about what runs before the user: the desktop application with its *)
(* router (Desktop), the update of the application (Updates), the page that *)
(* enables Codex (CodexPage) and the tests of its rows (Probes).           *)
(***************************************************************************)
EXTENDS Desktop, Updates, CodexPage, Probes,
        SequenceTheorems, FiniteSetTheorems, WellFoundedInduction, TLAPS

--------------------------------------------------------------------------------
(***************************************************************************)
(* Desktop: as long as the tray, the settings window and the quit take     *)
(* turns, one router runs at most, on the directory the shell shows, and   *)
(* it is gone when the shell is.                                           *)
(*                                                                         *)
(* The code does not make them take turns: two overlapping operations may  *)
(* start a router each, and OneAtATime is the hypothesis that they do not. *)
(* The invariant says that no router is left but the child of the manager  *)
(* (OnlyTheChild), what each phase of an operation has done to that child  *)
(* (OpsOnTrack), and that router, manager, window and the signal agree on  *)
(* the directory except while a save moves it (DirsAgree).                 *)
(***************************************************************************)

\* The tray, the settings window and the quit take turns.
OneAtATime == \A o, other \in Slots : Busy(o) /\ Busy(other) => o = other

Waits(o) == op[o].phase \in {"stopping", "killing"}

\* Only the child of the manager may be left of all routers, and only while the shell is up.
OnlyTheChild ==
  /\ \A p \in 1 .. Len(routers) :
       routers[p].state # "reaped" => app.up /\ sidecar.child = p
  /\ sidecar.status = "crashed" => sidecar.child = NoChild

\* What an operation has reached says what has become of the child.
OpsOnTrack ==
  /\ \A o \in Slots :
       /\ Waits(o) => app.up /\ op[o].child = sidecar.child /\ sidecar.child # NoChild /\ sidecar.intentional
       /\ op[o].phase \in {"stopped", "probing"} /\ app.up => sidecar.child = NoChild
       /\ op[o].phase \in {"copied", "stopped"} => app.up
       /\ op[o].phase = "copied" => op[o].kind = "save"

\* The watched directory is the router's, and the marked one unless a save moves it.
DirsAgree ==
  /\ sidecar.dir = app.watch
  /\ \A p \in 1 .. Len(routers) : Alive(p) => routers[p].dir = sidecar.dir /\ disk[routers[p].dir].db
  /\ app.up /\ marker # app.watch => \E o \in Slots : Busy(o) /\ op[o].kind = "save"
  /\ app.up => signal[app.watch] \in {NoSignal, used.launch}

DesktopInv ==
  /\ TypeOK /\ IsFiniteSet(written)
  /\ OnlyTheChild /\ OpsOnTrack /\ DirsAgree /\ NothingOverwritten

--------------------------------------------------------------------------------
(* The operators the steps are built from.                                 *)

RouterType == [dir : Dirs, state : {"up", "term", "kill", "dead", "reaped"}]
SidecarType(n) == [child : 0 .. n, intentional : BOOLEAN, budget : 0 .. MaxRestarts,
                   status : {"starting", "running", "crashed"}, dir : Dirs]
OpTypeOf(n) == [kind : {"idle", "restart", "save", "quit"}, phase : Phases, child : 0 .. n]
DiskType == [Dirs -> [db : BOOLEAN, rows : SUBSET Nat, key : BOOLEAN]]

LEMMA SentFacts ==
  ASSUME NEW rs \in Seq(RouterType), NEW p \in 1 .. Len(rs), NEW state \in {"term", "kill"}
  PROVE  /\ Sent(rs, p, state) \in Seq(RouterType) /\ Len(Sent(rs, p, state)) = Len(rs)
         /\ \A q \in 1 .. Len(rs) :
              /\ Sent(rs, p, state)[q].dir = rs[q].dir
              /\ Sent(rs, p, state)[q].state # "reaped" => rs[q].state # "reaped"
              /\ Sent(rs, p, state)[q].state \in {"up", "term", "kill"} => rs[q].state \in {"up", "term", "kill"}
  <1> DEFINE t == [rs[p] EXCEPT !.state = state]
  <1>1. rs[p] \in RouterType /\ t \in RouterType /\ t.dir = rs[p].dir /\ t.state = state
    <2>1. rs[p] \in RouterType
      OBVIOUS
    <2> QED BY <2>1 DEF RouterType
  <1>2. CASE rs[p].state \in {"up", "term"}
    <2>1. Sent(rs, p, state) = [rs EXCEPT ![p] = t]
      BY <1>2 DEF Sent
    <2> HIDE DEF t
    <2>2. /\ Sent(rs, p, state) \in Seq(RouterType) /\ Len(Sent(rs, p, state)) = Len(rs)
          /\ \A q \in 1 .. Len(rs) : Sent(rs, p, state)[q] = IF q = p THEN t ELSE rs[q]
      BY <1>1, <2>1, ExceptSeq
    <2> QED BY <1>1, <1>2, <2>2
  <1>3. CASE rs[p].state \notin {"up", "term"}
    BY <1>3 DEF Sent
  <1> QED BY <1>2, <1>3

LEMMA StartFacts ==
  ASSUME TypeOK, \A p \in 1 .. Len(routers) : routers[p].state = "reaped", NEW dir \in Dirs, Start(dir)
  PROVE  /\ routers' \in Seq(RouterType) /\ Len(routers) \in Nat /\ Len(routers') = Len(routers) + 1
         /\ \A p \in 1 .. Len(routers') : routers'[p].state # "reaped" => sidecar'.child = p /\ routers'[p].dir = dir
         /\ sidecar' \in SidecarType(Len(routers')) /\ sidecar'.dir = dir /\ sidecar'.status = "running"
         /\ disk' \in DiskType /\ disk'[dir].db
         /\ \A d \in Dirs : disk'[d].rows = disk[d].rows /\ (disk[d].db => disk'[d].db)
  <1>1. /\ routers \in Seq(RouterType) /\ sidecar \in SidecarType(Len(routers)) /\ disk \in DiskType
        /\ routers' = Append(routers, [dir |-> dir, state |-> "up"])
        /\ disk' = [disk EXCEPT ![dir].db = TRUE]
        /\ sidecar' = [Child(Len(routers) + 1) EXCEPT !.intentional = FALSE, !.budget = MaxRestarts, !.dir = dir]
    BY DEF TypeOK, Start, RouterType, SidecarType, DiskType, Spawned, Opened
  <1>2. [dir |-> dir, state |-> "up"] \in RouterType
    BY DEF RouterType
  <1> DEFINE r == [dir |-> dir, state |-> "up"]
  <1>3. /\ routers' \in Seq(RouterType) /\ Len(routers) \in Nat /\ Len(routers') = Len(routers) + 1
        /\ routers'[Len(routers) + 1] = r /\ \A p \in 1 .. Len(routers) : routers'[p] = routers[p]
    <2>1. r \in RouterType /\ routers' = Append(routers, r)
      BY <1>1, <1>2
    <2> HIDE DEF r
    <2> QED BY <1>1, <2>1
  <1>4. /\ sidecar' \in SidecarType(Len(routers')) /\ sidecar'.dir = dir /\ sidecar'.status = "running"
        /\ sidecar'.child = Len(routers) + 1
    <2> DEFINE c == Child(Len(routers) + 1)
    <2>1. c \in SidecarType(Len(routers) + 1) /\ c.child = Len(routers) + 1 /\ c.status = "running"
      <3>1. sidecar \in SidecarType(Len(routers) + 1)
        BY <1>1, <1>3 DEF SidecarType
      <3>2. Len(routers) + 1 \in 0 .. Len(routers) + 1
        BY <1>3
      <3> QED BY <3>1, <3>2 DEF SidecarType, Child
    <2> HIDE DEF c
    <2>2. MaxRestarts \in 0 .. MaxRestarts
      BY DesktopAssumption DEF DesktopAssumption
    <2>3. [c EXCEPT !.intentional = FALSE, !.budget = MaxRestarts, !.dir = dir] \in SidecarType(Len(routers) + 1)
      BY <2>1, <2>2 DEF SidecarType
    <2>4. sidecar' = [c EXCEPT !.intentional = FALSE, !.budget = MaxRestarts, !.dir = dir]
      BY <1>1 DEF c
    <2> QED BY <1>3, <2>1, <2>3, <2>4 DEF SidecarType
  <1>5. ASSUME NEW p \in 1 .. Len(routers'), routers'[p].state # "reaped"
        PROVE  sidecar'.child = p /\ routers'[p].dir = dir
    <2>1. p = Len(routers) + 1
      BY <1>3, <1>5
    <2> QED BY <2>1, <1>3, <1>4
  <1>6. disk' \in DiskType /\ disk'[dir].db /\ \A d \in Dirs : disk'[d].rows = disk[d].rows /\ (disk[d].db => disk'[d].db)
    BY <1>1 DEF DiskType
  <1> QED BY <1>3, <1>4, <1>5, <1>6

UsedType == [{"launch", "op", "crash", "signal"} -> Nat]

LEMMA StepBeginStop ==
  ASSUME DesktopInv, OneAtATime', NEW o \in Slots, NEW kind \in {"restart", "save", "quit"},
         BeginStop(o, kind), app.up, app' = app \/ app' = [app EXCEPT !.window = FALSE],
         used' \in UsedType, used'.launch = used.launch,
         UNCHANGED <<disk, marker, signal, written>>, Busy(o) => op[o].kind = kind
  PROVE  DesktopInv'
  <1>1. /\ routers \in Seq(RouterType) /\ sidecar \in SidecarType(Len(routers)) /\ disk \in DiskType
        /\ app \in [up : BOOLEAN, window : BOOLEAN, watch : Dirs] /\ op \in [Slots -> OpTypeOf(Len(routers))]
        /\ marker \in Dirs /\ signal \in [Dirs -> Nat] /\ written \subseteq Nat /\ IsFiniteSet(written)
        /\ OnlyTheChild /\ OpsOnTrack /\ DirsAgree /\ NothingOverwritten
    BY DEF DesktopInv, TypeOK, RouterType, SidecarType, DiskType, OpTypeOf
  <1>2. app' \in [up : BOOLEAN, window : BOOLEAN, watch : Dirs] /\ app'.up /\ app'.watch = app.watch
    BY <1>1
  <1>3. /\ routers' \in Seq(RouterType) /\ Len(routers') = Len(routers)
        /\ \A q \in 1 .. Len(routers) :
             /\ routers'[q].dir = routers[q].dir
             /\ routers'[q].state # "reaped" => routers[q].state # "reaped"
             /\ routers'[q].state \in {"up", "term", "kill"} => routers[q].state \in {"up", "term", "kill"}
    <2>1. CASE sidecar.child = NoChild
      BY <1>1, <2>1 DEF BeginStop
    <2>2. CASE sidecar.child # NoChild
      <3>1. sidecar.child \in 1 .. Len(routers) /\ routers' = Sent(routers, sidecar.child, "term")
        <4>1. sidecar.child \in 0 .. Len(routers)
          BY <1>1 DEF SidecarType
        <4> QED BY <2>2, <4>1 DEF BeginStop, NoChild
      <3>2. /\ Sent(routers, sidecar.child, "term") \in Seq(RouterType)
            /\ Len(Sent(routers, sidecar.child, "term")) = Len(routers)
            /\ \A q \in 1 .. Len(routers) :
                 /\ Sent(routers, sidecar.child, "term")[q].dir = routers[q].dir
                 /\ Sent(routers, sidecar.child, "term")[q].state # "reaped" => routers[q].state # "reaped"
                 /\ Sent(routers, sidecar.child, "term")[q].state \in {"up", "term", "kill"}
                      => routers[q].state \in {"up", "term", "kill"}
        <4>1. "term" \in {"term", "kill"}
          OBVIOUS
        <4> QED BY <1>1, <3>1, <4>1, SentFacts
      <3> QED BY <3>1, <3>2
    <2> QED BY <2>1, <2>2
  <1>4. /\ sidecar' \in SidecarType(Len(routers)) /\ sidecar'.child = sidecar.child /\ sidecar'.dir = sidecar.dir
        /\ sidecar'.status = sidecar.status
        /\ sidecar.child # NoChild => sidecar'.intentional
    BY <1>1 DEF BeginStop, SidecarType
  <1>5. /\ op' \in [Slots -> OpTypeOf(Len(routers))]
        /\ op'[o].kind = kind /\ \A other \in Slots : other # o => op'[other] = op[other]
        /\ sidecar.child = NoChild => op'[o].phase = "stopped"
        /\ sidecar.child # NoChild => op'[o].phase = "stopping" /\ op'[o].child = sidecar.child
    <2>1. CASE sidecar.child = NoChild
      <3> DEFINE e == [Idle EXCEPT !.kind = kind, !.phase = "stopped"]
      <3>1. op' = [op EXCEPT ![o] = e]
        BY <2>1 DEF BeginStop
      <3>2. e \in OpTypeOf(Len(routers)) /\ e.kind = kind /\ e.phase = "stopped"
        <4>1. Idle \in OpTypeOf(Len(routers))
          BY <1>1 DEF Idle, OpTypeOf, Phases
        <4> QED BY <4>1 DEF OpTypeOf, Phases
      <3> HIDE DEF e
      <3> QED BY <1>1, <2>1, <3>1, <3>2
    <2>2. CASE sidecar.child # NoChild
      <3> DEFINE e == [kind |-> kind, phase |-> "stopping", child |-> sidecar.child]
      <3>1. op' = [op EXCEPT ![o] = e]
        BY <2>2 DEF BeginStop
      <3>2. e \in OpTypeOf(Len(routers)) /\ e.kind = kind /\ e.phase = "stopping" /\ e.child = sidecar.child
        BY <1>1 DEF OpTypeOf, Phases, SidecarType
      <3> HIDE DEF e
      <3> QED BY <1>1, <2>2, <3>1, <3>2
    <2> QED BY <2>1, <2>2
  <1>6. Busy(o)' /\ \A other \in Slots : other # o => ~Busy(other) /\ op'[other].phase = "idle"
    <2>1. Busy(o)'
      BY <1>5 DEF Busy
    <2>2. \A other \in Slots : other # o => ~Busy(other)'
      BY <2>1 DEF OneAtATime
    <2> QED BY <1>5, <2>1, <2>2 DEF Busy
  <1>7. TypeOK'
    BY <1>1, <1>2, <1>3, <1>4, <1>5 DEF TypeOK, RouterType, SidecarType, DiskType, OpTypeOf, UsedType
  <1>8. OnlyTheChild'
    BY <1>1, <1>2, <1>3, <1>4 DEF OnlyTheChild
  <1>9. OpsOnTrack'
    BY <1>2, <1>4, <1>5, <1>6 DEF OpsOnTrack, Waits
  <1>10. DirsAgree'
    <2>1. \A p \in 1 .. Len(routers) : Alive(p)' => Alive(p) /\ routers'[p].dir = routers[p].dir
      BY <1>3 DEF Alive
    <2>2. marker # app.watch => Busy(o)' /\ op'[o].kind = "save"
      <3> SUFFICES ASSUME marker # app.watch PROVE Busy(o)' /\ op'[o].kind = "save"
        OBVIOUS
      <3>1. PICK s \in Slots : Busy(s) /\ op[s].kind = "save"
        BY <1>1 DEF DirsAgree
      <3> QED BY <3>1, <1>5, <1>6
    <2> QED BY <1>1, <1>2, <1>3, <1>4, <2>1, <2>2 DEF DirsAgree
  <1>11. NothingOverwritten'
    BY <1>1 DEF NothingOverwritten
  <1> QED BY <1>1, <1>7, <1>8, <1>9, <1>10, <1>11 DEF DesktopInv

LEMMA StepRestart ==
  ASSUME DesktopInv, OneAtATime', NEW o \in Slots, Restart(o) PROVE DesktopInv'
  <1>1. used' \in UsedType /\ used'.launch = used.launch
    BY DEF Restart, Count, UsedType, DesktopInv, TypeOK
  <1> QED BY <1>1, StepBeginStop DEF Restart, Ready, Settled

LEMMA StepSaveStops ==
  ASSUME DesktopInv, OneAtATime', NEW o \in Slots, SaveStops(o) PROVE DesktopInv'
  <1>1. op[o].kind = "save" /\ app.up
    BY DEF SaveStops, DesktopInv, OpsOnTrack
  <1> QED BY <1>1, StepBeginStop DEF SaveStops, DesktopInv, TypeOK, UsedType

LEMMA InvFacts ==
  ASSUME DesktopInv
  PROVE  /\ routers \in Seq(RouterType) /\ Len(routers) \in Nat
         /\ \A p \in 1 .. Len(routers) : routers[p] \in RouterType
         /\ sidecar \in SidecarType(Len(routers)) /\ disk \in DiskType
         /\ app \in [up : BOOLEAN, window : BOOLEAN, watch : Dirs] /\ op \in [Slots -> OpTypeOf(Len(routers))]
         /\ marker \in Dirs /\ signal \in [Dirs -> Nat] /\ written \subseteq Nat /\ IsFiniteSet(written)
         /\ used \in UsedType
         /\ OnlyTheChild /\ OpsOnTrack /\ DirsAgree /\ NothingOverwritten
  <1>1. routers \in Seq(RouterType) /\ Len(routers) \in Nat /\ \A p \in 1 .. Len(routers) : routers[p] \in RouterType
    <2>1. routers \in Seq(RouterType)
      BY DEF DesktopInv, TypeOK, RouterType
    <2> HIDE DEF RouterType
    <2> QED BY <2>1
  <1> QED BY <1>1 DEF DesktopInv, TypeOK, RouterType, SidecarType, DiskType, OpTypeOf, UsedType

LEMMA CountFacts ==
  ASSUME used \in UsedType, NEW what \in {"launch", "op", "crash", "signal"}, Count(what)
  PROVE  used' \in UsedType /\ (what # "launch" => used'.launch = used.launch)
  BY DEF Count, UsedType

\* A slot that is busy is the only one.
LEMMA OthersAreIdle ==
  ASSUME OneAtATime, NEW o \in Slots, Busy(o)
  PROVE  \A other \in Slots : other # o => op[other].phase = "idle" /\ ~Busy(other)
  BY DEF OneAtATime, Busy

LEMMA AllIdle ==
  ASSUME DesktopInv, op' = [s \in Slots |-> Idle]
  PROVE  op' \in [Slots -> OpTypeOf(Len(routers))] /\ \A s \in Slots : op'[s].phase = "idle"
  <1>1. Idle \in OpTypeOf(Len(routers)) /\ Idle.phase = "idle"
    BY InvFacts DEF Idle, OpTypeOf, Phases
  <1> QED BY <1>1

\* The operation that has ended was the only one.
LEMMA EndedFacts ==
  ASSUME DesktopInv, OneAtATime, NEW o \in Slots, Busy(o), op' = [op EXCEPT ![o] = Idle]
  PROVE  op' \in [Slots -> OpTypeOf(Len(routers))] /\ \A s \in Slots : op'[s].phase = "idle"
  <1>1. Idle \in OpTypeOf(Len(routers)) /\ Idle.phase = "idle"
    BY InvFacts DEF Idle, OpTypeOf, Phases
  <1>2. op \in [Slots -> OpTypeOf(Len(routers))]
    BY InvFacts
  <1> HIDE DEF Idle, OpTypeOf
  <1> QED BY <1>1, <1>2, OthersAreIdle

LEMMA StepQuit ==
  ASSUME DesktopInv, OneAtATime', NEW o \in Slots, Quit(o) PROVE DesktopInv'
  <1>1. used' \in UsedType /\ used'.launch = used.launch
    BY DEF Quit, Count, UsedType, DesktopInv, TypeOK
  <1>2. CASE sidecar.status = "crashed"
    <2>1. /\ app' = [app EXCEPT !.up = FALSE, !.window = FALSE]
          /\ UNCHANGED <<sidecar, routers, op, disk, marker, signal, written>> /\ Ready(o)
      BY <1>2 DEF Quit
    <2>2. app' \in [up : BOOLEAN, window : BOOLEAN, watch : Dirs] /\ ~app'.up /\ app'.watch = app.watch
      BY <2>1, InvFacts
    <2>3. sidecar.child = NoChild /\ \A p \in 1 .. Len(routers) : routers[p].state = "reaped"
      BY <1>2, InvFacts DEF OnlyTheChild, NoChild
    <2>4. TypeOK' /\ IsFiniteSet(written)'
      BY <1>1, <2>1, <2>2 DEF DesktopInv, TypeOK, UsedType
    <2>5. OnlyTheChild'
      BY <2>1, <2>3, InvFacts DEF OnlyTheChild
    <2>6. OpsOnTrack'
      BY <2>1, <2>2, <2>3, InvFacts DEF OpsOnTrack, Waits, Ready, Settled
    <2>7. DirsAgree'
      BY <2>1, <2>2, <2>3, InvFacts DEF DirsAgree, Alive
    <2>8. NothingOverwritten'
      BY <2>1, InvFacts DEF NothingOverwritten
    <2> QED BY <2>4, <2>5, <2>6, <2>7, <2>8 DEF DesktopInv
  <1>3. CASE sidecar.status # "crashed"
    BY <1>1, <1>3, StepBeginStop DEF Quit, Ready, Settled
  <1> QED BY <1>2, <1>3

LEMMA StepEndQuit ==
  ASSUME DesktopInv, NEW o \in Slots, EndQuit(o) PROVE DesktopInv'
  <1>1. /\ app' = [app EXCEPT !.up = FALSE, !.window = FALSE]
        /\ op' = [other \in Slots |-> Idle] /\ op[o].phase = "stopped" /\ app.up
        /\ UNCHANGED <<sidecar, routers, disk, marker, signal, written, used>>
    BY DEF EndQuit
  <1>2. app' \in [up : BOOLEAN, window : BOOLEAN, watch : Dirs] /\ ~app'.up /\ app'.watch = app.watch
    BY <1>1, InvFacts
  <1>3. sidecar.child = NoChild /\ \A p \in 1 .. Len(routers) : routers[p].state = "reaped"
    BY <1>1, InvFacts DEF OnlyTheChild, OpsOnTrack, NoChild
  <1>4. op' \in [Slots -> OpTypeOf(Len(routers))]
    BY <1>1, InvFacts DEF OpTypeOf, Idle, Phases
  <1>5. TypeOK' /\ IsFiniteSet(written)'
    BY <1>1, <1>2, <1>4 DEF DesktopInv, TypeOK, OpTypeOf
  <1>6. OnlyTheChild'
    BY <1>1, <1>3 DEF OnlyTheChild, InvFacts
  <1>7. OpsOnTrack'
    BY <1>1, <1>2, <1>3 DEF OpsOnTrack, Waits, Idle
  <1>8. DirsAgree'
    BY <1>1, <1>2, <1>3, InvFacts DEF DirsAgree, Alive
  <1>9. NothingOverwritten'
    BY <1>1, InvFacts DEF NothingOverwritten
  <1> QED BY <1>5, <1>6, <1>7, <1>8, <1>9 DEF DesktopInv

--------------------------------------------------------------------------------
(* The steps that start a router.                                          *)

\* When no router is left, starting one in the directory that is watched and
\* marked from then on keeps everything, whatever has ended.
LEMMA StartKeeps ==
  ASSUME DesktopInv, sidecar.child = NoChild \/ ~app.up, NEW dir \in Dirs, Start(dir),
         app' \in [up : BOOLEAN, window : BOOLEAN, watch : Dirs], app'.up, app'.watch = dir,
         op' \in [Slots -> OpTypeOf(Len(routers))], \A s \in Slots : op'[s].phase = "idle", marker = dir, UNCHANGED <<marker, written>>,
         signal' \in [Dirs -> Nat], used' \in UsedType, signal'[dir] \in {NoSignal, used'.launch}
  PROVE  DesktopInv'
  <1>1. \A p \in 1 .. Len(routers) : routers[p].state = "reaped"
    BY InvFacts DEF OnlyTheChild, NoChild
  <1>2. /\ routers' \in Seq(RouterType) /\ Len(routers) \in Nat /\ Len(routers') = Len(routers) + 1
        /\ \A p \in 1 .. Len(routers') : routers'[p].state # "reaped" => sidecar'.child = p /\ routers'[p].dir = dir
        /\ sidecar' \in SidecarType(Len(routers')) /\ sidecar'.dir = dir /\ sidecar'.status = "running"
        /\ disk' \in DiskType /\ disk'[dir].db
        /\ \A d \in Dirs : disk'[d].rows = disk[d].rows /\ (disk[d].db => disk'[d].db)
    BY <1>1, StartFacts DEF DesktopInv
  <1>3. op' \in [Slots -> OpTypeOf(Len(routers'))] /\ \A s \in Slots : op'[s].phase = "idle"
    <2>1. 0 .. Len(routers) \subseteq 0 .. Len(routers')
      BY <1>2
    <2>2. OpTypeOf(Len(routers)) \subseteq OpTypeOf(Len(routers'))
      BY <2>1 DEF OpTypeOf
    <2> QED BY <2>2
  <1>4. TypeOK' /\ IsFiniteSet(written)'
    BY <1>2, <1>3, InvFacts DEF TypeOK, RouterType, SidecarType, OpTypeOf, DiskType, UsedType
  <1>5. OnlyTheChild'
    BY <1>2 DEF OnlyTheChild
  <1>6. OpsOnTrack'
    BY <1>3 DEF OpsOnTrack, Waits
  <1>7. DirsAgree'
    <2>1. \A p \in 1 .. Len(routers') : Alive(p)' => routers'[p].dir = dir
      BY <1>2 DEF Alive
    <2> QED BY <1>2, <2>1 DEF DirsAgree
  <1>8. NothingOverwritten'
    BY <1>2, InvFacts DEF NothingOverwritten
  <1> QED BY <1>4, <1>5, <1>6, <1>7, <1>8 DEF DesktopInv

LEMMA StepLaunch ==
  ASSUME DesktopInv, Launch PROVE DesktopInv'
  <1>1. /\ ~app.up /\ app' = [up |-> TRUE, window |-> ~disk[marker].key, watch |-> marker]
        /\ signal' = [signal EXCEPT ![marker] = NoSignal] /\ op' = [s \in Slots |-> Idle]
        /\ Count("launch") /\ UNCHANGED <<marker, written>>
    BY DEF Launch
  <1>2. used' \in UsedType
    BY <1>1, InvFacts, CountFacts
  <1>3. app' \in [up : BOOLEAN, window : BOOLEAN, watch : Dirs] /\ app'.up /\ app'.watch = marker
    <2>1. disk[marker].key \in BOOLEAN
      BY InvFacts DEF DiskType
    <2> DEFINE key == disk[marker].key
    <2>2. app' = [up |-> TRUE, window |-> ~key, watch |-> marker] /\ key \in BOOLEAN
      BY <1>1, <2>1
    <2> HIDE DEF key
    <2> QED BY <2>2, InvFacts
  <1>4. signal' \in [Dirs -> Nat] /\ signal'[marker] = NoSignal
    BY <1>1, InvFacts DEF NoSignal
  <1>5. CASE disk[marker].key
    <2>1. Start(marker)
      BY <1>5 DEF Launch
    <2>2. op' \in [Slots -> OpTypeOf(Len(routers))] /\ \A s \in Slots : op'[s].phase = "idle"
      BY <1>1, AllIdle
    <2>3. marker \in Dirs
      BY InvFacts
    <2> QED BY <1>1, <1>2, <1>3, <1>4, <2>1, <2>2, <2>3, StartKeeps
  <1>6. CASE ~disk[marker].key
    <2>1. sidecar' = NewSidecar(marker) /\ UNCHANGED <<routers, disk>>
      BY <1>6 DEF Launch
    <2>2. /\ sidecar' \in SidecarType(Len(routers)) /\ sidecar'.child = NoChild /\ sidecar'.dir = marker
          /\ sidecar'.status = "starting"
      BY <2>1, InvFacts, DesktopAssumption DEF DesktopAssumption, NewSidecar, SidecarType, NoChild
    <2>3. \A p \in 1 .. Len(routers) : routers[p].state = "reaped"
      BY <1>1, InvFacts DEF OnlyTheChild
    <2>4. op' \in [Slots -> OpTypeOf(Len(routers))] /\ \A s \in Slots : op'[s].phase = "idle"
      BY <1>1, AllIdle
    <2>5. TypeOK' /\ IsFiniteSet(written)'
      BY <1>1, <1>2, <1>3, <1>4, <2>1, <2>2, <2>4, InvFacts DEF TypeOK, RouterType, SidecarType, OpTypeOf, DiskType, UsedType
    <2>6. OnlyTheChild'
      BY <2>1, <2>2, <2>3 DEF OnlyTheChild
    <2>7. OpsOnTrack'
      BY <2>4 DEF OpsOnTrack, Waits
    <2>8. DirsAgree'
      BY <1>1, <1>3, <1>4, <2>1, <2>2, <2>3 DEF DirsAgree, Alive
    <2>9. NothingOverwritten'
      BY <1>1, <2>1, InvFacts DEF NothingOverwritten
    <2> QED BY <2>5, <2>6, <2>7, <2>8, <2>9 DEF DesktopInv
  <1> QED BY <1>5, <1>6

LEMMA StepEndRestart ==
  ASSUME DesktopInv, OneAtATime, NEW o \in Slots, EndRestart(o) PROVE DesktopInv'
  <1>1. /\ app.up /\ op[o].kind = "restart" /\ op[o].phase = "stopped" /\ Start(sidecar.dir)
        /\ op' = [op EXCEPT ![o] = Idle] /\ UNCHANGED <<app, marker, signal, written, used>>
    BY DEF EndRestart
  <1>2. Busy(o) /\ sidecar.child = NoChild /\ sidecar.dir = app.watch /\ sidecar.dir \in Dirs
    BY <1>1, InvFacts DEF Busy, OpsOnTrack, DirsAgree
  <1>3. marker = app.watch
    <2> SUFFICES ASSUME marker # app.watch PROVE FALSE
      OBVIOUS
    <2>1. PICK s \in Slots : Busy(s) /\ op[s].kind = "save"
      BY <1>1, InvFacts DEF DirsAgree
    <2>2. s = o
      BY <1>2, <2>1 DEF OneAtATime
    <2> QED BY <1>1, <2>1, <2>2
  <1>4. op' \in [Slots -> OpTypeOf(Len(routers))] /\ \A s \in Slots : op'[s].phase = "idle"
    BY <1>1, <1>2, EndedFacts
  <1>5. signal[app.watch] \in {NoSignal, used.launch}
    BY <1>1, InvFacts DEF DirsAgree
  <1> QED BY <1>1, <1>2, <1>3, <1>4, <1>5, InvFacts, StartKeeps

LEMMA StepEndSave ==
  ASSUME DesktopInv, OneAtATime, NEW o \in Slots, EndSave(o) PROVE DesktopInv'
  <1>1. /\ app.up /\ op[o].phase = "probing" /\ Start(marker)
        /\ app' = [app EXCEPT !.watch = marker] /\ signal' = [signal EXCEPT ![marker] = NoSignal]
        /\ op' = [op EXCEPT ![o] = Idle] /\ UNCHANGED <<marker, written, used>>
    BY DEF EndSave, Settled
  <1>2. Busy(o) /\ sidecar.child = NoChild /\ marker \in Dirs
    BY <1>1, InvFacts DEF Busy, OpsOnTrack
  <1>3. app' \in [up : BOOLEAN, window : BOOLEAN, watch : Dirs] /\ app'.up /\ app'.watch = marker
    BY <1>1, InvFacts
  <1>4. op' \in [Slots -> OpTypeOf(Len(routers))] /\ \A s \in Slots : op'[s].phase = "idle"
    BY <1>1, <1>2, EndedFacts
  <1>5. signal' \in [Dirs -> Nat] /\ signal'[marker] = NoSignal
    BY <1>1, InvFacts DEF NoSignal
  <1> QED BY <1>1, <1>2, <1>3, <1>4, <1>5, InvFacts, StartKeeps

--------------------------------------------------------------------------------
(* The steps that move no operation and start no router.                   *)

LEMMA WindowKeeps ==
  ASSUME DesktopInv, app' \in [up : BOOLEAN, window : BOOLEAN, watch : Dirs], app'.up = app.up, app'.watch = app.watch,
         signal' \in [Dirs -> Nat], app.up => signal'[app.watch] \in {NoSignal, used.launch},
         used' \in UsedType, used'.launch = used.launch, UNCHANGED <<sidecar, routers, op, disk, marker, written>>
  PROVE  DesktopInv'
  <1>1. TypeOK' /\ IsFiniteSet(written)'
    BY InvFacts DEF TypeOK, RouterType, SidecarType, OpTypeOf, DiskType, UsedType
  <1>2. OnlyTheChild' /\ OpsOnTrack' /\ DirsAgree' /\ NothingOverwritten'
    BY InvFacts DEF OnlyTheChild, OpsOnTrack, DirsAgree, NothingOverwritten, Waits, Busy, Alive
  <1> QED BY <1>1, <1>2 DEF DesktopInv

LEMMA StepWindow ==
  ASSUME DesktopInv, OpenSettings \/ CloseSettings \/ HandleSignal \/ UNCHANGED vars PROVE DesktopInv'
  <1>1. app.up => signal[app.watch] \in {NoSignal, used.launch}
    BY InvFacts DEF DirsAgree
  <1>2. CASE OpenSettings \/ CloseSettings
    <2>1. \/ app' = [app EXCEPT !.window = TRUE]
          \/ app' = [app EXCEPT !.window = FALSE]
      BY <1>2 DEF OpenSettings, CloseSettings
    <2>2. UNCHANGED <<sidecar, routers, op, disk, marker, signal, written, used>>
      BY <1>2 DEF OpenSettings, CloseSettings
    <2>3. app' \in [up : BOOLEAN, window : BOOLEAN, watch : Dirs] /\ app'.up = app.up /\ app'.watch = app.watch
      BY <2>1, InvFacts
    <2> QED BY <1>1, <2>2, <2>3, InvFacts, WindowKeeps
  <1>3. CASE HandleSignal
    <2>1. /\ signal' = [signal EXCEPT ![app.watch] = NoSignal] /\ app' = [app EXCEPT !.window = TRUE]
          /\ UNCHANGED <<sidecar, routers, op, disk, marker, written, used>>
      BY <1>3 DEF HandleSignal
    <2>2. app' \in [up : BOOLEAN, window : BOOLEAN, watch : Dirs] /\ app'.up = app.up /\ app'.watch = app.watch
      BY <2>1, InvFacts
    <2>3. signal' \in [Dirs -> Nat] /\ signal'[app.watch] = NoSignal
      BY <2>1, InvFacts DEF NoSignal
    <2> QED BY <2>1, <2>2, <2>3, InvFacts, WindowKeeps
  <1>4. CASE UNCHANGED vars
    BY <1>1, <1>4, InvFacts, WindowKeeps DEF vars
  <1> QED BY <1>2, <1>3, <1>4

LEMMA StepPostSignal ==
  ASSUME DesktopInv, NEW p \in 1 .. Len(routers), PostSignal(p) PROVE DesktopInv'
  <1>1. /\ signal' = [signal EXCEPT ![routers[p].dir] = used.launch] /\ Count("signal")
        /\ UNCHANGED <<app, sidecar, routers, op, disk, marker, written>>
    BY DEF PostSignal
  <1>2. used' \in UsedType /\ used'.launch = used.launch /\ used.launch \in Nat
    BY <1>1, InvFacts, CountFacts DEF UsedType
  <1>3. signal' \in [Dirs -> Nat] /\ (app.up => signal'[app.watch] \in {NoSignal, used.launch})
    BY <1>1, <1>2, InvFacts DEF DirsAgree
  <1> QED BY <1>1, <1>2, <1>3, InvFacts, WindowKeeps

LEMMA StepInsert ==
  ASSUME DesktopInv, NEW p \in 1 .. Len(routers), Insert(p) PROVE DesktopInv'
  <1> DEFINE row == Cardinality(written) + 1
             dir == routers[p].dir
             new == [disk[dir] EXCEPT !.rows = @ \cup {row}]
  <1>1. /\ Alive(p) /\ disk' = [disk EXCEPT ![dir] = new] /\ written' = written \cup {row}
        /\ UNCHANGED <<app, sidecar, routers, op, marker, signal, used>>
    BY DEF Insert
  <1>2. row \in Nat /\ IsFiniteSet(written')
    <2>1. Cardinality(written) \in Nat
      BY InvFacts, FS_CardinalityType
    <2>2. IsFiniteSet(written)
      BY InvFacts
    <2>3. IsFiniteSet(written \cup {row})
      BY <2>2, FS_AddElement
    <2> QED BY <1>1, <2>1, <2>3
  <1>3. dir \in Dirs /\ disk[dir].db
    BY <1>1, InvFacts DEF DirsAgree, RouterType
  <1> HIDE DEF row, dir
  <1>4. /\ new \in [db : BOOLEAN, rows : SUBSET Nat, key : BOOLEAN] /\ new.db
        /\ new.rows = disk[dir].rows \cup {row}
    BY <1>2, <1>3, InvFacts DEF DiskType
  <1> HIDE DEF new
  <1>5. disk' \in DiskType /\ disk'[dir] = new /\ \A d \in Dirs : d # dir => disk'[d] = disk[d]
    BY <1>1, <1>3, <1>4, InvFacts DEF DiskType
  <1>6. TypeOK'
    BY <1>1, <1>2, <1>5, InvFacts DEF TypeOK, RouterType, SidecarType, OpTypeOf, DiskType, UsedType
  <1>7. OnlyTheChild' /\ OpsOnTrack'
    BY <1>1, InvFacts DEF OnlyTheChild, OpsOnTrack, Waits
  <1>8. DirsAgree'
    <2>1. \A d \in Dirs : disk[d].db => disk'[d].db
      BY <1>4, <1>5
    <2> QED BY <1>1, <2>1, InvFacts DEF DirsAgree, Alive, Busy, RouterType
  <1>9. NothingOverwritten'
    <2> SUFFICES ASSUME NEW r \in written'
                 PROVE  \E d \in Dirs : disk'[d].db /\ r \in disk'[d].rows
      BY DEF NothingOverwritten
    <2>1. CASE r = row
      BY <1>3, <1>4, <1>5, <2>1
    <2>2. CASE r # row
      <3>1. PICK d \in Dirs : disk[d].db /\ r \in disk[d].rows
        BY <1>1, <2>2, InvFacts DEF NothingOverwritten
      <3> QED BY <1>4, <1>5, <3>1
    <2> QED BY <2>1, <2>2
  <1> QED BY <1>2, <1>6, <1>7, <1>8, <1>9 DEF DesktopInv

\* A router that comes to its end has not gone yet: its exit is still to be told.
LEMMA DeadKeeps ==
  ASSUME DesktopInv, NEW p \in 1 .. Len(routers), routers[p].state # "reaped",
         routers' = [routers EXCEPT ![p].state = "dead"], used' \in UsedType, used'.launch = used.launch,
         UNCHANGED <<app, sidecar, op, disk, marker, signal, written>>
  PROVE  DesktopInv'
  <1> DEFINE t == [routers[p] EXCEPT !.state = "dead"]
  <1>1. t \in RouterType /\ t.state = "dead"
    BY InvFacts DEF RouterType
  <1>2. routers' = [routers EXCEPT ![p] = t]
    OBVIOUS
  <1> HIDE DEF t
  <1>3. /\ routers' \in Seq(RouterType) /\ Len(routers') = Len(routers)
        /\ \A q \in 1 .. Len(routers) : routers'[q] = IF q = p THEN t ELSE routers[q]
    <2>1. routers \in Seq(RouterType)
      BY InvFacts
    <2>2. /\ [routers EXCEPT ![p] = t] \in Seq(RouterType) /\ Len([routers EXCEPT ![p] = t]) = Len(routers)
          /\ \A q \in 1 .. Len(routers) : [routers EXCEPT ![p] = t][q] = IF q = p THEN t ELSE routers[q]
      BY <1>1, <2>1, ExceptSeq
    <2> QED BY <1>2, <2>2
  <1>4. TypeOK' /\ IsFiniteSet(written)'
    BY <1>3, InvFacts DEF TypeOK, RouterType, SidecarType, OpTypeOf, DiskType, UsedType
  <1>5. OnlyTheChild' /\ OpsOnTrack' /\ NothingOverwritten'
    BY <1>3, InvFacts DEF OnlyTheChild, OpsOnTrack, Waits, NothingOverwritten
  <1>6. DirsAgree'
    BY <1>1, <1>3, InvFacts DEF DirsAgree, Alive, Busy
  <1> QED BY <1>4, <1>5, <1>6 DEF DesktopInv

LEMMA StepDeath ==
  ASSUME DesktopInv, NEW p \in 1 .. Len(routers), Crash(p) \/ ObeysTerm(p) \/ Dies(p) PROVE DesktopInv'
  <1>1. used' \in UsedType /\ used'.launch = used.launch
    BY InvFacts, CountFacts DEF Crash, ObeysTerm, Dies
  <1>2. routers[p].state # "reaped"
    BY DEF Crash, ObeysTerm, Dies, Alive
  <1> QED BY <1>1, <1>2, DeadKeeps DEF Crash, ObeysTerm, Dies

LEMMA StepGraceEnds ==
  ASSUME DesktopInv, NEW o \in Slots, GraceEnds(o) PROVE DesktopInv'
  <1>1. /\ app.up /\ sidecar.child # NoChild /\ sidecar.child \in 1 .. Len(routers) /\ op[o].phase = "stopping"
        /\ op[o].child = sidecar.child /\ sidecar.intentional
    BY InvFacts DEF GraceEnds, OpsOnTrack, Waits, SidecarType, NoChild
  <1>2. /\ op' = [op EXCEPT ![o].phase = "killing"] /\ routers' = Sent(routers, sidecar.child, "kill")
        /\ UNCHANGED <<app, sidecar, disk, marker, signal, written, used>>
    BY <1>1 DEF GraceEnds
  <1>3. /\ routers' \in Seq(RouterType) /\ Len(routers') = Len(routers)
        /\ \A q \in 1 .. Len(routers) :
             /\ routers'[q].dir = routers[q].dir
             /\ routers'[q].state # "reaped" => routers[q].state # "reaped"
             /\ routers'[q].state \in {"up", "term", "kill"} => routers[q].state \in {"up", "term", "kill"}
    <2>1. /\ Sent(routers, sidecar.child, "kill") \in Seq(RouterType)
          /\ Len(Sent(routers, sidecar.child, "kill")) = Len(routers)
          /\ \A q \in 1 .. Len(routers) :
               /\ Sent(routers, sidecar.child, "kill")[q].dir = routers[q].dir
               /\ Sent(routers, sidecar.child, "kill")[q].state # "reaped" => routers[q].state # "reaped"
               /\ Sent(routers, sidecar.child, "kill")[q].state \in {"up", "term", "kill"}
                    => routers[q].state \in {"up", "term", "kill"}
      <3>1. "kill" \in {"term", "kill"}
        OBVIOUS
      <3> QED BY <1>1, <3>1, InvFacts, SentFacts
    <2> QED BY <1>2, <2>1
  <1> DEFINE e == [op[o] EXCEPT !.phase = "killing"]
  <1>4. e \in OpTypeOf(Len(routers)) /\ e.kind = op[o].kind /\ e.phase = "killing" /\ e.child = sidecar.child
    BY <1>1, InvFacts DEF OpTypeOf, Phases
  <1>5. op' = [op EXCEPT ![o] = e]
    BY <1>2
  <1> HIDE DEF e
  <1>6. /\ op' \in [Slots -> OpTypeOf(Len(routers))] /\ op'[o] = e
        /\ \A other \in Slots : other # o => op'[other] = op[other]
    BY <1>4, <1>5, InvFacts
  <1>7. TypeOK' /\ IsFiniteSet(written)'
    BY <1>2, <1>3, <1>6, InvFacts DEF TypeOK, RouterType, SidecarType, OpTypeOf, DiskType, UsedType
  <1>8. OnlyTheChild' /\ NothingOverwritten'
    BY <1>2, <1>3, InvFacts DEF OnlyTheChild, NothingOverwritten
  <1>9. OpsOnTrack'
    BY <1>1, <1>2, <1>4, <1>6, InvFacts DEF OpsOnTrack, Waits
  <1>10. DirsAgree'
    <2>1. \A p \in 1 .. Len(routers) : Alive(p)' => Alive(p) /\ routers'[p].dir = routers[p].dir
      BY <1>3 DEF Alive
    <2>2. \A s \in Slots : Busy(s) /\ op[s].kind = "save" => Busy(s)' /\ op'[s].kind = "save"
      BY <1>4, <1>6 DEF Busy
    <2> QED BY <1>2, <1>3, <2>1, <2>2, InvFacts DEF DirsAgree
  <1> QED BY <1>7, <1>8, <1>9, <1>10 DEF DesktopInv

LEMMA StepSaveProbes ==
  ASSUME DesktopInv, NEW o \in Slots, SaveProbes(o) PROVE DesktopInv'
  <1>1. /\ app.up /\ op[o].kind = "save" /\ op[o].phase = "stopped"
        /\ op' = [op EXCEPT ![o].phase = "probing"]
        /\ UNCHANGED <<app, sidecar, routers, disk, marker, signal, written, used>>
    BY DEF SaveProbes
  <1> DEFINE e == [op[o] EXCEPT !.phase = "probing"]
  <1>2. e \in OpTypeOf(Len(routers)) /\ e.kind = "save" /\ e.phase = "probing"
    BY <1>1, InvFacts DEF OpTypeOf, Phases
  <1>3. op' = [op EXCEPT ![o] = e]
    BY <1>1
  <1> HIDE DEF e
  <1>4. /\ op' \in [Slots -> OpTypeOf(Len(routers))] /\ op'[o] = e
        /\ \A other \in Slots : other # o => op'[other] = op[other]
    BY <1>2, <1>3, InvFacts
  <1>5. TypeOK' /\ IsFiniteSet(written)'
    BY <1>1, <1>4, InvFacts DEF TypeOK, RouterType, SidecarType, OpTypeOf, DiskType, UsedType
  <1>6. OnlyTheChild' /\ NothingOverwritten'
    BY <1>1, InvFacts DEF OnlyTheChild, NothingOverwritten
  <1>7. OpsOnTrack'
    BY <1>1, <1>2, <1>4, InvFacts DEF OpsOnTrack, Waits
  <1>8. DirsAgree'
    <2>1. \A s \in Slots : Busy(s) /\ op[s].kind = "save" => Busy(s)' /\ op'[s].kind = "save"
      BY <1>2, <1>4 DEF Busy
    <2> QED BY <1>1, <2>1, InvFacts DEF DirsAgree, Alive
  <1> QED BY <1>5, <1>6, <1>7, <1>8 DEF DesktopInv

--------------------------------------------------------------------------------
(* The exit of the router.                                                 *)

LEMMA ReapedFacts ==
  ASSUME DesktopInv, NEW p \in 1 .. Len(routers), routers[p].state = "dead"
  PROVE  /\ [routers EXCEPT ![p].state = "reaped"] \in Seq(RouterType)
         /\ Len([routers EXCEPT ![p].state = "reaped"]) = Len(routers)
         /\ \A q \in 1 .. Len(routers) : [routers EXCEPT ![p].state = "reaped"][q].state = "reaped"
  <1> DEFINE t == [routers[p] EXCEPT !.state = "reaped"]
  <1>1. t \in RouterType /\ t.state = "reaped"
    BY InvFacts DEF RouterType
  <1>2. [routers EXCEPT ![p].state = "reaped"] = [routers EXCEPT ![p] = t]
    OBVIOUS
  <1> HIDE DEF t
  <1>3. routers \in Seq(RouterType)
    BY InvFacts
  <1>4. /\ [routers EXCEPT ![p] = t] \in Seq(RouterType) /\ Len([routers EXCEPT ![p] = t]) = Len(routers)
        /\ \A q \in 1 .. Len(routers) : [routers EXCEPT ![p] = t][q] = IF q = p THEN t ELSE routers[q]
    BY <1>1, <1>3, ExceptSeq
  <1>5. \A q \in 1 .. Len(routers) : q # p => routers[q].state = "reaped"
    BY InvFacts DEF OnlyTheChild
  <1> QED BY <1>1, <1>2, <1>4, <1>5

LEMMA StepOnExit ==
  ASSUME DesktopInv, NEW p \in 1 .. Len(routers), OnExit(p) PROVE DesktopInv'
  <1> DEFINE reaped == [routers EXCEPT ![p].state = "reaped"]
             again  == ~sidecar.intentional /\ sidecar.budget > 0
             new    == [dir |-> sidecar.dir, state |-> "up"]
  <1>1. app.up /\ sidecar.child = p /\ sidecar.child # NoChild /\ routers[p].state = "dead"
    BY InvFacts DEF OnExit, OnlyTheChild, NoChild
  <1>2. /\ reaped \in Seq(RouterType) /\ Len(reaped) = Len(routers) /\ Len(routers) \in Nat
        /\ \A q \in 1 .. Len(routers) : reaped[q].state = "reaped"
    BY <1>1, ReapedFacts, InvFacts
  <1>3. /\ op' = Resumed(p) /\ UNCHANGED <<app, marker, signal, written, used>>
        /\ \A s \in Slots : op[s].phase \notin {"copied", "stopped", "probing"}
    BY <1>1, InvFacts DEF OnExit, Settled, OpsOnTrack
  <1>4. CASE again
    <2>1. \A s \in Slots : ~Waits(s)
      BY <1>4, InvFacts DEF OpsOnTrack
    <2>2. op' = op
      <3>1. Resumed(p) = [s \in Slots |-> op[s]]
        BY <2>1 DEF Resumed, Waits
      <3> QED BY <3>1, <1>3, InvFacts
    <2>3. /\ routers' = Append(reaped, new) /\ disk' = [disk EXCEPT ![sidecar.dir].db = TRUE]
          /\ sidecar' = [Child(Len(routers) + 1) EXCEPT !.budget = @ - 1]
      BY <1>4, <2>1 DEF OnExit, Awaited, Waits, Spawned, Opened
    <2>4. new \in RouterType /\ new.dir = sidecar.dir /\ sidecar.dir \in Dirs
      BY InvFacts DEF RouterType, SidecarType
    <2> HIDE DEF new, reaped
    <2>5. /\ routers' \in Seq(RouterType) /\ Len(routers') = Len(routers) + 1
          /\ routers'[Len(routers) + 1] = new /\ \A q \in 1 .. Len(routers) : routers'[q] = reaped[q]
      BY <1>2, <2>3, <2>4
    <2>6. \A q \in 1 .. Len(routers') : routers'[q].state # "reaped" => q = Len(routers) + 1 /\ routers'[q].dir = sidecar.dir
      <3> SUFFICES ASSUME NEW q \in 1 .. Len(routers'), routers'[q].state # "reaped"
                   PROVE  q = Len(routers) + 1 /\ routers'[q].dir = sidecar.dir
        OBVIOUS
      <3>1. q \in 1 .. Len(routers) \/ q = Len(routers) + 1
        BY <1>2, <2>5
      <3>2. q \notin 1 .. Len(routers)
        BY <1>2, <2>5
      <3> QED BY <2>4, <2>5, <3>1, <3>2
    <2>7. /\ sidecar' \in SidecarType(Len(routers')) /\ sidecar'.child = Len(routers) + 1
          /\ sidecar'.status = "running" /\ sidecar'.dir = sidecar.dir
      <3> DEFINE c == Child(Len(routers) + 1)
      <3>1. /\ c \in SidecarType(Len(routers) + 1) /\ c.child = Len(routers) + 1 /\ c.status = "running"
            /\ c.dir = sidecar.dir /\ c.budget = sidecar.budget
        <4>1. Len(routers) + 1 \in 0 .. Len(routers) + 1
          BY <1>2
        <4>2. sidecar \in SidecarType(Len(routers) + 1)
          <5>1. 0 .. Len(routers) \subseteq 0 .. Len(routers) + 1
            BY <1>2
          <5> QED BY <5>1, InvFacts DEF SidecarType
        <4> DEFINE n == Len(routers) + 1
        <4>3. c = [sidecar EXCEPT !.child = n, !.status = "running"] /\ n \in 0 .. n /\ sidecar \in SidecarType(n)
          BY <4>1, <4>2 DEF Child
        <4> HIDE DEF n, c
        <4>4. /\ c \in SidecarType(n) /\ c.child = n /\ c.status = "running"
              /\ c.dir = sidecar.dir /\ c.budget = sidecar.budget
          BY <4>3 DEF SidecarType
        <4> QED BY <4>4 DEF n
      <3>2. c.budget - 1 \in 0 .. MaxRestarts
        <4>1. sidecar.budget \in 0 .. MaxRestarts /\ sidecar.budget > 0
          BY <1>4, InvFacts DEF SidecarType
        <4>2. c.budget = sidecar.budget /\ MaxRestarts \in Nat
          BY <3>1, DesktopAssumption DEF DesktopAssumption
        <4> HIDE DEF c
        <4> QED BY <4>1, <4>2
      <3>3. sidecar' = [c EXCEPT !.budget = @ - 1]
        BY <2>3
      <3> HIDE DEF c
      <3> QED BY <2>5, <3>1, <3>2, <3>3 DEF SidecarType
    <2>8. disk' \in DiskType /\ disk'[sidecar.dir].db /\ \A d \in Dirs : disk'[d].rows = disk[d].rows /\ (disk[d].db => disk'[d].db)
      BY <2>3, <2>4, InvFacts DEF DiskType
    <2>9. op' \in [Slots -> OpTypeOf(Len(routers'))]
      <3>1. 0 .. Len(routers) \subseteq 0 .. Len(routers')
        BY <1>2, <2>5
      <3>2. OpTypeOf(Len(routers)) \subseteq OpTypeOf(Len(routers'))
        BY <3>1 DEF OpTypeOf
      <3> QED BY <2>2, <3>2, InvFacts
    <2>10. TypeOK' /\ IsFiniteSet(written)'
      BY <1>3, <2>5, <2>7, <2>8, <2>9, InvFacts DEF TypeOK, RouterType, SidecarType, OpTypeOf, DiskType, UsedType
    <2>11. OnlyTheChild'
      BY <1>1, <1>3, <2>6, <2>7 DEF OnlyTheChild
    <2>12. OpsOnTrack'
      BY <1>3, <2>1, <2>2, InvFacts DEF OpsOnTrack, Waits
    <2>13. DirsAgree'
      <3>1. \A q \in 1 .. Len(routers') : Alive(q)' => routers'[q].dir = sidecar.dir
        BY <2>6 DEF Alive
      <3> QED BY <1>3, <2>2, <2>7, <2>8, <3>1, InvFacts DEF DirsAgree, Busy
    <2>14. NothingOverwritten'
      BY <1>3, <2>8, InvFacts DEF NothingOverwritten
    <2> QED BY <2>10, <2>11, <2>12, <2>13, <2>14 DEF DesktopInv
  <1>5. CASE ~again
    <2>1. /\ routers' = reaped /\ disk' = disk
          /\ sidecar' = [sidecar EXCEPT !.child = NoChild] \/ sidecar' = [sidecar EXCEPT !.child = NoChild, !.status = "crashed"]
      BY <1>5 DEF OnExit
    <2>2. sidecar' \in SidecarType(Len(routers)) /\ sidecar'.child = NoChild /\ sidecar'.dir = sidecar.dir
      <3>1. sidecar \in SidecarType(Len(routers)) /\ NoChild \in 0 .. Len(routers)
        BY <1>2, InvFacts DEF NoChild
      <3> HIDE DEF NoChild
      <3> QED BY <2>1, <3>1 DEF SidecarType
    <2> HIDE DEF reaped
    <2>3. /\ op' \in [Slots -> OpTypeOf(Len(routers))]
          /\ \A s \in Slots : op'[s].kind = op[s].kind /\ op'[s].phase = IF Waits(s) THEN "stopped" ELSE op[s].phase
      <3>1. \A s \in Slots : Waits(s) => op[s].child = p
        BY <1>1, InvFacts DEF OpsOnTrack
      <3>2. ASSUME NEW s \in Slots
            PROVE  /\ op'[s] \in OpTypeOf(Len(routers)) /\ op'[s].kind = op[s].kind
                   /\ op'[s].phase = IF Waits(s) THEN "stopped" ELSE op[s].phase
        <4>1. op'[s] = IF Waits(s) THEN [op[s] EXCEPT !.phase = "stopped"] ELSE op[s]
          BY <1>3, <3>1 DEF Resumed, Waits
        <4>2. op[s] \in OpTypeOf(Len(routers))
          BY InvFacts
        <4> QED BY <4>1, <4>2 DEF OpTypeOf, Phases
      <3>3. op' = [s \in Slots |-> op'[s]]
        BY <1>3 DEF Resumed
      <3> QED BY <3>2, <3>3
    <2>4. \A s \in Slots : Busy(s) => Busy(s)'
      BY <2>3 DEF Busy, Waits
    <2>5. TypeOK' /\ IsFiniteSet(written)'
      BY <1>2, <1>3, <2>1, <2>2, <2>3, InvFacts DEF TypeOK, RouterType, SidecarType, OpTypeOf, DiskType, UsedType
    <2>6. OnlyTheChild'
      BY <1>2, <2>1, <2>2 DEF OnlyTheChild
    <2>7. OpsOnTrack'
      BY <1>1, <1>3, <2>2, <2>3 DEF OpsOnTrack, Waits
    <2>8. DirsAgree'
      BY <1>2, <1>3, <2>1, <2>2, <2>3, <2>4, InvFacts DEF DirsAgree, Alive
    <2>9. NothingOverwritten'
      BY <1>3, <2>1, InvFacts DEF NothingOverwritten
    <2> QED BY <2>5, <2>6, <2>7, <2>8, <2>9 DEF DesktopInv
  <1> QED BY <1>4, <1>5

--------------------------------------------------------------------------------
(* The save that moves the data.                                           *)

\* A copy makes databases and loses no row of one that was there.
LEMMA CopiedFacts ==
  ASSUME disk \in DiskType, NEW from \in Dirs, NEW to \in Dirs
  PROVE  /\ Copied(from, to) \in DiskType
         /\ \A d \in Dirs : disk[d].db => Copied(from, to)[d].db /\ Copied(from, to)[d].rows = disk[d].rows
  <1> DEFINE t == [disk[to] EXCEPT !.db = disk[from].db \/ @, !.rows = IF disk[to].db THEN @ ELSE disk[from].rows]
  <1>1. /\ t \in [db : BOOLEAN, rows : SUBSET Nat, key : BOOLEAN]
        /\ disk[to].db => t.db /\ t.rows = disk[to].rows
    BY DEF DiskType
  <1>2. Copied(from, to) = [disk EXCEPT ![to] = t]
    BY DEF Copied
  <1> HIDE DEF t
  <1> QED BY <1>1, <1>2 DEF DiskType

\* What keeps a database and its rows keeps every row written.
LEMMA RowsStay ==
  ASSUME NothingOverwritten, written' = written,
         \A d \in Dirs : disk[d].db => disk'[d].db /\ disk'[d].rows = disk[d].rows
  PROVE  NothingOverwritten'
  BY DEF NothingOverwritten

LEMMA StepSave ==
  ASSUME DesktopInv, OneAtATime', NEW o \in Slots, NEW dir \in Dirs, NEW key \in BOOLEAN, Save(o, dir, key)
  PROVE  DesktopInv'
  <1> DEFINE copied == IF dir = marker THEN disk ELSE Copied(marker, dir)
             e      == [Idle EXCEPT !.kind = "save", !.phase = "copied"]
  <1>1. /\ app.up /\ disk' = [copied EXCEPT ![dir].key = key] /\ marker' = dir
        /\ signal' = IF dir = marker THEN signal ELSE SignalCopied(marker, dir)
        /\ op' = [op EXCEPT ![o] = e] /\ Count("op") /\ UNCHANGED <<app, sidecar, routers, written>>
    BY DEF Save, Ready, Settled
  <1>2. used' \in UsedType /\ used'.launch = used.launch
    BY <1>1, InvFacts, CountFacts
  <1>3. e \in OpTypeOf(Len(routers)) /\ e.kind = "save" /\ e.phase = "copied"
    <2>1. Idle \in OpTypeOf(Len(routers))
      BY InvFacts DEF Idle, OpTypeOf, Phases
    <2> QED BY <2>1 DEF OpTypeOf, Phases
  <1>4. copied \in DiskType /\ \A d \in Dirs : disk[d].db => copied[d].db /\ copied[d].rows = disk[d].rows
    BY InvFacts, CopiedFacts
  <1> HIDE DEF copied, e
  <1>5. disk' \in DiskType /\ \A d \in Dirs : disk[d].db => disk'[d].db /\ disk'[d].rows = disk[d].rows
    BY <1>1, <1>4 DEF DiskType
  <1>6. /\ op' \in [Slots -> OpTypeOf(Len(routers))] /\ op'[o] = e
        /\ \A other \in Slots : other # o => op'[other] = op[other]
    BY <1>1, <1>3, InvFacts
  <1>7. Busy(o)' /\ \A other \in Slots : other # o => ~Busy(other) /\ op'[other].phase = "idle"
    <2>1. Busy(o)'
      BY <1>3, <1>6 DEF Busy
    <2>2. \A other \in Slots : other # o => ~Busy(other)'
      BY <2>1 DEF OneAtATime
    <2> QED BY <1>6, <2>1, <2>2 DEF Busy
  <1>8. marker = app.watch
    <2>1. ~Busy(o)
      BY DEF Save, Ready
    <2> QED BY <1>1, <1>7, <2>1, InvFacts DEF DirsAgree
  <1>9. signal' \in [Dirs -> Nat] /\ signal'[app.watch] = signal[app.watch]
    BY <1>1, <1>8, InvFacts DEF SignalCopied
  <1>10. TypeOK' /\ IsFiniteSet(written)'
    BY <1>1, <1>2, <1>5, <1>6, <1>9, InvFacts DEF TypeOK, RouterType, SidecarType, OpTypeOf, DiskType, UsedType
  <1>11. OnlyTheChild' /\ NothingOverwritten'
    BY <1>1, <1>5, InvFacts, RowsStay DEF OnlyTheChild
  <1>12. OpsOnTrack'
    BY <1>1, <1>3, <1>6, <1>7 DEF OpsOnTrack, Waits
  <1>13. DirsAgree'
    <2>1. \A p \in 1 .. Len(routers) : Alive(p) => disk'[routers[p].dir].db
      BY <1>5, InvFacts DEF DirsAgree, RouterType
    <2> QED BY <1>1, <1>2, <1>3, <1>6, <1>7, <1>9, <2>1, InvFacts DEF DirsAgree, Alive
  <1> QED BY <1>10, <1>11, <1>12, <1>13 DEF DesktopInv

LEMMA StepSaveFails ==
  ASSUME DesktopInv, NEW o \in Slots, NEW dir \in Dirs, SaveFails(o, dir) PROVE DesktopInv'
  <1>1. disk' \in {disk, Copied(marker, dir)} /\ Count("op") /\ UNCHANGED <<app, sidecar, routers, op, marker, signal, written>>
    BY DEF SaveFails
  <1>2. used' \in UsedType /\ used'.launch = used.launch
    BY <1>1, InvFacts, CountFacts
  <1>3. disk' \in DiskType /\ \A d \in Dirs : disk[d].db => disk'[d].db /\ disk'[d].rows = disk[d].rows
    BY <1>1, InvFacts, CopiedFacts
  <1>4. TypeOK' /\ IsFiniteSet(written)'
    BY <1>1, <1>2, <1>3, InvFacts DEF TypeOK, RouterType, SidecarType, OpTypeOf, DiskType, UsedType
  <1>5. OnlyTheChild' /\ OpsOnTrack' /\ NothingOverwritten'
    BY <1>1, <1>3, InvFacts, RowsStay DEF OnlyTheChild, OpsOnTrack, Waits
  <1>6. DirsAgree'
    BY <1>1, <1>2, <1>3, InvFacts DEF DirsAgree, Alive, Busy, RouterType
  <1> QED BY <1>4, <1>5, <1>6 DEF DesktopInv

--------------------------------------------------------------------------------
LEMMA DesktopStarts ==
  ASSUME Init PROVE DesktopInv
  <1>1. TypeOK
    <2>1. routers = <<>> /\ Len(routers) = 0 /\ routers \in Seq(RouterType)
      BY DEF Init
    <2>2. app \in [up : BOOLEAN, window : BOOLEAN, watch : Dirs]
      BY DesktopAssumption DEF Init, DesktopAssumption
    <2>3. sidecar \in SidecarType(0)
      BY DesktopAssumption DEF Init, DesktopAssumption, NewSidecar, SidecarType, NoChild
    <2>4. op \in [Slots -> OpTypeOf(0)]
      BY DEF Init, Idle, OpTypeOf, Phases
    <2>5. disk \in DiskType
      <3>1. [db |-> FALSE, rows |-> {}, key |-> FALSE] \in [db : BOOLEAN, rows : SUBSET Nat, key : BOOLEAN]
        OBVIOUS
      <3>2. disk \in [Dirs -> {[db |-> FALSE, rows |-> {}, key |-> FALSE]}]
        BY DEF Init
      <3> DEFINE e == [db |-> FALSE, rows |-> {}, key |-> FALSE]
                 S == [db : BOOLEAN, rows : SUBSET Nat, key : BOOLEAN]
      <3>3. disk \in [Dirs -> {e}] /\ e \in S
        BY <3>1, <3>2
      <3> HIDE DEF e, S
      <3>4. disk \in [Dirs -> S]
        BY <3>3
      <3> QED BY <3>4 DEF DiskType, S
    <2>6. marker \in Dirs /\ signal \in [Dirs -> Nat] /\ written \subseteq Nat
      BY DesktopAssumption DEF Init, DesktopAssumption, NoSignal
    <2>7. used \in UsedType
      BY DEF Init, UsedType
    <2> QED BY <2>1, <2>2, <2>3, <2>4, <2>5, <2>6, <2>7 DEF TypeOK, RouterType, SidecarType, OpTypeOf, DiskType, UsedType
  <1>2. IsFiniteSet(written)
    BY FS_EmptySet DEF Init
  <1>3. OnlyTheChild /\ OpsOnTrack /\ DirsAgree /\ NothingOverwritten
    BY DEF Init, OnlyTheChild, OpsOnTrack, DirsAgree, NothingOverwritten, NewSidecar, Waits, Idle, Alive
  <1> QED BY <1>1, <1>2, <1>3 DEF DesktopInv

LEMMA DesktopStep ==
  ASSUME DesktopInv, OneAtATime, OneAtATime', [Next]_vars PROVE DesktopInv'
  <1>1. CASE Launch
    BY <1>1, StepLaunch
  <1>2. CASE OpenSettings \/ CloseSettings \/ HandleSignal \/ UNCHANGED vars
    BY <1>2, StepWindow
  <1>3. ASSUME NEW p \in 1 .. Len(routers), RouterStep(p) PROVE DesktopInv'
    BY <1>3, StepInsert, StepPostSignal, StepDeath, StepOnExit DEF RouterStep
  <1>4. ASSUME NEW o \in Slots, OpStep(o) \/ Restart(o) \/ Quit(o) PROVE DesktopInv'
    BY <1>4, StepGraceEnds, StepEndRestart, StepEndQuit, StepSaveStops, StepSaveProbes, StepEndSave,
       StepRestart, StepQuit DEF OpStep
  <1>5. ASSUME NEW o \in Slots, NEW dir \in Dirs, SaveFails(o, dir) \/ \E key \in BOOLEAN : Save(o, dir, key)
        PROVE  DesktopInv'
    BY <1>5, StepSaveFails, StepSave
  <1> QED BY <1>1, <1>2, <1>3, <1>4, <1>5 DEF Next

LEMMA DesktopInvIsSound ==
  ASSUME DesktopInv PROVE DesktopSound
  <1>1. \A p \in 1 .. Len(routers) : Alive(p) => app.up /\ sidecar.child = p /\ routers[p].dir = app.watch
    BY InvFacts DEF OnlyTheChild, DirsAgree, Alive
  <1>2. OneRouter /\ QuitStopsRouter
    BY <1>1, InvFacts DEF OneRouter, QuitStopsRouter, OnlyTheChild
  <1>3. SignalsReachApp
    BY <1>1, InvFacts DEF SignalsReachApp, DirsAgree
  <1> QED BY <1>2, <1>3, InvFacts DEF DesktopSound, ShellInStep, RouterAccountedFor

(* Type correctness of the shell, its router processes, the operations under    *)
(* way and what is on disk, with one operation at a time.                       *)
THEOREM DesktopTypeCorrect == Spec /\ []OneAtATime => []TypeOK
  <1>1. Init => DesktopInv
    BY DesktopStarts
  <1>2. DesktopInv /\ OneAtATime /\ OneAtATime' /\ [Next]_vars => DesktopInv'
    BY DesktopStep
  <1>3. DesktopInv => TypeOK
    BY DEF DesktopInv
  <1> QED BY <1>1, <1>2, <1>3, PTL DEF Spec

(* With one operation at a time at most one router runs, it is the one the      *)
(* manager would stop, and none is left when the shell has quit; the signal file *)
(* watched is that router's; and every row ever written is still in some         *)
(* directory: for any directories, restarts, crashes and number of rows.         *)
THEOREM DesktopIsSound == Spec /\ []OneAtATime => []DesktopSound
  <1>1. Init => DesktopInv
    BY DesktopStarts
  <1>2. DesktopInv /\ OneAtATime /\ OneAtATime' /\ [Next]_vars => DesktopInv'
    BY DesktopStep
  <1>3. DesktopInv => DesktopSound
    BY DesktopInvIsSound
  <1> QED BY <1>1, <1>2, <1>3, PTL DEF Spec

--------------------------------------------------------------------------------
(***************************************************************************)
(* Updates: from whatever method, versions and answers of the registry, the *)
(* only update run there was leaves a whole installation when the process  *)
(* goes, unless one of its steps was killed.                               *)
(*                                                                         *)
(* A killed step has no exit code and counts as done, and a second run may *)
(* take the sources on while the first still builds: the theorem is about  *)
(* what is left.  The invariant follows the only run from step to step: what *)
(* the next one relies on is there (OnlyRunOnTrack).                       *)
(***************************************************************************)

StepNames == {"pull", "install", "build", "replace"}
RunType == [state : {"running", "succeeded", "failed", "leaving", "over"}, viewer : Viewers \cup {"terminal", "nobody"},
            left : Seq(StepNames), killed : BOOLEAN]
VersionsType == [sources : Nat, packages : Nat, built : Nat]

\* What may be left of the steps of a run that is at one of them.
Ends == {<<"pull", "install", "build">>, <<"install", "build">>, <<"build">>, <<"replace">>}

UpdatesTypes ==
  /\ registry \in Nat /\ installed \in VersionsType /\ run \in Seq(RunType)
  /\ \A r \in 1 .. Len(run) : run[r].state = "running" => run[r].left \in Ends

\* The only run there was, as long as no step of it was killed: what its next step
\* relies on is there, and when it has taken the last the installation is whole.
OnlyRunOnTrack ==
  Len(run) = 1 /\ ~run[1].killed =>
    /\ run[1].state = "running" /\ run[1].left = <<"build">> => installed.sources = installed.packages
    /\ run[1].state \in {"succeeded", "leaving"} => Whole(installed)

UpdatesInv == UpdatesTypes /\ OnlyRunOnTrack

--------------------------------------------------------------------------------

\* A run that changes in what the invariant does not speak of.
LEMMA RunsStay ==
  ASSUME UpdatesInv, UNCHANGED installed, registry' \in Nat, run' \in Seq(RunType), Len(run') = Len(run),
         \A r \in 1 .. Len(run) :
           \/ run'[r].state \in {"failed", "over"}
           \/ /\ run'[r].killed = run[r].killed /\ run'[r].left = run[r].left
              /\ run'[r].state = run[r].state \/ (run[r].state = "succeeded" /\ run'[r].state = "leaving")
  PROVE  UpdatesInv'
  <1>1. installed \in VersionsType /\ Len(run) \in Nat
    BY DEF UpdatesInv, UpdatesTypes
  <1>2. UpdatesTypes'
    BY <1>1 DEF UpdatesInv, UpdatesTypes
  <1>3. OnlyRunOnTrack'
    <2> SUFFICES ASSUME Len(run) = 1, ~run'[1].killed
                 PROVE  /\ run'[1].state = "running" /\ run'[1].left = <<"build">> => installed.sources = installed.packages
                        /\ run'[1].state \in {"succeeded", "leaving"} => Whole(installed)
      BY DEF OnlyRunOnTrack
    <2>1. 1 \in 1 .. Len(run)
      OBVIOUS
    <2> QED BY <2>1 DEF UpdatesInv, OnlyRunOnTrack
  <1> QED BY <1>2, <1>3 DEF UpdatesInv

\* A tab no longer looks on.
LEMMA StepUnwatched ==
  ASSUME UpdatesInv, NEW t, run' = NobodyWatches(t), UNCHANGED installed, registry' \in Nat
  PROVE  UpdatesInv'
  <1>1. run \in Seq(RunType) /\ Len(run) \in Nat /\ DOMAIN run = 1 .. Len(run)
    BY DEF UpdatesInv, UpdatesTypes
  <1> DEFINE n(r) == IF run[r].viewer = t THEN [run[r] EXCEPT !.viewer = "nobody"] ELSE run[r]
  <1>2. run' = [r \in 1 .. Len(run) |-> n(r)]
    BY <1>1 DEF NobodyWatches
  <1>3. ASSUME NEW r \in 1 .. Len(run)
        PROVE  n(r) \in RunType /\ n(r).killed = run[r].killed /\ n(r).left = run[r].left /\ n(r).state = run[r].state
    <2>1. run[r] \in RunType
      BY <1>1
    <2> QED BY <2>1 DEF RunType
  <1> HIDE DEF n
  <1>4. run' \in Seq(RunType) /\ Len(run') = Len(run) /\ \A r \in 1 .. Len(run) : run'[r] = n(r)
    BY <1>1, <1>2, <1>3
  <1> QED BY <1>3, <1>4, RunsStay

\* A run begins, with all its steps.
LEMMA StepStartRun ==
  ASSUME UpdatesInv, NEW viewer \in Viewers \cup {"terminal"}, StartRun(viewer), StepsOf(method) # <<>>,
         UNCHANGED <<installed, registry>>
  PROVE  UpdatesInv'
  <1> DEFINE new == [state |-> "running", viewer |-> viewer, left |-> StepsOf(method), killed |-> FALSE]
  <1>1. run \in Seq(RunType) /\ Len(run) \in Nat
    BY DEF UpdatesInv, UpdatesTypes
  <1>2. StepsOf(method) \in {<<"pull", "install", "build">>, <<"replace">>}
    BY DEF StepsOf
  <1>3. new \in RunType /\ new.left \in {<<"pull", "install", "build">>, <<"replace">>} /\ new.state = "running"
    <2>1. StepsOf(method) \in Seq(StepNames)
      <3>1. <<"pull", "install", "build">> \in Seq(StepNames)
        BY DEF StepNames
      <3>2. <<"replace">> \in Seq(StepNames)
        BY DEF StepNames
      <3> QED BY <1>2, <3>1, <3>2
    <2> QED BY <1>2, <2>1 DEF RunType
  <1>4. run' = Append(run, new)
    BY DEF StartRun
  <1> HIDE DEF new
  <1>5. /\ run' \in Seq(RunType) /\ Len(run') = Len(run) + 1 /\ run'[Len(run) + 1] = new
        /\ \A r \in 1 .. Len(run) : run'[r] = run[r]
    BY <1>1, <1>3, <1>4
  <1>6. UpdatesTypes'
    BY <1>1, <1>3, <1>5 DEF UpdatesInv, UpdatesTypes, Ends
  <1>7. OnlyRunOnTrack'
    <2>1. Len(run') = 1 => run'[1] = new
      BY <1>1, <1>5
    <2>2. new.left # <<"build">>
      <3>1. <<"pull", "install", "build">> # <<"build">> /\ <<"replace">> # <<"build">>
        <4>1. Len(<<"pull", "install", "build">>) # Len(<<"build">>) /\ <<"replace">>[1] # <<"build">>[1]
          OBVIOUS
        <4> QED BY <4>1
      <3> QED BY <1>3, <3>1
    <2> QED BY <1>3, <2>1, <2>2 DEF OnlyRunOnTrack
  <1> QED BY <1>6, <1>7 DEF UpdatesInv

\* What is left behind the head of the steps.
LEMMA EndsFacts ==
  ASSUME NEW left \in Ends
  PROVE  /\ Head(left) \in StepNames /\ left \in Seq(StepNames) /\ Tail(left) \in Seq(StepNames)
         /\ Tail(left) # <<>> => Tail(left) \in Ends
         /\ Head(left) = "install" <=> Tail(left) = <<"build">>
         /\ Head(left) \in {"build", "replace"} <=> Tail(left) = <<>>
         /\ Head(left) = "build" => left = <<"build">>
  <1>1. CASE left = <<"pull", "install", "build">>
    <2>1. Head(left) = "pull" /\ Tail(left) = <<"install", "build">> /\ left \in Seq(StepNames)
      BY <1>1 DEF StepNames
    <2>2. Tail(left) # <<"build">> /\ Tail(left) # <<>>
      <3>1. Len(<<"install", "build">>) = 2 /\ Len(<<"build">>) = 1 /\ Len(<<>>) = 0
        OBVIOUS
      <3> QED BY <2>1, <3>1
    <2> QED BY <2>1, <2>2 DEF Ends, StepNames
  <1>2. CASE left = <<"install", "build">>
    <2>1. Head(left) = "install" /\ Tail(left) = <<"build">> /\ left \in Seq(StepNames)
      BY <1>2 DEF StepNames
    <2> QED BY <2>1 DEF Ends, StepNames
  <1>3. CASE left = <<"build">>
    <2>1. Head(left) = "build" /\ Tail(left) = <<>> /\ left \in Seq(StepNames)
      BY <1>3 DEF StepNames
    <2> QED BY <1>3, <2>1 DEF StepNames
  <1>4. CASE left = <<"replace">>
    <2>1. Head(left) = "replace" /\ Tail(left) = <<>> /\ left \in Seq(StepNames)
      BY <1>4 DEF StepNames
    <2>2. Tail(left) # <<"build">> /\ Tail(left) \in Seq(StepNames)
      <3>1. Len(<<"build">>) = 1 /\ Len(<<>>) = 0
        OBVIOUS
      <3>2. <<>> \in Seq(StepNames) /\ <<>> # <<"build">>
        BY <3>1
      <3> QED BY <2>1, <3>2
    <2> QED BY <2>1, <2>2 DEF StepNames
  <1> QED BY <1>1, <1>2, <1>3, <1>4 DEF Ends

\* A step of a run ends, is killed or fails.
LEMMA StepRunStep ==
  ASSUME UpdatesInv, NEW r \in 1 .. Len(run), RunStep(r)
  PROVE  UpdatesInv'
  <1> DEFINE q == run[r]
             done == [q EXCEPT !.left = Tail(@), !.state = IF Tail(q.left) = <<>> THEN "succeeded" ELSE "running"]
             dead == [done EXCEPT !.killed = TRUE]
             failed == [q EXCEPT !.state = "failed", !.left = <<>>]
  <1>1. /\ q.state = "running" /\ UNCHANGED registry
        /\ \/ installed' = After(Head(q.left)) /\ run' = [run EXCEPT ![r] = done]
           \/ run' = [run EXCEPT ![r] = dead] /\ UNCHANGED installed
           \/ run' = [run EXCEPT ![r] = failed] /\ UNCHANGED installed
    BY DEF RunStep, Taken, checkVars
  <1>2. run \in Seq(RunType) /\ Len(run) \in Nat /\ q \in RunType /\ registry \in Nat /\ installed \in VersionsType
    BY DEF UpdatesInv, UpdatesTypes
  <1>3. q.left \in Ends
    BY <1>1 DEF UpdatesInv, UpdatesTypes
  <1>4. /\ Head(q.left) \in StepNames /\ Tail(q.left) \in Seq(StepNames)
        /\ Tail(q.left) # <<>> => Tail(q.left) \in Ends
        /\ Head(q.left) = "install" <=> Tail(q.left) = <<"build">>
        /\ Head(q.left) \in {"build", "replace"} <=> Tail(q.left) = <<>>
        /\ Head(q.left) = "build" => q.left = <<"build">>
    BY <1>3, EndsFacts
  <1>5. done \in RunType /\ done.left = Tail(q.left) /\ done.killed = q.killed
        /\ done.state = IF Tail(q.left) = <<>> THEN "succeeded" ELSE "running"
    <2> HIDE DEF q
    <2> QED BY <1>2, <1>4 DEF RunType
  <1>6. dead \in RunType /\ dead.left = Tail(q.left) /\ dead.killed = TRUE
        /\ dead.state = IF Tail(q.left) = <<>> THEN "succeeded" ELSE "running"
    <2> HIDE DEF done, q
    <2> QED BY <1>5 DEF RunType
  <1>7. failed \in RunType /\ failed.state = "failed"
    <2> HIDE DEF q
    <2>1. <<>> \in Seq(StepNames)
      OBVIOUS
    <2> QED BY <1>2, <2>1 DEF RunType
  <1> HIDE DEF q, done, dead, failed
  <1>8. CASE installed' = After(Head(q.left)) /\ run' = [run EXCEPT ![r] = done]
    <2>1. run' \in Seq(RunType) /\ Len(run') = Len(run) /\ \A k \in 1 .. Len(run) : run'[k] = IF k = r THEN done ELSE run[k]
      BY <1>2, <1>5, <1>8
    <2>2. /\ installed' \in VersionsType
          /\ Head(q.left) = "install" => installed'.sources = installed'.packages
          /\ Head(q.left) = "replace" => Whole(installed')
          /\ Head(q.left) = "build" /\ installed.sources = installed.packages => Whole(installed')
      <3>1. CASE Head(q.left) = "pull"
        BY <1>2, <1>8, <3>1 DEF After, VersionsType
      <3>2. CASE Head(q.left) = "install"
        BY <1>2, <1>8, <3>2 DEF After, VersionsType
      <3>3. CASE Head(q.left) = "build"
        BY <1>2, <1>8, <3>3 DEF After, VersionsType, Whole
      <3>4. CASE Head(q.left) = "replace"
        BY <1>2, <1>8, <3>4 DEF After, VersionsType, Whole
      <3> QED BY <1>4, <3>1, <3>2, <3>3, <3>4 DEF StepNames
    <2>3. UpdatesTypes'
      BY <1>1, <1>2, <1>4, <1>5, <2>1, <2>2 DEF UpdatesInv, UpdatesTypes
    <2>4. ASSUME Len(run) = 1, ~run'[1].killed
          PROVE  /\ run'[1].state = "running" /\ run'[1].left = <<"build">> => installed'.sources = installed'.packages
                 /\ run'[1].state \in {"succeeded", "leaving"} => Whole(installed')
      <3>1. r = 1 /\ run'[1] = done /\ ~q.killed
        BY <1>5, <2>1, <2>4
      <3>2. q.left = <<"build">> => installed.sources = installed.packages
        BY <1>1, <2>4, <3>1 DEF UpdatesInv, OnlyRunOnTrack, q
      <3> QED BY <1>4, <1>5, <2>2, <3>1, <3>2
    <2> QED BY <2>1, <2>3, <2>4 DEF UpdatesInv, OnlyRunOnTrack
  <1>9. CASE run' = [run EXCEPT ![r] = dead] /\ UNCHANGED installed
    <2>1. run' \in Seq(RunType) /\ Len(run') = Len(run) /\ \A k \in 1 .. Len(run) : run'[k] = IF k = r THEN dead ELSE run[k]
      BY <1>2, <1>6, <1>9
    <2>2. UpdatesTypes'
      BY <1>1, <1>2, <1>4, <1>6, <1>9, <2>1 DEF UpdatesInv, UpdatesTypes
    <2>3. Len(run) = 1 => run'[1].killed
      BY <1>6, <2>1
    <2> QED BY <2>1, <2>2, <2>3 DEF UpdatesInv, OnlyRunOnTrack
  <1>10. CASE run' = [run EXCEPT ![r] = failed] /\ UNCHANGED installed
    <2>1. run' \in Seq(RunType) /\ Len(run') = Len(run) /\ \A k \in 1 .. Len(run) : run'[k] = IF k = r THEN failed ELSE run[k]
      BY <1>2, <1>7, <1>10
    <2> QED BY <1>1, <1>2, <1>7, <1>10, <2>1, RunsStay
  <1> QED BY <1>1, <1>8, <1>9, <1>10

\* The end of a run is told: a success is about to leave, a failure is over.
LEMMA OverFacts ==
  ASSUME UpdatesInv, NEW r \in 1 .. Len(run)
  PROVE  Over(r) \in RunType /\ Over(r).state = "over"
  <1>1. run[r] \in RunType
    BY DEF UpdatesInv, UpdatesTypes
  <1>2. <<>> \in Seq(StepNames)
    OBVIOUS
  <1> DEFINE q == run[r]
  <1>3. Over(r) = [q EXCEPT !.state = "over", !.viewer = "nobody", !.left = <<>>] /\ q \in RunType
    BY <1>1 DEF Over
  <1> HIDE DEF q
  <1> QED BY <1>2, <1>3 DEF RunType

LEMMA StepDone ==
  ASSUME UpdatesInv, NEW r \in 1 .. Len(run), Done(r)
  PROVE  UpdatesInv'
  <1> DEFINE n == IF run[r].state = "succeeded" THEN [run[r] EXCEPT !.state = "leaving"] ELSE Over(r)
  <1>1. run' = [run EXCEPT ![r] = n] /\ UNCHANGED <<registry, installed>>
    BY DEF Done, checkVars
  <1>2. run \in Seq(RunType) /\ Len(run) \in Nat /\ run[r] \in RunType /\ registry \in Nat
    BY DEF UpdatesInv, UpdatesTypes
  <1>3. /\ n \in RunType
        /\ \/ n.state \in {"failed", "over"}
           \/ n.killed = run[r].killed /\ n.left = run[r].left /\ run[r].state = "succeeded" /\ n.state = "leaving"
    <2>1. CASE run[r].state = "succeeded"
      BY <1>2, <2>1 DEF RunType
    <2>2. CASE run[r].state # "succeeded"
      BY <2>2, OverFacts
    <2> QED BY <2>1, <2>2
  <1> HIDE DEF n
  <1>4. run' \in Seq(RunType) /\ Len(run') = Len(run) /\ \A k \in 1 .. Len(run) : run'[k] = IF k = r THEN n ELSE run[k]
    BY <1>1, <1>2, <1>3
  <1> QED BY <1>1, <1>2, <1>3, <1>4, RunsStay

\* The process leaves, and every run is over.
LEMMA StepLeave ==
  ASSUME UpdatesInv, NEW r, Leave(r)
  PROVE  UpdatesInv'
  <1>1. run \in Seq(RunType) /\ Len(run) \in Nat /\ DOMAIN run = 1 .. Len(run) /\ registry \in Nat
    BY DEF UpdatesInv, UpdatesTypes
  <1>2. run' = [q \in 1 .. Len(run) |-> Over(q)] /\ UNCHANGED <<registry, installed>>
    BY <1>1 DEF Leave
  <1>3. \A q \in 1 .. Len(run) : Over(q) \in RunType /\ Over(q).state = "over"
    BY OverFacts
  <1>4. run' \in Seq(RunType) /\ Len(run') = Len(run) /\ \A q \in 1 .. Len(run) : run'[q].state = "over"
    BY <1>1, <1>2, <1>3
  <1> QED BY <1>1, <1>2, <1>4, RunsStay

\* A start that asks about an update begins a run, or none.
LEMMA StepPrompt ==
  ASSUME UpdatesInv, NEW latest, Prompt(latest), UNCHANGED <<registry, installed>>
  PROVE  UpdatesInv'
  <1>1. CASE UNCHANGED run
    BY <1>1 DEF UpdatesInv, UpdatesTypes, OnlyRunOnTrack
  <1>2. CASE StepsOf(method) # <<>> /\ StartRun("terminal")
    BY <1>2, StepStartRun
  <1> QED BY <1>1, <1>2 DEF Prompt

LEMMA UpdatesStep == UpdatesInv /\ [UpdatesNext]_updatesVars => UpdatesInv'
  <1> SUFFICES ASSUME UpdatesInv, [UpdatesNext]_updatesVars PROVE UpdatesInv'
    OBVIOUS
  <1>1. registry \in Nat /\ registry + 1 \in Nat /\ DOMAIN run = 1 .. Len(run)
    BY DEF UpdatesInv, UpdatesTypes
  <1>2. ASSUME UNCHANGED <<run, installed>>, registry' \in Nat PROVE UpdatesInv'
    BY <1>2 DEF UpdatesInv, UpdatesTypes, OnlyRunOnTrack
  <1>3. CASE UNCHANGED updatesVars
    BY <1>1, <1>2, <1>3 DEF updatesVars
  <1>4. CASE Publish \/ Expire \/ StartProcess
    BY <1>1, <1>2, <1>4 DEF Publish, Expire, StartProcess
  <1>5. CASE \E who \in Viewers \cup {"background"} : \E latest \in {Tagged(who), Nothing} : RefreshDone(who, latest)
    BY <1>1, <1>2, <1>5 DEF RefreshDone
  <1>6. CASE StartChecked
    <2>1. UNCHANGED <<registry, installed>> /\ (UNCHANGED run \/ \E latest : Prompt(latest))
      BY <1>6 DEF StartChecked
    <2> QED BY <1>1, <1>2, <2>1, StepPrompt
  <1>7. CASE StartTimesOut
    <2>1. UNCHANGED <<registry, installed>> /\ Prompt(CachedLatest(RunningVersion))
      BY <1>7 DEF StartTimesOut, checkVars
    <2> QED BY <2>1, StepPrompt
  <1>8. CASE \E r \in DOMAIN run : RunStep(r) \/ Done(r) \/ Exit(r) \/ ExitTerminal(r)
    BY <1>1, <1>8, StepRunStep, StepDone, StepLeave DEF Exit, ExitTerminal
  <1>9. ASSUME NEW t \in Viewers, Mount(t) \/ AskAgain(t) \/ TakeReply(t) \/ CheckNow(t) \/ OpenWindow(t) \/ CloseWindow(t)
        PROVE  UpdatesInv'
    <2>1. CASE Mount(t) \/ CloseWindow(t)
      BY <1>1, <2>1, StepUnwatched DEF Mount, CloseWindow
    <2>2. CASE AskAgain(t) \/ CheckNow(t)
      BY <1>1, <1>2, <2>2 DEF AskAgain, CheckNow
    <2>3. CASE TakeReply(t)
      <3>1. UNCHANGED <<registry, installed>> /\ (UNCHANGED run \/ run' = NobodyWatches(t))
        BY <2>3 DEF TakeReply, Take, checkVars
      <3> QED BY <1>1, <1>2, <3>1, StepUnwatched
    <2>4. CASE OpenWindow(t)
      <3>1. UNCHANGED <<registry, installed>> /\ (UNCHANGED run \/ (StepsOf(method) # <<>> /\ StartRun(t)))
        BY <2>4 DEF OpenWindow, checkVars
      <3> QED BY <1>1, <1>2, <3>1, StepStartRun
    <2> QED BY <1>9, <2>1, <2>2, <2>3, <2>4
  <1> QED BY <1>3, <1>4, <1>5, <1>6, <1>7, <1>8, <1>9 DEF UpdatesNext

LEMMA UpdatesStart == UpdatesInit => UpdatesInv
  <1> SUFFICES ASSUME UpdatesInit PROVE UpdatesInv
    OBVIOUS
  <1>1. registry = 1 /\ installed = [sources |-> 1, packages |-> 1, built |-> 1] /\ run = <<>>
    BY DEF UpdatesInit
  <1>2. installed \in VersionsType /\ run \in Seq(RunType) /\ Len(run) = 0
    BY <1>1 DEF VersionsType
  <1> QED BY <1>1, <1>2 DEF UpdatesInv, UpdatesTypes, OnlyRunOnTrack

(* After the only update run there was, and unless a step of it was killed, the  *)
(* process leaves from a whole installation: for any tabs, ways of installation, *)
(* versions and whatever the registry says.                                      *)
THEOREM UpdateLeavesWhole == UpdatesInit /\ [][UpdatesNext]_updatesVars => ExitLeavesWhole
  <1>1. UpdatesInv => [proc # "down" /\ proc' = "down" /\ (\E r \in DOMAIN run : run[r].state \in {"leaving", "succeeded"})
                        => Whole(installed) \/ Len(run) > 1 \/ run[1].killed]_updatesVars
    <2> SUFFICES ASSUME UpdatesInv, NEW r \in DOMAIN run, run[r].state \in {"leaving", "succeeded"},
                        ~(Len(run) > 1), ~run[1].killed
                 PROVE  Whole(installed)
      OBVIOUS
    <2>1. Len(run) \in Nat /\ DOMAIN run = 1 .. Len(run)
      BY DEF UpdatesInv, UpdatesTypes
    <2>2. r \in 1 .. Len(run)
      BY <2>1
    <2>3. r = 1 /\ Len(run) = 1
      BY <2>1, <2>2
    <2> QED BY <2>3 DEF UpdatesInv, OnlyRunOnTrack
  <1> QED BY <1>1, UpdatesStart, UpdatesStep, PTL DEF ExitLeavesWhole

--------------------------------------------------------------------------------
(***************************************************************************)
(* CodexPage: for any targets, directories and users, however often users  *)
(* click, requests fail or something changes elsewhere, the page shows what *)
(* the server has when nothing is under way and nothing is in doubt, and no *)
(* way back is lost without the question that names it.                    *)
(*                                                                         *)
(* PageSettles speaks of a page at rest only.  The invariant says what each *)
(* change, and each answer of a load, will make of the page: a switch that *)
(* was served makes it agree once it is heard (SwitchAgrees), the parts of a *)
(* load that came agree with the server already (LoadAgrees), and without  *)
(* doubt there is one of them at a time (OneUnderWay).  The owner that was *)
(* shown is the owner as long as the version is the one noted (OwnersNoted); *)
(* an export follows a row that stays what it was (ExportTrue).            *)
(***************************************************************************)

CodexPageSpec == CodexPageInit /\ [][CodexPageNext]_codexPageVars

FileType == [owner : {"missing", "external", "ours"}, target : Targets \cup {Blank}]
PairType == [ts : Nat, dir : CodexDirs, was : FileType, preserved : BOOLEAN]
RowType == [user : {Me, "other", Blank}, target : Targets \cup {Blank}]

PageTypes ==
  /\ dirInUse \in CodexDirs /\ files \in [CodexDirs -> FileType] /\ pairs \subseteq PairType
  /\ entries \in Seq(RowType) /\ version \in Nat /\ doubt \in BOOLEAN /\ view.shown \in BOOLEAN
  /\ auth \in {"off", "on"}

\* The records the page keeps of what it shows and of what it has under way.
Shown == [shown |-> TRUE, owner |-> view.owner, pairs |-> view.pairs, override |-> view.override,
          version |-> view.version, current |-> view.current, thinking |-> view.thinking]
Change(kind, step, arg, question, at) ==
  [step |-> step, kind |-> kind, arg |-> arg, asked |-> question, version |-> at]

Shapes ==
  /\ view.shown => view = Shown
  /\ flows = [kind \in Kinds |-> flows[kind]]
  /\ \A kind \in Kinds :
       LET f == flows[kind]
       IN \/ f = Off
          \/ /\ f.step \in {"sent", "done", "failed"} /\ view.shown
             /\ f = Change(kind, f.step, f.arg, f.asked, f.version)
          \/ f.step = "loading" /\ f = [step |-> "loading", got |-> f.got]

\* A version that was noted tells the owner of auth.json as long as it is the version.
Notes(noted, owner) == noted \in Nat /\ noted <= version /\ (noted = version => owner = files[dirInUse].owner)

OwnersNoted ==
  /\ view.shown => Notes(view.version, view.owner)
  /\ \A kind \in Kinds :
       flows[kind].step = "loading" /\ "state" \in DOMAIN flows[kind].got
         => Notes(flows[kind].got["state"].version, flows[kind].got["state"].owner)

ChangesTrue ==
  /\ flows["apply"].step = "sent" =>
       /\ flows["apply"].arg \in Targets /\ flows["apply"].version \in Nat /\ flows["apply"].version <= version
       /\ ~flows["apply"].asked /\ flows["apply"].version = version => files[dirInUse].owner # "external"
  /\ flows["delete"].step = "sent" /\ flows["delete"].arg.preserved => flows["delete"].arg.ts \in warned

\* The page and what it shows while nothing is in doubt.
Agrees(shownThinking) ==
  /\ shownThinking = thinking /\ view.override = override /\ view.current = override
  /\ view.version = version => view.pairs = PairsIn(dirInUse)

OneUnderWay == ~doubt => \A j, k \in Kinds : ~Resting(j) /\ ~Resting(k) => j = k
BusyIsReal == busy # "none" => busy \in Kinds \ Settings /\ ~Resting(busy)

ViewAgrees ==
  ~doubt /\ view.shown /\ (\A kind \in Kinds : flows[kind].step \in {"off", "sent", "failed"})
    => Agrees(view.thinking)

SwitchAgrees ==
  ~doubt => \A kind \in Settings : flows[kind].step = "done" =>
    Agrees(IF flows[kind].arg THEN view.thinking \cup {kind} ELSE view.thinking \ {kind})

LoadAgrees ==
  ~doubt => \A kind \in Kinds : flows[kind].step = "loading" =>
    LET got == flows[kind].got
    IN /\ "targets" \in DOMAIN got => got["targets"] = override
       /\ "thinking" \in DOMAIN got => got["thinking"] = thinking
       /\ "state" \in DOMAIN got => /\ got["state"].override = override
                                    /\ got["state"].version = version => got["state"].pairs = PairsIn(dirInUse)

ExportTrue ==
  exporting.step \in {"following", "saved"} =>
    /\ exporting.row \in DOMAIN entries
    /\ entries[exporting.row] = [user |-> Me, target |-> exporting.last]

CodexPageInv ==
  /\ PageTypes /\ Shapes /\ OwnersNoted /\ ChangesTrue
  /\ OneUnderWay /\ BusyIsReal /\ ViewAgrees /\ SwitchAgrees /\ LoadAgrees /\ ExportTrue

--------------------------------------------------------------------------------
(* What the steps of a change do to what is under way.                     *)

LEMMA FlowSet ==
  ASSUME Shapes, NEW kind \in Kinds, NEW f, flows' = [flows EXCEPT ![kind] = f]
  PROVE  /\ flows'[kind] = f /\ \A other \in Kinds : other # kind => flows'[other] = flows[other]
         /\ flows' = [k \in Kinds |-> flows'[k]]
  <1>1. flows = [k \in Kinds |-> flows[k]]
    BY DEF Shapes
  <1>2. flows' = [k \in Kinds |-> IF k = kind THEN f ELSE flows[k]]
    BY <1>1
  <1> QED BY <1>2

LEMMA KindFacts ==
  /\ Settings \subseteq Kinds /\ "apply" \in Kinds \ Settings /\ "delete" \in Kinds \ Settings
  /\ "clear" \in Kinds \ Settings /\ "override" \in Kinds \ Settings /\ "restore" \in Kinds \ Settings
  BY DEF Kinds, Settings

\* The steps of a change keep these apart.
LEMMA StepFacts ==
  ASSUME CodexPageInv, NEW kind \in Kinds
  PROVE  /\ Resting(kind) <=> flows[kind].step = "off"
         /\ flows[kind].step \in {"off", "sent", "done", "failed", "loading"}
         /\ flows[kind].step \in {"sent", "done", "failed"} =>
              /\ view.shown
              /\ flows[kind] = Change(kind, flows[kind].step, flows[kind].arg, flows[kind].asked, flows[kind].version)
         /\ flows[kind].step = "loading" => flows[kind] = [step |-> "loading", got |-> flows[kind].got]
  <1>1. /\ Off.step = "off"
        /\ \/ flows[kind] = Off
           \/ /\ flows[kind].step \in {"sent", "done", "failed"} /\ view.shown
              /\ flows[kind] = Change(kind, flows[kind].step, flows[kind].arg, flows[kind].asked, flows[kind].version)
           \/ flows[kind].step = "loading" /\ flows[kind] = [step |-> "loading", got |-> flows[kind].got]
    BY DEF CodexPageInv, Shapes, Off
  <1> QED BY <1>1 DEF Resting

\* A change on its way, with the step set to another.
LEMMA StepSet ==
  ASSUME CodexPageInv, NEW kind \in Kinds, flows[kind].step \in {"sent", "done", "failed"},
         NEW step, flows' = [flows EXCEPT ![kind].step = step]
  PROVE  /\ flows'[kind] = Change(kind, step, flows[kind].arg, flows[kind].asked, flows[kind].version)
         /\ \A other \in Kinds : other # kind => flows'[other] = flows[other]
         /\ flows' = [k \in Kinds |-> flows'[k]]
  <1> DEFINE f == flows[kind]
             c == Change(kind, f.step, f.arg, f.asked, f.version)
             t == [f EXCEPT !.step = step]
  <1>1. f = c
    BY StepFacts
  <1>2. [c EXCEPT !.step = step] = Change(kind, step, f.arg, f.asked, f.version)
    <2> HIDE DEF f
    <2> QED BY DEF Change
  <1>3. t = Change(kind, step, f.arg, f.asked, f.version)
    <2> HIDE DEF f, c
    <2> QED BY <1>1, <1>2
  <1>4. flows' = [flows EXCEPT ![kind] = t]
    OBVIOUS
  <1> HIDE DEF t
  <1>5. Shapes
    BY DEF CodexPageInv
  <1> QED BY <1>3, <1>4, <1>5, FlowSet

\* A change is sent from a page that is shown.
LEMMA StepSend ==
  ASSUME CodexPageInv, NEW kind \in Kinds, NEW arg, NEW extra, Send(kind, arg, extra), view.shown,
         kind = "apply" => arg \in Targets /\ (~extra => view.owner # "external"),
         warned \subseteq warned', kind = "delete" /\ arg.preserved => arg.ts \in warned'
  PROVE  CodexPageInv'
  <1> DEFINE f == Change(kind, "sent", arg, extra, view.version)
  <1>1. /\ flows' = [flows EXCEPT ![kind] = f] /\ Resting(kind)
        /\ doubt' = (doubt \/ ~Calm) /\ UNCHANGED <<auth, serverVars, view, card, exporting, failures>>
        /\ busy' = IF kind \in Settings THEN busy ELSE kind
    BY DEF Send, Change
  <1>2. f.step = "sent" /\ f.arg = arg /\ f.version = view.version /\ f = Change(kind, f.step, f.arg, f.asked, f.version)
        /\ (f.asked <=> extra)
    BY DEF Change
  <1> HIDE DEF f
  <1>3. /\ flows'[kind] = f /\ \A other \in Kinds : other # kind => flows'[other] = flows[other]
        /\ flows' = [k \in Kinds |-> flows'[k]]
    BY <1>1, FlowSet DEF CodexPageInv
  <1>4. PageTypes'
    BY <1>1 DEF CodexPageInv, PageTypes, serverVars
  <1>5. Shapes'
    BY <1>1, <1>2, <1>3 DEF CodexPageInv, Shapes, Shown
  <1>6. OwnersNoted'
    BY <1>1, <1>2, <1>3 DEF CodexPageInv, OwnersNoted, Notes, serverVars
  <1>7. ChangesTrue'
    <2>1. ASSUME flows'["apply"].step = "sent"
          PROVE  /\ flows'["apply"].arg \in Targets /\ flows'["apply"].version \in Nat
                 /\ flows'["apply"].version <= version'
                 /\ ~flows'["apply"].asked /\ flows'["apply"].version = version' => files'[dirInUse'].owner # "external"
      <3>1. CASE kind = "apply"
        <4>1. view.version \in Nat /\ view.version <= version /\ (view.version = version => view.owner = files[dirInUse].owner)
          BY DEF CodexPageInv, OwnersNoted, Notes
        <4> QED BY <1>1, <1>2, <1>3, <3>1, <4>1 DEF serverVars
      <3>2. CASE kind # "apply"
        <4>1. flows'["apply"] = flows["apply"]
          BY <1>3, <3>2, KindFacts
        <4> QED BY <1>1, <2>1, <4>1 DEF CodexPageInv, ChangesTrue, serverVars
      <3> QED BY <3>1, <3>2
    <2>2. ASSUME flows'["delete"].step = "sent", flows'["delete"].arg.preserved
          PROVE  flows'["delete"].arg.ts \in warned'
      <3>1. CASE kind = "delete"
        BY <1>2, <1>3, <2>2, <3>1
      <3>2. CASE kind # "delete"
        <4>1. flows'["delete"] = flows["delete"]
          BY <1>3, <3>2, KindFacts
        <4> QED BY <2>2, <4>1 DEF CodexPageInv, ChangesTrue
      <3> QED BY <3>1, <3>2
    <2> QED BY <2>1, <2>2 DEF ChangesTrue
  <1>8. \A other \in Kinds : Resting(other)' <=> other # kind /\ Resting(other)
    BY <1>2, <1>3 DEF Resting, Off
  <1>9. ~doubt' => ~doubt /\ \A other \in Kinds : Resting(other)
    BY <1>1 DEF Calm
  <1>10. OneUnderWay'
    BY <1>8, <1>9 DEF OneUnderWay
  <1>11. BusyIsReal'
    BY <1>1, <1>8 DEF CodexPageInv, BusyIsReal
  <1>12. ~doubt' => Agrees(view.thinking)'
    <2>1. ASSUME ~doubt'
          PROVE  Agrees(view.thinking)
      <3>1. \A other \in Kinds : flows[other].step = "off"
        BY <1>9, <2>1, StepFacts
      <3> QED BY <1>9, <2>1, <3>1 DEF CodexPageInv, ViewAgrees
    <2>2. Agrees(view.thinking)' <=> Agrees(view.thinking)
      BY <1>1 DEF Agrees, serverVars, PairsIn
    <2> QED BY <2>1, <2>2
  <1>13. ViewAgrees'
    BY <1>12 DEF ViewAgrees
  <1>14. SwitchAgrees' /\ LoadAgrees'
    <2>1. ~doubt' => \A other \in Kinds : flows'[other].step \in {"off", "sent"}
      <3> SUFFICES ASSUME ~doubt', NEW other \in Kinds PROVE flows'[other].step \in {"off", "sent"}
        OBVIOUS
      <3> QED BY <1>2, <1>3, <1>9, StepFacts
    <2>2. Settings \subseteq Kinds
      BY KindFacts
    <2> QED BY <2>1, <2>2 DEF SwitchAgrees, LoadAgrees
  <1>15. ExportTrue'
    BY <1>1 DEF CodexPageInv, ExportTrue, serverVars
  <1> QED BY <1>4, <1>5, <1>6, <1>7, <1>10, <1>11, <1>13, <1>14, <1>15 DEF CodexPageInv

--------------------------------------------------------------------------------
(* The server, and the answers of a change.                                *)

\* The timeline only grows, so what was found in it stays there.
LEMMA RowsGrow ==
  ASSUME entries \in Seq(RowType), NEW row \in RowType, entries' \in {entries, Append(entries, row)}
  PROVE  /\ entries' \in Seq(RowType)
         /\ \A n \in DOMAIN entries : n \in DOMAIN entries' /\ entries'[n] = entries[n]
  <1> DEFINE R == RowType
  <1>1. entries \in Seq(R) /\ row \in R
    OBVIOUS
  <1> HIDE DEF R
  <1>2. CASE entries' = entries
    BY <1>1, <1>2 DEF R
  <1>3. CASE entries' = Append(entries, row)
    BY <1>1, <1>3 DEF R
  <1> QED BY <1>2, <1>3

\* A request that is served: what it may change, and that the version tells when
\* the owner of auth.json may have changed.
LEMMA ServedFacts ==
  ASSUME CodexPageInv, NEW kind \in Kinds, flows[kind].step = "sent", Served(flows[kind]), auth' = auth
  PROVE  /\ dirInUse' = dirInUse /\ files' \in [CodexDirs -> FileType] /\ pairs' \subseteq PairType
         /\ version' \in Nat /\ version <= version' /\ (version' = version => files' = files)
         /\ \E row \in RowType : entries' \in {entries, Append(entries, row)}
         /\ kind \in Settings =>
              /\ thinking' = IF flows[kind].arg THEN thinking \cup {kind} ELSE thinking \ {kind}
              /\ UNCHANGED <<dirInUse, files, pairs, override, entries, version>>
         /\ \A p \in pairs \ pairs' : kind = "delete" /\ p.ts = flows[kind].arg.ts /\ (p.preserved => flows[kind].arg.preserved)
  <1>1. flows[kind].kind = kind
    <2>1. flows[kind] = Change(kind, flows[kind].step, flows[kind].arg, flows[kind].asked, flows[kind].version)
      BY StepFacts
    <2> QED BY <2>1 DEF Change
  <1>2. /\ dirInUse \in CodexDirs /\ files \in [CodexDirs -> FileType] /\ pairs \subseteq PairType /\ version \in Nat
        /\ files[dirInUse] \in FileType
    BY DEF CodexPageInv, PageTypes
  <1>3. Mine \in {Me, Blank} /\ [user |-> Me, target |-> Blank] \in RowType
    BY DEF Mine, RowType
  <1>4. CASE kind = "apply"
    <2>1. ApplyServed(flows[kind].arg)
      BY <1>1, <1>4 DEF Served
    <2>2. flows[kind].arg \in Targets
      BY <1>4 DEF CodexPageInv, ChangesTrue
    <2> DEFINE arg == flows[kind].arg
    <2>3. /\ [user |-> Mine, target |-> arg] \in RowType
          /\ entries' = Append(entries, [user |-> Mine, target |-> arg]) /\ UNCHANGED <<dirInUse, override, thinking>>
      BY <1>3, <2>1, <2>2 DEF ApplyServed, RowType
    <2>4. kind \notin Settings
      BY <1>4 DEF Settings
    <2>5. CASE auth = "on"
      <3>1. UNCHANGED <<files, pairs, version>>
        BY <2>1, <2>5 DEF ApplyServed
      <3> QED BY <1>2, <2>3, <2>4, <3>1
    <2>6. CASE auth # "on"
      <3> DEFINE was == files[dirInUse]
                 kept == was.owner = "external"
                 new == [ts |-> version, dir |-> dirInUse, was |-> was, preserved |-> kept]
      <3>1. /\ pairs' = IF was.owner = "missing" THEN pairs ELSE pairs \cup {new}
            /\ files' = [files EXCEPT ![dirInUse] = [owner |-> "ours", target |-> arg]] /\ version' = version + 1
        BY <2>1, <2>6 DEF ApplyServed
      <3>2. new \in PairType
        <4>1. kept \in BOOLEAN
          OBVIOUS
        <4> HIDE DEF kept
        <4> QED BY <1>2, <4>1 DEF PairType
      <3>3. [owner |-> "ours", target |-> arg] \in FileType
        BY <2>2 DEF FileType
      <3> HIDE DEF new
      <3> QED BY <1>2, <2>3, <2>4, <3>1, <3>2, <3>3
    <2> QED BY <2>5, <2>6
  <1>5. CASE kind = "restore"
    <2>1. RestoreServed(flows[kind].arg.ts) /\ kind \notin Settings
      BY <1>1, <1>5 DEF Served, Settings
    <2>2. PICK p \in PairsIn(dirInUse) :
            /\ files' = [files EXCEPT ![dirInUse] = p.was]
            /\ entries' = Append(entries, [user |-> Mine, target |-> p.was.target])
            /\ version' = version + 1 /\ UNCHANGED <<dirInUse, pairs, override, thinking>>
      BY <2>1 DEF RestoreServed
    <2>3. p.was \in FileType
      BY <1>2 DEF PairsIn, PairType
    <2>4. [user |-> Mine, target |-> p.was.target] \in RowType
      BY <1>3, <2>3 DEF FileType, RowType
    <2> QED BY <1>2, <2>1, <2>2, <2>3, <2>4
  <1>6. CASE kind = "delete"
    <2>1. DeleteServed(flows[kind].arg.ts, flows[kind].arg.preserved) /\ kind \notin Settings
      BY <1>1, <1>6 DEF Served, Settings
    <2>2. PICK p \in PairsIn(dirInUse) :
            /\ p.ts = flows[kind].arg.ts /\ (p.preserved => flows[kind].arg.preserved)
            /\ pairs' = pairs \ {p} /\ UNCHANGED <<dirInUse, files, override, thinking, entries, version>>
      BY <2>1 DEF DeleteServed
    <2> QED BY <1>2, <1>3, <1>6, <2>1, <2>2
  <1>7. CASE kind \in {"override", "clear"}
    <2>1. kind \notin Settings /\ \E target \in {flows[kind].arg, Blank} : OverrideServed(target)
      BY <1>1, <1>7 DEF Served, Settings
    <2>2. UNCHANGED <<dirInUse, files, pairs, thinking, entries, version>>
      BY <2>1 DEF OverrideServed
    <2> QED BY <1>2, <1>3, <2>1, <2>2
  <1>8. CASE kind \notin {"apply", "restore", "delete", "override", "clear"}
    <2>1. SettingServed(kind, flows[kind].arg)
      BY <1>1, <1>8 DEF Served
    <2> QED BY <1>2, <1>3, <2>1 DEF SettingServed
  <1> QED BY <1>4, <1>5, <1>6, <1>7, <1>8

LEMMA StepFailedChange ==
  ASSUME CodexPageInv, NEW kind \in Kinds, flows[kind].step = "sent",
         flows' = [flows EXCEPT ![kind].step = "failed"],
         UNCHANGED serverVars, UNCHANGED <<auth, view, busy, notice, card, exporting, warned, doubt, touches>>
  PROVE  CodexPageInv'
  <1>1. /\ flows'[kind] = Change(kind, "failed", flows[kind].arg, flows[kind].asked, flows[kind].version)
        /\ \A other \in Kinds : other # kind => flows'[other] = flows[other]
        /\ flows' = [k \in Kinds |-> flows'[k]]
    BY StepSet
  <1>2. flows'[kind].step = "failed" /\ flows'[kind].arg = flows[kind].arg
        /\ flows'[kind] = Change(kind, flows'[kind].step, flows'[kind].arg, flows'[kind].asked, flows'[kind].version)
    BY <1>1 DEF Change
  <1>3. PageTypes' /\ ExportTrue'
    BY DEF CodexPageInv, PageTypes, ExportTrue, serverVars
  <1>4. Shapes'
    BY <1>1, <1>2, StepFacts DEF CodexPageInv, Shapes, Shown
  <1>5. OwnersNoted'
    BY <1>1, <1>2 DEF CodexPageInv, OwnersNoted, Notes, serverVars
  <1>6. ChangesTrue'
    <2>1. flows'["apply"].step = "sent" => flows'["apply"] = flows["apply"]
      BY <1>1, <1>2, KindFacts
    <2>2. flows'["delete"].step = "sent" => flows'["delete"] = flows["delete"]
      BY <1>1, <1>2, KindFacts
    <2> QED BY <2>1, <2>2 DEF CodexPageInv, ChangesTrue, serverVars
  <1>7. \A other \in Kinds : Resting(other)' <=> Resting(other)
    <2>1. ~Resting(kind) /\ ~Resting(kind)'
      BY <1>2, StepFacts DEF Resting, Off
    <2> QED BY <1>1, <2>1 DEF Resting
  <1>8. OneUnderWay' /\ BusyIsReal'
    BY <1>7 DEF CodexPageInv, OneUnderWay, BusyIsReal
  <1>9. /\ Agrees(view.thinking)' <=> Agrees(view.thinking)
        /\ \A t : Agrees(t)' <=> Agrees(t)
    BY DEF Agrees, serverVars, PairsIn
  <1>10. ViewAgrees'
    <2>1. ASSUME \A other \in Kinds : flows'[other].step \in {"off", "sent", "failed"}
          PROVE  \A other \in Kinds : flows[other].step \in {"off", "sent", "failed"}
      BY <1>1, <2>1
    <2> QED BY <1>9, <2>1 DEF CodexPageInv, ViewAgrees
  <1>11. SwitchAgrees'
    <2>1. \A other \in Settings : flows'[other].step = "done" => flows'[other] = flows[other]
      BY <1>1, <1>2, KindFacts
    <2> QED BY <1>9, <2>1 DEF CodexPageInv, SwitchAgrees, Agrees, serverVars, PairsIn
  <1>12. LoadAgrees'
    <2>1. \A other \in Kinds : flows'[other].step = "loading" => flows'[other] = flows[other]
      BY <1>1, <1>2
    <2> QED BY <2>1 DEF CodexPageInv, LoadAgrees, serverVars, PairsIn
  <1> QED BY <1>3, <1>4, <1>5, <1>6, <1>8, <1>10, <1>11, <1>12 DEF CodexPageInv

LEMMA StepDoneChange ==
  ASSUME CodexPageInv, NEW kind \in Kinds, flows[kind].step = "sent", Served(flows[kind]),
         flows' = [flows EXCEPT ![kind].step = "done"],
         UNCHANGED <<auth, view, busy, notice, card, exporting, warned, doubt, touches>>
  PROVE  CodexPageInv'
  <1>1. /\ flows'[kind] = Change(kind, "done", flows[kind].arg, flows[kind].asked, flows[kind].version)
        /\ \A other \in Kinds : other # kind => flows'[other] = flows[other]
        /\ flows' = [k \in Kinds |-> flows'[k]]
    BY StepSet
  <1>2. flows'[kind].step = "done" /\ flows'[kind].arg = flows[kind].arg
        /\ flows'[kind] = Change(kind, flows'[kind].step, flows'[kind].arg, flows'[kind].asked, flows'[kind].version)
    BY <1>1 DEF Change
  <1>3. /\ dirInUse' = dirInUse /\ files' \in [CodexDirs -> FileType] /\ pairs' \subseteq PairType
        /\ version' \in Nat /\ version <= version' /\ (version' = version => files' = files) /\ version \in Nat
        /\ kind \in Settings =>
             /\ thinking' = IF flows[kind].arg THEN thinking \cup {kind} ELSE thinking \ {kind}
             /\ UNCHANGED <<dirInUse, files, pairs, override, entries, version>>
    BY ServedFacts DEF CodexPageInv, PageTypes
  <1>4. /\ entries' \in Seq(RowType)
        /\ \A n \in DOMAIN entries : n \in DOMAIN entries' /\ entries'[n] = entries[n]
    <2>1. PICK row \in RowType : entries' \in {entries, Append(entries, row)}
      BY ServedFacts
    <2>2. entries \in Seq(RowType)
      BY DEF CodexPageInv, PageTypes
    <2> QED BY <2>1, <2>2, RowsGrow
  <1>5. PageTypes'
    BY <1>3, <1>4 DEF CodexPageInv, PageTypes
  <1>6. ExportTrue'
    BY <1>4 DEF CodexPageInv, ExportTrue
  <1>7. Shapes'
    BY <1>1, <1>2, StepFacts DEF CodexPageInv, Shapes, Shown
  <1>8. \A noted, owner : Notes(noted, owner) => Notes(noted, owner)'
    BY <1>3 DEF Notes
  <1>9. OwnersNoted'
    BY <1>1, <1>2, <1>8 DEF CodexPageInv, OwnersNoted
  <1>10. ChangesTrue'
    <2>1. flows'["apply"].step = "sent" => flows'["apply"] = flows["apply"]
      BY <1>1, <1>2, KindFacts
    <2>2. flows'["delete"].step = "sent" => flows'["delete"] = flows["delete"]
      BY <1>1, <1>2, KindFacts
    <2> QED BY <1>3, <2>1, <2>2 DEF CodexPageInv, ChangesTrue
  <1>11. \A other \in Kinds : Resting(other)' <=> Resting(other)
    <2>1. ~Resting(kind) /\ ~Resting(kind)'
      BY <1>2, StepFacts DEF Resting, Off
    <2> QED BY <1>1, <2>1 DEF Resting
  <1>12. OneUnderWay' /\ BusyIsReal'
    BY <1>11 DEF CodexPageInv, OneUnderWay, BusyIsReal
  <1>13. ViewAgrees'
    BY <1>2 DEF ViewAgrees
  <1>14. ~doubt => \A other \in Kinds : other # kind => flows'[other].step = "off"
    <2>1. ~Resting(kind)
      BY StepFacts
    <2> QED BY <1>1, <2>1, StepFacts DEF CodexPageInv, OneUnderWay
  <1>15. SwitchAgrees'
    <2> SUFFICES ASSUME ~doubt, NEW other \in Settings, flows'[other].step = "done"
                 PROVE  Agrees(IF flows[other].arg THEN view.thinking \cup {other} ELSE view.thinking \ {other})'
                        /\ flows'[other].arg = flows[other].arg
      BY DEF SwitchAgrees, Agrees
    <2>1. other = kind
      BY <1>14, KindFacts
    <2>2. Agrees(view.thinking)
      <3>1. \A k \in Kinds : flows[k].step \in {"off", "sent"}
        BY <1>1, <1>14
      <3> QED BY <3>1, StepFacts DEF CodexPageInv, ViewAgrees
    <2> QED BY <1>2, <1>3, <2>1, <2>2 DEF Agrees, PairsIn
  <1>16. LoadAgrees'
    <2>1. ~doubt => \A other \in Kinds : flows'[other].step # "loading"
      BY <1>2, <1>14
    <2> QED BY <2>1 DEF LoadAgrees
  <1> QED BY <1>5, <1>6, <1>7, <1>9, <1>10, <1>12, <1>13, <1>15, <1>16 DEF CodexPageInv

LEMMA StepHandle ==
  ASSUME CodexPageInv, NEW kind \in Kinds, Handle(kind) PROVE CodexPageInv'
  <1>1. /\ flows[kind].step = "sent"
        /\ UNCHANGED <<auth, view, busy, notice, card, exporting, warned, doubt, touches>>
        /\ \/ Served(flows[kind]) /\ flows' = [flows EXCEPT ![kind].step = "done"]
           \/ flows' = [flows EXCEPT ![kind].step = "failed"] /\ UNCHANGED serverVars
    BY DEF Handle
  <1> QED BY <1>1, StepFailedChange, StepDoneChange

--------------------------------------------------------------------------------
(* The page hears how a change went, and loads.                            *)

\* A flow that ends: what is known of the others, of the server and of the page.
LEMMA EndedFlow ==
  ASSUME CodexPageInv, NEW kind \in Kinds, ~Resting(kind), flows' = [flows EXCEPT ![kind] = Off],
         UNCHANGED serverVars, UNCHANGED <<auth, exporting, warned>>,
         doubt' \in BOOLEAN, doubt => doubt', busy' = "none" \/ (busy' = busy /\ busy # kind),
         view'.shown => /\ view' = Shown' /\ Notes(view.version, view.owner)'
                        /\ ~doubt' => Agrees(view.thinking)',
         view'.shown \in BOOLEAN, view.shown => view'.shown
  PROVE  CodexPageInv'
  <1>1. /\ flows'[kind] = Off /\ \A other \in Kinds : other # kind => flows'[other] = flows[other]
        /\ flows' = [k \in Kinds |-> flows'[k]] /\ flows'[kind].step = "off"
    BY FlowSet DEF CodexPageInv, Off
  <1>2. PageTypes' /\ ExportTrue'
    BY DEF CodexPageInv, PageTypes, ExportTrue, serverVars
  <1>3. Shapes'
    BY <1>1 DEF CodexPageInv, Shapes
  <1>4. OwnersNoted'
    BY <1>1 DEF CodexPageInv, OwnersNoted, Notes, serverVars
  <1>5. ChangesTrue'
    <2>1. flows'["apply"].step = "sent" => flows'["apply"] = flows["apply"]
      BY <1>1, KindFacts
    <2>2. flows'["delete"].step = "sent" => flows'["delete"] = flows["delete"]
      BY <1>1, KindFacts
    <2> QED BY <2>1, <2>2 DEF CodexPageInv, ChangesTrue, serverVars
  <1>6. OneUnderWay' /\ BusyIsReal'
    BY <1>1 DEF CodexPageInv, OneUnderWay, BusyIsReal, Resting
  <1>7. ViewAgrees'
    BY DEF ViewAgrees
  <1>8. SwitchAgrees'
    <2>1. ASSUME ~doubt', NEW other \in Settings, flows'[other].step = "done"
          PROVE  FALSE
      <3>1. other \in Kinds /\ other # kind /\ flows[other].step = "done" /\ ~Resting(other) /\ ~doubt
        BY <1>1, <2>1, KindFacts, StepFacts
      <3> QED BY <3>1 DEF CodexPageInv, OneUnderWay
    <2> QED BY <2>1 DEF SwitchAgrees
  <1>9. LoadAgrees'
    BY <1>1 DEF CodexPageInv, LoadAgrees, serverVars, PairsIn
  <1> QED BY <1>2, <1>3, <1>4, <1>5, <1>6, <1>7, <1>8, <1>9 DEF CodexPageInv

LEMMA StepHearFailed ==
  ASSUME CodexPageInv, NEW kind \in Kinds, HearFailed(kind) PROVE CodexPageInv'
  <1>1. /\ flows[kind].step = "failed" /\ flows' = [flows EXCEPT ![kind] = Off]
        /\ UNCHANGED serverVars /\ UNCHANGED <<auth, view, exporting, warned, doubt>>
        /\ busy' = IF kind \in Settings THEN busy ELSE "none"
    BY DEF HearFailed
  <1>2. ~Resting(kind) /\ view.shown
    BY <1>1, StepFacts
  <1>3. busy' = "none" \/ (busy' = busy /\ busy # kind)
    BY <1>1 DEF CodexPageInv, BusyIsReal
  <1>4. view = Shown /\ Notes(view.version, view.owner) /\ doubt \in BOOLEAN /\ view.shown \in BOOLEAN
    BY <1>2 DEF CodexPageInv, Shapes, OwnersNoted, PageTypes
  <1>5. view' = Shown' /\ Notes(view.version, view.owner)'
    BY <1>1, <1>4 DEF Notes, serverVars, Shown
  <1>6. ~doubt => Agrees(view.thinking)
    <2>1. ~doubt => \A other \in Kinds : flows[other].step \in {"off", "failed"}
      BY <1>1, <1>2, StepFacts DEF CodexPageInv, OneUnderWay
    <2> QED BY <1>2, <2>1 DEF CodexPageInv, ViewAgrees
  <1>7. ~doubt' => Agrees(view.thinking)'
    BY <1>1, <1>6 DEF Agrees, serverVars, PairsIn
  <1> QED BY <1>1, <1>2, <1>3, <1>4, <1>5, <1>7, EndedFlow

\* What is shown, with one of its parts set to something else.
LEMMA ThinkingSet ==
  ASSUME NEW v, NEW o, NEW p, NEW r, NEW n, NEW c, NEW t, NEW u, NEW s,
         v = [shown |-> s, owner |-> o, pairs |-> p, override |-> r, version |-> n, current |-> c, thinking |-> t]
  PROVE  [v EXCEPT !.thinking = u] =
           [shown |-> s, owner |-> o, pairs |-> p, override |-> r, version |-> n, current |-> c, thinking |-> u]
  OBVIOUS

LEMMA StepHeardSwitch ==
  ASSUME CodexPageInv, NEW kind \in Settings, HearDone(kind) PROVE CodexPageInv'
  <1> DEFINE set == IF flows[kind].arg THEN view.thinking \cup {kind} ELSE view.thinking \ {kind}
  <1>1. /\ flows[kind].step = "done" /\ flows' = [flows EXCEPT ![kind] = Off]
        /\ UNCHANGED serverVars /\ UNCHANGED <<auth, busy, exporting, warned>>
        /\ view' = [view EXCEPT !.thinking = set] /\ doubt' = (doubt /\ (kind \in Settings \/ \E other \in Kinds \ {kind} : ~Resting(other)))
    BY DEF HearDone
  <1>2. kind \in Kinds /\ ~Resting(kind) /\ view.shown
    BY <1>1, StepFacts, KindFacts
  <1>3. doubt' = doubt /\ doubt \in BOOLEAN
    BY <1>1 DEF CodexPageInv, PageTypes
  <1>8. busy' = busy /\ busy # kind
    <2>1. kind # "none"
      BY DEF Settings
    <2> QED BY <1>1, <2>1 DEF CodexPageInv, BusyIsReal
  <1>4. ~doubt => Agrees(set)
    BY <1>1 DEF CodexPageInv, SwitchAgrees
  <1> HIDE DEF set
  <1>5. /\ view' = Shown' /\ view'.shown /\ view'.thinking = set /\ view'.override = view.override
        /\ view'.current = view.current /\ view'.version = view.version /\ view'.pairs = view.pairs
        /\ view'.owner = view.owner
    <2>1. view = Shown
      BY <1>2 DEF CodexPageInv, Shapes
    <2>2. view' = [shown |-> TRUE, owner |-> view.owner, pairs |-> view.pairs, override |-> view.override,
                   version |-> view.version, current |-> view.current, thinking |-> set]
      <3> DEFINE s == TRUE
                 o == view.owner
                 p == view.pairs
                 r == view.override
                 n == view.version
                 c == view.current
                 t == view.thinking
      <3>1. view = [shown |-> s, owner |-> o, pairs |-> p, override |-> r, version |-> n, current |-> c, thinking |-> t]
        BY <2>1 DEF Shown
      <3> HIDE DEF s, o, p, r, n, c, t
      <3>2. [view EXCEPT !.thinking = set] =
              [shown |-> s, owner |-> o, pairs |-> p, override |-> r, version |-> n, current |-> c, thinking |-> set]
        BY <3>1, ThinkingSet
      <3> QED BY <1>1, <3>2 DEF s, o, p, r, n, c, t
    <2> QED BY <2>2 DEF Shown
  <1>6. Notes(view.version, view.owner)'
    BY <1>1, <1>2, <1>5 DEF CodexPageInv, OwnersNoted, Notes, serverVars
  <1>7. ~doubt' => Agrees(view.thinking)'
    BY <1>1, <1>3, <1>4, <1>5 DEF Agrees, serverVars, PairsIn
  <1> QED BY <1>1, <1>2, <1>3, <1>5, <1>6, <1>7, <1>8, EndedFlow

\* The page loads after a change: from then on nothing is in doubt, unless
\* another change is under way.
LEMMA StepHeardOther ==
  ASSUME CodexPageInv, NEW kind \in Kinds \ Settings, HearDone(kind) PROVE CodexPageInv'
  <1>1. /\ flows[kind].step = "done" /\ flows' = [flows EXCEPT ![kind] = Loading]
        /\ UNCHANGED serverVars /\ UNCHANGED <<auth, busy, exporting, warned, view>>
        /\ doubt' = (doubt /\ (kind \in Settings \/ \E other \in Kinds \ {kind} : ~Resting(other)))
    BY DEF HearDone
  <1>2. Loading = [step |-> "loading", got |-> Loading.got] /\ DOMAIN Loading.got = {} /\ Loading.step = "loading"
    BY DEF Loading
  <1> HIDE DEF Loading
  <1>3. /\ flows'[kind] = Loading /\ \A other \in Kinds : other # kind => flows'[other] = flows[other]
        /\ flows' = [k \in Kinds |-> flows'[k]]
    BY <1>1, FlowSet DEF CodexPageInv
  <1>4. ~Resting(kind) /\ ~Resting(kind)' /\ \A other \in Kinds : Resting(other)' <=> Resting(other)
    <2>1. ~Resting(kind) /\ ~Resting(kind)'
      BY <1>1, <1>2, <1>3, StepFacts DEF Resting, Off
    <2> QED BY <1>3, <2>1 DEF Resting
  <1>5. doubt' \in BOOLEAN /\ (~doubt' => \A other \in Kinds : other # kind => Resting(other))
    BY <1>1, <1>4 DEF CodexPageInv, PageTypes, OneUnderWay
  <1>6. PageTypes' /\ ExportTrue'
    BY <1>1, <1>5 DEF CodexPageInv, PageTypes, ExportTrue, serverVars
  <1>7. Shapes'
    BY <1>1, <1>2, <1>3 DEF CodexPageInv, Shapes, Shown
  <1>8. OwnersNoted'
    BY <1>1, <1>2, <1>3 DEF CodexPageInv, OwnersNoted, Notes, serverVars
  <1>9. ChangesTrue'
    <2>1. flows'["apply"].step = "sent" => flows'["apply"] = flows["apply"]
      BY <1>2, <1>3, KindFacts
    <2>2. flows'["delete"].step = "sent" => flows'["delete"] = flows["delete"]
      BY <1>2, <1>3, KindFacts
    <2> QED BY <1>1, <2>1, <2>2 DEF CodexPageInv, ChangesTrue, serverVars
  <1>10. OneUnderWay' /\ BusyIsReal'
    BY <1>1, <1>4, <1>5 DEF CodexPageInv, OneUnderWay, BusyIsReal
  <1>11. ViewAgrees'
    BY <1>2, <1>3 DEF ViewAgrees
  <1>12. ~doubt' => \A other \in Kinds : other # kind => flows'[other].step = "off"
    BY <1>3, <1>5, StepFacts
  <1>13. SwitchAgrees'
    BY <1>12, KindFacts DEF SwitchAgrees
  <1>14. LoadAgrees'
    BY <1>2, <1>3, <1>12 DEF LoadAgrees
  <1> QED BY <1>6, <1>7, <1>8, <1>9, <1>10, <1>11, <1>13, <1>14 DEF CodexPageInv

\* An answer is kept until the others have come.
LEMMA StepServe ==
  ASSUME CodexPageInv, NEW kind \in Kinds, NEW part \in Parts, Serve(kind, part) PROVE CodexPageInv'
  <1> DEFINE got == flows[kind].got
             more == [p \in DOMAIN got \cup {part} |-> IF p = part THEN Answer(part) ELSE got[p]]
             f == [step |-> "loading", got |-> more]
  <1>1. /\ flows[kind].step = "loading" /\ part \notin DOMAIN got
        /\ UNCHANGED serverVars /\ UNCHANGED <<auth, view, busy, exporting, warned, doubt>>
        /\ flows' = [flows EXCEPT ![kind] = [flows[kind] EXCEPT !.got = more]]
    BY DEF Serve
  <1>2. flows[kind] = [step |-> "loading", got |-> got]
    BY <1>1, StepFacts
  <1>3. [flows[kind] EXCEPT !.got = more] = f
    <2>1. [[step |-> "loading", got |-> got] EXCEPT !.got = more] = f
      <3> HIDE DEF got, more
      <3> QED OBVIOUS
    <2> HIDE DEF f, more, got
    <2> QED BY <1>2, <2>1
  <1>4. /\ flows'[kind] = f /\ \A other \in Kinds : other # kind => flows'[other] = flows[other]
        /\ flows' = [k \in Kinds |-> flows'[k]]
    <2> HIDE DEF f
    <2>1. flows' = [flows EXCEPT ![kind] = f]
      BY <1>1, <1>3
    <2> QED BY <2>1, FlowSet DEF CodexPageInv
  <1>5. /\ f = [step |-> "loading", got |-> f.got] /\ f.step = "loading" /\ f.got = more
        /\ DOMAIN more = DOMAIN got \cup {part} /\ more[part] = Answer(part)
        /\ \A p \in DOMAIN got : more[p] = got[p]
    BY <1>1
  <1> HIDE DEF f, more
  <1>6. ~Resting(kind) /\ ~Resting(kind)' /\ \A other \in Kinds : Resting(other)' <=> Resting(other)
    <2>1. ~Resting(kind) /\ ~Resting(kind)'
      BY <1>1, <1>4, <1>5, StepFacts DEF Resting, Off
    <2> QED BY <1>4, <2>1 DEF Resting
  <1>7. PageTypes' /\ ExportTrue'
    BY <1>1 DEF CodexPageInv, PageTypes, ExportTrue, serverVars
  <1>8. Shapes'
    BY <1>1, <1>4, <1>5 DEF CodexPageInv, Shapes, Shown
  <1>9. /\ Answer("state").owner = files[dirInUse].owner /\ Answer("state").version = version
        /\ Answer("state").pairs = PairsIn(dirInUse) /\ Answer("state").override = override
        /\ Answer("targets") = override /\ Answer("thinking") = thinking
    BY DEF Answer
  <1>10. \A noted, owner : Notes(noted, owner)' <=> Notes(noted, owner)
    BY <1>1 DEF Notes, serverVars
  <1>11. OwnersNoted'
    <2>1. view'.shown => Notes(view.version, view.owner)'
      BY <1>1, <1>10 DEF CodexPageInv, OwnersNoted
    <2>2. ASSUME "state" \in DOMAIN more
          PROVE  Notes(more["state"].version, more["state"].owner)
      <3>1. CASE part = "state"
        BY <1>5, <1>9, <3>1 DEF CodexPageInv, PageTypes, Notes
      <3>2. CASE part # "state"
        BY <1>1, <1>5, <2>2, <3>2 DEF CodexPageInv, OwnersNoted
      <3> QED BY <3>1, <3>2
    <2>3. \A k \in Kinds : flows'[k].step = "loading" /\ "state" \in DOMAIN flows'[k].got
                              => Notes(flows'[k].got["state"].version, flows'[k].got["state"].owner)
      BY <1>4, <1>5, <2>2 DEF CodexPageInv, OwnersNoted
    <2> QED BY <1>1, <1>10, <2>1, <2>3 DEF OwnersNoted, Notes, serverVars
  <1>12. ChangesTrue'
    <2>1. flows'["apply"].step = "sent" => flows'["apply"] = flows["apply"]
      BY <1>4, <1>5, KindFacts
    <2>2. flows'["delete"].step = "sent" => flows'["delete"] = flows["delete"]
      BY <1>4, <1>5, KindFacts
    <2> QED BY <1>1, <2>1, <2>2 DEF CodexPageInv, ChangesTrue, serverVars
  <1>13. OneUnderWay' /\ BusyIsReal'
    BY <1>1, <1>6 DEF CodexPageInv, OneUnderWay, BusyIsReal
  <1>14. ViewAgrees'
    BY <1>4, <1>5 DEF ViewAgrees
  <1>15. SwitchAgrees'
    <2>1. \A other \in Settings : flows'[other].step = "done" => flows'[other] = flows[other]
      BY <1>4, <1>5, KindFacts
    <2> QED BY <1>1, <2>1 DEF CodexPageInv, SwitchAgrees, Agrees, serverVars, PairsIn
  <1>16. LoadAgrees'
    <2>1. ASSUME ~doubt
          PROVE  /\ "targets" \in DOMAIN more => more["targets"] = override
                 /\ "thinking" \in DOMAIN more => more["thinking"] = thinking
                 /\ "state" \in DOMAIN more => /\ more["state"].override = override
                                               /\ more["state"].version = version
                                                    => more["state"].pairs = PairsIn(dirInUse)
      <3>1. /\ "targets" \in DOMAIN got => got["targets"] = override
            /\ "thinking" \in DOMAIN got => got["thinking"] = thinking
            /\ "state" \in DOMAIN got => /\ got["state"].override = override
                                         /\ got["state"].version = version
                                              => got["state"].pairs = PairsIn(dirInUse)
        BY <1>1, <2>1 DEF CodexPageInv, LoadAgrees
      <3> HIDE DEF got
      <3>2. "targets" \in DOMAIN more => more["targets"] = override
        BY <1>5, <1>9, <3>1
      <3>3. "thinking" \in DOMAIN more => more["thinking"] = thinking
        BY <1>5, <1>9, <3>1
      <3>4. ASSUME "state" \in DOMAIN more
            PROVE  more["state"].override = override
                   /\ (more["state"].version = version => more["state"].pairs = PairsIn(dirInUse))
        <4>1. CASE part = "state"
          BY <1>5, <1>9, <4>1
        <4>2. CASE part # "state"
          <5>1. "state" \in DOMAIN got
            BY <1>5, <3>4, <4>2
          <5>2. more["state"] = got["state"]
            BY <1>5, <5>1
          <5> QED BY <3>1, <5>1, <5>2
        <4> QED BY <4>1, <4>2
      <3> QED BY <3>2, <3>3, <3>4
    <2>2. UNCHANGED <<override, thinking, version, doubt>> /\ PairsIn(dirInUse)' = PairsIn(dirInUse)
      BY <1>1 DEF serverVars, PairsIn
    <2>3. \A other \in Kinds : other # kind => flows'[other] = flows[other]
      BY <1>4
    <2>4. flows'[kind].got = more
      BY <1>4, <1>5
    <2> SUFFICES ASSUME ~doubt, NEW k \in Kinds, flows'[k].step = "loading"
                 PROVE  /\ "targets" \in DOMAIN flows'[k].got => flows'[k].got["targets"] = override'
                        /\ "thinking" \in DOMAIN flows'[k].got => flows'[k].got["thinking"] = thinking'
                        /\ "state" \in DOMAIN flows'[k].got =>
                             /\ flows'[k].got["state"].override = override'
                             /\ flows'[k].got["state"].version = version'
                                  => flows'[k].got["state"].pairs = PairsIn(dirInUse)'
      BY <2>2 DEF LoadAgrees
    <2>5. CASE k = kind
      BY <2>1, <2>2, <2>4, <2>5
    <2>6. CASE k # kind
      <3>1. flows'[k] = flows[k]
        BY <2>3, <2>6
      <3> QED BY <2>2, <3>1 DEF CodexPageInv, LoadAgrees
    <2> QED BY <2>5, <2>6
  <1> QED BY <1>7, <1>8, <1>11, <1>12, <1>13, <1>14, <1>15, <1>16 DEF CodexPageInv

\* Whoever waited for a load is through, and the page shows what came.
LEMMA StepFinishLoad ==
  ASSUME CodexPageInv, NEW kind \in Kinds, FinishLoad(kind) PROVE CodexPageInv'
  <1> DEFINE got == flows[kind].got
  <1>1. /\ flows[kind].step = "loading" /\ DOMAIN got = Parts /\ view' = ViewOf(got)
        /\ flows' = [flows EXCEPT ![kind] = Off] /\ busy' = "none"
        /\ UNCHANGED serverVars /\ UNCHANGED <<auth, exporting, warned, doubt>>
    BY DEF FinishLoad
  <1>2. ~Resting(kind) /\ doubt \in BOOLEAN
    BY <1>1, StepFacts DEF CodexPageInv, PageTypes
  <1>3. "state" \in Parts /\ "targets" \in Parts /\ "thinking" \in Parts
    BY DEF Parts
  <1>4. Notes(got["state"].version, got["state"].owner)
    BY <1>1, <1>3 DEF CodexPageInv, OwnersNoted
  <1>5. ~doubt => /\ got["targets"] = override /\ got["thinking"] = thinking /\ got["state"].override = override
                  /\ got["state"].version = version => got["state"].pairs = PairsIn(dirInUse)
    BY <1>1, <1>3 DEF CodexPageInv, LoadAgrees
  <1> HIDE DEF got
  <1>6. /\ view'.shown /\ view'.version = got["state"].version /\ view'.owner = got["state"].owner
        /\ view'.pairs = got["state"].pairs /\ view'.override = got["state"].override
        /\ view'.current = got["targets"] /\ view'.thinking = got["thinking"] /\ view' = Shown'
    BY <1>1 DEF ViewOf, Shown
  <1>7. Notes(view.version, view.owner)'
    BY <1>1, <1>4, <1>6 DEF Notes, serverVars
  <1>8. ~doubt' => Agrees(view.thinking)'
    <2>1. UNCHANGED <<override, thinking, version, doubt>> /\ PairsIn(dirInUse)' = PairsIn(dirInUse)
      BY <1>1 DEF serverVars, PairsIn
    <2> QED BY <1>5, <1>6, <2>1 DEF Agrees
  <1>9. doubt' \in BOOLEAN /\ (doubt => doubt') /\ view'.shown \in BOOLEAN /\ (view.shown => view'.shown)
    BY <1>1, <1>2, <1>6 DEF ViewOf
  <1> QED BY <1>1, <1>2, <1>6, <1>7, <1>8, <1>9, EndedFlow

LEMMA StepFailLoad ==
  ASSUME CodexPageInv, NEW kind \in Kinds, FailLoad(kind) PROVE CodexPageInv'
  <1>1. /\ flows[kind].step = "loading" /\ flows' = [flows EXCEPT ![kind] = Off] /\ busy' = "none" /\ doubt' = TRUE
        /\ UNCHANGED serverVars /\ UNCHANGED <<auth, view, exporting, warned>>
    BY DEF FailLoad
  <1>2. ~Resting(kind) /\ view.shown \in BOOLEAN
    BY <1>1, StepFacts DEF CodexPageInv, PageTypes
  <1>3. view.shown => view = Shown /\ Notes(view.version, view.owner)
    BY DEF CodexPageInv, Shapes, OwnersNoted
  <1>4. view'.shown => view' = Shown' /\ Notes(view.version, view.owner)'
    BY <1>1, <1>3 DEF Notes, serverVars, Shown
  <1> QED BY <1>1, <1>2, <1>4, EndedFlow

LEMMA StepHearDone ==
  ASSUME CodexPageInv, NEW kind \in Kinds, HearDone(kind) PROVE CodexPageInv'
  BY StepHeardSwitch, StepHeardOther

--------------------------------------------------------------------------------
(* The clicks.                                                             *)

LEMMA StepClickOn ==
  ASSUME CodexPageInv,
         \/ \E t \in Targets : ClickApply(t) \/ ClickOverride(t)
         \/ view.shown /\ \E p \in view.pairs : ClickRestore(p) \/ ClickDelete(p)
         \/ ClickClear
         \/ \E name \in Settings : ClickSwitch(name)
  PROVE  CodexPageInv'
  <1>1. ASSUME NEW t \in Targets, ClickApply(t) PROVE CodexPageInv'
    <2>1. Send("apply", t, view.owner = "external") /\ view.shown /\ warned' = warned
      BY <1>1 DEF ClickApply
    <2> DEFINE extra == view.owner = "external"
    <2>2. ~extra => view.owner # "external"
      OBVIOUS
    <2>3. Send("apply", t, extra)
      BY <2>1
    <2> HIDE DEF extra
    <2> QED BY <2>1, <2>2, <2>3, KindFacts, StepSend
  <1>2. ASSUME NEW t \in Targets, ClickOverride(t) PROVE CodexPageInv'
    <2>1. Send("override", t, FALSE) /\ view.shown /\ warned' = warned
      BY <1>2 DEF ClickOverride
    <2> QED BY <2>1, KindFacts, StepSend
  <1>3. ASSUME NEW p, ClickRestore(p) PROVE CodexPageInv'
    <2>1. Send("restore", p, TRUE) /\ view.shown /\ warned' = warned
      BY <1>3 DEF ClickRestore
    <2> QED BY <2>1, KindFacts, StepSend
  <1>4. ASSUME NEW p, ClickDelete(p) PROVE CodexPageInv'
    <2>1. Send("delete", p, TRUE) /\ view.shown /\ warned' = IF p.preserved THEN warned \cup {p.ts} ELSE warned
      BY <1>4 DEF ClickDelete
    <2>2. warned \subseteq warned' /\ (p.preserved => p.ts \in warned')
      BY <2>1
    <2> QED BY <2>1, <2>2, KindFacts, StepSend
  <1>5. ASSUME ClickClear PROVE CodexPageInv'
    <2>1. Send("clear", Blank, FALSE) /\ view.shown /\ warned' = warned
      BY <1>5 DEF ClickClear
    <2> QED BY <2>1, KindFacts, StepSend
  <1>6. ASSUME NEW name \in Settings, ClickSwitch(name) PROVE CodexPageInv'
    <2>1. Send(name, name \notin view.thinking, FALSE) /\ view.shown /\ warned' = warned /\ name \notin {"apply", "delete"}
      BY <1>6 DEF ClickSwitch, Settings
    <2> QED BY <2>1, KindFacts, StepSend
  <1> QED BY <1>1, <1>2, <1>3, <1>4, <1>5, <1>6

--------------------------------------------------------------------------------
(* The card, and what others do.                                           *)

\* A step beside the page: what the page relies on is that the version tells when
\* the owner of auth.json or the pairs may be others.
LEMMA StepBeside ==
  ASSUME CodexPageInv, UNCHANGED <<view, flows, busy, warned, thinking>>, PageTypes', ExportTrue', version <= version',
         version' = version => UNCHANGED <<dirInUse, files, pairs>>,
         doubt => doubt', ~doubt' => override' = override
  PROVE  CodexPageInv'
  <1>1. version \in Nat /\ version' \in Nat
    BY DEF CodexPageInv, PageTypes
  <1>2. Shapes'
    BY DEF CodexPageInv, Shapes, Shown
  <1>3. \A noted, owner : Notes(noted, owner) => Notes(noted, owner)'
    BY <1>1 DEF Notes
  <1>4. OwnersNoted'
    BY <1>3 DEF CodexPageInv, OwnersNoted
  <1>5. ChangesTrue'
    BY <1>1 DEF CodexPageInv, ChangesTrue
  <1>6. OneUnderWay' /\ BusyIsReal'
    BY DEF CodexPageInv, OneUnderWay, BusyIsReal, Resting
  <1>7. \A noted : noted \in Nat /\ noted <= version /\ noted = version'
                     => noted = version /\ PairsIn(dirInUse)' = PairsIn(dirInUse)
    BY <1>1 DEF PairsIn
  <1>8. ASSUME ~doubt', view.shown
        PROVE  \A t : Agrees(t) => Agrees(t)'
    <2>1. view.version \in Nat /\ view.version <= version
      BY <1>8 DEF CodexPageInv, OwnersNoted, Notes
    <2> QED BY <1>7, <1>8, <2>1 DEF Agrees
  <1>9. ViewAgrees'
    BY <1>8 DEF CodexPageInv, ViewAgrees
  <1>10. SwitchAgrees'
    <2>1. \A kind \in Settings : flows[kind].step = "done" => view.shown
      BY StepFacts, KindFacts
    <2>2. ASSUME ~doubt', NEW kind \in Settings, flows[kind].step = "done"
          PROVE  Agrees(IF flows[kind].arg THEN view.thinking \cup {kind} ELSE view.thinking \ {kind})'
      <3> DEFINE set == IF flows[kind].arg THEN view.thinking \cup {kind} ELSE view.thinking \ {kind}
      <3>1. Agrees(set) /\ view.shown
        BY <2>1, <2>2 DEF CodexPageInv, SwitchAgrees
      <3>2. set' = set
        OBVIOUS
      <3> HIDE DEF set
      <3>3. Agrees(set)'
        BY <1>8, <2>2, <3>1, <3>2 DEF Agrees
      <3> QED BY <3>3 DEF set
    <2> QED BY <2>2 DEF SwitchAgrees
  <1>11. LoadAgrees'
    <2>0. UNCHANGED flows
      OBVIOUS
    <2> SUFFICES ASSUME ~doubt', NEW kind \in Kinds, flows[kind].step = "loading"
                 PROVE  /\ "targets" \in DOMAIN flows[kind].got => flows[kind].got["targets"] = override'
                        /\ "thinking" \in DOMAIN flows[kind].got => flows[kind].got["thinking"] = thinking'
                        /\ "state" \in DOMAIN flows[kind].got =>
                             /\ flows[kind].got["state"].override = override'
                             /\ flows[kind].got["state"].version = version'
                                  => flows[kind].got["state"].pairs = PairsIn(dirInUse)'
      BY <2>0 DEF LoadAgrees
    <2> DEFINE got == flows[kind].got
    <2>1. "state" \in DOMAIN got => got["state"].version \in Nat /\ got["state"].version <= version
      BY DEF CodexPageInv, OwnersNoted, Notes
    <2>2. /\ "targets" \in DOMAIN got => got["targets"] = override
          /\ "thinking" \in DOMAIN got => got["thinking"] = thinking
          /\ "state" \in DOMAIN got => /\ got["state"].override = override
                                       /\ got["state"].version = version
                                            => got["state"].pairs = PairsIn(dirInUse)
      BY DEF CodexPageInv, LoadAgrees
    <2> HIDE DEF got
    <2>3. /\ "targets" \in DOMAIN got => got["targets"] = override'
          /\ "thinking" \in DOMAIN got => got["thinking"] = thinking'
          /\ "state" \in DOMAIN got => /\ got["state"].override = override'
                                       /\ got["state"].version = version'
                                            => got["state"].pairs = PairsIn(dirInUse)'
      BY <1>7, <2>1, <2>2
    <2> QED BY <2>3 DEF got
  <1> QED BY <1>2, <1>4, <1>5, <1>6, <1>9, <1>10, <1>11 DEF CodexPageInv

LEMMA StepPoll == ASSUME CodexPageInv, Poll PROVE CodexPageInv'
  <1>1. UNCHANGED serverVars /\ UNCHANGED <<auth, view, flows, busy, exporting, warned, doubt>>
    BY DEF Poll
  <1>2. PageTypes' /\ ExportTrue' /\ version <= version'
    BY <1>1 DEF CodexPageInv, PageTypes, ExportTrue, serverVars
  <1> QED BY <1>1, <1>2, StepBeside DEF serverVars

LEMMA StepSetCodexDir == ASSUME CodexPageInv, NEW dir \in CodexDirs, SetCodexDir(dir) PROVE CodexPageInv'
  <1>1. /\ dirInUse' = dir /\ version' = version + 1 /\ version \in Nat
        /\ UNCHANGED <<auth, files, pairs, override, thinking, entries, view, flows, busy, exporting, warned, doubt>>
    BY DEF SetCodexDir, DirServed, CodexPageInv, PageTypes
  <1>2. PageTypes' /\ ExportTrue'
    BY <1>1 DEF CodexPageInv, PageTypes, ExportTrue
  <1> QED BY <1>1, <1>2, StepBeside

\* The newest of some rows.
LEMMA NewestIs ==
  ASSUME NEW N \in Nat, NEW rows \in SUBSET (1 .. N), rows # {}
  PROVE  NewestOf(rows) \in rows
  <1> DEFINE away == {N - n : n \in rows}
             R == OpToRel(<, Nat)
  <1>1. away \subseteq Nat /\ away # {}
    <2>1. \A n \in rows : N - n \in Nat
      OBVIOUS
    <2> QED BY <2>1
  <1>2. IsWellFoundedOn(R, Nat)
    BY NatLessThanWellFounded
  <1>3. \A x, y \in Nat : x < y => <<x, y>> \in R
    BY DEF OpToRel
  <1>4. PICK least \in away : \A k \in away : ~(<<k, least>> \in R)
    <2> HIDE DEF R, away
    <2> QED BY <1>1, <1>2, WFMin
  <1>5. \A k \in away : least <= k
    <2> SUFFICES ASSUME NEW k \in away PROVE least <= k
      OBVIOUS
    <2> HIDE DEF R, away
    <2>1. k \in Nat /\ least \in Nat /\ ~(k < least)
      BY <1>1, <1>3, <1>4
    <2> QED BY <2>1
  <1>6. PICK n \in rows : least = N - n
    OBVIOUS
  <1>7. \A m \in rows : m <= n
    <2> SUFFICES ASSUME NEW m \in rows PROVE m <= n
      OBVIOUS
    <2>1. N - m \in away
      OBVIOUS
    <2>2. N - n <= N - m
      <3> HIDE DEF away
      <3> QED BY <1>5, <1>6, <2>1
    <2> QED BY <2>2
  <1> QED BY <1>7 DEF NewestOf

LEMMA StepExport == ASSUME CodexPageInv, Export PROVE CodexPageInv'
  <1>1. /\ auth = "on" /\ UNCHANGED serverVars /\ UNCHANGED <<auth, view, flows, busy, warned, doubt>>
        /\ exporting' = IF FindEntry = {} THEN Off
                        ELSE [step |-> "following", row |-> NewestOf(FindEntry),
                              last |-> IF RowsOf(Me) = {} THEN Blank ELSE entries[NewestOf(RowsOf(Me))].target]
    BY DEF Export
  <1>2. FindEntry = RowsOf(Me)
    BY <1>1 DEF FindEntry, Mine
  <1>3. PageTypes' /\ version <= version'
    BY <1>1 DEF CodexPageInv, PageTypes, serverVars
  <1>4. ExportTrue'
    <2>1. CASE RowsOf(Me) = {}
      <3>1. exporting'.step = "off"
        BY <1>1, <1>2, <2>1 DEF Off
      <3> QED BY <3>1 DEF ExportTrue
    <2>2. CASE RowsOf(Me) # {}
      <3> DEFINE n == NewestOf(RowsOf(Me))
      <3>1. entries \in Seq(RowType)
        BY DEF CodexPageInv, PageTypes
      <3>2. RowsOf(Me) \in SUBSET (1 .. Len(entries)) /\ Len(entries) \in Nat
        BY <3>1 DEF RowsOf
      <3>3. n \in RowsOf(Me)
        BY <2>2, <3>2, NewestIs
      <3>4. exporting'.row = n /\ exporting'.last = entries[n].target
        BY <1>1, <1>2, <2>2
      <3> HIDE DEF n
      <3>5. n \in DOMAIN entries /\ entries[n].user = Me
        BY <3>3 DEF RowsOf
      <3>6. entries[n] \in RowType
        BY <3>1, <3>5
      <3>7. entries[n] = [user |-> entries[n].user, target |-> entries[n].target]
        BY <3>6 DEF RowType
      <3> QED BY <1>1, <3>4, <3>5, <3>7 DEF ExportTrue, serverVars
    <2> QED BY <2>1, <2>2
  <1> QED BY <1>1, <1>3, <1>4, StepBeside DEF serverVars

LEMMA StepFollow == ASSUME CodexPageInv, Follow PROVE CodexPageInv'
  <1>1. /\ exporting.step = "following" /\ UNCHANGED serverVars
        /\ UNCHANGED <<auth, view, flows, busy, warned, doubt>>
        /\ exporting' = [exporting EXCEPT !.step = IF exporting.row \in DOMAIN entries THEN "saved" ELSE "failed"]
    BY DEF Follow
  <1>2. PageTypes' /\ version <= version'
    BY <1>1 DEF CodexPageInv, PageTypes, serverVars
  <1>3. exporting'.row = exporting.row /\ exporting'.last = exporting.last
    BY <1>1
  <1>4. ExportTrue'
    BY <1>1, <1>3 DEF CodexPageInv, ExportTrue, serverVars
  <1> QED BY <1>1, <1>2, <1>4, StepBeside DEF serverVars

LEMMA StepImport ==
  ASSUME CodexPageInv, NEW user \in {Me, "other"}, NEW target \in Targets, Import(user, target) PROVE CodexPageInv'
  <1>1. /\ entries' = Append(entries, [user |-> user, target |-> target])
        /\ UNCHANGED <<auth, dirInUse, files, pairs, override, thinking, version, view, flows, busy, exporting, warned, doubt>>
    BY DEF Import, screenVars
  <1>2. entries \in Seq(RowType) /\ [user |-> user, target |-> target] \in RowType
    BY DEF CodexPageInv, PageTypes, RowType
  <1>3. /\ entries' \in Seq(RowType)
        /\ \A n \in DOMAIN entries : n \in DOMAIN entries' /\ entries'[n] = entries[n]
    <2> DEFINE row == [user |-> user, target |-> target]
    <2>1. row \in RowType /\ entries' = Append(entries, row)
      BY <1>1, <1>2
    <2> HIDE DEF row
    <2> QED BY <1>2, <2>1, RowsGrow
  <1>4. PageTypes' /\ ExportTrue' /\ version <= version'
    BY <1>1, <1>3 DEF CodexPageInv, PageTypes, ExportTrue
  <1> QED BY <1>1, <1>4, StepBeside

LEMMA StepElsewhere == ASSUME CodexPageInv, Elsewhere PROVE CodexPageInv'
  <1>1. UNCHANGED <<auth, dirInUse, pairs, thinking, entries, view, flows, busy, exporting, warned>>
    BY DEF Elsewhere, screenVars
  <1>2. ExportTrue' /\ version \in Nat /\ files \in [CodexDirs -> FileType]
    BY <1>1 DEF CodexPageInv, PageTypes, ExportTrue
  <1>3. CASE /\ \E dir \in CodexDirs : files' = [files EXCEPT ![dir].owner = "external"]
             /\ version' = version + 1 /\ UNCHANGED <<override, doubt>>
    <2>1. PICK dir \in CodexDirs : files' = [files EXCEPT ![dir].owner = "external"]
      BY <1>3
    <2> DEFINE f == [files[dir] EXCEPT !.owner = "external"]
    <2>2. f \in FileType
      BY <1>2 DEF FileType
    <2>3. files' = [files EXCEPT ![dir] = f]
      BY <2>1
    <2> HIDE DEF f
    <2>4. files' \in [CodexDirs -> FileType]
      BY <1>2, <2>2, <2>3
    <2>5. PageTypes'
      BY <1>1, <1>2, <1>3, <2>4 DEF CodexPageInv, PageTypes
    <2> QED BY <1>1, <1>2, <1>3, <2>5, StepBeside
  <1>4. CASE doubt' = TRUE /\ UNCHANGED <<files, version>>
    <2>1. PageTypes'
      BY <1>1, <1>4 DEF CodexPageInv, PageTypes
    <2> QED BY <1>1, <1>2, <1>4, <2>1, StepBeside
  <1> QED BY <1>3, <1>4 DEF Elsewhere

--------------------------------------------------------------------------------
(* The theorems.                                                           *)

LEMMA CodexPageStarts == CodexPageInit => CodexPageInv
  <1> SUFFICES ASSUME CodexPageInit PROVE CodexPageInv
    OBVIOUS
  <1>1. /\ auth \in Modes /\ dirInUse = (CHOOSE dir \in CodexDirs : TRUE)
        /\ files \in [CodexDirs -> {[owner |-> o, target |-> Blank] : o \in {"missing", "external"}}]
        /\ pairs = {} /\ entries = <<>> /\ view = [shown |-> FALSE, version |-> 0]
        /\ flows = [kind \in Kinds |-> IF kind = "mount" THEN Loading ELSE Off]
        /\ busy = "none" /\ exporting = Off /\ version = 0 /\ doubt = FALSE
    BY DEF CodexPageInit
  <1>2. \A kind \in Kinds : flows[kind] = IF kind = "mount" THEN Loading ELSE Off
    BY <1>1
  <1>3. /\ Loading = [step |-> "loading", got |-> Loading.got] /\ Loading.step = "loading" /\ Off.step = "off"
        /\ DOMAIN Loading.got = {}
    BY DEF Loading, Off
  <1>4. PageTypes
    <2>1. auth \in {"off", "on"} /\ dirInUse \in CodexDirs
      BY <1>1, CodexPageAssumption DEF CodexPageAssumption
    <2>2. \A o \in {"missing", "external"} : [owner |-> o, target |-> Blank] \in FileType
      BY DEF FileType
    <2>3. files \in [CodexDirs -> FileType]
      BY <1>1, <2>2
    <2>4. entries \in Seq(RowType)
      BY <1>1
    <2> QED BY <1>1, <2>1, <2>3, <2>4 DEF PageTypes
  <1>5. flows = [kind \in Kinds |-> flows[kind]]
    BY <1>1
  <1>6. ~view.shown
    BY <1>1
  <1>7. Shapes
    BY <1>2, <1>3, <1>5, <1>6 DEF Shapes
  <1>8. OwnersNoted
    BY <1>2, <1>3, <1>6 DEF OwnersNoted
  <1>9. ChangesTrue /\ SwitchAgrees
    BY <1>2, <1>3, KindFacts DEF ChangesTrue, SwitchAgrees, Kinds
  <1>10. OneUnderWay /\ BusyIsReal
    BY <1>1, <1>2 DEF OneUnderWay, BusyIsReal, Resting
  <1>11. ViewAgrees /\ LoadAgrees
    BY <1>2, <1>3, <1>6 DEF ViewAgrees, LoadAgrees
  <1>12. ExportTrue
    BY <1>1, <1>3 DEF ExportTrue
  <1> QED BY <1>4, <1>7, <1>8, <1>9, <1>10, <1>11, <1>12 DEF CodexPageInv

LEMMA CodexPageStep == CodexPageInv /\ [CodexPageNext]_codexPageVars => CodexPageInv'
  <1> SUFFICES ASSUME CodexPageInv, [CodexPageNext]_codexPageVars PROVE CodexPageInv'
    OBVIOUS
  <1>1. CASE UNCHANGED codexPageVars
    <2>1. UNCHANGED serverVars /\ UNCHANGED <<auth, view, flows, busy, exporting, warned, doubt>>
      BY <1>1 DEF codexPageVars, screenVars
    <2>2. PageTypes' /\ ExportTrue' /\ version <= version'
      BY <2>1 DEF CodexPageInv, PageTypes, ExportTrue, serverVars
    <2> QED BY <2>1, <2>2, StepBeside DEF serverVars
  <1>2. CASE \/ \E t \in Targets : ClickApply(t) \/ ClickOverride(t)
             \/ view.shown /\ \E p \in view.pairs : ClickRestore(p) \/ ClickDelete(p)
             \/ ClickClear
             \/ \E name \in Settings : ClickSwitch(name)
    BY <1>2, StepClickOn
  <1>3. CASE \E kind \in Kinds : Handle(kind) \/ HearDone(kind) \/ HearFailed(kind) \/ FinishLoad(kind) \/ FailLoad(kind)
    BY <1>3, StepHandle, StepHearDone, StepHearFailed, StepFinishLoad, StepFailLoad
  <1>4. CASE \E kind \in Kinds, part \in Parts : Serve(kind, part)
    BY <1>4, StepServe
  <1>5. CASE Poll \/ (\E dir \in CodexDirs : SetCodexDir(dir)) \/ Export \/ Follow \/ Elsewhere
    BY <1>5, StepPoll, StepSetCodexDir, StepExport, StepFollow, StepElsewhere
  <1>6. CASE \E user \in {Me, "other"}, t \in Targets : Import(user, t)
    BY <1>6, StepImport
  <1> QED BY <1>1, <1>2, <1>3, <1>4, <1>5, <1>6 DEF CodexPageNext

LEMMA InvShowsTruth == CodexPageInv => PageIsTrue
  <1> SUFFICES ASSUME CodexPageInv PROVE PageIsTrue
    OBVIOUS
  <1>1. PageSettles
    <2> SUFFICES ASSUME Calm, view.shown, ~doubt
                 PROVE  /\ view.thinking = thinking /\ view.override = override /\ view.current = override
                        /\ view.version = version => /\ view.pairs = PairsIn(dirInUse)
                                                     /\ view.owner = files[dirInUse].owner
                        /\ busy = "none"
      BY DEF PageSettles
    <2>1. \A kind \in Kinds : Resting(kind) /\ flows[kind].step = "off"
      BY StepFacts DEF Calm
    <2>2. Agrees(view.thinking)
      BY <2>1 DEF CodexPageInv, ViewAgrees
    <2>3. Notes(view.version, view.owner)
      BY DEF CodexPageInv, OwnersNoted
    <2>4. busy = "none"
      BY <2>1 DEF CodexPageInv, BusyIsReal
    <2> QED BY <2>2, <2>3, <2>4 DEF Agrees, Notes
  <1>2. ExportIsMine
    BY DEF CodexPageInv, ExportTrue, ExportIsMine
  <1> QED BY <1>1, <1>2 DEF PageIsTrue

LEMMA StepWarns ==
  ASSUME CodexPageInv, CodexPageNext
  PROVE  /\ \A p \in pairs \ pairs' : p.preserved => p.ts \in warned
         /\ flows["apply"].step = "sent" /\ flows'["apply"].step = "done"
              /\ auth = "off" /\ files[dirInUse].owner = "external"
                => flows["apply"].asked \/ flows["apply"].version # version
  <1>1. ASSUME NEW p \in pairs \ pairs', p.preserved PROVE p.ts \in warned
    <2>1. \E kind \in Kinds : Handle(kind)
      BY <1>1 DEF CodexPageNext, ClickApply, ClickOverride, ClickRestore, ClickDelete, ClickClear, ClickSwitch, Send,
           HearDone, HearFailed, FinishLoad, FailLoad, Serve, Poll, SetCodexDir, Export, Follow, Import, Elsewhere, serverVars
    <2>2. PICK kind \in Kinds : Handle(kind)
      BY <2>1
    <2>3. flows[kind].step = "sent" /\ Served(flows[kind]) /\ auth' = auth
      BY <1>1, <2>2 DEF Handle, serverVars
    <2>4. kind = "delete" /\ p.ts = flows[kind].arg.ts /\ (p.preserved => flows[kind].arg.preserved)
      BY <1>1, <2>3, ServedFacts
    <2> QED BY <1>1, <2>3, <2>4 DEF CodexPageInv, ChangesTrue
  <1>2. ASSUME flows["apply"].step = "sent", files[dirInUse].owner = "external"
        PROVE  flows["apply"].asked \/ flows["apply"].version # version
    BY <1>2 DEF CodexPageInv, ChangesTrue
  <1> QED BY <1>1, <1>2

LEMMA CodexPageInvHolds == CodexPageSpec => []CodexPageInv
  BY CodexPageStarts, CodexPageStep, PTL DEF CodexPageSpec

\* When nothing is under way and nothing is in doubt, the page shows what the
\* server has, and what a user exports is the last configuration of that user's
\* own timeline: for any targets, directories and numbers of clicks, failed
\* requests and changes made elsewhere.
THEOREM PageShowsTruth == CodexPageSpec => []PageIsTrue
  BY CodexPageInvHolds, InvShowsTruth, PTL

\* A preserved backup pair is deleted only after the question that names it as the
\* way back to a login, and an auth.json that is not ours is overwritten only after
\* a question, unless it came there after the page had loaded.
THEOREM PageWarns == CodexPageSpec => WarnedBeforeLoss
  <1>1. CodexPageInv /\ [CodexPageNext]_codexPageVars =>
          [/\ \A p \in pairs \ pairs' : p.preserved => p.ts \in warned
           /\ flows["apply"].step = "sent" /\ flows'["apply"].step = "done"
                /\ auth = "off" /\ files[dirInUse].owner = "external"
                  => flows["apply"].asked \/ flows["apply"].version # version]_codexPageVars
    BY StepWarns
  <1> QED BY <1>1, CodexPageInvHolds, PTL DEF CodexPageSpec, WarnedBeforeLoss

--------------------------------------------------------------------------------
(***************************************************************************)
(* Probes: for any rows of the page, and however single tests, the test of *)
(* all rows, restarts of the server and loads of the page overlap, a badge *)
(* is true to its row and nothing spins that is not waited for.            *)
(*                                                                         *)
(* What was heard had been answered (AnsweredFirst), so nothing the server *)
(* does changes a probe a badge stands for (BadgesOfProbes); and while all *)
(* rows are tested each has its badge, or is waited for (RowsCovered), which *)
(* a test of a single row on top of it does not take away.                 *)
(***************************************************************************)

Codes ==
  {"none", "request_failed", "no_api_key", "upstream_unreachable", "refused", "timeout", "ok", "unknown"}
OnWay == {"asked", "waiting", "body", "refusal", "sleeping"}

\* What a probe is made of.
ProbeRecords ==
  [row : Rows, whole : BOOLEAN, at : OnWay \cup {"replied"},
   tries : Nat, final : BOOLEAN, code : Codes, heard : BOOLEAN]

ProbesTyped ==
  /\ listed \subseteq Rows
  /\ buttons \in [Rows -> [running : BOOLEAN, badge : [code : Codes, of : Nat]]]
  /\ probes \in Seq(ProbeRecords)

\* What was heard had been answered.
AnsweredFirst == \A n \in DOMAIN probes : probes[n].heard => probes[n].at = "replied"

\* A row that is being tested: the page has not heard of one of its probes.
Pending(t) == \E n \in DOMAIN probes : probes[n].row = t /\ ~probes[n].heard

\* A badge is that of a probe of its row, and what spins is waited for.
BadgesOfProbes ==
  \A t \in Rows :
    /\ buttons[t].badge # NoBadge =>
         /\ buttons[t].badge.of \in DOMAIN probes
         /\ probes[buttons[t].badge.of].row = t /\ probes[buttons[t].badge.of].heard
         /\ probes[buttons[t].badge.of].code = buttons[t].badge.code
    /\ buttons[t].running => Pending(t)

\* While all rows are tested, each has its badge or is waited for.
RowsCovered == testing => \A t \in listed : buttons[t].badge # NoBadge \/ Pending(t)

ProbesInv == ProbesTyped /\ AnsweredFirst /\ BadgesOfProbes /\ RowsCovered

--------------------------------------------------------------------------------

\* What SetToSeq makes of a set of rows has each of them.
LEMMA RowsListed ==
  ASSUME NEW ts \in SUBSET Rows
  PROVE  /\ Cardinality(ts) \in Nat /\ SetToSeq(ts) \in [1 .. Cardinality(ts) -> ts]
         /\ \A t \in ts : \E k \in 1 .. Cardinality(ts) : SetToSeq(ts)[k] = t
<1> DEFINE n == Cardinality(ts)
           s == SetToSeq(ts)
<1>1. IsFiniteSet(ts) BY FS_Subset, ProbesAssumption
<1>2. n \in Nat /\ ExistsBijection(1 .. n, ts) BY <1>1, FS_CardinalityType
<1>3. \E f \in [1 .. n -> ts] : IsInjective(f) BY <1>2 DEF ExistsBijection, Bijection, Injection
<1>4. s \in [1 .. n -> ts] /\ IsInjective(s) BY <1>3 DEF SetToSeq
<1> HIDE DEF s
<1>5. s \in Injection(1 .. n, ts) BY <1>4 DEF Injection
<1>6. Cardinality(1 .. n) = n BY <1>2, FS_Interval
<1>7. s \in Surjection(1 .. n, ts) BY <1>1, <1>5, <1>6, FS_Injection
<1>8. \A t \in ts : \E k \in 1 .. n : s[k] = t BY <1>7 DEF Surjection
<1> QED BY <1>2, <1>4, <1>8 DEF s

\* A probe that moves on in the server: the page sees nothing of it.
LEMMA ProbesMoveOn ==
  ASSUME ProbesInv, UNCHANGED probePage, probes' \in Seq(ProbeRecords), Len(probes') = Len(probes),
         \A n \in DOMAIN probes :
           \/ probes'[n] = probes[n]
           \/ /\ probes[n].at # "replied" /\ probes'[n].row = probes[n].row
              /\ probes'[n].heard = probes[n].heard
  PROVE  ProbesInv'
<1>1. /\ probes \in Seq(ProbeRecords) /\ DOMAIN probes' = DOMAIN probes
      /\ buttons' = buttons /\ testing' = testing /\ listed' = listed
  BY DEF ProbesInv, ProbesTyped, probePage
<1>2. \A n \in DOMAIN probes : probes[n].heard => probes'[n] = probes[n]
  BY DEF ProbesInv, AnsweredFirst
<1>3. \A n \in DOMAIN probes : ~probes[n].heard => ~probes'[n].heard /\ probes'[n].row = probes[n].row
  OBVIOUS
<1>4. ProbesTyped' BY <1>1 DEF ProbesInv, ProbesTyped
<1>5. AnsweredFirst'
  <2> SUFFICES ASSUME NEW n \in DOMAIN probes, probes'[n].heard PROVE probes'[n].at = "replied"
    BY <1>1 DEF AnsweredFirst
  <2>1. probes[n].heard BY <1>3
  <2> QED BY <1>2, <2>1 DEF ProbesInv, AnsweredFirst
<1>6. \A t : Pending(t) => Pending(t)' BY <1>1, <1>3 DEF Pending
<1>7. BadgesOfProbes' BY <1>1, <1>2, <1>6 DEF ProbesInv, BadgesOfProbes
<1>8. RowsCovered' BY <1>1, <1>6 DEF ProbesInv, RowsCovered
<1> QED BY <1>4, <1>5, <1>7, <1>8 DEF ProbesInv

\* The places and codes a probe may move to.
LEMMA ProbeForms ==
  ASSUME ProbesInv, NEW n \in DOMAIN probes
  PROVE  /\ probes[n] \in ProbeRecords
         /\ \A place \in OnWay, final \in BOOLEAN :
              LET p == [At(n, place) EXCEPT !.final = final]
              IN  p \in ProbeRecords /\ p.row = probes[n].row /\ p.heard = probes[n].heard
         /\ \A place \in OnWay :
              LET p == At(n, place)
              IN  p \in ProbeRecords /\ p.row = probes[n].row /\ p.heard = probes[n].heard
         /\ LET p == [At(n, "waiting") EXCEPT !.tries = @ + 1]
            IN  p \in ProbeRecords /\ p.row = probes[n].row /\ p.heard = probes[n].heard
         /\ \A code \in Codes :
              LET p == Replied(n, code)
              IN  p \in ProbeRecords /\ p.row = probes[n].row /\ p.heard = probes[n].heard
<1>1. PICK it : it = probes[n] OBVIOUS
<1>2. it \in ProbeRecords BY <1>1 DEF ProbesInv, ProbesTyped
<1>3. ASSUME NEW place \in OnWay
      PROVE  /\ At(n, place) \in ProbeRecords /\ At(n, place).row = it.row /\ At(n, place).heard = it.heard
             /\ At(n, place).tries = it.tries
  BY <1>1, <1>2 DEF At, ProbeRecords
<1>4. ASSUME NEW q \in ProbeRecords, NEW final \in BOOLEAN
      PROVE  LET p == [q EXCEPT !.final = final]
             IN  p \in ProbeRecords /\ p.row = q.row /\ p.heard = q.heard
  BY DEF ProbeRecords
<1>5. ASSUME NEW q \in ProbeRecords
      PROVE  LET p == [q EXCEPT !.tries = @ + 1]
             IN  p \in ProbeRecords /\ p.row = q.row /\ p.heard = q.heard
  <2>1. PICK k : k = q.tries + 1 OBVIOUS
  <2>2. k \in Nat BY <2>1 DEF ProbeRecords
  <2>3. [q EXCEPT !.tries = @ + 1] = [q EXCEPT !.tries = k] BY <2>1
  <2> QED BY <2>2, <2>3 DEF ProbeRecords
<1>6. ASSUME NEW code \in Codes
      PROVE  LET p == Replied(n, code)
             IN  p \in ProbeRecords /\ p.row = it.row /\ p.heard = it.heard
  <2>1. PICK no : no = FALSE OBVIOUS
  <2>2. Replied(n, code) = [it EXCEPT !.at = "replied", !.code = code, !.tries = 0, !.final = no]
    BY <1>1, <2>1 DEF Replied
  <2>3. PICK q : q = [it EXCEPT !.at = "replied", !.code = code, !.tries = 0, !.final = no] OBVIOUS
  <2>4. it.row \in Rows /\ it.whole \in BOOLEAN /\ it.heard \in BOOLEAN BY <1>2 DEF ProbeRecords
  <2>5. no \in BOOLEAN /\ "replied" \in OnWay \cup {"replied"} BY <2>1
  <2>6. q = [row |-> it.row, whole |-> it.whole, at |-> "replied", tries |-> 0, final |-> no,
             code |-> code, heard |-> it.heard]
    BY <1>2, <2>3 DEF ProbeRecords
  <2>7. q \in ProbeRecords /\ q.row = it.row /\ q.heard = it.heard
    BY <2>4, <2>5, <2>6 DEF ProbeRecords
  <2> QED BY <2>2, <2>3, <2>7
<1>7. \A place \in OnWay, final \in BOOLEAN :
        LET p == [At(n, place) EXCEPT !.final = final]
        IN  p \in ProbeRecords /\ p.row = probes[n].row /\ p.heard = probes[n].heard
  <2> TAKE place \in OnWay, final \in BOOLEAN
  <2>1. PICK q : q = At(n, place) OBVIOUS
  <2>2. q \in ProbeRecords /\ q.row = it.row /\ q.heard = it.heard BY <1>3, <2>1
  <2> QED BY <1>1, <1>4, <2>1, <2>2
<1>8. LET p == [At(n, "waiting") EXCEPT !.tries = @ + 1]
      IN  p \in ProbeRecords /\ p.row = probes[n].row /\ p.heard = probes[n].heard
  <2>1. PICK q : q = At(n, "waiting") OBVIOUS
  <2>2. "waiting" \in OnWay BY DEF OnWay
  <2>3. q \in ProbeRecords /\ q.row = it.row /\ q.heard = it.heard BY <1>3, <2>1, <2>2
  <2> QED BY <1>1, <1>5, <2>1, <2>3
<1> QED BY <1>1, <1>2, <1>3, <1>6, <1>7, <1>8

\* One probe moves on.
LEMMA MoveKeeps ==
  ASSUME ProbesInv, NEW n \in DOMAIN probes, NEW from \in SUBSET OnWay,
         NEW p \in ProbeRecords, p.row = probes[n].row, p.heard = probes[n].heard, Moves(n, from, p)
  PROVE  ProbesInv'
<1>1. /\ probes[n].at # "replied" /\ probes' = [probes EXCEPT ![n] = p] /\ UNCHANGED probePage
  BY DEF Moves, OnWay
<1>2. probes \in Seq(ProbeRecords) BY DEF ProbesInv, ProbesTyped
<1>3. /\ probes' \in Seq(ProbeRecords) /\ Len(probes') = Len(probes)
      /\ probes'[n] = p /\ \A m \in DOMAIN probes : m # n => probes'[m] = probes[m]
  BY <1>1, <1>2
<1> QED BY <1>1, <1>3, ProbesMoveOn

\* Whatever the server and the upstream do with a probe.
LEMMA ServerKeeps ==
  ASSUME ProbesInv, NEW n \in DOMAIN probes,
         Arrive(n) \/ ProbeUpstream(n) \/ SnippetRead(n) \/ SleepOver(n) \/ BodyRead(n) \/ Timeout(n)
  PROVE  ProbesInv'
<1>1. ASSUME NEW from \in SUBSET OnWay, NEW place \in OnWay, Moves(n, from, At(n, place)) PROVE ProbesInv'
  BY <1>1, ProbeForms, MoveKeeps
<1>2. ASSUME NEW from \in SUBSET OnWay, NEW code \in Codes, Moves(n, from, Replied(n, code)) PROVE ProbesInv'
  BY <1>2, ProbeForms, MoveKeeps
<1>3. ASSUME NEW last \in BOOLEAN, Moves(n, {"waiting"}, [At(n, "refusal") EXCEPT !.final = last])
      PROVE  ProbesInv'
  <2>1. {"waiting"} \in SUBSET OnWay /\ "refusal" \in OnWay BY DEF OnWay
  <2> QED BY <1>3, <2>1, ProbeForms, MoveKeeps
<1>4. /\ \A place \in OnWay : {place} \in SUBSET OnWay
      /\ "asked" \in OnWay /\ "waiting" \in OnWay /\ "body" \in OnWay /\ "refusal" \in OnWay
      /\ "sleeping" \in OnWay /\ {"waiting", "sleeping", "body"} \in SUBSET OnWay
  BY DEF OnWay
<1>5. /\ "request_failed" \in Codes /\ "no_api_key" \in Codes /\ "upstream_unreachable" \in Codes
      /\ "refused" \in Codes /\ "timeout" \in Codes /\ {"ok", "unknown"} \subseteq Codes
  BY DEF Codes
<1>6. CASE Arrive(n)
  <2>1. \/ Moves(n, {"asked"}, Replied(n, "request_failed")) \/ Moves(n, {"asked"}, Replied(n, "no_api_key"))
        \/ Moves(n, {"asked"}, At(n, "waiting"))
    BY <1>6 DEF Arrive
  <2> QED BY <1>1, <1>2, <1>4, <1>5, <2>1
<1>7. CASE ProbeUpstream(n)
  <2>1. CASE Moves(n, {"waiting"}, At(n, "body")) BY <1>1, <1>4, <2>1
  <2>2. CASE Moves(n, {"waiting"}, [At(n, "refusal") EXCEPT !.final = probes[n].tries = MaxReposts])
    <3>1. PICK last \in BOOLEAN : last = (probes[n].tries = MaxReposts) OBVIOUS
    <3> QED BY <1>3, <2>2, <3>1
  <2>3. CASE Moves(n, {"waiting"}, [At(n, "refusal") EXCEPT !.final = TRUE])
    <3>1. PICK yes \in BOOLEAN : yes = TRUE OBVIOUS
    <3> QED BY <1>3, <2>3, <3>1
  <2>4. CASE Moves(n, {"waiting"}, IF probes[n].tries < MaxReposts THEN At(n, "sleeping")
                                   ELSE Replied(n, "upstream_unreachable"))
    <3>1. Moves(n, {"waiting"}, At(n, "sleeping")) \/ Moves(n, {"waiting"}, Replied(n, "upstream_unreachable"))
      BY <2>4
    <3> QED BY <1>1, <1>2, <1>4, <1>5, <3>1
  <2> QED BY <1>7, <2>1, <2>2, <2>3, <2>4 DEF ProbeUpstream
<1>8. CASE SnippetRead(n)
  <2>1. Moves(n, {"refusal"}, Replied(n, "refused")) \/ Moves(n, {"refusal"}, At(n, "sleeping"))
    BY <1>8 DEF SnippetRead
  <2> QED BY <1>1, <1>2, <1>4, <1>5, <2>1
<1>9. CASE SleepOver(n)
  <2>1. Moves(n, {"sleeping"}, [At(n, "waiting") EXCEPT !.tries = @ + 1]) BY <1>9 DEF SleepOver
  <2> QED BY <1>4, <2>1, ProbeForms, MoveKeeps
<1>10. CASE BodyRead(n)
  <2>1. PICK code \in {"ok", "unknown"} : Moves(n, {"body"}, Replied(n, code)) BY <1>10 DEF BodyRead
  <2> QED BY <1>2, <1>4, <1>5, <2>1
<1>11. CASE Timeout(n)
  <2>1. \/ Moves(n, {"waiting", "sleeping", "body"}, Replied(n, "timeout"))
        \/ Moves(n, {"refusal"}, Replied(n, "refused")) \/ Moves(n, {"refusal"}, Replied(n, "timeout"))
    BY <1>11 DEF Timeout
  <2> QED BY <1>2, <1>4, <1>5, <2>1
<1> QED BY <1>6, <1>7, <1>8, <1>9, <1>10, <1>11

\* A restart of the server answers all it had in hand, and tells the page nothing.
LEMMA RestartKeeps == ASSUME ProbesInv, ServerRestart PROVE ProbesInv'
<1>1. probes \in Seq(ProbeRecords) /\ DOMAIN probes = 1 .. Len(probes) /\ Len(probes) \in Nat
  BY DEF ProbesInv, ProbesTyped
<1>2. PICK next : next = [n \in DOMAIN probes |-> IF probes[n].at = "replied" THEN probes[n]
                                                  ELSE Replied(n, "request_failed")]
  OBVIOUS
<1>3. UNCHANGED probePage /\ probes' = next BY <1>2 DEF ServerRestart
<1>4. "request_failed" \in Codes BY DEF Codes
<1>5. \A n \in DOMAIN probes : next[n] = probes[n] \/ (probes[n].at # "replied" /\ next[n] = Replied(n, "request_failed"))
  BY <1>2
<1>6. \A n \in 1 .. Len(probes) : next[n] \in ProbeRecords BY <1>1, <1>4, <1>5, ProbeForms
<1>7. next \in [1 .. Len(probes) -> ProbeRecords] BY <1>1, <1>2, <1>6
<1>8. probes' \in Seq(ProbeRecords) /\ Len(probes') = Len(probes) BY <1>1, <1>3, <1>7
<1> QED BY <1>3, <1>4, <1>5, <1>8, ProbeForms, ProbesMoveOn

\* Rows are asked for: each has a probe the page waits for, and no badge.
LEMMA AskKeeps ==
  ASSUME ProbesInv, NEW ts \in SUBSET Rows, NEW whole \in BOOLEAN, Ask(ts, whole),
         (testing' = testing) \/ ts = listed
  PROVE  ProbesInv'
<1>1. PICK c, s : c = Cardinality(ts) /\ s = SetToSeq(ts) OBVIOUS
<1>2. c \in Nat /\ s \in [1 .. c -> ts] /\ \A t \in ts : \E k \in 1 .. c : s[k] = t BY <1>1, RowsListed
<1>3. PICK more : more = [k \in 1 .. c |-> Asked(s[k], whole)] OBVIOUS
<1>4. /\ probes' = probes \o more /\ listed' = listed
      /\ buttons' = [t \in Rows |-> IF t \in ts THEN [running |-> TRUE, badge |-> NoBadge] ELSE buttons[t]]
  BY <1>1, <1>3 DEF Ask
<1>5. /\ probes \in Seq(ProbeRecords) /\ Len(probes) \in Nat /\ DOMAIN probes = 1 .. Len(probes)
      /\ buttons \in [Rows -> [running : BOOLEAN, badge : [code : Codes, of : Nat]]]
  BY DEF ProbesInv, ProbesTyped
<1>6. ASSUME NEW t \in Rows
      PROVE  /\ Asked(t, whole) \in ProbeRecords /\ Asked(t, whole).row = t
             /\ ~Asked(t, whole).heard /\ Asked(t, whole).at = "asked"
  <2>1. PICK no : no = FALSE OBVIOUS
  <2>2. Asked(t, whole) = [row |-> t, whole |-> whole, at |-> "asked", tries |-> 0, final |-> no,
                           code |-> "none", heard |-> no]
    BY <2>1 DEF Asked
  <2>3. no \in BOOLEAN /\ "none" \in Codes /\ "asked" \in OnWay BY <2>1 DEF Codes, OnWay
  <2> QED BY <2>1, <2>2, <2>3 DEF ProbeRecords
<1>7. /\ more \in Seq(ProbeRecords) /\ Len(more) = c
      /\ \A k \in 1 .. c : more[k] = Asked(s[k], whole) /\ s[k] \in Rows
  BY <1>2, <1>3, <1>6
<1>8. /\ probes' \in Seq(ProbeRecords) /\ Len(probes') = Len(probes) + c
      /\ \A n \in 1 .. Len(probes) : probes'[n] = probes[n]
      /\ \A k \in 1 .. c : probes'[Len(probes) + k] = more[k]
  <2>1. /\ probes' \in Seq(ProbeRecords) /\ Len(probes') = Len(probes) + c
        /\ \A i \in 1 .. Len(probes) + c :
             probes'[i] = IF i <= Len(probes) THEN probes[i] ELSE more[i - Len(probes)]
    <3>1. PICK old : old = probes OBVIOUS
    <3>2. old \in Seq(ProbeRecords) /\ more \in Seq(ProbeRecords) BY <1>5, <1>7, <3>1
    <3>3. /\ old \o more \in Seq(ProbeRecords) /\ Len(old \o more) = Len(old) + Len(more)
          /\ \A i \in 1 .. Len(old) + Len(more) :
               (old \o more)[i] = IF i <= Len(old) THEN old[i] ELSE more[i - Len(old)]
      BY <3>2, ConcatProperties
    <3>4. probes' = old \o more BY <1>4, <3>1
    <3> HIDE <3>1
    <3>5. Len(more) = c /\ probes = old BY <1>7, <3>1
    <3> QED BY <3>3, <3>4, <3>5
  <2>2. ASSUME NEW n \in 1 .. Len(probes) PROVE n \in 1 .. Len(probes) + c /\ n <= Len(probes)
    BY <1>2, <1>5
  <2>3. ASSUME NEW k \in 1 .. c
        PROVE  /\ Len(probes) + k \in 1 .. Len(probes) + c /\ ~(Len(probes) + k <= Len(probes))
               /\ (Len(probes) + k) - Len(probes) = k
    BY <1>2, <1>5
  <2> QED BY <2>1, <2>2, <2>3
<1>9. DOMAIN probes' = 1 .. Len(probes) + c /\ DOMAIN probes \subseteq DOMAIN probes'
  BY <1>2, <1>5, <1>8
<1>10. \A n \in DOMAIN probes : probes'[n] = probes[n] BY <1>5, <1>8
<1>11. \A n \in DOMAIN probes' : n \in DOMAIN probes \/ ~probes'[n].heard
  <2> SUFFICES ASSUME NEW n \in DOMAIN probes', n \notin DOMAIN probes PROVE ~probes'[n].heard OBVIOUS
  <2>1. PICK k \in 1 .. c : n = Len(probes) + k
    <3>1. n \in 1 .. Len(probes) + c /\ n \notin 1 .. Len(probes) BY <1>5, <1>9
    <3>2. n - Len(probes) \in 1 .. c /\ n = Len(probes) + (n - Len(probes)) BY <1>2, <1>5, <3>1
    <3> QED BY <3>2
  <2> QED BY <1>6, <1>7, <1>8, <2>1
<1>12. \A t : Pending(t) => Pending(t)' BY <1>9, <1>10 DEF Pending
<1>13. \A t \in ts : Pending(t)'
  <2> SUFFICES ASSUME NEW t \in ts PROVE Pending(t)' OBVIOUS
  <2>1. PICK k \in 1 .. c : s[k] = t BY <1>2
  <2>2. Len(probes) + k \in DOMAIN probes' BY <1>2, <1>5, <1>9
  <2>3. /\ probes'[Len(probes) + k].row = t /\ ~probes'[Len(probes) + k].heard BY <1>6, <1>7, <1>8, <2>1
  <2> QED BY <2>2, <2>3 DEF Pending
<1>14. /\ \A t \in ts : buttons'[t].badge = NoBadge
       /\ \A t \in Rows \ ts : buttons'[t] = buttons[t]
  BY <1>4
<1>15. ProbesTyped'
  <2>1. PICK fresh : fresh = [running |-> TRUE, badge |-> NoBadge] OBVIOUS
  <2>2. fresh \in [running : BOOLEAN, badge : [code : Codes, of : Nat]] BY <2>1 DEF NoBadge, Codes
  <2>3. buttons' = [t \in Rows |-> IF t \in ts THEN fresh ELSE buttons[t]] BY <1>4, <2>1
  <2>4. buttons' \in [Rows -> [running : BOOLEAN, badge : [code : Codes, of : Nat]]] BY <1>5, <2>2, <2>3
  <2> QED BY <1>4, <1>8, <2>4 DEF ProbesInv, ProbesTyped
<1>16. AnsweredFirst' BY <1>10, <1>11 DEF ProbesInv, AnsweredFirst
<1>17. BadgesOfProbes'
  <2> SUFFICES ASSUME NEW t \in Rows
               PROVE  /\ buttons'[t].badge # NoBadge =>
                           /\ buttons'[t].badge.of \in DOMAIN probes'
                           /\ probes'[buttons'[t].badge.of].row = t /\ probes'[buttons'[t].badge.of].heard
                           /\ probes'[buttons'[t].badge.of].code = buttons'[t].badge.code
                      /\ buttons'[t].running => Pending(t)'
    BY DEF BadgesOfProbes
  <2>1. CASE t \in ts BY <1>13, <1>14, <2>1
  <2>2. CASE t \notin ts BY <1>9, <1>10, <1>12, <1>14, <2>2 DEF ProbesInv, BadgesOfProbes
  <2> QED BY <2>1, <2>2
<1>18. RowsCovered'
  <2> SUFFICES ASSUME testing', NEW t \in listed PROVE buttons'[t].badge # NoBadge \/ Pending(t)'
    BY <1>4 DEF RowsCovered
  <2>1. CASE t \in ts BY <1>13, <2>1
  <2>2. CASE t \notin ts
    <3>1. testing BY <2>2
    <3>2. t \in Rows BY DEF ProbesInv, ProbesTyped
    <3> QED BY <1>12, <1>14, <2>2, <3>1, <3>2 DEF ProbesInv, RowsCovered
  <2> QED BY <2>1, <2>2
<1> QED BY <1>15, <1>16, <1>17, <1>18 DEF ProbesInv

\* An answer is heard: its row has a badge, and no other row is touched.
LEMMA HearKeeps == ASSUME ProbesInv, NEW n \in DOMAIN probes, Hear(n) PROVE ProbesInv'
<1>1. PICK row, code : row = probes[n].row /\ code = probes[n].code OBVIOUS
<1>2. PICK no, yes : no = FALSE /\ yes = TRUE OBVIOUS
<1>3. PICK badge : badge = [code |-> code, of |-> n] OBVIOUS
<1>4. /\ probes[n].at = "replied" /\ ~probes[n].heard
      /\ probes' = [probes EXCEPT ![n].heard = yes]
      /\ buttons' = [buttons EXCEPT ![row] = [running |-> no, badge |-> badge]]
      /\ listed' = listed /\ testing' = testing
  BY <1>1, <1>2, <1>3 DEF Hear
<1>5. /\ probes \in Seq(ProbeRecords) /\ probes[n] \in ProbeRecords /\ DOMAIN probes = 1 .. Len(probes)
      /\ buttons \in [Rows -> [running : BOOLEAN, badge : [code : Codes, of : Nat]]]
  BY DEF ProbesInv, ProbesTyped
<1>6. row \in Rows /\ code \in Codes /\ n \in Nat /\ n >= 1 BY <1>1, <1>5 DEF ProbeRecords
<1>7. PICK p : p = [probes[n] EXCEPT !.heard = yes] OBVIOUS
<1>8. /\ p \in ProbeRecords /\ p.row = row /\ p.code = code /\ p.heard /\ p.at = "replied"
  <2>1. PICK it : it = probes[n] OBVIOUS
  <2>2. it \in ProbeRecords /\ yes \in BOOLEAN /\ p = [it EXCEPT !.heard = yes] BY <1>2, <1>5, <1>7, <2>1
  <2>3. p \in ProbeRecords /\ p.row = it.row /\ p.code = it.code /\ p.heard = yes /\ p.at = it.at
    BY <2>2 DEF ProbeRecords
  <2> QED BY <1>1, <1>2, <1>4, <2>1, <2>3
<1>9. /\ probes' \in Seq(ProbeRecords) /\ DOMAIN probes' = DOMAIN probes
      /\ probes'[n] = p /\ \A m \in DOMAIN probes : m # n => probes'[m] = probes[m]
  <2>1. probes' = [probes EXCEPT ![n] = p] BY <1>4, <1>7
  <2> QED BY <1>5, <1>8, <2>1
<1>10. PICK button : button = [running |-> no, badge |-> badge] OBVIOUS
<1>11. /\ button \in [running : BOOLEAN, badge : [code : Codes, of : Nat]] /\ ~button.running
       /\ button.badge = badge
  <2>1. no \in BOOLEAN /\ badge \in [code : Codes, of : Nat] BY <1>2, <1>3, <1>6
  <2> QED BY <1>2, <1>10, <2>1
<1>12. /\ buttons' \in [Rows -> [running : BOOLEAN, badge : [code : Codes, of : Nat]]]
       /\ buttons'[row] = button /\ \A t \in Rows : t # row => buttons'[t] = buttons[t]
  BY <1>4, <1>5, <1>6, <1>10, <1>11
<1>13. badge.of = n /\ badge.code = code /\ badge # NoBadge
  <2>1. badge.of = n /\ badge.code = code BY <1>3
  <2>2. NoBadge.of = 0 BY DEF NoBadge
  <2> QED BY <1>6, <2>1, <2>2
<1>14. \A t \in Rows : t # row /\ Pending(t) => Pending(t)' BY <1>1, <1>9 DEF Pending
<1>15. ProbesTyped' BY <1>4, <1>9, <1>12 DEF ProbesInv, ProbesTyped
<1>16. AnsweredFirst' BY <1>8, <1>9 DEF ProbesInv, AnsweredFirst
<1>17. BadgesOfProbes'
  <2> SUFFICES ASSUME NEW t \in Rows
               PROVE  /\ buttons'[t].badge # NoBadge =>
                           /\ buttons'[t].badge.of \in DOMAIN probes'
                           /\ probes'[buttons'[t].badge.of].row = t /\ probes'[buttons'[t].badge.of].heard
                           /\ probes'[buttons'[t].badge.of].code = buttons'[t].badge.code
                      /\ buttons'[t].running => Pending(t)'
    BY DEF BadgesOfProbes
  <2>1. CASE t = row BY <1>8, <1>9, <1>11, <1>12, <1>13, <2>1
  <2>2. CASE t # row
    <3>1. buttons'[t] = buttons[t] BY <1>12, <2>2
    <3>2. buttons[t].running => Pending(t) BY DEF ProbesInv, BadgesOfProbes
    <3>3. buttons[t].badge # NoBadge => buttons[t].badge.of # n
      BY <1>1, <2>2 DEF ProbesInv, BadgesOfProbes
    <3>4. buttons[t].badge # NoBadge =>
            /\ buttons[t].badge.of \in DOMAIN probes'
            /\ probes'[buttons[t].badge.of] = probes[buttons[t].badge.of]
      BY <1>9, <3>3 DEF ProbesInv, BadgesOfProbes
    <3> QED BY <1>14, <2>2, <3>1, <3>2, <3>4 DEF ProbesInv, BadgesOfProbes
  <2> QED BY <2>1, <2>2
<1>18. RowsCovered'
  <2> SUFFICES ASSUME testing, NEW t \in listed PROVE buttons'[t].badge # NoBadge \/ Pending(t)'
    BY <1>4 DEF RowsCovered
  <2>1. t \in Rows /\ (buttons[t].badge # NoBadge \/ Pending(t))
    BY DEF ProbesInv, ProbesTyped, RowsCovered
  <2>2. CASE t = row BY <1>11, <1>12, <1>13, <2>2
  <2>3. CASE t # row BY <1>12, <1>14, <2>1, <2>3
  <2> QED BY <2>2, <2>3
<1> QED BY <1>15, <1>16, <1>17, <1>18 DEF ProbesInv

--------------------------------------------------------------------------------
\* A page as it is after it was loaded.
LEMMA NoTestsHold ==
  ASSUME buttons = NoTests, probes = <<>>, listed = KeyedRows, ~testing PROVE ProbesInv
<1>1. \A t \in Rows : buttons[t].badge = NoBadge /\ ~buttons[t].running BY DEF NoTests
<1>2. buttons \in [Rows -> [running : BOOLEAN, badge : [code : Codes, of : Nat]]]
  <2>1. PICK none : none = [running |-> FALSE, badge |-> NoBadge] OBVIOUS
  <2>2. none \in [running : BOOLEAN, badge : [code : Codes, of : Nat]] BY <2>1 DEF NoBadge, Codes
  <2>3. buttons = [t \in Rows |-> none] BY <2>1 DEF NoTests
  <2> QED BY <2>2, <2>3
<1>3. probes \in Seq(ProbeRecords) /\ DOMAIN probes = {} OBVIOUS
<1> QED BY <1>1, <1>2, <1>3 DEF ProbesInv, ProbesTyped, AnsweredFirst, BadgesOfProbes, RowsCovered, KeyedRows

\* Every step of the page, the server and the upstream.
LEMMA ProbesStep == ASSUME ProbesInv, [ProbesNext]_probesVars PROVE ProbesInv'
<1>1. CASE \E t \in Rows : Click(t)
  <2>1. PICK t \in Rows : Ask({t}, FALSE) /\ testing' = testing BY <1>1 DEF Click
  <2>2. {t} \in SUBSET Rows /\ FALSE \in BOOLEAN OBVIOUS
  <2> QED BY <2>1, <2>2, AskKeeps
<1>2. CASE TestAll
  <2>1. Ask(listed, TRUE) BY <1>2 DEF TestAll
  <2>2. listed \in SUBSET Rows /\ TRUE \in BOOLEAN BY DEF ProbesInv, ProbesTyped
  <2> QED BY <2>1, <2>2, AskKeeps
<1>3. CASE EndTest
  <2>1. UNCHANGED <<listed, buttons, probes>> /\ ~testing' BY <1>3 DEF EndTest
  <2> QED BY <2>1 DEF ProbesInv, ProbesTyped, AnsweredFirst, BadgesOfProbes, RowsCovered, Pending
<1>4. CASE Reload
  <2>1. buttons' = NoTests' /\ probes' = <<>> /\ listed' = KeyedRows' /\ ~testing'
    BY <1>4 DEF Reload, NoTests, NoBadge, KeyedRows
  <2>2. \A t \in Rows : buttons'[t].badge = NoBadge' /\ ~buttons'[t].running BY <2>1 DEF NoTests
  <2>3. buttons' \in [Rows -> [running : BOOLEAN, badge : [code : Codes, of : Nat]]]
    <3>1. PICK none : none = [running |-> FALSE, badge |-> NoBadge] OBVIOUS
    <3>2. none \in [running : BOOLEAN, badge : [code : Codes, of : Nat]] BY <3>1 DEF NoBadge, Codes
    <3>3. buttons' = [t \in Rows |-> none] BY <2>1, <3>1 DEF NoTests, NoBadge
    <3> QED BY <3>2, <3>3
  <2>4. probes' \in Seq(ProbeRecords) /\ DOMAIN probes' = {} BY <2>1
  <2> QED BY <2>1, <2>2, <2>3, <2>4
      DEF ProbesInv, ProbesTyped, AnsweredFirst, BadgesOfProbes, RowsCovered, KeyedRows
<1>5. CASE ServerRestart BY <1>5, RestartKeeps
<1>6. CASE \E n \in DOMAIN probes :
             Hear(n) \/ Arrive(n) \/ ProbeUpstream(n) \/ SnippetRead(n) \/ SleepOver(n) \/ BodyRead(n) \/ Timeout(n)
  BY <1>6, HearKeeps, ServerKeeps
<1>7. CASE UNCHANGED probesVars
  <2>1. UNCHANGED <<listed, buttons, probes, testing>> BY <1>7 DEF probesVars
  <2> QED BY <2>1 DEF ProbesInv, ProbesTyped, AnsweredFirst, BadgesOfProbes, RowsCovered, Pending
<1> QED BY <1>1, <1>2, <1>3, <1>4, <1>5, <1>6, <1>7 DEF ProbesNext

\* The first page is a blank one.
LEMMA ProbesStart == ProbesInit => ProbesInv
BY NoTestsHold DEF ProbesInit

\* What the badges need.
LEMMA BadgesHold == ProbesInv => BadgesAreTrue
BY DEF ProbesInv, BadgesOfProbes, BadgesAreTrue, Pending

\* The test of all rows ends only when what it asked for was heard.
TestEnds ==
  testing /\ ~testing' /\ probes' = probes =>
    \A t \in listed :
      \/ buttons[t].badge # NoBadge
      \/ \E n \in DOMAIN probes : probes[n].row = t /\ ~probes[n].whole /\ ~probes[n].heard

LEMMA EndsWhole == ASSUME ProbesInv, [ProbesNext]_probesVars PROVE TestEnds
<1> SUFFICES ASSUME testing, ~testing', probes' = probes, NEW t \in listed, buttons[t].badge = NoBadge
             PROVE  \E n \in DOMAIN probes : probes[n].row = t /\ ~probes[n].whole /\ ~probes[n].heard
  BY DEF TestEnds
<1>1. PICK n \in DOMAIN probes : probes[n].row = t /\ ~probes[n].heard
  BY DEF ProbesInv, RowsCovered, Pending
<1>2. EndTest \/ Reload
  BY DEF ProbesNext, Click, TestAll, Hear, Arrive, ProbeUpstream, SnippetRead, SleepOver, BodyRead, Timeout,
         Moves, ServerRestart, probePage, probesVars
<1>3. ~Reload
  <2>1. n \in DOMAIN probes' OBVIOUS
  <2>2. Reload => probes' = <<>> BY DEF Reload
  <2>3. DOMAIN <<>> = {} OBVIOUS
  <2> QED BY <2>1, <2>2, <2>3
<1>4. ~probes[n].whole BY <1>1, <1>2, <1>3 DEF EndTest, Outstanding
<1> QED BY <1>1, <1>4

\* However single tests, the test of all rows, restarts and loads overlap: a badge
\* is the outcome of a probe of its own row, a button spins only while one is on
\* its way, and when the test of all rows ends every row has been answered
\* (CodexEnable.tsx, doProbe and doTestAll; the safety half of ProbesSound).
THEOREM TestsTellTruth == ProbesSpec => []BadgesAreTrue /\ TestIsWhole
<1>1. ProbesInv /\ [ProbesNext]_probesVars => ProbesInv' BY ProbesStep
<1>2. ProbesInv /\ [ProbesNext]_probesVars => TestEnds BY EndsWhole
<1>3. ProbesInv /\ [ProbesNext]_probesVars => [TestEnds]_probesVars BY <1>2
<1> QED BY ProbesStart, BadgesHold, <1>1, <1>3, PTL DEF ProbesSpec, TestIsWhole, TestEnds
================================================================================
