---------------------------- MODULE AccountsProofs ----------------------------
(***************************************************************************)
(* Proofs about Accounts, for any names, identities, slots, lifetimes and  *)
(* times and any number of users, sessions and sign-ins: the guard accepts *)
(* a cookie exactly as long as it should, one sign-in makes one account    *)
(* and one session, and what the account routes answered stays true.       *)
(*                                                                         *)
(* What a route read before an await may be out of date after it.  The     *)
(* invariant says what nevertheless holds of a request that waits: its     *)
(* user exists, and the OAuth state it came with is used up and its alone. *)
(***************************************************************************)
EXTENDS Accounts, SequenceTheorems, TLAPS

UserRow    == [name : Names, flags : FlagType]
SessionRow == [user : Nat, live : BOOLEAN, seen : Nat, until : Nat, state : Nat]

(* The tables and what refers to them keep their shape.                       *)
Shape ==
  /\ users \in Seq(UserRow)
  /\ sessions \in Seq(SessionRow)
  /\ \A s \in 1 .. Len(sessions) : sessions[s].user \in UserIds
  /\ linked \in [Identities -> 0 .. Len(users)]
  /\ states \in Seq(BOOLEAN)
  /\ policy \in Policies
  /\ waiting \in [Slots -> RequestType]
  /\ now \in Nat
  /\ told \in Seq(FlagType) /\ Len(told) = Len(users)
  /\ ended \subseteq 1 .. Len(sessions)
  /\ madeFor \in Seq(Identities \cup {Local}) /\ Len(madeFor) = Len(users)

(* A session's row says when it ends, and is there until it was ended.        *)
Rows ==
  \A s \in 1 .. Len(sessions) :
    /\ sessions[s].until = sessions[s].seen + SessionTTL
    /\ sessions[s].live <=> s \notin ended

(* An OAuth state that made a session or is on its way to make one is used    *)
(* up, and by nobody else.                                                    *)
StateUsed ==
  /\ \A s \in 1 .. Len(sessions) :
       /\ sessions[s].state \in 0 .. Len(states)
       /\ sessions[s].state # 0 => states[sessions[s].state]
  /\ OneSessionPerState
  /\ \A r \in Slots : Waits(r, "callback") =>
       /\ waiting[r].state \in 1 .. Len(states) /\ states[waiting[r].state]
       /\ \A s \in 1 .. Len(sessions) : sessions[s].state # waiting[r].state
       /\ \A q \in Slots : Waits(q, "callback") /\ waiting[q].state = waiting[r].state => q = r

(* An identity and the user made for it know each other.                      *)
Linked ==
  /\ \A u \in UserIds : madeFor[u] # Local => linked[madeFor[u]] = u
  /\ \A i \in Identities : linked[i] # 0 => madeFor[linked[i]] = i

AccountsInv == Shape /\ Rows /\ StateUsed /\ Linked /\ AnswersHold

--------------------------------------------------------------------------------
(* The request that waits. *)

LEMMA RequestShape ==
  ASSUME NEW q \in RequestType
  PROVE  /\ q.kind = "login" => q = [kind |-> "login", user |-> q.user] /\ q.user \in UserIds
         /\ q.kind \in {"register", "bootstrap", "create"} =>
              /\ q = [kind |-> q.kind, name |-> q.name, admin |-> q.admin]
              /\ q.name \in Names \cup {""} /\ q.admin \in BOOLEAN
         /\ q.kind = "patch" => q.user \in UserIds /\ q.patch \in Patches
         /\ q.kind = "policy" => q.change \in Changes
         /\ q.kind = "callback" => q.state \in 1 .. Len(states)
<1> DEFINE logins == [kind : {"login"}, user : UserIds]
           accounts == [kind : {"register", "bootstrap", "create"}, name : Names \cup {""}, admin : BOOLEAN]
           patches == [kind : {"patch"}, user : UserIds, patch : Patches]
           policies == [kind : {"policy"}, change : Changes]
           callbacks == [kind : {"callback"}, state : 1 .. Len(states)]
<1>1. q = Idle \/ q \in logins \/ q \in accounts \/ q \in patches \/ q \in policies \/ q \in callbacks
  BY DEF RequestType
<1>2. CASE q = Idle BY <1>2 DEF Idle
<1>3. CASE q \in logins BY <1>3
<1>4. CASE q \in accounts BY <1>4
<1>5. CASE q \in patches BY <1>5
<1>6. CASE q \in policies BY <1>6
<1>7. CASE q \in callbacks BY <1>7
<1> QED BY <1>1, <1>2, <1>3, <1>4, <1>5, <1>6, <1>7

\* More users and states take away no request's shape.
LEMMA RequestsStay ==
  ASSUME NEW q \in RequestType, Len(users) \in Nat, Len(states) \in Nat,
         Len(users') \in Nat, Len(states') \in Nat,
         Len(users) <= Len(users'), Len(states) <= Len(states')
  PROVE  q \in RequestType'
<1>1. UserIds \subseteq UserIds' /\ 1 .. Len(states) \subseteq 1 .. Len(states')
  BY DEF UserIds
<1> QED BY <1>1 DEF RequestType, Idle

LEMMA InitShape == Init => AccountsInv
<1> SUFFICES ASSUME Init PROVE AccountsInv OBVIOUS
<1>1. policy \in Policies BY BodiesAssumption DEF Init
<1>2. Idle \in RequestType BY DEF RequestType
<1>3. Idle.kind = "idle" BY DEF Idle
<1>4. Shape BY <1>1, <1>2 DEF Init, Shape
<1>5. Rows /\ StateUsed /\ Linked /\ AnswersHold
  BY <1>3 DEF Init, Rows, StateUsed, OneSessionPerState, Linked, AnswersHold, UserIds, Waits
<1> QED BY <1>4, <1>5 DEF AccountsInv

--------------------------------------------------------------------------------
(* What steps do to the table of sessions. *)

\* The rows there were are about the same users and states.
SessionsStay ==
  /\ sessions' \in Seq(SessionRow)
  /\ Len(sessions) <= Len(sessions')
  /\ \A s \in 1 .. Len(sessions) : sessions'[s].user = sessions[s].user /\ sessions'[s].state = sessions[s].state

\* ... and there is no other.
SessionsSame == SessionsStay /\ Len(sessions') = Len(sessions)

LEMMA FoundRow ==
  ASSUME Shape, NEW s, Present(s)
  PROVE  s \in 1 .. Len(sessions) /\ sessions[s] \in SessionRow /\ Len(sessions) \in Nat
BY DEF Shape, Present

LEMMA Extended ==
  ASSUME AccountsInv, NEW s, Found(s), sessions' = TouchSession(s), ended' = ended
  PROVE  SessionsSame /\ Rows' /\ Len(sessions') = Len(sessions)
<1> USE DEF AccountsInv
<1>1. s \in 1 .. Len(sessions) /\ sessions[s] \in SessionRow /\ Len(sessions) \in Nat
  BY FoundRow DEF Found
<1> DEFINE row == [sessions[s] EXCEPT !.seen = now, !.until = now + SessionTTL]
<1>2. /\ row \in SessionRow
      /\ row.user = sessions[s].user /\ row.state = sessions[s].state /\ row.live = sessions[s].live
      /\ row.until = row.seen + SessionTTL
  <2>1. now \in Nat /\ now + SessionTTL \in Nat BY AccountsAssumption DEF Shape
  <2> QED BY <1>1, <2>1 DEF SessionRow
<1>3. sessions' = [sessions EXCEPT ![s] = row]
  BY <1>1 DEF TouchSession, Shape
<1> HIDE DEF row
<1>4. /\ sessions' \in Seq(SessionRow) /\ Len(sessions') = Len(sessions)
      /\ \A j \in 1 .. Len(sessions) : sessions'[j] = IF j = s THEN row ELSE sessions[j]
  BY <1>1, <1>2, <1>3, ExceptSeq DEF Shape
<1> QED BY <1>1, <1>2, <1>4 DEF SessionsSame, SessionsStay, Rows

\* The row is deleted, by the guard that refuses it or by a logout.
LEMMA Ended ==
  ASSUME AccountsInv, NEW s, Present(s), ended' = ended \cup {s},
         \/ sessions' = [sessions EXCEPT ![s].live = FALSE]
         \/ sessions' = [TouchSession(s) EXCEPT ![s].live = FALSE]
  PROVE  SessionsSame /\ Rows' /\ ended' \subseteq 1 .. Len(sessions')
<1> USE DEF AccountsInv
<1>1. s \in 1 .. Len(sessions) /\ sessions[s] \in SessionRow /\ Len(sessions) \in Nat
  BY FoundRow
<1> DEFINE kept == [sessions[s] EXCEPT !.live = FALSE]
           used == [sessions[s] EXCEPT !.seen = now, !.until = now + SessionTTL]
           gone == [used EXCEPT !.live = FALSE]
<1>2. /\ used \in SessionRow /\ used.until = used.seen + SessionTTL
      /\ used.user = sessions[s].user /\ used.state = sessions[s].state
  <2>1. now \in Nat /\ now + SessionTTL \in Nat BY AccountsAssumption DEF Shape
  <2> QED BY <1>1, <2>1 DEF SessionRow
<1>3. \A row \in {kept, gone} :
        /\ row \in SessionRow /\ row.live = FALSE /\ row.until = row.seen + SessionTTL
        /\ row.user = sessions[s].user /\ row.state = sessions[s].state
  <2>1. /\ kept \in SessionRow /\ kept.live = FALSE /\ kept.until = kept.seen + SessionTTL
        /\ kept.user = sessions[s].user /\ kept.state = sessions[s].state
    BY <1>1 DEF SessionRow, Rows
  <2> HIDE DEF used
  <2>2. /\ gone \in SessionRow /\ gone.live = FALSE /\ gone.until = gone.seen + SessionTTL
        /\ gone.user = sessions[s].user /\ gone.state = sessions[s].state
    BY <1>2 DEF SessionRow
  <2> QED BY <2>1, <2>2
<1>4. \E row \in {kept, gone} : sessions' = [sessions EXCEPT ![s] = row]
  <2>1. sessions \in [1 .. Len(sessions) -> SessionRow] BY DEF Shape
  <2>2. [sessions EXCEPT ![s].live = FALSE] = [sessions EXCEPT ![s] = kept] BY <1>1, <2>1
  <2>3. TouchSession(s) = [sessions EXCEPT ![s] = used] BY <1>1, <2>1 DEF TouchSession
  <2> HIDE DEF used
  <2>4. [TouchSession(s) EXCEPT ![s].live = FALSE] = [sessions EXCEPT ![s] = gone] BY <1>1, <2>1, <2>3
  <2> QED BY <2>2, <2>4
<1> HIDE DEF kept, gone
<1>5. PICK row \in {kept, gone} : sessions' = [sessions EXCEPT ![s] = row] BY <1>4
<1>6. /\ sessions' \in Seq(SessionRow) /\ Len(sessions') = Len(sessions)
      /\ \A j \in 1 .. Len(sessions) : sessions'[j] = IF j = s THEN row ELSE sessions[j]
  BY <1>1, <1>3, <1>5, ExceptSeq DEF Shape
<1>7. ended' \subseteq 1 .. Len(sessions')
  BY <1>1, <1>6 DEF Shape
<1>8. SessionsSame
  BY <1>1, <1>3, <1>6 DEF SessionsSame, SessionsStay
<1>9. Rows'
  BY <1>1, <1>3, <1>6 DEF Rows
<1> QED BY <1>7, <1>8, <1>9

LEMMA Opened ==
  ASSUME AccountsInv, NEW u \in Nat, NEW state \in Nat, NewSession(u, state), ended' = ended
  PROVE  /\ SessionsStay /\ Rows' /\ Len(sessions') = Len(sessions) + 1
         /\ sessions'[Len(sessions) + 1].user = u /\ sessions'[Len(sessions) + 1].state = state
<1> USE DEF AccountsInv
<1> DEFINE row == [user |-> u, live |-> TRUE, seen |-> now, until |-> now + SessionTTL, state |-> state]
<1>1. row \in SessionRow /\ row.user = u /\ row.state = state /\ row.live /\ row.until = row.seen + SessionTTL
  BY AccountsAssumption DEF SessionRow, Shape
<1>2. sessions' = Append(sessions, row) /\ Len(sessions) \in Nat
  BY DEF NewSession, Shape
<1> HIDE DEF row
<1>3. /\ sessions' \in Seq(SessionRow) /\ Len(sessions') = Len(sessions) + 1
      /\ \A j \in 1 .. Len(sessions) : sessions'[j] = sessions[j]
      /\ sessions'[Len(sessions) + 1] = row
  BY <1>1, <1>2, AppendProperties DEF Shape
<1>4. SessionsStay
  BY <1>2, <1>3 DEF SessionsStay
<1>5. Rows'
  <2> SUFFICES ASSUME NEW s \in 1 .. Len(sessions')
               PROVE  /\ sessions'[s].until = sessions'[s].seen + SessionTTL
                      /\ sessions'[s].live <=> s \notin ended'
    BY DEF Rows
  <2>1. CASE s \in 1 .. Len(sessions) BY <1>3, <2>1 DEF Rows
  <2>2. CASE s = Len(sessions) + 1
    <3>1. s \notin ended BY <1>2, <2>2 DEF Shape
    <3> QED BY <1>1, <1>3, <2>2, <3>1
  <2> QED BY <1>2, <1>3, <2>1, <2>2
<1> QED BY <1>1, <1>3, <1>4, <1>5

--------------------------------------------------------------------------------
(* What steps do to the table of users. *)

\* No user is taken away, and no identity's.
UsersStay ==
  /\ users' \in Seq(UserRow) /\ told' \in Seq(FlagType) /\ madeFor' \in Seq(Identities \cup {Local})
  /\ Len(told') = Len(users') /\ Len(madeFor') = Len(users')
  /\ Len(users) <= Len(users')
  /\ \A u \in UserIds : madeFor'[u] = madeFor[u]

LEMMA UserMade ==
  ASSUME AccountsInv, NEW name \in Names, NEW flags \in FlagType, NEW i \in Identities \cup {Local},
         CreateUser(name, flags, i)
  PROVE  /\ UsersStay /\ AnswersHold' /\ Len(users') = Len(users) + 1
         /\ madeFor'[Len(users) + 1] = i
<1> USE DEF AccountsInv
<1> DEFINE row == [name |-> name, flags |-> flags]
<1>1. row \in UserRow /\ row.name = name /\ row.flags = flags BY DEF UserRow
<1>2. /\ users' = Append(users, row) /\ told' = Append(told, flags) /\ madeFor' = Append(madeFor, i)
      /\ Len(users) \in Nat /\ name \notin Taken
  BY DEF CreateUser, Shape
<1> HIDE DEF row
<1>3. /\ users' \in Seq(UserRow) /\ Len(users') = Len(users) + 1
      /\ \A j \in 1 .. Len(users) : users'[j] = users[j]
      /\ users'[Len(users) + 1] = row
  BY <1>1, <1>2, AppendProperties DEF Shape
<1>4. /\ told' \in Seq(FlagType) /\ Len(told') = Len(users) + 1
      /\ \A j \in 1 .. Len(users) : told'[j] = told[j]
      /\ told'[Len(users) + 1] = flags
  BY <1>2, AppendProperties DEF Shape
<1>5. /\ madeFor' \in Seq(Identities \cup {Local}) /\ Len(madeFor') = Len(users) + 1
      /\ \A j \in 1 .. Len(users) : madeFor'[j] = madeFor[j]
      /\ madeFor'[Len(users) + 1] = i
  BY <1>2, AppendProperties DEF Shape
<1>6. UsersStay BY <1>2, <1>3, <1>4, <1>5 DEF UsersStay, UserIds
<1>7. \A u \in UserIds : users[u].name # name BY <1>2 DEF Taken
<1>8. \A u \in UserIds' : u \in UserIds \/ u = Len(users) + 1 BY <1>2, <1>3 DEF UserIds
<1>9. AnswersHold'
  <2>1. \A u \in UserIds' : users'[u].flags = told'[u]
    BY <1>1, <1>3, <1>4, <1>8 DEF AnswersHold, UserIds
  <2>2. \A u, v \in UserIds' : users'[u].name = users'[v].name => u = v
    BY <1>1, <1>3, <1>7, <1>8 DEF AnswersHold, UserIds
  <2> QED BY <2>1, <2>2 DEF AnswersHold
<1> QED BY <1>3, <1>5, <1>6, <1>9

LEMMA SetFlags ==
  ASSUME NEW flags \in FlagType, NEW patch \in Patches
  PROVE  Set(flags, patch) \in FlagType
<1>1. PICK some \in SUBSET FlagNames : patch \in [some -> BOOLEAN]
  BY BodiesAssumption DEF Bodies
<1> QED BY <1>1 DEF Set, FlagType

LEMMA UserPatched ==
  ASSUME AccountsInv, NEW r \in Slots, EndPatch(r)
  PROVE  UsersStay /\ AnswersHold' /\ Len(users') = Len(users)
<1> USE DEF AccountsInv
<1> DEFINE u == waiting[r].user
           patch == waiting[r].patch
           flags == Set(users[u].flags, patch)
           row == [users[u] EXCEPT !.flags = flags]
<1>1. u \in UserIds /\ patch \in Patches
  BY RequestShape DEF EndPatch, Waits, Shape
<1>2. Len(users) \in Nat /\ users[u] \in UserRow /\ told[u] = users[u].flags /\ u \in 1 .. Len(users)
  BY <1>1 DEF UserIds, Shape, AnswersHold
<1>3. flags \in FlagType BY <1>1, <1>2, SetFlags DEF UserRow
<1> HIDE DEF flags
<1>4. row \in UserRow /\ row.flags = flags /\ row.name = users[u].name BY <1>2, <1>3 DEF UserRow
<1>5. users' = [users EXCEPT ![u] = row] /\ told' = [told EXCEPT ![u] = flags] /\ madeFor' = madeFor
  <2>1. /\ users' = [users EXCEPT ![u].flags = Set(@, patch)]
        /\ told' = [told EXCEPT ![u] = Set(@, patch)] /\ madeFor' = madeFor
    BY DEF EndPatch
  <2>2. users \in [1 .. Len(users) -> UserRow] /\ told \in [1 .. Len(users) -> FlagType] BY DEF Shape
  <2> QED BY <1>2, <2>1, <2>2 DEF flags
<1> HIDE DEF row
<1>6. /\ users' \in Seq(UserRow) /\ Len(users') = Len(users)
      /\ \A j \in 1 .. Len(users) : users'[j] = IF j = u THEN row ELSE users[j]
  BY <1>2, <1>4, <1>5, ExceptSeq DEF Shape
<1>7. /\ told' \in Seq(FlagType) /\ Len(told') = Len(users)
      /\ \A j \in 1 .. Len(users) : told'[j] = IF j = u THEN flags ELSE told[j]
  BY <1>2, <1>3, <1>5, ExceptSeq DEF Shape
<1>8. UsersStay BY <1>2, <1>5, <1>6, <1>7 DEF UsersStay, Shape
<1>9. AnswersHold' BY <1>2, <1>4, <1>6, <1>7 DEF AnswersHold, UserIds
<1> QED BY <1>6, <1>8, <1>9

\* Users that stay leave the identities linked to them.
LEMMA LinksStay ==
  ASSUME AccountsInv, UsersStay, Len(users') = Len(users), linked' = linked PROVE Linked'
BY DEF AccountsInv, UsersStay, Linked, UserIds, Shape

--------------------------------------------------------------------------------
(* The steps. *)

\* Requests go on, end, or begin that are no sign-in through the provider.
WaitingPlain ==
  \/ waiting' = waiting
  \/ \E r \in Slots : \E q \in RequestType : q.kind # "callback" /\ waiting' = [waiting EXCEPT ![r] = q]

LEMMA WaitingKept ==
  ASSUME AccountsInv, WaitingPlain, Len(users) <= Len(users'), Len(users') \in Nat,
         Len(states) <= Len(states'), Len(states') \in Nat
  PROVE  /\ waiting' \in [Slots -> RequestType']
         /\ \A r \in Slots : waiting'[r] = waiting[r] \/ waiting'[r].kind # "callback"
<1>1. waiting' \in [Slots -> RequestType] BY DEF AccountsInv, Shape, WaitingPlain
<1>2. \A q \in RequestType : q \in RequestType' BY RequestsStay DEF AccountsInv, Shape
<1>3. \A r \in Slots : waiting'[r] = waiting[r] \/ waiting'[r].kind # "callback"
  BY DEF AccountsInv, Shape, WaitingPlain
<1> QED BY <1>1, <1>2, <1>3

\* Sessions that were made for no state leave the states as they are.
LEMMA StateKept ==
  ASSUME AccountsInv, SessionsStay, states' \in Seq(BOOLEAN), Len(states) <= Len(states'),
         \A st \in 1 .. Len(states) : states[st] => states'[st],
         \A s \in 1 .. Len(sessions') : s \in 1 .. Len(sessions) \/ sessions'[s].state = 0,
         \A r \in Slots : waiting'[r] = waiting[r] \/ waiting'[r].kind # "callback"
  PROVE  StateUsed'
<1> USE DEF AccountsInv
<1>1. Len(states) \in Nat /\ Len(states') \in Nat BY DEF Shape
<1>2. \A s \in 1 .. Len(sessions') :
        (s \in 1 .. Len(sessions) /\ sessions'[s].state = sessions[s].state) \/ sessions'[s].state = 0
  BY DEF SessionsStay
<1>3. \A s \in 1 .. Len(sessions') :
        /\ sessions'[s].state \in 0 .. Len(states')
        /\ sessions'[s].state # 0 => states'[sessions'[s].state]
  BY <1>1, <1>2 DEF StateUsed
<1>4. OneSessionPerState'
  BY <1>2 DEF StateUsed, OneSessionPerState
<1>5. ASSUME NEW r \in Slots, Waits(r, "callback")'
      PROVE  /\ waiting'[r].state \in 1 .. Len(states') /\ states'[waiting'[r].state]
             /\ \A s \in 1 .. Len(sessions') : sessions'[s].state # waiting'[r].state
             /\ \A q \in Slots : Waits(q, "callback")' /\ waiting'[q].state = waiting'[r].state => q = r
  <2>1. \A q \in Slots : Waits(q, "callback")' => waiting'[q] = waiting[q] /\ Waits(q, "callback")
    BY DEF Waits
  <2>2. waiting[r].state \in 1 .. Len(states) /\ states[waiting[r].state]
    BY <1>5, <2>1 DEF StateUsed
  <2>3. \A s \in 1 .. Len(sessions') : sessions'[s].state # waiting[r].state
    BY <1>1, <1>2, <1>5, <2>1, <2>2 DEF StateUsed
  <2>4. \A q \in Slots : Waits(q, "callback")' /\ waiting'[q].state = waiting'[r].state => q = r
    BY <1>5, <2>1 DEF StateUsed
  <2> QED BY <1>1, <1>5, <2>1, <2>2, <2>3, <2>4
<1> QED BY <1>3, <1>4, <1>5 DEF StateUsed

LEMMA ShapeKept ==
  ASSUME AccountsInv, SessionsStay, UsersStay,
         \A s \in 1 .. Len(sessions') : s \in 1 .. Len(sessions) \/ sessions'[s].user \in UserIds',
         linked' \in [Identities -> 0 .. Len(users')],
         states' \in Seq(BOOLEAN), policy' \in Policies, waiting' \in [Slots -> RequestType'], now' \in Nat,
         ended' \subseteq 1 .. Len(sessions')
  PROVE  Shape'
<1>1. Len(users) \in Nat /\ Len(users') \in Nat /\ UserIds \subseteq UserIds'
  BY DEF AccountsInv, Shape, UsersStay, UserIds
<1>2. \A s \in 1 .. Len(sessions') : sessions'[s].user \in UserIds'
  BY <1>1 DEF AccountsInv, Shape, SessionsStay
<1> QED BY <1>1, <1>2 DEF Shape, SessionsStay, UsersStay

\* A step that makes neither a user nor a session.
LEMMA TameStep ==
  ASSUME AccountsInv, SessionsSame, Rows', ended' \subseteq 1 .. Len(sessions'),
         UsersStay, AnswersHold', Len(users') = Len(users), linked' = linked,
         policy' \in Policies, now' \in Nat,
         states' \in Seq(BOOLEAN), Len(states) <= Len(states'),
         \A st \in 1 .. Len(states) : states'[st] = states[st], WaitingPlain
  PROVE  AccountsInv'
<1>1. /\ waiting' \in [Slots -> RequestType']
      /\ \A r \in Slots : waiting'[r] = waiting[r] \/ waiting'[r].kind # "callback"
  BY WaitingKept DEF AccountsInv, Shape, UsersStay
<1>2. linked' \in [Identities -> 0 .. Len(users')] BY DEF AccountsInv, Shape
<1>3. \A s \in 1 .. Len(sessions') : s \in 1 .. Len(sessions) BY DEF SessionsSame
<1>4. SessionsStay BY DEF SessionsSame
<1>5. Shape' BY <1>1, <1>2, <1>3, <1>4, ShapeKept
<1>6. StateUsed' BY <1>1, <1>3, <1>4, StateKept
<1>7. Linked' BY LinksStay
<1> QED BY <1>5, <1>6, <1>7 DEF AccountsInv

\* Nothing happens to the tables that the others refer to.
LEMMA UsersUnchanged ==
  ASSUME AccountsInv, UNCHANGED <<users, told, madeFor>>
  PROVE  UsersStay /\ AnswersHold' /\ Len(users') = Len(users)
BY DEF AccountsInv, Shape, UsersStay, AnswersHold, UserIds

LEMMA SessionsUnchanged ==
  ASSUME AccountsInv, UNCHANGED <<sessions, ended>>
  PROVE  SessionsSame /\ Rows' /\ ended' \subseteq 1 .. Len(sessions')
BY DEF AccountsInv, Shape, SessionsSame, SessionsStay, Rows

LEMMA StatesUnchanged ==
  ASSUME AccountsInv, UNCHANGED states
  PROVE  /\ states' \in Seq(BOOLEAN) /\ Len(states) <= Len(states')
         /\ \A st \in 1 .. Len(states) : states'[st] = states[st]
BY DEF AccountsInv, Shape

\* A request that begins has its shape.
LEMMA AsksTyped ==
  /\ Idle \in RequestType /\ Idle.kind = "idle"
  /\ \A u \in UserIds : [kind |-> "login", user |-> u] \in RequestType
  /\ \A kind \in {"register", "bootstrap", "create"}, name \in Names \cup {""}, admin \in BOOLEAN :
       [kind |-> kind, name |-> name, admin |-> admin] \in RequestType
  /\ \A u \in UserIds, patch \in Patches : [kind |-> "patch", user |-> u, patch |-> patch] \in RequestType
  /\ \A change \in Changes : [kind |-> "policy", change |-> change] \in RequestType
  /\ \A st \in 1 .. Len(states) : [kind |-> "callback", state |-> st] \in RequestType
BY DEF RequestType, Idle

\* Steps without a session: time, a sign-in that begins, requests that begin,
\* go on or give up.
LEMMA OpenStep ==
  ASSUME AccountsInv,
         \/ Tick \/ BeginOAuth
         \/ \E r \in Slots :
              \/ GiveUp(r) \/ EndPolicy(r)
              \/ \E u \in 1 .. MaxUsers : AskLogin(r, u)
              \/ \E kind \in {"register", "bootstrap"} : AskAccount(r, kind)
              \/ \E name \in Names : NameAccount(r, name)
  PROVE  AccountsInv'
<1>1. CASE Tick
  <2>1. UNCHANGED <<users, sessions, linked, states, policy, waiting, told, ended, madeFor>> /\ now' = now + 1
    BY <1>1 DEF Tick, rows, history
  <2>2. WaitingPlain /\ policy' \in Policies /\ now' \in Nat BY <2>1 DEF WaitingPlain, AccountsInv, Shape
  <2> QED BY <2>1, <2>2, TameStep, UsersUnchanged, SessionsUnchanged, StatesUnchanged
<1>2. CASE BeginOAuth
  <2>1. UNCHANGED <<users, sessions, linked, policy, waiting, now, told, ended, madeFor>>
        /\ states' = Append(states, FALSE)
    BY <1>2 DEF BeginOAuth, history
  <2>2. WaitingPlain /\ policy' \in Policies /\ now' \in Nat BY <2>1 DEF WaitingPlain, AccountsInv, Shape
  <2>3. /\ states' \in Seq(BOOLEAN) /\ Len(states) <= Len(states')
        /\ \A st \in 1 .. Len(states) : states'[st] = states[st]
    BY <2>1 DEF AccountsInv, Shape
  <2> QED BY <2>1, <2>2, <2>3, TameStep, UsersUnchanged, SessionsUnchanged
<1>3. ASSUME NEW r \in Slots, GiveUp(r) PROVE AccountsInv'
  <2>1. UNCHANGED <<users, sessions, linked, states, policy, now, told, ended, madeFor>>
    BY <1>3 DEF GiveUp, rows, history
  <2>2. WaitingPlain BY <1>3, AsksTyped DEF WaitingPlain, GiveUp, Done
  <2>3. policy' \in Policies /\ now' \in Nat BY <2>1 DEF AccountsInv, Shape
  <2> QED BY <2>1, <2>2, <2>3, TameStep, UsersUnchanged, SessionsUnchanged, StatesUnchanged
<1>4. ASSUME NEW r \in Slots, EndPolicy(r) PROVE AccountsInv'
  <2>1. UNCHANGED <<users, sessions, linked, states, now, told, ended, madeFor>>
    BY <1>4 DEF EndPolicy, history
  <2>2. WaitingPlain BY <1>4, AsksTyped DEF WaitingPlain, EndPolicy, Done
  <2>3. waiting[r].change \in Changes BY <1>4, RequestShape DEF EndPolicy, Waits, AccountsInv, Shape
  <2>4. PICK some \in SUBSET {"register", "oauth"} : waiting[r].change \in [some -> BOOLEAN]
    BY <2>3, BodiesAssumption DEF Bodies
  <2>5. policy \in Policies BY DEF AccountsInv, Shape
  <2>6. policy' \in Policies
    BY <1>4, <2>4, <2>5 DEF EndPolicy, Set, Policies
  <2>7. now' \in Nat BY <2>1 DEF AccountsInv, Shape
  <2> QED BY <2>1, <2>2, <2>6, <2>7, TameStep, UsersUnchanged, SessionsUnchanged, StatesUnchanged
<1>5. ASSUME NEW r \in Slots, NEW q \in RequestType, q.kind # "callback",
             waiting' = [waiting EXCEPT ![r] = q], UNCHANGED <<rows, now, history>>
      PROVE  AccountsInv'
  <2>1. UNCHANGED <<users, sessions, linked, states, policy, now, told, ended, madeFor>>
    BY <1>5 DEF rows, history
  <2>2. WaitingPlain BY <1>5 DEF WaitingPlain
  <2>3. policy' \in Policies /\ now' \in Nat BY <2>1 DEF AccountsInv, Shape
  <2> QED BY <2>1, <2>2, <2>3, TameStep, UsersUnchanged, SessionsUnchanged, StatesUnchanged
<1>6. ASSUME NEW r \in Slots, NEW u \in 1 .. MaxUsers, AskLogin(r, u) PROVE AccountsInv'
  <2> DEFINE q == [kind |-> "login", user |-> u]
  <2>1. q \in RequestType /\ q.kind # "callback" BY <1>6, AsksTyped DEF AskLogin
  <2>2. waiting' = [waiting EXCEPT ![r] = q] /\ UNCHANGED <<rows, now, history>> BY <1>6 DEF AskLogin, Await
  <2> HIDE DEF q
  <2> QED BY <1>5, <2>1, <2>2
<1>7. ASSUME NEW r \in Slots, NEW kind \in {"register", "bootstrap"}, AskAccount(r, kind) PROVE AccountsInv'
  <2> DEFINE q == [kind |-> kind, name |-> "", admin |-> (kind = "bootstrap")]
  <2>1. q \in RequestType /\ q.kind # "callback" BY AsksTyped
  <2>2. waiting' = [waiting EXCEPT ![r] = q] /\ UNCHANGED <<rows, now, history>> BY <1>7 DEF AskAccount, Await
  <2> HIDE DEF q
  <2> QED BY <1>5, <2>1, <2>2
<1>8. ASSUME NEW r \in Slots, NEW name \in Names, NameAccount(r, name) PROVE AccountsInv'
  <2> DEFINE q == [waiting[r] EXCEPT !.name = name]
  <2>1. waiting[r] \in RequestType /\ waiting[r].kind \in {"register", "bootstrap", "create"}
    BY <1>8 DEF NameAccount, AccountsInv, Shape
  <2>2. /\ waiting[r] = [kind |-> waiting[r].kind, name |-> waiting[r].name, admin |-> waiting[r].admin]
        /\ waiting[r].admin \in BOOLEAN
    BY <2>1, RequestShape
  <2>3. q = [kind |-> waiting[r].kind, name |-> name, admin |-> waiting[r].admin] BY <2>2
  <2> HIDE DEF q
  <2>4. q \in RequestType /\ q.kind # "callback"
    <3>1. name \in Names \cup {""} OBVIOUS
    <3>2. [kind |-> waiting[r].kind, name |-> name, admin |-> waiting[r].admin] \in RequestType
      BY <2>1, <2>2, <3>1, AsksTyped
    <3> QED BY <2>1, <2>3, <3>2
  <2>5. waiting' = [waiting EXCEPT ![r] = q] /\ UNCHANGED <<rows, now, history>>
    BY <1>8 DEF NameAccount, AccountsInv, Shape, q
  <2> QED BY <1>5, <2>4, <2>5
<1> QED BY <1>1, <1>2, <1>3, <1>4, <1>6, <1>7, <1>8

\* Steps of a session.
LEMMA SessionKeeps ==
  ASSUME AccountsInv, NEW s \in 1 .. MaxSessions, SessionStep(s) PROVE AccountsInv'
<1>1. policy \in Policies /\ now \in Nat BY DEF AccountsInv, Shape
<1>2. CASE Refuse(s)
  <2>1. /\ UNCHANGED <<users, linked, states, policy, waiting, now, told, madeFor>>
        /\ Present(s) /\ sessions' = [sessions EXCEPT ![s].live = FALSE] /\ ended' = ended \cup {s}
    BY <1>2 DEF Refuse
  <2>2. SessionsSame /\ Rows' /\ ended' \subseteq 1 .. Len(sessions') BY <2>1, Ended
  <2>3. WaitingPlain BY <2>1 DEF WaitingPlain
  <2> QED BY <1>1, <2>1, <2>2, <2>3, TameStep, UsersUnchanged, StatesUnchanged
<1>3. CASE Logout(s)
  <2>1. /\ UNCHANGED <<users, linked, states, policy, waiting, now, told, madeFor>>
        /\ Present(s) /\ sessions' = [TouchSession(s) EXCEPT ![s].live = FALSE] /\ ended' = ended \cup {s}
    BY <1>3 DEF Logout, Found
  <2>2. SessionsSame /\ Rows' /\ ended' \subseteq 1 .. Len(sessions') BY <2>1, Ended
  <2>3. WaitingPlain BY <2>1 DEF WaitingPlain
  <2> QED BY <1>1, <2>1, <2>2, <2>3, TameStep, UsersUnchanged, StatesUnchanged
<1>4. ASSUME Guarded(s), WaitingPlain, UNCHANGED <<users, linked, states, policy, now, history>>
      PROVE  AccountsInv'
  <2>1. UNCHANGED <<users, linked, states, policy, now, told, ended, madeFor>> BY <1>4 DEF history
  <2>2. SessionsSame /\ Rows' /\ Len(sessions') = Len(sessions) BY <1>4, <2>1, Extended DEF Guarded
  <2>3. ended' \subseteq 1 .. Len(sessions') BY <2>1, <2>2 DEF AccountsInv, Shape
  <2> QED BY <1>1, <1>4, <2>1, <2>2, <2>3, TameStep, UsersUnchanged, StatesUnchanged
<1>5. CASE Browse(s)
  BY <1>4, <1>5 DEF Browse, WaitingPlain
<1>6. ASSUME NEW r \in Slots, NEW admin \in Grants, AskCreate(r, s, admin) PROVE AccountsInv'
  <2> DEFINE q == [kind |-> "create", name |-> "", admin |-> admin]
  <2>1. q \in RequestType /\ q.kind # "callback" BY AsksTyped, BodiesAssumption
  <2>2. waiting' = [waiting EXCEPT ![r] = q] BY <1>6 DEF AskCreate, Await
  <2> HIDE DEF q
  <2>3. WaitingPlain BY <2>1, <2>2 DEF WaitingPlain
  <2> QED BY <1>4, <1>6, <2>3 DEF AskCreate, GuardedAdmin
<1>7. ASSUME NEW r \in Slots, NEW u \in 1 .. MaxUsers, NEW patch \in Patches, AskPatch(r, s, u, patch)
      PROVE  AccountsInv'
  <2> DEFINE q == [kind |-> "patch", user |-> u, patch |-> patch]
  <2>1. q \in RequestType /\ q.kind # "callback" BY <1>7, AsksTyped DEF AskPatch
  <2>2. waiting' = [waiting EXCEPT ![r] = q] BY <1>7 DEF AskPatch, Await
  <2> HIDE DEF q
  <2>3. WaitingPlain BY <2>1, <2>2 DEF WaitingPlain
  <2> QED BY <1>4, <1>7, <2>3 DEF AskPatch, GuardedAdmin
<1>8. ASSUME NEW r \in Slots, NEW change \in Changes, AskPolicy(r, s, change) PROVE AccountsInv'
  <2> DEFINE q == [kind |-> "policy", change |-> change]
  <2>1. q \in RequestType /\ q.kind # "callback" BY AsksTyped
  <2>2. waiting' = [waiting EXCEPT ![r] = q] BY <1>8 DEF AskPolicy, Await
  <2> HIDE DEF q
  <2>3. WaitingPlain BY <2>1, <2>2 DEF WaitingPlain
  <2> QED BY <1>4, <1>8, <2>3 DEF AskPolicy, GuardedAdmin
<1> QED BY <1>2, <1>3, <1>5, <1>6, <1>7, <1>8 DEF SessionStep

\* A session is made for a user, for no OAuth state, with or without the user.
LEMMA SignsIn ==
  ASSUME AccountsInv, SessionsStay, Rows', Len(sessions') = Len(sessions) + 1,
         sessions'[Len(sessions) + 1].user \in UserIds', sessions'[Len(sessions) + 1].state = 0,
         UsersStay, AnswersHold', Linked', WaitingPlain, UNCHANGED <<linked, states, policy, now, ended>>
  PROVE  AccountsInv'
<1>1. /\ waiting' \in [Slots -> RequestType']
      /\ \A r \in Slots : waiting'[r] = waiting[r] \/ waiting'[r].kind # "callback"
  BY WaitingKept DEF AccountsInv, Shape, UsersStay
<1>2. Len(sessions) \in Nat /\ Len(users) \in Nat /\ Len(users') \in Nat BY DEF AccountsInv, Shape, UsersStay
<1>3. \A s \in 1 .. Len(sessions') : s \in 1 .. Len(sessions) \/ s = Len(sessions) + 1 BY <1>2
<1>4. /\ linked' \in [Identities -> 0 .. Len(users')] /\ ended' \subseteq 1 .. Len(sessions')
      /\ states' \in Seq(BOOLEAN) /\ policy' \in Policies /\ now' \in Nat
  BY <1>2 DEF AccountsInv, Shape, UsersStay
<1>5. Shape' BY <1>1, <1>3, <1>4, ShapeKept
<1>6. StateUsed' BY <1>1, <1>3, <1>4, StateKept DEF AccountsInv, Shape
<1> QED BY <1>5, <1>6 DEF AccountsInv

LEMMA FlagsTyped ==
  ASSUME NEW admin \in BOOLEAN, NEW pass \in BOOLEAN PROVE Flags(admin, pass) \in FlagType
BY DEF Flags, FlagType, FlagNames

LEMMA LoginKeeps ==
  ASSUME AccountsInv, NEW r \in Slots, EndLogin(r) PROVE AccountsInv'
<1> DEFINE u == waiting[r].user
<1>1. u \in UserIds BY RequestShape DEF EndLogin, Waits, AccountsInv, Shape
<1>2. UNCHANGED <<users, linked, states, policy, now, told, ended, madeFor>> BY DEF EndLogin, history
<1>3. WaitingPlain BY AsksTyped DEF EndLogin, Done, WaitingPlain
<1>4. u \in Nat BY <1>1 DEF UserIds
<1> HIDE DEF u
<1>5. /\ SessionsStay /\ Rows' /\ Len(sessions') = Len(sessions) + 1
      /\ sessions'[Len(sessions) + 1].user = u /\ sessions'[Len(sessions) + 1].state = 0
  BY <1>2, <1>4, Opened DEF EndLogin, u
<1>6. UsersStay /\ AnswersHold' /\ Len(users') = Len(users) BY <1>2, UsersUnchanged
<1>7. Linked' BY <1>2, <1>6, LinksStay
<1>8. u \in UserIds' BY <1>1, <1>2 DEF UserIds
<1> QED BY <1>2, <1>3, <1>5, <1>6, <1>7, <1>8, SignsIn

\* A user with a password: identities know nothing of it.
LEMMA LocalUser ==
  ASSUME AccountsInv, UsersStay, Len(users') = Len(users) + 1, madeFor'[Len(users) + 1] = Local, linked' = linked
  PROVE  Linked'
<1>1. Len(users) \in Nat /\ \A i \in Identities : linked[i] \in 0 .. Len(users) BY DEF AccountsInv, Shape
<1>2. \A u \in UserIds' : u \in UserIds \/ u = Len(users) + 1 BY <1>1 DEF UserIds
<1>3. \A i \in Identities : linked[i] # 0 => linked[i] \in UserIds BY <1>1 DEF UserIds
<1> QED BY <1>1, <1>2, <1>3 DEF AccountsInv, Linked, UsersStay

LEMMA AccountKeeps ==
  ASSUME AccountsInv, NEW r \in Slots, EndAccount(r) PROVE AccountsInv'
<1> DEFINE flags == Flags(waiting[r].admin, TRUE)
           name == waiting[r].name
<1>1. waiting[r].name \in Names /\ waiting[r].admin \in BOOLEAN
  BY RequestShape DEF EndAccount, AccountsInv, Shape
<1>2. flags \in FlagType BY <1>1, FlagsTyped
<1>3. CreateUser(name, flags, Local) /\ UNCHANGED <<linked, states, policy, now, ended>>
  BY DEF EndAccount
<1> HIDE DEF flags, name
<1>4. UsersStay /\ AnswersHold' /\ Len(users') = Len(users) + 1 /\ madeFor'[Len(users) + 1] = Local
  BY <1>1, <1>2, <1>3, UserMade DEF name
<1>5. Linked' BY <1>3, <1>4, LocalUser
<1>6. WaitingPlain BY AsksTyped DEF EndAccount, Done, WaitingPlain
<1>7. Len(users) + 1 \in Nat /\ Len(users) + 1 \in UserIds' /\ Len(users) \in Nat /\ Len(users') \in Nat
  BY <1>4 DEF UserIds, AccountsInv, Shape
<1>8. CASE waiting[r].kind = "create"
  <2>1. UNCHANGED sessions BY <1>8 DEF EndAccount
  <2>2. SessionsSame /\ Rows' /\ ended' \subseteq 1 .. Len(sessions') BY <1>3, <2>1, SessionsUnchanged
  <2>3. /\ waiting' \in [Slots -> RequestType']
        /\ \A q \in Slots : waiting'[q] = waiting[q] \/ waiting'[q].kind # "callback"
    BY <1>3, <1>4, <1>6, <1>7, WaitingKept DEF AccountsInv, Shape
  <2>4. SessionsStay /\ \A s \in 1 .. Len(sessions') : s \in 1 .. Len(sessions) BY <2>2 DEF SessionsSame
  <2>5. /\ linked' \in [Identities -> 0 .. Len(users')]
        /\ states' \in Seq(BOOLEAN) /\ policy' \in Policies /\ now' \in Nat
    BY <1>3, <1>4, <1>7 DEF AccountsInv, Shape
  <2>6. Shape' BY <1>4, <2>2, <2>3, <2>4, <2>5, ShapeKept
  <2>7. StateUsed'
    <3>1. Len(states) <= Len(states') /\ \A st \in 1 .. Len(states) : states[st] => states'[st]
      BY <1>3 DEF AccountsInv, Shape
    <3> QED BY <2>3, <2>4, <2>5, <3>1, StateKept
  <2> QED BY <1>4, <1>5, <2>2, <2>6, <2>7 DEF AccountsInv
<1>9. CASE waiting[r].kind # "create"
  <2>1. NewSession(Len(users) + 1, 0) BY <1>9 DEF EndAccount
  <2>2. /\ SessionsStay /\ Rows' /\ Len(sessions') = Len(sessions) + 1
        /\ sessions'[Len(sessions) + 1].user = Len(users) + 1 /\ sessions'[Len(sessions) + 1].state = 0
    BY <1>3, <1>7, <2>1, Opened
  <2> QED BY <1>3, <1>4, <1>5, <1>6, <1>7, <2>2, SignsIn
<1> QED BY <1>8, <1>9

LEMMA PatchKeeps ==
  ASSUME AccountsInv, NEW r \in Slots, EndPatch(r) PROVE AccountsInv'
<1>1. UNCHANGED <<sessions, linked, states, policy, now, ended>> BY DEF EndPatch
<1>2. UsersStay /\ AnswersHold' /\ Len(users') = Len(users) BY UserPatched
<1>3. WaitingPlain BY AsksTyped DEF EndPatch, Done, WaitingPlain
<1>4. policy' \in Policies /\ now' \in Nat BY <1>1 DEF AccountsInv, Shape
<1> QED BY <1>1, <1>2, <1>3, <1>4, TameStep, SessionsUnchanged, StatesUnchanged

--------------------------------------------------------------------------------
(* Signing in through the provider. *)

\* A function on 1 .. n is a sequence of length n.
LEMMA Listed ==
  ASSUME NEW T, NEW n \in Nat, NEW f \in [1 .. n -> T] PROVE f \in Seq(T) /\ Len(f) = n
<1>1. f \in Seq(T) BY SeqDef
<1>2. DOMAIN f = 1 .. n OBVIOUS
<1> QED BY <1>1, <1>2

\* Marking a state as used leaves the others as they are.
LEMMA MarkedState ==
  ASSUME NEW q \in Seq(BOOLEAN), NEW i \in 1 .. Len(q)
  PROVE  /\ [q EXCEPT ![i] = TRUE] \in Seq(BOOLEAN)
         /\ Len([q EXCEPT ![i] = TRUE]) = Len(q)
         /\ \A j \in 1 .. Len(q) : [q EXCEPT ![i] = TRUE][j] = IF j = i THEN TRUE ELSE q[j]
<1> DEFINE n == Len(q)  B == BOOLEAN
<1>1. n \in Nat /\ q \in [1 .. n -> B] OBVIOUS
<1>2. TRUE \in B /\ i \in 1 .. n OBVIOUS
<1> HIDE DEF n, B
<1>3. [q EXCEPT ![i] = TRUE] \in [1 .. n -> B] BY <1>1, <1>2, Zenon
<1>4. \A j \in 1 .. n : [q EXCEPT ![i] = TRUE][j] = IF j = i THEN TRUE ELSE q[j] BY <1>1, Zenon
<1>5. [q EXCEPT ![i] = TRUE] \in Seq(B) /\ Len([q EXCEPT ![i] = TRUE]) = n BY <1>1, <1>3, Listed
<1> QED BY <1>4, <1>5, Zenon DEF n, B

\* The callback uses the state up, and from then on it alone has it.
LEMMA CallbackKeeps ==
  ASSUME AccountsInv, NEW r \in Slots, NEW st \in 1 .. MaxStates, Callback(r, st) PROVE AccountsInv'
<1>1. /\ st \in 1 .. Len(states) /\ ~states[st] /\ states' = [states EXCEPT ![st] = TRUE]
      /\ UNCHANGED <<users, sessions, linked, policy, now, told, ended, madeFor>>
  BY DEF Callback, Usable, history
<1>2. /\ states' \in Seq(BOOLEAN) /\ Len(states') = Len(states) /\ Len(states) \in Nat
      /\ \A j \in 1 .. Len(states) : states'[j] = IF j = st THEN TRUE ELSE states[j]
  <2>1. states \in Seq(BOOLEAN) /\ Len(states) \in Nat /\ DOMAIN states = 1 .. Len(states) BY DEF AccountsInv, Shape
  <2>2. st \in 1 .. Len(states) BY <1>1
  <2> QED BY <1>1, <2>1, <2>2, MarkedState
<1>3. SessionsSame /\ Rows' /\ ended' \subseteq 1 .. Len(sessions') BY <1>1, SessionsUnchanged
<1>4. UsersStay /\ AnswersHold' /\ Len(users') = Len(users) BY <1>1, UsersUnchanged
<1>5. Linked' BY <1>1, <1>4, LinksStay
<1> DEFINE q == [kind |-> "callback", state |-> st]
<1>6. q \in RequestType /\ q.kind = "callback" /\ q.state = st BY <1>1, AsksTyped
<1>7. waiting' = waiting \/ waiting' = [waiting EXCEPT ![r] = q] BY DEF Callback, Await
<1> HIDE DEF q
<1>8. waiting' \in [Slots -> RequestType']
  <2>1. waiting' \in [Slots -> RequestType] BY <1>6, <1>7 DEF AccountsInv, Shape
  <2>2. Len(users') = Len(users) /\ Len(states') = Len(states) BY <1>1, <1>2
  <2> QED BY <2>1, <2>2 DEF RequestType, UserIds, Idle
<1>9. Shape'
  <2>1. linked' \in [Identities -> 0 .. Len(users')] /\ policy' \in Policies /\ now' \in Nat
    BY <1>1 DEF AccountsInv, Shape
  <2>2. SessionsStay /\ \A s \in 1 .. Len(sessions') : s \in 1 .. Len(sessions) BY <1>3 DEF SessionsSame
  <2> QED BY <1>2, <1>3, <1>4, <1>8, <2>1, <2>2, ShapeKept
<1>10. \A s \in 1 .. Len(sessions) : sessions[s].state # st
  BY <1>1 DEF AccountsInv, StateUsed
<1>11. \A p \in Slots : Waits(p, "callback") => waiting[p].state # st
  BY <1>1 DEF AccountsInv, StateUsed
<1>12. \A p \in Slots : waiting'[p] = waiting[p] \/ (p = r /\ waiting'[p] = q)
  BY <1>7 DEF AccountsInv, Shape
<1>13. /\ \A s \in 1 .. Len(sessions') :
             /\ sessions'[s].state \in 0 .. Len(states')
             /\ sessions'[s].state # 0 => states'[sessions'[s].state]
       /\ OneSessionPerState'
  BY <1>1, <1>2 DEF AccountsInv, StateUsed, OneSessionPerState
<1>14. ASSUME NEW p \in Slots, Waits(p, "callback")'
       PROVE  /\ waiting'[p].state \in 1 .. Len(states') /\ states'[waiting'[p].state]
              /\ \A s \in 1 .. Len(sessions') : sessions'[s].state # waiting'[p].state
              /\ \A o \in Slots : Waits(o, "callback")' /\ waiting'[o].state = waiting'[p].state => o = p
  <2>1. CASE waiting'[p] = q /\ p = r
    BY <1>1, <1>2, <1>6, <1>10, <1>11, <1>12, <2>1 DEF Waits
  <2>2. CASE waiting'[p] = waiting[p]
    <3>1. Waits(p, "callback") BY <1>14, <2>2 DEF Waits
    <3>2. waiting[p].state \in 1 .. Len(states) /\ states[waiting[p].state] /\ waiting[p].state # st
      BY <1>11, <3>1 DEF AccountsInv, StateUsed
    <3>3. \A s \in 1 .. Len(sessions') : sessions'[s].state # waiting[p].state
      BY <1>1, <3>1 DEF AccountsInv, StateUsed
    <3>4. \A o \in Slots : Waits(o, "callback")' /\ waiting'[o].state = waiting[p].state => o = p
      BY <1>6, <1>12, <3>1, <3>2 DEF AccountsInv, StateUsed, Waits
    <3> QED BY <1>2, <2>2, <3>2, <3>3, <3>4
  <2> QED BY <1>12, <2>1, <2>2
<1>15. StateUsed' BY <1>13, <1>14 DEF StateUsed
<1> QED BY <1>3, <1>4, <1>5, <1>9, <1>15 DEF AccountsInv

\* The state that a callback had goes to the one session it makes.
LEMMA StateHandedOn ==
  ASSUME AccountsInv, NEW r \in Slots, Waits(r, "callback"), SessionsStay, Len(sessions') = Len(sessions) + 1,
         sessions'[Len(sessions) + 1].state = waiting[r].state, states' = states,
         waiting' = [waiting EXCEPT ![r] = Idle]
  PROVE  StateUsed'
<1> DEFINE st == waiting[r].state
<1>1. /\ st \in 1 .. Len(states) /\ states[st] /\ Len(states) \in Nat /\ Len(sessions) \in Nat
      /\ \A s \in 1 .. Len(sessions) : sessions[s].state # st
      /\ \A p \in Slots : Waits(p, "callback") /\ waiting[p].state = st => p = r
  BY DEF AccountsInv, StateUsed, Shape
<1> HIDE DEF st
<1>2. \A s \in 1 .. Len(sessions') :
        \/ s \in 1 .. Len(sessions) /\ sessions'[s].state = sessions[s].state
        \/ s = Len(sessions) + 1 /\ sessions'[s].state = st
  BY <1>1 DEF SessionsStay, st
<1>3. \A p \in Slots : Waits(p, "callback")' => p # r /\ Waits(p, "callback") /\ waiting'[p] = waiting[p]
  BY AsksTyped DEF AccountsInv, Shape, Waits
<1>4. \A s \in 1 .. Len(sessions') :
        /\ sessions'[s].state \in 0 .. Len(states')
        /\ sessions'[s].state # 0 => states'[sessions'[s].state]
  BY <1>1, <1>2 DEF AccountsInv, StateUsed
<1>5. OneSessionPerState'
  BY <1>1, <1>2 DEF AccountsInv, StateUsed, OneSessionPerState
<1>6. ASSUME NEW p \in Slots, Waits(p, "callback")'
      PROVE  /\ waiting'[p].state \in 1 .. Len(states') /\ states'[waiting'[p].state]
             /\ \A s \in 1 .. Len(sessions') : sessions'[s].state # waiting'[p].state
             /\ \A o \in Slots : Waits(o, "callback")' /\ waiting'[o].state = waiting'[p].state => o = p
  <2>1. Waits(p, "callback") /\ p # r /\ waiting'[p] = waiting[p] BY <1>3, <1>6
  <2>2. waiting[p].state # st BY <1>1, <2>1
  <2>3. /\ waiting[p].state \in 1 .. Len(states) /\ states[waiting[p].state]
        /\ \A s \in 1 .. Len(sessions) : sessions[s].state # waiting[p].state
    BY <2>1 DEF AccountsInv, StateUsed
  <2>4. \A o \in Slots : Waits(o, "callback")' /\ waiting'[o].state = waiting[p].state => o = p
    BY <1>3, <2>1 DEF AccountsInv, StateUsed
  <2> QED BY <1>2, <2>1, <2>2, <2>3, <2>4
<1> QED BY <1>4, <1>5, <1>6 DEF StateUsed

LEMMA ReturnKeeps ==
  ASSUME AccountsInv, NEW r \in Slots, NEW i \in Identities, EndCallback(r, i) PROVE AccountsInv'
<1>1. /\ UNCHANGED <<users, linked, states, policy, now, told, ended, madeFor>>
      /\ Waits(r, "callback") /\ linked[i] # 0 /\ waiting' = [waiting EXCEPT ![r] = Idle]
  BY DEF EndCallback, Done, history
<1>2. linked[i] \in UserIds /\ linked[i] \in Nat BY <1>1 DEF AccountsInv, Shape, UserIds
<1>3. waiting[r].state \in Nat BY <1>1 DEF AccountsInv, StateUsed
<1>4. WaitingPlain BY <1>1, AsksTyped DEF WaitingPlain
<1>5. UsersStay /\ AnswersHold' /\ Len(users') = Len(users) BY <1>1, UsersUnchanged
<1>6. Linked' BY <1>1, <1>5, LinksStay
<1>7. CASE ~Active(linked[i])
  <2>1. UNCHANGED sessions BY <1>7 DEF EndCallback
  <2>2. policy' \in Policies /\ now' \in Nat BY <1>1 DEF AccountsInv, Shape
  <2> QED BY <1>1, <1>4, <2>1, <2>2, TameStep, UsersUnchanged, SessionsUnchanged, StatesUnchanged
<1>8. CASE Active(linked[i])
  <2>1. NewSession(linked[i], waiting[r].state) BY <1>8 DEF EndCallback
  <2>2. /\ SessionsStay /\ Rows' /\ Len(sessions') = Len(sessions) + 1
        /\ sessions'[Len(sessions) + 1].user = linked[i]
        /\ sessions'[Len(sessions) + 1].state = waiting[r].state
    BY <1>1, <1>2, <1>3, <2>1, Opened
  <2>3. StateUsed' BY <1>1, <2>2, StateHandedOn
  <2>4. Len(sessions) \in Nat BY DEF AccountsInv, Shape
  <2>5. \A s \in 1 .. Len(sessions') : s \in 1 .. Len(sessions) \/ sessions'[s].user \in UserIds'
    BY <1>1, <1>2, <2>2, <2>4 DEF UserIds
  <2>6. waiting' \in [Slots -> RequestType'] BY <1>1, <1>4, WaitingKept DEF AccountsInv, Shape
  <2>7. /\ linked' \in [Identities -> 0 .. Len(users')] /\ ended' \subseteq 1 .. Len(sessions')
        /\ states' \in Seq(BOOLEAN) /\ policy' \in Policies /\ now' \in Nat
    BY <1>1, <2>2, <2>4 DEF AccountsInv, Shape
  <2>8. Shape' BY <1>5, <2>2, <2>5, <2>6, <2>7, ShapeKept
  <2> QED BY <1>5, <1>6, <2>2, <2>3, <2>8 DEF AccountsInv
<1> QED BY <1>7, <1>8

LEMMA FirstSignInKeeps ==
  ASSUME AccountsInv, NEW r \in Slots, NEW i \in Identities, FirstCallback(r, i) PROVE AccountsInv'
<1> DEFINE u == Len(users) + 1
           flags == Flags(FALSE, FALSE)
<1>1. PICK name \in PickedNames(i) : CreateUser(name, Flags(FALSE, FALSE), i)
  BY DEF FirstCallback
<1>2. name \in Names BY <1>1, AccountsAssumption DEF PickedNames
<1>3. flags \in FlagType BY FlagsTyped
<1>4. CreateUser(name, flags, i) BY <1>1
<1>5. /\ UNCHANGED <<states, policy, now, ended>> /\ Waits(r, "callback") /\ linked[i] = 0
      /\ linked' = [linked EXCEPT ![i] = u] /\ NewSession(u, waiting[r].state)
      /\ waiting' = [waiting EXCEPT ![r] = Idle]
  BY DEF FirstCallback, Done
<1> HIDE DEF flags
<1>6. UsersStay /\ AnswersHold' /\ Len(users') = u /\ madeFor'[u] = i
  BY <1>2, <1>3, <1>4, UserMade
<1>7. Len(users) \in Nat /\ Len(sessions) \in Nat /\ u \in Nat /\ waiting[r].state \in Nat
  BY <1>5 DEF AccountsInv, Shape, StateUsed
<1>8. u \in UserIds' /\ \A v \in UserIds' : v \in UserIds \/ v = u BY <1>6, <1>7 DEF UserIds
<1> HIDE DEF u
<1>9. /\ SessionsStay /\ Rows' /\ Len(sessions') = Len(sessions) + 1
      /\ sessions'[Len(sessions) + 1].user = u
      /\ sessions'[Len(sessions) + 1].state = waiting[r].state
  BY <1>5, <1>7, Opened
<1>10. StateUsed' BY <1>5, <1>9, StateHandedOn
<1>11. WaitingPlain BY <1>5, AsksTyped DEF WaitingPlain
<1>12. waiting' \in [Slots -> RequestType']
  <2>1. Len(users) <= Len(users') /\ Len(users') \in Nat BY <1>6, <1>7 DEF u
  <2> QED BY <1>5, <1>11, <2>1, WaitingKept DEF AccountsInv, Shape
<1>13. \A s \in 1 .. Len(sessions') : s \in 1 .. Len(sessions) \/ sessions'[s].user \in UserIds'
  BY <1>7, <1>8, <1>9
<1>14. /\ linked' \in [Identities -> 0 .. Len(users')] /\ ended' \subseteq 1 .. Len(sessions')
       /\ states' \in Seq(BOOLEAN) /\ policy' \in Policies /\ now' \in Nat
  BY <1>5, <1>6, <1>7, <1>9 DEF AccountsInv, Shape, u
<1>15. Shape' BY <1>6, <1>9, <1>12, <1>13, <1>14, ShapeKept
<1>16. Linked'
  <2>1. \A j \in Identities : linked[j] # 0 => linked[j] \in UserIds BY <1>7 DEF AccountsInv, Shape, UserIds
  <2>2. \A j \in Identities : linked'[j] = IF j = i THEN u ELSE linked[j]
    BY <1>5 DEF AccountsInv, Shape
  <2>3. \A v \in UserIds : madeFor'[v] = madeFor[v] /\ madeFor[v] \in Identities \cup {Local}
    BY <1>6 DEF UsersStay, AccountsInv, Shape, UserIds
  <2>4. \A j \in Identities : linked'[j] # 0 => madeFor'[linked'[j]] = j
    BY <1>6, <2>1, <2>2, <2>3 DEF AccountsInv, Linked
  <2>5. \A v \in UserIds : madeFor[v] # Local => madeFor[v] # i
    BY <1>5, <1>7 DEF AccountsInv, Linked, UserIds
  <2>6. \A v \in UserIds' : madeFor'[v] # Local => linked'[madeFor'[v]] = v
    BY <1>6, <1>8, <2>2, <2>3, <2>5 DEF AccountsInv, Linked
  <2> QED BY <2>4, <2>6 DEF Linked
<1> QED BY <1>6, <1>9, <1>10, <1>15, <1>16 DEF AccountsInv

--------------------------------------------------------------------------------
LEMMA NextKeeps == AccountsInv /\ [Next]_vars => AccountsInv'
<1>1. ASSUME AccountsInv, UNCHANGED vars PROVE AccountsInv'
  <2>1. UNCHANGED <<users, sessions, linked, states, policy, waiting, now, told, ended, madeFor>>
    BY <1>1 DEF vars, rows, history
  <2>2. WaitingPlain /\ policy' \in Policies /\ now' \in Nat BY <1>1, <2>1 DEF WaitingPlain, AccountsInv, Shape
  <2> QED BY <1>1, <2>1, <2>2, TameStep, UsersUnchanged, SessionsUnchanged, StatesUnchanged
<1>2. ASSUME AccountsInv, Next PROVE AccountsInv'
  <2>1. CASE Tick \/ BeginOAuth BY <1>2, <2>1, OpenStep
  <2>2. CASE \E s \in 1 .. MaxSessions : SessionStep(s) BY <1>2, <2>2, SessionKeeps
  <2>3. ASSUME NEW r \in Slots, RequestStep(r) PROVE AccountsInv'
    <3>1. CASE \/ GiveUp(r) \/ EndPolicy(r)
               \/ \E u \in 1 .. MaxUsers : AskLogin(r, u)
               \/ \E kind \in {"register", "bootstrap"} : AskAccount(r, kind)
               \/ \E name \in Names : NameAccount(r, name)
      BY <1>2, <3>1, OpenStep
    <3>2. CASE EndLogin(r) BY <1>2, <3>2, LoginKeeps
    <3>3. CASE EndAccount(r) BY <1>2, <3>3, AccountKeeps
    <3>4. CASE EndPatch(r) BY <1>2, <3>4, PatchKeeps
    <3>5. CASE \E st \in 1 .. MaxStates : Callback(r, st) BY <1>2, <3>5, CallbackKeeps
    <3>6. CASE \E i \in Identities : EndCallback(r, i) \/ FirstCallback(r, i)
      BY <1>2, <3>6, ReturnKeeps, FirstSignInKeeps
    <3> QED BY <2>3, <3>1, <3>2, <3>3, <3>4, <3>5, <3>6 DEF RequestStep
  <2> QED BY <1>2, <2>1, <2>2, <2>3 DEF Next
<1> QED BY <1>1, <1>2

LEMMA AlwaysInv == Spec => []AccountsInv
BY InitShape, NextKeeps, PTL DEF Spec

(* middleware.ts and sessions.ts - whatever routes ran in whatever order, the  *)
(* rows refer to users and states that exist, and waiting requests keep their  *)
(* shape.                                                                      *)
THEOREM AccountsTypeCorrect == Spec => []TypeOK
<1>1. AccountsInv => TypeOK
  <2> SUFFICES ASSUME AccountsInv PROVE TypeOK OBVIOUS
  <2>1. sessions \in Seq([user : UserIds, live : BOOLEAN, seen : Nat, until : Nat, state : 0 .. Len(states)])
    <3> DEFINE T == [user : UserIds, live : BOOLEAN, seen : Nat, until : Nat, state : 0 .. Len(states)]
    <3>1. \A s \in 1 .. Len(sessions) : sessions[s] \in T
      <4> SUFFICES ASSUME NEW s \in 1 .. Len(sessions) PROVE sessions[s] \in T OBVIOUS
      <4>1. sessions[s] \in SessionRow BY ElementOfSeq DEF AccountsInv, Shape
      <4>2. sessions[s].user \in UserIds /\ sessions[s].state \in 0 .. Len(states)
        BY DEF AccountsInv, Shape, StateUsed
      <4> QED BY <4>1, <4>2 DEF SessionRow
    <3>2. Len(sessions) \in Nat /\ sessions \in [1 .. Len(sessions) -> SessionRow] BY DEF AccountsInv, Shape
    <3> HIDE DEF T
    <3>3. sessions \in [1 .. Len(sessions) -> T] BY <3>1, <3>2
    <3>4. sessions \in Seq(T) BY <3>2, <3>3, Listed
    <3> QED BY <3>4 DEF T
  <2> QED BY <2>1 DEF AccountsInv, Shape, TypeOK, UserRow
<1> QED BY <1>1, AlwaysInv, PTL

(* sessions.ts:55-85 - the guard accepts a cookie exactly as long as it was    *)
(* not ended, its user is active and its lifetime since the last use has not   *)
(* run out, for any lifetime and any order of the requests.                    *)
THEOREM CookiesServe == Spec => []SessionsSlide
<1>1. AccountsInv => SessionsSlide
  <2> SUFFICES ASSUME AccountsInv, NEW s \in 1 .. Len(sessions)
               PROVE  Found(s) <=> /\ s \notin ended
                                   /\ Active(sessions[s].user)
                                   /\ now < sessions[s].seen + SessionTTL
    BY DEF SessionsSlide
  <2>1. sessions[s].seen \in Nat /\ now \in Nat /\ SessionTTL \in Nat
    <3>1. sessions[s] \in SessionRow BY ElementOfSeq DEF AccountsInv, Shape
    <3> QED BY <3>1, AccountsAssumption DEF AccountsInv, Shape, SessionRow
  <2>2. sessions[s].until = sessions[s].seen + SessionTTL /\ (sessions[s].live <=> s \notin ended)
    BY DEF AccountsInv, Rows
  <2> QED BY <2>1, <2>2 DEF Found, Present
<1> QED BY <1>1, AlwaysInv, PTL

(* oauthIdentities.ts, bootstrapTokens.ts:83-96 - however many callbacks run   *)
(* at the same time, an identity has one account and a state one session.      *)
THEOREM SignInMakesOne == Spec => []OneOfEach
<1>1. AccountsInv => OneOfEach
  <2> SUFFICES ASSUME AccountsInv PROVE OneOfEach OBVIOUS
  <2>1. OneAccountPerIdentity BY DEF AccountsInv, Linked, OneAccountPerIdentity
  <2> QED BY <2>1 DEF AccountsInv, StateUsed, OneOfEach
<1> QED BY <1>1, AlwaysInv, PTL

(* users.ts:74-94 - what an answer confirmed about a user stays true, and no   *)
(* two users have one name, however many changes were in progress together.    *)
THEOREM ChangesAreNotLost == Spec => []AnswersHold
<1>1. AccountsInv => AnswersHold
  BY DEF AccountsInv
<1> QED BY <1>1, AlwaysInv, PTL
================================================================================
