-------------------------------- MODULE Accounts --------------------------------
(***************************************************************************)
(* Multi-user mode (authMode=on): the guard of src/src/auth/middleware.ts, *)
(* the account routes of src/src/admin/router.ts, the OAuth sign-in of     *)
(* src/src/auth/oauthRoutes.ts and the tables users, user_sessions,        *)
(* user_oauth_identities and bootstrap_tokens (src/src/db).                  *)
(*                                                                         *)
(* A route runs alone up to each await: the body of the request, the       *)
(* hashing or checking of a password, the exchange with the OAuth          *)
(* provider.  What it read before an await may be out of date after it.    *)
(* A password is abstracted to whether the account has one and whether the *)
(* one that was sent is right; there is one OAuth provider.                *)
(***************************************************************************)
EXTENDS Integers, Sequences, FiniteSets

CONSTANTS
  Names,        \* usernames
  Identities,   \* accounts at the OAuth provider
  Handle,       \* Handle[i]: the username synthesized for identity i
  Slots,        \* requests that may wait at the same time
  SessionTTL,   \* the lifetime of a session, counted from its last use
  AtStart,      \* settings the first start in this mode may find, made in local mode
  Patches,      \* bodies of PATCH users/:id: the flags they set
  Grants,       \* isAdmin in the bodies of POST users
  Changes,      \* what the two policy routes are asked to set
  MaxUsers, MaxSessions, MaxStates, MaxTime   \* bounds

ASSUME AccountsAssumption ==
  /\ Handle \in [Identities -> Names]
  /\ SessionTTL \in Nat \ {0}
  /\ MaxUsers \in Nat /\ MaxSessions \in Nat /\ MaxStates \in Nat /\ MaxTime \in Nat

VARIABLES
  users,     \* rows of users, in the order of their ids; none is ever deleted
  sessions,  \* rows of user_sessions ever made; live: the row is still there
  linked,    \* user_oauth_identities: the user of each identity, 0 for none
  states,    \* OAuth states (bootstrap_tokens): used or not
  policy,    \* the settings auth.allowRegister and oauth_clients.enabled
  waiting,   \* the request in each slot
  now,       \* the clock
  told,      \* history: the flags of each user as the answers confirmed them
  ended,     \* history: sessions that were ended or refused
  madeFor    \* history: the identity each user was created for

rows == <<users, sessions, linked, states, policy>>
history == <<told, ended, madeFor>>
vars == <<rows, waiting, now, history>>

FlagNames == {"active", "admin", "pass"}
Flags(admin, pass) == [f \in FlagNames |-> CASE f = "active" -> TRUE [] f = "admin" -> admin [] f = "pass" -> pass]
Local == "local"    \* created with a password, not for an identity

Policies == [{"register", "oauth"} -> BOOLEAN]

\* Only the fields that are in a body are set; a password is never taken away.
Bodies(fields) == UNION {[some -> BOOLEAN] : some \in SUBSET fields}
ASSUME BodiesAssumption ==
  /\ AtStart \subseteq Policies
  /\ Patches \subseteq Bodies(FlagNames) /\ \A p \in Patches : "pass" \in DOMAIN p => p["pass"]
  /\ Grants \subseteq BOOLEAN
  /\ Changes \subseteq Bodies({"register", "oauth"})

Set(row, body) == [f \in DOMAIN row |-> IF f \in DOMAIN body THEN body[f] ELSE row[f]]

UserIds == 1 .. Len(users)
Taken == {users[u].name : u \in UserIds}
Active(u) == users[u].flags["active"]

Idle == [kind |-> "idle"]
Waits(r, kind) == waiting[r].kind = kind
Done(r) == waiting' = [waiting EXCEPT ![r] = Idle]
Await(r, request) == waiting[r] = Idle /\ waiting' = [waiting EXCEPT ![r] = request]

--------------------------------------------------------------------------------
Init ==
  /\ users = <<>> /\ sessions = <<>> /\ states = <<>>
  /\ linked = [i \in Identities |-> 0]
  /\ policy \in AtStart
  /\ waiting = [r \in Slots |-> Idle]
  /\ now = 0
  /\ told = <<>> /\ ended = {} /\ madeFor = <<>>

Tick ==
  /\ now < MaxTime
  /\ now' = now + 1
  /\ UNCHANGED <<rows, waiting, history>>

\* findSessionByToken finds the row; when it does not serve it deletes it.
Present(s) == s \in 1 .. Len(sessions) /\ sessions[s].live
Found(s) == Present(s) /\ sessions[s].until > now /\ Active(sessions[s].user)

\* Every request that is let in extends the session.
TouchSession(s) == [sessions EXCEPT ![s].seen = now, ![s].until = now + SessionTTL]

Guarded(s) == Found(s) /\ sessions' = TouchSession(s)
GuardedAdmin(s) == Guarded(s) /\ users[sessions[s].user].flags["admin"]

Refuse_KeepsRow(s) ==
  /\ Present(s) /\ ~Found(s)
  /\ ended' = ended \cup {s}
  /\ UNCHANGED <<rows, waiting, now, told, madeFor>>

Refuse(s) ==
  /\ Present(s) /\ ~Found(s)
  /\ sessions' = [sessions EXCEPT ![s].live = FALSE]
  /\ ended' = ended \cup {s}
  /\ UNCHANGED <<users, linked, states, policy, waiting, now, told, madeFor>>

\* Any route that only reads.
Browse(s) ==
  /\ Guarded(s)
  /\ UNCHANGED <<users, linked, states, policy, waiting, now, history>>

Logout(s) ==
  /\ Found(s)
  /\ sessions' = [TouchSession(s) EXCEPT ![s].live = FALSE]
  /\ ended' = ended \cup {s}
  /\ UNCHANGED <<users, linked, states, policy, waiting, now, told, madeFor>>

\* createSession; state: the OAuth state it was made for, 0 for none
NewSession(u, state) ==
  /\ Len(sessions) < MaxSessions
  /\ sessions' = Append(sessions, [user |-> u, live |-> TRUE, seen |-> now, until |-> now + SessionTTL, state |-> state])

\* The name is UNIQUE.
CreateUser(name, flags, identity) ==
  /\ Len(users) < MaxUsers
  /\ name \notin Taken
  /\ users' = Append(users, [name |-> name, flags |-> flags])
  /\ told' = Append(told, flags)
  /\ madeFor' = Append(madeFor, identity)

\* A request ends without effect: a bad body, a short password, a wrong one, a
\* username that was taken in the meantime, a provider that does not answer.
GiveUp(r) ==
  /\ waiting[r] # Idle
  /\ Done(r)
  /\ UNCHANGED <<rows, now, history>>

--------------------------------------------------------------------------------
\* POST auth/login reads the user, then waits for the password to be checked.
AskLogin(r, u) ==
  /\ u \in UserIds
  /\ Active(u) /\ users[u].flags["pass"]
  /\ Await(r, [kind |-> "login", user |-> u])
  /\ UNCHANGED <<rows, now, history>>

EndLogin(r) ==
  /\ Waits(r, "login")
  /\ NewSession(waiting[r].user, 0)
  /\ Done(r)
  /\ UNCHANGED <<users, linked, states, policy, now, history>>

\* auth/register and bootstrap check their condition and wait for the body.
AskAccount(r, kind) ==
  /\ \/ kind = "register" /\ policy["register"]
     \/ kind = "bootstrap" /\ users = <<>>
  /\ Await(r, [kind |-> kind, name |-> "", admin |-> (kind = "bootstrap")])
  /\ UNCHANGED <<rows, now, history>>

\* POST users of an admin
AskCreate(r, s, admin) ==
  /\ GuardedAdmin(s)
  /\ Await(r, [kind |-> "create", name |-> "", admin |-> admin])
  /\ UNCHANGED <<users, linked, states, policy, now, history>>

\* The body is there; all but bootstrap look whether the name is free, and wait
\* for the hash of the password.
NameAccount(r, name) ==
  /\ waiting[r].kind \in {"register", "bootstrap", "create"}
  /\ waiting[r].name = ""
  /\ waiting[r].kind = "bootstrap" \/ name \notin Taken
  /\ waiting' = [waiting EXCEPT ![r].name = name]
  /\ UNCHANGED <<rows, now, history>>

EndAccount(r) ==
  /\ waiting[r].kind \in {"register", "bootstrap", "create"}
  /\ waiting[r].name # ""
  /\ CreateUser(waiting[r].name, Flags(waiting[r].admin, TRUE), Local)
  /\ IF waiting[r].kind = "create" THEN UNCHANGED sessions ELSE NewSession(Len(users) + 1, 0)
  /\ Done(r)
  /\ UNCHANGED <<linked, states, policy, now, ended>>

\* PATCH users/:id of an admin
AskPatch(r, s, u, patch) ==
  /\ GuardedAdmin(s)
  /\ u \in UserIds
  /\ Await(r, [kind |-> "patch", user |-> u, patch |-> patch])
  /\ UNCHANGED <<users, linked, states, policy, now, history>>

EndPatch_ClearsAdmin(r) ==
  /\ Waits(r, "patch")
  /\ LET u == waiting[r].user
         patch == waiting[r].patch
     IN  /\ users' = [users EXCEPT ![u].flags = [Set(@, patch) EXCEPT !["admin"] = "admin" \in DOMAIN patch /\ @]]
         /\ told' = [told EXCEPT ![u] = Set(@, patch)]
  /\ Done(r)
  /\ UNCHANGED <<sessions, linked, states, policy, now, ended, madeFor>>

\* updateUser sets the columns the patch names and no other.
EndPatch(r) ==
  /\ Waits(r, "patch")
  /\ LET u == waiting[r].user
         patch == waiting[r].patch
     IN  /\ users' = [users EXCEPT ![u].flags = Set(@, patch)]
         /\ told' = [told EXCEPT ![u] = Set(@, patch)]
  /\ Done(r)
  /\ UNCHANGED <<sessions, linked, states, policy, now, ended, madeFor>>

\* PUT register-policy and PUT or DELETE oauth-clients of an admin
AskPolicy(r, s, change) ==
  /\ GuardedAdmin(s)
  /\ Await(r, [kind |-> "policy", change |-> change])
  /\ UNCHANGED <<users, linked, states, policy, now, history>>

EndPolicy(r) ==
  /\ Waits(r, "policy")
  /\ policy' = Set(policy, waiting[r].change)
  /\ Done(r)
  /\ UNCHANGED <<users, sessions, linked, states, now, history>>

--------------------------------------------------------------------------------
\* GET oauth/login
BeginOAuth ==
  /\ policy["oauth"]
  /\ Len(states) < MaxStates
  /\ states' = Append(states, FALSE)
  /\ UNCHANGED <<users, sessions, linked, policy, waiting, now, history>>

\* consumeBootstrapToken; a state that has expired is one no callback uses again.
Usable(st) == st \in 1 .. Len(states) /\ ~states[st]

\* GET oauth/callback: the state is used up whatever follows; with the client
\* off the answer is 400, else the provider is asked who this is.
Callback(r, st) ==
  /\ Usable(st)
  /\ states' = [states EXCEPT ![st] = TRUE]
  /\ IF policy["oauth"] THEN Await(r, [kind |-> "callback", state |-> st]) ELSE UNCHANGED waiting
  /\ UNCHANGED <<users, sessions, linked, policy, now, history>>

\* synthesizeUsername and pickUnusedUsername: the handle, or any unused name.
PickedNames(i) == IF Handle[i] \in Taken THEN Names \ Taken ELSE {Handle[i]}

\* The identity is known: its user is signed in.
EndCallback(r, i) ==
  /\ Waits(r, "callback")
  /\ linked[i] # 0
  /\ IF Active(linked[i]) THEN NewSession(linked[i], waiting[r].state) ELSE UNCHANGED sessions
  /\ Done(r)
  /\ UNCHANGED <<users, linked, states, policy, now, history>>

FirstCallback_AlwaysCreates(r, i) ==
  /\ Waits(r, "callback")
  /\ \E name \in PickedNames(i) : CreateUser(name, Flags(FALSE, FALSE), i)
  /\ linked' = [linked EXCEPT ![i] = Len(users) + 1]
  /\ NewSession(Len(users) + 1, waiting[r].state)
  /\ Done(r)
  /\ UNCHANGED <<states, policy, now, ended>>

\* The identity is new: a user is made for it, linked and signed in.
FirstCallback(r, i) ==
  /\ Waits(r, "callback")
  /\ linked[i] = 0
  /\ \E name \in PickedNames(i) : CreateUser(name, Flags(FALSE, FALSE), i)
  /\ linked' = [linked EXCEPT ![i] = Len(users) + 1]
  /\ NewSession(Len(users) + 1, waiting[r].state)
  /\ Done(r)
  /\ UNCHANGED <<states, policy, now, ended>>

--------------------------------------------------------------------------------
SessionStep(s) ==
  \/ Refuse(s) \/ Browse(s) \/ Logout(s)
  \/ \E r \in Slots :
       \/ \E admin \in Grants : AskCreate(r, s, admin)
       \/ \E u \in 1 .. MaxUsers, patch \in Patches : AskPatch(r, s, u, patch)
       \/ \E change \in Changes : AskPolicy(r, s, change)

RequestStep(r) ==
  \/ GiveUp(r)
  \/ \E u \in 1 .. MaxUsers : AskLogin(r, u)
  \/ \E kind \in {"register", "bootstrap"} : AskAccount(r, kind)
  \/ \E name \in Names : NameAccount(r, name)
  \/ EndLogin(r) \/ EndAccount(r) \/ EndPatch(r) \/ EndPolicy(r)
  \/ \E st \in 1 .. MaxStates : Callback(r, st)
  \/ \E i \in Identities : EndCallback(r, i) \/ FirstCallback(r, i)

Next ==
  \/ Tick \/ BeginOAuth
  \/ \E s \in 1 .. MaxSessions : SessionStep(s)
  \/ \E r \in Slots : RequestStep(r)

Spec == Init /\ [][Next]_vars

--------------------------------------------------------------------------------
(* Type invariant: the rows refer to users that exist and the waiting requests *)
(* keep their shape.                                                           *)
FlagType == [FlagNames -> BOOLEAN]
RequestType ==
  {Idle}
    \cup [kind : {"login"}, user : UserIds]
    \cup [kind : {"register", "bootstrap", "create"}, name : Names \cup {""}, admin : BOOLEAN]
    \cup [kind : {"patch"}, user : UserIds, patch : Patches]
    \cup [kind : {"policy"}, change : Changes]
    \cup [kind : {"callback"}, state : 1 .. Len(states)]

TypeOK ==
  /\ users \in Seq([name : Names, flags : FlagType])
  /\ sessions \in Seq([user : UserIds, live : BOOLEAN, seen : Nat, until : Nat, state : 0 .. Len(states)])
  /\ linked \in [Identities -> 0 .. Len(users)]
  /\ states \in Seq(BOOLEAN)
  /\ policy \in Policies
  /\ waiting \in [Slots -> RequestType]
  /\ now \in Nat
  /\ told \in Seq(FlagType) /\ Len(told) = Len(users)
  /\ ended \subseteq 1 .. Len(sessions)
  /\ madeFor \in Seq(Identities \cup {Local}) /\ Len(madeFor) = Len(users)

(* sessions.ts:55-85 - the guard accepts a cookie exactly as long as it was   *)
(* never logged out or refused, its user is active and it was last used less  *)
(* than the lifetime ago: a refused cookie does not come back to life when    *)
(* the user is enabled again.                                                 *)
SessionsSlide ==
  \A s \in 1 .. Len(sessions) :
    Found(s) <=> /\ s \notin ended
                 /\ Active(sessions[s].user)
                 /\ now < sessions[s].seen + SessionTTL

(* oauthIdentities.ts - a person who signs in through the provider gets one    *)
(* account, however many sign-ins run at the same time, and keeps it.          *)
OneAccountPerIdentity ==
  /\ \A u, v \in UserIds : madeFor[u] = madeFor[v] /\ madeFor[u] # Local => u = v
  /\ \A i \in Identities : linked[i] # 0 => madeFor[linked[i]] = i

(* bootstrapTokens.ts:83-96 - an OAuth state signs in once: two callbacks with *)
(* the same state, or one repeated, make one session.                         *)
OneSessionPerState ==
  \A s, t \in 1 .. Len(sessions) : sessions[s].state # 0 /\ sessions[s].state = sessions[t].state => s = t

(* Both together: one sign-in makes one account and one session.              *)
OneOfEach == OneAccountPerIdentity /\ OneSessionPerState

(* users.ts:74-94 - what the answers of the account routes confirmed stays     *)
(* true: a change of one flag never takes back the change of another that was  *)
(* in progress at the same time, and no account takes another's name.          *)
AnswersHold ==
  /\ \A u \in UserIds : users[u].flags = told[u]
  /\ \A u, v \in UserIds : users[u].name = users[v].name => u = v
================================================================================
