----------------------------- MODULE ServerProofs ------------------------------
(***************************************************************************)
(* Proofs about what a server keeps while many clients talk to it: the     *)
(* requests and the log (Gateway), the file of the generic providers       *)
(* (Providers), the log page (LogsPage) and the board of ideas (Ideas).    *)
(* The first part is about the order of numbers (Ranks), in which the      *)
(* tables and the lists of the other parts are read.                       *)
(***************************************************************************)
EXTENDS Gateway, Providers, LogsPage, Ideas,
        SequenceTheorems, FiniteSetTheorems, TLAPS

--------------------------------------------------------------------------------
(***************************************************************************)
(* Ranks: a finite set of numbers, in its order, has each of them once,    *)
(* the lower one first.                                                    *)
(***************************************************************************)

\* A set of numbers has as many ranks as numbers, in their order.
LEMMA RankFacts ==
  ASSUME NEW S \in SUBSET Int, IsFiniteSet(S)
  PROVE  /\ Cardinality(S) \in Nat
         /\ \A n \in Int : Rank(S, n) \in 0 .. Cardinality(S)
         /\ \A n \in S : Rank(S, n) \in 1 .. Cardinality(S)
         /\ \A m, n \in Int : m <= n => Rank(S, m) <= Rank(S, n)
         /\ \A m \in Int, n \in S : m < n => Rank(S, m) < Rank(S, n)
<1> DEFINE Below(n) == {m \in S : m <= n}
<1>1. Cardinality(S) \in Nat BY FS_CardinalityType
<1>2. \A n : /\ Below(n) \in SUBSET S /\ IsFiniteSet(Below(n))
             /\ Cardinality(Below(n)) \in Nat /\ Cardinality(Below(n)) <= Cardinality(S)
  BY FS_Subset, FS_CardinalityType
<1>3. \A m, n \in Int : m <= n => Rank(S, m) <= Rank(S, n)
  <2> SUFFICES ASSUME NEW m \in Int, NEW n \in Int, m <= n PROVE Rank(S, m) <= Rank(S, n) OBVIOUS
  <2>1. \A x \in Below(m) : x \in Int /\ x <= m /\ x \in S OBVIOUS
  <2>2. \A x \in Below(m) : x <= n BY <2>1
  <2>3. Below(m) \in SUBSET Below(n) BY <2>1, <2>2
  <2> QED BY <2>3, <1>2, FS_Subset DEF Rank
<1>4. \A m \in Int, n \in S : m < n => Rank(S, m) < Rank(S, n)
  <2> SUFFICES ASSUME NEW m \in Int, NEW n \in S, m < n PROVE Rank(S, m) < Rank(S, n) OBVIOUS
  <2>0. \A x \in Below(m) : x \in Int /\ x <= m /\ x \in S OBVIOUS
  <2>a. \A x \in Below(m) : x <= n BY <2>0
  <2>b. n \in Int BY <2>0
  <2>c. ~(n <= m) /\ n <= n BY <2>b
  <2>1. Below(m) \in SUBSET Below(n) /\ n \in Below(n) /\ n \notin Below(m) BY <2>0, <2>a, <2>c
  <2>2. /\ Cardinality(Below(m)) <= Cardinality(Below(n))
        /\ Cardinality(Below(m)) # Cardinality(Below(n))
    BY <2>1, <1>2, FS_Subset
  <2> QED BY <2>2, <1>2 DEF Rank
<1>5. \A n \in S : Rank(S, n) \in 1 .. Cardinality(S)
  <2> SUFFICES ASSUME NEW n \in S PROVE Rank(S, n) \in 1 .. Cardinality(S) OBVIOUS
  <2>1. n \in Below(n) OBVIOUS
  <2>2. Cardinality(Below(n)) # 0 BY <2>1, <1>2, FS_EmptySet
  <2> QED BY <2>2, <1>1, <1>2 DEF Rank
<1>6. \A n \in Int : Rank(S, n) \in 0 .. Cardinality(S) BY <1>1, <1>2 DEF Rank
<1> QED BY <1>1, <1>3, <1>4, <1>5, <1>6

\* Every rank up to the number of them is that of exactly one number.
LEMMA RankTaken ==
  ASSUME NEW S \in SUBSET Int, IsFiniteSet(S), NEW k \in 1 .. Cardinality(S)
  PROVE  \E n \in S : Rank(S, n) = k
<1> DEFINE T == 1 .. Cardinality(S)
           f == [n \in S |-> Rank(S, n)]
<1>1. Cardinality(S) \in Nat /\ IsFiniteSet(T) /\ Cardinality(T) = Cardinality(S)
  BY FS_CardinalityType, FS_Interval
<1>2. f \in [S -> T] BY RankFacts
<1>3. \A m, n \in S : f[m] = f[n] => m = n
  <2> SUFFICES ASSUME NEW m \in S, NEW n \in S, Rank(S, m) = Rank(S, n), m # n PROVE FALSE
    OBVIOUS
  <2>1. m \in Int /\ n \in Int OBVIOUS
  <2>2. Rank(S, m) \in Int /\ Rank(S, n) \in Int BY RankFacts, <1>1
  <2>3. m < n \/ n < m BY <2>1
  <2> QED BY <2>1, <2>2, <2>3, RankFacts
<1>4. f \in Injection(S, T) BY <1>2, <1>3 DEF Injection, IsInjective
<1>5. f \in Surjection(S, T) BY <1>1, <1>4, FS_Injection
<1>6. PICK n \in S : f[n] = k BY <1>5 DEF Surjection
<1> QED BY <1>6

\* InOrder gives each number of a set at its rank.
LEMMA InOrderIs ==
  ASSUME NEW S \in SUBSET Int, IsFiniteSet(S)
  PROVE  /\ InOrder(S) \in Seq(S)
         /\ Len(InOrder(S)) = Cardinality(S)
         /\ \A k \in 1 .. Cardinality(S) : InOrder(S)[k] \in S /\ Rank(S, InOrder(S)[k]) = k
         /\ \A n \in S : InOrder(S)[Rank(S, n)] = n
         /\ \A j, k \in 1 .. Cardinality(S) : j < k => InOrder(S)[j] < InOrder(S)[k]
<1> DEFINE C == Cardinality(S)
           it(k) == CHOOSE n \in S : Rank(S, n) = k
<1>1. C \in Nat BY FS_CardinalityType
<1>2. \A k \in 1 .. C : it(k) \in S /\ Rank(S, it(k)) = k BY RankTaken
<1>3. InOrder(S) = [k \in 1 .. C |-> it(k)] BY DEF InOrder
<1> HIDE DEF C, it
<1>4. InOrder(S) \in [1 .. C -> S] /\ \A k \in 1 .. C : InOrder(S)[k] = it(k) BY <1>2, <1>3
<1>5. InOrder(S) \in Seq(S) /\ Len(InOrder(S)) = C BY <1>1, <1>4
<1>6. \A j, k \in 1 .. C : j < k => it(j) < it(k)
  <2> SUFFICES ASSUME NEW j \in 1 .. C, NEW k \in 1 .. C, j < k, ~(it(j) < it(k)) PROVE FALSE
    OBVIOUS
  <2>1. it(j) \in Int /\ it(k) \in Int BY <1>2
  <2>2. it(k) <= it(j) BY <2>1
  <2>3. Rank(S, it(k)) <= Rank(S, it(j)) BY <2>1, <2>2, RankFacts
  <2> QED BY <2>3, <1>1, <1>2
<1>7. \A n \in S : InOrder(S)[Rank(S, n)] = n
  <2> SUFFICES ASSUME NEW n \in S PROVE InOrder(S)[Rank(S, n)] = n OBVIOUS
  <2> DEFINE k == Rank(S, n)
  <2>1. k \in 1 .. C BY RankFacts DEF C
  <2>2. it(k) \in S /\ Rank(S, it(k)) = Rank(S, n) BY <2>1, <1>2
  <2>3. it(k) \in Int /\ n \in Int BY <2>2
  <2>4. Rank(S, n) \in Int BY <2>1, <1>1
  <2>5. ~(it(k) < n) /\ ~(n < it(k)) BY <2>2, <2>3, <2>4, RankFacts
  <2>6. it(k) = n BY <2>3, <2>5
  <2> QED BY <2>1, <2>6, <1>4
<1> QED BY <1>2, <1>4, <1>5, <1>6, <1>7 DEF C

--------------------------------------------------------------------------------
(***************************************************************************)
(* Gateway: for any set of requests, any refusals and any number of        *)
(* retries and reads, the client and the log are told the same.            *)
(*                                                                         *)
(* Requests do not touch each other, and a handler that is done is never   *)
(* touched again. So the invariant is about one handler: what is on the    *)
(* wire in each phase, and, once it is done, what its one row says. Every  *)
(* action either moves one handler without a row (Go) or ends it with its  *)
(* row (Finish); there is a lemma for each of the two, and the actions     *)
(* only have to show what they hand to them.                               *)
(***************************************************************************)

(* An answer that has begun: its head, and data.                               *)
Begun(w) == w # <<>> /\ w[1] = "ok" /\ \A n \in DOMAIN w : n # 1 => w[n] = "data"

(* One head, and nothing after the end.                                        *)
WellFormed(w) ==
  \A n \in DOMAIN w : /\ w[n] \in {"ok", "error"} <=> n = 1
                      /\ w[n] \in {"end", "error"} => n = Len(w)

Ends(w) == w # <<>> /\ w[Len(w)] \in {"end", "error"}

Asked == {"fetch", "backoff", "reading", "streaming"}

(* A handler that is done: its answer is whole, and shows a failure.           *)
Ended(q) ==
  /\ WellFormed(q.wire)
  /\ ~q.gone => Ends(q.wire)
  /\ q.posts > 0 /\ ~q.gone /\ q.kind # "chat" => (q.broke <=> Has(q, "error") \/ Has(q, "failed"))

(* What a handler may look like in each phase.                                 *)
HandlerOK(q) ==
  /\ q.phase \in {"new", "body"} => q.posts = 0 /\ q.kind = "none" /\ ~q.hears
  /\ q.phase \in Asked => q.posts > 0 /\ q.kind # "none"
  /\ q.phase = "backoff" => q.attempt < MaxRetries
  /\ q.phase # "done" => q.told = "none"
  /\ q.phase \notin {"streaming", "done"} => q.wire = <<>>
  /\ q.phase = "streaming" => q.kind \in Streaming /\ (Begun(q.wire) \/ (q.gone /\ q.wire = <<>>))
  /\ q.phase = "reading" => q.kind \notin Streaming
  /\ q.tick => q.phase = "streaming"
  /\ q.phase = "done" => Ended(q)

(* The row of a handler that is done.                                          *)
RowTells(r, q, row) ==
  /\ IF q.kind # "sse" THEN row.status = "error" <=> q.broke
     ELSE /\ row.status = "error" => q.broke
          /\ ~q.gone => (row.status = "error" <=> Has(q, "error"))
  /\ q.told # "none" => row.code = q.told
  /\ row.status = "ok" <=> row.code = Note(r)
  /\ row.calls # Unknown => row.calls = q.calls

RowsTell(r) ==
  IF req[r].phase = "done" /\ req[r].posts > 0
  THEN \E row \in RowsOf(r) : RowsOf(r) = {row} /\ RowTells(r, req[r], row)
  ELSE RowsOf(r) = {}

GatewayInv ==
  /\ TypeOK
  /\ \A r \in Requests : /\ HandlerOK(req[r])
                         /\ alive /\ req[r].phase # "done" => ~req[r].broke
                         /\ RowsTell(r)

--------------------------------------------------------------------------------
(* What is written to the wire. *)

(* More data, or the end, after an answer that has begun.                      *)
LEMMA WireData ==
  ASSUME NEW w \in Seq(Items), Begun(w)
  PROVE  w \o <<"data">> \in Seq(Items) /\ Begun(w \o <<"data">>)
<1>1. <<"data">> \in Seq(Items)
  BY DEF Items
<1> QED BY <1>1 DEF Begun

LEMMA WireEnd ==
  ASSUME NEW w \in Seq(Items), Begun(w)
  PROVE  LET v == w \o <<"end">>
         IN  /\ v \in Seq(Items) /\ WellFormed(v) /\ Ends(v)
             /\ "error" \notin Range(v) /\ "failed" \notin Range(v)
<1> DEFINE v == w \o <<"end">>
<1>1. v \in Seq(Items)
  <2>1. <<"end">> \in Seq(Items)
    BY DEF Items
  <2> QED BY <2>1
<1>2. /\ Len(w) \in Nat /\ Len(w) > 0 /\ Len(v) = Len(w) + 1 /\ DOMAIN v = 1 .. Len(v)
      /\ v[Len(v)] = "end" /\ v[1] = "ok" /\ \A n \in DOMAIN v : n # 1 /\ n # Len(v) => v[n] = "data"
  BY DEF Begun
<1> HIDE DEF v
<1> QED BY <1>1, <1>2 DEF WellFormed, Ends, Range, v

LEMMA WireFailed ==
  ASSUME NEW w \in Seq(Items), Begun(w)
  PROVE  LET v == w \o <<"failed", "end">>
         IN  /\ v \in Seq(Items) /\ WellFormed(v) /\ Ends(v)
             /\ "error" \notin Range(v) /\ "failed" \in Range(v)
<1> DEFINE v == w \o <<"failed", "end">>
<1>1. v \in Seq(Items)
  <2>1. <<"failed", "end">> \in Seq(Items)
    BY DEF Items
  <2> QED BY <2>1
<1>2. /\ Len(w) \in Nat /\ Len(w) > 0 /\ Len(v) = Len(w) + 2 /\ DOMAIN v = 1 .. Len(v)
      /\ v[Len(v)] = "end" /\ v[Len(v) - 1] = "failed" /\ v[1] = "ok"
      /\ \A n \in DOMAIN v : n # 1 /\ n # Len(v) /\ n # Len(v) - 1 => v[n] = "data"
  BY DEF Begun
<1> HIDE DEF v
<1>3. v[Len(v)] \in {"end", "error"} /\ v # <<>>
  BY <1>1, <1>2
<1>4. WellFormed(v)
  BY <1>1, <1>2 DEF WellFormed
<1>5. Range(v) = {v[n] : n \in DOMAIN v} /\ Len(v) - 1 \in DOMAIN v
  BY <1>1, <1>2 DEF Range
<1>6. "failed" \in Range(v) /\ "error" \notin Range(v)
  BY <1>2, <1>5
<1> QED BY <1>1, <1>3, <1>4, <1>6 DEF Ends, v

(* An answer that has begun and goes no further, or none at all.               *)
LEMMA WireLeft ==
  ASSUME NEW w \in Seq(Items), Begun(w) \/ w = <<>>
  PROVE  WellFormed(w) /\ "error" \notin Range(w) /\ "failed" \notin Range(w)
<1>1. CASE w = <<>>
  BY <1>1 DEF WellFormed, Range
<1>2. CASE Begun(w)
  BY <1>2 DEF Begun, WellFormed, Range
<1> QED BY <1>1, <1>2

(* Answers that are written in one go.                                         *)
LEMMA WireWhole ==
  /\ \A v \in {<<"error">>, <<"ok", "end">>, <<"ok", "data", "end">>} :
       v \in Seq(Items) /\ WellFormed(v) /\ Ends(v) /\ "failed" \notin Range(v)
  /\ "error" \in Range(<<"error">>) /\ "error" \notin Range(<<"ok", "end">>)
<1>1. <<"error">> \in Seq(Items) /\ WellFormed(<<"error">>) /\ Ends(<<"error">>)
  BY DEF WellFormed, Ends, Items
<1>2. <<"ok", "end">> \in Seq(Items) /\ WellFormed(<<"ok", "end">>) /\ Ends(<<"ok", "end">>)
  BY DEF WellFormed, Ends, Items
<1>3. <<"ok", "data", "end">> \in Seq(Items) /\ WellFormed(<<"ok", "data", "end">>) /\ Ends(<<"ok", "data", "end">>)
  BY DEF WellFormed, Ends, Items
<1>4. /\ Range(<<"error">>) = {"error"} /\ Range(<<"ok", "end">>) = {"ok", "end"}
      /\ Range(<<"ok", "data", "end">>) = {"ok", "data", "end"}
  BY DEF Range
<1> QED BY <1>1, <1>2, <1>3, <1>4

(* What a client that is there is sent, and one that has gone is not.          *)
LEMMA SendFields ==
  ASSUME NEW q \in Handler, NEW items
  PROVE  LET t == Send(q, items)
         IN  /\ t = [q EXCEPT !.wire = IF q.gone THEN q.wire ELSE q.wire \o items]
             /\ t.wire = (IF q.gone THEN q.wire ELSE q.wire \o items)
             /\ t.kind = q.kind /\ t.phase = q.phase /\ t.attempt = q.attempt /\ t.posts = q.posts
             /\ t.reads = q.reads /\ t.calls = q.calls /\ t.gone = q.gone /\ t.hears = q.hears
             /\ t.deaf = q.deaf /\ t.tick = q.tick /\ t.told = q.told /\ t.broke = q.broke
             /\ t.wire \in Seq(Items) => t \in Handler
BY DEF Send, Handler

(* What a refusal is called is never what the row of an answer says.           *)
LEMMA RefusalNamed ==
  ASSUME NEW reply \in Replies
  PROVE  ErrorCode(reply) \in Codes \ {"none", "client_model_rewritten"}
<1>1. reply \in Transients \cup Refusals
  BY GatewayAssumption
<1>2. ErrorCode(reply) \in {"upstream_unreachable", "provider_hint", "context_length_exceeded",
                            "malformed_request_field", "authentication_error", "rate_limit_exceeded",
                            "server_error", "bad_request"}
  BY <1>1 DEF ErrorCode, EnhanceError, DetectContextOverflow, DetectMalformedJsonField, DefaultErrorCode,
              Transients, Refusals
<1> QED BY <1>2 DEF Codes

--------------------------------------------------------------------------------
(* The two ways in which a handler moves on. *)

(* Without a row: the handler is not done, or no upstream was asked.           *)
LEMMA GoInv ==
  ASSUME GatewayInv, alive, NEW r \in Requests, req[r].phase # "done",
         NEW q \in Handler, HandlerOK(q), q.phase # "done" => ~q.broke, q.phase = "done" => q.posts = 0,
         Go(r, q)
  PROVE  GatewayInv'
<1>1. /\ req' = [req EXCEPT ![r] = q] /\ alive' = alive /\ queued' = queued /\ rows' = rows
      /\ req \in [Requests -> Handler]
  BY DEF Go, GatewayInv, TypeOK
<1>2. req'[r] = q /\ \A x \in Requests : x # r => req'[x] = req[x]
  BY <1>1
<1>3. TypeOK'
  BY <1>1 DEF GatewayInv, TypeOK
<1>4. ASSUME NEW x \in Requests
      PROVE  /\ HandlerOK(req'[x]) /\ (alive' /\ req'[x].phase # "done" => ~req'[x].broke)
             /\ RowsTell(x)'
  <2>1. RowsOf(x)' = RowsOf(x)
    BY <1>1 DEF RowsOf
  <2>2. CASE x = r
    <3>1. RowsOf(r) = {}
      BY DEF GatewayInv, RowsTell
    <3>2. RowsTell(x)'
      BY <1>2, <2>1, <2>2, <3>1 DEF RowsTell, Handler
    <3> QED BY <1>2, <2>2, <3>2
  <2>3. CASE x # r
    <3>1. RowsTell(x)'
      BY <1>2, <2>1, <2>3 DEF GatewayInv, RowsTell
    <3> QED BY <1>1, <1>2, <2>3, <3>1 DEF GatewayInv
  <2> QED BY <2>2, <2>3
<1> QED BY <1>3, <1>4 DEF GatewayInv

(* With its row, which says how it ended.                                      *)
LEMMA FinishInv ==
  ASSUME GatewayInv, NEW r \in Requests, req[r].phase # "done",
         NEW q, Done(q) \in Handler, HandlerOK(Done(q)), q.posts > 0, Done(q).posts = q.posts,
         NEW status \in {"ok", "error"}, NEW code \in Codes, NEW asked \in Nat \cup {Unknown},
         RowTells(r, Done(q), [request |-> r, status |-> status, code |-> code, calls |-> asked]),
         Finish(r, q, status, code, asked)
  PROVE  GatewayInv'
<1> DEFINE d == Done(q)
           row == [request |-> r, status |-> status, code |-> code, calls |-> asked]
<1>1. /\ req' = [req EXCEPT ![r] = d] /\ alive' = alive /\ queued' = queued \cup {row} /\ rows' = rows
      /\ req \in [Requests -> Handler]
  BY DEF Finish, GatewayInv, TypeOK
<1>2. req'[r] = d /\ \A x \in Requests : x # r => req'[x] = req[x]
  BY <1>1
<1>3. row \in LogRow /\ row.request = r
  BY DEF LogRow
<1>4. TypeOK'
  <2> HIDE DEF row, d
  <2> QED BY <1>1, <1>3 DEF GatewayInv, TypeOK, d
<1>5. d.phase = "done"
  <2>1. d.phase \in Phases
    BY DEF Handler
  <2> QED BY <2>1 DEF Done, Handler
<1> HIDE DEF row, d
<1>6. ASSUME NEW x \in Requests
      PROVE  /\ HandlerOK(req'[x]) /\ (alive' /\ req'[x].phase # "done" => ~req'[x].broke)
             /\ RowsTell(x)'
  <2>1. CASE x = r
    <3>1. RowsOf(r) = {}
      BY DEF GatewayInv, RowsTell
    <3>2. RowsOf(r)' = {row}
      BY <1>1, <1>3, <3>1 DEF RowsOf
    <3>3. RowTells(r, d, row)
      BY DEF d, row
    <3>4. RowsTell(x)'
      BY <1>2, <1>5, <2>1, <3>2, <3>3 DEF RowsTell, d
    <3> QED BY <1>2, <1>5, <2>1, <3>4 DEF d
  <2>2. CASE x # r
    <3>1. RowsOf(x)' = RowsOf(x)
      BY <1>1, <1>3, <2>2 DEF RowsOf
    <3>2. RowsTell(x)'
      BY <1>2, <2>2, <3>1 DEF GatewayInv, RowsTell
    <3> QED BY <1>1, <1>2, <2>2, <3>2 DEF GatewayInv
  <2> QED BY <2>1, <2>2
<1> QED BY <1>4, <1>6 DEF GatewayInv

(* A refusal, or an abort before the answer: the error is told and logged.     *)
LEMMA CaughtInv ==
  ASSUME GatewayInv, NEW r \in Requests, alive, req[r].phase \in Asked \ {"streaming"},
         NEW code \in Codes \ {"none", "client_model_rewritten"}, Caught(r, code)
  PROVE  GatewayInv'
<1> DEFINE q == req[r]
           t == Send(q, <<"error">>)
           b == Broken(Told(q, code))
           d == Done(b)
<1>1. /\ q \in Handler /\ HandlerOK(q) /\ ~q.broke /\ q.wire = <<>> /\ q.posts > 0 /\ q.phase # "done"
      /\ q.gone \in BOOLEAN /\ q.kind # "none"
  BY DEF GatewayInv, TypeOK, HandlerOK, Asked, Handler
<1> HIDE DEF q
<1>2. /\ t.wire = (IF q.gone THEN <<>> ELSE <<"error">>) /\ t.wire \in Seq(Items)
      /\ t \in Handler /\ t.posts = q.posts /\ t.kind = q.kind /\ t.gone = q.gone
  <2>1. <<>> \o <<"error">> = <<"error">>
    OBVIOUS
  <2>2. <<"error">> \in Seq(Items) /\ <<>> \in Seq(Items)
    BY WireWhole
  <2>3. /\ t.wire = (IF q.gone THEN q.wire ELSE q.wire \o <<"error">>)
        /\ t.posts = q.posts /\ t.kind = q.kind /\ t.gone = q.gone
        /\ t.wire \in Seq(Items) => t \in Handler
    BY <1>1, SendFields
  <2> HIDE DEF t
  <2> QED BY <1>1, <2>1, <2>2, <2>3
<1> HIDE DEF t
<1>3. b = [t EXCEPT !.told = code, !.broke = TRUE]
  BY <1>2 DEF Broken, Told, t, Handler
<1>4. /\ d \in Handler /\ d.wire = t.wire /\ d.posts = q.posts /\ d.kind = q.kind /\ d.gone = q.gone
      /\ d.told = code /\ d.broke /\ d.phase = "done" /\ ~d.tick /\ b.posts = q.posts
  BY <1>2, <1>3 DEF Done, Handler, Phases
<1> HIDE DEF b, d
<1>5. WellFormed(d.wire) /\ (~d.gone => Ends(d.wire) /\ Has(d, "error"))
  <2>1. <<>> \in Seq(Items)
    OBVIOUS
  <2> QED BY <1>2, <1>4, <2>1, WireWhole, WireLeft DEF Has
<1>6. HandlerOK(d)
  BY <1>4, <1>5 DEF HandlerOK, Ended, Asked
<1> DEFINE row == [request |-> r, status |-> "error", code |-> code, calls |-> Unknown]
<1>7. RowTells(r, d, row)
  BY <1>4, <1>5 DEF RowTells, Note
<1>8. Finish(r, b, "error", code, Unknown)
  BY DEF Caught, b, q
<1>9. /\ "error" \in {"ok", "error"} /\ code \in Codes /\ Unknown \in Nat \cup {Unknown} /\ b.posts > 0
      /\ d.posts = b.posts
  BY <1>1, <1>4
<1> HIDE DEF row
<1> QED BY <1>1, <1>4, <1>6, <1>7, <1>8, <1>9, FinishInv DEF d, row, q

(* An answer that is over, well or badly: its row counts what it knows.        *)
LEMMA OverInv ==
  ASSUME GatewayInv, NEW r \in Requests, req[r].phase # "done", req[r].posts > 0,
         NEW q \in Handler, q.posts > 0, q.told = "none",
         WellFormed(q.wire), ~q.gone => Ends(q.wire), ~q.gone => (q.broke <=> Has(q, "failed")) \/ q.kind = "chat",
         ~Has(q, "error"),
         NEW status \in {"ok", "error"}, NEW code \in Codes, NEW asked \in Nat \cup {Unknown},
         asked # Unknown => asked = q.calls,
         status = "error" <=> q.broke /\ q.kind # "sse", status = "ok" <=> code = Note(r),
         Finish(r, q, status, code, asked)
  PROVE  GatewayInv'
<1> DEFINE d == Done(q)
           row == [request |-> r, status |-> status, code |-> code, calls |-> asked]
<1>1. /\ d \in Handler /\ d.wire = q.wire /\ d.posts = q.posts /\ d.kind = q.kind /\ d.gone = q.gone
      /\ d.told = "none" /\ d.broke = q.broke /\ d.phase = "done" /\ ~d.tick /\ d.calls = q.calls
  BY DEF Done, Handler, Phases
<1> HIDE DEF d
<1>2. ~Has(d, "error") /\ (Has(d, "failed") <=> Has(q, "failed"))
  BY <1>1 DEF Has
<1>3. HandlerOK(d)
  BY <1>1, <1>2 DEF HandlerOK, Ended, Asked
<1>4. RowTells(r, d, row)
  BY <1>1, <1>2 DEF RowTells
<1> HIDE DEF row
<1> QED BY <1>1, <1>3, <1>4, FinishInv DEF d, row

--------------------------------------------------------------------------------
(* The actions. *)

(* A handler ends before any upstream is asked.                                *)
LEMMA UnaskedInv ==
  ASSUME GatewayInv, alive, NEW r \in Requests, req[r].phase \in {"new", "body"},
         NEW q \in Handler, q.wire = <<>>, q.posts = 0, q.phase \in {"new", "body"},
         NEW items \in {<<"error">>, <<"ok", "end">>, <<"ok", "data", "end">>}, NEW told \in Codes,
         Go(r, Done([Send(q, items) EXCEPT !.told = told]))
  PROVE  GatewayInv'
<1> DEFINE t == Send(q, items)
           d == Done([t EXCEPT !.told = told])
<1>1. /\ t \in Handler /\ t.posts = 0 /\ t.gone = q.gone /\ t.wire = (IF q.gone THEN <<>> ELSE items)
      /\ t.wire \in Seq(Items)
  <2>1. items \in Seq(Items)
    BY WireWhole
  <2>3. <<>> \o items = items /\ <<>> \in Seq(Items)
    BY <2>1
  <2>2. /\ t.wire = (IF q.gone THEN q.wire ELSE q.wire \o items) /\ t.posts = q.posts /\ t.gone = q.gone
        /\ t.wire \in Seq(Items) => t \in Handler
    BY SendFields
  <2> HIDE DEF t
  <2> QED BY <2>1, <2>2, <2>3
<1> HIDE DEF t
<1>2. /\ d \in Handler /\ d.posts = 0 /\ d.gone = t.gone /\ d.wire = t.wire /\ d.phase = "done" /\ ~d.tick
  BY <1>1 DEF Done, Handler, Phases
<1> HIDE DEF d
<1>3. WellFormed(d.wire) /\ (~d.gone => Ends(d.wire))
  BY <1>1, <1>2, WireWhole, WireLeft
<1>4. HandlerOK(d)
  BY <1>2, <1>3 DEF HandlerOK, Ended, Asked
<1>5. req[r].phase # "done" /\ Go(r, d)
  BY DEF d, t
<1> QED BY <1>2, <1>4, <1>5, GoInv

(* Dispatch, a bad body, a probe, or a provider chosen.                        *)
LEMMA ArrivalInv ==
  ASSUME GatewayInv, alive, NEW r \in Requests, Arrival(r)
  PROVE  GatewayInv'
<1> DEFINE q == req[r]
<1>1. q \in Handler /\ HandlerOK(q) /\ (q.phase # "done" => ~q.broke)
  BY DEF GatewayInv, TypeOK
<1>2. /\ New \in Handler /\ New.wire = <<>> /\ New.posts = 0 /\ New.phase = "new" /\ HandlerOK(New) /\ ~New.broke
  <2>1. <<>> \in Seq(Items) /\ 0 \in 0 .. MaxRetries /\ 0 \in 0 .. MaxReads
    BY GatewayAssumption
  <2>2. New \in Handler
    BY <2>1 DEF New, Handler, Phases, Codes
  <2> QED BY <2>2 DEF New, HandlerOK, Asked
<1> HIDE DEF q
<1>3. CASE Dispatch(r)
  <2>1. CASE Go(r, [New EXCEPT !.phase = "body"])
    <3> DEFINE b == [New EXCEPT !.phase = "body"]
    <3>1. b \in Handler /\ HandlerOK(b) /\ ~b.broke /\ b.phase = "body"
      BY <1>2 DEF Handler, HandlerOK, Phases, Asked, New
    <3> HIDE DEF b
    <3> QED BY <1>3, <2>1, <3>1, GoInv DEF Dispatch, b
  <2>2. ASSUME NEW code \in {"maintenance_mode", "invalid_bearer"}, Go(r, Done(Told(New, code))) PROVE GatewayInv'
    <3>1. code \in Codes
      BY DEF Codes
    <3> QED BY <1>2, <1>3, <2>2, <3>1, UnaskedInv DEF Dispatch, Told
  <2> QED BY <1>3, <2>1, <2>2 DEF Dispatch
<1>4. CASE BadBody(r)
  <2>1. PICK code \in {"invalid_json", "missing_model"} : Go(r, Done(Told(q, code)))
    BY <1>4 DEF BadBody, q
  <2>2. code \in Codes /\ q.phase = "body" /\ q.wire = <<>> /\ q.posts = 0
    BY <1>1, <1>4 DEF Codes, BadBody, HandlerOK, q
  <2> QED BY <1>1, <2>1, <2>2, UnaskedInv DEF Told, q
<1>5. CASE ResponsesProbe(r) \/ ChatProbe(r)
  <2>1. PICK items \in {<<"ok", "end">>, <<"ok", "data", "end">>} : Go(r, Done(Send(q, items)))
    BY <1>5 DEF ResponsesProbe, ChatProbe, Synthetic, q
  <2>2. q.phase = "body" /\ q.wire = <<>> /\ q.posts = 0 /\ q.told = "none"
    BY <1>1, <1>5 DEF ResponsesProbe, ChatProbe, HandlerOK, q
  <2>3. Send(q, items) = [Send(q, items) EXCEPT !.told = "none"]
    BY <1>1, <2>2 DEF Send, Handler
  <2>4. "none" \in Codes
    BY DEF Codes
  <2> QED BY <1>1, <2>1, <2>2, <2>3, <2>4, UnaskedInv DEF q
<1>6. ASSUME NEW kind \in Translated \cup Passthrough \cup Chat, Accept(r, kind) PROVE GatewayInv'
  <2>1. PICK hears \in BOOLEAN :
          Go(r, [q EXCEPT !.kind = kind, !.phase = "fetch", !.posts = 1, !.hears = hears])
    BY <1>6 DEF Accept, q
  <2> DEFINE b == [q EXCEPT !.kind = kind, !.phase = "fetch", !.posts = 1, !.hears = hears]
  <2>2. q.phase = "body"
    BY <1>6 DEF Accept, q
  <2>3. b \in Handler
    BY <1>1 DEF Handler, Phases
  <2>4. /\ b.phase = "fetch" /\ b.posts = 1 /\ b.kind = kind /\ b.told = q.told /\ b.wire = q.wire
        /\ b.tick = q.tick /\ b.broke = q.broke /\ kind # "none"
    BY <1>1 DEF Handler, Translated, Passthrough, Chat
  <2> HIDE DEF b
  <2>5. HandlerOK(b) /\ ~b.broke
    BY <1>1, <2>2, <2>4 DEF HandlerOK, Asked
  <2> QED BY <2>1, <2>2, <2>3, <2>4, <2>5, GoInv DEF b, q
<1> QED BY <1>3, <1>4, <1>5, <1>6 DEF Arrival, AcceptResponses, AcceptPassthrough, AcceptChat

(* A handler whose fields change, and nothing is written.                      *)
LEMMA QuietInv ==
  ASSUME GatewayInv, alive, NEW r \in Requests,
         ClientGone(r) \/ Transient(r) \/ BackoffOver(r) \/ Answered(r)
  PROVE  GatewayInv'
<1> DEFINE q == req[r]
<1>1. q \in Handler /\ HandlerOK(q) /\ (q.phase # "done" => ~q.broke)
  BY DEF GatewayInv, TypeOK
<1> HIDE DEF q
<1>2. CASE ClientGone(r)
  <2> DEFINE b == [q EXCEPT !.gone = TRUE, !.tick = FALSE]
  <2>1. Go(r, b) /\ q.phase \notin {"new", "done"}
    BY <1>2 DEF ClientGone, q
  <2>2. /\ b \in Handler /\ b.gone /\ ~b.tick /\ b.phase = q.phase /\ b.posts = q.posts /\ b.kind = q.kind
        /\ b.hears = q.hears /\ b.attempt = q.attempt /\ b.told = q.told /\ b.wire = q.wire /\ b.broke = q.broke
    BY <1>1 DEF Handler
  <2> HIDE DEF b
  <2>3. HandlerOK(b)
    BY <1>1, <2>1, <2>2 DEF HandlerOK
  <2> QED BY <1>1, <2>1, <2>2, <2>3, GoInv DEF q
<1>3. CASE Transient(r)
  <2> DEFINE b == [q EXCEPT !.phase = "backoff"]
  <2>1. Go(r, b) /\ q.phase = "fetch" /\ q.attempt < MaxRetries
    BY <1>3 DEF Transient, q
  <2>2. /\ b \in Handler /\ b.phase = "backoff" /\ b.posts = q.posts /\ b.kind = q.kind /\ b.attempt = q.attempt
        /\ b.tick = q.tick /\ b.told = q.told /\ b.wire = q.wire /\ b.broke = q.broke
    BY <1>1 DEF Handler, Phases
  <2> HIDE DEF b
  <2>3. HandlerOK(b)
    BY <1>1, <2>1, <2>2 DEF HandlerOK, Asked
  <2> QED BY <1>1, <2>1, <2>2, <2>3, GoInv DEF q
<1>4. CASE BackoffOver(r)
  <2> DEFINE b == [q EXCEPT !.phase = "fetch", !.attempt = @ + 1, !.posts = @ + 1]
  <2>1. Go(r, b) /\ q.phase = "backoff" /\ q.attempt < MaxRetries
    BY <1>1, <1>4 DEF BackoffOver, HandlerOK, q
  <2>2. q.attempt + 1 \in 0 .. MaxRetries /\ q.posts + 1 \in Nat /\ q.posts \in Nat
    BY <1>1, <2>1, GatewayAssumption DEF Handler
  <2>3. /\ b \in Handler /\ b.phase = "fetch" /\ b.posts = q.posts + 1 /\ b.kind = q.kind
        /\ b.tick = q.tick /\ b.told = q.told /\ b.wire = q.wire /\ b.broke = q.broke
    BY <1>1, <2>2 DEF Handler, Phases
  <2> HIDE DEF b
  <2>4. HandlerOK(b)
    BY <1>1, <2>1, <2>2, <2>3 DEF HandlerOK, Asked
  <2> QED BY <1>1, <2>1, <2>3, <2>4, GoInv DEF q
<1>5. CASE Answered(r)
  <2>1. q.phase = "fetch" /\ q.wire = <<>> /\ q.posts > 0 /\ q.kind # "none" /\ q.told = "none" /\ ~q.broke /\ ~q.tick
    BY <1>1, <1>5 DEF Answered, HandlerOK, Asked, q
  <2>2. CASE q.kind \in Streaming
    <3> DEFINE b == [q EXCEPT !.phase = "streaming", !.deaf = q.gone, !.tick = q.kind # "chat"]
               t == Send(b, <<"ok">>)
    <3>1. Go(r, t)
      BY <1>5, <2>2 DEF Answered, q
    <3>2. /\ b \in Handler /\ b.phase = "streaming" /\ b.posts = q.posts /\ b.kind = q.kind /\ b.gone = q.gone
          /\ b.told = q.told /\ b.wire = q.wire /\ b.broke = q.broke
      BY <1>1 DEF Handler, Phases
    <3> HIDE DEF b
    <3>3. /\ t.wire = (IF b.gone THEN b.wire ELSE b.wire \o <<"ok">>) /\ t.phase = b.phase /\ t.posts = b.posts
          /\ t.kind = b.kind /\ t.gone = b.gone /\ t.told = b.told /\ t.broke = b.broke
          /\ t.wire \in Seq(Items) => t \in Handler
      BY <3>2, SendFields
    <3> HIDE DEF t
    <3>4. <<>> \o <<"ok">> = <<"ok">> /\ <<"ok">> \in Seq(Items) /\ <<>> \in Seq(Items) /\ Begun(<<"ok">>)
      BY DEF Items, Begun
    <3>5. t.wire = (IF q.gone THEN <<>> ELSE <<"ok">>) /\ t \in Handler /\ t.phase = "streaming" /\ ~t.broke
      BY <2>1, <3>2, <3>3, <3>4
    <3>6. HandlerOK(t)
      BY <2>1, <2>2, <3>2, <3>3, <3>4, <3>5 DEF HandlerOK, Asked
    <3> QED BY <2>1, <3>1, <3>5, <3>6, GoInv DEF q
  <2>3. CASE q.kind \notin Streaming
    <3> DEFINE b == [q EXCEPT !.phase = "reading"]
    <3>1. Go(r, b)
      BY <1>5, <2>3 DEF Answered, q
    <3>2. /\ b \in Handler /\ b.phase = "reading" /\ b.posts = q.posts /\ b.kind = q.kind
          /\ b.tick = q.tick /\ b.told = q.told /\ b.wire = q.wire /\ b.broke = q.broke
      BY <1>1 DEF Handler, Phases
    <3> HIDE DEF b
    <3>3. HandlerOK(b)
      BY <1>1, <2>1, <2>3, <3>2 DEF HandlerOK, Asked
    <3> QED BY <2>1, <3>1, <3>2, <3>3, GoInv DEF q
  <2> QED BY <2>2, <2>3
<1> QED BY <1>2, <1>3, <1>4, <1>5

(* A whole answer.                                                             *)
LEMMA WholeInv ==
  ASSUME GatewayInv, alive, NEW r \in Requests, req[r].phase = "reading",
         NEW asked \in Nat, NEW n \in {asked, Unknown},
         Finish(r, Send([req[r] EXCEPT !.calls = asked], <<"ok", "end">>), "ok", Note(r), n)
  PROVE  GatewayInv'
<1> DEFINE q == req[r]
           b == [q EXCEPT !.calls = asked]
           t == Send(b, <<"ok", "end">>)
<1>1. q \in Handler /\ HandlerOK(q) /\ ~q.broke
  BY DEF GatewayInv, TypeOK
<1>2. q.phase = "reading" /\ Finish(r, t, "ok", Note(r), n)
  OBVIOUS
<1> HIDE DEF q
<1>3. q.wire = <<>> /\ q.posts > 0 /\ q.told = "none"
  BY <1>1, <1>2 DEF HandlerOK, Asked
<1>4. /\ b \in Handler /\ b.wire = q.wire /\ b.posts = q.posts /\ b.told = q.told /\ b.broke = q.broke
      /\ b.calls = asked
  BY <1>1 DEF Handler
<1> HIDE DEF b
<1>5. /\ t.wire = (IF b.gone THEN b.wire ELSE b.wire \o <<"ok", "end">>) /\ t.posts = b.posts
      /\ t.gone = b.gone /\ t.told = b.told /\ t.broke = b.broke /\ t.calls = b.calls /\ t.kind = b.kind
      /\ t.wire \in Seq(Items) => t \in Handler
  BY <1>4, SendFields
<1> HIDE DEF t
<1>6. t.wire = (IF t.gone THEN <<>> ELSE <<"ok", "end">>)
  <2>1. <<>> \o <<"ok", "end">> = <<"ok", "end">>
    OBVIOUS
  <2> QED BY <1>3, <1>4, <1>5, <2>1
<1>7. /\ t \in Handler /\ WellFormed(t.wire) /\ (~t.gone => Ends(t.wire))
      /\ ~Has(t, "error") /\ ~Has(t, "failed")
  <2>1. <<>> \in Seq(Items)
    OBVIOUS
  <2> QED BY <1>5, <1>6, <2>1, WireWhole, WireLeft DEF Has
<1>8. Note(r) \in Codes /\ n \in Nat \cup {Unknown} /\ "ok" \in {"ok", "error"}
  BY DEF Note, Codes
<1>9. /\ ~t.broke /\ t.posts > 0 /\ t.told = "none" /\ t.calls = asked
  BY <1>1, <1>3, <1>4, <1>5
<1>10. req[r].phase # "done" /\ req[r].posts > 0
  BY <1>2, <1>3 DEF q
<1> QED BY <1>2, <1>7, <1>8, <1>9, <1>10, OverInv

(* A stream is over.                                                           *)
LEMMA StreamOverInv ==
  ASSUME GatewayInv, alive, NEW r \in Requests, req[r].phase = "streaming",
         NEW broke \in BOOLEAN, NEW items \in {<<"end">>, <<"failed", "end">>},
         (broke <=> items = <<"failed", "end">>) \/ req[r].kind = "chat",
         NEW status \in {"ok", "error"}, NEW code \in Codes, NEW asked \in {req[r].calls, Unknown},
         status = "error" <=> broke /\ req[r].kind # "sse", status = "ok" <=> code = Note(r),
         Finish(r, Send([req[r] EXCEPT !.broke = broke], items), status, code, asked)
  PROVE  GatewayInv'
<1> DEFINE q == req[r]
           b == [q EXCEPT !.broke = broke]
           t == Send(b, items)
<1>1. q \in Handler /\ HandlerOK(q)
  BY DEF GatewayInv, TypeOK
<1>2. /\ q.phase = "streaming" /\ Finish(r, t, status, code, asked) /\ asked \in {q.calls, Unknown}
      /\ (broke <=> items = <<"failed", "end">>) \/ q.kind = "chat"
      /\ (status = "error" <=> broke /\ q.kind # "sse")
  OBVIOUS
<1> HIDE DEF q
<1>3. (Begun(q.wire) \/ (q.gone /\ q.wire = <<>>)) /\ q.posts > 0 /\ q.told = "none" /\ q.wire \in Seq(Items)
  BY <1>1, <1>2 DEF HandlerOK, Asked, Handler
<1>4. /\ b \in Handler /\ b.wire = q.wire /\ b.posts = q.posts /\ b.told = q.told /\ b.broke = broke
      /\ b.calls = q.calls /\ b.gone = q.gone /\ b.kind = q.kind
  BY <1>1 DEF Handler
<1> HIDE DEF b
<1>5. /\ t.wire = (IF b.gone THEN b.wire ELSE b.wire \o items) /\ t.posts = b.posts
      /\ t.gone = b.gone /\ t.told = b.told /\ t.broke = b.broke /\ t.calls = b.calls /\ t.kind = b.kind
      /\ t.wire \in Seq(Items) => t \in Handler
  BY <1>4, SendFields
<1> HIDE DEF t
<1>6. /\ t.wire \in Seq(Items) /\ WellFormed(t.wire) /\ (~t.gone => Ends(t.wire)) /\ ~Has(t, "error")
      /\ ~t.gone => (Has(t, "failed") <=> items = <<"failed", "end">>)
  <2>1. CASE q.gone
    BY <1>3, <1>4, <1>5, <2>1, WireLeft DEF Has
  <2>2. CASE ~q.gone /\ items = <<"end">>
    <3>1. t.wire = q.wire \o <<"end">> /\ Begun(q.wire)
      BY <1>3, <1>4, <1>5, <2>2
    <3>2. <<"end">> # <<"failed", "end">>
      OBVIOUS
    <3> QED BY <1>3, <2>2, <3>1, <3>2, WireEnd DEF Has
  <2>3. CASE ~q.gone /\ items = <<"failed", "end">>
    <3>1. t.wire = q.wire \o <<"failed", "end">> /\ Begun(q.wire)
      BY <1>3, <1>4, <1>5, <2>3
    <3> QED BY <1>3, <2>3, <3>1, WireFailed DEF Has
  <2> QED BY <2>1, <2>2, <2>3
<1>7. /\ t \in Handler /\ t.posts > 0 /\ t.told = "none" /\ t.broke = broke /\ t.calls = q.calls /\ t.kind = q.kind
      /\ ~t.gone => (t.broke <=> Has(t, "failed")) \/ t.kind = "chat"
  BY <1>2, <1>3, <1>4, <1>5, <1>6
<1>8. asked \in Nat \cup {Unknown} /\ (asked # Unknown => asked = t.calls)
  BY <1>1, <1>2, <1>7 DEF Handler
<1>9. req[r].phase # "done" /\ req[r].posts > 0
  BY <1>2, <1>3 DEF q
<1>10. status = "error" <=> t.broke /\ t.kind # "sse"
  BY <1>2, <1>7
<1> QED BY <1>2, <1>6, <1>7, <1>8, <1>9, <1>10, OverInv

(* More of a stream, or the translator seeing that its client has left.        *)
LEMMA ChunkInv ==
  ASSUME GatewayInv, alive, NEW r \in Requests, SseChunk(r) \/ PipeChunk(r) \/ ChatChunk(r)
  PROVE  GatewayInv'
<1> DEFINE q == req[r]
<1>1. q \in Handler /\ HandlerOK(q) /\ (q.phase # "done" => ~q.broke)
  BY DEF GatewayInv, TypeOK
<1>2. q.phase = "streaming" /\ q.reads < MaxReads
  BY DEF SseChunk, PipeChunk, ChatChunk, MayRead
<1> HIDE DEF q
<1>3. (Begun(q.wire) \/ (q.gone /\ q.wire = <<>>)) /\ q.posts > 0 /\ q.told = "none" /\ q.wire \in Seq(Items)
  BY <1>1, <1>2 DEF HandlerOK, Asked, Handler
<1>4. ASSUME NEW b \in Read(q), Go(r, Send(b, <<"data">>)) PROVE GatewayInv'
  <2> DEFINE t == Send(b, <<"data">>)
  <2>1. PICK asked \in 0 .. 1 : b = [q EXCEPT !.reads = @ + 1, !.calls = @ + asked]
    BY DEF Read
  <2>2. q.reads + 1 \in 0 .. MaxReads /\ q.calls + asked \in Nat
    BY <1>1, <1>2, GatewayAssumption DEF Handler
  <2>3. /\ b \in Handler /\ b.phase = q.phase /\ b.posts = q.posts /\ b.kind = q.kind /\ b.gone = q.gone
        /\ b.told = q.told /\ b.wire = q.wire /\ b.broke = q.broke
    BY <1>1, <2>1, <2>2 DEF Handler
  <2>4. /\ t.wire = (IF b.gone THEN b.wire ELSE b.wire \o <<"data">>) /\ t.phase = b.phase
        /\ t.posts = b.posts /\ t.kind = b.kind /\ t.gone = b.gone /\ t.told = b.told /\ t.broke = b.broke
        /\ t.wire \in Seq(Items) => t \in Handler
    BY <2>3, SendFields
  <2> HIDE DEF t
  <2>5. t.wire \in Seq(Items) /\ (Begun(t.wire) \/ (t.gone /\ t.wire = <<>>))
    <3>1. CASE q.gone
      BY <1>3, <2>3, <2>4, <3>1
    <3>2. CASE ~q.gone
      BY <1>3, <2>3, <2>4, <3>2, WireData
    <3> QED BY <3>1, <3>2
  <2>6. HandlerOK(t)
    BY <1>1, <1>2, <1>3, <2>3, <2>4, <2>5 DEF HandlerOK, Asked
  <2>7. t \in Handler /\ t.phase # "done" /\ ~t.broke
    BY <1>1, <1>2, <2>3, <2>4, <2>5
  <2> QED BY <1>2, <1>4, <2>6, <2>7, GoInv DEF q, t
<1>5. ASSUME q.kind = "sse", Left(q), Finish(r, q, "ok", Note(r), q.calls) PROVE GatewayInv'
  <2>1. q.gone
    BY <1>5 DEF Left
  <2>2. WellFormed(q.wire) /\ ~Has(q, "error")
    BY <1>3, WireLeft DEF Has
  <2>3. Note(r) \in Codes /\ q.calls \in Nat \cup {Unknown} /\ "ok" \in {"ok", "error"} /\ ~q.broke
    BY <1>1, <1>2 DEF Note, Codes, Handler
  <2>4. req[r].phase # "done" /\ req[r].posts > 0
    BY <1>2, <1>3 DEF q
  <2> QED BY <1>1, <1>3, <1>5, <2>1, <2>2, <2>3, <2>4, OverInv
<1> QED BY <1>4, <1>5 DEF SseChunk, PipeChunk, ChatChunk, MayRead, q

(* An upstream that refuses, or a client that cancels before the answer.       *)
LEMMA RefusedInv ==
  ASSUME GatewayInv, alive, NEW r \in Requests,
         \/ RefusedJson(r) \/ RefusedStream(r) \/ RefusedPassthrough(r) \/ RefusedChat(r)
         \/ AbortBeforeAnswer(r)
  PROVE  GatewayInv'
<1>1. CASE AbortBeforeAnswer(r)
  <2>1. "internal_error" \in Codes \ {"none", "client_model_rewritten"}
    BY DEF Codes
  <2>2. req[r].phase \in Asked \ {"streaming"} /\ Caught(r, "internal_error")
    BY <1>1 DEF AbortBeforeAnswer, Asked
  <2> QED BY <2>1, <2>2, CaughtInv
<1>2. ASSUME NEW kinds, Refused(r, kinds) PROVE GatewayInv'
  <2>1. req[r].phase \in Asked \ {"streaming"}
    BY <1>2 DEF Refused, Asked
  <2>2. PICK reply \in FinalReplies(req[r]) : Caught(r, ErrorCode(reply))
    BY <1>2 DEF Refused
  <2>3. reply \in Replies
    BY <2>2 DEF FinalReplies
  <2>4. ErrorCode(reply) \in Codes \ {"none", "client_model_rewritten"}
    BY <2>3, RefusalNamed
  <2> QED BY <2>1, <2>2, <2>4, CaughtInv
<1> QED BY <1>1, <1>2 DEF RefusedJson, RefusedStream, RefusedPassthrough, RefusedChat

(* An answer that is read whole, or whose body cannot be read.                 *)
LEMMA ReadInv ==
  ASSUME GatewayInv, alive, NEW r \in Requests,
         JsonRead(r) \/ PassthroughRead(r) \/ ChatRead(r) \/ BodyFails(r)
  PROVE  GatewayInv'
<1>1. req[r].phase = "reading" /\ req[r] \in Handler
  BY DEF JsonRead, PassthroughRead, ChatRead, BodyFails, GatewayInv, TypeOK
<1>2. CASE JsonRead(r) \/ ChatRead(r)
  <2>1. PICK asked \in 0 .. 1 :
          Finish(r, Send([req[r] EXCEPT !.calls = asked], <<"ok", "end">>), "ok", Note(r), asked)
    BY <1>2 DEF JsonRead, ChatRead
  <2>2. asked \in Nat /\ asked \in {asked, Unknown}
    BY <2>1
  <2> QED BY <1>1, <2>1, <2>2, WholeInv
<1>3. CASE PassthroughRead(r)
  <2>1. [req[r] EXCEPT !.calls = req[r].calls] = req[r] /\ req[r].calls \in Nat
    BY <1>1 DEF Handler
  <2>2. Finish(r, Send([req[r] EXCEPT !.calls = req[r].calls], <<"ok", "end">>), "ok", Note(r), Unknown)
    BY <1>3, <2>1 DEF PassthroughRead
  <2>3. Unknown \in {req[r].calls, Unknown}
    OBVIOUS
  <2> QED BY <1>1, <2>1, <2>2, <2>3, WholeInv
<1>4. CASE BodyFails(r) /\ req[r].kind # "chatjson"
  <2>1. "internal_error" \in Codes \ {"none", "client_model_rewritten"}
    BY DEF Codes
  <2>2. req[r].phase \in Asked \ {"streaming"} /\ Caught(r, "internal_error")
    BY <1>4 DEF BodyFails, Asked
  <2> QED BY <2>1, <2>2, CaughtInv
<1>5. CASE BodyFails(r) /\ req[r].kind = "chatjson"
  <2> DEFINE b == Broken(req[r])
  <2>1. /\ req' = [req EXCEPT ![r] = b] /\ alive' = FALSE /\ queued' = queued /\ rows' = rows
        /\ req \in [Requests -> Handler] /\ queued \subseteq LogRow /\ rows \subseteq LogRow
    BY <1>5 DEF BodyFails, GatewayInv, TypeOK
  <2>2. /\ b \in Handler /\ b.phase = "reading" /\ b.posts = req[r].posts /\ b.kind = req[r].kind
        /\ b.tick = req[r].tick /\ b.told = req[r].told /\ b.wire = req[r].wire /\ b.attempt = req[r].attempt
        /\ b.hears = req[r].hears /\ b.gone = req[r].gone
    BY <1>1 DEF Broken, Handler
  <2> HIDE DEF b
  <2>3. req'[r] = b /\ \A x \in Requests : x # r => req'[x] = req[x]
    BY <2>1
  <2>4. TypeOK'
    BY <2>1, <2>2 DEF TypeOK
  <2>5. HandlerOK(b)
    <3>1. HandlerOK(req[r])
      BY DEF GatewayInv
    <3> QED BY <1>1, <2>2, <3>1 DEF HandlerOK
  <2>6. ASSUME NEW x \in Requests
        PROVE  /\ HandlerOK(req'[x]) /\ (alive' /\ req'[x].phase # "done" => ~req'[x].broke)
               /\ RowsTell(x)'
    <3>1. RowsOf(x)' = RowsOf(x)
      BY <2>1 DEF RowsOf
    <3>2. HandlerOK(req[x]) /\ RowsTell(x)
      BY DEF GatewayInv
    <3>3. CASE x = r
      <4>1. RowsOf(x) = {}
        BY <1>1, <3>2, <3>3 DEF RowsTell
      <4>2. RowsTell(x)'
        BY <2>2, <2>3, <3>1, <3>3, <4>1 DEF RowsTell
      <4> QED BY <2>1, <2>3, <2>5, <3>3, <4>2
    <3>4. CASE x # r
      <4>1. RowsTell(x)'
        BY <2>3, <3>1, <3>2, <3>4 DEF RowsTell
      <4> QED BY <2>1, <2>3, <3>2, <3>4, <4>1
    <3> QED BY <3>3, <3>4
  <2> QED BY <2>4, <2>6 DEF GatewayInv
<1> QED BY <1>2, <1>3, <1>4, <1>5

(* A stream that ends, or that fails.                                          *)
LEMMA EndInv ==
  ASSUME GatewayInv, alive, NEW r \in Requests, StreamEnds(r) \/ StreamFails(r)
  PROVE  GatewayInv'
<1> DEFINE q == req[r]
<1>1. /\ q.phase = "streaming" /\ q \in Handler /\ ~q.broke /\ q.kind \in Streaming
      /\ Counted(q) \in {q.calls, Unknown}
  BY DEF StreamEnds, StreamFails, SseFails, PipeFails, ChatFails, GatewayInv, TypeOK, HandlerOK, Counted
<1>2. /\ Note(r) \in Codes /\ "stream_error" \in Codes /\ Note(r) # "stream_error"
      /\ <<"end">> # <<"failed", "end">> /\ [q EXCEPT !.broke = FALSE] = q /\ [q EXCEPT !.broke = TRUE] = Broken(q)
  BY <1>1 DEF Codes, Note, Broken, Handler
<1>3. CASE StreamEnds(r)
  <2>1. Finish(r, Send([q EXCEPT !.broke = FALSE], <<"end">>), "ok", Note(r), Counted(q))
    BY <1>2, <1>3 DEF StreamEnds
  <2> QED BY <1>1, <1>2, <2>1, StreamOverInv
<1>4. CASE SseFails(r)
  <2>1. /\ Finish(r, Send([q EXCEPT !.broke = TRUE], <<"failed", "end">>), "ok", Note(r), q.calls)
        /\ q.kind = "sse"
    BY <1>2, <1>4 DEF SseFails
  <2> QED BY <1>1, <1>2, <2>1, StreamOverInv
<1>5. CASE PipeFails(r)
  <2>1. /\ Finish(r, Send([q EXCEPT !.broke = TRUE], <<"failed", "end">>), "error", "stream_error", Unknown)
        /\ q.kind = "pipe"
    BY <1>2, <1>5 DEF PipeFails
  <2> QED BY <1>1, <1>2, <2>1, StreamOverInv
<1>6. CASE ChatFails(r)
  <2>1. /\ Finish(r, Send([q EXCEPT !.broke = TRUE], <<"end">>), "error", "stream_error", Counted(q))
        /\ q.kind = "chat"
    BY <1>2, <1>6 DEF ChatFails
  <2>2. /\ TRUE \in BOOLEAN /\ <<"end">> \in {<<"end">>, <<"failed", "end">>}
        /\ "error" \in {"ok", "error"} /\ "stream_error" \in Codes /\ Counted(q) \in {q.calls, Unknown}
        /\ ("error" = "error" <=> TRUE /\ q.kind # "sse") /\ ("error" = "ok" <=> "stream_error" = Note(r))
    BY <1>1, <1>2, <2>1
  <2> QED BY <1>1, <2>1, <2>2, StreamOverInv
<1> QED BY <1>3, <1>4, <1>5, <1>6 DEF StreamFails

(* A row moves from the queue into the table, or nothing happens.              *)
LEMMA SameRowsInv ==
  ASSUME GatewayInv, InsertLog \/ UNCHANGED vars
  PROVE  GatewayInv'
<1>1. /\ req' = req /\ alive' = alive /\ rows' \cup queued' = rows \cup queued
      /\ rows' \subseteq rows \cup queued /\ queued' \subseteq queued
  BY DEF InsertLog, vars
<1>2. TypeOK'
  BY <1>1 DEF GatewayInv, TypeOK
<1>3. \A r \in Requests : RowsOf(r)' = RowsOf(r)
  BY <1>1 DEF RowsOf
<1>4. \A r \in Requests : RowsTell(r)'
  BY <1>1, <1>3 DEF GatewayInv, RowsTell
<1> QED BY <1>1, <1>2, <1>4 DEF GatewayInv

--------------------------------------------------------------------------------
(* The invariant. *)

LEMMA GatewayInit ==
  ASSUME Init
  PROVE  GatewayInv
<1>1. New \in Handler
  <2>1. <<>> \in Seq(Items) /\ 0 \in 0 .. MaxRetries /\ 0 \in 0 .. MaxReads
    BY GatewayAssumption
  <2> QED BY <2>1 DEF New, Handler, Phases, Codes
<1>2. HandlerOK(New) /\ ~New.broke /\ New.phase = "new"
  BY DEF HandlerOK, New, Asked
<1>3. TypeOK
  BY <1>1 DEF Init, TypeOK
<1>4. \A r \in Requests : req[r] = New /\ RowsOf(r) = {}
  BY DEF Init, RowsOf
<1> QED BY <1>2, <1>3, <1>4 DEF GatewayInv, RowsTell

LEMMA GatewayStep ==
  ASSUME GatewayInv, [Next]_vars
  PROVE  GatewayInv'
<1>1. CASE UNCHANGED vars
  BY <1>1, SameRowsInv
<1>2. CASE Next
  <2>1. alive
    BY <1>2 DEF Next
  <2>2. CASE InsertLog
    BY <2>2, SameRowsInv
  <2>3. ASSUME NEW r \in Requests,
               Arrival(r) \/ ClientGone(r) \/ AbortBeforeAnswer(r) \/ BackoffOver(r) \/ Upstream(r)
        PROVE  GatewayInv'
    <3>1. CASE Arrival(r)
      BY <2>1, <3>1, ArrivalInv
    <3>2. CASE ClientGone(r) \/ BackoffOver(r)
      BY <2>1, <3>2, QuietInv
    <3>3. CASE AbortBeforeAnswer(r)
      BY <2>1, <3>3, RefusedInv
    <3>4. CASE Upstream(r)
      <4>1. CASE Transient(r) \/ Answered(r)
        BY <2>1, <4>1, QuietInv
      <4>2. CASE RefusedJson(r) \/ RefusedStream(r) \/ RefusedPassthrough(r) \/ RefusedChat(r)
        BY <2>1, <4>2, RefusedInv
      <4>3. CASE JsonRead(r) \/ PassthroughRead(r) \/ ChatRead(r) \/ BodyFails(r)
        BY <2>1, <4>3, ReadInv
      <4>4. CASE SseChunk(r) \/ PipeChunk(r) \/ ChatChunk(r)
        BY <2>1, <4>4, ChunkInv
      <4>5. CASE StreamEnds(r) \/ StreamFails(r)
        BY <2>1, <4>5, EndInv
      <4> QED BY <3>4, <4>1, <4>2, <4>3, <4>4, <4>5 DEF Upstream
    <3> QED BY <2>3, <3>1, <3>2, <3>3, <3>4
  <2> QED BY <1>2, <2>2, <2>3 DEF Next
<1> QED BY <1>1, <1>2

LEMMA GatewayInvariant == Spec => []GatewayInv
<1>1. Init => GatewayInv
  BY GatewayInit
<1>2. GatewayInv /\ [Next]_vars => GatewayInv'
  BY GatewayStep
<1> QED BY <1>1, <1>2, PTL DEF Spec

--------------------------------------------------------------------------------
(* What it says. *)

(* Handlers keep their shape, and what is logged fits chat_logs.               *)
THEOREM GatewayTypeCorrect == Spec => []TypeOK
<1>1. GatewayInv => TypeOK
  BY DEF GatewayInv
<1> QED BY <1>1, GatewayInvariant, PTL

LEMMA HonestAnswer ==
  ASSUME GatewayInv, NEW r \in Requests
  PROVE  /\ LET w == req[r].wire
            IN  /\ req[r].tick => req[r].phase = "streaming" /\ "end" \notin Range(w)
                /\ \A n \in DOMAIN w : w[n] \in {"ok", "error"} <=> n = 1
                /\ \A n \in DOMAIN w : w[n] \in {"end", "error"} => n = Len(w)
                /\ req[r].phase \in {"fetch", "backoff"} => w = <<>>
                /\ (req[r].phase = "done" /\ ~req[r].gone) => w # <<>> /\ w[Len(w)] \in {"end", "error"}
         /\ (req[r].phase = "done" /\ req[r].posts > 0 /\ ~req[r].gone /\ req[r].kind # "chat")
              => (req[r].broke <=> Has(req[r], "error") \/ Has(req[r], "failed"))
<1> DEFINE q == req[r]
<1>1. q \in Handler /\ HandlerOK(q)
  BY DEF GatewayInv, TypeOK
<1> HIDE DEF q
<1>2. q.wire \in Seq(Items)
  BY <1>1 DEF Handler
<1>3. q.phase \in Phases
  BY <1>1 DEF Handler
<1>4. WellFormed(q.wire) /\ (q.phase # "done" => "end" \notin Range(q.wire))
  <2>1. CASE q.phase = "done"
    BY <1>1, <2>1 DEF HandlerOK, Ended
  <2>2. CASE q.phase # "done" /\ q.wire = <<>>
    BY <2>2 DEF WellFormed, Range
  <2>3. CASE q.phase = "streaming" /\ Begun(q.wire)
    <3>1. WellFormed(q.wire)
      BY <1>2, <2>3, WireLeft
    <3>2. "end" \notin Range(q.wire)
      BY <1>2, <2>3 DEF Begun, Range
    <3> QED BY <3>1, <3>2
  <2> QED BY <1>1, <1>3, <2>1, <2>2, <2>3 DEF HandlerOK
<1>5. /\ q.tick => q.phase = "streaming"
      /\ q.phase \in {"fetch", "backoff"} => q.wire = <<>>
      /\ q.phase = "done" => Ended(q)
  BY <1>1 DEF HandlerOK
<1> QED BY <1>4, <1>5 DEF WellFormed, Ended, Ends, q

LEMMA HonestRow ==
  ASSUME GatewayInv, NEW r \in Requests
  PROVE  /\ Cardinality(RowsOf(r)) = (IF req[r].phase = "done" /\ req[r].posts > 0 THEN 1 ELSE 0)
         /\ \A row \in RowsOf(r) : RowTells(r, req[r], row)
<1>1. RowsTell(r)
  BY DEF GatewayInv
<1>2. CASE req[r].phase = "done" /\ req[r].posts > 0
  <2>1. PICK row \in RowsOf(r) : RowsOf(r) = {row} /\ RowTells(r, req[r], row)
    BY <1>1, <1>2 DEF RowsTell
  <2>2. Cardinality({row}) = 1
    BY FS_Singleton
  <2> QED BY <1>2, <2>1, <2>2
<1>3. CASE ~(req[r].phase = "done" /\ req[r].posts > 0)
  BY <1>1, <1>3, FS_EmptySet DEF RowsTell
<1> QED BY <1>2, <1>3

(* Whatever arrives, is refused, retried, cancelled, answered or broken off,   *)
(* in whatever order: every request gets one answer and leaves at most one     *)
(* row, and a client that stayed and the log agree on how it ended.            *)
THEOREM OutcomeIsHonest == Spec => []OutcomeHonest
<1>1. ASSUME GatewayInv PROVE OutcomeHonest
  <2>1. AnsweredOnce /\ FailureIsVisible
    BY <1>1, HonestAnswer DEF AnsweredOnce, FailureIsVisible
  <2>2. OneRowPerRequest
    BY <1>1, HonestRow DEF OneRowPerRequest
  <2>3. RowTellsOutcome /\ RowAgreesWithAnswer
    BY <1>1, HonestRow DEF RowTellsOutcome, RowAgreesWithAnswer, RowTells
  <2> QED BY <2>1, <2>2, <2>3 DEF OutcomeHonest, AnswerIsHonest, RowIsHonest
<1> QED BY <1>1, GatewayInvariant, PTL

--------------------------------------------------------------------------------
(* A cancelled request stops asking. *)

(* A request that is aborted is not waiting for its body: the listener that    *)
(* hears the client leave is registered with the first POST.  So no step of    *)
(* any request sends another.                                                  *)
LEMMA StopsAsking ==
  ASSUME GatewayInv, [Next]_vars, NEW r \in Requests, Aborted(req[r])
  PROVE  req'[r].posts = req[r].posts
<1>1. /\ req \in [Requests -> Handler] /\ req[r] \in Handler /\ HandlerOK(req[r])
      /\ req[r].gone /\ req[r].hears
  BY DEF GatewayInv, TypeOK, Aborted
<1>2. req[r].phase \notin {"new", "body"}
  BY <1>1 DEF HandlerOK
<1>3. ASSUME NEW x \in Requests, NEW q, req' = [req EXCEPT ![x] = q], x = r => q.posts = req[r].posts
      PROVE  req'[r].posts = req[r].posts
  BY <1>1, <1>3
<1>4. ASSUME NEW q \in Handler, NEW items
      PROVE  /\ Send(q, items).posts = q.posts /\ Done(q).posts = q.posts /\ Done(Send(q, items)).posts = q.posts
             /\ \A code : Done(Broken(Told(q, code))).posts = q.posts
             /\ Done(Send(Broken(q), items)).posts = q.posts /\ Broken(q).posts = q.posts
             /\ \A b \in Read(q) : Send(b, items).posts = q.posts
  BY <1>4 DEF Send, Handler, Done, Told, Broken, Read
<1>5. ASSUME NEW x \in Requests, Arrival(x) PROVE req'[r].posts = req[r].posts
  <2>1. PICK q : Go(x, q)
    BY <1>5 DEF Arrival, Dispatch, BadBody, ResponsesProbe, ChatProbe, AcceptResponses, AcceptPassthrough,
                AcceptChat, Accept
  <2>2. req[x].phase \in {"new", "body"}
    BY <1>5 DEF Arrival, Dispatch, BadBody, ResponsesProbe, ChatProbe, AcceptResponses, AcceptPassthrough,
                AcceptChat, Accept
  <2> QED BY <1>2, <1>3, <2>1, <2>2 DEF Go
<1>6. ASSUME NEW x \in Requests, ClientGone(x) \/ BackoffOver(x) PROVE req'[r].posts = req[r].posts
  <2>1. PICK q : Go(x, q)
    BY <1>6 DEF ClientGone, BackoffOver
  <2>2. x # r
    BY <1>1, <1>6 DEF ClientGone, BackoffOver, Aborted
  <2> QED BY <1>3, <2>1, <2>2 DEF Go
<1>7. ASSUME NEW x \in Requests, NEW code, Caught(x, code) PROVE req'[r].posts = req[r].posts
  BY <1>1, <1>3, <1>4, <1>7 DEF Caught, Finish
<1>8. ASSUME NEW x \in Requests, AbortBeforeAnswer(x) \/ Upstream(x) PROVE req'[r].posts = req[r].posts
  <2> DEFINE p == req[x]
  <2>1. p \in Handler
    BY <1>1
  <2>2. CASE Transient(x)
    BY <1>1, <1>3, <2>2 DEF Transient, Go, Handler
  <2>3. CASE Answered(x)
    BY <1>1, <1>3, <2>3 DEF Answered, Go, Handler, Send
  <2>4. CASE \/ AbortBeforeAnswer(x) \/ RefusedJson(x) \/ RefusedStream(x) \/ RefusedPassthrough(x)
             \/ RefusedChat(x)
    BY <1>7, <2>4 DEF AbortBeforeAnswer, RefusedJson, RefusedStream, RefusedPassthrough, RefusedChat, Refused
  <2>5. CASE JsonRead(x) \/ ChatRead(x)
    <3>1. PICK asked \in 0 .. 1 : Finish(x, Send([p EXCEPT !.calls = asked], <<"ok", "end">>), "ok", Note(x), asked)
      BY <2>5 DEF JsonRead, ChatRead
    <3>2. Done(Send([p EXCEPT !.calls = asked], <<"ok", "end">>)).posts = p.posts
      BY <2>1 DEF Send, Done, Handler
    <3> QED BY <1>3, <3>1, <3>2 DEF Finish
  <2>9. CASE PassthroughRead(x)
    <3>1. Done(Send(p, <<"ok", "end">>)).posts = p.posts
      BY <1>4, <2>1
    <3> QED BY <1>3, <2>9, <3>1 DEF PassthroughRead, Finish
  <2>6. CASE BodyFails(x)
    BY <1>3, <1>4, <1>7, <2>1, <2>6 DEF BodyFails
  <2>7. CASE SseChunk(x) \/ PipeChunk(x) \/ ChatChunk(x)
    <3>1. CASE \E b \in Read(p) : Go(x, Send(b, <<"data">>))
      <4>1. PICK b \in Read(p) : Go(x, Send(b, <<"data">>))
        BY <3>1
      <4>2. Send(b, <<"data">>).posts = p.posts
        BY <1>4, <2>1, <4>1
      <4> QED BY <1>3, <4>1, <4>2 DEF Go
    <3>2. CASE Finish(x, p, "ok", Note(x), p.calls)
      <4>1. Done(p).posts = p.posts
        BY <1>4, <2>1
      <4> QED BY <1>3, <3>2, <4>1 DEF Finish
    <3> QED BY <2>7, <3>1, <3>2 DEF SseChunk, PipeChunk, ChatChunk
  <2>8. CASE StreamEnds(x) \/ StreamFails(x)
    BY <1>3, <1>4, <2>1, <2>8 DEF StreamEnds, StreamFails, SseFails, PipeFails, ChatFails, Finish
  <2> QED BY <1>8, <2>2, <2>3, <2>4, <2>5, <2>6, <2>7, <2>8, <2>9 DEF Upstream
<1>9. CASE InsertLog \/ UNCHANGED vars
  BY <1>9 DEF InsertLog, vars
<1> QED BY <1>5, <1>6, <1>8, <1>9 DEF Next

(* Once the abort is heard nothing sends another POST: neither a retry nor the *)
(* wait for one outlives it, whatever the other requests do.                   *)
THEOREM CancelStopsPosts == Spec => NoPostAfterCancel
<1>1. GatewayInv /\ [Next]_vars => [\A r \in Requests : Aborted(req[r]) => req'[r].posts = req[r].posts]_vars
  BY StopsAsking
<1> QED BY <1>1, GatewayInvariant, PTL DEF Spec, NoPostAfterCancel

--------------------------------------------------------------------------------
(***************************************************************************)
(* Providers: for any specs, tabs and files, and however forms, lists and  *)
(* answers cross, a save made on the file as it is changes what it is      *)
(* about and nothing else, and the server can start from what the page has *)
(* written.                                                                *)
(*                                                                         *)
(* A list on its way to the server says, of every provider it is not       *)
(* about, what the list it was made from says (PutOK): that is all a save  *)
(* needs, and the invariant keeps it from the click to the answer. For the *)
(* start, the file is torn or a list every entry of which is valid         *)
(* (FileOK), and one that the page wrote is what the server runs on, or    *)
(* could (WrittenOK).                                                      *)
(***************************************************************************)

\* What a spec may be made of.
AllIds == Ids \cup {Reserved}
SwitchSets == SUBSET (Switches \cup {Plain})
Labels == Vendors \cup {None}

\* An open form, whose id is the one it was opened with when it edits.
FormOK(f) ==
  /\ f \in [mode : {"create", "edit"}, original : AllIds, values : Specs, radio : Labels,
            folded : BOOLEAN, mounted : BOOLEAN, auto : BOOLEAN]
  /\ f.mode = "edit" => f.values.id = f.original

\* The entries of a list that bear an id.
EntriesOf(specs, id) == {specs[k] : k \in {l \in DOMAIN specs : specs[l].id = id}}

\* A list on its way has, of every provider it is not about, what the list
\* it was made from has.
PutOK(p) ==
  /\ p.list \in Seq(Specs) /\ p.base \in Seq(Specs)
  /\ \A id \in Ids \ p.about : EntriesOf(p.list, id) = EntriesOf(p.base, id)

\* The file is torn, or a list every entry of which is valid.
FileOK == file = Torn \/ (file \in Seq(Specs) /\ Accepted(file))
\* A list of the page is in the file: the server runs on it, or could.
WrittenOK == byPage => file \in Seq(Specs) /\ (up \/ \E k \in DOMAIN file : ~file[k].named)
\* The lists of a tab are lists.
Shown(t) == data[t] \in Seq(Specs) /\ columns[t] \in Seq(Specs)
\* A tab shows two lists or none, and lists are on their way to it.
Lists ==
  /\ DOMAIN data = Tabs /\ DOMAIN columns = Tabs
  /\ \A t \in Tabs : (data[t] = Unloaded /\ columns[t] = Unloaded) \/ Shown(t)
  /\ gets \in [Tabs -> SUBSET Seq(Specs)]
\* A form is open only over lists.
Forms == DOMAIN form = Tabs /\ \A t \in Tabs : form[t] = Closed \/ (FormOK(form[t]) /\ Shown(t))
\* What is on its way to the server was made from a list.
Puts == DOMAIN puts = Tabs /\ \A t \in Tabs : \A p \in puts[t] : PutOK(p)

ProvidersInv == FileOK /\ WrittenOK /\ Lists /\ Forms /\ Puts

--------------------------------------------------------------------------------
(* The values *)

\* The fields of a spec.
LEMMA SpecFields ==
  ASSUME NEW s \in Specs
  PROVE  /\ s.id \in AllIds /\ s.vendor \in Labels /\ s.label \in Labels
         /\ s.switches \in SwitchSets /\ s.named \in BOOLEAN
BY DEF Specs, AllIds, Labels, SwitchSets

\* A field changed leaves a spec, of the same provider.
LEMMA SpecWith ==
  ASSUME NEW s \in Specs, NEW v \in Labels, NEW w \in SwitchSets
  PROVE  /\ [s EXCEPT !.label = v] \in Specs
         /\ [s EXCEPT !.vendor = v] \in Specs
         /\ [s EXCEPT !.switches = w] \in Specs
         /\ [s EXCEPT !.label = v].id = s.id
         /\ [s EXCEPT !.vendor = v].id = s.id
         /\ [s EXCEPT !.switches = w].id = s.id
         /\ [s EXCEPT !.label = v].label = v
         /\ [[s EXCEPT !.label = v] EXCEPT !.label = v] = [s EXCEPT !.label = v]
BY DEF Specs, Labels, SwitchSets

\* The loader keeps the id, and reading what it has read changes nothing.
LEMMA ParsedIs ==
  ASSUME NEW s \in Specs
  PROVE  Parsed(s) \in Specs /\ Parsed(s).id = s.id /\ Parsed(Parsed(s)) = Parsed(s)
<1> DEFINE v == IF s.label \in {"sensenova", "minimax"} THEN s.label ELSE None
<1>1. s.label \in Labels /\ None \in Labels BY SpecFields DEF Labels
<1>2. v \in Labels BY <1>1
<1>3. Parsed(s) = [s EXCEPT !.label = v] BY DEF Parsed
<1>4. v = IF v \in {"sensenova", "minimax"} THEN v ELSE None BY DEF None
<1> HIDE DEF v
<1>5. /\ [s EXCEPT !.label = v] \in Specs /\ [s EXCEPT !.label = v].id = s.id
      /\ [s EXCEPT !.label = v].label = v
      /\ [[s EXCEPT !.label = v] EXCEPT !.label = v] = [s EXCEPT !.label = v]
  BY <1>2, SpecWith DEF SwitchSets
<1>6. Parsed([s EXCEPT !.label = v]) = [[s EXCEPT !.label = v] EXCEPT !.label = v]
  BY <1>4, <1>5 DEF Parsed
<1> QED BY <1>3, <1>5, <1>6

\* A list is read entry by entry; a file that cannot be read is an empty list.
LEMMA ReadIs ==
  ASSUME FileOK
  PROVE  /\ ReadSpecs(file) \in Seq(Specs)
         /\ Readable(file) => /\ file \in Seq(Specs)
                              /\ DOMAIN ReadSpecs(file) = DOMAIN file
                              /\ \A k \in DOMAIN file : ReadSpecs(file)[k] = Parsed(file[k])
<1>1. CASE ~Readable(file) BY <1>1 DEF ReadSpecs
<1>2. CASE Readable(file)
  <2>1. file \in Seq(Specs) BY <1>2 DEF FileOK, Readable
  <2>2. Len(file) \in Nat /\ DOMAIN file = 1 .. Len(file) /\ \A k \in DOMAIN file : Parsed(file[k]) \in Specs
    BY <2>1, ParsedIs
  <2>3. ReadSpecs(file) = [k \in 1 .. Len(file) |-> Parsed(file[k])] BY <1>2, <2>2 DEF ReadSpecs
  <2> QED BY <2>1, <2>2, <2>3
<1> QED BY <1>1, <1>2

\* A filter by id takes away the entries of that id and no other.
LEMMA WithoutIs ==
  ASSUME NEW s \in Seq(Specs), NEW gone
  PROVE  /\ Without(s, gone) \in Seq(Specs)
         /\ \A id : id # gone => EntriesOf(Without(s, gone), id) = EntriesOf(s, id)
<1> DEFINE S == {k \in DOMAIN s : s[k].id # gone}
           left == InOrder(S)
<1>1. DOMAIN s = 1 .. Len(s) /\ Len(s) \in Nat /\ \A k \in DOMAIN s : s[k] \in Specs OBVIOUS
<1>2. S \in SUBSET Int /\ IsFiniteSet(S)
  <2>1. S \in SUBSET (1 .. Len(s)) BY <1>1
  <2>2. IsFiniteSet(1 .. Len(s)) BY <1>1, FS_Interval
  <2>3. IsFiniteSet(S) BY <2>1, <2>2, FS_Subset
  <2> QED BY <2>1, <2>3
<1> HIDE DEF S
<1>3. left \in Seq(S) /\ Len(left) = Cardinality(S)
      /\ \A n \in S : left[Rank(S, n)] = n /\ Rank(S, n) \in 1 .. Cardinality(S)
  BY <1>2, InOrderIs, RankFacts
<1> HIDE DEF left
<1>4. DOMAIN left = 1 .. Len(left) /\ Len(left) \in Nat /\ \A k \in DOMAIN left : left[k] \in S BY <1>3
<1>5. \A n \in S : \E k \in DOMAIN left : left[k] = n BY <1>3, <1>4
<1>6. Without(s, gone) = [k \in DOMAIN left |-> s[left[k]]] BY DEF Without, left, S
<1>7. \A n \in S : n \in DOMAIN s /\ s[n] \in Specs /\ s[n].id # gone BY <1>1 DEF S
<1>8. Without(s, gone) \in Seq(Specs) BY <1>4, <1>6, <1>7
<1>9. ASSUME NEW id, id # gone PROVE EntriesOf(Without(s, gone), id) = EntriesOf(s, id)
  <2>1. ASSUME NEW x \in EntriesOf(Without(s, gone), id) PROVE x \in EntriesOf(s, id)
    BY <2>1, <1>4, <1>6, <1>7 DEF EntriesOf
  <2>2. ASSUME NEW x \in EntriesOf(s, id) PROVE x \in EntriesOf(Without(s, gone), id)
    <3>1. PICK n \in DOMAIN s : s[n].id = id /\ x = s[n] BY <2>2 DEF EntriesOf
    <3>2. n \in S BY <3>1, <1>9 DEF S
    <3>3. PICK k \in DOMAIN left : left[k] = n BY <3>2, <1>5
    <3> QED BY <3>1, <3>3, <1>6 DEF EntriesOf
  <2> QED BY <2>1, <2>2
<1> QED BY <1>8, <1>9

\* An entry appended leaves those of the other providers.
LEMMA AppendIs ==
  ASSUME NEW s \in Seq(Specs), NEW x \in Specs
  PROVE  /\ Append(s, x) \in Seq(Specs)
         /\ \A id : id # x.id => EntriesOf(Append(s, x), id) = EntriesOf(s, id)
<1>1. /\ Append(s, x) \in Seq(Specs) /\ Len(s) \in Nat
      /\ DOMAIN Append(s, x) = 1 .. (Len(s) + 1) /\ DOMAIN s = 1 .. Len(s)
      /\ \A k \in 1 .. Len(s) : Append(s, x)[k] = s[k]
      /\ Append(s, x)[Len(s) + 1] = x
  OBVIOUS
<1>2. ASSUME NEW id, id # x.id PROVE EntriesOf(Append(s, x), id) = EntriesOf(s, id)
  <2>1. \A k \in 1 .. (Len(s) + 1) : k \in 1 .. Len(s) \/ k = Len(s) + 1 BY <1>1
  <2>2. \A k \in 1 .. Len(s) : k \in 1 .. (Len(s) + 1) BY <1>1
  <2> DEFINE a == Append(s, x)
  <2>3. {l \in DOMAIN a : a[l].id = id} = {l \in DOMAIN s : s[l].id = id}
    BY <1>1, <1>2, <2>1, <2>2
  <2>4. \A k \in {l \in DOMAIN s : s[l].id = id} : a[k] = s[k] BY <1>1
  <2> QED BY <2>3, <2>4 DEF EntriesOf
<1> QED BY <1>1, <1>2

\* So does an entry put in the place of those with its id.
LEMMA ReplacedIs ==
  ASSUME NEW s \in Seq(Specs), NEW x \in Specs,
         NEW r, r = [k \in DOMAIN s |-> IF s[k].id = x.id THEN x ELSE s[k]]
  PROVE  /\ r \in Seq(Specs)
         /\ \A id : id # x.id => EntriesOf(r, id) = EntriesOf(s, id)
<1>1. Len(s) \in Nat /\ DOMAIN s = 1 .. Len(s) /\ \A k \in DOMAIN s : s[k] \in Specs OBVIOUS
<1>2. r \in Seq(Specs) BY <1>1
<1>3. ASSUME NEW id, id # x.id PROVE EntriesOf(r, id) = EntriesOf(s, id)
  <2>1. {l \in DOMAIN r : r[l].id = id} = {l \in DOMAIN s : s[l].id = id} BY <1>3
  <2>2. \A k \in {l \in DOMAIN s : s[l].id = id} : r[k] = s[k] BY <1>3
  <2> QED BY <2>1, <2>2 DEF EntriesOf
<1> QED BY <1>2, <1>3

--------------------------------------------------------------------------------
(* The form *)

\* The preset of a vendor.
Recommends(v) == Recommended[v] \in SUBSET Switches /\ Label[v] \in Labels

\* A preset recommends switches the form knows, and names a vendor.
LEMMA PresetIs ==
  ASSUME NEW v \in Vendors PROVE Recommends(v)
<1>1. Recommended[v] \in SUBSET Managed BY DEF Managed
<1>2. Managed \in SUBSET Switches BY ProvidersAssumption
<1>3. Label[v] \in Labels BY DEF Label, Labels
<1> QED BY <1>1, <1>2, <1>3 DEF Recommends

\* A field changed leaves a form.
LEMMA FormWith ==
  ASSUME NEW f, FormOK(f), NEW v \in Labels, NEW w \in SwitchSets, NEW b \in BOOLEAN, NEW c \in BOOLEAN
  PROVE  /\ FormOK([f EXCEPT !.values.label = v])
         /\ FormOK([f EXCEPT !.values.vendor = v])
         /\ FormOK([f EXCEPT !.values.switches = w])
         /\ FormOK([f EXCEPT !.radio = v])
         /\ FormOK([f EXCEPT !.folded = b])
         /\ FormOK([f EXCEPT !.mounted = b])
         /\ FormOK([f EXCEPT !.auto = b])
<1>1. f.values \in Specs BY DEF FormOK
<1> DEFINE s == f.values
<1>2. /\ [s EXCEPT !.label = v] \in Specs /\ [s EXCEPT !.label = v].id = s.id
      /\ [s EXCEPT !.vendor = v] \in Specs /\ [s EXCEPT !.vendor = v].id = s.id
      /\ [s EXCEPT !.switches = w] \in Specs /\ [s EXCEPT !.switches = w].id = s.id
  BY <1>1, SpecWith
<1>3. ASSUME NEW z \in Specs, z.id = s.id PROVE FormOK([f EXCEPT !.values = z])
  BY <1>3 DEF FormOK
<1>4. /\ [f EXCEPT !.values.label = v] = [f EXCEPT !.values = [s EXCEPT !.label = v]]
      /\ [f EXCEPT !.values.vendor = v] = [f EXCEPT !.values = [s EXCEPT !.vendor = v]]
      /\ [f EXCEPT !.values.switches = w] = [f EXCEPT !.values = [s EXCEPT !.switches = w]]
  OBVIOUS
<1>5. FormOK([f EXCEPT !.radio = v]) BY DEF FormOK
<1>6. FormOK([f EXCEPT !.folded = b]) BY DEF FormOK
<1>7. FormOK([f EXCEPT !.mounted = b]) BY DEF FormOK
<1>8. FormOK([f EXCEPT !.auto = b]) BY DEF FormOK
<1> HIDE DEF s
<1>9. /\ FormOK([f EXCEPT !.values.label = v]) /\ FormOK([f EXCEPT !.values.vendor = v])
      /\ FormOK([f EXCEPT !.values.switches = w])
  BY <1>2, <1>3, <1>4
<1> QED BY <1>5, <1>6, <1>7, <1>8, <1>9

\* So do the handler of the radio buttons,
LEMMA RadioIs ==
  ASSUME NEW f, FormOK(f), NEW v \in Labels
  PROVE  FormOK(WithRadio(f, v))
<1> DEFINE b == IF v = f.radio THEN f.folded ELSE v # None
           f1 == [f EXCEPT !.radio = v]
           f2 == [f1 EXCEPT !.folded = b]
           c == f.mounted \/ ~b
           f3 == [f2 EXCEPT !.mounted = c]
<1>1. f.folded \in BOOLEAN /\ f.mounted \in BOOLEAN BY DEF FormOK
<1>2. b \in BOOLEAN /\ c \in BOOLEAN BY <1>1
<1>3. None \in Labels /\ {} \in SwitchSets BY DEF Labels, SwitchSets
<1>4. FormOK(f1) BY <1>2, <1>3, FormWith
<1> HIDE DEF f1
<1>5. FormOK(f2) BY <1>2, <1>3, <1>4, FormWith
<1> HIDE DEF f2
<1>6. FormOK(f3) BY <1>2, <1>3, <1>5, FormWith
<1>7. f2.mounted = f.mounted BY DEF f2, f1, FormOK
<1>8. WithRadio(f, v) = f3 BY <1>7 DEF WithRadio, f2, f1
<1> QED BY <1>6, <1>8

\* the preset applied,
LEMMA ApplyIs ==
  ASSUME NEW f, FormOK(f), NEW v \in Vendors
  PROVE  FormOK(AutoApply(f, v))
<1> DEFINE w == f.values.switches \cup Recommended[v]
           l == IF Label[v] = None THEN f.values.label ELSE Label[v]
           yes == TRUE
           f1 == [f EXCEPT !.values.switches = w]
           f2 == [f1 EXCEPT !.auto = yes]
           f3 == [f2 EXCEPT !.values.label = l]
<1>1. Recommended[v] \in SUBSET Switches /\ Label[v] \in Labels BY PresetIs DEF Recommends
<1>2. f.values \in Specs BY DEF FormOK
<1>3. f.values.switches \in SwitchSets /\ f.values.label \in Labels BY <1>2, SpecFields
<1>4. w \in SwitchSets BY <1>1, <1>3 DEF SwitchSets
<1>5. l \in Labels /\ yes \in BOOLEAN BY <1>1, <1>3
<1> HIDE DEF w, l, yes
<1>6. FormOK(f1) BY <1>4, <1>5, FormWith
<1>7. f1.values.label = f.values.label BY <1>2 DEF FormOK, Specs
<1> HIDE DEF f1
<1>8. FormOK(f2) /\ f2.values = f1.values BY <1>4, <1>5, <1>6, FormWith DEF FormOK
<1> HIDE DEF f2
<1>9. FormOK(f3) BY <1>4, <1>5, <1>8, FormWith
<1>10. AutoApply(f, v) = IF Label[v] = None THEN f3 ELSE WithRadio(f3, Label[v])
  BY <1>7, <1>8 DEF AutoApply, f1, f2, w, l, yes
<1> HIDE DEF f3
<1> QED BY <1>1, <1>9, <1>10, RadioIs

\* the effect that watches for a preset,
LEMMA WatchIs ==
  ASSUME NEW f, FormOK(f), NEW known \in BOOLEAN
  PROVE  FormOK(Watch(f, known))
<1> DEFINE v == f.values.vendor
           no == FALSE
<1>1. f.values \in Specs BY DEF FormOK
<1>2. v \in Labels BY <1>1, SpecFields
<1>3. v # None => FormOK(AutoApply(f, v)) BY <1>2, ApplyIs DEF Labels
<1>4. no \in BOOLEAN /\ {} \in SwitchSets BY DEF SwitchSets
<1> HIDE DEF no
<1>5. FormOK([f EXCEPT !.auto = no]) BY <1>2, <1>4, FormWith
<1>6. Watch(f, known) \in {f, [f EXCEPT !.auto = no], AutoApply(f, v)}
      /\ (Watch(f, known) = AutoApply(f, v) => v # None \/ Watch(f, known) \in {f, [f EXCEPT !.auto = no]})
  BY DEF Watch, no
<1> QED BY <1>3, <1>5, <1>6

\* and the form opened anew.
LEMMA FillIs ==
  ASSUME NEW mode \in {"create", "edit"}, NEW values \in Specs
  PROVE  FormOK(Fill(mode, values))
<1>1. values.id \in AllIds /\ values.label \in Labels BY SpecFields
<1> DEFINE a == values.label # None
           b == values.label = None
           no == FALSE
<1>2. a \in BOOLEAN /\ b \in BOOLEAN /\ no \in BOOLEAN OBVIOUS
<1>3. Fill(mode, values) = [mode |-> mode, original |-> values.id, values |-> values, radio |-> values.label,
                            folded |-> a, mounted |-> b, auto |-> no]
  BY DEF Fill
<1> HIDE DEF a, b, no
<1> QED BY <1>1, <1>2, <1>3 DEF FormOK

\* What a form submits is a spec of its id.
LEMMA FilledIs ==
  ASSUME NEW f, FormOK(f)
  PROVE  Filled(f) \in Specs /\ Filled(f).id = f.values.id
<1> DEFINE s == f.values
           w == Registered(f)
<1>1. s \in Specs BY DEF FormOK
<1>2. s.switches \in SwitchSets BY <1>1, SpecFields
<1>3. w \in SwitchSets BY <1>2 DEF Registered, SwitchSets
<1>4. Filled(f) = [s EXCEPT !.switches = w] BY DEF Filled
<1>5. None \in Labels /\ s = f.values BY DEF Labels
<1> HIDE DEF s, w
<1>6. [s EXCEPT !.switches = w] \in Specs /\ [s EXCEPT !.switches = w].id = s.id
  BY <1>1, <1>3 DEF Specs, SwitchSets
<1> QED BY <1>4, <1>5, <1>6

--------------------------------------------------------------------------------
(* The steps *)

\* What a step leaves alone.
FileSame == UNCHANGED <<file, up, byPage>>
ListsSame == UNCHANGED <<data, columns, gets>>

\* A step that writes no file keeps what is said of it,
LEMMA FileKept == ASSUME ProvidersInv, FileSame PROVE FileOK' /\ WrittenOK'
BY DEF ProvidersInv, FileSame, FileOK, WrittenOK, Accepted, ValidSpec

\* one that touches no list what is said of the lists,
LEMMA ListsKept == ASSUME ProvidersInv, ListsSame PROVE Lists' /\ \A t \in Tabs : Shown(t) => Shown(t)'
BY DEF ProvidersInv, ListsSame, Lists, Shown

\* one that touches no form what is said of the forms,
LEMMA FormsKept ==
  ASSUME ProvidersInv, UNCHANGED form, \A t \in Tabs : Shown(t) => Shown(t)'
  PROVE  Forms'
BY DEF ProvidersInv, Forms

\* and one that sends nothing what is said of what is on its way.
LEMMA PutsKept == ASSUME ProvidersInv, UNCHANGED puts PROVE Puts'
BY DEF ProvidersInv, Puts

\* The form of one tab changes.
LEMMA FormSet ==
  ASSUME ProvidersInv, NEW t \in Tabs, NEW f, f = Closed \/ (FormOK(f) /\ Shown(t)),
         form' = [form EXCEPT ![t] = f], UNCHANGED <<file, up, byPage, data, columns, puts, gets>>
  PROVE  ProvidersInv'
<1>1. FileOK' /\ WrittenOK' BY FileKept DEF FileSame
<1>2. Lists' /\ \A u \in Tabs : Shown(u) => Shown(u)' BY ListsKept DEF ListsSame
<1>3. Puts' BY PutsKept
<1>4. Forms' BY <1>2 DEF ProvidersInv, Forms
<1> QED BY <1>1, <1>2, <1>3, <1>4 DEF ProvidersInv

\* A list is put.
LEMMA PutIs ==
  ASSUME ProvidersInv, NEW t \in Tabs, NEW list \in Seq(Specs), NEW about, NEW base \in Seq(Specs),
         \A id \in Ids \ about : EntriesOf(list, id) = EntriesOf(base, id),
         Put(t, list, about, base), form' = form \/ form' = [form EXCEPT ![t] = Closed],
         UNCHANGED <<file, up, byPage, data, columns, gets>>
  PROVE  ProvidersInv'
<1> DEFINE p == [list |-> list, about |-> about, shown |-> data[t], base |-> base]
<1>1. puts' = [puts EXCEPT ![t] = @ \cup {p}] BY DEF Put
<1>2. PutOK(p) BY DEF PutOK
<1> HIDE DEF p
<1>3. Puts' BY <1>1, <1>2 DEF ProvidersInv, Puts
<1>4. FileOK' /\ WrittenOK' BY FileKept DEF FileSame
<1>5. Lists' /\ \A u \in Tabs : Shown(u) => Shown(u)' BY ListsKept DEF ListsSame
<1>6. Forms' BY <1>5 DEF ProvidersInv, Forms
<1> QED BY <1>3, <1>4, <1>5, <1>6 DEF ProvidersInv

\* A list is taken in: it was accepted, so the file can be loaded.
LEMMA ServePutInv ==
  ASSUME ProvidersInv, NEW t \in Tabs, ServePut(t) PROVE ProvidersInv'
<1>1. PICK p \in puts[t] :
        /\ puts' = [puts EXCEPT ![t] = @ \ {p}]
        /\ IF up /\ Accepted(p.list)
           THEN file' = p.list /\ byPage' = TRUE
           ELSE UNCHANGED <<file, byPage>>
        /\ UNCHANGED <<up, presets, data, columns, form, gets, acts>>
  BY DEF ServePut
<1>2. Puts' BY <1>1 DEF ProvidersInv, Puts
<1>3. PutOK(p) BY DEF ProvidersInv, Puts
<1>4. FileOK' /\ WrittenOK'
  <2>1. CASE up /\ Accepted(p.list)
    BY <1>1, <1>3, <2>1 DEF FileOK, WrittenOK, PutOK, Accepted, ValidSpec
  <2>2. CASE ~(up /\ Accepted(p.list)) BY <1>1, <2>2, FileKept DEF FileSame
  <2> QED BY <2>1, <2>2
<1>5. Lists' /\ \A u \in Tabs : Shown(u) => Shown(u)' BY <1>1, ListsKept DEF ListsSame
<1>6. Forms' BY <1>1, <1>5, FormsKept
<1> QED BY <1>2, <1>4, <1>5, <1>6 DEF ProvidersInv

\* The server starts again on the file it left.
LEMMA RestartInv ==
  ASSUME ProvidersInv, Restart \/ EditByHand PROVE ProvidersInv'
<1>1. UNCHANGED <<data, columns, form, puts, gets>> BY DEF Restart, EditByHand
<1>2. FileOK' /\ WrittenOK'
  <2>1. CASE Restart
    <3>1. FileOK' BY <2>1 DEF Restart, ProvidersInv, FileOK, Accepted, ValidSpec
    <3>2. WrittenOK'
      <4> SUFFICES ASSUME byPage', \A k \in DOMAIN file : file[k].named
                   PROVE  file \in Seq(Specs) /\ up'
        BY <2>1 DEF Restart, WrittenOK, ProvidersInv
      <4>1. file \in Seq(Specs) BY <2>1 DEF Restart, WrittenOK, ProvidersInv
      <4>2. file # Torn BY <4>1, ProvidersAssumption
      <4>3. Accepted(file) BY <4>2 DEF ProvidersInv, FileOK
      <4>4. Loads(file) BY <4>2, <4>3 DEF Loads, Accepted, Readable
      <4> QED BY <2>1, <4>1, <4>4 DEF Restart
    <3> QED BY <3>1, <3>2
  <2>2. CASE EditByHand BY <2>2 DEF EditByHand, FileOK, WrittenOK
  <2> QED BY <2>1, <2>2
<1>3. Lists' /\ \A u \in Tabs : Shown(u) => Shown(u)' BY <1>1, ListsKept DEF ListsSame
<1>4. Forms' /\ Puts' BY <1>1, <1>3, FormsKept, PutsKept
<1> QED BY <1>2, <1>3, <1>4 DEF ProvidersInv

\* The list is read and sent,
LEMMA GetInv ==
  ASSUME ProvidersInv, NEW t \in Tabs, Load(t) \/ Reload(t) PROVE ProvidersInv'
<1>1. UNCHANGED <<file, up, byPage, data, columns, form, puts>> BY DEF Load, Reload
<1>2. gets' = gets \/ gets' = [gets EXCEPT ![t] = @ \cup {ReadSpecs(file)}]
  BY DEF Load, Reload, ServeGet
<1>3. ReadSpecs(file) \in Seq(Specs) BY ReadIs DEF ProvidersInv
<1>4. FileOK' /\ WrittenOK' BY <1>1, FileKept DEF FileSame
<1>5. gets' \in [Tabs -> SUBSET Seq(Specs)] BY <1>2, <1>3 DEF ProvidersInv, Lists
<1>6. Lists' /\ \A u \in Tabs : Shown(u) => Shown(u)' BY <1>1, <1>5 DEF ProvidersInv, Lists, Shown
<1>7. Forms' /\ Puts' BY <1>1, <1>6, FormsKept, PutsKept
<1> QED BY <1>4, <1>6, <1>7 DEF ProvidersInv

\* and comes in: both copies of the tab are what was sent.
LEMMA LoadedInv ==
  ASSUME ProvidersInv, NEW t \in Tabs, Loaded(t) PROVE ProvidersInv'
<1>1. PICK list \in gets[t] :
        /\ gets' = [gets EXCEPT ![t] = @ \ {list}]
        /\ data' = [data EXCEPT ![t] = list]
        /\ columns' = [columns EXCEPT ![t] = IF @ = Unloaded THEN list ELSE @]
        /\ UNCHANGED <<file, up, byPage, presets, form, puts, reloads, acts>>
  BY DEF Loaded
<1>2. FileOK' /\ WrittenOK' BY <1>1, FileKept DEF FileSame
<1>3. list \in Seq(Specs) /\ gets' \in [Tabs -> SUBSET Seq(Specs)] BY <1>1 DEF ProvidersInv, Lists
<1>4. Shown(t)' BY <1>1, <1>3 DEF ProvidersInv, Lists, Shown
<1>5. \A u \in Tabs \ {t} : data'[u] = data[u] /\ columns'[u] = columns[u] BY <1>1 DEF ProvidersInv, Lists
<1>6. Lists' BY <1>1, <1>3, <1>4, <1>5 DEF ProvidersInv, Lists, Shown
<1>7. \A u \in Tabs : Shown(u) => Shown(u)' BY <1>4, <1>5 DEF Shown
<1>8. Forms' /\ Puts' BY <1>1, <1>7, FormsKept, PutsKept
<1> QED BY <1>2, <1>6, <1>8 DEF ProvidersInv

\* A removal leaves the entries of the other providers in their places.
LEMMA RemoveInv ==
  ASSUME ProvidersInv, NEW t \in Tabs, RemoveProvider(t) PROVE ProvidersInv'
<1>1. PICK id \in IdsIn(data[t]) : Put(t, Without(columns[t], id), {id}, columns[t])
  BY DEF RemoveProvider
<1>2. columns[t] \in Seq(Specs) BY DEF RemoveProvider, ProvidersInv, Lists, Shown
<1>3. /\ Without(columns[t], id) \in Seq(Specs)
      /\ \A i \in Ids \ {id} : EntriesOf(Without(columns[t], id), i) = EntriesOf(columns[t], i)
  BY <1>2, WithoutIs
<1>4. UNCHANGED <<file, up, byPage, data, columns, form, gets>> BY DEF RemoveProvider
<1> QED BY <1>1, <1>2, <1>3, <1>4, PutIs

\* A pasted list is about every provider.
LEMMA RawInv ==
  ASSUME ProvidersInv, NEW t \in Tabs, PutRaw(t) PROVE ProvidersInv'
<1>1. PICK list \in Pasted : Put(t, list, Ids \cup {Reserved}, data[t]) BY DEF PutRaw
<1>2. list \in Seq(Specs) BY ProvidersAssumption
<1>3. data[t] \in Seq(Specs) BY DEF PutRaw, ProvidersInv, Lists, Shown
<1>4. UNCHANGED <<file, up, byPage, data, columns, form, gets>> BY DEF PutRaw
<1>5. \A i \in Ids \ (Ids \cup {Reserved}) : EntriesOf(list, i) = EntriesOf(data[t], i) OBVIOUS
<1> QED BY <1>1, <1>2, <1>3, <1>4, <1>5, PutIs

\* A form submits its own entry, and that of the id it was opened with.
LEMMA CommitInv ==
  ASSUME ProvidersInv, NEW t \in Tabs, CommitForm(t) PROVE ProvidersInv'
<1> DEFINE f == form[t]
           s == data[t]
           x == Filled(f)
           r == [k \in DOMAIN s |-> IF s[k].id = f.original THEN x ELSE s[k]]
           list == IF f.mode = "create" THEN Append(s, x) ELSE r
<1>1. FormOK(f) /\ s \in Seq(Specs) BY DEF CommitForm, ProvidersInv, Forms, Shown
<1>2. Put(t, list, {x.id}, s) BY DEF CommitForm
<1>3. form' = [form EXCEPT ![t] = Closed] /\ UNCHANGED <<file, up, byPage, data, columns, gets>>
  BY DEF CommitForm
<1>4. x \in Specs /\ x.id = f.values.id BY <1>1, FilledIs
<1>5. f.mode # "create" => x.id = f.original BY <1>1, <1>4 DEF FormOK
<1>6. ASSUME f.mode = "create"
      PROVE  list \in Seq(Specs) /\ \A id : id # x.id => EntriesOf(list, id) = EntriesOf(s, id)
  <2>1. list = Append(s, x) BY <1>6
  <2> HIDE DEF list, s, x
  <2> QED BY <1>1, <1>4, <2>1, AppendIs
<1>7. ASSUME f.mode # "create"
      PROVE  list \in Seq(Specs) /\ \A id : id # x.id => EntriesOf(list, id) = EntriesOf(s, id)
  <2>1. list = [k \in DOMAIN s |-> IF s[k].id = x.id THEN x ELSE s[k]] BY <1>5, <1>7
  <2> HIDE DEF list, s, x
  <2> QED BY <1>1, <1>4, <2>1, ReplacedIs
<1> HIDE DEF list, s, x
<1>8. list \in Seq(Specs) /\ \A id \in Ids \ {x.id} : EntriesOf(list, id) = EntriesOf(s, id)
  BY <1>6, <1>7
<1> QED BY <1>1, <1>2, <1>3, <1>8, PutIs

\* The form is opened, empty or on an entry,
LEMMA OpenInv ==
  ASSUME ProvidersInv, NEW t \in Tabs, StartCreate(t) \/ StartEdit(t) PROVE ProvidersInv'
<1>2. ASSUME NEW f, FormOK(f), OpenForm(t, f) PROVE ProvidersInv'
  <2>1. Shown(t) BY <1>2 DEF OpenForm, ProvidersInv, Lists, Shown
  <2> DEFINE known == t \in presets
  <2>a. known \in BOOLEAN OBVIOUS
  <2> HIDE DEF known
  <2>b. FormOK(Watch(f, known)) BY <1>2, <2>a, WatchIs
  <2>2. FormOK(Watch(f, t \in presets)) BY <2>b DEF known
  <2>3. form' = [form EXCEPT ![t] = Watch(f, t \in presets)]
        /\ UNCHANGED <<file, up, byPage, data, columns, puts, gets>>
    BY <1>2 DEF OpenForm
  <2> QED BY <2>1, <2>2, <2>3, FormSet
<1>3. CASE StartCreate(t)
  <2>1. PICK id \in AllIds :
          OpenForm(t, Fill("create", [id |-> id, vendor |-> None, label |-> None, switches |-> {}, named |-> TRUE]))
    BY <1>3 DEF StartCreate, AllIds
  <2> DEFINE s == [id |-> id, vendor |-> None, label |-> None, switches |-> {}, named |-> TRUE]
  <2>2. s \in Specs
    <3> DEFINE yes == TRUE
    <3>1. yes \in BOOLEAN OBVIOUS
    <3>2. s = [id |-> id, vendor |-> None, label |-> None, switches |-> {}, named |-> yes] OBVIOUS
    <3> HIDE DEF yes, s
    <3> QED BY <3>1, <3>2 DEF Specs, AllIds
  <2> HIDE DEF s
  <2>3. FormOK(Fill("create", s)) BY <2>2, FillIs
  <2>4. OpenForm(t, Fill("create", s)) BY <2>1 DEF s
  <2> QED BY <1>2, <2>3, <2>4
<1>4. CASE StartEdit(t)
  <2>1. PICK k \in DOMAIN data[t] : OpenForm(t, Fill("edit", data[t][k])) BY <1>4 DEF StartEdit
  <2>2. data[t] \in Seq(Specs) BY <1>4 DEF StartEdit, ProvidersInv, Lists, Shown
  <2>3. data[t][k] \in Specs BY <2>1, <2>2
  <2> QED BY <1>2, <2>1, <2>3, FillIs
<1> QED BY <1>3, <1>4

\* A form that is open is touched.
LEMMA TouchInv ==
  ASSUME ProvidersInv, NEW t \in Tabs, NEW f, FormOK(f), Touch(t, f) PROVE ProvidersInv'
<1>1. Shown(t) BY DEF Touch, ProvidersInv, Forms
<1>2. form' = [form EXCEPT ![t] = f] /\ UNCHANGED <<file, up, byPage, data, columns, puts, gets>>
  BY DEF Touch
<1> QED BY <1>1, <1>2, FormSet

\* presets arrive,
LEMMA PresetsInv ==
  ASSUME ProvidersInv, NEW t \in Tabs, PresetsArrive(t) PROVE ProvidersInv'
<1> DEFINE f == form[t]
<1>1. UNCHANGED <<file, up, byPage, data, columns, puts, gets>> BY DEF PresetsArrive
<1>2. CASE f = Closed
  <2>1. UNCHANGED form BY <1>2 DEF PresetsArrive
  <2> QED BY <1>1, <2>1, FileKept, ListsKept, FormsKept, PutsKept DEF FileSame, ListsSame, ProvidersInv
<1>3. CASE f # Closed
  <2>1. FormOK(f) /\ Shown(t) BY <1>3 DEF ProvidersInv, Forms
  <2>2. FormOK(Watch(f, TRUE)) BY <2>1, WatchIs
  <2>3. form' = [form EXCEPT ![t] = Watch(f, TRUE)] BY <1>3 DEF PresetsArrive
  <2> QED BY <1>1, <2>1, <2>2, <2>3, FormSet
<1> QED BY <1>2, <1>3

\* it is cancelled,
LEMMA CancelInv ==
  ASSUME ProvidersInv, NEW t \in Tabs, CancelForm(t) PROVE ProvidersInv'
<1>1. form' = [form EXCEPT ![t] = Closed] /\ UNCHANGED <<file, up, byPage, data, columns, puts, gets>>
  BY DEF CancelForm
<1> QED BY <1>1, FormSet

\* the vendor is typed,
LEMMA VendorInv ==
  ASSUME ProvidersInv, NEW t \in Tabs, ChangeVendor(t) PROVE ProvidersInv'
<1> DEFINE f == form[t]
           known == t \in presets
<1>1. PICK v \in Labels : Touch(t, Watch([f EXCEPT !.values.vendor = v], known))
  BY DEF ChangeVendor, Labels
<1>2. FormOK(f) BY DEF ChangeVendor, ProvidersInv, Forms
<1>3. {} \in SwitchSets /\ known \in BOOLEAN BY DEF SwitchSets
<1> HIDE DEF f, known
<1>4. FormOK([f EXCEPT !.values.vendor = v]) BY <1>2, <1>3, FormWith
<1>5. FormOK(Watch([f EXCEPT !.values.vendor = v], known)) BY <1>3, <1>4, WatchIs
<1> QED BY <1>1, <1>5, TouchInv

\* a switch is ticked,
LEMMA TickInv ==
  ASSUME ProvidersInv, NEW t \in Tabs, Tick(t) PROVE ProvidersInv'
<1> DEFINE f == form[t]
<1>1. FormOK(f) BY DEF Tick, ProvidersInv, Forms
<1>2. PICK s \in {Plain} \cup Switches :
        Touch(t, [f EXCEPT !.values.switches = IF s \in @ THEN @ \ {s} ELSE @ \cup {s}])
  BY DEF Tick
<1> DEFINE w == IF s \in f.values.switches THEN f.values.switches \ {s} ELSE f.values.switches \cup {s}
<1>3. f.values \in Specs BY <1>1 DEF FormOK
<1>4. f.values.switches \in SwitchSets BY <1>3, SpecFields
<1>5. w \in SwitchSets BY <1>4 DEF SwitchSets
<1>6. Touch(t, [f EXCEPT !.values.switches = w]) BY <1>2
<1>7. None \in Labels /\ TRUE \in BOOLEAN BY DEF Labels
<1> HIDE DEF f, w
<1>8. FormOK([f EXCEPT !.values.switches = w]) BY <1>1, <1>5, <1>7, FormWith
<1> QED BY <1>6, <1>8, TouchInv

\* the panel is unfolded,
LEMMA UnfoldInv ==
  ASSUME ProvidersInv, NEW t \in Tabs, Unfold(t) PROVE ProvidersInv'
<1> DEFINE f == form[t]
           yes == TRUE
           no == FALSE
           g == [f EXCEPT !.folded = no]
           h == [g EXCEPT !.mounted = yes]
<1>1. FormOK(f) BY DEF Unfold, ProvidersInv, Forms
<1>2. Touch(t, h) BY DEF Unfold
<1>3. None \in Labels /\ {} \in SwitchSets /\ yes \in BOOLEAN /\ no \in BOOLEAN BY DEF Labels, SwitchSets
<1> HIDE DEF f, yes, no
<1>4. FormOK(g) BY <1>1, <1>3, FormWith
<1> HIDE DEF g
<1>5. FormOK(h) BY <1>3, <1>4, FormWith
<1> HIDE DEF h
<1> QED BY <1>2, <1>5, TouchInv

\* a radio button is picked,
LEMMA PickInv ==
  ASSUME ProvidersInv, NEW t \in Tabs, PickVendor(t) PROVE ProvidersInv'
<1> DEFINE f == form[t]
           no == FALSE
           yes == TRUE
<1>1. FormOK(f) BY DEF PickVendor, ProvidersInv, Forms
<1> DEFINE a(v) == [f EXCEPT !.values.label = v]
           b(v) == [a(v) EXCEPT !.auto = no]
           c(v) == WithRadio(b(v), v)
           d(v) == [c(v) EXCEPT !.auto = yes]
           w(v) == (c(v).values.switches \ Managed) \cup Recommended[v]
           e(v) == [d(v) EXCEPT !.values.switches = w(v)]
<1>2. PICK v \in Labels : Touch(t, IF v = None \/ t \notin presets THEN c(v)
                                   ELSE [c(v) EXCEPT !.auto = yes,
                                     !.values.switches = (@ \ Managed) \cup Recommended[v]])
  BY DEF PickVendor, Labels
<1>3. None \in Labels /\ {} \in SwitchSets /\ yes \in BOOLEAN /\ no \in BOOLEAN BY DEF Labels, SwitchSets
<1> HIDE DEF yes, no
<1>4. FormOK(a(v)) BY <1>1, <1>3, FormWith
<1> HIDE DEF a
<1>5. FormOK(b(v)) BY <1>3, <1>4, FormWith
<1> HIDE DEF b
<1>6. FormOK(c(v)) BY <1>5, RadioIs
<1> HIDE DEF c
<1>7. FormOK(d(v)) BY <1>3, <1>6, FormWith
<1>8. c(v).values \in Specs BY <1>6 DEF FormOK
<1>9. c(v).values.switches \in SwitchSets BY <1>8, SpecFields
<1>10. v # None => w(v) \in SwitchSets
  <2> SUFFICES ASSUME v # None PROVE w(v) \in SwitchSets OBVIOUS
  <2>1. v \in Vendors BY DEF Labels
  <2>2. Recommended[v] \in SUBSET Switches BY <2>1, PresetIs DEF Recommends
  <2> QED BY <1>9, <2>2 DEF SwitchSets
<1>11. d(v).values = c(v).values BY <1>6 DEF FormOK
<1>12. [c(v) EXCEPT !.auto = yes, !.values.switches = (@ \ Managed) \cup Recommended[v]] = e(v)
  BY <1>6, <1>11 DEF FormOK
<1> HIDE DEF w, d
<1>13. v # None => FormOK(e(v)) BY <1>3, <1>7, <1>10, FormWith
<1> HIDE DEF e
<1>14. Touch(t, c(v)) \/ (v # None /\ Touch(t, e(v))) BY <1>2, <1>12
<1> QED BY <1>6, <1>13, <1>14, TouchInv

\* or the choice is cleared.
LEMMA ClearInv ==
  ASSUME ProvidersInv, NEW t \in Tabs, ClearApplied(t) PROVE ProvidersInv'
<1> DEFINE f == form[t]
           no == FALSE
           nil == {}
           a == [f EXCEPT !.values.label = None]
           b == [a EXCEPT !.values.switches = nil]
           c == [b EXCEPT !.auto = no]
<1>1. FormOK(f) BY DEF ClearApplied, ProvidersInv, Forms
<1>2. Touch(t, WithRadio(c, None)) BY DEF ClearApplied
<1>3. None \in Labels /\ nil \in SwitchSets /\ no \in BOOLEAN BY DEF Labels, SwitchSets
<1> HIDE DEF f, no, nil
<1>4. FormOK(a) BY <1>1, <1>3, FormWith
<1> HIDE DEF a
<1>5. FormOK(b) BY <1>3, <1>4, FormWith
<1> HIDE DEF b
<1>6. FormOK(c) BY <1>3, <1>5, FormWith
<1> HIDE DEF c
<1>7. FormOK(WithRadio(c, None)) BY <1>3, <1>6, RadioIs
<1> QED BY <1>2, <1>7, TouchInv

\* The invariant holds of a page just opened,
LEMMA ProvidersStarts == ASSUME ProvidersInit PROVE ProvidersInv
<1>1. file \in Seq(Specs) BY ProvidersAssumption DEF ProvidersInit
<1>2. FileOK /\ WrittenOK BY <1>1 DEF ProvidersInit, FileOK, WrittenOK, Loads, Accepted
<1>3. Lists /\ Forms /\ Puts BY DEF ProvidersInit, Lists, Forms, Puts
<1> QED BY <1>2, <1>3 DEF ProvidersInv

\* and every step keeps it.
LEMMA ProvidersStep == ASSUME ProvidersInv, [ProvidersNext]_providersVars PROVE ProvidersInv'
<1>1. CASE UNCHANGED providersVars
  <2>1. FileSame /\ ListsSame /\ UNCHANGED <<form, puts>> BY <1>1 DEF providersVars, FileSame, ListsSame
  <2> QED BY <2>1, FileKept, ListsKept, FormsKept, PutsKept DEF ProvidersInv
<1>2. CASE ProvidersNext
  BY <1>2, RestartInv, ServePutInv, GetInv, LoadedInv, RemoveInv, RawInv, OpenInv, PresetsInv,
     VendorInv, TickInv, UnfoldInv, PickInv, ClearInv, CommitInv, CancelInv DEF ProvidersNext
<1> QED BY <1>1, <1>2

\* So it always holds.
LEMMA ProvidersInvariant == ProvidersSpec => []ProvidersInv
<1>1. ProvidersInit => ProvidersInv BY ProvidersStarts
<1>2. ProvidersInv /\ [ProvidersNext]_providersVars => ProvidersInv' BY ProvidersStep
<1> QED BY <1>1, <1>2, PTL DEF ProvidersSpec

\* What the page has written can be loaded.
LEMMA StartsFromInv == ASSUME ProvidersInv PROVE StartsAgain
<1> SUFFICES ASSUME byPage, \A k \in DOMAIN file : file[k].named PROVE up /\ Loads(file)
  BY DEF StartsAgain
<1>1. file \in Seq(Specs) /\ up BY DEF ProvidersInv, WrittenOK
<1>2. file # Torn BY <1>1, ProvidersAssumption
<1>3. Accepted(file) BY <1>2 DEF ProvidersInv, FileOK
<1> QED BY <1>1, <1>2, <1>3 DEF Loads, Accepted, Readable

\* Only a served list leaves those on their way.
LEMMA OnlyServed ==
  ASSUME [ProvidersNext]_providersVars, ProvidersInv, NEW t \in Tabs, NEW p \in puts[t], p \notin puts'[t]
  PROVE  up' = up /\ (file' = p.list \/ file' = file) /\ ProvidersInv'
<1>1. puts' # puts OBVIOUS
<1>2. ASSUME NEW u \in Tabs, NEW list, NEW about, NEW base, Put(u, list, about, base) PROVE p \in puts'[t]
  BY <1>2 DEF Put, ProvidersInv, Puts
<1>3. PICK u \in Tabs : ServePut(u)
  <2>1. ~UNCHANGED providersVars BY <1>1 DEF providersVars
  <2>2. ~(Restart \/ EditByHand) BY <1>1 DEF Restart, EditByHand
  <2>3. PICK u \in Tabs :
       \/ ServePut(u) \/ Load(u) \/ Reload(u) \/ Loaded(u)
       \/ RemoveProvider(u) \/ PutRaw(u)
       \/ StartCreate(u) \/ StartEdit(u) \/ PresetsArrive(u)
       \/ ChangeVendor(u) \/ Tick(u) \/ Unfold(u) \/ PickVendor(u) \/ ClearApplied(u)
       \/ CommitForm(u) \/ CancelForm(u)
    BY <2>1, <2>2 DEF ProvidersNext
  <2>4. ~(Load(u) \/ Reload(u) \/ Loaded(u) \/ PresetsArrive(u) \/ CancelForm(u))
    BY <1>1 DEF Load, Reload, Loaded, PresetsArrive, CancelForm
  <2>5. ~(StartCreate(u) \/ StartEdit(u)) BY <1>1 DEF StartCreate, StartEdit, OpenForm
  <2>6. ~(ChangeVendor(u) \/ Tick(u) \/ Unfold(u) \/ PickVendor(u) \/ ClearApplied(u))
    BY <1>1 DEF ChangeVendor, Tick, Unfold, PickVendor, ClearApplied, Touch
  <2>7. ~RemoveProvider(u) BY <1>2 DEF RemoveProvider
  <2>8. ~PutRaw(u) BY <1>2 DEF PutRaw
  <2>9. ~CommitForm(u) BY <1>2 DEF CommitForm
  <2> QED BY <2>3, <2>4, <2>5, <2>6, <2>7, <2>8, <2>9
<1>4. PICK q \in puts[u] :
        /\ puts' = [puts EXCEPT ![u] = @ \ {q}]
        /\ IF up /\ Accepted(q.list) THEN file' = q.list ELSE file' = file
        /\ up' = up
  BY <1>3 DEF ServePut
<1>5. p = q BY <1>4 DEF ProvidersInv, Puts
<1> QED BY <1>3, <1>4, <1>5, ServePutInv

\* A step that writes the file takes in a list that was on its way.
LEMMA ExactStep ==
  ASSUME ProvidersInv, [ProvidersNext]_providersVars,
         NEW t \in Tabs, NEW p \in puts[t], p \notin puts'[t], file' = p.list, Readable(file),
         p.shown = ReadSpecs(file), p.base = p.shown
  PROVE  /\ \A id \in Ids \ p.about : Entries(file', id) = Entries(file, id)
         /\ \A id \in p.about \cap Ids : Cardinality(Entries(file', id)) <= 1
<1>1. ProvidersInv' BY OnlyServed
<1>2. PutOK(p) BY DEF ProvidersInv, Puts
<1>3. file' # Torn BY <1>2, ProvidersAssumption DEF PutOK
<1>4. Accepted(file)' BY <1>1, <1>3 DEF ProvidersInv, FileOK
<1>5. ASSUME NEW id \in p.about \cap Ids PROVE Cardinality(Entries(file', id)) <= 1
  <2> DEFINE E == Entries(file', id)
  <2>1. \A x, y \in E : x = y BY <1>4 DEF Entries, Accepted
  <2>2. CASE E = {} BY <2>2, FS_EmptySet
  <2>3. CASE E # {}
    <3>1. PICK x \in E : TRUE BY <2>3
    <3>2. E = {x} BY <2>1, <3>1
    <3>3. Cardinality({x}) = 1 BY FS_Singleton
    <3> QED BY <3>2, <3>3
  <2> QED BY <2>2, <2>3
<1>6. /\ file \in Seq(Specs) /\ DOMAIN p.base = DOMAIN file
      /\ \A k \in DOMAIN file : p.base[k] = Parsed(file[k])
  BY ReadIs DEF ProvidersInv
<1>7. \A k \in DOMAIN file : /\ Parsed(file[k]).id = file[k].id
                             /\ Parsed(Parsed(file[k])) = Parsed(file[k])
  BY <1>6, ParsedIs
<1>8. ASSUME NEW id \in Ids \ p.about PROVE Entries(file', id) = Entries(file, id)
  <2>1. EntriesOf(p.list, id) = EntriesOf(p.base, id) BY <1>2 DEF PutOK
  <2>2. \A x : x \in Entries(file', id) <=> \E y \in EntriesOf(p.list, id) : x = Parsed(y)
    BY DEF Entries, EntriesOf
  <2>3. \A x : x \in Entries(file, id) <=> \E k \in DOMAIN file : file[k].id = id /\ x = Parsed(file[k])
    BY DEF Entries
  <2>4. \A y : y \in EntriesOf(p.base, id) <=> \E k \in DOMAIN file : file[k].id = id /\ y = Parsed(file[k])
    BY <1>6, <1>7 DEF EntriesOf
  <2>5. \A y \in EntriesOf(p.base, id) : Parsed(y) = y BY <1>7, <2>4
  <2>6. \A x : x \in Entries(file', id) <=> x \in EntriesOf(p.base, id) BY <2>1, <2>2, <2>5
  <2>7. \A x : x \in Entries(file, id) <=> x \in EntriesOf(p.base, id) BY <2>3, <2>4
  <2> QED BY <2>6, <2>7
<1> QED BY <1>5, <1>8

\* Whatever tabs there are and however their forms, lists and answers cross, what
\* a tab saves can be loaded when the server starts again, and a save made on the
\* file as it is changes the entry it is about and no other
\* (Providers.tsx:83-162, admin/router.ts:907-942).
THEOREM SavesKeepTheRest == ProvidersSpec => SavesAreSound
<1>1. ProvidersInv => StartsAgain BY StartsFromInv
<1> DEFINE Exactly ==
      \A t \in Tabs : \A p \in puts[t] :
       p \notin puts'[t] /\ file' = p.list /\ Readable(file)
         /\ p.shown = ReadSpecs(file) /\ p.base = p.shown =>
         /\ \A id \in Ids \ p.about : Entries(file', id) = Entries(file, id)
         /\ \A id \in p.about \cap Ids : Cardinality(Entries(file', id)) <= 1
<1>2. ProvidersInv /\ [ProvidersNext]_providersVars => [Exactly]_providersVars BY ExactStep
<1>3. ProvidersSpec => []ProvidersInv BY ProvidersInvariant
<1>4. ProvidersSpec => EditIsExact BY <1>2, <1>3, PTL DEF ProvidersSpec, EditIsExact
<1> QED BY <1>1, <1>3, <1>4, PTL DEF SavesAreSound

--------------------------------------------------------------------------------
(***************************************************************************)
(* LogsPage: however many rows are written and deleted while the user      *)
(* leafs through the log, and however the answers cross, what is shown is  *)
(* whole.                                                                  *)
(*                                                                         *)
(* A row that stands keeps its place counted from the newest, or moves     *)
(* back, for rows come in front of it and are deleted behind it only. So   *)
(* what the pages have shown up to a place covers every row that stood     *)
(* when the first of them was read (Covered), and the page a row is on is  *)
(* never one the user has left behind. Above counts these places.          *)
(***************************************************************************)

\* How many rows of a set are as new as this one or newer.
Above(S, i) == Cardinality({j \in S : j >= i})

\* Places from the newest on are places from the oldest on, counted back.
LEMMA AboveFacts ==
  ASSUME NEW S \in SUBSET Int, IsFiniteSet(S)
  PROVE  /\ \A i \in Int : Above(S, i) \in Nat
         /\ \A i \in S : Above(S, i) = Cardinality(S) + 1 - Rank(S, i)
<1> DEFINE A(i) == {j \in S : j >= i}
           B(i) == {j \in S : j <= i}
<1>1. \A i : /\ A(i) \in SUBSET S /\ IsFiniteSet(A(i)) /\ Cardinality(A(i)) \in Nat
             /\ B(i) \in SUBSET S /\ IsFiniteSet(B(i)) /\ Cardinality(B(i)) \in Nat
  BY FS_Subset, FS_CardinalityType
<1>2. ASSUME NEW i \in S PROVE Cardinality(A(i)) = Cardinality(S) + 1 - Cardinality(B(i))
  <2>1. i \in Int /\ \A j \in S : j \in Int OBVIOUS
  <2>2. \A j \in S : (j >= i \/ j <= i) /\ (j >= i /\ j <= i <=> j = i) BY <2>1
  <2>3. A(i) \cup B(i) = S BY <2>2
  <2>4. A(i) \cap B(i) = {i} BY <2>2
  <2>5. Cardinality(A(i) \cup B(i)) = Cardinality(A(i)) + Cardinality(B(i)) - Cardinality(A(i) \cap B(i))
    BY <1>1, FS_Union
  <2>6. Cardinality({i}) = 1 BY FS_Singleton
  <2>7. Cardinality(S) = Cardinality(A(i)) + Cardinality(B(i)) - 1 BY <2>3, <2>4, <2>5, <2>6
  <2>8. Cardinality(S) \in Nat BY FS_CardinalityType
  <2>9. Cardinality(A(i)) \in Nat /\ Cardinality(B(i)) \in Nat BY <1>1
  <2> HIDE DEF A, B
  <2> QED BY <2>7, <2>8, <2>9
<1> QED BY <1>1, <1>2 DEF Above, Rank

\* In a larger set a row is as far from the newest, or farther.
LEMMA AboveGrows ==
  ASSUME NEW S \in SUBSET Int, IsFiniteSet(S), NEW T \in SUBSET Int, IsFiniteSet(T), NEW i \in Int,
         \A j \in S : j >= i => j \in T
  PROVE  Above(S, i) <= Above(T, i)
<1>1. {j \in S : j >= i} \in SUBSET {j \in T : j >= i} OBVIOUS
<1>2. IsFiniteSet({j \in T : j >= i}) BY FS_Subset
<1> QED BY <1>1, <1>2, FS_Subset DEF Above

--------------------------------------------------------------------------------
(* The table *)

\* Rows are numbered as they were written.
Numbers == 1 .. Len(journal)
JournalOK == journal \in Seq(LogKinds) /\ cut \in 0 .. Len(journal)

\* The rows a filter lets through are finitely many, and standing.
LEMMA MatchingIs ==
  ASSUME JournalOK, NEW filter
  PROVE  /\ Matching(filter) \in SUBSET Numbers /\ Matching(filter) \in SUBSET Int
         /\ IsFiniteSet(Matching(filter)) /\ Cardinality(Matching(filter)) \in Nat
<1>1. Len(journal) \in Nat /\ cut \in Nat BY DEF JournalOK
<1>2. \A i \in Standing : i \in Int /\ i >= 1 /\ i <= Len(journal) BY <1>1 DEF Standing
<1>3. Matching(filter) \in SUBSET Numbers BY <1>1, <1>2 DEF Matching, Numbers
<1>4. IsFiniteSet(Numbers) BY <1>1, FS_Interval DEF Numbers
<1>5. IsFiniteSet(Matching(filter)) BY <1>3, <1>4, FS_Subset
<1>6. Matching(filter) \in SUBSET Int BY <1>3 DEF Numbers
<1> QED BY <1>3, <1>5, <1>6, FS_CardinalityType

\* A page of the log holds the rows of its places from the newest on, and is
\* not full only when none comes behind it.
LEMMA QueryIs ==
  ASSUME JournalOK, NEW filter, NEW page \in Nat
  PROVE  LET S == Matching(filter) got == QueryLogs(filter, page) IN
         /\ got \in Seq(S) /\ Len(got) <= PageLen
         /\ \A i \in S : page * PageLen < Above(S, i) /\ Above(S, i) <= (page + 1) * PageLen => i \in ToSet(got)
         /\ Len(got) < PageLen => \A i \in S : Above(S, i) <= (page + 1) * PageLen
<1> DEFINE S == Matching(filter)
           C == Cardinality(S)
           a == page * PageLen
           b == (page + 1) * PageLen
           old == InOrder(S)
           new == Newest(filter)
           hi == IF b < Len(new) THEN b ELSE Len(new)
           got == QueryLogs(filter, page)
<1>1. S \in SUBSET Int /\ IsFiniteSet(S) /\ C \in Nat BY MatchingIs
<1>2. PageLen \in Nat /\ PageLen > 0 BY LogsPageAssumption
<1>3. a \in Nat /\ b = a + PageLen BY <1>2
<1>4. got = SubSeq(new, a + 1, hi) BY DEF QueryLogs
<1>5. new = Reverse(old) BY DEF Newest
<1> HIDE DEF S, a, b, hi, got
<1>6. /\ old \in Seq(S) /\ Len(old) = C
      /\ \A i \in S : old[Rank(S, i)] = i /\ Rank(S, i) \in 1 .. C
      /\ \A i \in S : Above(S, i) = C + 1 - Rank(S, i) /\ Above(S, i) \in Nat
  BY <1>1, InOrderIs, RankFacts, AboveFacts
<1> HIDE DEF old, C
<1>7. /\ new \in Seq(S) /\ Len(new) = C /\ \A k \in 1 .. C : new[k] = old[C + 1 - k]
  BY <1>1, <1>5, <1>6 DEF Reverse
<1>8. \A i \in S : Above(S, i) \in 1 .. C /\ new[Above(S, i)] = i
  <2> SUFFICES ASSUME NEW i \in S PROVE Above(S, i) \in 1 .. C /\ new[Above(S, i)] = i OBVIOUS
  <2>1. Above(S, i) \in 1 .. C BY <1>1, <1>6
  <2>2. C + 1 - Above(S, i) = Rank(S, i) BY <1>1, <1>6
  <2> QED BY <1>6, <1>7, <2>1, <2>2
<1> HIDE DEF new
<1>9. hi \in Nat /\ hi <= C /\ hi <= b /\ (hi = b \/ hi = C) BY <1>1, <1>2, <1>3, <1>7 DEF hi
<1>10. /\ got \in Seq(S)
       /\ Len(got) = IF a + 1 <= hi THEN hi - a ELSE 0
       /\ \A k \in 1 .. Len(got) : got[k] = new[a + k]
  <2>1. CASE a + 1 <= hi
    <3>1. /\ got = [k \in 1 .. (hi - a) |-> new[a + k]]
      BY <1>1, <1>3, <1>4, <1>7, <1>9, <2>1
    <3>2. \A k \in 1 .. (hi - a) : a + k \in 1 .. C BY <1>1, <1>3, <1>9, <2>1
    <3>3. \A k \in 1 .. C : new[k] \in S BY <1>7
    <3>4. hi - a \in Nat BY <1>3, <1>9, <2>1
    <3>5. got \in Seq(S) /\ Len(got) = hi - a BY <3>1, <3>2, <3>3, <3>4
    <3> QED BY <3>1, <3>5, <2>1
  <2>2. CASE ~(a + 1 <= hi)
    <3>1. got = <<>> BY <1>1, <1>3, <1>4, <1>7, <1>9, <2>2
    <3> QED BY <3>1, <2>2
  <2> QED BY <2>1, <2>2
<1>11. Len(got) <= PageLen BY <1>1, <1>2, <1>3, <1>9, <1>10
<1>12. ASSUME NEW i \in S, a < Above(S, i), Above(S, i) <= b PROVE i \in ToSet(got)
  <2> DEFINE n == Above(S, i)
             k == n - a
  <2>1. n \in 1 .. C /\ new[n] = i BY <1>8
  <2>2. n <= hi BY <1>1, <1>9, <1>12, <2>1
  <2> HIDE DEF n
  <2>3. a < n BY <1>12 DEF n
  <2>4. k \in 1 .. Len(got) /\ a + k = n BY <1>1, <1>3, <1>9, <1>10, <2>1, <2>2, <2>3
  <2>5. got[k] = i BY <1>10, <2>1, <2>4
  <2>6. DOMAIN got = 1 .. Len(got) BY <1>10
  <2> QED BY <2>4, <2>5, <2>6 DEF ToSet
<1>13. ASSUME Len(got) < PageLen, NEW i \in S PROVE Above(S, i) <= b
  <2>1. hi # b BY <1>1, <1>2, <1>3, <1>9, <1>10, <1>13
  <2> QED BY <2>1, <1>1, <1>3, <1>8, <1>9
<1> QED BY <1>10, <1>11, <1>12, <1>13 DEF S, a, b, got

--------------------------------------------------------------------------------
(* The invariant *)

\* A list asked for holds rows of its own filter.
ListRecords == [filter : SUBSET LogKinds, page : Nat, at : {"sent", "read"}, rows : Seq(Numbers),
                matched : SUBSET Numbers, alone : BOOLEAN]

ListOK(l) ==
  /\ l \in ListRecords /\ Len(l.rows) <= PageLen
  /\ \A i \in ToSet(l.rows) \cup l.matched : journal[i] \in l.filter

ListsOK == lists \in Seq(ListRecords) /\ \A n \in DOMAIN lists : ListOK(lists[n])

\* What the table shows, and the history of what was shown.
TableOK ==
  /\ table \in [filter : SUBSET LogKinds, page : Nat, rows : Seq(Numbers), error : BOOLEAN, loading : BOOLEAN]
  /\ Len(table.rows) <= PageLen
  /\ seen \in SUBSET Numbers /\ first \in SUBSET Numbers /\ overtaken \in BOOLEAN

\* A list is on its way.
Awaiting == lists # <<>>

\* A list that was asked for alone is still alone, and what the page stands at.
LastAsked ==
  \A n \in DOMAIN lists : lists[n].alone =>
    Len(lists) = 1 /\ lists[n].filter = table.filter /\ lists[n].page = table.page

\* Without doubt the page waits exactly while one list is on its way, asked for
\* alone.
OnTrack == ~overtaken => (table.loading <=> Awaiting) /\ (Awaiting => lists[1].alone)

\* Behind the first page the filter is the one the first page was read with.
FirstChosen == ~overtaken /\ (~Awaiting \/ table.page > 0) => \A i \in first : journal[i] \in table.filter

\* Of the rows that were there with the first page the newest have been shown.
Covered(places, shown) ==
  \A i \in first \cap Matching(table.filter) : Above(Matching(table.filter), i) <= places => i \in shown

\* With nothing on its way, what is shown is of the filter, and what stands at
\* the places up to this page has been shown.
ShownOK ==
  ~overtaken /\ ~Awaiting =>
    /\ \A i \in ToSet(table.rows) : journal[i] \in table.filter
    /\ Covered((table.page + 1) * PageLen, seen)
    /\ Len(table.rows) < PageLen => first \cap Standing \subseteq seen

\* While the next page is on its way, that holds of the pages before it.
AwaitedOK == ~overtaken => Covered(table.page * PageLen, seen)

\* What a list read will make of the page: a first page begins anew, a later one
\* goes on.
ReadFirst(l) ==
  /\ \A i \in l.matched \cap Matching(l.filter) : Above(Matching(l.filter), i) <= PageLen => i \in ToSet(l.rows)
  /\ Len(l.rows) < PageLen => l.matched \cap Standing \subseteq ToSet(l.rows)
ReadLater(l) ==
  /\ Covered((table.page + 1) * PageLen, seen \cup ToSet(l.rows))
  /\ Len(l.rows) < PageLen => first \cap Standing \subseteq seen \cup ToSet(l.rows)
ReadOK ==
  \A n \in DOMAIN lists : lists[n].alone /\ lists[n].at = "read" =>
    IF lists[n].page = 0 THEN ReadFirst(lists[n]) ELSE ~overtaken => ReadLater(lists[n])

\* The inductive invariant.
LogsInv ==
  JournalOK /\ ListsOK /\ TableOK /\ LastAsked /\ OnTrack /\ FirstChosen /\ ShownOK /\ AwaitedOK /\ ReadOK

\* When nothing is awaited, the invariant says what the page must show.
LEMMA WholeFromInv == ASSUME LogsInv PROVE LogIsWhole
BY DEF LogsInv, OnTrack, ShownOK, LogIsWhole, ShownIsChosen, NothingSkipped, Settled, Awaiting

--------------------------------------------------------------------------------
(* The steps *)

\* The states of the table.
TableRecords == [filter : SUBSET LogKinds, page : Nat, rows : Seq(Numbers), error : BOOLEAN, loading : BOOLEAN]

\* The error shown is no part of what the invariant speaks of.
LEMMA TableFields ==
  ASSUME TableOK, NEW e \in BOOLEAN
  PROVE  /\ table \in TableRecords
         /\ [table EXCEPT !.error = e] \in TableRecords
         /\ [table EXCEPT !.error = e].filter = table.filter
         /\ [table EXCEPT !.error = e].page = table.page
         /\ [table EXCEPT !.error = e].rows = table.rows
         /\ [table EXCEPT !.error = e].loading = table.loading
BY DEF TableOK, TableRecords

\* What is shown, what is asked for and what was read stay as they are.
LEMMA ShownStays ==
  ASSUME LogsInv, UNCHANGED <<journal, cut, lists, seen, first, overtaken>>,
         table' \in TableRecords, table'.filter = table.filter, table'.page = table.page,
         table'.rows = table.rows, table'.loading = table.loading
  PROVE  LogsInv'
<1>1. JournalOK' /\ ListsOK'
  BY DEF LogsInv, JournalOK, ListsOK, ListOK, ListRecords, Numbers
<1>2. TableOK' BY DEF LogsInv, TableOK, TableRecords, Numbers
<1>3. LastAsked' /\ OnTrack' /\ FirstChosen'
  BY DEF LogsInv, LastAsked, OnTrack, FirstChosen, Awaiting
<1>4. Matching(table.filter)' = Matching(table.filter) BY DEF Matching, Standing
<1>5. \A places, shown : Covered(places, shown)' <=> Covered(places, shown) BY <1>4 DEF Covered
<1>6. ShownOK' BY <1>4 DEF LogsInv, ShownOK, Awaiting, Covered, Standing
<1>7. AwaitedOK' BY <1>4 DEF LogsInv, AwaitedOK, Covered
<1>8. ReadOK'
  <2> SUFFICES ASSUME NEW n \in DOMAIN lists, lists[n].alone, lists[n].at = "read"
               PROVE  IF lists[n].page = 0 THEN ReadFirst(lists[n])' ELSE ~overtaken => ReadLater(lists[n])'
    BY DEF ReadOK
  <2>1. IF lists[n].page = 0 THEN ReadFirst(lists[n]) ELSE ~overtaken => ReadLater(lists[n])
    BY DEF LogsInv, ReadOK
  <2>2. ReadFirst(lists[n])' <=> ReadFirst(lists[n]) BY DEF ReadFirst, Matching, Standing
  <2>3. ReadLater(lists[n])' <=> ReadLater(lists[n]) BY <1>4 DEF ReadLater, Covered, Standing
  <2> QED BY <2>1, <2>2, <2>3
<1> QED BY <1>1, <1>2, <1>3, <1>6, <1>7, <1>8 DEF LogsInv

\* Places before a page, and before a later one.
LEMMA Products ==
  ASSUME NEW p \in Nat, NEW q \in Nat, p <= q
  PROVE  /\ p * PageLen \in Nat /\ p * PageLen <= q * PageLen
         /\ (p + 1) * PageLen = p * PageLen + PageLen
<1>1. PageLen \in Nat BY LogsPageAssumption
<1>2. q * PageLen = p * PageLen + (q - p) * PageLen BY <1>1
<1>3. q - p \in Nat OBVIOUS
<1>4. (q - p) * PageLen \in Nat /\ p * PageLen \in Nat BY <1>1, <1>3
<1>5. (p + 1) * PageLen = p * PageLen + PageLen BY <1>1
<1> QED BY <1>2, <1>4, <1>5

\* The newest row is the first.
LEMMA AboveOne ==
  ASSUME JournalOK, NEW filter, NEW i \in Matching(filter)
  PROVE  Above(Matching(filter), i) \in Nat /\ Above(Matching(filter), i) >= 1
<1> DEFINE S == Matching(filter)
<1>1. S \in SUBSET Int /\ IsFiniteSet(S) /\ Cardinality(S) \in Nat BY MatchingIs
<1>2. Above(S, i) = Cardinality(S) + 1 - Rank(S, i) /\ Rank(S, i) \in 1 .. Cardinality(S)
  BY <1>1, AboveFacts, RankFacts
<1> QED BY <1>1, <1>2

\* A list is overtaken: nothing else of it changes.
LEMMA AlonePut ==
  ASSUME NEW l \in ListRecords, NEW b \in BOOLEAN
  PROVE  /\ [l EXCEPT !.alone = b] \in ListRecords /\ [l EXCEPT !.alone = b].alone = b
         /\ [l EXCEPT !.alone = b].rows = l.rows /\ [l EXCEPT !.alone = b].matched = l.matched
         /\ [l EXCEPT !.alone = b].filter = l.filter /\ [l EXCEPT !.alone = b].page = l.page
         /\ [l EXCEPT !.alone = b].at = l.at
BY DEF ListRecords

\* A list just asked for.
Fresh(filter, page) == [Unread EXCEPT !.filter = filter, !.page = page, !.alone = (lists = <<>>)]

\* A list just asked for holds nothing yet.
LEMMA FreshIs ==
  ASSUME NEW filter \in SUBSET LogKinds, NEW page \in Nat
  PROVE  /\ Fresh(filter, page) \in ListRecords
         /\ Fresh(filter, page).filter = filter /\ Fresh(filter, page).page = page
         /\ Fresh(filter, page).at = "sent" /\ Fresh(filter, page).rows = <<>>
         /\ Fresh(filter, page).matched = {} /\ Fresh(filter, page).alone = (lists = <<>>)
         /\ ListOK(Fresh(filter, page))
<1> DEFINE b == lists = <<>>
           nil == <<>>
           none == {}
           yes == TRUE
           r == [filter |-> LogKinds, page |-> 0, at |-> "sent", rows |-> nil, matched |-> none, alone |-> yes]
<1>a. Fresh(filter, page) = [r EXCEPT !.filter = filter, !.page = page, !.alone = b]
  BY Zenon DEF Fresh, Unread
<1>2. nil \in Seq(Numbers) /\ none \in SUBSET Numbers /\ b \in BOOLEAN /\ Len(nil) = 0 /\ ToSet(nil) = {}
  BY DEF ToSet
<1> DEFINE l == Fresh(filter, page)
<1>3. b = (lists = <<>>) OBVIOUS
<1> HIDE DEF b, nil, none, yes
<1>1. Fresh(filter, page) = [filter |-> filter, page |-> page, at |-> "sent", rows |-> nil, matched |-> none, alone |-> b]
  BY <1>a
<1>4. /\ l \in ListRecords /\ l.filter = filter /\ l.page = page /\ l.at = "sent" /\ l.rows = nil
      /\ l.matched = none /\ l.alone = b
  BY <1>1, <1>2 DEF ListRecords
<1>5. PageLen \in Nat BY LogsPageAssumption
<1>6. ListOK(l) BY <1>2, <1>4, <1>5 DEF ListOK, none
<1> QED BY <1>3, <1>4, <1>6 DEF nil, none

\* The page asks for a list: for its first page with any filter, or for one that
\* is not beyond the next with the same filter.
LEMMA AskInv ==
  ASSUME LogsInv, NEW filter \in SUBSET LogKinds, NEW page \in Nat, AskList(filter, page),
         page = 0 \/ (filter = table.filter /\ page <= table.page + 1),
         UNCHANGED <<journal, cut, seen, first>>
  PROVE  LogsInv'
<1> DEFINE u == Fresh(filter, page)
           no == FALSE
           yes == TRUE
           before == [n \in DOMAIN lists |-> [lists[n] EXCEPT !.alone = no]]
<1>1. lists' = Append(before, u) BY DEF AskList, Fresh
<1>2. /\ table' = [table EXCEPT !.filter = filter, !.page = page, !.error = no, !.loading = yes]
      /\ overtaken' = (overtaken \/ lists # <<>>)
  BY DEF AskList
<1>3. /\ u \in ListRecords /\ u.filter = filter /\ u.page = page /\ u.at = "sent"
      /\ u.alone = (lists = <<>>) /\ ListOK(u)
  BY FreshIs
<1>4. no \in BOOLEAN /\ yes \in BOOLEAN /\ ~no /\ yes OBVIOUS
<1>5. lists \in Seq(ListRecords) /\ \A n \in DOMAIN lists : ListOK(lists[n]) BY DEF LogsInv, ListsOK
<1> HIDE DEF u, no, yes
<1>6. \A n \in DOMAIN lists : /\ before[n] \in ListRecords /\ before[n].alone = no /\ ListOK(before[n])
  <2> SUFFICES ASSUME NEW n \in DOMAIN lists
               PROVE  before[n] \in ListRecords /\ before[n].alone = no /\ ListOK(before[n])
    OBVIOUS
  <2> DEFINE l == lists[n]
  <2>1. l \in ListRecords /\ ListOK(l) BY <1>5
  <2>2. before[n] = [l EXCEPT !.alone = no] OBVIOUS
  <2> HIDE DEF l, before
  <2>3. /\ before[n] \in ListRecords /\ before[n].alone = no
        /\ before[n].rows = l.rows /\ before[n].matched = l.matched /\ before[n].filter = l.filter
    BY <1>4, <2>1, <2>2, AlonePut
  <2> QED BY <2>1, <2>3 DEF ListOK
<1>7. before \in Seq(ListRecords) /\ Len(before) = Len(lists) /\ Len(lists) \in Nat
      /\ DOMAIN before = DOMAIN lists
  BY <1>5, <1>6
<1> HIDE DEF before
<1>8. /\ lists' \in Seq(ListRecords) /\ Len(lists') = Len(lists) + 1
      /\ lists'[Len(lists) + 1] = u
      /\ \A n \in DOMAIN lists' : n = Len(lists) + 1 \/ (n \in DOMAIN lists /\ lists'[n] = before[n])
  BY <1>1, <1>3, <1>7
<1>9. ListsOK'
  <2>1. \A n \in DOMAIN lists' : ListOK(lists'[n]) BY <1>3, <1>6, <1>8
  <2>2. \A l : ListOK(l)' <=> ListOK(l) BY DEF ListOK, ListRecords, Numbers
  <2>3. ListRecords' = ListRecords BY DEF ListRecords, Numbers
  <2> QED BY <1>8, <2>1, <2>2, <2>3 DEF ListsOK
<1>10. /\ table' \in TableRecords /\ table'.filter = filter /\ table'.page = page /\ table'.rows = table.rows
       /\ table'.loading = yes
  BY <1>2, <1>4 DEF LogsInv, TableOK, TableRecords
<1>11. TableOK' BY <1>2, <1>10 DEF LogsInv, TableOK, TableRecords, Numbers
<1>12. JournalOK' /\ Awaiting' BY <1>8, <1>7 DEF LogsInv, JournalOK, Awaiting
<1>13. CASE lists # <<>>
  <2>1. overtaken' BY <1>2, <1>13
  <2>2. \A n \in DOMAIN lists' : ~lists'[n].alone BY <1>3, <1>4, <1>6, <1>8, <1>13
  <2> QED BY <1>9, <1>11, <1>12, <2>1, <2>2
    DEF LogsInv, LastAsked, OnTrack, FirstChosen, ShownOK, AwaitedOK, ReadOK
<1>14. CASE lists = <<>>
  <2>1. Len(lists') = 1 /\ lists'[1] = u /\ DOMAIN lists' = {1} BY <1>8, <1>14
  <2>2. LastAsked' /\ OnTrack' /\ ReadOK'
    BY <1>3, <1>4, <1>10, <1>12, <1>14, <2>1 DEF LastAsked, OnTrack, ReadOK
  <2>3. ShownOK' BY <1>12 DEF ShownOK
  <2>4. FirstChosen'
    <3> SUFFICES ASSUME ~overtaken', page > 0, NEW i \in first PROVE journal[i] \in filter
      BY <1>10, <1>12 DEF FirstChosen
    <3>1. ~overtaken BY <1>2
    <3>2. filter = table.filter OBVIOUS
    <3> QED BY <1>14, <3>1, <3>2 DEF LogsInv, FirstChosen, Awaiting
  <2>5. AwaitedOK'
    <3> SUFFICES ASSUME ~overtaken, NEW i \in first \cap Matching(filter),
                        Above(Matching(filter), i) <= page * PageLen
                 PROVE  i \in seen
      BY <1>2, <1>10 DEF AwaitedOK, Covered, Matching, Standing
    <3>1. Above(Matching(filter), i) \in Nat /\ Above(Matching(filter), i) >= 1 BY AboveOne DEF LogsInv
    <3>2. PageLen \in Nat /\ page * PageLen \in Nat BY Products, LogsPageAssumption
    <3>3. page # 0 BY <3>1, <3>2
    <3>4. filter = table.filter /\ page <= table.page + 1 /\ table.page + 1 \in Nat
      BY <3>3 DEF LogsInv, TableOK
    <3>5. page * PageLen <= (table.page + 1) * PageLen /\ (table.page + 1) * PageLen \in Nat BY <3>4, Products
    <3>6. Above(Matching(filter), i) <= (table.page + 1) * PageLen BY <3>1, <3>2, <3>5
    <3> QED BY <1>14, <3>4, <3>6 DEF LogsInv, ShownOK, Awaiting, Covered
  <2> QED BY <1>9, <1>11, <1>12, <2>2, <2>3, <2>4, <2>5 DEF LogsInv
<1> QED BY <1>13, <1>14

\* Rows come at one end and go at the other: a row that stands keeps its place
\* from the newest or moves behind.
LEMMA TableMoves ==
  ASSUME LogsInv, UNCHANGED <<lists, table, seen, first, overtaken>>,
         journal' \in Seq(LogKinds), Len(journal) <= Len(journal'),
         \A i \in Numbers : journal'[i] = journal[i],
         cut' \in cut .. Len(journal')
  PROVE  LogsInv'
<1>1. UNCHANGED <<lists, table, seen, first, overtaken>> OBVIOUS
<1>2. Len(journal) \in Nat /\ cut \in 0 .. Len(journal) BY DEF LogsInv, JournalOK
<1>3. /\ Len(journal') \in Nat /\ \A i \in Numbers : journal'[i] = journal[i]
      /\ Len(journal) <= Len(journal')
      /\ cut' \in Int /\ cut <= cut' /\ cut' <= Len(journal')
  BY <1>2
<1>4. JournalOK' BY <1>2, <1>3 DEF JournalOK
<1>a. /\ \A i : i \in Standing <=> i \in Int /\ cut < i /\ i <= Len(journal)
      /\ \A i : i \in Numbers <=> i \in Int /\ 0 < i /\ i <= Len(journal)
  BY <1>2 DEF Standing, Numbers
<1>b. \A i : i \in Standing' <=> i \in Int /\ cut' < i /\ i <= Len(journal')
  BY <1>3 DEF Standing
<1>5. \A i \in Numbers : i \in Numbers' BY <1>2, <1>3 DEF Numbers
<1>6. Seq(Numbers) \subseteq Seq(Numbers') BY <1>5, SeqMonotonic
<1>7. ListRecords \subseteq ListRecords' BY <1>5, <1>6 DEF ListRecords
<1>8. \A l : ListOK(l) => ListOK(l)'
  <2> SUFFICES ASSUME NEW l, ListOK(l) PROVE ListOK(l)' OBVIOUS
  <2>1. l \in ListRecords' BY <1>7 DEF ListOK
  <2>2. \A i \in ToSet(l.rows) \cup l.matched : i \in Numbers BY DEF ListOK, ListRecords, ToSet
  <2> QED BY <1>3, <2>1, <2>2 DEF ListOK
<1>9. ListsOK'
  <2>1. lists' \in Seq(ListRecords') BY <1>1, <1>7, SeqMonotonic DEF LogsInv, ListsOK
  <2> QED BY <1>1, <1>8, <2>1 DEF LogsInv, ListsOK
<1>10. TableOK' BY <1>1, <1>5, <1>6 DEF LogsInv, TableOK
<1>11. LastAsked' /\ OnTrack' BY <1>1 DEF LogsInv, LastAsked, OnTrack, Awaiting
<1>12. FirstChosen' BY <1>1, <1>3 DEF LogsInv, FirstChosen, Awaiting, TableOK
<1>13. ASSUME NEW filter, NEW i \in Numbers
       PROVE  /\ i \in Matching(filter)' => i \in Matching(filter)
              /\ i \in Standing' => i \in Standing
              /\ i \in Matching(filter)' => Above(Matching(filter), i) <= Above(Matching(filter)', i)
              /\ Above(Matching(filter), i) \in Nat /\ Above(Matching(filter)', i) \in Nat
  <2>1. i \in Standing' => i \in Standing BY <1>2, <1>3, <1>a, <1>b
  <2>2. i \in Matching(filter)' => i \in Matching(filter) BY <1>3, <2>1 DEF Matching
  <2> DEFINE S == Matching(filter)
             T == {j \in Standing' : journal'[j] \in filter}
  <2>3. S \in SUBSET Numbers /\ S \in SUBSET Int /\ IsFiniteSet(S) BY MatchingIs DEF LogsInv
  <2>4. T \in SUBSET Int /\ IsFiniteSet(T)
    <3>1. \A j \in T : j \in 1 .. Len(journal') BY <1>2, <1>3, <1>b
    <3>2. IsFiniteSet(1 .. Len(journal')) BY <1>3, FS_Interval
    <3>3. T \in SUBSET (1 .. Len(journal')) BY <3>1
    <3>4. IsFiniteSet(T) BY <3>2, <3>3, FS_Subset
    <3> QED BY <3>3, <3>4
  <2>5. T = Matching(filter)' BY DEF Matching
  <2>6. i \in Int BY DEF Numbers
  <2>7. ASSUME i \in T, NEW j \in S, j >= i PROVE j \in T
    <3>1. j \in Numbers /\ journal[j] \in filter BY <2>3 DEF Matching
    <3>a. i \in Int /\ i >= cut' + 1 /\ j \in Int /\ j >= i /\ j <= Len(journal)
      BY <1>2, <1>3, <1>a, <1>b, <2>7, <3>1
    <3>c. cut' \in Int /\ Len(journal') \in Int /\ Len(journal) \in Int BY <1>2, <1>3
    <3>d. \A c, L \in Int : i >= c + 1 /\ Len(journal) <= L => c < j /\ j <= L BY <3>a, <3>c
    <3>e. cut' < j /\ j <= Len(journal') BY <1>3, <3>a, <3>c, <3>d
    <3>2. j \in Standing' BY <3>a, <3>e, <1>b
    <3> QED BY <1>3, <3>1, <3>2
  <2> HIDE DEF S, T
  <2>8. i \in T => Above(S, i) <= Above(T, i) BY <2>3, <2>4, <2>6, <2>7, AboveGrows
  <2>9. Above(S, i) \in Nat /\ Above(T, i) \in Nat BY <2>3, <2>4, <2>6, AboveFacts
  <2> QED BY <2>1, <2>2, <2>5, <2>8, <2>9 DEF S
<1>14. \A p \in Nat : p * PageLen \in Nat BY LogsPageAssumption
<1>15. ASSUME NEW filter, NEW k \in Nat, NEW shown, NEW i \in Numbers,
              i \in Matching(filter) /\ Above(Matching(filter), i) <= k => i \in shown,
              i \in Matching(filter)', Above(Matching(filter)', i) <= k
       PROVE  i \in shown
  BY <1>13, <1>15
<1>16. first \in SUBSET Numbers /\ table.page \in Nat /\ table.page + 1 \in Nat /\ PageLen \in Nat
  BY LogsPageAssumption DEF LogsInv, TableOK
<1>17. ASSUME NEW k \in Nat, NEW shown, Covered(k, shown)
       PROVE  \A i \in first \cap Matching(table.filter)' : Above(Matching(table.filter)', i) <= k => i \in shown
  <2>1. \A i \in first : i \in Numbers BY <1>16
  <2>2. \A i \in first : i \in Matching(table.filter) /\ Above(Matching(table.filter), i) <= k => i \in shown
    BY <1>17 DEF Covered
  <2> QED BY <1>15, <2>1, <2>2, <1>1
<1>18. \A i \in first \cap Standing' : i \in Standing BY <1>13, <1>16
<1>19. ShownOK'
  <2> SUFFICES ASSUME ~overtaken, ~Awaiting
               PROVE  /\ \A i \in ToSet(table.rows) : journal'[i] \in table.filter
                      /\ Covered((table.page + 1) * PageLen, seen)'
                      /\ Len(table.rows) < PageLen => first \cap Standing' \subseteq seen
    BY <1>1 DEF ShownOK, Awaiting
  <2>1. \A i \in ToSet(table.rows) : i \in Numbers BY DEF LogsInv, TableOK, ToSet
  <2>2. \A i \in ToSet(table.rows) : journal'[i] \in table.filter
    BY <1>3, <2>1 DEF LogsInv, ShownOK
  <2>3. Covered((table.page + 1) * PageLen, seen) BY DEF LogsInv, ShownOK
  <2>4. Covered((table.page + 1) * PageLen, seen)' BY <1>1, <1>14, <1>16, <1>17, <2>3 DEF Covered
  <2> QED BY <1>18, <2>2, <2>4 DEF LogsInv, ShownOK
<1>20. AwaitedOK' BY <1>1, <1>14, <1>16, <1>17 DEF LogsInv, AwaitedOK, Covered
<1>21. ReadOK'
  <2> SUFFICES ASSUME NEW n \in DOMAIN lists, lists[n].alone, lists[n].at = "read"
               PROVE  IF lists[n].page = 0 THEN ReadFirst(lists[n])' ELSE ~overtaken => ReadLater(lists[n])'
    BY <1>1 DEF ReadOK
  <2> DEFINE l == lists[n]
  <2>1. l.matched \in SUBSET Numbers BY DEF LogsInv, ListsOK, ListOK, ListRecords
  <2>2. IF l.page = 0 THEN ReadFirst(l) ELSE ~overtaken => ReadLater(l) BY DEF LogsInv, ReadOK
  <2>3. ASSUME ReadFirst(l) PROVE ReadFirst(l)'
    <3>1. PICK f : f = l.filter OBVIOUS
    <3>2. l' = l BY <1>1
    <3>3. \A i \in l.matched \cap Matching(f)' : Above(Matching(f)', i) <= PageLen => i \in ToSet(l.rows)
      <4> SUFFICES ASSUME NEW i \in l.matched, i \in Matching(f)', Above(Matching(f)', i) <= PageLen
                   PROVE  i \in ToSet(l.rows)
        OBVIOUS
      <4>1. i \in Numbers BY <2>1
      <4>2. i \in Matching(f) BY <4>1, <1>13
      <4>3. Above(Matching(f), i) <= PageLen BY <4>1, <1>13, <1>16
      <4> QED BY <2>3, <3>1, <4>2, <4>3 DEF ReadFirst
    <3>4. \A i \in l.matched \cap Standing' : i \in Standing BY <1>13, <2>1
    <3> QED BY <2>3, <3>1, <3>2, <3>3, <3>4 DEF ReadFirst, Matching
  <2>4. ASSUME ReadLater(l) PROVE ReadLater(l)'
    <3>1. Covered((table.page + 1) * PageLen, seen \cup ToSet(l.rows)) BY <2>4 DEF ReadLater
    <3>2. Covered((table.page + 1) * PageLen, seen \cup ToSet(l.rows))'
      BY <1>1, <1>14, <1>16, <1>17, <3>1 DEF Covered
    <3> QED BY <1>1, <1>18, <2>4, <3>2 DEF ReadLater
  <2> QED BY <1>1, <2>2, <2>3, <2>4
<1> QED BY <1>4, <1>9, <1>10, <1>11, <1>12, <1>19, <1>20, <1>21 DEF LogsInv

\* A row is written: it is the newest, and none that stood changes its order.
LEMMA WrittenInv ==
  ASSUME LogsInv, NEW kind \in LogKinds, RowWritten(kind) PROVE LogsInv'
<1>1. /\ journal' = Append(journal, kind) /\ UNCHANGED <<cut, lists, table, seen, first, overtaken>>
  BY DEF RowWritten, tableVars
<1>2. /\ journal \in Seq(LogKinds) /\ Len(journal) \in Nat /\ cut \in 0 .. Len(journal)
  BY DEF LogsInv, JournalOK
<1>3. /\ journal' \in Seq(LogKinds) /\ Len(journal') = Len(journal) + 1
      /\ \A i \in Numbers : journal'[i] = journal[i]
  BY <1>1, <1>2 DEF Numbers
<1>4. Len(journal) <= Len(journal') /\ cut' \in cut .. Len(journal') BY <1>1, <1>2, <1>3
<1> QED BY <1>1, <1>3, <1>4, TableMoves

\* Rows are deleted: they are the oldest.
LEMMA DeletedInv ==
  ASSUME LogsInv, NEW upTo \in Standing, Deleted(upTo) PROVE LogsInv'
<1>1. cut' = upTo /\ UNCHANGED <<journal, lists, table, seen, first, overtaken>>
  BY DEF Deleted, tableVars
<1>2. journal \in Seq(LogKinds) /\ Len(journal) \in Nat /\ cut \in 0 .. Len(journal)
  BY DEF LogsInv, JournalOK
<1>3. Len(journal) <= Len(journal') /\ cut' \in cut .. Len(journal') BY <1>1, <1>2 DEF Standing
<1> QED BY <1>1, <1>2, <1>3, TableMoves

--------------------------------------------------------------------------------
(* The lists *)

\* A list is read.
LEMMA ServedInv ==
  ASSUME LogsInv, NEW n \in DOMAIN lists, ListServed(n) PROVE LogsInv'
<1> DEFINE l == lists[n]
           S == Matching(l.filter)
           got == QueryLogs(l.filter, l.page)
           m == [l EXCEPT !.at = "read", !.rows = got, !.matched = S]
<1>1. l.at = "sent" /\ UNCHANGED <<journal, cut, table, seen, first, overtaken>>
  BY DEF ListServed, tableVars
<1>2. lists \in Seq(ListRecords) /\ ListOK(l) BY DEF LogsInv, ListsOK
<1>b. l \in ListRecords BY <1>2 DEF ListOK
<1>3. l \in ListRecords /\ l.filter \in SUBSET LogKinds /\ l.page \in Nat BY <1>b DEF ListRecords
<1>4. lists' = [lists EXCEPT ![n] = m] BY <1>2 DEF ListServed
<1>5. /\ got \in Seq(S) /\ Len(got) <= PageLen
      /\ \A i \in S : l.page * PageLen < Above(S, i) /\ Above(S, i) <= (l.page + 1) * PageLen => i \in ToSet(got)
      /\ Len(got) < PageLen => \A i \in S : Above(S, i) <= (l.page + 1) * PageLen
  BY <1>3, QueryIs DEF LogsInv
<1>6. S \in SUBSET Numbers BY MatchingIs DEF LogsInv
<1>7. got \in Seq(Numbers) BY <1>5, <1>6, SeqMonotonic
<1>8. \A i \in ToSet(got) \cup S : i \in S BY <1>5 DEF ToSet
<1>9. \A i \in S : i \in Standing /\ journal[i] \in l.filter BY DEF Matching
<1>a. \A i \in Standing : journal[i] \in l.filter => i \in S BY DEF Matching
<1> HIDE DEF got, S
<1>10. /\ m \in ListRecords /\ m.filter = l.filter /\ m.page = l.page /\ m.at = "read" /\ m.alone = l.alone
       /\ m.rows = got /\ m.matched = S
  BY <1>3, <1>6, <1>7 DEF ListRecords
<1> HIDE DEF m, l
<1>11. ListOK(m) BY <1>5, <1>8, <1>9, <1>10 DEF ListOK
<1>12. /\ lists' \in Seq(ListRecords) /\ Len(lists') = Len(lists) /\ DOMAIN lists' = DOMAIN lists
       /\ lists'[n] = m /\ \A k \in DOMAIN lists \ {n} : lists'[k] = lists[k]
  BY <1>2, <1>4, <1>10
<1>13. ListsOK'
  <2>1. \A k \in DOMAIN lists' : ListOK(lists'[k]) BY <1>11, <1>12 DEF LogsInv, ListsOK
  <2>2. \A x : ListOK(x)' <=> ListOK(x) BY <1>1 DEF ListOK, ListRecords, Numbers
  <2>3. ListRecords' = ListRecords BY <1>1 DEF ListRecords, Numbers
  <2> QED BY <1>12, <2>1, <2>2, <2>3 DEF ListsOK
<1>14. JournalOK' /\ TableOK' BY <1>1 DEF LogsInv, JournalOK, TableOK, Numbers
<1>15. Awaiting' <=> Awaiting
  <2>1. lists # <<>> /\ lists' # <<>> BY <1>2, <1>12
  <2> QED BY <2>1 DEF Awaiting
<1>16. \A k \in DOMAIN lists : /\ lists'[k].alone = lists[k].alone /\ lists'[k].filter = lists[k].filter
                               /\ lists'[k].page = lists[k].page
  BY <1>10, <1>12 DEF l
<1>17. LastAsked' BY <1>1, <1>12, <1>16 DEF LogsInv, LastAsked
<1>18. 1 \in DOMAIN lists BY <1>2
<1>19. OnTrack' BY <1>1, <1>15, <1>16, <1>18 DEF LogsInv, OnTrack
<1>20. FirstChosen' BY <1>1, <1>15 DEF LogsInv, FirstChosen
<1>21. \A filter : Matching(filter)' = Matching(filter) BY <1>1 DEF Matching, Standing
<1>22. ShownOK'
  <2>1. Awaiting BY <1>18 DEF Awaiting
  <2> QED BY <1>15, <2>1 DEF ShownOK
<1>23. AwaitedOK' BY <1>1, <1>21 DEF LogsInv, AwaitedOK, Covered
<1>24. ReadOK'
  <2> SUFFICES ASSUME NEW k \in DOMAIN lists, lists'[k].alone, lists'[k].at = "read"
               PROVE  IF lists'[k].page = 0 THEN ReadFirst(lists[k])' ELSE ~overtaken => ReadLater(lists[k])'
    BY <1>1, <1>12 DEF ReadOK
  <2>1. lists[k].alone BY <1>16
  <2>2. Len(lists) = 1 /\ lists[k].filter = table.filter /\ lists[k].page = table.page
    BY <2>1 DEF LogsInv, LastAsked
  <2>3. k = n BY <1>2, <2>2
  <2>4. lists'[k] = m /\ l.filter = table.filter /\ l.page = table.page BY <1>12, <2>2, <2>3 DEF l
  <2>5. PageLen \in Nat /\ table.page \in Nat /\ table.page + 1 \in Nat BY LogsPageAssumption DEF LogsInv, TableOK
  <2>6. \A i \in S : Above(S, i) \in Nat /\ Above(S, i) >= 1 BY AboveOne DEF S, LogsInv
  <2>7. CASE table.page = 0
    <3>1. l.page * PageLen = 0 /\ (l.page + 1) * PageLen = PageLen BY <2>4, <2>5, <2>7
    <3>2. \A i \in S : Above(S, i) <= PageLen => i \in ToSet(got) BY <1>5, <2>6, <3>1
    <3>3. Len(got) < PageLen => S \subseteq ToSet(got) BY <1>5, <3>1, <3>2
    <3>4. \A i \in Standing : i \in S => i \in ToSet(got) \/ ~(Len(got) < PageLen) BY <3>3
    <3>5. S = Matching(table.filter) BY <2>4 DEF S
    <3>6. ReadFirst(lists[k])'
      BY <1>1, <1>10, <1>21, <2>4, <3>2, <3>4, <3>5 DEF ReadFirst, Standing
    <3> QED BY <1>10, <2>4, <2>7, <3>6
  <2>8. CASE table.page # 0
    <3> SUFFICES ASSUME ~overtaken PROVE ReadLater(lists[k])' BY <1>10, <2>4, <2>8
    <3>1. Covered(table.page * PageLen, seen) BY DEF LogsInv, AwaitedOK
    <3>2. \A i \in first : journal[i] \in table.filter BY <2>5, <2>8 DEF LogsInv, FirstChosen
    <3>3. S = Matching(table.filter) BY <2>4 DEF S
    <3>4. table.page * PageLen \in Nat /\ (table.page + 1) * PageLen \in Nat BY <2>5
    <3>5. ASSUME NEW i \in first, i \in S, Above(S, i) <= (table.page + 1) * PageLen
          PROVE  i \in seen \cup ToSet(got)
      <4>1. CASE Above(S, i) <= table.page * PageLen BY <3>1, <3>3, <3>5, <4>1 DEF Covered
      <4>2. CASE table.page * PageLen < Above(S, i) BY <1>5, <2>4, <3>5, <4>2
      <4> QED BY <2>6, <3>4, <3>5, <4>1, <4>2
    <3>6. ASSUME NEW i \in first, i \in Standing, Len(got) < PageLen PROVE i \in seen \cup ToSet(got)
      <4>1. i \in S BY <3>2, <3>3, <3>6 DEF Matching
      <4> QED BY <1>5, <2>4, <3>5, <3>6, <4>1
    <3>7. lists'[k].rows = got BY <1>10, <2>4
    <3>8. Matching(table.filter)' = S BY <1>1, <1>21, <3>3
    <3>9. Covered((table.page + 1) * PageLen, seen \cup ToSet(lists[k].rows))'
      BY <1>1, <3>5, <3>7, <3>8 DEF Covered
    <3> QED BY <1>1, <3>6, <3>7, <3>9 DEF ReadLater, Standing
  <2> QED BY <2>7, <2>8
<1> QED BY <1>13, <1>14, <1>17, <1>19, <1>20, <1>22, <1>23, <1>24 DEF LogsInv

\* A list goes: the others are among those that were there.
LEMMA ListGone ==
  ASSUME LogsInv, NEW n \in DOMAIN lists, ListEnds(n)
  PROVE  /\ lists' \in Seq(ListRecords) /\ Len(lists') = Len(lists) - 1
         /\ \A k \in DOMAIN lists' : ListOK(lists'[k]) /\ lists'[k] \in ListRecords /\ ~lists'[k].alone
<1>1. lists \in Seq(ListRecords) /\ Len(lists) \in Nat /\ n \in 1 .. Len(lists) BY DEF LogsInv, ListsOK
<1> DEFINE a == SubSeq(lists, 1, n - 1)
           b == SubSeq(lists, n + 1, Len(lists))
<1>2. lists' = a \o b BY DEF ListEnds, RemoveAt
<1>3. /\ a \in Seq(ListRecords) /\ Len(a) = n - 1 /\ \A k \in 1 .. Len(a) : a[k] = lists[k]
  <2>1. CASE n = 1 BY <1>1, <2>1
  <2>2. CASE n > 1
    <3>1. 1 \in 1 .. Len(lists) + 1 /\ n - 1 \in 0 .. Len(lists) BY <1>1, <2>2
    <3> QED BY <1>1, <2>2, <3>1, SubSeqProperties
  <2> QED BY <1>1, <2>1, <2>2
<1>4. /\ b \in Seq(ListRecords) /\ Len(b) = Len(lists) - n /\ \A k \in 1 .. Len(b) : b[k] = lists[n + k]
  <2>1. CASE n = Len(lists) BY <1>1, <2>1
  <2>2. CASE n < Len(lists) BY <1>1, <2>2
  <2> QED BY <1>1, <2>1, <2>2
<1> HIDE DEF a, b
<1>5. /\ lists' \in Seq(ListRecords) /\ Len(lists') = Len(lists) - 1
      /\ \A k \in 1 .. Len(lists') : lists'[k] = IF k <= Len(a) THEN a[k] ELSE b[k - Len(a)]
  <2>1. a \in Seq(ListRecords) /\ b \in Seq(ListRecords) /\ Len(a) \in Nat /\ Len(b) \in Nat BY <1>3, <1>4
  <2>2. lists' \in Seq(ListRecords) BY <1>2, <2>1
  <2>3. Len(lists') = Len(a) + Len(b) BY <1>2, <2>1
  <2>4. \A k \in 1 .. (Len(a) + Len(b)) : lists'[k] = IF k <= Len(a) THEN a[k] ELSE b[k - Len(a)]
    BY <1>2, <2>1
  <2>5. Len(a) + Len(b) = Len(lists) - 1 BY <1>1, <1>3, <1>4
  <2> QED BY <2>2, <2>3, <2>4, <2>5
<1>6. ASSUME NEW k \in DOMAIN lists'
      PROVE  ListOK(lists'[k]) /\ lists'[k] \in ListRecords /\ ~lists'[k].alone
  <2>1. k \in 1 .. Len(lists') /\ Len(lists) # 1 BY <1>1, <1>5
  <2>2. PICK j \in DOMAIN lists : lists'[k] = lists[j]
    <3>1. CASE k <= Len(a)
      <4>1. k \in 1 .. Len(a) /\ k \in DOMAIN lists BY <1>1, <1>3, <2>1, <3>1
      <4> QED BY <1>3, <1>5, <2>1, <3>1, <4>1
    <3>2. CASE ~(k <= Len(a))
      <4> DEFINE i == k - Len(a)
      <4>1. i \in 1 .. Len(b) /\ n + i \in DOMAIN lists BY <1>1, <1>3, <1>4, <1>5, <2>1, <3>2
      <4>2. lists'[k] = b[i] BY <1>5, <2>1, <3>2
      <4> HIDE DEF i
      <4>3. lists'[k] = lists[n + i] BY <1>4, <4>1, <4>2
      <4> QED BY <4>1, <4>3
    <3> QED BY <3>1, <3>2
  <2>3. ListOK(lists[j]) /\ lists[j] \in ListRecords BY <1>1 DEF LogsInv, ListsOK
  <2>4. ~lists[j].alone BY <2>1 DEF LogsInv, LastAsked
  <2> QED BY <2>2, <2>3, <2>4
<1> QED BY <1>5, <1>6

\* With no list asked for alone on its way, and one overtaken, nothing is claimed.
LEMMA OvertakenInv ==
  ASSUME LogsInv, overtaken', UNCHANGED <<journal, cut>>,
         lists' \in Seq(ListRecords), \A k \in DOMAIN lists' : ListOK(lists'[k]) /\ ~lists'[k].alone,
         TableOK'
  PROVE  LogsInv'
<1>1. ListRecords' = ListRecords BY DEF ListRecords, Numbers
<1>2. \A x : ListOK(x)' <=> ListOK(x) BY <1>1 DEF ListOK
<1>3. JournalOK' /\ ListsOK' BY <1>1, <1>2 DEF LogsInv, JournalOK, ListsOK
<1>4. LastAsked' /\ OnTrack' /\ FirstChosen' /\ ShownOK' /\ AwaitedOK' /\ ReadOK'
  BY DEF LastAsked, OnTrack, FirstChosen, ShownOK, AwaitedOK, ReadOK
<1> QED BY <1>3, <1>4 DEF LogsInv

\* A list put in the table.
LEMMA TablePut ==
  ASSUME TableOK, NEW got \in Seq(Numbers), NEW e \in BOOLEAN, NEW w \in BOOLEAN
  PROVE  /\ [table EXCEPT !.rows = got, !.loading = w] \in TableRecords
         /\ [table EXCEPT !.rows = got, !.loading = w].rows = got
         /\ [table EXCEPT !.rows = got, !.loading = w].loading = w
         /\ [table EXCEPT !.rows = got, !.loading = w].filter = table.filter
         /\ [table EXCEPT !.rows = got, !.loading = w].page = table.page
         /\ [table EXCEPT !.error = e, !.loading = w] \in TableRecords
         /\ [table EXCEPT !.error = e, !.loading = w].rows = table.rows
BY DEF TableOK, TableRecords

\* A list fails: the page is in doubt.
LEMMA FailedInv ==
  ASSUME LogsInv, NEW n \in DOMAIN lists, ListFailed(n) PROVE LogsInv'
<1> DEFINE yes == TRUE
           no == FALSE
<1>1. /\ ListEnds(n) /\ UNCHANGED <<journal, cut, seen, first>> /\ overtaken' = TRUE
      /\ table' = [table EXCEPT !.error = yes, !.loading = no]
  BY DEF ListFailed
<1>2. yes \in BOOLEAN /\ no \in BOOLEAN OBVIOUS
<1>3. <<>> \in Seq(Numbers) OBVIOUS
<1> HIDE DEF yes, no
<1>4. TableOK BY DEF LogsInv
<1>5. table' \in TableRecords /\ table'.rows = table.rows BY <1>1, <1>2, <1>3, <1>4, TablePut
<1>6. TableOK' BY <1>1, <1>4, <1>5 DEF TableOK, TableRecords, Numbers
<1> QED BY <1>1, <1>6, ListGone, OvertakenInv

\* A list comes in: what was read is what is shown, and seen.
LEMMA HeardInv ==
  ASSUME LogsInv, NEW n \in DOMAIN lists, ListHeard(n) PROVE LogsInv'
<1> DEFINE no == FALSE
<1>1. PICK l : l = lists[n] OBVIOUS
<1>2. /\ l.at = "read" /\ ListEnds(n) /\ UNCHANGED <<journal, cut>>
      /\ table' = [table EXCEPT !.rows = l.rows, !.loading = no]
      /\ IF l.page = 0 /\ l.alone
         THEN seen' = ToSet(l.rows) /\ first' = l.matched /\ overtaken' = FALSE
         ELSE seen' = seen \cup ToSet(l.rows) /\ UNCHANGED <<first, overtaken>>
  BY <1>1 DEF ListHeard
<1>3. ListOK(l) /\ l \in ListRecords BY <1>1 DEF LogsInv, ListsOK, ListOK
<1>4. /\ l.rows \in Seq(Numbers) /\ l.matched \in SUBSET Numbers /\ ToSet(l.rows) \in SUBSET Numbers
      /\ l.filter \in SUBSET LogKinds /\ l.page \in Nat /\ Len(l.rows) <= PageLen
      /\ \A i \in ToSet(l.rows) \cup l.matched : journal[i] \in l.filter
  BY <1>3 DEF ListOK, ListRecords, ToSet
<1>5. no \in BOOLEAN /\ ~no OBVIOUS
<1> HIDE DEF no
<1>6. TableOK BY DEF LogsInv
<1>7. /\ table' \in TableRecords /\ table'.rows = l.rows /\ table'.loading = no
      /\ table'.filter = table.filter /\ table'.page = table.page
  BY <1>2, <1>4, <1>5, <1>6, TablePut
<1>8. seen' \in SUBSET Numbers /\ first' \in SUBSET Numbers /\ overtaken' \in BOOLEAN
  BY <1>2, <1>4, <1>6 DEF TableOK
<1>9. TableOK' BY <1>2, <1>4, <1>7, <1>8 DEF TableOK, TableRecords, Numbers
<1>10. /\ lists' \in Seq(ListRecords) /\ Len(lists') = Len(lists) - 1
       /\ \A k \in DOMAIN lists' : ListOK(lists'[k]) /\ lists'[k] \in ListRecords /\ ~lists'[k].alone
  BY <1>2, ListGone
<1>11. CASE ~l.alone
  <2>1. overtaken
    <3>1. lists # <<>> /\ 1 \in DOMAIN lists /\ DOMAIN lists = 1 .. Len(lists) BY DEF LogsInv, ListsOK
    <3>2. lists[1].alone => Len(lists) = 1 BY <3>1 DEF LogsInv, LastAsked
    <3>a. n \in 1 .. Len(lists) BY <3>1
    <3>3. lists[1].alone => n = 1 BY <3>a, <3>2
    <3> QED BY <1>1, <1>11, <3>1, <3>3 DEF LogsInv, OnTrack, Awaiting
  <2>2. overtaken' BY <1>2, <1>11, <2>1
  <2> QED BY <1>2, <1>9, <1>10, <2>2, OvertakenInv
<1>12. CASE l.alone
  <2>1. Len(lists) = 1 /\ l.filter = table.filter /\ l.page = table.page
    BY <1>1, <1>12 DEF LogsInv, LastAsked
  <2>2. lists' = <<>> /\ ~Awaiting' /\ Awaiting
    <3>1. lists' = <<>> BY <1>10, <2>1
    <3>2. lists # <<>> BY <2>1
    <3> QED BY <3>1, <3>2 DEF Awaiting
  <2>3. JournalOK' /\ ListsOK' BY <1>2, <2>2 DEF LogsInv, JournalOK, ListsOK
  <2>4. LastAsked' /\ OnTrack' /\ ReadOK' BY <1>5, <1>7, <2>2 DEF LastAsked, OnTrack, ReadOK
  <2>5. PICK S : S = Matching(table.filter) OBVIOUS
  <2>6. Matching(table.filter)' = S BY <1>2, <1>7, <2>5 DEF Matching, Standing
  <2>7. Standing' = Standing BY <1>2 DEF Standing
  <2>8. /\ PageLen \in Nat /\ table.page \in Nat /\ table.page * PageLen \in Nat
        /\ table.page * PageLen <= (table.page + 1) * PageLen
    BY <1>6, LogsPageAssumption DEF TableOK
  <2>9. \A i \in S : Above(S, i) \in Nat /\ Above(S, i) >= 1 BY <2>5, AboveOne DEF LogsInv
  <2>10. \A i \in ToSet(l.rows) : journal'[i] \in table.filter BY <1>2, <1>4, <2>1
  <2>11. CASE l.page = 0
    <3>1. seen' = ToSet(l.rows) /\ first' = l.matched /\ ~overtaken' BY <1>2, <1>12, <2>11
    <3>2. ReadFirst(l) BY <1>1, <1>2, <1>12, <2>11 DEF LogsInv, ReadOK
    <3>3. \A i \in l.matched \cap S : Above(S, i) <= PageLen => i \in ToSet(l.rows)
      BY <2>1, <2>5, <3>2 DEF ReadFirst
    <3>4. Len(l.rows) < PageLen => l.matched \cap Standing \subseteq ToSet(l.rows) BY <3>2 DEF ReadFirst
    <3>5. table.page * PageLen = 0 /\ (table.page + 1) * PageLen = PageLen BY <2>1, <2>8, <2>11
    <3>6. Covered((table.page + 1) * PageLen, seen)' BY <1>7, <2>6, <3>1, <3>3, <3>5 DEF Covered
    <3>7. ShownOK' BY <1>7, <2>7, <2>10, <3>1, <3>4, <3>6 DEF ShownOK
    <3>8. AwaitedOK' BY <1>7, <2>6, <2>9, <3>5 DEF AwaitedOK, Covered
    <3>9. FirstChosen' BY <1>2, <1>4, <1>7, <2>1, <3>1 DEF FirstChosen
    <3> QED BY <1>9, <2>3, <2>4, <3>7, <3>8, <3>9 DEF LogsInv
  <2>12. CASE l.page # 0
    <3>1. seen' = seen \cup ToSet(l.rows) /\ UNCHANGED <<first, overtaken>> BY <1>2, <2>12
    <3>2. ~overtaken => ReadLater(l) BY <1>1, <1>2, <1>12, <2>12 DEF LogsInv, ReadOK
    <3>3. ~overtaken => \A i \in first \cap S : Above(S, i) <= (table.page + 1) * PageLen => i \in seen'
      BY <2>5, <3>1, <3>2 DEF ReadLater, Covered
    <3>4. ~overtaken /\ Len(l.rows) < PageLen => first \cap Standing \subseteq seen'
      BY <3>1, <3>2 DEF ReadLater
    <3>5. ~overtaken => Covered((table.page + 1) * PageLen, seen)' BY <1>7, <2>6, <3>1, <3>3 DEF Covered
    <3>6. ShownOK' BY <1>7, <2>7, <2>10, <3>1, <3>4, <3>5 DEF ShownOK
    <3>7. ~overtaken => \A i \in first \cap S : Above(S, i) <= table.page * PageLen => i \in seen
      BY <2>5 DEF LogsInv, AwaitedOK, Covered
    <3>8. AwaitedOK' BY <1>7, <2>6, <3>1, <3>7 DEF AwaitedOK, Covered
    <3>9. table.page > 0 BY <2>1, <2>8, <2>12
    <3>10. FirstChosen' BY <1>2, <1>7, <3>1, <3>9 DEF LogsInv, FirstChosen
    <3> QED BY <1>9, <2>3, <2>4, <3>6, <3>8, <3>10 DEF LogsInv
  <2> QED BY <2>11, <2>12
<1> QED BY <1>11, <1>12

--------------------------------------------------------------------------------
(* The clicks *)

\* The pager leads one page on at most.
LEMMA PagerReach ==
  ASSUME TableOK, NEW page \in PagerPages
  PROVE  page \in Nat /\ page <= table.page + 1
<1>1. PICK L : L = PageLen OBVIOUS
<1>2. PICK p : p = table.page OBVIOUS
<1>3. PICK t : t = Total OBVIOUS
<1>4. L \in Nat /\ L > 0 /\ p \in Nat /\ Len(table.rows) \in Nat /\ Len(table.rows) <= L
  BY <1>1, <1>2, LogsPageAssumption DEF TableOK
<1>5. p * L \in Nat /\ (p + 3) * L = p * L + 3 * L BY <1>4
<1>a. PICK k : k = Len(table.rows) OBVIOUS
<1>b. t = p * L + k + (IF k = L THEN L ELSE 0) BY <1>1, <1>2, <1>3, <1>a DEF Total
<1>6. t \in Nat /\ t <= p * L + 2 * L
  <2>1. PICK m : m = p * L OBVIOUS
  <2>2. m \in Nat /\ k \in Nat /\ k <= L BY <1>4, <1>5, <1>a, <2>1
  <2>3. t = m + k + (IF k = L THEN L ELSE 0) BY <1>b, <2>1
  <2>4. t \in Nat /\ t <= m + 2 * L
    <3>1. CASE k = L BY <1>4, <2>2, <2>3, <3>1
    <3>2. CASE k # L BY <1>4, <2>2, <2>3, <3>2
    <3> QED BY <3>1, <3>2
  <2> QED BY <2>1, <2>4
<1> DEFINE a == t + L - 1
           q == a \div L
<1>7. a \in Nat /\ a < (p + 3) * L BY <1>4, <1>5, <1>6
<1>8. page \in 0 .. q - 1 BY <1>1, <1>3 DEF PagerPages
<1> HIDE DEF a
<1>9. q \in Nat /\ q * L <= a BY <1>4, <1>7
<1> HIDE DEF q
<1>10. q < p + 3
  <2> SUFFICES ASSUME q >= p + 3 PROVE FALSE BY <1>4, <1>9
  <2>1. q * L = (p + 3) * L + (q - (p + 3)) * L BY <1>4, <1>9
  <2>2. (q - (p + 3)) \in Nat BY <1>4, <1>9
  <2>3. (q - (p + 3)) * L \in Nat BY <1>4, <2>2
  <2>4. q * L \in Nat /\ (p + 3) * L \in Nat BY <1>4, <1>9
  <2> QED BY <1>7, <1>9, <2>1, <2>3, <2>4
<1> QED BY <1>2, <1>4, <1>8, <1>9, <1>10

\* Every step keeps the invariant.
LEMMA LogsStep == ASSUME LogsInv, [LogsPageNext]_logsPageVars PROVE LogsInv'
<1>0. TableOK /\ table.filter \in SUBSET LogKinds /\ table.page \in Nat BY DEF LogsInv, TableOK
<1>a. \A e \in BOOLEAN :
        /\ [table EXCEPT !.error = e] \in TableRecords
        /\ [table EXCEPT !.error = e].filter = table.filter
        /\ [table EXCEPT !.error = e].page = table.page
        /\ [table EXCEPT !.error = e].rows = table.rows
        /\ [table EXCEPT !.error = e].loading = table.loading
  BY <1>0, TableFields
<1>b. table \in TableRecords BY <1>0 DEF TableOK, TableRecords
<1>1. ASSUME NEW kind \in LogKinds, RowWritten(kind) PROVE LogsInv' BY <1>1, WrittenInv
<1>2. ASSUME NEW n \in DOMAIN lists, ListServed(n) PROVE LogsInv' BY <1>2, ServedInv
<1>3. ASSUME NEW n \in DOMAIN lists, ListHeard(n) PROVE LogsInv' BY <1>3, HeardInv
<1>4. ASSUME NEW n \in DOMAIN lists, ListFailed(n) PROVE LogsInv' BY <1>4, FailedInv
<1>5. ASSUME NEW b \in bodies, BodyServed(b) PROVE LogsInv'
  BY <1>5, <1>b, ShownStays DEF BodyServed, tableVars
<1>6. ASSUME NEW b \in bodies, BodyHeard(b) PROVE LogsInv'
  <2> DEFINE yes == TRUE
  <2>1. yes \in BOOLEAN OBVIOUS
  <2>2. table' = table \/ table' = [table EXCEPT !.error = yes] BY <1>6 DEF BodyHeard
  <2>3. UNCHANGED <<journal, cut, lists, seen, first, overtaken>> BY <1>6 DEF BodyHeard
  <2> HIDE DEF yes
  <2> QED BY <1>a, <1>b, <2>1, <2>2, <2>3, ShownStays
<1>7. ASSUME NEW upTo \in Standing, Deleted(upTo) PROVE LogsInv' BY <1>7, DeletedInv
<1>8. ASSUME NEW filter \in Filters, Choose(filter) PROVE LogsInv'
  <2>1. filter \in SUBSET LogKinds BY LogsPageAssumption
  <2>2. AskList(filter, 0) /\ UNCHANGED <<journal, cut, seen, first>> BY <1>8 DEF Choose
  <2> QED BY <2>1, <2>2, AskInv
<1>9. ASSUME NEW page \in 0 .. MaxLoads, TurnTo(page) PROVE LogsInv'
  <2>1. page \in PagerPages /\ AskList(table.filter, page) /\ UNCHANGED <<journal, cut, seen, first>>
    BY <1>9 DEF TurnTo
  <2>2. page \in Nat /\ page <= table.page + 1 BY <1>0, <2>1, PagerReach
  <2> QED BY <1>0, <2>1, <2>2, AskInv
<1>10. ASSUME NEW id \in Opened, Expand(id) PROVE LogsInv' BY <1>10, <1>b, ShownStays DEF Expand
<1>11. ASSUME ClickRefresh PROVE LogsInv'
  <2>1. AskList(table.filter, table.page) /\ UNCHANGED <<journal, cut, seen, first>> BY <1>11 DEF ClickRefresh
  <2>2. table.page <= table.page + 1 BY <1>0
  <2> QED BY <1>0, <2>1, <2>2, AskInv
<1>12. ASSUME OpenClearOld PROVE LogsInv' BY <1>12, <1>b, ShownStays DEF OpenClearOld, tableVars
<1>13. ASSUME ConfirmClear PROVE LogsInv'
  <2>1. UNCHANGED <<journal, cut, lists, seen, first, overtaken>> BY <1>13 DEF ConfirmClear
  <2>2. PICK e \in BOOLEAN : table' = [table EXCEPT !.error = e]
    <3>1. table.error \in BOOLEAN BY <1>b DEF TableRecords
    <3>2. table' = [table EXCEPT !.error = table.error \/ clearing' = "closed"] BY <1>13 DEF ConfirmClear
    <3>3. (table.error \/ clearing' = "closed") \in BOOLEAN OBVIOUS
    <3> QED BY <3>2, <3>3
  <2> QED BY <1>a, <2>1, <2>2, ShownStays
<1>14. ASSUME ClearHeard PROVE LogsInv'
  <2>1. AskList(table.filter, table.page) /\ UNCHANGED <<journal, cut, seen, first>> BY <1>14 DEF ClearHeard
  <2>2. table.page <= table.page + 1 BY <1>0
  <2> QED BY <1>0, <2>1, <2>2, AskInv
<1>15. CASE UNCHANGED logsPageVars BY <1>15, <1>b, ShownStays DEF logsPageVars, tableVars
<1> QED
  BY <1>1, <1>2, <1>3, <1>4, <1>5, <1>6, <1>7, <1>8, <1>9, <1>10, <1>11, <1>12, <1>13, <1>14, <1>15
  DEF LogsPageNext

\* It holds of a page just opened.
LEMMA LogsInitial == ASSUME LogsPageInit PROVE LogsInv
<1> DEFINE no == FALSE
           yes == TRUE
           none == {}
           nil == <<>>
           r == [filter |-> LogKinds, page |-> 0, at |-> "sent", rows |-> nil, matched |-> none, alone |-> yes]
           t == [filter |-> LogKinds, page |-> 0, rows |-> nil, error |-> no, loading |-> yes]
<1>1. /\ lists = <<r>> /\ table = t /\ journal \in Journals /\ cut = 0
      /\ seen = {} /\ first = {} /\ overtaken = FALSE
  BY DEF LogsPageInit, Unread
<1>2. /\ nil \in Seq(Numbers) /\ none \in SUBSET Numbers /\ no \in BOOLEAN /\ yes \in BOOLEAN
      /\ yes /\ Len(nil) = 0 /\ ToSet(nil) = {} /\ none = {} /\ ~no
  BY DEF ToSet
<1> HIDE DEF no, yes, none, nil
<1>3. /\ r \in ListRecords /\ r.rows = nil /\ r.matched = none /\ r.alone = yes /\ r.at = "sent"
      /\ r.filter = LogKinds /\ r.page = 0
  BY <1>2 DEF ListRecords
<1>4. /\ t \in TableRecords /\ t.filter = LogKinds /\ t.page = 0 /\ t.rows = nil /\ t.loading = yes
  BY <1>2 DEF TableRecords
<1> HIDE DEF r, t
<1>5. PageLen \in Nat BY LogsPageAssumption
<1>6. /\ lists \in Seq(ListRecords) /\ Len(lists) = 1 /\ DOMAIN lists = {1} /\ lists[1] = r /\ lists # <<>>
  BY <1>1, <1>3
<1>7. ListsOK BY <1>2, <1>3, <1>5, <1>6 DEF ListsOK, ListOK
<1>8. JournalOK BY <1>1, LogsPageAssumption DEF JournalOK
<1>a. table \in TableRecords /\ table.rows = nil BY <1>1, <1>4
<1>b. Len(table.rows) <= PageLen BY <1>2, <1>5, <1>a
<1>c. seen \in SUBSET Numbers /\ first \in SUBSET Numbers /\ overtaken \in BOOLEAN BY <1>1
<1>9. TableOK BY <1>a, <1>b, <1>c DEF TableOK, TableRecords
<1>10. LastAsked /\ OnTrack /\ ReadOK
  BY <1>1, <1>2, <1>3, <1>4, <1>6 DEF LastAsked, OnTrack, Awaiting, ReadOK
<1>11. FirstChosen /\ ShownOK /\ AwaitedOK
  BY <1>1, <1>6 DEF FirstChosen, ShownOK, AwaitedOK, Covered, Awaiting
<1> QED BY <1>7, <1>8, <1>9, <1>10, <1>11 DEF LogsInv

\* The log is shown as it is, however many rows are written and deleted while
\* the user leafs through it (Logs.tsx:103-129, logs.ts:134-171).
THEOREM LogIsShownWhole == LogsPageSpec => []LogIsWhole
<1>1. LogsPageInit => LogsInv BY LogsInitial
<1>2. LogsInv /\ [LogsPageNext]_logsPageVars => LogsInv' BY LogsStep
<1>3. LogsInv => LogIsWhole BY WholeFromInv
<1> QED BY <1>1, <1>2, <1>3, PTL DEF LogsPageSpec

--------------------------------------------------------------------------------
(***************************************************************************)
(* Ideas: for any number of handlers, addresses, ideas and comments, and   *)
(* whatever is lost on the way to the page, nobody writes more than the    *)
(* cap and the handlers allow, and a thread that offers no more is the     *)
(* whole thread.                                                           *)
(*                                                                         *)
(* For the cap, whoever is about to write is a handler, and counted before *)
(* the others wrote. For the thread there is a number n that splits the    *)
(* rows of the idea (Covers): the later ones are the visitor's own and     *)
(* shown, the earlier ones are shown up to the place the pages have come   *)
(* to, and while the pages have not come to n nothing is shown twice.      *)
(***************************************************************************)

(* Types *)

\* What a request is: what it posts, and how far it is.
PostRecords == [kind : PostKinds, of : Nat, ip : Ips, by : {"me", "other"}, row : Nat]
Steps == {"counting", "inserting", "ok", "refused"}
ServiceRecords == [at : Steps, heard : BOOLEAN, post : PostRecords]

\* The tables, and the handlers.
TablesOK == ideas \in Seq(IdeaRows) /\ comments \in Seq(CommentRows)
ServingOK == serving \in [Handlers -> ServiceRecords \cup {Free}]

\* The requests about to write a row of an address.
Writing(kind, ip) ==
  {h \in Handlers : serving[h].at = "inserting" /\ serving[h].post.kind = kind /\ serving[h].post.ip = ip}

\* The cap needs no more than itself, and that these are what they are.
QuotaInv == TablesOK /\ ServingOK /\ QuotaHolds

\* A request in service is not a free handler.
LEMMA InService ==
  /\ \A r \in ServiceRecords : r # Free /\ r.at # "free" /\ r.at \in Steps /\ r.heard \in BOOLEAN
                               /\ r.post \in PostRecords
  /\ Free.at = "free"
  /\ \A h \in Handlers : ServingOK => /\ serving[h] \in ServiceRecords <=> serving[h] # Free
                                      /\ serving[h].at \in Steps <=> serving[h] # Free
                                      /\ serving[h].at = "free" <=> serving[h] = Free
<1>1. Free.at = "free" BY DEF Free
<1>2. \A r \in ServiceRecords : r.at \in Steps /\ r.heard \in BOOLEAN /\ r.post \in PostRecords
  BY DEF ServiceRecords
<1>3. \A a \in Steps : a # "free" BY DEF Steps
<1>4. \A r \in ServiceRecords : r # Free /\ r.at # "free" BY <1>1, <1>2, <1>3
<1>5. ASSUME NEW h \in Handlers, ServingOK PROVE serving[h] \in ServiceRecords \/ serving[h] = Free
  BY <1>5 DEF ServingOK
<1> HIDE DEF Free
<1> QED BY <1>1, <1>2, <1>3, <1>4, <1>5

\* A request goes on,
LEMMA AtPut ==
  ASSUME NEW r \in ServiceRecords, NEW a \in Steps
  PROVE  /\ [r EXCEPT !.at = a] \in ServiceRecords /\ [r EXCEPT !.at = a].at = a
         /\ [r EXCEPT !.at = a].heard = r.heard /\ [r EXCEPT !.at = a].post = r.post
BY DEF ServiceRecords

\* is not listened to any more,
LEMMA HeardPut ==
  ASSUME NEW r \in ServiceRecords, NEW b \in BOOLEAN
  PROVE  /\ [r EXCEPT !.heard = b] \in ServiceRecords /\ [r EXCEPT !.heard = b].heard = b
         /\ [r EXCEPT !.heard = b].at = r.at /\ [r EXCEPT !.heard = b].post = r.post
BY DEF ServiceRecords

\* or has written its row;
LEMMA RowPut ==
  ASSUME NEW r \in ServiceRecords, NEW a \in Steps, NEW n \in Nat
  PROVE  LET x == [r EXCEPT !.at = a, !.post.row = n] IN
         /\ x \in ServiceRecords /\ x.at = a /\ x.heard = r.heard /\ x.post.row = n
         /\ x.post.kind = r.post.kind /\ x.post.of = r.post.of /\ x.post.by = r.post.by
BY DEF ServiceRecords, PostRecords

\* or it is new.
LEMMA NewRequest ==
  ASSUME NEW a \in Steps, NEW b \in BOOLEAN, NEW p \in PostRecords
  PROVE  LET r == [at |-> a, heard |-> b, post |-> p]
         IN r \in ServiceRecords /\ r.at = a /\ r.heard = b /\ r.post = p
BY DEF ServiceRecords

--------------------------------------------------------------------------------
(* The cap *)

\* Rows are counted by address.
LEMMA CountFacts ==
  ASSUME NEW entries, NEW T, entries \in Seq(T), NEW ip
  PROVE  /\ CountIn(entries, ip) \in Nat /\ IsFiniteSet(DOMAIN entries)
         /\ \A more : /\ DOMAIN more \in SUBSET DOMAIN entries
                      /\ \A r \in DOMAIN more : more[r].ip = ip /\ more[r].recent => entries[r].ip = ip /\ entries[r].recent
                      => CountIn(more, ip) <= CountIn(entries, ip)
<1> DEFINE S(x) == {r \in DOMAIN x : x[r].ip = ip /\ x[r].recent}
<1>1. DOMAIN entries = 1 .. Len(entries) /\ Len(entries) \in Nat OBVIOUS
<1>2. IsFiniteSet(DOMAIN entries) BY <1>1, FS_Interval
<1>3. S(entries) \in SUBSET DOMAIN entries OBVIOUS
<1>4. IsFiniteSet(S(entries)) /\ Cardinality(S(entries)) \in Nat BY <1>2, <1>3, FS_Subset, FS_CardinalityType
<1>5. ASSUME NEW more, DOMAIN more \in SUBSET DOMAIN entries,
             \A r \in DOMAIN more : more[r].ip = ip /\ more[r].recent => entries[r].ip = ip /\ entries[r].recent
      PROVE  CountIn(more, ip) <= CountIn(entries, ip)
  <2>1. S(more) \in SUBSET S(entries) BY <1>5
  <2> QED BY <1>4, <2>1, FS_Subset DEF CountIn
<1> QED BY <1>2, <1>4, <1>5 DEF CountIn

\* A row written counts for its own address alone.
LEMMA CountOne ==
  ASSUME NEW entries, NEW T, entries \in Seq(T), NEW row \in T, NEW ip
  PROVE  /\ CountIn(Append(entries, row), ip) <= CountIn(entries, ip) + 1
         /\ row.ip # ip => CountIn(Append(entries, row), ip) <= CountIn(entries, ip)
<1> DEFINE S(x) == {r \in DOMAIN x : x[r].ip = ip /\ x[r].recent}
           n == Len(entries) + 1
           more == Append(entries, row)
<1>1. /\ DOMAIN entries = 1 .. Len(entries) /\ Len(entries) \in Nat /\ DOMAIN more = 1 .. n
      /\ more[n] = row /\ \A r \in DOMAIN entries : more[r] = entries[r]
  OBVIOUS
<1>2. \A r \in DOMAIN more : r \in DOMAIN entries \/ r = n BY <1>1
<1> HIDE DEF more, n
<1>3. IsFiniteSet(S(entries)) /\ Cardinality(S(entries)) \in Nat
  <2>1. S(entries) \in SUBSET DOMAIN entries /\ IsFiniteSet(DOMAIN entries) BY <1>1, FS_Interval
  <2> QED BY <2>1, FS_Subset, FS_CardinalityType
<1>4. S(more) \in SUBSET (S(entries) \cup {n}) BY <1>1, <1>2
<1>5. IsFiniteSet(S(entries) \cup {n}) /\ Cardinality(S(entries) \cup {n}) <= Cardinality(S(entries)) + 1
  <2> DEFINE A == S(entries)
  <2>1. IsFiniteSet(A) /\ Cardinality(A) \in Nat BY <1>3
  <2> HIDE DEF A
  <2>2. /\ IsFiniteSet(A \cup {n})
        /\ Cardinality(A \cup {n}) = IF n \in A THEN Cardinality(A) ELSE Cardinality(A) + 1
    BY <2>1, FS_AddElement
  <2>3. Cardinality(A \cup {n}) <= Cardinality(A) + 1 BY <2>1, <2>2
  <2> QED BY <2>2, <2>3 DEF A
<1>6. Cardinality(S(more)) <= Cardinality(S(entries) \cup {n}) BY <1>4, <1>5, FS_Subset
<1>7. Cardinality(S(entries) \cup {n}) \in Nat /\ Cardinality(S(more)) \in Nat
  BY <1>4, <1>5, FS_Subset, FS_CardinalityType
<1>8. CountIn(more, ip) <= CountIn(entries, ip) + 1 BY <1>3, <1>5, <1>6, <1>7 DEF CountIn
<1>9. ASSUME row.ip # ip PROVE CountIn(more, ip) <= CountIn(entries, ip)
  <2>1. S(more) \in SUBSET S(entries) BY <1>1, <1>2, <1>9
  <2> QED BY <1>3, <2>1, FS_Subset DEF CountIn
<1> QED BY <1>8, <1>9 DEF more

\* Any handlers are finitely many, and there is one at least.
LEMMA HandlersFinite ==
  /\ \A S \in SUBSET Handlers : IsFiniteSet(S) /\ Cardinality(S) \in Nat /\ Cardinality(S) <= Cardinality(Handlers)
  /\ Cardinality(Handlers) \in Nat /\ Cardinality(Handlers) >= 1 /\ PerDay \in Nat
<1>1. IsFiniteSet(Handlers) /\ Handlers # {} /\ PerDay \in Nat BY IdeasAssumption
<1>2. Cardinality(Handlers) \in Nat /\ Cardinality(Handlers) # 0 BY <1>1, FS_CardinalityType, FS_EmptySet
<1> QED BY <1>1, <1>2, FS_Subset, FS_CardinalityType

\* The cap in terms of those about to write.
LEMMA QuotaIs ==
  QuotaHolds <=> \A kind \in PostKinds, ip \in Ips :
                   CountSince(kind, ip) + Cardinality(Writing(kind, ip)) <= PerDay + Cardinality(Handlers) - 1
BY DEF QuotaHolds, Writing

\* What is counted is a number.
LEMMA CountType ==
  ASSUME TablesOK PROVE \A kind, ip : CountSince(kind, ip) \in Nat
<1>1. \A ip : CountIn(ideas, ip) \in Nat BY CountFacts DEF TablesOK
<1>2. \A ip : CountIn(comments, ip) \in Nat BY CountFacts DEF TablesOK
<1> QED BY <1>1, <1>2 DEF CountSince

\* Nothing more is counted, and no one more is about to write.
LEMMA QuotaKept ==
  ASSUME QuotaInv, TablesOK', ServingOK',
         \A kind \in PostKinds, ip \in Ips : CountSince(kind, ip)' <= CountSince(kind, ip),
         \A kind, ip : Writing(kind, ip)' \in SUBSET Writing(kind, ip)
  PROVE  QuotaInv'
<1> SUFFICES ASSUME NEW kind \in PostKinds, NEW ip \in Ips
             PROVE  CountSince(kind, ip)' + Cardinality(Writing(kind, ip)') <= PerDay + Cardinality(Handlers) - 1
  BY DEF QuotaInv, QuotaHolds, Writing
<1>1. PICK a : a = CountSince(kind, ip) OBVIOUS
<1>2. PICK b : b = CountSince(kind, ip)' OBVIOUS
<1>3. PICK W : W = Writing(kind, ip) OBVIOUS
<1>4. PICK X : X = Writing(kind, ip)' OBVIOUS
<1>5. a \in Nat BY <1>1, CountType DEF QuotaInv
<1>6. b \in Nat
  <2>1. \A i : CountIn(ideas', i) \in Nat BY CountFacts DEF TablesOK
  <2>2. \A i : CountIn(comments', i) \in Nat BY CountFacts DEF TablesOK
  <2> QED BY <1>2, <2>1, <2>2 DEF CountSince, CountIn
<1>7. W \in SUBSET Handlers BY <1>3 DEF Writing
<1>8. X \in SUBSET W BY <1>3, <1>4
<1>9. Cardinality(X) <= Cardinality(W) /\ Cardinality(X) \in Nat /\ Cardinality(W) \in Nat
  BY <1>7, <1>8, HandlersFinite, FS_Subset
<1>10. a + Cardinality(W) <= PerDay + Cardinality(Handlers) - 1
  BY <1>1, <1>3, QuotaIs DEF QuotaInv
<1>11. b <= a BY <1>1, <1>2
<1>12. b + Cardinality(X) <= PerDay + Cardinality(Handlers) - 1
  BY <1>5, <1>6, <1>9, <1>10, <1>11, HandlersFinite
<1> QED BY <1>2, <1>4, <1>12

\* How the request of one handler changes.
ServiceAt(h, r) == serving' = [serving EXCEPT ![h] = r]

\* The other handlers stay as they are.
LEMMA ServiceAtIs ==
  ASSUME ServingOK, NEW h \in Handlers, NEW r, ServiceAt(h, r)
  PROVE  /\ serving'[h] = r /\ \A k \in Handlers : k # h => serving'[k] = serving[k]
         /\ r \in ServiceRecords \/ r = Free => ServingOK'
BY DEF ServiceAt, ServingOK

\* An answer is for who still listens.
LEMMA ReplyIs ==
  ASSUME ServingOK, NEW h \in Handlers, NEW status, Reply(h, status)
  PROVE  ServiceAt(h, IF serving[h].heard THEN [serving[h] EXCEPT !.at = status] ELSE Free)
BY DEF ServingOK, Reply, ServiceAt

\* No request begins to write.
LEMMA NoneWrites ==
  ASSUME ServingOK, ServingOK', \A h \in Handlers : serving'[h] = serving[h] \/ serving'[h].at # "inserting"
                            \/ (serving[h].at = "inserting" /\ serving'[h].post = serving[h].post)
  PROVE  \A kind, ip : Writing(kind, ip)' \in SUBSET Writing(kind, ip)
BY DEF Writing

\* The tables stay, and so do the counts.
LEMMA TablesStay ==
  ASSUME TablesOK, UNCHANGED tables
  PROVE  TablesOK' /\ \A kind, ip : CountSince(kind, ip)' = CountSince(kind, ip)
BY DEF tables, TablesOK, CountSince

\* One row is written by the request that was about to.
LEMMA CreateQuota == ASSUME QuotaInv, NEW h \in Handlers, Create(h) PROVE QuotaInv'
<1> DEFINE post == serving[h].post
           r == serving[h]
           done == [r EXCEPT !.at = "ok", !.post.row = Len(comments) + 1]
           idea == [status |-> "pending", ip |-> post.ip, recent |-> TRUE]
           comment == [of |-> post.of, by |-> post.by, ip |-> post.ip, recent |-> TRUE]
<1>1. TablesOK /\ ServingOK BY DEF QuotaInv
<1>2. /\ r.at = "inserting"
      /\ IF post.kind = "idea" THEN ideas' = Append(ideas, idea) /\ comments' = comments
         ELSE comments' = Append(comments, comment) /\ ideas' = ideas
      /\ ServiceAt(h, IF r.heard THEN done ELSE Free)
  BY <1>1 DEF Create, ServiceAt, ServingOK
<1>3. r # Free /\ r \in ServiceRecords /\ post \in PostRecords
  <2>1. r.at # "free" BY <1>2
  <2>2. r \in ServiceRecords BY <1>1, <2>1, InService
  <2> QED BY <2>2, InService
<1>4. post.ip \in Ips /\ post.kind \in PostKinds /\ post.of \in Nat /\ post.by \in {"me", "other"}
  BY <1>3 DEF PostRecords
<1>5. idea \in IdeaRows /\ comment \in CommentRows /\ idea.ip = post.ip /\ comment.ip = post.ip
  BY <1>4 DEF IdeaRows, CommentRows
<1>6. Len(comments) + 1 \in Nat /\ "ok" \in Steps BY <1>1 DEF TablesOK, Steps
<1>7. done \in ServiceRecords /\ done.at = "ok" BY <1>3, <1>6, RowPut
<1> HIDE DEF idea, comment, done, post, r
<1>8. TablesOK'
  <2>1. Append(ideas, idea) \in Seq(IdeaRows) /\ Append(comments, comment) \in Seq(CommentRows)
    BY <1>1, <1>5 DEF TablesOK
  <2> QED BY <1>1, <1>2, <2>1 DEF TablesOK
<1>9. /\ ServingOK' /\ serving'[h] \in {done, Free} /\ \A k \in Handlers : k # h => serving'[k] = serving[k]
  BY <1>1, <1>2, <1>7, ServiceAtIs
<1>10. serving'[h].at # "inserting" BY <1>7, <1>9, InService
<1> SUFFICES ASSUME NEW kind \in PostKinds, NEW ip \in Ips
             PROVE  CountSince(kind, ip)' + Cardinality(Writing(kind, ip)') <= PerDay + Cardinality(Handlers) - 1
  BY <1>8, <1>9 DEF QuotaInv, QuotaHolds, Writing
<1>11. PICK a : a = CountSince(kind, ip) OBVIOUS
<1>12. PICK b : b = CountSince(kind, ip)' OBVIOUS
<1>13. PICK W : W = Writing(kind, ip) OBVIOUS
<1>14. PICK X : X = Writing(kind, ip)' OBVIOUS
<1>15. a \in Nat BY <1>1, <1>11, CountType
<1>16. b \in Nat
  <2>1. \A i : CountIn(ideas', i) \in Nat BY <1>8, CountFacts DEF TablesOK
  <2>2. \A i : CountIn(comments', i) \in Nat BY <1>8, CountFacts DEF TablesOK
  <2> QED BY <1>12, <2>1, <2>2 DEF CountSince, CountIn
<1>17. W \in SUBSET Handlers /\ IsFiniteSet(W) /\ Cardinality(W) \in Nat BY <1>13, HandlersFinite DEF Writing
<1>18. X \in SUBSET W /\ h \notin X BY <1>9, <1>10, <1>13, <1>14 DEF Writing
<1>19. a + Cardinality(W) <= PerDay + Cardinality(Handlers) - 1
  BY <1>11, <1>13, QuotaIs DEF QuotaInv
<1>20. CASE kind = post.kind /\ ip = post.ip
  <2>1. h \in W BY <1>2, <1>13, <1>20 DEF Writing, r, post
  <2>2. X \in SUBSET (W \ {h}) BY <1>18
  <2>3. Cardinality(W \ {h}) = Cardinality(W) - 1 /\ IsFiniteSet(W \ {h}) BY <1>17, <2>1, FS_RemoveElement
  <2>4. Cardinality(X) <= Cardinality(W) - 1 /\ Cardinality(X) \in Nat
    BY <2>2, <2>3, FS_Subset, FS_CardinalityType
  <2>5. b <= a + 1
    <3>1. CASE kind = "idea"
      <4>1. a = CountIn(ideas, ip) /\ b = CountIn(ideas', ip) BY <1>11, <1>12, <3>1 DEF CountSince, CountIn
      <4> QED BY <1>1, <1>2, <1>5, <1>20, <3>1, <4>1, CountOne DEF TablesOK
    <3>2. CASE kind # "idea"
      <4>1. a = CountIn(comments, ip) /\ b = CountIn(comments', ip) BY <1>11, <1>12, <3>2 DEF CountSince, CountIn
      <4> QED BY <1>1, <1>2, <1>5, <1>20, <3>2, <4>1, CountOne DEF TablesOK
    <3> QED BY <3>1, <3>2
  <2>6. b + Cardinality(X) <= PerDay + Cardinality(Handlers) - 1
    BY <1>15, <1>16, <1>17, <1>19, <2>4, <2>5, HandlersFinite
  <2> QED BY <1>12, <1>14, <2>6
<1>21. CASE ~(kind = post.kind /\ ip = post.ip)
  <2>1. Cardinality(X) <= Cardinality(W) /\ Cardinality(X) \in Nat
    BY <1>17, <1>18, FS_Subset, FS_CardinalityType
  <2>2. b <= a
    <3>1. CASE kind = "idea"
      <4>1. a = CountIn(ideas, ip) /\ b = CountIn(ideas', ip) BY <1>11, <1>12, <3>1 DEF CountSince, CountIn
      <4>2. CASE post.kind = "idea" BY <1>1, <1>2, <1>5, <1>21, <3>1, <4>1, <4>2, CountOne DEF TablesOK
      <4>3. CASE post.kind # "idea" BY <1>2, <1>15, <4>1, <4>3
      <4> QED BY <4>2, <4>3
    <3>2. CASE kind # "idea"
      <4>1. a = CountIn(comments, ip) /\ b = CountIn(comments', ip) BY <1>11, <1>12, <3>2 DEF CountSince, CountIn
      <4>2. CASE post.kind = "idea" BY <1>2, <1>15, <4>1, <4>2
      <4>3. CASE post.kind # "idea"
        <5>1. kind = post.kind BY <1>4, <3>2, <4>3 DEF PostKinds
        <5> QED BY <1>1, <1>2, <1>5, <1>21, <4>1, <4>3, <5>1, CountOne DEF TablesOK
      <4> QED BY <4>2, <4>3
    <3> QED BY <3>1, <3>2
  <2>3. b + Cardinality(X) <= PerDay + Cardinality(Handlers) - 1
    BY <1>15, <1>16, <1>17, <1>19, <2>1, <2>2, HandlersFinite
  <2> QED BY <1>12, <1>14, <2>3
<1> QED BY <1>20, <1>21

\* A request that counted fewer rows than the cap goes on: whoever else is
\* about to write is a handler, and so is this one.
LEMMA CountQuota == ASSUME QuotaInv, NEW h \in Handlers, NEW blank, Count(h, blank) PROVE QuotaInv'
<1> DEFINE r == serving[h]
           post == r.post
<1>1. TablesOK /\ ServingOK /\ UNCHANGED tables BY DEF QuotaInv, Count
<1>2. TablesOK' /\ \A kind, ip : CountSince(kind, ip)' = CountSince(kind, ip) BY <1>1, TablesStay
<1>3. r.at = "counting" BY DEF Count
<1>4. r \in ServiceRecords /\ post \in PostRecords
  <2>1. r.at # "free" BY <1>3
  <2>2. r \in ServiceRecords BY <1>1, <2>1, InService
  <2> QED BY <2>2, InService
<1>5. "refused" \in Steps /\ "inserting" \in Steps /\ "refused" # "inserting" BY DEF Steps
<1>6. CASE CountSince(post.kind, post.ip) >= PerDay \/ blank
  <2> DEFINE x == IF r.heard THEN [r EXCEPT !.at = "refused"] ELSE Free
  <2>1. Reply(h, "refused") BY <1>6 DEF Count
  <2>2. ServiceAt(h, x) BY <1>1, <2>1, ReplyIs
  <2>3. x \in ServiceRecords \/ x = Free BY <1>4, <1>5, AtPut
  <2>4. x.at # "inserting"
    <3>1. CASE r.heard
      <4>1. x.at = "refused" BY <1>4, <1>5, <3>1, AtPut
      <4> QED BY <4>1
    <3>2. CASE ~r.heard BY <3>2, InService
    <3> QED BY <3>1, <3>2
  <2> HIDE DEF x
  <2>5. ServingOK' /\ serving'[h] = x /\ \A k \in Handlers : k # h => serving'[k] = serving[k]
    BY <1>1, <2>2, <2>3, ServiceAtIs
  <2>6. \A kind, ip : Writing(kind, ip)' \in SUBSET Writing(kind, ip)
    <3>1. \A k \in Handlers : serving'[k] = serving[k] \/ serving'[k].at # "inserting" BY <2>4, <2>5
    <3> QED BY <1>1, <2>5, <3>1, NoneWrites
  <2>7. \A kind \in PostKinds, ip \in Ips : CountSince(kind, ip)' <= CountSince(kind, ip)
    BY <1>1, <1>2, CountType
  <2> QED BY <1>2, <2>5, <2>6, <2>7, QuotaKept
<1>7. CASE ~(CountSince(post.kind, post.ip) >= PerDay \/ blank)
  <2> DEFINE x == [r EXCEPT !.at = "inserting"]
  <2>1. ServiceAt(h, x)
    <3>1. serving' = [serving EXCEPT ![h].at = "inserting"] BY <1>7 DEF Count
    <3> QED BY <1>1, <3>1 DEF ServiceAt, ServingOK
  <2>2. x \in ServiceRecords /\ x.post = post BY <1>4, <1>5, AtPut
  <2> HIDE DEF x
  <2>3. ServingOK' /\ serving'[h] = x /\ \A k \in Handlers : k # h => serving'[k] = serving[k]
    BY <1>1, <2>1, <2>2, ServiceAtIs
  <2> SUFFICES ASSUME NEW kind \in PostKinds, NEW ip \in Ips
               PROVE  CountSince(kind, ip) + Cardinality(Writing(kind, ip)') <= PerDay + Cardinality(Handlers) - 1
    BY <1>2, <2>3 DEF QuotaInv, QuotaHolds, Writing
  <2>4. PICK a : a = CountSince(kind, ip) OBVIOUS
  <2>5. PICK W : W = Writing(kind, ip) OBVIOUS
  <2>6. PICK X : X = Writing(kind, ip)' OBVIOUS
  <2>7. a \in Nat BY <1>1, <2>4, CountType
  <2>8. a + Cardinality(W) <= PerDay + Cardinality(Handlers) - 1 BY <2>4, <2>5, QuotaIs DEF QuotaInv
  <2>9. X \in SUBSET Handlers BY <2>6 DEF Writing
  <2>10. CASE kind = post.kind /\ ip = post.ip
    <3>1. PerDay \in Nat /\ a < PerDay BY <1>7, <2>4, <2>7, <2>10, HandlersFinite
    <3>2. Cardinality(X) <= Cardinality(Handlers) /\ Cardinality(X) \in Nat BY <2>9, HandlersFinite
    <3>3. a + Cardinality(X) <= PerDay + Cardinality(Handlers) - 1 BY <2>7, <3>1, <3>2, HandlersFinite
    <3> QED BY <2>4, <2>6, <3>3
  <2>11. CASE ~(kind = post.kind /\ ip = post.ip)
    <3>1. X \in SUBSET W BY <2>2, <2>3, <2>5, <2>6, <2>11 DEF Writing
    <3>2. W \in SUBSET Handlers BY <2>5 DEF Writing
    <3>3. Cardinality(X) <= Cardinality(W) /\ Cardinality(X) \in Nat /\ Cardinality(W) \in Nat
      BY <3>1, <3>2, <2>9, HandlersFinite, FS_Subset
    <3>4. a + Cardinality(X) <= PerDay + Cardinality(Handlers) - 1 BY <2>7, <2>8, <3>3, HandlersFinite
    <3> QED BY <2>4, <2>6, <3>4
  <2> QED BY <2>10, <2>11
<1> QED BY <1>6, <1>7

--------------------------------------------------------------------------------
(* The requests in service *)

\* A request taken up is refused at once, and told so if someone listens, or
\* goes on to be counted.
LEMMA AdmitIs ==
  ASSUME ServingOK, NEW h \in Handlers, NEW post \in PostRecords, NEW heard \in BOOLEAN, Admit(h, post, heard)
  PROVE  \E r : /\ ServiceAt(h, r) /\ serving[h] = Free
                /\ \/ r = Free /\ ~heard
                   \/ /\ r \in ServiceRecords /\ r.heard = heard /\ r.post = post
                      /\ r.at \in {"counting", "refused"} /\ (r.at = "refused" => heard)
<1> DEFINE no == [at |-> "refused", heard |-> heard, post |-> post]
           yes == [at |-> "counting", heard |-> heard, post |-> post]
<1>1. serving[h] = Free /\ (ServiceAt(h, IF heard THEN no ELSE Free) \/ ServiceAt(h, yes))
  BY DEF Admit, ServiceAt
<1>2. "refused" \in Steps /\ "counting" \in Steps BY DEF Steps
<1>3. no \in ServiceRecords /\ no.heard = heard /\ no.post = post /\ no.at = "refused" BY <1>2, NewRequest
<1>4. yes \in ServiceRecords /\ yes.heard = heard /\ yes.post = post /\ yes.at = "counting"
  BY <1>2, NewRequest
<1> HIDE DEF no, yes
<1>5. CASE ServiceAt(h, yes) BY <1>1, <1>4, <1>5
<1>6. CASE ServiceAt(h, IF heard THEN no ELSE Free) /\ heard BY <1>1, <1>3, <1>6
<1>7. CASE ServiceAt(h, IF heard THEN no ELSE Free) /\ ~heard BY <1>1, <1>7
<1> QED BY <1>1, <1>5, <1>6, <1>7

\* What a page left behind goes on unheard, unless it was answered.
LEMMA UnheardIs ==
  ASSUME ServingOK
  PROVE  /\ Unheard \in [Handlers -> ServiceRecords \cup {Free}]
         /\ \A h \in Handlers :
              \/ Unheard[h] = Free
              \/ /\ Unheard[h] \in ServiceRecords /\ ~Unheard[h].heard /\ Unheard[h].at = serving[h].at
                 /\ Unheard[h].post = serving[h].post /\ serving[h] # Free
                 /\ Unheard[h].at \in {"ok", "refused"} => ~serving[h].heard
<1> DEFINE no == FALSE
           x(h) == IF serving[h] = Free \/ ~serving[h].heard THEN serving[h]
                   ELSE IF HasAnswer(h) THEN Free ELSE [serving[h] EXCEPT !.heard = no]
<1>0. no \in BOOLEAN /\ ~no OBVIOUS
<1>1. Unheard = [h \in Handlers |-> x(h)] BY DEF Unheard
<1> HIDE DEF no
<1>2. ASSUME NEW h \in Handlers
      PROVE  \/ x(h) = Free
             \/ /\ x(h) \in ServiceRecords /\ ~x(h).heard /\ x(h).at = serving[h].at
                /\ x(h).post = serving[h].post /\ serving[h] # Free
                /\ x(h).at \in {"ok", "refused"} => ~serving[h].heard
  <2>1. CASE serving[h] = Free BY <2>1
  <2>2. CASE serving[h] # Free /\ ~serving[h].heard
    <3>1. serving[h] \in ServiceRecords BY <2>2, InService
    <3>2. x(h) = serving[h] BY <2>2
    <3> QED BY <2>2, <3>1, <3>2
  <2>3. CASE serving[h] # Free /\ serving[h].heard /\ HasAnswer(h) BY <2>3
  <2>4. CASE serving[h] # Free /\ serving[h].heard /\ ~HasAnswer(h)
    <3>1. serving[h] \in ServiceRecords BY <2>4, InService
    <3>2. x(h) = [serving[h] EXCEPT !.heard = no] BY <2>4
    <3> HIDE DEF x
    <3>3. /\ x(h) \in ServiceRecords /\ x(h).heard = no /\ x(h).at = serving[h].at
          /\ x(h).post = serving[h].post
      BY <1>0, <3>1, <3>2, HeardPut
    <3> QED BY <1>0, <2>4, <3>3 DEF HasAnswer
  <2> QED BY <2>1, <2>2, <2>3, <2>4
<1> HIDE DEF x
<1>3. \A h \in Handlers : x(h) \in ServiceRecords \cup {Free} BY <1>2
<1> QED BY <1>1, <1>2, <1>3

\* A restart answers none but those who still listen, with an error.
LEMMA RestartIs ==
  ASSUME ServingOK, ServerRestarts
  PROVE  /\ ServingOK'
         /\ \A h \in Handlers :
              \/ serving'[h] = serving[h]
              \/ serving'[h] = Free /\ ~serving[h].heard /\ ~HasAnswer(h)
              \/ /\ serving'[h] \in ServiceRecords /\ serving'[h].at = "refused" /\ ~HasAnswer(h)
                 /\ serving[h] # Free /\ serving'[h].heard /\ serving[h].heard
                 /\ serving'[h].post = serving[h].post
<1> DEFINE x(h) == IF serving[h] = Free \/ HasAnswer(h) THEN serving[h]
                   ELSE IF serving[h].heard THEN [serving[h] EXCEPT !.at = "refused"] ELSE Free
<1>1. serving' = [h \in Handlers |-> x(h)] BY DEF ServerRestarts
<1>2. "refused" \in Steps BY DEF Steps
<1>3. ASSUME NEW h \in Handlers
      PROVE  /\ x(h) \in ServiceRecords \cup {Free}
             /\ \/ x(h) = serving[h]
                \/ x(h) = Free /\ ~serving[h].heard /\ ~HasAnswer(h)
                \/ /\ x(h) \in ServiceRecords /\ x(h).at = "refused" /\ ~HasAnswer(h)
                   /\ serving[h] # Free /\ x(h).heard /\ serving[h].heard
                   /\ x(h).post = serving[h].post
  <2>1. CASE serving[h] = Free \/ HasAnswer(h)
    <3>1. x(h) = serving[h] BY <2>1
    <3> QED BY <3>1 DEF ServingOK
  <2>2. CASE serving[h] # Free /\ ~HasAnswer(h) /\ serving[h].heard
    <3>1. serving[h] \in ServiceRecords BY <2>2, InService
    <3>2. x(h) = [serving[h] EXCEPT !.at = "refused"] BY <2>2
    <3> QED BY <1>2, <2>2, <3>1, <3>2, AtPut
  <2>3. CASE serving[h] # Free /\ ~HasAnswer(h) /\ ~serving[h].heard
    <3>1. x(h) = Free BY <2>3
    <3> QED BY <2>3, <3>1
  <2> QED BY <2>1, <2>2, <2>3
<1> HIDE DEF x
<1>4. ServingOK' BY <1>1, <1>3 DEF ServingOK
<1> QED BY <1>1, <1>3, <1>4

--------------------------------------------------------------------------------
(* The cap, step by step *)

\* Nobody writes, and nobody begins to.
LEMMA ServedQuota ==
  ASSUME QuotaInv, ServingOK', UNCHANGED tables,
         \A h \in Handlers : \/ serving'[h] = serving[h]
                             \/ serving'[h].at # "inserting"
                             \/ serving[h].at = "inserting" /\ serving'[h].post = serving[h].post
  PROVE  QuotaInv'
<1>1. TablesOK /\ ServingOK BY DEF QuotaInv
<1>2. TablesOK' /\ \A kind, ip : CountSince(kind, ip)' = CountSince(kind, ip) BY <1>1, TablesStay
<1>3. \A kind \in PostKinds, ip \in Ips : CountSince(kind, ip)' <= CountSince(kind, ip)
  BY <1>1, <1>2, CountType
<1>4. \A kind, ip : Writing(kind, ip)' \in SUBSET Writing(kind, ip) BY <1>1, NoneWrites
<1> QED BY <1>2, <1>3, <1>4, QuotaKept

\* A request admitted is not about to write yet.
LEMMA AdmitQuota ==
  ASSUME QuotaInv, NEW h \in Handlers, NEW post \in PostRecords, NEW heard \in BOOLEAN,
         Admit(h, post, heard), UNCHANGED tables
  PROVE  QuotaInv'
<1>1. ServingOK BY DEF QuotaInv
<1>2. PICK r : /\ ServiceAt(h, r)
               /\ \/ r = Free
                  \/ r \in ServiceRecords /\ r.at \in {"counting", "refused"}
  BY <1>1, AdmitIs
<1>3. ServingOK' /\ serving'[h] = r /\ \A k \in Handlers : k # h => serving'[k] = serving[k]
  BY <1>1, <1>2, ServiceAtIs
<1>4. r.at # "inserting" BY <1>2, InService
<1> QED BY <1>3, <1>4, ServedQuota

\* A row that leaves the window counts no more.
LEMMA AgesQuota ==
  ASSUME QuotaInv, NEW kind \in PostKinds, NEW ip \in Ips, OldestAges(kind, ip) PROVE QuotaInv'
<1> DEFINE young(entries) == {r \in DOMAIN entries : entries[r].ip = ip /\ entries[r].recent}
           oldest(entries) == CHOOSE r \in young(entries) : \A s \in young(entries) : r <= s
           no == FALSE
           aged(entries) == [entries EXCEPT ![oldest(entries)].recent = no]
<1>1. TablesOK /\ ServingOK /\ serving' = serving BY DEF QuotaInv, OldestAges
<1>2. \/ ideas' = aged(ideas) /\ comments' = comments
      \/ comments' = aged(comments) /\ ideas' = ideas
  BY DEF OldestAges
<1>3. no \in BOOLEAN /\ ~no OBVIOUS
<1> HIDE DEF no, oldest
<1>4. ASSUME NEW entries, NEW T \in {IdeaRows, CommentRows}, entries \in Seq(T)
      PROVE  /\ aged(entries) \in Seq(T) /\ \A i : CountIn(aged(entries), i) <= CountIn(entries, i)
  <2> DEFINE o == oldest(entries)
             new == aged(entries)
  <2>1. /\ DOMAIN new = DOMAIN entries /\ \A r \in DOMAIN entries : r # o => new[r] = entries[r]
        /\ DOMAIN entries = 1 .. Len(entries)
    OBVIOUS
  <2>2. \A r \in DOMAIN entries : entries[r] \in T BY <1>4
  <2>3. ASSUME o \in DOMAIN entries
        PROVE  new[o] \in T /\ new[o].recent = no
    <3>1. new[o] = [entries[o] EXCEPT !.recent = no] BY <2>3
    <3>2. entries[o] \in T BY <2>2, <2>3
    <3>3. \A x \in IdeaRows : [x EXCEPT !.recent = no] \in IdeaRows /\ [x EXCEPT !.recent = no].recent = no
      BY <1>3 DEF IdeaRows
    <3>4. \A x \in CommentRows : [x EXCEPT !.recent = no] \in CommentRows /\ [x EXCEPT !.recent = no].recent = no
      BY <1>3 DEF CommentRows
    <3> HIDE DEF o, new
    <3> QED BY <1>4, <3>1, <3>2, <3>3, <3>4
  <2> HIDE DEF new, o
  <2>4. \A r \in DOMAIN entries : new[r] \in T BY <2>1, <2>2, <2>3
  <2>5. new \in Seq(T)
    <3>1. new = [r \in 1 .. Len(entries) |-> new[r]] BY <1>4, <2>1 DEF new
    <3>2. Len(entries) \in Nat BY <1>4
    <3> QED BY <2>1, <2>4, <3>1, <3>2
  <2>6. ASSUME NEW i PROVE CountIn(new, i) <= CountIn(entries, i)
    <3>1. \A r \in DOMAIN new : new[r].ip = i /\ new[r].recent => entries[r].ip = i /\ entries[r].recent
      BY <1>3, <2>1, <2>3
    <3> QED BY <1>4, <2>1, <3>1, CountFacts
  <2> QED BY <2>5, <2>6 DEF new
<1> HIDE DEF aged
<1>5. TablesOK' BY <1>1, <1>2, <1>4 DEF TablesOK
<1>6. ServingOK' BY <1>1 DEF ServingOK
<1>7. ASSUME NEW k \in PostKinds, NEW i \in Ips PROVE CountSince(k, i)' <= CountSince(k, i)
  <2>1. CountIn(ideas', i) <= CountIn(ideas, i) /\ CountIn(comments', i) <= CountIn(comments, i)
    <3>1. CountIn(ideas, i) \in Nat /\ CountIn(comments, i) \in Nat BY <1>1, CountFacts DEF TablesOK
    <3>2. CASE ideas' = aged(ideas) /\ comments' = comments BY <1>1, <1>4, <3>1, <3>2 DEF TablesOK
    <3>3. CASE comments' = aged(comments) /\ ideas' = ideas BY <1>1, <1>4, <3>1, <3>3 DEF TablesOK
    <3> QED BY <1>2, <3>2, <3>3
  <2>2. CASE k = "idea"
    <3>1. CountSince(k, i) = CountIn(ideas, i) /\ CountSince(k, i)' = CountIn(ideas', i)
      BY <2>2 DEF CountSince, CountIn
    <3> QED BY <2>1, <3>1
  <2>3. CASE k # "idea"
    <3>1. CountSince(k, i) = CountIn(comments, i) /\ CountSince(k, i)' = CountIn(comments', i)
      BY <2>3 DEF CountSince, CountIn
    <3> QED BY <2>1, <3>1
  <2> QED BY <2>2, <2>3
<1>8. \A k, i : Writing(k, i)' \in SUBSET Writing(k, i) BY <1>1 DEF Writing
<1> QED BY <1>5, <1>6, <1>7, <1>8, QuotaKept

\* The page on an idea, or on none.
DetailRecords == [id : Nat, idea : Nat, loading : BOOLEAN, problem : {"no", "notFound", "error"}]
DetailOK == detail \in DetailRecords /\ (detail.id = 0 => detail = NoDetail)

\* Every step keeps the cap.
LEMMA QuotaStep == ASSUME QuotaInv, DetailOK, [IdeasNext]_ideasVars PROVE QuotaInv'
<1>0. ServingOK BY DEF QuotaInv
<1>a. MyIp \in Ips /\ Busy \subseteq Nat /\ 0 \in Nat /\ detail.idea \in Nat
  BY IdeasAssumption DEF DetailOK, DetailRecords
<1>b. "comment" \in PostKinds /\ "idea" \in PostKinds BY DEF PostKinds
<1>1. ASSUME NEW h \in Handlers, NEW blank \in BOOLEAN, Count(h, blank) PROVE QuotaInv' BY <1>1, CountQuota
<1>2. ASSUME NEW h \in Handlers, Create(h) PROVE QuotaInv' BY <1>2, CreateQuota
<1>3. ASSUME NEW h \in Handlers, QueryFails(h) PROVE QuotaInv'
  <2> DEFINE r == serving[h]
             x == IF r.heard THEN [r EXCEPT !.at = "refused"] ELSE Free
  <2>1. Reply(h, "refused") /\ UNCHANGED tables /\ r.at \in {"counting", "inserting"} BY <1>3 DEF QueryFails
  <2>2. ServiceAt(h, x) BY <1>0, <2>1, ReplyIs
  <2>3. r \in ServiceRecords
    <3>1. r.at # "free" BY <2>1
    <3> QED BY <1>0, <3>1, InService
  <2>4. "refused" \in Steps BY DEF Steps
  <2>5. x \in ServiceRecords \/ x = Free BY <2>3, <2>4, AtPut
  <2>6. x.at # "inserting"
    <3>1. CASE r.heard
      <4>1. x.at = "refused" BY <2>3, <2>4, <3>1, AtPut
      <4> QED BY <4>1
    <3>2. CASE ~r.heard BY <3>2, InService
    <3> QED BY <3>1, <3>2
  <2> HIDE DEF x
  <2>7. ServingOK' /\ serving'[h] = x /\ \A k \in Handlers : k # h => serving'[k] = serving[k]
    BY <1>0, <2>2, <2>5, ServiceAtIs
  <2> QED BY <2>1, <2>6, <2>7, ServedQuota
<1>4. ASSUME NEW h \in Handlers, NEW i \in Busy, NEW ip \in Ips, OthersPost(h, i, ip) PROVE QuotaInv'
  <2> DEFINE no == FALSE
             post == [kind |-> "comment", of |-> i, ip |-> ip, by |-> "other", row |-> 0]
  <2>1. no \in BOOLEAN /\ Admit(h, post, no) /\ UNCHANGED tables BY <1>4 DEF OthersPost
  <2>2. post \in PostRecords BY <1>a, <1>b DEF PostRecords
  <2> HIDE DEF no, post
  <2> QED BY <2>1, <2>2, AdmitQuota
<1>5. ASSUME NEW kind \in PostKinds, NEW ip \in Ips, Refill(kind, ip) PROVE QuotaInv'
  <2>1. UNCHANGED tables /\ serving' = serving BY <1>5 DEF Refill
  <2> QED BY <1>0, <2>1, ServedQuota DEF ServingOK
<1>6. ASSUME NEW kind \in PostKinds, NEW ip \in Ips, OldestAges(kind, ip) PROVE QuotaInv' BY <1>6, AgesQuota
<1>7. ASSUME ServerRestarts PROVE QuotaInv'
  <2>1. UNCHANGED tables BY <1>7 DEF ServerRestarts
  <2>2. ServingOK' BY <1>0, <1>7, RestartIs
  <2>3. \A h \in Handlers : serving'[h] = serving[h] \/ serving'[h].at # "inserting"
    BY <1>0, <1>7, RestartIs, InService
  <2> QED BY <2>1, <2>2, <2>3, ServedQuota
<1>8. ASSUME serving' = Unheard, UNCHANGED tables PROVE QuotaInv'
  <2>1. ServingOK' BY <1>0, <1>8, UnheardIs DEF ServingOK
  <2>2. \A h \in Handlers : \/ serving'[h].at # "inserting"
                            \/ serving[h].at = "inserting" /\ serving'[h].post = serving[h].post
    BY <1>0, <1>8, UnheardIs, InService
  <2> QED BY <1>8, <2>1, <2>2, ServedQuota
<1>9. ASSUME NEW i \in Busy, Moderate(i) PROVE QuotaInv'
  <2> DEFINE st == IF ideas[i].status = "public" THEN "hidden" ELSE "public"
  <2>1. /\ i \in DOMAIN ideas /\ ideas' = [ideas EXCEPT ![i].status = st] /\ comments' = comments
        /\ serving' = serving
    BY <1>9 DEF Moderate
  <2>2. st \in {"public", "pending", "hidden"} OBVIOUS
  <2> HIDE DEF st
  <2>3. TablesOK BY DEF QuotaInv
  <2>4. ideas[i] \in IdeaRows BY <2>1, <2>3 DEF TablesOK
  <2>5. /\ [ideas[i] EXCEPT !.status = st] \in IdeaRows
        /\ [ideas[i] EXCEPT !.status = st].ip = ideas[i].ip
        /\ [ideas[i] EXCEPT !.status = st].recent = ideas[i].recent
    BY <2>2, <2>4 DEF IdeaRows
  <2>6. ideas' = [ideas EXCEPT ![i] = [ideas[i] EXCEPT !.status = st]] BY <2>1
  <2>7. ideas' \in Seq(IdeaRows) BY <2>1, <2>3, <2>5, <2>6 DEF TablesOK
  <2>8. /\ DOMAIN ideas' = DOMAIN ideas /\ ideas'[i].ip = ideas[i].ip /\ ideas'[i].recent = ideas[i].recent
        /\ \A r \in DOMAIN ideas : r # i => ideas'[r] = ideas[r]
    BY <2>1, <2>5, <2>6
  <2>9. \A ip : CountIn(ideas', ip) <= CountIn(ideas, ip)
    <3> SUFFICES ASSUME NEW ip PROVE CountIn(ideas', ip) <= CountIn(ideas, ip) OBVIOUS
    <3>1. \A r \in DOMAIN ideas' : ideas'[r].ip = ip /\ ideas'[r].recent => ideas[r].ip = ip /\ ideas[r].recent
      BY <2>8
    <3> QED BY <2>3, <2>8, <3>1, CountFacts DEF TablesOK
  <2>10. TablesOK' BY <2>1, <2>3, <2>7 DEF TablesOK
  <2>11. ServingOK' BY <1>0, <2>1 DEF ServingOK
  <2>12. \A kind \in PostKinds, ip \in Ips : CountSince(kind, ip)' <= CountSince(kind, ip)
    <3> SUFFICES ASSUME NEW kind \in PostKinds, NEW ip \in Ips PROVE CountSince(kind, ip)' <= CountSince(kind, ip)
      OBVIOUS
    <3>1. CASE kind = "idea"
      <4>1. CountSince(kind, ip) = CountIn(ideas, ip) /\ CountSince(kind, ip)' = CountIn(ideas', ip)
        BY <3>1 DEF CountSince, CountIn
      <4> QED BY <2>9, <4>1
    <3>2. CASE kind # "idea"
      <4>1. CountSince(kind, ip) = CountIn(comments, ip) /\ CountSince(kind, ip)' = CountIn(comments', ip)
        BY <3>2 DEF CountSince, CountIn
      <4>2. CountIn(comments, ip) \in Nat BY <2>3, CountFacts DEF TablesOK
      <4> QED BY <2>1, <4>1, <4>2
    <3> QED BY <3>1, <3>2
  <2>13. \A k, p : Writing(k, p)' \in SUBSET Writing(k, p) BY <2>1 DEF Writing
  <2> QED BY <2>10, <2>11, <2>12, <2>13, QuotaKept
<1>10. ASSUME NEW h \in Handlers, NEW kind \in PostKinds, Post(h, kind) PROVE QuotaInv'
  <2> DEFINE yes == TRUE
             post == [kind |-> kind, of |-> detail.idea, ip |-> MyIp, by |-> "me", row |-> 0]
  <2>1. yes \in BOOLEAN /\ Admit(h, post, yes) /\ UNCHANGED tables BY <1>10 DEF Post
  <2>2. post \in PostRecords BY <1>a DEF PostRecords
  <2> HIDE DEF yes, post
  <2> QED BY <2>1, <2>2, AdmitQuota
<1>11. ASSUME NEW h \in Handlers, PostAnswered(h) \/ PostLost(h) PROVE QuotaInv'
  <2> DEFINE no == FALSE
             r == serving[h]
  <2>1. UNCHANGED tables /\ (ServiceAt(h, Free) \/ (ServiceAt(h, [r EXCEPT !.heard = no]) /\ r # Free))
    BY <1>0, <1>11 DEF PostAnswered, PostLost, ServiceAt, ServingOK
  <2>2. no \in BOOLEAN OBVIOUS
  <2> HIDE DEF no
  <2>3. CASE ServiceAt(h, Free)
    <3>1. ServingOK' /\ serving'[h] = Free /\ \A k \in Handlers : k # h => serving'[k] = serving[k]
      BY <1>0, <2>3, ServiceAtIs
    <3>2. serving'[h].at # "inserting" BY <3>1, InService
    <3> QED BY <2>1, <3>1, <3>2, ServedQuota
  <2>4. CASE ServiceAt(h, [r EXCEPT !.heard = no]) /\ r # Free
    <3>1. r \in ServiceRecords BY <1>0, <2>4, InService
    <3> DEFINE x == [r EXCEPT !.heard = no]
    <3>2. x \in ServiceRecords /\ x.at = r.at /\ x.post = r.post BY <2>2, <3>1, HeardPut
    <3> HIDE DEF x
    <3>3. ServingOK' /\ serving'[h] = x /\ \A k \in Handlers : k # h => serving'[k] = serving[k]
      BY <1>0, <2>4, <3>2, ServiceAtIs DEF x
    <3> QED BY <2>1, <3>2, <3>3, ServedQuota
  <2> QED BY <2>1, <2>3, <2>4
<1>12. ASSUME UNCHANGED <<tables, serving>> PROVE QuotaInv'
  <2>1. ServingOK' BY <1>0, <1>12 DEF ServingOK
  <2> QED BY <1>12, <2>1, ServedQuota
<1>13. ASSUME NEW i, Open(i) PROVE QuotaInv' BY <1>8, <1>13 DEF Open
<1>14. ASSUME Leave PROVE QuotaInv' BY <1>8, <1>14 DEF Leave
<1>15. ASSUME LoadMore \/ ListRead PROVE QuotaInv' BY <1>12, <1>15 DEF LoadMore, ListRead
<1>16. ASSUME NEW g \in calls, IdeaAnswered(g) \/ IdeaFails(g) PROVE QuotaInv'
  BY <1>12, <1>16 DEF IdeaAnswered, IdeaFails
<1>17. ASSUME NEW ok \in BOOLEAN, ListAnswered(ok) PROVE QuotaInv' BY <1>12, <1>17 DEF ListAnswered
<1>18. CASE UNCHANGED ideasVars BY <1>12, <1>18 DEF ideasVars
<1> QED
  BY <1>1, <1>2, <1>3, <1>4, <1>5, <1>6, <1>7, <1>9, <1>10, <1>11, <1>13, <1>14, <1>15, <1>16, <1>17, <1>18
  DEF IdeasNext

--------------------------------------------------------------------------------
(* The page *)

\* The thread of comments below it.
ItemRecords == [id : Nat, mine : BOOLEAN]
ListCalls == [at : {"none", "asked", "read"}, page : Nat, items : Seq(ItemRecords), total : Nat]
ThreadRecords == [items : Seq(ItemRecords), total : Nat, page : Nat, load : ListCalls, failed : BOOLEAN, before : Nat]
ThreadOK ==
  /\ thread \in ThreadRecords /\ thread.page >= 1
  /\ thread.load.at # "none" => thread.load.page >= 1

\* One call at most is listened to, and it is about the address of the page.
CallsOK == \A g \in calls : g \in [id : Nat \ {0}, live : BOOLEAN] /\ (g.live => g.id = detail.id /\ detail.loading)
AddressOK == ~detail.loading /\ detail.problem = "no" /\ detail.idea # 0 => detail.idea = detail.id

\* The page still listens for the answer of this request.
Followed(h) == serving[h] # Free /\ serving[h].heard
\* A comment is written, and the page does not know yet.
Pending(h) == serving[h].at = "ok" /\ serving[h].post.kind = "comment"

\* The page follows one request, while the visitor's post is on its way: an
\* answer has a listener, and a row that was written is in the table.
OwnOK ==
  /\ own = "sent" => ~detail.loading
  /\ \A h \in Handlers : Followed(h) =>
       own = "sent" /\ serving[h].post.by = "me" /\ serving[h].post.of = detail.idea
  /\ \A h, k \in Handlers : Followed(h) /\ Followed(k) => h = k
  /\ \A h \in Handlers : HasAnswer(h) => Followed(h)
  /\ \A h \in Handlers : Pending(h) =>
       /\ serving[h].post.row \in DOMAIN comments
       /\ comments[serving[h].post.row].of = serving[h].post.of
       /\ comments[serving[h].post.row].by = serving[h].post.by

\* Items that are comments of the idea, with the mark of their author.
Real(items) ==
  \A k \in DOMAIN items :
    /\ items[k].id \in DOMAIN comments /\ comments[items[k].id].of = detail.idea
    /\ items[k].mine <=> comments[items[k].id].by = "me"
RealOK == Real(thread.items) /\ Real(thread.load.items)

\* An idea's comments: those the page cannot know yet, and those it was told.
OfIdea(i) == {c \in DOMAIN comments : comments[c].of = i}
Unshown == {serving[h].post.row : h \in {k \in Handlers : Pending(k)}}
Heard == OfIdea(detail.idea) \ Unshown

\* The comments a list shows.
IdsOf(items) == {items[k].id : k \in DOMAIN items}

\* The places up to which the pages have come.
Arrived(th) == IF th.load.at # "none" /\ th.load.page = 1 THEN 0 ELSE th.page * PageSize

\* Of the comments told, those up to the place the pages have come to are
\* shown, and those behind the n that were there first; while the pages have
\* not come to n, nothing is shown twice.
Covers(T, th, n) ==
  /\ \A c \in T : Rank(T, c) <= Arrived(th) \/ Rank(T, c) > n => c \in IdsOf(th.items)
  /\ Arrived(th) < n => Len(th.items) = Arrived(th) + Cardinality(T) - n

\* A page read has what is at its places, and is full if it has them all.
PageRead(T, l) ==
  /\ l.total = Cardinality(T)
  /\ \A c \in T : (l.page - 1) * PageSize < Rank(T, c) /\ Rank(T, c) <= l.page * PageSize => c \in IdsOf(l.items)
  /\ l.page * PageSize <= Cardinality(T) => Len(l.items) = PageSize

\* A thread counts what it was told, asks for its pages one by one, and shows
\* what Covers says; what it was not told is newer than all of that.
Whole(T, U, th, o) ==
  /\ th.total = Cardinality(T)
  /\ th.load.at # "none" => th.load.page = 1 \/ th.load.page = th.page + 1
  /\ o = "sent" => th.load.at = "none" /\ th.before = th.total
  /\ \A c \in U, d \in T : d < c
  /\ th.load.at = "read" => PageRead(T, th.load)
  /\ \E n \in 0 .. Cardinality(T) : Covers(T, th, n)
WholeOK == Showing /\ ~crossed => Whole(Heard, Unshown, thread, own)

\* The inductive invariant.
ThreadInv == DetailOK /\ ThreadOK /\ CallsOK /\ AddressOK /\ OwnOK /\ RealOK /\ WholeOK
IdeasInv == QuotaInv /\ ThreadInv

\* An idea's comments in order are its comments.
LEMMA OfIdeaIs ==
  ASSUME TablesOK, NEW i
  PROVE  /\ OfIdea(i) \in SUBSET Int /\ IsFiniteSet(OfIdea(i)) /\ Cardinality(OfIdea(i)) \in Nat
         /\ \A c \in OfIdea(i) : c \in Nat /\ c >= 1 /\ c <= Len(comments)
         /\ CommentsOf(i) \in Seq(OfIdea(i)) /\ Len(CommentsOf(i)) = Cardinality(OfIdea(i))
         /\ ToSet(CommentsOf(i)) = OfIdea(i)
<1>1. DOMAIN comments = 1 .. Len(comments) /\ Len(comments) \in Nat BY DEF TablesOK
<1>2. OfIdea(i) \in SUBSET (1 .. Len(comments)) BY <1>1 DEF OfIdea
<1>a. IsFiniteSet(1 .. Len(comments)) BY <1>1, FS_Interval
<1>b. IsFiniteSet(OfIdea(i)) BY <1>2, <1>a, FS_Subset
<1>3. OfIdea(i) \in SUBSET Int /\ IsFiniteSet(OfIdea(i)) /\ Cardinality(OfIdea(i)) \in Nat
  BY <1>2, <1>b, FS_CardinalityType
<1>4. CommentsOf(i) = InOrder(OfIdea(i)) BY DEF CommentsOf, OfIdea
<1> DEFINE S == OfIdea(i)
           all == InOrder(S)
<1> HIDE DEF S, all
<1>5. /\ all \in Seq(S) /\ Len(all) = Cardinality(S) /\ \A n \in S : all[Rank(S, n)] = n
      /\ \A n \in S : Rank(S, n) \in 1 .. Cardinality(S)
  BY <1>3, InOrderIs, RankFacts DEF S, all
<1>6. ToSet(all) = S
  <2>1. DOMAIN all = 1 .. Cardinality(S) BY <1>5
  <2>2. \A n \in S : n \in ToSet(all) BY <1>5, <2>1 DEF ToSet
  <2>3. \A n \in ToSet(all) : n \in S BY <1>5 DEF ToSet
  <2> QED BY <2>2, <2>3
<1> QED BY <1>1, <1>2, <1>3, <1>4, <1>5, <1>6 DEF S, all

\* What was told are comments of the idea shown.
LEMMA ToldIs ==
  ASSUME TablesOK
  PROVE  Heard \in SUBSET Int /\ IsFiniteSet(Heard) /\ Cardinality(Heard) \in Nat /\ Heard \in SUBSET OfIdea(detail.idea)
<1>1. OfIdea(detail.idea) \in SUBSET Int /\ IsFiniteSet(OfIdea(detail.idea)) BY OfIdeaIs
<1>2. Heard \in SUBSET OfIdea(detail.idea) BY DEF Heard
<1> QED BY <1>1, <1>2, FS_Subset, FS_CardinalityType

\* A thread that offers no more shows all that was told.
LEMMA AllShown ==
  ASSUME IdeasInv PROVE ThreadIsTrue
<1>1. AddressedIdea BY DEF IdeasInv, ThreadInv, AddressOK, AddressedIdea, Showing
<1>2. ItemsAreReal BY DEF IdeasInv, ThreadInv, RealOK, Real, ItemsAreReal
<1>3. NothingHidden
  <2> SUFFICES ASSUME Showing, ~CanLoadMore, thread.load.at = "none", own # "sent", ~crossed
               PROVE  IdsOf(thread.items) = ToSet(CommentsOf(detail.idea))
    BY DEF NothingHidden, IdsOf
  <2>1. TablesOK BY DEF IdeasInv, QuotaInv
  <2>2. Whole(Heard, Unshown, thread, own) BY DEF IdeasInv, ThreadInv, WholeOK
  <2>3. Unshown = {}
    <3>1. \A h \in Handlers : ~Pending(h)
      <4> SUFFICES ASSUME NEW h \in Handlers, Pending(h) PROVE FALSE OBVIOUS
      <4>1. HasAnswer(h) BY DEF Pending, HasAnswer
      <4> QED BY <4>1 DEF IdeasInv, ThreadInv, OwnOK
    <3> QED BY <3>1 DEF Unshown
  <2>4. PICK T : T = Heard OBVIOUS
  <2>5. T = ToSet(CommentsOf(detail.idea)) BY <2>1, <2>3, <2>4, OfIdeaIs DEF Heard
  <2>6. T \in SUBSET Int /\ IsFiniteSet(T) /\ Cardinality(T) \in Nat BY <2>1, <2>4, ToldIs
  <2>7. \A c \in T : Rank(T, c) \in 1 .. Cardinality(T) BY <2>6, RankFacts
  <2>8. PICK n \in 0 .. Cardinality(T) : Covers(T, thread, n) BY <2>2, <2>4 DEF Whole
  <2>9. thread.total = Cardinality(T) BY <2>2, <2>4 DEF Whole
  <2>10. Len(thread.items) \in Nat /\ thread.page \in Nat BY DEF IdeasInv, ThreadInv, ThreadOK, ThreadRecords
  <2>11. Len(thread.items) >= Cardinality(T) BY <2>6, <2>9, <2>10 DEF CanLoadMore
  <2>12. PICK a : a = Arrived(thread) OBVIOUS
  <2>13. a \in Nat
    <3>1. PageSize \in Nat BY IdeasAssumption
    <3>2. thread.page * PageSize \in Nat BY <2>10, <3>1
    <3> QED BY <2>12, <3>2 DEF Arrived
  <2>14. a >= n BY <2>6, <2>8, <2>10, <2>11, <2>12, <2>13 DEF Covers
  <2>15. \A c \in T : c \in IdsOf(thread.items) BY <2>7, <2>8, <2>12, <2>13, <2>14 DEF Covers
  <2>16. \A c \in IdsOf(thread.items) : c \in T
    <3>1. \A c \in IdsOf(thread.items) : c \in OfIdea(detail.idea)
      BY DEF IdeasInv, ThreadInv, RealOK, Real, IdsOf, OfIdea
    <3> QED BY <2>3, <2>4, <3>1 DEF Heard
  <2> QED BY <2>5, <2>15, <2>16
<1> QED BY <1>1, <1>2, <1>3 DEF ThreadIsTrue

--------------------------------------------------------------------------------
(* What a page adds *)

\* A thread before its first page, and a page asked for.
LEMMA NoLoadIs ==
  /\ NoLoad \in ListCalls /\ NoLoad.at = "none" /\ NoLoad.items = <<>>
  /\ \A p \in Nat : LET l == [NoLoad EXCEPT !.at = "asked", !.page = p] IN
                    l \in ListCalls /\ l.at = "asked" /\ l.page = p /\ l.items = <<>>
  /\ NoThread \in ThreadRecords /\ NoThread.items = <<>> /\ NoThread.load = NoLoad /\ NoThread.page = 1
<1> DEFINE nil == <<>>
           no == FALSE
           l0 == [at |-> "none", page |-> 0, items |-> nil, total |-> 0]
<1>1. nil \in Seq(ItemRecords) /\ no \in BOOLEAN OBVIOUS
<1>2. NoLoad = l0 BY DEF NoLoad
<1>3. NoThread = [items |-> nil, total |-> 0, page |-> 1, load |-> NoLoad, failed |-> no, before |-> 0]
  BY DEF NoThread
<1>4. nil = <<>> OBVIOUS
<1> HIDE DEF nil, no
<1>5. NoLoad \in ListCalls /\ NoLoad.at = "none" /\ NoLoad.items = nil BY <1>1, <1>2 DEF ListCalls
<1>6. \A p \in Nat : LET l == [NoLoad EXCEPT !.at = "asked", !.page = p] IN
                     l \in ListCalls /\ l.at = "asked" /\ l.page = p /\ l.items = nil
  BY <1>1, <1>2 DEF ListCalls
<1>7. NoThread \in ThreadRecords /\ NoThread.items = nil /\ NoThread.load = NoLoad /\ NoThread.page = 1
  BY <1>1, <1>3, <1>5 DEF ThreadRecords
<1> QED BY <1>4, <1>5, <1>6, <1>7

\* A thread just mounted is empty, and asks for its first page.
LEMMA MountedIs ==
  ASSUME TablesOK, NEW i
  PROVE  LET t == Mounted(i) IN
         /\ t \in ThreadRecords /\ t.items = <<>> /\ t.page = 1 /\ t.total = Cardinality(OfIdea(i))
         /\ t.load.at = "asked" /\ t.load.page = 1 /\ t.load.items = <<>>
<1> DEFINE n == Len(CommentsOf(i))
           l == [NoLoad EXCEPT !.at = "asked", !.page = 1]
           a == NoThread
<1>1. n \in Nat /\ n = Cardinality(OfIdea(i)) BY OfIdeaIs
<1>2. l \in ListCalls /\ l.at = "asked" /\ l.page = 1 /\ l.items = <<>> BY NoLoadIs
<1>3. a \in ThreadRecords /\ a.items = <<>> /\ a.page = 1 BY NoLoadIs
<1>4. Mounted(i) = [a EXCEPT !.total = n, !.load = l] BY DEF Mounted
<1> HIDE DEF n, l, a
<1>5. LET x == [a EXCEPT !.total = n, !.load = l] IN
      x \in ThreadRecords /\ x.items = a.items /\ x.page = a.page /\ x.total = n /\ x.load = l
  BY <1>1, <1>2, <1>3 DEF ThreadRecords
<1> QED BY <1>1, <1>2, <1>3, <1>4, <1>5

\* A page of an idea's comments has what is at its places.
LEMMA ListIs ==
  ASSUME TablesOK, NEW i, NEW page \in Nat \ {0}
  PROVE  LET S == OfIdea(i) l == ListByIdea(i, page) IN
         /\ l.total = Cardinality(S) /\ l.total \in Nat /\ l.items \in Seq(ItemRecords)
         /\ \A k \in DOMAIN l.items : l.items[k].id \in S /\ (l.items[k].mine <=> comments[l.items[k].id].by = "me")
         /\ \A c \in S : (page - 1) * PageSize < Rank(S, c) /\ Rank(S, c) <= page * PageSize => c \in IdsOf(l.items)
         /\ page * PageSize <= Cardinality(S) => Len(l.items) = PageSize
<1> DEFINE S == OfIdea(i)
           C == Cardinality(S)
           all == CommentsOf(i)
           from == (page - 1) * PageSize
           n == IF Len(all) <= from THEN 0 ELSE IF Len(all) - from < PageSize THEN Len(all) - from ELSE PageSize
           row(k) == [id |-> all[from + k], mine |-> comments[all[from + k]].by = "me"]
           items == [k \in 1 .. n |-> row(k)]
<1>1. ListByIdea(i, page) = [total |-> Len(all), items |-> items] BY DEF ListByIdea
<1>2. /\ S \in SUBSET Int /\ IsFiniteSet(S) /\ C \in Nat /\ \A c \in S : c \in Nat
      /\ \A c \in S : c \in DOMAIN comments
  BY OfIdeaIs DEF OfIdea
<1>3. all = InOrder(S) BY DEF CommentsOf, OfIdea
<1>4. /\ Len(all) = C /\ \A k \in 1 .. C : all[k] \in S
      /\ \A c \in S : all[Rank(S, c)] = c /\ Rank(S, c) \in 1 .. C
  BY <1>2, <1>3, InOrderIs, RankFacts
<1>5. PageSize \in Nat /\ PageSize > 0 BY IdeasAssumption
<1>6. from \in Nat /\ page * PageSize = from + PageSize
  <2>1. page - 1 \in Nat OBVIOUS
  <2>2. (page - 1) * PageSize \in Nat BY <1>5, <2>1
  <2>3. page * PageSize = (page - 1) * PageSize + PageSize BY <1>5
  <2> QED BY <2>2, <2>3
<1> HIDE DEF S, C, all, from
<1>7. n \in Nat /\ n <= PageSize /\ (n = 0 \/ from + n <= C) /\ (from + PageSize <= C => n = PageSize)
      /\ \A k \in Nat : from < k /\ k <= C /\ k <= from + PageSize => k - from \in 1 .. n
  BY <1>2, <1>4, <1>5, <1>6
<1> HIDE DEF n
<1>8. \A k \in 1 .. n : from + k \in 1 .. C BY <1>2, <1>6, <1>7
<1>9. \A k \in 1 .. n : /\ row(k) \in ItemRecords /\ row(k).id = all[from + k] /\ row(k).id \in S
                        /\ row(k).mine <=> comments[row(k).id].by = "me"
  BY <1>2, <1>4, <1>8 DEF ItemRecords
<1> HIDE DEF row
<1>10. items \in Seq(ItemRecords) /\ Len(items) = n /\ DOMAIN items = 1 .. n /\ \A k \in 1 .. n : items[k] = row(k)
  BY <1>7, <1>9
<1> HIDE DEF items
<1>11. ASSUME NEW c \in S, from < Rank(S, c), Rank(S, c) <= page * PageSize PROVE c \in IdsOf(items)
  <2> DEFINE k == Rank(S, c) - from
  <2>1. Rank(S, c) \in Nat /\ Rank(S, c) <= C BY <1>2, <1>4
  <2>2. k \in 1 .. n /\ from + k = Rank(S, c) BY <1>6, <1>7, <1>11, <2>1
  <2>3. items[k].id = c BY <1>4, <1>9, <1>10, <2>2
  <2> QED BY <1>10, <2>2, <2>3 DEF IdsOf
<1>12. page * PageSize <= C => Len(items) = PageSize BY <1>6, <1>7, <1>10
<1>13. \A k \in DOMAIN items : items[k].id \in S /\ (items[k].mine <=> comments[items[k].id].by = "me")
  BY <1>9, <1>10
<1>14. ListByIdea(i, page).total = C /\ ListByIdea(i, page).items = items BY <1>1, <1>4
<1> QED BY <1>2, <1>10, <1>11, <1>12, <1>13, <1>14 DEF S, C, from

\* What two lists show together.
LEMMA IdsOfJoined ==
  ASSUME NEW a \in Seq(ItemRecords), NEW b \in Seq(ItemRecords)
  PROVE  /\ IdsOf(a \o b) = IdsOf(a) \cup IdsOf(b) /\ Len(a \o b) = Len(a) + Len(b)
         /\ a \o b \in Seq(ItemRecords)
<1> DEFINE ab == a \o b
<1>1. /\ DOMAIN a = 1 .. Len(a) /\ DOMAIN b = 1 .. Len(b) /\ Len(a) \in Nat /\ Len(b) \in Nat
      /\ ab \in Seq(ItemRecords) /\ Len(ab) = Len(a) + Len(b) /\ DOMAIN ab = 1 .. Len(ab)
      /\ \A k \in 1 .. Len(ab) : ab[k] = IF k <= Len(a) THEN a[k] ELSE b[k - Len(a)]
  OBVIOUS
<1> HIDE DEF ab
<1>2. \A k \in DOMAIN a : k \in DOMAIN ab /\ ab[k] = a[k] BY <1>1
<1>3. \A k \in DOMAIN b : Len(a) + k \in DOMAIN ab /\ ab[Len(a) + k] = b[k]
  <2> SUFFICES ASSUME NEW k \in DOMAIN b PROVE Len(a) + k \in DOMAIN ab /\ ab[Len(a) + k] = b[k] OBVIOUS
  <2>1. k \in Nat /\ k >= 1 /\ k <= Len(b) BY <1>1
  <2>2. Len(a) + k \in 1 .. Len(ab) /\ ~(Len(a) + k <= Len(a)) /\ (Len(a) + k) - Len(a) = k BY <1>1, <2>1
  <2> QED BY <1>1, <2>2
<1>4. \A k \in DOMAIN ab : (k \in DOMAIN a /\ ab[k] = a[k]) \/ (k - Len(a) \in DOMAIN b /\ ab[k] = b[k - Len(a)])
  <2> SUFFICES ASSUME NEW k \in DOMAIN ab
               PROVE  (k \in DOMAIN a /\ ab[k] = a[k]) \/ (k - Len(a) \in DOMAIN b /\ ab[k] = b[k - Len(a)])
    OBVIOUS
  <2>1. CASE k <= Len(a) BY <1>1, <2>1
  <2>2. CASE ~(k <= Len(a)) BY <1>1, <2>2
  <2> QED BY <2>1, <2>2
<1>5. \A x \in IdsOf(ab) : x \in IdsOf(a) \cup IdsOf(b) BY <1>4 DEF IdsOf
<1>6. \A x \in IdsOf(a) : x \in IdsOf(ab) BY <1>2 DEF IdsOf
<1>7. \A x \in IdsOf(b) : x \in IdsOf(ab) BY <1>3 DEF IdsOf
<1> QED BY <1>1, <1>5, <1>6, <1>7 DEF ab

\* The places of a page and of the one behind it.
LEMMA PageProducts ==
  ASSUME NEW p \in Nat
  PROVE  /\ PageSize \in Nat /\ PageSize > 0 /\ p * PageSize \in Nat
         /\ (p + 1) * PageSize = p * PageSize + PageSize /\ 1 * PageSize = PageSize
         /\ (1 - 1) * PageSize = 0
<1>1. PageSize \in Nat /\ PageSize > 0 BY IdeasAssumption
<1> QED BY <1>1

\* The first page replaces, a later one is appended.
LEMMA WholeLoaded ==
  ASSUME NEW T \in SUBSET Int, IsFiniteSet(T), NEW U, NEW th \in ThreadRecords, NEW o, NEW x \in ThreadRecords,
         Whole(T, U, th, o), th.load.at = "read", th.load.page \in Nat, th.page \in Nat,
         x.load.at = "none", x.total = th.load.total, x.page = th.load.page,
         x.items = IF th.load.page = 1 THEN th.load.items ELSE th.items \o th.load.items
  PROVE  Whole(T, U, x, o)
<1> DEFINE C == Cardinality(T)
           l == th.load
           a == Arrived(th)
           b == Arrived(x)
<1>1. C \in Nat /\ \A c \in T : Rank(T, c) \in 1 .. C BY FS_CardinalityType, RankFacts
<1>2. PageRead(T, l) /\ o # "sent" /\ x.total = C BY DEF Whole, PageRead
<1>3. b = l.page * PageSize BY DEF Arrived
<1>4. PageSize \in Nat /\ PageSize > 0 /\ l.page * PageSize \in Nat /\ b \in Nat BY <1>3, PageProducts
<1>5. th.items \in Seq(ItemRecords) /\ l.items \in Seq(ItemRecords) /\ Len(l.items) \in Nat /\ Len(th.items) \in Nat
  BY DEF ThreadRecords, ListCalls
<1>6. \E n \in 0 .. C : Covers(T, x, n)
  <2>1. CASE l.page = 1
    <3>1. b = PageSize /\ (l.page - 1) * PageSize = 0 /\ l.page * PageSize = PageSize
      BY <1>3, <1>4, <2>1, PageProducts
    <3>2. \A c \in T : Rank(T, c) <= b => c \in IdsOf(x.items)
      BY <1>1, <1>2, <2>1, <3>1 DEF PageRead
    <3>3. b < C => Len(x.items) = b BY <1>1, <1>2, <1>4, <2>1, <3>1 DEF PageRead
    <3>4. \A c \in T : ~(Rank(T, c) > C) BY <1>1
    <3>5. Covers(T, x, C)
      <4> HIDE DEF C, b
      <4>a. \A y, z \in Nat : y + z - z = y OBVIOUS
      <4>b. b + C - C = b BY <1>1, <1>4, <4>a
      <4>1. b < C => Len(x.items) = b + C - C BY <3>3, <4>b
      <4> QED BY <3>2, <3>4, <4>1 DEF Covers, b, C
    <3> QED BY <1>1, <3>5
  <2>2. CASE l.page # 1
    <3>1. l.page = th.page + 1 BY <2>2 DEF Whole
    <3>2. a = th.page * PageSize BY <2>2 DEF Arrived
    <3>3. a \in Nat /\ b = a + PageSize /\ (l.page - 1) * PageSize = a
      <4>1. l.page - 1 = th.page BY <3>1
      <4> QED BY <1>3, <3>1, <3>2, <4>1, PageProducts
    <3>4. PICK n \in 0 .. C : Covers(T, th, n) BY DEF Whole
    <3>5. IdsOf(x.items) = IdsOf(th.items) \cup IdsOf(l.items) /\ Len(x.items) = Len(th.items) + Len(l.items)
      BY <1>5, <2>2, IdsOfJoined
    <3>6. \A c \in T : Rank(T, c) <= b \/ Rank(T, c) > n => c \in IdsOf(x.items)
      <4> SUFFICES ASSUME NEW c \in T, Rank(T, c) <= b \/ Rank(T, c) > n PROVE c \in IdsOf(x.items) OBVIOUS
      <4>1. Rank(T, c) \in Nat BY <1>1
      <4>2. CASE Rank(T, c) <= a \/ Rank(T, c) > n BY <3>4, <3>5, <4>2 DEF Covers
      <4>3. CASE a < Rank(T, c) /\ Rank(T, c) <= b BY <1>2, <1>3, <3>3, <3>5, <4>3 DEF PageRead
      <4> QED BY <1>1, <1>4, <3>3, <4>1, <4>2, <4>3
    <3>7. b < n => Len(x.items) = b + C - n
      <4> SUFFICES ASSUME b < n PROVE Len(x.items) = b + C - n OBVIOUS
      <4> HIDE DEF a, b, C
      <4>1. a < n /\ b <= C BY <1>1, <1>4, <3>3
      <4>2. Len(th.items) = a + C - n BY <3>4, <4>1 DEF Covers, a, C
      <4>3. Len(l.items) = PageSize BY <1>2, <1>3, <4>1 DEF PageRead, b, C
      <4>4. \A y, z, p, m \in Nat : (y + z - m) + p = (y + p) + z - m OBVIOUS
      <4>5. a \in Nat /\ C \in Nat /\ n \in Nat /\ PageSize \in Nat BY <1>1, <1>4, <3>3
      <4>6. Len(x.items) = (a + C - n) + PageSize BY <3>5, <4>2, <4>3
      <4>7. (a + C - n) + PageSize = (a + PageSize) + C - n BY <4>4, <4>5
      <4>8. b = a + PageSize BY <3>3
      <4> QED BY <4>6, <4>7, <4>8
    <3> QED BY <3>6, <3>7 DEF Covers
  <2> QED BY <2>1, <2>2
<1>7. \A c \in U, d \in T : d < c BY DEF Whole
<1> QED BY <1>2, <1>6, <1>7 DEF Whole

\* A comment of the visitor's own is the newest.
LEMMA WholeAppended ==
  ASSUME NEW T \in SUBSET Int, IsFiniteSet(T), NEW c \in Int, \A d \in T : d < c,
         NEW th \in ThreadRecords, NEW x \in ThreadRecords, NEW item \in ItemRecords, item.id = c, NEW U, NEW o,
         Whole(T, U, th, "sent"), o # "sent",
         x.items = Append(th.items, item), x.load = th.load, x.page = th.page, x.total = th.before + 1
  PROVE  Whole(T \cup {c}, {}, x, o)
<1> DEFINE C == Cardinality(T)
           D == T \cup {c}
           a == Arrived(th)
<1>1. C \in Nat /\ \A d \in T : Rank(T, d) \in 1 .. C BY FS_CardinalityType, RankFacts
<1>2. c \notin T
  <2> SUFFICES ASSUME c \in T PROVE FALSE OBVIOUS
  <2>1. c < c OBVIOUS
  <2> QED BY <2>1
<1>3. IsFiniteSet(D) /\ Cardinality(D) = C + 1 BY <1>1, <1>2, FS_AddElement
<1>4. \A d \in T : Rank(D, d) = Rank(T, d)
  <2> SUFFICES ASSUME NEW d \in T PROVE Rank(D, d) = Rank(T, d) OBVIOUS
  <2>1. d \in Int /\ d < c OBVIOUS
  <2>2. ~(c <= d) BY <2>1
  <2>3. {m \in D : m <= d} = {m \in T : m <= d} BY <2>2
  <2> QED BY <2>3 DEF Rank
<1>5. Rank(D, c) = C + 1
  <2>1. \A m \in D : m <= c
    <3>1. \A m \in T : m \in Int /\ m < c OBVIOUS
    <3>2. \A m \in T : m <= c BY <3>1
    <3>3. c <= c OBVIOUS
    <3> QED BY <3>2, <3>3
  <2>2. {m \in D : m <= c} = D BY <2>1
  <2> QED BY <1>3, <2>2 DEF Rank
<1>6. th.load.at = "none" /\ th.before = C BY DEF Whole
<1>7. x.total = C + 1 BY <1>6
<1>8. Arrived(x) = a BY DEF Arrived
<1>9. a \in Nat
  <2>1. th.page \in Nat BY DEF ThreadRecords
  <2>2. a = th.page * PageSize BY <1>6 DEF Arrived
  <2> QED BY <2>1, <2>2, PageProducts
<1>10. PICK n \in 0 .. C : Covers(T, th, n) BY DEF Whole
<1>11. th.items \in Seq(ItemRecords) /\ Len(th.items) \in Nat BY DEF ThreadRecords
<1>12. Len(x.items) = Len(th.items) + 1 BY <1>11
<1>13. \A d \in IdsOf(th.items) : d \in IdsOf(x.items)
  <2>1. \A k \in DOMAIN th.items : k \in DOMAIN x.items /\ x.items[k] = th.items[k] BY <1>11
  <2> QED BY <2>1 DEF IdsOf
<1>14. c \in IdsOf(x.items)
  <2>1. Len(th.items) + 1 \in DOMAIN x.items /\ x.items[Len(th.items) + 1] = item BY <1>11
  <2> QED BY <2>1 DEF IdsOf
<1>15. Covers(D, x, n)
  <2>1. \A d \in D : Rank(D, d) <= a \/ Rank(D, d) > n => d \in IdsOf(x.items)
    <3>1. \A d \in T : Rank(T, d) <= a \/ Rank(T, d) > n => d \in IdsOf(x.items) BY <1>10, <1>13 DEF Covers
    <3> QED BY <1>4, <1>14, <3>1
  <2>2. a < n => Len(x.items) = a + (C + 1) - n
    <3> SUFFICES ASSUME a < n PROVE Len(x.items) = a + (C + 1) - n OBVIOUS
    <3> HIDE DEF a, C
    <3>1. Len(th.items) = a + C - n BY <1>10 DEF Covers, a, C
    <3> QED BY <1>1, <1>9, <1>12, <3>1
  <2> QED BY <1>3, <1>8, <2>1, <2>2 DEF Covers
<1>16. n \in 0 .. Cardinality(D) BY <1>1, <1>3
<1> QED BY <1>3, <1>6, <1>7, <1>15, <1>16 DEF Whole

--------------------------------------------------------------------------------
(* The server's steps, as the page sees them *)

\* Nothing that the page shows or listens to changes.
LEMMA ServerStays ==
  ASSUME IdeasInv, UNCHANGED <<board, own, crossed>>, DOMAIN comments' = DOMAIN comments,
         \A c \in DOMAIN comments : comments'[c].of = comments[c].of /\ comments'[c].by = comments[c].by,
         \A h \in Handlers :
           \/ serving'[h] = serving[h]
           \/ /\ ~Pending(h) /\ ~Pending(h)'
              /\ Followed(h)' => /\ Followed(h) /\ serving'[h].post.by = serving[h].post.by
                                 /\ serving'[h].post.of = serving[h].post.of
              /\ HasAnswer(h)' => Followed(h)'
  PROVE  ThreadInv'
<1>1. DetailOK' /\ ThreadOK' /\ CallsOK' /\ AddressOK'
  BY DEF IdeasInv, ThreadInv, DetailOK, ThreadOK, CallsOK, AddressOK, board
<1>2. UNCHANGED <<detail, thread, calls, own, crossed>> BY DEF board
<1>3. \A h \in Handlers :
        /\ Followed(h)' => /\ Followed(h) /\ serving'[h].post.by = serving[h].post.by
                           /\ serving'[h].post.of = serving[h].post.of
        /\ HasAnswer(h)' => Followed(h)' \/ (HasAnswer(h) /\ serving'[h] = serving[h])
        /\ Pending(h)' <=> Pending(h)
        /\ Pending(h) => serving'[h] = serving[h]
  BY DEF Followed, Pending, HasAnswer
<1>4. OwnOK'
  <2>1. \A h \in Handlers : Followed(h)' =>
          own' = "sent" /\ serving'[h].post.by = "me" /\ serving'[h].post.of = detail'.idea
    BY <1>2, <1>3 DEF IdeasInv, ThreadInv, OwnOK
  <2>2. \A h, k \in Handlers : Followed(h)' /\ Followed(k)' => h = k
    BY <1>3 DEF IdeasInv, ThreadInv, OwnOK
  <2>3. \A h \in Handlers : HasAnswer(h)' => Followed(h)'
    <3> SUFFICES ASSUME NEW h \in Handlers, HasAnswer(h), serving'[h] = serving[h] PROVE Followed(h)'
      BY <1>3
    <3>1. Followed(h) BY DEF IdeasInv, ThreadInv, OwnOK
    <3> QED BY <3>1 DEF Followed
  <2>4. \A h \in Handlers : Pending(h)' =>
          /\ serving'[h].post.row \in DOMAIN comments'
          /\ comments'[serving'[h].post.row].of = serving'[h].post.of
          /\ comments'[serving'[h].post.row].by = serving'[h].post.by
    BY <1>3 DEF IdeasInv, ThreadInv, OwnOK
  <2>5. own' = "sent" => ~detail'.loading BY <1>2 DEF IdeasInv, ThreadInv, OwnOK
  <2> QED BY <2>1, <2>2, <2>3, <2>4, <2>5 DEF OwnOK
<1>5. RealOK'
  <2>1. RealOK BY DEF IdeasInv, ThreadInv
  <2> QED BY <1>2, <2>1 DEF RealOK, Real
<1>6. Unshown' = Unshown
  <2>1. \A h \in Handlers : Pending(h) => serving'[h].post.row = serving[h].post.row BY <1>3
  <2>2. \A x \in Unshown' : x \in Unshown BY <1>3, <2>1 DEF Unshown
  <2>3. \A x \in Unshown : x \in Unshown' BY <1>3, <2>1 DEF Unshown
  <2> QED BY <2>2, <2>3
<1>7. Heard' = Heard BY <1>2, <1>6 DEF Heard, OfIdea
<1>8. WholeOK'
  <2>1. WholeOK BY DEF IdeasInv, ThreadInv
  <2> QED BY <1>2, <1>6, <1>7, <2>1 DEF WholeOK, Showing
<1> QED BY <1>1, <1>4, <1>5, <1>8 DEF ThreadInv

\* The row of a comment nobody follows, or of another idea, is not one the
\* page counts; one's own is, once the page is told.
LEMMA CreateThread == ASSUME IdeasInv, NEW h \in Handlers, Create(h) PROVE ThreadInv'
<1> DEFINE r == serving[h]
           post == r.post
           n == Len(comments) + 1
           done == [r EXCEPT !.at = "ok", !.post.row = n]
           comment == [of |-> post.of, by |-> post.by, ip |-> post.ip, recent |-> TRUE]
<1>1. TablesOK /\ ServingOK BY DEF IdeasInv, QuotaInv
<1>2. /\ r.at = "inserting" /\ UNCHANGED <<detail, thread, calls, own>>
      /\ IF post.kind = "idea" THEN comments' = comments /\ crossed' = crossed
         ELSE comments' = Append(comments, comment) /\ crossed' = (crossed \/ Unfollowed(h, post))
      /\ ServiceAt(h, IF r.heard THEN done ELSE Free)
  BY <1>1 DEF Create, ServiceAt, ServingOK, board
<1>3. r # Free /\ r \in ServiceRecords
  <2>1. r.at # "free" BY <1>2
  <2> QED BY <1>1, <2>1, InService
<1>4. n \in Nat /\ "ok" \in Steps BY <1>1 DEF TablesOK, Steps
<1>5. /\ done \in ServiceRecords /\ done.at = "ok" /\ done.heard = r.heard /\ done.post.row = n
      /\ done.post.kind = post.kind /\ done.post.of = post.of /\ done.post.by = post.by
  <2> DEFINE ok == "ok"
  <2>1. r \in ServiceRecords /\ ok \in Steps /\ n \in Nat BY <1>3, <1>4
  <2>2. done = [r EXCEPT !.at = ok, !.post.row = n] OBVIOUS
  <2>3. ok = "ok" OBVIOUS
  <2> HIDE DEF r, ok, n, done
  <2>4. LET x == [r EXCEPT !.at = ok, !.post.row = n] IN
        /\ x \in ServiceRecords /\ x.at = ok /\ x.heard = r.heard /\ x.post.row = n
        /\ x.post.kind = r.post.kind /\ x.post.of = r.post.of /\ x.post.by = r.post.by
    BY <2>1 DEF ServiceRecords, PostRecords
  <2>5. /\ done \in ServiceRecords /\ done.at = ok /\ done.heard = r.heard /\ done.post.row = n
        /\ done.post.kind = r.post.kind /\ done.post.of = r.post.of /\ done.post.by = r.post.by
    BY <2>2, <2>4, Zenon
  <2> QED BY <2>3, <2>5
<1>6. comment.of = post.of /\ comment.by = post.by OBVIOUS
<1> HIDE DEF done, comment
<1>7. serving'[h] = (IF r.heard THEN done ELSE Free) /\ \A k \in Handlers : k # h => serving'[k] = serving[k]
  BY <1>1, <1>2, <1>5, ServiceAtIs
<1>8. done # Free /\ Free.at = "free" BY <1>5, InService
<1>9. ~Pending(h) /\ ~HasAnswer(h) BY <1>2 DEF Pending, HasAnswer
<1>10. Followed(h) <=> r.heard BY <1>3 DEF Followed
<1>11. Followed(h)' <=> r.heard BY <1>5, <1>7, <1>8 DEF Followed
<1>12. HasAnswer(h)' <=> r.heard BY <1>5, <1>7, <1>8 DEF HasAnswer
<1>13. CASE post.kind = "idea"
  <2>1. ~Pending(h)' BY <1>5, <1>7, <1>8, <1>13 DEF Pending
  <2>2. comments' = comments /\ UNCHANGED <<board, own, crossed>> BY <1>2, <1>13 DEF board
  <2>3. Followed(h)' => /\ Followed(h) /\ serving'[h].post.by = serving[h].post.by
                        /\ serving'[h].post.of = serving[h].post.of
    BY <1>5, <1>7, <1>10, <1>11
  <2> HIDE DEF r, post
  <2> QED BY <1>7, <1>9, <1>11, <1>12, <2>1, <2>2, <2>3, ServerStays
<1>14. CASE post.kind # "idea"
  <2>1. comments' = Append(comments, comment) /\ crossed' = (crossed \/ Unfollowed(h, post)) BY <1>2, <1>14
  <2>2. /\ DOMAIN comments' = DOMAIN comments \cup {n} /\ n \notin DOMAIN comments /\ comments'[n] = comment
        /\ \A c \in DOMAIN comments : comments'[c] = comments[c] /\ c < n
    BY <1>1, <2>1 DEF TablesOK
  <2> HIDE DEF n
  <2>3. DetailOK' /\ ThreadOK' /\ CallsOK' /\ AddressOK'
    BY <1>2 DEF IdeasInv, ThreadInv, DetailOK, ThreadOK, CallsOK, AddressOK
  <2>4. post.kind = "comment"
    <3>1. post \in PostRecords BY <1>3, InService
    <3> QED BY <1>14, <3>1 DEF PostRecords, PostKinds
  <2>5. \A k \in Handlers : k # h => /\ Followed(k)' <=> Followed(k)
                                     /\ HasAnswer(k)' <=> HasAnswer(k)
                                     /\ Pending(k)' <=> Pending(k)
    BY <1>7 DEF Followed, HasAnswer, Pending
  <2>6. Pending(h)' <=> r.heard BY <1>5, <1>7, <1>8, <2>4 DEF Pending
  <2>7. OwnOK BY DEF IdeasInv, ThreadInv
  <2>8. \A k \in Handlers : Followed(k)' <=> Followed(k) BY <1>10, <1>11, <2>5
  <2>9. OwnOK'
    <3>1. \A k \in Handlers : Followed(k)' =>
            own' = "sent" /\ serving'[k].post.by = "me" /\ serving'[k].post.of = detail'.idea
      <4> SUFFICES ASSUME NEW k \in Handlers, Followed(k)
                   PROVE  own' = "sent" /\ serving'[k].post.by = "me" /\ serving'[k].post.of = detail'.idea
        BY <2>8
      <4>1. own = "sent" /\ serving[k].post.by = "me" /\ serving[k].post.of = detail.idea BY <2>7 DEF OwnOK
      <4>2. CASE k = h BY <1>2, <1>5, <1>7, <1>10, <4>1, <4>2
      <4>3. CASE k # h BY <1>2, <1>7, <4>1, <4>3
      <4> QED BY <4>2, <4>3
    <3>2. \A j, k \in Handlers : Followed(j)' /\ Followed(k)' => j = k BY <2>7, <2>8 DEF OwnOK
    <3>3. \A k \in Handlers : HasAnswer(k)' => Followed(k)' BY <1>11, <1>12, <2>5, <2>7 DEF OwnOK
    <3>4. ASSUME NEW k \in Handlers, Pending(k)'
          PROVE  /\ serving'[k].post.row \in DOMAIN comments'
                 /\ comments'[serving'[k].post.row].of = serving'[k].post.of
                 /\ comments'[serving'[k].post.row].by = serving'[k].post.by
      <4>1. CASE k = h
        <5>1. serving'[h] = done BY <1>7, <2>6, <3>4, <4>1
        <5> QED BY <1>5, <1>6, <2>2, <4>1, <5>1
      <4>2. CASE k # h
        <5>1. Pending(k) /\ serving'[k] = serving[k] BY <1>7, <2>5, <3>4, <4>2
        <5> QED BY <2>2, <2>7, <5>1 DEF OwnOK
      <4> QED BY <4>1, <4>2
    <3>5. own' = "sent" => ~detail'.loading BY <1>2, <2>7 DEF OwnOK
    <3> QED BY <3>1, <3>2, <3>3, <3>4, <3>5 DEF OwnOK
  <2>10. RealOK'
    <3>1. RealOK BY DEF IdeasInv, ThreadInv
    <3> QED BY <1>2, <2>2, <3>1 DEF RealOK, Real
  <2>11. WholeOK'
    <3> SUFFICES ASSUME Showing, ~crossed' PROVE Whole(Heard, Unshown, thread, own)'
      BY <1>2 DEF WholeOK, Showing
    <3>1. ~crossed /\ ~Unfollowed(h, post) BY <2>1
    <3>2. Whole(Heard, Unshown, thread, own) BY <3>1 DEF IdeasInv, ThreadInv, WholeOK
    <3>3. Heard' = Heard /\ \A c \in Unshown', d \in Heard : d < c
      <4>1. CASE r.heard
        <5>1. post.of = detail.idea BY <1>10, <2>7, <4>1 DEF OwnOK
        <5>2. \A k \in Handlers : k # h => ~Pending(k)
          <6> SUFFICES ASSUME NEW k \in Handlers, k # h, Pending(k) PROVE FALSE OBVIOUS
          <6>1. HasAnswer(k) BY DEF Pending, HasAnswer
          <6> QED BY <1>10, <2>7, <4>1, <6>1 DEF OwnOK
        <5>3. Unshown = {} BY <1>9, <5>2 DEF Unshown
        <5>4. Unshown' = {n}
          <6>1. \A k \in Handlers : Pending(k)' <=> k = h BY <2>5, <2>6, <4>1, <5>2
          <6>2. serving'[h].post.row = n BY <1>5, <1>7, <4>1
          <6> QED BY <6>1, <6>2 DEF Unshown
        <5>5. OfIdea(detail.idea)' = OfIdea(detail.idea) \cup {n} BY <1>2, <1>6, <2>2, <5>1 DEF OfIdea
        <5>6. n \notin OfIdea(detail.idea) BY <2>2 DEF OfIdea
        <5>7. Heard' = Heard BY <5>3, <5>4, <5>5, <5>6 DEF Heard
        <5>8. \A d \in Heard : d < n BY <2>2 DEF Heard, OfIdea
        <5> QED BY <5>4, <5>7, <5>8
      <4>2. CASE ~r.heard
        <5>1. post.of # detail.idea BY <3>1, <4>2 DEF Unfollowed
        <5>2. OfIdea(detail.idea)' = OfIdea(detail.idea) BY <1>2, <1>6, <2>2, <5>1 DEF OfIdea
        <5>3. \A k \in Handlers : Pending(k)' <=> Pending(k) BY <1>9, <2>5, <2>6, <4>2
        <5>4. \A k \in Handlers : Pending(k) => serving'[k] = serving[k] BY <1>7, <1>9
        <5>5. \A x \in Unshown' : x \in Unshown BY <5>3, <5>4 DEF Unshown
        <5>6. \A x \in Unshown : x \in Unshown' BY <5>3, <5>4 DEF Unshown
        <5>7. Unshown' = Unshown BY <5>5, <5>6
        <5> QED BY <3>2, <5>2, <5>7 DEF Heard, Whole
      <4> QED BY <4>1, <4>2
    <3>4. PICK T, V : T = Heard /\ V = Unshown' OBVIOUS
    <3>5. Whole(T, V, thread, own) BY <3>2, <3>3, <3>4 DEF Whole
    <3> QED BY <1>2, <3>3, <3>4, <3>5
  <2> QED BY <2>3, <2>9, <2>10, <2>11 DEF ThreadInv
<1> QED BY <1>13, <1>14

\* A page that is left, or loads another idea, listens to no request.
LEMMA LeftThread ==
  ASSUME IdeasInv, serving' = Unheard, UNCHANGED tables, DetailOK', CallsOK', ~Showing', AddressOK',
         thread' = NoThread, own' = "idle"
  PROVE  ThreadInv'
<1>1. ServingOK BY DEF IdeasInv, QuotaInv
<1>2. NoThread \in ThreadRecords /\ NoThread.items = <<>> /\ NoThread.load = NoLoad /\ NoThread.page = 1
      /\ NoLoad.at = "none" /\ NoLoad.items = <<>>
  BY NoLoadIs
<1>3. ThreadOK' BY <1>2 DEF ThreadOK
<1>4. \A h \in Handlers : ~Followed(h)' /\ ~HasAnswer(h)'
  <2> SUFFICES ASSUME NEW h \in Handlers PROVE ~Followed(h)' /\ ~HasAnswer(h)' OBVIOUS
  <2>1. serving'[h] = Free \/ (~serving'[h].heard /\ serving'[h].at = serving[h].at
                               /\ (serving'[h].at \in {"ok", "refused"} => ~serving[h].heard))
    BY <1>1, UnheardIs
  <2>2. CASE serving'[h] = Free BY <2>2, InService DEF Followed, HasAnswer
  <2>3. CASE ~serving'[h].heard /\ serving'[h].at = serving[h].at
             /\ (serving'[h].at \in {"ok", "refused"} => ~serving[h].heard)
    <3>1. ~HasAnswer(h)
      <4> SUFFICES ASSUME HasAnswer(h) PROVE FALSE OBVIOUS
      <4>1. Followed(h) BY DEF IdeasInv, ThreadInv, OwnOK
      <4> QED BY <2>3, <4>1 DEF Followed, HasAnswer
    <3> QED BY <2>3, <3>1 DEF Followed, HasAnswer
  <2> QED BY <2>1, <2>2, <2>3
<1>5. \A h \in Handlers : ~Pending(h)' BY <1>4 DEF Pending, HasAnswer
<1>6. OwnOK' BY <1>4, <1>5 DEF OwnOK
<1>7. RealOK' BY <1>2 DEF RealOK, Real
<1>8. WholeOK' BY DEF WholeOK
<1> QED BY <1>3, <1>6, <1>7, <1>8 DEF ThreadInv

\* An idea is opened,
LEMMA OpenThread == ASSUME IdeasInv, NEW i \in DOMAIN ideas, Open(i) PROVE ThreadInv'
<1> DEFINE yes == TRUE
           d == [detail EXCEPT !.id = i, !.loading = yes, !.problem = "no"]
<1>1. detail' = d BY DEF Open
<1>2. i \in Nat \ {0} BY DEF IdeasInv, QuotaInv, TablesOK
<1>3. yes \in BOOLEAN /\ yes /\ detail \in DetailRecords BY DEF IdeasInv, ThreadInv, DetailOK
<1> HIDE DEF yes
<1>4. d \in DetailRecords /\ d.id = i /\ d.loading = yes /\ d.problem = "no" /\ d.idea = detail.idea
  BY <1>2, <1>3 DEF DetailRecords
<1> HIDE DEF d
<1>5. DetailOK' BY <1>1, <1>2, <1>4 DEF DetailOK
<1>6. CallsOK'
  <2> DEFINE no == FALSE
             on == TRUE
             new == [id |-> i, live |-> on]
  <2>1. calls' = {[g EXCEPT !.live = no] : g \in calls} \cup {new} BY DEF Open
  <2>2. no \in BOOLEAN /\ ~no /\ on \in BOOLEAN OBVIOUS
  <2> HIDE DEF no, on
  <2>3. ASSUME NEW g \in calls
        PROVE  [g EXCEPT !.live = no] \in [id : Nat \ {0}, live : BOOLEAN] /\ [g EXCEPT !.live = no].live = no
    <3>1. g \in [id : Nat \ {0}, live : BOOLEAN] BY DEF IdeasInv, ThreadInv, CallsOK
    <3> QED BY <2>2, <3>1
  <2>4. new \in [id : Nat \ {0}, live : BOOLEAN] /\ new.id = i BY <1>2, <2>2
  <2> HIDE DEF new
  <2> QED BY <1>1, <1>3, <1>4, <2>1, <2>2, <2>3, <2>4 DEF CallsOK
<1>7. ~Showing' /\ AddressOK' BY <1>1, <1>3, <1>4 DEF Showing, AddressOK
<1>8. serving' = Unheard /\ UNCHANGED tables /\ thread' = NoThread /\ own' = "idle" BY DEF Open
<1> QED BY <1>5, <1>6, <1>7, <1>8, LeftThread

\* or the page is left.
LEMMA LeaveThread == ASSUME IdeasInv, Leave PROVE ThreadInv'
<1> DEFINE no == FALSE
           d == [id |-> 0, idea |-> 0, loading |-> no, problem |-> "no"]
<1>1. detail' = d /\ NoDetail = d BY DEF Leave, NoDetail
<1>2. no \in BOOLEAN OBVIOUS
<1> HIDE DEF no
<1>3. d \in DetailRecords /\ d.idea = 0 BY <1>2 DEF DetailRecords
<1> HIDE DEF d
<1>4. DetailOK' BY <1>1, <1>3 DEF DetailOK
<1>5. ~Showing' /\ AddressOK' BY <1>1, <1>3 DEF Showing, AddressOK
<1>6. CallsOK' BY DEF Leave, CallsOK
<1>7. serving' = Unheard /\ UNCHANGED tables /\ thread' = NoThread /\ own' = "idle" BY DEF Leave
<1> QED BY <1>4, <1>5, <1>6, <1>7, LeftThread

\* A thread is mounted: all that will be told is still to come.
LEMMA MountThread ==
  ASSUME IdeasInv, UNCHANGED <<tables, serving, own>>, NEW d \in DetailRecords, detail' = d, detail.loading,
         d.id = detail.id, ~d.loading, d.problem = "no" => d.idea = detail.id, d.id # 0, CallsOK',
         thread' = Mounted(d.idea) \/ (thread' = NoThread /\ d.idea = 0)
  PROVE  ThreadInv'
<1>1. TablesOK BY DEF IdeasInv, QuotaInv
<1>2. DetailOK' BY DEF DetailOK
<1>3. AddressOK' BY DEF AddressOK
<1>4. own # "sent" /\ \A h \in Handlers : ~Followed(h) /\ ~HasAnswer(h) /\ ~Pending(h)
  <2>1. own # "sent" BY DEF IdeasInv, ThreadInv, OwnOK
  <2>2. \A h \in Handlers : ~Followed(h) BY <2>1 DEF IdeasInv, ThreadInv, OwnOK
  <2>3. \A h \in Handlers : ~HasAnswer(h) BY <2>2 DEF IdeasInv, ThreadInv, OwnOK
  <2>4. \A h \in Handlers : ~Pending(h) BY <2>3 DEF Pending, HasAnswer
  <2> QED BY <2>1, <2>2, <2>3, <2>4
<1>5. OwnOK' BY <1>4 DEF OwnOK, Followed, HasAnswer, Pending
<1>6. /\ thread' \in ThreadRecords /\ thread'.items = <<>> /\ thread'.page = 1 /\ thread'.load.items = <<>>
      /\ thread'.load.at # "none" => thread'.load.page = 1
  <2>1. CASE thread' = Mounted(d.idea) BY <1>1, <2>1, MountedIs
  <2>2. CASE thread' = NoThread
    <3>1. NoThread.load.at = "none" /\ NoThread.load.items = <<>> BY NoLoadIs
    <3> QED BY <2>2, <3>1, NoLoadIs
  <2> QED BY <2>1, <2>2
<1>7. ThreadOK' BY <1>6 DEF ThreadOK
<1>8. RealOK' BY <1>6 DEF RealOK, Real
<1>9. WholeOK'
  <2> SUFFICES ASSUME Showing' PROVE Whole(Heard, Unshown, thread, own)' BY DEF WholeOK
  <2>1. d.idea # 0 BY DEF Showing
  <2>2. PICK t : t = thread' OBVIOUS
  <2>3. /\ t.total = Cardinality(OfIdea(d.idea)) /\ t.load.at = "asked" /\ t.load.page = 1 /\ t.items = <<>>
    BY <1>1, <2>1, <2>2, MountedIs
  <2>4. Unshown' = {} BY <1>4 DEF Unshown, Pending
  <2>5. OfIdea(detail.idea)' = OfIdea(d.idea) BY DEF OfIdea, tables
  <2>6. PICK T : T = OfIdea(d.idea) OBVIOUS
  <2>7. Heard' = T BY <2>4, <2>5, <2>6 DEF Heard
  <2>8. T \in SUBSET Int /\ IsFiniteSet(T) /\ Cardinality(T) \in Nat BY <1>1, <2>6, OfIdeaIs
  <2>9. \A c \in T : Rank(T, c) \in 1 .. Cardinality(T) BY <2>8, RankFacts
  <2>10. Arrived(t) = 0 BY <2>3 DEF Arrived
  <2>11. Covers(T, t, Cardinality(T))
    <3>1. \A c \in T : ~(Rank(T, c) <= 0) /\ ~(Rank(T, c) > Cardinality(T)) BY <2>8, <2>9
    <3>2. Len(t.items) = 0 BY <2>3
    <3>3. 0 + Cardinality(T) - Cardinality(T) = 0 BY <2>8
    <3> QED BY <2>10, <3>1, <3>2, <3>3 DEF Covers
  <2>12. Whole(T, {}, t, own) BY <1>4, <2>3, <2>6, <2>8, <2>11 DEF Whole
  <2> QED BY <2>2, <2>4, <2>7, <2>12
<1> QED BY <1>2, <1>3, <1>5, <1>7, <1>8, <1>9 DEF ThreadInv

\* Nothing that the page shows changes with a call that is not listened to.
LEMMA SameThread ==
  ASSUME IdeasInv, UNCHANGED <<tables, serving, own, thread, crossed>>, detail' = detail, CallsOK'
  PROVE  ThreadInv'
<1>1. DetailOK' /\ ThreadOK' /\ AddressOK' /\ RealOK'
  BY DEF IdeasInv, ThreadInv, DetailOK, ThreadOK, AddressOK, RealOK, Real, tables
<1>2. OwnOK' BY DEF IdeasInv, ThreadInv, OwnOK, Followed, HasAnswer, Pending, tables
<1>3. WholeOK'
  <2>1. Heard' = Heard /\ Unshown' = Unshown BY DEF Heard, Unshown, Pending, OfIdea, tables
  <2>2. WholeOK BY DEF IdeasInv, ThreadInv
  <2> QED BY <2>1, <2>2 DEF WholeOK, Showing
<1> QED BY <1>1, <1>2, <1>3 DEF ThreadInv

\* The call the page listens to is the only one it listens to.
LEMMA OneCall ==
  ASSUME CallsOK, NEW g \in calls, calls' = calls \ {g}
  PROVE  /\ g.live => /\ \A x \in calls' : ~x.live /\ x \in [id : Nat \ {0}, live : BOOLEAN]
                      /\ detail.loading /\ g.id = detail.id /\ g.id \in Nat \ {0}
         /\ detail' = detail => CallsOK'
<1> DEFINE C == [id : Nat \ {0}, live : BOOLEAN]
<1>1. \A x \in calls : x \in C /\ (x.live => x.id = detail.id /\ detail.loading) BY DEF CallsOK
<1>2. \A x, y \in C : x.live /\ y.live /\ x.id = y.id => x = y OBVIOUS
<1>3. \A x \in C : x.id \in Nat \ {0} OBVIOUS
<1> HIDE DEF C
<1>4. ASSUME g.live PROVE /\ \A x \in calls' : ~x.live /\ x \in C
                          /\ detail.loading /\ g.id = detail.id /\ g.id \in Nat \ {0}
  <2>1. \A x \in calls' : ~x.live /\ x \in C
    <3> SUFFICES ASSUME NEW x \in calls' PROVE ~x.live /\ x \in C OBVIOUS
    <3>1. x \in calls /\ x # g OBVIOUS
    <3>2. x \in C /\ g \in C BY <1>1, <3>1
    <3>3. ~x.live
      <4> SUFFICES ASSUME x.live PROVE FALSE OBVIOUS
      <4>1. x.id = detail.id /\ g.id = detail.id BY <1>1, <1>4, <3>1
      <4>2. x = g BY <1>2, <1>4, <3>2, <4>1, Zenon
      <4> QED BY <3>1, <4>2
    <3> QED BY <3>2, <3>3
  <2> QED BY <1>1, <1>3, <1>4, <2>1
<1>5. ASSUME detail' = detail PROVE CallsOK' BY <1>5 DEF CallsOK
<1> QED BY <1>4, <1>5 DEF C

\* An idea arrives, or its call fails; only the call listened to is heard.
LEMMA IdeaThread == ASSUME IdeasInv, NEW g \in calls, IdeaAnswered(g) \/ IdeaFails(g) PROVE ThreadInv'
<1>1. CallsOK /\ calls' = calls \ {g} /\ UNCHANGED <<tables, serving, own>>
  BY DEF IdeasInv, ThreadInv, IdeaAnswered, IdeaFails
<1>2. CASE ~g.live
  <2>1. UNCHANGED <<thread, crossed>> /\ detail' = detail BY <1>2 DEF IdeaAnswered, IdeaFails
  <2>2. CallsOK' BY <1>1, <2>1, OneCall
  <2> QED BY <1>1, <2>1, <2>2, SameThread
<1>3. CASE g.live
  <2>1. /\ \A x \in calls' : ~x.live /\ x \in [id : Nat \ {0}, live : BOOLEAN]
        /\ detail.loading /\ g.id = detail.id /\ g.id \in Nat \ {0}
    BY <1>1, <1>3, OneCall
  <2>2. CallsOK' BY <2>1 DEF CallsOK
  <2>3. detail \in DetailRecords /\ detail.idea \in Nat BY DEF IdeasInv, ThreadInv, DetailOK, DetailRecords
  <2> DEFINE no == FALSE
             a == [detail EXCEPT !.idea = g.id, !.loading = no]
             wrong == "notFound"
             broken == "error"
             b == [detail EXCEPT !.problem = wrong, !.loading = no]
             c == [detail EXCEPT !.problem = broken, !.loading = no]
  <2>4. \/ detail' = a /\ thread' = Mounted(g.id)
        \/ detail' = b /\ UNCHANGED <<thread, crossed>>
        \/ detail' = c /\ thread' = IF detail.idea = 0 THEN NoThread ELSE Mounted(detail.idea)
    BY <1>3 DEF IdeaAnswered, IdeaFails
  <2>5. /\ no \in BOOLEAN /\ ~no /\ wrong = "notFound" /\ broken = "error"
        /\ wrong \in {"no", "notFound", "error"} /\ broken \in {"no", "notFound", "error"}
    OBVIOUS
  <2> HIDE DEF no, wrong, broken
  <2>a. PICK d \in DetailRecords : d = detail BY <2>3
  <2>b. LET x == [d EXCEPT !.idea = g.id, !.loading = no] IN
        x \in DetailRecords /\ x.id = d.id /\ x.idea = g.id /\ x.loading = no
    BY <2>1, <2>5 DEF DetailRecords
  <2>c. \A p \in {wrong, broken} :
          LET x == [d EXCEPT !.problem = p, !.loading = no] IN
          x \in DetailRecords /\ x.id = d.id /\ x.idea = d.idea /\ x.loading = no /\ x.problem = p
    BY <2>5 DEF DetailRecords
  <2>6. a \in DetailRecords /\ a.id = detail.id /\ a.idea = g.id /\ a.loading = no
    BY <2>a, <2>b
  <2>7. b \in DetailRecords /\ b.id = detail.id /\ b.idea = detail.idea /\ b.loading = no /\ b.problem = wrong
    BY <2>a, <2>c
  <2>8. c \in DetailRecords /\ c.id = detail.id /\ c.idea = detail.idea /\ c.loading = no /\ c.problem = broken
    BY <2>a, <2>c
  <2> HIDE DEF a, b, c
  <2>9. CASE detail' = a /\ thread' = Mounted(g.id)
    <3>1. thread' = Mounted(a.idea) BY <2>6, <2>9
    <3> QED BY <1>1, <2>1, <2>2, <2>5, <2>6, <2>9, <3>1, MountThread
  <2>10. CASE detail' = c /\ thread' = IF detail.idea = 0 THEN NoThread ELSE Mounted(detail.idea)
    <3>1. thread' = Mounted(c.idea) \/ (thread' = NoThread /\ c.idea = 0) BY <2>8, <2>10
    <3>2. c.problem # "no" BY <2>5, <2>8
    <3> QED BY <1>1, <2>1, <2>2, <2>5, <2>8, <2>10, <3>1, <3>2, MountThread
  <2>11. CASE detail' = b /\ UNCHANGED <<thread, crossed>>
    <3>1. DetailOK' BY <2>1, <2>7, <2>11 DEF DetailOK
    <3>2. AddressOK' /\ ~Showing' BY <2>5, <2>7, <2>11 DEF AddressOK, Showing
    <3>3. ThreadOK' BY <2>11 DEF IdeasInv, ThreadInv, ThreadOK
    <3>4. RealOK' BY <1>1, <2>7, <2>11 DEF IdeasInv, ThreadInv, RealOK, Real, tables
    <3>5. own # "sent" BY <2>1 DEF IdeasInv, ThreadInv, OwnOK
    <3>6. \A h \in Handlers : ~Followed(h) BY <3>5 DEF IdeasInv, ThreadInv, OwnOK
    <3>7. \A h \in Handlers : ~HasAnswer(h) BY <3>6 DEF IdeasInv, ThreadInv, OwnOK
    <3>8. OwnOK' BY <1>1, <3>5, <3>6, <3>7 DEF OwnOK, Followed, HasAnswer, Pending
    <3>9. WholeOK' BY <3>2 DEF WholeOK
    <3> QED BY <2>2, <3>1, <3>2, <3>3, <3>4, <3>8, <3>9 DEF ThreadInv
  <2> QED BY <2>4, <2>9, <2>10, <2>11
<1> QED BY <1>2, <1>3

\* A step of the thread alone.
LEMMA OnlyThread ==
  ASSUME IdeasInv, UNCHANGED <<tables, serving, detail, calls, own>>, ThreadOK', RealOK',
         Showing /\ ~crossed' => Whole(Heard, Unshown, thread', own)
  PROVE  ThreadInv'
<1>1. DetailOK' /\ CallsOK' /\ AddressOK' BY DEF IdeasInv, ThreadInv, DetailOK, CallsOK, AddressOK
<1>2. OwnOK' BY DEF IdeasInv, ThreadInv, OwnOK, Followed, HasAnswer, Pending, tables
<1>3. Heard' = Heard /\ Unshown' = Unshown BY DEF Heard, Unshown, Pending, OfIdea, tables
<1>4. WholeOK' BY <1>3 DEF WholeOK, Showing
<1> QED BY <1>1, <1>2, <1>4 DEF ThreadInv

\* The next page is asked for: nothing that was shown changes.
LEMMA MoreThread == ASSUME IdeasInv, LoadMore PROVE ThreadInv'
<1> DEFINE no == FALSE
           p == thread.page + 1
           l == [NoLoad EXCEPT !.at = "asked", !.page = p]
           x == [thread EXCEPT !.failed = no, !.load = l]
<1>1. /\ thread' = x /\ Showing /\ thread.load.at = "none" /\ crossed' = (crossed \/ own = "sent")
      /\ UNCHANGED <<tables, serving, detail, calls, own>>
  BY DEF LoadMore
<1>2. thread \in ThreadRecords /\ thread.page >= 1 /\ thread.page \in Nat
  BY DEF IdeasInv, ThreadInv, ThreadOK, ThreadRecords
<1>3. no \in BOOLEAN /\ p \in Nat /\ p > 1 BY <1>2
<1>4. l \in ListCalls /\ l.at = "asked" /\ l.page = p /\ l.items = <<>> BY <1>3, NoLoadIs
<1> HIDE DEF no, l
<1>5. /\ x \in ThreadRecords /\ x.items = thread.items /\ x.total = thread.total /\ x.page = thread.page
      /\ x.load = l
  <2>1. LET z == [thread EXCEPT !.failed = no, !.load = l] IN
        /\ z \in ThreadRecords /\ z.items = thread.items /\ z.total = thread.total /\ z.page = thread.page
        /\ z.load = l
    BY <1>2, <1>3, <1>4 DEF ThreadRecords
  <2> QED BY <2>1
<1> HIDE DEF x
<1>6. ThreadOK' BY <1>1, <1>2, <1>3, <1>4, <1>5 DEF ThreadOK
<1>7. RealOK' BY <1>1, <1>4, <1>5 DEF IdeasInv, ThreadInv, RealOK, Real, tables
<1>8. ASSUME Showing, ~crossed' PROVE Whole(Heard, Unshown, x, own)
  <2>1. own # "sent" /\ Whole(Heard, Unshown, thread, own)
    BY <1>1, <1>8 DEF IdeasInv, ThreadInv, WholeOK
  <2>2. Arrived(x) = Arrived(thread) BY <1>1, <1>3, <1>4, <1>5 DEF Arrived
  <2>3. PICK T, U : T = Heard /\ U = Unshown OBVIOUS
  <2>4. \A n : Covers(T, thread, n) => Covers(T, x, n) BY <1>5, <2>2 DEF Covers
  <2>5. Whole(T, U, x, own) BY <1>4, <1>5, <2>1, <2>3, <2>4 DEF Whole
  <2> QED BY <2>3, <2>5
<1> QED BY <1>1, <1>6, <1>7, <1>8, OnlyThread

\* The server reads no comment of the visitor's that the page does not know.
LEMMA ReadThread == ASSUME IdeasInv, ListRead PROVE ThreadInv'
<1> DEFINE p == thread.load.page
           read == ListByIdea(detail.idea, p)
           a == "read"
           i == read.items
           n == read.total
           x == [thread EXCEPT !.load.at = a, !.load.items = i, !.load.total = n]
           S == OfIdea(detail.idea)
<1>1. thread' = x /\ thread.load.at = "asked" /\ UNCHANGED <<tables, serving, detail, calls, own, crossed>>
  BY DEF ListRead
<1>2. TablesOK /\ thread \in ThreadRecords /\ thread.page >= 1 /\ p >= 1
  BY <1>1 DEF IdeasInv, QuotaInv, ThreadInv, ThreadOK
<1>3. p \in Nat \ {0} BY <1>2 DEF ThreadRecords, ListCalls
<1>4. /\ n = Cardinality(S) /\ n \in Nat /\ i \in Seq(ItemRecords)
      /\ \A k \in DOMAIN i : i[k].id \in S /\ (i[k].mine <=> comments[i[k].id].by = "me")
      /\ \A c \in S : (p - 1) * PageSize < Rank(S, c) /\ Rank(S, c) <= p * PageSize => c \in IdsOf(i)
      /\ p * PageSize <= Cardinality(S) => Len(i) = PageSize
  BY <1>2, <1>3, ListIs
<1>5. a = "read" /\ a \in {"none", "asked", "read"} OBVIOUS
<1> HIDE DEF a, read
<1>6. /\ x \in ThreadRecords /\ x.items = thread.items /\ x.total = thread.total /\ x.page = thread.page
      /\ x.load.at = a /\ x.load.items = i /\ x.load.total = n /\ x.load.page = p
  <2> HIDE DEF i, n
  <2>1. LET z == [thread EXCEPT !.load.at = a, !.load.items = i, !.load.total = n] IN
        /\ z \in ThreadRecords /\ z.items = thread.items /\ z.total = thread.total /\ z.page = thread.page
        /\ z.load.at = a /\ z.load.items = i /\ z.load.total = n /\ z.load.page = p
    BY <1>2, <1>4, <1>5 DEF ThreadRecords, ListCalls
  <2> QED BY <2>1
<1> HIDE DEF x, p, i, n, S
<1>7. ThreadOK' BY <1>1, <1>2, <1>6 DEF ThreadOK
<1>8. RealOK'
  <2>1. Real(thread.items)' BY <1>1, <1>6 DEF IdeasInv, ThreadInv, RealOK, Real, tables
  <2>2. \A k \in DOMAIN i : i[k].id \in DOMAIN comments /\ comments[i[k].id].of = detail.idea BY <1>4 DEF S, OfIdea
  <2>3. Real(thread.load.items)' BY <1>1, <1>4, <1>6, <2>2 DEF Real, tables
  <2> QED BY <2>1, <2>3 DEF RealOK
<1>9. ASSUME Showing, ~crossed' PROVE Whole(Heard, Unshown, x, own)
  <2>1. Whole(Heard, Unshown, thread, own) BY <1>1, <1>9 DEF IdeasInv, ThreadInv, WholeOK
  <2>2. own # "sent" BY <1>1, <2>1 DEF Whole
  <2>3. \A h \in Handlers : ~Followed(h) BY <2>2 DEF IdeasInv, ThreadInv, OwnOK
  <2>4. \A h \in Handlers : ~HasAnswer(h) BY <2>3 DEF IdeasInv, ThreadInv, OwnOK
  <2>5. Heard = S BY <2>4 DEF Heard, Unshown, Pending, HasAnswer, S
  <2>6. Arrived(x) = Arrived(thread) BY <1>1, <1>5, <1>6 DEF Arrived, p
  <2>7. PICK U : U = Unshown OBVIOUS
  <2>8. \A m : Covers(S, thread, m) => Covers(S, x, m) BY <1>6, <2>6 DEF Covers
  <2>9. PageRead(S, x.load) BY <1>4, <1>6 DEF PageRead
  <2>10. Whole(S, U, thread, own) BY <2>1, <2>5, <2>7
  <2>11. p = 1 \/ p = thread.page + 1 BY <1>1, <2>10 DEF Whole, p
  <2>12. Whole(S, U, x, own) BY <1>6, <2>2, <2>8, <2>9, <2>10, <2>11 DEF Whole
  <2> QED BY <2>5, <2>7, <2>12
<1> QED BY <1>1, <1>7, <1>8, <1>9, OnlyThread

\* Items that are real stay so, one list behind the other.
LEMMA RealJoined ==
  ASSUME NEW a \in Seq(ItemRecords), NEW b \in Seq(ItemRecords), Real(a), Real(b) PROVE Real(a \o b)
<1>1. \A k \in DOMAIN (a \o b) : \/ k \in DOMAIN a /\ (a \o b)[k] = a[k]
                                 \/ k - Len(a) \in DOMAIN b /\ (a \o b)[k] = b[k - Len(a)]
  OBVIOUS
<1> QED BY <1>1 DEF Real

\* A page is shown, or its call fails: only a first page that fails leaves a gap.
LEMMA AnsweredThread == ASSUME IdeasInv, NEW ok \in BOOLEAN, ListAnswered(ok) PROVE ThreadInv'
<1> DEFINE l == thread.load
           none == NoLoad
<1>1. /\ l.at = "read" /\ UNCHANGED <<tables, serving, detail, calls, own>>
      /\ crossed' = (crossed \/ (~ok /\ l.page = 1))
  BY DEF ListAnswered
<1>2. thread \in ThreadRecords /\ thread.page >= 1 /\ l.page >= 1
  BY <1>1 DEF IdeasInv, ThreadInv, ThreadOK
<1>3. /\ l.items \in Seq(ItemRecords) /\ l.total \in Nat /\ l.page \in Nat /\ thread.items \in Seq(ItemRecords)
      /\ thread.page \in Nat
  BY <1>2 DEF ThreadRecords, ListCalls
<1>4. none \in ListCalls /\ none.at = "none" /\ none.items = <<>> BY NoLoadIs
<1> HIDE DEF none
<1>5. Real(thread.items) /\ Real(l.items) BY DEF IdeasInv, ThreadInv, RealOK
<1>6. \A items : Real(items) => Real(items)' BY <1>1 DEF Real, tables
<1>7. Real(<<>>) BY DEF Real
<1>8. CASE ok
  <2> DEFINE items == IF l.page = 1 THEN l.items ELSE thread.items \o l.items
             n == l.total
             p == l.page
             x == [thread EXCEPT !.load = none, !.total = n, !.page = p, !.items = items]
  <2>1. thread' = x BY <1>8 DEF ListAnswered, none
  <2>2. items \in Seq(ItemRecords) /\ Real(items)
    <3>1. CASE l.page = 1 BY <1>3, <1>5, <3>1
    <3>2. CASE l.page # 1
      <4>1. items = thread.items \o l.items BY <3>2
      <4> QED BY <1>3, <1>5, <4>1, RealJoined, IdsOfJoined
    <3> QED BY <3>1, <3>2
  <2>3. items = IF l.page = 1 THEN l.items ELSE thread.items \o l.items OBVIOUS
  <2> HIDE DEF items
  <2>4. x \in ThreadRecords /\ x.items = items /\ x.total = n /\ x.page = p /\ x.load = none
    <3> HIDE DEF n, p
    <3>0. n \in Nat /\ p \in Nat BY <1>3 DEF n, p
    <3>1. LET z == [thread EXCEPT !.load = none, !.total = n, !.page = p, !.items = items] IN
          z \in ThreadRecords /\ z.items = items /\ z.total = n /\ z.page = p /\ z.load = none
      BY <1>2, <1>4, <2>2, <3>0 DEF ThreadRecords
    <3> QED BY <3>1
  <2> HIDE DEF x
  <2>5. ThreadOK' BY <1>2, <1>4, <2>1, <2>4 DEF ThreadOK
  <2>6. RealOK' BY <1>4, <1>6, <1>7, <2>1, <2>2, <2>4 DEF RealOK
  <2>7. ASSUME Showing, ~crossed' PROVE Whole(Heard, Unshown, x, own)
    <3>1. Whole(Heard, Unshown, thread, own) BY <1>1, <2>7 DEF IdeasInv, ThreadInv, WholeOK
    <3>2. TablesOK BY DEF IdeasInv, QuotaInv
    <3>3. PICK T, U : T = Heard /\ U = Unshown OBVIOUS
    <3>4. T \in SUBSET Int /\ IsFiniteSet(T) BY <3>2, <3>3, ToldIs
    <3>5. Whole(T, U, thread, own) BY <3>1, <3>3
    <3>6. x.items = IF l.page = 1 THEN l.items ELSE thread.items \o l.items BY <2>3, <2>4
    <3>7. x.load.at = "none" /\ x.total = l.total /\ x.page = l.page BY <1>4, <2>4
    <3>8. Whole(T, U, x, own) BY <1>1, <1>2, <1>3, <2>4, <3>4, <3>5, <3>6, <3>7, WholeLoaded
    <3> QED BY <3>3, <3>8
  <2> QED BY <1>1, <2>1, <2>5, <2>6, <2>7, OnlyThread
<1>9. CASE ~ok
  <2> DEFINE yes == TRUE
             x == [thread EXCEPT !.load = none, !.failed = yes]
  <2>1. thread' = x BY <1>9 DEF ListAnswered, none
  <2>2. yes \in BOOLEAN OBVIOUS
  <2> HIDE DEF yes
  <2>3. x \in ThreadRecords /\ x.items = thread.items /\ x.total = thread.total /\ x.page = thread.page /\ x.load = none
    <3>1. LET z == [thread EXCEPT !.load = none, !.failed = yes] IN
          /\ z \in ThreadRecords /\ z.items = thread.items /\ z.total = thread.total /\ z.page = thread.page
          /\ z.load = none
      BY <1>2, <1>4, <2>2 DEF ThreadRecords
    <3> QED BY <3>1
  <2> HIDE DEF x
  <2>4. ThreadOK' BY <1>2, <1>4, <2>1, <2>3 DEF ThreadOK
  <2>5. RealOK' BY <1>4, <1>5, <1>6, <1>7, <2>1, <2>3 DEF RealOK
  <2>6. ASSUME Showing, ~crossed' PROVE Whole(Heard, Unshown, x, own)
    <3>1. Whole(Heard, Unshown, thread, own) /\ l.page # 1
      BY <1>1, <1>9, <2>6 DEF IdeasInv, ThreadInv, WholeOK
    <3>2. PICK T, U : T = Heard /\ U = Unshown OBVIOUS
    <3>3. Whole(T, U, thread, own) BY <3>1, <3>2
    <3>4. Arrived(x) = Arrived(thread) BY <1>4, <2>3, <3>1 DEF Arrived
    <3>5. \A m : Covers(T, thread, m) => Covers(T, x, m) BY <2>3, <3>4 DEF Covers
    <3>6. own # "sent" BY <1>1, <3>3 DEF Whole
    <3>7. Whole(T, U, x, own) BY <1>4, <2>3, <3>3, <3>5, <3>6 DEF Whole
    <3> QED BY <3>2, <3>7
  <2> QED BY <1>1, <2>1, <2>4, <2>5, <2>6, OnlyThread
<1> QED BY <1>8, <1>9

\* While no post of the visitor's own is on its way, no request is followed.
LEMMA NoneFollowed ==
  ASSUME IdeasInv, own # "sent"
  PROVE  /\ \A h \in Handlers : ~Followed(h) /\ ~HasAnswer(h) /\ ~Pending(h)
         /\ Unshown = {}
<1>1. \A h \in Handlers : ~Followed(h) BY DEF IdeasInv, ThreadInv, OwnOK
<1>2. \A h \in Handlers : ~HasAnswer(h) BY <1>1 DEF IdeasInv, ThreadInv, OwnOK
<1>3. \A h \in Handlers : ~Pending(h) BY <1>2 DEF Pending, HasAnswer
<1> QED BY <1>1, <1>2, <1>3 DEF Unshown

\* The visitor posts: from now on the page follows one request.
LEMMA PostThread == ASSUME IdeasInv, NEW h \in Handlers, NEW kind \in PostKinds, Post(h, kind) PROVE ThreadInv'
<1> DEFINE yes == TRUE
           n == thread.total
           x == [thread EXCEPT !.before = n]
           post == [kind |-> kind, of |-> detail.idea, ip |-> MyIp, by |-> "me", row |-> 0]
<1>1. /\ own # "sent" /\ own' = "sent" /\ (Showing \/ detail.id = 0) /\ Admit(h, post, yes) /\ thread' = x
      /\ crossed' = (crossed \/ thread.load.at # "none") /\ UNCHANGED <<tables, detail, calls>>
  BY DEF Post
<1>2. ServingOK BY DEF IdeasInv, QuotaInv
<1>3. thread \in ThreadRecords /\ n \in Nat BY DEF IdeasInv, ThreadInv, ThreadOK, ThreadRecords
<1>4. post \in PostRecords
  <2>1. detail.idea \in Nat /\ MyIp \in Ips BY IdeasAssumption DEF IdeasInv, ThreadInv, DetailOK, DetailRecords
  <2> QED BY <2>1 DEF PostRecords
<1>5. post.by = "me" /\ post.of = detail.idea /\ yes \in BOOLEAN /\ yes OBVIOUS
<1> HIDE DEF yes, post
<1>b. PICK b \in BOOLEAN : b = yes BY <1>5
<1>c. PICK p \in PostRecords : p = post BY <1>4
<1>d. Admit(h, p, b) BY <1>1, <1>b, <1>c
<1>e. PICK r : /\ ServiceAt(h, r) /\ serving[h] = Free
               /\ \/ r = Free /\ ~b
                  \/ /\ r \in ServiceRecords /\ r.heard = b /\ r.post = p
                     /\ r.at \in {"counting", "refused"} /\ (r.at = "refused" => b)
  BY <1>2, <1>d, AdmitIs
<1>a. /\ ServiceAt(h, r)
      /\ r \in ServiceRecords /\ r.heard = yes /\ r.post = post /\ r.at \in {"counting", "refused"}
  BY <1>5, <1>b, <1>c, <1>e
<1>6. /\ ServiceAt(h, r)
      /\ r \in ServiceRecords /\ r.heard = yes /\ r.post = post /\ r.at \in {"counting", "refused"}
  BY <1>5, <1>a
<1>7. serving'[h] = r /\ \A k \in Handlers : k # h => serving'[k] = serving[k] BY <1>2, <1>6, ServiceAtIs
<1>8. r # Free /\ r.at # "ok" BY <1>6, InService
<1>9. \A k \in Handlers : ~Followed(k) /\ ~HasAnswer(k) /\ ~Pending(k) BY <1>1, NoneFollowed
<1>10. Unshown = {} BY <1>1, NoneFollowed
<1>11. \A k \in Handlers : ~Pending(k)' /\ (Followed(k)' <=> k = h) /\ (HasAnswer(k)' => k = h)
  <2> SUFFICES ASSUME NEW k \in Handlers PROVE ~Pending(k)' /\ (Followed(k)' <=> k = h) /\ (HasAnswer(k)' => k = h)
    OBVIOUS
  <2>1. CASE k = h BY <1>5, <1>6, <1>7, <1>8, <2>1 DEF Pending, Followed, HasAnswer
  <2>2. CASE k # h BY <1>7, <1>9, <2>2 DEF Pending, Followed, HasAnswer
  <2> QED BY <2>1, <2>2
<1>12. /\ x \in ThreadRecords /\ x.items = thread.items /\ x.total = n /\ x.page = thread.page
       /\ x.load = thread.load /\ x.before = n
  <2>1. n = thread.total OBVIOUS
  <2> HIDE DEF n
  <2> QED BY <1>3, <2>1 DEF ThreadRecords
<1> HIDE DEF x
<1>13. DetailOK' /\ CallsOK' /\ AddressOK' BY <1>1 DEF IdeasInv, ThreadInv, DetailOK, CallsOK, AddressOK
<1>14. ThreadOK' BY <1>1, <1>12 DEF IdeasInv, ThreadInv, ThreadOK
<1>15. RealOK' BY <1>1, <1>12 DEF IdeasInv, ThreadInv, RealOK, Real, tables
<1>16. ~detail.loading
  <2>1. CASE Showing BY <2>1 DEF Showing
  <2>2. CASE detail.id = 0 BY <2>2 DEF IdeasInv, ThreadInv, DetailOK, NoDetail
  <2> QED BY <1>1, <2>1, <2>2
<1>17. OwnOK' BY <1>1, <1>5, <1>6, <1>7, <1>11, <1>16 DEF OwnOK
<1>18. WholeOK'
  <2> SUFFICES ASSUME Showing, ~crossed' PROVE Whole(Heard, Unshown, thread, own)'
    BY <1>1 DEF WholeOK, Showing
  <2>1. ~crossed /\ thread.load.at = "none" BY <1>1
  <2>2. PICK T : T = Heard OBVIOUS
  <2>3. Whole(T, {}, thread, own) BY <1>10, <2>1, <2>2 DEF IdeasInv, ThreadInv, WholeOK
  <2>4. Unshown' = {} BY <1>11 DEF Unshown
  <2>5. Heard' = T BY <1>1, <1>10, <2>2, <2>4 DEF Heard, OfIdea, tables
  <2>6. Arrived(x) = Arrived(thread) BY <1>12 DEF Arrived
  <2>7. \A m : Covers(T, thread, m) => Covers(T, x, m) BY <1>12, <2>6 DEF Covers
  <2>8. Whole(T, {}, x, "sent") BY <1>12, <2>1, <2>3, <2>7 DEF Whole
  <2> QED BY <1>1, <2>4, <2>5, <2>8
<1> QED BY <1>13, <1>14, <1>15, <1>17, <1>18 DEF ThreadInv

\* The visitor's own post is over: the page follows no request.
LEMMA OverThread ==
  ASSUME IdeasInv, NEW h \in Handlers, Followed(h), UNCHANGED <<tables, detail, calls>>, own' = "told",
         \A k \in Handlers : k # h => serving'[k] = serving[k],
         ~Followed(h)', ~HasAnswer(h)', ThreadOK', RealOK', WholeOK'
  PROVE  ThreadInv'
<1>1. DetailOK' /\ CallsOK' /\ AddressOK' BY DEF IdeasInv, ThreadInv, DetailOK, CallsOK, AddressOK
<1>2. \A k \in Handlers : ~Followed(k)' /\ ~HasAnswer(k)'
  <2> SUFFICES ASSUME NEW k \in Handlers, k # h PROVE ~Followed(k)' /\ ~HasAnswer(k)' OBVIOUS
  <2>1. ~Followed(k) BY DEF IdeasInv, ThreadInv, OwnOK
  <2>2. ~HasAnswer(k) BY <2>1 DEF IdeasInv, ThreadInv, OwnOK
  <2> QED BY <2>1, <2>2 DEF Followed, HasAnswer
<1>3. \A k \in Handlers : ~Pending(k)' BY <1>2 DEF Pending, HasAnswer
<1>4. OwnOK' BY <1>2, <1>3 DEF OwnOK
<1> QED BY <1>1, <1>4 DEF ThreadInv

\* What is unknown to the page is the row of the request it follows.
LEMMA OneUnshown ==
  ASSUME IdeasInv, NEW h \in Handlers, Followed(h)
  PROVE  Unshown = (IF Pending(h) THEN {serving[h].post.row} ELSE {})
<1>1. \A k \in Handlers : k # h => ~Pending(k)
  <2> SUFFICES ASSUME NEW k \in Handlers, k # h, Pending(k) PROVE FALSE OBVIOUS
  <2>1. HasAnswer(k) BY DEF Pending, HasAnswer
  <2> QED BY <2>1 DEF IdeasInv, ThreadInv, OwnOK
<1> QED BY <1>1 DEF Unshown

\* The answer adds the comment at the end, or changes nothing but the post.
LEMMA TellThread == ASSUME IdeasInv, NEW h \in Handlers, PostAnswered(h) PROVE ThreadInv'
<1> DEFINE c == serving[h].post.row
           yes == TRUE
           zero == 0
           n == thread.before + 1
           item == [id |-> c, mine |-> yes]
           items == Append(thread.items, item)
           x == [thread EXCEPT !.items = items, !.total = n, !.before = zero]
           y == [thread EXCEPT !.before = zero]
<1>1. /\ HasAnswer(h) /\ own' = "told" /\ serving' = [serving EXCEPT ![h] = Free]
      /\ thread' = IF Pending(h) THEN x ELSE y
      /\ UNCHANGED <<tables, detail, calls, crossed>>
  BY DEF PostAnswered, Pending
<1>2. TablesOK /\ ServingOK BY DEF IdeasInv, QuotaInv
<1>3. Followed(h) /\ own = "sent" /\ serving[h].post.by = "me" /\ serving[h].post.of = detail.idea
  BY <1>1 DEF IdeasInv, ThreadInv, OwnOK
<1>4. serving'[h] = Free /\ \A k \in Handlers : k # h => serving'[k] = serving[k] BY <1>1, <1>2 DEF ServingOK
<1>5. ~Followed(h)' /\ ~HasAnswer(h)' BY <1>4, InService DEF Followed, HasAnswer
<1>6. thread \in ThreadRecords /\ thread.page >= 1 /\ (thread.load.at # "none" => thread.load.page >= 1)
  BY DEF IdeasInv, ThreadInv, ThreadOK
<1>7. thread.items \in Seq(ItemRecords) /\ n \in Nat /\ zero \in Nat BY <1>6 DEF ThreadRecords
<1>8. Unshown = IF Pending(h) THEN {c} ELSE {} BY <1>3, OneUnshown
<1>9. Unshown' = {}
  <2>1. \A k \in Handlers : ~Pending(k)'
    <3> SUFFICES ASSUME NEW k \in Handlers, Pending(k)' PROVE FALSE OBVIOUS
    <3>1. k # h BY <1>5 DEF Pending, HasAnswer
    <3>2. Pending(k) /\ ~Followed(k) BY <1>3, <1>4, <3>1 DEF Pending, IdeasInv, ThreadInv, OwnOK
    <3>3. HasAnswer(k) BY <3>2 DEF Pending, HasAnswer
    <3> QED BY <3>2, <3>3 DEF IdeasInv, ThreadInv, OwnOK
  <2> QED BY <2>1 DEF Unshown
<1>10. PICK T : T = Heard OBVIOUS
<1>11. T \in SUBSET Int /\ IsFiniteSet(T) BY <1>2, <1>10, ToldIs
<1>12. \A i : OfIdea(i)' = OfIdea(i) BY <1>1 DEF OfIdea, tables
<1>13. RealOK BY DEF IdeasInv, ThreadInv
<1>14. CASE Pending(h)
  <2>1. c \in DOMAIN comments /\ comments[c].of = detail.idea /\ comments[c].by = "me"
    BY <1>3, <1>14 DEF IdeasInv, ThreadInv, OwnOK
  <2>2. c \in Nat BY <1>2, <2>1 DEF TablesOK
  <2>3. yes \in BOOLEAN /\ yes OBVIOUS
  <2> HIDE DEF yes, c, zero, n
  <2>4. item \in ItemRecords /\ item.id = c /\ item.mine = yes BY <2>2, <2>3 DEF ItemRecords
  <2> HIDE DEF item
  <2>5. items \in Seq(ItemRecords) BY <1>7, <2>4
  <2>6. items = Append(thread.items, item) OBVIOUS
  <2> HIDE DEF items
  <2>7. x \in ThreadRecords /\ x.items = items /\ x.total = n /\ x.page = thread.page /\ x.load = thread.load
    BY <1>6, <1>7, <2>5 DEF ThreadRecords
  <2> HIDE DEF x
  <2>8. thread' = x BY <1>1, <1>14
  <2>9. ThreadOK' BY <1>6, <2>7, <2>8 DEF ThreadOK
  <2>10. RealOK'
    <3>1. \A k \in DOMAIN items : (k \in DOMAIN thread.items /\ items[k] = thread.items[k]) \/ items[k] = item
      BY <1>7, <2>4, <2>6
    <3>2. Real(items) BY <1>13, <2>1, <2>3, <2>4, <3>1 DEF RealOK, Real
    <3> QED BY <1>1, <1>13, <2>7, <2>8, <3>2 DEF RealOK, Real, tables
  <2>11. WholeOK'
    <3> SUFFICES ASSUME Showing, ~crossed PROVE Whole(Heard, Unshown, thread, own)'
      BY <1>1 DEF WholeOK, Showing
    <3>1. Whole(T, {c}, thread, "sent") BY <1>3, <1>8, <1>10, <1>14 DEF IdeasInv, ThreadInv, WholeOK
    <3>2. \A d \in T : d < c BY <3>1 DEF Whole
    <3>3. Whole(T \cup {c}, {}, x, "told")
      <4>1. x.total = thread.before + 1 BY <2>7 DEF n
      <4>2. c \in Int BY <2>2
      <4>3. "told" # "sent" OBVIOUS
      <4> QED BY <1>6, <1>11, <2>4, <2>6, <2>7, <3>1, <3>2, <4>1, <4>2, <4>3, WholeAppended
    <3>4. Heard' = T \cup {c}
      <4>1. c \in OfIdea(detail.idea) BY <2>1 DEF OfIdea
      <4>2. Heard' = OfIdea(detail.idea) BY <1>1, <1>9, <1>12 DEF Heard, OfIdea, tables
      <4>3. T = OfIdea(detail.idea) \ {c} BY <1>8, <1>10, <1>14 DEF Heard
      <4> QED BY <4>1, <4>2, <4>3
    <3> QED BY <1>1, <1>9, <2>8, <3>3, <3>4
  <2> QED BY <1>1, <1>3, <1>4, <1>5, <2>9, <2>10, <2>11, OverThread
<1>15. CASE ~Pending(h)
  <2> HIDE DEF zero, x
  <2>1. y \in ThreadRecords /\ y.items = thread.items /\ y.total = thread.total /\ y.page = thread.page
        /\ y.load = thread.load
    BY <1>6, <1>7 DEF ThreadRecords
  <2>2. thread' = y BY <1>1, <1>15
  <2> HIDE DEF y
  <2>3. ThreadOK' BY <1>6, <2>1, <2>2 DEF ThreadOK
  <2>4. RealOK' BY <1>1, <1>13, <2>1, <2>2 DEF RealOK, Real, tables
  <2>5. WholeOK'
    <3> SUFFICES ASSUME Showing, ~crossed PROVE Whole(Heard, Unshown, thread, own)'
      BY <1>1 DEF WholeOK, Showing
    <3>1. Whole(T, {}, thread, own) BY <1>8, <1>10, <1>15 DEF IdeasInv, ThreadInv, WholeOK
    <3>2. Heard' = T BY <1>1, <1>8, <1>9, <1>10, <1>12, <1>15 DEF Heard, OfIdea, tables
    <3>3. Arrived(y) = Arrived(thread) BY <2>1 DEF Arrived
    <3>4. \A m : Covers(T, thread, m) => Covers(T, y, m) BY <2>1, <3>3 DEF Covers
    <3>5. Whole(T, {}, y, "told") BY <2>1, <3>1, <3>4 DEF Whole
    <3> QED BY <1>1, <1>9, <2>2, <3>2, <3>5
  <2> QED BY <1>1, <1>3, <1>4, <1>5, <2>3, <2>4, <2>5, OverThread
<1> QED BY <1>14, <1>15

\* The answer is lost: what it would have told, if anything, is not known.
LEMMA LostThread == ASSUME IdeasInv, NEW h \in Handlers, PostLost(h) PROVE ThreadInv'
<1> DEFINE no == FALSE
           zero == 0
           r == serving[h]
           y == [thread EXCEPT !.before = zero]
           unheard == [r EXCEPT !.heard = no]
<1>1. /\ Followed(h) /\ own' = "told" /\ thread' = y /\ crossed' = (crossed \/ r.at = "ok")
      /\ serving' = [serving EXCEPT ![h] = IF HasAnswer(h) THEN Free ELSE unheard]
      /\ UNCHANGED <<tables, detail, calls>>
  BY DEF PostLost, Followed, HasAnswer
<1>2. TablesOK /\ ServingOK BY DEF IdeasInv, QuotaInv
<1>3. r \in ServiceRecords BY <1>1, <1>2, InService DEF Followed
<1>4. no \in BOOLEAN /\ ~no /\ zero \in Nat OBVIOUS
<1> HIDE DEF no, zero, r
<1>5. unheard \in ServiceRecords /\ unheard.heard = no /\ unheard.at = r.at BY <1>3, <1>4, HeardPut
<1> HIDE DEF unheard
<1>6. /\ serving'[h] = IF HasAnswer(h) THEN Free ELSE unheard
      /\ \A k \in Handlers : k # h => serving'[k] = serving[k]
  BY <1>1, <1>2 DEF ServingOK
<1>7. ~Followed(h)' /\ ~HasAnswer(h)'
  <2>1. CASE HasAnswer(h) BY <1>6, <2>1, InService DEF Followed, HasAnswer
  <2>2. CASE ~HasAnswer(h) BY <1>4, <1>5, <1>6, <2>2 DEF Followed, HasAnswer, r
  <2> QED BY <2>1, <2>2
<1>8. thread \in ThreadRecords BY DEF IdeasInv, ThreadInv, ThreadOK
<1>9. y \in ThreadRecords /\ y.items = thread.items /\ y.total = thread.total /\ y.page = thread.page
      /\ y.load = thread.load
  BY <1>4, <1>8 DEF ThreadRecords
<1> HIDE DEF y
<1>10. ThreadOK' BY <1>1, <1>9 DEF IdeasInv, ThreadInv, ThreadOK
<1>11. RealOK' BY <1>1, <1>9 DEF IdeasInv, ThreadInv, RealOK, Real, tables
<1>12. WholeOK'
  <2> SUFFICES ASSUME Showing, ~crossed' PROVE Whole(Heard, Unshown, thread, own)'
    BY <1>1 DEF WholeOK, Showing
  <2>1. ~crossed /\ ~Pending(h) BY <1>1 DEF Pending, r
  <2>2. Unshown = {} BY <1>1, <2>1, OneUnshown
  <2>3. Unshown' = {}
    <3>1. \A k \in Handlers : ~Pending(k)
      <4> SUFFICES ASSUME NEW k \in Handlers, Pending(k) PROVE FALSE OBVIOUS
      <4>1. serving[k].post.row \in Unshown BY DEF Unshown
      <4> QED BY <2>2, <4>1
    <3>2. \A k \in Handlers : ~Pending(k)'
      <4> SUFFICES ASSUME NEW k \in Handlers, Pending(k)' PROVE FALSE OBVIOUS
      <4>1. k # h BY <1>7 DEF Pending, HasAnswer
      <4> QED BY <1>6, <3>1, <4>1 DEF Pending
    <3> QED BY <3>2 DEF Unshown
  <2>4. PICK T : T = Heard OBVIOUS
  <2>5. Whole(T, {}, thread, own) BY <2>1, <2>2, <2>4 DEF IdeasInv, ThreadInv, WholeOK
  <2>6. Heard' = T BY <1>1, <2>2, <2>3, <2>4 DEF Heard, OfIdea, tables
  <2>7. Arrived(y) = Arrived(thread) BY <1>9 DEF Arrived
  <2>8. \A m : Covers(T, thread, m) => Covers(T, y, m) BY <1>9, <2>7 DEF Covers
  <2>9. Whole(T, {}, y, "told") BY <1>9, <2>5, <2>8 DEF Whole
  <2> QED BY <1>1, <2>3, <2>6, <2>9
<1> QED BY <1>1, <1>6, <1>7, <1>10, <1>11, <1>12, OverThread

--------------------------------------------------------------------------------
(* Every step *)

\* A request goes on, or is answered with a refusal.
LEMMA ServedThread ==
  ASSUME IdeasInv, UNCHANGED <<tables, board, own, crossed>>, NEW h \in Handlers, NEW r, ServiceAt(h, r),
         serving[h] # Free, ~HasAnswer(h),
         \/ r = Free
         \/ /\ r \in ServiceRecords /\ r.heard = serving[h].heard /\ r.post = serving[h].post
            /\ r.at # "ok" /\ (r.at = "refused" => r.heard)
  PROVE  ThreadInv'
<1>1. ServingOK BY DEF IdeasInv, QuotaInv
<1>2. serving'[h] = r /\ \A k \in Handlers : k # h => serving'[k] = serving[k] BY <1>1, ServiceAtIs
<1>3. ~Pending(h) /\ ~Pending(h)' /\ (HasAnswer(h)' => Followed(h)')
      /\ (Followed(h)' => /\ Followed(h) /\ serving'[h].post.by = serving[h].post.by
                          /\ serving'[h].post.of = serving[h].post.of)
  <2>1. ~Pending(h) BY DEF Pending, HasAnswer
  <2>2. CASE r = Free BY <1>2, <2>1, <2>2, InService DEF Pending, HasAnswer, Followed
  <2>3. CASE r \in ServiceRecords /\ r.heard = serving[h].heard /\ r.post = serving[h].post
             /\ r.at # "ok" /\ (r.at = "refused" => r.heard)
    <3>1. r # Free BY <2>3, InService
    <3> QED BY <1>2, <2>1, <2>3, <3>1 DEF Pending, HasAnswer, Followed
  <2> QED BY <2>2, <2>3
<1> QED BY <1>2, <1>3, ServerStays DEF tables

\* A refusal tells the page nothing it has to count.
LEMMA ReplyThread ==
  ASSUME IdeasInv, UNCHANGED <<tables, board, own, crossed>>, NEW h \in Handlers, Reply(h, "refused"),
         serving[h].at \in {"counting", "inserting"}
  PROVE  ThreadInv'
<1> DEFINE r == serving[h]
           refused == "refused"
           x == IF r.heard THEN [r EXCEPT !.at = refused] ELSE Free
<1>1. ServingOK BY DEF IdeasInv, QuotaInv
<1>2. ServiceAt(h, x) BY <1>1, ReplyIs
<1>3. r # Free /\ r \in ServiceRecords /\ ~HasAnswer(h)
  <2>1. r.at # "free" BY DEF HasAnswer
  <2> QED BY <1>1, <2>1, InService DEF HasAnswer
<1>4. refused = "refused" /\ refused \in Steps BY DEF Steps
<1> HIDE DEF r, refused
<1>5. CASE r.heard
  <2>1. x = [r EXCEPT !.at = refused] BY <1>5
  <2> HIDE DEF x
  <2>2. x \in ServiceRecords /\ x.at = refused /\ x.heard = r.heard /\ x.post = r.post
    BY <1>3, <1>4, <2>1, AtPut
  <2>3. x.at # "ok" /\ x.heard BY <1>4, <1>5, <2>2
  <2> QED BY <1>2, <1>3, <2>2, <2>3, ServedThread DEF r
<1>6. CASE ~r.heard
  <2>1. x = Free BY <1>6
  <2> HIDE DEF x
  <2> QED BY <1>2, <1>3, <2>1, ServedThread DEF r
<1> QED BY <1>5, <1>6

\* A request that counted goes on or is refused.
LEMMA CountThread == ASSUME IdeasInv, NEW h \in Handlers, NEW blank, Count(h, blank) PROVE ThreadInv'
<1>1. /\ serving[h].at = "counting" /\ UNCHANGED <<tables, board, own, crossed>>
      /\ Reply(h, "refused") \/ serving' = [serving EXCEPT ![h].at = "inserting"]
  BY DEF Count
<1>2. CASE Reply(h, "refused") BY <1>1, <1>2, ReplyThread
<1>3. CASE serving' = [serving EXCEPT ![h].at = "inserting"]
  <2> DEFINE r == serving[h]
             ins == "inserting"
             x == [r EXCEPT !.at = ins]
  <2>1. ServingOK BY DEF IdeasInv, QuotaInv
  <2>2. ServiceAt(h, x) BY <1>3, <2>1 DEF ServiceAt, ServingOK
  <2>3. r # Free /\ r \in ServiceRecords /\ ~HasAnswer(h)
    <3>1. r.at # "free" BY <1>1
    <3> QED BY <1>1, <2>1, <3>1, InService DEF HasAnswer
  <2>4. ins = "inserting" /\ ins \in Steps BY DEF Steps
  <2> HIDE DEF r, ins
  <2>5. x \in ServiceRecords /\ x.at = ins /\ x.heard = r.heard /\ x.post = r.post BY <2>3, <2>4, AtPut
  <2> HIDE DEF x
  <2>6. x.at # "ok" /\ x.at # "refused" BY <2>4, <2>5
  <2> QED BY <1>1, <2>2, <2>3, <2>5, <2>6, ServedThread DEF r
<1> QED BY <1>1, <1>2, <1>3

\* Nobody listens to what others post until it is written.
LEMMA OthersThread ==
  ASSUME IdeasInv, NEW h \in Handlers, NEW i \in Busy, NEW ip \in Ips, OthersPost(h, i, ip) PROVE ThreadInv'
<1> DEFINE no == FALSE
           post == [kind |-> "comment", of |-> i, ip |-> ip, by |-> "other", row |-> 0]
<1>1. no \in BOOLEAN /\ ~no /\ Admit(h, post, no) /\ UNCHANGED <<tables, board, own, crossed>> BY DEF OthersPost
<1>2. post \in PostRecords BY IdeasAssumption DEF PostRecords, PostKinds
<1>3. ServingOK BY DEF IdeasInv, QuotaInv
<1> HIDE DEF no, post
<1>4. PICK r : /\ ServiceAt(h, r) /\ serving[h] = Free
               /\ \/ r = Free
                  \/ /\ r \in ServiceRecords /\ r.heard = no
                     /\ r.at \in {"counting", "refused"} /\ (r.at = "refused" => no)
  BY <1>1, <1>2, <1>3, AdmitIs
<1>5. serving'[h] = r /\ \A k \in Handlers : k # h => serving'[k] = serving[k] BY <1>3, <1>4, ServiceAtIs
<1>6. ~Pending(h) /\ ~Pending(h)' /\ ~HasAnswer(h)' /\ ~Followed(h)'
  <2>1. ~Pending(h) BY <1>4, InService DEF Pending
  <2>2. CASE r = Free BY <1>5, <2>1, <2>2, InService DEF Pending, HasAnswer, Followed
  <2>3. CASE r # Free
    <3>1. ~r.heard /\ r.at = "counting" BY <1>1, <1>4, <2>3
    <3> QED BY <1>5, <2>1, <3>1 DEF Pending, HasAnswer, Followed
  <2> QED BY <2>2, <2>3
<1> QED BY <1>1, <1>5, <1>6, ServerStays DEF tables

\* A row that leaves the window stays where it is.
LEMMA AgesThread ==
  ASSUME IdeasInv, NEW kind \in PostKinds, NEW ip \in Ips, OldestAges(kind, ip) PROVE ThreadInv'
<1> DEFINE no == FALSE
           young(entries) == {r \in DOMAIN entries : entries[r].ip = ip /\ entries[r].recent}
           oldest(entries) == CHOOSE r \in young(entries) : \A s \in young(entries) : r <= s
           o == oldest(comments)
           aged == [comments EXCEPT ![o].recent = no]
<1>1. (comments' = aged \/ comments' = comments) /\ UNCHANGED <<serving, board, own, crossed>> BY DEF OldestAges
<1>2. comments \in Seq(CommentRows) BY DEF IdeasInv, QuotaInv, TablesOK
<1>3. no \in BOOLEAN OBVIOUS
<1> HIDE DEF no, o
<1>4. DOMAIN aged = DOMAIN comments /\ \A c \in DOMAIN comments : aged[c].of = comments[c].of /\ aged[c].by = comments[c].by
  <2>1. DOMAIN aged = DOMAIN comments /\ \A c \in DOMAIN comments : c # o => aged[c] = comments[c] OBVIOUS
  <2>2. ASSUME o \in DOMAIN comments PROVE aged[o].of = comments[o].of /\ aged[o].by = comments[o].by
    <3>1. aged[o] = [comments[o] EXCEPT !.recent = no] BY <2>2
    <3>2. comments[o] \in CommentRows BY <1>2, <2>2
    <3>3. \A x \in CommentRows : /\ [x EXCEPT !.recent = no].of = x.of
                                 /\ [x EXCEPT !.recent = no].by = x.by
      BY DEF CommentRows
    <3> HIDE DEF aged
    <3> QED BY <3>1, <3>2, <3>3
  <2> HIDE DEF aged
  <2> QED BY <2>1, <2>2
<1> HIDE DEF aged
<1>5. /\ DOMAIN comments' = DOMAIN comments
      /\ \A c \in DOMAIN comments : comments'[c].of = comments[c].of /\ comments'[c].by = comments[c].by
  BY <1>1, <1>4
<1> QED BY <1>1, <1>5, ServerStays

\* Every step keeps the invariant.
LEMMA IdeasStep == ASSUME IdeasInv, [IdeasNext]_ideasVars PROVE IdeasInv'
<1>1. QuotaInv' BY QuotaStep DEF IdeasInv, ThreadInv
<1>2. ThreadInv'
  <2>1. ASSUME UNCHANGED <<comments, serving, board, own, crossed>> PROVE ThreadInv'
    <3>1. /\ DOMAIN comments' = DOMAIN comments /\ \A h \in Handlers : serving'[h] = serving[h]
          /\ \A c \in DOMAIN comments : comments'[c].of = comments[c].of /\ comments'[c].by = comments[c].by
      BY <2>1
    <3> QED BY <2>1, <3>1, ServerStays
  <2>2. ASSUME NEW h \in Handlers, NEW blank \in BOOLEAN, Count(h, blank) PROVE ThreadInv' BY <2>2, CountThread
  <2>3. ASSUME NEW h \in Handlers, Create(h) PROVE ThreadInv' BY <2>3, CreateThread
  <2>4. ASSUME NEW h \in Handlers, QueryFails(h) PROVE ThreadInv'
    <3>1. /\ UNCHANGED <<tables, board, own, crossed>> /\ Reply(h, "refused")
          /\ serving[h].at \in {"counting", "inserting"}
      BY <2>4 DEF QueryFails
    <3> QED BY <3>1, ReplyThread
  <2>5. ASSUME NEW h \in Handlers, NEW i \in Busy, NEW ip \in Ips, OthersPost(h, i, ip) PROVE ThreadInv'
    BY <2>5, OthersThread
  <2>6. ASSUME NEW kind \in PostKinds, NEW ip \in Ips, Refill(kind, ip) PROVE ThreadInv'
    BY <2>1, <2>6 DEF Refill, tables
  <2>7. ASSUME NEW kind \in PostKinds, NEW ip \in Ips, OldestAges(kind, ip) PROVE ThreadInv' BY <2>7, AgesThread
  <2>8. ASSUME ServerRestarts PROVE ThreadInv'
    <3>1. ServingOK BY DEF IdeasInv, QuotaInv
    <3>2. ASSUME NEW h \in Handlers
          PROVE  \/ serving'[h] = serving[h]
                 \/ /\ ~Pending(h) /\ ~Pending(h)'
                    /\ Followed(h)' => /\ Followed(h) /\ serving'[h].post.by = serving[h].post.by
                                       /\ serving'[h].post.of = serving[h].post.of
                    /\ HasAnswer(h)' => Followed(h)'
      <4>1. CASE serving'[h] = Free /\ ~HasAnswer(h) BY <4>1, InService DEF Pending, Followed, HasAnswer
      <4>2. CASE /\ serving'[h] \in ServiceRecords /\ serving'[h].at = "refused" /\ ~HasAnswer(h)
                 /\ serving[h] # Free /\ serving'[h].heard /\ serving[h].heard
                 /\ serving'[h].post = serving[h].post
        <5>1. serving'[h] # Free BY <4>2, InService
        <5> QED BY <4>2, <5>1 DEF Pending, Followed, HasAnswer
      <4> QED BY <2>8, <3>1, <4>1, <4>2, RestartIs
    <3>3. UNCHANGED <<comments, board, own, crossed>> BY <2>8 DEF ServerRestarts, tables
    <3>4. /\ DOMAIN comments' = DOMAIN comments
          /\ \A c \in DOMAIN comments : comments'[c].of = comments[c].of /\ comments'[c].by = comments[c].by
      BY <3>3
    <3> QED BY <3>2, <3>3, <3>4, ServerStays
  <2>9. ASSUME NEW i \in DOMAIN ideas, Open(i) PROVE ThreadInv' BY <2>9, OpenThread
  <2>10. ASSUME NEW i \in Busy, Moderate(i) PROVE ThreadInv' BY <2>1, <2>10 DEF Moderate
  <2>11. ASSUME Leave PROVE ThreadInv' BY <2>11, LeaveThread
  <2>12. ASSUME LoadMore PROVE ThreadInv' BY <2>12, MoreThread
  <2>13. ASSUME ListRead PROVE ThreadInv' BY <2>13, ReadThread
  <2>14. ASSUME NEW g \in calls, IdeaAnswered(g) \/ IdeaFails(g) PROVE ThreadInv' BY <2>14, IdeaThread
  <2>15. ASSUME NEW ok \in BOOLEAN, ListAnswered(ok) PROVE ThreadInv' BY <2>15, AnsweredThread
  <2>16. ASSUME NEW h \in Handlers, NEW kind \in PostKinds, Post(h, kind) PROVE ThreadInv' BY <2>16, PostThread
  <2>17. ASSUME NEW h \in Handlers, PostAnswered(h) PROVE ThreadInv' BY <2>17, TellThread
  <2>18. ASSUME NEW h \in Handlers, PostLost(h) PROVE ThreadInv' BY <2>18, LostThread
  <2>19. CASE UNCHANGED ideasVars BY <2>1, <2>19 DEF ideasVars, tables
  <2> QED
    BY <2>2, <2>3, <2>4, <2>5, <2>6, <2>7, <2>8, <2>9, <2>10, <2>11, <2>12, <2>13, <2>14, <2>15, <2>16, <2>17,
       <2>18, <2>19
    DEF IdeasNext
<1> QED BY <1>1, <1>2 DEF IdeasInv

\* It holds of the tables found, before anybody is served.
LEMMA IdeasStart == IdeasInit => IdeasInv
<1> SUFFICES ASSUME IdeasInit PROVE IdeasInv OBVIOUS
<1>1. TablesOK BY IdeasAssumption DEF IdeasInit, TablesOK
<1>2. \A h \in Handlers : serving[h] = Free BY DEF IdeasInit
<1>3. ServingOK BY DEF IdeasInit, ServingOK
<1>4. QuotaHolds
  <2> SUFFICES ASSUME NEW kind \in PostKinds, NEW ip \in Ips
               PROVE  CountSince(kind, ip) + Cardinality(Writing(kind, ip)) <= PerDay + Cardinality(Handlers) - 1
    BY QuotaIs
  <2>1. Writing(kind, ip) = {} BY <1>2, InService DEF Writing
  <2>2. Cardinality(Writing(kind, ip)) = 0 BY <2>1, FS_EmptySet
  <2>3. CountSince(kind, ip) < PerDay + Cardinality(Handlers)
    <3>1. CASE kind = "idea" BY <3>1, IdeasAssumption DEF IdeasInit, CountSince
    <3>2. CASE kind # "idea" BY <3>2, IdeasAssumption DEF IdeasInit, CountSince
    <3> QED BY <3>1, <3>2
  <2>4. CountSince(kind, ip) \in Nat BY <1>1, CountType
  <2>5. PICK n : n = CountSince(kind, ip) OBVIOUS
  <2>6. n + 0 <= PerDay + Cardinality(Handlers) - 1 BY <2>3, <2>4, <2>5, HandlersFinite
  <2> QED BY <2>2, <2>5, <2>6
<1>5. /\ detail = NoDetail /\ calls = {} /\ thread = NoThread /\ own = "idle" BY DEF IdeasInit
<1>6. DetailOK /\ ~Showing /\ AddressOK /\ CallsOK
  <2> DEFINE no == FALSE
  <2>1. NoDetail = [id |-> 0, idea |-> 0, loading |-> no, problem |-> "no"] BY DEF NoDetail
  <2>2. no \in BOOLEAN OBVIOUS
  <2> HIDE DEF no
  <2>3. NoDetail \in DetailRecords /\ NoDetail.idea = 0 BY <2>1, <2>2 DEF DetailRecords
  <2> QED BY <1>5, <2>3 DEF DetailOK, Showing, AddressOK, CallsOK
<1>7. ThreadOK /\ thread.items = <<>> /\ thread.load.items = <<>>
  <2>1. /\ NoThread \in ThreadRecords /\ NoThread.items = <<>> /\ NoThread.load = NoLoad /\ NoThread.page = 1
        /\ NoLoad.at = "none" /\ NoLoad.items = <<>>
    BY NoLoadIs
  <2> QED BY <1>5, <2>1 DEF ThreadOK
<1>8. RealOK BY <1>7 DEF RealOK, Real
<1>9. OwnOK BY <1>2, <1>5, InService DEF OwnOK, Followed, HasAnswer, Pending
<1> QED BY <1>1, <1>3, <1>4, <1>6, <1>7, <1>8, <1>9 DEF IdeasInv, QuotaInv, ThreadInv, WholeOK

\* However many requests are handled at one time, however often the server starts
\* again, and whatever is lost on the way to the page: no address writes more
\* than its cap and the handlers allow, and a thread that offers no more shows
\* every comment of the idea that is addressed (ratelimit.go:1-12,
\* IdeaDetailPage.tsx, CommentSection.tsx).
THEOREM BoardStaysSound == IdeasSpec => []BoardSound
<1>1. IdeasInv => BoardSound BY AllShown DEF BoardSound, IdeasInv, QuotaInv
<1> QED BY IdeasStart, IdeasStep, <1>1, PTL DEF IdeasSpec
================================================================================
