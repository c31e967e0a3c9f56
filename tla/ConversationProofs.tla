-------------------------- MODULE ConversationProofs ---------------------------
(***************************************************************************)
(* Proofs about conversations: the question to the documentation's assistant *)
(* (Ask), and the move of Codex's sessions to another provider (Sessions). *)
(***************************************************************************)
EXTENDS Ask, Sessions, SequenceTheorems, TLAPS

--------------------------------------------------------------------------------
(***************************************************************************)
(* Ask: however many rounds, calls and pieces the model produces, wherever *)
(* the stream, the connection or the deadline cuts in, the model is only   *)
(* sent histories it accepts, and what the visitor saw agrees with the     *)
(* owner's row.                                                            *)
(*                                                                         *)
(* The history is complete only between rounds, so the invariant is about  *)
(* the history with the answers that are still owed.  The bubble lags      *)
(* behind the handler by the frames on the wire, so the invariant says     *)
(* that handling them one by one leads, through bubbles that show no more  *)
(* than was counted, to one that shows exactly that.                       *)
(***************************************************************************)

(* The history. *)

\* The answers to tool calls that are not executed yet.
Owed(calls) == [k \in DOMAIN calls |-> ToolAnswer(calls[k])]

Accepted(t) ==
  \A m \in DOMAIN t :
    IF t[m].role = "assistant"
    THEN /\ t[m].reasoning # "none"
         /\ t[m].calls # <<>>
         /\ \A k \in DOMAIN t[m].calls : m + k \in DOMAIN t /\ t[m + k] = ToolAnswer(t[m].calls[k])
    ELSE \E a \in 1..(m - 1) : t[a].role = "assistant" /\ m - a <= Len(t[a].calls)

LEMMA OwedAnswers ==
  ASSUME NEW calls \in Seq(Ids)
  PROVE  /\ Owed(calls) \in Seq(Message) /\ Len(Owed(calls)) = Len(calls)
         /\ \A k \in DOMAIN calls : Owed(calls)[k] = ToolAnswer(calls[k]) /\ ToolAnswer(calls[k]) \in Message
<1>1. \A k \in DOMAIN calls : ToolAnswer(calls[k]) \in Message
  BY DEF ToolAnswer, Message
<1>2. Len(calls) \in Nat /\ DOMAIN calls = 1 .. Len(calls)
  OBVIOUS
<1>3. Owed(calls) \in [1 .. Len(calls) -> Message]
  BY <1>1, <1>2 DEF Owed
<1>4. Owed(calls) \in Seq(Message) /\ Len(Owed(calls)) = Len(calls)
  BY <1>2, <1>3, SeqDef
<1> QED BY <1>1, <1>4 DEF Owed

(* An assistant turn joins an acceptable history, with the answers to come.    *)
LEMMA TurnJoins ==
  ASSUME NEW t \in Seq(Message), Accepted(t), NEW a \in Message, a.role = "assistant",
         a.reasoning # "none", a.calls # <<>>
  PROVE  Accepted(Append(t, a) \o Owed(a.calls))
<1> DEFINE o == Owed(a.calls)
           v == Append(t, a) \o o
           n == Len(t)
           c == Len(a.calls)
<1>1. a.calls \in Seq(Ids) /\ c \in Nat /\ DOMAIN a.calls = 1 .. c
  BY DEF Message
<1>2. /\ o \in Seq(Message) /\ Len(o) = c
      /\ \A k \in DOMAIN a.calls : o[k] = ToolAnswer(a.calls[k])
  BY <1>1, OwedAnswers
<1> HIDE DEF o, c
<1> DEFINE u == Append(t, a)
<1>6. /\ n \in Nat /\ DOMAIN t = 1 .. n /\ u \in Seq(Message) /\ Len(u) = n + 1 /\ u[n + 1] = a
      /\ \A m \in 1 .. n : u[m] = t[m]
  OBVIOUS
<1> HIDE DEF u, n
<1>7. /\ u \o o \in Seq(Message) /\ Len(u \o o) = Len(u) + Len(o)
      /\ \A m \in 1 .. Len(u) + Len(o) : (u \o o)[m] = IF m <= Len(u) THEN u[m] ELSE o[m - Len(u)]
  <2>1. u \in Seq(Message) /\ o \in Seq(Message)
    BY <1>2, <1>6
  <2> QED BY <2>1, ConcatProperties
<1>8. v = u \o o
  BY DEF u
<1> HIDE DEF v
<1>3. /\ n \in Nat /\ v \in Seq(Message) /\ Len(v) = n + 1 + c /\ DOMAIN v = 1 .. Len(v)
      /\ DOMAIN t = 1 .. n
      /\ \A m \in 1 .. n : v[m] = t[m]
      /\ v[n + 1] = a
      /\ \A k \in 1 .. c : v[n + 1 + k] = o[k]
  <2>1. \A m \in 1 .. n : v[m] = t[m]
    <3> SUFFICES ASSUME NEW m \in 1 .. n PROVE v[m] = t[m]
      OBVIOUS
    <3>1. m \in Nat /\ 1 <= m /\ m <= n
      BY <1>6
    <3>2. m \in 1 .. Len(u) + Len(o) /\ m <= Len(u)
      BY <1>1, <1>2, <1>6, <3>1
    <3>3. v[m] = u[m]
      BY <1>7, <1>8, <3>2
    <3> QED BY <1>6, <3>3
  <2>2. v[n + 1] = a
    BY <1>1, <1>2, <1>6, <1>7, <1>8
  <2>3. \A k \in 1 .. c : v[n + 1 + k] = o[k]
    BY <1>1, <1>2, <1>6, <1>7, <1>8
  <2>4. v \in Seq(Message) /\ Len(v) = n + 1 + c
    BY <1>1, <1>2, <1>6, <1>7, <1>8
  <2>5. DOMAIN v = 1 .. Len(v)
    BY <2>4
  <2> QED BY <1>6, <2>1, <2>2, <2>3, <2>4, <2>5
<1>4. ASSUME NEW m \in DOMAIN v, v[m].role = "assistant"
      PROVE  /\ v[m].reasoning # "none" /\ v[m].calls # <<>>
             /\ \A k \in DOMAIN v[m].calls : m + k \in DOMAIN v /\ v[m + k] = ToolAnswer(v[m].calls[k])
  <2>1. CASE m \in 1 .. n
    <3>1. \A k \in DOMAIN t[m].calls : m + k \in 1 .. n /\ t[m + k] = ToolAnswer(t[m].calls[k])
      BY <1>3, <1>4, <2>1 DEF Accepted
    <3>2. t[m].reasoning # "none" /\ t[m].calls # <<>>
      BY <1>3, <1>4, <2>1 DEF Accepted
    <3>3. v[m] = t[m] /\ \A k \in 1 .. n : v[k] = t[k]
      BY <1>3, <2>1
    <3>4. n \in Nat /\ c \in Nat /\ DOMAIN v = 1 .. n + 1 + c
      BY <1>1, <1>3
    <3>5. 1 .. n \subseteq DOMAIN v
      BY <3>4
    <3> QED BY <3>1, <3>2, <3>3, <3>5
  <2>2. CASE m = n + 1
    <3>1. v[m] = a /\ \A k \in 1 .. c : m + k \in DOMAIN v /\ v[m + k] = o[k]
      <4>1. v[m] = a /\ \A k \in 1 .. c : v[m + k] = o[k]
        BY <1>3, <2>2
      <4>2. \A k \in 1 .. c : m + k \in 1 .. (n + 1 + c)
        BY <1>1, <1>3, <2>2
      <4> QED BY <1>3, <4>1, <4>2
    <3> QED BY <1>1, <1>2, <3>1
  <2>3. CASE m > n + 1
    <3>1. m - (n + 1) \in 1 .. c /\ m = n + 1 + (m - (n + 1))
      BY <1>1, <1>3, <2>3
    <3>2. v[m] = ToolAnswer(a.calls[m - (n + 1)])
      BY <1>1, <1>2, <1>3, <3>1
    <3> QED BY <1>4, <3>2 DEF ToolAnswer
  <2> QED BY <1>3, <2>1, <2>2, <2>3
<1>5. ASSUME NEW m \in DOMAIN v, v[m].role # "assistant"
      PROVE  \E x \in 1 .. (m - 1) : v[x].role = "assistant" /\ m - x <= Len(v[x].calls)
  <2>1. CASE m \in 1 .. n
    <3>1. PICK x \in 1 .. (m - 1) : t[x].role = "assistant" /\ m - x <= Len(t[x].calls)
      BY <1>3, <1>5, <2>1 DEF Accepted
    <3>2. x \in 1 .. n
      BY <1>3, <2>1, <3>1
    <3> QED BY <1>3, <3>1, <3>2
  <2>2. CASE m = n + 1
    BY <1>3, <1>5, <2>2
  <2>3. CASE m > n + 1
    <3>1. m \in Int /\ m <= n + 1 + c /\ n \in Nat /\ c \in Nat
      BY <1>1, <1>3
    <3>2. n + 1 \in 1 .. (m - 1) /\ m - (n + 1) <= c
      BY <2>3, <3>1
    <3>3. v[n + 1].role = "assistant" /\ v[n + 1].calls = a.calls
      BY <1>3
    <3> QED BY <3>2, <3>3 DEF c
  <2> QED BY <1>3, <2>1, <2>2, <2>3
<1> QED BY <1>4, <1>5 DEF Accepted, v, u, o

(* An answer that is given is no longer owed.                                  *)
LEMMA AnswerGiven ==
  ASSUME NEW t \in Seq(Message), NEW d \in Seq(Ids), d # <<>>
  PROVE  /\ Append(t, ToolAnswer(Head(d))) \o Owed(Tail(d)) = t \o Owed(d)
         /\ Append(t, ToolAnswer(Head(d))) \in Seq(Message) /\ Tail(d) \in Seq(Ids) /\ Head(d) \in Ids
<1> DEFINE e == Tail(d)
           b == ToolAnswer(Head(d))
<1>1. /\ e \in Seq(Ids) /\ Len(d) \in Nat /\ Len(d) > 0 /\ Len(e) = Len(d) - 1 /\ DOMAIN d = 1 .. Len(d)
      /\ DOMAIN e = 1 .. Len(e) /\ \A k \in DOMAIN e : e[k] = d[k + 1]
      /\ Head(d) = d[1] /\ Head(d) \in Ids
  OBVIOUS
<1>2. /\ Owed(d) \in Seq(Message) /\ Len(Owed(d)) = Len(d)
      /\ \A k \in DOMAIN d : Owed(d)[k] = ToolAnswer(d[k]) /\ ToolAnswer(d[k]) \in Message
  BY OwedAnswers
<1> HIDE DEF e
<1>3. /\ Owed(e) \in Seq(Message) /\ Len(Owed(e)) = Len(e)
      /\ \A k \in DOMAIN e : Owed(e)[k] = ToolAnswer(e[k])
  BY <1>1, OwedAnswers
<1>4. b = ToolAnswer(d[1]) /\ b \in Message /\ <<b>> \in Seq(Message) /\ Len(<<b>>) = 1 /\ <<b>>[1] = b
  BY <1>1, <1>2
<1> HIDE DEF b
<1> DEFINE l == <<b>> \o Owed(e)
<1>5. /\ l \in Seq(Message) /\ Len(l) = 1 + Len(e)
      /\ \A i \in 1 .. 1 + Len(e) : l[i] = IF i <= 1 THEN <<b>>[i] ELSE Owed(e)[i - 1]
  BY <1>3, <1>4, ConcatProperties
<1> HIDE DEF l
<1>6. ASSUME NEW k \in 1 .. Len(l) PROVE l[k] = Owed(d)[k]
  <2>1. CASE k = 1
    BY <1>1, <1>2, <1>4, <1>5, <2>1
  <2>2. CASE k > 1
    <3>0. k \in Nat /\ k <= 1 + Len(e) /\ Len(e) \in Nat /\ k \in 1 .. 1 + Len(e)
      BY <1>1, <1>5
    <3>1. k - 1 \in DOMAIN e /\ k \in DOMAIN d /\ l[k] = Owed(e)[k - 1]
      <4>1. k - 1 \in 1 .. Len(e) /\ k \in 1 .. Len(d)
        BY <1>1, <2>2, <3>0
      <4>2. l[k] = Owed(e)[k - 1]
        BY <1>5, <2>2, <3>0
      <4> QED BY <1>1, <4>1, <4>2
    <3>2. e[k - 1] = d[(k - 1) + 1] /\ (k - 1) + 1 = k
      BY <1>1, <3>1
    <3> QED BY <1>2, <1>3, <3>1, <3>2
  <2> QED BY <1>1, <1>5, <2>1, <2>2
<1>7. l = Owed(d)
  <2>1. Len(l) = Len(Owed(d))
    BY <1>1, <1>2, <1>5
  <2> QED BY <1>2, <1>5, <1>6, <2>1, SeqEqual
<1>8. Append(t, b) = t \o <<b>> /\ Append(t, b) \in Seq(Message)
  BY <1>4
<1>9. (t \o <<b>>) \o Owed(e) = t \o l
  BY <1>3, <1>4, ConcatAssociative DEF l
<1> QED BY <1>1, <1>7, <1>8, <1>9 DEF b, e

--------------------------------------------------------------------------------
(* The frames on their way. *)

Terminal == {"done", "error", "status"}

\* What a frame makes of the bubble; the last one only ends the drawer's loop.
Handled(b, f) == IF f.kind \in Terminal THEN b ELSE Shown(b, f)

\* A bubble that shows no more than was counted, and one that shows all of it.
Within(b, t, p) ==
  /\ b.answer <= t.answer /\ b.thinking <= t.thinking
  /\ Len(b.steps) <= t.calls /\ b.docs \subseteq p

Complete(b, t, p) ==
  /\ ~b.errored /\ b.answer = t.answer /\ b.thinking = t.thinking
  /\ Len(b.steps) = t.calls /\ b.docs = p
  /\ \A i \in DOMAIN b.steps : ~b.steps[i].pending

\* Handling the frames w one by one leads from the bubble b to the bubble e.
Leads(b, w, e, t, p) ==
  \E h \in [0 .. Len(w) -> Bubble] :
    /\ h[0] = b /\ h[Len(w)] = e
    /\ \A i \in 1 .. Len(w) : h[i] = Handled(h[i - 1], w[i])
    /\ \A i \in 0 .. Len(w) : Within(h[i], t, p)

(* Every frame is a thing the drawer can show.                                 *)
LEMMA HandledType ==
  ASSUME NEW b \in Bubble, NEW f \in Frames
  PROVE  Handled(b, f) \in Bubble
<1>1. CASE f.kind \in {"done", "error", "status"}
  BY <1>1 DEF Handled, Terminal
<1>2. CASE f.kind \in {"thinking", "delta", "docs"}
  <2>1. f.docs \in SUBSET Slugs
    BY DEF Frames
  <2>2. Handled(b, f) = Shown(b, f)
    BY <1>2 DEF Handled, Terminal
  <2>3. /\ f.kind = "thinking" => Shown(b, f) = [b EXCEPT !.thinking = @ + 1]
        /\ f.kind = "delta" => Shown(b, f) = [b EXCEPT !.answer = @ + 1]
        /\ f.kind = "docs" => Shown(b, f) = [b EXCEPT !.docs = f.docs]
    BY DEF Shown
  <2>4. b.thinking + 1 \in Nat /\ b.answer + 1 \in Nat
    BY DEF Bubble
  <2> QED BY <1>2, <2>1, <2>2, <2>3, <2>4 DEF Bubble
<1>3. CASE f.kind = "tool_call"
  <2>1. [id |-> f.id, pending |-> TRUE] \in Step
    BY <1>3 DEF Frames, Step
  <2>2. Append(b.steps, [id |-> f.id, pending |-> TRUE]) \in Seq(Step)
    BY <2>1 DEF Bubble
  <2> QED BY <1>3, <2>2 DEF Handled, Terminal, Shown, Bubble
<1>4. CASE f.kind = "tool_result"
  <2>1. b.steps \in Seq(Step)
    BY DEF Bubble
  <2>2. \A i \in DOMAIN b.steps : b.steps[i] \in Step
    BY <2>1
  <2>3. Settled(b.steps, f.id) \in [DOMAIN b.steps -> Step]
    BY <2>2 DEF Settled, Step
  <2>4. Settled(b.steps, f.id) \in Seq(Step)
    <3>1. Len(b.steps) \in Nat /\ DOMAIN b.steps = 1 .. Len(b.steps)
      BY <2>1
    <3> QED BY <2>3, <3>1, SeqDef
  <2>5. Handled(b, f) = [b EXCEPT !.steps = Settled(b.steps, f.id)]
    BY <1>4 DEF Handled, Terminal, Shown
  <2> QED BY <2>4, <2>5 DEF Bubble
<1> QED BY <1>1, <1>2, <1>3, <1>4 DEF Frames

LEMMA LeadsStart ==
  ASSUME NEW b \in Bubble, NEW t, NEW p, Within(b, t, p)
  PROVE  Leads(b, <<>>, b, t, p)
<1> DEFINE h == [i \in 0 .. 0 |-> b]
<1>1. h \in [0 .. Len(<<>>) -> Bubble] /\ h[0] = b /\ Len(<<>>) = 0
  OBVIOUS
<1> HIDE DEF h
<1>2. \A i \in 0 .. 0 : Within(h[i], t, p)
  BY <1>1
<1> QED BY <1>1, <1>2 DEF Leads

(* One more frame.                                                             *)
LEMMA LeadsOn ==
  ASSUME NEW b \in Bubble, NEW w \in Seq(Frames), NEW e \in Bubble, NEW t, NEW p, Leads(b, w, e, t, p),
         NEW f \in Frames, Within(Handled(e, f), t, p)
  PROVE  Leads(b, Append(w, f), Handled(e, f), t, p)
<1>1. PICK h \in [0 .. Len(w) -> Bubble] :
        /\ h[0] = b /\ h[Len(w)] = e
        /\ \A i \in 1 .. Len(w) : h[i] = Handled(h[i - 1], w[i])
        /\ \A i \in 0 .. Len(w) : Within(h[i], t, p)
  BY DEF Leads
<1> DEFINE n == Len(w)
           v == Append(w, f)
           x == Handled(e, f)
           g == [i \in 0 .. n + 1 |-> IF i <= n THEN h[i] ELSE x]
<1>2. /\ n \in Nat /\ v \in Seq(Frames) /\ Len(v) = n + 1 /\ v[n + 1] = f
      /\ \A i \in 1 .. n : v[i] = w[i]
  OBVIOUS
<1>3. x \in Bubble
  BY HandledType
<1> HIDE DEF n, v, x
<1>4. g \in [0 .. n + 1 -> Bubble] /\ g[n + 1] = x /\ \A i \in 0 .. n : g[i] = h[i]
  BY <1>1, <1>2, <1>3 DEF n
<1> HIDE DEF g
<1>5. g[0] = b /\ g[n] = e
  BY <1>1, <1>2, <1>4 DEF n
<1>6. ASSUME NEW i \in 1 .. n + 1 PROVE g[i] = Handled(g[i - 1], v[i])
  <2>1. CASE i = n + 1
    <3>1. i - 1 = n
      BY <1>2, <2>1
    <3> QED BY <1>2, <1>4, <1>5, <2>1, <3>1 DEF x
  <2>2. CASE i # n + 1
    <3>1. i \in 1 .. n /\ i \in 0 .. n /\ i - 1 \in 0 .. n
      BY <1>2, <2>2
    <3>2. g[i] = h[i] /\ g[i - 1] = h[i - 1] /\ v[i] = w[i]
      BY <1>2, <1>4, <3>1
    <3>3. h[i] = Handled(h[i - 1], w[i])
      BY <1>1, <3>1 DEF n
    <3> QED BY <3>2, <3>3
  <2> QED BY <2>1, <2>2
<1>7. ASSUME NEW i \in 0 .. n + 1 PROVE Within(g[i], t, p)
  <2>1. CASE i = n + 1
    BY <1>4, <2>1 DEF x
  <2>2. CASE i # n + 1
    <3>1. i \in 0 .. n
      BY <1>2, <2>2
    <3> QED BY <1>1, <1>4, <3>1 DEF n
  <2> QED BY <2>1, <2>2
<1>8. Leads(b, v, x, t, p)
  BY <1>2, <1>4, <1>5, <1>6, <1>7 DEF Leads
<1> QED BY <1>8 DEF v, x

(* The first frame is handled.                                                 *)
LEMMA LeadsLess ==
  ASSUME NEW b \in Bubble, NEW w \in Seq(Frames), NEW e \in Bubble, NEW t, NEW p, Leads(b, w, e, t, p),
         w # <<>>
  PROVE  Leads(Handled(b, Head(w)), Tail(w), e, t, p)
<1>1. PICK h \in [0 .. Len(w) -> Bubble] :
        /\ h[0] = b /\ h[Len(w)] = e
        /\ \A i \in 1 .. Len(w) : h[i] = Handled(h[i - 1], w[i])
        /\ \A i \in 0 .. Len(w) : Within(h[i], t, p)
  BY DEF Leads
<1> DEFINE n == Len(w)
           v == Tail(w)
           g == [i \in 0 .. n - 1 |-> h[i + 1]]
<1>2. /\ n \in Nat /\ n > 0 /\ v \in Seq(Frames) /\ Len(v) = n - 1 /\ Head(w) = w[1]
      /\ \A i \in 1 .. n - 1 : v[i] = w[i + 1]
  OBVIOUS
<1> HIDE DEF n, v
<1>3. g \in [0 .. n - 1 -> Bubble] /\ \A i \in 0 .. n - 1 : g[i] = h[i + 1]
  BY <1>1, <1>2 DEF n
<1> HIDE DEF g
<1>4. g[0] = Handled(b, Head(w)) /\ g[n - 1] = e
  <2>1. h[1] = Handled(h[1 - 1], w[1]) /\ 1 - 1 = 0
    BY <1>1, <1>2 DEF n
  <2>2. 0 \in 0 .. n - 1 /\ n - 1 \in 0 .. n - 1 /\ 0 + 1 = 1 /\ (n - 1) + 1 = n
    BY <1>2
  <2>3. h[n] = e /\ h[0] = b
    BY <1>1 DEF n
  <2> QED BY <1>2, <1>3, <2>1, <2>2, <2>3
<1>5. ASSUME NEW i \in 1 .. n - 1 PROVE g[i] = Handled(g[i - 1], v[i])
  <2>1. /\ i + 1 \in 1 .. n /\ i \in 0 .. n - 1 /\ i - 1 \in 0 .. n - 1 /\ (i - 1) + 1 = i /\ (i + 1) - 1 = i
    BY <1>2
  <2>2. h[i + 1] = Handled(h[i], w[i + 1])
    BY <1>1, <2>1 DEF n
  <2> QED BY <1>2, <1>3, <2>1, <2>2
<1>6. ASSUME NEW i \in 0 .. n - 1 PROVE Within(g[i], t, p)
  <2>1. i + 1 \in 0 .. n
    BY <1>2
  <2> QED BY <1>1, <1>3, <2>1 DEF n
<1>7. Leads(Handled(b, Head(w)), v, e, t, p)
  BY <1>2, <1>3, <1>4, <1>5, <1>6 DEF Leads
<1> QED BY <1>7 DEF v

(* More is counted.                                                            *)
LEMMA LeadsWider ==
  ASSUME NEW b, NEW w \in Seq(Frames), NEW e, NEW t \in Tally, NEW p, Leads(b, w, e, t, p),
         NEW u \in Tally, NEW q, t.answer <= u.answer, t.thinking <= u.thinking, t.calls <= u.calls, p \subseteq q
  PROVE  Leads(b, w, e, u, q)
<1>1. ASSUME NEW x \in Bubble, Within(x, t, p) PROVE Within(x, u, q)
  <2>1. Len(x.steps) \in Nat
    BY DEF Bubble
  <2> QED BY <1>1, <2>1 DEF Within, Bubble, Tally
<1>2. PICK h \in [0 .. Len(w) -> Bubble] :
        /\ h[0] = b /\ h[Len(w)] = e
        /\ \A i \in 1 .. Len(w) : h[i] = Handled(h[i - 1], w[i])
        /\ \A i \in 0 .. Len(w) : Within(h[i], t, p)
  BY DEF Leads
<1>3. \A i \in 0 .. Len(w) : Within(h[i], u, q)
  BY <1>1, <1>2
<1> QED BY <1>2, <1>3 DEF Leads

(* The ends of the way.                                                        *)
LEMMA LeadsEnds ==
  ASSUME NEW b, NEW w \in Seq(Frames), NEW e, NEW t, NEW p, Leads(b, w, e, t, p)
  PROVE  Within(b, t, p) /\ (w = <<>> => b = e) /\ b \in Bubble
<1>1. PICK h \in [0 .. Len(w) -> Bubble] :
        /\ h[0] = b /\ h[Len(w)] = e
        /\ \A i \in 0 .. Len(w) : Within(h[i], t, p)
  BY DEF Leads
<1>2. Len(w) \in Nat /\ 0 \in 0 .. Len(w) /\ (w = <<>> => Len(w) = 0)
  OBVIOUS
<1> QED BY <1>1, <1>2

--------------------------------------------------------------------------------
(* The invariant. *)

(* Nothing has happened before the question is asked.                          *)
Unasked ==
  /\ drawer = "ready" <=> stage = "idle"
  /\ stage = "idle" => /\ wire = <<>> /\ bubble = NoBubble /\ pulled = {} /\ how = "no" /\ ctx = "live"
                       /\ tally = [answer |-> 0, thinking |-> 0, calls |-> 0]

(* A drawer that reads will have shown everything; a handler that is done has  *)
(* sent it the last word, unless the deadline was over.                        *)
Reading ==
  drawer = "reading" =>
    /\ how = "no" /\ ctx # "cancelled"
    /\ \E e \in Bubble : Leads(bubble, wire, e, tally, pulled) /\ Complete(e, tally, pulled)
    /\ stage = "over" => ctx = "expired" \/ (wire # <<>> /\ wire[Len(wire)].kind \in Terminal)

(* Nothing follows the last word.                                              *)
LastWord ==
  \A i \in DOMAIN wire :
    wire[i].kind \in Terminal => /\ i = Len(wire) /\ stage = "over"
                                 /\ wire[i].kind = "done" => ended # "failed"

Finished ==
  /\ drawer = "finished" => Within(bubble, tally, pulled)
  /\ how = "done" => Complete(bubble, tally, pulled) /\ stage = "over" /\ ended # "failed"
  /\ how = "closed" => ctx = "expired"
  /\ drawer # "finished" => how = "no"

RowTrue ==
  row # None => /\ stage \in {"reply", "over"}
                /\ row = [answer |-> tally.answer, thinking |-> tally.thinking, slugs |-> pulled,
                          calls |-> tally.calls, errored |-> ended = "failed"]

AskInv ==
  /\ TypeOK /\ Accepted(talk \o Owed(todo))
  /\ Unasked /\ Reading /\ LastWord /\ Finished /\ RowTrue

LEMMA AskInit ==
  ASSUME Init
  PROVE  AskInv
<1>1. TypeOK
  <2>1. NoBubble \in Bubble /\ NoTurn \in [thinking : 0..MaxPieces, answer : 0..MaxPieces, calls : Seq(Ids)]
    <3>1. <<>> \in Seq(Step) /\ <<>> \in Seq(Ids) /\ {} \in SUBSET Slugs /\ 0 \in 0 .. MaxPieces
      BY AskAssumption
    <3> QED BY <3>1 DEF NoBubble, NoTurn, Bubble
  <2>2. 0 \in 0 .. MaxRounds
    BY AskAssumption
  <2> QED BY <2>1, <2>2 DEF Init, TypeOK, Tally
<1>2. Accepted(talk \o Owed(todo))
  <2>1. Owed(<<>>) \in Seq(Message) /\ Len(Owed(<<>>)) = 0
    <3>1. <<>> \in Seq(Ids) /\ Len(<<>>) = 0
      OBVIOUS
    <3> QED BY <3>1, OwedAnswers
  <2>2. <<>> \o Owed(<<>>) = <<>>
    BY <2>1
  <2> QED BY <2>2 DEF Init, Accepted
<1>3. Unasked /\ Reading /\ LastWord /\ Finished /\ RowTrue
  BY DEF Init, Unasked, Reading, LastWord, Finished, RowTrue
<1> QED BY <1>1, <1>2, <1>3 DEF AskInv

(* The frames on the wire hold no last word.                                   *)
NoLast(w) == \A i \in DOMAIN w : w[i].kind \notin Terminal

LEMMA NothingLast ==
  ASSUME AskInv, stage # "over"
  PROVE  NoLast(wire) /\ how # "done"
BY DEF AskInv, LastWord, NoLast, Finished

LEMMA LastOn ==
  ASSUME NEW w \in Seq(Frames), NEW f \in Frames
  PROVE  /\ w \o <<f>> = Append(w, f) /\ Append(w, f) \in Seq(Frames)
         /\ NoLast(w) /\ f.kind \notin Terminal => NoLast(Append(w, f))
<1>1. w \o <<f>> = Append(w, f) /\ Append(w, f) \in Seq(Frames)
  OBVIOUS
<1>2. ASSUME NoLast(w), f.kind \notin Terminal PROVE NoLast(Append(w, f))
  <2> DEFINE n == Len(w)
  <2>1. /\ n \in Nat /\ DOMAIN w = 1 .. n /\ DOMAIN Append(w, f) = 1 .. n + 1
        /\ \A i \in 1 .. n : Append(w, f)[i] = w[i]
        /\ Append(w, f)[n + 1] = f
    OBVIOUS
  <2> HIDE DEF n
  <2>2. \A i \in 1 .. n + 1 : i \in 1 .. n \/ i = n + 1
    BY <2>1
  <2> QED BY <1>2, <2>1, <2>2 DEF NoLast
<1> QED BY <1>1, <1>2

(* A step of the handler on the way to the last word: what it writes and what  *)
(* it counts belong together.                                                  *)
LEMMA HandlerGoesOn ==
  ASSUME AskInv, TypeOK', Accepted(talk' \o Owed(todo')), UNCHANGED <<client, row, ctx>>, row = None,
         stage \notin {"idle", "over"}, stage' \notin {"idle", "over"},
         tally.answer <= tally'.answer, tally.thinking <= tally'.thinking, tally.calls <= tally'.calls,
         pulled \subseteq pulled',
         drawer = "finished" => wire' = <<>>,
         drawer = "reading" => NoLast(wire'),
         drawer = "reading" =>
           \E e \in Bubble : Leads(bubble, wire', e, tally', pulled') /\ Complete(e, tally', pulled')
  PROVE  AskInv'
<1>1. drawer' = drawer /\ how' = how /\ bubble' = bubble /\ row' = row /\ ctx' = ctx
  BY DEF client
<1>2. drawer \in {"reading", "finished"} /\ how # "done"
  BY NothingLast DEF AskInv, Unasked, TypeOK
<1>3. Unasked' /\ Reading'
  BY <1>1, <1>2 DEF AskInv, Unasked, Reading
<1>4. LastWord'
  <2>1. NoLast(wire')
    BY <1>2 DEF NoLast
  <2> QED BY <2>1 DEF LastWord, NoLast
<1>5. Finished'
  <2>1. Within(bubble, tally, pulled) => Within(bubble, tally', pulled')
    <3>1. bubble \in Bubble /\ tally \in Tally /\ tally' \in Tally
      BY DEF AskInv, TypeOK
    <3>2. Len(bubble.steps) \in Nat
      BY <3>1 DEF Bubble
    <3> QED BY <3>1, <3>2 DEF Within, Bubble, Tally
  <2> QED BY <1>1, <1>2, <2>1 DEF AskInv, Finished
<1> QED BY <1>1, <1>3, <1>4, <1>5 DEF AskInv, RowTrue

(* A step that neither writes nor counts.                                      *)
LEMMA HandlerMoves ==
  ASSUME AskInv, TypeOK', Accepted(talk' \o Owed(todo')), UNCHANGED <<client, wire, tally, pulled, row, ctx>>,
         row = None, stage \notin {"idle", "over"}, stage' \notin {"idle", "over"}
  PROVE  AskInv'
<1>1. /\ drawer' = drawer /\ how' = how /\ bubble' = bubble /\ row' = row /\ ctx' = ctx
      /\ wire' = wire /\ tally' = tally /\ pulled' = pulled
  BY DEF client
<1>2. drawer \in {"reading", "finished"}
  BY DEF AskInv, Unasked, TypeOK
<1>3. NoLast(wire') /\ how # "done"
  BY <1>1, NothingLast
<1>4. Unasked' /\ Reading'
  BY <1>1, <1>2 DEF AskInv, Unasked, Reading
<1>5. LastWord' /\ Finished'
  <2>1. LastWord'
    BY <1>3 DEF LastWord, NoLast
  <2> QED BY <1>1, <1>3, <2>1 DEF AskInv, Finished
<1> QED BY <1>1, <1>4, <1>5 DEF AskInv, RowTrue

(* The handler's end, with a last word unless the context is dead.             *)
LEMMA HandlerEnds ==
  ASSUME AskInv, TypeOK', UNCHANGED <<client, tally, pulled, row, ctx, talk, todo>>,
         stage \notin {"idle", "over"}, stage' = "over", row = None \/ ended' = ended,
         \/ wire' = wire /\ ctx # "live"
         \/ \E f \in Frames : f.kind \in Terminal /\ (f.kind = "done" => ended' # "failed") /\ Emit(<<f>>)
  PROVE  AskInv'
<1>1. /\ drawer' = drawer /\ how' = how /\ bubble' = bubble /\ row' = row /\ ctx' = ctx
      /\ tally' = tally /\ pulled' = pulled /\ talk' = talk /\ todo' = todo
  BY DEF client
<1>2. drawer \in {"reading", "finished"} /\ how # "done"
  BY NothingLast DEF AskInv, Unasked, TypeOK
<1>3. NoLast(wire) /\ wire \in Seq(Frames)
  BY NothingLast DEF AskInv, TypeOK
<1>4. Unasked' /\ Finished' /\ RowTrue'
  BY <1>1, <1>2 DEF AskInv, Unasked, Finished, RowTrue
<1>5. Reading' /\ LastWord'
  <2>1. CASE wire' = wire /\ ctx # "live"
    <3>1. LastWord'
      BY <1>3, <2>1 DEF LastWord, NoLast
    <3>2. ctx \in {"live", "cancelled", "expired"}
      BY DEF AskInv, TypeOK
    <3> QED BY <1>1, <2>1, <3>1, <3>2 DEF AskInv, Reading
  <2>2. CASE \E f \in Frames : f.kind \in Terminal /\ (f.kind = "done" => ended' # "failed") /\ Emit(<<f>>)
    <3>1. PICK f \in Frames : f.kind \in Terminal /\ (f.kind = "done" => ended' # "failed") /\ Emit(<<f>>)
      BY <2>2
    <3>2. CASE drawer = "finished"
      <4>1. wire' = <<>>
        BY <3>1, <3>2 DEF Emit
      <4> QED BY <1>1, <3>2, <4>1 DEF Reading, LastWord
    <3>3. CASE drawer = "reading"
      <4>1. wire' = Append(wire, f)
        BY <1>3, <3>1, <3>3, LastOn DEF Emit
      <4> DEFINE n == Len(wire)
      <4>2. /\ n \in Nat /\ DOMAIN wire = 1 .. n /\ DOMAIN wire' = 1 .. n + 1 /\ Len(wire') = n + 1
            /\ (\A i \in 1 .. n : wire'[i] = wire[i]) /\ wire'[n + 1] = f /\ wire' # <<>>
        BY <1>3, <4>1
      <4> HIDE DEF n
      <4>3. LastWord'
        <5>1. \A i \in 1 .. n + 1 : i \in 1 .. n \/ i = n + 1
          BY <4>2
        <5> QED BY <1>3, <3>1, <4>2, <5>1 DEF LastWord, NoLast
      <4>4. PICK e \in Bubble : Leads(bubble, wire, e, tally, pulled) /\ Complete(e, tally, pulled)
        BY <3>3 DEF AskInv, Reading
      <4>5. Handled(e, f) = e
        BY <3>1 DEF Handled
      <4>6. Within(e, tally, pulled)
        <5>1. Len(e.steps) \in Nat
          BY DEF Bubble
        <5> QED BY <4>4, <5>1 DEF Complete, Within, Bubble
      <4>7. Leads(bubble, wire', e, tally, pulled)
        <5>1. bubble \in Bubble
          BY DEF AskInv, TypeOK
        <5> QED BY <1>3, <4>1, <4>4, <4>5, <4>6, <5>1, LeadsOn
      <4> QED BY <1>1, <3>1, <3>3, <4>2, <4>3, <4>4, <4>7 DEF AskInv, Reading
    <3> QED BY <1>2, <3>2, <3>3
  <2> QED BY <2>1, <2>2
<1> QED BY <1>1, <1>4, <1>5 DEF AskInv

--------------------------------------------------------------------------------
(* The handler's steps. *)

LEMMA AdmitInv ==
  ASSUME AskInv, NEW question \in Questions, NEW allowed \in BOOLEAN, Admit(question, allowed)
  PROVE  AskInv'
<1>1. row = None /\ stage = "asked" /\ todo = <<>>
  BY DEF AskInv, RowTrue, Admit, TypeOK
<1>2. CASE question = "oversized"
  <2> DEFINE f == Word("status")
  <2>1. stage' = "over" /\ ended' = "refused" /\ Emit(<<f>>) /\ round' = round
    BY <1>2 DEF Admit
  <2>2. f \in Frames /\ f.kind \in Terminal /\ f.kind # "done"
    BY DEF Frames, Word, Frame, Terminal
  <2> HIDE DEF f
  <2>3. wire' \in Seq(Frames)
    <3>1. wire \in Seq(Frames) /\ <<f>> \in Seq(Frames)
      BY <2>2 DEF AskInv, TypeOK
    <3> QED BY <2>1, <3>1 DEF Emit
  <2>4. TypeOK'
    BY <1>1, <2>1, <2>3 DEF AskInv, TypeOK, Admit, client
  <2> QED BY <1>1, <2>1, <2>2, <2>4, HandlerEnds DEF Admit
<1>3. CASE question # "oversized"
  <2>1. /\ stage' \in {"reply", "call"} /\ round' \in {round, 1} /\ ended' \in {ended, "refused"}
        /\ wire' = wire
    BY <1>3 DEF Admit
  <2>2. 1 \in 0 .. MaxRounds
    BY AskAssumption
  <2>3. TypeOK'
    BY <1>1, <2>1, <2>2 DEF AskInv, TypeOK, Admit, client
  <2>4. Accepted(talk' \o Owed(todo'))
    BY DEF AskInv, Admit
  <2> QED BY <1>1, <2>1, <2>3, <2>4, HandlerMoves DEF Admit
<1> QED BY <1>2, <1>3

(* The steps on which the stream opens, or is over without calls to answer.    *)
LEMMA ReturnInv ==
  ASSUME AskInv, CallFails \/ CallAbandoned \/ CallOpens \/ StreamBreaks \/ StreamAbandoned
  PROVE  AskInv'
<1>1. /\ stage \in {"call", "reading"} /\ stage' \in {"saving", "reading"}
      /\ ended' \in {"no", "answered", "cancelled", "failed", "refused"}
      /\ UNCHANGED <<round, ctx, talk, todo, pulled, tally, wire, row, client>>
      /\ turn' \in {turn, NoTurn}
  BY DEF AskInv, TypeOK, CallFails, CallAbandoned, CallOpens, StreamBreaks, StreamAbandoned, Return
<1>2. row = None /\ todo = <<>>
  BY <1>1 DEF AskInv, RowTrue, TypeOK
<1>3. NoTurn \in [thinking : 0..MaxPieces, answer : 0..MaxPieces, calls : Seq(Ids)]
  <2>1. <<>> \in Seq(Ids) /\ 0 \in 0 .. MaxPieces
    BY AskAssumption
  <2> QED BY <2>1 DEF NoTurn
<1>4. TypeOK'
  BY <1>1, <1>2, <1>3 DEF AskInv, TypeOK, client
<1>5. Accepted(talk' \o Owed(todo'))
  BY <1>1 DEF AskInv
<1> QED BY <1>1, <1>2, <1>4, <1>5, HandlerMoves

LEMMA FragmentInv ==
  ASSUME AskInv, NEW i \in 1 .. MaxCalls, NEW id \in Ids, Fragment(i, id)
  PROVE  AskInv'
<1>1. row = None /\ stage = "reading" /\ stage' = stage /\ todo = <<>>
  BY DEF AskInv, RowTrue, Fragment, TypeOK
<1>2. InsertAt(turn.calls, i, id) \in Seq(Ids)
  <2> DEFINE c == turn.calls
             n == Len(c)
  <2>1. c \in Seq(Ids) /\ n \in Nat /\ i \in 1 .. n + 1 /\ n \in i - 1 .. n
    BY AskAssumption DEF AskInv, TypeOK, Fragment
  <2> HIDE DEF c
  <2>2. 1 \in 1 .. n + 1 /\ i - 1 \in 1 - 1 .. n
    BY <2>1
  <2>3. SubSeq(c, 1, i - 1) \in Seq(Ids) /\ SubSeq(c, i, n) \in Seq(Ids)
    BY <2>1, <2>2, SubSeqProperties
  <2>4. SubSeq(c, 1, i - 1) \o <<id>> \o SubSeq(c, i, n) \in Seq(Ids)
    BY <2>3
  <2> QED BY <2>4 DEF InsertAt, c
<1>3. turn' \in [thinking : 0..MaxPieces, answer : 0..MaxPieces, calls : Seq(Ids)]
  BY <1>2 DEF AskInv, TypeOK, Fragment
<1>4. TypeOK'
  BY <1>1, <1>3 DEF AskInv, TypeOK, Fragment, client
<1>5. Accepted(talk' \o Owed(todo'))
  BY DEF AskInv, Fragment
<1> QED BY <1>1, <1>4, <1>5, HandlerMoves DEF Fragment

LEMMA StreamEndsInv ==
  ASSUME AskInv, StreamEnds
  PROVE  AskInv'
<1>1. row = None /\ stage = "reading" /\ todo = <<>> /\ talk \in Seq(Message) /\ turn.calls \in Seq(Ids)
  BY DEF AskInv, RowTrue, StreamEnds, TypeOK
<1>2. CASE turn.calls = <<>>
  <2>1. stage' = "saving" /\ ended' = "answered" /\ turn' = turn /\ talk' = talk /\ todo' = todo
    BY <1>2 DEF StreamEnds, Return
  <2>2. TypeOK'
    BY <1>1, <2>1 DEF AskInv, TypeOK, StreamEnds, client
  <2>3. Accepted(talk' \o Owed(todo'))
    BY <2>1 DEF AskInv
  <2> QED BY <1>1, <2>1, <2>2, <2>3, HandlerMoves DEF StreamEnds
<1>3. CASE turn.calls # <<>>
  <2> DEFINE a == Assistant(Reasoning(turn), turn.calls)
  <2>1. /\ stage' = "tools" /\ ended' = ended /\ talk' = Append(talk, a) /\ todo' = turn.calls
        /\ turn' = NoTurn
    BY <1>3 DEF StreamEnds
  <2>2. a \in Message /\ a.role = "assistant" /\ a.reasoning # "none" /\ a.calls = turn.calls
    BY <1>1 DEF Assistant, Reasoning, Message
  <2> HIDE DEF a
  <2>3. Accepted(talk)
    <3>1. <<>> \in Seq(Ids) /\ Len(<<>>) = 0
      OBVIOUS
    <3>2. Owed(<<>>) \in Seq(Message) /\ Len(Owed(<<>>)) = 0
      BY <3>1, OwedAnswers
    <3>3. Owed(<<>>) = <<>>
      BY <3>2
    <3>4. talk \o Owed(todo) = talk
      BY <1>1, <3>3
    <3> QED BY <3>4 DEF AskInv
  <2>4. Accepted(Append(talk, a) \o Owed(a.calls))
    BY <1>1, <1>3, <2>2, <2>3, TurnJoins
  <2>5. Accepted(talk' \o Owed(todo'))
    BY <2>1, <2>2, <2>4
  <2>6. TypeOK'
    <3>1. NoTurn \in [thinking : 0..MaxPieces, answer : 0..MaxPieces, calls : Seq(Ids)]
      <4>1. <<>> \in Seq(Ids) /\ 0 \in 0 .. MaxPieces
        BY AskAssumption
      <4> QED BY <4>1 DEF NoTurn
    <3>2. talk' \in Seq(Message)
      BY <1>1, <2>1, <2>2
    <3> QED BY <1>1, <1>3, <2>1, <3>1, <3>2 DEF AskInv, TypeOK, StreamEnds, client
  <2> QED BY <1>1, <2>1, <2>5, <2>6, HandlerMoves DEF StreamEnds
<1> QED BY <1>2, <1>3

LEMMA PieceInv ==
  ASSUME AskInv, Piece("thinking", "thinking") \/ Piece("delta", "answer")
  PROVE  AskInv'
<1>1. PICK kind \in {"thinking", "delta"}, buffer \in {"thinking", "answer"} :
        /\ Piece(kind, buffer)
        /\ kind = "thinking" <=> buffer = "thinking"
  OBVIOUS
<1> DEFINE f == Word(kind)
<1>2. f \in Frames /\ f.kind = kind /\ f.kind \notin Terminal
  BY DEF Word, Frame, Frames, Terminal
<1> HIDE DEF f
<1>3. /\ row = None /\ stage = "reading" /\ stage' = stage /\ todo = <<>> /\ todo' = todo /\ talk' = talk
      /\ pulled' = pulled /\ drawer' = drawer /\ bubble' = bubble /\ Emit(<<f>>)
      /\ turn[buffer] < MaxPieces
      /\ turn' = [turn EXCEPT ![buffer] = @ + 1] /\ tally' = [tally EXCEPT ![buffer] = @ + 1]
  BY <1>1 DEF AskInv, RowTrue, TypeOK, Piece, client, f
<1>4. wire \in Seq(Frames) /\ bubble \in Bubble /\ tally \in Tally
  BY DEF AskInv, TypeOK
<1>5. /\ drawer = "finished" => wire' = <<>>
      /\ drawer # "finished" => wire' = Append(wire, f)
      /\ wire' \in Seq(Frames)
  BY <1>2, <1>3, <1>4, LastOn DEF Emit
<1>6. /\ tally' \in Tally /\ tally'.calls = tally.calls
      /\ kind = "thinking" => tally'.thinking = tally.thinking + 1 /\ tally'.answer = tally.answer
      /\ kind = "delta" => tally'.answer = tally.answer + 1 /\ tally'.thinking = tally.thinking
  BY <1>1, <1>3, <1>4 DEF Tally
<1>7. TypeOK'
  <2>1. turn' \in [thinking : 0..MaxPieces, answer : 0..MaxPieces, calls : Seq(Ids)]
    <3>1. turn \in [thinking : 0..MaxPieces, answer : 0..MaxPieces, calls : Seq(Ids)]
      BY DEF AskInv, TypeOK
    <3>2. PICK n : n = turn[buffer]
      OBVIOUS
    <3>3. n + 1 \in 0 .. MaxPieces /\ turn' = [turn EXCEPT ![buffer] = n + 1]
      BY <1>1, <1>3, <3>1, <3>2, AskAssumption
    <3> QED BY <1>1, <3>1, <3>3
  <2> QED BY <1>1, <1>3, <1>5, <1>6, <2>1 DEF AskInv, TypeOK, Piece, client
<1>8. ASSUME drawer = "reading"
      PROVE  \E x \in Bubble : Leads(bubble, wire', x, tally', pulled') /\ Complete(x, tally', pulled')
  <2>1. PICK e \in Bubble : Leads(bubble, wire, e, tally, pulled) /\ Complete(e, tally, pulled)
    BY <1>8 DEF AskInv, Reading
  <2> DEFINE x == Handled(e, f)
  <2>2. /\ kind = "thinking" => x = [e EXCEPT !.thinking = @ + 1]
        /\ kind = "delta" => x = [e EXCEPT !.answer = @ + 1]
    BY <1>2 DEF Handled, Shown, Terminal
  <2>3. x \in Bubble
    BY <1>2, HandledType
  <2>4. /\ ~x.errored /\ x.answer = tally'.answer /\ x.thinking = tally'.thinking
        /\ x.steps = e.steps /\ x.docs = pulled'
    BY <1>3, <1>6, <2>1, <2>2 DEF Complete, Bubble
  <2> HIDE DEF x
  <2>5. Complete(x, tally', pulled')
    BY <1>6, <2>1, <2>4 DEF Complete
  <2>6. Within(x, tally', pulled')
    BY <1>6, <2>5 DEF Complete, Within, Tally
  <2>7. tally.answer <= tally'.answer /\ tally.thinking <= tally'.thinking /\ tally.calls <= tally'.calls
    BY <1>4, <1>6 DEF Tally
  <2>8. Leads(bubble, wire, e, tally', pulled')
    BY <1>3, <1>4, <1>6, <2>1, <2>7, LeadsWider
  <2>9. Leads(bubble, Append(wire, f), x, tally', pulled')
    BY <1>2, <1>4, <2>6, <2>8, LeadsOn DEF x
  <2> QED BY <1>5, <1>8, <2>3, <2>5, <2>9
<1>9. /\ tally.answer <= tally'.answer /\ tally.thinking <= tally'.thinking /\ tally.calls <= tally'.calls
      /\ pulled \subseteq pulled'
  BY <1>3, <1>4, <1>6 DEF Tally
<1>10. drawer = "reading" => NoLast(wire')
  BY <1>2, <1>3, <1>4, <1>5, NothingLast, LastOn
<1>11. Accepted(talk' \o Owed(todo'))
  BY <1>3 DEF AskInv
<1>12. UNCHANGED <<client, row, ctx>>
  BY <1>1 DEF Piece
<1> QED BY <1>3, <1>5, <1>7, <1>8, <1>9, <1>10, <1>11, <1>12, HandlerGoesOn

(* A call's three frames: its step appears, is settled, and the documents grow. *)
LEMMA CallShown ==
  ASSUME NEW e \in Bubble, NEW id \in Ids, NEW found \in SUBSET Slugs, NEW q \in SUBSET Slugs,
         NEW t \in Tally, NEW p \in SUBSET Slugs, Complete(e, t, p), p \subseteq q,
         NEW u, u = [t EXCEPT !.calls = @ + 1],
         NEW f, f = Frame("tool_call", id, {}), NEW g, g = Frame("tool_result", id, found),
         NEW d, d = Frame("docs", None, q)
  PROVE  /\ Handled(e, f) \in Bubble /\ Within(Handled(e, f), u, q)
         /\ Handled(Handled(e, f), g) \in Bubble /\ Within(Handled(Handled(e, f), g), u, q)
         /\ Handled(Handled(Handled(e, f), g), d) \in Bubble
         /\ Within(Handled(Handled(Handled(e, f), g), d), u, q)
         /\ Complete(Handled(Handled(Handled(e, f), g), d), u, q)
<1> DEFINE n == Len(e.steps)
           s == [id |-> id, pending |-> TRUE]
           x == Handled(e, f)
           y == Handled(x, g)
           z == Handled(y, d)
<1>1. f \in Frames /\ g \in Frames /\ d \in Frames
  BY DEF Frame, Frames
<1>2. x \in Bubble
  BY <1>1, HandledType
<1> HIDE DEF x
<1>3. y \in Bubble
  BY <1>1, <1>2, HandledType
<1> HIDE DEF y
<1>4. z \in Bubble
  BY <1>1, <1>3, HandledType
<1> HIDE DEF z
<1>5. /\ e.steps \in Seq(Step) /\ n \in Nat /\ DOMAIN e.steps = 1 .. n
      /\ \A i \in 1 .. n : e.steps[i] \in Step
  BY DEF Bubble
<1>6. s \in Step /\ s.id = id
  BY DEF Step
<1> HIDE DEF s
<1>7. /\ Append(e.steps, s) \in Seq(Step) /\ Len(Append(e.steps, s)) = n + 1
      /\ DOMAIN Append(e.steps, s) = 1 .. n + 1
      /\ \A i \in 1 .. n : Append(e.steps, s)[i] = e.steps[i]
      /\ Append(e.steps, s)[n + 1] = s
  BY <1>5, <1>6
<1> HIDE DEF n
<1>8. x = [e EXCEPT !.steps = Append(@, s)]
  BY DEF x, Handled, Shown, Frame, Terminal, s
<1>9. /\ x.steps = Append(e.steps, s) /\ x.answer = e.answer /\ x.thinking = e.thinking
      /\ x.docs = e.docs /\ x.errored = e.errored
  BY <1>8 DEF Bubble
<1>10. y = [x EXCEPT !.steps = Settled(@, id)]
  BY DEF y, Handled, Shown, Frame, Terminal
<1>11. /\ y.steps = Settled(x.steps, id) /\ y.answer = x.answer /\ y.thinking = x.thinking
       /\ y.docs = x.docs /\ y.errored = x.errored
  BY <1>2, <1>10 DEF Bubble
<1>12. z = [y EXCEPT !.docs = q]
  BY DEF z, Handled, Shown, Frame, Terminal
<1>13. /\ z.steps = y.steps /\ z.answer = y.answer /\ z.thinking = y.thinking
       /\ z.docs = q /\ z.errored = y.errored
  BY <1>3, <1>12 DEF Bubble
<1>14. /\ u.answer = t.answer /\ u.thinking = t.thinking /\ u.calls = t.calls + 1
       /\ t.answer \in Nat /\ t.thinking \in Nat /\ t.calls \in Nat
  BY DEF Tally
<1>15. e.answer = t.answer /\ e.thinking = t.thinking /\ n = t.calls /\ e.docs = p /\ ~e.errored
  BY DEF Complete, n
<1>16. /\ DOMAIN y.steps = 1 .. n + 1
       /\ \A i \in 1 .. n + 1 : y.steps[i] = IF x.steps[i].id = id
                                             THEN [x.steps[i] EXCEPT !.pending = FALSE] ELSE x.steps[i]
  BY <1>7, <1>9, <1>11 DEF Settled
<1>17. Len(y.steps) = n + 1
  BY <1>3, <1>5, <1>16 DEF Bubble
<1>18. ASSUME NEW i \in 1 .. n + 1 PROVE ~y.steps[i].pending
  <2>1. i \in 1 .. n \/ i = n + 1
    BY <1>5
  <2>2. x.steps[i] \in Step
    BY <1>5, <1>6, <1>7, <1>9, <2>1
  <2>3. x.steps[i].id # id => ~x.steps[i].pending
    <3>1. \A j \in 1 .. n : ~e.steps[j].pending
      BY <1>5 DEF Complete
    <3> QED BY <1>6, <1>7, <1>9, <2>1, <3>1
  <2> QED BY <1>16, <2>2, <2>3 DEF Step
<1>19. Within(x, u, q)
  BY <1>5, <1>7, <1>9, <1>14, <1>15 DEF Within
<1>20. Within(y, u, q)
  BY <1>5, <1>9, <1>11, <1>14, <1>15, <1>17 DEF Within
<1>21. Within(z, u, q)
  BY <1>5, <1>9, <1>11, <1>13, <1>14, <1>15, <1>17 DEF Within
<1>22. Complete(z, u, q)
  <2>1. \A i \in DOMAIN z.steps : ~z.steps[i].pending
    BY <1>13, <1>16, <1>18
  <2> QED BY <2>1, <1>9, <1>11, <1>13, <1>14, <1>15, <1>17 DEF Complete
<1> QED BY <1>2, <1>3, <1>4, <1>19, <1>20, <1>21, <1>22 DEF x, y, z

LEMMA ExecuteInv ==
  ASSUME AskInv, NEW found \in SUBSET Slugs, Execute(found)
  PROVE  AskInv'
<1> DEFINE id == Head(todo)
           f == Frame("tool_call", id, {})
           g == Frame("tool_result", id, found)
           d == Frame("docs", None, pulled')
<1>1. /\ stage = "tools" /\ todo # <<>> /\ row = None /\ todo \in Seq(Ids) /\ talk \in Seq(Message)
      /\ wire \in Seq(Frames) /\ bubble \in Bubble /\ tally \in Tally /\ pulled \in SUBSET Slugs
  BY DEF AskInv, TypeOK, RowTrue, Execute
<1>2. /\ pulled' = pulled \cup found /\ Emit(<<f, g, d>>) /\ tally' = [tally EXCEPT !.calls = @ + 1]
      /\ talk' = Append(talk, ToolAnswer(id)) /\ todo' = Tail(todo)
      /\ UNCHANGED <<ctx, turn, row, client>>
  BY DEF Execute
<1>3. /\ stage' \in {"tools", "call", "saving"} /\ (stage' = "tools" <=> todo' # <<>>)
      /\ round' \in 0 .. MaxRounds /\ ended' \in {"no", "answered", "cancelled", "failed", "refused"}
  <2>1. CASE todo' # <<>>
    BY <1>1, <2>1 DEF Execute, AskInv, TypeOK
  <2>2. CASE todo' = <<>> /\ round < MaxRounds
    <3>1. stage' = "call" /\ round' = round + 1 /\ ended' = ended
      BY <2>2 DEF Execute
    <3> QED BY <2>2, <3>1, AskAssumption DEF AskInv, TypeOK
  <2>3. CASE todo' = <<>> /\ ~(round < MaxRounds)
    <3>1. stage' = "saving" /\ round' = round /\ ended' = "failed"
      BY <2>3 DEF Execute, Return
    <3> QED BY <2>3, <3>1 DEF AskInv, TypeOK
  <2> QED BY <2>1, <2>2, <2>3
<1>4. /\ Append(talk, ToolAnswer(id)) \o Owed(Tail(todo)) = talk \o Owed(todo)
      /\ talk' \in Seq(Message) /\ todo' \in Seq(Ids) /\ id \in Ids
  BY <1>1, <1>2, AnswerGiven
<1>5. Accepted(talk' \o Owed(todo'))
  BY <1>2, <1>4 DEF AskInv
<1>6. pulled' \in SUBSET Slugs /\ pulled \subseteq pulled'
  BY <1>1, <1>2
<1>7. /\ f \in Frames /\ g \in Frames /\ d \in Frames
      /\ f.kind \notin Terminal /\ g.kind \notin Terminal /\ d.kind \notin Terminal
  BY <1>4, <1>6 DEF Frame, Frames, Terminal
<1>8. drawer' = drawer /\ bubble' = bubble
  BY <1>2 DEF client
<1> HIDE DEF f, g, d, id
<1> DEFINE w == Append(Append(Append(wire, f), g), d)
<1>9. /\ drawer = "finished" => wire' = <<>>
      /\ drawer # "finished" => wire' = w
      /\ w \in Seq(Frames) /\ Append(wire, f) \in Seq(Frames) /\ Append(Append(wire, f), g) \in Seq(Frames)
      /\ wire' \in Seq(Frames)
  <2>1. wire \o <<f, g, d>> = w
    BY <1>1, <1>7
  <2>2. w \in Seq(Frames) /\ Append(wire, f) \in Seq(Frames) /\ Append(Append(wire, f), g) \in Seq(Frames)
    BY <1>1, <1>7
  <2> QED BY <1>2, <2>1, <2>2 DEF Emit
<1>10. /\ tally' \in Tally /\ tally'.calls = tally.calls + 1 /\ tally'.answer = tally.answer
       /\ tally'.thinking = tally.thinking /\ tally.answer \in Nat /\ tally.thinking \in Nat /\ tally.calls \in Nat
  BY <1>1, <1>2 DEF Tally
<1>11. TypeOK'
  BY <1>2, <1>3, <1>4, <1>6, <1>9, <1>10 DEF AskInv, TypeOK, client
<1>12. ASSUME drawer = "reading"
       PROVE  \E x \in Bubble : Leads(bubble, wire', x, tally', pulled') /\ Complete(x, tally', pulled')
  <2>1. PICK e \in Bubble : Leads(bubble, wire, e, tally, pulled) /\ Complete(e, tally, pulled)
    BY <1>12 DEF AskInv, Reading
  <2> DEFINE x == Handled(e, f)
             y == Handled(x, g)
             z == Handled(y, d)
  <2>2. /\ x \in Bubble /\ Within(x, tally', pulled') /\ y \in Bubble /\ Within(y, tally', pulled')
        /\ z \in Bubble /\ Within(z, tally', pulled') /\ Complete(z, tally', pulled')
    BY <1>1, <1>2, <1>4, <1>6, <2>1, CallShown DEF f, g, d
  <2>3. Leads(bubble, wire, e, tally', pulled')
    BY <1>1, <1>6, <1>10, <2>1, LeadsWider
  <2> HIDE DEF z
  <2>4. Leads(bubble, Append(wire, f), x, tally', pulled')
    BY <1>1, <1>7, <2>2, <2>3, LeadsOn
  <2> HIDE DEF x
  <2>5. Leads(bubble, Append(Append(wire, f), g), y, tally', pulled')
    BY <1>1, <1>7, <1>9, <2>2, <2>4, LeadsOn
  <2> HIDE DEF y
  <2>6. Leads(bubble, w, z, tally', pulled')
    BY <1>1, <1>7, <1>9, <2>2, <2>5, LeadsOn DEF z
  <2> QED BY <1>9, <1>12, <2>2, <2>6
<1>13. drawer = "reading" => NoLast(wire')
  <2>1. NoLast(wire)
    BY <1>1, NothingLast
  <2>2. NoLast(Append(wire, f))
    BY <1>1, <1>7, <2>1, LastOn
  <2>3. NoLast(Append(Append(wire, f), g))
    BY <1>7, <1>9, <2>2, LastOn
  <2>4. NoLast(w)
    BY <1>7, <1>9, <2>3, LastOn
  <2> QED BY <1>9, <2>4
<1>14. /\ tally.answer <= tally'.answer /\ tally.thinking <= tally'.thinking /\ tally.calls <= tally'.calls
       /\ UNCHANGED <<client, row, ctx>>
  BY <1>2, <1>10
<1>15. stage \notin {"idle", "over"} /\ stage' \notin {"idle", "over"}
  BY <1>1, <1>3
<1> HIDE DEF w
<1> QED BY <1>1, <1>5, <1>6, <1>9, <1>11, <1>12, <1>13, <1>14, <1>15, HandlerGoesOn

LEMMA SaveInv ==
  ASSUME AskInv, NEW kept \in BOOLEAN, Save(kept)
  PROVE  AskInv'
<1>1. /\ stage = "saving" /\ stage' = "reply" /\ row = None
      /\ UNCHANGED <<round, ctx, turn, talk, todo, pulled, tally, ended, wire, client>>
      /\ row' \in {None, [answer |-> tally.answer, thinking |-> tally.thinking, slugs |-> pulled,
                          calls |-> tally.calls, errored |-> ended = "failed"]}
  BY DEF AskInv, RowTrue, Save
<1>2. drawer' = drawer /\ how' = how /\ bubble' = bubble
  BY <1>1 DEF client
<1>3. TypeOK' /\ Accepted(talk' \o Owed(todo'))
  BY <1>1, <1>2 DEF AskInv, TypeOK
<1>4. RowTrue'
  BY <1>1 DEF RowTrue
<1>5. Unasked' /\ Reading'
  BY <1>1, <1>2 DEF AskInv, Unasked, Reading
<1>6. LastWord' /\ Finished'
  BY <1>1, <1>2 DEF AskInv, LastWord, Finished
<1> QED BY <1>3, <1>4, <1>5, <1>6 DEF AskInv

LEMMA ReplyInv ==
  ASSUME AskInv, Reply
  PROVE  AskInv'
<1> DEFINE f == Word(IF ended \in {"failed", "refused"} THEN "error" ELSE "done")
<1>1. /\ stage = "reply" /\ stage' = "over" /\ ended' = ended /\ todo = <<>>
      /\ UNCHANGED <<round, ctx, turn, talk, todo, pulled, tally, ended, row, client>>
      /\ (wire' = wire /\ ctx # "live") \/ Emit(<<f>>)
  BY DEF AskInv, TypeOK, Reply
<1>2. f \in Frames /\ f.kind \in Terminal /\ (f.kind = "done" => ended # "failed")
  BY DEF Word, Frame, Frames, Terminal
<1> HIDE DEF f
<1>3. wire' \in Seq(Frames)
  <2>1. wire \in Seq(Frames) /\ <<f>> \in Seq(Frames)
    BY <1>2 DEF AskInv, TypeOK
  <2>2. wire \o <<f>> \in Seq(Frames) /\ <<>> \in Seq(Frames)
    BY <2>1
  <2> QED BY <1>1, <2>1, <2>2 DEF Emit
<1>4. TypeOK'
  BY <1>1, <1>3 DEF AskInv, TypeOK, client
<1> QED BY <1>1, <1>2, <1>4, HandlerEnds

(* The context dies.                                                           *)
LEMMA ContextInv ==
  ASSUME AskInv, Expire \/ HangUp
  PROVE  AskInv'
<1>1. /\ stage \notin {"idle", "over"} /\ ctx = "live"
      /\ ctx' = "expired" \/ (ctx' = "cancelled" /\ how \in {"stopped", "lost"})
      /\ UNCHANGED <<stage, round, turn, talk, todo, pulled, tally, ended, wire, row, client>>
  BY DEF Expire, HangUp, AtWork
<1>2. drawer' = drawer /\ how' = how /\ bubble' = bubble
  BY <1>1 DEF client
<1>3. TypeOK' /\ Accepted(talk' \o Owed(todo'))
  BY <1>1, <1>2 DEF AskInv, TypeOK
<1>4. Unasked' /\ RowTrue' /\ LastWord'
  BY <1>1, <1>2 DEF AskInv, Unasked, RowTrue, LastWord
<1>5. Reading' /\ Finished'
  BY <1>1, <1>2 DEF AskInv, Reading, Finished
<1> QED BY <1>3, <1>4, <1>5 DEF AskInv

--------------------------------------------------------------------------------
(* The drawer's steps. *)

(* What the drawer shows while it reads was counted.                           *)
LEMMA ShownWasCounted ==
  ASSUME AskInv, drawer = "reading"
  PROVE  Within(bubble, tally, pulled) /\ bubble \in Bubble /\ stage # "idle" /\ how = "no"
<1>1. PICK e \in Bubble : Leads(bubble, wire, e, tally, pulled)
  BY DEF AskInv, Reading
<1>2. wire \in Seq(Frames)
  BY DEF AskInv, TypeOK
<1> QED BY <1>1, <1>2, LeadsEnds DEF AskInv, Reading, Unasked

(* The drawer stops for another reason than "done".                            *)
LEMMA DrawerStops ==
  ASSUME AskInv, drawer = "reading", drawer' = "finished", how' \in {"error", "closed", "stopped", "lost"},
         bubble' \in {bubble, Labelled, NoBubble}, UNCHANGED <<tally, pulled, row, ctx, talk, todo, ended, round, turn>>,
         stage' = stage \/ (stage = "asked" /\ stage' = "over"), wire' \in {<<>>, Tail(wire)}, wire # <<>> \/ wire' = <<>>,
         how' = "closed" => ctx = "expired"
  PROVE  AskInv'
<1>1. Within(bubble, tally, pulled) /\ bubble \in Bubble /\ stage # "idle" /\ how = "no"
  BY ShownWasCounted
<1>2. stage' # "idle" /\ (stage = "asked" => row = None /\ todo = <<>>)
  BY <1>1 DEF AskInv, RowTrue, TypeOK
<1>3. Labelled \in Bubble /\ NoBubble \in Bubble
  <2>1. <<>> \in Seq(Step) /\ {} \in SUBSET Slugs /\ 0 \in Nat
    OBVIOUS
  <2> QED BY <1>1, <2>1 DEF Labelled, NoBubble, Bubble
<1>4. Within(Labelled, tally, pulled) /\ Within(NoBubble, tally, pulled)
  <2>1. tally \in Tally
    BY DEF AskInv, TypeOK
  <2>2. /\ Labelled.answer = 0 /\ Labelled.thinking = bubble.thinking /\ Labelled.steps = bubble.steps
        /\ Labelled.docs = bubble.docs
    BY <1>1 DEF Labelled, Bubble
  <2>3. Within(Labelled, tally, pulled)
    BY <1>1, <2>1, <2>2 DEF Within, Tally
  <2>4. Len(<<>>) = 0
    OBVIOUS
  <2>5. Within(NoBubble, tally, pulled)
    BY <2>1, <2>4 DEF Within, Tally, NoBubble
  <2> QED BY <2>3, <2>5
<1>5. /\ wire' \in Seq(Frames)
      /\ wire' # <<>> => /\ Len(wire') = Len(wire) - 1 /\ DOMAIN wire' = 1 .. Len(wire) - 1
                         /\ \A i \in DOMAIN wire' : wire'[i] = wire[i + 1] /\ i + 1 \in DOMAIN wire
  <2>1. wire \in Seq(Frames)
    BY DEF AskInv, TypeOK
  <2>2. CASE wire' = <<>>
    BY <2>2
  <2>3. CASE wire' = Tail(wire) /\ wire # <<>>
    <3> DEFINE n == Len(wire)
    <3>1. /\ n \in Nat /\ n > 0 /\ DOMAIN wire = 1 .. n /\ wire' \in Seq(Frames) /\ Len(wire') = n - 1
          /\ DOMAIN wire' = 1 .. n - 1 /\ \A i \in 1 .. n - 1 : wire'[i] = wire[i + 1]
      BY <2>1, <2>3
    <3> HIDE DEF n
    <3>2. \A i \in 1 .. n - 1 : i + 1 \in 1 .. n
      BY <3>1
    <3> QED BY <3>1, <3>2 DEF n
  <2> QED BY <2>2, <2>3
<1>6. TypeOK'
  BY <1>1, <1>2, <1>3, <1>5 DEF AskInv, TypeOK
<1>7. Accepted(talk' \o Owed(todo'))
  BY DEF AskInv
<1>8. Unasked' /\ Reading' /\ Finished'
  BY <1>1, <1>2, <1>4 DEF Unasked, Reading, Finished
<1>9. LastWord'
  <2>1. ASSUME NEW i \in DOMAIN wire', wire'[i].kind \in Terminal
        PROVE  i = Len(wire') /\ stage' = "over" /\ (wire'[i].kind = "done" => ended' # "failed")
    <3>1. wire' # <<>>
      BY <2>1
    <3>2. /\ wire[i + 1].kind \in Terminal /\ i + 1 \in DOMAIN wire /\ wire'[i] = wire[i + 1]
          /\ Len(wire') = Len(wire) - 1
      BY <1>5, <2>1, <3>1
    <3>3. i + 1 = Len(wire) /\ stage = "over" /\ (wire[i + 1].kind = "done" => ended # "failed")
      BY <3>2 DEF AskInv, LastWord
    <3>4. i \in Int
      BY <1>5, <2>1, <3>1
    <3>5. stage' = "over"
      BY <3>3
    <3> QED BY <3>2, <3>3, <3>4, <3>5
  <2> QED BY <2>1 DEF LastWord
<1>10. RowTrue'
  BY <1>2 DEF AskInv, RowTrue
<1> QED BY <1>6, <1>7, <1>8, <1>9, <1>10 DEF AskInv

LEMMA SendInv ==
  ASSUME AskInv, Send
  PROVE  AskInv'
<1>1. /\ drawer = "ready" /\ stage = "idle" /\ drawer' = "reading" /\ stage' = "asked"
      /\ UNCHANGED <<round, ctx, turn, talk, todo, pulled, tally, ended, row, wire, how, bubble>>
  BY DEF AskInv, Unasked, Send
<1>2. /\ wire = <<>> /\ bubble = NoBubble /\ pulled = {} /\ how = "no" /\ ctx = "live" /\ row = None
      /\ tally = [answer |-> 0, thinking |-> 0, calls |-> 0]
  BY <1>1 DEF AskInv, Unasked, RowTrue
<1>3. TypeOK' /\ Accepted(talk' \o Owed(todo'))
  BY <1>1 DEF AskInv, TypeOK
<1>4. Complete(NoBubble, tally, pulled) /\ Within(NoBubble, tally, pulled)
  <2>1. Len(<<>>) = 0 /\ DOMAIN <<>> = {}
    OBVIOUS
  <2> QED BY <1>2, <2>1 DEF Complete, Within, NoBubble
<1>5. bubble \in Bubble
  BY DEF AskInv, TypeOK
<1>6. Leads(bubble, <<>>, bubble, tally, pulled)
  BY <1>2, <1>4, <1>5, LeadsStart
<1>7. Reading'
  BY <1>1, <1>2, <1>4, <1>5, <1>6 DEF Reading
<1>8. Unasked' /\ LastWord' /\ Finished' /\ RowTrue'
  BY <1>1, <1>2 DEF Unasked, LastWord, Finished, RowTrue
<1> QED BY <1>3, <1>7, <1>8 DEF AskInv

LEMMA ReadFrameInv ==
  ASSUME AskInv, ReadFrame
  PROVE  AskInv'
<1> DEFINE f == Head(wire)
           n == Len(wire)
<1>1. /\ drawer = "reading" /\ wire # <<>> /\ wire' = Tail(wire) /\ wire \in Seq(Frames)
      /\ UNCHANGED server
  BY DEF AskInv, TypeOK, ReadFrame
<1>2. /\ n \in Nat /\ n > 0 /\ DOMAIN wire = 1 .. n /\ f = wire[1] /\ f \in Frames
      /\ wire' \in Seq(Frames) /\ Len(wire') = n - 1 /\ DOMAIN wire' = 1 .. n - 1
      /\ \A i \in 1 .. n - 1 : wire'[i] = wire[i + 1]
  BY <1>1
<1>3. Within(bubble, tally, pulled) /\ bubble \in Bubble /\ stage # "idle" /\ how = "no"
  BY <1>1, ShownWasCounted
<1>4. PICK e \in Bubble : Leads(bubble, wire, e, tally, pulled) /\ Complete(e, tally, pulled)
  BY <1>1 DEF AskInv, Reading
<1>5. Leads(Handled(bubble, f), wire', e, tally, pulled)
  BY <1>1, <1>3, <1>4, LeadsLess
<1>6. /\ stage' = stage /\ round' = round /\ ctx' = ctx /\ turn' = turn /\ talk' = talk /\ todo' = todo
      /\ pulled' = pulled /\ tally' = tally /\ ended' = ended /\ row' = row
  BY <1>1 DEF server
<1>7. /\ f.kind \in {"error", "status"} => Finish("error") /\ bubble' = Labelled
      /\ f.kind = "done" => Finish("done") /\ bubble' = bubble
      /\ f.kind \notin Terminal => bubble' = Shown(bubble, f) /\ UNCHANGED <<drawer, how>>
  BY DEF ReadFrame, Terminal
<1> HIDE DEF f, n
<1>8. CASE f.kind \in {"error", "status"}
  BY <1>1, <1>6, <1>7, <1>8, DrawerStops DEF Finish
<1>9. CASE f.kind = "done"
  <2>1. drawer' = "finished" /\ how' = "done" /\ bubble' = bubble
    BY <1>7, <1>9 DEF Finish
  <2>2. 1 \in DOMAIN wire /\ wire[1].kind \in Terminal /\ wire[1].kind = "done"
    BY <1>2, <1>9 DEF Terminal
  <2>3. 1 = Len(wire) /\ stage = "over" /\ ended # "failed"
    BY <2>2 DEF AskInv, LastWord
  <2>4. wire' = <<>>
    <3>1. n = 1
      BY <2>3 DEF n
    <3>2. wire' \in Seq(Frames) /\ Len(wire') = 0
      BY <1>2, <3>1
    <3> QED BY <3>2
  <2>5. Handled(bubble, f) = bubble
    BY <1>9 DEF Handled, Terminal
  <2>6. bubble = e
    BY <1>5, <1>2, <2>4, <2>5, LeadsEnds
  <2>7. Complete(bubble, tally, pulled)
    BY <1>4, <2>6
  <2>8. TypeOK'
    BY <1>2, <1>3, <1>6, <2>1 DEF AskInv, TypeOK
  <2>9. Unasked' /\ Reading' /\ LastWord'
    BY <1>3, <1>6, <2>1, <2>4 DEF Unasked, Reading, LastWord
  <2>10. Finished' /\ RowTrue'
    BY <1>3, <1>6, <2>1, <2>3, <2>7 DEF AskInv, Finished, RowTrue
  <2> QED BY <1>6, <2>8, <2>9, <2>10 DEF AskInv
<1>10. CASE f.kind \notin Terminal
  <2>1. drawer' = "reading" /\ how' = "no" /\ bubble' = Handled(bubble, f)
    BY <1>1, <1>3, <1>7, <1>10 DEF Handled
  <2>2. bubble' \in Bubble
    BY <1>2, <1>3, <2>1, HandledType
  <2>3. TypeOK'
    BY <1>2, <1>6, <2>1, <2>2 DEF AskInv, TypeOK
  <2>4. \A i \in 1 .. n - 1 : i + 1 \in 1 .. n
    BY <1>2
  <2>5. LastWord'
    <3>1. ASSUME NEW i \in DOMAIN wire', wire'[i].kind \in Terminal
          PROVE  i = Len(wire') /\ stage' = "over" /\ (wire'[i].kind = "done" => ended' # "failed")
      <4>1. i \in 1 .. n - 1 /\ wire'[i] = wire[i + 1] /\ i + 1 \in DOMAIN wire
        BY <1>2, <2>4, <3>1
      <4>2. i + 1 = n /\ stage = "over" /\ (wire[i + 1].kind = "done" => ended # "failed")
        BY <3>1, <4>1 DEF AskInv, LastWord, n
      <4>3. i = n - 1
        BY <1>2, <4>1, <4>2
      <4> QED BY <1>2, <1>6, <4>1, <4>2, <4>3
    <3> QED BY <3>1 DEF LastWord
  <2>6. Reading'
    <3>1. ctx # "cancelled"
      BY <1>1 DEF AskInv, Reading
    <3>2. ASSUME stage = "over", ctx # "expired"
          PROVE  wire' # <<>> /\ wire'[Len(wire')].kind \in Terminal
      <4>1. wire[n].kind \in Terminal
        BY <1>1, <3>2 DEF AskInv, Reading, n
      <4>2. n # 1
        BY <1>2, <1>10, <4>1
      <4>3. n - 1 \in 1 .. n - 1 /\ (n - 1) + 1 = n
        BY <1>2, <4>2
      <4>4. wire'[n - 1] = wire[n] /\ wire' # <<>>
        BY <1>2, <4>3
      <4> QED BY <1>2, <4>1, <4>4
    <3>3. Leads(bubble', wire', e, tally, pulled)
      BY <1>5, <2>1
    <3> QED BY <1>4, <1>6, <2>1, <3>1, <3>2, <3>3 DEF Reading
  <2>7. Unasked' /\ Finished' /\ RowTrue'
    BY <1>1, <1>3, <1>6, <2>1 DEF AskInv, Unasked, Finished, RowTrue
  <2> QED BY <1>6, <2>3, <2>5, <2>6, <2>7 DEF AskInv
<1> QED BY <1>8, <1>9, <1>10 DEF Terminal

(* The body ends, the visitor stops, the connection breaks.                    *)
LEMMA CutInv ==
  ASSUME AskInv,
         \/ StreamClosed
         \/ \E clear \in BOOLEAN : Stop(clear)
         \/ \E arrived \in BOOLEAN : Lost(arrived)
  PROVE  AskInv'
<1>1. CASE StreamClosed
  <2>1. drawer = "reading" /\ stage = "over" /\ wire = <<>> /\ UNCHANGED <<server, wire, bubble>>
    BY <1>1 DEF StreamClosed
  <2>2. drawer' = "finished" /\ how' = "closed"
    BY <1>1 DEF StreamClosed, Finish
  <2>3. ctx = "expired"
    BY <2>1 DEF AskInv, Reading
  <2> QED BY <2>1, <2>2, <2>3, DrawerStops DEF server
<1>2. CASE \E clear \in BOOLEAN : Stop(clear)
  BY <1>2, DrawerStops DEF Stop, Finish, server
<1>3. CASE \E arrived \in BOOLEAN : Lost(arrived)
  BY <1>3, DrawerStops DEF Lost, Finish
<1> QED BY <1>1, <1>2, <1>3

--------------------------------------------------------------------------------
(* The theorems. *)

LEMMA AskStep ==
  ASSUME AskInv, [Next]_vars
  PROVE  AskInv'
<1>1. CASE Answer
  BY <1>1, AdmitInv DEF Answer
<1>2. CASE CallFails \/ CallAbandoned \/ CallOpens \/ StreamBreaks \/ StreamAbandoned
  BY <1>2, ReturnInv
<1>3. CASE Piece("thinking", "thinking") \/ Piece("delta", "answer")
  BY <1>3, PieceInv
<1>4. CASE \E i \in 1..MaxCalls, id \in Ids : Fragment(i, id)
  BY <1>4, FragmentInv
<1>5. CASE StreamEnds
  BY <1>5, StreamEndsInv
<1>6. CASE Search
  BY <1>6, ExecuteInv DEF Search
<1>7. CASE Keep
  BY <1>7, SaveInv DEF Keep
<1>8. CASE Reply
  BY <1>8, ReplyInv
<1>9. CASE Expire \/ HangUp
  BY <1>9, ContextInv
<1>10. CASE Send
  BY <1>10, SendInv
<1>11. CASE ReadFrame
  BY <1>11, ReadFrameInv
<1>12. CASE \/ StreamClosed
            \/ \E clear \in BOOLEAN : Stop(clear)
            \/ \E arrived \in BOOLEAN : Lost(arrived)
  BY <1>12, CutInv
<1>13. CASE UNCHANGED vars
  <2>1. UNCHANGED <<stage, round, ctx, turn, talk, todo, pulled, tally, ended, row, wire, drawer, how, bubble>>
    BY <1>13 DEF vars, server, client
  <2>2. TypeOK' /\ Accepted(talk' \o Owed(todo')) /\ Unasked' /\ RowTrue'
    BY <2>1 DEF AskInv, TypeOK, Unasked, RowTrue
  <2>3. Reading' /\ LastWord' /\ Finished'
    BY <2>1 DEF AskInv, Reading, LastWord, Finished
  <2> QED BY <2>2, <2>3 DEF AskInv
<1> QED
  BY <1>1, <1>2, <1>3, <1>4, <1>5, <1>6, <1>7, <1>8, <1>9, <1>10, <1>11, <1>12, <1>13 DEF Next

LEMMA AskInvariant == Spec => []AskInv
<1>1. Init => AskInv
  BY AskInit
<1>2. AskInv /\ [Next]_vars => AskInv'
  BY AskStep
<1> QED BY <1>1, <1>2, PTL DEF Spec

\* The handler's and the drawer's variables hold what the code's can hold,
\* for any number of rounds, calls and pieces.
THEOREM AskTypeCorrect == Spec => []TypeOK
<1>1. AskInv => TypeOK
  BY DEF AskInv
<1> QED BY <1>1, AskInvariant, PTL

\* biz/ask.go: whatever the rounds before brought, every history a call sends
\* is one the model's thinking mode accepts.
THEOREM HistoryIsAccepted == Spec => []HistoryAccepted
<1>1. ASSUME AskInv PROVE HistoryAccepted
  <2> SUFFICES ASSUME stage \in {"call", "reading"} PROVE Accepted(talk)
    BY DEF HistoryAccepted, Accepted
  <2>1. todo = <<>> /\ talk \in Seq(Message)
    BY <1>1 DEF AskInv, TypeOK
  <2>2. <<>> \in Seq(Ids) /\ Len(<<>>) = 0
    OBVIOUS
  <2>3. Owed(<<>>) \in Seq(Message) /\ Len(Owed(<<>>)) = 0
    BY <2>2, OwedAnswers
  <2>4. Owed(<<>>) = <<>>
    BY <2>3
  <2>5. talk \o Owed(todo) = talk
    BY <2>1, <2>4
  <2> QED BY <1>1, <2>5 DEF AskInv
<1> QED BY <1>1, AskInvariant, PTL

\* AskDrawer.tsx and service/ask.go: what the visitor saw and what the row
\* says agree, and only the deadline ends a stream without a word.
THEOREM OutcomeIsToldTruly == Spec => []OutcomeIsTold
<1>1. ASSUME AskInv PROVE OutcomeIsTold
  <2>1. SilenceMeansDeadline
    BY <1>1 DEF AskInv, Finished, SilenceMeansDeadline
  <2>2. BubbleMatchesRow
    <3> SUFFICES ASSUME stage = "over", row # None PROVE BubbleMatchesRow
      BY DEF BubbleMatchesRow
    <3>1. row = [answer |-> tally.answer, thinking |-> tally.thinking, slugs |-> pulled,
                 calls |-> tally.calls, errored |-> ended = "failed"]
      BY <1>1 DEF AskInv, RowTrue
    <3>2. Within(bubble, tally, pulled)
      <4>1. drawer \in {"reading", "finished"}
        BY <1>1 DEF AskInv, TypeOK, Unasked
      <4> QED BY <1>1, <4>1, ShownWasCounted DEF AskInv, Finished
    <3>3. how = "done" => Complete(bubble, tally, pulled) /\ ended # "failed"
      BY <1>1 DEF AskInv, Finished
    <3> QED BY <3>1, <3>2, <3>3 DEF BubbleMatchesRow, Within, Complete
  <2> QED BY <2>1, <2>2 DEF OutcomeIsTold
<1> QED BY <1>1, AskInvariant, PTL

--------------------------------------------------------------------------------
(***************************************************************************)
(* Sessions: for any sessions, providers, dialogs and lines, wherever a    *)
(* move stops, and whatever other dialogs, Codex and its user change in    *)
(* between, what a dialog tells of its move is so.                         *)
(*                                                                         *)
(* Row and file of a session agree but for the one whose row is moved and  *)
(* whose file is not (Agree), and the server works on what its dialog asked *)
(* for (OnOrder).  A session a dialog counts was changed since the dialog  *)
(* was confirmed, and stays where the dialog put it until somebody changes *)
(* it again (Counted); the list a dialog loads shows it there (Loading).   *)
(* The history says who changed a row, and for whom that was too early.    *)
(***************************************************************************)

\* What the server works on, and what a page has confirmed.
TaskRecords ==
  [step : {"commit", "read"}, dialog : Dialogs, thread : Threads, to : Homes]
    \cup [step : {"write"}, dialog : Dialogs, thread : Threads, to : Homes, lines : Seq(LineRecords)]
DialogRecords ==
  [phase : {"asking", "loading"}, batch : BOOLEAN, to : Homes, todo : SUBSET Threads,
   ok : SUBSET Threads, fail : SUBSET Threads, aborted : BOOLEAN]

\* Codex's files, and who changed what when.
FilesOK ==
  /\ rows \in [Threads -> Homes \cup {""}]
  /\ rollouts \in [Threads -> [tag : Homes \cup {""}, lines : Seq(LineRecords)]]
  /\ wrote \in [Threads -> Seq(LineRecords)]
  /\ mover \in [Threads -> [by : Dialogs \cup {"codex", "nobody"}, after : SUBSET Dialogs]]
  /\ \A t \in Threads : rows[t] = "" => mover[t].by = "codex"
TaskOK == task = NoTask \/ task \in TaskRecords
DialogsOK == dialogs \in [Dialogs -> DialogRecords \cup {NoDialog}]
\* A list is on its way to a dialog that loads, and to no other.
LoadsOK ==
  /\ DOMAIN loads = Dialogs \cup {"page"} /\ "error" \in DOMAIN said
  /\ \A d \in Dialogs : dialogs[d].phase # "loading" => loads[d].step = "none"

\* The row has been moved and the file has not.
Halfway(t) == task.step \in {"read", "write"} /\ task.thread = t

\* Row and file agree, and the file has the lines Codex wrote.
Agree == \A t \in Threads : place[t] = "stored" /\ rows[t] # "" /\ t \notin split /\ ~Halfway(t)
                            => rollouts[t].tag = rows[t]
Unharmed ==
  \A t \in Threads \ torn : /\ rollouts[t].lines = wrote[t]
                            /\ task.step = "write" /\ task.thread = t => task.lines = wrote[t]

\* A task is what its dialog asked for, and says how far it is.
OnOrder ==
  task # NoTask =>
    /\ dialogs[task.dialog].phase = "asking" /\ task.thread \in dialogs[task.dialog].todo
    /\ task.to = dialogs[task.dialog].to
    /\ rows[task.thread] = "" \/ task.step # "commit" => ChangedSince(task.dialog, task.thread)
    /\ task.step # "commit" => /\ rows[task.thread] \in {task.to, ""}
                               /\ mover[task.thread].by \in {task.dialog, "codex"}

\* What a dialog counts as moved was changed, and stays where it put it until it
\* is changed again.
Counted ==
  \A d \in Dialogs : dialogs[d] # NoDialog =>
    /\ \A t \in dialogs[d].ok : ChangedSince(d, t)
    /\ \A t \in Threads : MovedBy(d, t) => rows[t] = dialogs[d].to

\* A dialog that loads is done with its sessions, and what it loads shows them.
Loading ==
  \A d \in Dialogs :
    /\ dialogs[d].phase = "loading" => dialogs[d].aborted \/ dialogs[d].todo = {}
    /\ loads[d].step = "answered" => \A t \in Threads :
         MovedBy(d, t) => t \in DOMAIN loads[d].list /\ loads[d].list[t] = dialogs[d].to

SessionsInv ==
  FilesOK /\ TaskOK /\ DialogsOK /\ LoadsOK /\ Agree /\ Unharmed /\ OnOrder /\ Counted /\ Loading

--------------------------------------------------------------------------------
(* The building blocks *)

\* What tasks and dialogs are made of.
LEMMA TaskFacts ==
  /\ NoTask.step = "none" /\ NoTask # Silence
  /\ \A x \in TaskRecords : /\ x # NoTask /\ x.step \in {"commit", "read", "write"} /\ x.step # "none"
                            /\ x.dialog \in Dialogs /\ x.thread \in Threads /\ x.to \in Homes
                            /\ x.step = "write" => x.lines \in Seq(LineRecords)
                            /\ x.step # "write" =>
                                 x \in [step : {"commit", "read"}, dialog : Dialogs, thread : Threads, to : Homes]
<1>1. NoTask.step = "none" BY DEF NoTask
<1>2. ASSUME NEW x \in TaskRecords
      PROVE  /\ x.step \in {"commit", "read", "write"}
             /\ x.dialog \in Dialogs /\ x.thread \in Threads /\ x.to \in Homes
             /\ x.step = "write" => x.lines \in Seq(LineRecords)
             /\ x.step # "write" =>
                  x \in [step : {"commit", "read"}, dialog : Dialogs, thread : Threads, to : Homes]
  BY <1>2 DEF TaskRecords
<1>3. "none" \notin {"commit", "read", "write"} OBVIOUS
<1>4. NoTask # Silence
  <2>1. DOMAIN NoTask = {"step"} /\ DOMAIN Silence = {"error", "success"} BY DEF NoTask, Silence
  <2>2. "error" \notin {"step"} OBVIOUS
  <2> QED BY <2>1, <2>2
<1> HIDE DEF NoTask
<1> QED BY <1>1, <1>2, <1>3, <1>4

LEMMA DialogFacts ==
  /\ NoDialog.phase = "none"
  /\ \A x \in DialogRecords : /\ x # NoDialog /\ x.phase \in {"asking", "loading"}
                              /\ x.batch \in BOOLEAN /\ x.to \in Homes /\ x.aborted \in BOOLEAN
                              /\ x.todo \in SUBSET Threads /\ x.ok \in SUBSET Threads
                              /\ x.fail \in SUBSET Threads
<1>1. NoDialog.phase = "none" BY DEF NoDialog
<1>2. ASSUME NEW x \in DialogRecords
      PROVE  /\ x.phase \in {"asking", "loading"}
             /\ x.batch \in BOOLEAN /\ x.to \in Homes /\ x.aborted \in BOOLEAN
             /\ x.todo \in SUBSET Threads /\ x.ok \in SUBSET Threads /\ x.fail \in SUBSET Threads
  BY <1>2 DEF DialogRecords
<1>3. "none" \notin {"asking", "loading"} OBVIOUS
<1> HIDE DEF NoDialog
<1> QED BY <1>1, <1>2, <1>3

\* An answer to a request moves its dialog on, or ends it; and nothing else.
LEMMA AnswerMoves ==
  ASSUME TaskOK, DialogsOK, LoadsOK, Loading,
         NEW d \in Dialogs, NEW thread \in dialogs[d].todo, NEW result \in {"ok", "failed", "codexRunning"},
         dialogs[d].phase = "asking", Answered(d, thread, result)
  PROVE  /\ task' = NoTask /\ DialogsOK' /\ LoadsOK'
         /\ \A x \in Dialogs :
              /\ dialogs'[x] # NoDialog =>
                   /\ dialogs[x] # NoDialog /\ dialogs'[x].to = dialogs[x].to
                   /\ \A t \in dialogs'[x].ok : t \in dialogs[x].ok \/ (x = d /\ t = thread /\ result = "ok")
              /\ dialogs'[x].phase = "loading" => dialogs'[x].aborted \/ dialogs'[x].todo = {}
              /\ x # d => dialogs'[x] = dialogs[x]
              /\ loads'[x].step = "answered" => x # d /\ loads'[x] = loads[x]
<1>0. PICK it : it = dialogs[d] OBVIOUS
<1> DEFINE told == [it EXCEPT !.todo = it.todo \ {thread},
                      !.ok = IF result = "ok" THEN @ \cup {thread} ELSE @,
                      !.fail = IF result = "failed" THEN @ \cup {thread} ELSE @,
                      !.aborted = result = "codexRunning"]
           next == [told EXCEPT !.phase = "loading"]
           over == it.todo \ {thread} = {} \/ result = "codexRunning"
<1>1. it \in DialogRecords /\ it # NoDialog /\ it.phase = "asking" BY <1>0, DialogFacts DEF DialogsOK
<1>2. thread \in Threads BY <1>0, <1>1, DialogFacts
<1>3. /\ told \in DialogRecords /\ next \in DialogRecords
      /\ told.phase = "asking" /\ next.phase = "loading"
      /\ told.to = it.to /\ next.to = it.to
      /\ told.todo = it.todo \ {thread} /\ next.todo = it.todo \ {thread}
      /\ told.ok = (IF result = "ok" THEN it.ok \cup {thread} ELSE it.ok) /\ next.ok = told.ok
      /\ next.aborted = (result = "codexRunning")
  BY <1>1, <1>2 DEF DialogRecords
<1>4. /\ task' = NoTask
      /\ \/ /\ dialogs' = [dialogs EXCEPT ![d] = NoDialog] /\ loads' = loads
            /\ said' = [said EXCEPT !.error = result]
         \/ /\ over /\ dialogs' = [dialogs EXCEPT ![d] = next]
            /\ loads' = [loads EXCEPT ![d] = [step |-> "asked"]] /\ "error" \in DOMAIN said'
         \/ /\ ~over /\ dialogs' = [dialogs EXCEPT ![d] = told]
            /\ said' = said /\ loads' = loads
  <2> USE <1>0 DEF Answered, AskForList
  <2>1. CASE ~it.batch /\ result # "ok" BY <2>1
  <2>2. CASE ~(~it.batch /\ result # "ok") /\ over
    <3>1. /\ dialogs' = [dialogs EXCEPT ![d] = next] /\ loads' = [loads EXCEPT ![d] = [step |-> "asked"]]
          /\ \E x : said' = [error |-> "", success |-> x]
      BY <2>2
    <3> QED BY <2>2, <3>1
  <2>3. CASE ~(~it.batch /\ result # "ok") /\ ~over BY <2>3
  <2> QED BY <2>1, <2>2, <2>3
<1>5. d \in DOMAIN dialogs /\ d \in DOMAIN loads /\ "error" \in DOMAIN said
      /\ \A x \in Dialogs : dialogs[x].phase # "loading" => loads[x].step = "none"
  BY DEF DialogsOK, LoadsOK
<1>6. loads[d].step = "none" BY <1>5
<1> HIDE DEF told, next, over
<1>7. PICK z : /\ dialogs' = [dialogs EXCEPT ![d] = z]
               /\ z = NoDialog \/ (z \in DialogRecords /\ z.to = it.to /\ z.ok = told.ok)
               /\ z.phase = "loading" => z = next /\ over
               /\ z.phase # "loading" => loads' = loads
               /\ z.phase = "loading" => loads' = [loads EXCEPT ![d] = [step |-> "asked"]]
  <2>1. "loading" # "none" /\ "loading" # "asking" OBVIOUS
  <2> QED BY <1>3, <1>4, <2>1, DialogFacts
<1>8. /\ dialogs'[d] = z /\ \A x \in Dialogs : x # d => dialogs'[x] = dialogs[x]
  BY <1>5, <1>7 DEF DialogsOK
<1>9. DialogsOK' BY <1>7 DEF DialogsOK
<1>10. /\ "error" \in DOMAIN said' /\ DOMAIN loads' = DOMAIN loads
       /\ \A x \in DOMAIN loads : x # d => loads'[x] = loads[x]
       /\ loads'[d].step \in {"none", "asked"}
       /\ z.phase # "loading" => loads'[d].step = "none"
  BY <1>4, <1>5, <1>6, <1>7
<1>11. LoadsOK' BY <1>5, <1>8, <1>10 DEF LoadsOK
<1>12. \A x \in Dialogs : loads'[x].step = "answered" => x # d /\ loads'[x] = loads[x]
  BY <1>10 DEF LoadsOK
<1>13. dialogs'[d].phase = "loading" => dialogs'[d].aborted \/ dialogs'[d].todo = {}
  BY <1>3, <1>7, <1>8 DEF over
<1>14. \A t \in told.ok : t \in it.ok \/ (t = thread /\ result = "ok") BY <1>3
<1>15. dialogs'[d] # NoDialog => dialogs'[d].to = it.to /\ dialogs'[d].ok = told.ok
  BY <1>7, <1>8
<1>16. \A x \in Dialogs : x # d /\ dialogs'[x].phase = "loading" => dialogs'[x].aborted \/ dialogs'[x].todo = {}
  BY <1>8 DEF Loading
<1> HIDE DEF NoTask, NoDialog
<1>17. \A x \in Dialogs : dialogs'[x] # NoDialog =>
         /\ dialogs[x] # NoDialog /\ dialogs'[x].to = dialogs[x].to
         /\ \A t \in dialogs'[x].ok : t \in dialogs[x].ok \/ (x = d /\ t = thread /\ result = "ok")
  BY <1>0, <1>1, <1>8, <1>14, <1>15
<1>18. \A x \in Dialogs : dialogs'[x].phase = "loading" => dialogs'[x].aborted \/ dialogs'[x].todo = {}
  BY <1>13, <1>16
<1>19. \A x \in Dialogs : x # d => dialogs'[x] = dialogs[x] BY <1>8
<1> QED BY <1>4, <1>9, <1>11, <1>12, <1>17, <1>18, <1>19

\* With the answer the dialogs' counts still hold, when the row it is about has
\* been changed and nothing else is.
LEMMA AnswerKeeps ==
  ASSUME SessionsInv, NEW d \in Dialogs, NEW thread \in dialogs[d].todo,
         NEW result \in {"ok", "failed", "codexRunning"}, dialogs[d].phase = "asking",
         Answered(d, thread, result), result = "ok" => ChangedSince(d, thread),
         rows' = rows, mover' = mover
  PROVE  TaskOK' /\ DialogsOK' /\ LoadsOK' /\ OnOrder' /\ Counted' /\ Loading' /\ task' = NoTask
<1>1. TaskOK /\ DialogsOK /\ LoadsOK /\ Loading /\ Counted /\ FilesOK BY DEF SessionsInv
<1>2. /\ task' = NoTask /\ DialogsOK' /\ LoadsOK'
      /\ \A x \in Dialogs :
           /\ dialogs'[x] # NoDialog =>
                /\ dialogs[x] # NoDialog /\ dialogs'[x].to = dialogs[x].to
                /\ \A t \in dialogs'[x].ok : t \in dialogs[x].ok \/ (x = d /\ t = thread /\ result = "ok")
           /\ dialogs'[x].phase = "loading" => dialogs'[x].aborted \/ dialogs'[x].todo = {}
           /\ x # d => dialogs'[x] = dialogs[x]
           /\ loads'[x].step = "answered" => x # d /\ loads'[x] = loads[x]
  BY <1>1, AnswerMoves
<1>3. TaskOK' /\ OnOrder' BY <1>2 DEF TaskOK, OnOrder
<1>4. ASSUME NEW x \in Dialogs, dialogs'[x] # NoDialog
      PROVE  /\ \A t \in dialogs'[x].ok : ChangedSince(x, t)'
             /\ \A t \in Threads : MovedBy(x, t)' => rows'[t] = dialogs'[x].to
  <2>1. dialogs[x] # NoDialog /\ dialogs'[x].to = dialogs[x].to
    BY <1>2, <1>4
  <2>4. \A t : (ChangedSince(x, t)' <=> ChangedSince(x, t)) /\ (MovedBy(x, t)' <=> MovedBy(x, t))
    BY <2>1 DEF ChangedSince, MovedBy
  <2>5. \A t \in dialogs'[x].ok : ChangedSince(x, t)
    BY <1>1, <1>2, <1>4, <2>1 DEF Counted
  <2> QED BY <1>1, <2>1, <2>4, <2>5 DEF Counted
<1>5. Counted' BY <1>4 DEF Counted
<1>6. ASSUME NEW x \in Dialogs, loads'[x].step = "answered", NEW t \in Threads, MovedBy(x, t)'
      PROVE  t \in DOMAIN loads'[x].list /\ loads'[x].list[t] = dialogs'[x].to
  <2>1. x # d /\ loads'[x] = loads[x] /\ dialogs'[x] = dialogs[x] BY <1>2, <1>6
  <2>2. MovedBy(x, t) BY <1>6, <2>1 DEF MovedBy, ChangedSince
  <2> QED BY <1>1, <1>6, <2>1, <2>2 DEF Loading
<1>7. Loading' BY <1>2, <1>6 DEF Loading
<1> QED BY <1>2, <1>3, <1>5, <1>7

--------------------------------------------------------------------------------
(* Codex *)

\* Nothing the invariant speaks of is touched.
LEMMA Untouched ==
  ASSUME SessionsInv,
         UNCHANGED <<rows, rollouts, wrote, mover, task, dialogs, loads, said, place, split, torn>>
  PROVE  SessionsInv'
<1>1. FilesOK' /\ TaskOK' BY DEF SessionsInv, FilesOK, TaskOK
<1>2. DialogsOK' /\ LoadsOK' BY DEF SessionsInv, DialogsOK, LoadsOK
<1>3. Agree' /\ Unharmed' BY DEF SessionsInv, Agree, Unharmed, Halfway
<1>4. OnOrder' BY DEF SessionsInv, OnOrder, ChangedSince
<1>5. Counted' BY DEF SessionsInv, Counted, ChangedSince, MovedBy
<1>6. Loading' BY DEF SessionsInv, Loading, ChangedSince, MovedBy
<1> QED BY <1>1, <1>2, <1>3, <1>4, <1>5, <1>6 DEF SessionsInv

LEMMA LineWritten ==
  ASSUME SessionsInv, NEW thread \in Threads, NEW line \in Lines, CodexWrites(thread, line)
  PROVE  SessionsInv'
<1>1. line \in LineRecords BY SessionsAssumption
<1>2. FilesOK /\ TaskOK BY DEF SessionsInv
<1>3. /\ rollouts' = [rollouts EXCEPT ![thread].lines = Append(@, line)]
      /\ wrote' = [wrote EXCEPT ![thread] = Append(@, line)]
      /\ torn' = IF task.step = "write" /\ task.thread = thread THEN torn \cup {thread} ELSE torn
      /\ UNCHANGED <<rows, place, codex, task, list, loads, dialogs, said, split, mover>>
  BY DEF CodexWrites, listVars
<1>4. PICK R : R = [tag : Homes \cup {""}, lines : Seq(LineRecords)] OBVIOUS
<1>5. rollouts[thread] \in R /\ wrote[thread] \in Seq(LineRecords) BY <1>2, <1>4 DEF FilesOK
<1>6. PICK r : r = [rollouts[thread] EXCEPT !.lines = Append(@, line)] OBVIOUS
<1>7. /\ r \in R /\ r.tag = rollouts[thread].tag /\ r.lines = Append(rollouts[thread].lines, line)
      /\ Append(wrote[thread], line) \in Seq(LineRecords)
  <2>1. PICK q : q = rollouts[thread] OBVIOUS
  <2>2. q.lines \in Seq(LineRecords) BY <1>4, <1>5, <2>1
  <2>3. \A x \in Seq(LineRecords) : Append(x, line) \in Seq(LineRecords) BY <1>1
  <2>4. PICK more : more = Append(q.lines, line) OBVIOUS
  <2>5. more \in Seq(LineRecords) BY <2>2, <2>3, <2>4
  <2>6. r = [q EXCEPT !.lines = more] BY <1>6, <2>1, <2>4
  <2>7. r \in R /\ r.tag = q.tag /\ r.lines = more BY <1>4, <1>5, <2>1, <2>5, <2>6
  <2> QED BY <1>5, <2>1, <2>3, <2>4, <2>7
<1>8. rollouts' = [rollouts EXCEPT ![thread] = r] BY <1>3, <1>6
<1>9. /\ rollouts' \in [Threads -> R] /\ rollouts'[thread] = r
      /\ \A t \in Threads : t # thread => rollouts'[t] = rollouts[t]
  <2>1. rollouts \in [Threads -> R] BY <1>2, <1>4 DEF FilesOK
  <2> QED BY <1>7, <1>8, <2>1
<1>10. /\ wrote' \in [Threads -> Seq(LineRecords)] /\ wrote'[thread] = Append(wrote[thread], line)
       /\ \A t \in Threads : t # thread => wrote'[t] = wrote[t]
  <2>1. wrote \in [Threads -> Seq(LineRecords)] BY <1>2 DEF FilesOK
  <2>2. PICK more : more = Append(wrote[thread], line) OBVIOUS
  <2>3. wrote' = [wrote EXCEPT ![thread] = more] /\ more \in Seq(LineRecords) BY <1>3, <1>7, <2>2
  <2> QED BY <2>1, <2>2, <2>3
<1>11. FilesOK' BY <1>2, <1>3, <1>4, <1>9, <1>10 DEF FilesOK
<1>12. Agree' BY <1>3, <1>7, <1>9 DEF SessionsInv, Agree, Halfway
<1>13. Unharmed' BY <1>3, <1>7, <1>9, <1>10 DEF SessionsInv, Unharmed
<1>14. TaskOK' /\ DialogsOK' /\ LoadsOK' BY <1>3 DEF SessionsInv, TaskOK, DialogsOK, LoadsOK
<1>15. OnOrder' BY <1>3 DEF SessionsInv, OnOrder, ChangedSince
<1>16. Counted' /\ Loading' BY <1>3 DEF SessionsInv, Counted, Loading, ChangedSince, MovedBy
<1> QED BY <1>11, <1>12, <1>13, <1>14, <1>15, <1>16 DEF SessionsInv

\* Codex changes no row but to remove it.
LEMMA CodexKeeps == ASSUME SessionsInv, CodexRuns PROVE SessionsInv'
<1>1. UNCHANGED <<rollouts, place, task, list, loads, dialogs, said, wrote, torn, split>>
  BY DEF CodexRuns, listVars
<1>2. FilesOK /\ TaskOK /\ DialogsOK BY DEF SessionsInv
<1>4. \/ UNCHANGED <<rows, mover>>
      \/ \E thread \in Threads :
           /\ rows' = [rows EXCEPT ![thread] = ""] /\ mover' = [mover EXCEPT ![thread] = By("codex")]
  BY DEF CodexRuns, CodexLocks, CodexCommits, CodexQuits, LaunchCodex, RestartCodex
<1>5. /\ By("codex").by = "codex" /\ By("codex").after = Dialogs
      /\ By("codex") \in [by : Dialogs \cup {"codex", "nobody"}, after : SUBSET Dialogs]
  BY DEF By
<1>6. /\ rows' \in [Threads -> Homes \cup {""}]
      /\ mover' \in [Threads -> [by : Dialogs \cup {"codex", "nobody"}, after : SUBSET Dialogs]]
  <2>1. /\ rows \in [Threads -> Homes \cup {""}]
        /\ mover \in [Threads -> [by : Dialogs \cup {"codex", "nobody"}, after : SUBSET Dialogs]]
    BY <1>2 DEF FilesOK
  <2>2. CASE UNCHANGED <<rows, mover>> BY <2>1, <2>2
  <2>3. CASE \E thread \in Threads : rows' = [rows EXCEPT ![thread] = ""] /\ mover' = [mover EXCEPT ![thread] = By("codex")]
    BY <1>5, <2>1, <2>3
  <2> QED BY <1>4, <2>2, <2>3
<1>7. \A t \in Threads :
         \/ rows'[t] = rows[t] /\ mover'[t] = mover[t]
         \/ rows'[t] = "" /\ mover'[t].by = "codex" /\ mover'[t].after = Dialogs
  BY <1>2, <1>4, <1>5 DEF FilesOK
<1>9. FilesOK'
  <2>1. \A t \in Threads : rows'[t] = "" => mover'[t].by = "codex" BY <1>2, <1>7 DEF FilesOK
  <2> QED BY <1>1, <1>2, <1>6, <2>1 DEF FilesOK
<1>10. "codex" \notin Dialogs BY SessionsAssumption
<1>12. ASSUME NEW d \in Dialogs, NEW t \in Threads, dialogs[d] # NoDialog
       PROVE  /\ ChangedSince(d, t) => ChangedSince(d, t)'
              /\ MovedBy(d, t)' => MovedBy(d, t) /\ rows'[t] = rows[t]
              /\ rows'[t] # rows[t] => rows'[t] = "" /\ ChangedSince(d, t)'
  BY <1>7, <1>10 DEF ChangedSince, MovedBy
<1>13. TaskOK' /\ DialogsOK' /\ LoadsOK'
  BY <1>1 DEF SessionsInv, TaskOK, DialogsOK, LoadsOK
<1>14. Agree' /\ Unharmed' BY <1>1, <1>7 DEF SessionsInv, Agree, Unharmed, Halfway
<1>15. OnOrder'
  <2> SUFFICES ASSUME task # NoTask
               PROVE  /\ rows'[task.thread] = "" \/ task.step # "commit" => ChangedSince(task.dialog, task.thread)'
                      /\ task.step # "commit" => /\ rows'[task.thread] \in {task.to, ""}
                                                 /\ mover'[task.thread].by \in {task.dialog, "codex"}
    BY <1>1 DEF SessionsInv, OnOrder
  <2>1. task.dialog \in Dialogs /\ task.thread \in Threads BY <1>2, TaskFacts DEF TaskOK
  <2>2. dialogs[task.dialog] # NoDialog
    BY DialogFacts DEF SessionsInv, OnOrder
  <2>3. /\ rows[task.thread] = "" \/ task.step # "commit" => ChangedSince(task.dialog, task.thread)
        /\ task.step # "commit" => /\ rows[task.thread] \in {task.to, ""}
                                   /\ mover[task.thread].by \in {task.dialog, "codex"}
    BY DEF SessionsInv, OnOrder
  <2>4. PICK d \in Dialogs, t \in Threads : d = task.dialog /\ t = task.thread BY <2>1
  <2>5. /\ ChangedSince(d, t) => ChangedSince(d, t)'
        /\ rows'[t] # rows[t] => rows'[t] = "" /\ ChangedSince(d, t)'
    BY <1>12, <2>2, <2>4
  <2>6. rows'[t] = "" \/ task.step # "commit" => ChangedSince(d, t)' BY <2>3, <2>4, <2>5
  <2>7. /\ rows'[t] = rows[t] \/ rows'[t] = ""
        /\ mover'[t] = mover[t] \/ mover'[t].by = "codex"
    BY <1>7
  <2>8. task.step # "commit" => rows'[t] \in {task.to, ""} /\ mover'[t].by \in {d, "codex"}
    BY <2>3, <2>4, <2>7
  <2>9. task' = task BY <1>1
  <2> QED BY <2>4, <2>6, <2>8, <2>9 DEF ChangedSince
<1>16. Counted'
  <2> SUFFICES ASSUME NEW d \in Dialogs, dialogs[d] # NoDialog
               PROVE  /\ \A t \in dialogs[d].ok : ChangedSince(d, t)'
                      /\ \A t \in Threads : MovedBy(d, t)' => rows'[t] = dialogs[d].to
    BY <1>1 DEF Counted
  <2>1. dialogs[d].ok \in SUBSET Threads BY <1>2, DialogFacts DEF DialogsOK
  <2>2. /\ \A t \in dialogs[d].ok : ChangedSince(d, t)
        /\ \A t \in Threads : MovedBy(d, t) => rows[t] = dialogs[d].to
    BY DEF SessionsInv, Counted
  <2>5. \A t \in dialogs[d].ok : ChangedSince(d, t)' BY <1>12, <2>1, <2>2
  <2>6. \A t \in Threads : MovedBy(d, t)' => rows'[t] = dialogs[d].to BY <1>12, <2>2
  <2> QED BY <2>5, <2>6
<1>17. Loading'
  <2>1. \A d \in Dialogs : loads[d].step = "answered" => dialogs[d] # NoDialog
    BY DialogFacts DEF SessionsInv, LoadsOK
  <2> QED BY <1>1, <1>12, <2>1 DEF SessionsInv, Loading
<1> QED BY <1>9, <1>13, <1>14, <1>15, <1>16, <1>17 DEF SessionsInv

--------------------------------------------------------------------------------
(* The page *)

\* A list is asked for or answered, and no dialog's.
LEMMA RefreshKeeps == ASSUME SessionsInv, Refresh PROVE SessionsInv'
<1>1. /\ UNCHANGED <<rows, rollouts, place, task, dialogs, wrote, torn, split, mover>>
      /\ loads' = [loads EXCEPT !["page"] = [step |-> "asked"]]
      /\ said' = [said EXCEPT !.error = ""]
  BY DEF Refresh, AskForList, Click, historyVars
<1>2. /\ FilesOK /\ DOMAIN loads = Dialogs \cup {"page"} /\ "error" \in DOMAIN said /\ DialogsOK
  BY DEF SessionsInv, LoadsOK
<1>3. \A d \in Dialogs : loads'[d] = loads[d] BY <1>1, <1>2, SessionsAssumption
<1>4. /\ DOMAIN loads' = Dialogs \cup {"page"} /\ "error" \in DOMAIN said' BY <1>1, <1>2
<1>8. FilesOK' BY <1>1, <1>2 DEF FilesOK
<1>9. LoadsOK' BY <1>1, <1>3, <1>4 DEF SessionsInv, LoadsOK
<1>10. \A d \in Dialogs : \A t : /\ ChangedSince(d, t)' <=> ChangedSince(d, t)
                                 /\ MovedBy(d, t)' <=> MovedBy(d, t)
  BY <1>1 DEF ChangedSince, MovedBy
<1>11. TaskOK' /\ DialogsOK' /\ Agree' /\ Unharmed' /\ OnOrder'
  BY <1>1 DEF SessionsInv, TaskOK, DialogsOK, Agree, Unharmed, Halfway, OnOrder, ChangedSince
<1>14. Counted' BY <1>1, <1>10 DEF SessionsInv, Counted
<1>15. Loading' BY <1>1, <1>3, <1>10 DEF SessionsInv, Loading
<1> QED BY <1>8, <1>9, <1>11, <1>14, <1>15 DEF SessionsInv

\* The list that is read has every session that is there.
LEMMA ListServed ==
  ASSUME SessionsInv, NEW who \in Dialogs \cup {"page"}, ServeList(who) PROVE SessionsInv'
<1>1. /\ UNCHANGED <<rows, rollouts, place, task, dialogs, said, wrote, torn, split, mover>>
      /\ loads' = [loads EXCEPT ![who] = [step |-> "answered", list |-> ListNow]]
      /\ loads[who].step = "asked"
  BY DEF ServeList, historyVars, bounds
<1>2. /\ FilesOK /\ DOMAIN loads = Dialogs \cup {"page"} /\ "error" \in DOMAIN said /\ DialogsOK /\ Counted
  BY DEF SessionsInv, LoadsOK
<1>3. /\ DOMAIN loads' = Dialogs \cup {"page"}
      /\ loads'[who] = [step |-> "answered", list |-> ListNow]
      /\ \A d \in Dialogs : d # who => loads'[d] = loads[d]
  BY <1>1, <1>2
<1>4. /\ loads'[who].list = ListNow /\ loads'[who].step = "answered" BY <1>3
<1>5. FilesOK' /\ TaskOK' /\ DialogsOK' /\ Agree' /\ Unharmed' /\ OnOrder'
  BY <1>1 DEF SessionsInv, FilesOK, TaskOK, DialogsOK, Agree, Unharmed, Halfway, OnOrder, ChangedSince
<1>6. \A d \in Dialogs : \A t : /\ ChangedSince(d, t)' <=> ChangedSince(d, t)
                                /\ MovedBy(d, t)' <=> MovedBy(d, t)
  BY <1>1 DEF ChangedSince, MovedBy
<1>7. Counted' BY <1>1, <1>6 DEF SessionsInv, Counted
<1>8. \A d \in Dialogs : dialogs[d].phase # "loading" => d # who
  BY <1>1 DEF SessionsInv, LoadsOK
<1>9. LoadsOK' BY <1>1, <1>2, <1>3, <1>8 DEF SessionsInv, LoadsOK
<1>10. ASSUME NEW d \in Dialogs, NEW t \in Threads, d = who, MovedBy(d, t)
       PROVE  t \in DOMAIN ListNow /\ ListNow[t] = dialogs[d].to
  <2>1. dialogs[d] # NoDialog BY <1>8, <1>10, DialogFacts
  <2>2. rows[t] = dialogs[d].to /\ dialogs[d].to \in Homes
    BY <1>2, <1>10, <2>1, DialogFacts DEF Counted, DialogsOK
  <2>3. rows[t] # "" BY <2>2, SessionsAssumption
  <2> QED BY <2>2, <2>3 DEF ListNow
<1>11. Loading' BY <1>1, <1>3, <1>4, <1>6, <1>10 DEF SessionsInv, Loading
<1> QED BY <1>5, <1>7, <1>9, <1>11 DEF SessionsInv

\* A list comes: a dialog that waited for it is done.
LEMMA ListCame ==
  ASSUME SessionsInv, NEW who \in Dialogs \cup {"page"}, ListArrives(who) PROVE SessionsInv'
<1>1. /\ UNCHANGED <<rows, rollouts, place, task, wrote, torn, split, mover>>
      /\ loads' = [loads EXCEPT ![who] = [step |-> "none"]] /\ loads[who].step = "answered"
      /\ who \notin Dialogs => said' = said /\ dialogs' = dialogs
      /\ who \in Dialogs => said' = Tell(who) /\ dialogs' = [dialogs EXCEPT ![who] = NoDialog]
  BY DEF ListArrives, historyVars, bounds
<1>2. /\ FilesOK /\ DOMAIN loads = Dialogs \cup {"page"} /\ "error" \in DOMAIN said /\ DialogsOK
  BY DEF SessionsInv, LoadsOK
<1>3. /\ DOMAIN loads' = Dialogs \cup {"page"} /\ loads'[who].step = "none"
      /\ \A d \in Dialogs : d # who => loads'[d] = loads[d]
  BY <1>1, <1>2
<1>4. "error" \in DOMAIN said' BY <1>1, <1>2 DEF Tell
<1>5. /\ \A d \in Dialogs : d # who => dialogs'[d] = dialogs[d]
      /\ who \in Dialogs => dialogs'[who] = NoDialog
      /\ DialogsOK'
  BY <1>1, <1>2 DEF DialogsOK
<1>6. FilesOK' /\ TaskOK' /\ Agree' /\ Unharmed'
  BY <1>1 DEF SessionsInv, FilesOK, TaskOK, Agree, Unharmed, Halfway
<1>7. who \in Dialogs => dialogs[who].phase = "loading" BY <1>1 DEF SessionsInv, LoadsOK
<1>8. LoadsOK' BY <1>3, <1>4, <1>5 DEF SessionsInv, LoadsOK
<1>9. OnOrder'
  <2> SUFFICES ASSUME task # NoTask PROVE OnOrder' BY <1>1 DEF OnOrder
  <2>1. dialogs[task.dialog].phase = "asking" BY DEF SessionsInv, OnOrder
  <2>2. task.dialog \in Dialogs BY TaskFacts DEF SessionsInv, TaskOK
  <2>3. dialogs'[task.dialog] = dialogs[task.dialog] BY <1>5, <1>7, <2>1, <2>2
  <2> QED BY <1>1, <2>3 DEF SessionsInv, OnOrder, ChangedSince
<1>10. \A d \in Dialogs : \A t : d # who => /\ ChangedSince(d, t)' <=> ChangedSince(d, t)
                                            /\ MovedBy(d, t)' <=> MovedBy(d, t)
  BY <1>1, <1>5 DEF ChangedSince, MovedBy
<1>11. Counted' BY <1>1, <1>5, <1>10 DEF SessionsInv, Counted
<1>12. NoDialog.phase # "loading" /\ loads'[who].step # "answered" BY <1>3, DialogFacts
<1>13. Loading' BY <1>1, <1>3, <1>5, <1>10, <1>12 DEF SessionsInv, Loading
<1> QED BY <1>5, <1>6, <1>8, <1>9, <1>11, <1>13 DEF SessionsInv

\* A dialog is confirmed: no row was changed since.
LEMMA Confirmed ==
  ASSUME SessionsInv, NEW d \in Dialogs, NEW chosen \in SUBSET Threads, NEW to \in Homes,
         NEW batch \in BOOLEAN, Confirm(d, chosen, to, batch)
  PROVE  SessionsInv'
<1>2. PICK no : no = FALSE OBVIOUS
<1>3. PICK x : x = [phase |-> "asking", batch |-> batch, to |-> to, todo |-> chosen,
                    ok |-> {}, fail |-> {}, aborted |-> no]
  OBVIOUS
<1>4. /\ UNCHANGED <<rows, rollouts, place, task, loads, wrote, torn, split>>
      /\ dialogs[d] = NoDialog /\ said' = Silence
      /\ mover' = [t \in Threads |-> [mover[t] EXCEPT !.after = @ \ {d}]]
      /\ dialogs' = [dialogs EXCEPT ![d] = x]
  BY <1>2, <1>3 DEF Confirm
<1>6. FilesOK /\ DialogsOK BY DEF SessionsInv
<1>7. /\ x \in DialogRecords /\ x.phase = "asking" /\ x.ok = {} /\ x.to = to
  BY <1>2, <1>3 DEF DialogRecords
<1>8. /\ DialogsOK' /\ dialogs'[d] = x /\ \A e \in Dialogs : e # d => dialogs'[e] = dialogs[e]
  BY <1>4, <1>6, <1>7 DEF DialogsOK
<1>9. ASSUME NEW t \in Threads
      PROVE  /\ mover'[t].by = mover[t].by /\ mover'[t].after = mover[t].after \ {d}
             /\ mover'[t] \in [by : Dialogs \cup {"codex", "nobody"}, after : SUBSET Dialogs]
  <2>1. PICK m : m = mover[t] OBVIOUS
  <2>2. m \in [by : Dialogs \cup {"codex", "nobody"}, after : SUBSET Dialogs] BY <1>6, <2>1 DEF FilesOK
  <2>3. mover'[t] = [m EXCEPT !.after = m.after \ {d}] BY <1>4, <2>1
  <2> QED BY <2>1, <2>2, <2>3
<1>10. mover' \in [Threads -> [by : Dialogs \cup {"codex", "nobody"}, after : SUBSET Dialogs]]
  BY <1>4, <1>9
<1>11. FilesOK' BY <1>4, <1>6, <1>9, <1>10 DEF FilesOK
<1>12. TaskOK' /\ Agree' /\ Unharmed' BY <1>4 DEF SessionsInv, TaskOK, Agree, Unharmed, Halfway
<1>13. dialogs[d].phase = "none" /\ loads[d].step = "none"
  BY <1>4, DialogFacts DEF SessionsInv, LoadsOK
<1>14. LoadsOK' BY <1>4, <1>7, <1>8, <1>13 DEF SessionsInv, LoadsOK, Silence
<1>15. OnOrder'
  <2> SUFFICES ASSUME task # NoTask PROVE OnOrder' BY <1>4 DEF OnOrder
  <2>1. dialogs[task.dialog].phase = "asking" BY DEF SessionsInv, OnOrder
  <2>2. task.dialog \in Dialogs BY TaskFacts DEF SessionsInv, TaskOK
  <2>3. task.dialog # d /\ dialogs'[task.dialog] = dialogs[task.dialog] BY <1>8, <1>13, <2>1, <2>2
  <2>4. task.thread \in Threads BY TaskFacts DEF SessionsInv, TaskOK
  <2>5. /\ mover'[task.thread].by = mover[task.thread].by
        /\ task.dialog \in mover[task.thread].after => task.dialog \in mover'[task.thread].after
    BY <1>9, <2>3, <2>4
  <2>6. task' = task /\ rows' = rows BY <1>4
  <2> QED BY <2>3, <2>5, <2>6 DEF SessionsInv, OnOrder, ChangedSince
<1>16. \A e \in Dialogs, t \in Threads :
         e # d => (ChangedSince(e, t)' <=> ChangedSince(e, t)) /\ (MovedBy(e, t)' <=> MovedBy(e, t))
  BY <1>9 DEF ChangedSince, MovedBy
<1>17. \A t \in Threads : ~ChangedSince(d, t)' /\ ~MovedBy(d, t)'
  BY <1>9 DEF ChangedSince, MovedBy
<1>18. \A e \in Dialogs : dialogs[e] # NoDialog => dialogs[e].ok \in SUBSET Threads
  BY <1>6, DialogFacts DEF DialogsOK
<1>20. Counted'
  <2> SUFFICES ASSUME NEW e \in Dialogs, dialogs'[e] # NoDialog
               PROVE  /\ \A t \in dialogs'[e].ok : ChangedSince(e, t)'
                      /\ \A t \in Threads : MovedBy(e, t)' => rows'[t] = dialogs'[e].to
    BY DEF Counted
  <2>1. CASE e = d BY <1>7, <1>8, <1>17, <2>1
  <2>2. CASE e # d
    <3>1. dialogs'[e] = dialogs[e] /\ dialogs[e].ok \in SUBSET Threads BY <1>8, <1>18, <2>2
    <3>2. /\ \A t \in dialogs[e].ok : ChangedSince(e, t)
          /\ \A t \in Threads : MovedBy(e, t) => rows[t] = dialogs[e].to
      BY <3>1 DEF SessionsInv, Counted
    <3>3. rows' = rows BY <1>4
    <3>4. \A t \in dialogs[e].ok : ChangedSince(e, t)' BY <1>16, <2>2, <3>1, <3>2
    <3>5. \A t \in Threads : MovedBy(e, t)' => rows[t] = dialogs[e].to BY <1>16, <2>2, <3>2
    <3> QED BY <3>1, <3>3, <3>4, <3>5
  <2> QED BY <2>1, <2>2
<1>21. Loading'
  <2>1. loads' = loads /\ dialogs'[d].phase # "loading" BY <1>4, <1>7, <1>8
  <2>2. \A e \in Dialogs : e # d => dialogs'[e] = dialogs[e] BY <1>8
  <2>3. \A e \in Dialogs, t \in Threads :
          loads[e].step = "answered" /\ MovedBy(e, t)' => e # d /\ MovedBy(e, t)
    BY <1>13, <1>16
  <2>4. Loading BY DEF SessionsInv
  <2> QED BY <2>1, <2>2, <2>3, <2>4 DEF Loading
<1> QED BY <1>8, <1>11, <1>12, <1>14, <1>15, <1>20, <1>21 DEF SessionsInv

--------------------------------------------------------------------------------
(* The server *)

\* A session is taken up that is there; one that is gone is answered at once.
LEMMA TakenUp ==
  ASSUME SessionsInv, NEW d \in Dialogs, NEW thread \in Threads, TakeUp(d, thread) PROVE SessionsInv'
<1>1. /\ UNCHANGED <<rows, rollouts, place, wrote, torn, split, mover>>
      /\ task = NoTask /\ dialogs[d].phase = "asking" /\ thread \in dialogs[d].todo
  BY DEF TakeUp, historyVars, bounds
<1>2. FilesOK /\ DialogsOK BY DEF SessionsInv
<1>3. FilesOK' BY <1>1, <1>2 DEF FilesOK
<1>4. CASE rows[thread] = ""
  <2>1. Answered(d, thread, "failed") BY <1>4 DEF TakeUp
  <2>2. TaskOK' /\ DialogsOK' /\ LoadsOK' /\ OnOrder' /\ Counted' /\ Loading' /\ task' = NoTask
    <3>1. "failed" \in {"ok", "failed", "codexRunning"} /\ "failed" # "ok" OBVIOUS
    <3> QED BY <1>1, <1>2, <2>1, <3>1, AnswerKeeps
  <2>3. Agree' /\ Unharmed' BY <1>1, <2>2 DEF SessionsInv, Agree, Unharmed, Halfway
  <2> QED BY <1>3, <2>2, <2>3 DEF SessionsInv
<1>5. CASE rows[thread] # ""
  <2>1. PICK k : k = [step |-> "commit", dialog |-> d, thread |-> thread, to |-> dialogs[d].to] OBVIOUS
  <2>2. task' = k /\ UNCHANGED <<loads, dialogs, said>> BY <1>5, <2>1 DEF TakeUp
  <2>3. dialogs[d].to \in Homes BY <1>1, <1>2, DialogFacts DEF DialogsOK
  <2>4. /\ k \in TaskRecords /\ k.step = "commit" /\ k.dialog = d /\ k.thread = thread /\ k.to = dialogs[d].to
    BY <2>1, <2>3 DEF TaskRecords
  <2>5. TaskOK' BY <2>2, <2>4 DEF TaskOK
  <2>6. DialogsOK' /\ LoadsOK' BY <2>2 DEF SessionsInv, DialogsOK, LoadsOK
  <2>7. Agree' /\ Unharmed'
    <3>1. \A t : ~Halfway(t) /\ ~Halfway(t)' BY <1>1, <2>2, <2>4, TaskFacts DEF Halfway
    <3> QED BY <1>1, <2>2, <2>4, <3>1 DEF SessionsInv, Agree, Unharmed
  <2>8. OnOrder' BY <1>1, <1>5, <2>2, <2>4 DEF OnOrder
  <2>9. Counted' /\ Loading'
    BY <1>1, <2>2 DEF SessionsInv, Counted, Loading, ChangedSince, MovedBy
  <2> QED BY <1>3, <2>5, <2>6, <2>7, <2>8, <2>9 DEF SessionsInv
<1> QED BY <1>4, <1>5

\* A task, and what is known of it.
LEMMA TaskKnown ==
  ASSUME SessionsInv, task.step \in {"commit", "read", "write"}
  PROVE  /\ task # NoTask /\ task \in TaskRecords /\ task.dialog \in Dialogs /\ task.thread \in Threads
         /\ task.to \in Homes /\ dialogs[task.dialog].phase = "asking" /\ dialogs[task.dialog] # NoDialog
         /\ task.thread \in dialogs[task.dialog].todo /\ task.to = dialogs[task.dialog].to
         /\ rows[task.thread] = "" \/ task.step # "commit" => ChangedSince(task.dialog, task.thread)
         /\ task.step # "commit" => /\ rows[task.thread] \in {task.to, ""}
                                    /\ mover[task.thread].by \in {task.dialog, "codex"}
<1>1. task # NoTask BY TaskFacts
<1>2. task \in TaskRecords BY <1>1 DEF SessionsInv, TaskOK
<1>3. task.dialog \in Dialogs /\ task.thread \in Threads /\ task.to \in Homes BY <1>2, TaskFacts
<1>4. dialogs[task.dialog].phase = "asking" BY <1>1 DEF SessionsInv, OnOrder
<1>5. dialogs[task.dialog] \in DialogRecords /\ dialogs[task.dialog] # NoDialog
  BY <1>3, <1>4, DialogFacts DEF SessionsInv, DialogsOK
<1> QED BY <1>1, <1>2, <1>3, <1>4, <1>5 DEF SessionsInv, OnOrder

\* The row is moved, if it is still there; a locked database is an answer.
LEMMA RowCommitted == ASSUME SessionsInv, CommitRow PROVE SessionsInv'
<1>1. /\ UNCHANGED <<rollouts, place, wrote, torn>> /\ task.step = "commit"
  BY DEF CommitRow, bounds
<1>2. FilesOK /\ DialogsOK BY DEF SessionsInv
<1>3. PICK d, thread, to : d = task.dialog /\ thread = task.thread /\ to = task.to OBVIOUS
<1>4. /\ d \in Dialogs /\ thread \in Threads /\ to \in Homes /\ task \in TaskRecords /\ task # NoTask
      /\ dialogs[d].phase = "asking" /\ dialogs[d] # NoDialog /\ thread \in dialogs[d].todo
      /\ to = dialogs[d].to
      /\ rows[thread] = "" => ChangedSince(d, thread)
  BY <1>1, <1>3, TaskKnown
<1>5. CASE codex = "writing"
  <2>1. Answered(d, thread, "codexRunning") /\ UNCHANGED <<rows, mover, split>>
    BY <1>3, <1>5 DEF CommitRow
  <2>2. TaskOK' /\ DialogsOK' /\ LoadsOK' /\ OnOrder' /\ Counted' /\ Loading' /\ task' = NoTask
    <3>1. "codexRunning" \in {"ok", "failed", "codexRunning"} /\ "codexRunning" # "ok" OBVIOUS
    <3> QED BY <1>2, <1>4, <2>1, <3>1, AnswerKeeps
  <2>3. FilesOK' BY <1>1, <1>2, <2>1 DEF FilesOK
  <2>4. \A t : ~Halfway(t) BY <1>1 DEF Halfway
  <2>5. task'.step # "write" BY <2>2, TaskFacts
  <2>6. Agree' /\ Unharmed' BY <1>1, <2>1, <2>4, <2>5 DEF SessionsInv, Agree, Unharmed
  <2> QED BY <2>2, <2>3, <2>6 DEF SessionsInv
<1>6. CASE codex # "writing"
  <2>1. /\ UNCHANGED <<loads, dialogs, said, split>> /\ task' = [task EXCEPT !.step = "read"]
        /\ \/ rows[thread] = "" /\ rows' = rows /\ mover' = mover
           \/ /\ rows[thread] # "" /\ rows' = [rows EXCEPT ![thread] = to]
              /\ mover' = [mover EXCEPT ![thread] = By(d)]
    BY <1>3, <1>6 DEF CommitRow
  <2>2. /\ task' \in TaskRecords /\ task'.step = "read" /\ task'.dialog = d /\ task'.thread = thread /\ task'.to = to
    <3>1. PICK k : k = task OBVIOUS
    <3>2. k \in [step : {"commit", "read"}, dialog : Dialogs, thread : Threads, to : Homes]
      BY <1>1, <1>4, <3>1, TaskFacts
    <3>3. task' = [k EXCEPT !.step = "read"] BY <2>1, <3>1
    <3> QED BY <1>3, <3>1, <3>2, <3>3 DEF TaskRecords
  <2>3. /\ By(d).by = d /\ By(d).after = Dialogs
        /\ By(d) \in [by : Dialogs \cup {"codex", "nobody"}, after : SUBSET Dialogs]
    BY <1>2, <1>4 DEF By
  <2>4. /\ rows' \in [Threads -> Homes \cup {""}]
        /\ mover' \in [Threads -> [by : Dialogs \cup {"codex", "nobody"}, after : SUBSET Dialogs]]
    <3>1. /\ rows \in [Threads -> Homes \cup {""}]
          /\ mover \in [Threads -> [by : Dialogs \cup {"codex", "nobody"}, after : SUBSET Dialogs]]
      BY <1>2 DEF FilesOK
    <3>2. CASE rows' = rows /\ mover' = mover BY <3>1, <3>2
    <3>3. CASE rows' = [rows EXCEPT ![thread] = to] /\ mover' = [mover EXCEPT ![thread] = By(d)]
      BY <1>4, <2>3, <3>1, <3>3
    <3> QED BY <2>1, <3>2, <3>3
  <2>5. /\ \A t \in Threads : t # thread => rows'[t] = rows[t] /\ mover'[t] = mover[t]
        /\ \/ rows'[thread] = "" /\ rows[thread] = "" /\ mover'[thread] = mover[thread]
           \/ rows'[thread] = to /\ mover'[thread].by = d /\ mover'[thread].after = Dialogs
    <3>1. /\ thread \in DOMAIN rows /\ thread \in DOMAIN mover /\ DOMAIN rows = Threads /\ DOMAIN mover = Threads
      BY <1>2, <1>4 DEF FilesOK
    <3>2. CASE rows[thread] = "" /\ rows' = rows /\ mover' = mover BY <3>2
    <3>3. CASE rows' = [rows EXCEPT ![thread] = to] /\ mover' = [mover EXCEPT ![thread] = By(d)]
      BY <2>3, <3>1, <3>3
    <3> QED BY <2>1, <3>2, <3>3
  <2>7. FilesOK'
    <3>2. \A t \in Threads : rows'[t] = "" => mover'[t].by = "codex"
      <4>1. to # "" BY <1>4, SessionsAssumption
      <4>2. \A t \in Threads : rows[t] = "" => mover[t].by = "codex" BY <1>2 DEF FilesOK
      <4>3. ASSUME NEW t \in Threads, rows'[t] = "" PROVE mover'[t].by = "codex"
        <5>1. CASE t # thread BY <2>5, <4>2, <4>3, <5>1
        <5>2. CASE t = thread BY <1>4, <2>5, <4>1, <4>2, <4>3, <5>2
        <5> QED BY <5>1, <5>2
      <4> QED BY <4>3
    <3> QED BY <1>1, <1>2, <2>4, <3>2 DEF FilesOK
  <2>8. TaskOK' /\ DialogsOK' /\ LoadsOK' BY <2>1, <2>2 DEF SessionsInv, TaskOK, DialogsOK, LoadsOK
  <2>9. \A t : ~Halfway(t) /\ (Halfway(t)' <=> t = thread) BY <1>1, <2>2 DEF Halfway
  <2>10. Agree' /\ Unharmed'
    <3>1. Agree' BY <1>1, <2>1, <2>5, <2>9 DEF SessionsInv, Agree
    <3>2. Unharmed' BY <1>1, <2>2 DEF SessionsInv, Unharmed
    <3> QED BY <3>1, <3>2
  <2>11. ASSUME NEW e \in Dialogs, NEW t \in Threads, dialogs[e] # NoDialog
         PROVE  /\ ChangedSince(e, t) => ChangedSince(e, t)'
                /\ MovedBy(e, t)' => rows'[t] = dialogs[e].to
                /\ loads[e].step = "answered" => (MovedBy(e, t)' => MovedBy(e, t))
    <3>2. ChangedSince(e, t)' <=> e \in mover'[t].after BY DEF ChangedSince
    <3>3. MovedBy(e, t)' <=> mover'[t].by = e /\ ChangedSince(e, t)' BY DEF MovedBy
    <3>4. MovedBy(e, t) => rows[t] = dialogs[e].to BY <2>11 DEF SessionsInv, Counted
    <3>5. CASE mover'[t] = mover[t] /\ rows'[t] = rows[t]
      BY <3>2, <3>3, <3>4, <3>5 DEF ChangedSince, MovedBy
    <3>6. CASE t = thread /\ rows'[thread] = to /\ mover'[thread].by = d /\ mover'[thread].after = Dialogs
      <4>1. ChangedSince(e, t)' BY <3>2, <3>6
      <4>2. MovedBy(e, t)' => e = d BY <3>3, <3>6
      <4>3. loads[d].step = "none" BY <1>4 DEF SessionsInv, LoadsOK
      <4> QED BY <1>4, <3>6, <4>1, <4>2, <4>3
    <3> QED BY <2>5, <3>5, <3>6
  <2>12. OnOrder'
    <3>1. ChangedSince(d, thread)'
      <4>1. CASE rows[thread] = "" BY <1>4, <2>11, <4>1
      <4>2. CASE rows[thread] # ""
        <5>1. mover'[thread].after = Dialogs BY <2>5, <4>2
        <5> QED BY <1>4, <5>1 DEF ChangedSince
      <4> QED BY <4>1, <4>2
    <3>2. rows'[thread] \in {to, ""} BY <2>5
    <3>3. mover'[thread].by \in {d, "codex"}
      <4>1. rows[thread] = "" => mover[thread].by = "codex" BY <1>2, <1>4 DEF FilesOK
      <4> QED BY <2>5, <4>1
    <3> QED BY <1>4, <2>1, <2>2, <3>1, <3>2, <3>3 DEF OnOrder
  <2>13. Counted'
    <3> SUFFICES ASSUME NEW e \in Dialogs, dialogs[e] # NoDialog
                 PROVE  /\ \A t \in dialogs[e].ok : ChangedSince(e, t)'
                        /\ \A t \in Threads : MovedBy(e, t)' => rows'[t] = dialogs[e].to
      BY <2>1 DEF Counted
    <3>1. dialogs[e].ok \in SUBSET Threads BY <1>2, DialogFacts DEF DialogsOK
    <3>2. \A t \in dialogs[e].ok : ChangedSince(e, t) BY DEF SessionsInv, Counted
    <3> QED BY <2>11, <3>1, <3>2
  <2>14. Loading'
    <3>1. \A e \in Dialogs : loads[e].step = "answered" => dialogs[e] # NoDialog
      BY DialogFacts DEF SessionsInv, LoadsOK
    <3> QED BY <2>1, <2>11, <3>1 DEF SessionsInv, Loading
  <2> QED BY <2>7, <2>8, <2>10, <2>12, <2>13, <2>14 DEF SessionsInv
<1> QED BY <1>5, <1>6

\* The file is read, if it is where the row says.
LEMMA RolloutRead == ASSUME SessionsInv, ReadRollout PROVE SessionsInv'
<1>1. /\ UNCHANGED <<rows, rollouts, place, wrote, torn, split, mover>> /\ task.step = "read"
  BY DEF ReadRollout, bounds, historyVars
<1>2. FilesOK /\ DialogsOK BY DEF SessionsInv
<1>3. PICK d, thread, to : d = task.dialog /\ thread = task.thread /\ to = task.to OBVIOUS
<1>4. /\ d \in Dialogs /\ thread \in Threads /\ to \in Homes /\ task \in TaskRecords /\ task # NoTask
      /\ dialogs[d].phase = "asking" /\ dialogs[d] # NoDialog /\ thread \in dialogs[d].todo
      /\ to = dialogs[d].to /\ ChangedSince(d, thread)
      /\ rows[thread] \in {to, ""} /\ mover[thread].by \in {d, "codex"}
  BY <1>1, <1>3, TaskKnown
<1>5. FilesOK' BY <1>1, <1>2 DEF FilesOK
<1>6. CASE place[thread] = "stored"
  <2>1. PICK k : k = [step |-> "write", dialog |-> d, thread |-> thread, to |-> to,
                      lines |-> rollouts[thread].lines]
    OBVIOUS
  <2>2. task' = k /\ UNCHANGED <<loads, dialogs, said>> BY <1>3, <1>6, <2>1 DEF ReadRollout
  <2>3. rollouts[thread].lines \in Seq(LineRecords)
    <3>1. rollouts[thread] \in [tag : Homes \cup {""}, lines : Seq(LineRecords)] BY <1>2, <1>4 DEF FilesOK
    <3> QED BY <3>1
  <2>4. /\ k \in TaskRecords /\ k.step = "write" /\ k.dialog = d /\ k.thread = thread /\ k.to = to
        /\ k.lines = rollouts[thread].lines
    <3>1. PICK ls : ls = rollouts[thread].lines OBVIOUS
    <3>2. k = [step |-> "write", dialog |-> d, thread |-> thread, to |-> to, lines |-> ls] /\ ls \in Seq(LineRecords)
      BY <2>1, <2>3, <3>1
    <3> QED BY <1>4, <3>1, <3>2 DEF TaskRecords
  <2>5. TaskOK' /\ DialogsOK' /\ LoadsOK' BY <2>2, <2>4 DEF SessionsInv, TaskOK, DialogsOK, LoadsOK
  <2>6. \A t : Halfway(t)' <=> Halfway(t) BY <1>1, <1>3, <2>2, <2>4 DEF Halfway
  <2>7. Agree' BY <1>1, <2>6 DEF SessionsInv, Agree
  <2>8. Unharmed' BY <1>1, <2>2, <2>4 DEF SessionsInv, Unharmed
  <2>9. OnOrder' BY <1>1, <1>4, <2>2, <2>4 DEF OnOrder, ChangedSince
  <2>10. Counted' /\ Loading' BY <1>1, <2>2 DEF SessionsInv, Counted, Loading, ChangedSince, MovedBy
  <2> QED BY <1>5, <2>5, <2>7, <2>8, <2>9, <2>10 DEF SessionsInv
<1>7. CASE place[thread] # "stored"
  <2>1. Answered(d, thread, "ok") BY <1>3, <1>7 DEF ReadRollout
  <2>2. TaskOK' /\ DialogsOK' /\ LoadsOK' /\ OnOrder' /\ Counted' /\ Loading' /\ task' = NoTask
    <3>1. "ok" \in {"ok", "failed", "codexRunning"} OBVIOUS
    <3>2. rows' = rows /\ mover' = mover BY <1>1
    <3> QED BY <1>2, <1>4, <2>1, <3>1, <3>2, AnswerKeeps
  <2>3. \A t : Halfway(t) => t = thread BY <1>3 DEF Halfway
  <2>4. Agree' BY <1>1, <1>7, <2>3 DEF SessionsInv, Agree
  <2>5. Unharmed' BY <1>1, <2>2, TaskFacts DEF SessionsInv, Unharmed
  <2> QED BY <1>5, <2>2, <2>4, <2>5 DEF SessionsInv
<1> QED BY <1>6, <1>7

\* The file is written: it has the row's provider and the lines that were read.
LEMMA RolloutWritten == ASSUME SessionsInv, WriteRollout PROVE SessionsInv'
<1>1. /\ UNCHANGED <<rows, place, wrote, torn, mover>> /\ task.step = "write"
      /\ split' = split \ {task.thread} /\ Answered(task.dialog, task.thread, "ok")
      /\ rollouts' = [rollouts EXCEPT ![task.thread] = [tag |-> task.to, lines |-> task.lines]]
  BY DEF WriteRollout, bounds
<1>2. FilesOK /\ DialogsOK BY DEF SessionsInv
<1>3. PICK d, thread, to, ls : d = task.dialog /\ thread = task.thread /\ to = task.to /\ ls = task.lines OBVIOUS
<1>4. /\ d \in Dialogs /\ thread \in Threads /\ to \in Homes /\ task \in TaskRecords /\ task # NoTask
      /\ dialogs[d].phase = "asking" /\ thread \in dialogs[d].todo /\ ChangedSince(d, thread)
      /\ rows[thread] \in {to, ""}
  BY <1>1, <1>3, TaskKnown
<1>5. ls \in Seq(LineRecords) BY <1>1, <1>3, <1>4, TaskFacts
<1>6. PICK r : r = [tag |-> to, lines |-> ls] OBVIOUS
<1>7. /\ r \in [tag : Homes \cup {""}, lines : Seq(LineRecords)] /\ r.tag = to /\ r.lines = ls
  BY <1>4, <1>5, <1>6
<1>8. rollouts' = [rollouts EXCEPT ![thread] = r] BY <1>1, <1>3, <1>6
<1>9. /\ rollouts' \in [Threads -> [tag : Homes \cup {""}, lines : Seq(LineRecords)]]
      /\ rollouts'[thread] = r /\ \A t \in Threads : t # thread => rollouts'[t] = rollouts[t]
  BY <1>2, <1>4, <1>7, <1>8 DEF FilesOK
<1>10. FilesOK' BY <1>1, <1>2, <1>9 DEF FilesOK
<1>11. TaskOK' /\ DialogsOK' /\ LoadsOK' /\ OnOrder' /\ Counted' /\ Loading' /\ task' = NoTask
  <2>1. "ok" \in {"ok", "failed", "codexRunning"} OBVIOUS
  <2>2. rows' = rows /\ mover' = mover /\ Answered(d, thread, "ok") BY <1>1, <1>3
  <2> QED BY <1>2, <1>4, <2>1, <2>2, AnswerKeeps
<1>12. \A t : Halfway(t) => t = thread BY <1>3 DEF Halfway
<1>13. Agree' BY <1>1, <1>3, <1>4, <1>7, <1>9, <1>12 DEF SessionsInv, Agree
<1>14. thread \notin torn => ls = wrote[thread] BY <1>1, <1>3, <1>4 DEF SessionsInv, Unharmed
<1>15. Unharmed' BY <1>1, <1>7, <1>9, <1>11, <1>14, TaskFacts DEF SessionsInv, Unharmed
<1> QED BY <1>10, <1>11, <1>13, <1>15 DEF SessionsInv

\* The server stops: what it was at is answered as failed, and may be half done.
LEMMA ServerStopped == ASSUME SessionsInv, ServerStops PROVE SessionsInv'
<1>1. /\ UNCHANGED <<rows, rollouts, place, wrote, torn, mover>> /\ task # NoTask
      /\ split' = IF task.step = "commit" THEN split ELSE split \cup {task.thread}
      /\ Answered(task.dialog, task.thread, "failed")
  BY DEF ServerStops, Click
<1>2. FilesOK /\ DialogsOK BY DEF SessionsInv
<1>3. task.step \in {"commit", "read", "write"} BY <1>1, TaskFacts DEF SessionsInv, TaskOK
<1>4. /\ task.dialog \in Dialogs /\ dialogs[task.dialog].phase = "asking"
      /\ task.thread \in dialogs[task.dialog].todo
  BY <1>3, TaskKnown
<1>5. FilesOK' BY <1>1, <1>2 DEF FilesOK
<1>6. TaskOK' /\ DialogsOK' /\ LoadsOK' /\ OnOrder' /\ Counted' /\ Loading' /\ task' = NoTask
  <2>1. "failed" \in {"ok", "failed", "codexRunning"} /\ "failed" # "ok" OBVIOUS
  <2>2. rows' = rows /\ mover' = mover BY <1>1
  <2> QED BY <1>1, <1>2, <1>4, <2>1, <2>2, AnswerKeeps
<1>7. \A t : t \notin split' => t \notin split /\ ~Halfway(t) BY <1>1 DEF Halfway
<1>8. Agree' BY <1>1, <1>7 DEF SessionsInv, Agree
<1>9. Unharmed' BY <1>1, <1>6, TaskFacts DEF SessionsInv, Unharmed
<1> QED BY <1>5, <1>6, <1>8, <1>9 DEF SessionsInv

\* A preview changes nothing.
LEMMA PreviewKeeps == ASSUME SessionsInv, Previews PROVE SessionsInv'
<1>1. UNCHANGED <<rows, rollouts, place, task, dialogs, loads, said, wrote, torn, split, mover>>
  BY DEF Previews, OpenPreview, ServeTranscript, TextArrives, ClosePreview, Click, listVars, historyVars, bounds
<1> QED BY <1>1, Untouched

--------------------------------------------------------------------------------
(* The theorem *)

LEMMA SessionsStart == ASSUME SessionsInit PROVE SessionsInv
<1>1. PICK start \in Found : rows = start.rows /\ place = start.place /\ wrote = start.lines
  BY DEF SessionsInit
<1>2. /\ start.rows \in [Threads -> Homes] /\ start.lines \in [Threads -> Seq(LineRecords)]
  BY SessionsAssumption
<1>3. /\ rollouts = [t \in Threads |-> [tag |-> rows[t], lines |-> wrote[t]]] /\ task = NoTask
      /\ loads = [who \in Dialogs \cup {"page"} |-> [step |-> "none"]]
      /\ dialogs = [d \in Dialogs |-> NoDialog] /\ said = Silence
      /\ mover = [t \in Threads |-> [by |-> "nobody", after |-> {}]]
  BY DEF SessionsInit
<1>5. rows \in [Threads -> Homes] /\ wrote \in [Threads -> Seq(LineRecords)] BY <1>1, <1>2
<1>6. \A t \in Threads : /\ rollouts[t].tag = rows[t] /\ rollouts[t].lines = wrote[t]
                         /\ rows[t] # ""
  BY <1>3, <1>5, SessionsAssumption
<1>7. rollouts \in [Threads -> [tag : Homes \cup {""}, lines : Seq(LineRecords)]] BY <1>3, <1>5
<1>8. /\ rows \in [Threads -> Homes \cup {""}]
      /\ mover \in [Threads -> [by : Dialogs \cup {"codex", "nobody"}, after : SUBSET Dialogs]]
  BY <1>3, <1>5
<1>9. FilesOK BY <1>5, <1>6, <1>7, <1>8 DEF FilesOK
<1>10. \A d \in Dialogs : dialogs[d] = NoDialog /\ loads[d].step = "none" BY <1>3
<1>11. TaskOK /\ DialogsOK BY <1>3 DEF TaskOK, DialogsOK
<1>12. LoadsOK BY <1>3, <1>10 DEF LoadsOK, Silence
<1>13. Agree /\ Unharmed /\ OnOrder BY <1>3, <1>6, TaskFacts DEF Agree, Unharmed, OnOrder
<1>14. Counted /\ Loading BY <1>10, DialogFacts DEF Counted, Loading
<1> QED BY <1>9, <1>11, <1>12, <1>13, <1>14 DEF SessionsInv

LEMMA SessionsStep == ASSUME SessionsInv, [SessionsNext]_sessionsVars PROVE SessionsInv'
<1>1. CASE \E t \in Threads, line \in Lines : CodexWrites(t, line) BY <1>1, LineWritten
<1>2. CASE CodexRuns BY <1>2, CodexKeeps
<1>3. CASE Refresh BY <1>3, RefreshKeeps
<1>4. CASE \E who \in Dialogs \cup {"page"} : ServeList(who) BY <1>4, ListServed
<1>5. CASE \E who \in Dialogs \cup {"page"} : ListArrives(who) BY <1>5, ListCame
<1>6. CASE \E d \in Dialogs, chosen \in SUBSET Threads, to \in Homes, batch \in BOOLEAN :
             Confirm(d, chosen, to, batch)
  BY <1>6, Confirmed
<1>7. CASE \E d \in Dialogs, t \in Threads : TakeUp(d, t) BY <1>7, TakenUp
<1>8. CASE CommitRow BY <1>8, RowCommitted
<1>9. CASE ReadRollout BY <1>9, RolloutRead
<1>10. CASE WriteRollout BY <1>10, RolloutWritten
<1>11. CASE ServerStops BY <1>11, ServerStopped
<1>12. CASE Previews BY <1>12, PreviewKeeps
<1>13. CASE UNCHANGED sessionsVars
  BY <1>13, Untouched DEF sessionsVars, listVars, bounds, historyVars
<1> QED BY <1>1, <1>2, <1>3, <1>4, <1>5, <1>6, <1>7, <1>8, <1>9, <1>10, <1>11, <1>12, <1>13 DEF SessionsNext

\* Row and file agree but halfway through a task.
LEMMA MigrationFromInv == ASSUME SessionsInv PROVE MigrationKeeps
<1>1. \A t : (task # NoTask => task.thread # t) => ~Halfway(t) BY TaskFacts DEF Halfway
<1> QED BY <1>1 DEF SessionsInv, Agree, Unharmed, MigrationKeeps

\* Only a list that comes ends a dialog that loads.
LEMMA EndsByList ==
  ASSUME SessionsInv, [SessionsNext]_sessionsVars, NEW d \in Dialogs,
         dialogs[d].phase = "loading", dialogs'[d] = NoDialog
  PROVE  ListArrives(d)
<1>1. dialogs[d] # NoDialog /\ dialogs[d].phase # "asking" /\ DialogsOK /\ TaskOK /\ LoadsOK /\ Loading
  BY DialogFacts DEF SessionsInv
<1>2. ASSUME UNCHANGED dialogs PROVE FALSE BY <1>1, <1>2
<1>3. ASSUME NEW who \in Dialogs \cup {"page"}, ListArrives(who) PROVE who = d
  <2>1. IF who \in Dialogs THEN dialogs' = [dialogs EXCEPT ![who] = NoDialog] ELSE dialogs' = dialogs
    BY <1>3 DEF ListArrives
  <2> QED BY <1>1, <2>1 DEF DialogsOK
<1>4. ASSUME NEW e \in Dialogs, NEW thread \in dialogs[e].todo, NEW result \in {"ok", "failed", "codexRunning"},
             dialogs[e].phase = "asking", Answered(e, thread, result)
      PROVE  FALSE
  <2>1. \A x \in Dialogs : x # e => dialogs'[x] = dialogs[x] BY <1>1, <1>4, AnswerMoves
  <2> QED BY <1>1, <1>4, <2>1
<1>5. ASSUME NEW e \in Dialogs, NEW chosen, NEW to, NEW batch, Confirm(e, chosen, to, batch) PROVE FALSE
  <2>1. PICK x : dialogs' = [dialogs EXCEPT ![e] = x] /\ dialogs[e] = NoDialog BY <1>5 DEF Confirm
  <2> QED BY <1>1, <2>1 DEF DialogsOK
<1>6. ASSUME NEW e \in Dialogs, NEW t \in Threads, TakeUp(e, t) PROVE FALSE
  <2>1. dialogs[e].phase = "asking" /\ t \in dialogs[e].todo /\ (Answered(e, t, "failed") \/ UNCHANGED dialogs)
    BY <1>6 DEF TakeUp
  <2> QED BY <1>2, <1>4, <2>1
<1>7. ASSUME CommitRow \/ ReadRollout \/ WriteRollout \/ ServerStops PROVE FALSE
  <2>1. task.step \in {"commit", "read", "write"}
    BY <1>1, <1>7, TaskFacts DEF TaskOK, CommitRow, ReadRollout, WriteRollout, ServerStops
  <2>2. \/ UNCHANGED dialogs
        \/ Answered(task.dialog, task.thread, "codexRunning") \/ Answered(task.dialog, task.thread, "ok")
        \/ Answered(task.dialog, task.thread, "failed")
    BY <1>7 DEF CommitRow, ReadRollout, WriteRollout, ServerStops
  <2>3. /\ task.dialog \in Dialogs /\ dialogs[task.dialog].phase = "asking"
        /\ task.thread \in dialogs[task.dialog].todo
    BY <2>1, TaskKnown
  <2> QED BY <1>2, <1>4, <2>2, <2>3
<1>8. CASE \E t \in Threads, line \in Lines : CodexWrites(t, line)
  BY <1>2, <1>8 DEF CodexWrites, listVars
<1>9. CASE CodexRuns BY <1>2, <1>9 DEF CodexRuns, listVars
<1>10. CASE Refresh BY <1>2, <1>10 DEF Refresh
<1>11. CASE \E who \in Dialogs \cup {"page"} : ServeList(who) BY <1>2, <1>11 DEF ServeList
<1>12. CASE Previews BY <1>2, <1>12 DEF Previews, listVars
<1>13. CASE UNCHANGED sessionsVars BY <1>2, <1>13 DEF sessionsVars, listVars
<1> QED BY <1>3, <1>5, <1>6, <1>7, <1>8, <1>9, <1>10, <1>11, <1>12, <1>13 DEF SessionsNext

\* What a batch says when its list has come.
LEMMA BatchStep ==
  ASSUME SessionsInv, [SessionsNext]_sessionsVars, NEW d \in Dialogs,
         dialogs[d].phase = "loading", dialogs[d].batch, dialogs'[d] = NoDialog
  PROVE  /\ \A t \in dialogs[d].ok :
              /\ ChangedSince(d, t)
              /\ MovedBy(d, t) => t \in DOMAIN list' /\ list'[t] = dialogs[d].to
         /\ said'.error = "" => dialogs[d].todo = {}
         /\ \A t \in dialogs[d].ok \ split :
              place[t] = "stored" /\ MovedBy(d, t) => rollouts[t].tag = dialogs[d].to
<1>1. ListArrives(d) BY EndsByList
<1>2. /\ loads[d].step = "answered" /\ list' = loads[d].list /\ said' = Tell(d) BY <1>1 DEF ListArrives
<1>3. dialogs[d] # NoDialog /\ dialogs[d] \in DialogRecords BY DialogFacts DEF SessionsInv, DialogsOK
<1>4. dialogs[d].ok \in SUBSET Threads /\ dialogs[d].to \in Homes BY <1>3, DialogFacts
<1>5. \A t \in dialogs[d].ok : ChangedSince(d, t) BY <1>3 DEF SessionsInv, Counted
<1>6. \A t \in Threads : MovedBy(d, t) =>
         /\ t \in DOMAIN loads[d].list /\ loads[d].list[t] = dialogs[d].to /\ rows[t] = dialogs[d].to
  BY <1>2, <1>3 DEF SessionsInv, Counted, Loading
<1>7. said'.error = "" => dialogs[d].todo = {}
  <2>1. dialogs[d].aborted \/ dialogs[d].todo = {} BY DEF SessionsInv, Loading
  <2>2. dialogs[d].aborted => said' = [said EXCEPT !.error = "codexRunning"] BY <1>2 DEF Tell
  <2>3. "error" \in DOMAIN said BY DEF SessionsInv, LoadsOK
  <2>4. dialogs[d].aborted => said'.error # "" BY <2>2, <2>3
  <2> QED BY <2>1, <2>4
<1>8. ASSUME NEW t \in Threads, MovedBy(d, t) PROVE ~Halfway(t)
  <2> SUFFICES ASSUME Halfway(t) PROVE FALSE OBVIOUS
  <2>1. task.step \in {"commit", "read", "write"} /\ task.step # "commit" /\ task.thread = t BY DEF Halfway
  <2>2. mover[t].by \in {task.dialog, "codex"} /\ dialogs[task.dialog].phase = "asking" BY <2>1, TaskKnown
  <2>3. mover[t].by = d /\ "codex" \notin Dialogs BY <1>8, SessionsAssumption DEF MovedBy
  <2> QED BY <2>2, <2>3
<1>9. \A t \in dialogs[d].ok \ split : place[t] = "stored" /\ MovedBy(d, t) => rollouts[t].tag = dialogs[d].to
  <2>1. dialogs[d].to # "" BY <1>4, SessionsAssumption
  <2> QED BY <1>4, <1>6, <1>8, <2>1 DEF SessionsInv, Agree
<1> QED BY <1>2, <1>4, <1>5, <1>6, <1>7, <1>9

\* Whatever Codex writes, locks or removes meanwhile, however many dialogs are at
\* work and wherever the server stops: a session's row and its file agree when no
\* migration stopped between them, no line is lost that Codex did not write into
\* the rewrite, and what a batch says of its sessions is so
\* (sessions.ts:149-193, Sessions.tsx:182-217).
THEOREM MovesAreToldTruly == SessionsSpec => MovedAsTold
<1> DEFINE Done == \A d \in Dialogs :
       dialogs[d].phase = "loading" /\ dialogs[d].batch /\ dialogs'[d] = NoDialog =>
         /\ \A t \in dialogs[d].ok :
              /\ ChangedSince(d, t)
              /\ MovedBy(d, t) => t \in DOMAIN list' /\ list'[t] = dialogs[d].to
         /\ said'.error = "" => dialogs[d].todo = {}
         /\ \A t \in dialogs[d].ok \ split :
              place[t] = "stored" /\ MovedBy(d, t) => rollouts[t].tag = dialogs[d].to
<1>1. SessionsInit => SessionsInv BY SessionsStart
<1>2. SessionsInv /\ [SessionsNext]_sessionsVars => SessionsInv' BY SessionsStep
<1>3. SessionsInv /\ [SessionsNext]_sessionsVars => [Done]_sessionsVars BY BatchStep
<1>4. SessionsInv => MigrationKeeps BY MigrationFromInv
<1>5. SessionsSpec => []SessionsInv BY <1>1, <1>2, PTL DEF SessionsSpec
<1>6. SessionsSpec => BatchTold BY <1>3, <1>5, PTL DEF SessionsSpec, BatchTold
<1> QED BY <1>4, <1>5, <1>6, PTL DEF MovedAsTold
================================================================================
