------------------------ MODULE RequestTranslatorProofs ------------------------
(***************************************************************************)
(* What reqToChat guarantees strict upstreams holds for any set of call    *)
(* ids and any history a client may send: every assistant message has      *)
(* content or calls, every tool message stands behind its call, and every  *)
(* call has its answer.  And what it guarantees the client: the            *)
(* conversation that arrives is the one that was held.                     *)
(***************************************************************************)
EXTENDS RequestTranslator, SequenceTheorems, TLAPS

--------------------------------------------------------------------------------
(* Types *)

LEMMA MadeMessages ==
  /\ \A n \in Nat : UserMessage(n) \in Messages
  /\ \A id \in CallIds, n \in Nat : ToolMessage(id, n) \in Messages
  /\ \A p \in AssemblyStates : AssistantMessage(p) \in Messages
<1>1. \A n \in Nat : UserMessage(n) \in Messages
  <2>. TAKE n \in Nat
  <2>1. <<>> \in Seq(Calls) OBVIOUS
  <2>. QED BY <2>1 DEF UserMessage, Message, Messages, Optional
<1>2. \A id \in CallIds, n \in Nat : ToolMessage(id, n) \in Messages
  <2>. TAKE id \in CallIds, n \in Nat
  <2>1. <<>> \in Seq(Calls) OBVIOUS
  <2>. QED BY <2>1 DEF ToolMessage, Message, Messages, Optional
<1>3. \A p \in AssemblyStates : AssistantMessage(p) \in Messages
  <2>. TAKE p \in AssemblyStates
  <2>1. /\ p.reasoning \in SUBSET Seq(Nat) /\ p.calls \in Seq(Calls) /\ p.text \in SUBSET Nat
        /\ Optional(p.reasoning, Seq(Nat)) /\ Optional(p.text, Nat)
    BY DEF AssemblyStates
  <2>. DEFINE content == IF p.text = {} /\ p.calls = <<>> THEN {MadeUp} ELSE p.text
  <2>2. content \in SUBSET Nat /\ Optional(content, Nat) BY <2>1 DEF Optional, MadeUp
  <2>3. Optional({}, CallIds) BY DEF Optional
  <2>4. AssistantMessage(p) = Message("assistant", content, p.calls, p.reasoning, {})
    BY DEF AssistantMessage
  <2>. DEFINE m == [role |-> "assistant", content |-> content, calls |-> p.calls,
                    reasoning |-> p.reasoning, answers |-> {}]
  <2>. HIDE DEF content
  <2>5. m \in [role : {"user", "assistant", "tool"}, content : SUBSET Nat,
               calls : Seq(Calls), reasoning : SUBSET Seq(Nat), answers : SUBSET CallIds]
    BY <2>1, <2>2
  <2>6. m \in Messages BY <2>1, <2>2, <2>3, <2>5 DEF Messages
  <2>. QED BY <2>4, <2>6 DEF Message
<1>. QED BY <1>1, <1>2, <1>3

LEMMA MessageFields ==
  ASSUME NEW m \in Messages
  PROVE  /\ m.calls \in Seq(Calls) /\ m.answers \subseteq CallIds
         /\ m.role = "tool" => \E id \in CallIds : m.answers = {id}
         /\ m.role # "tool" => m.answers = {}
         /\ m.role # "assistant" => m.calls = <<>>
BY DEF Messages, Optional

LEMMA IdsType == \A calls \in Seq(Calls) : IdsOf(calls) \subseteq CallIds
<1>. TAKE calls \in Seq(Calls)
<1>1. \A k \in DOMAIN calls : calls[k] \in Calls OBVIOUS
<1>2. \A k \in DOMAIN calls : calls[k].id \in CallIds BY <1>1 DEF Calls
<1>. QED BY <1>2 DEF IdsOf

LEMMA FlushType ==
  ASSUME NEW s \in Seq(Messages), NEW p \in AssemblyStates
  PROVE  Flush(s, p) \in Seq(Messages)
BY MadeMessages DEF Flush

LEMMA NothingType == Nothing \in AssemblyStates
<1>. <<>> \in Seq(Calls) OBVIOUS
<1>. QED BY DEF Nothing, AssemblyStates, Optional

LEMMA HereType == items \in Seq(Items) => Here \in Nat \ {0}
BY DEF Here

LEMMA ItemTypes ==
  /\ \A r \in {"user", "assistant"} : MessageItem(r) \in Items
  /\ \A e \in BOOLEAN : ReasoningItem(e) \in Items
  /\ \A c \in CallIds, a \in {"whole", "torn"} : CallItem(c, a) \in Items
  /\ \A c \in CallIds : OutputItem(c) \in Items
BY DEF Items

LEMMA BackfilledType ==
  ASSUME NEW s \in Seq(Messages)
  PROVE  [i \in DOMAIN s |-> Backfilled(s[i])] \in Seq(Messages)
<1>1. \A m \in Messages : Backfilled(m) \in Messages
  <2>1. <<MadeUp>> \in Seq(Nat) BY DEF MadeUp
  <2>2. Optional({<<MadeUp>>}, Seq(Nat)) BY <2>1 DEF Optional
  <2>. QED BY <2>1, <2>2 DEF Backfilled, Messages
<1>2. DOMAIN s = 1..Len(s) /\ Len(s) \in Nat OBVIOUS
<1>3. \A i \in 1..Len(s) : s[i] \in Messages OBVIOUS
<1>. DEFINE f == [i \in DOMAIN s |-> Backfilled(s[i])]
<1>4. f \in [1..Len(s) -> Messages] BY <1>1, <1>2, <1>3
<1>. HIDE DEF f
<1>5. f \in Seq(Messages) BY <1>2, <1>4, SeqDef
<1>. QED BY <1>5 DEF f

LEMMA InitTypes == Init => TypeOK
BY NothingType DEF Init, TypeOK

LEMMA ReadTypes ==
  ASSUME TypeOK, NEW item \in Items, Read(item),
         kept' \in Seq(Messages), pending' \in AssemblyStates
  PROVE  TypeOK'
BY DEF TypeOK, Read

LEMMA NextTypes == TypeOK /\ [Next]_vars => TypeOK'
<1>. SUFFICES ASSUME TypeOK, [Next]_vars PROVE TypeOK' OBVIOUS
<1>. USE DEF TypeOK
<1>h. Here \in Nat \ {0} BY HereType
<1>1. CASE ReadUserMessage
  <2>1. kept' \in Seq(Messages)
    BY <1>1, <1>h, FlushType, MadeMessages DEF ReadUserMessage
  <2>2. pending' \in AssemblyStates BY <1>1, NothingType DEF ReadUserMessage
  <2>. QED BY <1>1, <2>1, <2>2, ReadTypes, ItemTypes DEF ReadUserMessage
<1>2. CASE ReadAssistantMessage
  <2>1. [pending EXCEPT !.text = {Here}] \in AssemblyStates
        /\ [Nothing EXCEPT !.text = {Here}] \in AssemblyStates
    BY <1>h, NothingType DEF AssemblyStates, Optional
  <2>2. kept' \in Seq(Messages) BY <1>2, FlushType DEF ReadAssistantMessage
  <2>3. pending' \in AssemblyStates BY <1>2, <2>1 DEF ReadAssistantMessage
  <2>. QED BY <1>2, <2>2, <2>3, ReadTypes, ItemTypes DEF ReadAssistantMessage
<1>3. CASE ReadReasoning
  <2>. PICK empty \in BOOLEAN : ReadReasoning!(empty) BY <1>3 DEF ReadReasoning
  <2>. DEFINE text == IF empty THEN <<>> ELSE <<Here>>
  <2>1. text \in Seq(Nat) BY <1>h
  <2>2. CASE Assembling(pending)
    <3>1. Optional(pending.reasoning, Seq(Nat)) BY DEF AssemblyStates
    <3>. DEFINE joined == IF pending.reasoning = {} THEN {text} ELSE {r \o text : r \in pending.reasoning}
    <3>2. joined \in SUBSET Seq(Nat)
      <4>1. \A r \in pending.reasoning : r \o text \in Seq(Nat)
        BY <2>1, <3>1, ConcatProperties DEF Optional
      <4>. HIDE DEF text
      <4>. QED BY <2>1, <4>1
    <3>3. Optional(joined, Seq(Nat)) BY <2>1, <3>1, <3>2 DEF Optional
    <3>4. [pending EXCEPT !.reasoning = joined] \in AssemblyStates BY <3>2, <3>3 DEF AssemblyStates
    <3>5. pending' = [pending EXCEPT !.reasoning = joined] /\ kept' = kept BY <2>2
    <3>. QED BY <3>4, <3>5, ReadTypes, ItemTypes
  <2>3. CASE ~ Assembling(pending)
    <3>1. [Nothing EXCEPT !.reasoning = {text}] \in AssemblyStates
      BY <2>1, NothingType DEF AssemblyStates, Optional
    <3>2. kept' \in Seq(Messages) BY <2>3, FlushType
    <3>. QED BY <2>3, <3>1, <3>2, ReadTypes, ItemTypes
  <2>. QED BY <2>2, <2>3
<1>4. CASE ReadCall
  <2>. PICK id \in CallIds, args \in {"whole", "torn"} : ReadCall!(id, args) BY <1>4 DEF ReadCall
  <2>1. [id |-> id, from |-> Here, arguments |-> Sanitized(args)] \in Calls
    BY <1>h DEF Calls, Sanitized
  <2>. DEFINE call == [id |-> id, from |-> Here, arguments |-> Sanitized(args)]
  <2>2. Append(pending.calls, call) \in Seq(Calls) BY <2>1 DEF AssemblyStates
  <2>3. pending' = [pending EXCEPT !.calls = Append(pending.calls, call)] OBVIOUS
  <2>. HIDE DEF call
  <2>4. pending' \in AssemblyStates BY <2>2, <2>3 DEF AssemblyStates
  <2>. QED BY <2>4, ReadTypes, ItemTypes
<1>5. CASE ReadOutput
  <2>. PICK id \in CallIds : ReadOutput!(id) BY <1>5 DEF ReadOutput
  <2>1. kept' \in Seq(Messages) BY <1>h, FlushType, MadeMessages
  <2>. QED BY <2>1, NothingType, ReadTypes, ItemTypes
<1>6. CASE EndOfItems
  BY <1>6, FlushType, NothingType DEF EndOfItems
<1>7. CASE CheckMessage
  <2>1. Head(rest) \in Messages /\ Tail(rest) \in Seq(Messages)
    BY <1>7, HeadTailProperties DEF CheckMessage
  <2>2. IdsOf(Head(rest).calls) \subseteq CallIds BY <2>1, MessageFields, IdsType
  <2>. QED BY <1>7, <2>1, <2>2 DEF CheckMessage
<1>8. CASE OrphansRemoved
  BY <1>8 DEF OrphansRemoved, NextPass
<1>9. CASE PassMessage
  <2>1. Head(rest) \in Messages /\ Tail(rest) \in Seq(Messages)
    BY <1>9, HeadTailProperties DEF PassMessage
  <2>2. Head(rest).calls \in Seq(Calls) BY <2>1, MessageFields
  <2>. QED BY <1>9, <2>1, <2>2 DEF PassMessage
<1>14. CASE PassTool
  <2>1. Head(rest) \in Messages /\ Tail(rest) \in Seq(Messages)
    BY <1>14, HeadTailProperties DEF PassTool, NextIsTool
  <2>2. Head(rest).answers \subseteq CallIds BY <2>1, MessageFields
  <2>. QED BY <1>14, <2>1, <2>2 DEF PassTool
<1>10. CASE FillOutput
  <2>1. Head(owed) \in Calls /\ Tail(owed) \in Seq(Calls)
    BY <1>10, HeadTailProperties DEF FillOutput
  <2>2. ToolMessage(Head(owed).id, MadeUp) \in Messages
    BY <2>1, MadeMessages DEF Calls, MadeUp
  <2>. QED BY <1>10, <2>1, <2>2 DEF FillOutput
<1>11. CASE OutputsEnsured
  BY <1>11 DEF OutputsEnsured, NextPass
<1>12. CASE FillReasoning
  <2>2. [i \in DOMAIN rest |-> Backfilled(rest[i])] \in Seq(Messages)
    BY BackfilledType
  <2>. QED BY <1>12, <2>2 DEF FillReasoning
<1>13. CASE UNCHANGED vars BY <1>13 DEF vars
<1>. QED BY <1>1, <1>2, <1>3, <1>4, <1>5, <1>6, <1>7, <1>8, <1>9, <1>10, <1>11, <1>12, <1>13, <1>14 DEF Next

\* Types of the request translator (inputItemsToMessages and its passes).
THEOREM RequestTypeCorrect == Spec => []TypeOK
BY InitTypes, NextTypes, PTL DEF Spec

--------------------------------------------------------------------------------
(* An assistant message says something *)

Says(s) == \A i \in DOMAIN s : s[i].role = "assistant" => s[i].content # {} \/ s[i].calls # <<>>

LEMMA AppendSays ==
  ASSUME NEW s \in Seq(Messages), NEW m \in Messages, Says(s),
         m.role = "assistant" => m.content # {} \/ m.calls # <<>>
  PROVE  Says(Append(s, m))
<1>. SUFFICES ASSUME NEW i \in 1..Len(s) + 1, Append(s, m)[i].role = "assistant"
              PROVE  Append(s, m)[i].content # {} \/ Append(s, m)[i].calls # <<>>
  BY AppendProperties DEF Says
<1>1. CASE i = Len(s) + 1 BY <1>1, AppendProperties
<1>2. CASE i \in 1..Len(s)
  <2>1. Append(s, m)[i] = s[i] BY <1>2, AppendProperties
  <2>. QED BY <1>2, <2>1 DEF Says
<1>. QED BY <1>1, <1>2

LEMMA HeadTailSays ==
  ASSUME NEW s \in Seq(Messages), s # <<>>, Says(s)
  PROVE  /\ Head(s).role = "assistant" => Head(s).content # {} \/ Head(s).calls # <<>>
         /\ Says(Tail(s))
<1>1. Head(s) = s[1] /\ 1 \in DOMAIN s OBVIOUS
<1>2. /\ Tail(s) \in Seq(Messages) /\ Len(Tail(s)) = Len(s) - 1
      /\ \A i \in 1..Len(Tail(s)) : Tail(s)[i] = s[i + 1]
  BY HeadTailProperties
<1>3. \A i \in DOMAIN Tail(s) : i + 1 \in DOMAIN s /\ Tail(s)[i] = s[i + 1] BY <1>2
<1>. QED BY <1>1, <1>3 DEF Says

LEMMA FlushSays ==
  ASSUME NEW s \in Seq(Messages), Says(s), NEW p \in AssemblyStates
  PROVE  Says(Flush(s, p))
<1>. DEFINE m == AssistantMessage(p)
<1>1. m \in Messages BY MadeMessages
<1>2. m.content # {} \/ m.calls # <<>> BY DEF AssistantMessage, Message
<1>. HIDE DEF m
<1>3. Says(Append(s, m)) BY <1>1, <1>2, AppendSays
<1>. QED BY <1>3 DEF Flush, m

LEMMA NextSays ==
  ASSUME TypeOK, [Next]_vars, Says(kept), Says(rest)
  PROVE  Says(kept') /\ Says(rest')
<1>. USE DEF TypeOK
<1>h. Here \in Nat \ {0} BY HereType
<1>e. Says(<<>>) BY DEF Says
<1>f. Flush(kept, pending) \in Seq(Messages) /\ Says(Flush(kept, pending))
  BY FlushType, FlushSays
<1>1. CASE ReadUserMessage
  <2>1. UserMessage(Here) \in Messages /\ UserMessage(Here).role = "user"
    BY <1>h, MadeMessages DEF UserMessage, Message
  <2>. QED BY <1>1, <1>f, <2>1, AppendSays DEF ReadUserMessage, Read
<1>2. CASE ReadAssistantMessage BY <1>2, <1>f DEF ReadAssistantMessage, Read
<1>3. CASE ReadReasoning BY <1>3, <1>f DEF ReadReasoning, Read
<1>4. CASE ReadCall BY <1>4 DEF ReadCall, Read
<1>5. CASE ReadOutput
  <2>. PICK id \in CallIds : ReadOutput!(id) BY <1>5 DEF ReadOutput
  <2>1. ToolMessage(id, Here) \in Messages /\ ToolMessage(id, Here).role = "tool"
    BY <1>h, MadeMessages DEF ToolMessage, Message
  <2>. QED BY <1>f, <2>1, AppendSays DEF Read
<1>6. CASE EndOfItems BY <1>6, <1>e, <1>f DEF EndOfItems
<1>7. CASE CheckMessage
  <2>1. rest # <<>> /\ Head(rest) \in Messages BY <1>7, HeadTailProperties DEF CheckMessage
  <2>2. Says(Append(kept, Head(rest))) /\ Says(Tail(rest)) BY <2>1, HeadTailSays, AppendSays
  <2>. QED BY <1>7, <2>2 DEF CheckMessage
<1>8. CASE PassMessage \/ PassTool
  <2>1. rest # <<>> /\ Head(rest) \in Messages
    BY <1>8, HeadTailProperties DEF PassMessage, PassTool, NextIsTool
  <2>2. Says(Append(kept, Head(rest))) /\ Says(Tail(rest)) BY <2>1, HeadTailSays, AppendSays
  <2>. QED BY <1>8, <2>2 DEF PassMessage, PassTool
<1>9. CASE FillOutput
  <2>. DEFINE m == ToolMessage(Head(owed).id, MadeUp)
  <2>1. Head(owed) \in Calls BY <1>9, HeadTailProperties DEF FillOutput
  <2>2. m \in Messages /\ m.role = "tool"
    BY <2>1, MadeMessages DEF Calls, MadeUp, ToolMessage, Message
  <2>. HIDE DEF m
  <2>3. Says(Append(kept, m)) BY <2>2, AppendSays
  <2>. QED BY <1>9, <2>3 DEF FillOutput, m
<1>10. CASE OrphansRemoved \/ OutputsEnsured
  BY <1>10, <1>e DEF OrphansRemoved, OutputsEnsured, NextPass
<1>11. CASE FillReasoning
  <2>1. \A m \in Messages : Backfilled(m).role = m.role /\ Backfilled(m).content = m.content
                             /\ Backfilled(m).calls = m.calls
    BY DEF Backfilled, Messages
  <2>2. \A i \in DOMAIN rest : rest[i] \in Messages OBVIOUS
  <2>3. Says([i \in DOMAIN rest |-> Backfilled(rest[i])]) BY <2>1, <2>2 DEF Says
  <2>. QED BY <1>11, <1>e, <2>3 DEF FillReasoning
<1>12. CASE UNCHANGED vars BY <1>12 DEF vars
<1>. QED BY <1>1, <1>2, <1>3, <1>4, <1>5, <1>6, <1>7, <1>8, <1>9, <1>10, <1>11, <1>12 DEF Next

\* Whatever the client sends, no assistant message without content and calls is
\* ever put together (issue #29).
THEOREM NoEmptyAssistantMessage == Spec => []AssistantSaysSomething
<1>. DEFINE Inv == TypeOK /\ Says(kept) /\ Says(rest)
<1>1. Init => Inv BY InitTypes DEF Init, Says
<1>2. Inv /\ [Next]_vars => Inv' BY NextTypes, NextSays DEF Says
<1>3. Inv => AssistantSaysSomething BY DEF AssistantSaysSomething, Says, Elements
<1>. HIDE DEF Inv
<1>. QED BY <1>1, <1>2, <1>3, PTL DEF Spec

--------------------------------------------------------------------------------
(* Calls and their answers.  InScope is what removeOrphanToolMessages makes *)
(* true of the messages it has kept, Answered what                          *)
(* ensureToolCallsHaveOutputs adds.                                         *)

InScope(s) ==
  \A t \in DOMAIN s : s[t].role = "tool" =>
    \E a \in DOMAIN s : Behind(s, a, t) /\ s[t].answers \subseteq IdsOf(s[a].calls)

HasAnswer(s, a, id) == \E t \in DOMAIN s : Behind(s, a, t) /\ s[t].answers = {id}

Answered(s) == \A a \in DOMAIN s : \A id \in IdsOf(s[a].calls) : HasAnswer(s, a, id)

\* The run of tool messages behind a reaches the end of s.
OpenRun(s, a) == a \in DOMAIN s /\ \A k \in a + 1..Len(s) : s[k].role = "tool"

\* s is the rest of messages that were in scope: the tool messages it begins
\* with answer calls of the message before it.
Loose(s, allowed) ==
  \A t \in DOMAIN s : s[t].role = "tool" =>
    \/ \E a \in DOMAIN s : Behind(s, a, t) /\ s[t].answers \subseteq IdsOf(s[a].calls)
    \/ s[t].answers \subseteq allowed /\ \A k \in 1..t : s[k].role = "tool"

\* The calls in owed belong to the last assistant message, a; every other call
\* is answered, and so are those the pass has seen an output of.
Owing(a) ==
  /\ OpenRun(kept, a)
  /\ IdsOf(owed) \subseteq IdsOf(kept[a].calls)
  /\ \A id \in ids : HasAnswer(kept, a, id)
  /\ \A b \in DOMAIN kept : \A id \in IdsOf(kept[b].calls) :
       HasAnswer(kept, b, id) \/ (b = a /\ id \in IdsOf(owed))
  /\ Loose(rest, IdsOf(kept[a].calls))

PairInv ==
  /\ pc = "items" => ids = {}
  /\ pc \in {"items", "orphans"} => owed = <<>>
  /\ pc = "orphans" =>
       /\ InScope(kept)
       /\ \A id \in ids : \E a \in DOMAIN kept : OpenRun(kept, a) /\ id \in IdsOf(kept[a].calls)
  /\ pc = "outputs" =>
       /\ InScope(kept)
       /\ owed = <<>> => Answered(kept) /\ Loose(rest, {})
       /\ owed # <<>> => \E a \in DOMAIN kept : Owing(a)
  /\ pc = "reasoning" => InScope(rest) /\ Answered(rest)
  /\ pc = "sent" => InScope(kept) /\ Answered(kept)

LEMMA AppendFacts ==
  ASSUME NEW s \in Seq(Messages), NEW m \in Messages
  PROVE  /\ Append(s, m) \in Seq(Messages)
         /\ DOMAIN s = 1..Len(s) /\ Len(s) \in Nat
         /\ DOMAIN Append(s, m) = 1..Len(s) + 1 /\ Len(Append(s, m)) = Len(s) + 1
         /\ \A i \in DOMAIN s : Append(s, m)[i] = s[i]
         /\ Append(s, m)[Len(s) + 1] = m
BY AppendProperties

LEMMA BehindAppend ==
  ASSUME NEW s \in Seq(Messages), NEW m \in Messages
  PROVE  /\ \A a, t \in DOMAIN s : Behind(s, a, t) <=> Behind(Append(s, m), a, t)
         /\ m.role = "tool" => \A a \in DOMAIN s : OpenRun(s, a) =>
              OpenRun(Append(s, m), a) /\ Behind(Append(s, m), a, Len(s) + 1)
         /\ OpenRun(Append(s, m), Len(s) + 1)
<1>. DEFINE new == Append(s, m)
<1>0. /\ DOMAIN s = 1..Len(s) /\ Len(s) \in Nat
      /\ DOMAIN new = 1..Len(s) + 1 /\ Len(new) = Len(s) + 1
      /\ \A i \in DOMAIN s : new[i] = s[i]
      /\ new[Len(s) + 1] = m
  BY AppendFacts
<1>. HIDE DEF new
<1>1. ASSUME NEW a \in DOMAIN s, NEW t \in DOMAIN s
      PROVE  Behind(s, a, t) <=> Behind(new, a, t)
  <2>1. \A k \in a + 1..t : k \in DOMAIN s BY <1>0
  <2>. QED BY <1>0, <2>1 DEF Behind
<1>2. ASSUME m.role = "tool", NEW a \in DOMAIN s, OpenRun(s, a)
      PROVE  OpenRun(new, a) /\ Behind(new, a, Len(s) + 1)
  <2>1. \A k \in a + 1..Len(s) + 1 : new[k].role = "tool"
    <3>. TAKE k \in a + 1..Len(s) + 1
    <3>1. CASE k = Len(s) + 1 BY <1>0, <1>2, <3>1
    <3>2. CASE k \in a + 1..Len(s)
      <4>1. k \in DOMAIN s BY <1>0, <3>2
      <4>. QED BY <1>0, <1>2, <3>2, <4>1 DEF OpenRun
    <3>. QED BY <1>0, <3>1, <3>2
  <2>. QED BY <1>0, <2>1 DEF OpenRun, Behind
<1>3. OpenRun(new, Len(s) + 1) BY <1>0 DEF OpenRun
<1>. QED BY <1>1, <1>2, <1>3 DEF new

LEMMA HasAnswerAppend ==
  ASSUME NEW s \in Seq(Messages), NEW m \in Messages, NEW a \in DOMAIN s, NEW id
  PROVE  /\ HasAnswer(s, a, id) => HasAnswer(Append(s, m), a, id)
         /\ OpenRun(s, a) /\ m.role = "tool" /\ m.answers = {id}
              => HasAnswer(Append(s, m), a, id)
<1>1. /\ DOMAIN s \subseteq DOMAIN Append(s, m) /\ Len(s) + 1 \in DOMAIN Append(s, m)
      /\ \A i \in DOMAIN s : Append(s, m)[i] = s[i]
      /\ Append(s, m)[Len(s) + 1] = m
  BY AppendFacts
<1>2. HasAnswer(s, a, id) => HasAnswer(Append(s, m), a, id)
  BY <1>1, BehindAppend DEF HasAnswer
<1>3. OpenRun(s, a) /\ m.role = "tool" /\ m.answers = {id} => HasAnswer(Append(s, m), a, id)
  BY <1>1, BehindAppend DEF HasAnswer
<1>. QED BY <1>2, <1>3

LEMMA InScopeAppend ==
  ASSUME NEW s \in Seq(Messages), NEW m \in Messages, InScope(s),
         m.role = "tool" => \E a \in DOMAIN s : OpenRun(s, a) /\ m.answers \subseteq IdsOf(s[a].calls)
  PROVE  InScope(Append(s, m))
<1>. DEFINE new == Append(s, m)
<1>0. /\ DOMAIN s = 1..Len(s) /\ Len(s) \in Nat
      /\ DOMAIN new = 1..Len(s) + 1
      /\ \A i \in DOMAIN s : new[i] = s[i]
      /\ new[Len(s) + 1] = m
  BY AppendFacts
<1>b. /\ \A a, t \in DOMAIN s : Behind(s, a, t) <=> Behind(new, a, t)
      /\ m.role = "tool" => \A a \in DOMAIN s : OpenRun(s, a) => Behind(new, a, Len(s) + 1)
  BY BehindAppend
<1>. HIDE DEF new
<1>. SUFFICES ASSUME NEW t \in DOMAIN new, new[t].role = "tool"
              PROVE  \E a \in DOMAIN new : Behind(new, a, t) /\ new[t].answers \subseteq IdsOf(new[a].calls)
  BY DEF InScope, new
<1>1. CASE t \in DOMAIN s
  <2>1. PICK a \in DOMAIN s : Behind(s, a, t) /\ s[t].answers \subseteq IdsOf(s[a].calls)
    BY <1>0, <1>1 DEF InScope
  <2>. QED BY <1>0, <1>1, <1>b, <2>1
<1>2. CASE t = Len(s) + 1
  <2>1. PICK a \in DOMAIN s : OpenRun(s, a) /\ m.answers \subseteq IdsOf(s[a].calls)
    BY <1>0, <1>2
  <2>2. Behind(new, a, t) BY <1>0, <1>2, <1>b, <2>1
  <2>. QED BY <1>0, <1>2, <2>1, <2>2
<1>. QED BY <1>0, <1>1, <1>2

LEMMA NoCallsNoAnswer ==
  ASSUME NEW m \in Messages, NEW n \in Messages,
         m.role = "tool", m.answers \subseteq IdsOf(n.calls)
  PROVE  n.calls # <<>>
BY MessageFields DEF IdsOf

\* What follows the first message of a loose rest.
LEMMA LooseTail ==
  ASSUME NEW s \in Seq(Messages), s # <<>>, NEW allowed, Loose(s, allowed)
  PROVE  /\ Head(s).role = "tool" => Head(s).answers \subseteq allowed /\ Loose(Tail(s), allowed)
         /\ Head(s).role # "tool" => Loose(Tail(s), IdsOf(Head(s).calls)) /\ Loose(s, {})
<1>. DEFINE new == Tail(s)
<1>0. /\ DOMAIN s = 1..Len(s) /\ Len(s) \in Nat /\ 1 \in DOMAIN s /\ Head(s) = s[1]
      /\ \A i \in DOMAIN s : s[i] \in Messages
      /\ DOMAIN new = 1..Len(s) - 1 /\ \A i \in DOMAIN new : new[i] = s[i + 1]
  BY HeadTailProperties
<1>. HIDE DEF new
<1>1. ASSUME NEW a \in DOMAIN new, NEW t \in DOMAIN new, Behind(s, a + 1, t + 1)
      PROVE  Behind(new, a, t)
  <2>1. \A k \in a + 1..t : k \in DOMAIN new /\ k + 1 \in a + 2..t + 1 BY <1>0
  <2>. QED BY <1>0, <1>1, <2>1 DEF Behind
<1>2. ASSUME NEW t \in DOMAIN new, Behind(s, 1, t + 1)
      PROVE  \A k \in 1..t : new[k].role = "tool"
  <2>1. \A k \in 1..t : k \in DOMAIN new /\ k + 1 \in 2..t + 1 BY <1>0
  <2>. QED BY <1>0, <1>2, <2>1 DEF Behind
<1>3. ASSUME NEW t \in DOMAIN new, new[t].role = "tool"
      PROVE  \/ \E a \in DOMAIN new : Behind(new, a, t) /\ new[t].answers \subseteq IdsOf(new[a].calls)
             \/ Behind(s, 1, t + 1) /\ new[t].answers \subseteq IdsOf(Head(s).calls)
             \/ new[t].answers \subseteq allowed /\ \A k \in 1..t + 1 : s[k].role = "tool"
  <2>1. t + 1 \in DOMAIN s /\ s[t + 1] = new[t] BY <1>0
  <2>2. CASE \E a \in DOMAIN s : Behind(s, a, t + 1) /\ s[t + 1].answers \subseteq IdsOf(s[a].calls)
    <3>1. PICK a \in DOMAIN s : Behind(s, a, t + 1) /\ s[t + 1].answers \subseteq IdsOf(s[a].calls)
      BY <2>2
    <3>2. CASE a = 1 BY <1>0, <2>1, <3>1, <3>2
    <3>3. CASE a # 1
      <4>1. a - 1 \in DOMAIN new /\ new[a - 1] = s[a] BY <1>0, <2>1, <3>1, <3>3 DEF Behind
      <4>2. Behind(s, (a - 1) + 1, t + 1) BY <1>0, <3>1
      <4>3. Behind(new, a - 1, t) BY <1>1, <4>1, <4>2
      <4>. QED BY <2>1, <3>1, <4>1, <4>3
    <3>. QED BY <3>2, <3>3
  <2>3. CASE s[t + 1].answers \subseteq allowed /\ \A k \in 1..t + 1 : s[k].role = "tool"
    BY <2>1, <2>3
  <2>. QED BY <1>3, <2>1, <2>2, <2>3 DEF Loose
<1>4. ASSUME Head(s).role = "tool"
      PROVE  Head(s).answers \subseteq allowed /\ Loose(new, allowed)
  <2>1. \A a \in DOMAIN s : ~ Behind(s, a, 1) BY <1>0 DEF Behind
  <2>2. Head(s).answers \subseteq allowed BY <1>0, <1>4, <2>1 DEF Loose
  <2>3. Head(s).calls = <<>> BY <1>0, <1>4, MessageFields
  <2>4. ASSUME NEW t \in DOMAIN new, new[t].role = "tool"
        PROVE  ~ (new[t].answers \subseteq IdsOf(Head(s).calls))
    <3>1. new[t] \in Messages BY <1>0
    <3>. QED BY <1>0, <2>3, <2>4, <3>1, NoCallsNoAnswer
  <2>5. ASSUME NEW t \in DOMAIN new, \A k \in 1..t + 1 : s[k].role = "tool"
        PROVE  \A k \in 1..t : new[k].role = "tool"
    <3>1. \A k \in 1..t : k \in DOMAIN new /\ k + 1 \in 1..t + 1 BY <1>0
    <3>. QED BY <1>0, <2>5, <3>1
  <2>6. Loose(new, allowed) BY <1>3, <2>4, <2>5 DEF Loose
  <2>. QED BY <2>2, <2>6
<1>5. ASSUME Head(s).role # "tool"
      PROVE  Loose(new, IdsOf(Head(s).calls)) /\ Loose(s, {})
  <2>1. \A t \in DOMAIN s : ~ \A k \in 1..t : s[k].role = "tool" BY <1>0, <1>5
  <2>2. Loose(s, {}) BY <2>1 DEF Loose
  <2>3. \A t \in DOMAIN new : ~ \A k \in 1..t + 1 : s[k].role = "tool" BY <1>0, <1>5
  <2>4. Loose(new, IdsOf(Head(s).calls)) BY <1>2, <1>3, <2>3 DEF Loose
  <2>. QED BY <2>2, <2>4
<1>. QED BY <1>4, <1>5 DEF new

LEMMA BackfilledPairs ==
  ASSUME NEW s \in Seq(Messages), InScope(s), Answered(s)
  PROVE  /\ InScope([i \in DOMAIN s |-> Backfilled(s[i])])
         /\ Answered([i \in DOMAIN s |-> Backfilled(s[i])])
<1>. DEFINE new == [i \in DOMAIN s |-> Backfilled(s[i])]
<1>1. \A m \in Messages : /\ Backfilled(m).role = m.role
                           /\ Backfilled(m).calls = m.calls
                           /\ Backfilled(m).answers = m.answers
  BY DEF Backfilled, Messages
<1>2. /\ DOMAIN new = DOMAIN s /\ DOMAIN s = 1..Len(s) /\ Len(s) \in Nat
      /\ \A i \in DOMAIN s : s[i] \in Messages
  OBVIOUS
<1>3. \A i \in DOMAIN s : /\ new[i].role = s[i].role
                          /\ new[i].calls = s[i].calls
                          /\ new[i].answers = s[i].answers
  BY <1>1, <1>2
<1>. HIDE DEF new
<1>4. \A a, t \in DOMAIN s : Behind(s, a, t) => Behind(new, a, t)
  <2>. TAKE a, t \in DOMAIN s
  <2>1. \A k \in a + 1..t : k \in DOMAIN s BY <1>2
  <2>. QED BY <1>3, <2>1 DEF Behind
<1>5. InScope(new)
  <2>. SUFFICES ASSUME NEW t \in DOMAIN s, s[t].role = "tool"
                PROVE  \E a \in DOMAIN s : Behind(new, a, t) /\ new[t].answers \subseteq IdsOf(new[a].calls)
    BY <1>2, <1>3 DEF InScope
  <2>1. PICK a \in DOMAIN s : Behind(s, a, t) /\ s[t].answers \subseteq IdsOf(s[a].calls)
    BY DEF InScope
  <2>. QED BY <1>3, <1>4, <2>1
<1>6. Answered(new)
  <2>. SUFFICES ASSUME NEW a \in DOMAIN s, NEW id \in IdsOf(s[a].calls)
                PROVE  HasAnswer(new, a, id)
    BY <1>2, <1>3 DEF Answered
  <2>1. PICK t \in DOMAIN s : Behind(s, a, t) /\ s[t].answers = {id} BY DEF Answered, HasAnswer
  <2>. QED BY <1>2, <1>3, <1>4, <2>1 DEF HasAnswer
<1>. QED BY <1>5, <1>6 DEF new

LEMMA EmptyPairs == InScope(<<>>) /\ Answered(<<>>) /\ IdsOf(<<>>) = {}
BY DEF InScope, Answered, IdsOf

\* A step of removeOrphanToolMessages.
LEMMA CheckPairs == TypeOK /\ PairInv /\ CheckMessage => PairInv'
<1>. SUFFICES ASSUME TypeOK, PairInv, CheckMessage PROVE PairInv' OBVIOUS
<1>. DEFINE m == Head(rest)
<1>1. /\ kept \in Seq(Messages) /\ m \in Messages
      /\ pc = "orphans" /\ pc' = "orphans" /\ owed = <<>> /\ owed' = <<>>
  BY HeadTailProperties DEF TypeOK, CheckMessage, PairInv
<1>2. /\ ids' = CASE m.role = "assistant" -> IdsOf(m.calls)
                   [] m.role = "tool"      -> ids
                   [] OTHER                -> {}
      /\ kept' = IF m.role = "tool" /\ m.answers \cap ids = {} THEN kept ELSE Append(kept, m)
  BY DEF CheckMessage
<1>3. /\ InScope(kept)
      /\ \A id \in ids : \E a \in DOMAIN kept : OpenRun(kept, a) /\ id \in IdsOf(kept[a].calls)
  BY <1>1 DEF PairInv
<1>. HIDE DEF m
<1>4. CASE m.role = "tool" /\ m.answers \cap ids = {}
  <2>1. kept' = kept /\ ids' = ids BY <1>2, <1>4
  <2>. QED BY <1>1, <1>3, <2>1 DEF PairInv
<1>5. CASE m.role = "tool" /\ m.answers \cap ids # {}
  <2>1. PICK id \in CallIds : m.answers = {id} BY <1>1, <1>5, MessageFields
  <2>2. PICK a \in DOMAIN kept : OpenRun(kept, a) /\ id \in IdsOf(kept[a].calls)
    BY <1>3, <1>5, <2>1
  <2>3. kept' = Append(kept, m) /\ ids' = ids BY <1>2, <1>5
  <2>4. InScope(kept') BY <1>1, <1>3, <2>1, <2>2, <2>3, InScopeAppend
  <2>5. \A b \in DOMAIN kept : OpenRun(kept, b) => OpenRun(kept', b)
    BY <1>1, <1>5, <2>3, BehindAppend
  <2>6. \A b \in DOMAIN kept : b \in DOMAIN kept' /\ kept'[b] = kept[b]
    BY <1>1, <2>3, AppendFacts
  <2>7. \A i \in ids' : \E b \in DOMAIN kept' : OpenRun(kept', b) /\ i \in IdsOf(kept'[b].calls)
    BY <1>3, <2>3, <2>5, <2>6
  <2>. QED BY <1>1, <2>4, <2>7 DEF PairInv
<1>6. CASE m.role # "tool"
  <2>1. kept' = Append(kept, m) BY <1>2, <1>6
  <2>2. InScope(kept') BY <1>1, <1>3, <1>6, <2>1, InScopeAppend
  <2>3. ids' \subseteq IdsOf(m.calls) BY <1>2, <1>6
  <2>4. /\ Len(kept) + 1 \in DOMAIN kept' /\ kept'[Len(kept) + 1] = m
        /\ OpenRun(kept', Len(kept) + 1)
    BY <1>1, <2>1, AppendFacts, BehindAppend
  <2>5. \A i \in ids' : \E b \in DOMAIN kept' : OpenRun(kept', b) /\ i \in IdsOf(kept'[b].calls)
    BY <2>3, <2>4
  <2>. QED BY <1>1, <2>2, <2>5 DEF PairInv
<1>. QED BY <1>4, <1>5, <1>6

\* The next pass is about to pass message m, behind which the rest is loose.
LEMMA PassPairs == TypeOK /\ PairInv /\ PassMessage => PairInv'
<1>. SUFFICES ASSUME TypeOK, PairInv, PassMessage PROVE PairInv' OBVIOUS
<1>. DEFINE m == Head(rest)
<1>1. /\ kept \in Seq(Messages) /\ rest \in Seq(Messages) /\ rest # <<>> /\ m \in Messages
      /\ pc = "outputs" /\ pc' = "outputs"
      /\ kept' = Append(kept, m) /\ rest' = Tail(rest) /\ owed' = m.calls /\ ids' = {}
      /\ InScope(kept) /\ Answered(kept) /\ Loose(rest, {})
  BY HeadTailProperties DEF TypeOK, PassMessage, PairInv
<1>2. m.role # "tool" /\ Loose(rest', IdsOf(m.calls))
  <2>1. rest \in Seq(Messages) /\ rest # <<>> /\ Loose(rest, {}) BY <1>1
  <2>2. /\ Head(rest).role = "tool" => Head(rest).answers \subseteq {}
        /\ Head(rest).role # "tool" => Loose(Tail(rest), IdsOf(Head(rest).calls))
    BY <2>1, LooseTail
  <2>3. m.role = "tool" => \E id \in CallIds : m.answers = {id} BY <1>1, MessageFields
  <2>. QED BY <1>1, <2>2, <2>3
<1>. HIDE DEF m
<1>a. PICK a \in Nat : a = Len(kept) + 1 BY <1>1
<1>3. InScope(kept') BY <1>1, <1>2, InScopeAppend
<1>4. /\ DOMAIN kept' = 1..a /\ DOMAIN kept = 1..Len(kept) /\ Len(kept) \in Nat /\ kept'[a] = m
      /\ \A b \in DOMAIN kept : kept'[b] = kept[b]
      /\ OpenRun(kept', a)
  BY <1>1, <1>a, AppendFacts, BehindAppend
<1>5. \A b \in DOMAIN kept : \A id \in IdsOf(kept'[b].calls) : HasAnswer(kept', b, id)
  BY <1>1, <1>4, HasAnswerAppend DEF Answered
<1>6. CASE m.calls = <<>>
  <2>1. Answered(kept') BY <1>a, <1>4, <1>5, <1>6, EmptyPairs DEF Answered
  <2>2. Loose(rest', {}) BY <1>2, <1>6, EmptyPairs
  <2>. QED BY <1>1, <1>3, <1>6, <2>1, <2>2 DEF PairInv
<1>7. CASE m.calls # <<>>
  <2>1. \A b \in DOMAIN kept' : \A id \in IdsOf(kept'[b].calls) :
          HasAnswer(kept', b, id) \/ (b = a /\ id \in IdsOf(owed'))
    BY <1>1, <1>4, <1>5
  <2>2. Owing(a)' BY <1>1, <1>2, <1>4, <2>1 DEF Owing
  <2>3. a \in DOMAIN kept' BY <1>a, <1>4
  <2>4. \E b \in DOMAIN kept' : Owing(b)' BY <2>2, <2>3
  <2>. QED BY <1>1, <1>3, <1>7, <2>4 DEF PairInv
<1>. QED BY <1>6, <1>7

LEMMA ToolPairs == TypeOK /\ PairInv /\ PassTool => PairInv'
<1>. SUFFICES ASSUME TypeOK, PairInv, PassTool PROVE PairInv' OBVIOUS
<1>. DEFINE m == Head(rest)
<1>1. /\ kept \in Seq(Messages) /\ rest \in Seq(Messages) /\ rest # <<>> /\ m \in Messages
      /\ pc = "outputs" /\ pc' = "outputs" /\ m.role = "tool" /\ owed # <<>>
      /\ kept' = Append(kept, m) /\ rest' = Tail(rest) /\ owed' = owed /\ ids' = ids \cup m.answers
      /\ InScope(kept)
  BY HeadTailProperties DEF TypeOK, PassTool, NextIsTool, PairInv
<1>2. PICK a \in DOMAIN kept : Owing(a) BY <1>1 DEF PairInv
<1>3. m.answers \subseteq IdsOf(kept[a].calls) /\ Loose(rest', IdsOf(kept[a].calls))
  BY <1>1, <1>2, LooseTail DEF Owing
<1>4. PICK id \in CallIds : m.answers = {id} BY <1>1, MessageFields
<1>. HIDE DEF m
<1>5. InScope(kept') BY <1>1, <1>2, <1>3, InScopeAppend DEF Owing
<1>6. /\ DOMAIN kept' = 1..Len(kept) + 1 /\ DOMAIN kept = 1..Len(kept) /\ Len(kept) \in Nat
      /\ kept'[Len(kept) + 1] = m /\ \A b \in DOMAIN kept : kept'[b] = kept[b]
      /\ OpenRun(kept', a)
  BY <1>1, <1>2, AppendFacts, BehindAppend DEF Owing
<1>7. \A i \in ids' : HasAnswer(kept', a, i)
  BY <1>1, <1>2, <1>4, HasAnswerAppend DEF Owing
<1>8. m.calls = <<>> BY <1>1, MessageFields
<1>9. \A b \in DOMAIN kept' : \A i \in IdsOf(kept'[b].calls) :
        HasAnswer(kept', b, i) \/ (b = a /\ i \in IdsOf(owed'))
  <2>. TAKE b \in DOMAIN kept'
  <2>. TAKE i \in IdsOf(kept'[b].calls)
  <2>1. CASE b = Len(kept) + 1 BY <1>6, <1>8, <2>1, EmptyPairs
  <2>2. CASE b \in DOMAIN kept
    <3>1. HasAnswer(kept, b, i) \/ (b = a /\ i \in IdsOf(owed)) BY <1>2, <1>6, <2>2 DEF Owing
    <3>. QED BY <1>1, <2>2, <3>1, HasAnswerAppend
  <2>. QED BY <1>6, <2>1, <2>2
<1>10. IdsOf(owed') \subseteq IdsOf(kept'[a].calls) /\ Loose(rest', IdsOf(kept'[a].calls))
  BY <1>1, <1>2, <1>3, <1>6 DEF Owing
<1>11. Owing(a)' /\ a \in DOMAIN kept' BY <1>6, <1>7, <1>9, <1>10 DEF Owing
<1>12. \E b \in DOMAIN kept' : Owing(b)' BY <1>11
<1>. QED BY <1>1, <1>5, <1>12 DEF PairInv

LEMMA FillPairs == TypeOK /\ PairInv /\ FillOutput => PairInv'
<1>. SUFFICES ASSUME TypeOK, PairInv, FillOutput PROVE PairInv' OBVIOUS
<1>. DEFINE id == Head(owed).id
            m  == ToolMessage(id, MadeUp)
<1>1. /\ kept \in Seq(Messages) /\ rest \in Seq(Messages) /\ owed \in Seq(Calls) /\ owed # <<>>
      /\ pc = "outputs" /\ pc' = "outputs"
      /\ kept' = IF id \in ids THEN kept ELSE Append(kept, m)
      /\ rest' = rest /\ owed' = Tail(owed) /\ ids' = ids /\ InScope(kept)
      /\ rest = <<>> \/ Head(rest).role # "tool"
  BY DEF TypeOK, FillOutput, NextIsTool, PairInv
<1>2. PICK a \in DOMAIN kept : Owing(a) BY <1>1 DEF PairInv
<1>3. Head(owed) \in Calls /\ id \in CallIds
  <2>1. owed \in Seq(Calls) /\ owed # <<>> BY <1>1
  <2>2. Head(owed) \in Calls BY <2>1
  <2>. QED BY <2>2 DEF Calls
<1>4. m \in Messages /\ m.role = "tool" /\ m.answers = {id} /\ m.calls = <<>>
  BY <1>3, MadeMessages DEF ToolMessage, Message, MadeUp
<1>5. IdsOf(owed) = {id} \cup IdsOf(Tail(owed))
  <2>1. /\ DOMAIN owed = 1..Len(owed) /\ Len(owed) \in Nat \ {0} /\ owed[1] = Head(owed)
        /\ DOMAIN Tail(owed) = 1..Len(owed) - 1
        /\ \A k \in DOMAIN Tail(owed) : Tail(owed)[k] = owed[k + 1]
    BY <1>1, HeadTailProperties
  <2>2. \A k \in DOMAIN owed : k = 1 \/ (k - 1 \in DOMAIN Tail(owed) /\ owed[k] = Tail(owed)[k - 1])
    BY <2>1
  <2>3. \A k \in DOMAIN Tail(owed) : k + 1 \in DOMAIN owed BY <2>1
  <2>4. \A k \in DOMAIN owed : owed[k].id \in {id} \cup IdsOf(Tail(owed))
    BY <2>1, <2>2 DEF IdsOf
  <2>5. \A k \in DOMAIN Tail(owed) : Tail(owed)[k].id \in IdsOf(owed) BY <2>1, <2>3 DEF IdsOf
  <2>6. id \in IdsOf(owed) BY <2>1 DEF IdsOf
  <2>7. IdsOf(owed) \subseteq {id} \cup IdsOf(Tail(owed)) BY <2>4 DEF IdsOf
  <2>8. IdsOf(Tail(owed)) \subseteq IdsOf(owed) BY <2>5 DEF IdsOf
  <2>. QED BY <2>6, <2>7, <2>8
<1>6. id \in IdsOf(kept[a].calls) BY <1>2, <1>5 DEF Owing
<1>. HIDE DEF id, m
<1>7. /\ kept' \in Seq(Messages) /\ InScope(kept') /\ OpenRun(kept', a) /\ a \in DOMAIN kept'
      /\ HasAnswer(kept', a, id)
      /\ \A b \in DOMAIN kept, i \in CallIds : HasAnswer(kept, b, i) => HasAnswer(kept', b, i)
      /\ \A b \in DOMAIN kept : kept'[b] = kept[b]
      /\ \A b \in DOMAIN kept' \ DOMAIN kept : kept'[b].calls = <<>>
  <2>1. CASE id \in ids
    <3>1. HasAnswer(kept, a, id) BY <1>2, <2>1 DEF Owing
    <3>. QED BY <1>1, <1>2, <2>1, <3>1 DEF Owing
  <2>2. CASE id \notin ids
    <3>1. kept' = Append(kept, m) BY <1>1, <2>2
    <3>2. OpenRun(kept, a) BY <1>2 DEF Owing
    <3>3. InScope(kept') BY <1>1, <1>4, <1>6, <3>1, <3>2, InScopeAppend
    <3>4. OpenRun(kept', a) BY <1>1, <1>4, <3>1, <3>2, BehindAppend
    <3>5. HasAnswer(kept', a, id)
      <4>1. kept \in Seq(Messages) /\ m \in Messages BY <1>1, <1>4
      <4>2. HasAnswer(Append(kept, m), a, id) BY <4>1, <1>4, <3>2, HasAnswerAppend, SMTT(30)
      <4>. QED BY <3>1, <4>2
    <3>6. \A b \in DOMAIN kept, i \in CallIds : HasAnswer(kept, b, i) => HasAnswer(kept', b, i)
      BY <1>1, <1>4, <3>1, HasAnswerAppend
    <3>7. /\ kept' \in Seq(Messages) /\ \A b \in DOMAIN kept : kept'[b] = kept[b]
          /\ DOMAIN kept = 1..Len(kept) /\ Len(kept) \in Nat /\ DOMAIN kept' = 1..Len(kept) + 1
          /\ kept'[Len(kept) + 1] = m
      BY <1>1, <1>4, <3>1, AppendFacts
    <3>8. \A b \in DOMAIN kept' \ DOMAIN kept : b = Len(kept) + 1 BY <3>7
    <3>. QED BY <1>4, <3>3, <3>4, <3>5, <3>6, <3>7, <3>8
  <2>. QED BY <2>1, <2>2
<1>8. \A b \in DOMAIN kept' : \A i \in IdsOf(kept'[b].calls) :
        HasAnswer(kept', b, i) \/ (b = a /\ i \in IdsOf(owed'))
  <2>. TAKE b \in DOMAIN kept'
  <2>. TAKE i \in IdsOf(kept'[b].calls)
  <2>1. CASE b \notin DOMAIN kept BY <1>7, <2>1, EmptyPairs
  <2>2. CASE b \in DOMAIN kept
    <3>1. kept[b] \in Messages BY <1>1, <2>2
    <3>2. i \in CallIds BY <1>7, <2>2, <3>1, MessageFields, IdsType
    <3>3. HasAnswer(kept, b, i) \/ (b = a /\ i \in IdsOf(owed)) BY <1>2, <1>7, <2>2 DEF Owing
    <3>. QED BY <1>1, <1>5, <1>7, <2>2, <3>2, <3>3
  <2>. QED BY <2>1, <2>2
<1>9. Loose(rest', {})
  <2>1. CASE rest = <<>> BY <1>1, <2>1 DEF Loose
  <2>2. CASE rest # <<>> /\ Head(rest).role # "tool"
    BY <1>1, <1>2, <2>2, LooseTail DEF Owing
  <2>. QED BY <1>1, <2>1, <2>2
<1>10. CASE owed' = <<>>
  <2>1. Answered(kept') BY <1>8, <1>10, EmptyPairs DEF Answered
  <2>. QED BY <1>1, <1>7, <1>9, <1>10, <2>1 DEF PairInv
<1>11. CASE owed' # <<>>
  <2>1. \A i \in ids' : HasAnswer(kept', a, i)
    <3>1. \A i \in ids : i \in CallIds BY DEF TypeOK
    <3>. QED BY <1>1, <1>2, <1>7, <3>1 DEF Owing
  <2>2. IdsOf(owed') \subseteq IdsOf(kept'[a].calls) /\ Loose(rest', IdsOf(kept'[a].calls))
    BY <1>1, <1>2, <1>5, <1>7 DEF Owing
  <2>3. Owing(a)' BY <1>7, <1>8, <2>1, <2>2 DEF Owing
  <2>4. \E b \in DOMAIN kept' : Owing(b)' BY <1>7, <2>3
  <2>. QED BY <1>1, <1>7, <1>11, <2>4 DEF PairInv
<1>. QED BY <1>10, <1>11

LEMMA NextPairs == TypeOK /\ PairInv /\ [Next]_vars => PairInv'
<1>. SUFFICES ASSUME TypeOK, PairInv, [Next]_vars PROVE PairInv' OBVIOUS
<1>1. CASE ReadUserMessage \/ ReadAssistantMessage \/ ReadReasoning \/ ReadCall \/ ReadOutput
  <2>1. pc = "items" /\ pc' = "items" /\ ids' = ids /\ owed' = owed
    BY <1>1 DEF ReadUserMessage, ReadAssistantMessage, ReadReasoning, ReadCall, ReadOutput, Read
  <2>. QED BY <2>1 DEF PairInv
<1>2. CASE EndOfItems
  <2>1. pc' = "orphans" /\ kept' = <<>> /\ ids' = {} /\ owed' = <<>>
    BY <1>2 DEF EndOfItems, PairInv
  <2>. QED BY <2>1, EmptyPairs DEF PairInv
<1>3. CASE CheckMessage BY <1>3, CheckPairs
<1>4. CASE OrphansRemoved
  <2>1. pc' = "outputs" /\ rest' = kept /\ kept' = <<>> /\ owed' = <<>> /\ InScope(kept)
    BY <1>4 DEF OrphansRemoved, NextPass, PairInv
  <2>2. Loose(rest', {}) BY <2>1 DEF Loose, InScope
  <2>. QED BY <2>1, <2>2, EmptyPairs DEF PairInv
<1>5. CASE PassMessage BY <1>5, PassPairs
<1>6. CASE PassTool BY <1>6, ToolPairs
<1>7. CASE FillOutput BY <1>7, FillPairs
<1>8. CASE OutputsEnsured
  BY <1>8 DEF OutputsEnsured, NextPass, PairInv
<1>9. CASE FillReasoning
  <2>1. rest \in Seq(Messages) /\ InScope(rest) /\ Answered(rest) /\ pc' = "sent"
    BY <1>9 DEF FillReasoning, PairInv, TypeOK
  <2>2. InScope(kept') /\ Answered(kept') BY <1>9, <2>1, BackfilledPairs DEF FillReasoning
  <2>. QED BY <2>1, <2>2 DEF PairInv
<1>10. CASE UNCHANGED vars BY <1>10 DEF vars, PairInv, Owing
<1>. QED BY <1>1, <1>2, <1>3, <1>4, <1>5, <1>6, <1>7, <1>8, <1>9, <1>10 DEF Next

LEMMA PairsHold == Spec => [](TypeOK /\ PairInv)
<1>1. Init => TypeOK /\ PairInv BY InitTypes DEF Init, PairInv
<1>. QED BY <1>1, NextTypes, NextPairs, PTL DEF Spec

\* Whatever outputs the client's history lost, and however many items it has:
\* each call in the request that is sent has its tool message right behind it
\* (ensureToolCallsHaveOutputs).
THEOREM EveryCallAnswered == Spec => []CallsAnswered
<1>1. PairInv => CallsAnswered BY DEF PairInv, CallsAnswered, Sent, Answered, HasAnswer
<1>. QED BY <1>1, PairsHold, PTL

\* However the client's history was cut or replayed: each tool message that is
\* sent answers a call right in front of it (removeOrphanToolMessages), and the
\* passes behind it leave that so.
THEOREM EveryAnswerHasCall == Spec => []AnswersHaveCalls
<1>1. PairInv => AnswersHaveCalls BY DEF PairInv, AnswersHaveCalls, Sent, InScope
<1>. QED BY <1>1, PairsHold, PTL

\* Every request that is sent pairs its calls and answers, whatever the history
\* looked like when it came in.
THEOREM EveryCallPaired == Spec => []CallsPaired
<1>1. CallsAnswered /\ AnswersHaveCalls => CallsPaired BY DEF CallsPaired
<1>. QED BY <1>1, EveryCallAnswered, EveryAnswerHasCall, PTL

\* No strict upstream has a reason to refuse what is made of a history: no turn
\* is empty and every call is paired (flushAssistant and the repair passes).
THEOREM RequestsAreAccepted == Spec => []UpstreamAccepts
<1>1. AssistantSaysSomething /\ CallsPaired => UpstreamAccepts BY DEF UpstreamAccepts
<1>. QED BY <1>1, NoEmptyAssistantMessage, EveryCallPaired, PTL

--------------------------------------------------------------------------------
(* Where everything that was said is, at any time: OrderInv keeps the order *)
(* of the positions, SaidInv that none is lost, TurnInv that a turn is one  *)
(* message, AnswerInv that an output is on its way to its call.             *)

\* What an item left in a message: its text, a thought or a call.
Bears(m, n) ==
  \/ m.content = {n}
  \/ \E r \in m.reasoning : n \in Elements(r)
  \/ \E call \in Elements(m.calls) : call.from = n

Before(x, y) == \A n, o \in Nat \ {0} : Bears(x, n) /\ Bears(y, o) => n < o
InOrder(s)   == \A i, j \in DOMAIN s : i < j => Before(s[i], s[j])
Dated(m, e)  == \A n \in Nat \ {0} : Bears(m, n) => n <= e

\* The message the turn being assembled would be.
Turning == AssistantMessage(pending)

There == Elements(kept) \cup Elements(rest)

\* The passes read one array and write the other.
Clear == (pc \in {"items", "sent"} => rest = <<>>) /\ (pc = "reasoning" => kept = <<>>)

\* A message bears lower positions than what comes after it.
OrderInv ==
  /\ InOrder(kept) /\ InOrder(rest)
  /\ \A i \in DOMAIN kept, j \in DOMAIN rest : Before(kept[i], rest[j])
  /\ pc = "items" =>
       /\ Dated(Turning, Len(items))
       /\ \A i \in DOMAIN kept : Before(kept[i], Turning) /\ Dated(kept[i], Len(items))

\* Whether message m says what item says at position n.
Tells(m, item, n) ==
  \/ item.type = "message" /\ m.content = {n} /\ m.role = item.role
  \/ item.type = "reasoning" /\ \E r \in m.reasoning : n \in Elements(r)
  \/ item.type = "function_call" /\ \E call \in Elements(m.calls) : call.from = n /\ call.id = item.id

\* An item that says something of its own; an empty thought may vanish.
Voiced(item) == item.type # "function_call_output" /\ item # ReasoningItem(TRUE)

\* What was said is in a message or in the turn that is being assembled.
SaidInv ==
  \A n \in DOMAIN items : Voiced(items[n]) =>
    \/ \E m \in There : m.role # "tool" /\ Tells(m, items[n], n)
    \/ pc = "items" /\ Tells(Turning, items[n], n)

\* Message m is the agent turn of positions b to e.
IsTurn(m, b, e) ==
  /\ m.role = "assistant"
  /\ m.content \ {MadeUp} = Positions(b, e, "message")
  /\ \A n \in Positions(b, e, "reasoning") : items[n].empty \/ m.reasoning = {<<n>>}
  /\ {m.calls[k].from : k \in DOMAIN m.calls} = Positions(b, e, "function_call")
  /\ \A k, l \in DOMAIN m.calls : k < l => m.calls[k].from < m.calls[l].from

Simple(b, e) == AtMostOne(Positions(b, e, "message")) /\ AtMostOne(Positions(b, e, "reasoning"))

\* The turn from b on has not ended; pending is what it said so far.
OpenTurn(b) == (\A n \in b..Len(items) : Speaks(n)) /\ (b > 1 => ~ Speaks(b - 1))
Pends(b, e) ==
  /\ pending.text = Positions(b, e, "message")
  /\ Positions(b, e, "reasoning") = {} => pending.reasoning = {}
  /\ \A n \in Positions(b, e, "reasoning") :
       pending.reasoning = {IF items[n].empty THEN <<>> ELSE <<n>>}
  /\ {pending.calls[k].from : k \in DOMAIN pending.calls} = Positions(b, e, "function_call")
  /\ \A k, l \in DOMAIN pending.calls : k < l => pending.calls[k].from < pending.calls[l].from

\* A turn that has ended is a message, one that has not is pending.
TurnInv ==
  /\ \A b, e \in DOMAIN items :
       b <= e /\ Turn(b, e) /\ Simple(b, e) /\ (pc = "items" => e < Len(items))
         => \E m \in There : IsTurn(m, b, e)
  /\ pc = "items" => \A b \in 1..Len(items) + 1 :
       OpenTurn(b) /\ Simple(b, Len(items)) => Pends(b, Len(items))

\* Position c calls, then come calls and reasoning, and from m on only outputs.
Opened(c, m) ==
  /\ Type(c) = "function_call"
  /\ \A n \in c + 1..m - 1 : Type(n) \in {"function_call", "reasoning"}
  /\ \A n \in m..Len(items) : Type(n) = "function_call_output"
HasCall(m, id) == id \in IdsOf(m.calls)
\* The message of such a call is where its outputs will be put.
RunInv ==
  \A c \in DOMAIN items : \A m \in c + 1..Len(items) + 1 :
    Opened(c, m) =>
      IF m = Len(items) + 1 THEN HasCall(pending, items[c].id)
      ELSE pending = Nothing /\ \E a \in DOMAIN kept : HasCall(kept[a], items[c].id) /\ OpenRun(kept, a)

IsAnswer(m, k, id) == m.content = {k} /\ m.answers = {id}

\* The output at position k, of call id, is behind its call.
Pair(s, a, t, k, id) == Behind(s, a, t) /\ HasCall(s[a], id) /\ IsAnswer(s[t], k, id)
Paired(s, k, id)     == \E a, t \in DOMAIN s : Pair(s, a, t, k, id)

\* The call is in the part a pass has dealt with, the output in the other.
Waits(s, a, id) == OpenRun(s, a) /\ HasCall(s[a], id)
Leads(r, k, id) == \E t \in DOMAIN r : (\A j \in 1..t : r[j].role = "tool") /\ IsAnswer(r[t], k, id)

\* No placeholder behind message a pretends that the output of its call is lost.
Honest(s, a, id) == \A u \in DOMAIN s : Behind(s, a, u) /\ s[u].answers = {id} => s[u].content # {MadeUp}
Real(s) == \A i \in DOMAIN s : s[i].role = "tool" => s[i].content # {MadeUp}
Clean(s, k, id) == \E a, t \in DOMAIN s : Pair(s, a, t, k, id) /\ Honest(s, a, id)

\* The outputs of ordinary turns.
Expected == {k \in DOMAIN items : Type(k) = "function_call_output" /\ OrdinaryAnswer(k)}

\* Where an output is while the first pass, and the second, run.
Checked(k, id) ==
  \/ Paired(kept, k, id)
  \/ Paired(rest, k, id)
  \/ id \in ids /\ Leads(rest, k, id) /\ \E a \in DOMAIN kept : Waits(kept, a, id)
Ensured(k, id) ==
  \/ Paired(rest, k, id)
  \/ /\ owed # <<>> /\ Leads(rest, k, id)
     /\ \E a \in DOMAIN kept : Waits(kept, a, id) /\ Honest(kept, a, id)
  \/ \E a, t \in DOMAIN kept :
       /\ Pair(kept, a, t, k, id) /\ Honest(kept, a, id)
       /\ owed # <<>> /\ OpenRun(kept, a) => id \in ids

AnswerInv ==
  /\ pc = "items" => Real(kept) /\ RunInv /\ \A k \in Expected : Paired(kept, k, items[k].id)
  /\ pc = "orphans" => Real(kept) /\ Real(rest) /\ \A k \in Expected : Checked(k, items[k].id)
  /\ pc = "outputs" => Real(rest) /\ \A k \in Expected : Ensured(k, items[k].id)
  /\ pc = "reasoning" => \A k \in Expected : Clean(rest, k, items[k].id)
  /\ pc = "sent" => \A k \in Expected : Clean(kept, k, items[k].id)

LEMMA ListFacts ==
  /\ Elements(<<>>) = {}
  /\ \A s \in Seq(Messages), m \in Messages : Elements(Append(s, m)) = Elements(s) \cup {m}
  /\ \A s \in Seq(Messages) : s # <<>> =>
       /\ Elements(s) = {Head(s)} \cup Elements(Tail(s))
       /\ DOMAIN s = 1..Len(s) /\ Len(s) \in Nat /\ 1 \in DOMAIN s /\ Head(s) = s[1] /\ Head(s) \in Messages
       /\ Tail(s) \in Seq(Messages) /\ DOMAIN Tail(s) = 1..Len(s) - 1
       /\ \A i \in DOMAIN Tail(s) : i + 1 \in DOMAIN s /\ Tail(s)[i] = s[i + 1]
<1>1. Elements(<<>>) = {} BY DEF Elements
<1>2. ASSUME NEW s \in Seq(Messages), NEW m \in Messages
      PROVE  Elements(Append(s, m)) = Elements(s) \cup {m}
  <2>1. /\ DOMAIN s = 1..Len(s) /\ Len(s) \in Nat
        /\ DOMAIN Append(s, m) = 1..Len(s) + 1
        /\ \A i \in DOMAIN s : Append(s, m)[i] = s[i]
        /\ Append(s, m)[Len(s) + 1] = m
    BY AppendFacts
  <2>2. \A i \in 1..Len(s) + 1 : i \in DOMAIN s \/ i = Len(s) + 1 BY <2>1
  <2>3. DOMAIN s \subseteq 1..Len(s) + 1 /\ Len(s) + 1 \in 1..Len(s) + 1 BY <2>1
  <2>4. Elements(Append(s, m)) \subseteq Elements(s) \cup {m} BY <2>1, <2>2 DEF Elements
  <2>5. Elements(s) \cup {m} \subseteq Elements(Append(s, m)) BY <2>1, <2>3 DEF Elements
  <2>. QED BY <2>4, <2>5
<1>3. ASSUME NEW s \in Seq(Messages), s # <<>>
      PROVE  /\ Elements(s) = {Head(s)} \cup Elements(Tail(s))
             /\ DOMAIN s = 1..Len(s) /\ Len(s) \in Nat /\ 1 \in DOMAIN s /\ Head(s) = s[1] /\ Head(s) \in Messages
             /\ Tail(s) \in Seq(Messages) /\ DOMAIN Tail(s) = 1..Len(s) - 1
             /\ \A i \in DOMAIN Tail(s) : i + 1 \in DOMAIN s /\ Tail(s)[i] = s[i + 1]
  <2>0. DOMAIN s = 1..Len(s) /\ Len(s) \in Nat /\ 1 \in DOMAIN s /\ Head(s) = s[1] /\ s[1] \in Messages
    BY <1>3
  <2>a. /\ Tail(s) \in Seq(Messages) /\ DOMAIN Tail(s) = 1..Len(s) - 1
        /\ \A i \in DOMAIN Tail(s) : Tail(s)[i] = s[i + 1]
    BY <1>3, HeadTailProperties
  <2>1. /\ DOMAIN s = 1..Len(s) /\ Len(s) \in Nat /\ 1 \in DOMAIN s /\ Head(s) = s[1] /\ Head(s) \in Messages
        /\ Tail(s) \in Seq(Messages) /\ DOMAIN Tail(s) = 1..Len(s) - 1
        /\ \A i \in DOMAIN Tail(s) : Tail(s)[i] = s[i + 1]
    BY <2>0, <2>a
  <2>2. \A i \in DOMAIN Tail(s) : i + 1 \in DOMAIN s BY <2>1
  <2>3. \A i \in DOMAIN s : i = 1 \/ (i - 1 \in DOMAIN Tail(s) /\ Tail(s)[i - 1] = s[i])
    <3>. TAKE i \in DOMAIN s
    <3>1. i # 1 => i - 1 \in DOMAIN Tail(s) /\ (i - 1) + 1 = i BY <2>1
    <3>. QED BY <2>1, <3>1
  <2>4. Elements(s) \subseteq {Head(s)} \cup Elements(Tail(s))
    <3>1. \A i \in DOMAIN s : s[i] = Head(s) \/ \E j \in DOMAIN Tail(s) : s[i] = Tail(s)[j] BY <2>1, <2>3
    <3>. QED BY <3>1 DEF Elements
  <2>5. {Head(s)} \cup Elements(Tail(s)) \subseteq Elements(s) BY <2>1, <2>2 DEF Elements
  <2>. QED BY <2>1, <2>2, <2>4, <2>5
<1>. QED BY <1>1, <1>2, <1>3

LEMMA FlushElements ==
  ASSUME NEW s \in Seq(Messages), NEW p \in AssemblyStates
  PROVE  Elements(Flush(s, p)) = Elements(s) \cup (IF p = Nothing THEN {} ELSE {AssistantMessage(p)})
BY MadeMessages, ListFacts DEF Flush

LEMMA BackfillFacts ==
  ASSUME NEW m \in Messages
  PROVE  /\ Backfilled(m) \in Messages
         /\ Backfilled(m).role = m.role /\ Backfilled(m).calls = m.calls
         /\ Backfilled(m).answers = m.answers /\ Backfilled(m).content = m.content
         /\ Backfilled(m).reasoning = m.reasoning
              \/ (m.reasoning \subseteq {<<>>} /\ Backfilled(m).reasoning = {<<MadeUp>>})
<1>1. <<MadeUp>> \in Seq(Nat) BY DEF MadeUp
<1>2. Optional({<<MadeUp>>}, Seq(Nat)) BY <1>1 DEF Optional
<1>. QED BY <1>1, <1>2 DEF Backfilled, Messages

\* Nothing but tool messages disappears in the passes.
LEMMA MessagesStay ==
  ASSUME TypeOK, Clear, [Next]_vars, pc # "items", NEW m \in There, m.role # "tool"
  PROVE  \E x \in There' : x = m \/ x = Backfilled(m)
<1>. USE DEF There
<1>0. kept \in Seq(Messages) /\ rest \in Seq(Messages) BY DEF TypeOK
<1>1. CASE CheckMessage
  <2>1. rest # <<>> /\ Head(rest) \in Messages BY <1>0, <1>1, ListFacts DEF CheckMessage
  <2>2. Elements(rest) = {Head(rest)} \cup Elements(Tail(rest))
        /\ Elements(Append(kept, Head(rest))) = Elements(kept) \cup {Head(rest)}
    BY <1>0, <2>1, ListFacts
  <2>3. m = Head(rest) => kept' = Append(kept, Head(rest)) BY <1>1 DEF CheckMessage
  <2>4. rest' = Tail(rest) /\ (kept' = kept \/ kept' = Append(kept, Head(rest))) BY <1>1 DEF CheckMessage
  <2>5. m \in There' BY <2>2, <2>3, <2>4
  <2>. QED BY <2>5
<1>2. CASE PassMessage \/ PassTool
  <2>1. /\ rest # <<>> /\ rest' = Tail(rest) /\ kept' = Append(kept, Head(rest))
    BY <1>2 DEF PassMessage, PassTool, NextIsTool
  <2>2. Elements(rest) = {Head(rest)} \cup Elements(Tail(rest))
        /\ Elements(Append(kept, Head(rest))) = Elements(kept) \cup {Head(rest)}
    BY <1>0, <2>1, ListFacts
  <2>3. m \in There' BY <2>1, <2>2
  <2>. QED BY <2>3
<1>3. CASE FillOutput
  <2>. DEFINE x == ToolMessage(Head(owed).id, MadeUp)
  <2>1. Head(owed) \in Calls BY <1>3, HeadTailProperties DEF FillOutput, TypeOK
  <2>2. x \in Messages BY <2>1, MadeMessages DEF Calls, MadeUp
  <2>3. rest' = rest /\ (kept' = kept \/ kept' = Append(kept, x)) BY <1>3 DEF FillOutput
  <2>. HIDE DEF x
  <2>4. Elements(kept) \subseteq Elements(kept')
    <3>1. Elements(Append(kept, x)) = Elements(kept) \cup {x} BY <1>0, <2>2, ListFacts
    <3>. QED BY <2>3, <3>1
  <2>5. m \in There' BY <2>3, <2>4
  <2>. QED BY <2>5
<1>4. CASE OrphansRemoved \/ OutputsEnsured
  <2>1. rest = <<>> /\ rest' = kept BY <1>4 DEF OrphansRemoved, OutputsEnsured, NextPass
  <2>2. m \in There' BY <2>1, ListFacts
  <2>. QED BY <2>2
<1>5. CASE FillReasoning
  <2>1. kept = <<>> BY <1>5 DEF FillReasoning, Clear
  <2>2. PICK i \in DOMAIN rest : m = rest[i] BY <2>1, ListFacts DEF Elements
  <2>3. kept' = rest \/ kept' = [j \in DOMAIN rest |-> Backfilled(rest[j])] BY <1>5 DEF FillReasoning
  <2>4. i \in DOMAIN kept' /\ (kept'[i] = m \/ kept'[i] = Backfilled(m)) BY <2>2, <2>3
  <2>5. kept'[i] \in Elements(kept') BY <2>4 DEF Elements
  <2>. QED BY <2>4, <2>5
<1>6. CASE UNCHANGED vars BY <1>6 DEF vars
<1>7. CASE ReadUserMessage \/ ReadAssistantMessage \/ ReadReasoning \/ ReadCall \/ ReadOutput \/ EndOfItems
  BY <1>7 DEF ReadUserMessage, ReadAssistantMessage, ReadReasoning, ReadCall, ReadOutput, EndOfItems, Read
<1>. QED BY <1>1, <1>2, <1>3, <1>4, <1>5, <1>6, <1>7 DEF Next

LEMMA ClearKept == Clear /\ [Next]_vars => Clear'
BY DEF Clear, Next, vars, Read, ReadUserMessage, ReadAssistantMessage, ReadReasoning, ReadCall, ReadOutput,
       EndOfItems, CheckMessage, OrphansRemoved, PassMessage, PassTool, FillOutput, OutputsEnsured,
       FillReasoning, NextPass

--------------------------------------------------------------------------------
(* The order of what was said *)

\* Nothing is born by what carries no position of an item.
LEMMA BearsNothing ==
  /\ \A n \in Nat \ {0} : ~ Bears(AssistantMessage(Nothing), n)
  /\ \A id \in CallIds : \A n \in Nat \ {0} : ~ Bears(ToolMessage(id, MadeUp), n)
  /\ \A id \in CallIds, k \in Nat : \A n \in Nat \ {0} : Bears(ToolMessage(id, k), n) => n = k
  /\ \A k \in Nat : \A n \in Nat \ {0} : Bears(UserMessage(k), n) => n = k
<1>1. \A m, n : m.reasoning = {} /\ m.calls = <<>> /\ Bears(m, n) => m.content = {n}
  BY DEF Bears, Elements
<1>2. /\ AssistantMessage(Nothing).reasoning = {} /\ AssistantMessage(Nothing).calls = <<>>
      /\ AssistantMessage(Nothing).content = {0}
  BY DEF AssistantMessage, Nothing, Message, MadeUp
<1>3. \A id, k : /\ ToolMessage(id, k).reasoning = {} /\ ToolMessage(id, k).calls = <<>>
                 /\ ToolMessage(id, k).content = {k}
  BY DEF ToolMessage, Message
<1>4. \A k : /\ UserMessage(k).reasoning = {} /\ UserMessage(k).calls = <<>>
             /\ UserMessage(k).content = {k}
  BY DEF UserMessage, Message
<1>5. \A n \in Nat \ {0} : ~ Bears(AssistantMessage(Nothing), n) BY <1>1, <1>2
<1>6. \A id, k : \A n \in Nat \ {0} : Bears(ToolMessage(id, k), n) => n = k BY <1>1, <1>3
<1>7. \A k : \A n \in Nat \ {0} : Bears(UserMessage(k), n) => n = k BY <1>1, <1>4
<1>. QED BY <1>5, <1>6, <1>7 DEF MadeUp

LEMMA AppendOrder ==
  ASSUME NEW s \in Seq(Messages), NEW m \in Messages, InOrder(s),
         \A i \in DOMAIN s : Before(s[i], m)
  PROVE  InOrder(Append(s, m))
<1>. DEFINE new == Append(s, m)
<1>1. /\ DOMAIN s = 1..Len(s) /\ Len(s) \in Nat /\ DOMAIN new = 1..Len(s) + 1
      /\ \A i \in DOMAIN s : new[i] = s[i]
      /\ new[Len(s) + 1] = m
  BY AppendFacts
<1>. HIDE DEF new
<1>2. ASSUME NEW i \in DOMAIN new, NEW j \in DOMAIN new, i < j
      PROVE  Before(new[i], new[j])
  <2>1. i \in DOMAIN s BY <1>1, <1>2
  <2>2. CASE j \in DOMAIN s BY <1>1, <1>2, <2>1, <2>2 DEF InOrder
  <2>3. CASE j = Len(s) + 1 BY <1>1, <2>1, <2>3
  <2>. QED BY <1>1, <2>2, <2>3
<1>. QED BY <1>2 DEF InOrder, new

LEMMA FlushOrder ==
  ASSUME NEW s \in Seq(Messages), NEW p \in AssemblyStates, NEW e \in Nat, InOrder(s),
         Dated(AssistantMessage(p), e),
         \A i \in DOMAIN s : Before(s[i], AssistantMessage(p)) /\ Dated(s[i], e)
  PROVE  /\ Flush(s, p) \in Seq(Messages) /\ InOrder(Flush(s, p))
         /\ \A i \in DOMAIN Flush(s, p) : Dated(Flush(s, p)[i], e)
<1>1. CASE p = Nothing BY <1>1 DEF Flush
<1>2. CASE p # Nothing
  <2>. DEFINE m == AssistantMessage(p)
              new == Append(s, m)
  <2>1. m \in Messages BY MadeMessages
  <2>2. Flush(s, p) = new BY <1>2 DEF Flush
  <2>3. \A i \in DOMAIN s : Before(s[i], m) /\ Dated(s[i], e) OBVIOUS
  <2>4. Dated(m, e) OBVIOUS
  <2>. HIDE DEF m
  <2>5. InOrder(new) BY <2>1, <2>3, AppendOrder
  <2>6. /\ DOMAIN new = 1..Len(s) + 1 /\ DOMAIN s = 1..Len(s) /\ Len(s) \in Nat /\ new \in Seq(Messages)
        /\ \A i \in DOMAIN s : new[i] = s[i]
        /\ new[Len(s) + 1] = m
    BY <2>1, AppendFacts
  <2>. HIDE DEF new
  <2>7. \A i \in DOMAIN new : i \in DOMAIN s \/ i = Len(s) + 1 BY <2>6
  <2>8. \A i \in DOMAIN new : Dated(new[i], e) BY <2>3, <2>4, <2>6, <2>7
  <2>. QED BY <2>2, <2>5, <2>6, <2>8
<1>. QED BY <1>1, <1>2

\* What is older than e comes before what is of position e + 1.
LEMMA OlderFirst ==
  ASSUME NEW e \in Nat, NEW x, NEW y, Dated(x, e),
         \A n \in Nat \ {0} : Bears(y, n) => n = e + 1
  PROVE  Before(x, y) /\ Dated(x, e + 1) /\ Dated(y, e + 1)
BY DEF Before, Dated

\* An item joins the turn that is being assembled.
LEMMA JoinOrder ==
  ASSUME TypeOK, OrderInv, Clear, NEW item, Read(item), kept' = kept,
         \A n \in Nat \ {0} : Bears(Turning', n) => Bears(Turning, n) \/ n = Here
  PROVE  OrderInv'
<1>1. /\ items \in Seq(Items) /\ pc = "items" /\ pc' = "items" /\ rest = <<>> /\ rest' = <<>>
      /\ items' = Append(items, item) /\ Len(items) \in Nat /\ Here = Len(items) + 1
  BY DEF TypeOK, Read, Clear, Here
<1>2. Len(items') = Len(items) + 1 BY <1>1
<1>3. InOrder(kept) /\ InOrder(rest) /\ Dated(Turning, Len(items))
      /\ \A i \in DOMAIN kept : Before(kept[i], Turning) /\ Dated(kept[i], Len(items))
  BY <1>1 DEF OrderInv
<1>4. Dated(Turning', Len(items')) BY <1>1, <1>2, <1>3 DEF Dated
<1>5. \A i \in DOMAIN kept : Before(kept[i], Turning') /\ Dated(kept[i], Len(items'))
  BY <1>1, <1>2, <1>3 DEF Dated, Before
<1>6. \A i \in DOMAIN kept', j \in DOMAIN rest' : Before(kept'[i], rest'[j]) BY <1>1
<1>. QED BY <1>1, <1>3, <1>4, <1>5, <1>6 DEF OrderInv

\* The turn that was assembled is flushed and an item begins the next one.
LEMMA FlushedOrder ==
  ASSUME TypeOK, OrderInv, Clear, NEW item, Read(item), kept' = Flush(kept, pending),
         \A n \in Nat \ {0} : Bears(Turning', n) => n = Here
  PROVE  OrderInv'
<1>1. /\ items \in Seq(Items) /\ pc = "items" /\ pc' = "items" /\ rest = <<>> /\ rest' = <<>>
      /\ items' = Append(items, item) /\ Len(items) \in Nat /\ Here = Len(items) + 1
      /\ kept \in Seq(Messages) /\ pending \in AssemblyStates
  BY DEF TypeOK, Read, Clear, Here
<1>2. Len(items') = Len(items) + 1 BY <1>1
<1>3. InOrder(kept) /\ InOrder(rest) /\ Dated(Turning, Len(items))
      /\ \A i \in DOMAIN kept : Before(kept[i], Turning) /\ Dated(kept[i], Len(items))
  BY <1>1 DEF OrderInv
<1>4. InOrder(kept') /\ \A i \in DOMAIN kept' : Dated(kept'[i], Len(items))
  BY <1>1, <1>3, FlushOrder DEF Turning
<1>5. Dated(Turning', Len(items')) BY <1>1, <1>2 DEF Dated
<1>6. \A i \in DOMAIN kept' : Before(kept'[i], Turning') /\ Dated(kept'[i], Len(items'))
  <2>. TAKE i \in DOMAIN kept'
  <2>1. Dated(kept'[i], Len(items)) BY <1>4
  <2>. QED BY <1>1, <1>2, <2>1, OlderFirst
<1>7. \A i \in DOMAIN kept', j \in DOMAIN rest' : Before(kept'[i], rest'[j]) BY <1>1
<1>. QED BY <1>1, <1>3, <1>4, <1>5, <1>6, <1>7 DEF OrderInv

\* The turn is flushed, and the item is a message of its own.
LEMMA MessageOrder ==
  ASSUME TypeOK, OrderInv, Clear, NEW item, Read(item), NEW m \in Messages,
         kept' = Append(Flush(kept, pending), m), pending' = Nothing,
         \A n \in Nat \ {0} : Bears(m, n) => n = Here
  PROVE  OrderInv'
<1>1. /\ items \in Seq(Items) /\ pc = "items" /\ pc' = "items" /\ rest = <<>> /\ rest' = <<>>
      /\ items' = Append(items, item) /\ Len(items) \in Nat /\ Here = Len(items) + 1
      /\ kept \in Seq(Messages) /\ pending \in AssemblyStates
  BY DEF TypeOK, Read, Clear, Here
<1>2. Len(items') = Len(items) + 1 BY <1>1
<1>3. InOrder(kept) /\ InOrder(rest) /\ Dated(Turning, Len(items))
      /\ \A i \in DOMAIN kept : Before(kept[i], Turning) /\ Dated(kept[i], Len(items))
  BY <1>1 DEF OrderInv
<1>. DEFINE s == Flush(kept, pending)
<1>4. s \in Seq(Messages) /\ InOrder(s) /\ \A i \in DOMAIN s : Dated(s[i], Len(items))
  BY <1>1, <1>3, FlushOrder DEF Turning
<1>5. kept' = Append(s, m) OBVIOUS
<1>. HIDE DEF s
<1>6. \A i \in DOMAIN s : Before(s[i], m) /\ Dated(s[i], Len(items'))
  <2>. TAKE i \in DOMAIN s
  <2>1. Dated(s[i], Len(items)) BY <1>4
  <2>. QED BY <1>1, <1>2, <2>1, OlderFirst
<1>7. Dated(m, Len(items')) BY <1>1, <1>2 DEF Dated
<1>8. InOrder(kept') BY <1>4, <1>5, <1>6, AppendOrder
<1>9. Turning' = AssistantMessage(Nothing) BY DEF Turning
<1>10. Dated(Turning', Len(items')) /\ \A x : Before(x, Turning')
  BY <1>9, BearsNothing DEF Dated, Before
<1>11. /\ DOMAIN kept' = 1..Len(s) + 1 /\ DOMAIN s = 1..Len(s) /\ Len(s) \in Nat
       /\ \A i \in DOMAIN s : kept'[i] = s[i]
       /\ kept'[Len(s) + 1] = m
  BY <1>4, <1>5, AppendFacts
<1>12. \A i \in DOMAIN kept' : i \in DOMAIN s \/ i = Len(s) + 1 BY <1>11
<1>13. \A i \in DOMAIN kept' : Before(kept'[i], Turning') /\ Dated(kept'[i], Len(items'))
  BY <1>6, <1>7, <1>10, <1>11, <1>12
<1>14. \A i \in DOMAIN kept', j \in DOMAIN rest' : Before(kept'[i], rest'[j]) BY <1>1
<1>. QED BY <1>1, <1>3, <1>8, <1>10, <1>13, <1>14 DEF OrderInv

LEMMA BackfillBears ==
  ASSUME NEW m \in Messages, NEW n \in Nat \ {0}, Bears(Backfilled(m), n)
  PROVE  Bears(m, n)
<1>1. n \notin Elements(<<MadeUp>>) BY DEF Elements, MadeUp
<1>2. CASE Backfilled(m).reasoning = m.reasoning BY <1>2, BackfillFacts DEF Bears
<1>3. CASE Backfilled(m).reasoning = {<<MadeUp>>} BY <1>1, <1>3, BackfillFacts DEF Bears
<1>. QED BY <1>2, <1>3, BackfillFacts

\* A pass takes the head of the array it reads over to the one it writes.
LEMMA MoveOrder ==
  ASSUME TypeOK, OrderInv, rest # <<>>,
         kept' = kept \/ kept' = Append(kept, Head(rest)), rest' = Tail(rest), pc' # "items"
  PROVE  OrderInv'
<1>. DEFINE m == Head(rest)
<1>1. kept \in Seq(Messages) /\ rest \in Seq(Messages) BY DEF TypeOK
<1>2. /\ DOMAIN rest = 1..Len(rest) /\ Len(rest) \in Nat /\ 1 \in DOMAIN rest /\ m = rest[1] /\ m \in Messages
      /\ Tail(rest) \in Seq(Messages) /\ DOMAIN Tail(rest) = 1..Len(rest) - 1
      /\ \A i \in DOMAIN Tail(rest) : i + 1 \in DOMAIN rest /\ Tail(rest)[i] = rest[i + 1]
  BY <1>1, ListFacts
<1>. HIDE DEF m
<1>3. /\ InOrder(kept) /\ InOrder(rest)
      /\ \A i \in DOMAIN kept, j \in DOMAIN rest : Before(kept[i], rest[j])
  BY DEF OrderInv
<1>4. InOrder(rest')
  <2>1. \A i, j \in DOMAIN rest' : i < j => Before(rest[i + 1], rest[j + 1])
    BY <1>2, <1>3 DEF InOrder
  <2>. QED BY <1>2, <2>1 DEF InOrder
<1>5. \A j \in DOMAIN rest' : Before(m, rest'[j])
  <2>1. \A j \in DOMAIN rest' : 1 < j + 1 /\ j + 1 \in DOMAIN rest BY <1>2
  <2>. QED BY <1>2, <1>3, <2>1 DEF InOrder
<1>6. \A i \in DOMAIN kept, j \in DOMAIN rest' : Before(kept[i], rest'[j]) BY <1>2, <1>3
<1>7. CASE kept' = kept BY <1>3, <1>4, <1>6, <1>7 DEF OrderInv
<1>8. CASE kept' = Append(kept, m)
  <2>1. \A i \in DOMAIN kept : Before(kept[i], m) BY <1>2, <1>3
  <2>2. InOrder(kept') BY <1>1, <1>2, <1>3, <1>8, <2>1, AppendOrder
  <2>3. /\ DOMAIN kept' = 1..Len(kept) + 1 /\ DOMAIN kept = 1..Len(kept) /\ Len(kept) \in Nat
        /\ \A i \in DOMAIN kept : kept'[i] = kept[i]
        /\ kept'[Len(kept) + 1] = m
    BY <1>1, <1>2, <1>8, AppendFacts
  <2>4. \A i \in DOMAIN kept' : i \in DOMAIN kept \/ i = Len(kept) + 1 BY <2>3
  <2>5. \A i \in DOMAIN kept', j \in DOMAIN rest' : Before(kept'[i], rest'[j])
    BY <1>5, <1>6, <2>3, <2>4
  <2>. QED BY <1>4, <2>2, <2>5 DEF OrderInv
<1>. QED BY <1>7, <1>8 DEF m

LEMMA AssistantFields ==
  \A p : /\ AssistantMessage(p).role = "assistant" /\ AssistantMessage(p).answers = {}
         /\ AssistantMessage(p).calls = p.calls /\ AssistantMessage(p).reasoning = p.reasoning
         /\ AssistantMessage(p).content = IF p.text = {} /\ p.calls = <<>> THEN {MadeUp} ELSE p.text
BY DEF AssistantMessage, Message

\* The calls of a list that one is appended to.
LEMMA CallsGrow ==
  ASSUME NEW calls \in Seq(Calls), NEW call
  PROVE  /\ Elements(Append(calls, call)) = Elements(calls) \cup {call}
         /\ IdsOf(Append(calls, call)) = IdsOf(calls) \cup {call.id}
         /\ DOMAIN calls = 1..Len(calls) /\ Len(calls) \in Nat
         /\ DOMAIN Append(calls, call) = 1..Len(calls) + 1
         /\ \A k \in DOMAIN calls : Append(calls, call)[k] = calls[k]
         /\ Append(calls, call)[Len(calls) + 1] = call
<1>. DEFINE new == Append(calls, call)
<1>1. /\ DOMAIN calls = 1..Len(calls) /\ Len(calls) \in Nat /\ DOMAIN new = 1..Len(calls) + 1
      /\ \A k \in DOMAIN calls : new[k] = calls[k]
      /\ new[Len(calls) + 1] = call
  OBVIOUS
<1>. HIDE DEF new
<1>2. /\ \A k \in DOMAIN new : k \in DOMAIN calls \/ k = Len(calls) + 1
      /\ DOMAIN calls \subseteq DOMAIN new /\ Len(calls) + 1 \in DOMAIN new
  BY <1>1
<1>3. Elements(new) \subseteq Elements(calls) \cup {call} BY <1>1, <1>2 DEF Elements
<1>4. Elements(calls) \cup {call} \subseteq Elements(new) BY <1>1, <1>2 DEF Elements
<1>5. IdsOf(new) \subseteq IdsOf(calls) \cup {call.id} BY <1>1, <1>2 DEF IdsOf
<1>6. IdsOf(calls) \cup {call.id} \subseteq IdsOf(new) BY <1>1, <1>2 DEF IdsOf
<1>. QED BY <1>1, <1>3, <1>4, <1>5, <1>6 DEF new

\* What a reasoning item adds to the thoughts of a turn.
LEMMA ThoughtsGrow ==
  ASSUME NEW r \in Seq(Nat), NEW text \in Seq(Nat)
  PROVE  Elements(r \o text) = Elements(r) \cup Elements(text)
<1>1. /\ DOMAIN r = 1..Len(r) /\ DOMAIN text = 1..Len(text) /\ Len(r) \in Nat /\ Len(text) \in Nat
      /\ DOMAIN (r \o text) = 1..Len(r) + Len(text)
      /\ \A k \in 1..Len(r) + Len(text) : (r \o text)[k] = IF k <= Len(r) THEN r[k] ELSE text[k - Len(r)]
  OBVIOUS
<1>. DEFINE new == r \o text
<1>. HIDE DEF new
<1>2. \A k \in DOMAIN r : k \in DOMAIN new /\ new[k] = r[k] BY <1>1 DEF new
<1>3. \A k \in DOMAIN text : Len(r) + k \in DOMAIN new /\ new[Len(r) + k] = text[k] BY <1>1 DEF new
<1>4. \A k \in DOMAIN new : \/ k \in DOMAIN r /\ new[k] = r[k]
                            \/ k - Len(r) \in DOMAIN text /\ new[k] = text[k - Len(r)]
  BY <1>1 DEF new
<1>5. Elements(new) \subseteq Elements(r) \cup Elements(text) BY <1>4 DEF Elements
<1>6. Elements(r) \cup Elements(text) \subseteq Elements(new) BY <1>2, <1>3 DEF Elements
<1>. QED BY <1>5, <1>6 DEF new

LEMMA NextOrder == TypeOK /\ Clear /\ OrderInv /\ [Next]_vars => OrderInv'
<1>. SUFFICES ASSUME TypeOK, Clear, OrderInv, [Next]_vars PROVE OrderInv' OBVIOUS
<1>0. /\ kept \in Seq(Messages) /\ rest \in Seq(Messages) /\ items \in Seq(Items)
      /\ pending \in AssemblyStates /\ pending.calls \in Seq(Calls) /\ pending.reasoning \subseteq Seq(Nat)
  BY DEF TypeOK, AssemblyStates
<1>h. Here \in Nat \ {0} BY <1>0, HereType
<1>t. /\ Turning.calls = pending.calls /\ Turning.reasoning = pending.reasoning
      /\ pending.text # {} => Turning.content = pending.text
      /\ Turning'.calls = pending'.calls /\ Turning'.reasoning = pending'.reasoning
      /\ Turning'.content \in {{MadeUp}, pending'.text}
  BY AssistantFields DEF Turning
<1>m. \A n \in Nat \ {0} : {MadeUp} # {n} BY DEF MadeUp
<1>1. CASE ReadUserMessage
  <2>1. UserMessage(Here) \in Messages /\ \A n \in Nat \ {0} : Bears(UserMessage(Here), n) => n = Here
    BY <1>h, MadeMessages, BearsNothing
  <2>. QED BY <1>1, <2>1, MessageOrder DEF ReadUserMessage
<1>2. CASE ReadAssistantMessage
  <2>1. CASE pending.text # {}
    <3>1. kept' = Flush(kept, pending) /\ pending' = [Nothing EXCEPT !.text = {Here}]
      BY <1>2, <2>1 DEF ReadAssistantMessage
    <3>2. pending'.calls = <<>> /\ pending'.reasoning = {} /\ pending'.text = {Here}
      BY <3>1 DEF Nothing
    <3>3. \A n \in Nat \ {0} : Bears(Turning', n) => n = Here
      BY <1>t, <1>m, <1>h, <3>2 DEF Bears, Elements
    <3>. QED BY <1>2, <3>1, <3>3, FlushedOrder DEF ReadAssistantMessage
  <2>2. CASE pending.text = {}
    <3>1. kept' = kept /\ pending' = [pending EXCEPT !.text = {Here}]
      BY <1>2, <2>2 DEF ReadAssistantMessage
    <3>2. pending'.calls = pending.calls /\ pending'.reasoning = pending.reasoning /\ pending'.text = {Here}
      BY <3>1, <1>0 DEF AssemblyStates
    <3>3. \A n \in Nat \ {0} : Bears(Turning', n) => Bears(Turning, n) \/ n = Here
      BY <1>t, <1>m, <1>h, <3>2 DEF Bears
    <3>. QED BY <1>2, <3>1, <3>3, JoinOrder DEF ReadAssistantMessage
  <2>. QED BY <2>1, <2>2
<1>3. CASE ReadReasoning
  <2>. PICK empty \in BOOLEAN : ReadReasoning!(empty) BY <1>3 DEF ReadReasoning
  <2>. DEFINE text == IF empty THEN <<>> ELSE <<Here>>
  <2>1. text \in Seq(Nat) /\ Elements(text) \subseteq {Here} BY <1>h DEF Elements
  <2>2. CASE Assembling(pending)
    <3>1. kept' = kept /\ pending' = [pending EXCEPT !.reasoning =
                                IF @ = {} THEN {text} ELSE {r \o text : r \in @}]
      BY <2>2
    <3>. HIDE DEF text
    <3>2. pending'.calls = pending.calls /\ pending'.text = pending.text
          /\ pending'.reasoning = IF pending.reasoning = {} THEN {text} ELSE {r \o text : r \in pending.reasoning}
      BY <3>1, <1>0 DEF AssemblyStates
    <3>3. \A q \in pending'.reasoning : Elements(q) \subseteq {Here} \cup UNION {Elements(r) : r \in pending.reasoning}
      <4>. TAKE q \in pending'.reasoning
      <4>1. CASE q = text BY <2>1, <4>1
      <4>2. CASE q # text
        <5>0. q \in {r \o text : r \in pending.reasoning} BY <3>2, <4>2, Zenon
        <5>1. PICK r \in pending.reasoning : q = r \o text BY <5>0
        <5>2. r \in Seq(Nat) BY <1>0, <5>1
        <5>3. Elements(q) = Elements(r) \cup Elements(text) BY <2>1, <5>1, <5>2, ThoughtsGrow
        <5>. QED BY <2>1, <5>1, <5>3
      <4>. QED BY <4>1, <4>2
    <3>4. Turning'.content = Turning.content BY <3>2, AssistantFields DEF Turning
    <3>5. \A n \in Nat \ {0} : Bears(Turning', n) => Bears(Turning, n) \/ n = Here
      <4>. SUFFICES ASSUME NEW n \in Nat \ {0}, Bears(Turning', n), n # Here PROVE Bears(Turning, n)
        OBVIOUS
      <4>1. CASE \E q \in Turning'.reasoning : n \in Elements(q)
        BY <1>t, <3>3, <4>1 DEF Bears
      <4>2. CASE Turning'.content = {n} BY <3>4, <4>2 DEF Bears
      <4>3. CASE \E call \in Elements(Turning'.calls) : call.from = n
        BY <1>t, <3>2, <4>3 DEF Bears
      <4>. QED BY <4>1, <4>2, <4>3 DEF Bears
    <3>. QED BY <3>1, <3>5, JoinOrder
  <2>3. CASE ~ Assembling(pending)
    <3>1. kept' = Flush(kept, pending) /\ pending' = [Nothing EXCEPT !.reasoning = {text}] BY <2>3
    <3>. HIDE DEF text
    <3>2. pending'.calls = <<>> /\ pending'.text = {} /\ pending'.reasoning = {text}
      BY <3>1 DEF Nothing
    <3>3. Turning'.content = {MadeUp} BY <3>2, AssistantFields DEF Turning
    <3>4. \A n \in Nat \ {0} : Bears(Turning', n) => n = Here
      <4>1. Elements(Turning'.calls) = {} BY <1>t, <3>2 DEF Elements
      <4>2. \A r \in Turning'.reasoning : Elements(r) \subseteq {Here} BY <1>t, <2>1, <3>2
      <4>. QED BY <1>m, <3>3, <4>1, <4>2 DEF Bears
    <3>. QED BY <3>1, <3>4, FlushedOrder
  <2>. QED BY <2>2, <2>3
<1>4. CASE ReadCall
  <2>. PICK id \in CallIds, args \in {"whole", "torn"} : ReadCall!(id, args) BY <1>4 DEF ReadCall
  <2>. DEFINE call == [id |-> id, from |-> Here, arguments |-> Sanitized(args)]
  <2>0. call.from = Here OBVIOUS
  <2>1. pending' = [pending EXCEPT !.calls = Append(@, call)] /\ kept' = kept OBVIOUS
  <2>. HIDE DEF call
  <2>2. /\ pending'.calls = Append(pending.calls, call) /\ pending'.text = pending.text
        /\ pending'.reasoning = pending.reasoning
    BY <2>1, <1>0 DEF AssemblyStates
  <2>3. Elements(pending'.calls) = Elements(pending.calls) \cup {call} BY <1>0, <2>2, CallsGrow
  <2>4. \A n \in Nat \ {0} : Bears(Turning', n) => Bears(Turning, n) \/ n = Here
    <3>. SUFFICES ASSUME NEW n \in Nat \ {0}, Bears(Turning', n), n # Here PROVE Bears(Turning, n)
      OBVIOUS
    <3>1. CASE \E q \in Turning'.reasoning : n \in Elements(q) BY <1>t, <2>2, <3>1 DEF Bears
    <3>2. CASE Turning'.content = {n} BY <1>t, <1>m, <2>2, <3>2 DEF Bears
    <3>3. CASE \E c \in Elements(Turning'.calls) : c.from = n BY <1>t, <2>0, <2>3, <3>3 DEF Bears
    <3>. QED BY <3>1, <3>2, <3>3 DEF Bears
  <2>. QED BY <2>1, <2>4, JoinOrder
<1>5. CASE ReadOutput
  <2>. PICK id \in CallIds : ReadOutput!(id) BY <1>5 DEF ReadOutput
  <2>1. ToolMessage(id, Here) \in Messages /\ \A n \in Nat \ {0} : Bears(ToolMessage(id, Here), n) => n = Here
    BY <1>h, MadeMessages, BearsNothing
  <2>. QED BY <2>1, MessageOrder
<1>6. CASE EndOfItems
  <2>1. /\ pc = "items" /\ pc' = "orphans" /\ rest' = Flush(kept, pending) /\ kept' = <<>>
    BY <1>6 DEF EndOfItems
  <2>2. Len(items) \in Nat BY <1>0
  <2>3. InOrder(rest') BY <1>0, <2>1, <2>2, FlushOrder DEF OrderInv, Turning
  <2>. QED BY <2>1, <2>3 DEF OrderInv, InOrder
<1>7. CASE CheckMessage \/ PassMessage \/ PassTool
  <2>1. /\ rest # <<>> /\ rest' = Tail(rest) /\ (kept' = kept \/ kept' = Append(kept, Head(rest)))
        /\ pc' # "items"
    BY <1>7 DEF CheckMessage, PassMessage, PassTool, NextIsTool
  <2>. QED BY <2>1, MoveOrder
<1>8. CASE FillOutput
  <2>. DEFINE m == ToolMessage(Head(owed).id, MadeUp)
  <2>1. Head(owed) \in Calls BY <1>8, HeadTailProperties DEF FillOutput, TypeOK
  <2>2. Head(owed).id \in CallIds BY <2>1 DEF Calls
  <2>3. m \in Messages /\ \A n \in Nat \ {0} : ~ Bears(m, n)
    BY <2>2, MadeMessages, BearsNothing DEF MadeUp
  <2>4. rest' = rest /\ pc' # "items" /\ (kept' = kept \/ kept' = Append(kept, m)) BY <1>8 DEF FillOutput
  <2>. HIDE DEF m
  <2>5. /\ \A x : Before(x, m) /\ Before(m, x) BY <2>3 DEF Before
  <2>6. CASE kept' = kept BY <2>4, <2>6 DEF OrderInv
  <2>7. CASE kept' = Append(kept, m)
    <3>1. InOrder(kept') BY <1>0, <2>3, <2>5, <2>7, AppendOrder DEF OrderInv
    <3>2. /\ DOMAIN kept' = 1..Len(kept) + 1 /\ DOMAIN kept = 1..Len(kept) /\ Len(kept) \in Nat
          /\ \A i \in DOMAIN kept : kept'[i] = kept[i]
          /\ kept'[Len(kept) + 1] = m
      BY <1>0, <2>3, <2>7, AppendFacts
    <3>3. \A i \in DOMAIN kept' : i \in DOMAIN kept \/ i = Len(kept) + 1 BY <3>2
    <3>4. \A i \in DOMAIN kept', j \in DOMAIN rest' : Before(kept'[i], rest'[j])
      BY <2>4, <2>5, <3>2, <3>3 DEF OrderInv
    <3>. QED BY <2>4, <3>1, <3>4 DEF OrderInv
  <2>. QED BY <2>4, <2>6, <2>7
<1>9. CASE OrphansRemoved \/ OutputsEnsured
  <2>1. rest' = kept /\ kept' = <<>> /\ pc' # "items" BY <1>9 DEF OrphansRemoved, OutputsEnsured, NextPass
  <2>. QED BY <2>1 DEF OrderInv, InOrder
<1>10. CASE FillReasoning
  <2>1. rest' = <<>> /\ pc' # "items" BY <1>10 DEF FillReasoning
  <2>2. InOrder(rest) /\ \A i \in DOMAIN rest : rest[i] \in Messages BY <1>0 DEF OrderInv
  <2>3. \A i \in DOMAIN rest : \A n \in Nat \ {0} : Bears(Backfilled(rest[i]), n) => Bears(rest[i], n)
    BY <2>2, BackfillBears
  <2>4. InOrder([i \in DOMAIN rest |-> Backfilled(rest[i])]) BY <2>2, <2>3 DEF InOrder, Before
  <2>5. InOrder(kept') BY <1>10, <2>2, <2>4 DEF FillReasoning
  <2>. QED BY <2>1, <2>5 DEF OrderInv, InOrder
<1>11. CASE UNCHANGED vars BY <1>11 DEF vars, OrderInv, Turning
<1>. QED BY <1>1, <1>2, <1>3, <1>4, <1>5, <1>6, <1>7, <1>8, <1>9, <1>10, <1>11 DEF Next

--------------------------------------------------------------------------------
(* Nothing that was said is lost *)

LEMMA ReadFacts ==
  ASSUME TypeOK, NEW item, Read(item)
  PROVE  /\ DOMAIN items = 1..Len(items) /\ Len(items) \in Nat /\ Here = Len(items) + 1
         /\ DOMAIN items' = DOMAIN items \cup {Here} /\ Len(items') = Here /\ DOMAIN items' = 1..Here
         /\ \A n \in DOMAIN items : items'[n] = items[n]
         /\ items'[Here] = item /\ Here \notin DOMAIN items /\ Here \in Nat \ {0}
         /\ pc = "items" /\ pc' = "items" /\ rest' = rest
<1>1. items \in Seq(Items) /\ items' = Append(items, item) /\ pc = "items" /\ pc' = "items" /\ rest' = rest
  BY DEF TypeOK, Read
<1>2. /\ DOMAIN items = 1..Len(items) /\ Len(items) \in Nat
      /\ DOMAIN items' = 1..Len(items) + 1 /\ Len(items') = Len(items) + 1
      /\ \A n \in DOMAIN items : items'[n] = items[n]
      /\ items'[Len(items) + 1] = item
  BY <1>1
<1>. QED BY <1>1, <1>2 DEF Here

LEMMA ItemFields ==
  /\ \A r : /\ MessageItem(r).type = "message" /\ MessageItem(r).role = r
            /\ MessageItem(r) # ReasoningItem(TRUE)
  /\ \A e : ReasoningItem(e).type = "reasoning" /\ ReasoningItem(e).empty = e
  /\ \A id, args : CallItem(id, args).type = "function_call" /\ CallItem(id, args).id = id
  /\ \A id : OutputItem(id).type = "function_call_output" /\ OutputItem(id).id = id
<1>1. \A r : MessageItem(r).type = "message" /\ MessageItem(r).role = r BY DEF MessageItem
<1>2. \A e : ReasoningItem(e).type = "reasoning" /\ ReasoningItem(e).empty = e BY DEF ReasoningItem
<1>3. \A id, args : CallItem(id, args).type = "function_call" /\ CallItem(id, args).id = id BY DEF CallItem
<1>4. \A id : OutputItem(id).type = "function_call_output" /\ OutputItem(id).id = id BY DEF OutputItem
<1>. QED BY <1>1, <1>2, <1>3, <1>4

LEMMA ItemCases ==
  ASSUME NEW item \in Items
  PROVE  /\ item.type \in {"message", "reasoning", "function_call", "function_call_output"}
         /\ item.type = "message" => item = MessageItem("user") \/ item = MessageItem("assistant")
         /\ item.type = "reasoning" => item = ReasoningItem(TRUE) \/ item = ReasoningItem(FALSE)
<1>1. CASE \E r \in {"user", "assistant"} : item = MessageItem(r)
  <2>1. PICK r \in {"user", "assistant"} : item = MessageItem(r) BY <1>1
  <2>2. item.type = "message" BY <2>1, ItemFields
  <2>. QED BY <2>1, <2>2
<1>2. CASE \E e \in BOOLEAN : item = ReasoningItem(e)
  <2>1. PICK e \in BOOLEAN : item = ReasoningItem(e) BY <1>2
  <2>2. item.type = "reasoning" BY <2>1, ItemFields
  <2>. QED BY <2>1, <2>2
<1>3. CASE \E c \in CallIds, a \in {"whole", "torn"} : item = CallItem(c, a)
  <2>1. item.type = "function_call" BY <1>3, ItemFields
  <2>. QED BY <2>1
<1>4. CASE \E c \in CallIds : item = OutputItem(c)
  <2>0. PICK c \in CallIds : item = OutputItem(c) BY <1>4
  <2>1. item.type = "function_call_output" BY <2>0 DEF OutputItem
  <2>. QED BY <2>1
<1>5. \/ \E r \in {"user", "assistant"} : item = MessageItem(r)
      \/ \E e \in BOOLEAN : item = ReasoningItem(e)
      \/ \E c \in CallIds, a \in {"whole", "torn"} : item = CallItem(c, a)
      \/ \E c \in CallIds : item = OutputItem(c)
  BY DEF Items
<1>. QED BY <1>1, <1>2, <1>3, <1>4, <1>5

LEMMA SaysIsTells ==
  ASSUME TypeOK, NEW n \in DOMAIN items, NEW m
  PROVE  SaysItem(m, n) /\ Voiced(items[n]) => Tells(m, items[n], n)
<1>1. items[n] \in Items BY DEF TypeOK
<1>. QED BY <1>1, ItemCases DEF SaysItem, Type, Tells, Voiced

LEMMA TellsIsSays ==
  ASSUME TypeOK, NEW n \in DOMAIN items, NEW m, Tells(m, items[n], n)
  PROVE  SaysItem(m, n)
<1>1. items[n] \in Items BY DEF TypeOK
<1>. QED BY <1>1, ItemCases DEF SaysItem, Type, Tells

LEMMA NothingTells ==
  ASSUME NEW item, NEW n \in Nat \ {0}
  PROVE  ~ Tells(AssistantMessage(Nothing), item, n)
<1>1. /\ AssistantMessage(Nothing).reasoning = {} /\ AssistantMessage(Nothing).calls = <<>>
      /\ AssistantMessage(Nothing).content = {0}
  BY DEF AssistantMessage, Nothing, Message, MadeUp
<1>. QED BY <1>1 DEF Tells, Elements

\* Flushing keeps the turn that was assembled, if there was one.
LEMMA FlushKeeps ==
  ASSUME TypeOK
  PROVE  /\ Elements(kept) \subseteq Elements(Flush(kept, pending))
         /\ pending # Nothing => Turning \in Elements(Flush(kept, pending))
         /\ \A m \in Messages : Elements(Flush(kept, pending)) \cup {m}
                                  = Elements(Append(Flush(kept, pending), m))
<1>1. kept \in Seq(Messages) /\ pending \in AssemblyStates BY DEF TypeOK
<1>2. Flush(kept, pending) \in Seq(Messages) BY <1>1, FlushType
<1>. QED BY <1>1, <1>2, FlushElements, ListFacts DEF Turning

LEMMA SaidStep ==
  ASSUME TypeOK, SaidInv, NEW item, Read(item), There \subseteq There',
         pending # Nothing => \/ Turning \in There'
                              \/ \A n \in DOMAIN items : Tells(Turning, items[n], n) => Tells(Turning', items[n], n),
         Voiced(item) => \/ Tells(Turning', item, Here)
                         \/ \E m \in There' : m.role # "tool" /\ Tells(m, item, Here)
  PROVE  SaidInv'
<1>1. /\ DOMAIN items \subseteq Nat \ {0} /\ DOMAIN items' = DOMAIN items \cup {Here}
      /\ \A n \in DOMAIN items : items'[n] = items[n]
      /\ items'[Here] = item /\ pc = "items" /\ pc' = "items"
  BY ReadFacts
<1>. SUFFICES ASSUME NEW n \in DOMAIN items', Voiced(items'[n])
              PROVE  \/ \E m \in There' : m.role # "tool" /\ Tells(m, items'[n], n)
                     \/ Tells(Turning', items'[n], n)
  BY <1>1 DEF SaidInv
<1>2. CASE n = Here BY <1>1, <1>2
<1>3. CASE n \in DOMAIN items
  <2>1. CASE \E m \in There : m.role # "tool" /\ Tells(m, items[n], n) BY <1>1, <1>3, <2>1
  <2>2. CASE Tells(Turning, items[n], n)
    <3>1. pending # Nothing BY <1>1, <1>3, <2>2, NothingTells DEF Turning
    <3>2. Turning.role = "assistant" BY AssistantFields DEF Turning
    <3>. QED BY <1>1, <1>3, <2>2, <3>1, <3>2
  <2>. QED BY <1>1, <1>3, <2>1, <2>2 DEF SaidInv
<1>. QED BY <1>1, <1>2, <1>3

LEMMA NextSaid == TypeOK /\ Clear /\ SaidInv /\ [Next]_vars => SaidInv'
<1>. SUFFICES ASSUME TypeOK, Clear, SaidInv, [Next]_vars PROVE SaidInv' OBVIOUS
<1>0. /\ kept \in Seq(Messages) /\ rest \in Seq(Messages) /\ items \in Seq(Items)
      /\ pending \in AssemblyStates /\ pending.calls \in Seq(Calls) /\ pending.reasoning \subseteq Seq(Nat)
  BY DEF TypeOK, AssemblyStates
<1>h. Here \in Nat \ {0} BY <1>0, HereType
<1>n. DOMAIN items \subseteq Nat \ {0} BY <1>0
<1>t. /\ Turning.role = "assistant" /\ Turning'.role = "assistant"
      /\ Turning.calls = pending.calls /\ Turning.reasoning = pending.reasoning
      /\ Turning.content = IF pending.text = {} /\ pending.calls = <<>> THEN {MadeUp} ELSE pending.text
      /\ Turning'.calls = pending'.calls /\ Turning'.reasoning = pending'.reasoning
      /\ Turning'.content = IF pending'.text = {} /\ pending'.calls = <<>> THEN {MadeUp} ELSE pending'.text
  BY AssistantFields DEF Turning
<1>f. /\ Elements(kept) \subseteq Elements(Flush(kept, pending))
      /\ pending # Nothing => Turning \in Elements(Flush(kept, pending))
      /\ \A m \in Messages : Elements(Flush(kept, pending)) \cup {m}
                                  = Elements(Append(Flush(kept, pending), m))
  BY FlushKeeps
<1>m. \A n \in Nat \ {0} : {MadeUp} # {n} BY DEF MadeUp
<1>1. CASE ReadUserMessage
  <2>1. /\ UserMessage(Here) \in Messages /\ UserMessage(Here).role = "user"
        /\ UserMessage(Here).content = {Here}
    BY <1>h, MadeMessages DEF UserMessage, Message
  <2>2. kept' = Append(Flush(kept, pending), UserMessage(Here)) /\ Read(MessageItem("user"))
    BY <1>1 DEF ReadUserMessage
  <2>3. UserMessage(Here) \in There' /\ There \subseteq There' /\ (pending # Nothing => Turning \in There')
    BY <1>f, <2>1, <2>2 DEF There, Read
  <2>4. Tells(UserMessage(Here), MessageItem("user"), Here) BY <2>1, ItemFields DEF Tells
  <2>. QED BY <2>1, <2>2, <2>3, <2>4, SaidStep
<1>2. CASE ReadAssistantMessage
  <2>1. Read(MessageItem("assistant")) BY <1>2 DEF ReadAssistantMessage
  <2>2. pending'.text = {Here} BY <1>0, <1>2 DEF ReadAssistantMessage, AssemblyStates, Nothing
  <2>3. Tells(Turning', MessageItem("assistant"), Here) BY <1>t, <2>2, ItemFields DEF Tells
  <2>4. CASE pending.text # {}
    <3>1. There \subseteq There' /\ (pending # Nothing => Turning \in There')
      BY <1>2, <1>f, <2>4 DEF ReadAssistantMessage, There, Read
    <3>. QED BY <2>1, <2>3, <3>1, SaidStep
  <2>5. CASE pending.text = {}
    <3>1. pending'.calls = pending.calls /\ pending'.reasoning = pending.reasoning /\ kept' = kept
      BY <1>0, <1>2, <2>5 DEF ReadAssistantMessage, AssemblyStates
    <3>2. There' = There BY <2>1, <3>1 DEF There, Read
    <3>3. \A n \in DOMAIN items : Tells(Turning, items[n], n) => Tells(Turning', items[n], n)
      <4>. TAKE n \in DOMAIN items
      <4>1. Turning.content # {n} BY <1>t, <1>n, <1>m, <2>5
      <4>. QED BY <1>t, <3>1, <4>1 DEF Tells
    <3>. QED BY <2>1, <2>3, <3>2, <3>3, SaidStep
  <2>. QED BY <2>4, <2>5
<1>3. CASE ReadReasoning
  <2>. PICK empty \in BOOLEAN : ReadReasoning!(empty) BY <1>3 DEF ReadReasoning
  <2>. DEFINE text == IF empty THEN <<>> ELSE <<Here>>
  <2>1. text \in Seq(Nat) /\ (~ empty => Here \in Elements(text)) BY <1>h DEF Elements
  <2>2. Read(ReasoningItem(empty)) /\ (Voiced(ReasoningItem(empty)) => ~ empty) BY DEF Voiced
  <2>3. CASE Assembling(pending)
    <3>1. kept' = kept /\ pending' = [pending EXCEPT !.reasoning =
                                IF @ = {} THEN {text} ELSE {r \o text : r \in @}]
      BY <2>3
    <3>. HIDE DEF text
    <3>2. pending'.calls = pending.calls /\ pending'.text = pending.text
          /\ pending'.reasoning = IF pending.reasoning = {} THEN {text} ELSE {r \o text : r \in pending.reasoning}
      BY <3>1, <1>0 DEF AssemblyStates
    <3>3. There' = There BY <2>2, <3>1 DEF There, Read
    <3>4. \A r \in pending.reasoning : \E q \in pending'.reasoning : Elements(q) = Elements(r) \cup Elements(text)
      <4>. TAKE r \in pending.reasoning
      <4>1. r \o text \in pending'.reasoning BY <3>2
      <4>2. Elements(r \o text) = Elements(r) \cup Elements(text) BY <1>0, <2>1, ThoughtsGrow
      <4>. QED BY <4>1, <4>2
    <3>5. \A n \in DOMAIN items : Tells(Turning, items[n], n) => Tells(Turning', items[n], n)
      BY <1>t, <3>2, <3>4 DEF Tells
    <3>6. ~ empty => \E q \in pending'.reasoning : Here \in Elements(q)
      <4>1. CASE pending.reasoning = {} BY <2>1, <3>2, <4>1
      <4>2. CASE pending.reasoning # {} BY <2>1, <3>4, <4>2
      <4>. QED BY <4>1, <4>2
    <3>7. Voiced(ReasoningItem(empty)) => Tells(Turning', ReasoningItem(empty), Here)
      BY <1>t, <2>2, <3>6, ItemFields DEF Tells
    <3>. QED BY <2>2, <3>3, <3>5, <3>7, SaidStep
  <2>4. CASE ~ Assembling(pending)
    <3>1. kept' = Flush(kept, pending) /\ pending' = [Nothing EXCEPT !.reasoning = {text}] BY <2>4
    <3>. HIDE DEF text
    <3>2. pending'.reasoning = {text} BY <3>1 DEF Nothing
    <3>3. There \subseteq There' /\ (pending # Nothing => Turning \in There')
      BY <1>f, <2>2, <3>1 DEF There, Read
    <3>4. Voiced(ReasoningItem(empty)) => Tells(Turning', ReasoningItem(empty), Here)
      BY <1>t, <2>1, <2>2, <3>2, ItemFields DEF Tells
    <3>. QED BY <2>2, <3>3, <3>4, SaidStep
  <2>. QED BY <2>3, <2>4
<1>4. CASE ReadCall
  <2>. PICK id \in CallIds, args \in {"whole", "torn"} : ReadCall!(id, args) BY <1>4 DEF ReadCall
  <2>. DEFINE call == [id |-> id, from |-> Here, arguments |-> Sanitized(args)]
  <2>0. call.from = Here /\ call.id = id OBVIOUS
  <2>1. pending' = [pending EXCEPT !.calls = Append(@, call)] /\ kept' = kept /\ Read(CallItem(id, args)) OBVIOUS
  <2>. HIDE DEF call
  <2>2. /\ pending'.calls = Append(pending.calls, call) /\ pending'.text = pending.text
        /\ pending'.reasoning = pending.reasoning
    BY <2>1, <1>0 DEF AssemblyStates
  <2>3. Elements(pending'.calls) = Elements(pending.calls) \cup {call} BY <1>0, <2>2, CallsGrow
  <2>4. There' = There BY <2>1 DEF There, Read
  <2>5. \A n \in DOMAIN items : Turning.content = {n} => Turning'.content = {n}
    <3>. TAKE n \in DOMAIN items
    <3>1. CASE pending.text = {} BY <1>t, <1>n, <1>m, <3>1
    <3>2. CASE pending.text # {} BY <1>t, <2>2, <3>2
    <3>. QED BY <3>1, <3>2
  <2>6. \A n \in DOMAIN items : Tells(Turning, items[n], n) => Tells(Turning', items[n], n)
    BY <1>t, <2>2, <2>3, <2>5 DEF Tells
  <2>7. Tells(Turning', CallItem(id, args), Here) BY <1>t, <2>0, <2>3, ItemFields DEF Tells
  <2>. QED BY <2>1, <2>4, <2>6, <2>7, SaidStep
<1>5. CASE ReadOutput
  <2>. PICK id \in CallIds : ReadOutput!(id) BY <1>5 DEF ReadOutput
  <2>1. ToolMessage(id, Here) \in Messages BY <1>h, MadeMessages
  <2>2. There \subseteq There' /\ (pending # Nothing => Turning \in There')
    BY <1>f, <2>1 DEF There, Read
  <2>3. ~ Voiced(OutputItem(id)) BY ItemFields DEF Voiced
  <2>. QED BY <2>2, <2>3, SaidStep
<1>6. CASE EndOfItems
  <2>1. /\ pc = "items" /\ pc' = "orphans" /\ rest' = Flush(kept, pending) /\ kept' = <<>> /\ items' = items
        /\ rest = <<>>
    BY <1>6 DEF EndOfItems, Clear
  <2>2. There \subseteq There' /\ (pending # Nothing => Turning \in There')
    BY <1>f, <2>1, ListFacts DEF There
  <2>3. \A n \in DOMAIN items : Tells(Turning, items[n], n) => pending # Nothing
    BY <1>n, NothingTells DEF Turning
  <2>. QED BY <1>t, <2>1, <2>2, <2>3 DEF SaidInv
<1>7. CASE pc # "items"
  <2>1. items' = items
    BY <1>7 DEF Next, vars, ReadUserMessage, ReadAssistantMessage, ReadReasoning, ReadCall, ReadOutput, Read,
                EndOfItems, CheckMessage, OrphansRemoved, PassMessage, PassTool, FillOutput,
                OutputsEnsured, FillReasoning
  <2>2. ASSUME NEW n \in DOMAIN items, NEW m \in There, m.role # "tool", Tells(m, items[n], n)
        PROVE  \E x \in There' : x.role # "tool" /\ Tells(x, items[n], n)
    <3>1. m \in Messages BY <1>0 DEF There, Elements
    <3>2. PICK x \in There' : x = m \/ x = Backfilled(m) BY <1>7, <2>2, MessagesStay
    <3>3. CASE x = m BY <2>2, <3>3
    <3>4. CASE x = Backfilled(m)
      <4>1. /\ x.role = m.role /\ x.content = m.content /\ x.calls = m.calls
            /\ x.reasoning = m.reasoning \/ m.reasoning \subseteq {<<>>}
        BY <3>1, <3>4, BackfillFacts
      <4>2. n \notin Elements(<<>>) BY DEF Elements
      <4>3. Tells(x, items[n], n) BY <2>2, <4>1, <4>2 DEF Tells
      <4>. QED BY <2>2, <4>1, <4>3
    <3>. QED BY <3>2, <3>3, <3>4
  <2>. QED BY <1>7, <2>1, <2>2 DEF SaidInv
<1>8. CASE UNCHANGED vars BY <1>8 DEF vars, SaidInv, There, Turning
<1>9. CASE CheckMessage \/ OrphansRemoved \/ PassMessage \/ PassTool \/ FillOutput \/ OutputsEnsured \/ FillReasoning
  <2>1. pc # "items"
    BY <1>9 DEF CheckMessage, OrphansRemoved, PassMessage, PassTool, FillOutput, OutputsEnsured, FillReasoning
  <2>. QED BY <1>7, <2>1
<1>. QED BY <1>1, <1>2, <1>3, <1>4, <1>5, <1>6, <1>8, <1>9 DEF Next

--------------------------------------------------------------------------------
(* A turn is one message *)

SpeaksOf(item) == item.type \in {"reasoning", "function_call"} \/ item = MessageItem("assistant")

\* What a new item changes in what is said of positions.
LEMMA PositionsGrow ==
  ASSUME TypeOK, NEW item, Read(item), NEW h, h = Here
  PROVE  /\ \A n \in DOMAIN items : Type(n)' = Type(n) /\ (Speaks(n)' <=> Speaks(n))
         /\ Type(h)' = item.type /\ (Speaks(h)' <=> SpeaksOf(item))
         /\ \A type : \A b \in 1..h + 1, e \in DOMAIN items : Positions(b, e, type)' = Positions(b, e, type)
         /\ \A type : \A b \in 1..h :
              Positions(b, h, type)' = Positions(b, Len(items), type) \cup (IF item.type = type THEN {h} ELSE {})
<1>1. /\ DOMAIN items = 1..Len(items) /\ Len(items) \in Nat /\ h = Len(items) + 1 /\ h \in Nat \ {0}
      /\ \A n \in DOMAIN items : items'[n] = items[n]
      /\ items'[h] = item
  BY ReadFacts
<1>2. \A n \in DOMAIN items : Type(n)' = Type(n) BY <1>1 DEF Type
<1>3. \A n \in DOMAIN items : Speaks(n)' <=> Speaks(n) BY <1>1 DEF Type, Speaks
<1>4. Type(h)' = item.type /\ (Speaks(h)' <=> SpeaksOf(item)) BY <1>1 DEF Type, Speaks, SpeaksOf
<1>5. ASSUME NEW b \in 1..h + 1, NEW e \in DOMAIN items, NEW type
      PROVE  Positions(b, e, type)' = Positions(b, e, type)
  <2>1. \A n \in b..e : n \in DOMAIN items BY <1>1
  <2>. QED BY <1>2, <2>1 DEF Positions
<1>6. ASSUME NEW b \in 1..h, NEW type
      PROVE  Positions(b, h, type)' = Positions(b, Len(items), type) \cup (IF item.type = type THEN {h} ELSE {})
  <2>1. \A n \in b..Len(items) : n \in DOMAIN items BY <1>1
  <2>2. \A n : n \in b..h <=> n \in b..Len(items) \/ n = h BY <1>1
  <2>. QED BY <1>2, <1>4, <2>1, <2>2 DEF Positions
<1>. QED BY <1>2, <1>3, <1>4, <1>5, <1>6

LEMMA TurnStays ==
  ASSUME TypeOK, NEW item, Read(item), NEW b \in DOMAIN items, NEW e \in DOMAIN items
  PROVE  /\ \A m : IsTurn(m, b, e)' <=> IsTurn(m, b, e)
         /\ Simple(b, e)' <=> Simple(b, e)
<1>. PICK h : h = Here OBVIOUS
<1>1. /\ DOMAIN items = 1..Len(items) /\ Len(items) \in Nat /\ h = Len(items) + 1
      /\ \A n \in DOMAIN items : items'[n] = items[n]
  BY ReadFacts
<1>2. b \in 1..h + 1 BY <1>1
<1>3. /\ Positions(b, e, "message")' = Positions(b, e, "message")
      /\ Positions(b, e, "reasoning")' = Positions(b, e, "reasoning")
      /\ Positions(b, e, "function_call")' = Positions(b, e, "function_call")
  BY <1>2, PositionsGrow
<1>4. \A n \in Positions(b, e, "reasoning") : items'[n] = items[n]
  <2>1. \A n \in b..e : n \in DOMAIN items BY <1>1
  <2>. QED BY <1>1, <2>1 DEF Positions
<1>5. Simple(b, e)' <=> Simple(b, e) BY <1>3 DEF Simple, AtMostOne
<1>6. \A m : IsTurn(m, b, e)' <=> IsTurn(m, b, e) BY <1>3, <1>4 DEF IsTurn
<1>. QED BY <1>5, <1>6

\* The turn being assembled, once it ends, is a message as it should be.
LEMMA PendsIsTurn ==
  ASSUME TypeOK, NEW b \in DOMAIN items, OpenTurn(b), Pends(b, Len(items))
  PROVE  pending # Nothing /\ IsTurn(Turning, b, Len(items))
<1>1. /\ items \in Seq(Items) /\ DOMAIN items = 1..Len(items) /\ Len(items) \in Nat
      /\ \A n \in DOMAIN items : items[n] \in Items
  BY DEF TypeOK
<1>. PICK e \in Nat : e = Len(items) BY <1>1
<1>2. \A n \in b..e : n \in DOMAIN items BY <1>1
<1>3. /\ pending.text = Positions(b, e, "message")
      /\ \A n \in Positions(b, e, "reasoning") :
           pending.reasoning = {IF items[n].empty THEN <<>> ELSE <<n>>}
      /\ {pending.calls[k].from : k \in DOMAIN pending.calls} = Positions(b, e, "function_call")
      /\ \A k, l \in DOMAIN pending.calls : k < l => pending.calls[k].from < pending.calls[l].from
  BY DEF Pends
<1>4. pending # Nothing
  <2>1. b \in b..e /\ Speaks(b) BY <1>1 DEF OpenTurn
  <2>2. CASE Type(b) = "message"
    <3>1. b \in pending.text BY <1>3, <2>1, <2>2 DEF Positions
    <3>. QED BY <3>1 DEF Nothing
  <2>3. CASE Type(b) = "reasoning"
    <3>1. pending.reasoning # {} BY <1>3, <2>1, <2>3 DEF Positions
    <3>. QED BY <3>1 DEF Nothing
  <2>4. CASE Type(b) = "function_call"
    <3>1. b \in {pending.calls[k].from : k \in DOMAIN pending.calls} BY <1>3, <2>1, <2>4 DEF Positions
    <3>2. DOMAIN pending.calls # {} BY <3>1
    <3>. QED BY <3>2 DEF Nothing
  <2>5. Type(b) = "message" \/ Type(b) = "reasoning" \/ Type(b) = "function_call"
    BY <2>1, ItemFields DEF Speaks, Type
  <2>. QED BY <2>2, <2>3, <2>4, <2>5
<1>5. /\ Turning.role = "assistant" /\ Turning.calls = pending.calls /\ Turning.reasoning = pending.reasoning
      /\ Turning.content = IF pending.text = {} /\ pending.calls = <<>> THEN {MadeUp} ELSE pending.text
  BY AssistantFields DEF Turning
<1>6. Turning.content \ {MadeUp} = Positions(b, e, "message")
  <2>1. MadeUp \notin Positions(b, e, "message") BY <1>1, <1>2 DEF Positions, MadeUp
  <2>2. CASE pending.text = {} /\ pending.calls = <<>> BY <1>3, <1>5, <2>2
  <2>3. CASE ~ (pending.text = {} /\ pending.calls = <<>>) BY <1>3, <1>5, <2>1, <2>3
  <2>. QED BY <2>2, <2>3
<1>7. \A n \in Positions(b, e, "reasoning") : items[n].empty \/ Turning.reasoning = {<<n>>}
  BY <1>3, <1>5
<1>. QED BY <1>3, <1>4, <1>5, <1>6, <1>7 DEF IsTurn

\* What a new item does to the turns.
LEMMA TurnStep ==
  ASSUME TypeOK, TurnInv, NEW item, Read(item), NEW h, h = Here, There \subseteq There',
         ~ SpeaksOf(item) => pending' = Nothing /\ (pending # Nothing => Turning \in There'),
         ASSUME NEW b \in 1..h, SpeaksOf(item), Simple(b, h)', Pends(b, Len(items))
         PROVE  Pends(b, h)'
  PROVE  TurnInv'
<1>1. /\ DOMAIN items = 1..Len(items) /\ Len(items) \in Nat /\ h = Len(items) + 1 /\ h \in Nat \ {0}
      /\ DOMAIN items' = 1..h /\ Len(items') = h
      /\ pc = "items" /\ pc' = "items"
  BY ReadFacts
<1>2. /\ \A n \in DOMAIN items : Speaks(n)' <=> Speaks(n)
      /\ Speaks(h)' <=> SpeaksOf(item)
      /\ \A type : \A b \in 1..h :
              Positions(b, h, type)' = Positions(b, Len(items), type) \cup (IF item.type = type THEN {h} ELSE {})
  BY PositionsGrow
<1>3. ASSUME NEW b \in DOMAIN items', NEW e \in DOMAIN items', b <= e, Turn(b, e)', Simple(b, e)', e < Len(items')
      PROVE  \E m \in There' : IsTurn(m, b, e)'
  <2>1. b \in DOMAIN items /\ e \in DOMAIN items /\ e + 1 \in 1..h BY <1>1, <1>3
  <2>2. \A n \in b..e : n \in DOMAIN items BY <1>1, <2>1
  <2>3. (\A n \in b..e : Speaks(n)) /\ (b > 1 => ~ Speaks(b - 1)) /\ ~ Speaks(e + 1)'
    <3>1. (\A n \in b..e : Speaks(n)') /\ (b > 1 => ~ Speaks(b - 1)') /\ ~ Speaks(e + 1)'
      BY <1>1, <1>3 DEF Turn
    <3>2. b > 1 => b - 1 \in DOMAIN items BY <1>1, <2>1
    <3>. QED BY <1>2, <2>2, <3>1, <3>2
  <2>4. Simple(b, e) BY <1>3, <2>1, TurnStays
  <2>5. CASE e < Len(items)
    <3>1. e + 1 \in DOMAIN items BY <1>1, <2>1, <2>5
    <3>2. ~ Speaks(e + 1) BY <1>2, <2>3, <3>1
    <3>3. Turn(b, e) BY <2>3, <3>2 DEF Turn
    <3>4. \E m \in There : IsTurn(m, b, e) BY <1>3, <2>1, <2>4, <2>5, <3>3 DEF TurnInv
    <3>. QED BY <2>1, <3>4, TurnStays
  <2>6. CASE e = Len(items)
    <3>1. OpenTurn(b) BY <2>3, <2>6 DEF OpenTurn
    <3>2. b \in 1..Len(items) + 1 BY <1>1, <2>1
    <3>3. Pends(b, Len(items)) BY <1>1, <2>4, <2>6, <3>1, <3>2 DEF TurnInv
    <3>4. ~ SpeaksOf(item) BY <1>1, <1>2, <2>3, <2>6
    <3>5. Turning \in There' /\ IsTurn(Turning, b, Len(items)) BY <2>1, <3>1, <3>3, <3>4, PendsIsTurn
    <3>6. PICK m \in There' : IsTurn(m, b, e) BY <2>6, <3>5
    <3>. QED BY <2>1, <3>6, TurnStays
  <2>. QED BY <1>1, <1>3, <2>5, <2>6
<1>4. ASSUME NEW b \in 1..h + 1, OpenTurn(b)', Simple(b, h)'
      PROVE  Pends(b, h)'
  <2>1. CASE b = h + 1
    <3>1. ~ Speaks(h)' BY <1>1, <1>4, <2>1 DEF OpenTurn
    <3>2. pending'.text = {} /\ pending'.reasoning = {} /\ pending'.calls = <<>> BY <1>2, <3>1 DEF Nothing
    <3>3. \A type : Positions(b, h, type)' = {} BY <1>1, <2>1 DEF Positions
    <3>4. {pending'.calls[k].from : k \in DOMAIN pending'.calls} = {} BY <3>2
    <3>. QED BY <3>2, <3>3, <3>4 DEF Pends
  <2>2. CASE b \in 1..h
    <3>1. h \in b..h BY <1>1, <2>2
    <3>2. (\A n \in b..h : Speaks(n)') /\ (b > 1 => ~ Speaks(b - 1)') BY <1>1, <1>4 DEF OpenTurn
    <3>3. SpeaksOf(item) BY <1>2, <3>1, <3>2
    <3>4. (\A n \in b..Len(items) : n \in DOMAIN items /\ n \in b..h) /\ (b > 1 => b - 1 \in DOMAIN items)
      BY <1>1, <2>2
    <3>5. OpenTurn(b) BY <1>2, <3>2, <3>4 DEF OpenTurn
    <3>6. Simple(b, Len(items))
      <4>1. Positions(b, Len(items), "message") \subseteq Positions(b, h, "message")'
            /\ Positions(b, Len(items), "reasoning") \subseteq Positions(b, h, "reasoning")'
        BY <1>2, <2>2
      <4>. QED BY <1>4, <4>1 DEF Simple, AtMostOne
    <3>7. Pends(b, Len(items)) BY <1>1, <2>2, <3>5, <3>6 DEF TurnInv
    <3>. QED BY <1>4, <2>2, <3>3, <3>7
  <2>. QED BY <1>1, <2>1, <2>2
<1>. QED BY <1>1, <1>3, <1>4 DEF TurnInv

\* The places of a turn before the new item.
LEMMA PlacesBefore ==
  ASSUME TypeOK, NEW item, Read(item), NEW h, h = Here, NEW b \in 1..h
  PROVE  /\ \A type : \A n \in Positions(b, Len(items), type) : n \in Nat /\ n < h /\ items'[n] = items[n]
         /\ \A type : item.type # type => Positions(b, h, type)' = Positions(b, Len(items), type)
         /\ Positions(b, h, item.type)' = Positions(b, Len(items), item.type) \cup {h}
         /\ AtMostOne(Positions(b, h, item.type)) ' => Positions(b, Len(items), item.type) = {}
<1>1. /\ DOMAIN items = 1..Len(items) /\ Len(items) \in Nat /\ h = Len(items) + 1 /\ h \in Nat \ {0}
      /\ \A n \in DOMAIN items : items'[n] = items[n]
  BY ReadFacts
<1>2. \A n \in b..Len(items) : n \in DOMAIN items /\ n < h /\ n \in Nat BY <1>1
<1>3. \A type : \A n \in Positions(b, Len(items), type) : n \in Nat /\ n < h /\ items'[n] = items[n]
  BY <1>1, <1>2 DEF Positions
<1>4. \A type :
        Positions(b, h, type)' = Positions(b, Len(items), type) \cup (IF item.type = type THEN {h} ELSE {})
  BY PositionsGrow
<1>5. ASSUME AtMostOne(Positions(b, h, item.type))', NEW n \in Positions(b, Len(items), item.type)
      PROVE  FALSE
  <2>1. n \in Positions(b, h, item.type)' /\ h \in Positions(b, h, item.type)' BY <1>4
  <2>2. n = h BY <1>5, <2>1 DEF AtMostOne
  <2>3. n < h /\ n \in Nat BY <1>3
  <2>. QED BY <1>1, <2>2, <2>3
<1>6. \A type : item.type # type => Positions(b, h, type)' = Positions(b, Len(items), type) BY <1>4
<1>7. Positions(b, h, item.type)' = Positions(b, Len(items), item.type) \cup {h} BY <1>4
<1>8. AtMostOne(Positions(b, h, item.type))' => Positions(b, Len(items), item.type) = {} BY <1>5
<1>. QED BY <1>3, <1>6, <1>7, <1>8

LEMMA NextTurn == TypeOK /\ Clear /\ TurnInv /\ [Next]_vars => TurnInv'
<1>. SUFFICES ASSUME TypeOK, Clear, TurnInv, [Next]_vars PROVE TurnInv' OBVIOUS
<1>0. /\ kept \in Seq(Messages) /\ rest \in Seq(Messages) /\ items \in Seq(Items)
      /\ pending \in AssemblyStates /\ pending.calls \in Seq(Calls) /\ pending.reasoning \subseteq Seq(Nat)
  BY DEF TypeOK, AssemblyStates
<1>h. PICK h \in Nat \ {0} : h = Here BY <1>0, HereType
<1>n. DOMAIN items = 1..Len(items) /\ Len(items) \in Nat /\ h = Len(items) + 1 BY <1>0, <1>h DEF Here
<1>f. /\ Elements(kept) \subseteq Elements(Flush(kept, pending))
      /\ pending # Nothing => Turning \in Elements(Flush(kept, pending))
      /\ \A m \in Messages : Elements(Flush(kept, pending)) \cup {m}
                                  = Elements(Append(Flush(kept, pending), m))
  BY FlushKeeps
<1>1. CASE ReadUserMessage
  <2>1. UserMessage(h) \in Messages BY <1>h, MadeMessages
  <2>2. kept' = Append(Flush(kept, pending), UserMessage(h)) /\ Read(MessageItem("user")) /\ pending' = Nothing
    BY <1>1, <1>h DEF ReadUserMessage
  <2>3. There \subseteq There' /\ (pending # Nothing => Turning \in There')
    BY <1>f, <2>1, <2>2 DEF There, Read
  <2>4. ~ SpeaksOf(MessageItem("user")) 
    <3>1. MessageItem("user").role # MessageItem("assistant").role BY ItemFields
    <3>2. MessageItem("user").type = "message" BY ItemFields
    <3>. QED BY <3>1, <3>2 DEF SpeaksOf
  <2>. QED BY <1>h, <2>2, <2>3, <2>4, TurnStep
<1>2. CASE ReadAssistantMessage
  <2>1. Read(MessageItem("assistant")) BY <1>2 DEF ReadAssistantMessage
  <2>2. MessageItem("assistant").type = "message" /\ SpeaksOf(MessageItem("assistant"))
    BY ItemFields DEF SpeaksOf
  <2>3. There \subseteq There' BY <1>2, <1>f, <2>1 DEF ReadAssistantMessage, There, Read
  <2>4. ASSUME NEW b \in 1..h, Simple(b, h)', Pends(b, Len(items))
        PROVE  Pends(b, h)'
    <3>1. Positions(b, Len(items), "message") = {}
      <4>1. AtMostOne(Positions(b, h, "message"))' BY <2>4 DEF Simple
      <4>. QED BY <1>h, <2>1, <2>2, <4>1, PlacesBefore
    <3>2. Positions(b, h, "message")' = {h} BY <1>h, <2>1, <2>2, <3>1, PlacesBefore
    <3>3. /\ Positions(b, h, "reasoning")' = Positions(b, Len(items), "reasoning")
          /\ Positions(b, h, "function_call")' = Positions(b, Len(items), "function_call")
          /\ \A n \in Positions(b, Len(items), "reasoning") : items'[n] = items[n]
      BY <1>h, <2>1, <2>2, PlacesBefore
    <3>4. pending.text = {} BY <2>4, <3>1 DEF Pends
    <3>5. pending'.calls = pending.calls /\ pending'.reasoning = pending.reasoning /\ pending'.text = {h}
      BY <1>0, <1>2, <1>h, <3>4 DEF ReadAssistantMessage, AssemblyStates
    <3>. QED BY <2>4, <3>2, <3>3, <3>5 DEF Pends
  <2>. QED BY <1>h, <2>1, <2>2, <2>3, <2>4, TurnStep
<1>3. CASE ReadReasoning
  <2>. PICK empty \in BOOLEAN : ReadReasoning!(empty) BY <1>3 DEF ReadReasoning
  <2>. DEFINE text == IF empty THEN <<>> ELSE <<Here>>
  <2>i. PICK item : item = ReasoningItem(empty) OBVIOUS
  <2>1. Read(item) BY <2>i
  <2>2. item.type = "reasoning" /\ SpeaksOf(item) /\ item.empty = empty
    BY <2>i, ItemFields DEF SpeaksOf
  <2>3. There \subseteq There' BY <1>f, <2>1 DEF There, Read
  <2>4. ASSUME NEW b \in 1..h, Simple(b, h)', Pends(b, Len(items))
        PROVE  Pends(b, h)'
    <3>1. Positions(b, Len(items), "reasoning") = {}
      <4>1. AtMostOne(Positions(b, h, item.type))' BY <2>2, <2>4 DEF Simple
      <4>2. Positions(b, Len(items), item.type) = {} BY <1>h, <2>1, <4>1, PlacesBefore
      <4>. QED BY <2>2, <4>2
    <3>2. Positions(b, h, "reasoning")' = {h}
      <4>1. Positions(b, h, item.type)' = Positions(b, Len(items), item.type) \cup {h}
        BY <1>h, <2>1, PlacesBefore
      <4>. QED BY <2>2, <3>1, <4>1
    <3>3. /\ Positions(b, h, "message")' = Positions(b, Len(items), "message")
          /\ Positions(b, h, "function_call")' = Positions(b, Len(items), "function_call")
      BY <1>h, <2>1, <2>2, PlacesBefore
    <3>4. items'[h].empty = empty BY <1>h, <2>1, <2>2, ReadFacts
    <3>5. pending.reasoning = {} BY <2>4, <3>1 DEF Pends
    <3>6. /\ pending'.text = pending.text /\ pending'.calls = pending.calls
          /\ pending'.reasoning = {text}
      <4>1. CASE Assembling(pending)
        <5>1. pending' = [pending EXCEPT !.reasoning = IF @ = {} THEN {text} ELSE {r \o text : r \in @}]
          BY <4>1
        <5>. HIDE DEF text
        <5>. QED BY <1>0, <3>5, <5>1 DEF AssemblyStates
      <4>2. CASE ~ Assembling(pending)
        <5>1. pending' = [Nothing EXCEPT !.reasoning = {text}] BY <4>2
        <5>. HIDE DEF text
        <5>. QED BY <4>2, <5>1 DEF Assembling, Nothing
      <4>. QED BY <4>1, <4>2
    <3>7. text = IF empty THEN <<>> ELSE <<h>> BY <1>h
    <3>. HIDE DEF text
    <3>8. pending'.text = Positions(b, h, "message")' BY <2>4, <3>3, <3>6 DEF Pends
    <3>9. \A n \in Positions(b, h, "reasoning")' :
            pending'.reasoning = {IF items'[n].empty THEN <<>> ELSE <<n>>}
      BY <3>2, <3>4, <3>6, <3>7
    <3>10. {pending'.calls[k].from : k \in DOMAIN pending'.calls} = Positions(b, h, "function_call")'
      BY <2>4, <3>3, <3>6 DEF Pends
    <3>11. \A k, l \in DOMAIN pending'.calls : k < l => pending'.calls[k].from < pending'.calls[l].from
      BY <2>4, <3>6 DEF Pends
    <3>. QED BY <3>2, <3>8, <3>9, <3>10, <3>11 DEF Pends
  <2>. QED BY <1>h, <2>1, <2>2, <2>3, <2>4, TurnStep
<1>4. CASE ReadCall
  <2>. PICK id \in CallIds, args \in {"whole", "torn"} : ReadCall!(id, args) BY <1>4 DEF ReadCall
  <2>. DEFINE call == [id |-> id, from |-> Here, arguments |-> Sanitized(args)]
  <2>0. call.from = h BY <1>h
  <2>1. pending' = [pending EXCEPT !.calls = Append(@, call)] /\ kept' = kept /\ Read(CallItem(id, args)) OBVIOUS
  <2>. HIDE DEF call
  <2>2. CallItem(id, args).type = "function_call" /\ SpeaksOf(CallItem(id, args)) BY ItemFields DEF SpeaksOf
  <2>3. There' = There BY <2>1 DEF There, Read
  <2>4. ASSUME NEW b \in 1..h, Pends(b, Len(items))
        PROVE  Pends(b, h)'
    <3>1. /\ pending'.calls = Append(pending.calls, call) /\ pending'.text = pending.text
          /\ pending'.reasoning = pending.reasoning
      BY <2>1, <1>0 DEF AssemblyStates
    <3>2. /\ Positions(b, h, "message")' = Positions(b, Len(items), "message")
          /\ Positions(b, h, "reasoning")' = Positions(b, Len(items), "reasoning")
          /\ Positions(b, h, "function_call")' = Positions(b, Len(items), "function_call") \cup {h}
          /\ \A n \in Positions(b, Len(items), "reasoning") : items'[n] = items[n]
          /\ \A n \in Positions(b, Len(items), "function_call") : n < h
      BY <1>h, <2>1, <2>2, PlacesBefore
    <3>3. /\ DOMAIN pending.calls = 1..Len(pending.calls) /\ Len(pending.calls) \in Nat
          /\ DOMAIN pending'.calls = 1..Len(pending.calls) + 1
          /\ \A k \in DOMAIN pending.calls : pending'.calls[k] = pending.calls[k]
          /\ pending'.calls[Len(pending.calls) + 1] = call
      BY <1>0, <3>1, CallsGrow
    <3>4. PICK l \in Nat : l = Len(pending.calls) + 1 BY <3>3
    <3>5. /\ \A k \in DOMAIN pending'.calls : k \in DOMAIN pending.calls \/ k = l
          /\ l \in DOMAIN pending'.calls /\ DOMAIN pending.calls \subseteq DOMAIN pending'.calls
          /\ \A k \in DOMAIN pending'.calls : k <= l
          /\ pending'.calls[l].from = h
      BY <2>0, <3>3, <3>4
    <3>6. {pending.calls[k].from : k \in DOMAIN pending.calls} = Positions(b, Len(items), "function_call")
      BY <2>4 DEF Pends
    <3>7. {pending'.calls[k].from : k \in DOMAIN pending'.calls} = Positions(b, h, "function_call")'
      <4>1. {pending'.calls[k].from : k \in DOMAIN pending'.calls}
              = {pending.calls[k].from : k \in DOMAIN pending.calls} \cup {h}
        BY <3>3, <3>5
      <4>. QED BY <3>2, <3>6, <4>1
    <3>8. ASSUME NEW k \in DOMAIN pending'.calls, NEW j \in DOMAIN pending'.calls, k < j
          PROVE  pending'.calls[k].from < pending'.calls[j].from
      <4>1. k \in DOMAIN pending.calls BY <3>3, <3>4, <3>5, <3>8
      <4>2. pending.calls[k].from < h
        <5>1. pending.calls[k].from \in Positions(b, Len(items), "function_call") BY <3>6, <4>1
        <5>. QED BY <3>2, <5>1
      <4>3. CASE j = l BY <3>3, <3>5, <4>1, <4>2, <4>3
      <4>4. CASE j \in DOMAIN pending.calls BY <2>4, <3>3, <3>8, <4>1, <4>4 DEF Pends
      <4>. QED BY <3>5, <4>3, <4>4
    <3>. QED BY <2>4, <3>1, <3>2, <3>7, <3>8 DEF Pends
  <2>. QED BY <1>h, <2>1, <2>2, <2>3, <2>4, TurnStep
<1>5. CASE ReadOutput
  <2>. PICK id \in CallIds : ReadOutput!(id) BY <1>5 DEF ReadOutput
  <2>1. ToolMessage(id, h) \in Messages BY <1>h, MadeMessages
  <2>2. kept' = Append(Flush(kept, pending), ToolMessage(id, h)) /\ Read(OutputItem(id)) /\ pending' = Nothing
    BY <1>h
  <2>3. There \subseteq There' /\ (pending # Nothing => Turning \in There')
    BY <1>f, <2>1, <2>2 DEF There, Read
  <2>4. ~ SpeaksOf(OutputItem(id)) 
    <3>1. OutputItem(id).type = "function_call_output" /\ MessageItem("assistant").type = "message" BY ItemFields
    <3>. QED BY <3>1 DEF SpeaksOf
  <2>. QED BY <1>h, <2>2, <2>3, <2>4, TurnStep
<1>6. CASE EndOfItems
  <2>1. /\ pc = "items" /\ pc' = "orphans" /\ rest' = Flush(kept, pending) /\ kept' = <<>> /\ items' = items
        /\ rest = <<>>
    BY <1>6 DEF EndOfItems, Clear
  <2>2. There \subseteq There' /\ (pending # Nothing => Turning \in There')
    BY <1>f, <2>1, ListFacts DEF There
  <2>3. ASSUME NEW b \in DOMAIN items, NEW e \in DOMAIN items, b <= e, Turn(b, e), Simple(b, e)
        PROVE  \E m \in There' : IsTurn(m, b, e)
    <3>1. CASE e < Len(items) BY <2>2, <2>3, <3>1 DEF TurnInv
    <3>2. CASE e = Len(items)
      <4>1. OpenTurn(b) BY <2>3, <3>2 DEF OpenTurn, Turn
      <4>2. b \in 1..Len(items) + 1 BY <1>n
      <4>3. Pends(b, Len(items)) BY <2>1, <2>3, <3>2, <4>1, <4>2 DEF TurnInv
      <4>4. pending # Nothing /\ IsTurn(Turning, b, Len(items)) BY <4>1, <4>3, PendsIsTurn
      <4>. QED BY <2>2, <3>2, <4>4
    <3>. QED BY <1>n, <3>1, <3>2
  <2>4. \A b, e, m : (IsTurn(m, b, e)' <=> IsTurn(m, b, e)) /\ (Turn(b, e)' <=> Turn(b, e))
                       /\ (Simple(b, e)' <=> Simple(b, e))
    BY <2>1 DEF IsTurn, Turn, Simple, Positions, Type, Speaks
  <2>. QED BY <2>1, <2>3, <2>4 DEF TurnInv
<1>7. CASE pc # "items"
  <2>1. items' = items /\ pc' # "items"
    BY <1>7 DEF Next, vars, ReadUserMessage, ReadAssistantMessage, ReadReasoning, ReadCall, ReadOutput, Read,
                EndOfItems, CheckMessage, OrphansRemoved, NextPass, PassMessage, PassTool, FillOutput,
                OutputsEnsured, FillReasoning
  <2>2. ASSUME NEW b \in DOMAIN items, NEW e \in DOMAIN items, NEW m \in There, IsTurn(m, b, e)
        PROVE  \E x \in There' : IsTurn(x, b, e)
    <3>1. m \in Messages BY <1>0 DEF There, Elements
    <3>2. m.role # "tool" BY <2>2 DEF IsTurn
    <3>3. PICK x \in There' : x = m \/ x = Backfilled(m) BY <1>7, <3>2, MessagesStay
    <3>4. CASE x = m BY <2>2, <3>4
    <3>5. CASE x = Backfilled(m)
      <4>1. /\ x.role = m.role /\ x.content = m.content /\ x.calls = m.calls
            /\ x.reasoning = m.reasoning \/ m.reasoning \subseteq {<<>>}
        BY <3>1, <3>5, BackfillFacts
      <4>2. \A n : {<<n>>} \subseteq {<<>>} => FALSE OBVIOUS
      <4>3. \A n \in Positions(b, e, "reasoning") : items[n].empty \/ x.reasoning = {<<n>>}
        BY <2>2, <4>1, <4>2 DEF IsTurn
      <4>4. IsTurn(x, b, e) BY <2>2, <4>1, <4>3 DEF IsTurn
      <4>. QED BY <4>4
    <3>. QED BY <3>3, <3>4, <3>5
  <2>3. \A b, e, m : (IsTurn(m, b, e)' <=> IsTurn(m, b, e)) /\ (Turn(b, e)' <=> Turn(b, e))
                       /\ (Simple(b, e)' <=> Simple(b, e))
    BY <2>1 DEF IsTurn, Turn, Simple, Positions, Type, Speaks
  <2>. QED BY <1>7, <2>1, <2>2, <2>3 DEF TurnInv
<1>8. CASE UNCHANGED vars
  <2>1. items' = items /\ pc' = pc /\ kept' = kept /\ rest' = rest /\ pending' = pending BY <1>8 DEF vars
  <2>2. There' = There BY <2>1 DEF There
  <2>3. \A b, e, m : (IsTurn(m, b, e)' <=> IsTurn(m, b, e)) /\ (Turn(b, e)' <=> Turn(b, e))
                       /\ (Simple(b, e)' <=> Simple(b, e))
    BY <2>1 DEF IsTurn, Turn, Simple, Positions, Type, Speaks
  <2>4. \A b, e : (OpenTurn(b)' <=> OpenTurn(b)) /\ (Pends(b, e)' <=> Pends(b, e))
    BY <2>1 DEF OpenTurn, Pends, Positions, Type, Speaks
  <2>. QED BY <2>1, <2>2, <2>3, <2>4 DEF TurnInv
<1>9. CASE CheckMessage \/ OrphansRemoved \/ PassMessage \/ PassTool \/ FillOutput \/ OutputsEnsured \/ FillReasoning
  <2>1. pc # "items"
    BY <1>9 DEF CheckMessage, OrphansRemoved, PassMessage, PassTool, FillOutput, OutputsEnsured, FillReasoning
  <2>. QED BY <1>7, <2>1
<1>. QED BY <1>1, <1>2, <1>3, <1>4, <1>5, <1>6, <1>8, <1>9 DEF Next

--------------------------------------------------------------------------------
(* Every answer of an ordinary turn arrives *)

LEMMA RunAppend ==
  ASSUME NEW s \in Seq(Messages), NEW m \in Messages, NEW a \in DOMAIN s
  PROVE  /\ OpenRun(Append(s, m), a) => OpenRun(s, a) /\ m.role = "tool"
         /\ Behind(Append(s, m), a, Len(s) + 1) => OpenRun(s, a) /\ m.role = "tool"
<1>. DEFINE new == Append(s, m)
<1>1. /\ DOMAIN s = 1..Len(s) /\ Len(s) \in Nat
      /\ DOMAIN new = 1..Len(s) + 1 /\ Len(new) = Len(s) + 1
      /\ \A i \in DOMAIN s : new[i] = s[i]
      /\ new[Len(s) + 1] = m
  BY AppendFacts
<1>. HIDE DEF new
<1>2. ASSUME \A k \in a + 1..Len(s) + 1 : new[k].role = "tool"
      PROVE  OpenRun(s, a) /\ m.role = "tool"
  <2>1. Len(s) + 1 \in a + 1..Len(s) + 1 BY <1>1
  <2>2. \A k \in a + 1..Len(s) : k \in a + 1..Len(s) + 1 /\ k \in DOMAIN s BY <1>1
  <2>. QED BY <1>1, <1>2, <2>1, <2>2 DEF OpenRun
<1>. QED BY <1>1, <1>2 DEF OpenRun, Behind, new

LEMMA PairAppend ==
  ASSUME NEW s \in Seq(Messages), NEW m \in Messages, NEW a \in DOMAIN s, NEW k, NEW id
  PROVE  /\ \A t \in DOMAIN s : Pair(s, a, t, k, id) => Pair(Append(s, m), a, t, k, id)
         /\ Waits(s, a, id) /\ m.role = "tool" => Waits(Append(s, m), a, id)
         /\ Waits(s, a, id) /\ m.role = "tool" /\ IsAnswer(m, k, id)
              => Pair(Append(s, m), a, Len(s) + 1, k, id)
         /\ HasCall(m, id) => Waits(Append(s, m), Len(s) + 1, id)
<1>. DEFINE new == Append(s, m)
<1>1. /\ DOMAIN s = 1..Len(s) /\ Len(s) \in Nat
      /\ \A i \in DOMAIN s : new[i] = s[i]
      /\ new[Len(s) + 1] = m
  BY AppendFacts
<1>2. /\ \A t \in DOMAIN s : Behind(s, a, t) <=> Behind(new, a, t)
      /\ m.role = "tool" /\ OpenRun(s, a) => OpenRun(new, a) /\ Behind(new, a, Len(s) + 1)
      /\ OpenRun(new, Len(s) + 1)
  BY BehindAppend
<1>. HIDE DEF new
<1>3. \A t \in DOMAIN s : Pair(s, a, t, k, id) => Pair(new, a, t, k, id) BY <1>1, <1>2 DEF Pair
<1>4. Waits(s, a, id) /\ m.role = "tool" => Waits(new, a, id) BY <1>1, <1>2 DEF Waits
<1>5. Waits(s, a, id) /\ m.role = "tool" /\ IsAnswer(m, k, id) => Pair(new, a, Len(s) + 1, k, id)
  BY <1>1, <1>2 DEF Waits, Pair
<1>6. HasCall(m, id) => Waits(new, Len(s) + 1, id) BY <1>1, <1>2 DEF Waits
<1>. QED BY <1>3, <1>4, <1>5, <1>6 DEF new

LEMMA PairedAppend ==
  ASSUME NEW s \in Seq(Messages), NEW m \in Messages, NEW k, NEW id, Paired(s, k, id)
  PROVE  Paired(Append(s, m), k, id)
<1>1. PICK a, t \in DOMAIN s : Pair(s, a, t, k, id) BY DEF Paired
<1>2. Pair(Append(s, m), a, t, k, id) BY <1>1, PairAppend
<1>3. a \in DOMAIN Append(s, m) /\ t \in DOMAIN Append(s, m) BY AppendFacts
<1>. QED BY <1>2, <1>3 DEF Paired

LEMMA RealAppend ==
  ASSUME NEW s \in Seq(Messages), NEW m \in Messages, Real(s),
         m.role = "tool" => m.content # {MadeUp}
  PROVE  Real(Append(s, m))
<1>1. /\ \A i \in DOMAIN s : Append(s, m)[i] = s[i]
      /\ Append(s, m)[Len(s) + 1] = m
      /\ \A i \in DOMAIN Append(s, m) : i \in DOMAIN s \/ i = Len(s) + 1
  BY AppendFacts
<1>. QED BY <1>1 DEF Real

LEMMA HonestAppend ==
  ASSUME NEW s \in Seq(Messages), NEW m \in Messages, NEW a \in DOMAIN s, NEW id, Honest(s, a, id),
         m.role = "tool" /\ OpenRun(s, a) /\ m.answers = {id} => m.content # {MadeUp}
  PROVE  Honest(Append(s, m), a, id)
<1>. DEFINE new == Append(s, m)
<1>1. /\ \A i \in DOMAIN s : new[i] = s[i]
      /\ new[Len(s) + 1] = m
      /\ \A i \in DOMAIN new : i \in DOMAIN s \/ i = Len(s) + 1
  BY AppendFacts
<1>2. \A u \in DOMAIN s : Behind(s, a, u) <=> Behind(new, a, u) BY BehindAppend
<1>3. Behind(new, a, Len(s) + 1) => OpenRun(s, a) /\ m.role = "tool" BY RunAppend
<1>. HIDE DEF new
<1>4. ASSUME NEW u \in DOMAIN new, Behind(new, a, u), new[u].answers = {id}
      PROVE  new[u].content # {MadeUp}
  <2>1. CASE u \in DOMAIN s BY <1>1, <1>2, <1>4, <2>1 DEF Honest
  <2>2. CASE u = Len(s) + 1 BY <1>1, <1>3, <1>4, <2>2
  <2>. QED BY <1>1, <2>1, <2>2
<1>. QED BY <1>4 DEF Honest, new

\* What the last message of a list has behind it.
LEMMA HonestLast ==
  ASSUME NEW s \in Seq(Messages), NEW m \in Messages, NEW id
  PROVE  Honest(Append(s, m), Len(s) + 1, id)
<1>1. DOMAIN Append(s, m) = 1..Len(s) + 1 /\ Len(s) \in Nat BY AppendFacts
<1>. QED BY <1>1 DEF Honest, Behind

\* A pass takes the head of the list it reads.
LEMMA PairedTail ==
  ASSUME NEW s \in Seq(Messages), s # <<>>, NEW k, NEW id, Paired(s, k, id)
  PROVE  \/ Paired(Tail(s), k, id)
         \/ HasCall(Head(s), id) /\ Leads(Tail(s), k, id)
<1>. DEFINE new == Tail(s)
<1>1. /\ DOMAIN s = 1..Len(s) /\ Len(s) \in Nat /\ 1 \in DOMAIN s /\ Head(s) = s[1]
      /\ DOMAIN new = 1..Len(s) - 1
      /\ \A i \in DOMAIN new : i + 1 \in DOMAIN s /\ new[i] = s[i + 1]
  BY ListFacts
<1>2. PICK a, t \in DOMAIN s : Pair(s, a, t, k, id) BY DEF Paired
<1>. HIDE DEF new
<1>3. a < t /\ (\A j \in a + 1..t : s[j].role = "tool") /\ HasCall(s[a], id) /\ IsAnswer(s[t], k, id)
  BY <1>2 DEF Pair, Behind
<1>4. t - 1 \in DOMAIN new /\ new[t - 1] = s[t] BY <1>1, <1>3
<1>5. CASE a = 1
  <2>1. \A j \in 1..t - 1 : j \in DOMAIN new /\ j + 1 \in a + 1..t BY <1>1, <1>4, <1>5
  <2>2. \A j \in 1..t - 1 : new[j].role = "tool" BY <1>1, <1>3, <2>1
  <2>3. Leads(new, k, id) BY <1>3, <1>4, <2>2 DEF Leads
  <2>. QED BY <1>1, <1>3, <1>5, <2>3 DEF new
<1>6. CASE a # 1
  <2>1. a - 1 \in DOMAIN new /\ new[a - 1] = s[a] /\ a - 1 < t - 1 BY <1>1, <1>3, <1>6
  <2>2. \A j \in (a - 1) + 1..t - 1 : j \in DOMAIN new /\ j + 1 \in a + 1..t BY <1>1, <1>4, <1>6
  <2>3. \A j \in (a - 1) + 1..t - 1 : new[j].role = "tool" BY <1>1, <1>3, <2>2
  <2>4. Pair(new, a - 1, t - 1, k, id) BY <1>3, <1>4, <2>1, <2>3 DEF Pair, Behind
  <2>. QED BY <1>4, <2>1, <2>4 DEF Paired, new
<1>. QED BY <1>5, <1>6

LEMMA LeadsTail ==
  ASSUME NEW s \in Seq(Messages), NEW k, NEW id, Leads(s, k, id)
  PROVE  /\ s # <<>> /\ Head(s).role = "tool"
         /\ IsAnswer(Head(s), k, id) \/ Leads(Tail(s), k, id)
<1>1. PICK t \in DOMAIN s : (\A j \in 1..t : s[j].role = "tool") /\ IsAnswer(s[t], k, id) BY DEF Leads
<1>2. s # <<>> BY <1>1
<1>. DEFINE new == Tail(s)
<1>3. /\ DOMAIN s = 1..Len(s) /\ Len(s) \in Nat /\ 1 \in DOMAIN s /\ Head(s) = s[1]
      /\ DOMAIN new = 1..Len(s) - 1
      /\ \A i \in DOMAIN new : i + 1 \in DOMAIN s /\ new[i] = s[i + 1]
  BY <1>2, ListFacts
<1>. HIDE DEF new
<1>4. 1 \in 1..t BY <1>3
<1>5. CASE t = 1 BY <1>1, <1>2, <1>3, <1>4, <1>5
<1>6. CASE t # 1
  <2>1. t - 1 \in DOMAIN new /\ new[t - 1] = s[t] BY <1>3, <1>6
  <2>2. \A j \in 1..t - 1 : j \in DOMAIN new /\ j + 1 \in 1..t BY <1>3, <2>1
  <2>3. \A j \in 1..t - 1 : new[j].role = "tool" BY <1>1, <1>3, <2>2
  <2>4. Leads(new, k, id) BY <1>1, <2>1, <2>3 DEF Leads
  <2>. QED BY <1>1, <1>2, <1>3, <1>4, <2>4 DEF new
<1>. QED BY <1>5, <1>6

LEMMA RealTail ==
  ASSUME NEW s \in Seq(Messages), s # <<>>, Real(s)
  PROVE  Real(Tail(s)) /\ (Head(s).role = "tool" => Head(s).content # {MadeUp})
BY ListFacts DEF Real

LEMMA NoneOfNothing ==
  /\ Real(<<>>)
  /\ \A k, id : ~ Paired(<<>>, k, id) /\ ~ Leads(<<>>, k, id)
BY DEF Real, Paired, Leads

\* Calls that wait for their outputs are still there when their turn is flushed.
LEMMA RunFlushed ==
  ASSUME TypeOK, RunInv, NEW c \in DOMAIN items, NEW m \in c + 1..Len(items) + 1, Opened(c, m)
  PROVE  \E a \in DOMAIN Flush(kept, pending) : Waits(Flush(kept, pending), a, items[c].id)
<1>0. kept \in Seq(Messages) /\ pending \in AssemblyStates /\ Turning \in Messages
  BY MadeMessages DEF TypeOK, Turning
<1>1. CASE m = Len(items) + 1
  <2>1. HasCall(pending, items[c].id) BY <1>1 DEF RunInv
  <2>2. pending # Nothing BY <2>1 DEF HasCall, IdsOf, Nothing
  <2>3. Flush(kept, pending) = Append(kept, Turning) BY <2>2 DEF Flush, Turning
  <2>4. HasCall(Turning, items[c].id) BY <2>1, AssistantFields DEF HasCall, Turning
  <2>5. Waits(Append(kept, Turning), Len(kept) + 1, items[c].id)
    <3>1. OpenRun(Append(kept, Turning), Len(kept) + 1) /\ Append(kept, Turning)[Len(kept) + 1] = Turning
      BY <1>0, BehindAppend, AppendFacts
    <3>. QED BY <2>4, <3>1 DEF Waits
  <2>6. Len(kept) + 1 \in DOMAIN Append(kept, Turning) BY <1>0, AppendFacts
  <2>. QED BY <2>3, <2>5, <2>6
<1>2. CASE m # Len(items) + 1
  <2>1. pending = Nothing /\ \E a \in DOMAIN kept : HasCall(kept[a], items[c].id) /\ OpenRun(kept, a)
    BY <1>2 DEF RunInv
  <2>. QED BY <2>1 DEF Flush, Waits
<1>. QED BY <1>1, <1>2

\* How a new item opens and closes runs of calls and outputs.
LEMMA OpenedStep ==
  ASSUME TypeOK, NEW item, Read(item), NEW h, h = Here,
         NEW c \in DOMAIN items', NEW m \in c + 1..h + 1, Opened(c, m)'
  PROVE  \/ c = h /\ item.type = "function_call" /\ m = h + 1
         \/ /\ c \in DOMAIN items /\ items'[c] = items[c] /\ m = h + 1 /\ Opened(c, h)
            /\ item.type \in {"function_call", "reasoning"}
         \/ /\ c \in DOMAIN items /\ items'[c] = items[c] /\ m \in c + 1..h /\ Opened(c, m)
            /\ item.type = "function_call_output"
<1>1. /\ DOMAIN items = 1..Len(items) /\ Len(items) \in Nat /\ h = Len(items) + 1 /\ h \in Nat \ {0}
      /\ DOMAIN items' = 1..h /\ Len(items') = h
      /\ \A n \in DOMAIN items : items'[n] = items[n]
  BY ReadFacts
<1>2. (\A n \in DOMAIN items : Type(n)' = Type(n)) /\ Type(h)' = item.type BY PositionsGrow
<1>3. /\ Type(c)' = "function_call"
      /\ \A n \in c + 1..m - 1 : Type(n)' \in {"function_call", "reasoning"}
      /\ \A n \in m..h : Type(n)' = "function_call_output"
  BY <1>1 DEF Opened
<1>4. CASE c = h BY <1>1, <1>2, <1>3, <1>4
<1>5. CASE c # h /\ m = h + 1
  <2>1. c \in DOMAIN items /\ h \in c + 1..m - 1 BY <1>1, <1>5
  <2>2. item.type \in {"function_call", "reasoning"} BY <1>2, <1>3, <2>1
  <2>3. \A n \in c + 1..h - 1 : n \in DOMAIN items /\ n \in c + 1..m - 1 BY <1>1, <1>5, <2>1
  <2>4. \A n \in h..Len(items) : FALSE BY <1>1
  <2>5. Opened(c, h) BY <1>2, <1>3, <2>1, <2>3, <2>4 DEF Opened
  <2>. QED BY <1>1, <1>5, <2>1, <2>2, <2>5
<1>6. CASE c # h /\ m # h + 1
  <2>1. c \in DOMAIN items /\ h \in m..h /\ m \in c + 1..h BY <1>1, <1>6
  <2>2. item.type = "function_call_output" BY <1>2, <1>3, <2>1
  <2>3. \A n \in c + 1..m - 1 : n \in DOMAIN items BY <1>1, <2>1
  <2>4. \A n \in m..Len(items) : n \in DOMAIN items /\ n \in m..h BY <1>1, <2>1
  <2>5. Opened(c, m) BY <1>2, <1>3, <2>1, <2>3, <2>4 DEF Opened
  <2>. QED BY <1>1, <2>1, <2>2, <2>5
<1>. QED BY <1>4, <1>5, <1>6

\* An output is expected from the moment it is read.
LEMMA ExpectedStep ==
  ASSUME TypeOK, NEW item, Read(item), NEW h, h = Here, NEW k \in Expected'
  PROVE  \/ k \in Expected /\ items'[k] = items[k]
         \/ /\ k = h /\ item.type = "function_call_output"
            /\ \E c \in DOMAIN items : \E m \in c + 1..h : items[c].id = item.id /\ Opened(c, m)
<1>1. /\ DOMAIN items = 1..Len(items) /\ Len(items) \in Nat /\ h = Len(items) + 1 /\ h \in Nat \ {0}
      /\ DOMAIN items' = 1..h /\ Len(items') = h /\ items'[h] = item
      /\ \A n \in DOMAIN items : items'[n] = items[n]
  BY ReadFacts
<1>2. (\A n \in DOMAIN items : Type(n)' = Type(n)) /\ Type(h)' = item.type BY PositionsGrow
<1>3. k \in 1..h /\ Type(k)' = "function_call_output" /\ OrdinaryAnswer(k)' BY <1>1 DEF Expected
<1>4. PICK c \in 1..k - 1 : \E m \in c + 1..k :
        /\ items'[c].type = "function_call" /\ items'[c].id = items'[k].id
        /\ \A n \in c + 1..m - 1 : Type(n)' \in {"function_call", "reasoning"}
        /\ \A n \in m..k : Type(n)' = "function_call_output"
  BY <1>3 DEF OrdinaryAnswer
<1>5. PICK m \in c + 1..k :
        /\ items'[c].type = "function_call" /\ items'[c].id = items'[k].id
        /\ \A n \in c + 1..m - 1 : Type(n)' \in {"function_call", "reasoning"}
        /\ \A n \in m..k : Type(n)' = "function_call_output"
  BY <1>4
<1>6. c \in DOMAIN items /\ (\A n \in c + 1..m - 1 : n \in DOMAIN items) BY <1>1, <1>3, <1>4, <1>5
<1>7. /\ items[c].type = "function_call" /\ Type(c) = "function_call"
      /\ \A n \in c + 1..m - 1 : Type(n) \in {"function_call", "reasoning"}
  BY <1>1, <1>2, <1>5, <1>6 DEF Type
<1>8. CASE k \in DOMAIN items
  <2>1. \A n \in m..k : n \in DOMAIN items BY <1>1, <1>5, <1>6, <1>8
  <2>2. \A n \in m..k : Type(n) = "function_call_output" BY <1>2, <1>5, <2>1
  <2>3. items[c].id = items[k].id BY <1>1, <1>5, <1>6, <1>8
  <2>4. OrdinaryAnswer(k) BY <1>4, <1>5, <1>7, <2>2, <2>3 DEF OrdinaryAnswer
  <2>. QED BY <1>1, <1>2, <1>3, <1>8, <2>4 DEF Expected
<1>9. CASE k = h
  <2>1. \A n \in m..Len(items) : n \in DOMAIN items /\ n \in m..k BY <1>1, <1>5, <1>6, <1>9
  <2>2. \A n \in m..Len(items) : Type(n) = "function_call_output" BY <1>2, <1>5, <2>1
  <2>3. Opened(c, m) BY <1>7, <2>2 DEF Opened
  <2>4. items[c].id = item.id BY <1>1, <1>5, <1>6, <1>9
  <2>. QED BY <1>2, <1>3, <1>5, <1>6, <1>9, <2>3, <2>4
<1>. QED BY <1>1, <1>3, <1>8, <1>9

\* The messages only grow while the items are read.
LEMMA AnswerStep ==
  ASSUME TypeOK, AnswerInv, NEW item, Read(item), item.type # "function_call_output",
         Real(kept'), \A k, id : Paired(kept, k, id) => Paired(kept', k, id),
         item.type = "function_call" => HasCall(pending', item.id),
         item.type \in {"function_call", "reasoning"} =>
           \A id : HasCall(pending, id) => HasCall(pending', id)
  PROVE  AnswerInv'
<1>. PICK h : h = Here OBVIOUS
<1>1. /\ pc = "items" /\ pc' = "items" /\ Len(items') = h /\ h = Len(items) + 1 /\ Len(items) \in Nat
      /\ items'[h] = item /\ DOMAIN items = 1..Len(items)
  BY ReadFacts
<1>2. RunInv /\ \A k \in Expected : Paired(kept, k, items[k].id) BY <1>1 DEF AnswerInv
<1>3. ASSUME NEW c \in DOMAIN items', NEW m \in c + 1..h + 1, Opened(c, m)'
      PROVE  m = h + 1 /\ HasCall(pending', items'[c].id)
  <2>1. \/ c = h /\ item.type = "function_call" /\ m = h + 1
        \/ /\ c \in DOMAIN items /\ items'[c] = items[c] /\ m = h + 1 /\ Opened(c, h)
           /\ item.type \in {"function_call", "reasoning"}
    BY <1>3, OpenedStep
  <2>2. CASE c = h /\ item.type = "function_call" /\ m = h + 1 BY <1>1, <2>2
  <2>3. CASE /\ c \in DOMAIN items /\ items'[c] = items[c] /\ m = h + 1 /\ Opened(c, h)
             /\ item.type \in {"function_call", "reasoning"}
    <3>1. h \in c + 1..Len(items) + 1 BY <1>1, <2>3
    <3>2. HasCall(pending, items[c].id) BY <1>1, <1>2, <2>3, <3>1 DEF RunInv
    <3>. QED BY <2>3, <3>2
  <2>. QED BY <2>1, <2>2, <2>3
<1>4. RunInv' BY <1>1, <1>3 DEF RunInv
<1>5. ASSUME NEW k \in Expected'
      PROVE  Paired(kept', k, items'[k].id)
  <2>1. k \in Expected /\ items'[k] = items[k] BY ExpectedStep
  <2>. QED BY <1>2, <2>1
<1>. QED BY <1>1, <1>4, <1>5 DEF AnswerInv

LEMMA OutputAnswers == TypeOK /\ AnswerInv /\ ReadOutput => AnswerInv'
<1>. SUFFICES ASSUME TypeOK, AnswerInv, ReadOutput PROVE AnswerInv' OBVIOUS
<1>. PICK id \in CallIds : ReadOutput!(id) BY DEF ReadOutput
<1>. PICK h : h = Here OBVIOUS
<1>. DEFINE x == ToolMessage(id, h)
            s == Flush(kept, pending)
            item == OutputItem(id)
<1>0. Read(item) /\ item.type = "function_call_output" /\ item.id = id BY ItemFields
<1>1. /\ pc = "items" /\ pc' = "items" /\ Len(items') = h /\ h = Len(items) + 1 /\ Len(items) \in Nat
      /\ items'[h] = item /\ h \in Nat \ {0}
  BY <1>0, ReadFacts
<1>2. /\ x \in Messages /\ x.role = "tool" /\ IsAnswer(x, h, id) /\ x.content # {MadeUp}
  BY <1>1, MadeMessages DEF ToolMessage, Message, IsAnswer, MadeUp
<1>3. s \in Seq(Messages) /\ kept' = Append(s, x) /\ pending' = Nothing BY FlushType DEF TypeOK
<1>4. /\ Real(kept) /\ RunInv /\ \A k \in Expected : Paired(kept, k, items[k].id)
      /\ kept \in Seq(Messages) /\ Turning \in Messages /\ Turning.role = "assistant"
      /\ s = kept \/ s = Append(kept, Turning)
  BY <1>1, MadeMessages, AssistantFields DEF AnswerInv, TypeOK, Turning, Flush
<1>. HIDE DEF item, x, s
<1>5. Real(kept')
  <2>1. Real(s) BY <1>4, RealAppend
  <2>. QED BY <1>2, <1>3, <2>1, RealAppend
<1>6. ASSUME NEW c \in DOMAIN items, NEW m \in c + 1..h, Opened(c, m)
      PROVE  \E a \in DOMAIN s : Waits(s, a, items[c].id)
  BY <1>1, <1>4, <1>6, RunFlushed DEF s
<1>7. RunInv'
  <2>1. ASSUME NEW c \in DOMAIN items', NEW m \in c + 1..h + 1, Opened(c, m)'
        PROVE  m # h + 1 /\ \E a \in DOMAIN kept' : HasCall(kept'[a], items'[c].id) /\ OpenRun(kept', a)
    <3>1. c \in DOMAIN items /\ items'[c] = items[c] /\ m \in c + 1..h /\ Opened(c, m)
      BY <1>0, <2>1, OpenedStep
    <3>2. PICK a \in DOMAIN s : Waits(s, a, items[c].id) BY <1>6, <3>1
    <3>3. a \in DOMAIN kept' /\ Waits(kept', a, items[c].id)
      <4>1. Waits(Append(s, x), a, items[c].id) BY <1>2, <1>3, <3>2, PairAppend
      <4>2. a \in DOMAIN Append(s, x) BY <1>2, <1>3, AppendFacts
      <4>. QED BY <1>3, <4>1, <4>2
    <3>4. m # h + 1 BY <1>1, <3>1
    <3>. QED BY <3>1, <3>3, <3>4 DEF Waits
  <2>. QED BY <1>1, <1>3, <2>1 DEF RunInv
<1>8. ASSUME NEW k \in Expected'
      PROVE  Paired(kept', k, items'[k].id)
  <2>1. CASE k \in Expected /\ items'[k] = items[k]
    <3>1. Paired(kept, k, items[k].id) BY <1>4, <2>1
    <3>2. Paired(s, k, items[k].id) BY <1>4, <3>1, PairedAppend
    <3>3. Paired(kept', k, items[k].id) BY <1>2, <1>3, <3>2, PairedAppend
    <3>. QED BY <2>1, <3>3
  <2>2. CASE k = h /\ \E c \in DOMAIN items : \E m \in c + 1..h : items[c].id = item.id /\ Opened(c, m)
    <3>1. PICK c \in DOMAIN items : \E m \in c + 1..h : items[c].id = item.id /\ Opened(c, m) BY <2>2
    <3>2. PICK a \in DOMAIN s : Waits(s, a, id) BY <1>0, <1>6, <3>1
    <3>3. Pair(kept', a, Len(s) + 1, h, id) BY <1>2, <1>3, <3>2, PairAppend
    <3>4. a \in DOMAIN kept' /\ Len(s) + 1 \in DOMAIN kept' BY <1>2, <1>3, AppendFacts
    <3>. QED BY <1>0, <1>1, <2>2, <3>3, <3>4 DEF Paired
  <2>. QED BY <1>0, <2>1, <2>2, ExpectedStep
<1>. QED BY <1>1, <1>5, <1>7, <1>8 DEF AnswerInv

\* A pass moves the head of the list it reads, or drops it.
LEMMA CheckAnswers ==
  ASSUME TypeOK, CheckMessage, NEW k, NEW id, Checked(k, id)
  PROVE  Checked(k, id)'
<1>. DEFINE m == Head(rest)
<1>1. /\ kept \in Seq(Messages) /\ rest \in Seq(Messages) /\ rest # <<>> /\ m \in Messages
      /\ rest' = Tail(rest)
      /\ ids' = CASE m.role = "assistant" -> IdsOf(m.calls)
                   [] m.role = "tool"      -> ids
                   [] OTHER                -> {}
      /\ kept' = IF m.role = "tool" /\ m.answers \cap ids = {} THEN kept ELSE Append(kept, m)
  BY HeadTailProperties DEF TypeOK, CheckMessage
<1>2. \A a \in DOMAIN kept : a \in DOMAIN Append(kept, m) BY <1>1, AppendFacts
<1>3. CASE Paired(kept, k, id)
  <2>1. Paired(kept', k, id) BY <1>1, <1>3, PairedAppend
  <2>. QED BY <2>1 DEF Checked
<1>4. CASE Paired(rest, k, id)
  <2>1. Paired(rest', k, id) \/ (HasCall(m, id) /\ Leads(rest', k, id)) BY <1>1, <1>4, PairedTail
  <2>2. CASE Paired(rest', k, id) BY <2>2 DEF Checked
  <2>3. CASE HasCall(m, id) /\ Leads(rest', k, id)
    <3>1. m.role = "assistant" BY <1>1, <2>3, MessageFields DEF HasCall, IdsOf
    <3>2. kept' = Append(kept, m) /\ id \in ids' BY <1>1, <2>3, <3>1 DEF HasCall
    <3>3. Waits(kept', Len(kept) + 1, id) /\ Len(kept) + 1 \in DOMAIN kept'
      <4>1. OpenRun(Append(kept, m), Len(kept) + 1) BY <1>1, BehindAppend
      <4>2. Append(kept, m)[Len(kept) + 1] = m /\ Len(kept) + 1 \in DOMAIN Append(kept, m)
        BY <1>1, AppendFacts
      <4>. QED BY <2>3, <3>2, <4>1, <4>2 DEF Waits
    <3>. QED BY <2>3, <3>2, <3>3 DEF Checked
  <2>. QED BY <2>1, <2>2, <2>3
<1>5. CASE id \in ids /\ Leads(rest, k, id) /\ \E a \in DOMAIN kept : Waits(kept, a, id)
  <2>1. PICK a \in DOMAIN kept : Waits(kept, a, id) BY <1>5
  <2>2. m.role = "tool" /\ (IsAnswer(m, k, id) \/ Leads(rest', k, id)) BY <1>1, <1>5, LeadsTail
  <2>3. CASE IsAnswer(m, k, id)
    <3>1. m.answers \cap ids # {} BY <1>5, <2>3 DEF IsAnswer
    <3>2. kept' = Append(kept, m) BY <1>1, <3>1
    <3>3. Pair(Append(kept, m), a, Len(kept) + 1, k, id) BY <1>1, <2>1, <2>2, <2>3, PairAppend
    <3>4. Len(kept) + 1 \in DOMAIN Append(kept, m) BY <1>1, AppendFacts
    <3>5. Paired(kept', k, id) BY <1>2, <3>2, <3>3, <3>4 DEF Paired
    <3>. QED BY <3>5 DEF Checked
  <2>4. CASE Leads(rest', k, id)
    <3>1. id \in ids' BY <1>1, <1>5, <2>2
    <3>2. Waits(Append(kept, m), a, id) BY <1>1, <2>1, <2>2, PairAppend
    <3>3. a \in DOMAIN kept' /\ Waits(kept', a, id) BY <1>1, <1>2, <2>1, <3>2
    <3>. QED BY <2>4, <3>1, <3>3 DEF Checked
  <2>. QED BY <2>2, <2>3, <2>4
<1>. QED BY <1>3, <1>4, <1>5 DEF Checked

\* ensureToolCallsHaveOutputs passes a message whose calls it owes outputs.
LEMMA PassAnswers ==
  ASSUME TypeOK, PassMessage, Head(rest).role # "tool", NEW k, NEW id, Ensured(k, id)
  PROVE  Ensured(k, id)'
<1>. DEFINE m == Head(rest)
<1>1. /\ kept \in Seq(Messages) /\ rest \in Seq(Messages) /\ rest # <<>> /\ m \in Messages /\ owed = <<>>
      /\ kept' = Append(kept, m) /\ rest' = Tail(rest) /\ owed' = m.calls /\ m.role # "tool"
  BY HeadTailProperties DEF TypeOK, PassMessage
<1>. HIDE DEF m
<1>2. CASE Paired(rest, k, id)
  <2>1. Paired(rest', k, id) \/ (HasCall(m, id) /\ Leads(rest', k, id)) BY <1>1, <1>2, PairedTail DEF m
  <2>2. CASE Paired(rest', k, id) BY <2>2 DEF Ensured
  <2>3. CASE HasCall(m, id) /\ Leads(rest', k, id)
    <3>1. owed' # <<>> BY <1>1, <2>3 DEF HasCall, IdsOf
    <3>2. OpenRun(kept', Len(kept) + 1) BY <1>1, BehindAppend
    <3>3. kept'[Len(kept) + 1] = m /\ Len(kept) + 1 \in DOMAIN kept' BY <1>1, AppendFacts
    <3>4. Waits(kept', Len(kept) + 1, id) BY <2>3, <3>2, <3>3 DEF Waits
    <3>5. Honest(kept', Len(kept) + 1, id) BY <1>1, HonestLast
    <3>. QED BY <2>3, <3>1, <3>3, <3>4, <3>5 DEF Ensured
  <2>. QED BY <2>1, <2>2, <2>3
<1>3. CASE \E a, t \in DOMAIN kept : Pair(kept, a, t, k, id) /\ Honest(kept, a, id)
  <2>1. PICK a, t \in DOMAIN kept : Pair(kept, a, t, k, id) /\ Honest(kept, a, id) BY <1>3
  <2>2. Pair(kept', a, t, k, id) BY <1>1, <2>1, PairAppend
  <2>3. Honest(kept', a, id) BY <1>1, <2>1, HonestAppend
  <2>4. ~ OpenRun(kept', a) BY <1>1, RunAppend
  <2>5. a \in DOMAIN kept' /\ t \in DOMAIN kept' BY <1>1, AppendFacts
  <2>. QED BY <2>2, <2>3, <2>4, <2>5 DEF Ensured
<1>. QED BY <1>1, <1>2, <1>3 DEF Ensured

\* The outputs a message has got.
LEMMA ToolAnswers ==
  ASSUME TypeOK, PassTool, Real(rest), NEW k, NEW id, Ensured(k, id)
  PROVE  Ensured(k, id)'
<1>. DEFINE m == Head(rest)
<1>1. /\ kept \in Seq(Messages) /\ rest \in Seq(Messages) /\ rest # <<>> /\ m \in Messages
      /\ kept' = Append(kept, m) /\ rest' = Tail(rest) /\ owed' = owed /\ owed # <<>>
      /\ ids' = ids \cup m.answers /\ m.role = "tool"
  BY HeadTailProperties DEF TypeOK, PassTool, NextIsTool
<1>2. m.content # {MadeUp} BY <1>1, RealTail
<1>. HIDE DEF m
<1>3. \A a \in DOMAIN kept : a \in DOMAIN kept' BY <1>1, AppendFacts
<1>4. \A a \in DOMAIN kept : Honest(kept, a, id) => Honest(kept', a, id) BY <1>1, <1>2, HonestAppend
<1>5. CASE Paired(rest, k, id)
  <2>1. ~ HasCall(m, id) BY <1>1, MessageFields DEF HasCall, IdsOf
  <2>2. Paired(rest', k, id) BY <1>1, <1>5, <2>1, PairedTail DEF m
  <2>. QED BY <2>2 DEF Ensured
<1>6. CASE Leads(rest, k, id) /\ \E a \in DOMAIN kept : Waits(kept, a, id) /\ Honest(kept, a, id)
  <2>1. PICK a \in DOMAIN kept : Waits(kept, a, id) /\ Honest(kept, a, id) BY <1>6
  <2>2. IsAnswer(m, k, id) \/ Leads(rest', k, id) BY <1>1, <1>6, LeadsTail DEF m
  <2>3. CASE IsAnswer(m, k, id)
    <3>1. Pair(kept', a, Len(kept) + 1, k, id) BY <1>1, <2>1, <2>3, PairAppend
    <3>2. Len(kept) + 1 \in DOMAIN kept' BY <1>1, AppendFacts
    <3>3. id \in ids' BY <1>1, <2>3 DEF IsAnswer
    <3>. QED BY <1>3, <1>4, <2>1, <3>1, <3>2, <3>3 DEF Ensured
  <2>4. CASE Leads(rest', k, id)
    <3>1. Waits(kept', a, id) BY <1>1, <2>1, PairAppend
    <3>. QED BY <1>1, <1>3, <1>4, <2>1, <2>4, <3>1 DEF Ensured
  <2>. QED BY <2>2, <2>3, <2>4
<1>7. CASE \E a, t \in DOMAIN kept : /\ Pair(kept, a, t, k, id) /\ Honest(kept, a, id)
                                     /\ OpenRun(kept, a) => id \in ids
  <2>1. PICK a, t \in DOMAIN kept : /\ Pair(kept, a, t, k, id) /\ Honest(kept, a, id)
                                    /\ OpenRun(kept, a) => id \in ids
    BY <1>7
  <2>2. Pair(kept', a, t, k, id) BY <1>1, <2>1, PairAppend
  <2>3. OpenRun(kept', a) => id \in ids' BY <1>1, <2>1, RunAppend
  <2>. QED BY <1>3, <1>4, <2>1, <2>2, <2>3 DEF Ensured
<1>. QED BY <1>1, <1>5, <1>6, <1>7 DEF Ensured

\* A placeholder is only for a call whose output did not come.
LEMMA FillAnswers ==
  ASSUME TypeOK, FillOutput, NEW k, NEW id, Ensured(k, id)
  PROVE  Ensured(k, id)'
<1>. DEFINE x == ToolMessage(Head(owed).id, MadeUp)
<1>1. /\ kept \in Seq(Messages) /\ rest \in Seq(Messages) /\ owed # <<>> /\ ~ NextIsTool
      /\ kept' = IF Head(owed).id \in ids THEN kept ELSE Append(kept, x)
      /\ rest' = rest /\ ids' = ids
  BY DEF TypeOK, FillOutput
<1>2. Head(owed) \in Calls BY <1>1, HeadTailProperties DEF TypeOK
<1>3. x \in Messages /\ x.role = "tool" /\ x.answers = {Head(owed).id}
  BY <1>2, MadeMessages DEF Calls, MadeUp, ToolMessage, Message
<1>. HIDE DEF x
<1>4. CASE Paired(rest, k, id)
  <2>1. Paired(rest', k, id) BY <1>1, <1>4
  <2>. QED BY <2>1 DEF Ensured
<1>5. ~ Leads(rest, k, id) BY <1>1, LeadsTail DEF NextIsTool
<1>6. CASE \E a, t \in DOMAIN kept : /\ Pair(kept, a, t, k, id) /\ Honest(kept, a, id)
                                     /\ OpenRun(kept, a) => id \in ids
  <2>1. PICK a, t \in DOMAIN kept : /\ Pair(kept, a, t, k, id) /\ Honest(kept, a, id)
                                    /\ OpenRun(kept, a) => id \in ids
    BY <1>6
  <2>2. CASE Head(owed).id \in ids
    <3>1. kept' = kept BY <1>1, <2>2
    <3>. QED BY <1>1, <2>1, <3>1 DEF Ensured
  <2>3. CASE Head(owed).id \notin ids
    <3>1. kept' = Append(kept, x) BY <1>1, <2>3
    <3>2. Pair(kept', a, t, k, id)
      <4>1. Pair(Append(kept, x), a, t, k, id) BY <1>1, <1>3, <2>1, PairAppend
      <4>. QED BY <3>1, <4>1
    <3>3. OpenRun(kept, a) => x.answers # {id}
      <4>1. OpenRun(kept, a) => Head(owed).id # id BY <2>1, <2>3
      <4>2. \A i, j : i # j => {i} # {j} OBVIOUS
      <4>. QED BY <1>3, <4>1, <4>2
    <3>4. Honest(kept', a, id)
      <4>1. x.role = "tool" /\ OpenRun(kept, a) /\ x.answers = {id} => x.content # {MadeUp} BY <3>3
      <4>2. Honest(Append(kept, x), a, id) BY <1>1, <1>3, <2>1, <4>1, HonestAppend
      <4>. QED BY <3>1, <4>2
    <3>5. OpenRun(kept', a) => id \in ids' BY <1>1, <1>3, <2>1, <3>1, RunAppend
    <3>6. a \in DOMAIN kept' /\ t \in DOMAIN kept' BY <1>1, <1>3, <3>1, AppendFacts
    <3>. QED BY <3>2, <3>4, <3>5, <3>6 DEF Ensured
  <2>. QED BY <2>2, <2>3
<1>. QED BY <1>1, <1>4, <1>5, <1>6 DEF Ensured

LEMMA BackfillClean ==
  ASSUME NEW s \in Seq(Messages), NEW k, NEW id, Clean(s, k, id)
  PROVE  Clean([i \in DOMAIN s |-> Backfilled(s[i])], k, id)
<1>. DEFINE new == [i \in DOMAIN s |-> Backfilled(s[i])]
<1>1. DOMAIN new = DOMAIN s /\ DOMAIN s = 1..Len(s) /\ Len(s) \in Nat OBVIOUS
<1>2. \A i \in DOMAIN s : /\ new[i].role = s[i].role /\ new[i].calls = s[i].calls
                          /\ new[i].answers = s[i].answers /\ new[i].content = s[i].content
  <2>. TAKE i \in DOMAIN s
  <2>1. s[i] \in Messages /\ new[i] = Backfilled(s[i]) OBVIOUS
  <2>. QED BY <2>1, BackfillFacts
<1>. HIDE DEF new
<1>3. \A a, t \in DOMAIN s : Behind(s, a, t) <=> Behind(new, a, t)
  <2>. TAKE a, t \in DOMAIN s
  <2>1. \A j \in a + 1..t : j \in DOMAIN s BY <1>1
  <2>. QED BY <1>2, <2>1 DEF Behind
<1>4. PICK a, t \in DOMAIN s : Pair(s, a, t, k, id) /\ Honest(s, a, id) BY DEF Clean
<1>5. Pair(new, a, t, k, id) BY <1>2, <1>3, <1>4 DEF Pair, HasCall, IsAnswer
<1>6. Honest(new, a, id) BY <1>1, <1>2, <1>3, <1>4 DEF Honest
<1>. QED BY <1>1, <1>5, <1>6 DEF Clean, new

LEMMA NextAnswers == TypeOK /\ Clear /\ PairInv /\ AnswerInv /\ [Next]_vars => AnswerInv'
<1>. SUFFICES ASSUME TypeOK, Clear, PairInv, AnswerInv, [Next]_vars PROVE AnswerInv' OBVIOUS
<1>0. /\ kept \in Seq(Messages) /\ rest \in Seq(Messages) /\ items \in Seq(Items)
      /\ pending \in AssemblyStates /\ pending.calls \in Seq(Calls)
  BY DEF TypeOK, AssemblyStates
<1>h. PICK h \in Nat \ {0} : h = Here BY <1>0, HereType
<1>f. /\ Flush(kept, pending) \in Seq(Messages)
      /\ Real(kept) => Real(Flush(kept, pending))
      /\ \A k, id : Paired(kept, k, id) => Paired(Flush(kept, pending), k, id)
  <2>1. Turning \in Messages /\ Turning.role = "assistant" BY <1>0, MadeMessages, AssistantFields DEF Turning
  <2>2. Flush(kept, pending) = kept \/ Flush(kept, pending) = Append(kept, Turning) BY DEF Flush, Turning
  <2>3. Append(kept, Turning) \in Seq(Messages) BY <1>0, <2>1, AppendFacts
  <2>4. Real(kept) => Real(Append(kept, Turning)) BY <1>0, <2>1, RealAppend
  <2>5. \A k, id : Paired(kept, k, id) => Paired(Append(kept, Turning), k, id) BY <1>0, <2>1, PairedAppend
  <2>. QED BY <1>0, <2>2, <2>3, <2>4, <2>5
<1>r. pc = "items" => Real(kept) BY DEF AnswerInv
<1>1. CASE ReadUserMessage
  <2>1. UserMessage(h) \in Messages /\ UserMessage(h).role = "user"
    BY <1>h, MadeMessages DEF UserMessage, Message
  <2>2. /\ kept' = Append(Flush(kept, pending), UserMessage(h)) /\ Read(MessageItem("user")) /\ pc = "items"
        /\ MessageItem("user").type = "message"
    BY <1>1, <1>h, ItemFields DEF ReadUserMessage, Read
  <2>3. Real(kept') BY <1>f, <1>r, <2>1, <2>2, RealAppend
  <2>4. \A k, id : Paired(kept, k, id) => Paired(kept', k, id) BY <1>f, <2>1, <2>2, PairedAppend
  <2>. QED BY <2>2, <2>3, <2>4, AnswerStep
<1>2. CASE ReadAssistantMessage
  <2>1. /\ Read(MessageItem("assistant")) /\ pc = "items" /\ MessageItem("assistant").type = "message"
        /\ kept' = kept \/ kept' = Flush(kept, pending)
    BY <1>2, ItemFields DEF ReadAssistantMessage, Read
  <2>2. Real(kept') /\ \A k, id : Paired(kept, k, id) => Paired(kept', k, id) BY <1>f, <1>r, <2>1
  <2>. QED BY <2>1, <2>2, AnswerStep
<1>3. CASE ReadReasoning
  <2>. PICK empty \in BOOLEAN : ReadReasoning!(empty) BY <1>3 DEF ReadReasoning
  <2>1. /\ Read(ReasoningItem(empty)) /\ pc = "items" /\ ReasoningItem(empty).type = "reasoning"
        /\ kept' = kept \/ kept' = Flush(kept, pending)
    BY ItemFields DEF Read
  <2>2. Real(kept') /\ \A k, id : Paired(kept, k, id) => Paired(kept', k, id) BY <1>f, <1>r, <2>1
  <2>3. Assembling(pending) => pending'.calls = pending.calls BY <1>0 DEF AssemblyStates
  <2>4. ~ Assembling(pending) => \A id : ~ HasCall(pending, id) BY DEF Assembling, HasCall, IdsOf
  <2>5. \A id : HasCall(pending, id) => HasCall(pending', id) BY <2>3, <2>4 DEF HasCall
  <2>. QED BY <2>1, <2>2, <2>5, AnswerStep
<1>4. CASE ReadCall
  <2>. PICK id \in CallIds, args \in {"whole", "torn"} : ReadCall!(id, args) BY <1>4 DEF ReadCall
  <2>. DEFINE call == [id |-> id, from |-> Here, arguments |-> Sanitized(args)]
  <2>0. call.id = id OBVIOUS
  <2>1. pending' = [pending EXCEPT !.calls = Append(@, call)] /\ kept' = kept /\ Read(CallItem(id, args)) OBVIOUS
  <2>. HIDE DEF call
  <2>2. pending'.calls = Append(pending.calls, call) BY <2>1, <1>0 DEF AssemblyStates
  <2>3. IdsOf(pending'.calls) = IdsOf(pending.calls) \cup {id} BY <1>0, <2>0, <2>2, CallsGrow
  <2>4. pc = "items" /\ CallItem(id, args).type = "function_call" /\ CallItem(id, args).id = id
    BY <2>1, ItemFields DEF Read
  <2>5. HasCall(pending', CallItem(id, args).id) /\ \A i : HasCall(pending, i) => HasCall(pending', i)
    BY <2>3, <2>4 DEF HasCall
  <2>6. Real(kept') BY <1>r, <2>1, <2>4
  <2>. QED BY <2>1, <2>4, <2>5, <2>6, AnswerStep
<1>5. CASE ReadOutput BY <1>5, OutputAnswers
<1>6. CASE EndOfItems
  <2>1. /\ pc = "items" /\ pc' = "orphans" /\ rest' = Flush(kept, pending) /\ kept' = <<>> /\ items' = items
    BY <1>6 DEF EndOfItems
  <2>2. Expected' = Expected BY <2>1 DEF Expected, Type, OrdinaryAnswer
  <2>3. \A k \in Expected : Paired(rest', k, items[k].id) BY <1>f, <2>1 DEF AnswerInv
  <2>4. Real(kept') /\ Real(rest') BY <1>f, <1>r, <2>1, NoneOfNothing
  <2>5. \A k \in Expected : Checked(k, items[k].id)' BY <2>1, <2>3 DEF Checked
  <2>. QED BY <2>1, <2>2, <2>4, <2>5 DEF AnswerInv
<1>7. CASE CheckMessage
  <2>1. /\ pc = "orphans" /\ pc' = "orphans" /\ items' = items /\ rest # <<>> /\ rest' = Tail(rest)
        /\ kept' = kept \/ kept' = Append(kept, Head(rest))
    BY <1>7 DEF CheckMessage
  <2>2. Head(rest) \in Messages BY <1>0, <2>1, ListFacts
  <2>3. Real(kept) /\ Real(rest) /\ \A k \in Expected : Checked(k, items[k].id) BY <2>1 DEF AnswerInv
  <2>4. Real(rest') /\ (Head(rest).role = "tool" => Head(rest).content # {MadeUp}) BY <1>0, <2>1, <2>3, RealTail
  <2>5. Real(kept') BY <1>0, <2>1, <2>2, <2>3, <2>4, RealAppend
  <2>6. \A k \in Expected : Checked(k, items[k].id)'
    <3>1. \A k, id : Checked(k, id) => Checked(k, id)' BY <1>7, CheckAnswers
    <3>. QED BY <2>1, <2>3, <3>1
  <2>7. Expected' = Expected BY <2>1 DEF Expected, Type, OrdinaryAnswer
  <2>. QED BY <2>1, <2>4, <2>5, <2>6, <2>7 DEF AnswerInv
<1>8. CASE OrphansRemoved
  <2>1. /\ pc = "orphans" /\ pc' = "outputs" /\ items' = items /\ rest = <<>> /\ rest' = kept
    BY <1>8 DEF OrphansRemoved, NextPass
  <2>2. Real(kept) /\ \A k \in Expected : Checked(k, items[k].id) BY <2>1 DEF AnswerInv
  <2>3. \A k \in Expected : Paired(kept, k, items[k].id) BY <2>1, <2>2, NoneOfNothing DEF Checked
  <2>4. \A k \in Expected : Ensured(k, items[k].id)' BY <2>1, <2>3 DEF Ensured
  <2>5. Expected' = Expected BY <2>1 DEF Expected, Type, OrdinaryAnswer
  <2>. QED BY <2>1, <2>2, <2>4, <2>5 DEF AnswerInv
<1>9. CASE PassMessage \/ PassTool \/ FillOutput
  <2>1. pc = "outputs" /\ pc' = "outputs" /\ items' = items
    BY <1>9 DEF PassMessage, PassTool, FillOutput
  <2>2. Real(rest) /\ \A k \in Expected : Ensured(k, items[k].id) BY <2>1 DEF AnswerInv
  <2>3. rest' = rest \/ (rest # <<>> /\ rest' = Tail(rest))
    BY <1>9 DEF PassMessage, PassTool, FillOutput, NextIsTool
  <2>4. Real(rest') BY <1>0, <2>2, <2>3, RealTail
  <2>5. ASSUME NEW k, NEW id, Ensured(k, id) PROVE Ensured(k, id)'
    <3>1. CASE PassMessage
      <4>1. rest # <<>> /\ Loose(rest, {}) BY <2>1, <3>1 DEF PassMessage, PairInv
      <4>2. Head(rest) \in Messages BY <1>0, <4>1, ListFacts
      <4>3. Head(rest).role = "tool" => Head(rest).answers \subseteq {}
        <5>1. rest \in Seq(Messages) /\ rest # <<>> /\ Loose(rest, {}) BY <1>0, <4>1
        <5>2. /\ Head(rest).role = "tool" => Head(rest).answers \subseteq {}
              /\ Head(rest).role # "tool" => Loose(Tail(rest), IdsOf(Head(rest).calls))
          BY <5>1, LooseTail
        <5>. QED BY <5>2
      <4>4. Head(rest).role # "tool" BY <4>2, <4>3, MessageFields
      <4>. QED BY <2>5, <3>1, <4>4, PassAnswers
    <3>2. CASE PassTool BY <2>2, <2>5, <3>2, ToolAnswers
    <3>3. CASE FillOutput BY <2>5, <3>3, FillAnswers
    <3>. QED BY <1>9, <3>1, <3>2, <3>3
  <2>6. \A k \in Expected : Ensured(k, items[k].id)' BY <2>1, <2>2, <2>5
  <2>7. Expected' = Expected BY <2>1 DEF Expected, Type, OrdinaryAnswer
  <2>. QED BY <2>1, <2>4, <2>6, <2>7 DEF AnswerInv
<1>10. CASE OutputsEnsured
  <2>1. /\ pc = "outputs" /\ pc' = "reasoning" /\ items' = items /\ rest = <<>> /\ rest' = kept /\ owed = <<>>
    BY <1>10 DEF OutputsEnsured, NextPass
  <2>2. \A k \in Expected : Ensured(k, items[k].id) BY <2>1 DEF AnswerInv
  <2>3. \A k \in Expected : Clean(kept, k, items[k].id) BY <2>1, <2>2, NoneOfNothing DEF Ensured, Clean
  <2>4. Expected' = Expected BY <2>1 DEF Expected, Type, OrdinaryAnswer
  <2>. QED BY <2>1, <2>3, <2>4 DEF AnswerInv
<1>11. CASE FillReasoning
  <2>1. /\ pc = "reasoning" /\ pc' = "sent" /\ items' = items
        /\ kept' = rest \/ kept' = [i \in DOMAIN rest |-> Backfilled(rest[i])]
    BY <1>11 DEF FillReasoning
  <2>2. \A k \in Expected : Clean(rest, k, items[k].id) BY <2>1 DEF AnswerInv
  <2>3. \A k \in Expected : Clean(kept', k, items[k].id) BY <1>0, <2>1, <2>2, BackfillClean
  <2>4. Expected' = Expected BY <2>1 DEF Expected, Type, OrdinaryAnswer
  <2>. QED BY <2>1, <2>3, <2>4 DEF AnswerInv
<1>12. CASE UNCHANGED vars
  <2>1. /\ items' = items /\ pending' = pending /\ kept' = kept /\ rest' = rest /\ ids' = ids /\ owed' = owed
        /\ pc' = pc
    BY <1>12 DEF vars
  <2>2. Expected' = Expected /\ (RunInv' <=> RunInv) /\ \A k, id : (Checked(k, id)' <=> Checked(k, id))
    BY <2>1 DEF Expected, Type, OrdinaryAnswer, RunInv, Opened, Checked
  <2>3. \A k, id : Ensured(k, id)' <=> Ensured(k, id) BY <2>1 DEF Ensured
  <2>. QED BY <2>1, <2>2, <2>3 DEF AnswerInv
<1>. QED BY <1>1, <1>2, <1>3, <1>4, <1>5, <1>6, <1>7, <1>8, <1>9, <1>10, <1>11, <1>12 DEF Next

--------------------------------------------------------------------------------
(* The conversation arrives *)

\* A message only says what it bears.
LEMMA SaysBears ==
  ASSUME TypeOK, NEW n \in DOMAIN items, Type(n) # "function_call_output", NEW m, SaysItem(m, n)
  PROVE  Bears(m, n)
<1>1. items[n] \in Items BY DEF TypeOK
<1>. QED BY <1>1, ItemCases DEF SaysItem, Type, Bears

LEMMA KeptInOrder ==
  ASSUME OrderInv, TypeOK, NEW n \in Nat \ {0}, NEW o \in Nat \ {0}, n <= o,
         NEW i \in DOMAIN kept, NEW j \in DOMAIN kept, Bears(kept[i], n), Bears(kept[j], o)
  PROVE  i <= j
<1>1. DOMAIN kept = 1..Len(kept) /\ Len(kept) \in Nat BY DEF TypeOK
<1>2. CASE j < i
  <2>1. Before(kept[j], kept[i]) BY <1>2 DEF OrderInv, InOrder
  <2>. QED BY <2>1 DEF Before
<1>. QED BY <1>1, <1>2

LEMMA SaidOnce == TypeOK /\ Clear /\ OrderInv /\ SaidInv => ConversationKept
<1>. SUFFICES ASSUME TypeOK, Clear, OrderInv, SaidInv, Sent PROVE ConversationKept
  BY DEF ConversationKept
<1>. DEFINE Said == {n \in DOMAIN items : Type(n) # "function_call_output"
                                     /\ items[n] # ReasoningItem(TRUE)}
            Places(n) == {i \in DOMAIN kept : SaysItem(kept[i], n)}
<1>1. DOMAIN items \subseteq Nat \ {0} /\ There = Elements(kept) BY ListFacts DEF TypeOK, There, Clear, Sent
<1>1a. DOMAIN kept = 1..Len(kept) /\ Len(kept) \in Nat BY DEF TypeOK
<1>2. ASSUME NEW n \in Said, NEW o \in Said, n <= o, NEW i \in Places(n), NEW j \in Places(o)
      PROVE  i <= j
  <2>1. Bears(kept[i], n) /\ Bears(kept[j], o) BY SaysBears
  <2>2. n \in Nat \ {0} /\ o \in Nat \ {0} /\ i \in DOMAIN kept /\ j \in DOMAIN kept BY <1>1
  <2>. QED BY <1>2, <2>1, <2>2, KeptInOrder
<1>3. ASSUME NEW n \in Said
      PROVE  \E i \in DOMAIN kept : Places(n) = {i}
  <2>1. Voiced(items[n]) BY DEF Voiced, Type
  <2>2. PICK m \in There : Tells(m, items[n], n) BY <2>1 DEF SaidInv, Sent
  <2>3. PICK i \in DOMAIN kept : m = kept[i] BY <1>1 DEF Elements
  <2>4. i \in Places(n) BY <2>2, <2>3, TellsIsSays
  <2>5. n \in Nat BY <1>1
  <2>6. \A j \in Places(n) : j = i
    <3>. TAKE j \in Places(n)
    <3>1. n <= n /\ j \in DOMAIN kept /\ i \in DOMAIN kept BY <2>5
    <3>2. j <= i BY <1>2, <2>4, <3>1
    <3>3. i <= j BY <1>2, <2>4, <3>1
    <3>. QED BY <1>1a, <3>1, <3>2, <3>3
  <2>. QED BY <2>3, <2>4, <2>6
<1>4. \A n \in Said : /\ \E i \in DOMAIN kept : Places(n) = {i}
                      /\ \A o \in Said : n < o =>
                           \A i \in Places(n), j \in Places(o) : i <= j
  <2>0. Said \subseteq DOMAIN items OBVIOUS
  <2>. HIDE DEF Said, Places
  <2>1. \A n, o \in Said : n \in Nat /\ o \in Nat BY <1>1, <2>0
  <2>2. \A n, o \in Said : n < o => n <= o BY <2>1
  <2>3. \A n, o \in Said : n < o => \A i \in Places(n), j \in Places(o) : i <= j BY <1>2, <2>2
  <2>. QED BY <1>3, <2>3
<1>. QED BY <1>4 DEF ConversationKept

LEMMA AnswersArrive == TypeOK /\ OrderInv /\ AnswerInv => AnswersKept
<1>. SUFFICES ASSUME TypeOK, OrderInv, AnswerInv, Sent, NEW k \in DOMAIN items,
                     Type(k) = "function_call_output", OrdinaryAnswer(k)
              PROVE  \E a, t \in DOMAIN kept :
                       /\ Behind(kept, a, t) /\ kept[t].content = {k}
                       /\ kept[t].answers \subseteq IdsOf(kept[a].calls)
                       /\ \A u \in DOMAIN kept \ {t} :
                            kept[u].content # {k} /\
                            (Behind(kept, a, u) /\ kept[u].answers = kept[t].answers
                               => kept[u].content # {MadeUp})
  BY DEF AnswersKept
<1>1. k \in Expected /\ k \in Nat \ {0} BY DEF Expected, TypeOK
<1>2. DOMAIN kept = 1..Len(kept) /\ Len(kept) \in Nat BY DEF TypeOK
<1>. PICK id : id = items[k].id OBVIOUS
<1>3. PICK a, t \in DOMAIN kept : Pair(kept, a, t, k, id) /\ Honest(kept, a, id)
  BY <1>1 DEF AnswerInv, Sent, Clean
<1>4. /\ Behind(kept, a, t) /\ id \in IdsOf(kept[a].calls)
      /\ kept[t].content = {k} /\ kept[t].answers = {id}
  BY <1>3 DEF Pair, HasCall, IsAnswer
<1>5. \A u \in DOMAIN kept : kept[u].content = {k} => u = t
  <2>. SUFFICES ASSUME NEW u \in DOMAIN kept, kept[u].content = {k} PROVE u = t OBVIOUS
  <2>1. Bears(kept[u], k) /\ Bears(kept[t], k) BY <1>4 DEF Bears
  <2>2. k <= k BY <1>1
  <2>3. u <= t /\ t <= u BY <1>1, <2>1, <2>2, KeptInOrder
  <2>. QED BY <1>2, <2>3
<1>6. \A u \in DOMAIN kept : Behind(kept, a, u) /\ kept[u].answers = kept[t].answers
                               => kept[u].content # {MadeUp}
  BY <1>3, <1>4 DEF Honest
<1>7. kept[t].answers \subseteq IdsOf(kept[a].calls) BY <1>4
<1>8. \A u \in DOMAIN kept \ {t} :
        kept[u].content # {k} /\
        (Behind(kept, a, u) /\ kept[u].answers = kept[t].answers => kept[u].content # {MadeUp})
  BY <1>5, <1>6
<1>. QED BY <1>4, <1>7, <1>8

LEMMA TurnsArrive == TypeOK /\ Clear /\ TurnInv => TurnIsOneMessage
<1>. SUFFICES ASSUME TypeOK, Clear, TurnInv, Sent, NEW b \in DOMAIN items, NEW e \in DOMAIN items,
                     b <= e, Turn(b, e), AtMostOne(Positions(b, e, "message")),
                     AtMostOne(Positions(b, e, "reasoning"))
              PROVE  \E i \in DOMAIN kept : IsTurn(kept[i], b, e)
  BY DEF TurnIsOneMessage, IsTurn
<1>1. There = Elements(kept) BY ListFacts DEF There, Clear, Sent
<1>2. PICK m \in There : IsTurn(m, b, e) BY DEF TurnInv, Simple, Sent
<1>. QED BY <1>1, <1>2 DEF Elements

\* What was said and what was answered reaches the upstream once, in order, each
\* turn in one message (reqToChat.ts, inputItemsToMessages and the passes).
THEOREM ConversationArrives == Spec => []ConversationIntact
<1>. DEFINE Inv == TypeOK /\ Clear /\ PairInv /\ OrderInv /\ SaidInv /\ TurnInv /\ AnswerInv
<1>1. Init => Inv
  <2>. SUFFICES ASSUME Init PROVE Inv OBVIOUS
  <2>1. TypeOK /\ Clear /\ PairInv
    <3>1. TypeOK BY InitTypes
    <3>2. Clear BY DEF Init, Clear
    <3>3. PairInv BY DEF Init, PairInv
    <3>. QED BY <3>1, <3>2, <3>3
  <2>2. /\ items = <<>> /\ pending = Nothing /\ kept = <<>> /\ rest = <<>> /\ pc = "items"
        /\ DOMAIN items = {} /\ DOMAIN kept = {} /\ DOMAIN rest = {} /\ Len(items) = 0
    BY DEF Init
  <2>3. Dated(Turning, Len(items)) BY <2>2, BearsNothing DEF Turning, Dated
  <2>4. OrderInv BY <2>2, <2>3 DEF OrderInv, InOrder
  <2>5. SaidInv BY <2>2 DEF SaidInv
  <2>6. Pends(1, 0)
    <3>1. \A type : Positions(1, 0, type) = {} BY DEF Positions
    <3>2. pending.text = {} /\ pending.reasoning = {} /\ pending.calls = <<>> BY <2>2 DEF Nothing
    <3>3. {pending.calls[k].from : k \in DOMAIN pending.calls} = {} BY <3>2
    <3>. QED BY <3>1, <3>2, <3>3 DEF Pends
  <2>7. TurnInv
    <3>1. \A b \in 1..Len(items) + 1 : b = 1 BY <2>2
    <3>. QED BY <2>2, <2>6, <3>1 DEF TurnInv
  <2>8. AnswerInv BY <2>2, NoneOfNothing DEF AnswerInv, RunInv, Expected
  <2>. QED BY <2>1, <2>4, <2>5, <2>7, <2>8
<1>2. Inv /\ [Next]_vars => Inv'
  BY NextTypes, ClearKept, NextPairs, NextOrder, NextSaid, NextTurn, NextAnswers
<1>3. Inv => ConversationIntact
  BY SaidOnce, AnswersArrive, TurnsArrive DEF ConversationIntact, WholeConversation
<1>. HIDE DEF Inv
<1>. QED BY <1>1, <1>2, <1>3, PTL DEF Spec
================================================================================
