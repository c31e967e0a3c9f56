--------------------------- MODULE RequestTranslator ---------------------------
(***************************************************************************)
(* The message part of src/src/translate/reqToChat.ts: how the items of a  *)
(* Responses request, the client's whole history of the session, become    *)
(* the messages of a Chat Completions request.                             *)
(*                                                                         *)
(* inputItemsToMessages assembles the items of one agent turn into one     *)
(* assistant message; two passes then repair the pairing of tool calls and *)
(* tool messages, and reqToChat fills in missing reasoning.  Each pass     *)
(* walks the array with an index i and splices at i: the model keeps the   *)
(* array as two parts, kept before i and rest from i on.                   *)
(*                                                                         *)
(* A piece of text is the position of the item it came from; 0 is a text   *)
(* the translator makes up.  A value that may be null is a set of at most  *)
(* one element.  Items of any other type leave every variable unchanged.   *)
(***************************************************************************)
EXTENDS Naturals, Sequences

CONSTANTS
  CallIds,    \* call ids of the history
  MaxItems    \* bound: items of a request

ASSUME RequestAssumption == MaxItems \in Nat

VARIABLES
  items,      \* history: the items read so far, in the order of the request
  pending,    \* the AssemblyState
  kept,       \* the messages the current pass has dealt with
  rest,       \* the messages the current pass has not reached
  ids,        \* validIds of removeOrphanToolMessages, seen of the next pass
  owed,       \* calls whose output ensureToolCallsHaveOutputs still looks for
  pc          \* the pass

vars == <<items, pending, kept, rest, ids, owed, pc>>

MadeUp == 0   \* "", the text of a placeholder

\* What the client may send.  arguments is the text of a call: "torn" is a
\* missing or empty string or one that is no JSON.  empty: a reasoning item
\* with neither encrypted_content nor a summary.
MessageItem(role)    == [type |-> "message", role |-> role]
ReasoningItem(empty) == [type |-> "reasoning", empty |-> empty]
CallItem(id, args)   == [type |-> "function_call", id |-> id, arguments |-> args]
OutputItem(id)       == [type |-> "function_call_output", id |-> id]

Items == {MessageItem(r) : r \in {"user", "assistant"}}
         \cup {ReasoningItem(e) : e \in BOOLEAN}
         \cup {CallItem(c, a) : c \in CallIds, a \in {"whole", "torn"}}
         \cup {OutputItem(c) : c \in CallIds}

Nothing == [reasoning |-> {}, calls |-> <<>>, text |-> {}]

\* A chat message; answers is its tool_call_id.
Message(role, content, calls, reasoning, answers) ==
  [role |-> role, content |-> content, calls |-> calls,
   reasoning |-> reasoning, answers |-> answers]
UserMessage(n)     == Message("user", {n}, <<>>, {}, {})
ToolMessage(id, n) == Message("tool", {n}, <<>>, {}, {id})

Elements(s) == {s[k] : k \in DOMAIN s}

IdsOf(calls) == {calls[k].id : k \in DOMAIN calls}

--------------------------------------------------------------------------------
(* inputItemsToMessages *)

\* Issue #29: with tool calls and no text the content is left out, without
\* either it is the empty string.
AssistantMessage(p) ==
  Message("assistant", IF p.text = {} /\ p.calls = <<>> THEN {MadeUp} ELSE p.text,
          p.calls, p.reasoning, {})

Flush(messages, p) ==
  IF p = Nothing THEN messages ELSE Append(messages, AssistantMessage(p))

\* Arguments a strict upstream could not parse are replaced by "{}".
Sanitized(args) == IF args = "torn" THEN "{}" ELSE args

\* The position the next item will have.
Here == Len(items) + 1

Read(item) ==
  /\ pc = "items"
  /\ Len(items) < MaxItems
  /\ items' = Append(items, item)
  /\ UNCHANGED <<rest, ids, owed, pc>>

\* A message of a user, and of a system or developer prompt.
ReadUserMessage ==
  /\ Read(MessageItem("user"))
  /\ kept' = Append(Flush(kept, pending), UserMessage(Here))
  /\ pending' = Nothing

\* Assistant text waits for the calls of its turn; a text that already waits
\* is flushed first.
ReadAssistantMessage ==
  /\ Read(MessageItem("assistant"))
  /\ IF pending.text # {}
     THEN /\ kept' = Flush(kept, pending)
          /\ pending' = [Nothing EXCEPT !.text = {Here}]
     ELSE /\ pending' = [pending EXCEPT !.text = {Here}]
          /\ UNCHANGED kept

Assembling(p) == p.calls # <<>> \/ p.text # {}

\* Reasoning joins a turn that is being assembled, wherever it lands in it.
ReadReasoning ==
  \E empty \in BOOLEAN :
    LET text == IF empty THEN <<>> ELSE <<Here>>
    IN /\ Read(ReasoningItem(empty))
       /\ IF Assembling(pending)
          THEN /\ pending' = [pending EXCEPT !.reasoning =
                                IF @ = {} THEN {text} ELSE {r \o text : r \in @}]
               /\ UNCHANGED kept
          ELSE /\ kept' = Flush(kept, pending)
               /\ pending' = [Nothing EXCEPT !.reasoning = {text}]

ReadCall ==
  \E id \in CallIds, args \in {"whole", "torn"} :
    /\ Read(CallItem(id, args))
    /\ pending' = [pending EXCEPT !.calls =
                     Append(@, [id |-> id, from |-> Here, arguments |-> Sanitized(args)])]
    /\ UNCHANGED kept

ReadOutput ==
  \E id \in CallIds :
    /\ Read(OutputItem(id))
    /\ kept' = Append(Flush(kept, pending), ToolMessage(id, Here))
    /\ pending' = Nothing

EndOfItems ==
  /\ pc = "items"
  /\ pc' = "orphans"
  /\ rest' = Flush(kept, pending)
  /\ kept' = <<>>
  /\ pending' = Nothing
  /\ UNCHANGED <<items, ids, owed>>

--------------------------------------------------------------------------------
(* removeOrphanToolMessages, ensureToolCallsHaveOutputs and the last loop   *)
(* of reqToChat                                                             *)

NextPass(pass) ==
  /\ pc' = pass
  /\ rest' = kept
  /\ kept' = <<>>
  /\ ids' = {}

\* A tool message stays only behind the assistant message that made its call,
\* with nothing but tool messages in between.
CheckMessage_FirstAnswer ==
  /\ pc = "orphans" /\ rest # <<>>
  /\ LET m == Head(rest)
     IN /\ ids' = IF m.role = "assistant" THEN IdsOf(m.calls) ELSE {}
        /\ kept' = IF m.role = "tool" /\ m.answers \cap ids = {}
                   THEN kept ELSE Append(kept, m)
  /\ rest' = Tail(rest)
  /\ UNCHANGED <<items, pending, owed, pc>>

CheckMessage ==
  /\ pc = "orphans" /\ rest # <<>>
  /\ LET m == Head(rest)
     IN /\ ids' = CASE m.role = "assistant" -> IdsOf(m.calls)
                       [] m.role = "tool"      -> ids
                       [] OTHER                -> {}
        /\ kept' = IF m.role = "tool" /\ m.answers \cap ids = {}
                   THEN kept ELSE Append(kept, m)
  /\ rest' = Tail(rest)
  /\ UNCHANGED <<items, pending, owed, pc>>

OrphansRemoved ==
  /\ pc = "orphans" /\ rest = <<>>
  /\ NextPass("outputs")
  /\ UNCHANGED <<items, pending, owed>>

NextIsTool == rest # <<>> /\ Head(rest).role = "tool"

\* The calls of an assistant message are owed an output.
PassMessage ==
  /\ pc = "outputs" /\ owed = <<>> /\ rest # <<>>
  /\ kept' = Append(kept, Head(rest))
  /\ rest' = Tail(rest)
  /\ owed' = Head(rest).calls
  /\ ids' = {}
  /\ UNCHANGED <<items, pending, pc>>

\* The tool messages right behind it are the outputs it has got.
PassTool ==
  /\ pc = "outputs" /\ owed # <<>> /\ NextIsTool
  /\ kept' = Append(kept, Head(rest))
  /\ rest' = Tail(rest)
  /\ ids' = ids \cup Head(rest).answers
  /\ UNCHANGED <<items, pending, owed, pc>>

FillOutput_OnlyIfNone ==
  /\ pc = "outputs" /\ owed # <<>> /\ ~ NextIsTool
  /\ kept' = IF ids # {} THEN kept ELSE Append(kept, ToolMessage(Head(owed).id, MadeUp))
  /\ owed' = Tail(owed)
  /\ UNCHANGED <<items, pending, rest, ids, pc>>

\* Behind them every call without an output gets a made-up one.
FillOutput ==
  /\ pc = "outputs" /\ owed # <<>> /\ ~ NextIsTool
  /\ kept' = IF Head(owed).id \in ids THEN kept
             ELSE Append(kept, ToolMessage(Head(owed).id, MadeUp))
  /\ owed' = Tail(owed)
  /\ UNCHANGED <<items, pending, rest, ids, pc>>

OutputsEnsured ==
  /\ pc = "outputs" /\ owed = <<>> /\ rest = <<>>
  /\ NextPass("reasoning")
  /\ UNCHANGED <<items, pending, owed>>

\* With thinking on, an assistant message without reasoning gets a made-up one.
Backfilled(m) ==
  IF m.role = "assistant" /\ m.reasoning \subseteq {<<>>}
  THEN [m EXCEPT !.reasoning = {<<MadeUp>>}] ELSE m

FillReasoning ==
  /\ pc = "reasoning"
  /\ \E disableThinking \in BOOLEAN :
       kept' = IF disableThinking THEN rest ELSE [i \in DOMAIN rest |-> Backfilled(rest[i])]
  /\ rest' = <<>>
  /\ pc' = "sent"
  /\ UNCHANGED <<items, pending, ids, owed>>

Init ==
  /\ items = <<>> /\ pending = Nothing /\ kept = <<>> /\ rest = <<>>
  /\ ids = {} /\ owed = <<>> /\ pc = "items"

Next ==
  \/ ReadUserMessage \/ ReadAssistantMessage \/ ReadReasoning
  \/ ReadCall \/ ReadOutput \/ EndOfItems
  \/ CheckMessage \/ OrphansRemoved
  \/ PassMessage \/ PassTool \/ FillOutput \/ OutputsEnsured
  \/ FillReasoning

Spec == Init /\ [][Next]_vars

--------------------------------------------------------------------------------
(* Properties *)

Sent == pc = "sent"

Optional(v, S) == v \subseteq S /\ \A x, y \in v : x = y

Calls == [id : CallIds, from : Nat \ {0}, arguments : {"whole", "{}"}]

\* Only an assistant message makes calls, only a tool message answers one.
Messages ==
  {m \in [role : {"user", "assistant", "tool"}, content : SUBSET Nat,
          calls : Seq(Calls), reasoning : SUBSET Seq(Nat), answers : SUBSET CallIds] :
     /\ Optional(m.content, Nat) /\ Optional(m.reasoning, Seq(Nat))
     /\ Optional(m.answers, CallIds)
     /\ m.role = "tool" <=> m.answers # {}
     /\ m.calls # <<>> => m.role = "assistant"}

AssemblyStates ==
  {p \in [reasoning : SUBSET Seq(Nat), calls : Seq(Calls), text : SUBSET Nat] :
     Optional(p.reasoning, Seq(Nat)) /\ Optional(p.text, Nat)}

\* Types; a value that may be null has at most one element.
TypeOK ==
  /\ items \in Seq(Items)
  /\ pending \in AssemblyStates
  /\ kept \in Seq(Messages) /\ rest \in Seq(Messages)
  /\ ids \subseteq CallIds
  /\ owed \in Seq(Calls)
  /\ pc \in {"items", "orphans", "outputs", "reasoning", "sent"}

\* An assistant message carries content or tool calls: strict upstreams refuse
\* one with neither (issue #29), whatever is missing in the client's history.
AssistantSaysSomething ==
  \A m \in Elements(kept) \cup Elements(rest) :
    m.role = "assistant" => m.content # {} \/ m.calls # <<>>

\* Message t is in the run of tool messages right behind message a.
Behind(s, a, t) == a < t /\ \A k \in a + 1..t : s[k].role = "tool"

\* In the request that is sent, an assistant message with tool calls is followed
\* at once by a tool message for each of them, whatever outputs the client lost.
CallsAnswered ==
  Sent => \A a \in DOMAIN kept : \A id \in IdsOf(kept[a].calls) :
            \E t \in DOMAIN kept : Behind(kept, a, t) /\ kept[t].answers = {id}

\* Every tool message that is sent answers a call of the assistant message in
\* front of its run, however the client's history was cut or replayed.
AnswersHaveCalls ==
  Sent => \A t \in DOMAIN kept : kept[t].role = "tool" =>
            \E a \in DOMAIN kept :
              Behind(kept, a, t) /\ kept[t].answers \subseteq IdsOf(kept[a].calls)

\* Both together: calls and answers are paired one to one, which is what strict
\* upstreams check.
CallsPaired == CallsAnswered /\ AnswersHaveCalls

\* What strict upstreams refuse a request for, whatever its history looked like:
\* neither an empty turn nor an unpaired call (reqToChat.ts, flushAssistant and
\* the two repair passes).
UpstreamAccepts == AssistantSaysSomething /\ CallsPaired

Type(n) == items[n].type

\* The output at position k answers a call in an ordinary turn: between its
\* call and itself there are only calls and reasoning, then only outputs.
OrdinaryAnswer(k) ==
  \E c \in 1..k - 1 : \E m \in c + 1..k :
    /\ items[c].type = "function_call" /\ items[c].id = items[k].id
    /\ \A n \in c + 1..m - 1 : Type(n) \in {"function_call", "reasoning"}
    /\ \A n \in m..k : Type(n) = "function_call_output"

\* The output of an ordinary turn reaches the upstream exactly once, and no
\* placeholder beside it pretends that it is missing.
AnswersKept ==
  Sent => \A k \in DOMAIN items :
    Type(k) = "function_call_output" /\ OrdinaryAnswer(k) =>
      \E a, t \in DOMAIN kept :
        /\ Behind(kept, a, t) /\ kept[t].content = {k}
        /\ kept[t].answers \subseteq IdsOf(kept[a].calls)
        /\ \A u \in DOMAIN kept \ {t} :
             kept[u].content # {k} /\
             (Behind(kept, a, u) /\ kept[u].answers = kept[t].answers
                => kept[u].content # {MadeUp})

Speaks(n) == Type(n) \in {"reasoning", "function_call"} \/ items[n] = MessageItem("assistant")

\* The items b..e are all that one agent turn said.
Turn(b, e) ==
  /\ \A n \in b..e : Speaks(n)
  /\ b > 1 => ~ Speaks(b - 1)
  /\ e < Len(items) => ~ Speaks(e + 1)

Positions(b, e, type) == {n \in b..e : Type(n) = type}
AtMostOne(S) == \A x, y \in S : x = y

\* A turn that speaks and thinks at most once is one assistant message with its
\* text, its reasoning and its calls in order, in whatever order the client
\* sent them; DeepSeek refuses a call that lost its turn's reasoning.
TurnIsOneMessage ==
  Sent => \A b, e \in DOMAIN items :
    b <= e /\ Turn(b, e) /\ AtMostOne(Positions(b, e, "message"))
           /\ AtMostOne(Positions(b, e, "reasoning")) =>
      \E i \in DOMAIN kept :
        /\ kept[i].role = "assistant"
        /\ kept[i].content \ {MadeUp} = Positions(b, e, "message")
        /\ \A n \in Positions(b, e, "reasoning") :
             items[n].empty \/ kept[i].reasoning = {<<n>>}
        /\ {kept[i].calls[k].from : k \in DOMAIN kept[i].calls} =
             Positions(b, e, "function_call")
        /\ \A k, l \in DOMAIN kept[i].calls :
             k < l => kept[i].calls[k].from < kept[i].calls[l].from

\* Where the item at position n may be found in message m.
SaysItem(m, n) ==
  CASE Type(n) = "message"       -> m.content = {n} /\ m.role = items[n].role
    [] Type(n) = "reasoning"     -> \E r \in m.reasoning : n \in Elements(r)
    [] Type(n) = "function_call" -> \E call \in Elements(m.calls) :
                                      call.from = n /\ call.id = items[n].id

\* Nothing anybody said, thought or called is lost or said twice, and it is sent
\* in the order it was said.
ConversationKept ==
  Sent =>
    LET Said == {n \in DOMAIN items : Type(n) # "function_call_output"
                                     /\ items[n] # ReasoningItem(TRUE)}
        Places(n) == {i \in DOMAIN kept : SaysItem(kept[i], n)}
    IN \A n \in Said : /\ \E i \in DOMAIN kept : Places(n) = {i}
                      /\ \A o \in Said : n < o =>
                           \A i \in Places(n), j \in Places(o) : i <= j

\* Both together: what was said and what was answered reach the upstream once.
WholeConversation == ConversationKept /\ AnswersKept

\* With the turns: the conversation that is sent is the one that was held.
ConversationIntact == TurnIsOneMessage /\ WholeConversation

================================================================================
