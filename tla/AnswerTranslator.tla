--------------------------- MODULE AnswerTranslator ---------------------------
(***************************************************************************)
(* The translator of whole answers, src/src/translate/respToResponses.ts,  *)
(* beside the stream translator: what a client gets when it does not       *)
(* stream.  The whole answer is the one an upstream would give that says   *)
(* at once what it streamed in the chunks taken in so far.                 *)
(*                                                                         *)
(* Both translators are written by hand; a client may use either from one  *)
(* request to the next, and sends what it got back with the next one.      *)
(***************************************************************************)
EXTENDS StreamToSse

LOCAL INSTANCE SequencesExt

Numbered == [n \in DOMAIN fed |-> n]

\* The deltas of tool calls, in their order, with the chunk they came in.
AllDeltas ==
  FlattenSeq([n \in DOMAIN fed |-> [k \in DOMAIN fed[n].tools |-> [delta |-> fed[n].tools[k], piece |-> n]]])

\* The call an upstream puts together from the deltas of one index.
Assembled(i) ==
  LET of   == SelectSeq(AllDeltas, LAMBDA d : d.delta.index = i)
      args == SelectSeq(of, LAMBDA d : d.delta.args) IN
  [args |-> [k \in DOMAIN args |-> args[k].piece],
   parses |-> args = <<>> \/ args[Len(args)].delta.parses,
   named |-> \E k \in DOMAIN of : of[k].delta.named]

\* The upstream's message, its calls in the order of their indices.
Whole ==
  [reasoning_content |-> SelectSeq(Numbered, LAMBDA n : fed[n].reasoning),
   content     |-> SelectSeq(Numbered, LAMBDA n : fed[n].content),
   annotations |-> Len(SelectSeq(Numbered, LAMBDA n : fed[n].note)),
   tool_calls  |-> LET indices == SetToSortSeq({AllDeltas[k].delta.index : k \in DOMAIN AllDeltas}, <) IN
                   [k \in DOMAIN indices |-> Assembled(indices[k])]]

OutputItem(type, body, notes, shown) == [type |-> type, body |-> body, notes |-> notes, shown |-> shown]

\* Seeded fault: the arguments are passed on as they are.
RespToResponses_Verbatim(message, exposeReasoning) ==
  (IF message.reasoning_content = <<>> THEN <<>>
   ELSE <<OutputItem("reasoning", message.reasoning_content, 0, exposeReasoning)>>)
  \o (IF message.content = <<>> THEN <<>>
      ELSE <<OutputItem("message", message.content, message.annotations, TRUE)>>)
  \o [k \in DOMAIN message.tool_calls |->
        OutputItem("function_call", message.tool_calls[k].args, 0, message.tool_calls[k].named)]

\* Reasoning that is hidden still goes back to Codex, in encrypted_content.
\* Without content there is no item to carry annotations.
RespToResponses(message, exposeReasoning) ==
  (IF message.reasoning_content = <<>> THEN <<>>
   ELSE <<OutputItem("reasoning", message.reasoning_content, 0, exposeReasoning)>>)
  \o (IF message.content = <<>> THEN <<>>
      ELSE <<OutputItem("message", message.content, message.annotations, TRUE)>>)
  \o [k \in DOMAIN message.tool_calls |->
        OutputItem("function_call", SalvageToolCallArguments(message.tool_calls[k]), 0,
                   message.tool_calls[k].named)]

--------------------------------------------------------------------------------
\* An item of the stream, as the client knows it at its end.  What a splitter
\* still held at the end is no piece of a chunk.
Streamed(item) ==
  LET added == CHOOSE e \in Events("item.added") : e.item = item
      done  == CHOOSE e \in Events("item.done") : e.item = item
      type  == IF item \in ToolItems THEN "function_call"
               ELSE IF added.extra = 1 THEN "message" ELSE "reasoning" IN
  OutputItem(type, SelectSeq(done.body, LAMBDA n : n <= Len(fed)),
             IF type = "message" THEN done.extra ELSE 0,
             CASE type = "message" -> TRUE
               [] type = "reasoning" -> DeltasOf(item) # {}
               [] type = "function_call" -> done.extra = 1)

OfType(output, type) == SelectSeq(output, LAMBDA o : o.type = type)
Said(output, type) == FlattenSeq([k \in DOMAIN OfType(output, type) |-> OfType(output, type)[k].body])

\* Streamed or not, a client that gets its answer gets the same one: the same
\* text and reasoning, in however many items, the same calls with the same
\* arguments in the same order, the annotations if there is a text they
\* belong to, and reasoning on the screen exactly when it is to be shown.
AnswersAgree ==
  \A t \in Events("completed") :
    LET streamed == [k \in DOMAIN t.body |-> Streamed(t.body[k])]
        whole    == RespToResponses(Whole, st.expose)
        notes(output) == FoldSeq(LAMBDA o, n : o.notes + n, 0, output) IN
    /\ \A type \in {"reasoning", "message"} : Said(streamed, type) = Said(whole, type)
    /\ OfType(streamed, "function_call") = OfType(whole, "function_call")
    /\ Whole.content # <<>> => notes(streamed) = notes(whole)
    /\ \A k \in DOMAIN whole : whole[k].type = "reasoning" =>
         \A n \in DOMAIN streamed :
           streamed[n].type = "reasoning" /\ streamed[n].body # <<>> => streamed[n].shown = whole[k].shown
================================================================================
