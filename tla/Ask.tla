---------------------------------- MODULE Ask ----------------------------------
(***************************************************************************)
(* One question asked of the documentation site's assistant, from the      *)
(* click in the drawer (docweb/src/components/AskDrawer.tsx) through the   *)
(* agent loop of docbackend (internal/service/ask.go, internal/biz/ask.go, *)
(* internal/data/upstream.go) to the row kept in docbackend_ask_logs.      *)
(*                                                                         *)
(* Three parties run at their own pace: the drawer, which shows frames as  *)
(* they arrive and may stop at any moment; the handler, which alternates   *)
(* model rounds and searches; and the model, which may stream, call tools, *)
(* break off or stall.  The handler's context dies when the client hangs   *)
(* up or when the HTTP server's deadline passes, whichever comes first.    *)
(*                                                                         *)
(* Text is counted in pieces, a search returns a set of slugs, and the     *)
(* per-minute bucket answers as it likes.  A question's text, its images   *)
(* and the prompt are not told apart, except that a question may be blank  *)
(* (images alone) or unreadable (a body over the cap).                     *)
(***************************************************************************)
EXTENDS Integers, Sequences, FiniteSets, SequencesExt

CONSTANTS
  MaxRounds,   \* maxAgentIterations
  MaxCalls,    \* tool-call slots the model may use in one round
  MaxPieces,   \* bound: pieces of answer, and of reasoning, in one round
  Ids,         \* ids the model gives its tool calls
  Slugs,       \* documents a search may return
  None

ASSUME AskAssumption ==
  /\ MaxRounds \in Nat \ {0}
  /\ MaxCalls \in Nat
  /\ MaxPieces \in Nat
  /\ None \notin Ids

VARIABLES
  stage,    \* where the handler is
  round,    \* iterations of the agent loop begun
  ctx,      \* the request's context: "live", "cancelled" or "expired"
  turn,     \* what this round's stream has brought
  talk,     \* assistant and tool messages the next call will send
  todo,     \* tool calls of this round not executed yet
  pulled,   \* every slug the searches returned
  ended,    \* how Stream came back: "no", "answered", "cancelled", "failed", "refused"
  tally,    \* wrappedEvent's accumulators: pieces and calls forwarded so far
  wire,     \* frames written to the response and not yet handled by the drawer
  row,      \* the AskLog row, or None
  drawer,   \* "ready", "reading" or "finished"
  how,      \* history: what made the drawer's send return
  bubble    \* the assistant message the drawer shows

server == <<stage, round, ctx, turn, talk, todo, pulled, tally, ended, row>>
client == <<drawer, how, bubble>>
vars == <<server, wire, client>>

Questions == {"plain", "blank", "oversized"}
NoTurn == [thinking |-> 0, answer |-> 0, calls |-> <<>>]
NoBubble == [answer |-> 0, thinking |-> 0, docs |-> {}, steps |-> <<>>, errored |-> FALSE]

Frame(kind, id, docs) == [kind |-> kind, id |-> id, docs |-> docs]
Word(kind) == Frame(kind, None, {})
Assistant(said, calls) == [role |-> "assistant", reasoning |-> said, calls |-> calls]
ToolAnswer(id) == [role |-> "tool", reasoning |-> "none", calls |-> <<id>>]

Init ==
  /\ stage = "idle" /\ round = 0 /\ ctx = "live"
  /\ turn = NoTurn /\ talk = <<>> /\ todo = <<>> /\ pulled = {}
  /\ tally = [answer |-> 0, thinking |-> 0, calls |-> 0]
  /\ ended = "no" /\ wire = <<>> /\ row = None
  /\ drawer = "ready" /\ how = "no" /\ bubble = NoBubble

------------------------------------------------------------------------------
(* The handler.                                                            *)

\* emit: one SSE frame per event, flushed at once.  The callback never fails;
\* what is written after the client has gone is lost.
Emit(frames) == wire' = IF drawer = "finished" THEN <<>> ELSE wire \o frames

\* HandleAsk and the first lines of Stream: a body that cannot be read is
\* answered by a status, an empty bucket and a blank question by an error
\* frame; none of the three leaves a row.
Admit(question, allowed) ==
  /\ stage = "asked"
  /\ \/ question = "oversized" /\ stage' = "over" /\ ended' = "refused"
        /\ Emit(<<Word("status")>>) /\ round' = round
     \/ question # "oversized" /\ (~allowed \/ question = "blank")
        /\ stage' = "reply" /\ ended' = "refused" /\ UNCHANGED <<wire, round>>
     \/ question = "plain" /\ allowed
        /\ stage' = "call" /\ round' = 1 /\ UNCHANGED <<ended, wire>>
  /\ UNCHANGED <<ctx, turn, talk, todo, pulled, tally, row, client>>

\* Stream returns; the deferred save comes first.
Return(outcome) == stage' = "saving" /\ ended' = outcome

\* StreamChat before the headers: a refused or failed call ends the loop.
CallFails ==
  /\ stage = "call" /\ ctx = "live"
  /\ Return("failed")
  /\ UNCHANGED <<round, ctx, turn, talk, todo, pulled, tally, wire, row, client>>

\* Here the cancelled context is told from the expired one: http.Do wraps
\* the context's own error.
CallAbandoned ==
  /\ stage = "call" /\ ctx # "live"
  /\ Return(IF ctx = "cancelled" THEN "cancelled" ELSE "failed")
  /\ UNCHANGED <<round, ctx, turn, talk, todo, pulled, tally, wire, row, client>>

CallOpens ==
  /\ stage = "call"
  /\ stage' = "reading" /\ turn' = NoTurn
  /\ UNCHANGED <<round, ctx, talk, todo, pulled, tally, ended, wire, row, client>>

\* A piece of reasoning or of answer: buffered for the history and forwarded.
Piece(kind, buffer) ==
  /\ stage = "reading" /\ turn[buffer] < MaxPieces
  /\ turn' = [turn EXCEPT ![buffer] = @ + 1]
  /\ tally' = [tally EXCEPT ![buffer] = @ + 1]
  /\ Emit(<<Word(kind)>>)
  /\ UNCHANGED <<stage, round, ctx, talk, todo, pulled, ended, row, client>>

\* The first fragment of a tool call opens its slot; the later ones add
\* arguments.  Nothing is forwarded.  Slots are kept in the order of their
\* indices, whichever comes first.  A response names its calls apart; the next
\* response may use the same names again.
Fragment(i, id) ==
  /\ stage = "reading" /\ Len(turn.calls) < MaxCalls /\ i <= Len(turn.calls) + 1
  /\ \A j \in DOMAIN turn.calls : turn.calls[j] # id
  /\ turn' = [turn EXCEPT !.calls = InsertAt(@, i, id)]
  /\ UNCHANGED <<stage, round, ctx, talk, todo, pulled, tally, ended, wire, row, client>>

\* Seeded fault: the assistant turn echoes an empty reasoning.
Reasoning_NoPlaceholder(t) == IF t.thinking > 0 THEN "said" ELSE "none"

\* What the echoed assistant turn says it thought: the model's own words, or
\* mixedModeReasoningPlaceholder.
Reasoning(t) == IF t.thinking > 0 THEN "said" ELSE "placeholder"

\* [DONE] or the end of the body: no calls, and the answer is complete;
\* otherwise the assistant turn joins the history.
StreamEnds ==
  /\ stage = "reading"
  /\ IF turn.calls = <<>>
     THEN Return("answered") /\ UNCHANGED <<turn, talk, todo>>
     ELSE /\ stage' = "tools" /\ ended' = ended
          /\ talk' = Append(talk, Assistant(Reasoning(turn), turn.calls))
          /\ todo' = turn.calls
          /\ turn' = NoTurn
  /\ UNCHANGED <<round, ctx, pulled, tally, wire, row, client>>

\* The body breaks off, or the HTTP client's own timeout strikes.
StreamBreaks ==
  /\ stage = "reading" /\ ctx = "live"
  /\ Return("failed")
  /\ UNCHANGED <<round, ctx, turn, talk, todo, pulled, tally, wire, row, client>>

\* Seeded fault: the reader watches for the client's hang-up only.
StreamAbandoned_CancelOnly ==
  /\ stage = "reading" /\ ctx = "cancelled"
  /\ Return("cancelled")
  /\ UNCHANGED <<round, ctx, turn, talk, todo, pulled, tally, wire, row, client>>

\* A dead context while reading is reported as a cancel, whatever killed it.
StreamAbandoned ==
  /\ stage = "reading" /\ ctx # "live"
  /\ Return("cancelled")
  /\ UNCHANGED <<round, ctx, turn, talk, todo, pulled, tally, wire, row, client>>

\* One tool call: announce it, search, show the result and every slug so
\* far, answer it in the history.  An unknown tool or bad arguments find
\* nothing and are answered all the same.  After the last call of the last
\* round the loop gives up.
Execute(found) ==
  /\ stage = "tools"
  /\ LET id == Head(todo) IN
     /\ pulled' = pulled \cup found
     /\ Emit(<<Frame("tool_call", id, {}), Frame("tool_result", id, found),
               Frame("docs", None, pulled')>>)
     /\ tally' = [tally EXCEPT !.calls = @ + 1]
     /\ talk' = Append(talk, ToolAnswer(id))
     /\ todo' = Tail(todo)
  /\ IF todo' # <<>> THEN UNCHANGED <<stage, round, ended>>
     ELSE IF round < MaxRounds
          THEN stage' = "call" /\ round' = round + 1 /\ ended' = ended
          ELSE Return("failed") /\ round' = round
  /\ UNCHANGED <<ctx, turn, row, client>>

\* Seeded fault: the row is filled from the last round's buffers.
Save_LastRoundOnly(kept) ==
  /\ stage = "saving" /\ stage' = "reply"
  /\ row' = IF ~kept THEN None
            ELSE [answer |-> turn.answer, thinking |-> turn.thinking, slugs |-> pulled,
                  calls |-> tally.calls, errored |-> ended = "failed"]
  /\ UNCHANGED <<round, ctx, turn, talk, todo, pulled, tally, ended, wire, client>>

\* The deferred save, on a context of its own: what
\* wrappedEvent accumulated over all rounds.  The insert may fail.
Save(kept) ==
  /\ stage = "saving" /\ stage' = "reply"
  /\ row' = IF ~kept THEN None
            ELSE [answer |-> tally.answer, thinking |-> tally.thinking, slugs |-> pulled,
                  calls |-> tally.calls, errored |-> ended = "failed"]
  /\ UNCHANGED <<round, ctx, turn, talk, todo, pulled, tally, ended, wire, client>>

\* Back in HandleAsk: one last frame, unless the context is dead.
Reply ==
  /\ stage = "reply" /\ stage' = "over"
  /\ IF ctx # "live" THEN wire' = wire
     ELSE Emit(<<Word(IF ended \in {"failed", "refused"} THEN "error" ELSE "done")>>)
  /\ UNCHANGED <<round, ctx, turn, talk, todo, pulled, tally, ended, row, client>>

AtWork == stage \notin {"idle", "over"}

\* The HTTP server's deadline, and its noticing that the client is gone.
Expire ==
  /\ AtWork /\ ctx = "live" /\ ctx' = "expired"
  /\ UNCHANGED <<stage, round, turn, talk, todo, pulled, tally, ended, wire, row, client>>

HangUp ==
  /\ AtWork /\ ctx = "live" /\ how \in {"stopped", "lost"} /\ ctx' = "cancelled"
  /\ UNCHANGED <<stage, round, turn, talk, todo, pulled, tally, ended, wire, row, client>>

------------------------------------------------------------------------------
(* The drawer.                                                             *)

Send ==
  /\ drawer = "ready" /\ drawer' = "reading" /\ stage' = "asked"
  /\ UNCHANGED <<round, ctx, turn, talk, todo, pulled, tally, ended, row, wire, how, bubble>>

Finish(reason) == drawer' = "finished" /\ how' = reason

\* labelError: the message replaces whatever the bubble showed.
Labelled == [bubble EXCEPT !.answer = 0, !.errored = TRUE]

\* A result settles every step that carries its id.
Settled(steps, id) ==
  [i \in DOMAIN steps |-> IF steps[i].id = id THEN [steps[i] EXCEPT !.pending = FALSE]
                          ELSE steps[i]]

Shown(b, f) ==
  CASE f.kind = "thinking"    -> [b EXCEPT !.thinking = @ + 1]
    [] f.kind = "delta"       -> [b EXCEPT !.answer = @ + 1]
    [] f.kind = "docs"        -> [b EXCEPT !.docs = f.docs]
    [] f.kind = "tool_call"   -> [b EXCEPT !.steps = Append(@, [id |-> f.id, pending |-> TRUE])]
    [] f.kind = "tool_result" -> [b EXCEPT !.steps = Settled(@, f.id)]

\* One turn of the drawer's frame loop.
ReadFrame ==
  /\ drawer = "reading" /\ wire # <<>>
  /\ wire' = Tail(wire)
  /\ LET f == Head(wire) IN
     IF f.kind \in {"error", "status"} THEN Finish("error") /\ bubble' = Labelled
     ELSE IF f.kind = "done" THEN Finish("done") /\ bubble' = bubble
     ELSE bubble' = Shown(bubble, f) /\ UNCHANGED <<drawer, how>>
  /\ UNCHANGED server

\* The body ends without a last word: the loop simply falls through.
StreamClosed ==
  /\ drawer = "reading" /\ stage = "over" /\ wire = <<>>
  /\ Finish("closed")
  /\ UNCHANGED <<server, wire, bubble>>

\* The stop button, or clearHistory, which also empties the list.
Stop(clear) ==
  /\ drawer = "reading" /\ Finish("stopped")
  /\ bubble' = IF clear THEN NoBubble ELSE bubble
  /\ wire' = <<>>
  /\ UNCHANGED server

\* The connection breaks: fetch or the body's reader throws.  A request lost
\* on its way never reaches the handler.
Lost(arrived) ==
  /\ drawer = "reading" /\ Finish("lost") /\ bubble' = Labelled
  /\ stage' = IF stage = "asked" /\ ~arrived THEN "over" ELSE stage
  /\ wire' = <<>>
  /\ UNCHANGED <<round, ctx, turn, talk, todo, pulled, tally, ended, row>>

------------------------------------------------------------------------------
Answer == \E question \in Questions, allowed \in BOOLEAN : Admit(question, allowed)
Search == \E found \in SUBSET Slugs : Execute(found)
Keep == \E kept \in BOOLEAN : Save(kept)

Next ==
  \/ Answer \/ CallFails \/ CallAbandoned \/ CallOpens
  \/ Piece("thinking", "thinking") \/ Piece("delta", "answer")
  \/ \E i \in 1..MaxCalls, id \in Ids : Fragment(i, id)
  \/ StreamEnds \/ StreamBreaks \/ StreamAbandoned
  \/ Search \/ Keep \/ Reply \/ Expire \/ HangUp
  \/ Send \/ ReadFrame \/ StreamClosed
  \/ \E clear \in BOOLEAN : Stop(clear)
  \/ \E arrived \in BOOLEAN : Lost(arrived)

\* The handler's own code runs on; the deadline strikes; a read on a dead
\* context returns; the drawer handles what has arrived.  Nothing is asked
\* of the model, the network or the user.
Fairness ==
  /\ WF_vars(Answer) /\ WF_vars(Search) /\ WF_vars(Keep) /\ WF_vars(Reply)
  /\ WF_vars(Expire) /\ WF_vars(CallAbandoned) /\ WF_vars(StreamAbandoned)
  /\ WF_vars(ReadFrame) /\ WF_vars(StreamClosed)

Spec == Init /\ [][Next]_vars /\ Fairness

------------------------------------------------------------------------------
Message == [role : {"assistant", "tool"}, reasoning : {"none", "said", "placeholder"}, calls : Seq(Ids)]
Frames  == [kind : {"thinking", "delta", "docs", "done", "error", "status"}, id : {None}, docs : SUBSET Slugs]
             \cup [kind : {"tool_call", "tool_result"}, id : Ids, docs : SUBSET Slugs]
Step    == [id : Ids, pending : BOOLEAN]
Bubble  == [answer : Nat, thinking : Nat, docs : SUBSET Slugs, steps : Seq(Step), errored : BOOLEAN]
Tally   == [answer : Nat, thinking : Nat, calls : Nat]

\* The variables hold what the code's variables can hold.
TypeOK ==
  /\ stage \in {"idle", "asked", "call", "reading", "tools", "saving", "reply", "over"}
  /\ round \in 0..MaxRounds
  /\ ctx \in {"live", "cancelled", "expired"}
  /\ turn \in [thinking : 0..MaxPieces, answer : 0..MaxPieces, calls : Seq(Ids)]
  /\ talk \in Seq(Message)
  /\ todo \in Seq(Ids) /\ (stage = "tools" <=> todo # <<>>)
  /\ pulled \subseteq Slugs /\ tally \in Tally
  /\ ended \in {"no", "answered", "cancelled", "failed", "refused"}
  /\ wire \in Seq(Frames)
  /\ drawer \in {"ready", "reading", "finished"}
  /\ how \in {"no", "error", "done", "closed", "stopped", "lost"}
  /\ bubble \in Bubble

\* Every history sent to the model is one MiMo's thinking mode accepts
\* (biz/ask.go, mixedModeReasoningPlaceholder and the two reasons above the
\* append): each assistant turn carries reasoning and calls, and its calls
\* are answered right after it, each once and in order.
HistoryAccepted ==
  stage \in {"call", "reading"} =>
    \A m \in DOMAIN talk :
      IF talk[m].role = "assistant"
      THEN /\ talk[m].reasoning # "none"
           /\ talk[m].calls # <<>>
           /\ \A k \in DOMAIN talk[m].calls :
                m + k \in DOMAIN talk /\ talk[m + k] = ToolAnswer(talk[m].calls[k])
      ELSE \E a \in 1..(m - 1) : talk[a].role = "assistant" /\ m - a <= Len(talk[a].calls)

\* What the visitor saw and what the owner's row says agree: a finished
\* answer shows exactly the text, the reasoning, the searches and the
\* documents of a row without error, every step settled; a bubble left half
\* way shows no more than the row.
BubbleMatchesRow ==
  (stage = "over" /\ row # None) =>
    /\ bubble.answer <= row.answer /\ bubble.thinking <= row.thinking
    /\ Len(bubble.steps) <= row.calls /\ bubble.docs \subseteq row.slugs
    /\ how = "done" =>
         /\ ~row.errored /\ ~bubble.errored
         /\ bubble.answer = row.answer /\ bubble.thinking = row.thinking
         /\ Len(bubble.steps) = row.calls /\ bubble.docs = row.slugs
         /\ \A i \in DOMAIN bubble.steps : ~bubble.steps[i].pending

\* A stream that ends without "done" or "error" ended at the deadline: no
\* other failure leaves the visitor with half an answer and no word.
SilenceMeansDeadline == how = "closed" => ctx = "expired"

\* Both together: the visitor is told what happened, and so is the owner.
OutcomeIsTold == BubbleMatchesRow /\ SilenceMeansDeadline

\* What HandleAsk's comment promises: the stream ends with a done frame, or
\* with an error frame.
StreamTerminated == how # "closed"

\* A question sent is done with on both sides: the drawer leaves its loading
\* state and the handler returns, though the model may stall for ever.
QuestionEnds == (stage = "asked") ~> (stage = "over" /\ drawer = "finished")
=============================================================================
