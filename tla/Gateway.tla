-------------------------------- MODULE Gateway --------------------------------
(***************************************************************************)
(* How the proxy serves one /v1 request from its arrival to its row in     *)
(* chat_logs: the dispatcher and the three handlers of src/src/server.ts,  *)
(* the retry loop of src/src/upstream/openaiCompatClient.ts and what it    *)
(* makes of an upstream's refusal, with the client's going away and the    *)
(* keepalive timer.                                                        *)
(*                                                                         *)
(* Which provider serves the request is Routing's business, and what the   *)
(* translation makes of a stream is StreamToSse's; here a stream is some   *)
(* data followed by an end or a failure.                                   *)
(***************************************************************************)
EXTENDS Integers, Sequences, FiniteSets, SequencesExt

CONSTANTS
  Requests,
  Rewritten,    \* the requests whose model id is rewritten, unless rewriting is silent
  Replies,      \* the refusals upstreams give
  Friendly,     \* contextOverflowMode = "friendly"
  MaxRetries,   \* MIMO2CODEX_UPSTREAM_MAX_RETRIES
  MaxReads      \* bound: reads of a streamed body that yield data

\* unreachable: no connection.  overflow: a 400 that says the context is too
\* long.  field: a 400 about a broken JSON field.  hint: one the provider knows
\* better than both.  other: any other status of 400 to 499.
Transients == {"unreachable", "429", "5xx"}
Refusals   == {"overflow", "field", "hint", "401", "other"}

ASSUME GatewayAssumption ==
  /\ MaxRetries \in Nat /\ MaxReads \in Nat
  /\ Rewritten \subseteq Requests /\ Friendly \in BOOLEAN
  /\ Replies \subseteq Transients \cup Refusals

\* json, sse: answers that are translated.  pjson, pipe: Responses passed
\* through.  chat, chatjson: /v1/chat/completions.
Translated  == {"json", "sse"}
Passthrough == {"pjson", "pipe"}
Chat        == {"chat", "chatjson"}
Streaming   == {"sse", "pipe", "chat"}

VARIABLES
  req,      \* per request: the local state of its handler and of its sockets
  alive,    \* the process has not died of an unhandled rejection
  queued,   \* rows handed to setImmediate
  rows      \* chat_logs

vars == <<req, alive, queued, rows>>

\* gone: the client closed its connection.  hears: the close listener of the
\* request turns that into ac.abort().  deaf: the response was already closed
\* when the stream's own close listener was registered.  calls: the tool calls
\* among what the upstream sent.  told: the code of the client's error answer.
New == [kind |-> "none", phase |-> "new", attempt |-> 0, posts |-> 0, reads |-> 0, calls |-> 0,
        gone |-> FALSE, hears |-> FALSE, deaf |-> FALSE, tick |-> FALSE, wire |-> <<>>,
        told |-> "none", broke |-> FALSE]

Aborted(q) == q.gone /\ q.hears

\* What is written to a socket the client has closed goes nowhere.
Send(q, items) == IF q.gone THEN q ELSE [q EXCEPT !.wire = @ \o items]

Go(r, q) ==
  /\ req' = [req EXCEPT ![r] = q]
  /\ UNCHANGED <<alive, queued, rows>>

Done(q) == [q EXCEPT !.phase = "done", !.tick = FALSE]

\* recordLog is called once, at the end of the handler.
Finish(r, q, status, code, calls) ==
  /\ req' = [req EXCEPT ![r] = Done(q)]
  /\ queued' = queued \cup {[request |-> r, status |-> status, code |-> code, calls |-> calls]}
  /\ UNCHANGED <<alive, rows>>

Broken(q) == [q EXCEPT !.broke = TRUE]

\* An answer that is an error envelope; before the upstream is asked it leaves
\* no row.
Told(q, code)  == [Send(q, <<"error">>) EXCEPT !.told = code]

\* rewriteLogFields: the note a request that went well leaves in its row.
Note(r) == IF r \in Rewritten THEN "client_model_rewritten" ELSE "none"

\* tool_call_count: of a stream that is passed through nothing is counted, of a
\* chat stream what its chunks showed, if there were any.
Unknown == -1
Counted(q) ==
  CASE q.kind \in Passthrough -> Unknown
    [] q.kind = "chat" /\ q.reads = 0 -> Unknown
    [] OTHER -> q.calls

--------------------------------------------------------------------------------
(* What a refusal is called. *)

DefaultErrorCode(reply) ==
  CASE reply = "401" -> "authentication_error"
    [] reply = "429" -> "rate_limit_exceeded"
    [] reply = "5xx" -> "server_error"
    [] OTHER -> "bad_request"

EnhanceError(reply)             == IF reply = "hint" THEN {"provider_hint"} ELSE {}
DetectContextOverflow(reply)    == IF reply = "overflow" THEN {"context_length_exceeded"} ELSE {}
DetectMalformedJsonField(reply) == IF reply = "field" THEN {"malformed_request_field"} ELSE {}

\* The provider's own rule first, then the context rule unless it is switched
\* off, then the rule about broken fields.
ErrorCode(reply) ==
  CHOOSE code \in
    CASE reply = "unreachable" -> {"upstream_unreachable"}
      [] EnhanceError(reply) # {} -> EnhanceError(reply)
      [] Friendly /\ DetectContextOverflow(reply) # {} -> DetectContextOverflow(reply)
      [] DetectMalformedJsonField(reply) # {} -> DetectMalformedJsonField(reply)
      [] OTHER -> {DefaultErrorCode(reply)} : TRUE

--------------------------------------------------------------------------------
Init ==
  /\ req = [r \in Requests |-> New]
  /\ alive = TRUE
  /\ queued = {} /\ rows = {}

\* startServer: maintenance answers 503 and the guard 401; other requests reach
\* their handler, which begins with the body.
Dispatch(r) ==
  /\ req[r].phase = "new"
  /\ \/ Go(r, [New EXCEPT !.phase = "body"])
     \/ \E code \in {"maintenance_mode", "invalid_bearer"} : Go(r, Done(Told(New, code)))

\* No JSON, too large, cut off, or without a model.
BadBody(r) ==
  /\ req[r].phase = "body"
  /\ \E code \in {"invalid_json", "missing_model"} : Go(r, Done(Told(req[r], code)))

\* A request without content is a health check: a made-up answer, plain or
\* streamed, and no upstream.
Synthetic == {<<"ok", "end">>, <<"ok", "data", "end">>}

ResponsesProbe(r) ==
  /\ req[r].phase = "body"
  /\ \E items \in Synthetic : Go(r, Done(Send(req[r], items)))

ChatProbe(r) ==
  /\ req[r].phase = "body"
  /\ \E items \in Synthetic : Go(r, Done(Send(req[r], items)))

\* The body has been read and a provider chosen.  A request whose close event
\* came before the handler listened for it is never aborted.
Accept(r, kind) ==
  /\ req[r].phase = "body"
  /\ \E hears \in BOOLEAN :
       Go(r, [req[r] EXCEPT !.kind = kind, !.phase = "fetch", !.posts = 1, !.hears = hears])

AcceptResponses(r)   == \E kind \in Translated : Accept(r, kind)
AcceptPassthrough(r) == \E kind \in Passthrough : Accept(r, kind)
AcceptChat(r)        == \E kind \in Chat : Accept(r, kind)

ClientGone(r) ==
  /\ req[r].phase \notin {"new", "done"}
  /\ ~req[r].gone
  /\ Go(r, [req[r] EXCEPT !.gone = TRUE, !.tick = FALSE])

\* 429, 500, 502, 503, 504 or no connection: wait and try again ...
Transient(r) ==
  /\ req[r].phase = "fetch"
  /\ req[r].attempt < MaxRetries
  /\ Replies \cap Transients # {}
  /\ Go(r, [req[r] EXCEPT !.phase = "backoff"])

\* ... until the retries are used up; any other error status at once.
FinalReplies(q) == IF q.attempt < MaxRetries THEN Replies \ Transients ELSE Replies

\* The handlers' catch answers with the error and logs it.
Caught(r, code) == Finish(r, Broken(Told(req[r], code)), "error", code, Unknown)

Refused(r, kinds) ==
  /\ req[r].phase = "fetch" /\ req[r].kind \in kinds
  /\ \E reply \in FinalReplies(req[r]) : Caught(r, ErrorCode(reply))

RefusedJson(r)        == Refused(r, {"json"})
RefusedStream(r)      == Refused(r, {"sse"})
RefusedPassthrough(r) == Refused(r, Passthrough)
RefusedChat(r)        == Refused(r, Chat)

\* fetch and abortableSleep reject with an AbortError, which no retry follows.
AbortBeforeAnswer(r) ==
  /\ req[r].phase \in {"fetch", "backoff"}
  /\ Aborted(req[r])
  /\ Caught(r, "internal_error")

BackoffOver_Deaf(r) ==
  /\ req[r].phase = "backoff"
  /\ Go(r, [req[r] EXCEPT !.phase = "fetch", !.attempt = @ + 1, !.posts = @ + 1])

BackoffOver(r) ==
  /\ req[r].phase = "backoff"
  /\ ~Aborted(req[r])
  /\ Go(r, [req[r] EXCEPT !.phase = "fetch", !.attempt = @ + 1, !.posts = @ + 1])

\* A 200: streams send their head and start the timer, the rest reads the body.
Answered(r) ==
  /\ req[r].phase = "fetch"
  /\ LET q == req[r]
     IN  IF q.kind \in Streaming
         THEN Go(r, Send([q EXCEPT !.phase = "streaming", !.deaf = q.gone,
                                   !.tick = q.kind # "chat"], <<"ok">>))
         ELSE Go(r, [q EXCEPT !.phase = "reading"])

\* A whole answer, and what countToolCallsInChatResponse finds in it.
JsonRead(r) ==
  /\ req[r].phase = "reading" /\ req[r].kind = "json"
  /\ \E calls \in 0 .. 1 :
       Finish(r, Send([req[r] EXCEPT !.calls = calls], <<"ok", "end">>), "ok", Note(r), calls)

PassthroughRead(r) ==
  /\ req[r].phase = "reading" /\ req[r].kind = "pjson"
  /\ Finish(r, Send(req[r], <<"ok", "end">>), "ok", Note(r), Unknown)

ChatRead(r) ==
  /\ req[r].phase = "reading" /\ req[r].kind = "chatjson"
  /\ \E calls \in 0 .. 1 :
       Finish(r, Send([req[r] EXCEPT !.calls = calls], <<"ok", "end">>), "ok", Note(r), calls)

\* The chat handler reads the body outside its try: the rejection is nobody's.
BodyFails(r) ==
  /\ req[r].phase = "reading"
  /\ IF req[r].kind # "chatjson" THEN Caught(r, "internal_error")
     ELSE /\ req' = [req EXCEPT ![r] = Broken(@)]
          /\ alive' = FALSE
          /\ UNCHANGED <<queued, rows>>

\* A stream of one of the kinds, about to be read once more.
MayRead(r, kind) == req[r].phase = "streaming" /\ req[r].kind = kind /\ req[r].reads < MaxReads

\* What one read may bring: a tool call that was not there before, or none.
Read(q) == {[q EXCEPT !.reads = @ + 1, !.calls = @ + calls] : calls \in 0 .. 1}

Left(q) == q.gone /\ ~q.deaf

\* Only the translator asks, before each chunk, whether the client is there.
SseChunk(r) ==
  /\ MayRead(r, "sse")
  /\ IF Left(req[r]) THEN Finish(r, req[r], "ok", Note(r), req[r].calls)
     ELSE \E q \in Read(req[r]) : Go(r, Send(q, <<"data">>))

PipeChunk(r) ==
  /\ MayRead(r, "pipe")
  /\ \E q \in Read(req[r]) : Go(r, Send(q, <<"data">>))

ChatChunk(r) ==
  /\ MayRead(r, "chat")
  /\ \E q \in Read(req[r]) : Go(r, Send(q, <<"data">>))

StreamEnds(r) ==
  /\ req[r].phase = "streaming"
  /\ Finish(r, Send(req[r], <<"end">>), "ok", Note(r), Counted(req[r]))

SseFails_JustEnds(r) ==
  /\ req[r].phase = "streaming" /\ req[r].kind = "sse"
  /\ Finish(r, Send(Broken(req[r]), <<"end">>), "ok", Note(r), req[r].calls)

\* The translator turns the failure into response.failed and returns normally;
SseFails(r) ==
  /\ req[r].phase = "streaming" /\ req[r].kind = "sse"
  /\ Finish(r, Send(Broken(req[r]), <<"failed", "end">>), "ok", Note(r), req[r].calls)

\* the passthrough sends an error event;
PipeFails(r) ==
  /\ req[r].phase = "streaming" /\ req[r].kind = "pipe"
  /\ Finish(r, Send(Broken(req[r]), <<"failed", "end">>), "error", "stream_error", Unknown)

\* the chat handler just ends the answer.
ChatFails(r) ==
  /\ req[r].phase = "streaming" /\ req[r].kind = "chat"
  /\ Finish(r, Send(Broken(req[r]), <<"end">>), "error", "stream_error", Counted(req[r]))

StreamFails(r) == SseFails(r) \/ PipeFails(r) \/ ChatFails(r)

\* setImmediate: the row is inserted once the handler's turn is over.
InsertLog ==
  /\ \E row \in queued : rows' = rows \cup {row} /\ queued' = queued \ {row}
  /\ UNCHANGED <<req, alive>>

\* A pending read rejects when the request is aborted.
AbortWhileReading(r) == Aborted(req[r]) /\ (BodyFails(r) \/ StreamFails(r))

Arrival(r) ==
  \/ Dispatch(r) \/ BadBody(r) \/ ResponsesProbe(r) \/ ChatProbe(r)
  \/ AcceptResponses(r) \/ AcceptPassthrough(r) \/ AcceptChat(r)

Upstream(r) ==
  \/ Transient(r) \/ Answered(r)
  \/ RefusedJson(r) \/ RefusedStream(r) \/ RefusedPassthrough(r) \/ RefusedChat(r)
  \/ JsonRead(r) \/ PassthroughRead(r) \/ ChatRead(r) \/ BodyFails(r)
  \/ SseChunk(r) \/ PipeChunk(r) \/ ChatChunk(r) \/ StreamEnds(r) \/ StreamFails(r)

Next ==
  /\ alive
  /\ \/ InsertLog
     \/ \E r \in Requests :
          Arrival(r) \/ ClientGone(r) \/ AbortBeforeAnswer(r) \/ BackoffOver(r) \/ Upstream(r)

\* Timers fire, rejections are delivered and setImmediate callbacks run.  The
\* upstream owes nothing: the code sets no timeout on it.
Fairness ==
  /\ WF_vars(alive /\ InsertLog)
  /\ \A r \in Requests : WF_vars(alive /\ (BackoffOver(r) \/ AbortBeforeAnswer(r) \/ AbortWhileReading(r)))

Spec == Init /\ [][Next]_vars /\ Fairness

--------------------------------------------------------------------------------
Phases   == {"new", "body", "fetch", "backoff", "reading", "streaming", "done"}
Codes    == {"none", "client_model_rewritten", "maintenance_mode", "invalid_bearer", "invalid_json",
             "missing_model", "internal_error", "stream_error"} \cup {ErrorCode(reply) : reply \in Replies}
Items    == {"ok", "error", "data", "failed", "end"}
Handler  == [kind : {"none"} \cup Translated \cup Passthrough \cup Chat, phase : Phases,
             attempt : 0 .. MaxRetries, posts : Nat, reads : 0 .. MaxReads, calls : Nat,
             gone : BOOLEAN, hears : BOOLEAN, deaf : BOOLEAN, tick : BOOLEAN,
             wire : Seq(Items), told : Codes, broke : BOOLEAN]
LogRow   == [request : Requests, status : {"ok", "error"}, code : Codes, calls : Nat \cup {Unknown}]
RowsOf(r) == {row \in rows \cup queued : row.request = r}
Has(q, item) == item \in Range(q.wire)

(* Type invariant: handlers and log rows keep their shape. *)
TypeOK ==
  /\ req \in [Requests -> Handler]
  /\ alive \in BOOLEAN
  /\ queued \subseteq LogRow /\ rows \subseteq LogRow

(* An answer has one head, comes to one end, and nothing follows the end;      *)
(* a request is not retried once the client has seen anything of the answer,   *)
(* and the keepalive timer stops with the stream.                              *)
AnsweredOnce ==
  \A r \in Requests :
    LET w == req[r].wire
    IN  /\ req[r].tick => req[r].phase = "streaming" /\ "end" \notin Range(w)
        /\ \A n \in DOMAIN w : w[n] \in {"ok", "error"} <=> n = 1
        /\ \A n \in DOMAIN w : w[n] \in {"end", "error"} => n = Len(w)
        /\ req[r].phase \in {"fetch", "backoff"} => w = <<>>
        /\ (req[r].phase = "done" /\ ~req[r].gone) => w # <<>> /\ w[Len(w)] \in {"end", "error"}

(* Every request that reached an upstream leaves exactly one row, however it   *)
(* ended, and a request that did not leaves none.                              *)
OneRowPerRequest ==
  \A r \in Requests :
    Cardinality(RowsOf(r)) = (IF req[r].phase = "done" /\ req[r].posts > 0 THEN 1 ELSE 0)

(* The row of a request says "error" exactly when its upstream failed.  Only a *)
(* translated stream is logged as a 200 from its head on, whatever follows.    *)
RowTellsOutcome ==
  \A r \in Requests : \A row \in RowsOf(r) :
    LET q == req[r]
    IN  IF q.kind # "sse" THEN row.status = "error" <=> q.broke
        ELSE /\ row.status = "error" => q.broke
             /\ ~q.gone => (row.status = "error" <=> Has(q, "error"))

(* What the row calls the failure is what the client was told, the note about  *)
(* a rewritten model stands in the rows of answers and never hides a failure,  *)
(* and a count of tool calls is the number the upstream sent.                  *)
RowAgreesWithAnswer ==
  \A r \in Requests : \A row \in RowsOf(r) :
    LET q == req[r]
    IN  /\ q.told # "none" => row.code = q.told
        /\ row.status = "ok" <=> row.code = Note(r)
        /\ row.calls # Unknown => row.calls = q.calls

(* A client that stays can tell a failed answer from a complete one, by an     *)
(* error status or a failure event; plain chat streams have no such event.     *)
FailureIsVisible ==
  \A r \in Requests :
    (req[r].phase = "done" /\ req[r].posts > 0 /\ ~req[r].gone /\ req[r].kind # "chat")
      => (req[r].broke <=> Has(req[r], "error") \/ Has(req[r], "failed"))

(* Both together: one answer, and it says how it ended.                        *)
AnswerIsHonest == AnsweredOnce /\ FailureIsVisible

(* All together: one row, and it says how the request ended.                   *)
RowIsHonest == OneRowPerRequest /\ RowTellsOutcome /\ RowAgreesWithAnswer

(* The client and the log are told the same, the truth, and once.             *)
OutcomeHonest == AnswerIsHonest /\ RowIsHonest

(* Once the abort is heard no further POST is sent upstream: neither a retry   *)
(* nor a wait for one outlives it.                                             *)
NoPostAfterCancel ==
  [][\A r \in Requests : Aborted(req[r]) => req'[r].posts = req[r].posts]_vars

(* A cancel that is heard ends the request even if the upstream stays silent.  *)
CancelEndsRequest == \A r \in Requests : Aborted(req[r]) ~> (req[r].phase = "done" \/ ~alive)

(* Both together: a cancelled request stops asking, and ends.                  *)
CancelHeard == NoPostAfterCancel /\ CancelEndsRequest

================================================================================
