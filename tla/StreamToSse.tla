------------------------------ MODULE StreamToSse ------------------------------
(***************************************************************************)
(* The stream translator of src/src/translate/streamToSse.ts.  It reads    *)
(* the chunks of an upstream Chat Completions stream and writes the events *)
(* of a Responses stream to the client's SSE sink.                         *)
(*                                                                         *)
(* Text is abstracted to where it came from: a piece of text is the number *)
(* of the chunk that carried it, a buffer is a sequence of pieces.  The    *)
(* events that only repeat their neighbour (content_part.added beside      *)
(* output_item.added, content_part.done beside output_text.done) are       *)
(* folded into it.                                                         *)
(*                                                                         *)
(* The JavaScript handlers run to completion, so the client can go away    *)
(* only while the translator waits for the next chunk (pc = "await").      *)
(***************************************************************************)
EXTENDS Integers, Sequences, FiniteSets

CONSTANTS
  ToolIndices,  \* the values of tool_calls[].index an upstream may send
  Chunks,       \* what one upstream chunk may carry
  MaxChunks     \* bound: chunks an upstream sends before it ends or fails

\* One element of delta.tool_calls: does it name the tool, does it carry a
\* piece of the arguments, and is the buffer valid JSON once it is appended?
ToolDeltas == [index : ToolIndices, named : BOOLEAN, args : BOOLEAN, parses : BOOLEAN]

\* reasoning and content are what the inline-think splitter made of the
\* chunk's two text fields; note says that delta.annotations is not empty.
ChunkType == [reasoning : BOOLEAN, content : BOOLEAN, note : BOOLEAN, tools : Seq(ToolDeltas)]

ASSUME StreamAssumption ==
  /\ ToolIndices \subseteq Nat
  /\ Chunks \subseteq ChunkType
  /\ MaxChunks \in Nat

NoItem == -1
Braces == <<0>>      \* the text "{}" that replaces broken tool arguments

VARIABLES
  st,       \* the StreamState object and the sink it writes to
  pc,       \* where pipeChatStreamToResponses is
  pending,  \* the tool deltas of the current chunk still to be processed
  failed,   \* the catch branch was taken: the chunk source threw
  fed       \* history: the chunks the translator has taken in

vars == <<st, pc, pending, failed, fed>>

NoTool == [open |-> FALSE, item |-> NoItem, index |-> NoItem, named |-> FALSE,
           args |-> <<>>, parses |-> TRUE, done |-> FALSE]

InitialState(expose) ==
  [seq |-> 0, outputIndex |-> 0, kind |-> "none", activeItem |-> NoItem,
   buffer |-> <<>>, notes |-> 0, tools |-> [i \in ToolIndices |-> NoTool],
   finalOutput |-> <<>>, fresh |-> 0, expose |-> expose, closed |-> FALSE,
   wire |-> {}]

--------------------------------------------------------------------------------
(* Building blocks: each maps the state before a function of the source to  *)
(* the state after it.                                                      *)

\* A closed sink drops the event, but its sequence number is used up.
Emit(s, type, item, index, body, extra) ==
  [s EXCEPT !.seq = @ + 1,
            !.wire = IF s.closed THEN @
                     ELSE @ \cup {[seq |-> s.seq, type |-> type, item |-> item,
                                   index |-> index, body |-> body, extra |-> extra]}]

ActiveIndex_Next(s) == s.outputIndex

\* The index of the active item is not stored: it is recomputed as the last
\* one handed out.
ActiveIndex(s) == s.outputIndex - 1

FinalizeActive(s) ==
  IF s.kind = "none" THEN s
  ELSE LET text == IF s.kind = "message" \/ s.expose
                   THEN Emit(s, "text.done", s.activeItem, ActiveIndex(s), s.buffer, 0)
                   ELSE s
           done == Emit(text, "item.done", s.activeItem, ActiveIndex(s), s.buffer, s.notes)
       IN  [done EXCEPT !.finalOutput = Append(@, s.activeItem), !.kind = "none",
                        !.activeItem = NoItem, !.buffer = <<>>, !.notes = 0]

\* openReasoning and openMessage
OpenText(s, kind) ==
  LET f == FinalizeActive(s)
      g == [f EXCEPT !.kind = kind, !.activeItem = f.fresh, !.buffer = <<>>,
                     !.fresh = @ + 1, !.outputIndex = @ + 1]
  IN  Emit(g, "item.added", f.fresh, f.outputIndex, <<>>, IF kind = "message" THEN 1 ELSE 0)

EnsureOpen(s, kind) == IF s.kind = kind THEN s ELSE OpenText(s, kind)

AddText_HiddenDropped(s, kind, piece) ==
  LET o == EnsureOpen(s, kind)
  IN  IF kind = "message" \/ s.expose
      THEN Emit([o EXCEPT !.buffer = Append(@, piece)], "delta", o.activeItem, ActiveIndex(o), <<piece>>, 0)
      ELSE o

AddText(s, kind, piece) ==
  LET o == EnsureOpen(s, kind)
      b == [o EXCEPT !.buffer = Append(@, piece)]
  IN  IF kind = "message" \/ s.expose
      THEN Emit(b, "delta", b.activeItem, ActiveIndex(b), <<piece>>, 0)
      ELSE b

AddNote(s) ==
  LET o == EnsureOpen(s, "message")
  IN  Emit([o EXCEPT !.notes = @ + 1], "annotation", o.activeItem, ActiveIndex(o), <<>>, o.notes)

OpenToolCall(s, d) ==
  LET f == FinalizeActive(s)
      t == [NoTool EXCEPT !.open = TRUE, !.item = f.fresh, !.index = f.outputIndex,
                          !.named = d.named]
      g == [f EXCEPT !.tools[d.index] = t, !.fresh = @ + 1, !.outputIndex = @ + 1]
  IN  Emit(g, "item.added", t.item, t.index, <<>>, IF t.named THEN 1 ELSE 0)

\* The body of the loop over delta.tool_calls.
AddToolDelta(s, d, piece) ==
  LET o == IF ~s.tools[d.index].open THEN OpenToolCall(s, d)
           ELSE [s EXCEPT !.tools[d.index].named = @ \/ d.named]
      b == [o EXCEPT !.tools[d.index].args = Append(@, piece),
                     !.tools[d.index].parses = d.parses]
  IN  IF d.args
      THEN Emit(b, "delta", b.tools[d.index].item, b.tools[d.index].index, <<piece>>, 0)
      ELSE o

SalvageToolCallArguments(t) ==
  IF t.args = <<>> \/ t.parses THEN t.args ELSE Braces

FinalizeTool(s, i) ==
  LET t    == s.tools[i]
      safe == SalvageToolCallArguments(t)
      args == Emit(s, "text.done", t.item, t.index, safe, 0)
      done == Emit(args, "item.done", t.item, t.index, safe, IF t.named THEN 1 ELSE 0)
  IN  [done EXCEPT !.finalOutput = Append(@, t.item), !.tools[i].done = TRUE]

\* The branches of processChunk before its tool loop.  Each annotation of the
\* chunk is an event of its own; one stands for them all.
ProcessText(s, c, piece) ==
  LET r == IF c.reasoning THEN AddText(s, "reasoning", piece) ELSE s
      m == IF c.content THEN AddText(r, "message", piece) ELSE r
  IN  IF c.note THEN AddNote(m) ELSE m

--------------------------------------------------------------------------------
Init ==
  /\ \E expose \in BOOLEAN : st = InitialState(expose)
  /\ pc = "start"
  /\ pending = <<>>
  /\ failed = FALSE
  /\ fed = <<>>

\* response.created and response.in_progress
Start ==
  /\ pc = "start"
  /\ st' = Emit(Emit(st, "created", NoItem, NoItem, <<>>, 0), "in_progress", NoItem, NoItem, <<>>, 0)
  /\ pc' = "await"
  /\ UNCHANGED <<pending, failed, fed>>

\* The client goes away: the response's close event marks the sink closed.
ClientClose ==
  /\ pc = "await"
  /\ ~st.closed
  /\ st' = [st EXCEPT !.closed = TRUE]
  /\ UNCHANGED <<pc, pending, failed, fed>>

\* A chunk arrives for a client that has gone: return what is assembled so far.
Abandon ==
  /\ pc = "await"
  /\ st.closed
  /\ Len(fed) < MaxChunks
  /\ pc' = "incomplete"
  /\ UNCHANGED <<st, pending, failed, fed>>

ProcessChunk(c) ==
  /\ pc = "await"
  /\ ~st.closed
  /\ Len(fed) < MaxChunks
  /\ fed' = Append(fed, c)
  /\ st' = ProcessText(st, c, Len(fed) + 1)
  /\ pending' = c.tools
  /\ pc' = IF c.tools = <<>> THEN "await" ELSE "tools"
  /\ UNCHANGED failed

ProcessToolDelta ==
  /\ pc = "tools"
  /\ st' = AddToolDelta(st, Head(pending), Len(fed))
  /\ pending' = Tail(pending)
  /\ pc' = IF Tail(pending) = <<>> THEN "await" ELSE "tools"
  /\ UNCHANGED <<failed, fed>>

\* The source ends (threw = FALSE) or throws.  The splitter may still hold a
\* half tag, which goes to one of the two channels; then the active item ends.
SourceDone(threw, residue) ==
  /\ pc = "await"
  /\ st' = FinalizeActive(IF residue = "none" THEN st ELSE AddText(st, residue, Len(fed) + 1))
  /\ failed' = threw
  /\ pc' = "closing"
  /\ UNCHANGED <<pending, fed>>

Unfinished == {i \in ToolIndices : st.tools[i].open /\ ~st.tools[i].done}

\* finalizeToolCalls sorts the calls by their upstream index.
FinalizeNextTool(i) ==
  /\ pc = "closing"
  /\ i \in Unfinished
  /\ \A j \in Unfinished : i <= j
  /\ st' = FinalizeTool(st, i)
  /\ UNCHANGED <<pc, pending, failed, fed>>

Terminate_BeforeTools ==
  /\ pc = "closing"
  /\ LET status == IF failed THEN "failed" ELSE "completed"
     IN  /\ st' = [Emit(st, status, NoItem, NoItem, st.finalOutput, 0) EXCEPT !.closed = TRUE]
         /\ pc' = status
  /\ UNCHANGED <<pending, failed, fed>>

Terminate_OnlyCompleted ==
  /\ pc = "closing" /\ ~failed
  /\ Unfinished = {}
  /\ st' = [Emit(st, "completed", NoItem, NoItem, st.finalOutput, 0) EXCEPT !.closed = TRUE]
  /\ pc' = "completed"
  /\ UNCHANGED <<pending, failed, fed>>

\* response.completed or response.failed, then sink.end()
Terminate ==
  /\ pc = "closing"
  /\ Unfinished = {}
  /\ LET status == IF failed THEN "failed" ELSE "completed"
     IN  /\ st' = [Emit(st, status, NoItem, NoItem, st.finalOutput, 0) EXCEPT !.closed = TRUE]
         /\ pc' = status
  /\ UNCHANGED <<pending, failed, fed>>

Next ==
  \/ Start
  \/ ClientClose
  \/ Abandon
  \/ \E c \in Chunks : ProcessChunk(c)
  \/ ProcessToolDelta
  \/ \E threw \in BOOLEAN, residue \in {"none", "reasoning", "message"} : SourceDone(threw, residue)
  \/ \E i \in ToolIndices : FinalizeNextTool(i)
  \/ Terminate

\* The translator's own synchronous steps are never held up; nothing obliges
\* the upstream to send, end or fail.
Fairness ==
  WF_vars(Start \/ ProcessToolDelta \/ (\E i \in ToolIndices : FinalizeNextTool(i)) \/ Terminate)

Spec == Init /\ [][Next]_vars /\ Fairness
--------------------------------------------------------------------------------
(* What the client can see of the stream. *)

Events(type) == {e \in st.wire : e.type = type}
Announced    == {e.item : e \in Events("item.added")}
Finished     == {e.item : e \in Events("item.done")}
Terminals    == Events("completed") \cup Events("failed")
ToolItems    == {st.tools[i].item : i \in {j \in ToolIndices : st.tools[j].open}}
DeltasOf(k)  == {e \in Events("delta") : e.item = k}
Members(q)   == {q[n] : n \in DOMAIN q}

ToolState == [open : BOOLEAN, item : Int, index : Int, named : BOOLEAN,
              args : Seq(Nat), parses : BOOLEAN, done : BOOLEAN]

EventNames == {"created", "in_progress", "item.added", "delta", "annotation",
               "text.done", "item.done", "completed", "failed"}

EventType == [seq : Nat, type : EventNames, item : Int, index : Int, body : Seq(Nat), extra : Nat]

StateType == [seq : Nat, outputIndex : Nat, kind : {"none", "reasoning", "message"},
              activeItem : Nat \cup {NoItem}, buffer : Seq(Nat), notes : Nat,
              tools : [ToolIndices -> ToolState], finalOutput : Seq(Nat), fresh : Nat,
              expose : BOOLEAN, closed : BOOLEAN, wire : SUBSET EventType]

(* Type invariant: the StreamState object of streamToSse.ts keeps its shape. *)
TypeOK ==
  /\ st \in StateType
  /\ pc \in {"start", "await", "tools", "closing", "completed", "failed", "incomplete"}
  /\ pending \in Seq(ToolDeltas)
  /\ failed \in BOOLEAN
  /\ fed \in Seq(Chunks)

(* Every event about an item names the output_index the item was announced  *)
(* with, although the active item's index is never stored but recomputed as *)
(* state.outputIndex - 1 at the end of the item.                            *)
IndexAgreement ==
  \A a \in Events("item.added"), e \in st.wire : e.item = a.item => e.index = a.index

(* The life of an item: nothing is sent about it before output_item.added,  *)
(* nothing after output_item.done, and each of the two is sent once.  Tool  *)
(* calls stay open across later items, a reasoning or message item only     *)
(* while it is the active one.                                              *)
ItemLifecycle ==
  /\ \A e \in st.wire : e.item # NoItem =>
       /\ \E a \in Events("item.added") : a.item = e.item
       /\ \A a \in Events("item.added") : a.item = e.item => a.seq <= e.seq
       /\ \A d \in Events("item.done") : d.item = e.item => e.seq <= d.seq
  /\ ~st.closed => (Announced \ Finished) \ ToolItems
                      = (IF st.kind = "none" THEN {} ELSE {st.activeItem})

(* A client that is still there when the stream ends, well or badly, has     *)
(* seen every announced item finished, and the final response object lists   *)
(* each of them once.  Nothing follows it.                                   *)
SnapshotComplete ==
  \A t \in Terminals :
    /\ \A e \in st.wire : e.seq <= t.seq
    /\ Announced = Finished
    /\ Members(t.body) = Finished
    /\ Len(t.body) = Cardinality(Finished)

(* Both together: every item lives its whole life, and is in the final         *)
(* response, whatever was interleaved with it or broke off.                    *)
ItemsSettled == ItemLifecycle /\ SnapshotComplete

(* The text of a finished item is what its deltas said, in their order, and  *)
(* the annotations it carries are those that were announced; only tool       *)
(* arguments that are not JSON are replaced.                                 *)
TextIntact ==
  \A d \in Events("item.done") :
    LET deltas == DeltasOf(d.item)
        upto(e) == Cardinality({f \in deltas : f.seq <= e.seq})
    IN  /\ \/ d.item \in ToolItems /\ d.body = Braces
           \/ deltas = {} /\ ~st.expose
           \/ /\ Len(d.body) = Cardinality(deltas)
              /\ \A e \in deltas : d.body[upto(e)] = e.body[1]
        /\ d.item \notin ToolItems =>
             d.extra = Cardinality({e \in Events("annotation") : e.item = d.item})

(* A finished tool call can be executed and sent back in every later turn:   *)
(* its arguments are JSON or empty, however the stream ended, and it has a   *)
(* name exactly when some chunk named it, also after it was opened.          *)
ToolCallUsable ==
  \A d \in Events("item.done"), i \in ToolIndices :
    (st.tools[i].open /\ d.item = st.tools[i].item) =>
      /\ d.body = <<>> \/ d.body = Braces \/ st.tools[i].parses
      /\ d.extra = 1 <=> \E n \in DOMAIN fed : \E k \in DOMAIN fed[n].tools :
                            fed[n].tools[k].index = i /\ fed[n].tools[k].named

(* No piece of text is lost or sent twice between the chunks and the items   *)
(* of the finished stream, also under --no-reasoning, where reasoning makes  *)
(* no deltas but must come back in encrypted_content.                        *)
NoPieceLost ==
  Terminals # {} =>
    \A n \in 1 .. Len(fed) :
      Cardinality({d \in Events("item.done") : d.item \notin ToolItems /\ n \in Members(d.body)})
        = (IF fed[n].reasoning THEN 1 ELSE 0) + (IF fed[n].content THEN 1 ELSE 0)

(* Both together: the text comes through as it was streamed, item by item and  *)
(* piece by piece.                                                             *)
TextPreserved == TextIntact /\ NoPieceLost

(* With the arguments, what an item says reaches the client whole; and every  *)
(* item lives its whole life.                                                 *)
StreamIntact == ItemsSettled /\ TextPreserved /\ ToolCallUsable

(* Once the source has ended or thrown, a client that is still there gets    *)
(* response.completed or response.failed.                                    *)
EndIsAnnounced == (pc = "closing" /\ ~st.closed) ~> (Terminals # {})

(* The translator keeps the promise of ResponsesStream. *)
Status ==
  IF Events("completed") # {} THEN "completed"
  ELSE IF Events("failed") # {} THEN "failed"
  ELSE IF st.closed THEN "gone" ELSE "open"

Promise == INSTANCE ResponsesStream WITH
             announced <- Cardinality(Announced), finished <- Finished, status <- Status

(* Every behaviour of the translator is one the abstract stream allows: items *)
(* announced in index order, finished once, and the end only after them all.  *)
KeepsPromise == Promise!Spec
================================================================================
