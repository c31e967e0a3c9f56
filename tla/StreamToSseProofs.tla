--------------------------- MODULE StreamToSseProofs ---------------------------
(***************************************************************************)
(* Proofs that the translator of StreamToSse delivers the stream intact    *)
(* and implements the abstract stream of ResponsesStream, for any chunks,  *)
(* any number of tool calls and any moment at which the client goes away.  *)
(*                                                                         *)
(* The invariants are statements about the state record alone, so that     *)
(* each building block of the translator gets one lemma, "it maps a good   *)
(* state to a good state", and each action follows from the lemmas of the  *)
(* blocks it is made of.  There are two.                                   *)
(*                                                                         *)
(* Linked(s): every index an event carries is the one its item was         *)
(* announced with.  From it follows IndexAgreement.                        *)
(*                                                                         *)
(* Live(s): the wire, a set of numbered events, agrees with the record.    *)
(* The items live in order on the wire (Orderly), the record knows which   *)
(* are announced, active and finished (Books), and what the deltas of an   *)
(* item spell out is what its buffer holds, or what its end said (Text).   *)
(* A block keeps Live, and the number of items each piece of text is in,   *)
(* but for the piece that it adds.  StreamInv joins this to the control of *)
(* the translator; from it follow StreamIntact and every step of the       *)
(* promise.                                                                *)
(***************************************************************************)
EXTENDS StreamToSse, FiniteSetTheorems, TLAPS

(* The reason an index that is recomputed as outputIndex - 1 is right: the    *)
(* active item is always the last one that was announced.                     *)
Linked(s) ==
  /\ s.fresh = s.outputIndex
  /\ s.kind # "none" => s.activeItem = s.outputIndex - 1 /\ s.outputIndex > 0
  /\ \A i \in ToolIndices : s.tools[i].open => s.tools[i].index = s.tools[i].item /\ s.tools[i].item >= 0
  /\ \A e \in s.wire : e.index = e.item

Good(s) == s \in StateType /\ Linked(s)

(* Emit keeps a state good when the event names an item by its index.         *)
LEMMA EmitGood ==
  ASSUME NEW s, Good(s), NEW type \in EventNames, NEW item \in Int, NEW index \in Int,
         NEW body \in Seq(Nat), NEW extra \in Nat,
         index = item
  PROVE  Good(Emit(s, type, item, index, body, extra))
<1> DEFINE e == [seq |-> s.seq, type |-> type, item |-> item, index |-> index,
                 body |-> body, extra |-> extra]
           w == IF s.closed THEN s.wire ELSE s.wire \cup {e}
           t == [s EXCEPT !.seq = s.seq + 1, !.wire = w]
<1>1. e \in EventType
  BY DEF EventType, Good, StateType
<1>2. w \in SUBSET EventType
  BY <1>1 DEF Good, StateType
<1>3. \A f \in w : f.index = f.item
  BY DEF Good, Linked
<1>4. s.seq + 1 \in Nat
  BY DEF Good, StateType
<1> HIDE DEF w
<1>5. t \in StateType
  BY <1>2, <1>4 DEF Good, StateType
<1>6. Linked(t)
  BY <1>3 DEF Good, StateType, Linked
<1>7. Emit(s, type, item, index, body, extra) = t
  BY DEF Emit, w
<1> QED BY <1>5, <1>6, <1>7 DEF Good

(* What Emit leaves alone.                                                     *)
LEMMA EmitKeeps ==
  ASSUME NEW s \in StateType, NEW type, NEW item, NEW index, NEW body, NEW extra
  PROVE  LET t == Emit(s, type, item, index, body, extra)
         IN  /\ t.outputIndex = s.outputIndex /\ t.fresh = s.fresh
             /\ t.kind = s.kind /\ t.activeItem = s.activeItem
             /\ t.buffer = s.buffer /\ t.notes = s.notes
             /\ t.tools = s.tools /\ t.finalOutput = s.finalOutput
             /\ t.expose = s.expose /\ t.closed = s.closed
BY DEF Emit, StateType

(* Ending the active item keeps a state good.                                  *)
LEMMA FinalizeActiveGood ==
  ASSUME NEW s, Good(s)
  PROVE  Good(FinalizeActive(s)) /\ FinalizeActive(s).kind = "none"
<1>1. CASE s.kind = "none"
  BY <1>1 DEF FinalizeActive
<1>2. CASE s.kind # "none"
  <2> DEFINE text == IF s.kind = "message" \/ s.expose
                     THEN Emit(s, "text.done", s.activeItem, ActiveIndex(s), s.buffer, 0)
                     ELSE s
             done == Emit(text, "item.done", s.activeItem, ActiveIndex(s), s.buffer, s.notes)
             end == [done EXCEPT !.finalOutput = Append(@, s.activeItem), !.kind = "none",
                        !.activeItem = NoItem, !.buffer = <<>>, !.notes = 0]
  <2>1. /\ s.activeItem \in Nat /\ ActiveIndex(s) \in Nat /\ s.activeItem = ActiveIndex(s)
        /\ s.buffer \in Seq(Nat) /\ s.notes \in Nat /\ {"text.done", "item.done"} \subseteq EventNames
        /\ s.activeItem \in Int
    BY <1>2 DEF Good, Linked, StateType, ActiveIndex, EventNames, NoItem
  <2>2. Good(text)
    <3>1. Good(Emit(s, "text.done", s.activeItem, ActiveIndex(s), s.buffer, 0))
      BY <2>1, EmitGood
    <3> QED BY <3>1
  <2>3. Good(done)
    <3> HIDE DEF text
    <3> QED BY <2>1, <2>2, EmitGood
  <2> HIDE DEF done
  <2>4. Good(end) /\ end.kind = "none"
    <3>1. done \in StateType /\ Append(done.finalOutput, s.activeItem) \in Seq(Nat)
      BY <2>1, <2>3 DEF Good, StateType
    <3>2. end \in StateType
      <4>1. <<>> \in Seq(Nat) /\ "none" \in {"none", "reasoning", "message"} /\ 0 \in Nat
        OBVIOUS
      <4> HIDE DEF done
      <4> QED BY <3>1, <4>1 DEF StateType
    <3>3. /\ end.kind = "none" /\ end.fresh = done.fresh /\ end.outputIndex = done.outputIndex
          /\ end.tools = done.tools /\ end.wire = done.wire
      BY <3>1 DEF StateType
    <3> HIDE DEF end
    <3> QED BY <2>3, <3>2, <3>3 DEF Good, Linked
  <2>5. FinalizeActive(s) = end
    BY <1>2 DEF FinalizeActive, done
  <2> QED BY <2>4, <2>5
<1> QED BY <1>1, <1>2

(* Opening a text item keeps a state good, and the item becomes active.        *)
LEMMA OpenTextGood ==
  ASSUME NEW s, Good(s), NEW kind \in {"reasoning", "message"}
  PROVE  Good(OpenText(s, kind)) /\ OpenText(s, kind).kind = kind
<1> DEFINE f == FinalizeActive(s)
           g == [f EXCEPT !.kind = kind, !.activeItem = f.fresh, !.buffer = <<>>,
                          !.fresh = @ + 1, !.outputIndex = @ + 1]
<1>1. Good(f)
  BY FinalizeActiveGood
<1> HIDE DEF f
<1>2. Good(g) /\ g.kind = kind
  <2>1. f \in StateType /\ f.fresh \in Nat /\ f.outputIndex \in Nat /\ f.fresh = f.outputIndex
    BY <1>1 DEF Good, StateType, Linked
  <2>2. g \in StateType
    <3>1. <<>> \in Seq(Nat) /\ kind \in {"none", "reasoning", "message"} /\ f.fresh + 1 \in Nat
          /\ f.outputIndex + 1 \in Nat
      BY <2>1
    <3> QED BY <2>1, <3>1 DEF StateType
  <2>3. /\ g.kind = kind /\ g.activeItem = f.fresh /\ g.fresh = f.fresh + 1
        /\ g.outputIndex = f.outputIndex + 1 /\ g.tools = f.tools /\ g.wire = f.wire
    BY <2>1 DEF StateType
  <2> HIDE DEF g
  <2> QED BY <1>1, <2>1, <2>2, <2>3 DEF Good, Linked
<1>3. f.fresh = f.outputIndex /\ f.fresh \in Int /\ "item.added" \in EventNames /\ <<>> \in Seq(Nat)
  BY <1>1 DEF Good, StateType, Linked, EventNames
<1> HIDE DEF g
<1>4. Good(Emit(g, "item.added", f.fresh, f.outputIndex, <<>>, IF kind = "message" THEN 1 ELSE 0))
  BY <1>2, <1>3, EmitGood
<1>5. Emit(g, "item.added", f.fresh, f.outputIndex, <<>>, IF kind = "message" THEN 1 ELSE 0).kind = kind
  BY <1>2, EmitKeeps DEF Good
<1>6. OpenText(s, kind) = Emit(g, "item.added", f.fresh, f.outputIndex, <<>>, IF kind = "message" THEN 1 ELSE 0)
  BY DEF OpenText, f, g
<1> QED BY <1>4, <1>5, <1>6

(* A text item that is open, or has just been opened, can take text.           *)
LEMMA EnsureOpenGood ==
  ASSUME NEW s, Good(s), NEW kind \in {"reasoning", "message"}
  PROVE  Good(EnsureOpen(s, kind)) /\ EnsureOpen(s, kind).kind = kind
BY OpenTextGood DEF EnsureOpen

(* A piece of text keeps a state good.                                         *)
LEMMA AddTextGood ==
  ASSUME NEW s, Good(s), NEW kind \in {"reasoning", "message"}, NEW piece \in Nat
  PROVE  Good(AddText(s, kind, piece))
<1> DEFINE o == EnsureOpen(s, kind)
           b == [o EXCEPT !.buffer = Append(@, piece)]
<1>1. Good(o) /\ o.kind = kind
  BY EnsureOpenGood
<1> HIDE DEF o
<1>2. Good(b) /\ b.kind = kind
  <2>1. o \in StateType /\ Append(o.buffer, piece) \in Seq(Nat)
    BY <1>1 DEF Good, StateType
  <2>2. b \in StateType
    BY <2>1 DEF StateType
  <2>3. /\ b.kind = o.kind /\ b.activeItem = o.activeItem /\ b.fresh = o.fresh
        /\ b.outputIndex = o.outputIndex /\ b.tools = o.tools /\ b.wire = o.wire
    BY <2>1 DEF StateType
  <2> HIDE DEF b
  <2> QED BY <1>1, <2>2, <2>3 DEF Good, Linked
<1> HIDE DEF b
<1>3. /\ b.activeItem \in Int /\ ActiveIndex(b) \in Int /\ b.activeItem = ActiveIndex(b)
      /\ "delta" \in EventNames /\ <<piece>> \in Seq(Nat)
  BY <1>2 DEF Good, StateType, Linked, ActiveIndex, EventNames, NoItem
<1>4. Good(Emit(b, "delta", b.activeItem, ActiveIndex(b), <<piece>>, 0))
  BY <1>2, <1>3, EmitGood
<1>5. AddText(s, kind, piece) = IF kind = "message" \/ s.expose
                                THEN Emit(b, "delta", b.activeItem, ActiveIndex(b), <<piece>>, 0)
                                ELSE b
  BY DEF AddText, o, b
<1> QED BY <1>2, <1>4, <1>5

(* An annotation keeps a state good.                                           *)
LEMMA AddNoteGood ==
  ASSUME NEW s, Good(s)
  PROVE  Good(AddNote(s))
<1> DEFINE o == EnsureOpen(s, "message")
           b == [o EXCEPT !.notes = @ + 1]
<1>1. Good(o) /\ o.kind = "message"
  BY EnsureOpenGood
<1> HIDE DEF o
<1>2. Good(b)
  <2>1. o \in StateType /\ o.notes + 1 \in Nat
    BY <1>1 DEF Good, StateType
  <2>2. b \in StateType
    BY <2>1 DEF StateType
  <2>3. /\ b.kind = o.kind /\ b.activeItem = o.activeItem /\ b.fresh = o.fresh
        /\ b.outputIndex = o.outputIndex /\ b.tools = o.tools /\ b.wire = o.wire
    BY <2>1 DEF StateType
  <2> HIDE DEF b
  <2> QED BY <1>1, <2>2, <2>3 DEF Good, Linked
<1> HIDE DEF b
<1>3. /\ o.activeItem \in Int /\ ActiveIndex(o) \in Int /\ o.activeItem = ActiveIndex(o)
      /\ "annotation" \in EventNames /\ <<>> \in Seq(Nat) /\ o.notes \in Nat
  BY <1>1 DEF Good, StateType, Linked, ActiveIndex, EventNames, NoItem
<1>4. Good(Emit(b, "annotation", o.activeItem, ActiveIndex(o), <<>>, o.notes))
  BY <1>2, <1>3, EmitGood
<1> QED BY <1>4 DEF AddNote, o, b

(* Changing one tool call keeps a state good when the call keeps, or is given, *)
(* an index equal to its item.                                                 *)
LEMMA SetToolGood ==
  ASSUME NEW s, Good(s), NEW i \in ToolIndices, NEW t \in ToolState,
         t.open => t.index = t.item /\ t.item >= 0
  PROVE  Good([s EXCEPT !.tools[i] = t])
<1> DEFINE b == [s EXCEPT !.tools[i] = t]
           ts == [s.tools EXCEPT ![i] = t]
<1>1. s \in StateType /\ s.tools \in [ToolIndices -> ToolState]
  BY DEF Good, StateType
<1>2. ts \in [ToolIndices -> ToolState] /\ (\A j \in ToolIndices : ts[j].open => ts[j].index = ts[j].item /\ ts[j].item >= 0)
  BY <1>1 DEF Good, Linked
<1> HIDE DEF ts
<1>3. [s EXCEPT !.tools = ts] \in StateType
  BY <1>1, <1>2 DEF StateType
<1>4. b = [s EXCEPT !.tools = ts]
  BY DEF ts
<1>5. /\ b.kind = s.kind /\ b.activeItem = s.activeItem /\ b.fresh = s.fresh
      /\ b.outputIndex = s.outputIndex /\ b.tools = ts /\ b.wire = s.wire
  BY <1>1, <1>4 DEF StateType
<1> HIDE DEF b
<1>6. Good(b)
  BY <1>2, <1>3, <1>4, <1>5 DEF Good, Linked
<1> QED BY <1>6 DEF b

(* Opening a tool call keeps a state good, and the call is then open.          *)
LEMMA OpenToolCallGood ==
  ASSUME NEW s, Good(s), NEW d \in ToolDeltas
  PROVE  Good(OpenToolCall(s, d)) /\ OpenToolCall(s, d).tools[d.index].open
<1> DEFINE f == FinalizeActive(s)
           t == [NoTool EXCEPT !.open = TRUE, !.item = f.fresh, !.index = f.outputIndex,
                               !.named = d.named]
           h == [f EXCEPT !.fresh = @ + 1, !.outputIndex = @ + 1]
           g == [h EXCEPT !.tools[d.index] = t]
<1>1. Good(f) /\ f.kind = "none"
  BY FinalizeActiveGood
<1>2. d.index \in ToolIndices /\ d.named \in BOOLEAN
  BY DEF ToolDeltas
<1> HIDE DEF f
<1>3. f \in StateType /\ f.fresh \in Nat /\ f.outputIndex \in Nat /\ f.fresh = f.outputIndex
      /\ f.tools \in [ToolIndices -> ToolState]
  BY <1>1 DEF Good, StateType, Linked
<1>4. t \in ToolState /\ t.open /\ t.item = f.fresh /\ t.index = f.outputIndex
  <2>1. NoTool \in ToolState
    BY DEF NoTool, ToolState, NoItem
  <2>2. f.fresh \in Int /\ f.outputIndex \in Int
    BY <1>3
  <2> QED BY <1>2, <2>1, <2>2 DEF ToolState
<1> HIDE DEF t
<1>5. Good(h) /\ h.tools = f.tools
  <2>1. f.fresh + 1 \in Nat /\ f.outputIndex + 1 \in Nat
    BY <1>3
  <2>2. h \in StateType
    BY <1>3, <2>1 DEF StateType
  <2>3. /\ h.kind = "none" /\ h.fresh = f.fresh + 1 /\ h.outputIndex = f.outputIndex + 1
        /\ h.tools = f.tools /\ h.wire = f.wire
    BY <1>1, <1>3 DEF StateType
  <2> HIDE DEF h
  <2> QED BY <1>1, <1>3, <2>2, <2>3 DEF Good, Linked
<1>6. [f EXCEPT !.tools[d.index] = t, !.fresh = @ + 1, !.outputIndex = @ + 1] = g
  BY <1>3 DEF StateType
<1> HIDE DEF h
<1>7. Good(g)
  BY <1>2, <1>3, <1>4, <1>5, SetToolGood
<1>8. g.tools[d.index].open
  <2>1. h \in StateType
    BY <1>5 DEF Good
  <2> QED BY <1>2, <1>3, <1>4, <1>5, <2>1 DEF StateType
<1> HIDE DEF g
<1> DEFINE n == IF t.named THEN 1 ELSE 0
<1>9. "item.added" \in EventNames /\ <<>> \in Seq(Nat) /\ n \in Nat /\ t.item \in Int /\ t.index \in Int
      /\ t.index = t.item
  BY <1>3, <1>4 DEF EventNames
<1> HIDE DEF n
<1>10. Good(Emit(g, "item.added", t.item, t.index, <<>>, n))
  BY <1>7, <1>9, EmitGood
<1>11. Emit(g, "item.added", t.item, t.index, <<>>, n).tools = g.tools
  BY <1>7, EmitKeeps DEF Good
<1>12. OpenToolCall(s, d) = Emit(g, "item.added", t.item, t.index, <<>>, n)
  BY <1>6 DEF OpenToolCall, f, t, n
<1> QED BY <1>8, <1>10, <1>11, <1>12

(* One tool delta keeps a state good.                                          *)
LEMMA AddToolDeltaGood ==
  ASSUME NEW s, Good(s), NEW d \in ToolDeltas, NEW piece \in Nat
  PROVE  Good(AddToolDelta(s, d, piece))
<1> DEFINE i == d.index
           old == [s.tools[i] EXCEPT !.named = @ \/ d.named]
           o == IF ~s.tools[i].open THEN OpenToolCall(s, d)
                ELSE [s EXCEPT !.tools[i].named = @ \/ d.named]
           b == [o EXCEPT !.tools[i].args = Append(@, piece), !.tools[i].parses = d.parses]
           t == [o.tools[i] EXCEPT !.args = Append(@, piece), !.parses = d.parses]
<1>1. i \in ToolIndices /\ d.named \in BOOLEAN /\ d.parses \in BOOLEAN
  BY DEF ToolDeltas
<1>2. Good(o) /\ o.tools[i].open
  <2>1. CASE ~s.tools[i].open
    BY <2>1, OpenToolCallGood
  <2>2. CASE s.tools[i].open
    <3>1. s.tools[i] \in ToolState /\ s.tools[i].index = s.tools[i].item /\ s.tools[i].item >= 0
      BY <1>1, <2>2 DEF Good, StateType, Linked
    <3>2. old \in ToolState /\ old.index = old.item /\ old.item >= 0 /\ old.open
      BY <1>1, <2>2, <3>1 DEF ToolState
    <3>3. [s EXCEPT !.tools[i].named = @ \/ d.named] = [s EXCEPT !.tools[i] = old]
      BY <1>1 DEF Good, StateType
    <3> HIDE DEF old
    <3>4. Good([s EXCEPT !.tools[i] = old])
      BY <1>1, <3>2, SetToolGood
    <3>5. [s EXCEPT !.tools[i] = old].tools[i].open
      BY <1>1, <3>2 DEF Good, StateType
    <3> QED BY <2>2, <3>3, <3>4, <3>5
  <2> QED BY <2>1, <2>2
<1> HIDE DEF o
<1>3. o \in StateType /\ o.tools[i] \in ToolState /\ o.tools[i].index = o.tools[i].item
      /\ o.tools[i].item >= 0
  BY <1>1, <1>2 DEF Good, StateType, Linked
<1>4. t \in ToolState /\ t.index = t.item /\ t.item >= 0
  <2>1. Append(o.tools[i].args, piece) \in Seq(Nat)
    BY <1>3 DEF ToolState
  <2> QED BY <1>1, <1>3, <2>1 DEF ToolState
<1>5. b = [o EXCEPT !.tools[i] = t]
  BY <1>1, <1>3 DEF StateType
<1> HIDE DEF t
<1>6. Good(b) /\ b.tools[i] = t
  <2>1. Good([o EXCEPT !.tools[i] = t])
    BY <1>1, <1>2, <1>4, SetToolGood
  <2>2. [o EXCEPT !.tools[i] = t].tools[i] = t
    BY <1>1, <1>3 DEF StateType
  <2> QED BY <1>5, <2>1, <2>2
<1> HIDE DEF b
<1>7. "delta" \in EventNames /\ <<piece>> \in Seq(Nat) /\ t.item \in Int /\ t.index \in Int
  BY <1>4 DEF EventNames, ToolState
<1>8. Good(Emit(b, "delta", b.tools[i].item, b.tools[i].index, <<piece>>, 0))
  BY <1>4, <1>6, <1>7, EmitGood
<1>9. AddToolDelta(s, d, piece)
        = IF d.args THEN Emit(b, "delta", b.tools[i].item, b.tools[i].index, <<piece>>, 0) ELSE o
  BY DEF AddToolDelta, o, b
<1> QED BY <1>2, <1>8, <1>9

(* Finishing a tool call keeps a state good.                                   *)
LEMMA FinalizeToolGood ==
  ASSUME NEW s, Good(s), NEW i \in ToolIndices, s.tools[i].open
  PROVE  Good(FinalizeTool(s, i))
<1> DEFINE t    == s.tools[i]
           safe == SalvageToolCallArguments(t)
           n    == IF t.named THEN 1 ELSE 0
           args == Emit(s, "text.done", t.item, t.index, safe, 0)
           done == Emit(args, "item.done", t.item, t.index, safe, n)
           k    == [done EXCEPT !.finalOutput = Append(@, t.item)]
           u    == [t EXCEPT !.done = TRUE]
<1>1. t \in ToolState /\ t.index = t.item /\ t.item \in Nat /\ t.index \in Int
      /\ t.args \in Seq(Nat) /\ t.item \in Int
  BY DEF Good, StateType, Linked, ToolState
<1>2. safe \in Seq(Nat) /\ n \in Nat /\ "text.done" \in EventNames /\ "item.done" \in EventNames
  BY <1>1 DEF SalvageToolCallArguments, Braces, EventNames
<1>3. u \in ToolState /\ u.index = u.item /\ u.item >= 0
  <2> HIDE DEF t
  <2>1. u \in ToolState
    BY <1>1 DEF ToolState
  <2>2. u.index = t.index /\ u.item = t.item
    BY <1>1 DEF ToolState
  <2> QED BY <1>1, <2>1, <2>2
<1> HIDE DEF safe, n
<1>4. Good(args) /\ args.tools = s.tools
  <2>1. Good(args)
    <3> 0 \in Nat
      OBVIOUS
    <3> HIDE DEF t
    <3> QED BY <1>1, <1>2, EmitGood
  <2>2. args.tools = s.tools
    BY EmitKeeps DEF Good
  <2> QED BY <2>1, <2>2
<1> HIDE DEF args
<1>5. Good(done) /\ done.tools = s.tools
  <2>1. Good(done)
    <3> HIDE DEF t
    <3> QED BY <1>1, <1>2, <1>4, EmitGood
  <2>2. done.tools = args.tools
    BY <1>4, EmitKeeps DEF Good
  <2> QED BY <1>4, <2>1, <2>2
<1> HIDE DEF done
<1>6. Good(k) /\ k.tools = s.tools
  <2>1. done \in StateType /\ Append(done.finalOutput, t.item) \in Seq(Nat)
    <3> HIDE DEF t
    <3> QED BY <1>1, <1>5 DEF Good, StateType
  <2>2. k \in StateType
    BY <2>1 DEF StateType
  <2>3. /\ k.kind = done.kind /\ k.activeItem = done.activeItem /\ k.fresh = done.fresh
        /\ k.outputIndex = done.outputIndex /\ k.tools = done.tools /\ k.wire = done.wire
    BY <2>1 DEF StateType
  <2> HIDE DEF k
  <2> QED BY <1>5, <2>2, <2>3 DEF Good, Linked
<1>7. FinalizeTool(s, i) = [k EXCEPT !.tools[i] = u]
  <2>1. FinalizeTool(s, i) = [done EXCEPT !.finalOutput = Append(@, t.item), !.tools[i].done = TRUE]
    BY DEF FinalizeTool, args, done, safe, n
  <2>2. done \in StateType
    BY <1>5 DEF Good
  <2> QED BY <1>5, <2>1, <2>2 DEF StateType
<1> HIDE DEF k, u
<1>8. Good([k EXCEPT !.tools[i] = u])
  BY <1>3, <1>6, SetToolGood
<1> QED BY <1>7, <1>8

--------------------------------------------------------------------------------
(* What the actions rely on beside a good state: a tool delta is only looked   *)
(* for where one is pending.                                                   *)
IndInv ==
  /\ TypeOK
  /\ Linked(st)
  /\ pc = "tools" => pending # <<>>

(* The initial states are good: nothing is open and nothing has been sent.     *)
LEMMA InitInv == Init => IndInv
<1> SUFFICES ASSUME Init PROVE IndInv
  OBVIOUS
<1>1. PICK expose \in BOOLEAN : st = InitialState(expose)
  BY DEF Init
<1>2. NoTool \in ToolState /\ ~NoTool.open
  BY DEF NoTool, ToolState, NoItem
<1>3. st \in StateType
  BY <1>1, <1>2 DEF InitialState, StateType
<1>4. Linked(st)
  BY <1>1, <1>2 DEF InitialState, Linked
<1>5. pending = <<>> /\ fed = <<>> /\ failed = FALSE /\ pc = "start"
  BY DEF Init
<1>6. pending \in Seq(ToolDeltas) /\ fed \in Seq(Chunks)
  BY <1>5
<1> QED BY <1>3, <1>4, <1>5, <1>6 DEF IndInv, TypeOK

(* Every action keeps the state good.                                          *)
LEMMA NextInv == IndInv /\ [Next]_vars => IndInv'
<1> SUFFICES ASSUME IndInv, [Next]_vars PROVE IndInv'
  OBVIOUS
<1> USE DEF IndInv, TypeOK
<1>1. Good(st)
  BY DEF Good
<1>2. <<>> \in Seq(Nat) /\ NoItem \in Int /\ Len(fed) \in Nat /\ Len(fed) + 1 \in Nat
      /\ {"created", "in_progress", "completed", "failed"} \subseteq EventNames
  BY DEF NoItem, EventNames
<1>3. ASSUME Start PROVE IndInv'
  <2>1. Good(Emit(st, "created", NoItem, NoItem, <<>>, 0))
    BY <1>1, <1>2, EmitGood
  <2>2. Good(st')
    BY <1>2, <1>3, <2>1, EmitGood DEF Start
  <2> QED BY <1>3, <2>2 DEF Start, Good
<1>4. ASSUME ClientClose PROVE IndInv'
  <2>1. st' \in StateType /\ Linked(st')
    BY <1>4 DEF ClientClose, StateType, Linked
  <2> QED BY <1>4, <2>1 DEF ClientClose
<1>5. ASSUME Abandon PROVE IndInv'
  BY <1>5 DEF Abandon
<1>6. ASSUME NEW c \in Chunks, ProcessChunk(c) PROVE IndInv'
  <2>1. c.tools \in Seq(ToolDeltas)
    BY StreamAssumption DEF ChunkType
  <2>2. Good(st')
    BY <1>1, <1>2, <1>6, AddTextGood, AddNoteGood DEF ProcessChunk, ProcessText
  <2>3. fed' \in Seq(Chunks)
    BY <1>6 DEF ProcessChunk
  <2> QED BY <1>6, <2>1, <2>2, <2>3 DEF ProcessChunk, Good
<1>7. ASSUME ProcessToolDelta PROVE IndInv'
  <2>1. pending # <<>> /\ Head(pending) \in ToolDeltas /\ Tail(pending) \in Seq(ToolDeltas)
    BY <1>7 DEF ProcessToolDelta
  <2>2. Good(st')
    BY <1>1, <1>2, <1>7, <2>1, AddToolDeltaGood DEF ProcessToolDelta
  <2> QED BY <1>7, <2>1, <2>2 DEF ProcessToolDelta, Good
<1>8. ASSUME NEW threw \in BOOLEAN, NEW residue \in {"none", "reasoning", "message"},
             SourceDone(threw, residue)
      PROVE  IndInv'
  <2>1. Good(IF residue = "none" THEN st ELSE AddText(st, residue, Len(fed) + 1))
    BY <1>1, <1>2, AddTextGood
  <2>2. Good(st')
    BY <1>8, <2>1, FinalizeActiveGood DEF SourceDone
  <2> QED BY <1>8, <2>2 DEF SourceDone, Good
<1>9. ASSUME NEW i \in ToolIndices, FinalizeNextTool(i) PROVE IndInv'
  <2>1. Good(st')
    BY <1>1, <1>9, FinalizeToolGood DEF FinalizeNextTool, Unfinished
  <2> QED BY <1>9, <2>1 DEF FinalizeNextTool, Good
<1>10. ASSUME Terminate PROVE IndInv'
  <2> DEFINE status == IF failed THEN "failed" ELSE "completed"
             t == Emit(st, status, NoItem, NoItem, st.finalOutput, 0)
  <2>1. status \in EventNames /\ st.finalOutput \in Seq(Nat)
    BY <1>1, <1>2 DEF Good, StateType
  <2>2. Good(t)
    <3> HIDE DEF status
    <3> QED BY <1>1, <1>2, <2>1, EmitGood
  <2>3. st' = [t EXCEPT !.closed = TRUE] /\ pc' = status
    BY <1>10 DEF Terminate
  <2> HIDE DEF t
  <2>4. st' \in StateType /\ Linked(st')
    BY <2>2, <2>3 DEF Good, StateType, Linked
  <2> QED BY <1>10, <2>3, <2>4 DEF Terminate
<1>11. CASE UNCHANGED vars
  BY <1>11 DEF vars
<1> QED
  BY <1>3, <1>4, <1>5, <1>6, <1>7, <1>8, <1>9, <1>10, <1>11 DEF Next

(* In every reachable state of the translator the StreamState object has its   *)
(* shape and the active item is the last one announced.                        *)
LEMMA StreamInvariant == Spec => []IndInv
<1>1. Init => IndInv
  BY InitInv
<1>2. IndInv /\ [Next]_vars => IndInv'
  BY NextInv
<1> QED BY <1>1, <1>2, PTL DEF Spec

(* The StreamState object of streamToSse.ts keeps its shape, however the       *)
(* chunks, the client's going away and the end of the source interleave.       *)
THEOREM StreamTypeCorrect == Spec => []TypeOK
<1>1. IndInv => TypeOK
  BY DEF IndInv
<1> QED BY <1>1, StreamInvariant, PTL

(* Every event the client receives about an item carries the output_index the  *)
(* item was announced with.                                                    *)
THEOREM StreamIndexAgreement == Spec => []IndexAgreement
<1>1. IndInv => IndexAgreement
  <2> SUFFICES ASSUME IndInv,
                      NEW a \in Events("item.added"), NEW e \in st.wire, e.item = a.item
               PROVE  e.index = a.index
    BY DEF IndexAgreement
  <2>1. a \in st.wire /\ a.type = "item.added"
    BY DEF Events
  <2> QED BY <2>1 DEF IndInv, Linked
<1> QED BY <1>1, StreamInvariant, PTL

--------------------------------------------------------------------------------
(* What the client sees of the stream: the wire, and how it grows.              *)

(* What a wire, a set of events, shows; of st.wire these are the operators of  *)
(* StreamToSse.                                                                *)
AnnouncedOn(w) == {e.item : e \in {a \in w : a.type = "item.added"}}
FinishedOn(w)  == {e.item : e \in {d \in w : d.type = "item.done"}}
DeltasOn(w, k) == {e \in w : e.type = "delta" /\ e.item = k}
NotesOn(w, k)  == {e \in w : e.type = "annotation" /\ e.item = k}
UpTo(D, e)     == {f \in D : f.seq <= e.seq}
ToolItemsOf(s) == {s.tools[i].item : i \in {j \in ToolIndices : s.tools[j].open}}

(* The deltas of an item spell out a text, in the order they were sent.        *)
Spell(D, body) ==
  /\ Len(body) = Cardinality(D)
  /\ \A e \in D : body[Cardinality(UpTo(D, e))] = e.body[1]

(* Items live in order on the wire: announced first, finished last.            *)
Orderly(w, seq) ==
  /\ IsFiniteSet(w)
  /\ NoItem \notin AnnouncedOn(w) /\ FinishedOn(w) \subseteq AnnouncedOn(w)
  /\ \A e \in w : e.seq < seq /\ e.type \notin {"completed", "failed"}
  /\ \A e \in w : e.item # NoItem => e.item \in AnnouncedOn(w)
  /\ \A e \in w, a \in w : a.type = "item.added" /\ a.item = e.item => a.seq <= e.seq
  /\ \A e \in w, d \in w : d.type = "item.done" /\ d.item = e.item => e.seq <= d.seq

(* What may be said next: a new item announced, or something about an item     *)
(* that is announced and not finished, or about none.                          *)
MaySay(w, e) ==
  IF e.type = "item.added" THEN e.item # NoItem /\ e.item \notin AnnouncedOn(w)
  ELSE /\ e.type \notin {"completed", "failed"}
       /\ e.item \in AnnouncedOn(w) \ FinishedOn(w) \/ (e.item = NoItem /\ e.type # "item.done")

(* What one event more on the wire changes.                                    *)
Grows(w, e, v) ==
  /\ AnnouncedOn(v) = IF e.type = "item.added" THEN AnnouncedOn(w) \cup {e.item} ELSE AnnouncedOn(w)
  /\ FinishedOn(v) = IF e.type = "item.done" THEN FinishedOn(w) \cup {e.item} ELSE FinishedOn(w)
  /\ \A k : DeltasOn(v, k) = IF e.type = "delta" /\ e.item = k THEN DeltasOn(w, k) \cup {e}
                              ELSE DeltasOn(w, k)
  /\ \A k : NotesOn(v, k) = IF e.type = "annotation" /\ e.item = k THEN NotesOn(w, k) \cup {e}
                             ELSE NotesOn(w, k)

(* One event more: the sets of the wire grow by it, or stay as they are.       *)
LEMMA WireGrows ==
  ASSUME NEW w, NEW e, NEW v, v = w \cup {e}
  PROVE  Grows(w, e, v)
<1>1. AnnouncedOn(v) = IF e.type = "item.added" THEN AnnouncedOn(w) \cup {e.item} ELSE AnnouncedOn(w)
  BY DEF AnnouncedOn
<1>2. FinishedOn(v) = IF e.type = "item.done" THEN FinishedOn(w) \cup {e.item} ELSE FinishedOn(w)
  BY DEF FinishedOn
<1>3. \A k : DeltasOn(v, k) = IF e.type = "delta" /\ e.item = k THEN DeltasOn(w, k) \cup {e} ELSE DeltasOn(w, k)
  BY DEF DeltasOn
<1>4. \A k : NotesOn(v, k) = IF e.type = "annotation" /\ e.item = k THEN NotesOn(w, k) \cup {e} ELSE NotesOn(w, k)
  BY DEF NotesOn
<1> QED BY <1>1, <1>2, <1>3, <1>4 DEF Grows

(* The items of a list with one more.                                          *)
LEMMA MembersAppend ==
  ASSUME NEW q \in Seq(Nat), NEW x \in Nat
  PROVE  Members(Append(q, x)) = Members(q) \cup {x}
<1>1. DOMAIN Append(q, x) = 1 .. Len(q) + 1 /\ DOMAIN q = 1 .. Len(q) /\ Len(q) \in Nat
  OBVIOUS
<1>2. \A n \in 1 .. Len(q) : Append(q, x)[n] = q[n]
  OBVIOUS
<1>3. Append(q, x)[Len(q) + 1] = x
  OBVIOUS
<1>4. ASSUME NEW y PROVE y \in Members(Append(q, x)) <=> y \in Members(q) \cup {x}
  <2>1. CASE y \in Members(Append(q, x))
    <3>1. PICK n \in 1 .. Len(q) + 1 : Append(q, x)[n] = y
      BY <1>1, <2>1 DEF Members
    <3>2. n \in 1 .. Len(q) \/ n = Len(q) + 1
      BY <1>1, <3>1
    <3> QED BY <1>1, <1>2, <1>3, <2>1, <3>1, <3>2 DEF Members
  <2>2. CASE y \in Members(q)
    <3>1. PICK n \in 1 .. Len(q) : q[n] = y
      BY <1>1, <2>2 DEF Members
    <3>2. n \in 1 .. Len(q) + 1 /\ Append(q, x)[n] = y
      BY <1>1, <1>2, <3>1
    <3> QED BY <1>1, <2>2, <3>2 DEF Members
  <2>3. CASE y = x
    <3>1. Len(q) + 1 \in 1 .. Len(q) + 1
      BY <1>1
    <3> QED BY <1>1, <1>3, <2>3, <3>1 DEF Members
  <2> QED BY <2>1, <2>2, <2>3
<1> QED BY <1>4

(* What may be said keeps the wire in order.                                   *)
LEMMA StaysOrderly ==
  ASSUME NEW w \in SUBSET EventType, NEW seq \in Nat, Orderly(w, seq),
         NEW e \in EventType, e.seq = seq, MaySay(w, e)
  PROVE  Orderly(w \cup {e}, seq + 1)
<1> DEFINE v == w \cup {e}
<1>1. IsFiniteSet(v)
  BY FS_AddElement DEF Orderly
<1>2. AnnouncedOn(v) = IF e.type = "item.added" THEN AnnouncedOn(w) \cup {e.item} ELSE AnnouncedOn(w)
  BY WireGrows DEF Grows
<1>3. \A f \in w : f.seq \in Nat /\ f.seq < seq
  BY DEF Orderly, EventType
<1>4. NoItem \notin AnnouncedOn(v) /\ FinishedOn(v) \subseteq AnnouncedOn(v)
  <2>1. FinishedOn(v) = IF e.type = "item.done" THEN FinishedOn(w) \cup {e.item} ELSE FinishedOn(w)
    BY WireGrows DEF Grows
  <2> QED BY <1>2, <2>1 DEF Orderly, MaySay
<1>5. \A f \in v : f.seq < seq + 1 /\ f.type \notin {"completed", "failed"}
  BY <1>3 DEF Orderly, MaySay
<1>6. \A f \in v : f.item # NoItem => f.item \in AnnouncedOn(v)
  BY <1>2 DEF Orderly, MaySay
<1>7. \A f \in v, a \in v : a.type = "item.added" /\ a.item = f.item => a.seq <= f.seq
  <2> SUFFICES ASSUME NEW f \in v, NEW a \in v, a.type = "item.added", a.item = f.item
               PROVE  a.seq <= f.seq
    OBVIOUS
  <2>1. CASE f = e
    BY <1>3, <2>1
  <2>2. CASE f # e /\ a = e
    BY <2>2 DEF Orderly, MaySay
  <2>3. CASE f # e /\ a # e
    BY <2>3 DEF Orderly
  <2> QED BY <2>1, <2>2, <2>3
<1>8. \A f \in v, d \in v : d.type = "item.done" /\ d.item = f.item => f.seq <= d.seq
  <2> SUFFICES ASSUME NEW f \in v, NEW d \in v, d.type = "item.done", d.item = f.item
               PROVE  f.seq <= d.seq
    OBVIOUS
  <2>1. CASE d = e
    BY <1>3, <2>1
  <2>2. CASE d # e /\ f = e
    <3>1. d.item \in FinishedOn(w)
      BY <2>2 DEF FinishedOn
    <3>2. d.item \in AnnouncedOn(w) /\ d.item # NoItem
      BY <3>1 DEF Orderly
    <3> QED BY <2>2, <3>1, <3>2 DEF MaySay, Orderly
  <2>3. CASE d # e /\ f # e
    BY <2>3 DEF Orderly
  <2> QED BY <2>1, <2>2, <2>3
<1> HIDE DEF v
<1>9. Orderly(v, seq + 1)
  BY <1>1, <1>4, <1>5, <1>6, <1>7, <1>8 DEF Orderly
<1> QED BY <1>9 DEF v

--------------------------------------------------------------------------------
(* The state and the wire, for a client that is there.                         *)

(* A delta more, and its piece more, still spell out the text.                 *)
LEMMA SpellOn ==
  ASSUME NEW D, IsFiniteSet(D), NEW e, e \notin D, e.seq \in Nat,
         \A f \in D : f.seq \in Nat /\ f.seq < e.seq,
         NEW body \in Seq(Nat), Spell(D, body), e.body[1] \in Nat
  PROVE  Spell(D \cup {e}, Append(body, e.body[1]))
<1> DEFINE E == D \cup {e}
           more == Append(body, e.body[1])
<1>1. IsFiniteSet(E) /\ Cardinality(E) = Cardinality(D) + 1 /\ Cardinality(D) \in Nat
  BY FS_AddElement, FS_CardinalityType
<1>2. Len(more) = Cardinality(E) /\ Len(body) = Cardinality(D)
  BY <1>1 DEF Spell
<1>3. ASSUME NEW f \in E PROVE more[Cardinality(UpTo(E, f))] = f.body[1]
  <2>1. CASE f = e
    <3>1. UpTo(E, f) = E
      BY <2>1 DEF UpTo
    <3>2. more[Len(body) + 1] = e.body[1]
      OBVIOUS
    <3> HIDE DEF E, more
    <3>3. Cardinality(UpTo(E, f)) = Len(body) + 1
      BY <1>1, <1>2, <3>1
    <3> QED BY <2>1, <3>2, <3>3
  <2>2. CASE f # e
    <3>1. f \in D /\ UpTo(E, f) = UpTo(D, f)
      BY <2>2 DEF UpTo
    <3>2. UpTo(D, f) \in SUBSET D /\ f \in UpTo(D, f)
      BY <3>1 DEF UpTo
    <3>3. /\ IsFiniteSet(UpTo(D, f)) /\ Cardinality(UpTo(D, f)) <= Cardinality(D)
          /\ Cardinality(UpTo(D, f)) # 0 /\ Cardinality(UpTo(D, f)) \in Nat
      BY <3>2, FS_Subset, FS_EmptySet, FS_CardinalityType
    <3>4. body[Cardinality(UpTo(D, f))] = f.body[1]
      BY <3>1 DEF Spell
    <3> HIDE DEF E
    <3> QED BY <1>2, <3>1, <3>3, <3>4
  <2> QED BY <2>1, <2>2
<1> HIDE DEF E, more
<1>4. Spell(E, more)
  BY <1>2, <1>3 DEF Spell
<1> QED BY <1>4 DEF E, more

(* The state's own books agree with the wire: what is announced, what is       *)
(* finished, and which announced items are still open.                         *)
Books(s) ==
  /\ AnnouncedOn(s.wire) = 0 .. (s.fresh - 1)
  /\ FinishedOn(s.wire) = Members(s.finalOutput)
  /\ \A m, n \in DOMAIN s.finalOutput : s.finalOutput[m] = s.finalOutput[n] => m = n
  /\ s.kind # "none" => s.activeItem \notin FinishedOn(s.wire)
  /\ \A i \in ToolIndices :
       IF s.tools[i].open
       THEN /\ s.tools[i].item \in AnnouncedOn(s.wire)
            /\ s.tools[i].done <=> s.tools[i].item \in FinishedOn(s.wire)
            /\ s.kind # "none" => s.tools[i].item # s.activeItem
       ELSE s.tools[i] = NoTool
  /\ \A i, j \in ToolIndices :
       s.tools[i].open /\ s.tools[j].open /\ s.tools[i].item = s.tools[j].item => i = j
  /\ \A k \in AnnouncedOn(s.wire) :
       k \in FinishedOn(s.wire) \/ (s.kind # "none" /\ k = s.activeItem) \/ k \in ToolItemsOf(s)

(* The deltas of the open items spell their buffers, and those of the finished *)
(* ones what was said of them at their end.                                    *)
ActiveText(s) ==
  LET D == DeltasOn(s.wire, s.activeItem)
  IN  /\ IF s.kind = "message" \/ s.expose THEN Spell(D, s.buffer) ELSE D = {}
      /\ s.notes = Cardinality(NotesOn(s.wire, s.activeItem))

FinishedText(s, d) ==
  LET D == DeltasOn(s.wire, d.item)
  IN  /\ \/ d.item \in ToolItemsOf(s) /\ d.body = Braces
         \/ D = {} /\ ~s.expose
         \/ Spell(D, d.body)
      /\ d.item \notin ToolItemsOf(s) => d.extra = Cardinality(NotesOn(s.wire, d.item))

FinishedTool(t, d) ==
  /\ d.body = <<>> \/ d.body = Braces \/ t.parses
  /\ d.extra = 1 <=> t.named

Text(s) ==
  /\ s.kind = "none" => s.buffer = <<>> /\ s.notes = 0
  /\ s.kind # "none" => ActiveText(s)
  /\ \A i \in ToolIndices : s.tools[i].open => Spell(DeltasOn(s.wire, s.tools[i].item), s.tools[i].args)
  /\ \A d \in s.wire : d.type = "item.done" =>
       /\ FinishedText(s, d)
       /\ \A i \in ToolIndices : s.tools[i].open /\ s.tools[i].item = d.item => FinishedTool(s.tools[i], d)

Live(s) == Orderly(s.wire, s.seq) /\ Books(s) /\ Text(s)

(* The text items, finished or active, that a piece is in.                     *)
TextDones(s, n) ==
  {d \in s.wire : d.type = "item.done" /\ d.item \notin ToolItemsOf(s) /\ n \in Members(d.body)}
Pieces(s, n) == Cardinality(TextDones(s, n)) + (IF n \in Members(s.buffer) THEN 1 ELSE 0)

(* What is finished stays as it was when something else is said.               *)
LEMMA FinishedKept ==
  ASSUME NEW s, NEW t, NEW e, t.wire = s.wire \cup {e}, t.expose = s.expose,
         e.item \notin FinishedOn(s.wire),
         \A k \in FinishedOn(s.wire) : k \in ToolItemsOf(t) <=> k \in ToolItemsOf(s),
         NEW d \in s.wire, d.type = "item.done", FinishedText(s, d)
  PROVE  FinishedText(t, d)
<1>1. d.item \in FinishedOn(s.wire) /\ d.item # e.item
  BY DEF FinishedOn
<1>2. DeltasOn(t.wire, d.item) = DeltasOn(s.wire, d.item) /\ NotesOn(t.wire, d.item) = NotesOn(s.wire, d.item)
  BY <1>1 DEF DeltasOn, NotesOn
<1> QED BY <1>1, <1>2 DEF FinishedText

(* Two states that differ in an event that is no text item's end, and agree on *)
(* the buffer, hold the same pieces.                                           *)
LEMMA PiecesKept ==
  ASSUME NEW s, NEW t, NEW e, t.wire = s.wire \cup {e}, t.buffer = s.buffer,
         e.type # "item.done" \/ e.item \in ToolItemsOf(t),
         \A k \in FinishedOn(s.wire) : k \in ToolItemsOf(t) <=> k \in ToolItemsOf(s)
  PROVE  \A n : Pieces(t, n) = Pieces(s, n)
<1>1. \A n : TextDones(t, n) = TextDones(s, n)
  BY DEF TextDones, FinishedOn
<1> QED BY <1>1 DEF Pieces

(* The state after an event that reached the client.                           *)
Said(s, e) == [s EXCEPT !.seq = @ + 1, !.wire = @ \cup {e}]

(* A client that is there receives what is emitted.                            *)
LEMMA EmitSays ==
  ASSUME NEW s \in StateType, ~s.closed, NEW type, NEW item, NEW index, NEW body, NEW extra
  PROVE  Emit(s, type, item, index, body, extra)
           = Said(s, [seq |-> s.seq, type |-> type, item |-> item, index |-> index,
                      body |-> body, extra |-> extra])
BY DEF Emit, Said, StateType

(* What an event changes, and what it leaves alone.                            *)
LEMMA SaidFields ==
  ASSUME NEW s \in StateType, NEW e
  PROVE  LET t == Said(s, e)
         IN  /\ t.seq = s.seq + 1 /\ t.wire = s.wire \cup {e}
             /\ t.outputIndex = s.outputIndex /\ t.fresh = s.fresh
             /\ t.kind = s.kind /\ t.activeItem = s.activeItem
             /\ t.buffer = s.buffer /\ t.notes = s.notes
             /\ t.tools = s.tools /\ t.finalOutput = s.finalOutput
             /\ t.expose = s.expose /\ t.closed = s.closed
BY DEF Said, StateType

(* An event that neither opens nor ends an item, nor adds to its text.         *)
LEMMA RemarkLive ==
  ASSUME NEW s, Good(s), Live(s), NEW e \in EventType, e.seq = s.seq, MaySay(s.wire, e),
         e.type \in {"created", "in_progress", "text.done"}
  PROVE  Live(Said(s, e)) /\ \A n : Pieces(Said(s, e), n) = Pieces(s, n)
<1> DEFINE t == Said(s, e)
<1>1. s \in StateType /\ s.wire \in SUBSET EventType /\ s.seq \in Nat
  BY DEF Good, StateType
<1>2. /\ t.seq = s.seq + 1 /\ t.wire = s.wire \cup {e} /\ t.fresh = s.fresh
      /\ t.kind = s.kind /\ t.activeItem = s.activeItem
      /\ t.buffer = s.buffer /\ t.notes = s.notes
      /\ t.tools = s.tools /\ t.finalOutput = s.finalOutput /\ t.expose = s.expose
  BY <1>1, SaidFields
<1> HIDE DEF t
<1>3. /\ AnnouncedOn(t.wire) = AnnouncedOn(s.wire) /\ FinishedOn(t.wire) = FinishedOn(s.wire)
      /\ ToolItemsOf(t) = ToolItemsOf(s)
      /\ \A k : DeltasOn(t.wire, k) = DeltasOn(s.wire, k) /\ NotesOn(t.wire, k) = NotesOn(s.wire, k)
  <2>1. Grows(s.wire, e, t.wire) /\ ToolItemsOf(t) = ToolItemsOf(s)
    BY <1>2, WireGrows DEF ToolItemsOf
  <2> QED BY <2>1 DEF Grows
<1>4. Orderly(t.wire, t.seq)
  BY <1>1, <1>2, StaysOrderly DEF Live
<1>5. Books(t)
  BY <1>2, <1>3 DEF Live, Books
<1>6. Text(t)
  <2>1. \A d \in t.wire : d.type = "item.done" => d \in s.wire
    BY <1>2
  <2>2. \A d \in s.wire : FinishedText(s, d) => FinishedText(t, d)
    BY <1>2, <1>3 DEF FinishedText
  <2>3. ActiveText(s) => ActiveText(t)
    BY <1>2, <1>3 DEF ActiveText
  <2> QED BY <1>2, <1>3, <2>1, <2>2, <2>3 DEF Live, Text
<1>7. \A n : Pieces(t, n) = Pieces(s, n)
  BY <1>2, <1>3, PiecesKept
<1> QED BY <1>4, <1>5, <1>6, <1>7 DEF Live, t

(* The active item ends.                                                       *)
LEMMA EndTextLive ==
  ASSUME NEW s, Good(s), Live(s), s.kind # "none", NEW e \in EventType, e.seq = s.seq,
         e.type = "item.done", e.item = s.activeItem, e.body = s.buffer, e.extra = s.notes
  PROVE  LET t == [Said(s, e) EXCEPT !.finalOutput = Append(@, s.activeItem), !.kind = "none",
                                     !.activeItem = NoItem, !.buffer = <<>>, !.notes = 0]
         IN  Live(t) /\ \A n : Pieces(t, n) = Pieces(s, n)
<1> DEFINE t == [Said(s, e) EXCEPT !.finalOutput = Append(@, s.activeItem), !.kind = "none",
                                   !.activeItem = NoItem, !.buffer = <<>>, !.notes = 0]
           k == s.activeItem
<1>1. /\ s \in StateType /\ s.wire \in SUBSET EventType /\ s.seq \in Nat /\ s.finalOutput \in Seq(Nat)
      /\ s.fresh \in Nat /\ s.buffer \in Seq(Nat) /\ s.notes \in Nat
      /\ k \in Nat /\ k < s.fresh
  BY DEF Good, StateType, Linked, NoItem
<1>2. Said(s, e) \in StateType
  <2>1. s.seq + 1 \in Nat /\ s.wire \cup {e} \in SUBSET EventType
    BY <1>1
  <2> QED BY <1>1, <2>1 DEF Said, StateType
<1>3. /\ t.seq = s.seq + 1 /\ t.wire = s.wire \cup {e} /\ t.fresh = s.fresh
      /\ t.kind = "none" /\ t.buffer = <<>> /\ t.notes = 0
      /\ t.tools = s.tools /\ t.finalOutput = Append(s.finalOutput, k) /\ t.expose = s.expose
  <2> DEFINE u == Said(s, e)
  <2>1. u \in StateType
    BY <1>2
  <2>2. /\ u.seq = s.seq + 1 /\ u.wire = s.wire \cup {e} /\ u.fresh = s.fresh
        /\ u.tools = s.tools /\ u.finalOutput = s.finalOutput /\ u.expose = s.expose
    BY <1>1, SaidFields
  <2> HIDE DEF u
  <2>3. t = [u EXCEPT !.finalOutput = Append(@, s.activeItem), !.kind = "none",
                      !.activeItem = NoItem, !.buffer = <<>>, !.notes = 0]
    BY DEF u
  <2> HIDE DEF t
  <2> QED BY <2>1, <2>2, <2>3 DEF StateType
<1> HIDE DEF t
<1>4. k \in AnnouncedOn(s.wire) \ FinishedOn(s.wire) /\ k \notin ToolItemsOf(s) /\ MaySay(s.wire, e)
  BY <1>1 DEF Live, Books, MaySay, ToolItemsOf
<1>5. /\ AnnouncedOn(t.wire) = AnnouncedOn(s.wire) /\ FinishedOn(t.wire) = FinishedOn(s.wire) \cup {k}
      /\ ToolItemsOf(t) = ToolItemsOf(s)
      /\ \A j : DeltasOn(t.wire, j) = DeltasOn(s.wire, j) /\ NotesOn(t.wire, j) = NotesOn(s.wire, j)
  <2>1. Grows(s.wire, e, t.wire) /\ ToolItemsOf(t) = ToolItemsOf(s)
    BY <1>3, WireGrows DEF ToolItemsOf
  <2> QED BY <2>1 DEF Grows
<1>6. Orderly(t.wire, t.seq)
  BY <1>1, <1>3, <1>4, StaysOrderly DEF Live
<1>7. Members(t.finalOutput) = Members(s.finalOutput) \cup {k}
  BY <1>1, <1>3, MembersAppend
<1>8. \A m, n \in DOMAIN t.finalOutput : t.finalOutput[m] = t.finalOutput[n] => m = n
  <2>1. \A m \in DOMAIN s.finalOutput : s.finalOutput[m] # k
    BY <1>4 DEF Live, Books, Members
  <2> QED BY <1>1, <1>3, <2>1, SMTT(30) DEF Live, Books
<1>9. Books(t)
  BY <1>3, <1>4, <1>5, <1>7, <1>8, ZenonT(60) DEF Live, Books, ToolItemsOf
<1>10. FinishedText(t, e)
  <2>1. ActiveText(s)
    BY DEF Live, Text
  <2>2. /\ DeltasOn(t.wire, e.item) = DeltasOn(s.wire, s.activeItem)
        /\ NotesOn(t.wire, e.item) = NotesOn(s.wire, s.activeItem)
    BY <1>5
  <2> QED BY <1>3, <2>1, <2>2 DEF ActiveText, FinishedText
<1>11. \A d \in s.wire : FinishedText(s, d) => FinishedText(t, d)
  BY <1>3, <1>5 DEF FinishedText
<1>12. Text(t)
  <2>1. \A i \in ToolIndices : t.tools[i].open => t.tools[i].item # k
    BY <1>3, <1>4 DEF ToolItemsOf
  <2>2. \A i \in ToolIndices : t.tools[i].open => Spell(DeltasOn(t.wire, t.tools[i].item), t.tools[i].args)
    BY <1>3, <1>5 DEF Live, Text
  <2> QED BY <1>3, <1>10, <1>11, <2>1, <2>2 DEF Live, Text
<1>13. ASSUME NEW n PROVE Pieces(t, n) = Pieces(s, n)
  <2>1. TextDones(t, n) = IF n \in Members(s.buffer) THEN TextDones(s, n) \cup {e} ELSE TextDones(s, n)
    BY <1>3, <1>4, <1>5 DEF TextDones
  <2>2. e \notin TextDones(s, n) /\ IsFiniteSet(TextDones(s, n))
    <3>1. e \notin s.wire
      BY <1>1 DEF Live, Orderly
    <3>2. TextDones(s, n) \in SUBSET s.wire /\ IsFiniteSet(s.wire)
      BY DEF TextDones, Live, Orderly
    <3> QED BY <3>1, <3>2, FS_Subset
  <2>3. n \notin Members(t.buffer)
    BY <1>3 DEF Members
  <2>4. Cardinality(TextDones(s, n)) \in Nat
    BY <2>2, FS_CardinalityType
  <2>5. Cardinality(TextDones(s, n) \cup {e}) = Cardinality(TextDones(s, n)) + 1
    BY <2>2, FS_AddElement
  <2> QED BY <2>1, <2>3, <2>4, <2>5 DEF Pieces
<1> QED BY <1>6, <1>9, <1>12, <1>13 DEF Live, t

(* A reasoning or message item begins.                                         *)
LEMMA BeginTextLive ==
  ASSUME NEW s, Good(s), Live(s), s.kind = "none", NEW kind \in {"reasoning", "message"},
         NEW e \in EventType, e.seq = s.seq, e.type = "item.added", e.item = s.fresh
  PROVE  LET t == Said([s EXCEPT !.kind = kind, !.activeItem = s.fresh, !.buffer = <<>>,
                                 !.fresh = @ + 1, !.outputIndex = @ + 1], e)
         IN  Live(t) /\ \A n : Pieces(t, n) = Pieces(s, n)
<1> DEFINE g == [s EXCEPT !.kind = kind, !.activeItem = s.fresh, !.buffer = <<>>,
                          !.fresh = @ + 1, !.outputIndex = @ + 1]
           t == Said(g, e)
           k == s.fresh
<1>1. /\ s \in StateType /\ s.wire \in SUBSET EventType /\ s.seq \in Nat /\ k \in Nat /\ k # NoItem
      /\ s.outputIndex \in Nat
  BY DEF Good, StateType, NoItem
<1>2. g \in StateType
  <2>1. k + 1 \in Nat /\ s.outputIndex + 1 \in Nat /\ <<>> \in Seq(Nat) /\ kind \in {"none", "reasoning", "message"}
    BY <1>1
  <2> QED BY <1>1, <2>1 DEF StateType
<1>3. /\ t.seq = s.seq + 1 /\ t.wire = s.wire \cup {e} /\ t.fresh = k + 1
      /\ t.kind = kind /\ t.activeItem = k /\ t.buffer = <<>> /\ t.notes = s.notes
      /\ t.tools = s.tools /\ t.finalOutput = s.finalOutput /\ t.expose = s.expose
  <2>1. /\ g.seq = s.seq /\ g.wire = s.wire /\ g.fresh = k + 1
        /\ g.kind = kind /\ g.activeItem = k /\ g.buffer = <<>> /\ g.notes = s.notes
        /\ g.tools = s.tools /\ g.finalOutput = s.finalOutput /\ g.expose = s.expose
    BY <1>1 DEF StateType
  <2> HIDE DEF g
  <2> QED BY <1>2, <2>1, SaidFields
<1> HIDE DEF t, g
<1>4. k \notin AnnouncedOn(s.wire) /\ k \notin FinishedOn(s.wire) /\ MaySay(s.wire, e)
  BY <1>1 DEF Live, Books, MaySay, Orderly
<1>5. /\ AnnouncedOn(t.wire) = AnnouncedOn(s.wire) \cup {k} /\ FinishedOn(t.wire) = FinishedOn(s.wire)
      /\ ToolItemsOf(t) = ToolItemsOf(s)
      /\ \A j : DeltasOn(t.wire, j) = DeltasOn(s.wire, j) /\ NotesOn(t.wire, j) = NotesOn(s.wire, j)
  <2>1. Grows(s.wire, e, t.wire) /\ ToolItemsOf(t) = ToolItemsOf(s)
    BY <1>3, WireGrows DEF ToolItemsOf
  <2> QED BY <2>1 DEF Grows
<1>6. Orderly(t.wire, t.seq)
  BY <1>1, <1>3, <1>4, StaysOrderly DEF Live
<1>7. Books(t)
  <2>1. 0 .. k = (0 .. (k - 1)) \cup {k} /\ (k + 1) - 1 = k
    BY <1>1
  <2>2. AnnouncedOn(t.wire) = 0 .. (t.fresh - 1)
    BY <1>3, <1>5, <2>1 DEF Live, Books
  <2> QED BY <1>3, <1>4, <1>5, <2>2, ZenonT(60) DEF Live, Books, ToolItemsOf
<1>8. DeltasOn(s.wire, k) = {} /\ NotesOn(s.wire, k) = {}
  BY <1>1, <1>4 DEF Live, Orderly, DeltasOn, NotesOn
<1>9. ActiveText(t)
  <2>1. Cardinality({}) = 0
    BY FS_EmptySet
  <2>2. s.notes = 0
    BY DEF Live, Text
  <2> QED BY <1>3, <1>5, <1>8, <2>1, <2>2 DEF ActiveText, Spell
<1>10. \A d \in s.wire : FinishedText(s, d) => FinishedText(t, d)
  BY <1>3, <1>5 DEF FinishedText
<1>11. Text(t)
  BY <1>3, <1>5, <1>9, <1>10, ZenonT(60) DEF Live, Text
<1>12. \A n : Pieces(t, n) = Pieces(s, n)
  <2>1. t.buffer = s.buffer
    BY <1>3 DEF Live, Text
  <2> QED BY <1>3, <1>5, <2>1, PiecesKept, ZenonT(60)
<1> QED BY <1>6, <1>7, <1>11, <1>12 DEF Live, t, g

(* A piece joins the buffer of the active item, with its delta unless the      *)
(* item is reasoning that is not exposed.                                      *)
LEMMA AddPieceLive ==
  ASSUME NEW s, Good(s), Live(s), s.kind # "none", NEW p \in Nat,
         NEW t, t \in StateType,
         t.buffer = Append(s.buffer, p), t.kind = s.kind, t.activeItem = s.activeItem,
         t.notes = s.notes, t.tools = s.tools, t.finalOutput = s.finalOutput,
         t.fresh = s.fresh, t.expose = s.expose,
         IF s.kind = "message" \/ s.expose
         THEN t.seq = s.seq + 1 /\ \E e \in EventType :
                /\ t.wire = s.wire \cup {e}
                /\ e.seq = s.seq /\ e.type = "delta" /\ e.item = s.activeItem /\ e.body = <<p>>
         ELSE t.seq = s.seq /\ t.wire = s.wire
  PROVE  /\ Live(t)
         /\ \A n : n # p => Pieces(t, n) = Pieces(s, n)
         /\ p \notin Members(s.buffer) => Pieces(t, p) = Pieces(s, p) + 1
<1> DEFINE k == s.activeItem
<1>1. /\ s \in StateType /\ s.wire \in SUBSET EventType /\ s.seq \in Nat
      /\ s.fresh \in Nat /\ s.buffer \in Seq(Nat) /\ k \in Nat /\ k < s.fresh
  BY DEF Good, StateType, Linked, NoItem
<1>2. k \in AnnouncedOn(s.wire) \ FinishedOn(s.wire) /\ k \notin ToolItemsOf(s)
  BY <1>1 DEF Live, Books, ToolItemsOf
<1>3. ToolItemsOf(t) = ToolItemsOf(s)
  BY DEF ToolItemsOf
<1>4. /\ Orderly(t.wire, t.seq)
      /\ AnnouncedOn(t.wire) = AnnouncedOn(s.wire) /\ FinishedOn(t.wire) = FinishedOn(s.wire)
      /\ \A j : j # k => DeltasOn(t.wire, j) = DeltasOn(s.wire, j)
      /\ \A j : NotesOn(t.wire, j) = NotesOn(s.wire, j)
      /\ \A d \in t.wire : d.type = "item.done" => d \in s.wire
      /\ s.wire \subseteq t.wire
      /\ ActiveText(t)
  <2>1. CASE s.kind = "message" \/ s.expose
    <3>1. PICK e \in EventType : /\ t.wire = s.wire \cup {e}
                                 /\ e.seq = s.seq /\ e.type = "delta" /\ e.item = k /\ e.body = <<p>>
      BY <2>1
    <3>2. Grows(s.wire, e, t.wire)
      BY <3>1, WireGrows
    <3>3. MaySay(s.wire, e)
      BY <1>2, <3>1 DEF MaySay
    <3>4. Orderly(t.wire, t.seq)
      BY <1>1, <2>1, <3>1, <3>3, StaysOrderly DEF Live
    <3>5. Spell(DeltasOn(t.wire, k), t.buffer)
      <4> DEFINE D == DeltasOn(s.wire, k)
      <4>1. IsFiniteSet(D) /\ \A f \in D : f.seq \in Nat /\ f.seq < e.seq
        <5>1. D \in SUBSET s.wire /\ IsFiniteSet(s.wire)
          BY DEF DeltasOn, Live, Orderly
        <5>2. IsFiniteSet(D)
          BY <5>1, FS_Subset
        <5>3. \A f \in s.wire : f.seq \in Nat /\ f.seq < e.seq
          BY <1>1, <3>1 DEF Live, Orderly, EventType
        <5> QED BY <5>1, <5>2, <5>3
      <4>2. e \notin D /\ e.seq \in Nat /\ e.body[1] = p
        <5>1. e.seq \in Nat /\ e.body[1] = p
          BY <1>1, <3>1
        <5> QED BY <4>1, <5>1
      <4>3. Spell(D, s.buffer)
        BY <2>1 DEF Live, Text, ActiveText
      <4>4. DeltasOn(t.wire, k) = D \cup {e}
        BY <3>1, <3>2 DEF Grows
      <4> HIDE DEF D
      <4>5. Spell(D \cup {e}, Append(s.buffer, e.body[1]))
        BY <1>1, <4>1, <4>2, <4>3, SpellOn
      <4> QED BY <4>2, <4>4, <4>5
    <3>6. NotesOn(t.wire, k) = NotesOn(s.wire, k)
      BY <3>1, <3>2 DEF Grows
    <3>7. ActiveText(t)
      <4>1. t.notes = Cardinality(NotesOn(t.wire, k))
        BY <3>6 DEF Live, Text, ActiveText
      <4> QED BY <2>1, <3>5, <4>1 DEF ActiveText
    <3> QED BY <3>1, <3>2, <3>4, <3>7 DEF Grows
  <2>2. CASE ~(s.kind = "message" \/ s.expose)
    <3>1. t.wire = s.wire /\ t.seq = s.seq
      BY <2>2
    <3>2. ActiveText(t)
      BY <2>2, <3>1 DEF Live, Text, ActiveText
    <3> QED BY <3>1, <3>2 DEF Live
  <2> QED BY <2>1, <2>2
<1>5. Books(t)
  BY <1>3, <1>4 DEF Live, Books
<1>6. Text(t)
  <2>1. \A d \in s.wire : d.type = "item.done" => d.item # k
    BY <1>2 DEF FinishedOn
  <2>2. \A d \in s.wire : d.type = "item.done" /\ FinishedText(s, d) => FinishedText(t, d)
    BY <1>3, <1>4, <2>1 DEF FinishedText
  <2>3. \A i \in ToolIndices : t.tools[i].open => Spell(DeltasOn(t.wire, t.tools[i].item), t.tools[i].args)
    <3>1. \A i \in ToolIndices : t.tools[i].open => t.tools[i].item # k
      BY <1>2 DEF ToolItemsOf
    <3> QED BY <1>4, <3>1 DEF Live, Text
  <2> QED BY <1>4, <2>2, <2>3 DEF Live, Text
<1>7. Members(t.buffer) = Members(s.buffer) \cup {p}
  BY <1>1, MembersAppend
<1>8. \A n : TextDones(t, n) = TextDones(s, n)
  BY <1>3, <1>4 DEF TextDones
<1>9. Cardinality(TextDones(s, p)) \in Nat
  <2>1. TextDones(s, p) \in SUBSET s.wire /\ IsFiniteSet(s.wire)
    BY DEF TextDones, Live, Orderly
  <2> QED BY <2>1, FS_Subset, FS_CardinalityType
<1> QED BY <1>4, <1>5, <1>6, <1>7, <1>8, <1>9 DEF Live, Pieces

(* An annotation on the active item.                                           *)
LEMMA AddNoteLive ==
  ASSUME NEW s, Good(s), Live(s), s.kind # "none",
         NEW e \in EventType, e.seq = s.seq, e.type = "annotation", e.item = s.activeItem
  PROVE  LET t == Said([s EXCEPT !.notes = @ + 1], e)
         IN  Live(t) /\ \A n : Pieces(t, n) = Pieces(s, n)
<1> DEFINE g == [s EXCEPT !.notes = @ + 1]
           t == Said(g, e)
           k == s.activeItem
<1>1. /\ s \in StateType /\ s.wire \in SUBSET EventType /\ s.seq \in Nat /\ s.notes + 1 \in Nat
      /\ s.fresh \in Nat /\ k \in Nat /\ k < s.fresh
  BY DEF Good, StateType, Linked, NoItem
<1>2. g \in StateType
  BY <1>1 DEF StateType
<1>3. /\ t.seq = s.seq + 1 /\ t.wire = s.wire \cup {e} /\ t.fresh = s.fresh
      /\ t.kind = s.kind /\ t.activeItem = k /\ t.buffer = s.buffer /\ t.notes = s.notes + 1
      /\ t.tools = s.tools /\ t.finalOutput = s.finalOutput /\ t.expose = s.expose
  <2>1. /\ g.seq = s.seq /\ g.wire = s.wire /\ g.fresh = s.fresh
        /\ g.kind = s.kind /\ g.activeItem = k /\ g.buffer = s.buffer /\ g.notes = s.notes + 1
        /\ g.tools = s.tools /\ g.finalOutput = s.finalOutput /\ g.expose = s.expose
    BY <1>1 DEF StateType
  <2> HIDE DEF g
  <2> QED BY <1>2, <2>1, SaidFields
<1> HIDE DEF t, g
<1>4. k \in AnnouncedOn(s.wire) \ FinishedOn(s.wire) /\ k \notin ToolItemsOf(s) /\ MaySay(s.wire, e)
  BY <1>1 DEF Live, Books, MaySay, ToolItemsOf
<1>5. /\ AnnouncedOn(t.wire) = AnnouncedOn(s.wire) /\ FinishedOn(t.wire) = FinishedOn(s.wire)
      /\ ToolItemsOf(t) = ToolItemsOf(s)
      /\ \A j : DeltasOn(t.wire, j) = DeltasOn(s.wire, j)
      /\ \A j : j # k => NotesOn(t.wire, j) = NotesOn(s.wire, j)
      /\ NotesOn(t.wire, k) = NotesOn(s.wire, k) \cup {e}
  <2>1. Grows(s.wire, e, t.wire) /\ ToolItemsOf(t) = ToolItemsOf(s)
    BY <1>3, WireGrows DEF ToolItemsOf
  <2> QED BY <2>1 DEF Grows
<1>6. Orderly(t.wire, t.seq)
  BY <1>1, <1>3, <1>4, StaysOrderly DEF Live
<1>7. Books(t)
  BY <1>3, <1>5 DEF Live, Books
<1>8. Cardinality(NotesOn(t.wire, k)) = Cardinality(NotesOn(s.wire, k)) + 1
  <2>1. NotesOn(s.wire, k) \in SUBSET s.wire /\ IsFiniteSet(s.wire) /\ e \notin s.wire
    BY <1>1 DEF NotesOn, Live, Orderly
  <2>2. IsFiniteSet(NotesOn(s.wire, k)) /\ e \notin NotesOn(s.wire, k)
    BY <2>1, FS_Subset
  <2> QED BY <1>5, <2>2, FS_AddElement
<1>9. ActiveText(t)
  BY <1>3, <1>5, <1>8 DEF Live, Text, ActiveText
<1>10. Text(t)
  <2>1. \A d \in t.wire : d.type = "item.done" => d \in s.wire /\ d.item # k
    BY <1>3, <1>4 DEF FinishedOn
  <2>2. \A d \in s.wire : d.type = "item.done" /\ FinishedText(s, d) => FinishedText(t, d)
    BY <1>3, <1>5, <2>1 DEF FinishedText
  <2> QED BY <1>3, <1>5, <1>9, <2>1, <2>2, ZenonT(60) DEF Live, Text
<1>11. \A n : Pieces(t, n) = Pieces(s, n)
  BY <1>3, <1>5, PiecesKept
<1> QED BY <1>6, <1>7, <1>10, <1>11 DEF Live, t, g

(* A tool call begins.                                                         *)
LEMMA BeginToolLive ==
  ASSUME NEW s, Good(s), Live(s), s.kind = "none", NEW i \in ToolIndices, ~s.tools[i].open,
         NEW u \in ToolState, u.open, u.item = s.fresh, ~u.done, u.args = <<>>,
         NEW e \in EventType, e.seq = s.seq, e.type = "item.added", e.item = s.fresh,
         NEW t, t \in StateType, t.seq = s.seq + 1, t.wire = s.wire \cup {e}, t.fresh = s.fresh + 1,
         t.kind = "none", t.activeItem = s.activeItem, t.buffer = s.buffer, t.notes = s.notes,
         t.tools = [s.tools EXCEPT ![i] = u], t.finalOutput = s.finalOutput, t.expose = s.expose
  PROVE  Live(t) /\ \A n : Pieces(t, n) = Pieces(s, n)
<1> DEFINE k == s.fresh
<1>1. /\ s.wire \in SUBSET EventType /\ s.seq \in Nat /\ k \in Nat /\ k # NoItem
      /\ s.tools \in [ToolIndices -> ToolState]
  BY DEF Good, StateType, NoItem
<1>2. t.tools[i] = u /\ \A j \in ToolIndices : j # i => t.tools[j] = s.tools[j]
  BY <1>1
<1>3. k \notin AnnouncedOn(s.wire) /\ k \notin FinishedOn(s.wire) /\ MaySay(s.wire, e)
  BY <1>1 DEF Live, Books, MaySay, Orderly
<1>4. /\ AnnouncedOn(t.wire) = AnnouncedOn(s.wire) \cup {k} /\ FinishedOn(t.wire) = FinishedOn(s.wire)
      /\ \A j : DeltasOn(t.wire, j) = DeltasOn(s.wire, j) /\ NotesOn(t.wire, j) = NotesOn(s.wire, j)
  <2>1. Grows(s.wire, e, t.wire)
    BY WireGrows
  <2> QED BY <2>1 DEF Grows
<1>5. ToolItemsOf(t) = ToolItemsOf(s) \cup {k}
  BY <1>2 DEF ToolItemsOf
<1>6. Orderly(t.wire, t.seq)
  BY <1>1, <1>3, StaysOrderly DEF Live
<1>7. Books(t)
  <2>1. 0 .. k = (0 .. (k - 1)) \cup {k} /\ (k + 1) - 1 = k
    BY <1>1, SMTT(30)
  <2>2. AnnouncedOn(t.wire) = 0 .. (t.fresh - 1)
    BY <1>4, <2>1 DEF Live, Books
  <2>3. \A j \in ToolIndices :
          IF t.tools[j].open
          THEN /\ t.tools[j].item \in AnnouncedOn(t.wire)
               /\ t.tools[j].done <=> t.tools[j].item \in FinishedOn(t.wire)
          ELSE t.tools[j] = NoTool
    BY <1>2, <1>3, <1>4 DEF Live, Books
  <2>4. \A j, l \in ToolIndices :
          t.tools[j].open /\ t.tools[l].open /\ t.tools[j].item = t.tools[l].item => j = l
    BY <1>2, <1>3 DEF Live, Books
  <2>5. \A j \in AnnouncedOn(t.wire) : j \in FinishedOn(t.wire) \/ j \in ToolItemsOf(t)
    BY <1>4, <1>5 DEF Live, Books
  <2>6. FinishedOn(t.wire) = Members(t.finalOutput)
    BY <1>4 DEF Live, Books
  <2>7. \A m, n \in DOMAIN t.finalOutput : t.finalOutput[m] = t.finalOutput[n] => m = n
    BY DEF Live, Books
  <2> QED BY <2>2, <2>3, <2>4, <2>5, <2>6, <2>7 DEF Books
<1>8. Text(t)
  <2>1. \A d \in t.wire : d.type = "item.done" => d \in s.wire /\ d.item # k
    BY <1>3 DEF FinishedOn
  <2>2. \A d \in s.wire : d.type = "item.done" /\ FinishedText(s, d) => FinishedText(t, d)
    BY <1>4, <1>5, <2>1 DEF FinishedText
  <2>3. DeltasOn(s.wire, k) = {}
    BY <1>1, <1>3 DEF Live, Orderly, DeltasOn
  <2>4. Spell(DeltasOn(t.wire, k), u.args)
    BY <1>4, <2>3, FS_EmptySet DEF Spell
  <2>5. \A j \in ToolIndices : t.tools[j].open => Spell(DeltasOn(t.wire, t.tools[j].item), t.tools[j].args)
    <3>1. \A j \in ToolIndices : s.tools[j].open => Spell(DeltasOn(s.wire, s.tools[j].item), s.tools[j].args)
      BY DEF Live, Text
    <3>2. ASSUME NEW j \in ToolIndices, t.tools[j].open
          PROVE  Spell(DeltasOn(t.wire, t.tools[j].item), t.tools[j].args)
      <4>1. CASE j = i
        BY <1>2, <2>4, <4>1
      <4>2. CASE j # i
        <5>1. t.tools[j] = s.tools[j]
          BY <1>2, <4>2
        <5>2. Spell(DeltasOn(s.wire, s.tools[j].item), s.tools[j].args)
          BY <3>1, <3>2, <5>1
        <5> QED BY <1>4, <5>1, <5>2
      <4> QED BY <4>1, <4>2
    <3> QED BY <3>2
  <2>6. \A d \in s.wire, j \in ToolIndices : d.type = "item.done" /\ t.tools[j].open /\ t.tools[j].item = d.item
          => FinishedTool(t.tools[j], d)
    BY <1>2, <2>1 DEF Live, Text
  <2> QED BY <2>1, <2>2, <2>5, <2>6 DEF Live, Text
<1>9. \A n : Pieces(t, n) = Pieces(s, n)
  <2>1. \A j \in FinishedOn(s.wire) : j \in ToolItemsOf(t) <=> j \in ToolItemsOf(s)
    BY <1>3, <1>5
  <2>2. e.type # "item.done" /\ t.wire = s.wire \cup {e} /\ t.buffer = s.buffer
    OBVIOUS
  <2>3. \A n : TextDones(t, n) = TextDones(s, n)
    BY <2>1, <2>2 DEF TextDones, FinishedOn
  <2> QED BY <2>2, <2>3 DEF Pieces
<1> QED BY <1>6, <1>7, <1>8, <1>9 DEF Live

(* An unfinished tool call learns its name, or takes a piece of its arguments. *)
LEMMA ChangeToolLive ==
  ASSUME NEW s, Good(s), Live(s), NEW i \in ToolIndices, s.tools[i].open, ~s.tools[i].done,
         NEW u \in ToolState, u.open, u.item = s.tools[i].item, ~u.done,
         NEW t, t \in StateType,
         t.fresh = s.fresh,
         t.kind = s.kind, t.activeItem = s.activeItem, t.buffer = s.buffer, t.notes = s.notes,
         t.tools = [s.tools EXCEPT ![i] = u], t.finalOutput = s.finalOutput, t.expose = s.expose,
         \/ t.seq = s.seq /\ t.wire = s.wire /\ u.args = s.tools[i].args
         \/ \E e \in EventType : /\ e.seq = s.seq /\ e.type = "delta" /\ e.item = u.item
                                 /\ t.seq = s.seq + 1 /\ t.wire = s.wire \cup {e}
                                 /\ e.body[1] \in Nat /\ u.args = Append(s.tools[i].args, e.body[1])
  PROVE  Live(t) /\ \A n : Pieces(t, n) = Pieces(s, n)
<1> DEFINE k == u.item
<1>1. /\ s.wire \in SUBSET EventType /\ s.seq \in Nat
      /\ s.tools \in [ToolIndices -> ToolState] /\ s.tools[i].args \in Seq(Nat)
  BY DEF Good, StateType, ToolState
<1>2. t.tools[i] = u /\ \A j \in ToolIndices : j # i => t.tools[j] = s.tools[j]
  BY <1>1
<1>3. /\ k \in AnnouncedOn(s.wire) \ FinishedOn(s.wire)
      /\ s.kind # "none" => k # s.activeItem
      /\ \A j \in ToolIndices : j # i /\ s.tools[j].open => s.tools[j].item # k
  BY DEF Live, Books
<1>4. ToolItemsOf(t) = ToolItemsOf(s)
  BY <1>2 DEF ToolItemsOf
<1>5. /\ Orderly(t.wire, t.seq)
      /\ AnnouncedOn(t.wire) = AnnouncedOn(s.wire) /\ FinishedOn(t.wire) = FinishedOn(s.wire)
      /\ \A j : j # k => DeltasOn(t.wire, j) = DeltasOn(s.wire, j)
      /\ \A j : NotesOn(t.wire, j) = NotesOn(s.wire, j)
      /\ \A d \in t.wire : d.type = "item.done" => d \in s.wire
      /\ s.wire \subseteq t.wire
      /\ Spell(DeltasOn(t.wire, k), u.args)
  <2>1. CASE t.seq = s.seq /\ t.wire = s.wire /\ u.args = s.tools[i].args
    BY <2>1 DEF Live, Text
  <2>2. ASSUME NEW e \in EventType, e.seq = s.seq, e.type = "delta", e.item = u.item,
               t.seq = s.seq + 1, t.wire = s.wire \cup {e},
               e.body[1] \in Nat, u.args = Append(s.tools[i].args, e.body[1])
        PROVE  /\ Orderly(t.wire, t.seq)
               /\ AnnouncedOn(t.wire) = AnnouncedOn(s.wire) /\ FinishedOn(t.wire) = FinishedOn(s.wire)
               /\ \A j : j # k => DeltasOn(t.wire, j) = DeltasOn(s.wire, j)
               /\ \A j : NotesOn(t.wire, j) = NotesOn(s.wire, j)
               /\ \A d \in t.wire : d.type = "item.done" => d \in s.wire
               /\ s.wire \subseteq t.wire
               /\ Spell(DeltasOn(t.wire, k), u.args)
    <3>1. Grows(s.wire, e, t.wire)
      BY <2>2, WireGrows
    <3>2. MaySay(s.wire, e)
      BY <1>3, <2>2 DEF MaySay
    <3>3. Orderly(t.wire, t.seq)
      BY <1>1, <2>2, <3>2, StaysOrderly, SMTT(30) DEF Live
    <3>4. Spell(DeltasOn(t.wire, k), u.args)
      <4> DEFINE D == DeltasOn(s.wire, k)
      <4>1. IsFiniteSet(D) /\ \A f \in D : f.seq \in Nat /\ f.seq < e.seq
        <5>1. D \in SUBSET s.wire /\ IsFiniteSet(s.wire)
          BY DEF DeltasOn, Live, Orderly
        <5>2. IsFiniteSet(D)
          BY <5>1, FS_Subset
        <5>3. \A f \in s.wire : f.seq \in Nat /\ f.seq < e.seq
          BY <1>1, <2>2 DEF Live, Orderly, EventType
        <5> QED BY <5>1, <5>2, <5>3
      <4>2. e \notin D /\ e.seq \in Nat
        BY <1>1, <2>2, <4>1
      <4>3. Spell(D, s.tools[i].args)
        BY DEF Live, Text
      <4>4. DeltasOn(t.wire, k) = D \cup {e}
        BY <2>2, <3>1 DEF Grows
      <4> HIDE DEF D
      <4>5. Spell(D \cup {e}, Append(s.tools[i].args, e.body[1]))
        BY <1>1, <2>2, <4>1, <4>2, <4>3, SpellOn
      <4> QED BY <2>2, <4>4, <4>5
    <3> QED BY <2>2, <3>1, <3>3, <3>4 DEF Grows
  <2> QED BY <2>1, <2>2
<1>6. Books(t)
  BY <1>2, <1>3, <1>4, <1>5 DEF Live, Books
<1>7. Text(t)
  <2>1. \A d \in s.wire : d.type = "item.done" => d.item # k
    BY <1>3 DEF FinishedOn
  <2>2. \A d \in s.wire : d.type = "item.done" /\ FinishedText(s, d) => FinishedText(t, d)
    BY <1>4, <1>5, <2>1 DEF FinishedText
  <2>3. \A j \in ToolIndices : t.tools[j].open => Spell(DeltasOn(t.wire, t.tools[j].item), t.tools[j].args)
    BY <1>2, <1>3, <1>5 DEF Live, Text
  <2>4. \A d \in s.wire, j \in ToolIndices : d.type = "item.done" /\ t.tools[j].open /\ t.tools[j].item = d.item
          => FinishedTool(t.tools[j], d)
    BY <1>2, <2>1 DEF Live, Text
  <2>5. t.kind # "none" => ActiveText(t)
    BY <1>3, <1>5 DEF Live, Text, ActiveText
  <2>6. t.kind = "none" => t.buffer = <<>> /\ t.notes = 0
    BY DEF Live, Text
  <2> QED BY <1>5, <2>2, <2>3, <2>4, <2>5, <2>6 DEF Live, Text
<1>8. \A n : Pieces(t, n) = Pieces(s, n)
  <2>1. \A n : TextDones(t, n) = TextDones(s, n)
    BY <1>4, <1>5 DEF TextDones
  <2> QED BY <2>1 DEF Pieces
<1> QED BY <1>5, <1>6, <1>7, <1>8 DEF Live

(* A tool call ends.                                                           *)
LEMMA EndToolLive ==
  ASSUME NEW s, Good(s), Live(s), NEW i \in ToolIndices, s.tools[i].open, ~s.tools[i].done,
         NEW e \in EventType, e.seq = s.seq, e.type = "item.done", e.item = s.tools[i].item,
         e.body = SalvageToolCallArguments(s.tools[i]), e.extra = (IF s.tools[i].named THEN 1 ELSE 0),
         NEW t, t \in StateType, t.seq = s.seq + 1, t.wire = s.wire \cup {e}, t.fresh = s.fresh,
         t.kind = s.kind, t.activeItem = s.activeItem, t.buffer = s.buffer, t.notes = s.notes,
         t.tools = [s.tools EXCEPT ![i].done = TRUE], t.finalOutput = Append(s.finalOutput, e.item),
         t.expose = s.expose
  PROVE  Live(t) /\ \A n : Pieces(t, n) = Pieces(s, n)
<1> DEFINE k == e.item
           c == s.tools[i]
<1>1. /\ s.wire \in SUBSET EventType /\ s.seq \in Nat /\ s.finalOutput \in Seq(Nat)
      /\ s.tools \in [ToolIndices -> ToolState] /\ c \in ToolState /\ k \in Nat
  BY DEF Good, StateType, Linked, ToolState
<1>2. /\ t.tools[i].open /\ t.tools[i].item = k /\ t.tools[i].done /\ t.tools[i].args = c.args
      /\ t.tools[i].parses = c.parses /\ t.tools[i].named = c.named
      /\ \A j \in ToolIndices : j # i => t.tools[j] = s.tools[j]
  BY <1>1 DEF ToolState
<1>3. /\ k \in AnnouncedOn(s.wire) \ FinishedOn(s.wire)
      /\ s.kind # "none" => k # s.activeItem
      /\ \A j \in ToolIndices : j # i /\ s.tools[j].open => s.tools[j].item # k
      /\ MaySay(s.wire, e)
  BY DEF Live, Books, MaySay
<1>4. ToolItemsOf(t) = ToolItemsOf(s) /\ k \in ToolItemsOf(t)
  BY <1>2 DEF ToolItemsOf
<1>5. /\ AnnouncedOn(t.wire) = AnnouncedOn(s.wire) /\ FinishedOn(t.wire) = FinishedOn(s.wire) \cup {k}
      /\ \A j : DeltasOn(t.wire, j) = DeltasOn(s.wire, j) /\ NotesOn(t.wire, j) = NotesOn(s.wire, j)
  <2>1. Grows(s.wire, e, t.wire)
    BY WireGrows
  <2> QED BY <2>1 DEF Grows
<1>6. Orderly(t.wire, t.seq)
  <2>1. Orderly(s.wire, s.seq) /\ t.wire = s.wire \cup {e} /\ t.seq = s.seq + 1
    BY DEF Live
  <2>2. Orderly(s.wire \cup {e}, s.seq + 1)
    BY <1>1, <1>3, <2>1, StaysOrderly
  <2> QED BY <2>1, <2>2
<1>7. Books(t)
  <2>1. Members(t.finalOutput) = Members(s.finalOutput) \cup {k}
    BY <1>1, MembersAppend
  <2>2. \A m, n \in DOMAIN t.finalOutput : t.finalOutput[m] = t.finalOutput[n] => m = n
    <3>1. \A m \in DOMAIN s.finalOutput : s.finalOutput[m] # k
      BY <1>3 DEF Live, Books, Members
    <3> QED BY <1>1, <3>1 DEF Live, Books
  <2>3. \A j \in ToolIndices :
          IF t.tools[j].open
          THEN /\ t.tools[j].item \in AnnouncedOn(t.wire)
               /\ t.tools[j].done <=> t.tools[j].item \in FinishedOn(t.wire)
               /\ t.kind # "none" => t.tools[j].item # t.activeItem
          ELSE t.tools[j] = NoTool
    BY <1>2, <1>3, <1>5, ZenonT(60) DEF Live, Books
  <2>4. \A j, l \in ToolIndices :
          t.tools[j].open /\ t.tools[l].open /\ t.tools[j].item = t.tools[l].item => j = l
    BY <1>2, <1>3 DEF Live, Books
  <2>5. \A j \in AnnouncedOn(t.wire) :
          j \in FinishedOn(t.wire) \/ (t.kind # "none" /\ j = t.activeItem) \/ j \in ToolItemsOf(t)
    BY <1>4, <1>5 DEF Live, Books
  <2>6. FinishedOn(t.wire) = Members(t.finalOutput)
    BY <1>5, <2>1 DEF Live, Books
  <2>7. AnnouncedOn(t.wire) = 0 .. (t.fresh - 1) /\ (t.kind # "none" => t.activeItem \notin FinishedOn(t.wire))
    BY <1>3, <1>5 DEF Live, Books
  <2> QED BY <2>2, <2>3, <2>4, <2>5, <2>6, <2>7 DEF Books
<1>8. FinishedText(t, e) /\ FinishedTool(t.tools[i], e)
  <2>1. Spell(DeltasOn(t.wire, k), c.args)
    BY <1>5 DEF Live, Text
  <2>2. e.body = c.args \/ e.body = Braces
    BY DEF SalvageToolCallArguments
  <2>3. FinishedText(t, e)
    BY <1>4, <2>1, <2>2 DEF FinishedText
  <2>4. c.named \in BOOLEAN
    BY <1>1 DEF ToolState
  <2> QED BY <1>2, <2>3, <2>4 DEF FinishedTool, SalvageToolCallArguments
<1>9. Text(t)
  <2>1. \A d \in s.wire : d.type = "item.done" => d.item # k
    BY <1>3 DEF FinishedOn
  <2>2. \A d \in s.wire : d.type = "item.done" /\ FinishedText(s, d) => FinishedText(t, d)
    BY <1>4, <1>5 DEF FinishedText
  <2>3. \A j \in ToolIndices : t.tools[j].open => Spell(DeltasOn(t.wire, t.tools[j].item), t.tools[j].args)
    <3>1. \A j \in ToolIndices : s.tools[j].open => Spell(DeltasOn(s.wire, s.tools[j].item), s.tools[j].args)
      BY DEF Live, Text
    <3>2. ASSUME NEW j \in ToolIndices, t.tools[j].open
          PROVE  Spell(DeltasOn(t.wire, t.tools[j].item), t.tools[j].args)
      <4>1. s.tools[j].open /\ t.tools[j].item = s.tools[j].item /\ t.tools[j].args = s.tools[j].args
        BY <1>2, <3>2
      <4>2. DeltasOn(t.wire, t.tools[j].item) = DeltasOn(s.wire, s.tools[j].item)
        BY <1>5, <4>1
      <4>3. Spell(DeltasOn(s.wire, s.tools[j].item), s.tools[j].args)
        BY <3>1, <4>1
      <4> QED BY <4>1, <4>2, <4>3
    <3> QED BY <3>2
  <2>4. \A d \in t.wire, j \in ToolIndices : d.type = "item.done" /\ t.tools[j].open /\ t.tools[j].item = d.item
          => FinishedTool(t.tools[j], d)
    BY <1>2, <1>3, <1>8, <2>1 DEF Live, Text
  <2>5. t.kind # "none" => ActiveText(t)
    <3>1. s.kind # "none" => ActiveText(s)
      BY DEF Live, Text
    <3>2. /\ DeltasOn(t.wire, t.activeItem) = DeltasOn(s.wire, s.activeItem)
          /\ NotesOn(t.wire, t.activeItem) = NotesOn(s.wire, s.activeItem)
      BY <1>5
    <3> QED BY <3>1, <3>2 DEF ActiveText
  <2>6. t.kind = "none" => t.buffer = <<>> /\ t.notes = 0
    BY DEF Live, Text
  <2>7. \A d \in t.wire : d.type = "item.done" => FinishedText(t, d)
    BY <1>8, <2>2 DEF Live, Text
  <2> QED BY <2>3, <2>4, <2>5, <2>6, <2>7 DEF Text
<1>10. \A n : Pieces(t, n) = Pieces(s, n)
  <2>1. \A j \in FinishedOn(s.wire) : j \in ToolItemsOf(t) <=> j \in ToolItemsOf(s)
    BY <1>4
  <2>2. e.item \in ToolItemsOf(t) /\ t.wire = s.wire \cup {e} /\ t.buffer = s.buffer
    BY <1>4
  <2>3. \A n : TextDones(t, n) = TextDones(s, n)
    BY <2>1, <2>2 DEF TextDones, FinishedOn
  <2> QED BY <2>2, <2>3 DEF Pieces
<1> QED BY <1>6, <1>7, <1>9, <1>10 DEF Live

--------------------------------------------------------------------------------
(* Steps of the translator, as they follow each other.                         *)

(* A step of the translator: it neither opens nor closes the sink, a closed    *)
(* sink receives nothing, and what is announced and finished only grows.       *)
Follows(s, t) ==
  /\ t.closed = s.closed /\ t.expose = s.expose
  /\ s.closed => t.wire = s.wire
  /\ t.fresh >= s.fresh
  /\ Members(s.finalOutput) \subseteq Members(t.finalOutput)

(* A step that keeps the pieces of text as they are, and adds none.            *)
Quiet(s, t) == Live(t) /\ \A n : Pieces(t, n) = Pieces(s, n)

(* Steps follow on from each other.                                            *)
LEMMA FollowsOn ==
  ASSUME NEW r \in StateType, NEW s \in StateType, NEW t \in StateType, Follows(r, s), Follows(s, t)
  PROVE  Follows(r, t)
BY SMTT(30) DEF Follows, StateType

(* Sending an event is a step.                                                 *)
LEMMA EmitFollows ==
  ASSUME NEW s \in StateType, NEW type, NEW item, NEW index, NEW body, NEW extra
  PROVE  Follows(s, Emit(s, type, item, index, body, extra))
<1> DEFINE t == Emit(s, type, item, index, body, extra)
<1>1. /\ t.closed = s.closed /\ t.expose = s.expose /\ t.fresh = s.fresh /\ t.finalOutput = s.finalOutput
  BY EmitKeeps
<1>2. s.closed => t.wire = s.wire
  BY DEF Emit, StateType
<1>3. s.fresh \in Nat
  BY DEF StateType
<1> QED BY <1>1, <1>2, <1>3 DEF Follows

(* Events about an active item that is not finished may be sent.               *)
LEMMA MayEndActive ==
  ASSUME NEW s, Good(s), Live(s), s.kind # "none", NEW e, e.item = s.activeItem,
         e.type \in {"text.done", "item.done", "delta", "annotation"}
  PROVE  MaySay(s.wire, e)
<1>1. s.activeItem \in 0 .. (s.fresh - 1)
  BY DEF Good, StateType, Linked, NoItem
<1> QED BY <1>1 DEF Live, Books, MaySay

(* Ending the active item.                                                     *)
LEMMA FinalizeActiveStep ==
  ASSUME NEW s, Good(s)
  PROVE  LET t == FinalizeActive(s)
         IN  Follows(s, t) /\ t.tools = s.tools /\ (~s.closed /\ Live(s) => Quiet(s, t))
<1>1. CASE s.kind = "none"
  <2>1. FinalizeActive(s) = s /\ s \in StateType
    BY <1>1 DEF FinalizeActive, Good
  <2> QED BY <2>1 DEF Follows, Quiet, StateType
<1>2. CASE s.kind # "none"
  <2> DEFINE text == IF s.kind = "message" \/ s.expose
                     THEN Emit(s, "text.done", s.activeItem, ActiveIndex(s), s.buffer, 0)
                     ELSE s
             done == Emit(text, "item.done", s.activeItem, ActiveIndex(s), s.buffer, s.notes)
             end == [done EXCEPT !.finalOutput = Append(@, s.activeItem), !.kind = "none",
                        !.activeItem = NoItem, !.buffer = <<>>, !.notes = 0]
  <2>1. /\ s.activeItem \in Nat /\ ActiveIndex(s) \in Nat /\ s.activeItem = ActiveIndex(s)
        /\ s.buffer \in Seq(Nat) /\ s.notes \in Nat /\ {"text.done", "item.done"} \subseteq EventNames
        /\ s.activeItem \in Int /\ s \in StateType /\ s.seq \in Nat
    BY <1>2 DEF Good, Linked, StateType, ActiveIndex, EventNames, NoItem
  <2>2. /\ Good(text) /\ Follows(s, text)
        /\ text.kind = s.kind /\ text.activeItem = s.activeItem /\ text.buffer = s.buffer
        /\ text.notes = s.notes /\ text.tools = s.tools /\ text.closed = s.closed
    <3>1. CASE s.kind = "message" \/ s.expose
      <4>1. Good(Emit(s, "text.done", s.activeItem, ActiveIndex(s), s.buffer, 0))
        BY <2>1, EmitGood
      <4> QED BY <2>1, <3>1, <4>1, EmitFollows, EmitKeeps
    <3>2. CASE ~(s.kind = "message" \/ s.expose)
      <4>1. Follows(s, s)
        BY <2>1 DEF Follows, StateType
      <4> QED BY <3>2, <4>1
    <3> QED BY <3>1, <3>2
  <2>3. ~s.closed /\ Live(s) => Quiet(s, text)
    <3>1. CASE s.kind = "message" \/ s.expose
      <4> SUFFICES ASSUME ~s.closed, Live(s) PROVE Quiet(s, text)
        OBVIOUS
      <4> DEFINE e == [seq |-> s.seq, type |-> "text.done", item |-> s.activeItem,
                       index |-> ActiveIndex(s), body |-> s.buffer, extra |-> 0]
      <4>1. text = Said(s, e)
        BY <2>1, <3>1, EmitSays
      <4>2. e \in EventType /\ e.seq = s.seq /\ e.type = "text.done" /\ e.item = s.activeItem
        BY <2>1 DEF EventType
      <4> HIDE DEF e, text
      <4>3. MaySay(s.wire, e)
        BY <1>2, <4>2, MayEndActive
      <4> QED BY <4>1, <4>2, <4>3, RemarkLive DEF Quiet
    <3>2. CASE ~(s.kind = "message" \/ s.expose)
      BY <3>2 DEF Quiet
    <3> QED BY <3>1, <3>2
  <2> HIDE DEF text
  <2>4. Good(done) /\ Follows(text, done) /\ done.tools = s.tools /\ done.finalOutput = text.finalOutput
    <3>1. Good(done)
      BY <2>1, <2>2, EmitGood
    <3> QED BY <2>1, <2>2, <3>1, EmitFollows, EmitKeeps DEF Good
  <2>5. Quiet(s, text) /\ ~s.closed => Quiet(text, end)
    <3> SUFFICES ASSUME Quiet(s, text), ~s.closed PROVE Quiet(text, end)
      OBVIOUS
    <3> DEFINE e == [seq |-> text.seq, type |-> "item.done", item |-> text.activeItem,
                     index |-> ActiveIndex(s), body |-> text.buffer, extra |-> text.notes]
    <3>1. text \in StateType /\ text.seq \in Nat
      BY <2>2 DEF Good, StateType
    <3>2. done = Said(text, e)
      BY <2>1, <2>2, <3>1, EmitSays
    <3>3. /\ e \in EventType /\ e.seq = text.seq /\ e.type = "item.done" /\ e.item = text.activeItem
          /\ e.body = text.buffer /\ e.extra = text.notes
      BY <2>1, <2>2, <3>1 DEF EventType
    <3> DEFINE last == [Said(text, e) EXCEPT !.finalOutput = Append(@, text.activeItem), !.kind = "none",
                                     !.activeItem = NoItem, !.buffer = <<>>, !.notes = 0]
    <3>4. end = last
      BY <2>2, <3>2
    <3> HIDE DEF e, end
    <3>5. Live(last) /\ \A n : Pieces(last, n) = Pieces(text, n)
      BY <1>2, <2>2, <3>3, EndTextLive DEF Quiet
    <3> QED BY <3>4, <3>5 DEF Quiet
  <2> HIDE DEF done
  <2>6. Follows(done, end) /\ end.tools = s.tools /\ end \in StateType
    <3>1. /\ done \in StateType /\ done.finalOutput \in Seq(Nat) /\ done.fresh \in Nat
      BY <2>4 DEF Good, StateType
    <3>2. end \in StateType
      <4>1. <<>> \in Seq(Nat) /\ "none" \in {"none", "reasoning", "message"} /\ 0 \in Nat
        OBVIOUS
      <4>2. Append(done.finalOutput, s.activeItem) \in Seq(Nat)
        BY <2>1, <3>1
      <4> QED BY <3>1, <4>1, <4>2 DEF StateType
    <3>3. /\ end.finalOutput = Append(done.finalOutput, s.activeItem) /\ end.fresh = done.fresh
          /\ end.closed = done.closed /\ end.expose = done.expose /\ end.wire = done.wire
          /\ end.tools = done.tools
      BY <3>1 DEF StateType
    <3>4. Members(done.finalOutput) \subseteq Members(end.finalOutput)
      BY <2>1, <3>1, <3>3, MembersAppend
    <3> HIDE DEF end
    <3> QED BY <2>4, <3>1, <3>2, <3>3, <3>4 DEF Follows
  <2>7. FinalizeActive(s) = end
    BY <1>2 DEF FinalizeActive, done, text
  <2> HIDE DEF end
  <2>8. Follows(s, end)
    <3>1. Follows(s, done)
      BY <2>1, <2>2, <2>4, FollowsOn DEF Good
    <3> QED BY <2>1, <2>4, <2>6, <3>1, FollowsOn DEF Good
  <2> QED BY <2>3, <2>5, <2>6, <2>7, <2>8 DEF Quiet
<1> QED BY <1>1, <1>2

(* Opening a text item.                                                        *)
LEMMA OpenTextStep ==
  ASSUME NEW s, Good(s), NEW kind \in {"reasoning", "message"}
  PROVE  LET t == OpenText(s, kind)
         IN  /\ Follows(s, t) /\ t.tools = s.tools /\ t.buffer = <<>>
             /\ ~s.closed /\ Live(s) => Quiet(s, t)
<1> DEFINE f == FinalizeActive(s)
           g == [f EXCEPT !.kind = kind, !.activeItem = f.fresh, !.buffer = <<>>,
                          !.fresh = @ + 1, !.outputIndex = @ + 1]
           n == IF kind = "message" THEN 1 ELSE 0
           t == Emit(g, "item.added", f.fresh, f.outputIndex, <<>>, n)
<1>1. /\ Good(f) /\ f.kind = "none" /\ Follows(s, f) /\ f.tools = s.tools
      /\ ~s.closed /\ Live(s) => Quiet(s, f)
  BY FinalizeActiveGood, FinalizeActiveStep
<1> HIDE DEF f
<1>2. f \in StateType /\ f.fresh \in Nat /\ f.outputIndex \in Nat /\ f.fresh = f.outputIndex /\ s \in StateType
      /\ f.seq \in Nat
  BY <1>1 DEF Good, StateType, Linked
<1>3. g \in StateType
  <2>1. <<>> \in Seq(Nat) /\ kind \in {"none", "reasoning", "message"} /\ f.fresh + 1 \in Nat
        /\ f.outputIndex + 1 \in Nat
    BY <1>2
  <2> QED BY <1>2, <2>1 DEF StateType
<1>4. /\ g.kind = kind /\ g.buffer = <<>> /\ g.fresh = f.fresh + 1 /\ g.finalOutput = f.finalOutput
      /\ g.tools = f.tools /\ g.wire = f.wire /\ g.closed = f.closed /\ g.expose = f.expose /\ g.seq = f.seq
  BY <1>2 DEF StateType
<1>5. Follows(f, g)
  BY <1>2, <1>4 DEF Follows
<1>6. Follows(g, t) /\ t.tools = g.tools /\ t.buffer = g.buffer /\ t \in StateType
  <2>1. Follows(g, t) /\ t.tools = g.tools /\ t.buffer = g.buffer
    <3> HIDE DEF g, n
    <3> QED BY <1>3, EmitFollows, EmitKeeps
  <2>2. OpenText(s, kind) \in StateType
    BY OpenTextGood DEF Good
  <2> QED BY <2>1, <2>2 DEF OpenText, f
<1>7. Follows(s, t)
  <2> HIDE DEF g, t
  <2>1. Follows(s, g)
    BY <1>1, <1>2, <1>3, <1>5, FollowsOn
  <2> QED BY <1>2, <1>3, <1>6, <2>1, FollowsOn
<1>8. Quiet(s, f) /\ ~f.closed => Quiet(f, t)
  <2> SUFFICES ASSUME Quiet(s, f), ~f.closed PROVE Quiet(f, t)
    OBVIOUS
  <2> DEFINE e == [seq |-> f.seq, type |-> "item.added", item |-> f.fresh, index |-> f.outputIndex,
                   body |-> <<>>, extra |-> n]
  <2>1. t = Said(g, e)
    <3> HIDE DEF g
    <3> QED BY <1>3, <1>4, EmitSays
  <2>2. e \in EventType /\ e.seq = f.seq /\ e.type = "item.added" /\ e.item = f.fresh
    BY <1>2 DEF EventType, EventNames
  <2> HIDE DEF e, t
  <2>3. Live(Said(g, e)) /\ \A m : Pieces(Said(g, e), m) = Pieces(f, m)
    BY <1>1, <2>2, BeginTextLive DEF Quiet
  <2> QED BY <2>1, <2>3 DEF Quiet
<1>9. OpenText(s, kind) = t
  BY DEF OpenText, f
<1>10. f.closed = s.closed
  BY <1>1 DEF Follows
<1> HIDE DEF t, g
<1> QED BY <1>1, <1>4, <1>6, <1>7, <1>8, <1>9, <1>10 DEF Quiet

(* An item that is open, or opened for the text that comes.                    *)
LEMMA EnsureOpenStep ==
  ASSUME NEW s, Good(s), NEW kind \in {"reasoning", "message"}
  PROVE  LET t == EnsureOpen(s, kind)
         IN  /\ Follows(s, t) /\ t.tools = s.tools
             /\ (s.kind = kind /\ t = s) \/ t.buffer = <<>>
             /\ ~s.closed /\ Live(s) => Quiet(s, t)
<1>1. CASE s.kind = kind
  <2>1. EnsureOpen(s, kind) = s /\ s \in StateType
    BY <1>1 DEF EnsureOpen, Good
  <2> QED BY <1>1, <2>1 DEF Follows, Quiet, StateType
<1>2. CASE s.kind # kind
  BY <1>2, OpenTextStep DEF EnsureOpen
<1> QED BY <1>1, <1>2

(* One piece more: it is in one text item more than before.                    *)
LEMMA AddTextStep ==
  ASSUME NEW s, Good(s), NEW kind \in {"reasoning", "message"}, NEW p \in Nat
  PROVE  LET t == AddText(s, kind, p)
         IN  /\ Follows(s, t) /\ t.tools = s.tools /\ t.kind = kind
             /\ ~s.closed /\ Live(s) =>
                  /\ Live(t)
                  /\ \A n : n # p => Pieces(t, n) = Pieces(s, n)
                  /\ (s.kind = kind => p \notin Members(s.buffer)) => Pieces(t, p) = Pieces(s, p) + 1
<1> DEFINE o == EnsureOpen(s, kind)
           b == [o EXCEPT !.buffer = Append(@, p)]
           t == IF kind = "message" \/ s.expose
                THEN Emit(b, "delta", b.activeItem, ActiveIndex(b), <<p>>, 0)
                ELSE b
<1>1. /\ Good(o) /\ o.kind = kind /\ Follows(s, o) /\ o.tools = s.tools
      /\ (s.kind = kind /\ o = s) \/ o.buffer = <<>>
      /\ ~s.closed /\ Live(s) => Quiet(s, o)
  BY EnsureOpenGood, EnsureOpenStep
<1>2. AddText(s, kind, p) = t
  BY DEF AddText
<1> HIDE DEF o
<1>3. o \in StateType /\ Append(o.buffer, p) \in Seq(Nat) /\ s \in StateType /\ o.expose = s.expose /\ o.closed = s.closed
      /\ o.seq \in Nat
  BY <1>1 DEF Good, StateType, Follows
<1>4. b \in StateType
  BY <1>3 DEF StateType
<1>5. /\ b.buffer = Append(o.buffer, p)
      /\ b.kind = o.kind /\ b.activeItem = o.activeItem /\ b.fresh = o.fresh /\ b.notes = o.notes
      /\ b.outputIndex = o.outputIndex /\ b.tools = o.tools /\ b.wire = o.wire /\ b.seq = o.seq
      /\ b.expose = o.expose /\ b.closed = o.closed /\ b.finalOutput = o.finalOutput
  BY <1>3 DEF StateType
<1> HIDE DEF b
<1>6. Follows(o, b)
  BY <1>3, <1>5 DEF Follows, StateType
<1>7. /\ Follows(b, t) /\ t.tools = b.tools /\ t.kind = b.kind /\ t.activeItem = b.activeItem
      /\ t.fresh = b.fresh /\ t.notes = b.notes /\ t.buffer = b.buffer /\ t.finalOutput = b.finalOutput
      /\ t.expose = b.expose
  <2>1. CASE kind = "message" \/ s.expose
    BY <1>4, <2>1, EmitFollows, EmitKeeps
  <2>2. CASE ~(kind = "message" \/ s.expose)
    BY <1>4, <2>2 DEF Follows, StateType
  <2> QED BY <2>1, <2>2
<1>8. t \in StateType
  BY <1>2, AddTextGood DEF Good
<1>9. Follows(s, t)
  <2> HIDE DEF t
  <2>1. Follows(s, b)
    BY <1>1, <1>3, <1>4, <1>6, FollowsOn
  <2> QED BY <1>3, <1>4, <1>7, <1>8, <2>1, FollowsOn
<1>10. ASSUME ~s.closed
       PROVE  IF o.kind = "message" \/ o.expose
              THEN t.seq = o.seq + 1 /\ \E e \in EventType :
                /\ t.wire = o.wire \cup {e}
                /\ e.seq = o.seq /\ e.type = "delta" /\ e.item = o.activeItem /\ e.body = <<p>>
              ELSE t.seq = o.seq /\ t.wire = o.wire
  <2>1. CASE kind = "message" \/ s.expose
    <3> DEFINE e == [seq |-> b.seq, type |-> "delta", item |-> b.activeItem, index |-> ActiveIndex(b),
                     body |-> <<p>>, extra |-> 0]
    <3>1. t = Said(b, e)
      BY <1>3, <1>4, <1>5, <1>10, <2>1, EmitSays
    <3>2. e \in EventType
      <4>1. /\ b.activeItem \in Int /\ ActiveIndex(b) \in Int /\ <<p>> \in Seq(Nat) /\ b.seq \in Nat
            /\ "delta" \in EventNames
        BY <1>4 DEF StateType, ActiveIndex, EventNames, NoItem
      <4> QED BY <4>1 DEF EventType
    <3>3. e.seq = o.seq /\ e.type = "delta" /\ e.item = o.activeItem /\ e.body = <<p>>
      BY <1>5
    <3> HIDE DEF e, t
    <3>4. t.seq = o.seq + 1 /\ t.wire = o.wire \cup {e}
      BY <1>4, <1>5, <3>1, SaidFields
    <3> QED BY <1>1, <1>3, <2>1, <3>2, <3>3, <3>4
  <2>2. CASE ~(kind = "message" \/ s.expose)
    BY <1>1, <1>3, <1>5, <2>2
  <2> QED BY <2>1, <2>2
<1> HIDE DEF t
<1>11. ASSUME ~s.closed, Live(s)
       PROVE  /\ Live(t)
              /\ \A n : n # p => Pieces(t, n) = Pieces(s, n)
              /\ (s.kind = kind => p \notin Members(s.buffer)) => Pieces(t, p) = Pieces(s, p) + 1
  <2>1. Live(o) /\ \A n : Pieces(o, n) = Pieces(s, n)
    BY <1>1, <1>11 DEF Quiet
  <2>2. /\ Live(t)
        /\ \A n : n # p => Pieces(t, n) = Pieces(o, n)
        /\ p \notin Members(o.buffer) => Pieces(t, p) = Pieces(o, p) + 1
    BY <1>1, <1>5, <1>7, <1>8, <1>10, <1>11, <2>1, AddPieceLive
  <2>3. (s.kind = kind => p \notin Members(s.buffer)) => p \notin Members(o.buffer)
    BY <1>1 DEF Members
  <2> QED BY <2>1, <2>2, <2>3
<1> QED BY <1>1, <1>2, <1>5, <1>7, <1>9, <1>11

(* An annotation.                                                              *)
LEMMA AddNoteStep ==
  ASSUME NEW s, Good(s)
  PROVE  LET t == AddNote(s)
         IN  Follows(s, t) /\ t.tools = s.tools /\ (~s.closed /\ Live(s) => Quiet(s, t))
<1> DEFINE o == EnsureOpen(s, "message")
           b == [o EXCEPT !.notes = @ + 1]
           t == Emit(b, "annotation", o.activeItem, ActiveIndex(o), <<>>, o.notes)
<1>1. /\ Good(o) /\ o.kind = "message" /\ Follows(s, o) /\ o.tools = s.tools
      /\ ~s.closed /\ Live(s) => Quiet(s, o)
  BY EnsureOpenGood, EnsureOpenStep
<1>2. AddNote(s) = t
  BY DEF AddNote
<1> HIDE DEF o
<1>3. /\ o \in StateType /\ o.notes + 1 \in Nat /\ s \in StateType /\ o.closed = s.closed /\ o.seq \in Nat
      /\ o.notes \in Nat
  BY <1>1 DEF Good, StateType, Follows
<1>4. b \in StateType
  BY <1>3 DEF StateType
<1>5. /\ b.fresh = o.fresh /\ b.tools = o.tools /\ b.wire = o.wire /\ b.seq = o.seq
      /\ b.expose = o.expose /\ b.closed = o.closed /\ b.finalOutput = o.finalOutput
  BY <1>3 DEF StateType
<1>6. Follows(o, b)
  BY <1>3, <1>5 DEF Follows, StateType
<1>7. Follows(b, t) /\ t.tools = b.tools /\ t \in StateType
  <2>1. t \in StateType
    BY <1>2, AddNoteGood DEF Good
  <2> HIDE DEF b
  <2> QED BY <1>4, <2>1, EmitFollows, EmitKeeps
<1>8. Follows(s, t)
  <2> HIDE DEF b, t
  <2>1. Follows(s, b)
    BY <1>1, <1>3, <1>4, <1>6, FollowsOn
  <2> QED BY <1>3, <1>4, <1>7, <2>1, FollowsOn
<1>9. ASSUME ~s.closed, Live(s) PROVE Quiet(s, t)
  <2> DEFINE e == [seq |-> b.seq, type |-> "annotation", item |-> o.activeItem, index |-> ActiveIndex(o),
                   body |-> <<>>, extra |-> o.notes]
  <2>1. t = Said(b, e)
    <3> HIDE DEF b
    <3> QED BY <1>3, <1>4, <1>5, <1>9, EmitSays
  <2>2. e \in EventType
    <3>1. /\ o.activeItem \in Int /\ ActiveIndex(o) \in Int /\ <<>> \in Seq(Nat) /\ b.seq \in Nat
          /\ "annotation" \in EventNames
      BY <1>3, <1>5 DEF StateType, ActiveIndex, EventNames, NoItem
    <3> QED BY <1>3, <3>1 DEF EventType
  <2>3. e.seq = o.seq /\ e.type = "annotation" /\ e.item = o.activeItem
    BY <1>5
  <2> HIDE DEF e, t
  <2>4. Live(o) /\ \A n : Pieces(o, n) = Pieces(s, n)
    BY <1>1, <1>9 DEF Quiet
  <2>5. Live(Said(b, e)) /\ \A n : Pieces(Said(b, e), n) = Pieces(o, n)
    BY <1>1, <2>2, <2>3, <2>4, AddNoteLive
  <2> QED BY <2>1, <2>4, <2>5 DEF Quiet
<1> HIDE DEF t, b
<1> QED BY <1>1, <1>2, <1>5, <1>7, <1>8, <1>9

(* A tool call is announced.                                                   *)
LEMMA OpenToolCallStep ==
  ASSUME NEW s, Good(s), NEW d \in ToolDeltas, ~s.tools[d.index].open
  PROVE  LET t == OpenToolCall(s, d)
         IN  /\ Follows(s, t)
             /\ t.tools[d.index].named = d.named /\ ~t.tools[d.index].done
             /\ \A j \in ToolIndices : j # d.index => t.tools[j] = s.tools[j]
             /\ ~s.closed /\ Live(s) => Quiet(s, t)
<1> DEFINE f == FinalizeActive(s)
           i == d.index
           u == [NoTool EXCEPT !.open = TRUE, !.item = f.fresh, !.index = f.outputIndex,
                               !.named = d.named]
           g == [f EXCEPT !.tools[d.index] = u, !.fresh = @ + 1, !.outputIndex = @ + 1]
           n == IF u.named THEN 1 ELSE 0
           t == Emit(g, "item.added", u.item, u.index, <<>>, n)
<1>1. /\ Good(f) /\ f.kind = "none" /\ Follows(s, f) /\ f.tools = s.tools
      /\ ~s.closed /\ Live(s) => Quiet(s, f)
  BY FinalizeActiveGood, FinalizeActiveStep
<1>2. OpenToolCall(s, d) = t
  BY DEF OpenToolCall
<1>3. i \in ToolIndices /\ d.named \in BOOLEAN
  BY DEF ToolDeltas
<1> HIDE DEF f
<1>4. f \in StateType /\ f.fresh \in Nat /\ f.outputIndex \in Nat /\ f.fresh = f.outputIndex
      /\ f.tools \in [ToolIndices -> ToolState] /\ s \in StateType /\ f.seq \in Nat /\ f.closed = s.closed
  BY <1>1 DEF Good, StateType, Linked, Follows
<1>5. /\ u \in ToolState /\ u.open /\ u.item = f.fresh /\ u.index = f.outputIndex /\ u.named = d.named
      /\ ~u.done /\ u.args = <<>>
  <2>1. NoTool \in ToolState /\ ~NoTool.done /\ NoTool.args = <<>>
    BY DEF NoTool, ToolState, NoItem
  <2>2. f.fresh \in Int /\ f.outputIndex \in Int
    BY <1>4
  <2> QED BY <1>3, <2>1, <2>2 DEF ToolState
<1> HIDE DEF u
<1>6. g \in StateType
  <2>1. f.fresh + 1 \in Nat /\ f.outputIndex + 1 \in Nat /\ [f.tools EXCEPT ![i] = u] \in [ToolIndices -> ToolState]
    BY <1>3, <1>4, <1>5
  <2> QED BY <1>4, <2>1 DEF StateType
<1>7. /\ g.kind = f.kind /\ g.activeItem = f.activeItem /\ g.buffer = f.buffer /\ g.notes = f.notes
      /\ g.fresh = f.fresh + 1 /\ g.finalOutput = f.finalOutput
      /\ g.tools = [f.tools EXCEPT ![i] = u] /\ g.wire = f.wire /\ g.closed = f.closed
      /\ g.expose = f.expose /\ g.seq = f.seq
  BY <1>4 DEF StateType
<1> HIDE DEF g
<1>8. Follows(f, g)
  BY <1>4, <1>7 DEF Follows
<1>9. /\ Follows(g, t) /\ t \in StateType
      /\ t.kind = g.kind /\ t.activeItem = g.activeItem /\ t.buffer = g.buffer /\ t.notes = g.notes
      /\ t.tools = g.tools /\ t.finalOutput = g.finalOutput /\ t.fresh = g.fresh /\ t.expose = g.expose
  <2>1. t \in StateType
    BY <1>2, OpenToolCallGood DEF Good
  <2> QED BY <1>6, <2>1, EmitFollows, EmitKeeps
<1>10. Follows(s, t)
  <2> HIDE DEF t
  <2>1. Follows(s, g)
    BY <1>1, <1>4, <1>6, <1>8, FollowsOn
  <2> QED BY <1>4, <1>6, <1>9, <2>1, FollowsOn
<1>11. ASSUME ~s.closed, Live(s) PROVE Quiet(s, t)
  <2> DEFINE e == [seq |-> g.seq, type |-> "item.added", item |-> u.item, index |-> u.index,
                   body |-> <<>>, extra |-> n]
  <2>1. t = Said(g, e)
    BY <1>4, <1>6, <1>7, <1>11, EmitSays
  <2>2. e \in EventType /\ e.seq = f.seq /\ e.type = "item.added" /\ e.item = f.fresh
    <3>1. <<>> \in Seq(Nat) /\ n \in Nat /\ "item.added" \in EventNames /\ u.item \in Int /\ u.index \in Int
      BY <1>4, <1>5 DEF EventNames
    <3> HIDE DEF n
    <3> QED BY <1>4, <1>5, <1>7, <3>1 DEF EventType
  <2> HIDE DEF e
  <2>3. t.seq = f.seq + 1 /\ t.wire = f.wire \cup {e}
    <3> HIDE DEF t
    <3> QED BY <1>6, <1>7, <2>1, SaidFields
  <2> HIDE DEF t
  <2>4. Live(f) /\ \A m : Pieces(f, m) = Pieces(s, m)
    BY <1>1, <1>11 DEF Quiet
  <2>5. ~f.tools[i].open
    BY <1>1
  <2>6. Live(t) /\ \A m : Pieces(t, m) = Pieces(f, m)
    BY <1>1, <1>3, <1>5, <1>7, <1>9, <2>2, <2>3, <2>4, <2>5, BeginToolLive
  <2> QED BY <2>4, <2>6 DEF Quiet
<1>12. t.tools[i] = u /\ \A j \in ToolIndices : j # i => t.tools[j] = s.tools[j]
  BY <1>1, <1>3, <1>4, <1>7, <1>9
<1> HIDE DEF t
<1> QED BY <1>2, <1>5, <1>10, <1>11, <1>12

(* One element of delta.tool_calls.                                            *)
LEMMA AddToolDeltaStep ==
  ASSUME NEW s, Good(s), ~s.closed, Live(s), NEW d \in ToolDeltas, ~s.tools[d.index].done, NEW piece \in Nat
  PROVE  LET t == AddToolDelta(s, d, piece)
         IN  /\ Follows(s, t) /\ Quiet(s, t)
             /\ t.tools[d.index].named = (s.tools[d.index].named \/ d.named) /\ ~t.tools[d.index].done
             /\ \A j \in ToolIndices : j # d.index => t.tools[j] = s.tools[j]
<1> DEFINE i == d.index
           old == [s.tools[i] EXCEPT !.named = @ \/ d.named]
           o == IF ~s.tools[i].open THEN OpenToolCall(s, d)
                ELSE [s EXCEPT !.tools[i].named = @ \/ d.named]
           b == [o EXCEPT !.tools[i].args = Append(@, piece), !.tools[i].parses = d.parses]
           u == [o.tools[i] EXCEPT !.args = Append(@, piece), !.parses = d.parses]
           t == Emit(b, "delta", b.tools[i].item, b.tools[i].index, <<piece>>, 0)
<1>1. i \in ToolIndices /\ d.named \in BOOLEAN /\ d.parses \in BOOLEAN /\ s \in StateType
      /\ s.tools \in [ToolIndices -> ToolState] /\ s.fresh \in Nat
  BY DEF ToolDeltas, Good, StateType
<1>2. /\ Good(o) /\ o.tools[i].open /\ Follows(s, o) /\ Quiet(s, o)
      /\ o.tools[i].named = (s.tools[i].named \/ d.named) /\ ~o.tools[i].done
      /\ \A j \in ToolIndices : j # i => o.tools[j] = s.tools[j]
  <2>1. CASE ~s.tools[i].open
    <3>1. ~s.tools[i].named
      BY <1>1, <2>1 DEF Live, Books, NoTool
    <3> QED BY <1>1, <2>1, <3>1, OpenToolCallGood, OpenToolCallStep
  <2>2. CASE s.tools[i].open
    <3>1. s.tools[i] \in ToolState /\ s.tools[i].index = s.tools[i].item /\ s.tools[i].item >= 0
      BY <1>1, <2>2 DEF Good, Linked
    <3>2. /\ old \in ToolState /\ old.index = old.item /\ old.item >= 0 /\ old.open /\ ~old.done
          /\ old.item = s.tools[i].item /\ old.args = s.tools[i].args
          /\ old.named = (s.tools[i].named \/ d.named)
      BY <1>1, <2>2, <3>1 DEF ToolState
    <3>3. o = [s EXCEPT !.tools[i] = old]
      BY <1>1, <2>2 DEF StateType
    <3> HIDE DEF old, o
    <3>4. Good(o)
      BY <1>1, <3>2, <3>3, SetToolGood
    <3>5. /\ o.kind = s.kind /\ o.activeItem = s.activeItem /\ o.buffer = s.buffer /\ o.notes = s.notes
          /\ o.fresh = s.fresh /\ o.finalOutput = s.finalOutput /\ o.expose = s.expose /\ o.closed = s.closed
          /\ o.seq = s.seq /\ o.wire = s.wire /\ o.tools = [s.tools EXCEPT ![i] = old]
      BY <1>1, <3>3 DEF StateType
    <3>6. Follows(s, o)
      BY <1>1, <3>5 DEF Follows
    <3>7. Quiet(s, o)
      BY <1>1, <2>2, <3>2, <3>4, <3>5, ChangeToolLive DEF Good, Quiet
    <3> QED BY <1>1, <3>2, <3>4, <3>5, <3>6, <3>7
  <2> QED BY <2>1, <2>2
<1>3. AddToolDelta(s, d, piece) = IF d.args THEN t ELSE o
  BY DEF AddToolDelta
<1> HIDE DEF o
<1>4. o \in StateType /\ o.tools[i] \in ToolState /\ o.tools[i].index = o.tools[i].item
      /\ o.tools[i].item \in Nat /\ o.closed = s.closed /\ o.seq \in Nat
      /\ o.tools \in [ToolIndices -> ToolState] /\ o.tools[i].args \in Seq(Nat)
  BY <1>1, <1>2, SMTT(30) DEF Good, StateType, Linked, Follows, ToolState
<1>5. /\ u \in ToolState /\ u.index = u.item /\ u.item = o.tools[i].item /\ u.open /\ ~u.done
      /\ u.named = o.tools[i].named /\ u.args = Append(o.tools[i].args, piece) /\ u.item >= 0
  <2> DEFINE c == o.tools[i]
  <2>1. c \in ToolState /\ c.index = c.item /\ c.item >= 0 /\ c.open /\ ~c.done /\ d.parses \in BOOLEAN
    BY <1>1, <1>2, <1>4
  <2>2. u = [c EXCEPT !.args = Append(c.args, piece), !.parses = d.parses]
    OBVIOUS
  <2> HIDE DEF c
  <2>3. Append(c.args, piece) \in Seq(Nat)
    BY <2>1 DEF ToolState
  <2> HIDE DEF u
  <2>4. u \in ToolState
    BY <2>1, <2>2, <2>3 DEF ToolState
  <2>5. /\ u.index = c.index /\ u.item = c.item /\ u.open = c.open /\ u.done = c.done
        /\ u.named = c.named /\ u.args = Append(c.args, piece)
    BY <2>1, <2>2 DEF ToolState
  <2> QED BY <2>1, <2>4, <2>5 DEF c
<1>6. b = [o EXCEPT !.tools[i] = u]
  BY <1>1, <1>4 DEF StateType
<1> HIDE DEF u, b
<1>7. Good(b)
  BY <1>1, <1>2, <1>5, <1>6, SetToolGood
<1>8. /\ b.kind = o.kind /\ b.activeItem = o.activeItem /\ b.buffer = o.buffer /\ b.notes = o.notes
      /\ b.fresh = o.fresh /\ b.finalOutput = o.finalOutput /\ b.expose = o.expose /\ b.closed = o.closed
      /\ b.seq = o.seq /\ b.wire = o.wire /\ b.tools = [o.tools EXCEPT ![i] = u]
      /\ b \in StateType
  BY <1>4, <1>6, <1>7 DEF Good, StateType
<1>9. b.tools[i] = u
  BY <1>1, <1>4, <1>8
<1>10. /\ t.kind = b.kind /\ t.activeItem = b.activeItem /\ t.buffer = b.buffer /\ t.notes = b.notes
       /\ t.fresh = b.fresh /\ t.finalOutput = b.finalOutput /\ t.expose = b.expose
       /\ t.tools = b.tools /\ Follows(b, t) /\ t \in StateType
  <2>1. "delta" \in EventNames /\ <<piece>> \in Seq(Nat) /\ u.item \in Int /\ u.index \in Int
    BY <1>5 DEF EventNames, ToolState
  <2>2. Good(t)
    BY <1>5, <1>7, <1>9, <2>1, EmitGood
  <2> QED BY <1>8, <2>2, EmitFollows, EmitKeeps DEF Good
<1>11. Follows(s, t)
  <2> HIDE DEF t
  <2>1. Follows(o, b)
    BY <1>4, <1>8 DEF Follows, StateType
  <2>2. Follows(s, b)
    BY <1>1, <1>2, <1>4, <1>8, <2>1, FollowsOn
  <2> QED BY <1>1, <1>8, <1>10, <2>2, FollowsOn
<1>12. Quiet(s, t)
  <2> DEFINE e == [seq |-> b.seq, type |-> "delta", item |-> b.tools[i].item, index |-> b.tools[i].index,
                   body |-> <<piece>>, extra |-> 0]
  <2>1. t = Said(b, e)
    BY <1>4, <1>8, EmitSays
  <2>2. e \in EventType /\ e.seq = o.seq /\ e.type = "delta" /\ e.item = u.item /\ e.body[1] = piece
    <3>1. "delta" \in EventNames /\ <<piece>> \in Seq(Nat) /\ u.item \in Int /\ u.index \in Int
      BY <1>5 DEF EventNames, ToolState
    <3> QED BY <1>4, <1>8, <1>9, <3>1 DEF EventType
  <2> HIDE DEF e, t
  <2>3. t.seq = o.seq + 1 /\ t.wire = o.wire \cup {e}
    BY <1>8, <2>1, SaidFields
  <2>4. Live(o) /\ \A m : Pieces(o, m) = Pieces(s, m)
    BY <1>2 DEF Quiet
  <2>5. \E x \in EventType : /\ x.seq = o.seq /\ x.type = "delta" /\ x.item = u.item
                            /\ t.seq = o.seq + 1 /\ t.wire = o.wire \cup {x}
                            /\ x.body[1] \in Nat /\ u.args = Append(o.tools[i].args, x.body[1])
    BY <1>5, <2>2, <2>3
  <2>6. /\ t.fresh = o.fresh
        /\ t.kind = o.kind /\ t.activeItem = o.activeItem /\ t.buffer = o.buffer /\ t.notes = o.notes
        /\ t.tools = [o.tools EXCEPT ![i] = u] /\ t.finalOutput = o.finalOutput /\ t.expose = o.expose
    BY <1>8, <1>10
  <2> HIDE DEF i
  <2>7. Live(t) /\ \A m : Pieces(t, m) = Pieces(o, m)
    BY <1>1, <1>2, <1>5, <1>10, <2>4, <2>5, <2>6, ChangeToolLive
  <2> QED BY <2>4, <2>7 DEF Quiet
<1>13. t.tools[i] = u /\ \A j \in ToolIndices : j # i => t.tools[j] = s.tools[j]
  BY <1>1, <1>2, <1>4, <1>8, <1>10
<1> HIDE DEF t
<1> QED BY <1>2, <1>3, <1>5, <1>11, <1>12, <1>13

(* Finishing a tool call ends it, and changes nothing else.                    *)
LEMMA FinalizeToolStep ==
  ASSUME NEW s, Good(s), NEW i \in ToolIndices, s.tools[i].open
  PROVE  LET t == FinalizeTool(s, i)
         IN  /\ Follows(s, t) /\ t.kind = s.kind /\ t.tools = [s.tools EXCEPT ![i].done = TRUE]
             /\ ~s.closed /\ Live(s) /\ ~s.tools[i].done => Quiet(s, t)
<1> DEFINE c    == s.tools[i]
           safe == SalvageToolCallArguments(c)
           n    == IF c.named THEN 1 ELSE 0
           args == Emit(s, "text.done", c.item, c.index, safe, 0)
           done == Emit(args, "item.done", c.item, c.index, safe, n)
           t    == [done EXCEPT !.finalOutput = Append(@, c.item), !.tools[i].done = TRUE]
<1>1. /\ c \in ToolState /\ c.index = c.item /\ c.item \in Nat /\ c.index \in Int
      /\ c.args \in Seq(Nat) /\ c.item \in Int /\ s \in StateType /\ s.seq \in Nat
      /\ s.tools \in [ToolIndices -> ToolState] /\ s.wire \in SUBSET EventType
      /\ s.finalOutput \in Seq(Nat) /\ s.fresh \in Nat
  BY DEF Good, StateType, Linked, ToolState
<1>2. safe \in Seq(Nat) /\ n \in Nat /\ "text.done" \in EventNames /\ "item.done" \in EventNames /\ 0 \in Nat
  BY <1>1 DEF SalvageToolCallArguments, Braces, EventNames
<1>3. FinalizeTool(s, i) = t
  BY DEF FinalizeTool
<1> HIDE DEF safe, n, c
<1>4. /\ Good(args) /\ Follows(s, args)
      /\ args.fresh = s.fresh /\ args.kind = s.kind /\ args.activeItem = s.activeItem
      /\ args.buffer = s.buffer /\ args.notes = s.notes /\ args.tools = s.tools
      /\ args.finalOutput = s.finalOutput /\ args.expose = s.expose /\ args.closed = s.closed
  <2>1. Good(args)
    BY <1>1, <1>2, EmitGood
  <2> QED BY <1>1, <2>1, EmitFollows, EmitKeeps
<1>5. ASSUME ~s.closed, Live(s), ~c.done PROVE Quiet(s, args)
  <2> DEFINE e == [seq |-> s.seq, type |-> "text.done", item |-> c.item, index |-> c.index,
                   body |-> safe, extra |-> 0]
  <2>1. args = Said(s, e)
    BY <1>1, <1>5, EmitSays
  <2>2. e \in EventType /\ e.seq = s.seq /\ e.type = "text.done" /\ e.item = c.item
    BY <1>1, <1>2 DEF EventType
  <2> HIDE DEF e, args
  <2>3. MaySay(s.wire, e)
    BY <1>5, <2>2 DEF Live, Books, MaySay, c
  <2> QED BY <1>5, <2>1, <2>2, <2>3, RemarkLive DEF Quiet
<1> HIDE DEF args
<1>6. /\ done \in StateType /\ Follows(args, done)
      /\ done.fresh = args.fresh /\ done.kind = args.kind /\ done.activeItem = args.activeItem
      /\ done.buffer = args.buffer /\ done.notes = args.notes /\ done.tools = args.tools
      /\ done.finalOutput = args.finalOutput /\ done.expose = args.expose /\ done.closed = args.closed
  <2>1. Good(done)
    BY <1>1, <1>2, <1>4, EmitGood
  <2> QED BY <1>4, <2>1, EmitFollows, EmitKeeps DEF Good
<1>7. ASSUME ~s.closed
      PROVE  \E e \in EventType : /\ e.seq = args.seq /\ e.type = "item.done" /\ e.item = c.item
                                  /\ e.body = safe /\ e.extra = n
                                  /\ done.seq = args.seq + 1 /\ done.wire = args.wire \cup {e}
  <2> DEFINE e == [seq |-> args.seq, type |-> "item.done", item |-> c.item, index |-> c.index,
                   body |-> safe, extra |-> n]
  <2>1. args \in StateType /\ args.seq \in Nat
    BY <1>4 DEF Good, StateType
  <2>2. done = Said(args, e)
    BY <1>4, <1>7, <2>1, EmitSays
  <2>3. /\ e \in EventType /\ e.seq = args.seq /\ e.type = "item.done" /\ e.item = c.item
        /\ e.body = safe /\ e.extra = n
    BY <1>1, <1>2, <2>1 DEF EventType
  <2> HIDE DEF e, done
  <2> QED BY <2>1, <2>2, <2>3, SaidFields
<1> HIDE DEF done
<1>8. /\ t \in StateType /\ t.fresh = done.fresh /\ t.kind = done.kind /\ t.activeItem = done.activeItem
      /\ t.buffer = done.buffer /\ t.notes = done.notes /\ t.tools = [done.tools EXCEPT ![i].done = TRUE]
      /\ t.finalOutput = Append(done.finalOutput, c.item) /\ t.expose = done.expose
      /\ t.closed = done.closed /\ t.seq = done.seq /\ t.wire = done.wire
  <2>1. t \in StateType
    BY <1>3, FinalizeToolGood DEF Good
  <2> QED BY <1>6, <2>1 DEF StateType
<1> HIDE DEF t
<1>9. Follows(s, t)
  <2>1. Members(done.finalOutput) \subseteq Members(t.finalOutput)
    BY <1>1, <1>4, <1>6, <1>8, MembersAppend
  <2>2. Follows(done, t)
    BY <1>1, <1>4, <1>6, <1>8, <2>1 DEF Follows
  <2>3. Follows(s, done)
    BY <1>1, <1>4, <1>6, FollowsOn DEF Good
  <2> QED BY <1>1, <1>6, <1>8, <2>2, <2>3, FollowsOn
<1>10. ASSUME ~s.closed, Live(s), ~c.done PROVE Quiet(s, t)
  <2>1. Live(args) /\ \A m : Pieces(args, m) = Pieces(s, m)
    BY <1>5, <1>10 DEF Quiet
  <2>2. PICK e \in EventType : /\ e.seq = args.seq /\ e.type = "item.done" /\ e.item = c.item
                               /\ e.body = safe /\ e.extra = n
                               /\ done.seq = args.seq + 1 /\ done.wire = args.wire \cup {e}
    BY <1>7, <1>10
  <2>3. /\ args.tools[i] = c /\ c.open /\ ~c.done
    BY <1>4, <1>10 DEF c
  <2>4. /\ t.seq = args.seq + 1 /\ t.wire = args.wire \cup {e} /\ t.fresh = args.fresh
        /\ t.kind = args.kind /\ t.activeItem = args.activeItem /\ t.buffer = args.buffer /\ t.notes = args.notes
        /\ t.tools = [args.tools EXCEPT ![i].done = TRUE] /\ t.finalOutput = Append(args.finalOutput, e.item)
        /\ t.expose = args.expose
    BY <1>6, <1>8, <2>2
  <2>5. e.body = SalvageToolCallArguments(args.tools[i]) /\ e.extra = (IF args.tools[i].named THEN 1 ELSE 0)
        /\ e.item = args.tools[i].item
    BY <2>2, <2>3 DEF safe, n
  <2>6. Live(t) /\ \A m : Pieces(t, m) = Pieces(args, m)
    <3>1. Good(args) /\ Live(args) /\ args.tools[i].open /\ ~args.tools[i].done /\ t \in StateType
      BY <1>4, <1>8, <2>1, <2>3
    <3>2. e \in EventType /\ e.seq = args.seq /\ e.type = "item.done"
      BY <2>2
    <3> QED BY <2>4, <2>5, <3>1, <3>2, EndToolLive, Z3T(60)
  <2> QED BY <2>1, <2>6 DEF Quiet
<1>11. t.kind = s.kind /\ t.tools = [s.tools EXCEPT ![i].done = TRUE]
  BY <1>4, <1>6, <1>8
<1> QED BY <1>3, <1>9, <1>10, <1>11 DEF c

(* A piece is in no more items than it was counted for, none when none.        *)
LEMMA NoPieces ==
  ASSUME NEW s, Live(s), NEW n, Pieces(s, n) = 0
  PROVE  n \notin Members(s.buffer)
<1>1. IsFiniteSet(TextDones(s, n))
  <2>1. IsFiniteSet(s.wire) /\ TextDones(s, n) \subseteq s.wire
    BY DEF Live, Orderly, TextDones
  <2> QED BY <2>1, FS_Subset
<1>2. Cardinality(TextDones(s, n)) \in Nat
  BY <1>1, FS_CardinalityType
<1> QED BY <1>2 DEF Pieces

(* How often the text of a chunk, or of none, has to come through.             *)
Carried(c) == (IF c.reasoning THEN 1 ELSE 0) + (IF c.content THEN 1 ELSE 0)

(* The text of a chunk is taken in, once for each of its channels.             *)
LEMMA ProcessTextStep ==
  ASSUME NEW s, Good(s), NEW c \in ChunkType, NEW p \in Nat
  PROVE  LET t == ProcessText(s, c, p)
         IN  /\ Follows(s, t) /\ t.tools = s.tools
             /\ ~s.closed /\ Live(s) /\ Pieces(s, p) = 0 =>
                  /\ Live(t) /\ Pieces(t, p) = Carried(c)
                  /\ \A n : n # p => Pieces(t, n) = Pieces(s, n)
<1> DEFINE r == IF c.reasoning THEN AddText(s, "reasoning", p) ELSE s
           m == IF c.content THEN AddText(r, "message", p) ELSE r
           t == IF c.note THEN AddNote(m) ELSE m
           x == IF c.reasoning THEN 1 ELSE 0
           y == IF c.content THEN 1 ELSE 0
<1>1. ProcessText(s, c, p) = t
  BY DEF ProcessText
<1>2. /\ Good(r) /\ Follows(s, r) /\ r.tools = s.tools
      /\ ~s.closed /\ Live(s) /\ Pieces(s, p) = 0 =>
           /\ Live(r) /\ Pieces(r, p) = x /\ (r.kind = "message" => p \notin Members(r.buffer))
           /\ \A n : n # p => Pieces(r, n) = Pieces(s, n)
  <2>1. CASE c.reasoning
    <3>1. /\ Good(r) /\ Follows(s, r) /\ r.tools = s.tools /\ r.kind = "reasoning"
          /\ ~s.closed /\ Live(s) =>
               /\ Live(r)
               /\ \A n : n # p => Pieces(r, n) = Pieces(s, n)
               /\ (s.kind = "reasoning" => p \notin Members(s.buffer)) => Pieces(r, p) = Pieces(s, p) + 1
      BY <2>1, AddTextGood, AddTextStep
    <3> HIDE DEF r
    <3> QED BY <2>1, <3>1, NoPieces
  <2>2. CASE ~c.reasoning
    <3>1. Follows(s, s)
      BY DEF Follows, Good, StateType
    <3> QED BY <2>2, <3>1, NoPieces
  <2> QED BY <2>1, <2>2
<1> HIDE DEF r
<1>3. /\ Good(m) /\ Follows(s, m) /\ m.tools = s.tools
      /\ ~s.closed /\ Live(s) /\ Pieces(s, p) = 0 =>
           /\ Live(m) /\ Pieces(m, p) = x + y
           /\ \A n : n # p => Pieces(m, n) = Pieces(s, n)
  <2>1. CASE c.content
    <3>1. /\ Good(m) /\ Follows(r, m) /\ m.tools = r.tools
          /\ ~r.closed /\ Live(r) =>
               /\ Live(m)
               /\ \A n : n # p => Pieces(m, n) = Pieces(r, n)
               /\ (r.kind = "message" => p \notin Members(r.buffer)) => Pieces(m, p) = Pieces(r, p) + 1
      BY <1>2, <2>1, AddTextGood, AddTextStep
    <3> HIDE DEF m
    <3>2. Follows(s, m)
      BY <1>2, <3>1, FollowsOn DEF Good
    <3> QED BY <1>2, <2>1, <3>1, <3>2 DEF Follows
  <2>2. CASE ~c.content
    BY <1>2, <2>2
  <2> QED BY <2>1, <2>2
<1> HIDE DEF m
<1>4. /\ Follows(s, t) /\ t.tools = s.tools
      /\ ~s.closed /\ Live(s) /\ Pieces(s, p) = 0 =>
           /\ Live(t) /\ Pieces(t, p) = x + y
           /\ \A n : n # p => Pieces(t, n) = Pieces(s, n)
  <2>1. CASE c.note
    <3>1. Good(t) /\ Follows(m, t) /\ t.tools = m.tools /\ (~m.closed /\ Live(m) => Quiet(m, t))
      BY <1>3, <2>1, AddNoteGood, AddNoteStep
    <3> HIDE DEF t
    <3>2. Follows(s, t)
      BY <1>3, <3>1, FollowsOn DEF Good
    <3> QED BY <1>3, <3>1, <3>2 DEF Follows, Quiet
  <2>2. CASE ~c.note
    BY <1>3, <2>2
  <2> QED BY <2>1, <2>2
<1> QED BY <1>1, <1>4 DEF Carried

--------------------------------------------------------------------------------
(* The invariant of the whole translator.                                      *)

(* A tool call has a name when a delta taken in, or still pending, named it.   *)
NamedBy(q, i) == \E k \in DOMAIN q : q[k].index = i /\ q[k].named
NamedInFed(i) == \E n \in DOMAIN fed : NamedBy(fed[n].tools, i)
Named == \A i \in ToolIndices : st.tools[i].named \/ NamedBy(pending, i) <=> NamedInFed(i)

(* Tool deltas are pending only for a client that is there, and calls are      *)
(* finished only after the last text item.                                     *)
InControl ==
  /\ pc = "tools" => ~st.closed
  /\ pc # "tools" => pending = <<>>
  /\ pc = "closing" => st.kind = "none"
  /\ (\E i \in ToolIndices : st.tools[i].done) => pc \in {"closing", "completed", "failed"}

(* The pieces of the chunks taken in are each where they belong, and until the *)
(* source is done no later piece is anywhere.                                  *)
Counted ==
  /\ \A n \in 1 .. Len(fed) : Pieces(st, n) = Carried(fed[n])
  /\ pc \in {"start", "await", "tools"} => \A n \in Nat : n > Len(fed) => Pieces(st, n) = 0

(* What StreamIntact needs to be inductive.  While the client is there, the    *)
(* state's books agree with the wire.  A client that has gone, or has been     *)
(* told the end, receives nothing more, so what it has stays intact.           *)
StreamInv ==
  /\ IndInv /\ InControl /\ Named
  /\ ~st.closed => Live(st) /\ Counted
  /\ st.closed => StreamIntact

(* What a client has stays intact when it receives nothing more.               *)
LEMMA KeptIntact ==
  ASSUME StreamIntact, st'.closed, st'.wire = st.wire, st'.expose = st.expose, fed' = fed,
         \A i \in ToolIndices : /\ st'.tools[i].open = st.tools[i].open
                                /\ st'.tools[i].item = st.tools[i].item
                                /\ st'.tools[i].parses = st.tools[i].parses
  PROVE  StreamIntact'
<1>1. /\ \A type : Events(type)' = Events(type)
      /\ \A k : DeltasOf(k)' = DeltasOf(k)
  BY DEF Events, DeltasOf
<1>2. /\ Announced' = Announced /\ Finished' = Finished /\ Terminals' = Terminals
  BY <1>1 DEF Announced, Finished, Terminals
<1>3. ToolItems' = ToolItems
  BY DEF ToolItems
<1>4. ItemLifecycle'
  BY <1>1 DEF StreamIntact, ItemsSettled, ItemLifecycle
<1>5. SnapshotComplete'
  BY <1>2 DEF StreamIntact, ItemsSettled, SnapshotComplete
<1>6. TextIntact'
  BY <1>1, <1>3 DEF StreamIntact, TextPreserved, TextIntact
<1>7. NoPieceLost'
  BY <1>1, <1>2, <1>3 DEF StreamIntact, TextPreserved, NoPieceLost
<1>8. ToolCallUsable'
  BY <1>1 DEF StreamIntact, ToolCallUsable
<1> QED BY <1>4, <1>5, <1>6, <1>7, <1>8 DEF StreamIntact, ItemsSettled, TextPreserved

(* The operators of StreamToSse are those of the wire.                         *)
LEMMA OnTheWire ==
  /\ Announced = AnnouncedOn(st.wire) /\ Finished = FinishedOn(st.wire)
  /\ ToolItems = ToolItemsOf(st)
  /\ \A k : DeltasOf(k) = DeltasOn(st.wire, k)
  /\ \A k : {e \in Events("annotation") : e.item = k} = NotesOn(st.wire, k)
  /\ \A n : {d \in Events("item.done") : d.item \notin ToolItems /\ n \in Members(d.body)} = TextDones(st, n)
<1>1. Announced = AnnouncedOn(st.wire) /\ Finished = FinishedOn(st.wire)
  BY DEF Announced, Finished, AnnouncedOn, FinishedOn, Events
<1>2. ToolItems = ToolItemsOf(st)
  BY DEF ToolItems, ToolItemsOf
<1>3. \A k : DeltasOf(k) = DeltasOn(st.wire, k)
  BY DEF DeltasOf, DeltasOn, Events
<1>4. \A k : {e \in Events("annotation") : e.item = k} = NotesOn(st.wire, k)
  BY DEF NotesOn, Events
<1>5. \A n : {d \in Events("item.done") : d.item \notin ToolItems /\ n \in Members(d.body)} = TextDones(st, n)
  BY <1>2 DEF TextDones, Events
<1> QED BY <1>1, <1>2, <1>3, <1>4, <1>5

(* The text of what is finished, and the tool calls, as Live keeps them.       *)
LEMMA LiveText ==
  ASSUME StreamInv, ~st.closed
  PROVE  TextIntact /\ ToolCallUsable
<1>1. Live(st) /\ Good(st)
  BY DEF StreamInv, IndInv, TypeOK, Good
<1>2. TextIntact
  <2> SUFFICES ASSUME NEW d \in Events("item.done")
               PROVE  /\ \/ d.item \in ToolItems /\ d.body = Braces
                         \/ DeltasOf(d.item) = {} /\ ~st.expose
                         \/ /\ Len(d.body) = Cardinality(DeltasOf(d.item))
                            /\ \A e \in DeltasOf(d.item) :
                                 d.body[Cardinality({f \in DeltasOf(d.item) : f.seq <= e.seq})] = e.body[1]
                      /\ d.item \notin ToolItems =>
                           d.extra = Cardinality({e \in Events("annotation") : e.item = d.item})
    BY DEF TextIntact
  <2>1. d \in st.wire /\ d.type = "item.done"
    BY DEF Events
  <2>2. FinishedText(st, d)
    BY <1>1, <2>1 DEF Live, Text
  <2> QED BY <2>2, OnTheWire DEF FinishedText, Spell, UpTo
<1>3. ToolCallUsable
  <2> SUFFICES ASSUME NEW d \in Events("item.done"), NEW i \in ToolIndices,
                      st.tools[i].open, d.item = st.tools[i].item
               PROVE  /\ d.body = <<>> \/ d.body = Braces \/ st.tools[i].parses
                      /\ d.extra = 1 <=> NamedInFed(i)
    BY DEF ToolCallUsable, NamedInFed, NamedBy
  <2>1. d \in st.wire /\ d.type = "item.done"
    BY DEF Events
  <2>2. FinishedTool(st.tools[i], d)
    BY <1>1, <2>1 DEF Live, Text
  <2>3. st.tools[i].done
    <3>1. d.item \in FinishedOn(st.wire)
      BY <2>1 DEF FinishedOn
    <3> QED BY <1>1, <3>1 DEF Live, Books
  <2>4. pending = <<>>
    BY <2>3 DEF StreamInv, InControl
  <2>5. st.tools[i].named <=> NamedInFed(i)
    BY <2>4 DEF StreamInv, Named, NamedBy
  <2> QED BY <2>2, <2>5 DEF FinishedTool
<1> QED BY <1>2, <1>3

(* Items live in order, as Orderly and the books have it.                      *)
LEMMA LiveLifecycle ==
  ASSUME StreamInv, ~st.closed
  PROVE  ItemLifecycle
<1>1. Live(st) /\ Good(st)
  BY DEF StreamInv, IndInv, TypeOK, Good
<1>2. ASSUME NEW e \in st.wire, e.item # NoItem
      PROVE  /\ \E a \in Events("item.added") : a.item = e.item
             /\ \A a \in Events("item.added") : a.item = e.item => a.seq <= e.seq
             /\ \A d \in Events("item.done") : d.item = e.item => e.seq <= d.seq
  <2>1. e.item \in AnnouncedOn(st.wire)
    BY <1>1, <1>2 DEF Live, Orderly
  <2> QED BY <1>1, <2>1 DEF Live, Orderly, AnnouncedOn, Events
<1>3. (Announced \ Finished) \ ToolItems = (IF st.kind = "none" THEN {} ELSE {st.activeItem})
  <2> DEFINE A == AnnouncedOn(st.wire)
             F == FinishedOn(st.wire)
             T == ToolItemsOf(st)
  <2>1. \A k \in A : k \in F \/ (st.kind # "none" /\ k = st.activeItem) \/ k \in T
    BY <1>1 DEF Live, Books
  <2>2. st.kind # "none" => st.activeItem \in A /\ st.activeItem \notin F /\ st.activeItem \notin T
    <3> SUFFICES ASSUME st.kind # "none" PROVE st.activeItem \in A /\ st.activeItem \notin F /\ st.activeItem \notin T
      OBVIOUS
    <3>1. st.activeItem \in 0 .. (st.fresh - 1)
      BY <1>1 DEF Good, Linked, StateType, NoItem
    <3> QED BY <1>1, <3>1 DEF Live, Books, ToolItemsOf
  <2> HIDE DEF A, F, T
  <2>3. (A \ F) \ T = (IF st.kind = "none" THEN {} ELSE {st.activeItem})
    BY <2>1, <2>2
  <2> QED BY <2>3, OnTheWire DEF A, F, T
<1> QED BY <1>2, <1>3 DEF ItemLifecycle

(* While the client is there nothing has ended, and all is intact.             *)
LEMMA LiveIntact ==
  ASSUME StreamInv, ~st.closed
  PROVE  StreamIntact /\ Terminals = {}
<1>1. Terminals = {}
  BY DEF StreamInv, Live, Orderly, Terminals, Events
<1> QED BY <1>1, LiveText, LiveLifecycle
        DEF StreamIntact, ItemsSettled, TextPreserved, SnapshotComplete, NoPieceLost

(* A list without repetitions is as long as it has members.                    *)
LEMMA LenIsCardinality ==
  ASSUME NEW q \in Seq(Nat), \A m, n \in DOMAIN q : q[m] = q[n] => m = n
  PROVE  Len(q) = Cardinality(Members(q))
<1>1. Len(q) \in Nat /\ DOMAIN q = 1 .. Len(q)
  OBVIOUS
<1>2. q \in Bijection(1 .. Len(q), Members(q))
  <2>1. q \in [1 .. Len(q) -> Members(q)]
    BY <1>1 DEF Members
  <2> QED BY <1>1, <2>1 DEF Bijection, Injection, IsInjective, Surjection, Members
<1>3. IsFiniteSet(1 .. Len(q)) /\ Cardinality(1 .. Len(q)) = Len(q)
  BY <1>1, FS_Interval
<1> QED BY <1>2, <1>3, FS_Bijection DEF ExistsBijection

(* When the calls are finished, so is every item, and each is in the response. *)
LEMMA AllFinished ==
  ASSUME StreamInv, ~st.closed, pc = "closing", Unfinished = {}
  PROVE  /\ Announced = Finished /\ Members(st.finalOutput) = Finished
         /\ Len(st.finalOutput) = Cardinality(Finished)
<1>1. Live(st) /\ st.kind = "none" /\ st.finalOutput \in Seq(Nat)
  BY DEF StreamInv, InControl, IndInv, TypeOK, StateType
<1>2. ASSUME NEW k \in AnnouncedOn(st.wire) PROVE k \in FinishedOn(st.wire)
  <2>1. k \in FinishedOn(st.wire) \/ k \in ToolItemsOf(st)
    BY <1>1 DEF Live, Books
  <2>2. ASSUME NEW i \in ToolIndices, st.tools[i].open, st.tools[i].item = k PROVE k \in FinishedOn(st.wire)
    BY <1>1, <2>2 DEF Unfinished, Live, Books
  <2> QED BY <2>1, <2>2 DEF ToolItemsOf
<1>3. FinishedOn(st.wire) \subseteq AnnouncedOn(st.wire)
  BY <1>1 DEF Live, Orderly
<1>4. FinishedOn(st.wire) = Members(st.finalOutput)
  BY <1>1 DEF Live, Books
<1>5. Len(st.finalOutput) = Cardinality(Members(st.finalOutput))
  BY <1>1, LenIsCardinality DEF Live, Books
<1> QED BY <1>2, <1>3, <1>4, <1>5, OnTheWire

(* The end: a client that is there gets everything, and the end after it.      *)
LEMMA TerminateIntact ==
  ASSUME StreamInv, Terminate
  PROVE  StreamIntact'
<1> DEFINE status == IF failed THEN "failed" ELSE "completed"
           t == Emit(st, status, NoItem, NoItem, st.finalOutput, 0)
<1>1. st \in StateType /\ t.closed = st.closed /\ t.tools = st.tools /\ t.expose = st.expose
  BY EmitKeeps DEF StreamInv, IndInv, TypeOK
<1>2. st' = [t EXCEPT !.closed = TRUE] /\ pc = "closing" /\ Unfinished = {} /\ fed' = fed
  BY DEF Terminate
<1>3. t \in StateType
  <2>1. status \in EventNames /\ st.finalOutput \in Seq(Nat) /\ NoItem \in Int /\ 0 \in Nat /\ Good(st)
    BY DEF EventNames, StreamInv, IndInv, TypeOK, StateType, NoItem, Good
  <2> HIDE DEF status
  <2> QED BY <2>1, EmitGood DEF Good
<1>4. st'.closed /\ st'.wire = t.wire /\ st'.tools = st.tools /\ st'.expose = st.expose
  <2> HIDE DEF t
  <2> QED BY <1>1, <1>2, <1>3 DEF StateType
<1>5. CASE st.closed
  <2>1. t.wire = st.wire
    BY <1>1, <1>5 DEF Emit, StateType
  <2>2. StreamIntact
    BY <1>5 DEF StreamInv
  <2> QED BY <1>2, <1>4, <2>1, <2>2, KeptIntact
<1>6. CASE ~st.closed
  <2> DEFINE e == [seq |-> st.seq, type |-> status, item |-> NoItem, index |-> NoItem,
                   body |-> st.finalOutput, extra |-> 0]
  <2>1. t = Said(st, e)
    BY <1>1, <1>6, EmitSays
  <2>2. /\ e.seq = st.seq /\ e.type \in {"completed", "failed"} /\ e.item = NoItem
        /\ e.body = st.finalOutput
    OBVIOUS
  <2> HIDE DEF e, t
  <2>3. st'.wire = st.wire \cup {e}
    BY <1>1, <1>4, <2>1, SaidFields
  <2>4. StreamIntact /\ Terminals = {} /\ Live(st) /\ st.seq \in Nat
    BY <1>1, <1>6, LiveIntact DEF StreamInv, StateType
  <2>5. /\ \A type : type \notin {"completed", "failed"} => Events(type)' = Events(type)
        /\ Terminals' = {e}
    BY <2>2, <2>3, <2>4 DEF Events, Terminals
  <2>6. /\ Announced' = Announced /\ Finished' = Finished /\ \A k : DeltasOf(k)' = DeltasOf(k)
    BY <2>5 DEF Announced, Finished, DeltasOf
  <2>7. ToolItems' = ToolItems
    BY <1>4 DEF ToolItems
  <2>8. ItemLifecycle'
    <3>1. \A x \in st'.wire : x.item # NoItem => x \in st.wire
      BY <2>2, <2>3
    <3> QED BY <1>4, <2>4, <2>5, <3>1 DEF StreamIntact, ItemsSettled, ItemLifecycle
  <2>9. SnapshotComplete'
    <3>1. \A x \in st'.wire : x.seq <= e.seq
      <4>1. \A x \in st.wire : x.seq < st.seq /\ x.seq \in Nat
        BY <1>1, <2>4 DEF Live, Orderly, StateType, EventType
      <4> QED BY <2>2, <2>3, <2>4, <4>1
    <3>2. /\ Announced = Finished /\ Members(e.body) = Finished /\ Len(e.body) = Cardinality(Finished)
      BY <1>2, <1>6, <2>2, AllFinished
    <3>3. ASSUME NEW x \in Terminals'
          PROVE  /\ \A y \in st'.wire : y.seq <= x.seq
                 /\ Announced' = Finished'
                 /\ Members(x.body) = Finished'
                 /\ Len(x.body) = Cardinality(Finished')
      <4>1. x = e
        BY <2>5
      <4> QED BY <2>6, <3>1, <3>2, <4>1
    <3> QED BY <3>3 DEF SnapshotComplete
  <2>10. TextIntact'
    <3>1. Events("item.done")' = Events("item.done") /\ Events("annotation")' = Events("annotation")
      BY <2>5
    <3>2. TextIntact
      BY <2>4 DEF StreamIntact, TextPreserved
    <3> QED BY <1>4, <2>6, <2>7, <3>1, <3>2 DEF TextIntact
  <2>11. ToolCallUsable'
    BY <1>2, <1>4, <2>4, <2>5 DEF StreamIntact, ToolCallUsable
  <2>12. NoPieceLost'
    <3>1. st.buffer = <<>>
      BY <1>2, <2>4 DEF StreamInv, InControl, Live, Text
    <3>2. \A n : n \notin Members(st.buffer)
      BY <3>1 DEF Members
    <3>3. ASSUME NEW n \in 1 .. Len(fed)
          PROVE  Cardinality({d \in Events("item.done") : d.item \notin ToolItems /\ n \in Members(d.body)})
                   = (IF fed[n].reasoning THEN 1 ELSE 0) + (IF fed[n].content THEN 1 ELSE 0)
      <4>1. Cardinality(TextDones(st, n)) \in Nat
        <5>1. IsFiniteSet(st.wire) /\ TextDones(st, n) \subseteq st.wire
          BY <2>4 DEF Live, Orderly, TextDones
        <5> QED BY <5>1, FS_Subset, FS_CardinalityType
      <4>2. Pieces(st, n) = Carried(fed[n])
        BY <1>6 DEF StreamInv, Counted
      <4>3. Pieces(st, n) = Cardinality(TextDones(st, n))
        BY <3>2, <4>1 DEF Pieces
      <4> QED BY <4>2, <4>3, OnTheWire DEF Carried
    <3> QED BY <1>2, <2>5, <2>7, <3>3 DEF NoPieceLost
  <2> QED BY <2>8, <2>9, <2>10, <2>11, <2>12 DEF StreamIntact, ItemsSettled, TextPreserved
<1> QED BY <1>5, <1>6

(* The two events at the start.                                                *)
LEMMA StartStep ==
  ASSUME NEW s, Good(s)
  PROVE  LET t == Emit(Emit(s, "created", NoItem, NoItem, <<>>, 0), "in_progress", NoItem, NoItem, <<>>, 0)
         IN  Follows(s, t) /\ t.tools = s.tools /\ (~s.closed /\ Live(s) => Quiet(s, t))
<1> DEFINE r == Emit(s, "created", NoItem, NoItem, <<>>, 0)
           t == Emit(r, "in_progress", NoItem, NoItem, <<>>, 0)
<1>1. /\ <<>> \in Seq(Nat) /\ NoItem \in Int /\ 0 \in Nat
      /\ "created" \in EventNames /\ "in_progress" \in EventNames
  BY DEF NoItem, EventNames
<1>2. ASSUME NEW u, Good(u), NEW type \in {"created", "in_progress"}
      PROVE  LET v == Emit(u, type, NoItem, NoItem, <<>>, 0)
             IN  Good(v) /\ Follows(u, v) /\ v.tools = u.tools /\ (~u.closed /\ Live(u) => Quiet(u, v))
  <2> DEFINE v == Emit(u, type, NoItem, NoItem, <<>>, 0)
             e == [seq |-> u.seq, type |-> type, item |-> NoItem, index |-> NoItem,
                   body |-> <<>>, extra |-> 0]
  <2>1. Good(v) /\ Follows(u, v) /\ v.tools = u.tools
    <3>1. type \in EventNames
      BY <1>1
    <3>2. Good(v)
      BY <1>1, <1>2, <3>1, EmitGood
    <3> QED BY <1>2, <3>2, EmitFollows, EmitKeeps DEF Good
  <2>2. ASSUME ~u.closed, Live(u) PROVE Quiet(u, v)
    <3>1. v = Said(u, e)
      BY <1>2, <2>2, EmitSays DEF Good
    <3>2. u.seq \in Nat /\ type \in EventNames
      BY <1>2 DEF Good, StateType, EventNames
    <3>3. e \in EventType /\ e.seq = u.seq /\ e.type = type /\ e.item = NoItem
      BY <1>1, <3>2 DEF EventType
    <3> HIDE DEF e, v
    <3>4. MaySay(u.wire, e)
      BY <3>3 DEF MaySay
    <3> QED BY <1>2, <2>2, <3>1, <3>3, <3>4, RemarkLive DEF Quiet
  <2> QED BY <2>1, <2>2
<1>3. Good(r) /\ Follows(s, r) /\ r.tools = s.tools /\ (~s.closed /\ Live(s) => Quiet(s, r))
  BY <1>2
<1> HIDE DEF r
<1>4. Good(t) /\ Follows(r, t) /\ t.tools = r.tools /\ (~r.closed /\ Live(r) => Quiet(r, t))
  BY <1>2, <1>3
<1> HIDE DEF t
<1>5. Follows(s, t)
  BY <1>3, <1>4, FollowsOn DEF Good
<1>6. ~s.closed /\ Live(s) => Quiet(s, t)
  BY <1>3, <1>4 DEF Quiet, Follows
<1> QED BY <1>3, <1>4, <1>5, <1>6 DEF r, t

(* The end of the source: the residue, then the end of the active item.        *)
LEMMA SourceDoneStep ==
  ASSUME NEW s, Good(s), NEW residue \in {"none", "reasoning", "message"}, NEW p \in Nat
  PROVE  LET t == FinalizeActive(IF residue = "none" THEN s ELSE AddText(s, residue, p))
         IN  /\ Follows(s, t) /\ t.tools = s.tools /\ t.kind = "none"
             /\ ~s.closed /\ Live(s) => Live(t) /\ \A n : n # p => Pieces(t, n) = Pieces(s, n)
<1> DEFINE r == IF residue = "none" THEN s ELSE AddText(s, residue, p)
           t == FinalizeActive(r)
<1>1. /\ Good(r) /\ Follows(s, r) /\ r.tools = s.tools
      /\ ~s.closed /\ Live(s) => Live(r) /\ \A n : n # p => Pieces(r, n) = Pieces(s, n)
  <2>1. CASE residue = "none"
    BY <2>1 DEF Follows, Good, StateType
  <2>2. CASE residue # "none"
    BY <2>2, AddTextGood, AddTextStep
  <2> QED BY <2>1, <2>2
<1> HIDE DEF r
<1>2. /\ Good(t) /\ Follows(r, t) /\ t.tools = r.tools /\ t.kind = "none"
      /\ ~r.closed /\ Live(r) => Quiet(r, t)
  BY <1>1, FinalizeActiveGood, FinalizeActiveStep
<1> HIDE DEF t
<1>3. Follows(s, t)
  BY <1>1, <1>2, FollowsOn DEF Good
<1> QED BY <1>1, <1>2, <1>3 DEF Quiet, Follows, r, t

(* The deltas of a chunk, in their order.                                      *)
LEMMA NamedFirst ==
  ASSUME NEW q \in Seq(ToolDeltas), q # <<>>, NEW i
  PROVE  NamedBy(q, i) <=> (Head(q).index = i /\ Head(q).named) \/ NamedBy(Tail(q), i)
<1>1. Len(q) \in Nat /\ Len(q) > 0 /\ DOMAIN q = 1 .. Len(q) /\ Head(q) = q[1]
      /\ DOMAIN Tail(q) = 1 .. (Len(q) - 1) /\ \A k \in 1 .. (Len(q) - 1) : Tail(q)[k] = q[k + 1]
  OBVIOUS
<1>2. ASSUME NEW k \in DOMAIN q, q[k].index = i, q[k].named
      PROVE  (Head(q).index = i /\ Head(q).named) \/ NamedBy(Tail(q), i)
  <2>1. CASE k = 1
    BY <1>1, <1>2, <2>1
  <2>2. CASE k # 1
    <3>1. k - 1 \in DOMAIN Tail(q) /\ Tail(q)[k - 1] = q[k]
      BY <1>1, <2>2
    <3> QED BY <1>2, <3>1 DEF NamedBy
  <2> QED BY <2>1, <2>2
<1>3. ASSUME NEW k \in DOMAIN Tail(q), Tail(q)[k].index = i, Tail(q)[k].named PROVE NamedBy(q, i)
  <2>1. k + 1 \in DOMAIN q /\ Tail(q)[k] = q[k + 1]
    BY <1>1
  <2> QED BY <1>3, <2>1 DEF NamedBy
<1>4. Head(q).index = i /\ Head(q).named => NamedBy(q, i)
  BY <1>1 DEF NamedBy
<1> QED BY <1>2, <1>3, <1>4 DEF NamedBy

(* A step that takes in no chunk and sends on what the client is there for.    *)
LEMMA StepInv ==
  ASSUME StreamInv, IndInv', InControl', Follows(st, st'), UNCHANGED fed, pending' = pending,
         \A i \in ToolIndices : /\ st'.tools[i].open = st.tools[i].open
                                /\ st'.tools[i].item = st.tools[i].item
                                /\ st'.tools[i].parses = st.tools[i].parses
                                /\ st'.tools[i].named = st.tools[i].named,
         ~st.closed => Live(st') /\ Counted'
  PROVE  StreamInv'
<1>1. Named'
  BY DEF StreamInv, Named, NamedInFed
<1>2. st'.closed = st.closed /\ st'.expose = st.expose /\ (st.closed => st'.wire = st.wire)
  BY DEF Follows
<1>3. st.closed => StreamIntact'
  BY <1>2, KeptIntact DEF StreamInv
<1> QED BY <1>1, <1>2, <1>3 DEF StreamInv

(* At first nothing is on the wire.                                            *)
LEMMA StreamInitInv == Init => StreamInv
<1> SUFFICES ASSUME Init PROVE StreamInv
  OBVIOUS
<1>1. PICK expose \in BOOLEAN : st = InitialState(expose)
  BY DEF Init
<1>2. /\ ~st.closed /\ st.kind = "none" /\ st.wire = {} /\ st.buffer = <<>> /\ st.notes = 0 /\ st.fresh = 0
      /\ st.finalOutput = <<>> /\ st.tools = [i \in ToolIndices |-> NoTool]
  BY <1>1 DEF InitialState
<1>3. pc = "start" /\ pending = <<>> /\ fed = <<>>
  BY DEF Init
<1>4. ~NoTool.open /\ ~NoTool.done /\ ~NoTool.named
  BY DEF NoTool
<1>5. IndInv
  BY InitInv
<1>6. InControl /\ Named
  BY <1>2, <1>3, <1>4 DEF InControl, Named, NamedBy, NamedInFed
<1>7. AnnouncedOn(st.wire) = {} /\ FinishedOn(st.wire) = {} /\ Members(st.finalOutput) = {}
  BY <1>2 DEF AnnouncedOn, FinishedOn, Members
<1>8. Live(st)
  <2>1. Orderly(st.wire, st.seq)
    BY <1>2, <1>7, FS_EmptySet DEF Orderly
  <2>2. Books(st)
    <3>1. 0 .. (st.fresh - 1) = {}
      BY <1>2
    <3>2. DOMAIN st.finalOutput = {}
      BY <1>2
    <3>3. \A i \in ToolIndices : st.tools[i] = NoTool
      BY <1>2
    <3> QED BY <1>2, <1>4, <1>7, <3>1, <3>2, <3>3 DEF Books
  <2>3. Text(st)
    BY <1>2, <1>4 DEF Text
  <2> QED BY <2>1, <2>2, <2>3 DEF Live
<1>9. \A n : Pieces(st, n) = 0
  <2>1. \A n : TextDones(st, n) = {} /\ n \notin Members(st.buffer)
    BY <1>2 DEF TextDones, Members
  <2>2. Cardinality({}) = 0
    BY FS_EmptySet
  <2> QED BY <2>1, <2>2 DEF Pieces
<1>10. Counted
  BY <1>3, <1>9 DEF Counted
<1> QED BY <1>2, <1>5, <1>6, <1>8, <1>10 DEF StreamInv

(* Every action keeps it.                                                      *)
LEMMA StreamNextInv == StreamInv /\ [Next]_vars => StreamInv'
<1> SUFFICES ASSUME StreamInv, [Next]_vars PROVE StreamInv'
  OBVIOUS
<1>1. IndInv' /\ IndInv /\ InControl /\ Named /\ Good(st) /\ Len(fed) \in Nat /\ fed \in Seq(Chunks)
      /\ (~st.closed => Live(st) /\ Counted)
  BY NextInv DEF StreamInv, IndInv, TypeOK, Good
<1>2. ASSUME Start PROVE StreamInv'
  <2>1. Follows(st, st') /\ st'.tools = st.tools /\ (~st.closed /\ Live(st) => Quiet(st, st'))
    BY <1>1, <1>2, StartStep DEF Start
  <2>2. InControl'
    BY <1>1, <1>2, <2>1 DEF Start, InControl
  <2>3. ~st.closed => Live(st') /\ Counted'
    BY <1>1, <1>2, <2>1 DEF Start, Quiet, Counted
  <2> QED BY <1>1, <1>2, <2>1, <2>2, <2>3, StepInv DEF Start
<1>3. ASSUME ClientClose PROVE StreamInv'
  <2>1. /\ st'.closed /\ st'.wire = st.wire /\ st'.expose = st.expose /\ st'.tools = st.tools
        /\ st'.kind = st.kind
    BY <1>1, <1>3 DEF ClientClose, Good, StateType
  <2>2. UNCHANGED <<pc, pending, fed>> /\ pc = "await" /\ ~st.closed
    BY <1>3 DEF ClientClose
  <2>3. StreamIntact
    BY <2>2, LiveIntact
  <2>4. StreamIntact'
    BY <2>1, <2>2, <2>3, KeptIntact
  <2>5. InControl' /\ Named'
    BY <1>1, <2>1, <2>2 DEF InControl, Named, NamedInFed
  <2> QED BY <1>1, <2>1, <2>4, <2>5 DEF StreamInv
<1>4. ASSUME Abandon PROVE StreamInv'
  <2>1. UNCHANGED <<st, pending, fed>> /\ pc = "await" /\ pc' = "incomplete" /\ st.closed
    BY <1>4 DEF Abandon
  <2>2. InControl'
    BY <1>1, <2>1 DEF InControl
  <2>3. Follows(st, st)
    BY <1>1 DEF Follows, Good, StateType
  <2> QED BY <1>1, <2>1, <2>2, <2>3, StepInv
<1>5. ASSUME NEW c \in Chunks, ProcessChunk(c) PROVE StreamInv'
  <2>1. /\ st' = ProcessText(st, c, Len(fed) + 1) /\ fed' = Append(fed, c) /\ pending' = c.tools
        /\ pc' = (IF c.tools = <<>> THEN "await" ELSE "tools") /\ pc = "await" /\ ~st.closed
    BY <1>5 DEF ProcessChunk
  <2>2. c \in ChunkType /\ Len(fed) + 1 \in Nat
    BY <1>1, StreamAssumption
  <2>3. Pieces(st, Len(fed) + 1) = 0
    BY <1>1, <2>1, <2>2 DEF Counted
  <2>4. /\ Follows(st, st') /\ st'.tools = st.tools
        /\ Live(st') /\ Pieces(st', Len(fed) + 1) = Carried(c)
        /\ \A n : n # Len(fed) + 1 => Pieces(st', n) = Pieces(st, n)
    BY <1>1, <2>1, <2>2, <2>3, ProcessTextStep
  <2>5. ~st'.closed
    BY <2>1, <2>4 DEF Follows
  <2>6. InControl'
    BY <1>1, <2>1, <2>4, <2>5 DEF InControl
  <2>7. /\ Len(fed') = Len(fed) + 1 /\ fed'[Len(fed) + 1] = c
        /\ DOMAIN fed' = DOMAIN fed \cup {Len(fed) + 1}
        /\ \A n \in 1 .. Len(fed) : fed'[n] = fed[n]
        /\ DOMAIN fed = 1 .. Len(fed)
    BY <1>1, <2>1
  <2>8. Named'
    <3>1. \A i : NamedInFed(i)' <=> NamedInFed(i) \/ NamedBy(c.tools, i)
      BY <2>7 DEF NamedInFed, NamedBy
    <3>2. \A i : ~NamedBy(pending, i)
      BY <1>1, <2>1 DEF InControl, NamedBy
    <3>3. \A i : NamedBy(pending, i)' <=> NamedBy(c.tools, i)
      BY <2>1 DEF NamedBy
    <3> QED BY <1>1, <2>4, <3>1, <3>2, <3>3 DEF Named
  <2>9. Counted'
    <3>1. \A n \in 1 .. Len(fed') : Pieces(st', n) = Carried(fed'[n])
      BY <1>1, <2>1, <2>4, <2>7 DEF Counted
    <3>2. \A n \in Nat : n > Len(fed') => Pieces(st', n) = 0
      BY <1>1, <2>1, <2>4, <2>7 DEF Counted
    <3> QED BY <3>1, <3>2 DEF Counted
  <2> QED BY <1>1, <2>4, <2>5, <2>6, <2>8, <2>9 DEF StreamInv
<1>6. ASSUME ProcessToolDelta PROVE StreamInv'
  <2> DEFINE d == Head(pending)
  <2>1. /\ st' = AddToolDelta(st, d, Len(fed)) /\ pending' = Tail(pending) /\ pc = "tools" /\ fed' = fed
        /\ pc' = (IF Tail(pending) = <<>> THEN "await" ELSE "tools") /\ ~st.closed
    BY <1>1, <1>6 DEF ProcessToolDelta, InControl
  <2>2. pending \in Seq(ToolDeltas) /\ pending # <<>> /\ d \in ToolDeltas
    BY <1>1, <2>1 DEF IndInv, TypeOK
  <2>3. d.index \in ToolIndices /\ ~st.tools[d.index].done
    BY <1>1, <2>1, <2>2 DEF InControl, ToolDeltas
  <2> HIDE DEF d
  <2>4. /\ Follows(st, st') /\ Quiet(st, st')
        /\ st'.tools[d.index].named = (st.tools[d.index].named \/ d.named) /\ ~st'.tools[d.index].done
        /\ \A j \in ToolIndices : j # d.index => st'.tools[j] = st.tools[j]
    BY <1>1, <2>1, <2>2, <2>3, AddToolDeltaStep
  <2>5. ~st'.closed
    BY <2>1, <2>4 DEF Follows
  <2>6. InControl'
    BY <1>1, <2>1, <2>4, <2>5 DEF InControl
  <2>7. Named'
    <3>1. \A i : NamedBy(pending, i) <=> (d.index = i /\ d.named) \/ NamedBy(Tail(pending), i)
      BY <2>2, NamedFirst DEF d
    <3>2. \A i : NamedBy(pending, i)' <=> NamedBy(Tail(pending), i)
      BY <2>1 DEF NamedBy
    <3>3. \A i : NamedInFed(i)' <=> NamedInFed(i)
      BY <2>1 DEF NamedInFed
    <3> QED BY <1>1, <2>4, <3>1, <3>2, <3>3 DEF Named
  <2>8. Counted'
    BY <1>1, <2>1, <2>4 DEF Counted, Quiet
  <2> QED BY <1>1, <2>4, <2>5, <2>6, <2>7, <2>8 DEF StreamInv, Quiet
<1>7. ASSUME NEW threw \in BOOLEAN, NEW residue \in {"none", "reasoning", "message"},
             SourceDone(threw, residue)
      PROVE  StreamInv'
  <2>1. /\ st' = FinalizeActive(IF residue = "none" THEN st ELSE AddText(st, residue, Len(fed) + 1))
        /\ pc = "await" /\ pc' = "closing" /\ UNCHANGED <<pending, fed>>
    BY <1>7 DEF SourceDone
  <2>2. Len(fed) + 1 \in Nat
    BY <1>1
  <2>3. /\ Follows(st, st') /\ st'.tools = st.tools /\ st'.kind = "none"
        /\ ~st.closed /\ Live(st) => Live(st') /\ \A n : n # Len(fed) + 1 => Pieces(st', n) = Pieces(st, n)
    BY <1>1, <2>1, <2>2, SourceDoneStep
  <2>4. InControl'
    BY <1>1, <2>1, <2>3 DEF InControl
  <2>5. ~st.closed => Live(st') /\ Counted'
    BY <1>1, <2>1, <2>3 DEF Counted
  <2> QED BY <1>1, <2>1, <2>3, <2>4, <2>5, StepInv
<1>8. ASSUME NEW i \in ToolIndices, FinalizeNextTool(i) PROVE StreamInv'
  <2>1. /\ st' = FinalizeTool(st, i) /\ pc = "closing" /\ UNCHANGED <<pc, pending, fed>>
        /\ st.tools[i].open /\ ~st.tools[i].done
    BY <1>8 DEF FinalizeNextTool, Unfinished
  <2>2. /\ Follows(st, st') /\ st'.kind = st.kind /\ st'.tools = [st.tools EXCEPT ![i].done = TRUE]
        /\ ~st.closed /\ Live(st) => Quiet(st, st')
    BY <1>1, <2>1, FinalizeToolStep
  <2>3. \A j \in ToolIndices : /\ st'.tools[j].open = st.tools[j].open
                               /\ st'.tools[j].item = st.tools[j].item
                               /\ st'.tools[j].parses = st.tools[j].parses
                               /\ st'.tools[j].named = st.tools[j].named
    <3>1. st.tools \in [ToolIndices -> ToolState]
      BY <1>1 DEF Good, StateType
    <3> QED BY <2>2, <3>1 DEF ToolState
  <2>4. InControl'
    BY <1>1, <2>1, <2>2 DEF InControl
  <2>5. ~st.closed => Live(st') /\ Counted'
    BY <1>1, <2>1, <2>2 DEF Counted, Quiet
  <2> QED BY <1>1, <2>1, <2>2, <2>3, <2>4, <2>5, StepInv
<1>9. ASSUME Terminate PROVE StreamInv'
  <2>1. StreamIntact'
    BY <1>9, TerminateIntact
  <2> DEFINE status == IF failed THEN "failed" ELSE "completed"
             t == Emit(st, status, NoItem, NoItem, st.finalOutput, 0)
  <2>2. /\ st' = [t EXCEPT !.closed = TRUE] /\ pc = "closing" /\ pc' \in {"failed", "completed"}
        /\ UNCHANGED <<pending, fed>>
    BY <1>9 DEF Terminate
  <2>3. t.tools = st.tools
    BY <1>1, EmitKeeps DEF Good
  <2>4. t \in StateType
    <3>1. status \in EventNames /\ st.finalOutput \in Seq(Nat) /\ NoItem \in Int /\ 0 \in Nat
      BY <1>1 DEF EventNames, Good, StateType, NoItem
    <3> HIDE DEF status
    <3> QED BY <1>1, <3>1, EmitGood DEF Good
  <2> HIDE DEF t
  <2>5. st'.closed /\ st'.tools = st.tools
    BY <2>2, <2>3, <2>4 DEF StateType
  <2>6. InControl' /\ Named'
    BY <1>1, <2>2, <2>5 DEF InControl, Named, NamedInFed
  <2> QED BY <1>1, <2>1, <2>5, <2>6 DEF StreamInv
<1>10. CASE UNCHANGED vars
  <2>1. UNCHANGED <<st, pc, pending, fed>>
    BY <1>10 DEF vars
  <2>2. InControl'
    BY <1>1, <2>1 DEF InControl
  <2>3. Follows(st, st') /\ (~st.closed => Live(st') /\ Counted')
    BY <1>1, <2>1 DEF Follows, Good, StateType, Counted
  <2> QED BY <1>1, <2>1, <2>2, <2>3, StepInv
<1> QED
  BY <1>2, <1>3, <1>4, <1>5, <1>6, <1>7, <1>8, <1>9, <1>10 DEF Next

--------------------------------------------------------------------------------
(* What follows from it.                                                       *)

(* In every reachable state the books agree with the wire, or the client that  *)
(* has gone or been told the end keeps what it has.                            *)
LEMMA StreamInvariantHolds == Spec => []StreamInv
<1>1. Init => StreamInv
  BY StreamInitInv
<1>2. StreamInv /\ [Next]_vars => StreamInv'
  BY StreamNextInv
<1> QED BY <1>1, <1>2, PTL DEF Spec

(* Whatever the chunks carry, whenever the client goes away and however the    *)
(* source ends: every item lives its whole life on the wire and is once in the *)
(* final response, its text is what its deltas said, no piece of a chunk is    *)
(* lost or doubled, and every finished tool call can be executed.              *)
THEOREM StreamArrivesIntact == Spec => []StreamIntact
<1>1. StreamInv => StreamIntact
  BY LiveIntact DEF StreamInv
<1> QED BY <1>1, StreamInvariantHolds, PTL

(* Every action but the client's going away and the end only adds to the       *)
(* stream.                                                                     *)
LEMMA NextFollows ==
  ASSUME StreamInv, [Next]_vars, ~ClientClose, ~Terminate
  PROVE  Follows(st, st')
<1>1. IndInv /\ Good(st) /\ Len(fed) \in Nat /\ Len(fed) + 1 \in Nat
  BY DEF StreamInv, IndInv, TypeOK, Good
<1>2. CASE Start
  BY <1>1, <1>2, StartStep DEF Start
<1>3. CASE Abandon \/ UNCHANGED vars
  <2>1. st' = st
    BY <1>3 DEF Abandon, vars
  <2>2. Follows(st, st)
    BY <1>1 DEF Follows, Good, StateType
  <2> QED BY <2>1, <2>2
<1>4. ASSUME NEW c \in Chunks, ProcessChunk(c) PROVE Follows(st, st')
  <2>1. c \in ChunkType /\ st' = ProcessText(st, c, Len(fed) + 1)
    BY <1>4, StreamAssumption DEF ProcessChunk
  <2> QED BY <1>1, <2>1, ProcessTextStep
<1>5. ASSUME ProcessToolDelta PROVE Follows(st, st')
  <2>1. /\ st' = AddToolDelta(st, Head(pending), Len(fed)) /\ pc = "tools" /\ ~st.closed
        /\ Live(st)
    BY <1>5 DEF ProcessToolDelta, StreamInv, InControl
  <2>2. Head(pending) \in ToolDeltas
    BY <2>1 DEF StreamInv, IndInv, TypeOK
  <2>3. ~st.tools[Head(pending).index].done
    BY <2>1, <2>2 DEF StreamInv, InControl, ToolDeltas
  <2> QED BY <1>1, <2>1, <2>2, <2>3, AddToolDeltaStep
<1>6. ASSUME NEW threw \in BOOLEAN, NEW residue \in {"none", "reasoning", "message"},
             SourceDone(threw, residue)
      PROVE  Follows(st, st')
  BY <1>1, <1>6, SourceDoneStep DEF SourceDone
<1>7. ASSUME NEW i \in ToolIndices, FinalizeNextTool(i) PROVE Follows(st, st')
  BY <1>1, <1>7, FinalizeToolStep DEF FinalizeNextTool, Unfinished
<1> QED BY <1>2, <1>3, <1>4, <1>5, <1>6, <1>7 DEF Next

(* The end adds at most its own event, and closes the sink.                    *)
LEMMA TerminateWire ==
  ASSUME StreamInv, Terminate
  PROVE  /\ st'.closed
         /\ IF st.closed THEN st'.wire = st.wire
            ELSE \E e : e.type \in {"completed", "failed"} /\ st'.wire = st.wire \cup {e}
<1> DEFINE status == IF failed THEN "failed" ELSE "completed"
           t == Emit(st, status, NoItem, NoItem, st.finalOutput, 0)
           e == [seq |-> st.seq, type |-> status, item |-> NoItem, index |-> NoItem,
                 body |-> st.finalOutput, extra |-> 0]
<1>1. st \in StateType /\ st' = [t EXCEPT !.closed = TRUE]
  BY DEF Terminate, StreamInv, IndInv, TypeOK
<1>2. t = [st EXCEPT !.seq = st.seq + 1, !.wire = IF st.closed THEN st.wire ELSE st.wire \cup {e}]
  BY DEF Emit
<1>3. e.type \in {"completed", "failed"}
  OBVIOUS
<1> HIDE DEF e
<1>4. t.wire = (IF st.closed THEN st.wire ELSE st.wire \cup {e})
  BY <1>1, <1>2 DEF StateType
<1>5. st'.closed /\ st'.wire = t.wire
  BY <1>1, <1>2 DEF StateType
<1> QED BY <1>3, <1>4, <1>5

(* What the promise sees of a stream whose client is there.                    *)
OpenOnTheWire ==
  /\ Status = "open" /\ Cardinality(Announced) = st.fresh /\ st.fresh \in Nat
  /\ Announced = 0 .. (st.fresh - 1) /\ Finished \subseteq Announced
  /\ Finished = Members(st.finalOutput)

(* It follows from the books.                                                  *)
LEMMA OpenPromise == StreamInv /\ ~st.closed => OpenOnTheWire
<1> SUFFICES ASSUME StreamInv, ~st.closed PROVE OpenOnTheWire
  OBVIOUS
<1>1. Live(st) /\ st.fresh \in Nat
  BY DEF StreamInv, IndInv, TypeOK, StateType
<1>2. Announced = 0 .. (st.fresh - 1) /\ Finished \subseteq Announced /\ Finished = Members(st.finalOutput)
  BY <1>1, OnTheWire DEF Live, Orderly, Books
<1>3. Cardinality(0 .. (st.fresh - 1)) = st.fresh
  BY <1>1, FS_Interval
<1>4. Status = "open"
  BY LiveIntact DEF Status, Terminals
<1> QED BY <1>1, <1>2, <1>3, <1>4 DEF OpenOnTheWire

(* The same of the next state.                                                 *)
LEMMA OpenPromiseNext == StreamInv' /\ ~st'.closed => OpenOnTheWire'
<1>1. StreamInv /\ ~st.closed => OpenOnTheWire
  BY OpenPromise
<1>2. (StreamInv /\ ~st.closed => OpenOnTheWire)'
  BY <1>1, PTL
<1> QED BY <1>2

(* At first nothing is announced.                                              *)
LEMMA PromiseInit == Init => Promise!Init
<1> SUFFICES ASSUME Init PROVE Promise!Init
  OBVIOUS
<1>1. st.wire = {} /\ ~st.closed
  BY DEF Init, InitialState
<1>2. Announced = {} /\ Finished = {} /\ Status = "open"
  BY <1>1 DEF Announced, Finished, Status, Events
<1> QED BY <1>2, FS_EmptySet DEF Promise!Init

(* Each step of the translator is one of the promise, or changes nothing in it.*)
LEMMA PromiseNext == StreamInv /\ StreamInv' /\ [Next]_vars => [Promise!Next]_(Promise!vars)
<1> SUFFICES ASSUME StreamInv, StreamInv', [Next]_vars PROVE [Promise!Next]_(Promise!vars)
  OBVIOUS
<1>1. ASSUME st'.wire = st.wire, st'.closed = st.closed PROVE UNCHANGED Promise!vars
  BY <1>1 DEF Promise!vars, Announced, Finished, Status, Events
<1>2. CASE st.closed
  <2>1. CASE Terminate
    BY <1>1, <1>2, <2>1, TerminateWire DEF StreamInv, IndInv, TypeOK, StateType
  <2>2. CASE ~Terminate
    <3>1. ~ClientClose
      BY <1>2 DEF ClientClose
    <3>2. Follows(st, st')
      BY <2>2, <3>1, NextFollows
    <3> QED BY <1>1, <1>2, <3>2 DEF Follows
  <2> QED BY <2>1, <2>2
<1>3. CASE ~st.closed /\ Terminate
  <2>1. PICK e : e.type \in {"completed", "failed"} /\ st'.wire = st.wire \cup {e}
    BY <1>3, TerminateWire
  <2>2. Announced' = Announced /\ Finished' = Finished
    BY <2>1 DEF Announced, Finished, Events
  <2>3. Status' \in {"completed", "failed"}
    BY <2>1 DEF Status, Events
  <2>4. Announced = Finished
    BY <1>3, AllFinished DEF Terminate
  <2>5. Status = "open" /\ Cardinality(Announced) = st.fresh /\ Finished = 0 .. (st.fresh - 1)
    BY <1>3, <2>4, OpenPromise DEF OpenOnTheWire
  <2>6. Promise!End
    BY <2>2, <2>3, <2>5 DEF Promise!End
  <2> QED BY <2>6 DEF Promise!Next
<1>4. CASE ~st.closed /\ ClientClose
  <2>1. st'.wire = st.wire /\ st'.closed
    BY <1>4 DEF ClientClose, StreamInv, IndInv, TypeOK, StateType
  <2>2. Announced' = Announced /\ Finished' = Finished /\ \A type : Events(type)' = Events(type)
    BY <2>1 DEF Announced, Finished, Events
  <2>3. Terminals = {} /\ Status = "open"
    BY <1>4, LiveIntact, OpenPromise DEF OpenOnTheWire
  <2>4. Status' = "gone"
    BY <2>1, <2>2, <2>3 DEF Status, Terminals
  <2> QED BY <2>2, <2>3, <2>4 DEF Promise!Next, Promise!Lose
<1>5. CASE ~st.closed /\ ~Terminate /\ ~ClientClose
  <2>1. Follows(st, st')
    BY <1>5, NextFollows
  <2>2. ~st'.closed
    BY <1>5, <2>1 DEF Follows
  <2>3. /\ Status = "open" /\ Cardinality(Announced) = st.fresh /\ Finished = Members(st.finalOutput)
    BY <1>5, OpenPromise DEF OpenOnTheWire
  <2>4. /\ Status' = "open" /\ Cardinality(Announced)' = st'.fresh
        /\ Finished' \subseteq 0 .. (st'.fresh - 1) /\ Finished' = Members(st'.finalOutput)
    BY <2>2, OpenPromiseNext DEF OpenOnTheWire, Members
  <2>5. st'.fresh >= st.fresh /\ Finished \subseteq Finished'
    BY <2>1, <2>3, <2>4 DEF Follows
  <2>6. Promise!Progress
    BY <2>3, <2>4, <2>5 DEF Promise!Progress
  <2> QED BY <2>6 DEF Promise!Next
<1> QED BY <1>2, <1>3, <1>4, <1>5

(* The translator implements the promise of ResponsesStream.                   *)
THEOREM TranslatorKeepsPromise == Spec => KeepsPromise
<1>1. Init => Promise!Init
  BY PromiseInit
<1>2. StreamInv /\ StreamInv' /\ [Next]_vars => [Promise!Next]_(Promise!vars)
  BY PromiseNext
<1> QED BY <1>1, <1>2, StreamInvariantHolds, PTL DEF Spec, KeepsPromise, Promise!Spec
================================================================================
