----------------------------- MODULE ThinkSplitter -----------------------------
(***************************************************************************)
(* The inline-think splitter of src/src/translate/minimaxCompat.ts: a      *)
(* stateful filter that divides the text of successive chunks into what    *)
(* stands inside <think>...</think> and what stands outside, holding back  *)
(* a tail that may turn out to be half a tag.                              *)
(*                                                                         *)
(* Text is a sequence of characters; the two tags are parameters, so that  *)
(* TLC can use shorter ones with the same structure (one "<" each, the     *)
(* closing tag told apart by its second character).                        *)
(***************************************************************************)
EXTENDS Integers, Sequences, SequencesExt

CONSTANTS
  Alphabet,   \* characters
  OpenTag, CloseTag,
  MaxText     \* bound: characters an upstream sends

ASSUME SplitterAssumption ==
  /\ OpenTag \in Seq(Alphabet) /\ CloseTag \in Seq(Alphabet)
  /\ OpenTag # <<>> /\ CloseTag # <<>>
  /\ MaxText \in Nat

VARIABLES
  inThink,    \* the splitter's two variables
  carry,
  content,    \* everything it has handed to the message channel
  reasoning,  \* everything it has handed to the reasoning channel
  text,       \* history: the text it was given
  cutTag,     \* history: some chunk ended exactly with a tag begun in an earlier one
  ended       \* flush was called

splitterVars == <<inThink, carry, content, reasoning, text, cutTag, ended>>

Target(think) == IF think THEN CloseTag ELSE OpenTag

\* String.indexOf, counted from 1 and 0 when there is none
IndexOf(buf, tag) ==
  LET at == {n \in 1 .. (Len(buf) - Len(tag) + 1) : SubSeq(buf, n, n + Len(tag) - 1) = tag}
  IN  IF at = {} THEN 0 ELSE CHOOSE n \in at : \A m \in at : n <= m

CarryLength_Short(buf, tag) ==
  IF Len(tag) > 2 /\ buf # <<>> /\ Last(buf) = Head(tag) THEN 1 ELSE 0

\* maybeCarryTail: the length of the longest tail that may begin the tag
CarryLength(buf, tag) ==
  CHOOSE k \in 0 .. (Len(tag) - 1) :
    /\ k <= Len(buf)
    /\ IsPrefix(SubSeq(buf, Len(buf) - k + 1, Len(buf)), tag)
    /\ \A j \in (k + 1) .. (Len(tag) - 1) :
         j <= Len(buf) => ~IsPrefix(SubSeq(buf, Len(buf) - j + 1, Len(buf)), tag)

Give(out, think, piece) ==
  IF think THEN [out EXCEPT !.reasoning = @ \o piece] ELSE [out EXCEPT !.content = @ \o piece]

\* The while loop of processChunk.  carry is only assigned where no tag is
\* found; the result says whether that happened.
RECURSIVE Loop(_, _, _)
Loop(buf, think, out) ==
  LET tag == Target(think)
      at  == IndexOf(buf, tag)
      k   == CarryLength(buf, tag)
  IN  IF buf = <<>> THEN [out EXCEPT !.inThink = think]
      ELSE IF at = 0
           THEN [Give(out, think, SubSeq(buf, 1, Len(buf) - k)) EXCEPT
                   !.inThink = think, !.settled = TRUE,
                   !.carry = SubSeq(buf, Len(buf) - k + 1, Len(buf))]
           ELSE Loop(SubSeq(buf, at + Len(tag), Len(buf)), ~think,
                     Give(out, think, SubSeq(buf, 1, at - 1)))

NothingOut == [content |-> <<>>, reasoning |-> <<>>, inThink |-> FALSE, carry |-> <<>>, settled |-> FALSE]

SplitterInit ==
  /\ inThink = FALSE /\ carry = <<>>
  /\ content = <<>> /\ reasoning = <<>>
  /\ text = <<>> /\ cutTag = FALSE /\ ended = FALSE

ProcessChunk(chunk) ==
  /\ ~ended
  /\ LET out == Loop(carry \o chunk, inThink, [NothingOut EXCEPT !.carry = carry])
     IN  /\ inThink' = out.inThink
         /\ carry' = out.carry
         /\ content' = content \o out.content
         /\ reasoning' = reasoning \o out.reasoning
         /\ cutTag' = (cutTag \/ (carry # <<>> /\ ~out.settled))
  /\ text' = text \o chunk
  /\ UNCHANGED ended

SplitterFlush ==
  /\ ~ended
  /\ ended' = TRUE
  /\ carry' = <<>>
  /\ content' = IF inThink THEN content ELSE content \o carry
  /\ reasoning' = IF inThink THEN reasoning \o carry ELSE reasoning
  /\ UNCHANGED <<inThink, text, cutTag>>

SplitterNext ==
  \/ \E n \in 1 .. (MaxText - Len(text)) : \E chunk \in [1 .. n -> Alphabet] : ProcessChunk(chunk)
  \/ SplitterFlush


\* The form for a complete message: only closed blocks are taken out, an open
\* one stays in the content.  (The blank line between two blocks is left out.)
RECURSIVE InlineThink(_, _)
InlineThink(s, out) ==
  LET open  == IndexOf(s, OpenTag)
      after == SubSeq(s, open + Len(OpenTag), Len(s))
      close == IF open = 0 THEN 0 ELSE IndexOf(after, CloseTag)
  IN  IF close = 0 THEN Give(out, FALSE, s)
      ELSE InlineThink(SubSeq(after, close + Len(CloseTag), Len(after)),
                       Give(Give(out, FALSE, SubSeq(s, 1, open - 1)),
                            TRUE, SubSeq(after, 1, close - 1)))

SplitInlineThink(s) == InlineThink(s, NothingOut)

--------------------------------------------------------------------------------
\* What the splitter should make of a text: read it once from left to right,
\* taking a tag wherever the one that is looked for begins.
RECURSIVE Split(_, _, _)
Split(s, think, out) ==
  IF s = <<>> THEN [out EXCEPT !.inThink = think]
  ELSE IF IsPrefix(Target(think), s)
       THEN Split(SubSeq(s, Len(Target(think)) + 1, Len(s)), ~think, out)
       ELSE Split(Tail(s), think, Give(out, think, <<Head(s)>>))

Whole == Split(text, FALSE, NothingOut)

(* Type invariant: what is held back is always a proper beginning of a tag. *)
SplitterTypeOK ==
  /\ inThink \in BOOLEAN /\ cutTag \in BOOLEAN /\ ended \in BOOLEAN
  /\ content \in Seq(Alphabet) /\ reasoning \in Seq(Alphabet) /\ text \in Seq(Alphabet)
  /\ \/ IsStrictPrefix(carry, OpenTag)
     \/ IsStrictPrefix(carry, CloseTag)

(* As long as no chunk ends exactly at the end of a tag that an earlier chunk *)
(* began, cutting the text into chunks changes nothing, at any moment: the    *)
(* splitter stands where it should, and what it handed out together with what *)
(* it holds back is what one reading of the whole text gives.                 *)
ExactUnlessTagEndsChunk ==
  ~cutTag =>
    /\ inThink = Whole.inThink
    /\ content \o (IF inThink THEN <<>> ELSE carry) = Whole.content
    /\ reasoning \o (IF inThink THEN carry ELSE <<>>) = Whole.reasoning

(* The streaming splitter and splitInlineThink, which divides a complete      *)
(* message, agree on every text whose think blocks are all closed.            *)
AgreesWithWholeMessage ==
  (ended /\ ~cutTag /\ ~inThink) =>
    /\ content = SplitInlineThink(text).content
    /\ reasoning = SplitInlineThink(text).reasoning

(* Both together: however a text is cut, it is divided the same way.          *)
SplitterAgrees == ExactUnlessTagEndsChunk /\ AgreesWithWholeMessage
================================================================================
