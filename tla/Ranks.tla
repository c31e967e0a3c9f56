--------------------------------- MODULE Ranks ---------------------------------
(***************************************************************************)
(* A finite set of numbers in its order: what a list keeps of another one  *)
(* by its positions (Array.filter), and what a table gives back ordered by *)
(* its key (ORDER BY).  SelectSeq and SortSeq say the same, but nothing    *)
(* can be proved of them: the provers do not know their definitions.       *)
(***************************************************************************)
EXTENDS Integers, FiniteSets

\* How many of a set are not above n: the place of n, if n is in the set.
Rank(numbers, n) == Cardinality({m \in numbers : m <= n})

\* The numbers of a set, the least first.
InOrder(numbers) ==
  [k \in 1 .. Cardinality(numbers) |-> CHOOSE n \in numbers : Rank(numbers, n) = k]
================================================================================
