------------------------------ MODULE Ordered -------------------------------
(* Numbers in ascending order, and parts of a sequence. *)
EXTENDS Integers, Sequences, FiniteSets

\* The members of a finite set of numbers, smallest first.
Ascending(S) ==
  [k \in 1..Cardinality(S) |-> CHOOSE x \in S : Cardinality({y \in S : y <= x}) = k]

\* The members of seq at these places, in their order.
Selected(seq, places) == [k \in DOMAIN Ascending(places) |-> seq[Ascending(places)[k]]]

\* The last n members of s.
Suffix(s, n) == SubSeq(s, Len(s) - n + 1, Len(s))
=============================================================================
