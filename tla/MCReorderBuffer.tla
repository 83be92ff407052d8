--------------------------- MODULE MCReorderBuffer --------------------------
(* An instance of ReorderBuffer for TLC: chunks of one, two and three packages. *)
EXTENDS ReorderBuffer

MCSize == [c \in 0..3 |-> CASE c = 1 -> 3 [] c = 2 -> 2 [] OTHER -> 1]
=============================================================================
