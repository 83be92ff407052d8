---------------------------- MODULE MCGenMapping ----------------------------
(* Instances of GenMapping for TLC. *)
EXTENDS GenMapping

\* The letters occur so often, the first one in a capital as well.
Invocation(n, counts) ==
  [digits |-> n, lower |-> counts,
   upper |-> [c \in DOMAIN counts |-> IF c = 1 /\ counts[c] > 0 THEN 1 ELSE 0]]

\* No letters and every pair of small counts, three letters with shares that tie, a
\* letter too many for ten combos, and combos of two digits.
MCInvocations ==
  {Invocation(1, <<a, b>>) : a, b \in 0..6} \cup
  {Invocation(1, counts) : counts \in {<<1, 1, 1>>, <<0, 1, 1>>, <<12, 4, 4>>, <<3, 4, 13>>,
                                       <<4, 2, 1>>, <<2, 4, 14>>}} \cup
  {Invocation(1, [c \in 1..11 |-> 1]), Invocation(2, <<1>>), Invocation(2, <<0, 1>>)}

\* A mapping of an earlier run: every combo stands for the letter 1.
MCOldFiles ==
  {<<Header("digits_per_char", 1), Header("base", 10)>> \o [i \in 1..10 |-> Entry(<<i - 1>>, 1)]}
=============================================================================
