--------------------------- MODULE MCDigitSources ---------------------------
(* Instances of DigitSources for TLC. *)
EXTENDS DigitSources

\* Nothing, some digits, and digits before a line break.
MCInitialFiles == {<<>>, <<1>>, <<1, 2, 3>>, <<1, 2, LineBreak>>}
=============================================================================
