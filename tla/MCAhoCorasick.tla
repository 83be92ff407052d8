--------------------------- MODULE MCAhoCorasick ----------------------------
(* Instances of AhoCorasick for TLC: dictionaries whose words are prefixes,   *)
(* suffixes and infixes of each other, over two letters.                      *)
EXTENDS AhoCorasick

MCAlphabet == <<"a", "b">>
MCDictionaries == {
  << <<"a">>, <<"a", "b">>, <<"b">> >>,
  << <<"a", "b", "a", "b">>, <<"b", "a">>, <<"b">> >>,
  << <<"b", "b">>, <<"a", "b", "b", "a">>, <<"b", "a", "a">> >>,
  << <<"a", "a">>, <<"a", "a", "a">>, <<"a", "#">>, <<"b", "a", "a">> >>,
  << <<"a">>, <<"a">>, <<"a", "b", "#", "b">> >> }
\* Every text of at most four characters, and all of six letters.
MCTexts == UNION {[1..n -> {"a", "b", "#"}] : n \in 1..4} \cup [1..6 -> {"a", "b"}]
=============================================================================
