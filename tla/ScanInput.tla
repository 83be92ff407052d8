----------------------------- MODULE ScanInput ------------------------------
(***************************************************************************)
(* What both modes of src/src/pipeline/Pipeline.cpp are given: the digits  *)
(* of a file that holds nothing else, and the mapper, the dictionary and   *)
(* the settings that main() makes of an accepted configuration.            *)
(*                                                                         *)
(* A letter is its place in the alphabet, 0 to 25.                         *)
(***************************************************************************)
EXTENDS WordPolicies, Configuration

CONSTANT Inputs     \* records [digits, words, config, mapping]: what is in the file of
                    \* digits, in the dictionary, in the configuration and, as a mapper
                    \* [dpc, table], in the mapping file

\* The file holds digits, a word is a finite one of letters, and the TOML parser calls
\* nothing an integer that is none.
ASSUME ScanInputAssumption ==
  \A x \in Inputs :
    /\ x.digits \in Seq(0..9) /\ x.mapping.dpc \in Nat \ {0}
    /\ IsFiniteSet(x.words) /\ \A w \in x.words : w \in Seq(0..25)
    /\ \A k \in DOMAIN x.config : x.config[k].type = "integer" => x.config[k].value \in Int

VARIABLE input      \* [digits, mapper, dict, chunk, maxDigits, policy, minPhrase]

Lesser(a, b) == IF a <= b THEN a ELSE b

\* TwoDigitBlockMapper.
TwoDigitBlock == [dpc |-> 2, table |-> [pair \in 0..99 |-> pair % 26]]

\* main() after validate_config; insert_word leaves out the words that are too short.
Configured(x) ==
  [digits    |-> x.digits,
   mapper    |-> IF TextOf(x.config, "digit_mapper.type") = "two-digit-block"
                 THEN TwoDigitBlock ELSE x.mapping,
   dict      |-> {w \in x.words : Len(w) >= NumberOf(x.config, "word_finder.min_word_length", 1)},
   chunk     |-> NumberOf(x.config, "digit_source.chunk_size", 131072),
   maxDigits |-> NumberOf(x.config, "digit_source.max_digits", 0),
   policy    |-> TextOf(x.config, "word_finder.overlap_policy"),
   minPhrase |-> NumberOf(x.config, "phrase_scanner.min_phrase_length", 1)]

\* With errors in its configuration pi_poetry ends before it reads a digit.
InputInit == \E x \in Inputs : Errors(x.config) = {} /\ input = Configured(x)

Dpc == input.mapper.dpc

\* chunk_size, snapped up to a multiple of digits_per_char.
ChunkSize == IF input.chunk % Dpc # 0 THEN ((input.chunk \div Dpc) + 1) * Dpc ELSE input.chunk

\* DigitMapper::map: a block of dpc digits is a number in base 10, looked up in
\* table_; digits after the last whole block are left out.
MapDigits(digits) ==
  [i \in 1..(Len(digits) \div Dpc) |->
     input.mapper.table[FoldLeft(LAMBDA v, d : v * 10 + d, 0,
                                 SubSeq(digits, (i - 1) * Dpc + 1, i * Dpc))]]

\* All the letters and the matches in them, told without a scan.
AllLetters == MapDigits(input.digits)
Occurrences ==
  {m \in [start : 0..Len(AllLetters), word : input.dict] :
     EndOf(m) <= Len(AllLetters) /\ SubSeq(AllLetters, m.start + 1, EndOf(m)) = m.word}
=============================================================================
