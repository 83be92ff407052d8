---------------------------- MODULE MCScanModes -----------------------------
(* Instances of ScanModes for TLC: every short text over two digits, mapped   *)
(* digit by digit or in pairs, cut into chunks of one to four digits.         *)
EXTENDS ScanModes

A == <<0>>
B == <<1>>
Single == [dpc |-> 1, table |-> (0 :> 0) @@ (1 :> 1)]
\* The pairs 10 and 11 stand for the letters 10 and 11 of the two-digit blocks.
K == <<10>>

MCFiles == {"data/pi_2000.txt", "dictionaries/english.txt", "single.txt"}

Dictionaries == { {A, B, A \o B},
                  {A, B \o A, A \o B \o A},
                  {B \o B, A \o B \o B \o A, A} }
PairDictionaries == { {A, K, A \o K, K \o <<11>>}, {B \o A, A \o B \o A, <<11>>} }

TextsOf(lengths) == UNION {[1..n -> {0, 1}] : n \in lengths}

MappingFile == ("digit_mapper.type" :> Text("mapping-file"))
                 @@ ("digit_mapper.mapping_file" :> Text("single.txt"))
Config(chunk, maxDigits, policy, minPhrase) ==
  ("digit_source.chunk_size" :> Number(chunk)) @@ ("digit_source.max_digits" :> Number(maxDigits))
    @@ ("word_finder.overlap_policy" :> Text(policy))
    @@ ("phrase_scanner.min_phrase_length" :> Number(minPhrase))
Policies == {"all-combos", "earliest-then-longest"}

Usual == {Config(c, d, p, m) @@ MappingFile : c \in 1..3, d \in {0, 3}, p \in Policies, m \in {1, 2}}
InPairs == {Config(c, d, p, 1) : c \in {1, 4}, d \in {0, 3}, p \in Policies}
\* Settings left out or of another type, words that are too short, and settings that
\* are refused.
Unusual ==
  {MappingFile,
   MappingFile @@ ("word_finder.min_word_length" :> Number(2)) @@ ("digit_source.threads" :> Number(4)),
   MappingFile @@ ("digit_source.max_digits" :> Text("3")) @@ ("pipeline.mode" :> Number(1)),
   MappingFile @@ ("word_finder.type" :> Text("aho-corasick-cpu"))
               @@ ("analysis.run_after_pipeline" :> [type |-> "boolean", value |-> TRUE])}
Refused ==
  {Config(0, 0, "all-combos", 1), Config(1, -1, "all-combos", 1), Config(1, 0, "all-combos", 0),
   Config(1, 0, "longest", 1), [Config(1, 0, "all-combos", 1) EXCEPT !["digit_source.chunk_size"] = Text("1")],
   "word_finder.type" :> Text("cuda"), "word_finder.min_word_length" :> Number(0),
   "analysis.run_after_pipeline" :> Number(1), "digit_source.type" :> Text("api"),
   "digit_mapper.type" :> Text("mapping-file"), "digit_source.path" :> Text("elsewhere.txt")}

MCInputs ==
  [digits : TextsOf(1..5), mapping : {Single}, words : Dictionaries, config : Usual] \cup
  [digits : TextsOf({5, 6}), mapping : {Single}, words : PairDictionaries, config : InPairs] \cup
  [digits : TextsOf({4}), mapping : {Single}, words : Dictionaries, config : Unusual \cup Refused]
=============================================================================
