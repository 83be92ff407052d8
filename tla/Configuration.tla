--------------------------- MODULE Configuration ----------------------------
(***************************************************************************)
(* The settings of pi_poetry: validate_config of                           *)
(* src/src/config_validator.cpp, which main() asks before it does anything *)
(* else, and what main() then takes for a setting that is not given.       *)
(*                                                                         *)
(* A configuration is a function from the settings that are given,         *)
(* "section.key", to values [type, value].                                 *)
(***************************************************************************)
EXTENDS Integers

CONSTANT Files    \* the paths that exist

Text(value) == [type |-> "string", value |-> value]
Number(value) == [type |-> "integer", value |-> value]

Given(config, keys) == keys \cap DOMAIN config

\* value_or: a value of another type counts as none.
ValueOr(config, key, type, default) ==
  IF key \in DOMAIN config /\ config[key].type = type THEN config[key].value ELSE default

DefaultText(key) ==
  CASE key = "pipeline.mode" -> "serial"
    [] key = "digit_source.type" -> "file"
    [] key = "digit_source.path" -> "data/pi_2000.txt"
    [] key = "digit_mapper.type" -> "two-digit-block"
    [] key = "word_finder.overlap_policy" -> "earliest-then-longest"
    [] key = "word_finder.dictionary" -> "dictionaries/english.txt"
    [] OTHER -> ""
TextOf(config, key) == ValueOr(config, key, "string", DefaultText(key))
NumberOf(config, key, default) == ValueOr(config, key, "integer", default)

AllowedTexts(key) ==
  CASE key = "pipeline.mode" -> {"serial", "parallel"}
    [] key = "digit_source.type" -> {"file", "api"}
    [] key = "digit_mapper.type" -> {"two-digit-block", "mapping-file"}
    [] key = "word_finder.overlap_policy" -> {"earliest-then-longest", "all-combos"}
WithChoices == {"pipeline.mode", "digit_source.type", "digit_mapper.type", "word_finder.overlap_policy"}

\* check_reserved_str.
Reserved == {"word_finder.type", "phrase_scanner.type"}
OnlyChoice(key) == IF key = "word_finder.type" THEN "aho-corasick-cpu" ELSE "human-review"

\* check_threads, chunk_size, and the two least lengths.
Positive == {"digit_source.threads", "digit_mapper.threads", "word_finder.threads",
             "phrase_scanner.threads", "analysis.threads", "digit_source.chunk_size",
             "word_finder.min_word_length", "phrase_scanner.min_phrase_length"}

\* The settings that name a file which is going to be read.
FilesNeeded(config) ==
  {"word_finder.dictionary"}
    \cup (CASE TextOf(config, "digit_source.type") = "file" -> {"digit_source.path"}
            [] TextOf(config, "digit_source.type") = "api" -> {"digit_source.source_config"}
            [] OTHER -> {})
    \cup (IF TextOf(config, "digit_mapper.type") = "mapping-file"
          THEN {"digit_mapper.mapping_file"} ELSE {})

\* validate_config: the settings there is an error about.  queue_size is not looked
\* at, and a number that is no number only where it must be positive.
Errors(config) ==
  {k \in WithChoices : TextOf(config, k) \notin AllowedTexts(k)}
    \cup {k \in Given(config, Reserved) :
            config[k].type # "string" \/ config[k].value # OnlyChoice(k)}
    \cup {k \in Given(config, Positive) : config[k].type # "integer" \/ config[k].value < 1}
    \cup {k \in Given(config, {"digit_source.max_digits"}) :
            config[k].type = "integer" /\ config[k].value < 0}
    \cup {k \in FilesNeeded(config) : TextOf(config, k) \notin Files}
    \cup {k \in Given(config, {"analysis.run_after_pipeline"}) : config[k].type # "boolean"}
=============================================================================
