----------------------------- MODULE ScanModes ------------------------------
(***************************************************************************)
(* The two modes on the same input, the serial run first, as the tests of  *)
(* tests/test_parallel_pipeline.cpp compare them: what the cut into chunks *)
(* with lookahead keeps of the serial result, and what it does not.        *)
(***************************************************************************)
EXTENDS SerialRun, ChunkedRun

scanVars == <<input, serialVars, chunkedVars>>

ScanInit == InputInit /\ SerialInit /\ ChunkedInit

ModesStep ==
  \/ SerialStep /\ UNCHANGED <<input, chunkedVars>>
  \/ serialPc = "done" /\ ChunkedStep /\ UNCHANGED <<input, serialVars>>
  \/ serialPc = "done" /\ chunkedPc = "done" /\ UNCHANGED scanVars

ScanSpec == ScanInit /\ [][ModesStep]_scanVars
-----------------------------------------------------------------------------
\* The characters that belong to chunks 0..n-1, the cap included.
CharsOf(n) ==
  LET digits == Lesser(n * ChunkSize, Len(input.digits))
  IN  (IF input.maxDigits > 0 THEN Lesser(digits, input.maxDigits) ELSE digits) \div Dpc
Processed == Len(found)

Matches == [start : 0..Len(AllLetters), word : input.dict]
Phrases == [start : 0..Len(AllLetters), words : Seq(input.dict)]

\* The settings that the two modes rely on are those validate_config lets pass.
ScanTypeOK ==
  /\ input.chunk \in Nat \ {0} /\ input.maxDigits \in Nat /\ input.minPhrase \in Nat \ {0}
  /\ input.policy \in {"all-combos", "earliest-then-longest"}
  /\ position \in 0..Len(input.digits) /\ serialPc \in {"read", "emit", "done"}
  /\ scan.raw \in Seq(Matches)
  /\ scan.state = <<>> \/ \E w \in input.dict : IsPrefix(scan.state, w)
  /\ phrases \in Seq(Phrases)
  /\ nextSeq \in Nat /\ chunkedPc \in {"run", "done"}
  /\ found \in Seq(Seq(Matches)) /\ output \in Seq(Seq(Phrases))
  /\ Len(found) = Len(combos) /\ Len(found) = Len(output)
  /\ nextSeq = Len(found) + (IF chunkedPc = "done" THEN 1 ELSE 0)

\* The automaton state carried from chunk to chunk makes the chunk size
\* invisible in serial mode: the matches are the occurrences that end in the
\* digits read so far, each once (Pipeline.cpp:70-87).
ChunkSizeInvisible ==
  /\ ToSet(scan.raw) = {m \in Occurrences : EndOf(m) <= Len(letters)}
  /\ IsInjective(scan.raw)
  /\ letters = SubSeq(AllLetters, 1, Len(letters))

\* In parallel mode a word that starts in a chunk's own characters is found by
\* that chunk and by no other, even if it ends several chunks later or past
\* max_digits (DigitDispatcher.hpp:23-36, Pipeline.cpp:166-171).
EveryWordOnce ==
  /\ ToSet(FlattenSeq(found)) = {m \in Occurrences : m.start < CharsOf(Processed)}
  /\ IsInjective(FlattenSeq(found))

\* letter_sequence.txt is the mapped text without gaps or repetitions, so both
\* modes write the same one when max_digits does not cut it.
SameLetters ==
  /\ lettersOut = SubSeq(AllLetters, 1, CharsOf(Processed))
  /\ chunkedPc = "done" /\ input.maxDigits = 0 => lettersOut = letters

\* All the phrases of the parallel mode.
ParallelPhrases == ToSet(FlattenSeq(output))
LastWordStart(p) ==
  p.start + Len(FlattenSeq(p.words)) - Len(Last(p.words))
ChunkOf(char) == (char * Dpc) \div ChunkSize

\* Under all-combos the parallel phrases are those serial ones whose words all
\* start in one chunk: nothing extra, only those across a boundary are missing
\* (tests/test_parallel_pipeline.cpp:137).
AllCombosLoseOnlyBoundaries ==
  (chunkedPc = "done" /\ input.policy = "all-combos") =>
    /\ ParallelPhrases = {p \in ToSet(phrases) :
                            /\ LastWordStart(p) < CharsOf(Processed)
                            /\ ChunkOf(p.start) = ChunkOf(LastWordStart(p))}
    /\ IsInjective(FlattenSeq(output)) /\ IsInjective(phrases)

\* A chain always reaches results.json as one phrase with all of its words, by
\* process_words as by process_words_streaming, and each of the two modes writes
\* its phrases in ascending order of their starts, the parallel one also from
\* chunk to chunk (HumanReviewScanner.cpp:7-95).
OnePhrasePerChain ==
  /\ \A n \in DOMAIN combos : output[n] =
       [k \in DOMAIN combos[n] |->
          [start |-> combos[n][k][1].start,
           words |-> [j \in DOMAIN combos[n][k] |-> combos[n][k][j].word]]]
  /\ \A k \in 1..(Len(phrases) - 1) : phrases[k].start <= phrases[k + 1].start
  /\ \A n, l \in DOMAIN output : \A j \in DOMAIN output[n], k \in DOMAIN output[l] :
       n < l \/ (n = l /\ j < k) => output[n][j].start <= output[l][k].start
  /\ serialPc # "read" => phrases \o FlattenSeq([k \in DOMAIN chains |-> ProcessWords(chains[k])])
                          = LET all == Chains(input.policy, scan.raw, input.minPhrase)
                            IN  FlattenSeq([k \in DOMAIN all |-> ProcessWords(all[k])])

\* The words of a chunk's phrases under earliest-then-longest.
Chosen(n) == UNION {ToSet(combos[n][k]) : k \in DOMAIN combos[n]}
Overlap(a, b) == a.start < EndOf(b) /\ b.start < EndOf(a)

\* Within a chunk earliest-then-longest is what README.md:158 says: the chosen
\* words do not overlap, a word is passed over only for one that covers its
\* start, and a phrase is a whole run of at least min_phrase_length words.
EtlIsGreedy ==
  input.policy = "earliest-then-longest" =>
    \A n \in DOMAIN combos :
      /\ \A a, b \in Chosen(n) : a = b \/ ~Overlap(a, b)
      /\ \A c, d \in ToSet(combos[n]) : EndOf(Last(c)) # d[1].start
      /\ \A c \in ToSet(combos[n]) : Len(c) >= input.minPhrase
      /\ \A a \in Chosen(n), m \in ToSet(found[n]) :
           m.start = a.start => Len(m.word) <= Len(a.word)
      /\ input.minPhrase <= 1 =>
           \A m \in ToSet(found[n]) :
             \E a \in Chosen(n) : a.start <= m.start /\ m.start < EndOf(a)

\* README.md:158 says that the policy "picks one non-overlapping sequence": no
\* two words of results.json overlap.  Not so across a chunk boundary, where a
\* word that straddles it overlaps the first choice of the next chunk.
NoOverlapInResults ==
  input.policy = "earliest-then-longest" =>
    \A n, k \in DOMAIN combos :
      \A a \in Chosen(n), b \in Chosen(k) : (n = k /\ a = b) \/ ~Overlap(a, b)
=============================================================================
