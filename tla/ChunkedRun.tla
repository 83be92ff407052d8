----------------------------- MODULE ChunkedRun -----------------------------
(***************************************************************************)
(* The data path of Pipeline::run_parallel: what DigitDispatcher::next and *)
(* the process() of the three kinds of worker make of one chunk after the  *)
(* other.  The workers keep no state between packages and Pipeline shows   *)
(* that the chunks are written in sequence, so one action stands for all   *)
(* that happens to a chunk.  Actions only; see ScanModes.                  *)
(***************************************************************************)
EXTENDS ScanInput

VARIABLES nextSeq,         \* next_seq_
          found,           \* per chunk: the matches the policy is given
          combos,          \* per chunk: the chains of its packages
          output,          \* per chunk: its phrases in results.json
          lettersOut,      \* letter_sequence.txt
          chunkedPc        \* "run", "done"

chunkedVars == <<nextSeq, found, combos, output, lettersOut, chunkedPc>>

ChunkedInit ==
  /\ nextSeq = 0
  /\ found = <<>> /\ combos = <<>> /\ output = <<>> /\ lettersOut = <<>>
  /\ chunkedPc = "run"

MaxWordLength ==
  IF input.dict = {} THEN 0
  ELSE Len(CHOOSE w \in input.dict : \A v \in input.dict : Len(v) <= Len(w))

\* Mutant of LookaheadDigits: one character short.
LookaheadShort == (IF MaxWordLength > 1 THEN MaxWordLength - 2 ELSE 0) * Dpc
LookaheadDigits == (IF MaxWordLength > 0 THEN MaxWordLength - 1 ELSE 0) * Dpc

\* Mutant of EffectiveChunk: the cap is forgotten.
WholeChunk(offset) == ChunkSize
EffectiveChunk(offset) ==
  IF input.maxDigits > 0 /\ offset + ChunkSize > input.maxDigits
  THEN input.maxDigits - offset ELSE ChunkSize

\* next(), for seq_id nextSeq: <<>> is nullopt.
NextPackage ==
  LET offset == nextSeq * ChunkSize
      size   == EffectiveChunk(offset) + LookaheadDigits
      digits == SubSeq(input.digits, offset + 1, Lesser(offset + size, Len(input.digits)))
  IN  IF (input.maxDigits > 0 /\ offset >= input.maxDigits) \/ digits = <<>> THEN <<>>
      ELSE <<[offset  |-> offset,
              numReal |-> Lesser(EffectiveChunk(offset), Len(digits)),
              digits  |-> digits]>>

\* DigitMapperWorker::process.
MapPackage(pkg) == [offset  |-> pkg.offset \div Dpc,
                    numReal |-> pkg.numReal \div Dpc,
                    chars   |-> MapDigits(pkg.digits)]

\* Mutant of RealMatches: the words of the lookahead are reported as well.
AllMatches(pkg) ==
  ScanChunk(input.dict, pkg.chars, pkg.offset, [state |-> <<>>, raw |-> <<>>]).raw

\* WordFinderWorker::process, before the policy: a fresh state, and the words
\* that start in the lookahead are removed.
RealMatches(pkg) ==
  LET all == ScanChunk(input.dict, pkg.chars, pkg.offset, [state |-> <<>>, raw |-> <<>>]).raw
  IN  Selected(all, {k \in DOMAIN all : ~(all[k].start >= pkg.offset + pkg.numReal)})

\* Mutant of LettersOfPackage: the lookahead is written too.
LettersWithLookahead(pkg) == pkg.chars
LettersOfPackage(pkg) == SubSeq(pkg.chars, 1, pkg.numReal)

ProcessChunk ==
  /\ chunkedPc = "run" /\ NextPackage # <<>>
  /\ LET pkg  == MapPackage(NextPackage[1])
         raw  == RealMatches(pkg)
         made == Chains(input.policy, raw, input.minPhrase)
     IN  /\ found' = Append(found, raw)
         /\ combos' = Append(combos, made)
         /\ output' = Append(output, FlattenSeq([k \in DOMAIN made |-> ProcessWords(made[k])]))
         /\ lettersOut' = lettersOut \o LettersOfPackage(pkg)
  /\ nextSeq' = nextSeq + 1
  /\ UNCHANGED chunkedPc

ChunksEnd ==
  /\ chunkedPc = "run" /\ NextPackage = <<>>
  /\ nextSeq' = nextSeq + 1
  /\ chunkedPc' = "done"
  /\ UNCHANGED <<found, combos, output, lettersOut>>

ChunkedStep == ProcessChunk \/ ChunksEnd
=============================================================================
