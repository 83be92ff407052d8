----------------------------- MODULE SerialRun ------------------------------
(***************************************************************************)
(* Pipeline::run of src/src/pipeline/Pipeline.cpp: the digits are read and *)
(* scanned chunk by chunk with one automaton state, the overlap policy is  *)
(* applied once to all the matches, and each chain streams through the     *)
(* phrase scanner.  Actions only; ScanModes gives the specification.       *)
(***************************************************************************)
EXTENDS ScanInput

VARIABLES position,        \* digits consumed by next_chunk
          scan,            \* [state |-> ac_state, raw |-> raw_global]
          letters,         \* letter_sequence.txt
          chains,          \* chains apply_policy_cb has still to report
          phrases,         \* the phrases of results.json
          serialPc         \* "read", "emit", "done"

serialVars == <<position, scan, letters, chains, phrases, serialPc>>

SerialInit ==
  /\ position = 0
  /\ scan = [state |-> <<>>, raw |-> <<>>]
  /\ letters = <<>> /\ chains = <<>> /\ phrases = <<>>
  /\ serialPc = "read"

\* The digits next_chunk returns, and those cut to whole characters.
Chunk == SubSeq(input.digits, position + 1, Lesser(position + ChunkSize, Len(input.digits)))
Usable == SubSeq(Chunk, 1, (Len(Chunk) \div Dpc) * Dpc)

\* Mutant of ScanNext: every chunk starts from the root, as in the parallel mode.
ScanAfresh ==
  /\ serialPc = "read" /\ Usable # <<>>
  /\ LET chars == MapDigits(Usable) IN
       /\ scan' = ScanChunk(input.dict, chars, Len(letters), [scan EXCEPT !.state = <<>>])
       /\ letters' = letters \o chars
  /\ position' = position + Len(Chunk)
  /\ UNCHANGED <<chains, phrases, serialPc>>

ScanNext ==
  /\ serialPc = "read" /\ Usable # <<>>
  /\ LET chars == MapDigits(Usable) IN
       /\ scan' = ScanChunk(input.dict, chars, Len(letters), scan)
       /\ letters' = letters \o chars
  /\ position' = position + Len(Chunk)
  /\ UNCHANGED <<chains, phrases, serialPc>>

EndOfDigits ==
  /\ serialPc = "read" /\ Usable = <<>>
  /\ position' = position + Len(Chunk)
  /\ chains' = Chains(input.policy, scan.raw, input.minPhrase)
  /\ serialPc' = "emit"
  /\ UNCHANGED <<scan, letters, phrases>>

\* Mutant of StreamWord: pending_end_ stays at the end of the first word.
StreamKeepsEnd(acc, m) ==
  IF acc.pending # <<>> /\ m.start - acc.pendingEnd = 0
  THEN [acc EXCEPT !.pending = <<WithWord(@[1], m.word)>>]
  ELSE [out |-> acc.out \o acc.pending,
        pending |-> <<[start |-> m.start, words |-> <<m.word>>]>>,
        pendingEnd |-> EndOf(m)]

\* process_words_streaming, one word: pending is <<>> or <<pending_phrase_>>.
StreamWord(acc, m) ==
  IF acc.pending # <<>> /\ m.start - acc.pendingEnd = 0
  THEN [out |-> acc.out,
        pending |-> <<WithWord(acc.pending[1], m.word)>>,
        pendingEnd |-> EndOf(m)]
  ELSE [out |-> acc.out \o acc.pending,
        pending |-> <<[start |-> m.start, words |-> <<m.word>>]>>,
        pendingEnd |-> EndOf(m)]

\* A chain as one batch, then flush_streaming.
Streamed(chain) ==
  LET end == FoldLeft(StreamWord, [out |-> <<>>, pending |-> <<>>, pendingEnd |-> 0], chain)
  IN  end.out \o end.pending

EmitSequence ==
  /\ serialPc = "emit" /\ chains # <<>>
  /\ phrases' = phrases \o Streamed(Head(chains))
  /\ chains' = Tail(chains)
  /\ UNCHANGED <<position, scan, letters, serialPc>>

SerialEnds ==
  /\ serialPc = "emit" /\ chains = <<>>
  /\ serialPc' = "done"
  /\ UNCHANGED <<position, scan, letters, chains, phrases>>

SerialStep == ScanNext \/ EndOfDigits \/ EmitSequence \/ SerialEnds
=============================================================================
