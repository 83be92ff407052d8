---------------------------- MODULE ReorderBuffer ---------------------------
(***************************************************************************)
(* The writer thread of run_parallel (src/pipeline/Pipeline.cpp) and the   *)
(* buffer it reorders with (include/pipeline/ReorderBuffer.hpp).  Packages *)
(* arrive in any order; a chunk is written when its final package and all  *)
(* the packages before it are in, and chunks are written in chunk order.   *)
(*                                                                         *)
(* A package is the pair <<chunk_id, intra_chunk_seq_id>>; the last one of *)
(* a chunk carries final_package_in_chunk, as WordFinderWorker numbers     *)
(* them.  The queue may end before every package has arrived: a stage that *)
(* produced nothing for some chunk leaves a gap.                           *)
(***************************************************************************)
EXTENDS Integers, Sequences, FiniteSets

CONSTANTS NumChunks,   \* chunks the dispatcher hands out
          Size         \* Size[c]: how many packages chunk c was split into

ChunkIds == 0..(NumChunks - 1)

ASSUME NumChunksAssumption == NumChunks \in Nat
ASSUME SizeAssumption == Size \in [ChunkIds -> Nat \ {0}]

VARIABLES pending,     \* pending_, as the set of its (chunk, intra) keys
          finalIdx,    \* final_idx_
          nextChunk,   \* next_chunk_
          written,     \* what cb has written, in order
          upstream,    \* packages that have not arrived yet
          pc           \* the writer: "pop", "drain", "drainAll", "done", "threw"

vars == <<pending, finalIdx, nextChunk, written, upstream, pc>>

Packages == UNION {{c} \X (0..(Size[c] - 1)) : c \in ChunkIds}
IsFinal(p) == p[2] = Size[p[1]] - 1

TypeOK ==
  /\ pending \subseteq Packages
  /\ nextChunk \in 0..NumChunks
  /\ DOMAIN finalIdx \subseteq nextChunk..(NumChunks - 1)
  /\ \A c \in DOMAIN finalIdx : finalIdx[c] = Size[c] - 1
  /\ written \in Seq(Packages)
  /\ upstream \subseteq Packages
  /\ pc \in {"pop", "drain", "drainAll", "done", "threw"}

Init ==
  /\ pending = {}
  /\ finalIdx = [c \in {} |-> 0]
  /\ nextChunk = 0
  /\ written = <<>>
  /\ upstream = Packages
  /\ pc = "pop"
-----------------------------------------------------------------------------
\* submit(): a new entry of pending_, and of final_idx_ when it is the last.
Submit(chunk, intra, final) ==
  /\ pending' = pending \cup {<<chunk, intra>>}
  /\ finalIdx' = IF final
                 THEN [c \in DOMAIN finalIdx \cup {chunk} |->
                         IF c = chunk THEN intra ELSE finalIdx[c]]
                 ELSE finalIdx

\* The keys of pending_[c].
Inner(c) == {p[2] : p \in {r \in pending : r[1] = c}}

\* Mutant of Ready: one package may be missing.
ReadyEarly == /\ nextChunk \in DOMAIN finalIdx
              /\ Cardinality(Inner(nextChunk)) >= finalIdx[nextChunk]

\* The two `break` tests of drain(): the final package is in, and there are
\* K + 1 packages.
Ready == /\ nextChunk \in DOMAIN finalIdx
         /\ Cardinality(Inner(nextChunk)) = finalIdx[nextChunk] + 1

\* inner.at(i) for every i of 0..K finds its key.
AtFinds == \A i \in 0..finalIdx[nextChunk] : <<nextChunk, i>> \in pending

\* Mutant of Block: the last package of the chunk is skipped.
ShortBlock == [i \in 1..finalIdx[nextChunk] |-> <<nextChunk, i - 1>>]

\* What the loop over 0..K writes.
Block == [i \in 1..(finalIdx[nextChunk] + 1) |-> <<nextChunk, i - 1>>]


\* Mutants of WriteChunk: final_idx_ or pending_ is not erased.
WriteAndKeepFinal ==
  /\ written' = written \o Block
  /\ pending' = {p \in pending : p[1] # nextChunk}
  /\ UNCHANGED finalIdx
  /\ nextChunk' = nextChunk + 1
WriteAndKeepPending ==
  /\ written' = written \o Block
  /\ UNCHANGED pending
  /\ finalIdx' = [c \in DOMAIN finalIdx \ {nextChunk} |-> finalIdx[c]]
  /\ nextChunk' = nextChunk + 1

\* One turn of the while loop of drain().
WriteChunk ==
  /\ written' = written \o Block
  /\ pending' = {p \in pending : p[1] # nextChunk}
  /\ finalIdx' = [c \in DOMAIN finalIdx \ {nextChunk} |-> finalIdx[c]]
  /\ nextChunk' = nextChunk + 1
-----------------------------------------------------------------------------
\* phrase_q.pop() returned a package.
PopAndSubmit(p) ==
  /\ pc = "pop"
  /\ p \in upstream
  /\ Submit(p[1], p[2], IsFinal(p))
  /\ upstream' = upstream \ {p}
  /\ pc' = "drain"
  /\ UNCHANGED <<nextChunk, written>>

\* phrase_q.pop() returned false; packages still upstream never arrive.
PopReturnsFalse ==
  /\ pc = "pop"
  /\ pc' = "drainAll"
  /\ UNCHANGED <<pending, finalIdx, nextChunk, written, upstream>>

\* Mutant of DrainChunk: drain() writes one chunk and returns.
DrainOneChunk ==
  /\ pc \in {"drain", "drainAll"}
  /\ Ready
  /\ WriteChunk
  /\ pc' = IF pc = "drain" THEN "pop" ELSE "done"
  /\ UNCHANGED upstream

\* A chunk is ready: it is written, unless at() throws.
DrainChunk ==
  /\ pc \in {"drain", "drainAll"}
  /\ Ready
  /\ IF AtFinds THEN WriteChunk /\ UNCHANGED pc
                ELSE pc' = "threw" /\ UNCHANGED <<pending, finalIdx, nextChunk, written>>
  /\ UNCHANGED upstream

\* Not ready: the loop breaks.
DrainBreaks ==
  /\ pc \in {"drain", "drainAll"}
  /\ ~Ready
  /\ pc' = IF pc = "drain" THEN "pop" ELSE "done"
  /\ UNCHANGED <<pending, finalIdx, nextChunk, written, upstream>>

Terminated == pc = "done" /\ UNCHANGED vars

Next == \/ \E p \in upstream : PopAndSubmit(p)
        \/ PopReturnsFalse
        \/ DrainChunk
        \/ DrainBreaks
        \/ Terminated

Spec == Init /\ [][Next]_vars
-----------------------------------------------------------------------------
\* The package after p in the order of the digits.
Succ(p) == IF p[2] + 1 < Size[p[1]] THEN <<p[1], p[2] + 1>> ELSE <<p[1] + 1, 0>>

\* However the packages arrive, what is on disk is the start of the sequential
\* output: the first package first, then each the successor of the one before,
\* and always whole chunks.
WrittenInOrder ==
  /\ \A k \in 1..(Len(written) - 1) : written[k + 1] = Succ(written[k])
  /\ IF nextChunk = 0
     THEN written = <<>>
     ELSE /\ written # <<>>
          /\ written[1] = <<0, 0>>
          /\ written[Len(written)] = <<nextChunk - 1, Size[nextChunk - 1] - 1>>

\* Nothing is forgotten and nothing is written twice: a package is upstream,
\* pending or written, and of a chunk that is waiting nothing is written.
NothingForgotten ==
  /\ upstream \cap pending = {}
  /\ \A p \in pending : p[1] >= nextChunk
  /\ \A p \in upstream : p[1] >= nextChunk
  /\ \A c \in ChunkIds : c >= nextChunk =>
       \A i \in 0..(Size[c] - 1) : <<c, i>> \in pending \cup upstream

\* Output is held back only by a package that has not arrived: whenever the
\* writer waits, and when it is done, the next chunk lacks one.
PromptDrain ==
  pc \in {"pop", "done"} =>
    nextChunk = NumChunks \/ \E p \in upstream : p[1] = nextChunk

\* The invariant the proofs induct on: the final index of a chunk is known
\* exactly while its final package is pending.
FinalKnown == \A c \in ChunkIds : c \in DOMAIN finalIdx <=> <<c, Size[c] - 1>> \in pending

\* inner.at(i) never throws, although only the number of packages is tested.
NeverThrows == pc # "threw"

IInv == TypeOK /\ NothingForgotten /\ FinalKnown /\ NeverThrows /\ WrittenInOrder /\ PromptDrain
=============================================================================
