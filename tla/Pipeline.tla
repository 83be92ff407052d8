------------------------------ MODULE Pipeline ------------------------------
(***************************************************************************)
(* Pipeline::run_parallel (src/pipeline/Pipeline.cpp): feeders, the three  *)
(* worker stages, the writer, and the thread that started them all.        *)
(*                                                                         *)
(*   feeders -digitQ-> mappers -letterQ-> finders -comboQ-> scanners       *)
(*           -phraseQ-> writer -> results.json                             *)
(*                                                                         *)
(* The digits of a chunk are its seq_id.  A finder splits chunk c into     *)
(* Chains[c] combo packages, or into an empty one when it has no chain.    *)
(***************************************************************************)
EXTENDS Integers, Sequences, FiniteSets

CONSTANTS Feeders, Mappers, Finders, Scanners,   \* the threads of each stage
          DigitQCapacity, LetterQCapacity, ComboQCapacity, PhraseQCapacity,
          NumChunks,     \* chunks that begin before the end of the digits
          Chains,        \* chunk -> number of chains apply_policy_cb yields
          Faults         \* what may go wrong in a run: .fails, chunks whose read
                         \* fails and looks like the end; .throws, chunks whose read
                         \* throws; .noOutput, whether results.json may fail to open

VARIABLES digitQ, digitDone, letterQ, letterDone, comboQ, comboDone, phraseQ, phraseDone,
          fpc, hand, nextSeq, activeFeeders, stopRequested, stopFile, faults, late,
          mpc, mtodo, mactive, wpc, wtodo, wactive, spc, stodo, sactive,
          pending, finalIdx, nextChunk, written,
          writer,        \* the writer thread: "none" before it is started
          main           \* run_parallel itself

queueVars   == <<digitQ, digitDone, letterQ, letterDone, comboQ, comboDone, phraseQ, phraseDone>>
feedersVars == <<fpc, hand, nextSeq, activeFeeders, stopRequested, stopFile, faults, late>>
mapperVars  == <<mpc, mtodo, mactive>>
finderVars  == <<wpc, wtodo, wactive>>
scannerVars == <<spc, stodo, sactive>>
writerVars  == <<pending, finalIdx, nextChunk, written, writer>>
vars == <<queueVars, feedersVars, mapperVars, finderVars, scannerVars, writerVars, main>>

ASSUME CapacityAssumption ==
  \A k \in {DigitQCapacity, LetterQCapacity, ComboQCapacity, PhraseQCapacity} : k \in Nat
ASSUME ThreadsAssumption ==
  \A T \in {Feeders, Mappers, Finders, Scanners} : IsFiniteSet(T) /\ T # {}
ASSUME ChunksAssumption ==
  NumChunks \in Nat /\ Chains \in [0..(NumChunks - 1) -> Nat]
  /\ Faults \subseteq [fails : SUBSET Nat, throws : SUBSET Nat, noOutput : BOOLEAN]

ChunkIds == 0..(NumChunks - 1)

\* Mutant of PackageCount: a chunk without chains yields no package.
PackageCountBare == Chains

\* `if (pending.empty())`: a chunk without chains still yields one package.
PackageCount == [c \in ChunkIds |-> IF Chains[c] = 0 THEN 1 ELSE Chains[c]]

\* Mutant of CombosOf: the final flag is on the first package.
CombosOfFirst == [c \in ChunkIds |-> [i \in 1..PackageCount[c] |->
                                  [chunk |-> c, intra |-> i - 1, final |-> i = 1]]]

\* WordFinderWorker::process: numbered packages, the last one flagged final.
CombosOf == [c \in ChunkIds |-> [i \in 1..PackageCount[c] |->
                             [chunk |-> c, intra |-> i - 1, final |-> i = PackageCount[c]]]]

Combos == UNION {{CombosOf[c][i] : i \in DOMAIN CombosOf[c]} : c \in ChunkIds}

\* DigitMapperWorker and PhraseScannerWorker emit one package for one.
OneForOne(S) == [x \in S |-> <<x>>]

F == INSTANCE DigitFeeders

M == INSTANCE StageRunner WITH Workers <- Mappers, Process <- OneForOne(ChunkIds),
       InCapacity <- DigitQCapacity, OutCapacity <- LetterQCapacity,
       inBuf <- digitQ, inClosed <- digitDone, outBuf <- letterQ, outClosed <- letterDone,
       pc <- mpc, todo <- mtodo, active <- mactive

W == INSTANCE StageRunner WITH Workers <- Finders, Process <- CombosOf,
       InCapacity <- LetterQCapacity, OutCapacity <- ComboQCapacity,
       inBuf <- letterQ, inClosed <- letterDone, outBuf <- comboQ, outClosed <- comboDone,
       pc <- wpc, todo <- wtodo, active <- wactive

S == INSTANCE StageRunner WITH Workers <- Scanners, Process <- OneForOne(Combos),
       InCapacity <- ComboQCapacity, OutCapacity <- PhraseQCapacity,
       inBuf <- comboQ, inClosed <- comboDone, outBuf <- phraseQ, outClosed <- phraseDone,
       pc <- spc, todo <- stodo, active <- sactive

PhraseQ == INSTANCE Channel WITH buf <- phraseQ, closed <- phraseDone,
                                 Capacity <- PhraseQCapacity, Items <- Combos

R == INSTANCE ReorderBuffer WITH Size <- PackageCount, upstream <- {}, pc <- writer

Init ==
  /\ digitQ = <<>> /\ letterQ = <<>> /\ comboQ = <<>> /\ phraseQ = <<>>
  /\ digitDone = FALSE /\ letterDone = FALSE /\ comboDone = FALSE /\ phraseDone = FALSE
  /\ faults \in Faults
  /\ F!FeedersInit /\ M!StageInit /\ W!StageInit /\ S!StageInit
  /\ pending = {} /\ finalIdx = [c \in {} |-> 0] /\ nextChunk = 0 /\ written = <<>>
  /\ writer = "none"
  /\ main = "open"
-----------------------------------------------------------------------------
Alive == main \notin {"finished", "crashed"}

Feed(f) ==
  /\ Alive
  /\ F!FeederStep(f)
  /\ UNCHANGED <<faults, letterQ, letterDone, comboQ, comboDone, phraseQ, phraseDone,
                 mapperVars, finderVars, scannerVars, writerVars, main>>

Map(w) ==
  /\ Alive
  /\ M!WorkerStep(w)
  /\ UNCHANGED <<comboQ, comboDone, phraseQ, phraseDone,
                 feedersVars, finderVars, scannerVars, writerVars, main>>

Find(w) ==
  /\ Alive
  /\ W!WorkerStep(w)
  /\ UNCHANGED <<digitQ, digitDone, phraseQ, phraseDone,
                 feedersVars, mapperVars, scannerVars, writerVars, main>>

Scan(w) ==
  /\ Alive
  /\ S!WorkerStep(w)
  /\ UNCHANGED <<digitQ, digitDone, letterQ, letterDone,
                 feedersVars, mapperVars, finderVars, writerVars, main>>

restOfWriter == <<digitQ, digitDone, letterQ, letterDone, comboQ, comboDone,
                  feedersVars, mapperVars, finderVars, scannerVars, main>>

\* while (phrase_q.pop(pp)) reorder.submit(...)
WriterPops ==
  /\ Alive
  /\ writer = "pop"
  /\ phraseQ # <<>>
  /\ LET pp == Head(phraseQ) IN
       /\ PhraseQ!Receive(pp)
       /\ R!Submit(pp.chunk, pp.intra, pp.final)
  /\ writer' = "drain"
  /\ UNCHANGED <<nextChunk, written, restOfWriter>>

\* reorder.drain(): one chunk is flushed, or the loop breaks.
WriterDrains ==
  /\ Alive
  /\ writer \in {"drain", "drainAll"}
  /\ IF R!Ready
     THEN IF R!AtFinds
          THEN R!WriteChunk /\ UNCHANGED writer
          ELSE writer' = "threw" /\ UNCHANGED <<pending, finalIdx, nextChunk, written>>
     ELSE /\ writer' = IF writer = "drain" THEN "pop" ELSE "done"
          /\ UNCHANGED <<pending, finalIdx, nextChunk, written>>
  /\ UNCHANGED <<phraseQ, phraseDone, restOfWriter>>

\* pop() returned false: drain_all().
WriterEnds ==
  /\ Alive
  /\ writer = "pop"
  /\ PhraseQ!Exhausted
  /\ writer' = "drainAll"
  /\ UNCHANGED <<pending, finalIdx, nextChunk, written, phraseQ, phraseDone, restOfWriter>>
-----------------------------------------------------------------------------
\* results.json opens, and the writer is started.
OpenOutput ==
  /\ main = "open"
  /\ main' = "join"
  /\ writer' = "pop"
  /\ UNCHANGED <<queueVars, feedersVars, mapperVars, finderVars, scannerVars,
                 pending, finalIdx, nextChunk, written>>

\* It does not open: the exception leaves run_parallel with its threads running,
\* and the destructor of a joinable std::thread calls std::terminate.
OpenFails ==
  /\ faults.noOutput
  /\ main = "open"
  /\ main' = "crashed"
  /\ UNCHANGED <<queueVars, feedersVars, mapperVars, finderVars, scannerVars, writerVars>>

\* A read throws in a feeder thread: std::terminate.
ReadCrash ==
  /\ Alive
  /\ \E f \in Feeders : F!ReadThrows(f)
  /\ main' = "crashed"
  /\ UNCHANGED <<queueVars, feedersVars, mapperVars, finderVars, scannerVars, writerVars>>

AllJoined == /\ F!FeedersJoined
             /\ M!StageJoined /\ W!StageJoined /\ S!StageJoined
             /\ writer = "done"

\* Everything is joined: the stop file is removed if a feeder saw it, and
\* results.json is closed.
Finish ==
  /\ main = "join"
  /\ AllJoined
  /\ stopFile' = IF stopRequested THEN FALSE ELSE stopFile
  /\ main' = "finished"
  /\ UNCHANGED <<queueVars, fpc, hand, nextSeq, activeFeeders, stopRequested, faults, late,
                 mapperVars, finderVars, scannerVars, writerVars>>

TouchStopFile ==
  /\ Alive
  /\ F!CreateStopFile
  /\ UNCHANGED <<faults, letterQ, letterDone, comboQ, comboDone, phraseQ, phraseDone,
                 mapperVars, finderVars, scannerVars, writerVars, main>>

Terminated == ~Alive /\ UNCHANGED vars

Next == \/ \E f \in Feeders : Feed(f)
        \/ \E w \in Mappers : Map(w)
        \/ \E w \in Finders : Find(w)
        \/ \E w \in Scanners : Scan(w)
        \/ WriterPops \/ WriterDrains \/ WriterEnds
        \/ OpenOutput \/ OpenFails \/ ReadCrash \/ Finish
        \/ TouchStopFile
        \/ Terminated

Spec == Init /\ [][Next]_vars

\* Every thread that can run eventually does; whether the output file opens is
\* left open, and nobody is obliged to create the stop file.
Fairness ==
  /\ \A f \in Feeders : WF_vars(Feed(f))
  /\ \A w \in Mappers : WF_vars(Map(w))
  /\ \A w \in Finders : WF_vars(Find(w))
  /\ \A w \in Scanners : WF_vars(Scan(w))
  /\ WF_vars(WriterPops \/ WriterDrains \/ WriterEnds)
  /\ WF_vars(OpenOutput \/ OpenFails)
  /\ WF_vars(Finish)
  /\ WF_vars(ReadCrash)

FairSpec == Spec /\ Fairness
-----------------------------------------------------------------------------
TypeOK ==
  /\ Len(digitQ) <= DigitQCapacity /\ Len(letterQ) <= LetterQCapacity
  /\ Len(comboQ) <= ComboQCapacity /\ Len(phraseQ) <= PhraseQCapacity
  /\ digitQ \in Seq(ChunkIds) /\ letterQ \in Seq(ChunkIds)
  /\ comboQ \in Seq(Combos) /\ phraseQ \in Seq(Combos)
  /\ fpc \in [Feeders -> {"check", "next", "read", "push", "close", "done"}]
  /\ hand \in [Feeders -> Nat] /\ nextSeq \in Nat /\ activeFeeders \in Nat
  /\ faults \in Faults
  /\ {stopRequested, stopFile, digitDone, letterDone, comboDone, phraseDone} \subseteq BOOLEAN
  /\ mpc \in [Mappers -> {"run", "close", "done"}] /\ mtodo \in [Mappers -> Seq(ChunkIds)]
  /\ wpc \in [Finders -> {"run", "close", "done"}] /\ wtodo \in [Finders -> Seq(Combos)]
  /\ spc \in [Scanners -> {"run", "close", "done"}] /\ stodo \in [Scanners -> Seq(Combos)]
  /\ pending \subseteq {<<p.chunk, p.intra>> : p \in Combos}
  /\ DOMAIN finalIdx \subseteq ChunkIds /\ nextChunk \in 0..NumChunks
  /\ writer \in {"none", "pop", "drain", "drainAll", "done", "threw"}
  /\ main \in {"open", "join", "finished", "crashed"}

\* No queue is closed while a thread upstream still holds something for it: the
\* early return of push() never loses a package.
NothingDropped ==
  /\ digitDone => \A f \in Feeders : fpc[f] = "done"
  /\ M!EmptyHanded /\ W!EmptyHanded /\ S!EmptyHanded

\* inner.at(i) never throws in the writer: the packages of a chunk are numbered
\* 0..K without holes, K carries the final flag, and none comes twice.
WriterNeverThrows == writer # "threw"

\* The chunks there are to be had: a failed read ends them (FileDigitSource.cpp:47).
Available == {c \in ChunkIds : \A r \in faults.fails : c < r}

\* When run_parallel returns, every chunk that a feeder claimed before the digits
\* ended or seemed to end is written, and without a stop request that is every
\* chunk there was: stopping in the middle of the claims leaves no hole.
CompleteAtFinish ==
  main = "finished" =>
    /\ \A c \in Available : c < nextSeq => c < nextChunk
    /\ ~stopRequested => nextChunk = Cardinality(Available)

\* Once pi_poetry.stop exists, a feeder takes at most the one chunk it was about
\* to take.
StopIsPrompt == \A f \in Feeders : late[f] <= 1

\* All output the stages produced is on disk when run_parallel returns.
AllOutputWritten == main = "finished" => pending = {}

\* The stop file is gone when the run it stopped, or met, is over.
StopFileConsumed == main = "finished" => ~stopFile

\* Every run ends: all threads leave their loops and are joined, or the process
\* dies of a failed read or open.
EveryRunEnds == <>~Alive

\* Threads, queues and arrival order do not show in results.json.
Sequential == INSTANCE SequentialOutput WITH
  Chunks <- ChunkIds,
  PackagesOf <- [c \in ChunkIds |-> [i \in 1..PackageCount[c] |-> <<c, i - 1>>]],
  out <- written, next <- nextChunk,
  status <- IF Alive THEN "running" ELSE main
ImplementsSequential == Sequential!SeqSpec
=============================================================================
