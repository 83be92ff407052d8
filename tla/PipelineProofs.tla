--------------------------- MODULE PipelineProofs ---------------------------
(***************************************************************************)
(* Proofs about Pipeline for any threads, capacities, chunks and chains,   *)
(* and for whatever may go wrong.  StageRunnerProofs says what one stage   *)
(* does to the packages that pass it; here every chunk is followed from    *)
(* its claim to results.json.                                              *)
(***************************************************************************)
EXTENDS Pipeline, FiniteSetTheorems, SequenceTheorems, TLAPS

\* What is proved about one stage, for each of the three.
MP == INSTANCE StageRunnerProofs WITH Workers <- Mappers, Process <- OneForOne(ChunkIds),
        InCapacity <- DigitQCapacity, OutCapacity <- LetterQCapacity,
        inBuf <- digitQ, inClosed <- digitDone, outBuf <- letterQ, outClosed <- letterDone,
        pc <- mpc, todo <- mtodo, active <- mactive

WP == INSTANCE StageRunnerProofs WITH Workers <- Finders, Process <- CombosOf,
        InCapacity <- LetterQCapacity, OutCapacity <- ComboQCapacity,
        inBuf <- letterQ, inClosed <- letterDone, outBuf <- comboQ, outClosed <- comboDone,
        pc <- wpc, todo <- wtodo, active <- wactive

SP == INSTANCE StageRunnerProofs WITH Workers <- Scanners, Process <- OneForOne(Combos),
        InCapacity <- ComboQCapacity, OutCapacity <- PhraseQCapacity,
        inBuf <- comboQ, inClosed <- comboDone, outBuf <- phraseQ, outClosed <- phraseDone,
        pc <- spc, todo <- stodo, active <- sactive

In(x, s) == \E i \in DOMAIN s : s[i] = x

Claiming == {f \in Feeders : fpc[f] \in {"check", "next", "read", "push"}}

\* The feeders are counted like the workers of a stage.  One of them leaves, without
\* a stop request, when the digits ended or seemed to; one that has taken a chunk with
\* the stop file in place does not get to claim another.
FeedersInv ==
  /\ activeFeeders = Cardinality(Claiming)
  /\ \A f \in Feeders : fpc[f] = "close" =>
       ~digitDone /\ \A g \in Feeders \ {f} : fpc[g] = "done"
  /\ digitDone => \A f \in Feeders : fpc[f] = "done"
  /\ \A f \in Feeders : fpc[f] = "push" => hand[f] \in ChunkIds
OutOfDigits ==
  /\ \A f \in Feeders : fpc[f] = "read" => hand[f] < nextSeq
  /\ \A f \in Feeders : fpc[f] \in {"close", "done"} =>
       stopRequested \/ \E s \in 0..(nextSeq - 1) : ~F!HasDigits(s)
LateOnce ==
  /\ late \in [Feeders -> {0, 1}]
  /\ \A f \in Feeders : late[f] = 1 => fpc[f] # "next" /\ (Alive => stopFile)

\* final_idx_ has the chunks whose final package is pending, and a chunk's last
\* index; when the writer is done, the queue is at its end and no chunk is ready.
WriterInv ==
  /\ \A c \in DOMAIN finalIdx : finalIdx[c] = PackageCount[c] - 1
  /\ \A c \in ChunkIds : <<c, PackageCount[c] - 1>> \in pending => c \in DOMAIN finalIdx
  /\ writer \in {"drainAll", "done"} => phraseDone /\ phraseQ = <<>>
  /\ writer = "done" => ~R!Ready
  /\ writer # "threw"

\* A feeder reads a chunk that has digits, or has read it.
Carries(f) == fpc[f] = "push" \/ (fpc[f] = "read" /\ F!HasDigits(hand[f]))

\* Where a chunk, and later each package of it, is on its way to the writer.
AtChunk(c) ==
  \/ \E f \in Feeders : Carries(f) /\ hand[f] = c
  \/ In(c, digitQ)
  \/ MP!Held(c)
  \/ In(c, letterQ)
AtPackage(y) == WP!Held(y) \/ In(y, comboQ) \/ SP!Held(y) \/ In(y, phraseQ)

\* A chunk that was claimed is on its way, or all of its packages are on theirs or
\* have arrived, or it is written.
NothingLost ==
  \A c \in ChunkIds \ faults.fails : c < nextSeq =>
    \/ AtChunk(c)
    \/ \A i \in 1..PackageCount[c] : AtPackage(CombosOf[c][i]) \/ <<c, i - 1>> \in pending
    \/ c < nextChunk

\* A chunk whose read failed is nowhere, and so the writer never gets past it.
NothingInvented ==
  \A c \in faults.fails \cap ChunkIds :
    /\ ~AtChunk(c)
    /\ \A y \in Combos : y.chunk = c => ~AtPackage(y)
    /\ \A p \in pending : p[1] # c
    /\ nextChunk <= c

\* The invariant the proofs induct on.
IInv ==
  /\ TypeOK
  /\ FeedersInv /\ OutOfDigits /\ LateOnce
  /\ MP!StageInv /\ WP!StageInv /\ SP!StageInv
  /\ WriterInv
  /\ NothingLost /\ NothingInvented
  /\ CompleteAtFinish
-----------------------------------------------------------------------------
(* The constants.                                                          *)

\* Every stage has threads, and finitely many.
LEMMA FiniteThreads ==
  /\ IsFiniteSet(Feeders) /\ Feeders # {}
  /\ MP!IsFiniteSet(Mappers) /\ Mappers # {}
  /\ WP!IsFiniteSet(Finders) /\ Finders # {}
  /\ SP!IsFiniteSet(Scanners) /\ Scanners # {}
BY ThreadsAssumption DEF IsFiniteSet, MP!IsFiniteSet, WP!IsFiniteSet, SP!IsFiniteSet

\* The capacities of the queues are numbers.
LEMMA Capacities ==
  /\ DigitQCapacity \in Nat /\ LetterQCapacity \in Nat
  /\ ComboQCapacity \in Nat /\ PhraseQCapacity \in Nat
BY CapacityAssumption

\* Chunks are numbered from 0.
LEMMA ChunkIdsAre == \A c \in ChunkIds : c \in Nat /\ c < NumChunks
BY ChunksAssumption DEF ChunkIds

\* The packages of a chunk are numbered from 0, and the last one is flagged.
LEMMA PackagesAre ==
  ASSUME NEW c \in ChunkIds
  PROVE  /\ PackageCount[c] \in Nat /\ PackageCount[c] >= 1
         /\ CombosOf[c] \in Seq(Combos) /\ DOMAIN CombosOf[c] = 1..PackageCount[c]
         /\ \A i \in 1..PackageCount[c] :
              /\ CombosOf[c][i] = [chunk |-> c, intra |-> i - 1, final |-> i = PackageCount[c]]
              /\ CombosOf[c][i] \in Combos
              /\ CombosOf[c][i].chunk = c /\ CombosOf[c][i].intra = i - 1
<1>1. PackageCount[c] \in Nat /\ PackageCount[c] >= 1
  BY ChunksAssumption DEF PackageCount, ChunkIds
<1>2. CombosOf[c] = [i \in 1..PackageCount[c] |->
                       [chunk |-> c, intra |-> i - 1, final |-> i = PackageCount[c]]]
  BY DEF CombosOf
<1>3. DOMAIN CombosOf[c] = 1..PackageCount[c]
  BY <1>2
<1>4. \A i \in 1..PackageCount[c] : CombosOf[c][i] \in Combos
  <2> SUFFICES ASSUME NEW i \in 1..PackageCount[c] PROVE CombosOf[c][i] \in Combos
    OBVIOUS
  <2>1. CombosOf[c][i] \in {CombosOf[c][j] : j \in DOMAIN CombosOf[c]}
    BY <1>3
  <2> QED
    BY <2>1 DEF Combos
<1>5. CombosOf[c] \in [1..PackageCount[c] -> Combos]
  BY <1>2, <1>4
<1>6. CombosOf[c] \in Seq(Combos)
  BY <1>1, <1>5
<1> QED
  BY <1>1, <1>2, <1>3, <1>4, <1>6

\* One package of a chunk.
LEMMA PackageIs ==
  ASSUME NEW c \in ChunkIds, NEW i \in 1..PackageCount[c]
  PROVE  CombosOf[c][i] \in Combos /\ CombosOf[c][i].chunk = c /\ CombosOf[c][i].intra = i - 1
<1>1. CombosOf[c][i] \in Combos
  BY PackagesAre, Zenon
<1>2. CombosOf[c][i] = [chunk |-> c, intra |-> i - 1, final |-> i = PackageCount[c]]
  BY DEF CombosOf
<1>3. CombosOf[c][i].chunk = c /\ CombosOf[c][i].intra = i - 1
  BY <1>2
<1> QED
  BY <1>1, <1>3

\* Every package is one of its chunk, and says whether it is the last.
LEMMA CombosAre ==
  ASSUME NEW y \in Combos
  PROVE  /\ y.chunk \in ChunkIds /\ y.intra \in 0..(PackageCount[y.chunk] - 1)
         /\ y.final <=> y.intra = PackageCount[y.chunk] - 1
         /\ y.intra + 1 \in 1..PackageCount[y.chunk] /\ y = CombosOf[y.chunk][y.intra + 1]
<1>1. PICK c \in ChunkIds : \E i \in DOMAIN CombosOf[c] : y = CombosOf[c][i]
  BY DEF Combos
<1>2. PICK i \in 1..PackageCount[c] : y = CombosOf[c][i]
  BY <1>1, PackagesAre
<1>3. y = [chunk |-> c, intra |-> i - 1, final |-> i = PackageCount[c]]
  <2>1. CombosOf[c][i] = [chunk |-> c, intra |-> i - 1, final |-> i = PackageCount[c]]
    BY PackagesAre
  <2> QED
    BY <1>2, <2>1
<1>4. y.chunk = c /\ y.intra = i - 1 /\ y.final = (i = PackageCount[c])
  BY <1>3
<1>5. PackageCount[c] \in Nat /\ i \in Int /\ (i - 1) + 1 = i /\ i - 1 \in 0..(PackageCount[c] - 1)
      /\ (i = PackageCount[c] <=> i - 1 = PackageCount[c] - 1)
  BY <1>1, PackagesAre
<1> QED
  BY <1>1, <1>2, <1>4, <1>5

\* The mappers and the scanners make one package of one.
LEMMA OneForOneIs ==
  ASSUME NEW T, NEW x \in T
  PROVE  /\ OneForOne(T)[x] \in Seq(T) /\ DOMAIN OneForOne(T)[x] = {1} /\ OneForOne(T)[x][1] = x
         /\ \A y : In(y, OneForOne(T)[x]) <=> y = x
BY DEF OneForOne, In
-----------------------------------------------------------------------------
(* The queue operations a feeder and the writer use.                       *)

\* A push adds one package to a queue.
LEMMA InAppend ==
  ASSUME NEW T, NEW s \in Seq(T), NEW x \in T, NEW y
  PROVE  In(y, Append(s, x)) <=> In(y, s) \/ y = x
BY MP!InAppend DEF In, MP!In

\* A pop takes one package from it.
LEMMA InTail ==
  ASSUME NEW T, NEW s \in Seq(T), s # <<>>, NEW y
  PROVE  In(y, s) <=> y = Head(s) \/ In(y, Tail(s))
<1>1. MP!In(y, s) <=> y = Head(s) \/ MP!In(y, Tail(s))
  BY MP!InTail
<1> QED
  BY <1>1 DEF In, MP!In

\* An empty queue holds nothing.
LEMMA InEmpty == \A y : ~In(y, <<>>)
BY DEF In

\* What is in a queue has the type of the queue.
LEMMA InSeq ==
  ASSUME NEW T, NEW s \in Seq(T), NEW x, In(x, s)
  PROVE  x \in T
BY DEF In
-----------------------------------------------------------------------------
(* A step of a worker of each stage.                                       *)

\* A digit mapper: a chunk of digits becomes one of letters.
LEMMA MapStep ==
  ASSUME TypeOK, MP!StageInv, NEW w \in Mappers, Map(w)
  PROVE  /\ MP!StageTypeOK(ChunkIds, ChunkIds)' /\ Len(digitQ') <= Len(digitQ)
         /\ MP!StageInv'
         /\ digitDone' = digitDone /\ (digitQ = <<>> => digitQ' = <<>>)
         /\ letterDone => letterDone' /\ letterQ' = letterQ
         /\ \A c \in ChunkIds : In(c, digitQ) \/ MP!Held(c) \/ In(c, letterQ)
                                <=> (In(c, digitQ) \/ MP!Held(c) \/ In(c, letterQ))'
<1>1. MP!WorkerStep(w)
  BY DEF Map, M!WorkerStep, M!Claim, M!Emit, M!Leave, M!CloseOut, M!Idle,
         M!InQ!Receive, M!InQ!Exhausted, M!OutQ!Send, M!OutQ!HasRoom, M!OutQ!Lose, M!OutQ!Close,
         M!OutQ!chanVars,
         MP!WorkerStep, MP!Claim, MP!Emit, MP!Leave, MP!CloseOut, MP!Idle,
         MP!InQ!Receive, MP!InQ!Exhausted, MP!OutQ!Send, MP!OutQ!HasRoom, MP!OutQ!Lose, MP!OutQ!Close,
         MP!OutQ!chanVars
<1>2. MP!StageTypeOK(ChunkIds, ChunkIds)
  BY DEF TypeOK, MP!StageTypeOK, MP!PCs
<1>3. \A x \in ChunkIds : OneForOne(ChunkIds)[x] \in Seq(ChunkIds)
  BY OneForOneIs
<1>4. MP!StageTypeOK(ChunkIds, ChunkIds)' /\ Len(digitQ') <= Len(digitQ)
  BY <1>1, <1>2, <1>3, Capacities, MP!TypeStep
<1>5. MP!StageInv'
  BY <1>1, <1>2, FiniteThreads, MP!StageStep
<1>6. /\ digitDone' = digitDone /\ (digitQ = <<>> => digitQ' = <<>>)
      /\ letterDone => letterDone' /\ letterQ' = letterQ
  BY <1>1, MP!Interface
<1>7. ASSUME NEW c \in ChunkIds
      PROVE  In(c, digitQ) \/ MP!Held(c) \/ In(c, letterQ)
               <=> (In(c, digitQ) \/ MP!Held(c) \/ In(c, letterQ))'
  <2>1. /\ MP!In(c, digitQ) <=> In(c, digitQ)
        /\ MP!In(c, letterQ) <=> In(c, letterQ)
        /\ MP!In(c, digitQ)' <=> In(c, digitQ)'
        /\ MP!In(c, letterQ)' <=> In(c, letterQ)'
    BY DEF MP!In, In
  <2>2. /\ MP!In(c, digitQ) =>
             MP!In(c, digitQ)' \/ \A i \in DOMAIN OneForOne(ChunkIds)[c] : MP!Held(OneForOne(ChunkIds)[c][i])'
        /\ MP!Held(c) => MP!Held(c)' \/ MP!In(c, letterQ)'
        /\ MP!In(c, letterQ) => MP!In(c, letterQ)'
        /\ MP!In(c, digitQ)' => MP!In(c, digitQ)
        /\ MP!Held(c)' => MP!Held(c) \/ \E x : MP!In(x, digitQ) /\ MP!In(c, OneForOne(ChunkIds)[x])
        /\ MP!In(c, letterQ)' => MP!In(c, letterQ) \/ MP!Held(c)
    BY <1>1, <1>2, <1>3, MP!Flow
  <2>3. (\A i \in DOMAIN OneForOne(ChunkIds)[c] : MP!Held(OneForOne(ChunkIds)[c][i])') => MP!Held(c)'
    BY OneForOneIs
  <2>4. ASSUME NEW x, MP!In(x, digitQ), MP!In(c, OneForOne(ChunkIds)[x]) PROVE MP!In(c, digitQ)
    <3>1. In(x, digitQ) /\ In(c, OneForOne(ChunkIds)[x])
      BY <2>4 DEF MP!In, In
    <3>2. x \in ChunkIds
      BY <3>1, InSeq DEF TypeOK
    <3>3. c = x
      BY <3>1, <3>2, OneForOneIs
    <3> QED
      BY <2>4, <3>3
  <2> QED
    BY <2>1, <2>2, <2>3, <2>4
<1> QED
  BY <1>4, <1>5, <1>6, <1>7

\* A word finder: a chunk of letters becomes all of its packages.
LEMMA FindStep ==
  ASSUME TypeOK, WP!StageInv, NEW w \in Finders, Find(w)
  PROVE  /\ WP!StageTypeOK(ChunkIds, Combos)' /\ Len(letterQ') <= Len(letterQ)
         /\ WP!StageInv'
         /\ letterDone' = letterDone /\ (letterQ = <<>> => letterQ' = <<>>)
         /\ comboDone => comboDone' /\ comboQ' = comboQ
         /\ \A c \in ChunkIds :
              /\ In(c, letterQ) =>
                   In(c, letterQ)' \/ \A i \in 1..PackageCount[c] : WP!Held(CombosOf[c][i])'
              /\ In(c, letterQ)' => In(c, letterQ)
         /\ \A y \in Combos :
              /\ WP!Held(y) \/ In(y, comboQ) => (WP!Held(y) \/ In(y, comboQ))'
              /\ (WP!Held(y) \/ In(y, comboQ))' =>
                   WP!Held(y) \/ In(y, comboQ) \/ In(y.chunk, letterQ)
<1>1. WP!WorkerStep(w)
  BY DEF Find, W!WorkerStep, W!Claim, W!Emit, W!Leave, W!CloseOut, W!Idle,
         W!InQ!Receive, W!InQ!Exhausted, W!OutQ!Send, W!OutQ!HasRoom, W!OutQ!Lose, W!OutQ!Close,
         W!OutQ!chanVars,
         WP!WorkerStep, WP!Claim, WP!Emit, WP!Leave, WP!CloseOut, WP!Idle,
         WP!InQ!Receive, WP!InQ!Exhausted, WP!OutQ!Send, WP!OutQ!HasRoom, WP!OutQ!Lose, WP!OutQ!Close,
         WP!OutQ!chanVars
<1>2. WP!StageTypeOK(ChunkIds, Combos)
  BY DEF TypeOK, WP!StageTypeOK, WP!PCs
<1>3. \A x \in ChunkIds : CombosOf[x] \in Seq(Combos)
  BY PackagesAre
<1>4. WP!StageTypeOK(ChunkIds, Combos)' /\ Len(letterQ') <= Len(letterQ)
  BY <1>1, <1>2, <1>3, Capacities, WP!TypeStep
<1>5. WP!StageInv'
  BY <1>1, <1>2, FiniteThreads, WP!StageStep
<1>6. /\ letterDone' = letterDone /\ (letterQ = <<>> => letterQ' = <<>>)
      /\ comboDone => comboDone' /\ comboQ' = comboQ
  BY <1>1, WP!Interface
<1>7. /\ \A x : WP!In(x, letterQ) =>
                  WP!In(x, letterQ)' \/ \A i \in DOMAIN CombosOf[x] : WP!Held(CombosOf[x][i])'
      /\ \A y : WP!Held(y) => WP!Held(y)' \/ WP!In(y, comboQ)'
      /\ \A y : WP!In(y, comboQ) => WP!In(y, comboQ)'
      /\ \A x : WP!In(x, letterQ)' => WP!In(x, letterQ)
      /\ \A y : WP!Held(y)' => WP!Held(y) \/ \E x : WP!In(x, letterQ) /\ WP!In(y, CombosOf[x])
      /\ \A y : WP!In(y, comboQ)' => WP!In(y, comboQ) \/ WP!Held(y)
  BY <1>1, <1>2, <1>3, WP!Flow
<1>8. ASSUME NEW c \in ChunkIds
      PROVE  /\ In(c, letterQ) =>
                  In(c, letterQ)' \/ \A i \in 1..PackageCount[c] : WP!Held(CombosOf[c][i])'
             /\ In(c, letterQ)' => In(c, letterQ)
  <2>1. /\ WP!In(c, letterQ) <=> In(c, letterQ)
        /\ WP!In(c, letterQ)' <=> In(c, letterQ)'
    BY DEF WP!In, In
  <2>2. DOMAIN CombosOf[c] = 1..PackageCount[c]
    BY PackagesAre
  <2> QED
    BY <1>7, <2>1, <2>2
<1>9. ASSUME NEW y \in Combos
      PROVE  /\ WP!Held(y) \/ In(y, comboQ) => (WP!Held(y) \/ In(y, comboQ))'
             /\ (WP!Held(y) \/ In(y, comboQ))' =>
                  WP!Held(y) \/ In(y, comboQ) \/ In(y.chunk, letterQ)
  <2>1. /\ WP!In(y, comboQ) <=> In(y, comboQ)
        /\ WP!In(y, comboQ)' <=> In(y, comboQ)'
    BY DEF WP!In, In
  <2>2. ASSUME NEW x, WP!In(x, letterQ), WP!In(y, CombosOf[x]) PROVE In(y.chunk, letterQ)
    <3>1. In(x, letterQ) /\ In(y, CombosOf[x])
      BY <2>2 DEF WP!In, In
    <3>2. x \in ChunkIds
      BY <3>1, InSeq DEF TypeOK
    <3>3. PICK i \in 1..PackageCount[x] : CombosOf[x][i] = y
      BY <3>1, <3>2, PackagesAre DEF In
    <3>4. y.chunk = x
      BY <3>2, <3>3, PackagesAre
    <3> QED
      BY <3>1, <3>4
  <2> QED
    BY <1>7, <2>1, <2>2
<1> QED
  BY <1>4, <1>5, <1>6, <1>8, <1>9

\* A phrase scanner: a package stays the package it is.
LEMMA ScanStep ==
  ASSUME TypeOK, SP!StageInv, NEW w \in Scanners, Scan(w)
  PROVE  /\ SP!StageTypeOK(Combos, Combos)' /\ Len(comboQ') <= Len(comboQ)
         /\ SP!StageInv'
         /\ comboDone' = comboDone /\ (comboQ = <<>> => comboQ' = <<>>)
         /\ phraseDone => phraseDone' /\ phraseQ' = phraseQ
         /\ \A y \in Combos : In(y, comboQ) \/ SP!Held(y) \/ In(y, phraseQ)
                                <=> (In(y, comboQ) \/ SP!Held(y) \/ In(y, phraseQ))'
<1>1. SP!WorkerStep(w)
  BY DEF Scan, S!WorkerStep, S!Claim, S!Emit, S!Leave, S!CloseOut, S!Idle,
         S!InQ!Receive, S!InQ!Exhausted, S!OutQ!Send, S!OutQ!HasRoom, S!OutQ!Lose, S!OutQ!Close,
         S!OutQ!chanVars,
         SP!WorkerStep, SP!Claim, SP!Emit, SP!Leave, SP!CloseOut, SP!Idle,
         SP!InQ!Receive, SP!InQ!Exhausted, SP!OutQ!Send, SP!OutQ!HasRoom, SP!OutQ!Lose, SP!OutQ!Close,
         SP!OutQ!chanVars
<1>2. SP!StageTypeOK(Combos, Combos)
  BY DEF TypeOK, SP!StageTypeOK, SP!PCs
<1>3. \A x \in Combos : OneForOne(Combos)[x] \in Seq(Combos)
  BY OneForOneIs
<1>4. SP!StageTypeOK(Combos, Combos)' /\ Len(comboQ') <= Len(comboQ)
  BY <1>1, <1>2, <1>3, Capacities, SP!TypeStep
<1>5. SP!StageInv'
  BY <1>1, <1>2, FiniteThreads, SP!StageStep
<1>6. /\ comboDone' = comboDone /\ (comboQ = <<>> => comboQ' = <<>>)
      /\ phraseDone => phraseDone' /\ phraseQ' = phraseQ
  BY <1>1, SP!Interface
<1>7. ASSUME NEW y \in Combos
      PROVE  In(y, comboQ) \/ SP!Held(y) \/ In(y, phraseQ)
               <=> (In(y, comboQ) \/ SP!Held(y) \/ In(y, phraseQ))'
  <2>1. /\ SP!In(y, comboQ) <=> In(y, comboQ)
        /\ SP!In(y, phraseQ) <=> In(y, phraseQ)
        /\ SP!In(y, comboQ)' <=> In(y, comboQ)'
        /\ SP!In(y, phraseQ)' <=> In(y, phraseQ)'
    BY DEF SP!In, In
  <2>2. /\ SP!In(y, comboQ) =>
             SP!In(y, comboQ)' \/ \A i \in DOMAIN OneForOne(Combos)[y] : SP!Held(OneForOne(Combos)[y][i])'
        /\ SP!Held(y) => SP!Held(y)' \/ SP!In(y, phraseQ)'
        /\ SP!In(y, phraseQ) => SP!In(y, phraseQ)'
        /\ SP!In(y, comboQ)' => SP!In(y, comboQ)
        /\ SP!Held(y)' => SP!Held(y) \/ \E x : SP!In(x, comboQ) /\ SP!In(y, OneForOne(Combos)[x])
        /\ SP!In(y, phraseQ)' => SP!In(y, phraseQ) \/ SP!Held(y)
    BY <1>1, <1>2, <1>3, SP!Flow
  <2>3. (\A i \in DOMAIN OneForOne(Combos)[y] : SP!Held(OneForOne(Combos)[y][i])') => SP!Held(y)'
    BY OneForOneIs
  <2>4. ASSUME NEW x, SP!In(x, comboQ), SP!In(y, OneForOne(Combos)[x]) PROVE SP!In(y, comboQ)
    <3>1. In(x, comboQ) /\ In(y, OneForOne(Combos)[x])
      BY <2>4 DEF SP!In, In
    <3>2. x \in Combos
      BY <3>1, InSeq DEF TypeOK
    <3>3. y = x
      BY <3>1, <3>2, OneForOneIs
    <3> QED
      BY <2>4, <3>3
  <2> QED
    BY <2>1, <2>2, <2>3, <2>4
<1> QED
  BY <1>4, <1>5, <1>6, <1>7
-----------------------------------------------------------------------------
(* A step of a feeder.                                                     *)

FPCs == {"check", "next", "read", "push", "close", "done"}

\* One that leaves is counted out, and the last one closes.
LEMMA LeaveStep ==
  ASSUME TypeOK, FeedersInv, NEW f \in Claiming, F!LeaveLoop(f), digitDone' = digitDone,
         hand' = hand
  PROVE  FeedersInv' /\ fpc' \in [Feeders -> FPCs]
<1>1. /\ activeFeeders' = activeFeeders - 1 /\ fpc \in [Feeders -> FPCs] /\ f \in Feeders
      /\ fpc' = [fpc EXCEPT ![f] = IF activeFeeders = 1 THEN "close" ELSE "done"]
  BY DEF F!LeaveLoop, TypeOK, FPCs, Claiming
<1>2. IsFiniteSet(Claiming) /\ Cardinality(Claiming) \in Nat
  <2>1. Claiming \in SUBSET Feeders
    BY DEF Claiming
  <2> QED
    BY <2>1, FiniteThreads, FS_Subset, FS_CardinalityType
<1>3. Claiming' = Claiming \ {f}
  BY <1>1 DEF Claiming
<1>4. Cardinality(Claiming') = Cardinality(Claiming) - 1 /\ IsFiniteSet(Claiming')
  BY <1>2, <1>3, FS_RemoveElement
<1>5. Claiming' = {} <=> activeFeeders = 1
  BY <1>2, <1>4, FS_EmptySet DEF FeedersInv
<1>6. ~digitDone /\ \A g \in Feeders : fpc[g] # "close"
  BY DEF FeedersInv, Claiming
<1>7. \A g \in Feeders : fpc'[g] = "close" => \A h \in Feeders \ {g} : fpc'[h] = "done"
  BY <1>1, <1>3, <1>5, <1>6 DEF Claiming, FPCs
<1>8. \A g \in Feeders : fpc'[g] = "push" => hand'[g] \in ChunkIds
  BY <1>1 DEF FeedersInv
<1>9. activeFeeders' = Cardinality(Claiming')
  BY <1>1, <1>4 DEF FeedersInv
<1> QED
  BY <1>1, <1>6, <1>7, <1>8, <1>9 DEF FeedersInv, FPCs

\* A feeder that stays in its loop changes nothing that is counted.
LEMMA StayStep ==
  ASSUME TypeOK, FeedersInv, NEW f \in Claiming, NEW pc \in {"check", "next", "read", "push"},
         fpc' = [fpc EXCEPT ![f] = pc], UNCHANGED <<activeFeeders, digitDone>>,
         pc = "push" => hand'[f] \in ChunkIds,
         \A g \in Feeders \ {f} : hand'[g] = hand[g]
  PROVE  FeedersInv' /\ fpc' \in [Feeders -> FPCs]
<1>1. fpc \in [Feeders -> FPCs] /\ f \in Feeders /\ fpc[f] \in {"check", "next", "read", "push"}
  BY DEF TypeOK, FPCs, Claiming
<1>2. Claiming' = Claiming
  BY <1>1 DEF Claiming
<1>3. ~digitDone /\ \A g \in Feeders : fpc[g] # "close"
  BY <1>1 DEF FeedersInv
<1> QED
  BY <1>1, <1>2, <1>3 DEF FeedersInv, FPCs

\* Whatever a feeder does, the feeders are counted right and its push is not lost.
LEMMA FeedStep ==
  ASSUME TypeOK, FeedersInv, NEW f \in Feeders, Feed(f)
  PROVE  /\ FeedersInv'
         /\ fpc' \in [Feeders -> FPCs] /\ hand' \in [Feeders -> Nat] /\ nextSeq' \in Nat
         /\ digitQ' \in Seq(ChunkIds) /\ Len(digitQ') <= DigitQCapacity
         /\ {stopRequested', stopFile', digitDone'} \subseteq BOOLEAN
         /\ digitDone => digitDone' /\ digitQ' = digitQ
<1>0. /\ fpc \in [Feeders -> FPCs] /\ hand \in [Feeders -> Nat] /\ nextSeq \in Nat
      /\ digitQ \in Seq(ChunkIds) /\ Len(digitQ) <= DigitQCapacity
      /\ stopRequested \in BOOLEAN /\ stopFile \in BOOLEAN /\ digitDone \in BOOLEAN
  BY DEF TypeOK, FPCs
<1>1. CASE F!CheckStop(f)
  <2>1. /\ f \in Claiming /\ UNCHANGED <<digitQ, digitDone, hand, nextSeq, stopFile>>
        /\ stopRequested' = (stopRequested \/ stopFile)
    BY <1>1 DEF F!CheckStop, Claiming
  <2>2. CASE stopRequested'
    BY <1>0, <1>1, <2>1, <2>2, LeaveStep DEF F!CheckStop
  <2>3. CASE ~stopRequested'
    <3>1. fpc' = [fpc EXCEPT ![f] = "next"] /\ UNCHANGED activeFeeders
      BY <1>1, <2>3 DEF F!CheckStop
    <3>2. FeedersInv' /\ fpc' \in [Feeders -> FPCs]
      BY <2>1, <3>1, StayStep
    <3> QED
      BY <1>0, <2>1, <3>2
  <2> QED
    BY <2>2, <2>3
<1>2. CASE F!ClaimChunk(f)
  <2>1. /\ f \in Claiming
        /\ UNCHANGED <<digitQ, digitDone, activeFeeders, stopRequested, stopFile>>
        /\ nextSeq' = nextSeq + 1
        /\ fpc' = [fpc EXCEPT ![f] = "read"] /\ hand' = [hand EXCEPT ![f] = nextSeq]
    BY <1>2 DEF F!ClaimChunk, Claiming
  <2>2. \A g \in Feeders \ {f} : hand'[g] = hand[g]
    BY <1>0, <2>1
  <2>3. FeedersInv' /\ fpc' \in [Feeders -> FPCs]
    BY <2>1, <2>2, StayStep
  <2> QED
    BY <1>0, <2>1, <2>3
<1>5. CASE F!ReadChunk(f)
  <2>1. /\ f \in Claiming
        /\ UNCHANGED <<digitQ, digitDone, hand, nextSeq, stopRequested, stopFile>>
    BY <1>5 DEF F!ReadChunk, Claiming
  <2>2. CASE F!HasDigits(hand[f])
    <3>1. fpc' = [fpc EXCEPT ![f] = "push"] /\ UNCHANGED activeFeeders
      BY <1>5, <2>2 DEF F!ReadChunk
    <3>2. hand[f] \in ChunkIds
      <4>1. hand[f] \in Nat
        BY <1>0
      <4> QED
        BY <2>2, <4>1, ChunksAssumption DEF F!HasDigits, ChunkIds
    <3>3. FeedersInv' /\ fpc' \in [Feeders -> FPCs]
      BY <2>1, <3>1, <3>2, StayStep
    <3> QED
      BY <1>0, <2>1, <3>3
  <2>3. CASE ~F!HasDigits(hand[f])
    BY <1>0, <1>5, <2>1, <2>3, LeaveStep DEF F!ReadChunk
  <2> QED
    BY <2>2, <2>3
<1>3. CASE F!PushChunk(f)
  <2>1. /\ f \in Claiming /\ UNCHANGED <<hand, nextSeq, activeFeeders, stopRequested, stopFile>>
        /\ fpc' = [fpc EXCEPT ![f] = "check"] /\ fpc[f] = "push" /\ hand[f] \in ChunkIds
    BY <1>3 DEF F!PushChunk, Claiming, FeedersInv
  <2>2. ~digitDone
    BY <2>1 DEF FeedersInv
  <2>3. digitQ' = Append(digitQ, hand[f]) /\ Len(digitQ) < DigitQCapacity /\ digitDone' = digitDone
    BY <1>3, <2>2 DEF F!PushChunk, F!DigitQ!Send, F!DigitQ!HasRoom
  <2>4. FeedersInv' /\ fpc' \in [Feeders -> FPCs]
    BY <2>1, <2>3, StayStep
  <2>5. digitQ' \in Seq(ChunkIds) /\ Len(digitQ') <= DigitQCapacity
    BY <1>0, <2>1, <2>3, Capacities
  <2> QED
    BY <1>0, <2>1, <2>2, <2>3, <2>4, <2>5
<1>4. CASE F!CloseDigitQ(f)
  <2>1. /\ fpc[f] = "close" /\ digitDone' = TRUE /\ fpc' = [fpc EXCEPT ![f] = "done"]
        /\ UNCHANGED <<digitQ, hand, nextSeq, activeFeeders, stopRequested, stopFile>>
    BY <1>4 DEF F!CloseDigitQ, F!DigitQ!Close
  <2>2. \A g \in Feeders : fpc'[g] = "done"
    BY <1>0, <2>1 DEF FeedersInv
  <2>3. Claiming' = Claiming
    BY <1>0, <2>1, <2>2 DEF Claiming, FeedersInv
  <2> QED
    BY <1>0, <2>1, <2>2, <2>3 DEF FeedersInv, FPCs
<1> QED
  BY <1>1, <1>2, <1>3, <1>4, <1>5 DEF Feed, F!FeederStep
-----------------------------------------------------------------------------
(* A step of the writer.                                                   *)

\* pending_ has packages only.
LEMMA PendingAre ==
  ASSUME TypeOK, NEW p \in pending
  PROVE  p[1] \in ChunkIds /\ p[2] \in 0..(PackageCount[p[1]] - 1) /\ p = <<p[1], p[2]>>
<1>1. PICK y \in Combos : p = <<y.chunk, y.intra>>
  BY DEF TypeOK
<1>2. p[1] = y.chunk /\ p[2] = y.intra
  BY <1>1
<1> QED
  BY <1>1, <1>2, CombosAre

\* The number of packages of a chunk tells whether all of them are there, so that
\* a chunk that is ready is complete.
LEMMA ReadyMeansComplete ==
  ASSUME TypeOK, WriterInv
  PROVE  /\ R!Ready <=> /\ nextChunk \in ChunkIds
                        /\ \A i \in 0..(PackageCount[nextChunk] - 1) : <<nextChunk, i>> \in pending
         /\ R!Ready => /\ nextChunk \in DOMAIN finalIdx
                       /\ finalIdx[nextChunk] = PackageCount[nextChunk] - 1
                       /\ R!AtFinds
<1> DEFINE c == nextChunk
           K == PackageCount[c]
<1>1. CASE c \in ChunkIds
  <2>1. K \in Nat /\ K >= 1 /\ K - 1 \in 0..(K - 1)
    BY <1>1, PackagesAre
  <2>2. \A i : i \in R!Inner(c) <=> \E p \in pending : p[1] = c /\ p[2] = i
    BY DEF R!Inner
  <2>3. R!Inner(c) \subseteq 0..(K - 1)
    BY <2>2, PendingAre
  <2>4. \A i \in 0..(K - 1) : i \in R!Inner(c) <=> <<c, i>> \in pending
    <3> SUFFICES ASSUME NEW i \in 0..(K - 1) PROVE i \in R!Inner(c) <=> <<c, i>> \in pending
      OBVIOUS
    <3>1. ASSUME NEW p \in pending, p[1] = c, p[2] = i PROVE <<c, i>> \in pending
      BY <3>1, PendingAre
    <3>2. <<c, i>>[1] = c /\ <<c, i>>[2] = i
      OBVIOUS
    <3> QED
      BY <2>2, <3>1, <3>2
  <2>5. IsFiniteSet(0..(K - 1)) /\ Cardinality(0..(K - 1)) = K
    <3>1. 0 \in Int /\ K - 1 \in Int /\ ~(0 > K - 1) /\ (K - 1) - 0 + 1 = K
      BY <2>1
    <3> HIDE DEF K
    <3> QED
      BY <3>1, FS_Interval
  <2>6. Cardinality(R!Inner(c)) = K <=> R!Inner(c) = 0..(K - 1)
    BY <2>3, <2>5, FS_Subset
  <2>7. R!Inner(c) = 0..(K - 1) <=> \A i \in 0..(K - 1) : <<c, i>> \in pending
    <3>1. R!Inner(c) = 0..(K - 1) => \A i \in 0..(K - 1) : <<c, i>> \in pending
      BY <2>4
    <3>2. ASSUME \A i \in 0..(K - 1) : <<c, i>> \in pending PROVE R!Inner(c) = 0..(K - 1)
      <4>1. 0..(K - 1) \subseteq R!Inner(c)
        BY <2>4, <3>2
      <4> QED
        BY <2>3, <4>1
    <3> QED
      BY <3>1, <3>2
  <2>8. R!Ready <=> c \in DOMAIN finalIdx /\ Cardinality(R!Inner(c)) = finalIdx[c] + 1
    BY DEF R!Ready, Cardinality, R!Cardinality
  <2>9. c \in DOMAIN finalIdx => finalIdx[c] = K - 1 /\ finalIdx[c] + 1 = K
    BY <2>1 DEF WriterInv
  <2>10. (\A i \in 0..(K - 1) : <<c, i>> \in pending) => c \in DOMAIN finalIdx
    BY <1>1, <2>1 DEF WriterInv
  <2> QED
    BY <1>1, <2>6, <2>7, <2>8, <2>9, <2>10 DEF R!AtFinds
<1>2. CASE c \notin ChunkIds
  BY <1>2 DEF TypeOK, R!Ready
<1> QED
  BY <1>1, <1>2

\* A package arrives, and with the last one of a chunk its final index.
LEMMA PopStep ==
  ASSUME TypeOK, WriterInv, WriterPops
  PROVE  /\ Head(phraseQ) \in Combos /\ phraseQ # <<>> /\ phraseQ' = Tail(phraseQ)
         /\ phraseQ' \in Seq(Combos) /\ Len(phraseQ') <= PhraseQCapacity
         /\ pending' = pending \cup {<<Head(phraseQ).chunk, Head(phraseQ).intra>>}
         /\ pending' \subseteq {<<p.chunk, p.intra>> : p \in Combos}
         /\ DOMAIN finalIdx' \subseteq ChunkIds
         /\ WriterInv'
<1> DEFINE y == Head(phraseQ)
<1>1. /\ phraseQ \in Seq(Combos) /\ phraseQ # <<>> /\ Len(phraseQ) <= PhraseQCapacity
      /\ writer = "pop" /\ writer' = "drain" /\ phraseQ' = Tail(phraseQ)
      /\ R!Submit(y.chunk, y.intra, y.final)
  BY DEF WriterPops, PhraseQ!Receive, TypeOK
<1>2. y \in Combos /\ phraseQ' \in Seq(Combos) /\ Len(phraseQ') <= PhraseQCapacity
  BY <1>1, Capacities
<1>3. /\ y.chunk \in ChunkIds
      /\ y.final <=> y.intra = PackageCount[y.chunk] - 1
  BY <1>2, CombosAre
<1>4. pending' = pending \cup {<<y.chunk, y.intra>>}
  BY <1>1 DEF R!Submit
<1>5. pending' \subseteq {<<p.chunk, p.intra>> : p \in Combos}
  BY <1>2, <1>4 DEF TypeOK
<1>6. CASE y.final
  <2>1. finalIdx' = [c \in DOMAIN finalIdx \cup {y.chunk} |->
                       IF c = y.chunk THEN y.intra ELSE finalIdx[c]]
    BY <1>1, <1>6 DEF R!Submit
  <2>2. DOMAIN finalIdx' \subseteq ChunkIds /\ \A c \in DOMAIN finalIdx' : finalIdx'[c] = PackageCount[c] - 1
    <3>1. DOMAIN finalIdx' = DOMAIN finalIdx \cup {y.chunk} /\ DOMAIN finalIdx \subseteq ChunkIds
      BY <2>1 DEF TypeOK
    <3>2. y.intra = PackageCount[y.chunk] - 1
      BY <1>3, <1>6
    <3>3. ASSUME NEW c \in DOMAIN finalIdx' PROVE finalIdx'[c] = PackageCount[c] - 1
      BY <2>1, <3>1, <3>2 DEF WriterInv
    <3> QED
      BY <1>3, <3>1, <3>3
  <2>3. \A c \in ChunkIds : <<c, PackageCount[c] - 1>> \in pending' => c \in DOMAIN finalIdx'
    BY <1>4, <2>1 DEF WriterInv
  <2> QED
    BY <1>1, <1>2, <1>4, <1>5, <2>2, <2>3 DEF WriterInv
<1>7. CASE ~y.final
  <2>1. finalIdx' = finalIdx
    BY <1>1, <1>7 DEF R!Submit
  <2>2. \A c \in ChunkIds : <<c, PackageCount[c] - 1>> \in pending' => c \in DOMAIN finalIdx'
    BY <1>3, <1>4, <1>7, <2>1 DEF WriterInv
  <2>3. DOMAIN finalIdx' \subseteq ChunkIds /\ \A c \in DOMAIN finalIdx' : finalIdx'[c] = PackageCount[c] - 1
    BY <2>1 DEF TypeOK, WriterInv
  <2> QED
    BY <1>1, <1>2, <1>4, <1>5, <2>2, <2>3 DEF WriterInv
<1> QED
  BY <1>6, <1>7

\* A chunk is written whole, or the loop breaks; at() always finds its package.
LEMMA DrainStep ==
  ASSUME TypeOK, WriterInv, WriterDrains
  PROVE  /\ WriterInv'
         /\ \/ /\ nextChunk \in ChunkIds /\ nextChunk' = nextChunk + 1 /\ R!Ready
               /\ pending' = {p \in pending : p[1] # nextChunk} /\ DOMAIN finalIdx' \subseteq ChunkIds
               /\ written' = written \o [i \in 1..PackageCount[nextChunk] |-> <<nextChunk, i - 1>>]
               /\ writer' = writer
            \/ UNCHANGED <<pending, finalIdx, nextChunk, written>> /\ writer' \in {"pop", "done"}
<1>1. UNCHANGED <<phraseQ, phraseDone>> /\ writer \in {"drain", "drainAll"}
  BY DEF WriterDrains
<1>2. CASE R!Ready
  <2>1. /\ nextChunk \in ChunkIds /\ finalIdx[nextChunk] = PackageCount[nextChunk] - 1 /\ R!AtFinds
        /\ finalIdx[nextChunk] + 1 = PackageCount[nextChunk]
    BY <1>2, ReadyMeansComplete, PackagesAre
  <2>2. R!WriteChunk /\ writer' = writer
    BY <1>2, <2>1 DEF WriterDrains
  <2>3. /\ nextChunk' = nextChunk + 1
        /\ pending' = {p \in pending : p[1] # nextChunk}
        /\ finalIdx' = [c \in DOMAIN finalIdx \ {nextChunk} |-> finalIdx[c]]
        /\ written' = written \o [i \in 1..PackageCount[nextChunk] |-> <<nextChunk, i - 1>>]
    BY <2>1, <2>2 DEF R!WriteChunk, R!Block
  <2>4. WriterInv'
    BY <1>1, <2>2, <2>3 DEF WriterInv
  <2> QED
    BY <1>2, <2>1, <2>2, <2>3, <2>4 DEF TypeOK
<1>3. CASE ~R!Ready
  <2>1. /\ writer' = IF writer = "drain" THEN "pop" ELSE "done"
        /\ UNCHANGED <<pending, finalIdx, nextChunk, written>>
    BY <1>3 DEF WriterDrains
  <2>2. R!Ready' <=> R!Ready
    BY <2>1 DEF R!Ready, R!Inner
  <2> QED
    BY <1>1, <1>3, <2>1, <2>2 DEF WriterInv
<1> QED
  BY <1>2, <1>3
-----------------------------------------------------------------------------
(* The steps that neither move a package nor a feeder or worker.           *)

Bystander == WriterEnds \/ OpenOutput \/ OpenFails \/ ReadCrash \/ Finish \/ TouchStopFile

\* They leave the packages, the feeders and the workers alone.
LEMMA BystanderStep ==
  ASSUME Bystander
  PROVE  /\ UNCHANGED <<queueVars, fpc, hand, nextSeq, activeFeeders, stopRequested, faults, late,
                        mapperVars, finderVars, scannerVars, pending, finalIdx, nextChunk, written>>
         /\ stopFile' \in {stopFile, TRUE, FALSE}
BY DEF Bystander, WriterEnds, OpenOutput, OpenFails, ReadCrash, Finish, TouchStopFile,
       F!CreateStopFile, restOfWriter, queueVars, feedersVars, writerVars

\* Every step is one of these.
LEMMA Steps ==
  ASSUME [Next]_vars
  PROVE  \/ \E f \in Feeders : Feed(f)
         \/ \E w \in Mappers : Map(w)
         \/ \E w \in Finders : Find(w)
         \/ \E w \in Scanners : Scan(w)
         \/ WriterPops \/ WriterDrains
         \/ Bystander
         \/ UNCHANGED vars
BY DEF Next, Bystander, Terminated

\* Every step keeps the types.
LEMMA TypeStep ==
  ASSUME TypeOK, FeedersInv, MP!StageInv, WP!StageInv, SP!StageInv, WriterInv, [Next]_vars
  PROVE  TypeOK'
<1>1. ASSUME NEW f \in Feeders, Feed(f) PROVE TypeOK'
  <2>1. activeFeeders' \in Nat
    <3>1. activeFeeders' = Cardinality(Claiming') /\ Claiming' \in SUBSET Feeders
      BY <1>1, FeedStep DEF FeedersInv, Claiming
    <3> QED
      BY <3>1, FiniteThreads, FS_Subset, FS_CardinalityType
  <2>2. /\ fpc' \in [Feeders -> FPCs] /\ hand' \in [Feeders -> Nat] /\ nextSeq' \in Nat
        /\ digitQ' \in Seq(ChunkIds) /\ Len(digitQ') <= DigitQCapacity
        /\ {stopRequested', stopFile', digitDone'} \subseteq BOOLEAN
    BY <1>1, FeedStep
  <2>3. UNCHANGED <<faults, letterQ, letterDone, comboQ, comboDone, phraseQ, phraseDone,
                    mapperVars, finderVars, scannerVars, writerVars, main>>
    BY <1>1 DEF Feed
  <2> QED
    BY <2>1, <2>2, <2>3 DEF TypeOK, FPCs, mapperVars, finderVars, scannerVars, writerVars
<1>2. ASSUME NEW w \in Mappers, Map(w) PROVE TypeOK'
  <2>1. MP!StageTypeOK(ChunkIds, ChunkIds)' /\ Len(digitQ') <= DigitQCapacity
    <3>1. MP!StageTypeOK(ChunkIds, ChunkIds)' /\ Len(digitQ') <= Len(digitQ)
      BY <1>2, MapStep
    <3>2. Len(digitQ) \in Nat /\ Len(digitQ') \in Nat /\ Len(digitQ) <= DigitQCapacity
      BY <3>1 DEF MP!StageTypeOK, TypeOK
    <3> QED
      BY <3>1, <3>2, Capacities
  <2>2. UNCHANGED <<comboQ, comboDone, phraseQ, phraseDone,
                    feedersVars, finderVars, scannerVars, writerVars, main>>
    BY <1>2 DEF Map
  <2> QED
    BY <2>1, <2>2 DEF TypeOK, MP!StageTypeOK, MP!PCs, feedersVars, finderVars, scannerVars, writerVars
<1>3. ASSUME NEW w \in Finders, Find(w) PROVE TypeOK'
  <2>1. WP!StageTypeOK(ChunkIds, Combos)' /\ Len(letterQ') <= LetterQCapacity
    <3>1. WP!StageTypeOK(ChunkIds, Combos)' /\ Len(letterQ') <= Len(letterQ)
      BY <1>3, FindStep
    <3>2. Len(letterQ) \in Nat /\ Len(letterQ') \in Nat /\ Len(letterQ) <= LetterQCapacity
      BY <3>1 DEF WP!StageTypeOK, TypeOK
    <3> QED
      BY <3>1, <3>2, Capacities
  <2>2. UNCHANGED <<digitQ, digitDone, phraseQ, phraseDone,
                    feedersVars, mapperVars, scannerVars, writerVars, main>>
    BY <1>3 DEF Find
  <2> QED
    BY <2>1, <2>2 DEF TypeOK, WP!StageTypeOK, WP!PCs, feedersVars, mapperVars, scannerVars, writerVars
<1>4. ASSUME NEW w \in Scanners, Scan(w) PROVE TypeOK'
  <2>1. SP!StageTypeOK(Combos, Combos)' /\ Len(comboQ') <= ComboQCapacity
    <3>1. SP!StageTypeOK(Combos, Combos)' /\ Len(comboQ') <= Len(comboQ)
      BY <1>4, ScanStep
    <3>2. Len(comboQ) \in Nat /\ Len(comboQ') \in Nat /\ Len(comboQ) <= ComboQCapacity
      BY <3>1 DEF SP!StageTypeOK, TypeOK
    <3> QED
      BY <3>1, <3>2, Capacities
  <2>2. UNCHANGED <<digitQ, digitDone, letterQ, letterDone,
                    feedersVars, mapperVars, finderVars, writerVars, main>>
    BY <1>4 DEF Scan
  <2> QED
    BY <2>1, <2>2 DEF TypeOK, SP!StageTypeOK, SP!PCs, feedersVars, mapperVars, finderVars, writerVars
<1>5. CASE WriterPops
  <2>1. /\ phraseQ' \in Seq(Combos) /\ Len(phraseQ') <= PhraseQCapacity
        /\ pending' \subseteq {<<p.chunk, p.intra>> : p \in Combos}
        /\ DOMAIN finalIdx' \subseteq ChunkIds
    BY <1>5, PopStep
  <2>2. UNCHANGED <<phraseDone, nextChunk, written, restOfWriter>> /\ writer' = "drain"
    BY <1>5 DEF WriterPops, PhraseQ!Receive
  <2> QED
    BY <2>1, <2>2 DEF TypeOK, restOfWriter, feedersVars, mapperVars, finderVars, scannerVars
<1>6. CASE WriterDrains
  <2>1. /\ pending' \subseteq pending /\ DOMAIN finalIdx' \subseteq ChunkIds
        /\ nextChunk' \in 0..NumChunks /\ writer' \in {"drain", "drainAll", "pop", "done"}
    <3>1. nextChunk \in ChunkIds => nextChunk + 1 \in 0..NumChunks
      BY ChunksAssumption DEF ChunkIds
    <3>2. writer \in {"drain", "drainAll"} /\ nextChunk \in 0..NumChunks /\ DOMAIN finalIdx \subseteq ChunkIds
      BY <1>6 DEF WriterDrains, TypeOK
    <3> QED
      BY <1>6, <3>1, <3>2, DrainStep
  <2>2. UNCHANGED <<phraseQ, phraseDone, restOfWriter>>
    BY <1>6 DEF WriterDrains
  <2> QED
    BY <2>1, <2>2 DEF TypeOK, restOfWriter, feedersVars, mapperVars, finderVars, scannerVars
<1>7. CASE Bystander
  <2>1. stopFile' \in BOOLEAN
    BY <1>7, BystanderStep DEF TypeOK
  <2>2. writer' \in {writer, "drainAll", "pop"} /\ main' \in {main, "join", "crashed", "finished"}
    BY <1>7 DEF Bystander, WriterEnds, OpenOutput, OpenFails, ReadCrash, Finish, TouchStopFile,
                restOfWriter, writerVars
  <2> QED
    BY <1>7, <2>1, <2>2, BystanderStep DEF TypeOK, queueVars, mapperVars, finderVars, scannerVars
<1>8. CASE UNCHANGED vars
  BY <1>8 DEF vars, TypeOK, queueVars, feedersVars, mapperVars, finderVars, scannerVars, writerVars
<1> QED
  BY <1>1, <1>2, <1>3, <1>4, <1>5, <1>6, <1>7, <1>8, Steps

\* A step of one stage leaves the counters and the closing of the others right.
LEMMA StagesStep ==
  ASSUME TypeOK, FeedersInv, MP!StageInv, WP!StageInv, SP!StageInv, [Next]_vars
  PROVE  MP!StageInv' /\ WP!StageInv' /\ SP!StageInv'
<1>1. ASSUME NEW f \in Feeders, Feed(f) PROVE MP!StageInv' /\ WP!StageInv' /\ SP!StageInv'
  <2>1. digitDone => digitDone' /\ digitQ' = digitQ
    BY <1>1, FeedStep
  <2>2. UNCHANGED <<letterQ, letterDone, comboQ, comboDone, phraseDone,
                    mapperVars, finderVars, scannerVars>>
    BY <1>1 DEF Feed
  <2>3. MP!StageInv'
    BY <2>1, <2>2, MP!StageUndisturbed DEF mapperVars
  <2> QED
    BY <2>2, <2>3, WP!StageUndisturbed, SP!StageUndisturbed DEF finderVars, scannerVars
<1>2. ASSUME NEW w \in Mappers, Map(w) PROVE MP!StageInv' /\ WP!StageInv' /\ SP!StageInv'
  <2>1. MP!StageInv' /\ (letterDone => letterDone' /\ letterQ' = letterQ)
    BY <1>2, MapStep
  <2>2. UNCHANGED <<comboQ, comboDone, phraseDone, finderVars, scannerVars>>
    BY <1>2 DEF Map
  <2> QED
    BY <2>1, <2>2, WP!StageUndisturbed, SP!StageUndisturbed DEF finderVars, scannerVars
<1>3. ASSUME NEW w \in Finders, Find(w) PROVE MP!StageInv' /\ WP!StageInv' /\ SP!StageInv'
  <2>1. WP!StageInv' /\ letterDone' = letterDone /\ (comboDone => comboDone' /\ comboQ' = comboQ)
    BY <1>3, FindStep
  <2>2. UNCHANGED <<digitQ, digitDone, phraseDone, mapperVars, scannerVars>>
    BY <1>3 DEF Find
  <2> QED
    BY <2>1, <2>2, MP!StageUndisturbed, SP!StageUndisturbed DEF mapperVars, scannerVars
<1>4. ASSUME NEW w \in Scanners, Scan(w) PROVE MP!StageInv' /\ WP!StageInv' /\ SP!StageInv'
  <2>1. SP!StageInv' /\ comboDone' = comboDone
    BY <1>4, ScanStep
  <2>2. UNCHANGED <<digitQ, digitDone, letterQ, letterDone, mapperVars, finderVars>>
    BY <1>4 DEF Scan
  <2> QED
    BY <2>1, <2>2, MP!StageUndisturbed, WP!StageUndisturbed DEF mapperVars, finderVars
<1>5. CASE WriterPops \/ WriterDrains \/ Bystander \/ UNCHANGED vars
  <2>1. UNCHANGED <<digitQ, digitDone, letterQ, letterDone, comboQ, comboDone, phraseDone,
                    mapperVars, finderVars, scannerVars>>
    BY <1>5, BystanderStep DEF WriterPops, PhraseQ!Receive, WriterDrains, restOfWriter, vars, queueVars
  <2> QED
    BY <2>1, MP!StageUndisturbed, WP!StageUndisturbed, SP!StageUndisturbed
       DEF mapperVars, finderVars, scannerVars
<1> QED
  BY <1>1, <1>2, <1>3, <1>4, <1>5, Steps

\* Every step keeps what holds of the writer.
LEMMA WriterStep ==
  ASSUME TypeOK, SP!StageInv, WriterInv, [Next]_vars
  PROVE  WriterInv'
<1>1. ASSUME NEW w \in Scanners, Scan(w) PROVE WriterInv'
  <2>1. phraseDone => phraseDone' /\ phraseQ' = phraseQ
    BY <1>1, ScanStep
  <2>2. UNCHANGED writerVars
    BY <1>1 DEF Scan
  <2> QED
    BY <2>1, <2>2 DEF WriterInv, writerVars, R!Ready, R!Inner
<1>2. ASSUME (\E f \in Feeders : Feed(f)) \/ (\E w \in Mappers : Map(w)) \/ (\E w \in Finders : Find(w))
      PROVE  WriterInv'
  <2>1. UNCHANGED <<phraseQ, phraseDone, writerVars>>
    BY <1>2 DEF Feed, Map, Find
  <2> QED
    BY <2>1 DEF WriterInv, writerVars, R!Ready, R!Inner
<1>3. CASE Bystander
  <2>1. UNCHANGED <<phraseQ, phraseDone, pending, finalIdx, nextChunk>>
    BY <1>3, BystanderStep DEF queueVars
  <2>2. \/ writer' = writer \/ writer' = "pop"
        \/ writer' = "drainAll" /\ phraseDone /\ phraseQ = <<>>
    BY <1>3 DEF Bystander, WriterEnds, PhraseQ!Exhausted, OpenOutput, OpenFails, ReadCrash, Finish,
                TouchStopFile, writerVars
  <2> QED
    BY <2>1, <2>2 DEF WriterInv, R!Ready, R!Inner
<1>4. CASE UNCHANGED vars
  BY <1>4 DEF vars, queueVars, writerVars, WriterInv, R!Ready, R!Inner
<1> QED
  BY <1>1, <1>2, <1>3, <1>4, PopStep, DrainStep, Steps
-----------------------------------------------------------------------------
(* The feeders.                                                            *)

\* Every step keeps the count of the feeders.
LEMMA FeedersStep ==
  ASSUME TypeOK, FeedersInv, MP!StageInv, [Next]_vars
  PROVE  FeedersInv'
<1>1. ASSUME NEW w \in Mappers, Map(w) PROVE FeedersInv'
  <2>1. digitDone' = digitDone /\ UNCHANGED <<fpc, hand, activeFeeders>>
    BY <1>1, MapStep DEF Map, feedersVars
  <2> QED
    BY <2>1 DEF FeedersInv, Claiming
<1>2. CASE \/ \E w \in Finders : Find(w)
           \/ \E w \in Scanners : Scan(w)
           \/ WriterPops \/ WriterDrains \/ Bystander \/ UNCHANGED vars
  <2>1. UNCHANGED <<fpc, hand, activeFeeders, digitDone>>
    BY <1>2, BystanderStep
       DEF Find, Scan, WriterPops, WriterDrains, restOfWriter, vars, feedersVars, queueVars
  <2> QED
    BY <2>1 DEF FeedersInv, Claiming
<1> QED
  BY <1>1, <1>2, FeedStep, Steps

\* Only a feeder's own step changes what the feeders know.
LEMMA OnlyFeeders ==
  ASSUME [Next]_vars, ~\E f \in Feeders : Feed(f)
  PROVE  UNCHANGED <<fpc, hand, nextSeq, stopRequested, faults, late>>
BY Steps, BystanderStep
   DEF Map, Find, Scan, WriterPops, WriterDrains, restOfWriter, vars, feedersVars

\* A feeder leaves for one of two reasons, and neither goes away.
LEMMA OutOfDigitsStep ==
  ASSUME TypeOK, OutOfDigits, [Next]_vars
  PROVE  OutOfDigits'
<1>0. /\ fpc \in [Feeders -> FPCs] /\ nextSeq \in Nat /\ stopRequested \in BOOLEAN
      /\ hand \in [Feeders -> Nat]
  BY DEF TypeOK, FPCs
<1>1. ASSUME NEW f \in Feeders, Feed(f), NEW g \in Feeders, fpc'[g] \in {"close", "done"}
      PROVE  stopRequested' \/ \E s \in 0..(nextSeq' - 1) : ~F!HasDigits(s)'
  <2>0. faults' = faults
    BY <1>1 DEF Feed
  <2>1. CASE fpc[g] \in {"close", "done"}
    <3>1. (stopRequested => stopRequested') /\ (nextSeq' = nextSeq \/ nextSeq' = nextSeq + 1)
      BY <1>0, <1>1
         DEF Feed, F!FeederStep, F!CheckStop, F!ClaimChunk, F!ReadChunk, F!PushChunk, F!CloseDigitQ
    <3>2. \A s : s \in 0..(nextSeq - 1) => s \in 0..(nextSeq' - 1)
      BY <1>0, <3>1
    <3> QED
      BY <2>0, <2>1, <3>1, <3>2 DEF OutOfDigits, F!HasDigits
  <2>2. CASE fpc[g] \notin {"close", "done"}
    <3>1. g = f /\ (F!CheckStop(f) \/ F!ReadChunk(f))
      BY <1>0, <1>1, <2>2 DEF Feed, F!FeederStep, F!CheckStop, F!ClaimChunk, F!ReadChunk,
                              F!PushChunk, F!CloseDigitQ, F!LeaveLoop
    <3>2. CASE F!CheckStop(f)
      BY <1>0, <1>1, <3>1, <3>2 DEF F!CheckStop
    <3>3. CASE F!ReadChunk(f)
      <4>1. ~F!HasDigits(hand[f]) /\ nextSeq' = nextSeq /\ fpc[f] = "read"
        BY <1>0, <1>1, <3>1, <3>3 DEF F!ReadChunk
      <4>2. hand[f] \in 0..(nextSeq' - 1)
        <5>1. hand[f] \in Nat /\ hand[f] < nextSeq
          BY <1>0, <4>1 DEF OutOfDigits
        <5> QED
          BY <1>0, <4>1, <5>1
      <4> QED
        BY <2>0, <4>1, <4>2 DEF F!HasDigits
    <3> QED
      BY <3>1, <3>2, <3>3
  <2> QED
    BY <2>1, <2>2
<1>2. CASE ~\E f \in Feeders : Feed(f)
  BY <1>2, OnlyFeeders DEF OutOfDigits, F!HasDigits
<1>3. ASSUME NEW f \in Feeders, Feed(f), NEW g \in Feeders, fpc'[g] = "read"
      PROVE  hand'[g] < nextSeq'
  <2>1. CASE F!ClaimChunk(f)
    <3>1. /\ fpc' = [fpc EXCEPT ![f] = "read"] /\ hand' = [hand EXCEPT ![f] = nextSeq]
          /\ nextSeq' = nextSeq + 1
      BY <2>1 DEF F!ClaimChunk
    <3>2. CASE g = f
      BY <1>0, <3>1, <3>2
    <3>3. CASE g # f
      <4>1. hand'[g] = hand[g] /\ fpc[g] = "read" /\ hand[g] \in Nat
        BY <1>0, <1>3, <3>1, <3>3
      <4>2. hand[g] < nextSeq
        BY <4>1 DEF OutOfDigits
      <4> QED
        BY <1>0, <3>1, <4>1, <4>2
    <3> QED
      BY <3>2, <3>3
  <2>2. CASE ~F!ClaimChunk(f)
    <3>1. UNCHANGED <<hand, nextSeq>> /\ fpc[g] = "read"
      BY <1>0, <1>3, <2>2 DEF Feed, F!FeederStep, F!CheckStop, F!ReadChunk, F!PushChunk,
                              F!CloseDigitQ, F!LeaveLoop
    <3> QED
      BY <3>1 DEF OutOfDigits
  <2> QED
    BY <2>1, <2>2
<1> QED
  BY <1>1, <1>2, <1>3 DEF OutOfDigits

\* The stop file stays until the run is over, and every feeder tests for it between
\* two claims.
LEMMA LateStep ==
  ASSUME TypeOK, LateOnce, [Next]_vars
  PROVE  LateOnce'
<1>0. /\ fpc \in [Feeders -> FPCs] /\ stopFile \in BOOLEAN /\ stopRequested \in BOOLEAN
      /\ late \in [Feeders -> {0, 1}]
  BY DEF TypeOK, FPCs, LateOnce
<1>1. ASSUME NEW f \in Feeders, Feed(f) PROVE LateOnce'
  <2>0. Alive /\ Alive' /\ stopFile' = stopFile
    BY <1>1 DEF Feed, Alive, F!FeederStep, F!CheckStop, F!ClaimChunk, F!ReadChunk, F!PushChunk,
                F!CloseDigitQ
  <2>1. CASE F!ClaimChunk(f)
    <3>1. fpc[f] = "next" /\ late[f] = 0
      BY <1>0, <2>1 DEF F!ClaimChunk, LateOnce
    <3>2. /\ late' = IF stopFile THEN [late EXCEPT ![f] = 1] ELSE late
          /\ fpc' \in [Feeders -> FPCs] /\ fpc'[f] # "next"
          /\ \A g \in Feeders \ {f} : fpc'[g] = fpc[g]
      BY <1>0, <2>1, <3>1 DEF F!ClaimChunk, FPCs
    <3>3. late' \in [Feeders -> {0, 1}]
      BY <1>0, <3>2
    <3>4. ASSUME NEW g \in Feeders, late'[g] = 1 PROVE fpc'[g] # "next" /\ stopFile
      <4>1. CASE g = f
        BY <1>0, <3>1, <3>2, <3>4, <4>1
      <4>2. CASE g # f
        BY <1>0, <2>0, <3>2, <3>4, <4>2 DEF LateOnce
      <4> QED
        BY <4>1, <4>2
    <3> QED
      BY <2>0, <3>3, <3>4 DEF LateOnce
  <2>2. CASE F!CheckStop(f)
    <3>1. /\ late' = late
          /\ stopFile => fpc'[f] # "next"
          /\ \A g \in Feeders \ {f} : fpc'[g] = fpc[g]
      BY <1>0, <2>2 DEF F!CheckStop, F!LeaveLoop, FPCs
    <3>2. ASSUME NEW g \in Feeders, late'[g] = 1 PROVE fpc'[g] # "next" /\ stopFile
      <4>1. late[g] = 1 /\ fpc[g] # "next" /\ stopFile
        BY <2>0, <3>1, <3>2 DEF LateOnce
      <4> QED
        BY <3>1, <4>1
    <3> QED
      BY <1>0, <2>0, <3>1, <3>2 DEF LateOnce
  <2>3. CASE F!ReadChunk(f) \/ F!PushChunk(f) \/ F!CloseDigitQ(f)
    <3>1. late' = late /\ \A g \in Feeders : fpc'[g] = "next" => fpc[g] = "next"
      BY <1>0, <2>3 DEF F!ReadChunk, F!LeaveLoop, F!PushChunk, F!CloseDigitQ
    <3> QED
      BY <2>0, <3>1 DEF LateOnce
  <2> QED
    BY <1>1, <2>1, <2>2, <2>3 DEF Feed, F!FeederStep
<1>2. CASE ~\E f \in Feeders : Feed(f)
  <2>1. UNCHANGED <<fpc, late>>
    BY <1>2, OnlyFeeders
  <2>2. Alive' => Alive /\ (stopFile => stopFile')
    BY <1>0, <1>2, Steps
       DEF Alive, Map, Find, Scan, WriterPops, WriterDrains, restOfWriter, vars, feedersVars,
           Bystander, WriterEnds, OpenOutput, OpenFails, ReadCrash, Finish, TouchStopFile,
           F!CreateStopFile
  <2> QED
    BY <2>1, <2>2 DEF LateOnce
<1> QED
  BY <1>1, <1>2
-----------------------------------------------------------------------------
(* The way of the chunks and packages, step by step.                       *)

\* What a step may do to them: a chunk goes on or is split into all of its
\* packages, a package goes on or arrives, and leaves pending_ when its chunk is
\* written; and a chunk is only ever made of digits that were read.
ChunkMoves(c) ==
  /\ AtChunk(c) => AtChunk(c)' \/ \A i \in 1..PackageCount[c] : AtPackage(CombosOf[c][i])'
  /\ AtChunk(c)' => AtChunk(c) \/ F!HasDigits(c)
PackageMoves(y) ==
  /\ AtPackage(y) => AtPackage(y)' \/ <<y.chunk, y.intra>> \in pending'
  /\ AtPackage(y)' => AtPackage(y) \/ AtChunk(y.chunk)
PendingMoves ==
  /\ \A p \in pending : p \in pending' \/ (p[1] = nextChunk /\ nextChunk' = nextChunk + 1)
  /\ \A p \in pending' : p \in pending \/ \E y \in Combos : AtPackage(y) /\ p = <<y.chunk, y.intra>>
Claims ==
  \/ nextSeq' = nextSeq
  \/ /\ nextSeq' = nextSeq + 1
     /\ \A c \in ChunkIds : c = nextSeq /\ F!HasDigits(c) => AtChunk(c)'
Writes ==
  \/ nextChunk' = nextChunk
  \/ /\ nextChunk' = nextChunk + 1 /\ nextChunk \in ChunkIds
     /\ \A i \in 0..(PackageCount[nextChunk] - 1) : <<nextChunk, i>> \in pending
Moves ==
  /\ \A c \in ChunkIds : ChunkMoves(c)
  /\ \A y \in Combos : PackageMoves(y)
  /\ PendingMoves /\ Claims /\ Writes

\* A feeder takes a chunk that was read, and passes it on.
LEMMA FeedMoves ==
  ASSUME TypeOK, FeedersInv, NEW f \in Feeders, Feed(f)
  PROVE  Moves
<1>0. /\ fpc \in [Feeders -> FPCs] /\ hand \in [Feeders -> Nat] /\ nextSeq \in Nat
      /\ digitQ \in Seq(ChunkIds)
  BY DEF TypeOK, FPCs
<1>1. /\ UNCHANGED <<faults, mtodo, letterQ, wtodo, comboQ, stodo, phraseQ, pending, nextChunk>>
  BY DEF Feed, mapperVars, finderVars, scannerVars, writerVars
<1>2. \A y \in Combos : AtPackage(y)' <=> AtPackage(y)
  BY <1>1 DEF AtPackage, WP!Held, SP!Held, WP!In, SP!In, In
<1>3. /\ \A c : MP!Held(c)' <=> MP!Held(c)
      /\ \A c : In(c, letterQ)' <=> In(c, letterQ)
  BY <1>1 DEF MP!Held, MP!In, In
<1>4. CASE F!CheckStop(f) \/ F!CloseDigitQ(f)
  <2>1. /\ UNCHANGED <<hand, digitQ, nextSeq>>
        /\ \A g \in Feeders : /\ fpc'[g] = "push" <=> fpc[g] = "push"
                              /\ fpc'[g] = "read" <=> fpc[g] = "read"
    BY <1>0, <1>4 DEF F!CheckStop, F!CloseDigitQ, F!LeaveLoop, F!DigitQ!Close
  <2>2. \A g \in Feeders : Carries(g)' <=> Carries(g)
    BY <1>1, <2>1 DEF Carries, F!HasDigits
  <2>3. \A c \in ChunkIds : AtChunk(c)' <=> AtChunk(c)
    BY <1>3, <2>1, <2>2 DEF AtChunk, In
  <2> QED
    BY <1>1, <1>2, <2>1, <2>3 DEF Moves, ChunkMoves, PackageMoves, PendingMoves, Claims, Writes
<1>5. CASE F!ClaimChunk(f)
  <2>1. digitQ' = digitQ /\ nextSeq' = nextSeq + 1 /\ fpc[f] = "next"
    BY <1>5 DEF F!ClaimChunk
  <2>2. /\ ~Carries(f) /\ (Carries(f)' <=> F!HasDigits(nextSeq)) /\ hand'[f] = nextSeq
        /\ \A g \in Feeders \ {f} : (Carries(g)' <=> Carries(g)) /\ hand'[g] = hand[g]
    BY <1>0, <1>1, <1>5 DEF F!ClaimChunk, Carries, F!HasDigits
  <2>3. \A c \in ChunkIds : AtChunk(c)' <=> AtChunk(c) \/ (c = nextSeq /\ F!HasDigits(nextSeq))
    BY <1>3, <2>1, <2>2 DEF AtChunk, In
  <2>4. \A c \in ChunkIds : c = nextSeq /\ F!HasDigits(c) => AtChunk(c)'
    BY <2>3
  <2> QED
    BY <1>1, <1>2, <2>1, <2>3, <2>4 DEF Moves, ChunkMoves, PackageMoves, PendingMoves, Claims, Writes
<1>7. CASE F!ReadChunk(f)
  <2>1. UNCHANGED <<digitQ, nextSeq, hand>> /\ fpc[f] = "read"
    BY <1>7 DEF F!ReadChunk
  <2>2. /\ fpc'[f] = "push" <=> F!HasDigits(hand[f])
        /\ fpc'[f] # "read"
        /\ \A g \in Feeders \ {f} : fpc'[g] = fpc[g]
    BY <1>0, <1>7 DEF F!ReadChunk, F!LeaveLoop
  <2>3. \A g \in Feeders : Carries(g)' <=> Carries(g)
    BY <1>1, <2>1, <2>2 DEF Carries, F!HasDigits
  <2>4. \A c \in ChunkIds : AtChunk(c)' <=> AtChunk(c)
    BY <1>3, <2>1, <2>3 DEF AtChunk, In
  <2> QED
    BY <1>1, <1>2, <2>1, <2>4 DEF Moves, ChunkMoves, PackageMoves, PendingMoves, Claims, Writes
<1>6. CASE F!PushChunk(f)
  <2>1. ~digitDone /\ fpc[f] = "push" /\ hand[f] \in ChunkIds
    BY <1>6 DEF F!PushChunk, FeedersInv
  <2>2. /\ UNCHANGED <<hand, nextSeq>> /\ digitQ' = Append(digitQ, hand[f])
        /\ fpc' = [fpc EXCEPT ![f] = "check"]
    BY <1>6, <2>1 DEF F!PushChunk, F!DigitQ!Send
  <2>3. \A c : In(c, digitQ)' <=> In(c, digitQ) \/ c = hand[f]
    <3>1. \A c : In(c, Append(digitQ, hand[f])) <=> In(c, digitQ) \/ c = hand[f]
      BY <1>0, <2>1, InAppend
    <3>2. \A c : In(c, digitQ)' <=> In(c, Append(digitQ, hand[f]))
      BY <2>2 DEF In
    <3> QED
      BY <3>1, <3>2
  <2>4. \A c \in ChunkIds : AtChunk(c)' <=> AtChunk(c)
    <3>1. Carries(f) /\ ~Carries(f)' /\ \A g \in Feeders \ {f} : Carries(g)' <=> Carries(g)
      BY <1>0, <1>1, <2>1, <2>2 DEF Carries, F!HasDigits
    <3>2. \A c : (\E g \in Feeders : Carries(g) /\ hand[g] = c)
                   <=> c = hand[f] \/ \E g \in Feeders : Carries(g)' /\ hand'[g] = c
      BY <2>2, <3>1
    <3> QED
      BY <1>3, <2>3, <3>2 DEF AtChunk
  <2> QED
    BY <1>1, <1>2, <2>2, <2>4 DEF Moves, ChunkMoves, PackageMoves, PendingMoves, Claims, Writes
<1> QED
  BY <1>4, <1>5, <1>6, <1>7 DEF Feed, F!FeederStep

\* A worker passes on what it popped.
LEMMA WorkerMoves ==
  ASSUME TypeOK, MP!StageInv, WP!StageInv, SP!StageInv,
         \/ \E w \in Mappers : Map(w)
         \/ \E w \in Finders : Find(w)
         \/ \E w \in Scanners : Scan(w)
  PROVE  Moves
<1>1. UNCHANGED <<fpc, hand, nextSeq, faults, pending, nextChunk>>
  BY DEF Map, Find, Scan, feedersVars, writerVars
<1>2. PendingMoves /\ Claims /\ Writes
  BY <1>1 DEF PendingMoves, Claims, Writes
<1>3. ASSUME NEW w \in Mappers, Map(w)
      PROVE  (\A c \in ChunkIds : ChunkMoves(c)) /\ (\A y \in Combos : PackageMoves(y))
  <2>1. UNCHANGED <<wtodo, comboQ, stodo, phraseQ>>
    BY <1>3 DEF Map, finderVars, scannerVars
  <2>2. \A y \in Combos : AtPackage(y)' <=> AtPackage(y)
    BY <2>1 DEF AtPackage, WP!Held, SP!Held, WP!In, SP!In, In
  <2>3. \A c \in ChunkIds : AtChunk(c)' <=> AtChunk(c)
    BY <1>1, <1>3, MapStep DEF AtChunk, Carries, F!HasDigits
  <2> QED
    BY <2>2, <2>3 DEF ChunkMoves, PackageMoves
<1>4. ASSUME NEW w \in Finders, Find(w)
      PROVE  (\A c \in ChunkIds : ChunkMoves(c)) /\ (\A y \in Combos : PackageMoves(y))
  <2>1. UNCHANGED <<digitQ, mtodo, stodo, phraseQ>>
    BY <1>4 DEF Find, mapperVars, scannerVars
  <2>2. /\ \A c : MP!Held(c)' <=> MP!Held(c)
        /\ \A c : In(c, digitQ)' <=> In(c, digitQ)
        /\ \A y : SP!Held(y)' <=> SP!Held(y)
        /\ \A y : In(y, phraseQ)' <=> In(y, phraseQ)
    BY <2>1 DEF MP!Held, MP!In, SP!Held, SP!In, In
  <2>3. ASSUME NEW c \in ChunkIds PROVE ChunkMoves(c)
    <3>1. /\ In(c, letterQ) =>
               In(c, letterQ)' \/ \A i \in 1..PackageCount[c] : WP!Held(CombosOf[c][i])'
          /\ In(c, letterQ)' => In(c, letterQ)
      BY <1>4, FindStep
    <3>2. (\A i \in 1..PackageCount[c] : WP!Held(CombosOf[c][i])')
            => \A i \in 1..PackageCount[c] : AtPackage(CombosOf[c][i])'
      BY DEF AtPackage
    <3>3. AtChunk(c)' <=> \/ \E f \in Feeders : Carries(f) /\ hand[f] = c
                          \/ In(c, digitQ) \/ MP!Held(c) \/ In(c, letterQ)'
      BY <1>1, <2>2 DEF AtChunk, Carries, F!HasDigits
    <3> QED
      BY <3>1, <3>2, <3>3 DEF ChunkMoves, AtChunk
  <2>4. ASSUME NEW y \in Combos PROVE PackageMoves(y)
    <3>1. /\ WP!Held(y) \/ In(y, comboQ) => (WP!Held(y) \/ In(y, comboQ))'
          /\ (WP!Held(y) \/ In(y, comboQ))' =>
               WP!Held(y) \/ In(y, comboQ) \/ In(y.chunk, letterQ)
      BY <1>4, FindStep
    <3> QED
      BY <2>2, <3>1 DEF PackageMoves, AtPackage, AtChunk
  <2> QED
    BY <2>3, <2>4
<1>5. ASSUME NEW w \in Scanners, Scan(w)
      PROVE  (\A c \in ChunkIds : ChunkMoves(c)) /\ (\A y \in Combos : PackageMoves(y))
  <2>1. UNCHANGED <<digitQ, mtodo, letterQ, wtodo>>
    BY <1>5 DEF Scan, mapperVars, finderVars
  <2>2. \A c \in ChunkIds : AtChunk(c)' <=> AtChunk(c)
    BY <1>1, <2>1 DEF AtChunk, Carries, F!HasDigits, MP!Held, MP!In, In
  <2>3. \A y : WP!Held(y)' <=> WP!Held(y)
    BY <2>1 DEF WP!Held, WP!In
  <2>4. \A y \in Combos : AtPackage(y)' <=> AtPackage(y)
    BY <1>5, <2>3, ScanStep DEF AtPackage
  <2> QED
    BY <2>2, <2>4 DEF ChunkMoves, PackageMoves
<1> QED
  BY <1>2, <1>3, <1>4, <1>5 DEF Moves

\* The writer takes packages in, and lets go of those of a chunk it writes.
LEMMA WriterMoves ==
  ASSUME TypeOK, WriterInv, WriterPops \/ WriterDrains \/ Bystander \/ UNCHANGED vars
  PROVE  Moves
<1>1. UNCHANGED <<fpc, hand, nextSeq, faults, digitQ, mtodo, letterQ, wtodo, comboQ, stodo>>
  BY BystanderStep
     DEF WriterPops, WriterDrains, restOfWriter, vars, queueVars, feedersVars, mapperVars,
         finderVars, scannerVars
<1>2. \A c : AtChunk(c)' <=> AtChunk(c)
  BY <1>1 DEF AtChunk, Carries, F!HasDigits, MP!Held, MP!In, In
<1>3. \A y : WP!Held(y)' = WP!Held(y) /\ SP!Held(y)' = SP!Held(y) /\ In(y, comboQ)' = In(y, comboQ)
  BY <1>1 DEF WP!Held, WP!In, SP!Held, SP!In, In
<1>4. CASE WriterPops
  <2> DEFINE h == Head(phraseQ)
  <2>1. /\ h \in Combos /\ phraseQ # <<>> /\ phraseQ' = Tail(phraseQ) /\ nextChunk' = nextChunk
        /\ pending' = pending \cup {<<h.chunk, h.intra>>} /\ phraseQ \in Seq(Combos)
    BY <1>4, PopStep DEF WriterPops, TypeOK
  <2>2. \A y : In(y, phraseQ) <=> y = h \/ In(y, Tail(phraseQ))
    BY <2>1, InTail
  <2>3. \A y : In(y, phraseQ) <=> y = h \/ In(y, phraseQ)'
    BY <2>1, <2>2 DEF In
  <2>4. \A y : AtPackage(y) <=> y = h \/ AtPackage(y)'
    BY <1>3, <2>3 DEF AtPackage
  <2>5. PendingMoves
    BY <2>1, <2>4 DEF PendingMoves
  <2>6. \A y \in Combos : PackageMoves(y)
    BY <2>1, <2>4 DEF PackageMoves
  <2> QED
    BY <1>1, <1>2, <2>1, <2>5, <2>6 DEF Moves, ChunkMoves, Claims, Writes
<1>5. CASE WriterDrains \/ Bystander \/ UNCHANGED vars
  <2>1. phraseQ' = phraseQ
    BY <1>5, BystanderStep DEF WriterDrains, vars, queueVars
  <2>2. \A y : AtPackage(y)' <=> AtPackage(y)
    BY <1>3, <2>1 DEF AtPackage, In
  <2>3. PendingMoves /\ Writes
    <3>1. CASE WriterDrains
      <4>1. R!Ready => \A i \in 0..(PackageCount[nextChunk] - 1) : <<nextChunk, i>> \in pending
        BY ReadyMeansComplete
      <4> QED
        BY <3>1, <4>1, DrainStep DEF PendingMoves, Writes
    <3>2. CASE Bystander \/ UNCHANGED vars
      <4>1. UNCHANGED <<pending, nextChunk>>
        BY <3>2, BystanderStep DEF vars, writerVars
      <4> QED
        BY <4>1 DEF PendingMoves, Writes
    <3> QED
      BY <1>5, <3>1, <3>2
  <2> QED
    BY <1>1, <1>2, <2>2, <2>3 DEF Moves, ChunkMoves, PackageMoves, Claims
<1> QED
  BY <1>4, <1>5

\* Every step moves chunks and packages in one of these ways.
LEMMA MovesStep ==
  ASSUME TypeOK, FeedersInv, MP!StageInv, WP!StageInv, SP!StageInv, WriterInv, [Next]_vars
  PROVE  Moves /\ faults' = faults
<1>1. Moves
  BY Steps, FeedMoves, WorkerMoves, WriterMoves
<1>2. faults' = faults
  BY OnlyFeeders DEF Feed
<1> QED
  BY <1>1, <1>2

\* So no chunk is lost on its way.
LEMMA NothingLostStep ==
  ASSUME TypeOK, NothingLost, Moves, faults' = faults
  PROVE  NothingLost'
<1> SUFFICES ASSUME NEW c \in ChunkIds, c \notin faults.fails, c < nextSeq'
             PROVE  \/ AtChunk(c)'
                    \/ \A i \in 1..PackageCount[c] :
                         AtPackage(CombosOf[c][i])' \/ <<c, i - 1>> \in pending'
                    \/ c < nextChunk'
  BY DEF NothingLost
<1>0. c \in Nat /\ nextSeq \in Nat /\ nextChunk \in Nat /\ c < NumChunks /\ NumChunks \in Nat
  BY ChunkIdsAre, ChunksAssumption DEF TypeOK
<1>1. nextChunk' = nextChunk \/ nextChunk' = nextChunk + 1
  BY DEF Moves, Writes
<1>2. CASE c < nextSeq
  <2>1. CASE AtChunk(c)
    BY <2>1 DEF Moves, ChunkMoves
  <2>2. CASE \A i \in 1..PackageCount[c] : AtPackage(CombosOf[c][i]) \/ <<c, i - 1>> \in pending
    <3>1. CASE c = nextChunk /\ nextChunk' = nextChunk + 1
      BY <1>0, <3>1
    <3>2. CASE ~(c = nextChunk /\ nextChunk' = nextChunk + 1)
      <4> SUFFICES ASSUME NEW i \in 1..PackageCount[c]
                   PROVE  AtPackage(CombosOf[c][i])' \/ <<c, i - 1>> \in pending'
        OBVIOUS
      <4>1. /\ CombosOf[c][i] \in Combos
            /\ CombosOf[c][i].chunk = c /\ CombosOf[c][i].intra = i - 1
        BY PackageIs
      <4>2. AtPackage(CombosOf[c][i]) => AtPackage(CombosOf[c][i])' \/ <<c, i - 1>> \in pending'
        BY <4>1 DEF Moves, PackageMoves
      <4>3. <<c, i - 1>> \in pending => <<c, i - 1>> \in pending'
        <5>1. <<c, i - 1>>[1] = c
          OBVIOUS
        <5> QED
          BY <3>2, <5>1 DEF Moves, PendingMoves
      <4> QED
        BY <2>2, <4>2, <4>3
    <3> QED
      BY <3>1, <3>2
  <2>3. CASE c < nextChunk
    BY <1>0, <1>1, <2>3
  <2> QED
    BY <1>2, <2>1, <2>2, <2>3 DEF NothingLost
<1>3. CASE ~(c < nextSeq)
  <2>1. c = nextSeq /\ nextSeq' = nextSeq + 1
    BY <1>0, <1>3 DEF Moves, Claims
  <2>2. F!HasDigits(c)
    BY <1>0 DEF F!HasDigits
  <2> QED
    BY <2>1, <2>2 DEF Moves, Claims
<1> QED
  BY <1>2, <1>3

\* And a chunk that was not read never turns up.
LEMMA NothingInventedStep ==
  ASSUME TypeOK, NothingInvented, Moves, faults' = faults
  PROVE  NothingInvented'
<1> SUFFICES ASSUME NEW c \in ChunkIds, c \in faults.fails
             PROVE  /\ ~AtChunk(c)'
                    /\ \A y \in Combos : y.chunk = c => ~AtPackage(y)'
                    /\ \A p \in pending' : p[1] # c
                    /\ nextChunk' <= c
  BY DEF NothingInvented
<1>1. /\ ~AtChunk(c)
      /\ \A y \in Combos : y.chunk = c => ~AtPackage(y)
      /\ \A p \in pending : p[1] # c
      /\ nextChunk <= c
  BY DEF NothingInvented
<1>2. ~AtChunk(c)'
  BY <1>1 DEF Moves, ChunkMoves, F!HasDigits
<1>3. \A y \in Combos : y.chunk = c => ~AtPackage(y)'
  BY <1>1 DEF Moves, PackageMoves
<1>4. \A p \in pending' : p[1] # c
  <2>1. ASSUME NEW p \in pending', p[1] = c, NEW y \in Combos, AtPackage(y), p = <<y.chunk, y.intra>>
        PROVE  FALSE
    BY <1>1, <2>1
  <2> QED
    BY <1>1, <2>1 DEF Moves, PendingMoves
<1>5. nextChunk' <= c
  <2>0. c \in Nat /\ nextChunk \in Nat
    BY ChunkIdsAre, ChunksAssumption DEF TypeOK
  <2>1. CASE nextChunk' = nextChunk
    BY <1>1, <2>1
  <2>2. CASE nextChunk' # nextChunk
    <3>1. /\ nextChunk' = nextChunk + 1 /\ nextChunk \in ChunkIds
          /\ \A i \in 0..(PackageCount[nextChunk] - 1) : <<nextChunk, i>> \in pending
      BY <2>2 DEF Moves, Writes
    <3>2. 0 \in 0..(PackageCount[nextChunk] - 1)
      BY <3>1, PackagesAre
    <3>3. <<nextChunk, 0>> \in pending /\ <<nextChunk, 0>>[1] = nextChunk
      BY <3>1, <3>2
    <3>4. nextChunk # c
      BY <1>1, <3>3
    <3> QED
      BY <1>1, <2>0, <3>1, <3>4
  <2> QED
    BY <2>1, <2>2
<1> QED
  BY <1>2, <1>3, <1>4, <1>5
-----------------------------------------------------------------------------
(* The end of a run.                                                       *)

\* When everybody is joined the queues and the hands are empty and the writer waits
\* for a chunk that nobody has: the first one that was not written was not claimed,
\* or was not read.
LEMMA AtTheEnd ==
  ASSUME TypeOK, MP!StageInv, WP!StageInv, SP!StageInv, WriterInv, OutOfDigits,
         NothingLost, NothingInvented, AllJoined
  PROVE  /\ \A c \in Available : c < nextSeq => c < nextChunk
         /\ ~stopRequested => nextChunk = Cardinality(Available)
<1>0. /\ NumChunks \in Nat /\ nextChunk \in Nat /\ nextChunk <= NumChunks /\ nextSeq \in Nat
      /\ \A c \in ChunkIds : c \in Nat
      /\ \A r \in faults.fails : r \in Nat
  BY ChunkIdsAre, ChunksAssumption DEF TypeOK
<1>1. /\ \A f \in Feeders : fpc[f] = "done"
      /\ MP!StageJoined /\ WP!StageJoined /\ SP!StageJoined
      /\ phraseQ = <<>> /\ ~R!Ready
  BY DEF AllJoined, F!FeedersJoined, M!StageJoined, W!StageJoined, S!StageJoined,
         MP!StageJoined, WP!StageJoined, SP!StageJoined, WriterInv
<1>2. /\ digitQ = <<>> /\ letterQ = <<>> /\ comboQ = <<>>
      /\ \A y : ~MP!Held(y) /\ ~WP!Held(y) /\ ~SP!Held(y)
  BY <1>1, FiniteThreads, MP!StageProperties, WP!StageProperties, SP!StageProperties
<1>3. /\ \A c : ~AtChunk(c)
      /\ \A y : ~AtPackage(y)
  BY <1>1, <1>2, InEmpty DEF AtChunk, AtPackage, Carries
<1>4. ASSUME NEW c \in Available, c < nextSeq PROVE c < nextChunk
  <2> SUFFICES ASSUME ~(c < nextChunk) PROVE FALSE
    OBVIOUS
  <2>1. c \in ChunkIds /\ c \in Nat /\ c < NumChunks
    BY ChunkIdsAre DEF Available
  <2>2. nextChunk \in ChunkIds /\ nextChunk < nextSeq /\ ~(nextChunk < nextChunk)
    BY <1>0, <1>4, <2>1 DEF ChunkIds
  <2>3. nextChunk \notin faults.fails
    BY <1>0, <2>1 DEF Available
  <2>4. \A i \in 1..PackageCount[nextChunk] : <<nextChunk, i - 1>> \in pending
    BY <1>3, <2>2, <2>3 DEF NothingLost
  <2>5. ASSUME NEW i \in 0..(PackageCount[nextChunk] - 1) PROVE <<nextChunk, i>> \in pending
    <3>1. i + 1 \in 1..PackageCount[nextChunk] /\ (i + 1) - 1 = i
      BY <2>2, PackagesAre
    <3> QED
      BY <2>4, <3>1
  <2>6. R!Ready
    BY <2>2, <2>5, ReadyMeansComplete
  <2> QED
    BY <1>1, <2>6
<1>5. ASSUME ~stopRequested PROVE nextChunk = Cardinality(Available)
  <2>1. PICK s \in 0..(nextSeq - 1) : s >= NumChunks \/ s \in faults.fails
    BY <1>0, <1>1, <1>5, FiniteThreads DEF OutOfDigits, F!HasDigits
  <2>2. ASSUME NEW c \in Available PROVE c \in 0..(nextChunk - 1)
    <3>1. c \in Nat /\ c < NumChunks
      BY ChunkIdsAre DEF Available
    <3>2. c < s
      BY <1>0, <2>1, <3>1 DEF Available
    <3>3. c < nextSeq
      BY <1>0, <2>1, <3>1, <3>2
    <3>4. c < nextChunk
      BY <1>4, <3>3
    <3> QED
      BY <1>0, <3>1, <3>4
  <2>3. ASSUME NEW c \in 0..(nextChunk - 1) PROVE c \in Available
    <3>1. c \in ChunkIds /\ c \in Nat /\ c < nextChunk
      BY <1>0 DEF ChunkIds
    <3>2. ASSUME NEW r \in faults.fails PROVE c < r
      <4>1. CASE r \in ChunkIds
        <5>1. nextChunk <= r
          BY <4>1 DEF NothingInvented
        <5> QED
          BY <1>0, <3>1, <5>1
      <4>2. CASE r \notin ChunkIds
        BY <1>0, <3>1, <4>2 DEF ChunkIds
      <4> QED
        BY <4>1, <4>2
    <3> QED
      BY <3>1, <3>2 DEF Available
  <2>4. Available = 0..(nextChunk - 1)
    BY <2>2, <2>3
  <2>5. Cardinality(0..(nextChunk - 1)) = nextChunk
    <3>1. CASE nextChunk = 0
      <4>1. 0..(nextChunk - 1) = {}
        BY <3>1
      <4> QED
        BY <3>1, <4>1, FS_EmptySet
    <3>2. CASE nextChunk # 0
      <4>1. 0 \in Int /\ nextChunk - 1 \in Int /\ ~(0 > nextChunk - 1) /\ (nextChunk - 1) - 0 + 1 = nextChunk
        BY <1>0, <3>2
      <4> QED
        BY <4>1, FS_Interval
    <3> QED
      BY <3>1, <3>2
  <2> QED
    BY <2>4, <2>5
<1> QED
  BY <1>4, <1>5

\* Only the end of a run, which comes when all are joined, makes the claim due.
LEMMA EndStep ==
  ASSUME TypeOK, MP!StageInv, WP!StageInv, SP!StageInv, WriterInv, OutOfDigits,
         NothingLost, NothingInvented, CompleteAtFinish, [Next]_vars
  PROVE  CompleteAtFinish'
<1> SUFFICES ASSUME main' = "finished" PROVE CompleteAtFinish'
  BY DEF CompleteAtFinish
<1>1. Finish \/ UNCHANGED vars
  BY DEF Next, Feed, Map, Find, Scan, WriterPops, WriterDrains, WriterEnds, OpenOutput, OpenFails,
         ReadCrash, TouchStopFile, Terminated, restOfWriter, Alive
<1>2. UNCHANGED <<faults, nextSeq, nextChunk, stopRequested>>
  BY <1>1 DEF Finish, vars, feedersVars, writerVars
<1>3. /\ \A c \in Available : c < nextSeq => c < nextChunk
      /\ ~stopRequested => nextChunk = Cardinality(Available)
  <2>1. CASE Finish
    BY <2>1, AtTheEnd DEF Finish
  <2>2. CASE UNCHANGED vars
    BY <2>2 DEF vars, CompleteAtFinish
  <2> QED
    BY <1>1, <2>1, <2>2
<1>4. Available' = Available
  BY <1>2 DEF Available
<1> QED
  BY <1>2, <1>3, <1>4 DEF CompleteAtFinish
-----------------------------------------------------------------------------
(* The theorems.                                                           *)

\* Where a run begins, the invariant holds.
LEMMA Start ==
  ASSUME Init
  PROVE  IInv
<1>1. TypeOK
  <2>1. /\ <<>> \in Seq(ChunkIds) /\ <<>> \in Seq(Combos) /\ Len(<<>>) = 0
        /\ 0 <= DigitQCapacity /\ 0 <= LetterQCapacity /\ 0 <= ComboQCapacity /\ 0 <= PhraseQCapacity
    BY Capacities
  <2>2. activeFeeders \in Nat
    <3>1. Cardinality(Feeders) \in Nat
      BY FiniteThreads, FS_CardinalityType
    <3> QED
      BY <3>1 DEF Init, F!FeedersInit, Cardinality, F!Cardinality
  <2>3. nextChunk \in 0..NumChunks
    BY ChunksAssumption DEF Init
  <2>4. /\ fpc \in [Feeders -> {"check", "next", "read", "push", "close", "done"}]
        /\ hand \in [Feeders -> Nat] /\ nextSeq \in Nat /\ stopRequested \in BOOLEAN
        /\ stopFile \in BOOLEAN
    BY DEF Init, F!FeedersInit
  <2>5. /\ mpc \in [Mappers -> {"run", "close", "done"}] /\ mtodo \in [Mappers -> Seq(ChunkIds)]
        /\ wpc \in [Finders -> {"run", "close", "done"}] /\ wtodo \in [Finders -> Seq(Combos)]
        /\ spc \in [Scanners -> {"run", "close", "done"}] /\ stodo \in [Scanners -> Seq(Combos)]
    BY <2>1 DEF Init, M!StageInit, W!StageInit, S!StageInit
  <2> QED
    BY <2>1, <2>2, <2>3, <2>4, <2>5 DEF Init, TypeOK
<1>2. FeedersInv
  <2>1. Claiming = Feeders
    BY DEF Init, F!FeedersInit, Claiming
  <2> QED
    BY <2>1 DEF Init, F!FeedersInit, FeedersInv, Cardinality, F!Cardinality
<1>3. OutOfDigits /\ LateOnce
  BY DEF Init, F!FeedersInit, OutOfDigits, LateOnce
<1>4. MP!StageInv /\ WP!StageInv /\ SP!StageInv
  <2>1. MP!StageInit /\ WP!StageInit /\ SP!StageInit
    BY DEF Init, M!StageInit, W!StageInit, S!StageInit, MP!StageInit, WP!StageInit, SP!StageInit,
           M!Cardinality, W!Cardinality, S!Cardinality,
           MP!Cardinality, WP!Cardinality, SP!Cardinality
  <2> QED
    BY <2>1, FiniteThreads, MP!StageStart, WP!StageStart, SP!StageStart DEF Init
<1>5. WriterInv
  BY DEF Init, WriterInv
<1>6. NothingLost
  <2>1. \A c \in ChunkIds : ~(c < nextSeq)
    BY ChunkIdsAre DEF Init, F!FeedersInit
  <2> QED
    BY <2>1 DEF NothingLost
<1>7. NothingInvented
  <2>1. \A c : ~AtChunk(c)
    <3>1. /\ \A f \in Feeders : ~Carries(f)
          /\ \A w \in Mappers : mtodo[w] = <<>>
          /\ digitQ = <<>> /\ letterQ = <<>>
      BY DEF Init, F!FeedersInit, M!StageInit, Carries
    <3> QED
      BY <3>1, InEmpty DEF AtChunk, MP!Held, MP!In, In
  <2>2. \A y : ~AtPackage(y)
    <3>1. /\ \A w \in Finders : wtodo[w] = <<>>
          /\ \A w \in Scanners : stodo[w] = <<>>
          /\ comboQ = <<>> /\ phraseQ = <<>>
      BY DEF Init, W!StageInit, S!StageInit
    <3> QED
      BY <3>1, InEmpty DEF AtPackage, WP!Held, WP!In, SP!Held, SP!In, In
  <2>3. pending = {} /\ \A c \in ChunkIds : nextChunk <= c
    BY ChunkIdsAre DEF Init
  <2> QED
    BY <2>1, <2>2, <2>3 DEF NothingInvented
<1>8. CompleteAtFinish
  BY DEF Init, CompleteAtFinish
<1> QED
  BY <1>1, <1>2, <1>3, <1>4, <1>5, <1>6, <1>7, <1>8 DEF IInv

\* Every step keeps it.
LEMMA Induction == IInv /\ [Next]_vars => IInv'
<1> SUFFICES ASSUME IInv, [Next]_vars PROVE IInv'
  OBVIOUS
<1>1. /\ TypeOK /\ FeedersInv /\ OutOfDigits /\ LateOnce /\ WriterInv
      /\ MP!StageInv /\ WP!StageInv /\ SP!StageInv
      /\ NothingLost /\ NothingInvented /\ CompleteAtFinish
  BY DEF IInv
<1>2. TypeOK' /\ WriterInv'
  BY <1>1, TypeStep, WriterStep
<1>3. FeedersInv' /\ OutOfDigits' /\ LateOnce'
  BY <1>1, FeedersStep, OutOfDigitsStep, LateStep
<1>4. MP!StageInv' /\ WP!StageInv' /\ SP!StageInv'
  BY <1>1, StagesStep
<1>5. Moves /\ faults' = faults
  BY <1>1, MovesStep
<1>6. NothingLost' /\ NothingInvented'
  BY <1>1, <1>5, NothingLostStep, NothingInventedStep
<1>7. CompleteAtFinish'
  BY <1>1, EndStep
<1> QED
  BY <1>2, <1>3, <1>4, <1>6, <1>7 DEF IInv

\* The inductive invariant of run_parallel: the counters of the feeders and of the
\* stages count the threads in their loops, and every chunk that was claimed is
\* somewhere on its way.
THEOREM Invariance == Spec => []IInv
<1>1. Init => IInv
  BY Start
<1> QED
  BY <1>1, Induction, PTL DEF Spec

\* Every variable of run_parallel keeps its type, and no queue its capacity exceeded.
THEOREM TypeCorrect == Spec => []TypeOK
<1>1. IInv => TypeOK
  BY DEF IInv
<1> QED
  BY <1>1, Invariance, PTL

\* No thread pushes to a queue that was closed under it: the early return of push()
\* never loses a package (BoundedQueue.hpp).
THEOREM NothingIsDropped == Spec => []NothingDropped
<1>1. ASSUME IInv PROVE NothingDropped
  <2>1. MP!EmptyHanded /\ WP!EmptyHanded /\ SP!EmptyHanded
    BY <1>1, MP!StageProperties, WP!StageProperties, SP!StageProperties DEF IInv
  <2>2. M!EmptyHanded /\ W!EmptyHanded /\ S!EmptyHanded
    BY <2>1 DEF MP!EmptyHanded, WP!EmptyHanded, SP!EmptyHanded,
                M!EmptyHanded, W!EmptyHanded, S!EmptyHanded
  <2> QED
    BY <1>1, <2>2 DEF IInv, FeedersInv, NothingDropped
<1> QED
  BY <1>1, Invariance, PTL

\* The at() of drain() finds its package whenever it is called, in any order the
\* threads deliver the packages (ReorderBuffer.hpp).
THEOREM WriterIsSafe == Spec => []WriterNeverThrows
<1>1. IInv => WriterNeverThrows
  BY DEF IInv, WriterInv, WriterNeverThrows
<1> QED
  BY <1>1, Invariance, PTL

\* When run_parallel returns every chunk that a feeder claimed before the digits ended,
\* or seemed to, is written; without a stop request these are all there were.
THEOREM Complete == Spec => []CompleteAtFinish
<1>1. IInv => CompleteAtFinish
  BY DEF IInv
<1> QED
  BY <1>1, Invariance, PTL

\* A feeder claims at most one chunk once pi_poetry.stop exists.
THEOREM StopsPromptly == Spec => []StopIsPrompt
<1>1. IInv => StopIsPrompt
  BY DEF IInv, LateOnce, StopIsPrompt
<1> QED
  BY <1>1, Invariance, PTL
-----------------------------------------------------------------------------
(* The implementation of SequentialOutput.                                 *)

\* A step of run_parallel writes the next chunk whole, ends the run, or does not show.
LEMMA SequentialStep ==
  ASSUME IInv, [Next]_vars
  PROVE  [Sequential!AppendChunk \/ Sequential!End]_(Sequential!seqVars)
<1>1. CASE WriterDrains
  <2>1. main' = main /\ Alive
    BY <1>1 DEF WriterDrains, restOfWriter
  <2>2. \/ /\ nextChunk \in ChunkIds /\ nextChunk' = nextChunk + 1
           /\ written' = written \o [i \in 1..PackageCount[nextChunk] |-> <<nextChunk, i - 1>>]
        \/ UNCHANGED <<nextChunk, written>>
    BY <1>1, DrainStep DEF IInv
  <2> QED
    BY <2>1, <2>2 DEF Sequential!AppendChunk, Sequential!seqVars, Alive
<1>2. CASE OpenFails \/ ReadCrash \/ Finish
  <2>1. UNCHANGED <<written, nextChunk>> /\ Alive /\ main' \in {"finished", "crashed"}
    BY <1>2 DEF OpenFails, ReadCrash, Finish, writerVars, Alive
  <2> QED
    BY <2>1 DEF Sequential!End, Alive
<1>3. CASE ~(WriterDrains \/ OpenFails \/ ReadCrash \/ Finish)
  <2>1. UNCHANGED <<written, nextChunk>> /\ (main' = main \/ (main = "open" /\ main' = "join"))
    <3>1. CASE \/ \E f \in Feeders : Feed(f)
               \/ \E w \in Mappers : Map(w)
               \/ \E w \in Finders : Find(w)
               \/ \E w \in Scanners : Scan(w)
      BY <3>1 DEF Feed, Map, Find, Scan, writerVars
    <3>2. CASE WriterPops \/ WriterEnds \/ OpenOutput \/ TouchStopFile \/ UNCHANGED vars
      BY <3>2 DEF WriterPops, WriterEnds, OpenOutput, TouchStopFile, restOfWriter, writerVars, vars
    <3> QED
      BY <1>3, <3>1, <3>2, Steps DEF Bystander
  <2> QED
    BY <2>1 DEF Sequential!seqVars, Alive
<1> QED
  BY <1>1, <1>2, <1>3

\* Threads, queues and the order of arrival do not show in results.json: run_parallel
\* implements the writing of whole chunks one after the other.
THEOREM Implements == Spec => ImplementsSequential
<1>1. Init => Sequential!SeqInit
  BY DEF Init, Sequential!SeqInit, Alive
<1>2. IInv /\ [Next]_vars => [Sequential!AppendChunk \/ Sequential!End]_(Sequential!seqVars)
  BY SequentialStep
<1> QED
  BY <1>1, <1>2, Invariance, PTL DEF Spec, ImplementsSequential, Sequential!SeqSpec
=============================================================================
