------------------------- MODULE ReorderBufferProofs ------------------------
(***************************************************************************)
(* Proofs about ReorderBuffer for every number of chunks, every division   *)
(* of the chunks into packages and every order of arrival.                 *)
(***************************************************************************)
EXTENDS ReorderBuffer, FiniteSetTheorems, SequenceTheorems, TLAPS

\* A package is a chunk and an index below the chunk's size.
LEMMA PackagesAre ==
  /\ \A c \in ChunkIds : \A i \in 0..(Size[c] - 1) : <<c, i>> \in Packages
  /\ \A p \in Packages : /\ p[1] \in ChunkIds /\ p[2] \in 0..(Size[p[1]] - 1)
                         /\ p = <<p[1], p[2]>>
BY DEF Packages

LEMMA SizeIs == \A c \in ChunkIds : Size[c] \in Nat /\ Size[c] >= 1 /\ c \in Nat
BY SizeAssumption, NumChunksAssumption DEF ChunkIds

\* The keys of a chunk's pending packages are among 0..K, so their number
\* tells whether all of them are there.
LEMMA AllArrived ==
  ASSUME TypeOK, NEW c \in ChunkIds
  PROVE  /\ Inner(c) \subseteq 0..(Size[c] - 1)
         /\ Cardinality(Inner(c)) = Size[c] <=> \A i \in 0..(Size[c] - 1) : <<c, i>> \in pending
<1>1. Inner(c) \subseteq 0..(Size[c] - 1)
  BY PackagesAre DEF Inner, TypeOK
<1>2. \A i \in 0..(Size[c] - 1) : i \in Inner(c) <=> <<c, i>> \in pending
  BY PackagesAre DEF Inner, TypeOK
<1>3. IsFiniteSet(0..(Size[c] - 1)) /\ Cardinality(0..(Size[c] - 1)) = Size[c]
  BY SizeIs, FS_Interval
<1>4. Cardinality(Inner(c)) = Size[c] => Inner(c) = 0..(Size[c] - 1)
  BY <1>1, <1>3, FS_Subset
<1>5. (\A i \in 0..(Size[c] - 1) : <<c, i>> \in pending) => Inner(c) = 0..(Size[c] - 1)
  <2> SUFFICES ASSUME \A i \in 0..(Size[c] - 1) : <<c, i>> \in pending
               PROVE  Inner(c) = 0..(Size[c] - 1)
    OBVIOUS
  <2>1. 0..(Size[c] - 1) \subseteq Inner(c)
    BY <1>2
  <2> QED
    BY <1>1, <2>1
<1> QED
  BY <1>1, <1>2, <1>3, <1>4, <1>5

\* drain() is ready for the next chunk exactly when all its packages are in.
LEMMA ReadyMeansComplete ==
  ASSUME TypeOK, FinalKnown, NEW c \in ChunkIds, nextChunk = c
  PROVE  Ready <=> \A i \in 0..(Size[c] - 1) : <<c, i>> \in pending
<1>1. c \in DOMAIN finalIdx => finalIdx[c] + 1 = Size[c]
  BY SizeIs DEF TypeOK
<1>2. (\A i \in 0..(Size[c] - 1) : <<c, i>> \in pending) => c \in DOMAIN finalIdx
  <2>1. Size[c] - 1 \in 0..(Size[c] - 1)
    BY SizeIs
  <2> QED
    BY <2>1 DEF FinalKnown
<1> QED
  BY <1>1, <1>2, AllArrived DEF Ready

LEMMA InitInv == Init => IInv
<1> SUFFICES ASSUME Init PROVE IInv
  OBVIOUS
<1>1. TypeOK
  BY NumChunksAssumption DEF Init, TypeOK
<1>2. NothingForgotten
  BY PackagesAre, SizeIs DEF Init, NothingForgotten
<1>3. FinalKnown /\ NeverThrows /\ WrittenInOrder
  BY DEF Init, FinalKnown, NeverThrows, WrittenInOrder
<1>4. PromptDrain
  <2>1. CASE NumChunks = 0
    BY <2>1 DEF Init, PromptDrain
  <2>2. CASE NumChunks # 0
    <3>1. 0 \in ChunkIds
      BY <2>2, NumChunksAssumption DEF ChunkIds
    <3>2. <<0, 0>> \in upstream
      BY <3>1, SizeIs, PackagesAre DEF Init
    <3> QED
      BY <3>2 DEF Init, PromptDrain
  <2> QED
    BY <2>1, <2>2
<1> QED
  BY <1>1, <1>2, <1>3, <1>4 DEF IInv

\* A package arrives.
LEMMA SubmitStep ==
  ASSUME IInv, NEW p \in upstream, PopAndSubmit(p)
  PROVE  IInv'
<1>1. /\ p \in Packages /\ p[1] \in ChunkIds /\ p[2] \in 0..(Size[p[1]] - 1)
      /\ p = <<p[1], p[2]>> /\ p[1] >= nextChunk
  BY PackagesAre DEF IInv, TypeOK, NothingForgotten
<1>2. pending' = pending \cup {p} /\ upstream' = upstream \ {p} /\ pc' = "drain"
      /\ nextChunk' = nextChunk /\ written' = written
  BY <1>1 DEF PopAndSubmit, Submit
<1>3. TypeOK' /\ FinalKnown'
  <2>1. CASE IsFinal(p)
    <3>1. finalIdx' = [c \in DOMAIN finalIdx \cup {p[1]} |->
                         IF c = p[1] THEN p[2] ELSE finalIdx[c]]
      BY <2>1 DEF PopAndSubmit, Submit
    <3>2. p[1] \in nextChunk..(NumChunks - 1) /\ p[2] = Size[p[1]] - 1
      BY <1>1, <2>1, NumChunksAssumption DEF ChunkIds, IsFinal, IInv, TypeOK
    <3> QED
      BY <1>1, <1>2, <3>1, <3>2 DEF IInv, TypeOK, FinalKnown
  <2>2. CASE ~IsFinal(p)
    <3>1. finalIdx' = finalIdx
      BY <2>2 DEF PopAndSubmit, Submit
    <3> QED
      BY <1>1, <1>2, <2>2, <3>1 DEF IInv, TypeOK, FinalKnown, IsFinal
  <2> QED
    BY <2>1, <2>2
<1>4. NothingForgotten'
  BY <1>1, <1>2 DEF IInv, NothingForgotten
<1>5. NeverThrows' /\ PromptDrain' /\ WrittenInOrder'
  BY <1>2 DEF IInv, NeverThrows, PromptDrain, WrittenInOrder
<1> QED
  BY <1>3, <1>4, <1>5 DEF IInv

\* A chunk is ready: at() finds every package, and the chunk is written.
LEMMA DrainStep ==
  ASSUME IInv, DrainChunk
  PROVE  IInv'
<1> DEFINE K == Size[nextChunk] - 1
<1>1. /\ nextChunk \in ChunkIds /\ nextChunk \in Nat /\ nextChunk + 1 \in 0..NumChunks
      /\ finalIdx[nextChunk] = K /\ nextChunk \in DOMAIN finalIdx /\ K \in Nat
  BY SizeIs, NumChunksAssumption DEF DrainChunk, Ready, IInv, TypeOK, ChunkIds
<1>2. \A i \in 0..K : <<nextChunk, i>> \in pending
  BY <1>1, ReadyMeansComplete DEF DrainChunk, IInv
<1>3. AtFinds
  BY <1>1, <1>2 DEF AtFinds
<1>4. /\ written' = written \o Block /\ nextChunk' = nextChunk + 1
      /\ pending' = {p \in pending : p[1] # nextChunk}
      /\ finalIdx' = [c \in DOMAIN finalIdx \ {nextChunk} |-> finalIdx[c]]
      /\ upstream' = upstream /\ pc' = pc /\ pc \in {"drain", "drainAll"}
  BY <1>3 DEF DrainChunk, WriteChunk
<1>5. /\ Block \in Seq(Packages) /\ Len(Block) = K + 1
      /\ \A i \in 1..(K + 1) : Block[i] = <<nextChunk, i - 1>>
  <2>1. Block = [i \in 1..(K + 1) |-> <<nextChunk, i - 1>>]
    BY <1>1 DEF Block
  <2>2. \A i \in 1..(K + 1) : <<nextChunk, i - 1>> \in Packages
    BY <1>1, PackagesAre
  <2>3. Block \in Seq(Packages)
    BY <1>1, <2>1, <2>2
  <2> QED
    BY <1>1, <2>1, <2>3
<1>6. written \in Seq(Packages)
  BY DEF IInv, TypeOK
<1>7. TypeOK'
  <2>1. written' \in Seq(Packages)
    BY <1>4, <1>5, <1>6
  <2>2. DOMAIN finalIdx' \subseteq (nextChunk + 1)..(NumChunks - 1)
    BY <1>1, <1>4, NumChunksAssumption DEF IInv, TypeOK
  <2>3. \A c \in DOMAIN finalIdx' : finalIdx'[c] = Size[c] - 1
    BY <1>4 DEF IInv, TypeOK
  <2> QED
    BY <1>1, <1>4, <2>1, <2>2, <2>3 DEF IInv, TypeOK
<1>8. FinalKnown'
  <2> SUFFICES ASSUME NEW c \in ChunkIds
               PROVE  c \in DOMAIN finalIdx' <=> <<c, Size[c] - 1>> \in pending'
    BY DEF FinalKnown
  <2>1. c \in DOMAIN finalIdx <=> <<c, Size[c] - 1>> \in pending
    BY DEF IInv, FinalKnown
  <2> QED
    BY <1>4, <2>1
<1>9. NothingForgotten'
  <2>1. \A p \in upstream : p[1] # nextChunk
    <3> SUFFICES ASSUME NEW p \in upstream, p[1] = nextChunk PROVE FALSE
      OBVIOUS
    <3>1. p \in Packages /\ p[2] \in 0..K /\ p = <<nextChunk, p[2]>>
      BY PackagesAre DEF IInv, TypeOK
    <3>2. p \in pending
      BY <1>2, <3>1
    <3> QED
      BY <3>2 DEF IInv, NothingForgotten
  <2>2. \A p \in pending \cup upstream : p[1] \in Nat
    BY PackagesAre, SizeIs DEF IInv, TypeOK
  <2>3. \A p \in pending' : p[1] >= nextChunk + 1
    BY <1>1, <1>4, <2>2 DEF IInv, NothingForgotten
  <2>4. \A p \in upstream' : p[1] >= nextChunk + 1
    BY <1>1, <1>4, <2>1, <2>2 DEF IInv, NothingForgotten
  <2>5. ASSUME NEW c \in ChunkIds, c >= nextChunk + 1, NEW i \in 0..(Size[c] - 1)
        PROVE  <<c, i>> \in pending' \cup upstream'
    <3>1. c >= nextChunk /\ c # nextChunk
      BY <1>1, <2>5, SizeIs
    <3>2. <<c, i>> \in pending \cup upstream
      BY <2>5, <3>1 DEF IInv, NothingForgotten
    <3> QED
      BY <1>4, <3>1, <3>2
  <2>6. upstream' \cap pending' = {}
    BY <1>4 DEF IInv, NothingForgotten
  <2> QED
    BY <1>4, <2>3, <2>4, <2>5, <2>6 DEF NothingForgotten
<1>10. WrittenInOrder'
  <2> DEFINE n == Len(written)
  <2>1. /\ n \in Nat /\ Len(written') = n + K + 1
        /\ \A k \in 1..n : written'[k] = written[k]
        /\ \A k \in (n + 1)..(n + K + 1) : written'[k] = <<nextChunk, k - n - 1>>
    <3>1. /\ Len(written \o Block) = n + Len(Block)
          /\ \A k \in 1..(n + Len(Block)) :
               (written \o Block)[k] = IF k <= n THEN written[k] ELSE Block[k - n]
      BY <1>5, <1>6, ConcatProperties
    <3>2. n \in Nat
      BY <1>6
    <3>3. \A k \in (n + 1)..(n + K + 1) : k - n \in 1..(K + 1) /\ ~(k <= n)
      BY <1>1, <3>2
    <3> QED
      BY <1>1, <1>4, <1>5, <3>1, <3>2, <3>3, SMTT(30)
  <2>2. n = 0 <=> nextChunk = 0
    BY <1>6, <1>1, EmptySeq DEF IInv, WrittenInOrder
  <2>3. n > 0 => written[1] = <<0, 0>> /\ written[n] = <<nextChunk - 1, Size[nextChunk - 1] - 1>>
    BY <2>1, <2>2 DEF IInv, WrittenInOrder
  <2>9. written'[n + 1] = <<nextChunk, 0>>
    <3>1. n + 1 \in (n + 1)..(n + K + 1) /\ (n + 1) - n - 1 = 0
      BY <1>1, <2>1
    <3> QED
      BY <2>1, <3>1
  <2>4. written'[1] = <<0, 0>>
    <3>1. CASE n = 0
      BY <2>2, <2>9, <3>1
    <3>2. CASE n > 0
      BY <2>1, <2>3, <3>2
    <3> QED
      BY <2>1, <3>1, <3>2
  <2>5. written'[n + K + 1] = <<nextChunk, K>>
    BY <1>1, <2>1, SMTT(30)
  <2>6. ASSUME NEW k \in 1..(n + K) PROVE written'[k + 1] = Succ(written'[k])
    <3>1. CASE k < n
      BY <2>1, <3>1 DEF IInv, WrittenInOrder
    <3>2. CASE k = n
      <4>1. n > 0 /\ nextChunk - 1 \in ChunkIds /\ written'[k] = <<nextChunk - 1, Size[nextChunk - 1] - 1>>
        BY <1>1, <2>1, <2>2, <2>3, <3>2, NumChunksAssumption, SMTT(30) DEF ChunkIds
      <4>2. Succ(written'[k]) = <<nextChunk, 0>>
        BY <1>1, <4>1, SizeIs DEF Succ
      <4> QED
        BY <2>9, <3>2, <4>2
    <3>3. CASE k > n
      <4>1. written'[k] = <<nextChunk, k - n - 1>> /\ written'[k + 1] = <<nextChunk, k - n>>
        <5>1. k \in (n + 1)..(n + K + 1) /\ k + 1 \in (n + 1)..(n + K + 1)
          BY <1>1, <2>1, <2>6, <3>3
        <5>2. (k + 1) - n - 1 = k - n
          BY <2>1, <2>6
        <5> QED
          BY <2>1, <5>1, <5>2
      <4>2. (k - n - 1) + 1 < Size[nextChunk] /\ (k - n - 1) + 1 = k - n
        BY <1>1, <2>1, <2>6, <3>3, SizeIs
      <4> QED
        BY <4>1, <4>2 DEF Succ
    <3> QED
      BY <2>1, <3>1, <3>2, <3>3
  <2>7. written' # <<>>
    BY <1>1, <2>1
  <2>8. nextChunk' # 0 /\ nextChunk' - 1 = nextChunk /\ Len(written') - 1 = n + K
    BY <1>1, <1>4, <2>1
  <2> QED
    BY <1>1, <2>1, <2>4, <2>5, <2>6, <2>7, <2>8 DEF WrittenInOrder
<1>11. NeverThrows' /\ PromptDrain'
  BY <1>4 DEF IInv, NeverThrows, PromptDrain
<1> QED
  BY <1>7, <1>8, <1>9, <1>10, <1>11 DEF IInv

\* The loop breaks: some package of the next chunk has not arrived.
LEMMA BreakStep ==
  ASSUME IInv, DrainBreaks
  PROVE  IInv'
<1>1. UNCHANGED <<pending, finalIdx, nextChunk, written, upstream>> /\ pc' \in {"pop", "done"}
  BY DEF DrainBreaks
<1>2. PromptDrain'
  <2> SUFFICES ASSUME nextChunk # NumChunks PROVE \E p \in upstream : p[1] = nextChunk
    BY <1>1 DEF PromptDrain
  <2>1. nextChunk \in ChunkIds
    BY NumChunksAssumption DEF IInv, TypeOK, ChunkIds
  <2>2. PICK i \in 0..(Size[nextChunk] - 1) : <<nextChunk, i>> \notin pending
    BY <2>1, ReadyMeansComplete DEF DrainBreaks, IInv
  <2>3. <<nextChunk, i>> \in upstream
    BY <2>1, <2>2, SizeIs DEF IInv, NothingForgotten
  <2> QED
    BY <2>3
<1>3. NothingForgotten' /\ FinalKnown' /\ WrittenInOrder' /\ NeverThrows'
  BY <1>1 DEF IInv, NothingForgotten, FinalKnown, WrittenInOrder, NeverThrows
<1>4. TypeOK'
  BY <1>1 DEF IInv, TypeOK
<1> QED
  BY <1>2, <1>3, <1>4 DEF IInv

\* The invariant holds initially and every step keeps it.
THEOREM Invariance == Spec => []IInv
<1>1. IInv /\ [Next]_vars => IInv'
  <2> SUFFICES ASSUME IInv, [Next]_vars PROVE IInv'
    OBVIOUS
  <2>1. CASE PopReturnsFalse
    BY <2>1 DEF PopReturnsFalse, IInv, TypeOK, NothingForgotten, FinalKnown, WrittenInOrder,
                NeverThrows, PromptDrain
  <2>2. CASE UNCHANGED vars
    BY <2>2 DEF vars, IInv, TypeOK, NothingForgotten, FinalKnown, WrittenInOrder,
                NeverThrows, PromptDrain
  <2> QED
    BY <2>1, <2>2, SubmitStep, DrainStep, BreakStep DEF Next, Terminated
<1> QED
  BY <1>1, InitInv, PTL DEF Spec

\* The buffer keeps only what is still to be written.
THEOREM TypeCorrect == Spec => []TypeOK
BY Invariance, PTL DEF IInv

\* What is written is the start of the sequential output, in whole chunks.
THEOREM InOrder == Spec => []WrittenInOrder
BY Invariance, PTL DEF IInv

\* A package is upstream, pending or written, never two of these.
THEOREM NoneForgotten == Spec => []NothingForgotten
BY Invariance, PTL DEF IInv

\* Only a package that has not arrived holds the output back.
THEOREM Prompt == Spec => []PromptDrain
BY Invariance, PTL DEF IInv

\* Testing the number of packages is enough for inner.at(i) to find each.
THEOREM AtNeverThrows == Spec => []NeverThrows
BY Invariance, PTL DEF IInv
=============================================================================
