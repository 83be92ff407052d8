------------------------- MODULE BoundedQueueProofs -------------------------
(***************************************************************************)
(* Proofs about BoundedQueue for every number of threads, every capacity   *)
(* and every number of items.                                              *)
(***************************************************************************)
EXTENDS BoundedQueue, FiniteSetTheorems, SequenceTheorems, TLAPS

PPCs == {"loop", "push", "waitFull", "close", "done"}
CPCs == {"pop", "waitEmpty", "busy", "done"}

\* The wait sets and the sets of threads on their way are finite.
LEMMA FiniteThreads ==
  ASSUME TypeOK
  PROVE  /\ IsFiniteSet(Working) /\ IsFiniteSet(Pushing) /\ IsFiniteSet(Popping)
         /\ Cardinality(Working) \in Nat
         /\ Cardinality(Pushing) \in Nat
         /\ Cardinality(Popping) \in Nat
<1>1. Working \in SUBSET Producers /\ Pushing \in SUBSET Producers
  BY DEF Working, Pushing
<1>2. Popping \in SUBSET Consumers
  BY DEF Popping
<1>3. IsFiniteSet(Working) /\ IsFiniteSet(Pushing) /\ IsFiniteSet(Popping)
  BY <1>1, <1>2, FS_Subset, ProducersAssumption, ConsumersAssumption
<1> QED
  BY <1>3, FS_CardinalityType

\* notify_one moves at most one waiter and keeps every other thread in place.
LEMMA NotifyTypes ==
  ASSUME TypeOK
  PROVE  /\ NotifyNotEmpty => cpc' \in [Consumers -> CPCs]
         /\ NotifyNotFull => ppc' \in [Producers -> PPCs]
BY DEF TypeOK, NotifyNotEmpty, NotifyNotFull, CPCs, PPCs

\* Every state and every step is well typed, and a producer that is pushing has
\* made an item.
LEMMA TypeStep ==
  ASSUME TypeOK, InHand, [Next]_vars
  PROVE  TypeOK' /\ InHand'
<1> USE CapacityAssumption, MaxItemsAssumption
<1>1. ASSUME NEW p \in Producers, Produce(p) PROVE TypeOK' /\ InHand'
  BY <1>1 DEF Produce, TypeOK, InHand
<1>2. ASSUME NEW p \in Producers, PushBlocks(p) PROVE TypeOK' /\ InHand'
  BY <1>2 DEF PushBlocks, TypeOK, InHand
<1>3. ASSUME NEW p \in Producers, PushReturns(p) PROVE TypeOK' /\ InHand'
  <2>1. CASE done
    BY <1>3, <2>1 DEF PushReturns, TypeOK, InHand
  <2>2. CASE ~done
    <3>1. Item(p) \in Items
      BY <1>3 DEF PushReturns, TypeOK, InHand, Item, Items
    <3>2. cpc' \in [Consumers -> CPCs]
      BY <1>3, <2>2, NotifyTypes DEF PushReturns
    <3>3. q' \in Seq(Items) /\ Len(q') <= Capacity
      <4>1. q' = Append(q, Item(p)) /\ Len(q) < Capacity /\ q \in Seq(Items)
        BY <1>3, <2>2 DEF PushReturns, TypeOK
      <4> QED
        BY <4>1, <3>1
    <3> QED
      BY <1>3, <2>2, <3>2, <3>3 DEF PushReturns, TypeOK, InHand, CPCs
  <2> QED
    BY <2>1, <2>2
<1>4. ASSUME NEW p \in Producers, Leave(p) PROVE TypeOK' /\ InHand'
  BY <1>4 DEF Leave, TypeOK, InHand
<1>5. ASSUME NEW p \in Producers, SetDone(p) PROVE TypeOK' /\ InHand'
  BY <1>5 DEF SetDone, TypeOK, InHand, WaitingFull, WaitingEmpty
<1>6. ASSUME NEW c \in Consumers, PopBlocks(c) PROVE TypeOK' /\ InHand'
  BY <1>6 DEF PopBlocks, TypeOK, InHand
<1>7. ASSUME NEW c \in Consumers, PopItem(c) PROVE TypeOK' /\ InHand'
  <2>1. Head(q) \in Items /\ q' \in Seq(Items) /\ Len(q') <= Capacity
    BY <1>7 DEF PopItem, TypeOK
  <2>2. got' \in Seq(Items)
    BY <1>7, <2>1 DEF PopItem, TypeOK
  <2>3. ppc' \in [Producers -> PPCs]
    BY <1>7, NotifyTypes DEF PopItem
  <2>4. InHand'
    BY <1>7 DEF PopItem, NotifyNotFull, WaitingFull, TypeOK, InHand
  <2> QED
    BY <1>7, <2>1, <2>2, <2>3, <2>4 DEF PopItem, TypeOK, PPCs
<1>8. ASSUME NEW c \in Consumers, PopReturnsFalse(c) PROVE TypeOK' /\ InHand'
  BY <1>8 DEF PopReturnsFalse, TypeOK, InHand
<1>9. ASSUME NEW c \in Consumers, Process(c) PROVE TypeOK' /\ InHand'
  BY <1>9 DEF Process, TypeOK, InHand
<1>10. CASE SpuriousWakeup
  BY <1>10 DEF SpuriousWakeup, WaitingFull, WaitingEmpty, TypeOK, InHand
<1>11. CASE UNCHANGED vars
  BY <1>11 DEF vars, TypeOK, InHand
<1> QED
  BY <1>1, <1>2, <1>3, <1>4, <1>5, <1>6, <1>7, <1>8, <1>9, <1>10, <1>11
     DEF Next, ProducerStep, ConsumerStep, Terminated

\* Only Leave changes the set of producers in their loop; everybody else moves
\* within it, and only SetDone and Leave touch what Closing looks at.
LEMMA WorkingUnchanged ==
  ASSUME TypeOK, Next, \A p \in Producers : ~Leave(p) /\ ~SetDone(p)
  PROVE  /\ Working' = Working
         /\ UNCHANGED <<active, done>>
         /\ \A p \in Producers : ppc'[p] = "close" <=> ppc[p] = "close"
<1>1. ASSUME NEW p \in Producers, Produce(p) \/ PushBlocks(p) \/ PushReturns(p)
      PROVE  /\ Working' = Working
             /\ UNCHANGED <<active, done>>
             /\ \A r \in Producers : ppc'[r] = "close" <=> ppc[r] = "close"
  BY <1>1 DEF Produce, PushBlocks, PushReturns, Working, TypeOK
<1>2. ASSUME NEW c \in Consumers, PopItem(c)
      PROVE  /\ Working' = Working
             /\ UNCHANGED <<active, done>>
             /\ \A r \in Producers : ppc'[r] = "close" <=> ppc[r] = "close"
  BY <1>2 DEF PopItem, NotifyNotFull, WaitingFull, Working, TypeOK
<1>3. ASSUME NEW c \in Consumers, PopBlocks(c) \/ PopReturnsFalse(c) \/ Process(c)
      PROVE  UNCHANGED <<active, done, ppc>>
  BY <1>3 DEF PopBlocks, PopReturnsFalse, Process
<1>4. CASE SpuriousWakeup
  BY <1>4 DEF SpuriousWakeup, WaitingFull, Working, TypeOK
<1>5. CASE Terminated
  BY <1>5 DEF Terminated, vars, Working
<1> QED
  BY <1>1, <1>2, <1>3, <1>4, <1>5 DEF Next, ProducerStep, ConsumerStep, Working

\* The atomic counter finds the last producer, and only the last one closes.
LEMMA CountStep ==
  ASSUME TypeOK, ActiveCount, LastOneOut, [Next]_vars
  PROVE  ActiveCount' /\ LastOneOut'
<1>1. ASSUME NEW p \in Producers, Leave(p) PROVE ActiveCount' /\ LastOneOut'
  <2>1. p \in Working /\ Working' = Working \ {p}
    BY <1>1 DEF Leave, Working, TypeOK
  <2>2. Cardinality(Working') = Cardinality(Working) - 1 /\ IsFiniteSet(Working')
    BY <2>1, FiniteThreads, FS_RemoveElement
  <2>3. Working' = {} <=> active = 1
    BY <2>2, FS_EmptySet, FiniteThreads DEF ActiveCount
  <2>4. ~Closing
    BY <2>1 DEF LastOneOut
  <2>5. Closing' <=> active = 1
    BY <1>1, <2>4 DEF Leave, Closing, TypeOK
  <2> QED
    BY <1>1, <2>2, <2>3, <2>5 DEF Leave, ActiveCount, LastOneOut
<1>2. ASSUME NEW p \in Producers, SetDone(p) PROVE ActiveCount' /\ LastOneOut'
  <2>1. Working = {} /\ Closing'
    BY <1>2 DEF SetDone, Closing, LastOneOut
  <2>2. Working' = {}
    BY <1>2, <2>1 DEF SetDone, Working, WaitingFull, TypeOK
  <2> QED
    BY <1>2, <2>1, <2>2 DEF SetDone, ActiveCount, LastOneOut
<1>3. ASSUME Next, \A p \in Producers : ~Leave(p) /\ ~SetDone(p)
      PROVE  ActiveCount' /\ LastOneOut'
  BY <1>3, WorkingUnchanged DEF ActiveCount, LastOneOut, Closing
<1>4. CASE UNCHANGED vars
  BY <1>4 DEF vars, ActiveCount, LastOneOut, Closing, Working
<1> QED
  BY <1>1, <1>2, <1>3, <1>4

\* done_ is never reset, and a consumer stops only when it is set.
LEMMA StoppedStep ==
  ASSUME TypeOK, StoppedLate, [Next]_vars
  PROVE  StoppedLate'
<1>1. ASSUME NEW p \in Producers, ProducerStep(p) PROVE StoppedLate'
  BY <1>1 DEF ProducerStep, Produce, PushBlocks, PushReturns, NotifyNotEmpty, Leave, SetDone,
              WaitingEmpty, StoppedLate, TypeOK
<1>2. ASSUME NEW c \in Consumers, ConsumerStep(c) PROVE StoppedLate'
  BY <1>2 DEF ConsumerStep, PopBlocks, PopItem, PopReturnsFalse, Process, StoppedLate, TypeOK
<1>3. CASE SpuriousWakeup
  BY <1>3 DEF SpuriousWakeup, WaitingEmpty, StoppedLate, TypeOK
<1>4. CASE UNCHANGED vars
  BY <1>4 DEF vars, StoppedLate
<1> QED
  BY <1>1, <1>2, <1>3, <1>4 DEF Next, Terminated

\* Adding or removing one thread changes a finite set's cardinality by one.
LEMMA OneMore ==
  ASSUME NEW A, IsFiniteSet(A), NEW x, x \notin A
  PROVE  Cardinality(A \cup {x}) = Cardinality(A) + 1 /\ Cardinality(A) \in Nat
BY FS_AddElement, FS_CardinalityType

LEMMA OneLess ==
  ASSUME NEW A, IsFiniteSet(A), NEW x \in A
  PROVE  Cardinality(A \ {x}) = Cardinality(A) - 1 /\ Cardinality(A) \in Nat
BY FS_RemoveElement, FS_CardinalityType

\* Each critical section keeps a woken thread for every item and for every slot.
LEMMA WakeupStep ==
  ASSUME TypeOK, TypeOK', NoLostWakeup, LastOneOut, [Next]_vars
  PROVE  NoLostWakeup'
<1> USE CapacityAssumption
<1>0. /\ Len(q) \in Nat /\ Len(q') \in Nat
      /\ Cardinality(Pushing) \in Nat /\ Cardinality(Popping) \in Nat
      /\ Cardinality(Pushing)' \in Nat /\ Cardinality(Popping)' \in Nat
  <2>1. Pushing' \in SUBSET Producers /\ Popping' \in SUBSET Consumers
    BY DEF Pushing, Popping
  <2>2. IsFiniteSet(Pushing') /\ IsFiniteSet(Popping')
    BY <2>1, FS_Subset, ProducersAssumption, ConsumersAssumption
  <2>3. Cardinality(Pushing)' \in Nat /\ Cardinality(Popping)' \in Nat
    BY <2>2, FS_CardinalityType
  <2> QED
    BY <2>3, FiniteThreads DEF TypeOK
<1>1. ASSUME NEW p \in Producers, Produce(p) PROVE NoLostWakeup'
  <2>1. /\ WaitingFull' = WaitingFull /\ Pushing' = Pushing \cup {p} /\ p \notin Pushing
        /\ WaitingEmpty' = WaitingEmpty /\ Popping' = Popping /\ UNCHANGED <<q, done>>
    BY <1>1 DEF Produce, WaitingFull, Pushing, WaitingEmpty, Popping, TypeOK
  <2>2. Cardinality(Pushing') = Cardinality(Pushing) + 1
    BY <2>1, OneMore, FiniteThreads
  <2> QED
    BY <1>0, <2>1, <2>2 DEF NoLostWakeup
<1>2. ASSUME NEW p \in Producers, PushBlocks(p) PROVE NoLostWakeup'
  <2>1. /\ WaitingEmpty' = WaitingEmpty /\ Popping' = Popping /\ UNCHANGED <<q, done>>
        /\ Len(q) >= Capacity /\ ~done
    BY <1>2 DEF PushBlocks, WaitingEmpty, Popping
  <2> QED
    BY <1>0, <2>1 DEF NoLostWakeup
<1>3. ASSUME NEW p \in Producers, PushReturns(p) PROVE NoLostWakeup'
  <2>1. p \in Working
    BY <1>3 DEF PushReturns, Working
  <2>2. ~done
    BY <2>1 DEF LastOneOut, Closing
  <2>3. /\ WaitingFull' = WaitingFull /\ Pushing' = Pushing \ {p} /\ p \in Pushing
        /\ Len(q') = Len(q) + 1 /\ done' = done
    BY <1>3, <2>2 DEF PushReturns, WaitingFull, Pushing, TypeOK
  <2>4. Cardinality(Pushing') = Cardinality(Pushing) - 1
    BY <2>3, OneLess, FiniteThreads
  <2>5. CASE WaitingEmpty = {} /\ UNCHANGED cpc
    <3>1. WaitingEmpty' = {}
      BY <2>5 DEF WaitingEmpty
    <3> QED
      BY <1>0, <2>2, <2>3, <2>4, <3>1 DEF NoLostWakeup
  <2>6. ASSUME NEW c \in WaitingEmpty, cpc' = [cpc EXCEPT ![c] = "pop"] PROVE NoLostWakeup'
    <3>1. Popping' = Popping \cup {c} /\ c \notin Popping
      BY <2>6 DEF WaitingEmpty, Popping, TypeOK
    <3>2. Cardinality(Popping') = Cardinality(Popping) + 1
      BY <3>1, OneMore, FiniteThreads
    <3>3. Len(q) <= Cardinality(Popping)
      BY <2>6 DEF NoLostWakeup
    <3> QED
      BY <1>0, <2>2, <2>3, <2>4, <3>2, <3>3 DEF NoLostWakeup
  <2> QED
    BY <1>3, <2>2, <2>5, <2>6 DEF PushReturns, NotifyNotEmpty
<1>4. ASSUME NEW p \in Producers, Leave(p) PROVE NoLostWakeup'
  <2>1. /\ WaitingFull' = WaitingFull /\ Pushing' = Pushing
        /\ WaitingEmpty' = WaitingEmpty /\ Popping' = Popping /\ UNCHANGED <<q, done>>
    BY <1>4 DEF Leave, WaitingFull, Pushing, WaitingEmpty, Popping, TypeOK
  <2> QED
    BY <2>1 DEF NoLostWakeup
<1>5. ASSUME NEW p \in Producers, SetDone(p) PROVE NoLostWakeup'
  <2>1. WaitingFull' = {} /\ WaitingEmpty' = {}
    BY <1>5 DEF SetDone, WaitingFull, WaitingEmpty, TypeOK
  <2> QED
    BY <2>1 DEF NoLostWakeup
<1>6. ASSUME NEW c \in Consumers, PopBlocks(c) PROVE NoLostWakeup'
  <2>1. /\ WaitingFull' = WaitingFull /\ Pushing' = Pushing /\ UNCHANGED <<q, done>>
        /\ Len(q) = 0 /\ ~done
    BY <1>6 DEF PopBlocks, WaitingFull, Pushing
  <2> QED
    BY <1>0, <2>1 DEF NoLostWakeup
<1>7. ASSUME NEW c \in Consumers, PopItem(c) PROVE NoLostWakeup'
  <2>1. /\ WaitingEmpty' = WaitingEmpty /\ Popping' = Popping \ {c} /\ c \in Popping
        /\ Len(q') = Len(q) - 1 /\ done' = done
    BY <1>7 DEF PopItem, WaitingEmpty, Popping, TypeOK
  <2>2. Cardinality(Popping') = Cardinality(Popping) - 1
    BY <2>1, OneLess, FiniteThreads
  <2>3. CASE WaitingFull = {} /\ UNCHANGED ppc
    <3>1. WaitingFull' = {}
      BY <2>3 DEF WaitingFull
    <3> QED
      BY <1>0, <2>1, <2>2, <3>1 DEF NoLostWakeup
  <2>4. ASSUME NEW p \in WaitingFull, ppc' = [ppc EXCEPT ![p] = "push"] PROVE NoLostWakeup'
    <3>1. Pushing' = Pushing \cup {p} /\ p \notin Pushing
      BY <2>4 DEF WaitingFull, Pushing, TypeOK
    <3>2. Cardinality(Pushing') = Cardinality(Pushing) + 1
      BY <3>1, OneMore, FiniteThreads
    <3>3. Capacity - Len(q) <= Cardinality(Pushing) /\ ~done
      BY <2>4 DEF NoLostWakeup
    <3> QED
      BY <1>0, <2>1, <2>2, <3>2, <3>3 DEF NoLostWakeup
  <2> QED
    BY <1>7, <2>3, <2>4 DEF PopItem, NotifyNotFull
<1>8. ASSUME NEW c \in Consumers, PopReturnsFalse(c) PROVE NoLostWakeup'
  <2>1. /\ WaitingFull' = WaitingFull /\ Pushing' = Pushing
        /\ WaitingEmpty' = WaitingEmpty /\ UNCHANGED <<q, done>> /\ done
    BY <1>8 DEF PopReturnsFalse, WaitingFull, Pushing, WaitingEmpty, TypeOK
  <2> QED
    BY <2>1 DEF NoLostWakeup
<1>9. ASSUME NEW c \in Consumers, Process(c) PROVE NoLostWakeup'
  <2>1. /\ WaitingEmpty' = WaitingEmpty /\ Popping' = Popping \cup {c} /\ c \notin Popping
        /\ WaitingFull' = WaitingFull /\ Pushing' = Pushing /\ UNCHANGED <<q, done>>
    BY <1>9 DEF Process, WaitingFull, Pushing, WaitingEmpty, Popping, TypeOK
  <2>2. Cardinality(Popping') = Cardinality(Popping) + 1
    BY <2>1, OneMore, FiniteThreads
  <2> QED
    BY <1>0, <2>1, <2>2 DEF NoLostWakeup
<1>10. ASSUME NEW p \in WaitingFull, ppc' = [ppc EXCEPT ![p] = "push"],
              UNCHANGED <<q, done, active, cpc, made, got>>
       PROVE  NoLostWakeup'
  <2>1. Pushing' = Pushing \cup {p} /\ p \notin Pushing
    BY <1>10 DEF WaitingFull, Pushing, TypeOK
  <2>2. Cardinality(Pushing') = Cardinality(Pushing) + 1
    BY <2>1, OneMore, FiniteThreads
  <2>3. WaitingEmpty' = WaitingEmpty /\ Popping' = Popping /\ ~done
    BY <1>10 DEF WaitingEmpty, Popping, NoLostWakeup
  <2> QED
    BY <1>0, <1>10, <2>2, <2>3 DEF NoLostWakeup
<1>11. ASSUME NEW c \in WaitingEmpty, cpc' = [cpc EXCEPT ![c] = "pop"],
              UNCHANGED <<q, done, active, ppc, made, got>>
       PROVE  NoLostWakeup'
  <2>1. Popping' = Popping \cup {c} /\ c \notin Popping
    BY <1>11 DEF WaitingEmpty, Popping, TypeOK
  <2>2. Cardinality(Popping') = Cardinality(Popping) + 1
    BY <2>1, OneMore, FiniteThreads
  <2>3. WaitingFull' = WaitingFull /\ Pushing' = Pushing /\ ~done
    BY <1>11 DEF WaitingFull, Pushing, NoLostWakeup
  <2> QED
    BY <1>0, <1>11, <2>2, <2>3 DEF NoLostWakeup
<1>12. CASE UNCHANGED vars
  BY <1>12 DEF vars, NoLostWakeup, WaitingFull, Pushing, WaitingEmpty, Popping
<1> QED
  BY <1>1, <1>2, <1>3, <1>4, <1>5, <1>6, <1>7, <1>8, <1>9, <1>10, <1>11, <1>12
     DEF Next, ProducerStep, ConsumerStep, SpuriousWakeup, Terminated

\* The invariant holds initially and every step keeps it.
THEOREM Invariance == Spec => []IInv
<1>1. Init => IInv
  <2> SUFFICES ASSUME Init PROVE IInv
    OBVIOUS
  <2>1. Cardinality(Producers) \in Nat
    BY ProducersAssumption, FS_CardinalityType
  <2>2. Working = Producers /\ WaitingFull = {} /\ WaitingEmpty = {}
    BY DEF Init, Working, WaitingFull, WaitingEmpty
  <2>3. TypeOK
    <3>1. q \in Seq(Items) /\ Len(q) <= Capacity /\ got \in Seq(Items)
      <4>1. Len(<<>>) <= Capacity
        BY CapacityAssumption
      <4> QED
        BY <4>1 DEF Init
    <3>2. ppc \in [Producers -> PPCs] /\ cpc \in [Consumers -> CPCs]
      BY DEF Init, PPCs, CPCs
    <3>3. made \in [Producers -> 0..MaxItems]
      BY MaxItemsAssumption DEF Init
    <3>4. active \in Int
      <4>1. active = Cardinality(Producers)
        BY DEF Init
      <4> QED
        BY <2>1, <4>1
    <3>5. done \in BOOLEAN
      BY DEF Init
    <3> QED
      BY <3>1, <3>2, <3>3, <3>4, <3>5 DEF TypeOK, PPCs, CPCs
  <2>4. ActiveCount /\ LastOneOut
    BY <2>2, ProducersAssumption DEF Init, ActiveCount, LastOneOut, Closing
  <2>5. InHand /\ StoppedLate /\ NoLostWakeup
    BY <2>2 DEF Init, InHand, StoppedLate, NoLostWakeup
  <2> QED
    BY <2>3, <2>4, <2>5 DEF IInv
<1>2. IInv /\ [Next]_vars => IInv'
  BY TypeStep, CountStep, StoppedStep, WakeupStep DEF IInv
<1> QED
  BY <1>1, <1>2, PTL DEF Spec

\* The variables keep their types, and the queue never exceeds its capacity.
THEOREM TypeCorrect == Spec => []TypeOK
BY Invariance, PTL DEF IInv

\* The early return of push() is never taken: the last producer out closes.
THEOREM NeverDropped == Spec => []NothingDropped
<1>1. IInv => NothingDropped
  BY DEF IInv, LastOneOut, Closing, Working, NothingDropped
<1> QED
  BY <1>1, Invariance, PTL

\* notify_one is enough in both directions.
THEOREM WakeupsSuffice == Spec => []NoLostWakeup
BY Invariance, PTL DEF IInv

\* With room for one item, a waiting thread always has another that can run.
THEOREM NeverStuck == ASSUME Capacity >= 1 PROVE Spec => []NoStuck
<1>1. ASSUME IInv PROVE NoStuck
  <2> SUFFICES ASSUME WaitingEmpty # {} \/ WaitingFull # {},
                      \A p \in Producers : ppc[p] \in {"waitFull", "done"},
                      \A c \in Consumers : cpc[c] \in {"waitEmpty", "done"}
               PROVE  FALSE
    <3>1. ppc \in [Producers -> PPCs] /\ cpc \in [Consumers -> CPCs]
      BY <1>1 DEF IInv, TypeOK, PPCs, CPCs
    <3> QED
      BY <3>1 DEF NoStuck, PPCs, CPCs
  <2>1. ~done
    BY <1>1 DEF IInv, NoLostWakeup
  <2>2. Popping = {} /\ Pushing = {}
    BY DEF Popping, Pushing
  <2>3. Cardinality(Popping) = 0 /\ Cardinality(Pushing) = 0
    BY <2>2, FS_EmptySet
  <2>4. Working # {}
    BY <1>1, <2>1 DEF IInv, LastOneOut, Closing
  <2>5. WaitingFull # {}
    BY <2>4 DEF Working, WaitingFull
  <2>6. Len(q) >= Capacity /\ Len(q) \in Nat
    BY <1>1, <2>3, <2>5, CapacityAssumption DEF IInv, NoLostWakeup, TypeOK
  <2>7. \A c \in Consumers : cpc[c] = "waitEmpty"
    BY <1>1, <2>1 DEF IInv, StoppedLate
  <2>8. WaitingEmpty # {}
    BY <2>7, ConsumersAssumption DEF WaitingEmpty
  <2>9. Len(q) <= 0
    BY <1>1, <2>3, <2>8 DEF IInv, NoLostWakeup
  <2> QED
    BY <2>6, <2>9, CapacityAssumption
<1> QED
  BY <1>1, Invariance, PTL

-----------------------------------------------------------------------------
\* What an append and a pop do to the items sent so far.
LEMMA SendAppends ==
  ASSUME NEW S, NEW s \in Seq(S), NEW t \in Seq(S), NEW x \in S
  PROVE  s \o Append(t, x) = Append(s \o t, x)
<1>1. s \o Append(t, x) \in Seq(S) /\ Append(s \o t, x) \in Seq(S)
  OBVIOUS
<1>2. Len(s \o Append(t, x)) = Len(Append(s \o t, x))
  OBVIOUS
<1>3. \A i \in 1..Len(s \o Append(t, x)) :
        (s \o Append(t, x))[i] = Append(s \o t, x)[i]
  OBVIOUS
<1> QED
  BY <1>1, <1>2, <1>3, SeqEqual

LEMMA PopMoves ==
  ASSUME NEW S, NEW s \in Seq(S), NEW t \in Seq(S), t # <<>>
  PROVE  Append(s, Head(t)) \o Tail(t) = s \o t
<1>1. Head(t) \in S /\ Tail(t) \in Seq(S) /\ Len(Tail(t)) = Len(t) - 1
  OBVIOUS
<1>2. Append(s, Head(t)) \o Tail(t) \in Seq(S) /\ s \o t \in Seq(S)
  BY <1>1
<1>3. Len(Append(s, Head(t)) \o Tail(t)) = Len(s \o t)
  BY <1>1
<1>4. \A i \in 1..Len(s \o t) : (Append(s, Head(t)) \o Tail(t))[i] = (s \o t)[i]
  BY <1>1
<1> QED
  BY <1>2, <1>3, <1>4, SeqEqual

\* Sent grows by the item of the push that was accepted, and by nothing else.
LEMMA SentStep ==
  ASSUME TypeOK, InHand, LastOneOut, [Next]_vars
  PROVE  /\ Sent \in Seq(Items)
         /\ \/ /\ Sent' = Sent
               /\ \E p \in Producers : Produce(p)
            \/ /\ Sent' = Sent /\ made' = made
               /\ \A p \in Producers :
                    ppc'[p] \in {"push", "waitFull"} <=> ppc[p] \in {"push", "waitFull"}
            \/ \E p \in Producers :
                 /\ Sent' = Append(Sent, Item(p)) /\ Item(p) \in Items /\ made' = made
                 /\ ppc[p] = "push" /\ ppc' = [ppc EXCEPT ![p] = "loop"]
<1>1. Sent \in Seq(Items)
  BY DEF Sent, TypeOK
<1> DEFINE Same == /\ Sent' = Sent /\ made' = made
                   /\ \A p \in Producers :
                        ppc'[p] \in {"push", "waitFull"} <=> ppc[p] \in {"push", "waitFull"}
<1>2. ASSUME NEW p \in Producers, Produce(p) PROVE Sent' = Sent
  BY <1>2 DEF Produce, Sent
<1>3. ASSUME NEW p \in Producers, PushBlocks(p) \/ Leave(p) PROVE Same
  BY <1>3 DEF PushBlocks, Leave, Sent, TypeOK
<1>4. ASSUME NEW p \in Producers, SetDone(p) PROVE Same
  BY <1>4 DEF SetDone, WaitingFull, Sent, TypeOK
<1>5. ASSUME NEW p \in Producers, PushReturns(p)
      PROVE  /\ Sent' = Append(Sent, Item(p)) /\ Item(p) \in Items /\ made' = made
             /\ ppc[p] = "push" /\ ppc' = [ppc EXCEPT ![p] = "loop"]
  <2>1. ~done
    BY <1>5 DEF PushReturns, LastOneOut, Closing, Working
  <2>2. Item(p) \in Items
    BY <1>5, MaxItemsAssumption DEF PushReturns, Item, Items, InHand, TypeOK
  <2>3. got' = got /\ q' = Append(q, Item(p))
    BY <1>5, <2>1 DEF PushReturns
  <2>4. got \o Append(q, Item(p)) = Append(got \o q, Item(p))
    BY <2>2, SendAppends DEF TypeOK
  <2> QED
    BY <1>5, <2>2, <2>3, <2>4 DEF PushReturns, Sent
<1>6. ASSUME NEW c \in Consumers, PopItem(c) PROVE Same
  <2>1. got' = Append(got, Head(q)) /\ q' = Tail(q) /\ q # <<>> /\ made' = made
    BY <1>6 DEF PopItem
  <2>2. Sent' = Sent
    BY <2>1, PopMoves DEF Sent, TypeOK
  <2> QED
    BY <1>6, <2>1, <2>2 DEF PopItem, NotifyNotFull, WaitingFull, TypeOK
<1>7. ASSUME NEW c \in Consumers, PopBlocks(c) \/ PopReturnsFalse(c) \/ Process(c) PROVE Same
  BY <1>7 DEF PopBlocks, PopReturnsFalse, Process, Sent
<1>8. CASE SpuriousWakeup
  <2>1. Same
    BY <1>8 DEF SpuriousWakeup, WaitingFull, Sent, TypeOK
  <2> QED
    BY <1>1, <2>1
<1>9. CASE UNCHANGED vars
  <2>1. Same
    BY <1>9 DEF vars, Sent
  <2> QED
    BY <1>1, <2>1
<1> QED
  BY <1>1, <1>2, <1>3, <1>4, <1>5, <1>6, <1>7, <1>8, <1>9
     DEF Next, ProducerStep, ConsumerStep, Terminated

\* Nothing is sent before it is made, and what a producer holds is not sent yet.
NotYetSent ==
  \A i \in DOMAIN Sent :
    LET p == Sent[i][1] IN
      IF ppc[p] \in {"push", "waitFull"} THEN Sent[i][2] < made[p] ELSE Sent[i][2] <= made[p]

LEMMA OnceStep ==
  ASSUME TypeOK, TypeOK', InHand, LastOneOut, NotYetSent, ExactlyOnceInOrder, [Next]_vars
  PROVE  NotYetSent' /\ ExactlyOnceInOrder'
<1>1. /\ Sent \in Seq(Items) /\ DOMAIN Sent = 1..Len(Sent) /\ Len(Sent) \in Nat
      /\ \A i \in DOMAIN Sent : Sent[i][1] \in Producers /\ Sent[i][2] \in Nat
  <2>1. Sent \in Seq(Items)
    BY SentStep
  <2>2. DOMAIN Sent = 1..Len(Sent) /\ Len(Sent) \in Nat /\ Sent \in [1..Len(Sent) -> Items]
    BY <2>1, LenProperties
  <2>3. \A x \in Items : x[1] \in Producers /\ x[2] \in Nat
    BY MaxItemsAssumption DEF Items
  <2> QED
    BY <2>1, <2>2, <2>3
<1>2. ASSUME NEW p \in Producers, Produce(p), Sent' = Sent
      PROVE  NotYetSent' /\ ExactlyOnceInOrder'
  <2>1. /\ made' = [made EXCEPT ![p] = @ + 1] /\ made[p] \in Nat
        /\ ppc[p] = "loop" /\ ppc' = [ppc EXCEPT ![p] = "push"]
        /\ ppc \in [Producers -> PPCs] /\ made \in [Producers -> Nat]
    BY <1>2, MaxItemsAssumption DEF Produce, TypeOK, PPCs
  <2>2. NotYetSent'
    BY <1>1, <1>2, <2>1 DEF NotYetSent
  <2>3. ASSUME NEW r \in Producers, NEW k \in 1..made'[r]
        PROVE  \/ k = made'[r] /\ ppc'[r] \in {"push", "waitFull"}
               \/ \E i \in DOMAIN Sent : Sent[i] = <<r, k>>
    <3>1. CASE r = p /\ k = made[p] + 1
      BY <2>1, <3>1
    <3>2. CASE ~(r = p /\ k = made[p] + 1)
      <4>1. k \in 1..made[r]
        BY <2>1, <2>3, <3>2
      <4>2. \/ k = made[r] /\ ppc[r] \in {"push", "waitFull"}
            \/ \E i \in DOMAIN Sent : Sent[i] = <<r, k>>
        BY <4>1 DEF ExactlyOnceInOrder
      <4> QED
        BY <2>1, <4>2
    <3> QED
      BY <3>1, <3>2
  <2> QED
    BY <1>2, <2>2, <2>3 DEF ExactlyOnceInOrder
<1>3. ASSUME Sent' = Sent, made' = made,
             \A p \in Producers :
               ppc'[p] \in {"push", "waitFull"} <=> ppc[p] \in {"push", "waitFull"}
      PROVE  NotYetSent' /\ ExactlyOnceInOrder'
  <2>1. NotYetSent'
    BY <1>1, <1>3 DEF NotYetSent
  <2>2. ExactlyOnceInOrder'
    BY <1>3 DEF ExactlyOnceInOrder
  <2> QED
    BY <2>1, <2>2
<1>4. ASSUME NEW p \in Producers, Sent' = Append(Sent, Item(p)), Item(p) \in Items,
             made' = made, ppc[p] = "push", ppc' = [ppc EXCEPT ![p] = "loop"]
      PROVE  NotYetSent' /\ ExactlyOnceInOrder'
  <2>1. /\ DOMAIN Sent' = 1..(Len(Sent) + 1)
        /\ Sent'[Len(Sent) + 1] = <<p, made[p]>>
        /\ \A i \in DOMAIN Sent : Sent'[i] = Sent[i] /\ i \in DOMAIN Sent'
    BY <1>1, <1>4 DEF Item
  <2>2. /\ ppc \in [Producers -> PPCs] /\ made \in [Producers -> Nat]
    BY MaxItemsAssumption DEF TypeOK, PPCs
  <2>3. NotYetSent'
    <3> SUFFICES ASSUME NEW i \in DOMAIN Sent'
                 PROVE  IF ppc'[Sent'[i][1]] \in {"push", "waitFull"}
                        THEN Sent'[i][2] < made[Sent'[i][1]]
                        ELSE Sent'[i][2] <= made[Sent'[i][1]]
      BY <1>4 DEF NotYetSent
    <3>1. CASE i = Len(Sent) + 1
      BY <1>4, <2>1, <2>2, <3>1
    <3>2. CASE i \in DOMAIN Sent
      <4>1. Sent'[i] = Sent[i] /\ Sent[i][1] \in Producers /\ Sent[i][2] \in Nat
        BY <1>1, <2>1, <3>2
      <4>2. IF ppc[Sent[i][1]] \in {"push", "waitFull"}
            THEN Sent[i][2] < made[Sent[i][1]] ELSE Sent[i][2] <= made[Sent[i][1]]
        BY <3>2 DEF NotYetSent
      <4> QED
        BY <1>4, <2>2, <4>1, <4>2
    <3> QED
      BY <1>1, <2>1, <3>1, <3>2
  <2>4. ASSUME NEW r \in Producers, NEW k \in 1..made[r]
        PROVE  \/ k = made[r] /\ ppc'[r] \in {"push", "waitFull"}
               \/ \E i \in DOMAIN Sent' : Sent'[i] = <<r, k>>
    <3>1. \/ k = made[r] /\ ppc[r] \in {"push", "waitFull"}
          \/ \E i \in DOMAIN Sent : Sent[i] = <<r, k>>
      BY <2>4 DEF ExactlyOnceInOrder
    <3>2. Len(Sent) + 1 \in DOMAIN Sent'
      BY <1>1, <2>1
    <3>3. CASE r = p /\ k = made[r]
      BY <2>1, <3>2, <3>3
    <3>4. CASE r # p /\ k = made[r] /\ ppc[r] \in {"push", "waitFull"}
      BY <1>4, <2>2, <3>4
    <3>5. CASE \E i \in DOMAIN Sent : Sent[i] = <<r, k>>
      BY <2>1, <3>5
    <3> QED
      BY <3>1, <3>3, <3>4, <3>5
  <2>5. ASSUME NEW i \in DOMAIN Sent', NEW j \in DOMAIN Sent',
               i < j, Sent'[i][1] = Sent'[j][1]
        PROVE  Sent'[i][2] < Sent'[j][2]
    <3>1. i \in DOMAIN Sent
      BY <1>1, <2>1, <2>5
    <3>2. CASE j \in DOMAIN Sent
      BY <2>1, <2>5, <3>1, <3>2 DEF ExactlyOnceInOrder
    <3>3. CASE j = Len(Sent) + 1
      <4>1. Sent[i][1] = p /\ Sent'[i] = Sent[i] /\ Sent'[j][2] = made[p]
        BY <2>1, <2>5, <3>1, <3>3
      <4>2. Sent[i][2] < made[p]
        BY <1>4, <3>1, <4>1 DEF NotYetSent
      <4> QED
        BY <4>1, <4>2
    <3> QED
      BY <1>1, <2>1, <3>2, <3>3
  <2> QED
    BY <1>4, <2>3, <2>4, <2>5 DEF ExactlyOnceInOrder
<1> QED
  BY SentStep, <1>2, <1>3, <1>4

\* Every item pushed leaves the queue exactly once and in its producer's order.
THEOREM DeliveredOnce == Spec => []ExactlyOnceInOrder
<1>1. Init => NotYetSent /\ ExactlyOnceInOrder
  <2> SUFFICES ASSUME Init PROVE NotYetSent /\ ExactlyOnceInOrder
    OBVIOUS
  <2>1. Sent = <<>>
    BY DEF Init, Sent
  <2>2. DOMAIN Sent = {}
    BY <2>1
  <2>3. \A p \in Producers : 1..made[p] = {}
    BY DEF Init
  <2> QED
    BY <2>2, <2>3 DEF NotYetSent, ExactlyOnceInOrder
<1>2. IInv /\ IInv' /\ NotYetSent /\ ExactlyOnceInOrder /\ [Next]_vars
        => NotYetSent' /\ ExactlyOnceInOrder'
  BY OnceStep DEF IInv
<1> QED
  BY <1>1, <1>2, Invariance, PTL DEF Spec

\* The monitor implements the abstract channel the stages are composed from.
THEOREM MonitorIsChannel == Spec => ImplementsChannel
<1>1. Init => Chan!ChanInit
  BY DEF Init, Chan!ChanInit
<1>2. ASSUME IInv, [Next]_vars PROVE [Chan!ChanNext]_<<q, done>>
  <2>1. ASSUME NEW p \in Producers, PushReturns(p) PROVE Chan!ChanNext
    <3>1. ~done
      BY <1>2, <2>1 DEF PushReturns, IInv, LastOneOut, Closing, Working
    <3>2. Item(p) \in Items
      BY <1>2, <2>1, MaxItemsAssumption DEF IInv, PushReturns, Item, Items, InHand, TypeOK
    <3>3. Chan!Send(Item(p))
      BY <2>1, <3>1 DEF PushReturns, Chan!Send, Chan!HasRoom
    <3> QED
      BY <3>2, <3>3 DEF Chan!ChanNext
  <2>2. ASSUME NEW p \in Producers, SetDone(p) PROVE Chan!ChanNext
    BY <2>2 DEF SetDone, Chan!ChanNext, Chan!Close
  <2>3. ASSUME NEW c \in Consumers, PopItem(c) PROVE Chan!ChanNext
    <3>1. q # <<>> /\ q \in Seq(Items) /\ q' = Tail(q) /\ UNCHANGED done
      BY <1>2, <2>3 DEF PopItem, IInv, TypeOK
    <3>2. Head(q) \in Items
      BY <3>1
    <3>3. Chan!Receive(Head(q))
      BY <3>1 DEF Chan!Receive
    <3> QED
      BY <3>2, <3>3 DEF Chan!ChanNext
  <2>4. ASSUME NEW p \in Producers, Produce(p) \/ PushBlocks(p) \/ Leave(p)
        PROVE  UNCHANGED <<q, done>>
    BY <2>4 DEF Produce, PushBlocks, Leave
  <2>5. ASSUME NEW c \in Consumers, PopBlocks(c) \/ PopReturnsFalse(c) \/ Process(c)
        PROVE  UNCHANGED <<q, done>>
    BY <2>5 DEF PopBlocks, PopReturnsFalse, Process
  <2>6. SpuriousWakeup \/ UNCHANGED vars => UNCHANGED <<q, done>>
    BY DEF SpuriousWakeup, vars
  <2> QED
    BY <1>2, <2>1, <2>2, <2>3, <2>4, <2>5, <2>6
       DEF Next, ProducerStep, ConsumerStep, Terminated
<1> QED
  BY <1>1, <1>2, Invariance, PTL DEF Spec, ImplementsChannel, Chan!ChanSpec, Chan!chanVars
=============================================================================
