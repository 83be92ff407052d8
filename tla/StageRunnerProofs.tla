-------------------------- MODULE StageRunnerProofs -------------------------
(***************************************************************************)
(* Proofs about one stage, for any number of workers, any capacities and   *)
(* any processing.  Pipeline has three stages: PipelineProofs instantiates *)
(* this module for each of them.                                           *)
(***************************************************************************)
EXTENDS StageRunner, FiniteSetTheorems, SequenceTheorems, TLAPS

PCs == {"run", "close", "done"}

Running == {w \in Workers : pc[w] = "run"}

\* The types of a stage that turns packages of A into packages of B.
StageTypeOK(A, B) ==
  /\ inBuf \in Seq(A) /\ outBuf \in Seq(B) /\ Len(outBuf) <= OutCapacity
  /\ inClosed \in BOOLEAN /\ outClosed \in BOOLEAN
  /\ pc \in [Workers -> PCs]
  /\ todo \in [Workers -> Seq(B)]

\* The atomic counter counts the workers in their loop.
Counted == active = Cardinality(Running)

\* A worker leaves with empty hands, a queue that is closed and has nothing left.
LeftBehind == \A w \in Workers : pc[w] # "run" => todo[w] = <<>> /\ inClosed /\ inBuf = <<>>

\* One worker closes, and it is the last: the others are out by then.
OneCloses ==
  /\ \A w \in Workers : pc[w] = "close" => ~outClosed /\ \A v \in Workers \ {w} : pc[v] = "done"
  /\ outClosed => \A w \in Workers : pc[w] = "done"
  /\ Running = {} => outClosed \/ \E w \in Workers : pc[w] = "close"

StageInv == Counted /\ LeftBehind /\ OneCloses

\* Package x is somewhere in the sequence s; a worker has yet to emit y.
In(x, s) == \E i \in DOMAIN s : s[i] = x
Held(y) == \E w \in Workers : In(y, todo[w])
-----------------------------------------------------------------------------
(* Sequences as queues.                                                    *)

\* A push adds one package to a queue.
LEMMA InAppend ==
  ASSUME NEW S, NEW s \in Seq(S), NEW x \in S, NEW y
  PROVE  In(y, Append(s, x)) <=> In(y, s) \/ y = x
<1>1. /\ DOMAIN s = 1..Len(s) /\ DOMAIN Append(s, x) = 1..(Len(s) + 1) /\ Len(s) \in Nat
      /\ \A i \in 1..Len(s) : Append(s, x)[i] = s[i]
      /\ Append(s, x)[Len(s) + 1] = x
  OBVIOUS
<1> QED
  BY <1>1 DEF In

\* A pop takes one package from it.
LEMMA InTail ==
  ASSUME NEW S, NEW s \in Seq(S), s # <<>>, NEW y
  PROVE  In(y, s) <=> y = Head(s) \/ In(y, Tail(s))
<1>1. /\ DOMAIN s = 1..Len(s) /\ DOMAIN Tail(s) = 1..(Len(s) - 1) /\ Len(s) \in Nat /\ Len(s) >= 1
      /\ \A i \in 1..(Len(s) - 1) : Tail(s)[i] = s[i + 1]
      /\ Head(s) = s[1]
  OBVIOUS
<1>2. ASSUME In(y, s) PROVE y = Head(s) \/ In(y, Tail(s))
  <2>1. PICK i \in 1..Len(s) : s[i] = y
    BY <1>1, <1>2 DEF In
  <2>2. CASE i = 1
    BY <1>1, <2>1, <2>2
  <2>3. CASE i # 1
    <3>1. i - 1 \in 1..(Len(s) - 1) /\ (i - 1) + 1 = i
      BY <1>1, <2>3
    <3> QED
      BY <1>1, <2>1, <3>1 DEF In
  <2> QED
    BY <2>2, <2>3
<1>3. ASSUME In(y, Tail(s)) PROVE In(y, s)
  <2>1. PICK i \in 1..(Len(s) - 1) : s[i + 1] = y
    BY <1>1, <1>3 DEF In
  <2>2. i + 1 \in 1..Len(s)
    BY <1>1
  <2> QED
    BY <1>1, <2>1, <2>2 DEF In
<1>4. y = Head(s) => In(y, s)
  <2>1. 1 \in DOMAIN s
    BY <1>1
  <2> QED
    BY <1>1, <2>1 DEF In
<1> QED
  BY <1>2, <1>3, <1>4

\* An empty queue holds nothing.
LEMMA InEmpty == \A y : ~In(y, <<>>)
BY DEF In
-----------------------------------------------------------------------------
(* One step of one worker.                                                 *)

\* A worker keeps the types of its queues, and never fills its input queue.
LEMMA TypeStep ==
  ASSUME NEW A, NEW B, \A x \in A : Process[x] \in Seq(B), OutCapacity \in Nat,
         StageTypeOK(A, B), NEW w \in Workers, WorkerStep(w)
  PROVE  StageTypeOK(A, B)' /\ Len(inBuf') <= Len(inBuf)
<1>0. inBuf \in Seq(A) /\ outBuf \in Seq(B) /\ todo[w] \in Seq(B) /\ Len(inBuf) \in Nat
  BY DEF StageTypeOK
<1>1. CASE Claim(w)
  <2>1. Head(inBuf) \in A /\ Tail(inBuf) \in Seq(A) /\ Len(Tail(inBuf)) <= Len(inBuf)
    BY <1>0, <1>1 DEF Claim
  <2> QED
    BY <1>1, <2>1 DEF Claim, InQ!Receive, StageTypeOK
<1>2. CASE Emit(w)
  <2>1. Head(todo[w]) \in B /\ Tail(todo[w]) \in Seq(B)
    BY <1>0, <1>2 DEF Emit
  <2>2. outBuf' \in Seq(B) /\ Len(outBuf') <= OutCapacity /\ outClosed' = outClosed
    <3>1. CASE outClosed
      BY <1>2, <3>1 DEF Emit, OutQ!Lose, OutQ!chanVars, StageTypeOK
    <3>2. CASE ~outClosed
      <4>1. outBuf' = Append(outBuf, Head(todo[w])) /\ Len(outBuf) < OutCapacity
            /\ outClosed' = outClosed
        BY <1>2, <3>2 DEF Emit, OutQ!Send, OutQ!HasRoom
      <4> QED
        BY <1>0, <2>1, <4>1
    <3> QED
      BY <3>1, <3>2
  <2> QED
    BY <1>0, <1>2, <2>1, <2>2 DEF Emit, StageTypeOK
<1>3. CASE Leave(w)
  BY <1>0, <1>3 DEF Leave, StageTypeOK, PCs
<1>4. CASE CloseOut(w)
  BY <1>0, <1>4 DEF CloseOut, OutQ!Close, StageTypeOK, PCs
<1> QED
  BY <1>1, <1>2, <1>3, <1>4 DEF WorkerStep

\* What the stages around see: packages are taken from the front of the queue
\* before, and the queue behind, once closed, stays as it is.
LEMMA Interface ==
  ASSUME NEW w \in Workers, WorkerStep(w)
  PROVE  /\ inClosed' = inClosed
         /\ inBuf' = inBuf \/ (inBuf # <<>> /\ inBuf' = Tail(inBuf))
         /\ outClosed => outClosed' /\ outBuf' = outBuf
BY DEF WorkerStep, Claim, Emit, Leave, CloseOut, InQ!Receive, OutQ!Send, OutQ!Lose, OutQ!Close,
       OutQ!chanVars

\* A stage starts with all of its workers in the loop.
LEMMA StageStart ==
  ASSUME IsFiniteSet(Workers), Workers # {}, StageInit, ~outClosed
  PROVE  StageInv
<1>1. Running = Workers
  BY DEF StageInit, Running
<1> QED
  BY <1>1 DEF StageInit, StageInv, Counted, LeftBehind, OneCloses

\* The counter finds the last worker, and only the last one closes.
LEMMA StageStep ==
  ASSUME IsFiniteSet(Workers), NEW A, NEW B, StageTypeOK(A, B), StageInv,
         NEW w \in Workers, WorkerStep(w)
  PROVE  StageInv'
<1>0. IsFiniteSet(Running) /\ Cardinality(Running) \in Nat
  <2>1. Running \in SUBSET Workers
    BY DEF Running
  <2> QED
    BY <2>1, FS_Subset, FS_CardinalityType
<1>1. CASE Claim(w)
  <2>1. pc' = pc /\ active' = active /\ outClosed' = outClosed /\ pc[w] = "run"
        /\ inClosed' = inClosed /\ \A v \in Workers : v # w => todo'[v] = todo[v]
    BY <1>1 DEF Claim, Idle, InQ!Receive, StageTypeOK
  <2>2. \A v \in Workers : pc[v] = "run"
    BY <1>1 DEF Claim, StageInv, LeftBehind
  <2> QED
    BY <2>1, <2>2 DEF StageInv, Counted, LeftBehind, OneCloses, Running
<1>2. CASE Emit(w)
  <2>1. pc[w] = "run" /\ ~outClosed
    BY <1>2 DEF Emit, StageInv, LeftBehind, OneCloses
  <2>2. pc' = pc /\ active' = active /\ outClosed' = outClosed /\ UNCHANGED <<inBuf, inClosed>>
        /\ \A v \in Workers : v # w => todo'[v] = todo[v]
    BY <1>2, <2>1 DEF Emit, OutQ!Send, StageTypeOK
  <2> QED
    BY <2>1, <2>2 DEF StageInv, Counted, LeftBehind, OneCloses, Running
<1>3. CASE Leave(w)
  <2>1. /\ w \in Running /\ todo[w] = <<>> /\ inClosed /\ inBuf = <<>> /\ active' = active - 1
        /\ UNCHANGED <<inBuf, inClosed, outClosed, todo>>
    BY <1>3 DEF Leave, Idle, InQ!Exhausted, Running
  <2>2. pc' = [pc EXCEPT ![w] = IF active = 1 THEN "close" ELSE "done"] /\ pc \in [Workers -> PCs]
    BY <1>3 DEF Leave, StageTypeOK
  <2>3. Running' = Running \ {w}
    BY <2>1, <2>2 DEF Running
  <2>4. Cardinality(Running') = Cardinality(Running) - 1 /\ IsFiniteSet(Running')
    BY <1>0, <2>1, <2>3, FS_RemoveElement
  <2>5. Running' = {} <=> active = 1
    BY <1>0, <2>4, FS_EmptySet DEF StageInv, Counted
  <2>6. ~outClosed /\ \A v \in Workers : pc[v] # "close"
    BY <2>1 DEF StageInv, OneCloses, Running
  <2>7. Counted' /\ LeftBehind'
    BY <2>1, <2>2, <2>4 DEF StageInv, Counted, LeftBehind
  <2>8. OneCloses'
    BY <2>1, <2>2, <2>5, <2>6 DEF OneCloses, Running, PCs
  <2> QED
    BY <2>7, <2>8 DEF StageInv
<1>4. CASE CloseOut(w)
  <2>1. /\ pc[w] = "close" /\ outClosed' = TRUE /\ UNCHANGED <<inBuf, inClosed, todo, active>>
        /\ pc' = [pc EXCEPT ![w] = "done"] /\ pc \in [Workers -> PCs]
    BY <1>4 DEF CloseOut, OutQ!Close, StageTypeOK
  <2>2. \A v \in Workers : pc'[v] = "done"
    BY <2>1 DEF StageInv, OneCloses
  <2>3. Running' = Running
    BY <2>1, <2>2 DEF Running, StageInv, OneCloses
  <2> QED
    BY <2>1, <2>2, <2>3 DEF StageInv, Counted, LeftBehind, OneCloses
<1> QED
  BY <1>1, <1>2, <1>3, <1>4 DEF WorkerStep

\* What the other threads do to the queues of the stage leaves its invariant alone.
LEMMA StageUndisturbed ==
  ASSUME StageInv, UNCHANGED <<pc, todo, active, outClosed>>,
         inClosed => inClosed' /\ (inBuf = <<>> => inBuf' = <<>>)
  PROVE  StageInv'
BY DEF StageInv, Counted, LeftBehind, OneCloses, Running

\* The last worker to leave closes the queue, and nobody can push after that.
LEMMA StageProperties ==
  ASSUME StageInv
  PROVE  /\ EmptyHanded
         /\ StageJoined => outClosed /\ \A y : ~Held(y)
         /\ StageJoined /\ Workers # {} => inClosed /\ inBuf = <<>>
BY InEmpty DEF StageInv, LeftBehind, OneCloses, Running, EmptyHanded, StageJoined, Held

\* Nothing is lost and nothing invented: a package leaves the queue for the hands of
\* a worker, as what is made of it, and these for the queue behind.
LEMMA Flow ==
  ASSUME NEW A, NEW B, \A x \in A : Process[x] \in Seq(B),
         StageTypeOK(A, B), StageInv, NEW w \in Workers, WorkerStep(w)
  PROVE  /\ \A x : In(x, inBuf) =>
                     In(x, inBuf)' \/ \A i \in DOMAIN Process[x] : Held(Process[x][i])'
         /\ \A y : Held(y) => Held(y)' \/ In(y, outBuf)'
         /\ \A y : In(y, outBuf) => In(y, outBuf)'
         /\ \A x : In(x, inBuf)' => In(x, inBuf)
         /\ \A y : Held(y)' => Held(y) \/ \E x : In(x, inBuf) /\ In(y, Process[x])
         /\ \A y : In(y, outBuf)' => In(y, outBuf) \/ Held(y)
<1>0. inBuf \in Seq(A) /\ outBuf \in Seq(B) /\ todo \in [Workers -> Seq(B)] /\ todo[w] \in Seq(B)
  BY DEF StageTypeOK
<1>1. CASE Claim(w)
  <2>1. /\ inBuf # <<>> /\ inBuf' = Tail(inBuf) /\ outBuf' = outBuf /\ todo[w] = <<>>
        /\ todo' = [todo EXCEPT ![w] = Process[Head(inBuf)]]
    BY <1>1 DEF Claim, Idle, InQ!Receive
  <2>2. \A x : In(x, inBuf) <=> x = Head(inBuf) \/ In(x, inBuf')
    BY <1>0, <2>1, InTail
  <2>3. todo'[w] = Process[Head(inBuf)] /\ \A v \in Workers \ {w} : todo'[v] = todo[v]
    BY <1>0, <2>1
  <2>4. \A y : Held(y)' <=> In(y, Process[Head(inBuf)]) \/ \E v \in Workers \ {w} : In(y, todo[v])
    BY <2>3 DEF Held
  <2>5. \A y : Held(y) <=> \E v \in Workers \ {w} : In(y, todo[v])
    BY <2>1, InEmpty DEF Held
  <2>6. \A x : x = Head(inBuf) => \A i \in DOMAIN Process[x] : Held(Process[x][i])'
    <3> SUFFICES ASSUME NEW x, x = Head(inBuf), NEW i \in DOMAIN Process[x]
                 PROVE  Held(Process[x][i])'
      OBVIOUS
    <3>1. In(Process[x][i], Process[x])
      BY DEF In
    <3> QED
      BY <2>4, <3>1
  <2>7. In(Head(inBuf), inBuf)
    BY <2>2
  <2>8. \A x : In(x, inBuf)' <=> In(x, inBuf')
    OBVIOUS
  <2>9. \A y : In(y, outBuf)' <=> In(y, outBuf)
    BY <2>1
  <2> QED
    BY <2>2, <2>4, <2>5, <2>6, <2>7, <2>8, <2>9
<1>2. CASE Emit(w)
  <2>1. ~outClosed
    BY <1>2 DEF Emit, StageInv, LeftBehind, OneCloses
  <2>2. /\ inBuf' = inBuf /\ outBuf' = Append(outBuf, Head(todo[w])) /\ todo[w] # <<>>
        /\ todo' = [todo EXCEPT ![w] = Tail(@)] /\ Head(todo[w]) \in B
    BY <1>0, <1>2, <2>1 DEF Emit, OutQ!Send
  <2>3. \A y : In(y, todo[w]) <=> y = Head(todo[w]) \/ In(y, todo'[w])
    BY <1>0, <2>2, InTail
  <2>4. \A y : In(y, outBuf') <=> In(y, outBuf) \/ y = Head(todo[w])
    BY <1>0, <2>2, InAppend
  <2>5. \A v \in Workers \ {w} : todo'[v] = todo[v]
    BY <1>0, <2>2
  <2>6. \A y : Held(y) <=> Held(y)' \/ y = Head(todo[w])
    BY <2>3, <2>5 DEF Held
  <2> QED
    BY <2>2, <2>4, <2>6
<1>3. CASE Leave(w) \/ CloseOut(w)
  BY <1>3 DEF Leave, CloseOut, OutQ!Close, Held
<1> QED
  BY <1>1, <1>2, <1>3 DEF WorkerStep
=============================================================================
