---------------------------- MODULE BoundedQueue ----------------------------
(***************************************************************************)
(* The monitor of include/pipeline/BoundedQueue.hpp with the threads that  *)
(* use it in run_parallel: producers push and, when they have no more, the *)
(* last of them calls set_done(); consumers pop until pop() returns false. *)
(*                                                                         *)
(* One action is one critical section of mu_.  A thread that finds its     *)
(* predicate false joins the wait set of a condition variable; notify_one  *)
(* moves one waiter of the implementation's choice back to the head of its *)
(* operation, where it takes the mutex and tests the predicate again.      *)
(***************************************************************************)
EXTENDS Integers, Sequences, FiniteSets

CONSTANTS Producers,   \* feeders, or the workers of the stage upstream
          Consumers,   \* the workers of the stage downstream, or the writer
          Capacity,    \* capacity_
          MaxItems     \* bound: items one producer makes

ASSUME ProducersAssumption == IsFiniteSet(Producers) /\ Producers # {}
ASSUME ConsumersAssumption == IsFiniteSet(Consumers) /\ Consumers # {}
ASSUME CapacityAssumption  == Capacity \in Nat
ASSUME MaxItemsAssumption  == MaxItems \in Nat

VARIABLES q,        \* q_
          done,     \* done_
          active,   \* active_ of the producing stage (active_feeders)
          ppc,      \* where each producer is
          cpc,      \* where each consumer is
          made,     \* how many items each producer has made
          got       \* every item popped so far, in the order of the pops

vars == <<q, done, active, ppc, cpc, made, got>>

Items == Producers \X (1..MaxItems)

WaitingFull  == {p \in Producers : ppc[p] = "waitFull"}    \* not_full_
WaitingEmpty == {c \in Consumers : cpc[c] = "waitEmpty"}   \* not_empty_
Pushing      == {p \in Producers : ppc[p] = "push"}
Popping      == {c \in Consumers : cpc[c] = "pop"}
Working      == {p \in Producers : ppc[p] \in {"loop", "push", "waitFull"}}

Item(p) == <<p, made[p]>>      \* the item p is pushing

TypeOK ==
  /\ q \in Seq(Items) /\ Len(q) <= Capacity
  /\ done \in BOOLEAN
  /\ active \in Int
  /\ ppc \in [Producers -> {"loop", "push", "waitFull", "close", "done"}]
  /\ cpc \in [Consumers -> {"pop", "waitEmpty", "busy", "done"}]
  /\ made \in [Producers -> 0..MaxItems]
  /\ got \in Seq(Items)

Init ==
  /\ q = <<>>
  /\ done = FALSE
  /\ active = Cardinality(Producers)
  /\ ppc = [p \in Producers |-> "loop"]
  /\ cpc = [c \in Consumers |-> "pop"]
  /\ made = [p \in Producers |-> 0]
  /\ got = <<>>
-----------------------------------------------------------------------------
(* Producers: the loop of a feeder or of StageRunner::worker_loop.         *)

Produce(p) ==
  /\ ppc[p] = "loop"
  /\ made[p] < MaxItems
  /\ made' = [made EXCEPT ![p] = @ + 1]
  /\ ppc' = [ppc EXCEPT ![p] = "push"]
  /\ UNCHANGED <<q, done, active, cpc, got>>

\* not_empty_.notify_one(): one waiter, if there is one.
NotifyNotEmpty ==
  \/ WaitingEmpty = {} /\ UNCHANGED cpc
  \/ \E c \in WaitingEmpty : cpc' = [cpc EXCEPT ![c] = "pop"]

\* Mutant of NotifyNotFull: the call is forgotten.
NoNotify == UNCHANGED ppc

\* not_full_.notify_one().
NotifyNotFull ==
  \/ WaitingFull = {} /\ UNCHANGED ppc
  \/ \E p \in WaitingFull : ppc' = [ppc EXCEPT ![p] = "push"]

PushBlocks(p) ==
  /\ ppc[p] = "push"
  /\ Len(q) >= Capacity /\ ~done
  /\ ppc' = [ppc EXCEPT ![p] = "waitFull"]
  /\ UNCHANGED <<q, done, active, cpc, made, got>>

\* Mutants of PushReturns: the predicate lets a full queue through; a stack
\* instead of a queue.
PushOvershoots(p) ==
  /\ ppc[p] = "push"
  /\ Len(q) <= Capacity \/ done
  /\ ppc' = [ppc EXCEPT ![p] = "loop"]
  /\ IF done THEN UNCHANGED <<q, cpc>>
             ELSE q' = Append(q, Item(p)) /\ NotifyNotEmpty
  /\ UNCHANGED <<done, active, made, got>>
PushOnTop(p) ==
  /\ ppc[p] = "push"
  /\ Len(q) < Capacity \/ done
  /\ ppc' = [ppc EXCEPT ![p] = "loop"]
  /\ IF done THEN UNCHANGED <<q, cpc>>
             ELSE q' = <<Item(p)>> \o q /\ NotifyNotEmpty
  /\ UNCHANGED <<done, active, made, got>>

\* Past the wait: `if (done_) return;` loses the item, otherwise it is queued.
PushReturns(p) ==
  /\ ppc[p] = "push"
  /\ Len(q) < Capacity \/ done
  /\ ppc' = [ppc EXCEPT ![p] = "loop"]
  /\ IF done THEN UNCHANGED <<q, cpc>>
             ELSE q' = Append(q, Item(p)) /\ NotifyNotEmpty
  /\ UNCHANGED <<done, active, made, got>>

\* Mutants of Leave: every thread that leaves closes; nobody does.
LeaveAndClose(p) ==
  /\ ppc[p] = "loop"
  /\ active' = active - 1
  /\ ppc' = [ppc EXCEPT ![p] = "close"]
  /\ UNCHANGED <<q, done, cpc, made, got>>
LeaveOpen(p) ==
  /\ ppc[p] = "loop"
  /\ active' = active - 1
  /\ ppc' = [ppc EXCEPT ![p] = IF active = 0 THEN "close" ELSE "done"]
  /\ UNCHANGED <<q, done, cpc, made, got>>

\* active_.fetch_sub(1): whoever reads 1 was the last and closes the queue.
Leave(p) ==
  /\ ppc[p] = "loop"
  /\ active' = active - 1
  /\ ppc' = [ppc EXCEPT ![p] = IF active = 1 THEN "close" ELSE "done"]
  /\ UNCHANGED <<q, done, cpc, made, got>>

\* Mutant of SetDone: the consumers are not notified.
SetDoneQuietly(p) ==
  /\ ppc[p] = "close"
  /\ done' = TRUE
  /\ ppc' = [r \in Producers |->
               IF r = p THEN "done" ELSE IF r \in WaitingFull THEN "push" ELSE ppc[r]]
  /\ UNCHANGED <<q, active, cpc, made, got>>

\* set_done(), with its two notify_all.
SetDone(p) ==
  /\ ppc[p] = "close"
  /\ done' = TRUE
  /\ ppc' = [r \in Producers |->
               IF r = p THEN "done" ELSE IF r \in WaitingFull THEN "push" ELSE ppc[r]]
  /\ cpc' = [c \in Consumers |-> IF c \in WaitingEmpty THEN "pop" ELSE cpc[c]]
  /\ UNCHANGED <<q, active, made, got>>
-----------------------------------------------------------------------------
(* Consumers: while (in_q_.pop(pkg)) ...                                   *)

PopBlocks(c) ==
  /\ cpc[c] = "pop"
  /\ q = <<>> /\ ~done
  /\ cpc' = [cpc EXCEPT ![c] = "waitEmpty"]
  /\ UNCHANGED <<q, done, active, ppc, made, got>>

\* Mutant of PopItem: front() without pop().
PopCopies(c) ==
  /\ cpc[c] = "pop"
  /\ q # <<>>
  /\ got' = Append(got, Head(q))
  /\ cpc' = [cpc EXCEPT ![c] = "busy"]
  /\ NotifyNotFull
  /\ UNCHANGED <<q, done, active, made>>

PopItem(c) ==
  /\ cpc[c] = "pop"
  /\ q # <<>>
  /\ got' = Append(got, Head(q))
  /\ q' = Tail(q)
  /\ cpc' = [cpc EXCEPT ![c] = "busy"]
  /\ NotifyNotFull
  /\ UNCHANGED <<done, active, made>>

PopReturnsFalse(c) ==
  /\ cpc[c] = "pop"
  /\ q = <<>> /\ done
  /\ cpc' = [cpc EXCEPT ![c] = "done"]
  /\ UNCHANGED <<q, done, active, ppc, made, got>>

Process(c) ==
  /\ cpc[c] = "busy"
  /\ cpc' = [cpc EXCEPT ![c] = "pop"]
  /\ UNCHANGED <<q, done, active, ppc, made, got>>

\* A condition variable may wake a waiter that nobody notified.
SpuriousWakeup ==
  \/ \E p \in WaitingFull :
       /\ ppc' = [ppc EXCEPT ![p] = "push"]
       /\ UNCHANGED <<q, done, active, cpc, made, got>>
  \/ \E c \in WaitingEmpty :
       /\ cpc' = [cpc EXCEPT ![c] = "pop"]
       /\ UNCHANGED <<q, done, active, ppc, made, got>>
-----------------------------------------------------------------------------
ProducerStep(p) == Produce(p) \/ PushBlocks(p) \/ PushReturns(p) \/ Leave(p) \/ SetDone(p)

ConsumerStep(c) == PopBlocks(c) \/ PopItem(c) \/ PopReturnsFalse(c) \/ Process(c)

AllFinished == /\ \A p \in Producers : ppc[p] = "done"
               /\ \A c \in Consumers : cpc[c] = "done"

\* The threads are joined: the run is over.
Terminated == AllFinished /\ UNCHANGED vars

Next == \/ \E p \in Producers : ProducerStep(p)
        \/ \E c \in Consumers : ConsumerStep(c)
        \/ SpuriousWakeup
        \/ Terminated

Spec == Init /\ [][Next]_vars

\* The scheduler runs every runnable thread; a waiting thread is not runnable,
\* and nothing obliges a condition variable to wake spuriously.
Fairness == /\ \A p \in Producers : WF_vars(ProducerStep(p))
            /\ \A c \in Consumers : WF_vars(ConsumerStep(c))

FairSpec == Spec /\ Fairness
-----------------------------------------------------------------------------
Sent == got \o q     \* every item accepted by the queue, oldest first

\* No push ever meets a closed queue (the early return of push() is dead code
\* in run_parallel): the thread that closes is the last one that could push.
NothingDropped == \A p \in Producers : ppc[p] \in {"push", "waitFull"} => ~done

\* Exactly once, in order: every item a producer has finished pushing is in the
\* queue or was popped, at one place only, after the items it made before it.
ExactlyOnceInOrder ==
  /\ \A p \in Producers : \A k \in 1..made[p] :
       \/ k = made[p] /\ ppc[p] \in {"push", "waitFull"}
       \/ \E i \in DOMAIN Sent : Sent[i] = <<p, k>>
  /\ \A i, j \in DOMAIN Sent :
       i < j /\ Sent[i][1] = Sent[j][1] => Sent[i][2] < Sent[j][2]

\* notify_one is enough.  While a consumer waits, every item in the queue has a
\* woken consumer of its own on the way; while a producer waits, so has every
\* free slot; and nobody waits on a closed queue.
NoLostWakeup ==
  /\ WaitingEmpty # {} => Len(q) <= Cardinality(Popping)
  /\ WaitingFull # {} => Capacity - Len(q) <= Cardinality(Pushing)
  /\ done => WaitingEmpty = {} /\ WaitingFull = {}

\* As long as a thread waits some other thread can run: the queue never leaves
\* everyone waiting on everyone.
NoStuck ==
  WaitingEmpty # {} \/ WaitingFull # {} =>
    \/ \E p \in Producers : ppc[p] \in {"loop", "push", "close"}
    \/ \E c \in Consumers : cpc[c] \in {"pop", "busy"}

\* The invariant the proofs induct on.  A producer that pushes holds an item; the
\* atomic counter counts the producers in their loop; the queue is closed, or
\* about to be, exactly when none is left; a consumer stops on a closed queue.
InHand      == \A p \in Producers : ppc[p] \in {"push", "waitFull"} => made[p] # 0
ActiveCount == active = Cardinality(Working)
Closing     == done \/ \E p \in Producers : ppc[p] = "close"
LastOneOut  == Closing <=> Working = {}
StoppedLate == (\E c \in Consumers : cpc[c] = "done") => done
IInv        == TypeOK /\ InHand /\ ActiveCount /\ LastOneOut /\ StoppedLate /\ NoLostWakeup

\* Every thread returns from its last queue operation, so the joins of
\* run_parallel return.
EveryoneFinishes == <>AllFinished

\* The monitor behaves as the abstract channel.
Chan == INSTANCE Channel WITH buf <- q, closed <- done
ImplementsChannel == Chan!ChanSpec
=============================================================================
