----------------------------- MODULE StageRunner ----------------------------
(***************************************************************************)
(* One stage of run_parallel: the workers of a StageRunner                 *)
(* (include/pipeline/StageRunner.hpp) between two queues.  A worker pops a *)
(* package, processes it, pushes what it emits one by one, and leaves when *)
(* pop() returns false; the last to leave closes the output queue.         *)
(*                                                                         *)
(* The queues are Channels: BoundedQueue proves that is what they are.     *)
(* Processing touches nothing shared, so it is one step with the pop.      *)
(***************************************************************************)
EXTENDS Integers, Sequences, FiniteSets

CONSTANTS Workers,       \* the threads of this stage
          InCapacity,    \* capacity_ of in_q_
          OutCapacity,   \* capacity_ of out_q_
          Process        \* package -> what process() emits for it, in order

VARIABLES inBuf, inClosed,     \* in_q_
          outBuf, outClosed,   \* out_q_
          pc,                  \* worker -> "run", "close", "done"
          todo,                \* worker -> what it still has to emit
          active               \* active_

InQ  == INSTANCE Channel WITH buf <- inBuf, closed <- inClosed,
                                    Capacity <- InCapacity, Items <- DOMAIN Process
OutQ == INSTANCE Channel WITH buf <- outBuf, closed <- outClosed,
                                    Capacity <- OutCapacity, Items <- {}

StageInit ==
  /\ pc = [w \in Workers |-> "run"]
  /\ todo = [w \in Workers |-> <<>>]
  /\ active = Cardinality(Workers)

Idle(w) == pc[w] = "run" /\ todo[w] = <<>>

\* in_q_.pop(pkg) returned true; process(pkg) computes its emissions.
Claim(w) ==
  /\ Idle(w)
  /\ inBuf # <<>>
  /\ InQ!Receive(Head(inBuf))
  /\ todo' = [todo EXCEPT ![w] = Process[Head(inBuf)]]
  /\ UNCHANGED <<outBuf, outClosed, pc, active>>

\* emit(): out_q_.push(), which blocks on a full queue and drops on a closed one.
Emit(w) ==
  /\ todo[w] # <<>>
  /\ IF outClosed THEN OutQ!Lose ELSE OutQ!Send(Head(todo[w]))
  /\ todo' = [todo EXCEPT ![w] = Tail(@)]
  /\ UNCHANGED <<inBuf, inClosed, pc, active>>

\* Mutants of Leave: it leaves when the queue is empty for the moment; it
\* closes whatever the count is.
LeaveWhenEmpty(w) ==
  /\ Idle(w)
  /\ inBuf = <<>>
  /\ active' = active - 1
  /\ pc' = [pc EXCEPT ![w] = IF active = 1 THEN "close" ELSE "done"]
  /\ UNCHANGED <<inBuf, inClosed, outBuf, outClosed, todo>>
LeaveAndClose(w) ==
  /\ Idle(w)
  /\ InQ!Exhausted
  /\ active' = active - 1
  /\ pc' = [pc EXCEPT ![w] = "close"]
  /\ UNCHANGED <<inBuf, inClosed, outBuf, outClosed, todo>>

\* pop() returned false; active_.fetch_sub(1) tells the last one.
Leave(w) ==
  /\ Idle(w)
  /\ InQ!Exhausted
  /\ active' = active - 1
  /\ pc' = [pc EXCEPT ![w] = IF active = 1 THEN "close" ELSE "done"]
  /\ UNCHANGED <<inBuf, inClosed, outBuf, outClosed, todo>>

\* out_q_.set_done()
CloseOut(w) ==
  /\ pc[w] = "close"
  /\ OutQ!Close
  /\ pc' = [pc EXCEPT ![w] = "done"]
  /\ UNCHANGED <<inBuf, inClosed, todo, active>>

WorkerStep(w) == Claim(w) \/ Emit(w) \/ Leave(w) \/ CloseOut(w)

\* join() returns.
StageJoined == \A w \in Workers : pc[w] = "done"

\* No worker can still push when the queue is closed.
EmptyHanded == outClosed => \A w \in Workers : pc[w] = "done" /\ todo[w] = <<>>
=============================================================================
