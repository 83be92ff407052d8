------------------------------ MODULE Channel ------------------------------
(***************************************************************************)
(* What a BoundedQueue (include/pipeline/BoundedQueue.hpp) promises to the *)
(* threads around it: a bounded FIFO that can be closed.  No mutex, no     *)
(* condition variables, no waiting threads: those are in BoundedQueue,     *)
(* which implements this module.  The stages of the pipeline are composed  *)
(* from these four operations.                                             *)
(***************************************************************************)
EXTENDS Integers, Sequences

CONSTANT Capacity      \* capacity_
CONSTANT Items         \* what travels through the queue

VARIABLES buf,         \* q_
          closed       \* done_

chanVars == <<buf, closed>>

ChanInit == buf = <<>> /\ closed = FALSE

\* Mutant of HasRoom: a full queue takes one item more.
HasRoomLate == Len(buf) <= Capacity

\* The predicate of push().
HasRoom == Len(buf) < Capacity

\* push() on an open queue with room.
Send(item) ==
  /\ ~closed
  /\ HasRoom
  /\ buf' = Append(buf, item)
  /\ UNCHANGED closed

\* push() on a closed queue returns and the item is gone (the early return).
Lose ==
  /\ closed
  /\ UNCHANGED chanVars

\* pop() that returns true.
Receive(item) ==
  /\ buf # <<>>
  /\ item = Head(buf)
  /\ buf' = Tail(buf)
  /\ UNCHANGED closed

\* pop() would return false: closed and drained.
Exhausted == closed /\ buf = <<>>

\* set_done().
Close ==
  /\ closed' = TRUE
  /\ UNCHANGED buf

ChanNext == \/ \E item \in Items : Send(item) \/ Receive(item)
            \/ Close

ChanSpec == ChanInit /\ [][ChanNext]_chanVars
=============================================================================
