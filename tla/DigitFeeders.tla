---------------------------- MODULE DigitFeeders ----------------------------
(***************************************************************************)
(* Stage 1 of run_parallel: the feeder threads (src/pipeline/Pipeline.cpp) *)
(* that claim chunks from the DigitDispatcher and push them, until the     *)
(* digits end or somebody creates pi_poetry.stop.                          *)
(*                                                                         *)
(* The test of the stop file is one step: stop_requested only goes from    *)
(* false to true, so the pair of loads around exists() is equivalent to a  *)
(* single test at the moment of the second load.  next() is two steps, the *)
(* fetch_add and the read: while one feeder waits for its digits, or for   *)
(* an exception, the others go on to the chunks behind.                    *)
(***************************************************************************)
EXTENDS Integers, Sequences, FiniteSets

CONSTANTS Feeders,       \* cfg.digit_threads threads
          NumChunks,     \* chunks that begin before the end of the digits (and
                         \* before max_digits): read_at returns 0 past them
          DigitQCapacity \* cfg.digit_q_capacity

VARIABLES digitQ, digitDone,   \* digit_q
          fpc,                 \* feeder -> "check", "next", "read", "push", "close", "done"
          hand,                \* feeder -> the seq_id it has claimed
          nextSeq,             \* next_seq_
          activeFeeders,       \* active_feeders
          stopRequested,       \* stop_requested
          stopFile,            \* pi_poetry.stop exists
          faults,              \* .fails: seq_ids whose pread fails, read_at returns 0;
                               \* .throws: seq_ids whose read throws (ApiDigitSource)
          late                 \* feeder -> chunks claimed with the stop file in place

DigitQ == INSTANCE Channel WITH buf <- digitQ, closed <- digitDone,
                                      Capacity <- DigitQCapacity, Items <- Nat

feederVars == <<fpc, hand, nextSeq, activeFeeders, stopRequested, stopFile, late>>

FeedersInit ==
  /\ fpc = [f \in Feeders |-> "check"]
  /\ hand = [f \in Feeders |-> 0]
  /\ nextSeq = 0
  /\ activeFeeders = Cardinality(Feeders)
  /\ stopRequested = FALSE
  /\ stopFile = FALSE
  /\ late = [f \in Feeders |-> 0]

\* Mutant of LeaveLoop: the count is compared with 0.
LeaveLoopOpen(f) ==
  /\ activeFeeders' = activeFeeders - 1
  /\ fpc' = [fpc EXCEPT ![f] = IF activeFeeders = 0 THEN "close" ELSE "done"]

\* A feeder leaves its loop: active_feeders.fetch_sub(1) == 1 for the last one.
LeaveLoop(f) ==
  /\ activeFeeders' = activeFeeders - 1
  /\ fpc' = [fpc EXCEPT ![f] = IF activeFeeders = 1 THEN "close" ELSE "done"]

\* Mutant of CheckStop: the test is made before the first chunk only.
CheckStopOnce(f) ==
  /\ fpc[f] = "check"
  /\ stopRequested' = (stopRequested \/ (stopFile /\ nextSeq = 0))
  /\ IF stopRequested'
     THEN LeaveLoop(f)
     ELSE fpc' = [fpc EXCEPT ![f] = "next"] /\ UNCHANGED activeFeeders
  /\ UNCHANGED <<digitQ, digitDone, hand, nextSeq, stopFile, late>>

CheckStop(f) ==
  /\ fpc[f] = "check"
  /\ stopRequested' = (stopRequested \/ stopFile)
  /\ IF stopRequested'
     THEN LeaveLoop(f)
     ELSE fpc' = [fpc EXCEPT ![f] = "next"] /\ UNCHANGED activeFeeders
  /\ UNCHANGED <<digitQ, digitDone, hand, nextSeq, stopFile, late>>

HasDigits(seq) == seq < NumChunks /\ seq \notin faults.fails

\* dispatcher.next(): the seq_id is claimed.
ClaimChunk(f) ==
  /\ fpc[f] = "next"
  /\ nextSeq' = nextSeq + 1
  /\ late' = IF stopFile THEN [late EXCEPT ![f] = @ + 1] ELSE late
  /\ hand' = [hand EXCEPT ![f] = nextSeq]
  /\ fpc' = [fpc EXCEPT ![f] = "read"]
  /\ UNCHANGED <<digitQ, digitDone, activeFeeders, stopRequested, stopFile>>

\* It returns a package, or nullopt when read_at returned 0.
ReadChunk(f) ==
  /\ fpc[f] = "read" /\ hand[f] \notin faults.throws
  /\ IF HasDigits(hand[f])
     THEN fpc' = [fpc EXCEPT ![f] = "push"] /\ UNCHANGED activeFeeders
     ELSE LeaveLoop(f)
  /\ UNCHANGED <<digitQ, digitDone, hand, nextSeq, stopRequested, stopFile, late>>

\* read_at throws in the feeder: nothing catches it there, std::terminate.
ReadThrows(f) == fpc[f] = "read" /\ hand[f] \in faults.throws

\* digit_q.push()
PushChunk(f) ==
  /\ fpc[f] = "push"
  /\ IF digitDone THEN DigitQ!Lose ELSE DigitQ!Send(hand[f])
  /\ fpc' = [fpc EXCEPT ![f] = "check"]
  /\ UNCHANGED <<hand, nextSeq, activeFeeders, stopRequested, stopFile, late>>

\* digit_q.set_done()
CloseDigitQ(f) ==
  /\ fpc[f] = "close"
  /\ DigitQ!Close
  /\ fpc' = [fpc EXCEPT ![f] = "done"]
  /\ UNCHANGED <<hand, nextSeq, activeFeeders, stopRequested, stopFile, late>>

FeederStep(f) ==
  CheckStop(f) \/ ClaimChunk(f) \/ ReadChunk(f) \/ PushChunk(f) \/ CloseDigitQ(f)

\* The operator creates the stop file, at any time.
CreateStopFile ==
  /\ ~stopFile
  /\ stopFile' = TRUE
  /\ UNCHANGED <<digitQ, digitDone, fpc, hand, nextSeq, activeFeeders, stopRequested, late>>

FeedersJoined == \A f \in Feeders : fpc[f] = "done"
=============================================================================
