----------------------------- MODULE ApiReader ------------------------------
(***************************************************************************)
(* ApiDigitSource (src/src/digit_source/ApiDigitSource.cpp): a read is made *)
(* of requests of up to max_per_request digits, each tried three times.    *)
(*                                                                         *)
(* A thread has a connection of its own, thread_local, which it keeps from *)
(* request to request.  An answer that comes after the timeout is still on *)
(* its way on that connection.  The service answers a request on the       *)
(* connection it came by, in order, and with digits from the position that *)
(* was asked for, though perhaps too few or too many.                      *)
(*                                                                         *)
(* Digit k of pi is represented by its position k.                         *)
(***************************************************************************)
EXTENDS Integers, Sequences

CONSTANTS Threads,
          Offsets, Counts,  \* positions and lengths of the reads
          MaxPerRequest,    \* cfg_.max_per_request
          MaxReads,         \* bound on the reads of a thread
          MaxEmpty          \* bound on the answers without digits

ASSUME ApiAssumption ==
  /\ Offsets \subseteq Nat /\ Counts \subseteq Nat \ {0}
  /\ MaxPerRequest \in Nat \ {0} /\ MaxReads \in Nat /\ MaxEmpty \in Nat

VARIABLES rpc,       \* thread -> "idle", "send", "wait"
          read,      \* thread -> the read in progress, or NoRead
          got,       \* thread -> buffer[0 .. filled - 1]
          attempt,   \* thread -> attempt
          wire,      \* thread -> requests on its connection without an answer yet
          seqPos,    \* seq_pos_
          answer,    \* thread -> [threw, digits]: how its last read ended
          reads,     \* thread -> reads so far
          empties    \* answers without digits so far

apiVars == <<rpc, read, got, attempt, wire, seqPos, answer, reads, empties>>

NoRead == [op |-> "none", offset |-> 0, n |-> 0]

ApiInit ==
  /\ rpc = [t \in Threads |-> "idle"] /\ read = [t \in Threads |-> NoRead]
  /\ got = [t \in Threads |-> <<>>] /\ attempt = [t \in Threads |-> 0]
  /\ wire = [t \in Threads |-> <<>>] /\ seqPos = 0
  /\ answer = [t \in Threads |-> [threw |-> FALSE, digits |-> <<>>]]
  /\ reads = [t \in Threads |-> 0] /\ empties = 0
-----------------------------------------------------------------------------
StartRead(t, op, offset, n) ==
  /\ rpc[t] = "idle" /\ reads[t] < MaxReads
  /\ reads' = [reads EXCEPT ![t] = @ + 1]
  /\ read' = [read EXCEPT ![t] = [op |-> op, offset |-> offset, n |-> n]]
  /\ rpc' = [rpc EXCEPT ![t] = "send"]
  /\ UNCHANGED <<got, attempt, wire, seqPos, answer, empties>>

ReadAt(t) == \E offset \in Offsets, n \in Counts : StartRead(t, "read_at", offset, n)

\* next_chunk: read_at from seq_pos_, under seq_mutex_.
NextChunk(t) == \E n \in Counts : StartRead(t, "next_chunk", seqPos, n)

Reset == seqPos' = 0 /\ UNCHANGED <<rpc, read, got, attempt, wire, answer, reads, empties>>

\* The read is over; next_chunk moves on by what it got.
Return(t, digits) ==
  /\ answer' = [answer EXCEPT ![t] = [threw |-> FALSE, digits |-> digits]]
  /\ seqPos' = IF read[t].op = "next_chunk" THEN seqPos + Len(digits) ELSE seqPos
  /\ read' = [read EXCEPT ![t] = NoRead] /\ got' = [got EXCEPT ![t] = <<>>]
  /\ rpc' = [rpc EXCEPT ![t] = "idle"]

\* An exception leaves the read, and seq_pos_ where it was.
Throw(t) ==
  /\ answer' = [answer EXCEPT ![t] = [threw |-> TRUE, digits |-> <<>>]]
  /\ read' = [read EXCEPT ![t] = NoRead] /\ got' = [got EXCEPT ![t] = <<>>]
  /\ attempt' = [attempt EXCEPT ![t] = 0] /\ rpc' = [rpc EXCEPT ![t] = "idle"]
  /\ UNCHANGED seqPos

Missing(t) == read[t].n - Len(got[t])
Batch(t) == IF MaxPerRequest < Missing(t) THEN MaxPerRequest ELSE Missing(t)

\* cli->Get(query): the request.
Send(t) ==
  /\ rpc[t] = "send"
  /\ wire' = [wire EXCEPT ![t] =
                Append(@, [start |-> read[t].offset + Len(got[t]), count |-> Batch(t)])]
  /\ rpc' = [rpc EXCEPT ![t] = "wait"]
  /\ UNCHANGED <<read, got, attempt, seqPos, answer, reads, empties>>

AnswerArrives(t) ==
  /\ rpc[t] = "wait" /\ wire[t] # <<>>
  /\ wire' = [wire EXCEPT ![t] = Tail(@)]
  /\ UNCHANGED reads

\* Digits: they are taken up to the end of the read, and the loop goes on if that
\* is not reached.
GetDigits(t) ==
  /\ AnswerArrives(t)
  /\ \E m \in 0..(Head(wire[t]).count + 1) :
       LET taken == got[t] \o [i \in 1..(IF m < Missing(t) THEN m ELSE Missing(t)) |->
                                 Head(wire[t]).start + i] IN
       /\ m = 0 => empties < MaxEmpty
       /\ empties' = IF m = 0 THEN empties + 1 ELSE empties
       /\ attempt' = [attempt EXCEPT ![t] = 0]
       /\ IF Len(taken) < read[t].n
          THEN /\ got' = [got EXCEPT ![t] = taken]
               /\ rpc' = [rpc EXCEPT ![t] = "send"] /\ UNCHANGED <<answer, seqPos, read>>
          ELSE Return(t, taken)

\* Mutant of TryAgain: the attempts are not counted.
TryForEver(t) ==
  /\ rpc' = [rpc EXCEPT ![t] = "send"]
  /\ UNCHANGED <<attempt, read, got, seqPos, answer>>

\* `continue`: after the third attempt the read throws.
TryAgain(t) ==
  IF attempt[t] = 2
  THEN Throw(t)
  ELSE /\ attempt' = [attempt EXCEPT ![t] = @ + 1]
       /\ rpc' = [rpc EXCEPT ![t] = "send"]
       /\ UNCHANGED <<read, got, seqPos, answer>>

\* Another status than 200: the connection stays.
GetStatus(t) == AnswerArrives(t) /\ TryAgain(t) /\ UNCHANGED empties

\* A body that is no JSON or has no digits in it: no further attempt.
GetNonsense(t) == AnswerArrives(t) /\ Throw(t) /\ UNCHANGED empties

\* Mutant of GetNothing: the connection stays, and a late answer on it.
GetNothingKeep(t) ==
  /\ rpc[t] = "wait"
  /\ TryAgain(t)
  /\ UNCHANGED <<wire, reads, empties>>

\* No answer in time, or the connection is lost: the client is erased and the
\* next request makes a new one.
GetNothing(t) ==
  /\ rpc[t] = "wait"
  /\ wire' = [wire EXCEPT ![t] = <<>>]
  /\ TryAgain(t)
  /\ UNCHANGED <<reads, empties>>

FetchStep(t) == Send(t) \/ GetDigits(t) \/ GetStatus(t) \/ GetNonsense(t) \/ GetNothing(t)

\* FileDigitSource::read_at on a file with these bytes: one pread, which may read fewer
\* of them.  An error is no digits (got <= 0), and nothing is thrown.
Pread(t, bytes) ==
  /\ rpc[t] = "send"
  /\ LET last == read[t].offset + read[t].n
         there == SubSeq(bytes, read[t].offset + 1, IF last < Len(bytes) THEN last ELSE Len(bytes)) IN
       \E m \in 0..Len(there) : Return(t, SubSeq(there, 1, m))
  /\ UNCHANGED <<attempt, wire, reads, empties>>
=============================================================================
