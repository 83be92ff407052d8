---------------------------- MODULE DigitReader -----------------------------
(***************************************************************************)
(* What a reader of digits may rely on: a read returns digits from its      *)
(* position on, as many as asked for or, from a file, fewer, or it throws; *)
(* a thread waits for one read at a time.  next_chunk continues where the  *)
(* last one that returned left off.                                        *)
(*                                                                         *)
(* DigitSource.hpp says of next_chunk that there are fewer only at the end *)
(* of the stream, and of read_at only that it returns the actual count.    *)
(* read_at of a file gives fewer before the end, too, even none: after a   *)
(* read error or a short read.                                             *)
(***************************************************************************)
EXTENDS Integers, Sequences

CONSTANT Threads

VARIABLES endless,    \* the source has every digit, digit k at position k
          digits,     \* otherwise, those it has
          position,   \* where next_chunk goes on
          asked,      \* thread -> its read [op, offset, n], or NoRead
          answer      \* thread -> [threw, digits]: how its last read ended

NoRead == [op |-> "none", offset |-> 0, n |-> 0]

At(offset, n) ==
  IF endless
  THEN [i \in 1..n |-> offset + i]
  ELSE SubSeq(digits, offset + 1, IF offset + n < Len(digits) THEN offset + n ELSE Len(digits))

ReaderInit ==
  /\ position = 0
  /\ asked = [t \in Threads |-> NoRead]
  /\ answer = [t \in Threads |-> [threw |-> FALSE, digits |-> <<>>]]

Reads == [op : {"read_at", "next_chunk"}, offset : Nat, n : Nat \ {0}]

Ask(t) ==
  /\ asked[t] = NoRead
  /\ asked'[t] \in Reads
  /\ asked'[t].op = "next_chunk" => asked'[t].offset = position
  /\ asked' = [asked EXCEPT ![t] = asked'[t]]
  /\ UNCHANGED <<endless, digits, position, answer>>

Answer(t) ==
  /\ asked[t] # NoRead
  /\ LET there == At(asked[t].offset, asked[t].n) IN
       \E m \in 0..Len(there) :
         /\ endless => m = asked[t].n
         /\ answer' = [answer EXCEPT ![t] = [threw |-> FALSE, digits |-> SubSeq(there, 1, m)]]
         /\ position' = IF asked[t].op = "next_chunk" THEN position + m ELSE position
  /\ asked' = [asked EXCEPT ![t] = NoRead]
  /\ UNCHANGED <<endless, digits>>

Throw(t) ==
  /\ asked[t] # NoRead
  /\ answer' = [answer EXCEPT ![t] = [threw |-> TRUE, digits |-> <<>>]]
  /\ asked' = [asked EXCEPT ![t] = NoRead]
  /\ UNCHANGED <<endless, digits, position>>

Reset ==
  /\ position' = 0
  /\ UNCHANGED <<endless, digits, asked, answer>>

\* The file of digits is written while it is read.
Rewrite == ~endless /\ digits' # digits /\ UNCHANGED <<endless, position, asked, answer>>

ReaderNext == (\E t \in Threads : Ask(t) \/ Answer(t) \/ Throw(t)) \/ Reset \/ Rewrite

ReaderSpec == ReaderInit /\ [][ReaderNext]_<<endless, digits, position, asked, answer>>
=============================================================================
