-------------------------- MODULE SequentialOutput --------------------------
(***************************************************************************)
(* What run_parallel promises, whatever its threads do: results.json gets  *)
(* the packages of chunk 0, then those of chunk 1, and so on, whole chunks *)
(* at a time, and it is closed only after the last one that is written.    *)
(***************************************************************************)
EXTENDS Integers, Sequences

CONSTANTS Chunks,         \* the chunk ids, 0..n
          PackagesOf      \* chunk -> the sequence of its packages

VARIABLES out,            \* the packages in results.json
          next,           \* the chunk that is due
          status          \* "running", "finished", "crashed"

seqVars == <<out, next, status>>

SeqInit == out = <<>> /\ next = 0 /\ status = "running"

AppendChunk ==
  /\ status = "running"
  /\ next \in Chunks
  /\ out' = out \o PackagesOf[next]
  /\ next' = next + 1
  /\ UNCHANGED status

End ==
  /\ status = "running"
  /\ status' \in {"finished", "crashed"}
  /\ UNCHANGED <<out, next>>

SeqSpec == SeqInit /\ [][AppendChunk \/ End]_seqVars
=============================================================================
