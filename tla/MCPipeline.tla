----------------------------- MODULE MCPipeline -----------------------------
(* Instances of Pipeline for TLC. *)
EXTENDS Pipeline

\* Three chunks: two chains, none, one.
MCChains == [c \in 0..(NumChunks - 1) |-> CASE c = 0 -> 2 [] c = 1 -> 0 [] OTHER -> 1]

MCNoFaults == {[fails |-> {}, throws |-> {}, noOutput |-> FALSE]}
MCReadError == {[fails |-> {1}, throws |-> {}, noOutput |-> FALSE]}
\* A run may go well, fail to read a chunk, fail to open its output, or fail to
\* read a chunk while another read throws.
MCFaults == MCNoFaults \cup MCReadError \cup
  {[fails |-> {}, throws |-> {1}, noOutput |-> TRUE],
   [fails |-> {1}, throws |-> {2}, noOutput |-> TRUE]}
=============================================================================
