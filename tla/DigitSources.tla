---------------------------- MODULE DigitSources ----------------------------
(***************************************************************************)
(* Where pi_poetry gets its digits from: a file that pi_download has       *)
(* written, or is writing, or the API itself, by feeder threads or by the  *)
(* one thread of the serial mode.                                          *)
(***************************************************************************)
EXTENDS DigitDownload, ApiReader

VARIABLE source   \* "file", "api": feeders call read_at; "serial": next_chunk on the API

vars == <<downloadVars, apiVars, source>>

Init ==
  /\ DownloadInit /\ ApiInit
  /\ source \in {"file", "api", "serial"}
  /\ source # "file" => ~exists

\* The download is left out of a run that reads from the API.
Download == source = "file" /\ DownloadStep /\ UNCHANGED <<apiVars, source>>

ReaderStep(t) ==
  \/ source = "file" /\ Pread(t, disk)
  \/ source # "file" /\ FetchStep(t)

\* The serial mode has one thread.  One thread is enough for a file as well: a pread
\* changes nothing that another one could see.
Alone(t) == \A u \in Threads \ {t} : reads[u] = 0

\* A FileDigitSource is made of a file that exists.
Ask(t) ==
  \/ source = "file" /\ exists /\ Alone(t) /\ ReadAt(t)
  \/ source = "api" /\ ReadAt(t)
  \/ source = "serial" /\ Alone(t) /\ NextChunk(t)

Restart ==
  /\ source = "serial" /\ \A t \in Threads : rpc[t] = "idle"
  /\ Reset

Quiet == /\ dpc = "idle" /\ (source = "file" => downloads = MaxDownloads)
         /\ \A t \in Threads : rpc[t] = "idle"

\* Nothing more is asked for.
Rest == Quiet /\ UNCHANGED vars

Next ==
  \/ Download
  \/ (\E t \in Threads : Ask(t) \/ ReaderStep(t)) /\ UNCHANGED <<downloadVars, source>>
  \/ Restart /\ UNCHANGED <<downloadVars, source>>
  \/ Rest

Spec == Init /\ [][Next]_vars

\* Threads run, and a request is answered or times out; nobody has to ask.
FairSpec ==
  Spec /\ \A t \in Threads : WF_vars(ReaderStep(t) /\ UNCHANGED <<downloadVars, source>>)
-----------------------------------------------------------------------------
TypeOK ==
  /\ disk \in Seq(Nat \cup {LineBreak}) /\ buf \in Seq(Nat) /\ (exists \/ disk = <<>>)
  /\ dpc \in {"idle", "get"} /\ (dpc = "idle" => buf = <<>>)
  /\ dpc = "get" => downloaded \in 0..Additional
  /\ \A t \in Threads :
       /\ rpc[t] \in {"idle", "send", "wait"} /\ attempt[t] \in 0..2
       /\ (rpc[t] = "idle") = (read[t] = NoRead)
       /\ rpc[t] # "idle" => Len(got[t]) < read[t].n
       /\ Len(wire[t]) = IF rpc[t] = "wait" THEN 1 ELSE 0

\* Retries, late answers, answers of another length and the other threads do not
\* show in what a read returns: from the API all of its digits, or an exception; from a
\* file digits of its position, but after an error or a short read only the first of them
\* or none (FileDigitSource.cpp:46).
Reader == INSTANCE DigitReader WITH
  endless <- source # "file", digits <- disk, position <- seqPos, asked <- read
ImplementsReader == Reader!ReaderSpec

\* Every read returns or throws, as long as the service does not answer without
\* digits for ever (ApiDigitSource.cpp:118).
EveryReadEnds == \A t \in Threads : rpc[t] # "idle" ~> rpc[t] = "idle"
=============================================================================
