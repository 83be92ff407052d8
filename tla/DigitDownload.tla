--------------------------- MODULE DigitDownload ----------------------------
(***************************************************************************)
(* pi_download (src/src/download_pi.cpp): digits of pi are requested chunk *)
(* by chunk and written to a file, afresh (--output) or behind what the    *)
(* file holds (--file).  A download may fail, meet a full disk or be       *)
(* killed, and be started again.                                           *)
(*                                                                         *)
(* Digit k of pi is represented by its position k, so a file is as it      *)
(* should be when its k-th byte is k.  What the program has written is in  *)
(* the buffer of its ofstream until it is on disk, and a kill loses it.    *)
(***************************************************************************)
EXTENDS Integers, Sequences

CONSTANTS Totals,        \* values of num_digits
          ChunkLimit,    \* kChunkSize
          InitialFiles,  \* contents of the file before the first download
          LineBreak,     \* a byte that is white space: an editor leaves one
          MaxDownloads   \* bound on the invocations of pi_download

ASSUME DownloadAssumption ==
  /\ Totals \subseteq Nat \ {0} /\ ChunkLimit \in Nat \ {0} /\ MaxDownloads \in Nat
  /\ LineBreak \notin Nat

VARIABLES exists,        \* the file exists
          disk,          \* its bytes
          buf,           \* bytes in the buffer of `out`
          dpc,           \* "idle": no download runs; "get": the loop of download_pi
          numDigits,     \* args.num_digits
          startOffset,   \* start_offset
          downloaded,    \* downloaded
          downloads,     \* invocations so far
          outcome,       \* of the last one: "none", "ok", "failed", "killed"
          shifted,       \* history: a response had not the number of digits asked for
          unflushed      \* history: out.flush() failed

downloadVars == <<exists, disk, buf, dpc, numDigits, startOffset, downloaded, downloads,
                  outcome, shifted, unflushed>>

\* The n digits behind the first `from` ones.
Digits(from, n) == [i \in 1..n |-> from + i]

\* A file that a download may find: digits from the first one on, perhaps with a
\* line break at the end.
InPlace(f) == \A k \in DOMAIN f : f[k] = k \/ (k = Len(f) /\ f[k] = LineBreak)

ASSUME InitialFilesAssumption ==
  \A f \in InitialFiles : f \in Seq(Nat \cup {LineBreak}) /\ InPlace(f)

DownloadInit ==
  /\ exists \in BOOLEAN
  /\ disk \in IF exists THEN InitialFiles ELSE {<<>>}
  /\ buf = <<>> /\ dpc = "idle" /\ numDigits = 0 /\ startOffset = 0 /\ downloaded = 0
  /\ downloads = 0 /\ outcome = "none" /\ shifted = FALSE /\ unflushed = FALSE
-----------------------------------------------------------------------------
\* get_existing_digit_count does not take a file that ends in white space.
EndsInSpace == disk # <<>> /\ disk[Len(disk)] = LineBreak

\* The loop of download_pi is entered with the file open at the end of its content.
Begin(n, content, offset) ==
  /\ exists' = TRUE /\ disk' = content
  /\ numDigits' = n /\ startOffset' = offset /\ downloaded' = 0
  /\ dpc' = "get" /\ outcome' = "none" /\ unflushed' = FALSE
  /\ UNCHANGED buf

Invoked == dpc = "idle" /\ downloads < MaxDownloads /\ downloads' = downloads + 1

\* Mutant of Resume: a file that ends in a line break is taken.
ResumeAnyFile(n) ==
  /\ Invoked
  /\ exists /\ Len(disk) < n
  /\ Begin(n, disk, Len(disk))
  /\ UNCHANGED shifted

\* Mutant of Resume: the file is opened without std::ios::app.
ResumeTruncates(n) ==
  /\ Invoked
  /\ exists /\ ~EndsInSpace /\ Len(disk) < n
  /\ Begin(n, <<>>, Len(disk))
  /\ UNCHANGED shifted

\* --file: the length of the file is the number of its digits.
Resume(n) ==
  /\ Invoked
  /\ exists /\ ~EndsInSpace /\ Len(disk) < n
  /\ Begin(n, disk, Len(disk))
  /\ UNCHANGED shifted

\* --output: the file is created or truncated.
Fresh(n) ==
  /\ Invoked
  /\ Begin(n, <<>>, 0)
  /\ shifted' = FALSE

\* main returns 1 before the loop: there is no file to resume or it holds enough,
\* or the file does not open.
Refuse ==
  /\ Invoked
  /\ outcome' = "failed"
  /\ UNCHANGED <<exists, disk, buf, dpc, numDigits, startOffset, downloaded, shifted, unflushed>>

Additional == numDigits - startOffset

\* Mutant of Chunk: the last request is not cut to what is missing.
ChunkWhole == ChunkLimit

Chunk == IF ChunkLimit < Additional - downloaded THEN ChunkLimit ELSE Additional - downloaded

\* A response with m digits: `downloaded` grows by the number asked for.
GetContent(m) ==
  /\ dpc = "get" /\ downloaded < Additional
  /\ buf' = buf \o Digits(startOffset + downloaded, m)
  /\ downloaded' = downloaded + Chunk
  /\ shifted' = (shifted \/ m # Chunk)
  /\ UNCHANGED <<exists, disk, dpc, numDigits, startOffset, downloads, outcome, unflushed>>

\* The first k bytes of the buffer reach the disk.
Write(k) ==
  /\ disk' = disk \o SubSeq(buf, 1, k)
  /\ buf' = SubSeq(buf, k + 1, Len(buf))

\* The buffer of `out` fills up in the middle of the download.
Spill(k) ==
  /\ dpc = "get"
  /\ Write(k)
  /\ UNCHANGED <<exists, dpc, numDigits, startOffset, downloaded, downloads, outcome,
                 shifted, unflushed>>

\* The process ends, and the first k bytes of the buffer have reached the disk.
Exit(result, k) ==
  /\ dpc' = "idle" /\ outcome' = result
  /\ disk' = disk \o SubSeq(buf, 1, k) /\ buf' = <<>>
  /\ startOffset' = 0 /\ downloaded' = 0
  /\ UNCHANGED <<exists, numDigits, downloads, shifted>>

\* No response, a bad one, or a write that fails: the destructor of `out` flushes
\* what the disk takes.
DownloadFails(k) == dpc = "get" /\ Exit("failed", k) /\ UNCHANGED unflushed

\* The loop is over: out.flush(), whose result is not looked at.
DownloadEnds(k) ==
  /\ dpc = "get" /\ downloaded >= Additional
  /\ Exit("ok", k)
  /\ unflushed' = (k < Len(buf))

Kill == dpc = "get" /\ Exit("killed", 0) /\ UNCHANGED unflushed

DownloadStep ==
  \/ \E n \in Totals : Resume(n) \/ Fresh(n)
  \/ Refuse
  \/ \E m \in 0..(Chunk + 1) : GetContent(m)
  \/ \E k \in 1..Len(buf) : Spill(k)
  \/ \E k \in 0..Len(buf) : DownloadFails(k) \/ DownloadEnds(k)
  \/ Kill

DownloadSpec == DownloadInit /\ [][DownloadStep]_downloadVars
-----------------------------------------------------------------------------
\* Every byte is in its place through failures, kills and resumptions, and a
\* download that returns 0 has left all the digits asked for (the help text,
\* download_pi.cpp:33, and README.md:231); except after a response of another
\* length than asked for, and a flush that failed unseen.
FileInPlace ==
  ~shifted => /\ InPlace(disk)
              /\ outcome = "ok" /\ ~unflushed => disk = Digits(0, numDigits)

\* pi_download --file never takes away from the file: whoever reads it at the same
\* time keeps what it has seen (README.md:231, "retains all digits written so far").
\* Only a fresh download empties it.
OnlyFreshTruncates ==
  [][\/ Len(disk') >= Len(disk) /\ SubSeq(disk', 1, Len(disk)) = disk
     \/ dpc = "idle" /\ dpc' = "get" /\ startOffset' = 0]_downloadVars
=============================================================================
