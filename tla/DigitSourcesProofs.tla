------------------------- MODULE DigitSourcesProofs -------------------------
(***************************************************************************)
(* Proofs about the download and the API reader for every number of        *)
(* threads, downloads and reads, and every limit on a request.             *)
(***************************************************************************)
EXTENDS DigitSources, SequenceTheorems, TLAPS

Bytes == Nat \cup {LineBreak}

\* What is in the buffer of the stream joins what is on disk, and together they
\* are as long as the download believes.
Joined ==
  dpc = "get" /\ ~shifted =>
    /\ Len(disk) + Len(buf) = startOffset + downloaded
    /\ \A k \in 1..Len(disk) : disk[k] = k
    /\ \A k \in 1..Len(buf) : buf[k] = Len(disk) + k

DownloadTypes ==
  /\ disk \in Seq(Bytes) /\ buf \in Seq(Nat) /\ exists \in BOOLEAN
  /\ dpc \in {"idle", "get"} /\ shifted \in BOOLEAN /\ unflushed \in BOOLEAN
  /\ numDigits \in Nat /\ startOffset \in Nat /\ downloaded \in Nat
  /\ (exists \/ disk = <<>>)
  /\ dpc = "idle" => buf = <<>>
  /\ dpc = "get" => exists /\ downloaded <= Additional /\ outcome = "none"

DownloadInv == DownloadTypes /\ Joined /\ FileInPlace
-----------------------------------------------------------------------------
\* The first k bytes of the buffer, put behind the file.
LEMMA Flushed ==
  ASSUME disk \in Seq(Bytes), buf \in Seq(Nat), NEW k \in 0..Len(buf)
  PROVE  LET d == disk \o SubSeq(buf, 1, k) IN
           /\ d \in Seq(Bytes) /\ Len(d) = Len(disk) + k
           /\ \A i \in 1..(Len(disk) + k) :
                d[i] = IF i <= Len(disk) THEN disk[i] ELSE buf[i - Len(disk)]
<1>1. Len(disk) \in Nat /\ Len(buf) \in Nat
  BY LenProperties
<1>2. \A i \in 1..k : buf[i] \in Bytes
  BY <1>1, ElementOfSeq DEF Bytes
<1>3. /\ SubSeq(buf, 1, k) \in Seq(Bytes) /\ Len(SubSeq(buf, 1, k)) = k
      /\ \A i \in 1..k : SubSeq(buf, 1, k)[i] = buf[i]
  <2>1. /\ SubSeq(buf, 1, k) \in Seq(Bytes)
        /\ Len(SubSeq(buf, 1, k)) = IF 1 <= k THEN k - 1 + 1 ELSE 0
        /\ \A i \in 1..(k - 1 + 1) : SubSeq(buf, 1, k)[i] = buf[1 + i - 1]
    BY <1>1, <1>2, SubSeqProperties
  <2> QED
    BY <2>1, <1>1
<1>4. /\ disk \o SubSeq(buf, 1, k) \in Seq(Bytes)
      /\ Len(disk \o SubSeq(buf, 1, k)) = Len(disk) + k
      /\ \A i \in 1..(Len(disk) + k) : (disk \o SubSeq(buf, 1, k))[i] =
           IF i <= Len(disk) THEN disk[i] ELSE SubSeq(buf, 1, k)[i - Len(disk)]
  BY <1>3, ConcatProperties
<1>5. \A i \in 1..(Len(disk) + k) : ~(i <= Len(disk)) => i - Len(disk) \in 1..k
  BY <1>1
<1> QED
  BY <1>3, <1>4, <1>5

\* What stays in the buffer.
LEMMA Kept ==
  ASSUME buf \in Seq(Nat), NEW k \in 0..Len(buf)
  PROVE  LET b == SubSeq(buf, k + 1, Len(buf)) IN
           /\ b \in Seq(Nat) /\ Len(b) = Len(buf) - k
           /\ \A i \in 1..(Len(buf) - k) : b[i] = buf[k + i]
<1>1. Len(buf) \in Nat
  BY LenProperties
<1>2. \A i \in (k + 1)..Len(buf) : buf[i] \in Nat
  BY <1>1, ElementOfSeq
<1>3. /\ SubSeq(buf, k + 1, Len(buf)) \in Seq(Nat)
      /\ Len(SubSeq(buf, k + 1, Len(buf))) =
           IF k + 1 <= Len(buf) THEN Len(buf) - (k + 1) + 1 ELSE 0
      /\ \A i \in 1..(Len(buf) - (k + 1) + 1) :
           SubSeq(buf, k + 1, Len(buf))[i] = buf[k + 1 + i - 1]
  BY <1>1, <1>2, SubSeqProperties
<1> QED
  BY <1>1, <1>3

\* A response, put behind what there is.
LEMMA Received ==
  \A s \in Seq(Nat) : \A from, m \in Nat :
    /\ s \o Digits(from, m) \in Seq(Nat) /\ Len(s \o Digits(from, m)) = Len(s) + m
    /\ \A i \in 1..(Len(s) + m) :
         (s \o Digits(from, m))[i] = IF i <= Len(s) THEN s[i] ELSE from + (i - Len(s))
<1> SUFFICES ASSUME NEW s \in Seq(Nat), NEW from \in Nat, NEW m \in Nat
             PROVE  /\ s \o Digits(from, m) \in Seq(Nat)
                    /\ Len(s \o Digits(from, m)) = Len(s) + m
                    /\ \A i \in 1..(Len(s) + m) : (s \o Digits(from, m))[i] =
                         IF i <= Len(s) THEN s[i] ELSE from + (i - Len(s))
  OBVIOUS
<1>1. Digits(from, m) \in Seq(Nat) /\ Len(Digits(from, m)) = m
  BY DEF Digits
<1>2. \A i \in 1..m : Digits(from, m)[i] = from + i
  BY DEF Digits
<1>3. /\ s \o Digits(from, m) \in Seq(Nat)
      /\ Len(s \o Digits(from, m)) = Len(s) + m
      /\ \A i \in 1..(Len(s) + m) : (s \o Digits(from, m))[i] =
           IF i <= Len(s) THEN s[i] ELSE Digits(from, m)[i - Len(s)]
  BY <1>1, ConcatProperties
<1>4. \A i \in 1..(Len(s) + m) : ~(i <= Len(s)) => i - Len(s) \in 1..m
  BY LenProperties
<1> QED
  BY <1>2, <1>3, <1>4

LEMMA DownloadStart == DownloadInit => DownloadInv
<1> SUFFICES ASSUME DownloadInit PROVE DownloadInv
  OBVIOUS
<1>1. disk \in Seq(Bytes) /\ InPlace(disk)
  <2>1. InPlace(<<>>) /\ <<>> \in Seq(Bytes)
    BY DEF InPlace
  <2> QED
    BY <2>1, InitialFilesAssumption DEF DownloadInit, Bytes
<1>2. buf \in Seq(Nat)
  BY EmptySeq DEF DownloadInit
<1>3. DownloadTypes
  BY <1>1, <1>2 DEF DownloadInit, DownloadTypes
<1>4. Joined /\ FileInPlace
  BY <1>1 DEF DownloadInit, Joined, FileInPlace
<1> QED
  BY <1>3, <1>4 DEF DownloadInv

\* The loop is entered behind a file whose bytes are all digits in their place.
LEMMA BeginStep ==
  ASSUME DownloadInv, NEW n \in Nat, NEW content \in Seq(Bytes), Len(content) <= n,
         dpc = "idle", Begin(n, content, Len(content)), shifted' \in BOOLEAN,
         ~shifted' => \A k \in 1..Len(content) : content[k] = k
  PROVE  DownloadInv'
<1>1. Len(content) \in Nat /\ DOMAIN content = 1..Len(content)
  BY LenProperties
<1>2. DownloadTypes'
  <2>1. /\ disk' \in Seq(Bytes) /\ buf' \in Seq(Nat) /\ exists' = TRUE
        /\ dpc' = "get" /\ outcome' = "none" /\ unflushed' = FALSE
        /\ numDigits' = n /\ startOffset' = Len(content) /\ downloaded' = 0
    BY DEF Begin, DownloadInv, DownloadTypes
  <2>2. 0 <= n - Len(content)
    BY <1>1
  <2> QED
    BY <1>1, <2>1, <2>2 DEF DownloadTypes, Additional
<1>3. buf' = <<>> /\ Len(buf') = 0
  BY DEF Begin, DownloadInv, DownloadTypes
<1>4. Joined'
  BY <1>1, <1>3 DEF Begin, Joined
<1>5. FileInPlace'
  BY <1>1 DEF Begin, FileInPlace, InPlace
<1> QED
  BY <1>2, <1>4, <1>5 DEF DownloadInv

\* The process ends after k bytes of its buffer have reached the disk.
LEMMA ExitStep ==
  ASSUME DownloadInv, NEW result, NEW k \in 0..Len(buf), dpc = "get",
         Exit(result, k), unflushed' \in BOOLEAN,
         result = "ok" => downloaded >= Additional /\ unflushed' = (k < Len(buf))
  PROVE  DownloadInv'
<1> USE DEF DownloadInv, DownloadTypes
<1>1. Len(disk) \in Nat /\ Len(buf) \in Nat
  BY LenProperties
<1>2. /\ disk' \in Seq(Bytes) /\ Len(disk') = Len(disk) + k
      /\ DOMAIN disk' = 1..(Len(disk) + k)
      /\ \A i \in 1..(Len(disk) + k) :
           disk'[i] = IF i <= Len(disk) THEN disk[i] ELSE buf[i - Len(disk)]
  BY Flushed, LenProperties DEF Exit
<1>3. DownloadTypes' /\ Joined'
  <2>1. /\ buf' = <<>> /\ dpc' = "idle" /\ startOffset' = 0 /\ downloaded' = 0
        /\ exists' = exists /\ numDigits' = numDigits /\ shifted' = shifted
    BY DEF Exit
  <2>2. buf' \in Seq(Nat)
    BY <2>1, EmptySeq
  <2> QED
    BY <1>2, <2>1, <2>2 DEF Joined
<1>4. ASSUME ~shifted PROVE \A i \in 1..(Len(disk) + k) : disk'[i] = i
  <2> SUFFICES ASSUME NEW i \in 1..(Len(disk) + k) PROVE disk'[i] = i
    OBVIOUS
  <2>1. CASE i <= Len(disk)
    BY <1>1, <1>2, <1>4, <2>1 DEF Joined
  <2>2. CASE ~(i <= Len(disk))
    <3>1. i - Len(disk) \in 1..Len(buf)
      BY <1>1, <2>2
    <3>2. buf[i - Len(disk)] = Len(disk) + (i - Len(disk))
      BY <1>4, <3>1 DEF Joined
    <3> QED
      BY <1>1, <1>2, <2>2, <3>2
  <2> QED
    BY <2>1, <2>2
<1>5. ASSUME ~shifted, result = "ok", ~unflushed'
      PROVE  disk' = Digits(0, numDigits)
  <2>1. ~(k < Len(buf))
    BY <1>5, Zenon
  <2>2. downloaded >= numDigits - startOffset /\ downloaded <= numDigits - startOffset
    BY <1>5 DEF Additional
  <2>3. k = Len(buf) /\ downloaded = Additional
    BY <1>1, <2>1, <2>2 DEF Additional
  <2>4. Len(disk) + k = numDigits
    BY <1>1, <1>5, <2>3 DEF Joined, Additional
  <2>5. /\ Digits(0, numDigits) \in Seq(Bytes) /\ Len(Digits(0, numDigits)) = numDigits
        /\ \A i \in 1..numDigits : Digits(0, numDigits)[i] = i
    BY DEF Digits, Bytes
  <2> QED
    BY <1>2, <1>4, <1>5, <2>4, <2>5, SeqEqual
<1>6. FileInPlace'
  BY <1>2, <1>4, <1>5 DEF Exit, FileInPlace, InPlace
<1> QED
  BY <1>3, <1>6

\* Every step of the download, and every step of somebody else.
LEMMA DownloadInvStep ==
  ASSUME DownloadInv, [DownloadStep]_downloadVars
  PROVE  DownloadInv'
<1> USE DownloadAssumption
<1>1. DownloadTypes /\ Joined /\ FileInPlace
  BY DEF DownloadInv
<1>2. Len(disk) \in Nat /\ Len(buf) \in Nat /\ DOMAIN disk = 1..Len(disk)
  BY <1>1, LenProperties DEF DownloadTypes
<1>3. ASSUME NEW n \in Totals, Resume(n) PROVE DownloadInv'
  <2>1. n \in Nat /\ disk \in Seq(Bytes) /\ Len(disk) <= n
    BY <1>1, <1>2, <1>3 DEF Resume, DownloadTypes
  <2>2. dpc = "idle" /\ Begin(n, disk, Len(disk)) /\ shifted' = shifted /\ shifted \in BOOLEAN
    BY <1>1, <1>3 DEF Resume, Invoked, DownloadTypes
  <2>3. ~shifted' => \A k \in 1..Len(disk) : disk[k] = k
    BY <1>1, <1>2, <1>3, <2>2 DEF Resume, EndsInSpace, FileInPlace, InPlace
  <2> QED
    BY <2>1, <2>2, <2>3, BeginStep
<1>4. ASSUME NEW n \in Totals, Fresh(n) PROVE DownloadInv'
  <2>1. n \in Nat /\ <<>> \in Seq(Bytes) /\ Len(<<>>) = 0 /\ 0 <= n
    BY EmptySeq
  <2>2. dpc = "idle" /\ Begin(n, <<>>, Len(<<>>)) /\ shifted' = FALSE
    BY <1>4, <2>1 DEF Fresh, Invoked
  <2>3. \A k \in 1..Len(<<>>) : <<>>[k] = k
    BY <2>1
  <2> QED
    BY <2>1, <2>2, <2>3, BeginStep
<1>5. ASSUME Refuse PROVE DownloadInv'
  BY <1>1, <1>5 DEF Refuse, Invoked, DownloadInv, DownloadTypes, Joined, FileInPlace, Additional
<1>6. ASSUME NEW m \in 0..(Chunk + 1), GetContent(m) PROVE DownloadInv'
  <2>1. Chunk \in Nat /\ m \in Nat /\ downloaded + Chunk <= Additional
    BY <1>1, <1>6 DEF GetContent, DownloadTypes, Chunk, Additional
  <2>2. /\ buf' \in Seq(Nat) /\ Len(buf') = Len(buf) + m
        /\ \A i \in 1..(Len(buf) + m) :
             buf'[i] = IF i <= Len(buf) THEN buf[i] ELSE startOffset + downloaded + (i - Len(buf))
    <3> DEFINE from == startOffset + downloaded
    <3>1. buf \in Seq(Nat) /\ from \in Nat
      BY <1>1 DEF DownloadTypes
    <3>2. buf' = buf \o Digits(from, m)
      BY <1>6 DEF GetContent
    <3> HIDE DEF from
    <3>3. /\ buf \o Digits(from, m) \in Seq(Nat) /\ Len(buf \o Digits(from, m)) = Len(buf) + m
          /\ \A i \in 1..(Len(buf) + m) : (buf \o Digits(from, m))[i] =
               IF i <= Len(buf) THEN buf[i] ELSE from + (i - Len(buf))
      BY <2>1, <3>1, Received
    <3> QED
      BY <3>2, <3>3 DEF from
  <2>3. DownloadTypes'
    BY <1>1, <1>6, <2>1, <2>2 DEF GetContent, DownloadTypes, Additional
  <2>4. ASSUME ~shifted' PROVE ~shifted /\ m = Chunk
    BY <1>6, <2>4, Zenon DEF GetContent
  <2>5. Joined'
    <3> SUFFICES ASSUME ~shifted'
                 PROVE  /\ Len(disk) + Len(buf') = startOffset + (downloaded + Chunk)
                        /\ \A k \in 1..Len(disk) : disk[k] = k
                        /\ \A k \in 1..Len(buf') : buf'[k] = Len(disk) + k
      BY <1>6 DEF GetContent, Joined
    <3>1. /\ Len(disk) + Len(buf) = startOffset + downloaded
          /\ \A k \in 1..Len(disk) : disk[k] = k
          /\ \A k \in 1..Len(buf) : buf[k] = Len(disk) + k
      BY <1>1, <1>6, <2>4 DEF GetContent, Joined
    <3>2. startOffset \in Nat /\ downloaded \in Nat /\ m = Chunk
      BY <1>1, <2>4 DEF DownloadTypes
    <3>3. ASSUME NEW k \in 1..Len(buf') PROVE buf'[k] = Len(disk) + k
      <4>1. k \in 1..(Len(buf) + m)
        BY <2>2
      <4>2. CASE k <= Len(buf)
        BY <1>2, <2>2, <3>1, <4>1, <4>2
      <4>3. CASE ~(k <= Len(buf))
        <5>1. buf'[k] = startOffset + downloaded + (k - Len(buf))
          BY <2>2, <4>1, <4>3
        <5>2. Len(disk) + Len(buf) = startOffset + downloaded
          BY <3>1
        <5> QED
          BY <1>2, <2>1, <3>2, <4>1, <5>1, <5>2
      <4> QED
        BY <4>2, <4>3
    <3> QED
      BY <1>2, <2>1, <2>2, <3>1, <3>2, <3>3
  <2>6. FileInPlace'
    BY <1>1, <1>6, <2>4 DEF GetContent, FileInPlace, DownloadTypes
  <2> QED
    BY <2>3, <2>5, <2>6 DEF DownloadInv
<1>7. ASSUME NEW k \in 1..Len(buf), Spill(k) PROVE DownloadInv'
  <2>1. k \in 0..Len(buf) /\ disk \in Seq(Bytes) /\ buf \in Seq(Nat)
    BY <1>1, <1>2 DEF DownloadTypes
  <2>2. /\ disk' \in Seq(Bytes) /\ Len(disk') = Len(disk) + k
        /\ DOMAIN disk' = 1..(Len(disk) + k)
        /\ \A i \in 1..(Len(disk) + k) :
             disk'[i] = IF i <= Len(disk) THEN disk[i] ELSE buf[i - Len(disk)]
    BY <1>7, <2>1, Flushed, LenProperties DEF Spill, Write
  <2>3. /\ buf' \in Seq(Nat) /\ Len(buf') = Len(buf) - k
        /\ \A i \in 1..(Len(buf) - k) : buf'[i] = buf[k + i]
    BY <1>7, <2>1, Kept DEF Spill, Write
  <2>4. DownloadTypes'
    BY <1>1, <1>7, <2>2, <2>3 DEF Spill, DownloadTypes, Additional
  <2>5. ASSUME ~shifted
        PROVE  /\ Len(disk) + Len(buf) = startOffset + downloaded
               /\ \A i \in 1..Len(disk) : disk[i] = i
               /\ \A i \in 1..Len(buf) : buf[i] = Len(disk) + i
    BY <1>1, <1>7, <2>5 DEF Spill, Joined
  <2>6. ASSUME ~shifted PROVE \A i \in 1..(Len(disk) + k) : disk'[i] = i
    <3> SUFFICES ASSUME NEW i \in 1..(Len(disk) + k) PROVE disk'[i] = i
      OBVIOUS
    <3>1. CASE i <= Len(disk)
      BY <1>2, <2>2, <2>5, <2>6, <3>1
    <3>2. CASE ~(i <= Len(disk))
      <4>1. i - Len(disk) \in 1..Len(buf)
        BY <1>2, <2>1, <3>2
      <4>2. buf[i - Len(disk)] = Len(disk) + (i - Len(disk))
        BY <2>5, <2>6, <4>1
      <4> QED
        BY <1>2, <2>2, <3>2, <4>2
    <3> QED
      BY <3>1, <3>2
  <2>7. ASSUME ~shifted PROVE \A i \in 1..(Len(buf) - k) : buf'[i] = Len(disk) + k + i
    BY <1>2, <2>1, <2>3, <2>5, <2>7, SMTT(30)
  <2>8. Joined'
    BY <1>2, <1>7, <2>1, <2>2, <2>3, <2>5, <2>6, <2>7, SMTT(30) DEF Spill, Joined
  <2>9. FileInPlace'
    BY <1>1, <1>7, <2>2, <2>6 DEF Spill, FileInPlace, InPlace, DownloadTypes
  <2> QED
    BY <2>4, <2>8, <2>9 DEF DownloadInv
<1>8. ASSUME NEW k \in 0..Len(buf), DownloadFails(k) PROVE DownloadInv'
  BY <1>1, <1>8, ExitStep DEF DownloadFails, DownloadInv, DownloadTypes
<1>9. ASSUME NEW k \in 0..Len(buf), DownloadEnds(k) PROVE DownloadInv'
  BY <1>9, ExitStep DEF DownloadEnds, DownloadInv
<1>10. ASSUME Kill PROVE DownloadInv'
  BY <1>1, <1>2, <1>10, ExitStep DEF Kill, DownloadInv, DownloadTypes
<1>11. ASSUME UNCHANGED downloadVars PROVE DownloadInv'
  BY <1>1, <1>11 DEF downloadVars, DownloadInv, DownloadTypes, Joined, FileInPlace, InPlace, Additional
<1> QED
  BY <1>3, <1>4, <1>5, <1>6, <1>7, <1>8, <1>9, <1>10, <1>11 DEF DownloadStep

\* What a step of the composition does to the download.
LEMMA StepOfDownload == [Next]_vars => [DownloadStep]_downloadVars
BY DEF Next, vars, Download, Rest

\* The inductive invariant of the download, under every step of the composition.
THEOREM DownloadInvariance == Spec => []DownloadInv
<1>1. Init => DownloadInv
  BY DownloadStart DEF Init
<1>2. DownloadInv /\ [Next]_vars => DownloadInv'
  BY DownloadInvStep, StepOfDownload
<1> QED
  BY <1>1, <1>2, PTL DEF Spec

\* A file that pi_download has written, resumed or left behind in a crash holds
\* digits in their places, and all of them when the program reports success;
\* download_pi.cpp:162-215, under the conditions that FileInPlace names.
THEOREM DownloadCorrect == Spec => []FileInPlace
<1>1. DownloadInv => FileInPlace
  BY DEF DownloadInv
<1> QED
  BY <1>1, DownloadInvariance, PTL

\* A download that resumes never takes a byte away (README.md:231).
THEOREM ResumeKeepsFile == Spec => OnlyFreshTruncates
<1> DEFINE Keeps == \/ Len(disk') >= Len(disk) /\ SubSeq(disk', 1, Len(disk)) = disk
                    \/ dpc = "idle" /\ dpc' = "get" /\ startOffset' = 0
<1>1. ASSUME disk \in Seq(Bytes), NEW t \in Seq(Bytes)
      PROVE  Len(disk \o t) >= Len(disk) /\ SubSeq(disk \o t, 1, Len(disk)) = disk
  <2>1. /\ disk \o t \in Seq(Bytes) /\ Len(disk \o t) = Len(disk) + Len(t)
        /\ \A i \in 1..(Len(disk) + Len(t)) :
             (disk \o t)[i] = IF i <= Len(disk) THEN disk[i] ELSE t[i - Len(disk)]
    BY <1>1, ConcatProperties
  <2>2. Len(disk) \in Nat /\ Len(t) \in Nat
    BY <1>1, LenProperties
  <2>3. \A i \in 1..Len(disk) : (disk \o t)[i] \in Bytes
    BY <2>1, <2>2, ElementOfSeq
  <2>4. /\ SubSeq(disk \o t, 1, Len(disk)) \in Seq(Bytes)
        /\ Len(SubSeq(disk \o t, 1, Len(disk))) = IF 1 <= Len(disk) THEN Len(disk) - 1 + 1 ELSE 0
        /\ \A i \in 1..(Len(disk) - 1 + 1) :
             SubSeq(disk \o t, 1, Len(disk))[i] = (disk \o t)[1 + i - 1]
    BY <2>2, <2>3, SubSeqProperties
  <2>5. /\ Len(SubSeq(disk \o t, 1, Len(disk))) = Len(disk)
        /\ \A i \in 1..Len(disk) : SubSeq(disk \o t, 1, Len(disk))[i] = disk[i]
    BY <2>1, <2>2, <2>4
  <2>6. SubSeq(disk \o t, 1, Len(disk)) = disk
    BY <1>1, <2>4, <2>5, SeqEqual
  <2> QED
    BY <2>1, <2>2, <2>6
<1>2. ASSUME disk \in Seq(Bytes), disk' = disk PROVE Keeps
  BY <1>2, SubSeqFull, LenProperties
<1>3. ASSUME disk \in Seq(Bytes), buf \in Seq(Nat), NEW k \in 0..Len(buf),
             disk' = disk \o SubSeq(buf, 1, k)
      PROVE  Keeps
  <2>1. \A i \in 1..k : buf[i] \in Bytes
    BY <1>3, LenProperties, ElementOfSeq DEF Bytes
  <2>2. SubSeq(buf, 1, k) \in Seq(Bytes)
    BY <1>3, <2>1, LenProperties, SubSeqProperties
  <2> QED
    BY <1>1, <1>3, <2>2
<1>4. DownloadInv /\ [Next]_vars => [Keeps]_downloadVars
  <2> SUFFICES ASSUME DownloadInv, DownloadStep PROVE Keeps
    BY StepOfDownload DEF downloadVars
  <2>1. disk \in Seq(Bytes) /\ buf \in Seq(Nat) /\ Len(buf) \in Nat
    BY LenProperties DEF DownloadInv, DownloadTypes
  <2>2. ASSUME NEW n \in Totals, Resume(n) \/ Fresh(n) PROVE Keeps
    BY <1>2, <2>1, <2>2 DEF Resume, Fresh, Invoked, Begin
  <2>3. ASSUME Refuse PROVE Keeps
    BY <1>2, <2>1, <2>3 DEF Refuse
  <2>4. ASSUME NEW m \in 0..(Chunk + 1), GetContent(m) PROVE Keeps
    BY <1>2, <2>1, <2>4 DEF GetContent
  <2>5. ASSUME NEW k \in 1..Len(buf), Spill(k) PROVE Keeps
    BY <1>3, <2>1, <2>5 DEF Spill, Write
  <2>6. ASSUME NEW k \in 0..Len(buf), DownloadFails(k) \/ DownloadEnds(k) PROVE Keeps
    BY <1>3, <2>1, <2>6 DEF DownloadFails, DownloadEnds, Exit
  <2>7. ASSUME Kill PROVE Keeps
    BY <1>3, <2>1, <2>7 DEF Kill, Exit
  <2> QED
    BY <2>2, <2>3, <2>4, <2>5, <2>6, <2>7 DEF DownloadStep
<1> QED
  BY <1>4, DownloadInvariance, PTL DEF Spec, OnlyFreshTruncates
-----------------------------------------------------------------------------
\* One thread: the read it is in, and what is on its connection.
Request(rd, dg) ==
  [start |-> rd.offset + Len(dg),
   count |-> IF MaxPerRequest < rd.n - Len(dg) THEN MaxPerRequest ELSE rd.n - Len(dg)]

ThreadOK(pc, rd, dg, att, wr) ==
  /\ pc \in {"idle", "send", "wait"} /\ dg \in Seq(Nat) /\ att \in 0..2
  /\ pc = "idle" => rd = NoRead /\ dg = <<>>
  /\ pc # "idle" => /\ rd \in Reader!Reads /\ Len(dg) < rd.n
                    /\ \A i \in 1..Len(dg) : dg[i] = rd.offset + i
  /\ wr = IF pc = "wait" THEN <<Request(rd, dg)>> ELSE <<>>

ApiTypes ==
  /\ seqPos \in Nat
  /\ DOMAIN rpc = Threads /\ rpc = [u \in Threads |-> rpc[u]]
  /\ DOMAIN read = Threads /\ read = [u \in Threads |-> read[u]]
  /\ DOMAIN got = Threads /\ got = [u \in Threads |-> got[u]]
  /\ DOMAIN attempt = Threads /\ attempt = [u \in Threads |-> attempt[u]]
  /\ DOMAIN wire = Threads /\ wire = [u \in Threads |-> wire[u]]

ApiInv ==
  /\ ApiTypes
  /\ \A t \in Threads : ThreadOK(rpc[t], read[t], got[t], attempt[t], wire[t])

LEMMA ApiStart == ApiInit => ApiInv
BY EmptySeq DEF ApiInit, ApiInv, ApiTypes, ThreadOK

\* A step that changes the entries of one thread only.
Only(t) ==
  \A u \in Threads \ {t} :
    /\ rpc'[u] = rpc[u] /\ read'[u] = read[u] /\ got'[u] = got[u]
    /\ attempt'[u] = attempt[u] /\ wire'[u] = wire[u]

LEMMA OneThread ==
  ASSUME ApiInv, ApiTypes', NEW t \in Threads, Only(t),
         ThreadOK(rpc'[t], read'[t], got'[t], attempt'[t], wire'[t])
  PROVE  ApiInv'
<1>1. ASSUME NEW u \in Threads
      PROVE  ThreadOK(rpc'[u], read'[u], got'[u], attempt'[u], wire'[u])
  <2>1. CASE u = t
    BY <2>1
  <2>2. CASE u # t
    <3>1. /\ rpc'[u] = rpc[u] /\ read'[u] = read[u] /\ got'[u] = got[u]
          /\ attempt'[u] = attempt[u] /\ wire'[u] = wire[u]
      BY <2>2 DEF Only
    <3> QED
      BY <3>1 DEF ApiInv
  <2> QED
    BY <2>1, <2>2
<1> QED
  BY <1>1 DEF ApiInv

LEMMA StartStep ==
  ASSUME ApiInv, NEW t \in Threads, NEW op \in {"read_at", "next_chunk"},
         NEW offset \in Nat, NEW n \in Nat \ {0}, StartRead(t, op, offset, n),
         op = "next_chunk" => offset = seqPos
  PROVE  ApiInv' /\ (UNCHANGED <<disk, source>> => Reader!Ask(t))
<1> DEFINE rd == [op |-> op, offset |-> offset, n |-> n]
<1>1. rd \in Reader!Reads /\ rd.n = n /\ rd.offset = offset /\ rd.op = op
  BY DEF Reader!Reads
<1>2. /\ rpc[t] = "idle" /\ rpc' = [rpc EXCEPT ![t] = "send"]
      /\ read' = [read EXCEPT ![t] = rd] /\ got' = got /\ attempt' = attempt
      /\ wire' = wire /\ seqPos' = seqPos /\ answer' = answer
  BY DEF StartRead
<1> HIDE DEF rd
<1>3. ApiTypes' /\ Only(t) /\ rpc'[t] = "send" /\ read'[t] = rd
  BY <1>2 DEF ApiInv, ApiTypes, Only
<1>4. ThreadOK(rpc[t], read[t], got[t], attempt[t], wire[t]) /\ seqPos \in Nat
  BY DEF ApiInv, ApiTypes
<1>5. /\ read[t] = NoRead /\ got[t] = <<>> /\ wire[t] = <<>> /\ attempt[t] \in 0..2
      /\ got[t] \in Seq(Nat) /\ Len(got[t]) = 0
  BY <1>2, <1>4 DEF ThreadOK
<1>6. ThreadOK("send", rd, got[t], attempt[t], wire[t])
  BY <1>1, <1>5 DEF ThreadOK
<1>7. ApiInv'
  BY <1>2, <1>3, <1>6, OneThread
<1>8. Reader!NoRead = NoRead
  BY DEF NoRead, Reader!NoRead
<1>9. ASSUME UNCHANGED <<disk, source>> PROVE Reader!Ask(t)
  BY <1>1, <1>2, <1>3, <1>5, <1>8, <1>9 DEF Reader!Ask
<1> QED
  BY <1>7, <1>9

LEMMA Busy ==
  ASSUME ApiInv, NEW t \in Threads, rpc[t] # "idle"
  PROVE  read[t] \in Reader!Reads /\ read[t] # Reader!NoRead /\ Reader!NoRead = NoRead
<1>1. read[t] \in Reader!Reads
  BY DEF ApiInv, ThreadOK
<1>2. read[t].n # 0
  BY <1>1 DEF Reader!Reads
<1>3. Reader!NoRead.n = 0 /\ Reader!NoRead = NoRead
  BY DEF NoRead, Reader!NoRead
<1> QED
  BY <1>1, <1>2, <1>3

\* An exception ends the read of its thread and nothing else.
LEMMA ThrowStep ==
  ASSUME ApiInv, NEW t \in Threads, rpc[t] # "idle", Throw(t),
         wire' = [wire EXCEPT ![t] = <<>>], UNCHANGED <<disk, source>>
  PROVE  ApiInv' /\ Reader!Throw(t)
<1>1. /\ rpc' = [rpc EXCEPT ![t] = "idle"] /\ read' = [read EXCEPT ![t] = NoRead]
      /\ got' = [got EXCEPT ![t] = <<>>] /\ attempt' = [attempt EXCEPT ![t] = 0]
      /\ seqPos' = seqPos
  BY DEF Throw
<1>2. ApiTypes' /\ Only(t)
  BY <1>1 DEF ApiInv, ApiTypes, Only
<1>3. /\ rpc'[t] = "idle" /\ read'[t] = NoRead /\ got'[t] = <<>> /\ attempt'[t] = 0
      /\ wire'[t] = <<>>
  BY <1>1 DEF ApiInv, ApiTypes
<1>4. ApiInv'
  <2>1. ThreadOK("idle", NoRead, <<>>, 0, <<>>)
    BY EmptySeq DEF ThreadOK
  <2> QED
    BY <1>2, <1>3, <2>1, OneThread
<1> QED
  BY <1>1, <1>4, Busy DEF Throw, Reader!Throw

\* A request that is repeated is repeated for the same digits.
LEMMA TryAgainStep ==
  ASSUME ApiInv, NEW t \in Threads, rpc[t] # "idle", TryAgain(t),
         wire' = [wire EXCEPT ![t] = <<>>], UNCHANGED <<disk, source>>
  PROVE  ApiInv' /\ (Reader!Throw(t) \/ UNCHANGED <<seqPos, read, answer>>)
<1>1. CASE attempt[t] = 2
  BY <1>1, ThrowStep DEF TryAgain
<1>2. CASE attempt[t] # 2
  <2>1. /\ rpc' = [rpc EXCEPT ![t] = "send"] /\ attempt' = [attempt EXCEPT ![t] = attempt[t] + 1]
        /\ read' = read /\ got' = got /\ seqPos' = seqPos /\ answer' = answer
    BY <1>2 DEF TryAgain
  <2>2. ApiTypes' /\ Only(t)
    BY <2>1 DEF ApiInv, ApiTypes, Only
  <2>3. rpc'[t] = "send" /\ attempt'[t] = attempt[t] + 1 /\ wire'[t] = <<>>
    BY <2>1 DEF ApiInv, ApiTypes
  <2>4. ThreadOK(rpc[t], read[t], got[t], attempt[t], wire[t])
    BY DEF ApiInv
  <2>5. ThreadOK("send", read[t], got[t], attempt[t] + 1, <<>>)
    BY <1>2, <2>4 DEF ThreadOK
  <2> QED
    BY <2>1, <2>2, <2>3, <2>5, OneThread
<1> QED
  BY <1>1, <1>2

\* A read that returns what the source has for it or, from a file, the first part of it.
LEMMA ReturnStep ==
  ASSUME ApiInv, NEW t \in Threads, rpc[t] # "idle", NEW digits,
         NEW m \in 0..Len(Reader!At(read[t].offset, read[t].n)),
         digits = SubSeq(Reader!At(read[t].offset, read[t].n), 1, m), Len(digits) = m,
         source # "file" => m = read[t].n, m \in Nat,
         Return(t, digits), NEW att \in 0..2, attempt' = [attempt EXCEPT ![t] = att],
         wire' = [wire EXCEPT ![t] = <<>>], UNCHANGED <<disk, source>>
  PROVE  ApiInv' /\ Reader!Answer(t)
<1>1. /\ rpc' = [rpc EXCEPT ![t] = "idle"] /\ read' = [read EXCEPT ![t] = NoRead]
      /\ got' = [got EXCEPT ![t] = <<>>]
      /\ seqPos' = IF read[t].op = "next_chunk" THEN seqPos + Len(digits) ELSE seqPos
  BY DEF Return
<1>2. ApiTypes' /\ Only(t)
  <2>1. seqPos' \in Nat
    BY <1>1 DEF ApiInv, ApiTypes
  <2> QED
    BY <2>1 DEF ApiInv, ApiTypes, Only, Return
<1>3. /\ rpc'[t] = "idle" /\ read'[t] = NoRead /\ got'[t] = <<>> /\ attempt'[t] = att
      /\ wire'[t] = <<>>
  BY <1>1 DEF ApiInv, ApiTypes
<1>4. ApiInv'
  <2>1. ThreadOK("idle", NoRead, <<>>, att, <<>>)
    BY EmptySeq DEF ThreadOK
  <2> QED
    BY <1>2, <1>3, <2>1, OneThread
<1>5. read[t] # Reader!NoRead /\ read' = [read EXCEPT ![t] = Reader!NoRead]
  BY <1>1, Busy
<1>6. answer' = [answer EXCEPT ![t] = [threw |-> FALSE, digits |-> digits]]
  BY DEF Return
<1>7. Reader!Answer(t)
  BY <1>1, <1>5, <1>6 DEF Reader!Answer
<1> QED
  BY <1>4, <1>7

\* What a step of the reader is to DigitReader.
Refines(t) == \/ Reader!Answer(t) \/ Reader!Throw(t)
              \/ UNCHANGED <<disk, source, seqPos, read, answer>>

LEMMA SendStep ==
  ASSUME ApiInv, NEW t \in Threads, Send(t), UNCHANGED <<disk, source>>
  PROVE  ApiInv' /\ Refines(t)
<1>1. ThreadOK("send", read[t], got[t], attempt[t], wire[t])
  BY DEF ApiInv, Send
<1>2. wire[t] = <<>> /\ Append(wire[t], Request(read[t], got[t])) = <<Request(read[t], got[t])>>
  BY <1>1 DEF ThreadOK
<1>3. wire' = [wire EXCEPT ![t] = <<Request(read[t], got[t])>>]
  BY <1>2 DEF Send, Request, Batch, Missing
<1>4. /\ rpc' = [rpc EXCEPT ![t] = "wait"]
      /\ UNCHANGED <<read, got, attempt, seqPos, answer>>
  BY DEF Send
<1>5. ApiTypes' /\ Only(t) /\ rpc'[t] = "wait" /\ wire'[t] = <<Request(read[t], got[t])>>
  BY <1>3, <1>4 DEF ApiInv, ApiTypes, Only
<1>6. ThreadOK("wait", read[t], got[t], attempt[t], <<Request(read[t], got[t])>>)
  BY <1>1 DEF ThreadOK
<1> QED
  BY <1>4, <1>5, <1>6, OneThread DEF Refines

\* The answer that arrives is the one to the request that is waited for.
LEMMA Arrived ==
  ASSUME ApiInv, NEW t \in Threads, AnswerArrives(t)
  PROVE  /\ rpc[t] = "wait" /\ Head(wire[t]) = Request(read[t], got[t])
         /\ wire' = [wire EXCEPT ![t] = <<>>]
<1>1. ThreadOK("wait", read[t], got[t], attempt[t], wire[t])
  BY DEF ApiInv, AnswerArrives
<1>2. wire[t] = <<Request(read[t], got[t])>>
  BY <1>1 DEF ThreadOK
<1> QED
  BY <1>2 DEF AnswerArrives

LEMMA GetDigitsStep ==
  ASSUME ApiInv, NEW t \in Threads, GetDigits(t), source # "file", UNCHANGED <<disk, source>>
  PROVE  ApiInv' /\ Refines(t)
<1>1. /\ rpc[t] = "wait" /\ Head(wire[t]) = Request(read[t], got[t])
      /\ wire' = [wire EXCEPT ![t] = <<>>]
  BY Arrived DEF GetDigits
<1>2. /\ got[t] \in Seq(Nat) /\ Len(got[t]) \in Nat /\ read[t] \in Reader!Reads
      /\ Len(got[t]) < read[t].n /\ read[t].n \in Nat /\ read[t].offset \in Nat
      /\ \A i \in 1..Len(got[t]) : got[t][i] = read[t].offset + i
  BY <1>1, LenProperties DEF ApiInv, ThreadOK, Reader!Reads
<1>3. /\ Request(read[t], got[t]).count \in Nat
      /\ Request(read[t], got[t]).start = read[t].offset + Len(got[t])
  BY <1>2, ApiAssumption DEF Request
<1>4. PICK m \in 0..(Head(wire[t]).count + 1) :
        LET taken == got[t] \o [i \in 1..(IF m < Missing(t) THEN m ELSE Missing(t)) |->
                                  Head(wire[t]).start + i] IN
        IF Len(taken) < read[t].n
        THEN /\ got' = [got EXCEPT ![t] = taken]
             /\ rpc' = [rpc EXCEPT ![t] = "send"] /\ UNCHANGED <<answer, seqPos, read>>
        ELSE Return(t, taken)
  BY DEF GetDigits
<1> DEFINE k == IF m < Missing(t) THEN m ELSE Missing(t)
           taken == got[t] \o Digits(read[t].offset + Len(got[t]), k)
<1>5. k \in Nat /\ Len(got[t]) + k <= read[t].n
  BY <1>1, <1>2, <1>3 DEF Missing
<1>6. /\ taken \in Seq(Nat) /\ Len(taken) = Len(got[t]) + k
      /\ \A i \in 1..(Len(got[t]) + k) : taken[i] = read[t].offset + i
  <2> HIDE DEF k
  <2>1. /\ taken \in Seq(Nat) /\ Len(taken) = Len(got[t]) + k
        /\ \A i \in 1..(Len(got[t]) + k) :
             taken[i] = IF i <= Len(got[t]) THEN got[t][i]
                        ELSE read[t].offset + Len(got[t]) + (i - Len(got[t]))
    <3>1. read[t].offset + Len(got[t]) \in Nat
      BY <1>2
    <3> QED
      BY <1>2, <1>5, <3>1, Received, ZenonT(30)
  <2> HIDE DEF taken
  <2>2. ASSUME NEW i \in 1..(Len(got[t]) + k) PROVE taken[i] = read[t].offset + i
    <3>1. CASE i <= Len(got[t])
      BY <1>2, <2>1, <3>1
    <3>2. CASE ~(i <= Len(got[t]))
      <4>1. taken[i] = read[t].offset + Len(got[t]) + (i - Len(got[t]))
        BY <2>1, <3>2
      <4>2. i \in Nat /\ Len(got[t]) \in Nat /\ read[t].offset \in Nat
        BY <1>2, <1>5
      <4> QED
        BY <4>1, <4>2
    <3> QED
      BY <3>1, <3>2
  <2> QED
    BY <2>1, <2>2
<1>7. /\ attempt' = [attempt EXCEPT ![t] = 0]
      /\ IF Len(taken) < read[t].n
         THEN /\ got' = [got EXCEPT ![t] = taken]
              /\ rpc' = [rpc EXCEPT ![t] = "send"] /\ UNCHANGED <<answer, seqPos, read>>
         ELSE Return(t, taken)
  BY <1>1, <1>3, <1>4 DEF GetDigits, Digits
<1> HIDE DEF taken, k
<1>8. CASE Len(taken) < read[t].n
  <2>1. ApiTypes' /\ Only(t)
    BY <1>1, <1>7, <1>8 DEF ApiInv, ApiTypes, Only
  <2>2. rpc'[t] = "send" /\ got'[t] = taken /\ attempt'[t] = 0 /\ wire'[t] = <<>> /\ read' = read
    BY <1>1, <1>7, <1>8 DEF ApiInv, ApiTypes
  <2>3. ThreadOK("send", read[t], taken, 0, <<>>)
    BY <1>2, <1>6, <1>8 DEF ThreadOK
  <2> QED
    BY <1>7, <1>8, <2>1, <2>2, <2>3, OneThread DEF Refines
<1>9. CASE ~(Len(taken) < read[t].n)
  <2>1. Len(taken) = read[t].n /\ Len(taken) \in Nat
    BY <1>2, <1>5, <1>6, <1>9
  <2>2. taken = Reader!At(read[t].offset, read[t].n)
    <3>1. LET all == Digits(read[t].offset, read[t].n) IN
            /\ all \in Seq(Nat) /\ Len(all) = read[t].n
            /\ \A i \in 1..read[t].n : all[i] = read[t].offset + i
      BY <1>2 DEF Digits
    <3>2. Reader!At(read[t].offset, read[t].n) = Digits(read[t].offset, read[t].n)
      BY DEF Reader!At, Digits
    <3> QED
      BY <1>5, <1>6, <2>1, <3>1, <3>2, SeqEqual
  <2>3. Return(t, taken) /\ rpc[t] # "idle" /\ 0 \in 0..2
    BY <1>1, <1>7, <1>9
  <2>4. taken = SubSeq(taken, 1, Len(taken)) /\ Len(taken) \in 0..Len(taken)
    BY <1>6, <2>1, SubSeqFull
  <2> QED
    BY <1>1, <1>7, <2>1, <2>2, <2>3, <2>4, ReturnStep DEF Refines
<1> QED
  BY <1>8, <1>9

LEMMA FetchRefines ==
  ASSUME ApiInv, NEW t \in Threads, FetchStep(t), source # "file", UNCHANGED <<disk, source>>
  PROVE  ApiInv' /\ Refines(t)
<1>1. CASE Send(t)
  BY <1>1, SendStep
<1>2. CASE GetDigits(t)
  BY <1>2, GetDigitsStep
<1>3. CASE GetStatus(t)
  BY <1>3, Arrived, TryAgainStep DEF GetStatus, Refines
<1>4. CASE GetNonsense(t)
  BY <1>4, Arrived, ThrowStep DEF GetNonsense, Refines
<1>5. CASE GetNothing(t)
  BY <1>5, TryAgainStep DEF GetNothing, Refines
<1> QED
  BY <1>1, <1>2, <1>3, <1>4, <1>5 DEF FetchStep

LEMMA PreadRefines ==
  ASSUME ApiInv, disk \in Seq(Bytes), NEW t \in Threads, Pread(t, disk), source = "file",
         UNCHANGED <<disk, source>>
  PROVE  ApiInv' /\ Refines(t)
<1>1. ThreadOK("send", read[t], got[t], attempt[t], wire[t]) /\ rpc[t] = "send"
  BY DEF ApiInv, Pread
<1>2. /\ read[t].offset \in Nat /\ read[t].n \in Nat /\ attempt[t] \in 0..2 /\ wire[t] = <<>>
      /\ Len(disk) \in Nat
  BY <1>1, LenProperties DEF ThreadOK, Reader!Reads
<1> DEFINE last == IF read[t].offset + read[t].n < Len(disk)
                   THEN read[t].offset + read[t].n ELSE Len(disk)
           there == SubSeq(disk, read[t].offset + 1, last)
<1>3. there = Reader!At(read[t].offset, read[t].n)
  BY DEF Reader!At
<1>4. there \in Seq(Bytes) /\ Len(there) \in Nat
  <2>1. \A i \in (read[t].offset + 1)..last : disk[i] \in Bytes
    BY <1>2, ElementOfSeq
  <2> QED
    BY <1>2, <2>1, SubSeqProperties, LenProperties, SMTT(30)
<1>5. /\ \E m \in 0..Len(there) : Return(t, SubSeq(there, 1, m))
      /\ attempt' = attempt /\ wire' = wire
  BY DEF Pread
<1>6. attempt' = [attempt EXCEPT ![t] = attempt[t]] /\ wire' = [wire EXCEPT ![t] = <<>>]
  BY <1>2, <1>5 DEF ApiInv, ApiTypes
<1> HIDE DEF there
<1>7. PICK m \in 0..Len(there) : Return(t, SubSeq(there, 1, m))
  BY <1>5
<1>8. Len(SubSeq(there, 1, m)) = m /\ m \in Nat
  <2>1. m \in Nat /\ \A i \in 1..m : there[i] \in Bytes
    BY <1>4, <1>7, ElementOfSeq
  <2> QED
    BY <2>1, SubSeqProperties
<1> QED
  BY <1>1, <1>2, <1>3, <1>6, <1>7, <1>8, ReturnStep DEF Refines

\* Every step of the composition keeps the invariant and is a step of DigitReader.
LEMMA SourceStep ==
  ASSUME ApiInv, DownloadInv, [Next]_vars
  PROVE  /\ ApiInv'
         /\ [Reader!ReaderNext]_<<source # "file", disk, seqPos, read, answer>>
<1>1. disk \in Seq(Bytes) /\ seqPos \in Nat
  BY DEF DownloadInv, DownloadTypes, ApiInv, ApiTypes
<1>2. CASE UNCHANGED apiVars /\ UNCHANGED source /\ (source = "file" \/ UNCHANGED disk)
  <2>1. ApiInv'
    BY <1>2 DEF apiVars, ApiInv, ApiTypes
  <2>2. CASE disk' = disk
    BY <1>2, <2>1, <2>2 DEF apiVars
  <2>3. CASE disk' # disk
    BY <1>2, <2>1, <2>3 DEF apiVars, Reader!ReaderNext, Reader!Rewrite
  <2> QED
    BY <2>2, <2>3
<1>3. ASSUME NEW t \in Threads, Ask(t), UNCHANGED <<downloadVars, source>>
      PROVE  ApiInv' /\ Reader!Ask(t)
  <2>1. disk' = disk /\ source' = source
    BY <1>3 DEF downloadVars
  <2>2. CASE ReadAt(t)
    BY <2>1, <2>2, StartStep, ApiAssumption DEF ReadAt
  <2>3. CASE NextChunk(t)
    BY <1>1, <2>1, <2>3, StartStep, ApiAssumption DEF NextChunk
  <2> QED
    BY <1>3, <2>2, <2>3 DEF Ask
<1>4. ASSUME NEW t \in Threads, ReaderStep(t), UNCHANGED <<downloadVars, source>>
      PROVE  ApiInv' /\ Refines(t)
  <2>1. disk' = disk /\ source' = source
    BY <1>4 DEF downloadVars
  <2> QED
    BY <1>1, <1>4, <2>1, FetchRefines, PreadRefines DEF ReaderStep
<1>5. ASSUME Restart, UNCHANGED <<downloadVars, source>> PROVE ApiInv' /\ Reader!Reset
  BY <1>5 DEF Restart, Reset, ApiInv, ApiTypes, downloadVars, Reader!Reset
<1>6. CASE Download
  BY <1>2, <1>6 DEF Download
<1>7. CASE Rest \/ UNCHANGED vars
  BY <1>2, <1>7 DEF Rest, vars, downloadVars
<1>8. CASE (\E t \in Threads : Ask(t) \/ ReaderStep(t)) /\ UNCHANGED <<downloadVars, source>>
  BY <1>3, <1>4, <1>8 DEF Refines, Reader!ReaderNext
<1>9. CASE Restart /\ UNCHANGED <<downloadVars, source>>
  BY <1>5, <1>9 DEF Reader!ReaderNext
<1> QED
  BY <1>6, <1>7, <1>8, <1>9 DEF Next

LEMMA SourceInvariance == Spec => []ApiInv
<1>1. Init => ApiInv
  BY ApiStart DEF Init
<1>2. ApiInv /\ DownloadInv /\ [Next]_vars => ApiInv'
  BY SourceStep
<1> QED
  BY <1>1, <1>2, DownloadInvariance, PTL DEF Spec

\* Every read of every thread ends with digits of its position or an exception, through any
\* number of retries, late answers and answers of another length, and while the file
\* grows; from the API with all of them, from a file perhaps with only the first ones, or
\* none (ApiDigitSource.cpp:58-140, FileDigitSource.cpp:43-51).
THEOREM ReadsAreExact == Spec => ImplementsReader
<1>1. Init => Reader!ReaderInit
  BY DEF Init, ApiInit, Reader!ReaderInit, NoRead, Reader!NoRead
<1>2. ApiInv /\ DownloadInv /\ [Next]_vars =>
        [Reader!ReaderNext]_<<source # "file", disk, seqPos, read, answer>>
  BY SourceStep
<1> QED
  BY <1>1, <1>2, SourceInvariance, DownloadInvariance, PTL
  DEF Spec, ImplementsReader, Reader!ReaderSpec

\* Every variable of the readers and of the download has a value of its type, and
\* a connection carries the one request its thread waits for.
THEOREM SourcesTypeCorrect == Spec => []TypeOK
<1>1. DownloadInv /\ ApiInv => TypeOK
  <2> SUFFICES ASSUME DownloadInv, ApiInv PROVE TypeOK
    OBVIOUS
  <2>1. /\ disk \in Seq(Nat \cup {LineBreak}) /\ buf \in Seq(Nat) /\ (exists \/ disk = <<>>)
        /\ dpc \in {"idle", "get"} /\ (dpc = "idle" => buf = <<>>)
        /\ dpc = "get" => downloaded \in 0..Additional
    BY DEF DownloadInv, DownloadTypes, Bytes, Additional
  <2>2. ASSUME NEW t \in Threads
        PROVE  /\ rpc[t] \in {"idle", "send", "wait"} /\ attempt[t] \in 0..2
               /\ (rpc[t] = "idle") = (read[t] = NoRead)
               /\ rpc[t] # "idle" => Len(got[t]) < read[t].n
               /\ Len(wire[t]) = IF rpc[t] = "wait" THEN 1 ELSE 0
    <3>1. ThreadOK(rpc[t], read[t], got[t], attempt[t], wire[t])
      BY DEF ApiInv
    <3>2. (rpc[t] = "idle") = (read[t] = NoRead)
      BY <3>1, Busy DEF ThreadOK
    <3> QED
      BY <3>1, <3>2 DEF ThreadOK
  <2> QED
    BY <2>1, <2>2 DEF TypeOK
<1> QED
  BY <1>1, DownloadInvariance, SourceInvariance, PTL
=============================================================================
