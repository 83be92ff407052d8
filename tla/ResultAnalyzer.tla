--------------------------- MODULE ResultAnalyzer ---------------------------
(***************************************************************************)
(* analyze() of src/src/result_analyzer/ResultAnalyzer.cpp in one run      *)
(* directory: results.json is split at phrase objects, a thread per part   *)
(* accumulates statistics and writes phrase files into .analyze_tmp, and   *)
(* the main thread merges both.  An analysis may fail (a file that does    *)
(* not open) or be killed, and analyze_results may then be run again.  It  *)
(* may also fail without a word: the code does not look at whether reading *)
(* results.json in parts, or writing the files, goes well.                 *)
(*                                                                         *)
(* results.json is a sequence of phrases [start, words, extra, bytes], and *)
(* ends early if pi_poetry was killed; a file of phrases is the sequence   *)
(* of its lines [start, words].  The JSON syntax is left out: an object is *)
(* its place in the file and the events the parser makes of it.            *)
(***************************************************************************)
EXTENDS PhraseStreamHandler, Ordered, FiniteSetsExt

CONSTANTS Documents,       \* results.json: [phrases, closed, tail], see below
          WordLength,      \* word -> number of characters
          ThreadCounts,    \* values of n_threads
          ReportedWords,   \* top_n_longest_words: 10 in the code
          MaxAnalyses,     \* bound on the calls of analyze()
          MaxSilent        \* bound on the failures of a call that nobody notices

\* Where word j of a phrase starts, and the words of a phrase at their starts.
WordStart(p, j) == p.start + MapThenSumSet(LAMBDA i : WordLength[p.words[i]], 1..(j - 1))
Occurrences(p) == {<<p.words[j], WordStart(p, j)>> : j \in DOMAIN p.words}

ASSUME AnalyzerAssumption ==
  /\ ThreadCounts \subseteq Nat /\ ReportedWords \in Nat
  /\ MaxAnalyses \in Nat /\ MaxSilent \in Nat
  /\ WordLength \in [DOMAIN WordLength -> Nat]
  /\ \A d \in Documents :
       /\ d.closed \in BOOLEAN /\ d.tail \in Nat /\ d.phrases \in Seq(ToSet(d.phrases))
       /\ \A k \in DOMAIN d.phrases : /\ d.phrases[k].start \in Nat /\ d.phrases[k].bytes \in Nat \ {0}
                                      /\ d.phrases[k].words \in Seq(DOMAIN WordLength)
                                      /\ FurtherMembers(d.phrases[k].extra)
       \* The phrases are of one text: what starts at one offset and is as long is the same.
       /\ \A k, l \in DOMAIN d.phrases :
            \A x \in Occurrences(d.phrases[k]), y \in Occurrences(d.phrases[l]) :
              x[2] = y[2] /\ WordLength[x[1]] = WordLength[y[1]] => x[1] = y[1]

VARIABLES doc,             \* the whole objects of results.json, the same in all analyses
          closed,          \* the array and the document end properly
          tail,            \* bytes after the last whole object
          analyses,        \* calls of analyze() so far
          nThreads,        \* n_threads of the last call
          pc,              \* "idle", "single", "parts", "merge"
          chunks,          \* the parts, as [first, last] phrase
          at,              \* per part: the next phrase of its thread
          over,            \* the parts whose thread has ended
          failed,          \* errors: the parts whose thread caught one
          partStats,       \* part_stats
          tmp,             \* .analyze_tmp: <<part, length>> -> lines
          toMerge,         \* lengths that merge_part_files has still to write
          files,           \* length -> lines of phrases_length_<length>.txt
          statistics,      \* statistics.txt: the statistics, <<>> if it is not there or cut off
          outcome,         \* of the last call: "none", "ok", "failed"
          leftovers,       \* history: .analyze_tmp existed when it started
          silent           \* history: its failures that nobody noticed

results == <<doc, closed, tail>>

vars == <<results, analyses, nThreads, pc, chunks, at, over, failed, partStats, tmp, toMerge,
          files, statistics, outcome, leftovers, silent>>

NoFiles == [k \in {} |-> <<>>]
NoStats == [counts |-> [n \in {} |-> 0], offsets |-> [w \in {} |-> 0]]
Put(f, k, v) == [x \in DOMAIN f \cup {k} |-> IF x = k THEN v ELSE f[x]]

Init ==
  /\ \E d \in Documents : doc = d.phrases /\ closed = d.closed /\ tail = d.tail
  /\ analyses = 0 /\ nThreads = 0 /\ pc = "idle" /\ outcome = "none"
  /\ chunks = <<>> /\ at = <<>> /\ over = {} /\ failed = {} /\ partStats = <<>> /\ toMerge = {}
  /\ tmp = NoFiles /\ files = NoFiles /\ statistics = <<>> /\ leftovers = FALSE /\ silent = 0
-----------------------------------------------------------------------------
(* find_phrase_chunk_boundaries: offsets count from array_start.           *)

\* write_json_phrase separates objects by two bytes, ",\n".
ObjectStart(k) ==
  LET start[j \in 1..k] == IF j = 1 THEN 1 ELSE start[j - 1] + doc[j - 1].bytes + 2
  IN  start[k]
Span == ObjectStart(Len(doc)) + doc[Len(doc)].bytes + tail

\* Objects that begin: the last one may be cut off.
Begun == Len(doc) + IF ~closed /\ tail > 2 THEN 1 ELSE 0

Targets(n) == {(Span * k) \div n : k \in 1..(n - 1)}

\* What a scan of results.json may have seen when it ends, as <<the whole objects, those
\* that begin>>: all of them, or fewer when a read fails.
Scans == {seen \in (0..Len(doc)) \X (0..(Len(doc) + 1)) :
            seen[2] \in seen[1]..(IF seen[1] = Len(doc) THEN Begun ELSE seen[1] + 1)}

\* The objects before which a cut is made: the first one, but object 1, that
\* starts at a target or after it.
CutsBefore(n, begun) ==
  {j \in 2..begun : \E t \in Targets(n) :
     t <= ObjectStart(j) /\ (j > 2 => t > ObjectStart(j - 1))}

\* The parts that begin at objects firsts[1], firsts[2], ..., and end with the last
\* whole one.
PartsFrom(firsts, whole) ==
  [c \in DOMAIN firsts |->
     [first |-> firsts[c],
      last  |-> IF c = Len(firsts) THEN whole ELSE firsts[c + 1] - 1]]

\* Mutant of Boundaries: targets in the same gap are not collapsed into one cut.
BoundariesRepeated(n, whole, begun) ==
  LET from(t) == {j \in 2..begun : t <= ObjectStart(j)}
      targets == IF whole = 0 THEN <<>> ELSE [k \in 1..(n - 1) |-> (Span * k) \div n]
      hits    == SelectSeq(targets, LAMBDA t : from(t) # {})
  IN  PartsFrom(<<1>> \o [k \in DOMAIN hits |-> Min(from(hits[k]))], whole)

Boundaries(n, whole, begun) ==
  IF whole = 0 THEN <<>>
  ELSE PartsFrom(<<1>> \o Ascending(CutsBefore(n, begun)), whole)
-----------------------------------------------------------------------------
(* PhraseStatsAccumulator.                                                 *)

Lower(offsets, w, offset) ==
  IF w \notin DOMAIN offsets \/ offset < offsets[w] THEN Put(offsets, w, offset) ELSE offsets

Count(counts, n, by) == Put(counts, n, (IF n \in DOMAIN counts THEN counts[n] ELSE 0) + by)

AddPhrase(stats, p) ==
  [counts  |-> Count(stats.counts, Len(p.words), 1),
   offsets |-> FoldLeft(LAMBDA acc, w : [offsets |-> Lower(acc.offsets, w, acc.offset),
                                         offset  |-> acc.offset + WordLength[w]],
                        [offsets |-> stats.offsets, offset |-> p.start], p.words).offsets]

\* Mutant of Merge: the offset of a later part replaces that of an earlier one.
MergeLast(s, t) ==
  [counts  |-> FoldLeft(LAMBDA c, n : Count(c, n, t.counts[n]), s.counts, SetToSeq(DOMAIN t.counts)),
   offsets |-> FoldLeft(LAMBDA o, w : Put(o, w, t.offsets[w]), s.offsets, SetToSeq(DOMAIN t.offsets))]
Merge(s, t) ==
  [counts  |-> FoldLeft(LAMBDA c, n : Count(c, n, t.counts[n]), s.counts, SetToSeq(DOMAIN t.counts)),
   offsets |-> FoldLeft(LAMBDA o, w : Lower(o, w, t.offsets[w]), s.offsets, SetToSeq(DOMAIN t.offsets))]

\* Longer words first, and of the same length the one that is found earlier (two
\* words of one length do not start at one offset).
Precedes(offsets, w, v) ==
  \/ WordLength[w] > WordLength[v]
  \/ WordLength[w] = WordLength[v] /\ offsets[w] < offsets[v]

\* top_n_longest_words, as write_statistics prints it.
Longest(stats) ==
  LET all       == DOMAIN stats.offsets
      before(w) == {v \in all : Precedes(stats.offsets, v, w)}
      sorted(i) == CHOOSE w \in all : Cardinality(before(w)) = i - 1
  IN  [i \in 1..Min({ReportedWords, Cardinality(all)}) |->
         [word |-> sorted(i), offset |-> stats.offsets[sorted(i)]]]

Statistics(stats) == <<[counts |-> stats.counts, longest |-> Longest(stats)]>>

Line(p) == [start |-> p.start, words |-> p.words]

\* Mutant of FileOf: all phrases go to the file of the writer's first phrase.
FileOfFirst(first, k) == Len(doc[first].words)
FileOf(first, k) == Len(doc[k].words)

\* PhraseFileWriter::write_phrase for phrase k, parsed as p, by a writer whose first
\* phrase was first: the writer truncates a file when it first meets its length.
WritePhrase(dir, key, first, k, p) ==
  Put(dir, key, IF \E j \in first..(k - 1) : FileOf(first, j) = FileOf(first, k)
                THEN Append(dir[key], Line(p)) ELSE <<Line(p)>>)
-----------------------------------------------------------------------------
(* Output that does not reach its file.                                    *)

\* The beginning of a line that is cut off; what follows it is on the same line.
Torn == [start |-> -1, words |-> <<>>]

\* What is in a file when only so many half lines of lines have reached it.
CutShort(lines, halves) ==
  IF halves >= 2 * Len(lines) THEN lines
  ELSE SubSeq(lines, 1, halves \div 2) \o (IF halves % 2 = 1 THEN <<Torn>> ELSE <<>>)

\* How much may have reached each of the files keys of a directory.
Reached(dir, keys) == [keys -> UNION {0..(2 * Len(dir[key])) : key \in keys}]

\* The directory, when so much has.
Kept(dir, reached) ==
  [key \in DOMAIN dir |->
     IF key \in DOMAIN reached THEN CutShort(dir[key], reached[key]) ELSE dir[key]]

\* More failures that nobody notices.
Unnoticed(n) == silent' = silent + n /\ silent' <= MaxSilent
-----------------------------------------------------------------------------
Parts == DOMAIN chunks
Working(i) == at[i] <= chunks[i].last

\* The phrase that the parser of part i reports next, with the objects read so far.
NextPhrase(i) ==
  Parsed(Wrapped(SubSeq(doc, chunks[i].first, at[i])))[at[i] - chunks[i].first + 1]

\* The files that the writer of part i has open, by length.
Opened(i) == {FileOf(chunks[i].first, k) : k \in chunks[i].first..(at[i] - 1)}
OpenedBy(threads) == UNION {{i} \X Opened(i) : i \in threads}

\* analyze() and find_phrase_chunk_boundaries, which takes what it has seen for all.
Analyze(n) ==
  /\ pc = "idle" /\ analyses < MaxAnalyses
  /\ \E seen \in Scans :
       LET whole == seen[1]
           split == IF n > 1 THEN Boundaries(n, whole, seen[2]) ELSE <<>>
       IN  /\ pc' = IF Len(split) > 1 THEN "parts" ELSE "single"
           /\ chunks' = IF Len(split) > 1 THEN split ELSE <<[first |-> 1, last |-> Len(doc)]>>
           /\ silent' = IF Len(split) > 1 /\ whole < Len(doc) THEN 1 ELSE 0
           /\ silent' <= MaxSilent
  /\ at' = [i \in DOMAIN chunks' |-> chunks'[i].first]
  /\ partStats' = [i \in DOMAIN chunks' |-> NoStats]
  /\ nThreads' = n /\ analyses' = analyses + 1
  /\ over' = {} /\ failed' = {} /\ toMerge' = {}
  /\ outcome' = "none" /\ leftovers' = (tmp # NoFiles)
  /\ UNCHANGED <<results, tmp, files, statistics>>

\* analyze() returns, or an exception leaves it.
Return(result) == pc' = "idle" /\ outcome' = result

\* analyze_single_threaded: one phrase from the parser to its file.  The parser
\* reports a failed read of results.json here.
SinglePhrase ==
  /\ pc = "single" /\ Working(1)
  /\ partStats' = [partStats EXCEPT ![1] = AddPhrase(@, NextPhrase(1))]
  /\ files' = WritePhrase(files, FileOf(1, at[1]), 1, at[1], NextPhrase(1))
  /\ at' = [at EXCEPT ![1] = @ + 1]
  /\ UNCHANGED <<results, analyses, nThreads, pc, chunks, over, failed, tmp, toMerge, statistics,
                 outcome, leftovers, silent>>

\* The statistics are written and all files closed, and it does not show if that
\* fails.
SingleEnds ==
  /\ pc = "single" /\ ~Working(1) /\ closed
  /\ \E w \in Reached(files, Opened(1)) : files' = Kept(files, w)
  /\ statistics' \in {Statistics(partStats[1]), <<>>}
  /\ Unnoticed(IF files' # files \/ statistics' = <<>> THEN 1 ELSE 0)
  /\ Return("ok")
  /\ UNCHANGED <<results, analyses, nThreads, chunks, at, over, failed, partStats, tmp, toMerge,
                 leftovers>>

\* The parser meets the end of a file that is cut off; the phrases before it are in
\* their files by then.
ParseError ==
  /\ pc = "single" /\ ~Working(1) /\ ~closed
  /\ \E w \in Reached(files, Opened(1)) : files' = Kept(files, w)
  /\ Unnoticed(IF files' # files THEN 1 ELSE 0)
  /\ Return("failed")
  /\ UNCHANGED <<results, analyses, nThreads, chunks, at, over, failed, partStats, tmp, toMerge,
                 statistics, leftovers>>

\* analyze_chunk in thread i: one phrase from the parser to its part file.
PartPhrase(i) ==
  /\ pc = "parts" /\ i \notin over /\ Working(i)
  /\ LET first == chunks[i].first IN
       tmp' = WritePhrase(tmp, <<i, FileOf(first, at[i])>>, first, at[i], NextPhrase(i))
  /\ partStats' = [partStats EXCEPT ![i] = AddPhrase(@, NextPhrase(i))]
  /\ at' = [at EXCEPT ![i] = @ + 1]
  /\ UNCHANGED <<results, analyses, nThreads, pc, chunks, over, failed, toMerge, files, statistics,
                 outcome, leftovers, silent>>

\* Thread i ends, and its files are closed.
ThreadEnds(i) ==
  /\ pc = "parts" /\ i \notin over
  /\ over' = over \cup {i}
  /\ \E w \in Reached(tmp, {i} \X Opened(i)) : tmp' = Kept(tmp, w)
  /\ UNCHANGED <<results, analyses, nThreads, pc, chunks, at, partStats, toMerge, files, statistics,
                 outcome, leftovers>>

\* The parser meets the end of the part.  PhraseChunkStreamBuf makes an end of the
\* part of a results.json that does not open, or can be read no further; and that
\* the writer's files do not get all of their lines does not show either.
PartEnds(i) ==
  /\ ThreadEnds(i)
  /\ Unnoticed(IF Working(i) \/ tmp' # tmp THEN 1 ELSE 0)
  /\ UNCHANGED failed

\* The thread catches an exception: a directory or a part file does not open, or
\* the reading of results.json ends within an object.
PartFails(i) ==
  /\ Working(i) \/ at[i] = chunks[i].first
  /\ ThreadEnds(i)
  /\ Unnoticed(IF tmp' # tmp THEN 1 ELSE 0)
  /\ failed' = failed \cup {i}

Lengths == {key[2] : key \in {k \in DOMAIN tmp : k[1] \in Parts}}

\* After the joins: the first error is thrown again, or the statistics are
\* merged and written.
JoinThreads ==
  /\ pc = "parts" /\ over = Parts
  /\ IF failed # {}
     THEN Return("failed") /\ UNCHANGED <<statistics, toMerge>>
     ELSE /\ statistics' = Statistics(FoldLeft(Merge, NoStats, partStats))
          /\ toMerge' = Lengths
          /\ pc' = "merge" /\ UNCHANGED outcome
  /\ UNCHANGED <<results, analyses, nThreads, chunks, at, over, failed, partStats, tmp, files,
                 leftovers, silent>>

\* The part files of one length that merge_part_files copies: to copy an empty one is
\* an error of the stream, after which it writes no more.
Copied(len) ==
  {i \in Parts : /\ <<i, len>> \in DOMAIN tmp
                 /\ \A j \in 1..i : <<j, len>> \in DOMAIN tmp => tmp[<<j, len>>] # <<>>}

\* Those files in part order, from each as much as w says.
Merged(len, w) ==
  FlattenSeq([i \in Parts |-> IF i \in DOMAIN w THEN CutShort(tmp[<<i, len>>], w[i]) ELSE <<>>])
AllOf(len) == [i \in Copied(len) |-> 2 * Len(tmp[<<i, len>>])]

\* merge_part_files, one length.  That a part file does not open, is not read to its
\* end, or does not get into the phrase file does not show.
MergeLength ==
  /\ pc = "merge" /\ toMerge # {}
  /\ LET len == Min(toMerge) IN
       /\ \E w \in [Copied(len) -> UNION {0..AllOf(len)[i] : i \in Copied(len)}] :
            files' = Put(files, len, Merged(len, w))
       /\ Unnoticed(IF files'[len] # Merged(len, AllOf(len)) THEN 1 ELSE 0)
       /\ toMerge' = toMerge \ {len}
  /\ UNCHANGED <<results, analyses, nThreads, pc, chunks, at, over, failed, partStats, tmp,
                 statistics, outcome, leftovers>>

\* Mutant of MergeEnds: .analyze_tmp stays.
MergeEndsUntidy ==
  /\ pc = "merge" /\ toMerge = {}
  /\ Return("ok")
  /\ UNCHANGED <<results, analyses, nThreads, chunks, at, over, failed, partStats, tmp, toMerge,
                 files, statistics, leftovers, silent>>

\* .analyze_tmp is removed, and the statistics are closed at last.
MergeEnds ==
  /\ pc = "merge" /\ toMerge = {}
  /\ tmp' = NoFiles
  /\ statistics' \in {statistics, <<>>}
  /\ Unnoticed(IF statistics' # statistics THEN 1 ELSE 0)
  /\ Return("ok")
  /\ UNCHANGED <<results, analyses, nThreads, chunks, at, over, failed, partStats, toMerge, files,
                 leftovers>>

\* The process is killed, or an output file does not open in the main thread, or
\* .analyze_tmp is not removed to the end: the files that are open are cut off, and
\* whatever is in .analyze_tmp stays there.
FailsInSingle ==
  /\ pc = "single"
  /\ \E w \in Reached(files, Opened(1)) : files' = Kept(files, w)
  /\ statistics' \in IF Working(1) \/ ~closed THEN {statistics} ELSE {statistics, <<>>}
  /\ UNCHANGED tmp

FailsInParts ==
  /\ pc = "parts"
  /\ \E w \in Reached(tmp, OpenedBy(Parts \ over)) : tmp' = Kept(tmp, w)
  /\ statistics' \in IF over # Parts \/ failed # {} THEN {statistics} ELSE {statistics, <<>>}
  /\ UNCHANGED files

FailsInMerge ==
  /\ pc = "merge"
  /\ IF toMerge = {}
     THEN /\ \E keys \in SUBSET DOMAIN tmp : tmp' = [key \in keys |-> tmp[key]]
          /\ UNCHANGED files
     ELSE /\ LET len == Min(toMerge) IN
               \/ UNCHANGED files
               \/ \E h \in 0..(2 * Len(Merged(len, AllOf(len)))) :
                    files' = Put(files, len, CutShort(Merged(len, AllOf(len)), h))
          /\ UNCHANGED tmp
  /\ statistics' \in {statistics, <<>>}

AnalysisFails ==
  /\ FailsInSingle \/ FailsInParts \/ FailsInMerge
  /\ Return("failed")
  /\ UNCHANGED <<results, analyses, nThreads, chunks, at, over, failed, partStats, toMerge,
                 leftovers, silent>>

NoMoreAnalyses == pc = "idle" /\ analyses = MaxAnalyses /\ UNCHANGED vars

Next ==
  \/ \E n \in ThreadCounts : Analyze(n)
  \/ SinglePhrase \/ SingleEnds \/ ParseError
  \/ \E i \in Parts : PartPhrase(i) \/ PartEnds(i) \/ PartFails(i)
  \/ JoinThreads \/ MergeLength \/ MergeEnds
  \/ AnalysisFails
  \/ NoMoreAnalyses

Spec == Init /\ [][Next]_vars
-----------------------------------------------------------------------------
Lines == {Line(doc[k]) : k \in DOMAIN doc}
LengthsOfDoc == {Len(doc[k].words) : k \in DOMAIN doc}
LinesOf(len) == {l \in Lines : Len(l.words) = len}

\* A file holds lines of its length only, but for those that were cut off.
TypeOK ==
  /\ \E d \in Documents : doc = d.phrases /\ closed = d.closed /\ tail = d.tail
  /\ analyses \in 0..MaxAnalyses /\ silent \in 0..MaxSilent
  /\ pc \in {"idle", "single", "parts", "merge"} /\ outcome \in {"none", "ok", "failed"}
  /\ DOMAIN at = Parts /\ DOMAIN partStats = Parts /\ failed \subseteq over /\ over \subseteq Parts
  /\ \A i \in Parts : at[i] \in chunks[i].first..(chunks[i].last + 1)
  /\ \A key \in DOMAIN tmp : /\ key[2] \in LengthsOfDoc
                             /\ tmp[key] \in Seq(LinesOf(key[2]) \cup {Torn})
  /\ DOMAIN files \subseteq LengthsOfDoc
  /\ \A len \in DOMAIN files : files[len] \in Seq(LinesOf(len) \cup {Torn})
  /\ toMerge \subseteq LengthsOfDoc

\* ResultAnalyzer.hpp:20-26: the parts are up to n_threads contiguous groups of
\* at least one object, that do not overlap and leave nothing out, unless reading
\* results.json has failed; then, or if it is cut off, the last one may be empty.
PartsPartition ==
  pc \in {"parts", "merge"} =>
    /\ Len(chunks) \in 2..nThreads
    /\ chunks[1].first = 1 /\ Last(chunks).last <= Len(doc)
    /\ silent = 0 => Last(chunks).last = Len(doc)
    /\ \A i \in Parts : \/ chunks[i].first <= chunks[i].last
                        \/ i = Len(chunks) /\ (~closed \/ silent > 0)
    /\ \A i \in 1..(Len(chunks) - 1) : chunks[i + 1].first = chunks[i].last + 1

\* What results.json says, without threads or files.
ExpectedFiles ==
  [len \in LengthsOfDoc |->
     LET places == Ascending({k \in DOMAIN doc : Len(doc[k].words) = len})
     IN  [j \in DOMAIN places |-> Line(doc[places[j]])]]
WordsOfDoc == UNION {ToSet(doc[k].words) : k \in DOMAIN doc}
Offsets(w) ==
  {x[2] : x \in {y \in UNION {Occurrences(doc[k]) : k \in DOMAIN doc} : y[1] = w}}
ExpectedCounts ==
  [len \in LengthsOfDoc |-> Cardinality({k \in DOMAIN doc : Len(doc[k].words) = len})]

\* Each reported word at its first offset, behind just the words that beat it.
LongestAreReported(longest) ==
  /\ Len(longest) = Min({ReportedWords, Cardinality(WordsOfDoc)})
  /\ \A i \in DOMAIN longest :
       /\ longest[i].word \in WordsOfDoc /\ longest[i].offset = Min(Offsets(longest[i].word))
       /\ {v \in WordsOfDoc : \/ WordLength[v] > WordLength[longest[i].word]
                              \/ /\ WordLength[v] = WordLength[longest[i].word]
                                 /\ Min(Offsets(v)) < longest[i].offset}
            = {longest[j].word : j \in 1..(i - 1)}

\* An analysis that returns, and of which no failure went unnoticed, has written what
\* results.json says, whatever the number of threads
\* (tests/test_analyze_results.cpp:633): the statistics always, the phrase files when
\* no earlier analysis has left parts behind.  Of a file that is cut off, that is its
\* whole objects.
MatchesSerial ==
  outcome = "ok" /\ silent = 0 => /\ statistics[1].counts = ExpectedCounts
                                  /\ LongestAreReported(statistics[1].longest)
                                  /\ ~leftovers => files = ExpectedFiles

\* .analyze_tmp is gone when an analysis in parts returns, and never changes
\* under an analysis that does not use it (merge_part_files, ResultAnalyzer.cpp:275).
TempDirRemoved ==
  /\ outcome = "ok" /\ Len(chunks) > 1 => tmp = NoFiles
  /\ outcome = "ok" /\ Len(chunks) = 1 => (tmp # NoFiles) = leftovers

\* README.md:296 says of the phrase files that each line is a phrase found in
\* the results.  Not so after a failed analysis in parts: merge_part_files takes
\* the part files it finds, those of the earlier analysis included.
PhraseFilesHoldResults == outcome = "ok" => files = ExpectedFiles
=============================================================================
