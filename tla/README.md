# TLA+ specifications of pi_poetry

pi_poetry reads the digits of pi, maps them to letters, searches the letters for dictionary
words and writes the phrases (words without a gap between them) to `results.json`. These
modules model the programs as they are in `src/`: the download of digits and the sources they are
read from, the threads and queues of the parallel pipeline, the word search, the two modes of
scanning, the result analyzer, the mapping generator and the configuration. TLC checks them on small
instances, and TLAPS proves the safety properties of the queue, of the reorder buffer, of the whole
parallel pipeline, of the word search, of both modes of scanning, of the digit sources, of the mapping
generator and of the result analyzer, for instances of every size.

`PROJECT.json` lists the components, the runs, the hazards in the code with the properties
that watch them, what the code and its documentation disagree about, the theorems, and for each
definition the lines of source it models.

    tlc -workers 2 -config Pipeline.cfg MCPipeline      # a run
    tlapm BoundedQueueProofs.tla                        # the proofs of a module

## 1. The system

```
 pi_download --> digits file / API            gen_mapping --> mapping file     pi_poetry.stop
                      |                                         |                  |
   DigitDispatcher --> feeders --digitQ--> mappers --letterQ--> finders --comboQ-->
   scanners --phraseQ--> writer [ReorderBuffer] --> results.json --> analyzer threads
                                                                  --> statistics.txt,
                                                                      phrases_length_N.txt
```

| Component | State | Operations | Talks to |
|---|---|---|---|
| Bounded queue (`BoundedQueue.hpp`) | queue, `done_`, a mutex, two condition variables | `push`, `pop`, `set_done` | threads on both sides |
| Digit dispatcher and feeders (`DigitDispatcher.hpp`, `Pipeline.cpp`) | `next_seq_`, `stop_requested`, `active_feeders` | claim a chunk with lookahead, look for the stop file | digit source, digitQ |
| Digit sources (`FileDigitSource.cpp`, `ApiDigitSource.cpp`) | file position; `seq_pos_`, an HTTP connection per thread | `next_chunk`, `read_at`, `reset` | disk, network |
| Stage runner and workers (`StageRunner.hpp`, `Pipeline.cpp`) | `active_`, thread list | start, worker loop, join; `process` of three workers | two queues each |
| Digit mappers (`MappingFileMapper.cpp`, `TwoDigitBlockMapper.cpp`) | table | read and validate a mapping file, `map` | mapper workers |
| Word finder (`AhoCorasickCPU.cpp`) | trie, failure and output links | `insert_word`, `build`, `scan_chunk`, `apply_policy_cb` | finder workers |
| Phrase scanner (`HumanReviewScanner.cpp`) | the pending phrase (streaming) | `process_words`, `process_words_streaming`, `flush_streaming` | scanner workers |
| Reorder buffer and writer (`ReorderBuffer.hpp`, `Pipeline.cpp`) | `pending_`, `final_idx_`, `next_chunk_` | `submit`, `drain`, `drain_all` | phraseQ, results.json |
| `Pipeline::run`, `run_parallel` (`Pipeline.cpp`) | the threads, the output files | the serial loop; start, join, close | everything above |
| Result analyzer (`ResultAnalyzer.cpp`) | statistics and phrase files of each part, `.analyze_tmp` | split, analyze a part, merge | results.json |
| Mapping generator (`GenMapping.cpp`) | slot counts, assignments | count, allocate, assign, shuffle, write | dictionary, mapping file |
| Download (`download_pi.cpp`) | length of the file | request, append, resume | network, file |
| Configuration validator, `main` programs | none | checks of settings, wiring | all |

What is hard, and what makes each component correct:

* **Queue.** Threads wait on two condition variables, woken one at a time; the last producer to
  leave closes the queue. No wakeup may be lost, nobody may wait for ever, no push may meet a
  closed queue (the package would vanish silently), and each item must come out once and in order.
* **Feeders.** The end of the digits, a stop request, a failed and a throwing read all race with
  the claims of other feeders. A claimed chunk that is not delivered is a hole behind which
  the writer holds everything back.
* **Writer.** Packages arrive in any order, also the final one of a chunk before the others.
  Readiness is decided by a count, but the packages are then looked up by index with `at()`.
* **Composition.** Five stages block on four bounded queues: a cycle of waiting, an early close or a
  late one would hang the run or drop output. `results.json` must not depend on the scheduling.
* **Word finder.** Output links and missing transitions are only right if they are computed breadth
  first; a scan must report each occurrence of nested and overlapping words once.
* **Chunk geometry.** A word may straddle chunk boundaries: the lookahead must be long enough
  and the filter on the start must be exact. The serial mode does without either because
  the automaton state is carried over.
* **Digit sources.** A request may be lost, late, refused, short, empty or answered with nonsense, and
  is repeated on a connection that is kept; whatever happens, a read must return the digits of its
  position, and it must return.
* **Download.** It may fail, be killed or meet a full disk at any byte, is resumed by the length of the file,
  and `pi_poetry` may be reading that file. No digit may be repeated, lost or moved.
* **Mapping generator.** The shares are rounded down and what is left is handed out; all combos must
  be used, in proportion, and a file that is written partly must not pass for a whole one.
* **Configuration.** The loops rely on chunk sizes and lengths of at least one; only `validate_config` sees to it.
* **Analyzer.** The file is cut at byte offsets into parts; the merged statistics and files must be
  those of one thread, also after an earlier analysis failed. The parser reports events, and the
  handler must tell the words of a phrase from whatever else an object holds. Reading in a thread, the merge
  and all writes may fail without an error, and an analysis may then return with something missing.

## 2. Modules

```
 Channel <---implements--- BoundedQueue <--- BoundedQueueProofs
   ^
   |  ReorderBuffer <--- ReorderBufferProofs
   |      ^
 StageRunner (x3), DigitFeeders, ReorderBuffer, Channel ---> Pipeline ---implements--> SequentialOutput
   ^                                                            ^
 StageRunnerProofs (x3) <----------------------------------- PipelineProofs

 Configuration ----+
                   v
 WordPolicies <--- ScanInput <--- SerialRun, ChunkedRun <--- ScanModes
      ^ justified by                                            |
 AhoCorasick <---------------------------------------- WordSearchProofs
      ^                                                         |
   Ordered <-------------------------------------------- OrderedProofs

 DigitDownload, ApiReader ---> DigitSources ---implements--> DigitReader
                                    ^-- DigitSourcesProofs
 MappingFileMapper <--- GenMapping <--- ToolsProofs (with OrderedProofs)
 PhraseStreamHandler <--- ResultAnalyzer <--- ToolsProofs (Ordered, OrderedProofs too)
```

`MC*` modules give TLC the values that a `.cfg` file cannot write down.

| Module | Models | State and actions |
|---|---|---|
| `Channel` | what a queue promises: a bounded FIFO that can be closed | `buf`, `closed`; `Send`, `Receive`, `Lose`, `Close` |
| `BoundedQueue` | the monitor and its threads | `q`, `done`, `active`, program counters `ppc`, `cpc`. One action is one critical section of `mu_`: `PushBlocks`/`PushReturns`, `PopBlocks`/`PopItem`/`PopReturnsFalse`, closing, spurious wakeups. `notify_one` wakes any one of the waiters |
| `ReorderBuffer` | `ReorderBuffer.hpp` and the writer's loop | `pending`, `finalIdx`, `nextChunk`, `written`; `upstream` holds packages that have not arrived, and may never arrive |
| `StageRunner` | a stage's workers between two channels | `pc`, `todo`, `active`; `Claim`, `Emit`, `Leave`, `CloseOut` |
| `DigitFeeders` | stage 1 of `run_parallel` | `fpc`, `nextSeq`, `activeFeeders`, `stopRequested`, `stopFile`; `CheckStop`, `ClaimChunk` (the `fetch_add`), `ReadChunk` or `ReadThrows` (`read_at`), `PushChunk`, `CloseDigitQ`, `CreateStopFile` |
| `Pipeline` | `run_parallel` | everything composed; `faults` of the run (reads that fail or throw, an output that does not open), crash on an exception that nothing catches, `Finish` after the joins |
| `SequentialOutput` | what `run_parallel` promises | whole chunks are appended in order, and then the run ends |
| `AhoCorasick` | the automaton | a node is the string that leads to it; `InsertWord`, `BuildRoot`, `BuildNode` (one turn of the BFS), `ScanCharacter` |
| `Ordered` | the loops that go through letters or positions in ascending order | operators only: `Ascending`, `Selected` (the members of a sequence at some places, in order), `Suffix` |
| `WordPolicies` | matches, chains of both policies, phrases | operators only: the policies `Etl` and `AllCombos`, `ProcessWords` and its `WithWord` |
| `Configuration` | `validate_config` and the defaults of `main` | operators only: `Errors`, the settings there is an error about, over settings that are left out or of any type |
| `ScanInput` | the input of a run, as `main` makes it of an accepted configuration: digits, mapper, dictionary, settings | chunk snapping, `MapDigits`, and the occurrences of words told without a scan |
| `SerialRun` | `Pipeline::run` | `ScanNext` per chunk, `EndOfDigits` (policy), `EmitSequence` per chain through the streaming scanner |
| `ChunkedRun` | the data path of `run_parallel` | `ProcessChunk`: dispatcher, mapper, finder, scanner for one chunk |
| `ScanModes` | both modes on the same input | serial run, then chunked run |
| `ResultAnalyzer` | `analyze()` in one run directory, called repeatedly | split, one phrase at a time per thread, joins, merge of statistics and files; loud failures, kills, and the failures the code does not look at (`silent` counts them): the scan for cuts ends early (`Scans`), a thread does not get all of its part (`PartEnds`), a file does not get all of its lines (`Kept`, `CutShort`, `Torn`), a part file is not copied (`Merged`); a `results.json` that is cut off (`closed`, `tail`) |
| `PhraseStreamHandler` | the SAX callbacks | operators only: one per callback, folded over the events of a document; `Wrapped` is what `PhraseChunkStreamBuf` presents of the objects it gets to read |
| `DigitDownload` | `pi_download`, invoked repeatedly on one file | `disk`, `buf` (the stream's buffer), `downloaded`; `Resume` (`--file`), `Fresh` (`--output`), `GetContent`, `Spill`, `DownloadEnds`, `DownloadFails`, `Kill` |
| `ApiReader` | `ApiDigitSource`, and `pread`, which may fail or read fewer bytes | per thread the read in progress, the attempt and the `wire` of its connection; `Send`, then `GetDigits`, `GetStatus`, `GetNonsense` or `GetNothing` |
| `DigitReader` | what a `DigitSource` promises | a read is asked, and answered with digits of its position or an exception: from the API with all of them, from a file perhaps with the first of them only, or none |
| `DigitSources` | a source and its readers | a file that is downloaded and read, the API under feeders, the API in serial mode |
| `MappingFileMapper` | its constructor | operators only: `Accepted`, `Table` |
| `GenMapping` | `gen_mapping` | `AllocateSlots`, `AssignCombos`, `Shuffle` (one swap), `WriteMappingFile`, `WriteStops` |

Choices that need a reason:

* *One action per critical section.* In `BoundedQueue` all shared state is guarded by `mu_`, and the
  notifications are sent while it is held; code outside the mutex touches only the thread's own
  data and the atomic counter `active_`. A woken thread is back at the head of its operation and
  competes for the mutex with everybody else.
* *Channels in `Pipeline`.* The stages use `Channel` operations: `BoundedQueue` is proved to
  implement `Channel`, so composing the pipeline from the abstract queue is sound for safety;
  that blocked threads are woken is `NoLostWakeup` and `EveryoneFinishes` of the monitor.
* *`pop` and `process` are one step.* `process()` of the workers reads shared objects that
  no longer change (mapper table, automaton) and keeps nothing between packages.
* *`next()` is two steps*, the claim and the read: others go on claiming, pushing and writing while a read
  waits, or is about to throw.
* *Output that is not looked at.* A stream of the analyzer that fails loses the end of what was written to it, at a
  line or within one. When that happens is not observable before the stream is closed, so the model lets the
  file lose its end when its writer ends, fails or is killed.
* *The stop test is one step.* `stop_requested` only goes from false to true, so the two loads
  around `exists()` have the outcome of one test at the moment of the second.
* *One action per chunk in `ChunkedRun`.* The workers carry no state from chunk to chunk and
  `Pipeline` shows that the chunks reach the file in order, so the data path of a chunk can
  be taken as one step.
* *Data.* In `Pipeline` the digits of a chunk are its number, and a finder's result is how many
  chains it found (none is a case of its own: it still sends one empty package). In `ScanModes` digits,
  letters and words are real sequences, because every property is about where they start and end.
* *Digits of pi.* In the modules on sources and download, digit `k` is the number `k`: a digit that is out of
  place is then visible, as it would not be among ten values.
* *The connection.* A request on a connection is answered in order, and an answer that comes after
  the timeout is still on its way. That is what makes erasing the client after a timeout
  necessary, and its absence the mutant that breaks `ImplementsReader`.
* *One reader of a file.* `pread` changes nothing another thread could see, so one thread shows what
  any number would; in serial mode there is one thread, and `seq_mutex_` has no contention.
* *Doubles.* The shares of `allocate_slots` are exact quotients in the model. Equal counts give equal
  remainders; those of different counts that should be equal may come out in either order.
* *A file is its lines* in `MappingFileMapper`, and one that is cut off ends in a whole line, or in a part that is malformed
  or a header with fewer figures. `PhraseStreamHandler` works on events.

## 3. Runs

| Run (`.cfg`) | Properties | What it shows |
|---|---|---|
| `BoundedQueue` | `TypeOK`, `NothingDropped`, `ExactlyOnceInOrder`, `NoLostWakeup`, `NoStuck`, `EveryoneFinishes`, `ImplementsChannel` | the monitor is a channel, closes at the right time, wakes enough threads, and every thread finishes |
| `ReorderBuffer` | `TypeOK`, `WrittenInOrder`, `NothingForgotten`, `PromptDrain`, `NeverThrows` | whatever the order of arrival and whatever never arrives, the file is a prefix of the sequential output in whole chunks, held back only by a missing package |
| `Pipeline` | `TypeOK`, `NothingDropped`, `WriterNeverThrows`, `CompleteAtFinish`, `StopIsPrompt`, `EveryRunEnds`, `ImplementsSequential` | all threads together, with a stop file that may appear at any time, reads that fail or throw and an output that does not open |
| `AhoCorasick` | `TypeOK`, `LinksAreLongestSuffixes`, `MatchesAreExact` | links are the longest suffixes at every step of the BFS, and a scan reports exactly the occurrences |
| `ScanModes` | `ScanTypeOK`, `ChunkSizeInvisible`, `EveryWordOnce`, `SameLetters`, `AllCombosLoseOnlyBoundaries`, `OnePhrasePerChain`, `EtlIsGreedy` | what both modes find under every accepted configuration, and exactly which phrases the parallel mode lacks |
| `ResultAnalyzer` | `TypeOK`, `PartsPartition`, `MatchesSerial`, `TempDirRemoved` | any number of threads gives the result of one, unless a failure went unnoticed or an earlier analysis left parts behind; also for values nested in a phrase and for a file that is cut off, of which the whole objects count |
| `DigitSources` | `TypeOK`, `FileInPlace`, `ImplementsReader`, `OnlyFreshTruncates`, `EveryReadEnds` | the file is right through failures, kills and resumptions, and only grows under its readers; a read gives digits of its position, all of them from the API, or throws, and ends |
| `GenMapping` | `FairShares`, `MappingIsUsable` | the combos are used up in proportion; a whole mapping file is accepted, a cut one refused |
| `PipelineReadError` | `AllOutputWritten` (violated) | see section 5 |
| `PipelineStopFile` | `StopFileConsumed` (violated) | see section 5 |
| `ScanModesOverlap` | `NoOverlapInResults` (violated) | see section 5 |
| `ResultAnalyzerStale` | `PhraseFilesHoldResults` (violated) | see section 5 |

Bounds, and why they are enough:

* `BoundedQueue`: two producers, two consumers, two slots, two items each. Two of each
  kind is what it takes for one to be woken and another to take its item; four items over two slots
  fill the queue, so both condition variables have waiters, also several at once.
* `ReorderBuffer`: four chunks of 1, 3, 2 and 1 packages, in every order of arrival and
  with every set of packages that never arrive. A chunk in the middle can complete first and
  then be released together with its successors.
* `Pipeline`: two feeders, a mapper, a finder and two scanners, three chunks with 2, 0 and 1 chains,
  and one slot per queue, so that every queue fills and every stage blocks. A run goes well, or chunk
  1 fails to be read, or it throws, or chunk 1 fails and chunk 2 throws; in the last two the output may not open.
* `AhoCorasick`: five dictionaries over two letters whose words are prefixes, suffixes and
  infixes of each other, one with a duplicate and two with a word that holds a non-letter; every text of up to
  four characters with non-letters and all of six letters; minimum lengths 1 and 2. A failure
  link can then lead to a node two or three levels up, and an output link can skip nodes.
* `ScanModes`: every text over two digits of length 1 to 5 (one digit per character, chunks of
  1 to 3) and of length 5 and 6 (two digits per character; a chunk size of 1 is snapped to 2), with
  `max_digits` absent or cutting a chunk in two. With words of up to four letters and chunks of one, a
  word spans up to four chunks. Settings that are left out, of another type, or refused (one for each
  kind of check) join in for the texts of four digits.
* `ResultAnalyzer`: eight documents of none to three phrases, three of them cut off and one with an object, an
  array and a number among the keys of its phrases; one to three threads, two analyses in a row, so that the
  second can find what a failed first one left, and in each one failure that nobody notices (`MaxSilent`), of whatever
  kind and size. The object with 71 bytes attracts both cut targets
  into one gap. Two words are reported, of three, instead of ten. `ResultAnalyzerStale` uses
  the same documents, without a silent failure.
* `DigitSources`: two downloads of 3 or 5 digits in requests of 2, into a file that is missing, empty, holds one or
  three digits, or ends in a line break: the last request is shorter than the others, and a second
  download resumes, meets or overwrites what the first one left at any byte. Two threads read twice each,
  3 digits at offset 0 or 2 in requests of 2, so a read takes two requests or more and every attempt may
  fail; one answer without digits (`MaxEmpty`).
* `GenMapping`: every pair of counts up to six, some triples in which shares tie or round alike, eleven
  letters (too many for ten combos) and one letter on a hundred combos. `Shuffle` reaches every order of the
  ten characters.

Deadlock is checked in every run. Where the program ends, the specification has an explicit `Terminated`
step (`NoMoreAnalyses` in the analyzer), so a deadlock TLC reports is threads waiting for each other.

**Fairness.** Liveness (`EveryoneFinishes`, `EveryRunEnds`) assumes weak fairness of each thread's
step: the operating system runs every runnable thread, and a thread that waits on a condition
variable is not runnable until it is notified. Nothing is assumed of spurious wakeups. Weak
fairness is enough for a push that competes for a slot, because in these runs each thread makes a bounded number of
items and the competition ends. In `Pipeline` opening the output is fair as a pair (it opens or
it fails), a feeder about to throw throws, and nothing obliges anybody to create the stop file.
`EveryRunEnds` takes it that `read_at` returns or throws. `EveryReadEnds` of `DigitSources` shows that it does, by
weak fairness of each reading thread: a request is answered, or the client's timeout of 30 seconds
ends it (`GetNothing`). It does not if the service answers without digits for ever; `MaxEmpty` bounds that.
Nothing is assumed of the download, and nobody has to read.

## 4. Proofs

`BoundedQueueProofs` proves, for all finite nonempty sets of producers and consumers, every
capacity and every number of items:

* `Invariance`: `Spec => []IInv` with
  `IInv == TypeOK /\ InHand /\ ActiveCount /\ LastOneOut /\ StoppedLate /\ NoLostWakeup`.
  `NothingDropped` alone is not inductive: that no producer is pushing when the queue closes
  follows from the atomic counter being exactly the number of producers in their loop
  (`ActiveCount`), so that the one that takes it to zero is the last (`LastOneOut`). `NoLostWakeup` is
  the counting argument about `notify_one`: while somebody waits for an item, there are at
  least as many consumers on their way as items in the queue, and likewise for slots. It needs
  lemmas on the cardinality of a set that gains or loses a member.
* `TypeCorrect`, `NeverDropped`, `WakeupsSuffice`, `DeliveredOnce` (exactly once, in the
  producer's order) and `MonitorIsChannel` (the monitor implements `Channel`).
* `NeverStuck`: with `Capacity >= 1` somebody can always run while somebody waits. The assumption
  is needed: `queue_size` is not validated by the program, and with 0 every push blocks for ever.

`ReorderBufferProofs` proves, for every number of chunks and packages (at least one in each chunk):

* `Invariance` with `IInv == TypeOK /\ NothingForgotten /\ FinalKnown /\ NeverThrows /\ WrittenInOrder /\
  PromptDrain`. The step that matters is `AtFinds` from `Ready`: the indices present are a subset of
  `0..K` and there are `K + 1` of them, so they are all of it. `FinalKnown` ties `final_idx_`
  to the package that carries the flag, and `NothingForgotten` makes a chunk that is not ready
  lack a package upstream, which is `PromptDrain`.
* `TypeCorrect`, `InOrder`, `NoneForgotten`, `Prompt` and `AtNeverThrows`.

`StageRunnerProofs` is about one stage, for any workers, capacities and processing; it has no initial state of
its own, since a stage's queues belong to its neighbours too.

* `StageStep`: every step of a worker preserves `StageInv`, which counts the workers in their loop (`Counted`), says
  that one leaves with empty hands, at a closed queue with nothing left (`LeftBehind`), and that the one
  that closes is the last (`OneCloses`). `StageUndisturbed` is the same for the steps of the neighbours.
* `StageProperties`: under `StageInv` no push meets a closed queue, and a closed queue means that all that went in is out.
* `Flow`: what becomes of a package in a step: it stays where it is, moves to the worker that claims it
  and turns into the packages `Process` makes of it, or moves on to the next queue. Nothing is
  lost on the way and nothing comes from nowhere.

`PipelineProofs` instantiates it for the mappers, finders and scanners, and proves, for any threads (a finite
nonempty set in each stage), capacities, chunks and chains per chunk, and whatever reads fail or throw:

* `Invariance` of an invariant of ten parts, which TLC checked on the instance of the run before it was proved.
  `FeedersInv` counts the feeders in the manner of a stage. `OutOfDigits`: one that left without a stop request
  did so at a chunk that has no digits, or whose read failed. `NothingLost` follows each chunk that was claimed and
  can be read: it is with a feeder, a mapper or in a queue, or each of its packages is on
  its way or in the reorder buffer, or it is written. `NothingInvented` is the converse for a chunk whose read failed: it
  is nowhere, so the writer does not get past it. `WriterInv` ties `final_idx_` to the packages that carry the flag.
* `NothingIsDropped` (`NothingDropped`) needs the closing rules of all stages at once: each queue is closed by the
  last of its producers only, and the producers leave at a closed queue only.
* `WriterIsSafe` (`WriterNeverThrows`): `at()` finds every package of a chunk that the count declares ready, since the
  packages of a chunk are told apart by their index.
* `Complete` (`CompleteAtFinish`): when the writer is done, the queues and the hands of all workers are empty
  (`AtTheEnd`); what `NothingLost` says of a claimed chunk then leaves only the reorder buffer, where a chunk
  is released unless one before it is missing, and by `NothingInvented` the chunk that is missing is one whose read failed.
* `StopsPromptly` (`StopIsPrompt`): `LateOnce` says that a feeder takes at most one chunk after the stop file appears, the one
  it was about to.
* `Implements`: `Pipeline` implements `SequentialOutput`, step by step.

The assumptions are those on the constants (`CapacityAssumption`, `ThreadsAssumption`, `ChunksAssumption`). A capacity
may be 0, as `queue_size` is not validated: such a pipeline hangs, but writes nothing wrong.

`WordSearchProofs` proves, for any alphabet of distinct letters, any dictionaries, least word lengths and texts
(`AlphabetAssumption`, `InputAssumption`: they only say which values are strings):

* `Invariance` of `IInv`, which has a part for each piece of the automaton. `TrieInv`: the trie is prefix-closed. `QueueInv` is
  what breadth first means: the queue holds the nodes whose parent is complete and that are not, once each, by depth, the
  depths in it differ by one at most, and every shallower node is complete. So when a node comes to the head, its failure node,
  being shorter, has all its transitions and its output link, which is what `build()` relies on at lines 57 to 66.
  `ChildrenInv`, `FailureInv` and `OutputInv` say that each link leads to the longest suffix there is.
* The lemma that carries it is `LongestExtends`: if `x` is the longest suffix of `s` that is a node, the longest suffix
  of `s` followed by `c` is that of `x` followed by `c`. It is why one transition from the failure node gives a
  failure link (`TransitionIs`), and why the state alone, without the text, is enough for the scan (`ReadStep`).
  `OutputExtends` is the same for words and the output links.
* `OutputsAre`: the chain of output links from a node holds all the words the node ends with, longest first. Both this chain
  and `Expected` are recursive functions; that they are what their equations say is proved from the least-number principle
  (`Least`, `UpTo` of `OrderedProofs`), by looking at the shortest string where they would not be.
* `TypeCorrect`, `LinksCorrect` (`LinksAreLongestSuffixes`) and `ScanCorrect` (`MatchesAreExact`).

It also proves every property of the scan modes, for any digits, mapping, dictionary, minimum lengths, chunk size and
`max_digits` that a configuration allows (`ScanInputAssumption`: digits are digits, a mapping has at least one digit per
character, the dictionary is finite, and a setting of type integer has an integer value):

* `ScanInvHolds`: `SerialText` (the letters read so far are a prefix of the text, the state of the automaton is the one that
  text leads to, and `raw` holds the words found in it) and `ChunkedText` (the chunks so far wrote the letters up to the boundary, and found each word that starts there once).
  `ScannedTo` is what a scan has found after `n` letters: the state is the longest suffix of them that
  begins a word (`HeadsAre`, from `LongestExtends`), so the words that end there are found, and no more is needed than the state.
* `ChunkSizeInvisibleHolds` (`ChunkSizeInvisible`) and `SameLettersHolds` follow. For `EveryWordOnceHolds` (`EveryWordOnce`) a
  word that starts in a chunk must also end in what the chunk is given: `LookaheadIs` is about the lookahead, and `RealMatchesAre`
  about the filter on the start, which keeps a word for exactly one chunk.
* Earliest-then-longest: `GreedyIs` goes through the starts in order with `scanPos`, as the loop does. What is picked are matches apart from each
  other, and each start that is not picked lies inside one that is. `RunsAre` cuts them where `consecutive` is false. So `EtlIs` says that the chains
  are the maximal runs of these matches, less those that are too short, and `EtlIsGreedyHolds` (`EtlIsGreedy`) says it of each chunk.
* All combos: the map `from` is the solution of a recursive equation, from the last start to the first (`FromIs`). `FromHas`, `FromAll` and
  `FromOnce` say that it holds each linked sequence of matches, once: alone or continued. `AllCombosIs` adds the marks and the minimum.
* `ProcessWordsIs` and `StreamedIs`: the scanner of the parallel mode, which sorts the words of a chain, and the streaming one of the
  serial mode, which gets them one by one, both make one phrase of a chain. With `ChunkChains`, and in the serial mode `SerialPhrases` (what is
  emitted so far are the phrases of the chains that are no longer waiting), that is `OnePhrasePerChainHolds` (`OnePhrasePerChain`). In both modes
  the phrases come in ascending order of their starts: within a chunk as the policies give them, and from chunk to
  chunk since a phrase starts in its chunk (`OutputAscends`).
* `AllCombosLoseOnlyBoundariesHolds` (`AllCombosLoseOnlyBoundaries`): the phrases of the whole text (`TextPhrases`) and of a chunk (`ChunkPhrases`) are
  the linked sequences of its words. One of them is found by the chunk in which its last word starts or by none (`PhrasesOfChunk`), and so each of those that
  are found is found once (`PhraseOnce`).
* `ScanTypeOKHolds` (`ScanTypeOK`).

`DigitSourcesProofs` proves, for any totals, request limits, initial files (in place, perhaps with a line break at
the end), threads, offsets and numbers of downloads and reads:

* `DownloadInvariance`: while a download runs and no response had another length than asked for, the file
  and the buffer behind it are together the digits `1..startOffset + downloaded`; between downloads the
  file is in place. `FileInPlace` is not inductive without the buffer, since `Spill` and `Exit` move
  digits from it to the disk.
* `DownloadCorrect` (`FileInPlace`), `ResumeKeepsFile` (`OnlyFreshTruncates`) and `SourcesTypeCorrect`.
* `ReadsAreExact`: the sources implement `DigitReader`. The invariant is that what a thread has got are the
  digits from the offset of its read on, and that on its connection there is the request it
  waits for, and no other: the answer it takes is then the answer to that request. That a connection belongs to one thread
  is not proved: the client is `thread_local`, and the model has a `wire` for each thread. A read of the file
  keeps less: after an error or a short `pread` it returns fewer digits than are there, perhaps none, and no exception.

The assumptions are those stated with the constants (`DownloadAssumption`, `InitialFilesAssumption`,
`ApiAssumption`): among them `MaxPerRequest >= 1`, which the program does not check.

`ToolsProofs` proves of `gen_mapping`, for any dictionary with finitely many letters and any number of digits per combo:

* `SharesFair` (`FairShares`), from `FreqInv`: the counts are positive. The shares are sums over a set of letters,
  which `SumsExist` ties to their equation by induction over the subsets of a finite set (`BySubsets` of `OrderedProofs`,
  from the least-number principle). `SharesAre` is the argument the code relies on: the
  remainders add up to a whole number of totals, as many as there are combos left over, so there are fewer of those than
  letters with a remainder, and a lucky letter, being among the first by remainder, has one. Its share is then
  the ceiling and not above it. Whichever order the sort gives letters of equal remainders is covered.
* `MappingUsableAlways` (`MappingIsUsable`), with `DealInv`: the letters dealt out are those of the slots, each as often as it
  has slots, since they are dealt in consecutive intervals (`DealtAre`), and one swap of the shuffle keeps
  that (`SwapDeals`). `PowInt` and `Value` are recursive functions, and a combo and its number determine each
  other (`Combos`), so a file written whole has one entry for each combo (`MappingUsable`). A file
  that was cut off lacks an entry, or ends in a malformed line or in a header with another number of digits
  (`CutIsRefused`).

The assumption is that of `GenMapping`: letter counts are numbers, for finitely many letters, and there is at least one digit.

Of the result analyzer it proves, for any results, closed or cut off, any thread counts and number of analyses:

* `AnalyzerInvariance`: the parts of an analysis in progress are the `Boundaries` for its threads in what the scan saw of the
  file (`Scanned`, `Divided`), which is all of it unless `silent > 0`, and `.analyze_tmp` is the one that was found
  until an analysis in parts uses it (`PhaseInv`, `TempInv`).
* `PartsAreAPartition` (`PartsPartition`). The objects start in order (`Starts`, `StartsGrow`), so each cut has a target of its own, between
  the start of the object before and its own (`CutsAre`): there are fewer cuts than threads, and since targets in
  one gap are one cut, no part is empty. The last one of a file that is cut off may be. When reading the file failed unnoticed, this
  is so of what was seen.
* `TempDirIsRemoved` (`TempDirRemoved`), through failures, kills and analyses with other numbers of threads.

* `FilesHoldTheirLines` (`TypeOK`), from `DataInv`: every file, of a part and in the end, holds lines of objects of the document with as many
  words as its name says, or lines that were cut off. `ParsedIs` is what carries it: the events of `Wrapped(objects)`, folded through the callbacks, give one line for each
  object and nothing of the values nested in it, since the depth is back where it was after each of them. `CutDown` is that a file that lost its end
  still holds such lines.
* `MatchesSerialHolds` (`MatchesSerial`, for an analysis of which no failure went unnoticed), from `MatchInv` on top of the two invariants above: the statistics of each part are those of its objects before
  its thread (`Gathered`), and every file, of a part or merged, lists the lines of its length in the order of the document, unless an earlier analysis
  left parts behind. `GatheredMore` is one more object, and `GatheredJoined` two neighbouring groups merged: the counts add up, and the offset of a word
  is the lower of two, whichever order the loop takes the words in (`CountsJoined`, `FirstsMerged`). With `PartsPartition` the groups join to the
  whole document (`GatheredAll`, `PartsJoined`). `WordsOrdered` is that the comparison of `top_n_longest_words` is a strict order of
  the words, and `OrderRanks` that such an order has one word of each rank, so that the sort gives what is expected (`LongestIs`).

The assumption (`AnalyzerAssumption`) says that objects have at least one byte, offsets, thread counts and lengths of words are numbers, and what
an object holds apart from `start_offset` and `words` is whole values under other names. It also says that the phrases are of one text:
words of the same length at the same offset are the same word. The offset of a word is counted from the start of its phrase by the lengths of
the words before it; that is its place in the text, since the scanner only joins words with nothing between them.

The inductive invariants are conjunctions of what the runs check and small auxiliary facts. Every safety and action property of a
passing run is proved. Only model-checked is liveness, which is out of the prover's reach (and what the runs with a violation refute).
The library's induction rules cannot be used (they take an operator as a parameter): the least-number principle
(`Least`, `UpTo`, `BySubsets`) replaced them wherever a claim is about the length of a text, and a fold over a sequence is related to a function from the
number of steps to the result (`GreedyIsStepwise`, `RunsAreStepwise`, `StreamsStepwise`, `PhrasesStepwise`, `CountsStepwise`, `MergeStepwise`).

## 5. Where code and documentation disagree

1. **A read error looks like the end of the digits** (`FileDigitSource.cpp:47`;
   run `PipelineReadError`). `read_at` returns 0 for both. One feeder leaves; another claims the next
   chunks; their output waits behind the hole and is dropped by `drain_all`, and `run_parallel` returns
   normally. `docs/queues.md:183` says that all output has been written by then.
2. **A stop file can outlive the run** (`Pipeline.cpp:374`; run `PipelineStopFile`). It is removed only
   if a feeder saw it. One created after the last test stays and stops the next run at once;
   `README.md:83` says that it is deleted.
3. **Overlapping words under earliest-then-longest** (`Pipeline.cpp:169`; run `ScanModesOverlap`). The policy is
   applied to each chunk alone: a word that straddles a boundary overlaps what the next chunk
   chooses. `README.md:158` says that one non-overlapping sequence is picked. Within a chunk
   it is (`EtlIsGreedy`). The comment at `tests/test_parallel_pipeline.cpp:89` accepts that phrases are cut in two at a
   boundary; it does not mention overlaps.
4. **Leftover part files are merged** (`ResultAnalyzer.cpp:267`; run `ResultAnalyzerStale`). An analysis in
   parts that fails leaves `.analyze_tmp`; the next one with other parts merges the files it finds, and
   phrases are listed twice.

Noticed while reading, without a run of their own:

* `main.cpp` never reads `pipeline.mode` and always calls `run_parallel`, so the serial mode of
  `README.md:105` is reached only by the tests.
* The comment at `Pipeline.cpp:186`, that an empty result is only reachable for all-combos without
  matches, leaves out earliest-then-longest and a minimum phrase length that no chain meets.
* The comment at `ResultAnalyzer.hpp:25` gives the number of parts as `min(n_threads, number of phrase objects)`;
  there are fewer when several targets fall into one gap.
* Of a `results.json` that is cut off (a run that was killed), one thread reports a parse error, after it has
  written phrase files, and several threads analyse the whole objects and succeed: the scan for cuts does not
  ask for the end of the array, and `PhraseChunkStreamBuf` supplies one.
* `PhraseChunkStreamBuf` does not ask whether `results.json` opened or why a read gave nothing
  (`ResultAnalyzer.cpp:166`). It goes on to the closing brackets, the parser meets a well-formed list of fewer phrases, or
  none, and `analyze()` returns as if that were all, although `ResultAnalyzer.hpp:32` says that the byte range of the part
  is presented. A read that ends within an object is an error, though. The scan for cuts (line 65), the merge
  (line 271), the phrase files (line 415) and the statistics (line 388) do not look at their streams either.
  The model has all of these failures (`silent` counts them); `MatchesSerial` excepts the analysis they happen in, not the ones after it.
* `download_pi.cpp:151` adds the digits asked for, not those received. A short response puts every
  later digit of the file out of place; `FileInPlace` says so by excepting it (`shifted`).
* `download_pi.cpp:209` does not look at the result of `out.flush()`: with a full disk it prints that all digits
  are written and returns 0 (`unflushed`). `write_mapping_file` never looks at its stream after
  opening it, with the same effect; the next program refuses such a mapping file (`MappingIsUsable`).
* The help of `pi_download` (`download_pi.cpp:39`) says that `--file` cannot be combined with `--output`; the
  combination is taken, and `--output` ignored.
* `docs/architecture.md:75` and `:322` speak of a separate HTTP client per call; the code keeps one per
  thread and host.
* The comment at `GenMapping.cpp:32` says that ties are broken alphabetically. Remainders are doubles, and
  equal ones can come out of the division unequal (counts 13, 4 and 4 on ten combos), hence the choice in `Before`.
* From a dictionary without letters `gen_mapping` writes a file with headers only and returns 0; the
  mapper refuses it, though `README.md:290` says that the file can be used directly.
* `queue_size` and `max_per_request` are not validated; with 0 the program waits, or asks, for ever.

## 6. What is not modelled

* The syntax of JSON, TOML and mapping files, and how `httplib` and `nlohmann::json` work inside: the modules
  take events, settings, lines and answers. Byte sizes are those `write_json_phrase` produces.
* `main.cpp` around the pipeline: the run directory with the time in its name, the copy of the configuration, the
  dry run and the timing output. Two runs in one directory share `pi_poetry.stop`; `Pipeline` is one run.
* Digit files with characters other than digits, but for the line break that `pi_download --file` refuses.
  `next_chunk` skips them and `read_at` does not; a file that `pi_download` writes has none.
* In `ScanModes`, reads that fail or are short in the middle of the file: its digits are read to their end. What a failed
  read does to the output is in `Pipeline` (`faults.fails`); a short one, which loses the digits up to the next chunk, is only
  in `ApiReader` (`Pread`). `next_chunk` of a file is in `SerialRun` and not in `DigitSources`.
* That feeders do not share a connection: `ApiReader` gives each thread one, as `thread_local` does.
* The end of a file that grows while feeders read it: the chunks of `Pipeline` are fixed for a run.
* Mapping files with more than a few digits per character: `pow_int` overflows at ten.
* Logging, progress output and the wording of errors.

## 7. Plan

Done, in this order: `Channel`, `BoundedQueue` and its proofs; `ReorderBuffer` and its proofs; `StageRunner`,
`DigitFeeders`, `SequentialOutput`, `Pipeline` and their proofs; `AhoCorasick` and its proofs; `WordPolicies`, `ScanInput`, `SerialRun`,
`ChunkedRun`, `ScanModes` and their proofs; `ResultAnalyzer` and its proofs; `DigitDownload`, `ApiReader`, `DigitReader`, `DigitSources` and their
proofs; `MappingFileMapper`, `GenMapping` and their proofs; `PhraseStreamHandler`; `Configuration`.

The plan is carried out. What no property covers is listed with the hazards in `PROJECT.json` and in section 6, with the reason.
