-------------------------- MODULE MCResultAnalyzer ---------------------------
(* Instances of ResultAnalyzer for TLC: results of the pipeline with none to   *)
(* three phrases, in which a word may be found again at a smaller offset, and  *)
(* with the sizes that write_json_phrase gives them.                           *)
EXTENDS ResultAnalyzer

MCWordLength == [abcd |-> 4, cd |-> 2, ef |-> 2]
P(start, words, bytes) == [start |-> start, words |-> words, extra |-> <<>>, bytes |-> bytes]

\* The value of a further key: an object that looks like a phrase, or an array.
Meta ==
  <<Event("key", "meta"), Event("start_object", 0), Event("key", "start_offset"), Event("number", 99),
    Event("key", "words"), Event("start_array", 0), Event("string", "cd"), Event("end_array", 0),
    Event("end_object", 0)>>
Tags ==
  <<Event("key", "tags"), Event("start_array", 0), Event("string", "cd"), Event("null", 0),
    Event("end_array", 0), Event("key", "n"), Event("number", 7)>>
With(p, extra) == [p EXCEPT !.extra = extra, !.bytes = @ + 30]

Closed(phrases) == [phrases |-> phrases, closed |-> TRUE, tail |-> 7]
CutOff(phrases, bytes) == [phrases |-> phrases, closed |-> FALSE, tail |-> bytes]

\* all-combos over "abcdcd", the first of them.
Overlapping == << P(0, <<"abcd">>, 35), P(0, <<"abcd", "cd">>, 40), P(2, <<"cd">>, 33) >>
Two == << P(9, <<"cd", "ef">>, 38), P(20, <<"ef">>, 34) >>
Richer == << With(P(3, <<"ef">>, 33), Meta), With(P(9, <<"cd", "ef">>, 38), Tags), P(20, <<"ef">>, 34) >>

MCDocuments == {
  Closed(<<>>), CutOff(<<>>, 20),
  Closed(<< P(9, <<"cd">>, 33) >>),
  Closed(Overlapping), Closed(Richer),
  CutOff(Two, 0), CutOff(Two, 30),
  Closed(<< P(0, <<"ef">>, 33), P(7, <<"abcd", "ef", "cd", "abcd", "cd", "abcd">>, 71),
            P(30, <<"cd">>, 34) >>) }
=============================================================================
