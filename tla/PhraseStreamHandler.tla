------------------------ MODULE PhraseStreamHandler -------------------------
(***************************************************************************)
(* PhraseStreamHandler of src/src/result_analyzer/ResultAnalyzer.cpp: the  *)
(* callbacks that nlohmann's SAX parser makes for results.json, and the    *)
(* phrases they report.  The parser itself is left out: a document is the  *)
(* sequence of its events [on, value].                                     *)
(***************************************************************************)
EXTENDS Integers, Sequences, SequencesExt

Event(on, value) == [on |-> on, value |-> value]
NoKey == "none"
NoSkip == -1

\* The members of the handler, and the phrases it has reported.
NewHandler ==
  [depth |-> 0, inPhrasesArray |-> FALSE, inPhraseObject |-> FALSE, inWordsArray |-> FALSE,
   skipDepth |-> NoSkip, currentKey |-> NoKey, start |-> 0, words |-> <<>>,
   sawPhrases |-> FALSE, reported |-> <<>>]

NumberUnsigned(h, val) ==
  [h EXCEPT !.start = IF h.inPhraseObject /\ h.skipDepth = NoSkip /\ h.currentKey = "start_offset"
                      THEN val ELSE @,
            !.currentKey = NoKey]

String(h, val) ==
  IF h.inWordsArray /\ h.skipDepth = NoSkip
  THEN [h EXCEPT !.words = Append(@, val)]
  ELSE [h EXCEPT !.currentKey = NoKey]

Key(h, val) ==
  IF (h.inPhraseObject /\ h.skipDepth = NoSkip) \/ h.depth = 1
  THEN [h EXCEPT !.currentKey = val]
  ELSE h

\* What is in a value of a phrase that nobody asked for is skipped.
SkipFrom(h, depth) ==
  [h EXCEPT !.depth = depth,
            !.skipDepth = IF @ = NoSkip /\ h.inPhraseObject THEN depth ELSE @]

StartObject(h) ==
  IF h.inPhrasesArray /\ h.depth = 2 /\ h.skipDepth = NoSkip
  THEN [h EXCEPT !.depth = 3, !.inPhraseObject = TRUE, !.start = 0, !.words = <<>>]
  ELSE SkipFrom(h, h.depth + 1)

StartArray(h) ==
  CASE h.depth = 1 /\ h.currentKey = "phrases" /\ ~h.inPhraseObject ->
         [h EXCEPT !.depth = 2, !.inPhrasesArray = TRUE, !.sawPhrases = TRUE, !.currentKey = NoKey]
    [] h.inPhraseObject /\ h.depth = 3 /\ h.currentKey = "words" /\ h.skipDepth = NoSkip ->
         [h EXCEPT !.depth = 4, !.inWordsArray = TRUE, !.currentKey = NoKey]
    [] OTHER -> SkipFrom(h, h.depth + 1)

\* The end of an object or an array that is skipped.
EndSkipped(h) ==
  [h EXCEPT !.depth = @ - 1, !.skipDepth = IF @ = h.depth THEN NoSkip ELSE @]

EndObject(h) ==
  CASE h.skipDepth # NoSkip -> EndSkipped(h)
    [] h.skipDepth = NoSkip /\ h.inPhraseObject /\ h.depth = 3 ->
         [h EXCEPT !.depth = 2, !.inPhraseObject = FALSE,
                   !.reported = Append(@, [start |-> h.start, words |-> h.words])]
    [] OTHER -> [h EXCEPT !.depth = @ - 1]

EndArray(h) ==
  IF h.skipDepth # NoSkip THEN EndSkipped(h)
  ELSE [h EXCEPT !.depth = @ - 1,
                 !.inWordsArray = @ /\ h.depth # 4,
                 !.inPhrasesArray = @ /\ h.depth # 2]

\* null, boolean, number_integer, number_float, binary: nothing.
Handle(h, e) ==
  CASE e.on = "number" -> NumberUnsigned(h, e.value)
    [] e.on = "string" -> String(h, e.value)
    [] e.on = "key" -> Key(h, e.value)
    [] e.on = "start_object" -> StartObject(h)
    [] e.on = "end_object" -> EndObject(h)
    [] e.on = "start_array" -> StartArray(h)
    [] e.on = "end_array" -> EndArray(h)
    [] OTHER -> h

Parsed(events) == FoldLeft(Handle, NewHandler, events).reported
-----------------------------------------------------------------------------
\* How deep the events up to the k-th lead into objects and arrays.
Nesting(events, k) ==
  Cardinality({i \in 1..k : events[i].on \in {"start_object", "start_array"}})
    - Cardinality({i \in 1..k : events[i].on \in {"end_object", "end_array"}})

\* Whole members of an object, but not its start_offset and words.
FurtherMembers(events) ==
  /\ events \in Seq(ToSet(events))
  /\ Nesting(events, Len(events)) = 0
  /\ \A k \in DOMAIN events : /\ Nesting(events, k) >= 0
                              /\ (events[k].on = "key" /\ Nesting(events, k) = 0)
                                   => events[k].value \notin {"start_offset", "words"}

\* The events of a phrase that write_json_phrase has written, or another program
\* with more in it.
EventsOf(p) ==
  <<Event("start_object", 0), Event("key", "start_offset"), Event("number", p.start)>>
    \o p.extra
    \o <<Event("key", "words"), Event("start_array", 0)>>
    \o [i \in DOMAIN p.words |-> Event("string", p.words[i])]
    \o <<Event("end_array", 0), Event("end_object", 0)>>

\* What a PhraseChunkStreamBuf presents of the objects it gets to read, all of its part
\* or fewer: they are behind {"phrases":[, and before ]}.
Wrapped(objects) ==
  <<Event("start_object", 0), Event("key", "phrases"), Event("start_array", 0)>>
    \o FlattenSeq([k \in DOMAIN objects |-> EventsOf(objects[k])])
    \o <<Event("end_array", 0), Event("end_object", 0)>>
=============================================================================
