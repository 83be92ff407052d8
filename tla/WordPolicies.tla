---------------------------- MODULE WordPolicies ----------------------------
(***************************************************************************)
(* What one text and one dictionary give: the matches of scan_chunk(), the *)
(* chains of the two overlap policies and the phrases of the scanner, of   *)
(* src/word_finder/AhoCorasickCPU.cpp and                                  *)
(* src/phrase_scanner/HumanReviewScanner.cpp.  Only operators; AhoCorasick *)
(* shows that the automaton computes GoTo and OutputWords.                 *)
(*                                                                         *)
(* A word is a sequence of letters.  A raw match is [start, word]; a match *)
(* in a chain is a WordMatch [start, word, consecutive].                   *)
(***************************************************************************)
EXTENDS Ordered, SequencesExt

EndOf(m) == m.start + Len(m.word)

\* Mutant of GoTo: without a longer suffix, the state is that of the character.
RestartAtCharacter(dict, state, c) ==
  IF \E w \in dict : IsPrefix(Append(state, c), w) THEN Append(state, c) ELSE <<c>>

\* The state after character c: the longest suffix that some word begins with.
GoTo(dict, state, c) ==
  LET nodes == {s \in Suffixes(Append(state, c)) : s = <<>> \/ \E w \in dict : IsPrefix(s, w)}
  IN  CHOOSE s \in nodes : \A t \in nodes : Len(t) <= Len(s)

\* The words that end here, longest first.
OutputWords(dict, state) ==
  LET lengths == Ascending({Len(w) : w \in {w \in dict : IsSuffix(w, state)}})
  IN  [k \in DOMAIN lengths |-> Suffix(state, lengths[Len(lengths) + 1 - k])]

\* scan_chunk: before and the result are [state |-> ac_state, raw |-> raw_out].
ScanChunk(dict, chars, offset, before) ==
  LET Step(acc, i) ==
        LET state == GoTo(dict, acc.state, chars[i])
            found == OutputWords(dict, state)
        IN  [state |-> state,
             raw   |-> acc.raw \o [k \in DOMAIN found |->
                                     [start |-> offset + i - Len(found[k]), word |-> found[k]]]]
  IN  FoldLeftDomain(Step, before, chars)

Starts(raw) == {raw[k].start : k \in DOMAIN raw}
StartingAt(raw, pos) == Selected(raw, {k \in DOMAIN raw : raw[k].start = pos})
-----------------------------------------------------------------------------
HasQualifyingRun(chain, minLength) ==
  LET run[k \in 1..Len(chain)] == IF k > 1 /\ chain[k].consecutive THEN run[k - 1] + 1 ELSE 1
  IN  IF minLength <= 1 THEN chain # <<>> ELSE \E k \in DOMAIN chain : run[k] >= minLength

\* apply_all_combos_cb: dfs reports a chain before the chains that extend it.
AllCombos(raw, minLength) ==
  LET from[pos \in Starts(raw)] ==
        FlattenSeq([k \in DOMAIN StartingAt(raw, pos) |->
          LET m    == StartingAt(raw, pos)[k]
              rest == IF EndOf(m) \in Starts(raw) THEN from[EndOf(m)] ELSE <<>>
          IN  << <<m>> >> \o [r \in DOMAIN rest |-> <<m>> \o rest[r]]])
      starts == Ascending(Starts(raw))
      chains == FlattenSeq([k \in DOMAIN starts |-> from[starts[k]]])
      marked == [c \in DOMAIN chains |-> [k \in DOMAIN chains[c] |->
                   [start |-> chains[c][k].start, word |-> chains[c][k].word,
                    consecutive |-> k > 1]]]
  IN  Selected(marked, {c \in DOMAIN marked : HasQualifyingRun(marked[c], minLength)})

\* Mutant of BestAt: the first match reported, not the longest.
FirstAt(raw, pos) == StartingAt(raw, pos)[1].word
BestAt(raw, pos) ==
  LET here == ToSet(StartingAt(raw, pos))
  IN  (CHOOSE m \in here : \A n \in here : Len(n.word) <= Len(m.word)).word

\* The greedy choice of apply_etl_cb, before it is split.
Greedy(raw) ==
  LET Take(acc, start) ==
        IF start < acc.scanPos THEN acc
        ELSE LET word == BestAt(raw, start) IN
             [result  |-> Append(acc.result,
                            [start |-> start, word |-> word,
                             consecutive |-> acc.result # <<>> /\ start = acc.scanPos]),
              scanPos |-> start + Len(word)]
  IN  FoldLeft(Take, [result |-> <<>>, scanPos |-> 0], Ascending(Starts(raw))).result

\* apply_etl_cb: the greedy choice, split into consecutive runs.
Etl(raw, minLength) ==
  LET Extend(acc, m) ==
        IF m.consecutive /\ acc # <<>>
        THEN Append(Front(acc), Append(Last(acc), m))
        ELSE Append(acc, <<m>>)
      groups == FoldLeft(Extend, <<>>, Greedy(raw))
  IN  Selected(groups, {g \in DOMAIN groups : Len(groups[g]) >= minLength})

\* apply_policy_cb.
Chains(policy, raw, minLength) ==
  IF policy = "all-combos" THEN AllCombos(raw, minLength) ELSE Etl(raw, minLength)
-----------------------------------------------------------------------------
\* The phrase [start, words] with one more word.
WithWord(phrase, word) == [phrase EXCEPT !.words = Append(@, word)]

\* process_words: a stable sort by start, then the runs without a gap.
ProcessWords(chain) ==
  LET Before(a, b) == \/ chain[a].start < chain[b].start
                      \/ chain[a].start = chain[b].start /\ a < b
      order == [k \in DOMAIN chain |->
                  CHOOSE b \in DOMAIN chain : Cardinality({a \in DOMAIN chain : Before(a, b)}) = k - 1]
      Extend(acc, k) ==
        LET m == chain[k] IN
        IF acc.phrases # <<>> /\ m.start = acc.prevEnd
        THEN [phrases |-> Append(Front(acc.phrases), WithWord(Last(acc.phrases), m.word)),
              prevEnd |-> EndOf(m)]
        ELSE [phrases |-> Append(acc.phrases, [start |-> m.start, words |-> <<m.word>>]),
              prevEnd |-> EndOf(m)]
  IN  FoldLeft(Extend, [phrases |-> <<>>, prevEnd |-> 0], order).phrases
=============================================================================
