---------------------------- MODULE AhoCorasick -----------------------------
(***************************************************************************)
(* The automaton of src/word_finder/AhoCorasickCPU.cpp: insert_word builds *)
(* a trie, build() computes failure and output links breadth first, and    *)
(* scan_chunk() reports every dictionary word that ends at each character. *)
(*                                                                         *)
(* A node is the string that leads to it, so the root is <<>>; children is *)
(* a partial function (-1 is a missing letter), and an output_link of -1   *)
(* is the root, where the loop over the links stops either way.            *)
(***************************************************************************)
EXTENDS Ordered, SequencesExt

CONSTANTS Alphabet,        \* the letters 'a'..'z', in order
          Other,           \* a character that is not one of them
          Dictionaries,    \* sequences of words that may be inserted
          Texts,           \* texts that may be scanned
          MinWordLengths   \* values of min_word_length_

Letters == ToSet(Alphabet)
Strings == Seq(Letters \cup {Other})

ASSUME AlphabetAssumption ==
  /\ Alphabet \in Seq(STRING) /\ Other \notin Letters
  /\ \A k, m \in DOMAIN Alphabet : Alphabet[k] = Alphabet[m] => k = m
ASSUME InputAssumption ==
  Dictionaries \subseteq Seq(Strings) /\ Texts \subseteq Strings /\ MinWordLengths \subseteq Nat

VARIABLES dict,            \* words still to insert, and those inserted
          minLength,       \* min_word_length_
          phase,           \* "insert", "bfs", "scan", "done"
          trie, children, failure, outputLink,   \* nodes_
          words,           \* the nodes with an output_word
          bfs,             \* the queue of build()
          text, i,         \* the chunk and the loop index
          state,           \* ac_state
          raw              \* raw_out

vars == <<dict, minLength, phase, trie, children, failure, outputLink, words, bfs,
          text, i, state, raw>>

Root == <<>>
Has(u, c) == c \in DOMAIN children[u]

Init ==
  /\ dict \in [left : Dictionaries, done : {<<>>}]
  /\ minLength \in MinWordLengths
  /\ text \in Texts
  /\ phase = "insert"
  /\ trie = {Root} /\ words = {}
  /\ children = [u \in {Root} |-> [c \in {} |-> Root]]
  /\ failure = [u \in {} |-> Root] /\ outputLink = [u \in {} |-> Root]
  /\ bfs = <<>>
  /\ i = 0 /\ state = Root /\ raw = <<>>
-----------------------------------------------------------------------------
\* The prefix of w that insert_word walks: it returns at a non-letter.
LettersOf(w) == LET bad == {k \in DOMAIN w : w[k] \notin Letters}
                IN  IF bad = {} THEN w ELSE SubSeq(w, 1, (CHOOSE k \in bad : \A m \in bad : k <= m) - 1)

InsertWord ==
  /\ phase = "insert" /\ dict.left # <<>>
  /\ LET w     == Head(dict.left)
         walk  == LettersOf(w)
         trie2 == trie \cup {SubSeq(walk, 1, k) : k \in 0..Len(walk)}
     IN  IF Len(w) < minLength
         THEN UNCHANGED <<trie, children, words>>
         ELSE /\ trie' = trie2
              /\ children' = [u \in trie2 |-> [c \in {d \in Letters : Append(u, d) \in trie2}
                                                |-> Append(u, c)]]
              /\ words' = IF walk = w /\ w # <<>> THEN words \cup {w} ELSE words
  /\ dict' = [left |-> Tail(dict.left), done |-> Append(dict.done, Head(dict.left))]
  /\ UNCHANGED <<minLength, phase, failure, outputLink, bfs, text, i, state, raw>>

\* The children of u, in the order of the letters.
ChildrenOf(u) == LET present == Ascending({k \in DOMAIN Alphabet : Has(u, Alphabet[k])})
                 IN  [k \in DOMAIN present |-> Append(u, Alphabet[present[k]])]

\* build(), before the loop: the children of the root.
BuildRoot ==
  /\ phase = "insert" /\ dict.left = <<>>
  /\ phase' = "bfs"
  /\ bfs' = ChildrenOf(Root)
  /\ failure' = [u \in ToSet(ChildrenOf(Root)) |-> Root]
  /\ outputLink' = [u \in {Root} |-> Root]
  /\ children' = [children EXCEPT ![Root] =
                    [c \in Letters |-> IF Has(Root, c) THEN <<c>> ELSE Root]]
  /\ UNCHANGED <<dict, minLength, trie, words, text, i, state, raw>>

\* Mutants of FailureOf and OutputOf: no fall back below the failure node; the
\* link skips a failure node that is a word itself.
RootFailure(u, c) == IF Has(failure[u], c) /\ Append(failure[u], c) \in trie
                     THEN Append(failure[u], c) ELSE Root
SkipOutput(u) == outputLink[failure[u]]

\* children of u's failure node, already completed by the loop.
FailureOf(u, c) == children[failure[u]][c]
OutputOf(u) == IF failure[u] \in words THEN failure[u] ELSE outputLink[failure[u]]

\* Mutant of BuildNode: missing transitions are not filled in.
BuildBareNode ==
  /\ phase = "bfs" /\ bfs # <<>>
  /\ LET u == Head(bfs) IN
       /\ outputLink' = [v \in DOMAIN outputLink \cup {u} |->
                           IF v = u THEN OutputOf(u) ELSE outputLink[v]]
       /\ failure' = [v \in DOMAIN failure \cup ToSet(ChildrenOf(u)) |->
                        IF v \in ToSet(ChildrenOf(u)) THEN Root ELSE failure[v]]
       /\ bfs' = Tail(bfs) \o ChildrenOf(u)
  /\ UNCHANGED <<dict, minLength, phase, trie, children, words, text, i, state, raw>>

\* One turn of the loop of build().
BuildNode ==
  /\ phase = "bfs" /\ bfs # <<>>
  /\ LET u == Head(bfs) IN
       /\ outputLink' = [v \in DOMAIN outputLink \cup {u} |->
                           IF v = u THEN OutputOf(u) ELSE outputLink[v]]
       /\ failure' = [v \in DOMAIN failure \cup ToSet(ChildrenOf(u)) |->
                        IF v \in ToSet(ChildrenOf(u)) THEN FailureOf(u, Last(v)) ELSE failure[v]]
       /\ children' = [children EXCEPT ![u] =
                         [c \in Letters |-> IF Has(u, c) THEN Append(u, c) ELSE FailureOf(u, c)]]
       /\ bfs' = Tail(bfs) \o ChildrenOf(u)
  /\ UNCHANGED <<dict, minLength, phase, trie, words, text, i, state, raw>>

BuildEnds ==
  /\ phase = "bfs" /\ bfs = <<>>
  /\ phase' = "scan"
  /\ UNCHANGED <<dict, minLength, trie, children, failure, outputLink, words, bfs,
                 text, i, state, raw>>

\* The words on the chain of output links from s, longest first.
Outputs == LET out[s \in trie] == IF s = Root THEN <<>>
                                  ELSE (IF s \in words THEN <<s>> ELSE <<>>) \o out[outputLink[s]]
           IN  out

\* Mutant of ScanCharacter: the match of the state itself is all that is reported.
ScanOneMatch ==
  /\ phase = "scan" /\ i < Len(text)
  /\ i' = i + 1
  /\ IF text[i + 1] \notin Letters
     THEN state' = Root /\ UNCHANGED raw
     ELSE /\ state' = children[state][text[i + 1]]
          /\ raw' = IF state' \in words
                    THEN Append(raw, <<(i + 1) - Len(state'), state'>>) ELSE raw
  /\ UNCHANGED <<dict, minLength, phase, trie, children, failure, outputLink, words, bfs, text>>

\* One turn of the loop of scan_chunk(): <<start, word>> for each match.
ScanCharacter ==
  /\ phase = "scan" /\ i < Len(text)
  /\ i' = i + 1
  /\ IF text[i + 1] \notin Letters
     THEN state' = Root /\ UNCHANGED raw
     ELSE /\ state' = children[state][text[i + 1]]
          /\ raw' = raw \o [k \in DOMAIN Outputs[state'] |->
                              <<(i + 1) - Len(Outputs[state'][k]), Outputs[state'][k]>>]
  /\ UNCHANGED <<dict, minLength, phase, trie, children, failure, outputLink, words, bfs, text>>

ScanEnds ==
  /\ phase = "scan" /\ i = Len(text)
  /\ phase' = "done"
  /\ UNCHANGED <<dict, minLength, trie, children, failure, outputLink, words, bfs,
                 text, i, state, raw>>

Terminated == phase = "done" /\ UNCHANGED vars

Next == \/ InsertWord \/ BuildRoot \/ BuildNode \/ BuildEnds
        \/ ScanCharacter \/ ScanEnds \/ Terminated

Spec == Init /\ [][Next]_vars
-----------------------------------------------------------------------------
\* The longest suffix of s, of at most n letters, that is a node.
LongestSuffix(s, n) ==
  LET m == CHOOSE k \in 0..n : /\ Suffix(s, k) \in trie
                               /\ \A j \in (k + 1)..n : Suffix(s, j) \notin trie
  IN  Suffix(s, m)

TypeOK ==
  /\ phase \in {"insert", "bfs", "scan", "done"}
  /\ \A u \in trie : \A k \in 0..Len(u) : SubSeq(u, 1, k) \in trie
  /\ words \subseteq trie \ {Root}
  /\ DOMAIN children = trie
  /\ \A u \in trie : \A c \in DOMAIN children[u] : children[u][c] \in trie
  /\ phase \in {"scan", "done"} => \A u \in trie : DOMAIN children[u] = Letters
  /\ i \in 0..Len(text) /\ state \in trie

\* A failure link leads to the longest proper suffix in the trie, and a node
\* that has left the queue has all its transitions and the output link of the
\* longest proper suffix that is a word.
LinksAreLongestSuffixes ==
  /\ \A u \in DOMAIN failure : failure[u] = LongestSuffix(u, Len(u) - 1)
  /\ \A u \in DOMAIN outputLink \ {Root} :
       /\ \A c \in Letters : children[u][c] = LongestSuffix(Append(u, c), Len(u) + 1)
       /\ LET shorter == {Suffix(u, k) : k \in 1..(Len(u) - 1)} \cap words
          IN  IF shorter = {} THEN outputLink[u] = Root
              ELSE outputLink[u] \in shorter /\ \A v \in shorter : Len(v) <= Len(outputLink[u])

\* What the scan reports, told without the automaton: every occurrence of an
\* accepted word in the text, by its end, longer words first, each once.
Accepted == {w \in ToSet(dict.done) : Len(w) >= minLength /\ w # <<>> /\ ToSet(w) \subseteq Letters}
EndingAt(e) == {w \in Accepted : Len(w) <= e /\ SubSeq(text, e - Len(w) + 1, e) = w}
Expected[e \in 0..Len(text)] ==
  IF e = 0 THEN <<>>
  ELSE Expected[e - 1] \o
       [k \in 1..Cardinality(EndingAt(e)) |->
          LET w == CHOOSE v \in EndingAt(e) :
                     Cardinality({x \in EndingAt(e) : Len(x) > Len(v)}) = k - 1
          IN  <<e - Len(w), w>>]

MatchesAreExact == phase \in {"scan", "done"} => raw = Expected[i]
=============================================================================
