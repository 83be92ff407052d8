-------------------------- MODULE WordSearchProofs --------------------------
(***************************************************************************)
(* Proofs about the word search: AhoCorasick for any alphabet, dictionary  *)
(* and text; and ScanModes, the serial and the parallel mode around it,    *)
(* for any digits, mapper, words and accepted configuration.               *)
(***************************************************************************)
EXTENDS AhoCorasick, ScanModes, OrderedProofs, SequenceTheorems

Chars == Letters \cup {Other}

\* The trie is prefix-closed.
TrieInv ==
  /\ Root \in trie /\ trie \subseteq Seq(Letters)
  /\ words \subseteq trie \ {Root}
  /\ \A u \in trie : \A k \in 0..Len(u) : SubSeq(u, 1, k) \in trie

\* The nodes that have left the queue.
Complete == DOMAIN outputLink
Parent(u) == SubSeq(u, 1, Len(u) - 1)

\* A complete node has all its transitions, the others the children insert_word made.
ChildrenInv ==
  /\ DOMAIN children = trie
  /\ \A u \in trie \ Complete :
       children[u] = [c \in {d \in Letters : Append(u, d) \in trie} |-> Append(u, c)]
  /\ \A u \in Complete :
       /\ DOMAIN children[u] = Letters
       /\ \A c \in Letters : LongestIn(trie, children[u][c], Append(u, c), Len(u) + 1)
FailureInv ==
  \A u \in DOMAIN failure : u \in trie \ {Root} /\ LongestIn(trie, failure[u], u, Len(u) - 1)
OutputInv ==
  \A u \in Complete :
    /\ u = Root => outputLink[u] = Root
    /\ u # Root => LongestIn(words \cup {Root}, outputLink[u], u, Len(u) - 1)

\* The queue has the nodes that are not complete and whose parent is, once each, in
\* order of their depth, and no shallower node is missing.
QueueInv ==
  /\ Root \in Complete /\ Complete \subseteq trie
  /\ bfs \in Seq(trie \ {Root})
  /\ \A k, m \in 1..Len(bfs) : k < m =>
       bfs[k] # bfs[m] /\ Len(bfs[k]) <= Len(bfs[m]) /\ Len(bfs[m]) <= Len(bfs[k]) + 1
  /\ \A v \in Complete \ {Root} : Parent(v) \in Complete
  /\ ToSet(bfs) = {v \in trie \ ({Root} \cup Complete) : Parent(v) \in Complete}
  /\ DOMAIN failure = {v \in trie \ {Root} : Parent(v) \in Complete}
  /\ bfs # <<>> => \A v \in trie : Len(v) < Len(bfs[1]) => v \in Complete

PhaseInv ==
  /\ phase = "insert" => Complete = {} /\ DOMAIN failure = {}
  /\ phase # "insert" => QueueInv
  /\ phase \in {"scan", "done"} => Complete = trie
  /\ phase \in {"insert", "bfs"} => i = 0 /\ state = Root /\ raw = <<>>

\* The state is the longest suffix of what was read that some word begins with.
StateInv ==
  phase \in {"scan", "done"} => LongestIn(trie, state, SubSeq(text, 1, i), i)

DataInv ==
  /\ dict \in [left : Seq(Strings), done : Seq(Strings)]
  /\ minLength \in Nat /\ text \in Strings /\ i \in 0..Len(text)
  /\ phase \in {"insert", "bfs", "scan", "done"}
  /\ words = Accepted

\* The invariant the proofs induct on.
IInv ==
  /\ DataInv /\ TrieInv /\ PhaseInv
  /\ ChildrenInv /\ FailureInv /\ OutputInv
  /\ StateInv /\ MatchesAreExact
-----------------------------------------------------------------------------
(* Suffixes, and the longest of them in a set.                             *)

\* A suffix is what its name says.
LEMMA SuffixIs ==
  ASSUME NEW s \in Strings, NEW n \in 0..Len(s)
  PROVE  /\ Suffix(s, n) \in Strings /\ Len(Suffix(s, n)) = n
         /\ \A j \in 1..n : Suffix(s, n)[j] = s[Len(s) - n + j]
BY EndIs DEF Strings, Chars, Root

\* Two strings with the same characters are the same.
LEMMA Same ==
  ASSUME NEW s \in Strings, NEW t \in Strings, Len(s) = Len(t),
         \A j \in 1..Len(s) : s[j] = t[j]
  PROVE  s = t
BY SameSeq DEF Strings

\* Appending a character.
LEMMA AppendIs ==
  ASSUME NEW s \in Strings, NEW c \in Chars
  PROVE  /\ Append(s, c) \in Strings /\ Append(s, c) # Root /\ Len(Append(s, c)) = Len(s) + 1
         /\ \A j \in 1..Len(s) : Append(s, c)[j] = s[j]
         /\ Append(s, c)[Len(s) + 1] = c
BY Appended DEF Strings, Chars, Root

\* The suffixes of all and of no characters.
LEMMA SuffixEnds ==
  ASSUME NEW s \in Strings
  PROVE  /\ Suffix(s, 0) = Root /\ Suffix(s, Len(s)) = s
         /\ Root \in Strings /\ Len(Root) = 0 /\ Len(s) \in Nat
         /\ Len(s) = 0 <=> s = Root
BY EndsAre DEF Strings, Chars, Root

\* A suffix of a string with one more character.
LEMMA SuffixAppend ==
  ASSUME NEW s \in Strings, NEW c \in Chars, NEW n \in 0..Len(s)
  PROVE  Suffix(Append(s, c), n + 1) = Append(Suffix(s, n), c)
BY EndOfAppend DEF Strings, Chars, Root

\* A suffix of a suffix.
LEMMA SuffixSuffix ==
  ASSUME NEW s \in Strings, NEW n \in 0..Len(s), NEW m \in 0..n
  PROVE  Suffix(Suffix(s, n), m) = Suffix(s, m)
BY EndOfEnd DEF Strings, Chars, Root

\* The longest suffix is in the set, and not longer than asked for.
LEMMA LongestIs ==
  ASSUME NEW W, NEW x, NEW s \in Strings, NEW n \in -1..Len(s), LongestIn(W, x, s, n)
  PROVE  x \in W /\ x \in Strings /\ Len(x) \in 0..n /\ x = Suffix(s, Len(x))
BY LongestEnd DEF Strings, Chars, Root

\* There is only one.
LEMMA LongestUnique ==
  ASSUME NEW W, NEW s \in Strings, NEW n \in -1..Len(s),
         NEW x, LongestIn(W, x, s, n), NEW y, LongestIn(W, y, s, n)
  PROVE  x = y
BY OneLongest DEF Strings, Chars, Root

\* LongestSuffix, which chooses a length, chooses this one.
LEMMA LongestChosen ==
  ASSUME NEW x, NEW s \in Strings, NEW n \in -1..Len(s), LongestIn(trie, x, s, n)
  PROVE  x = LongestSuffix(s, n)
<1> DEFINE Fits(k) == Suffix(s, k) \in trie /\ \A j \in (k + 1)..n : Suffix(s, j) \notin trie
           m == CHOOSE k \in 0..n : Fits(k)
<1>1. \E k \in 0..n : Fits(k)
  BY DEF LongestIn
<1>2. m \in 0..n /\ Fits(m)
  BY <1>1
<1>3. LongestSuffix(s, n) = Suffix(s, m)
  BY DEF LongestSuffix
<1>4. LongestIn(trie, Suffix(s, m), s, n)
  <2> HIDE DEF m
  <2> QED BY <1>2 DEF LongestIn
<1> QED
  BY <1>3, <1>4, LongestUnique

\* A node is a string, and its parent is a node.
LEMMA NodesAre ==
  ASSUME TrieInv
  PROVE  /\ trie \subseteq Strings
         /\ \A s \in Strings, c \in Chars : Append(s, c) \in trie => s \in trie /\ c \in Letters
<1>1. trie \subseteq Strings
  <2>1. Seq(Letters) \subseteq Seq(Chars)
    BY SeqMonotonic DEF Chars
  <2> QED
    BY <2>1 DEF TrieInv, Strings, Chars
<1>2. ASSUME NEW s \in Strings, NEW c \in Chars, Append(s, c) \in trie
      PROVE  s \in trie /\ c \in Letters
  <2> DEFINE t == Append(s, c)
  <2>1. /\ t \in Strings /\ Len(t) = Len(s) + 1 /\ t[Len(s) + 1] = c /\ Len(s) \in Nat
        /\ \A j \in 1..Len(s) : t[j] = s[j]
    BY AppendIs, SuffixEnds
  <2>2. t \in trie /\ t \in Seq(Letters)
    BY <1>2 DEF TrieInv
  <2> HIDE DEF t
  <2>3. c \in Letters
    BY <2>1, <2>2, ElementOfSeq
  <2>4. SubSeq(t, 1, Len(s)) \in trie
    BY <2>1, <2>2 DEF TrieInv
  <2>5. /\ SubSeq(t, 1, Len(s)) \in Seq(Letters) /\ Len(SubSeq(t, 1, Len(s))) = Len(s)
        /\ \A j \in 1..Len(s) : SubSeq(t, 1, Len(s))[j] = t[j]
    BY <2>1, <2>2
  <2>6. SubSeq(t, 1, Len(s)) = s
    BY <1>1, <2>1, <2>4, <2>5, Same
  <2> QED
    BY <2>3, <2>4, <2>6
<1> QED
  BY <1>1, <1>2

\* The longest suffix after one more character needs the longest suffix only: this is
\* why a failure link and a state are all there is to remember.
LEMMA LongestExtends ==
  ASSUME TrieInv, NEW s \in Strings, NEW c \in Chars, NEW n \in 0..Len(s),
         NEW f, LongestIn(trie, f, s, n),
         NEW x, LongestIn(trie, x, Append(f, c), Len(f) + 1)
  PROVE  LongestIn(trie, x, Append(s, c), n + 1)
BY NodesAre, LongestGrows DEF Strings, Chars

\* The longest word among the proper suffixes of u is the failure node, or the one its
\* output link leads to.
LEMMA OutputExtends ==
  ASSUME TrieInv, NEW u \in Strings, u # Root,
         NEW f, LongestIn(trie, f, u, Len(u) - 1),
         NEW l, f = Root => l = Root,
         f # Root => LongestIn(words \cup {Root}, l, f, Len(f) - 1)
  PROVE  LongestIn(words \cup {Root}, IF f \in words THEN f ELSE l, u, Len(u) - 1)
<1> DEFINE n == Len(u) - 1
<1>0. Len(u) \in Nat /\ n \in 0..Len(u) /\ words \cup {Root} \subseteq trie /\ Root \notin words
  BY SuffixEnds DEF TrieInv
<1>1. PICK k \in 0..n : f = Suffix(u, k) /\ f \in trie /\ \A j \in (k + 1)..n : Suffix(u, j) \notin trie
  BY DEF LongestIn
<1>2. k \in 0..Len(u) /\ f \in Strings /\ Len(f) = k
  BY <1>0, <1>1, SuffixIs
<1> HIDE DEF n
<1>3. CASE f \in words
  BY <1>0, <1>1, <1>3 DEF LongestIn, n
<1>4. CASE f = Root
  BY <1>0, <1>1, <1>4 DEF LongestIn, n
<1>5. CASE f \notin words /\ f # Root
  <2>1. PICK m \in 0..(k - 1) : /\ l = Suffix(f, m) /\ l \in words \cup {Root}
                                /\ \A j \in (m + 1)..(k - 1) : Suffix(f, j) \notin words \cup {Root}
    BY <1>2, <1>5 DEF LongestIn
  <2>2. \A j \in 0..k : Suffix(f, j) = Suffix(u, j)
    BY <1>1, <1>2, SuffixSuffix
  <2>3. m \in 0..n /\ m \in 0..k /\ l = Suffix(u, m)
    BY <1>0, <1>2, <2>1, <2>2
  <2>4. ASSUME NEW j \in (m + 1)..n PROVE Suffix(u, j) \notin words \cup {Root}
    <3>0. j \in Int /\ k \in Int
      BY <1>2, <2>3
    <3>1. CASE j > k
      BY <1>0, <1>1, <3>0, <3>1
    <3>2. CASE j = k
      BY <1>1, <1>5, <3>2
    <3>3. CASE j < k
      <4>1. j \in (m + 1)..(k - 1) /\ j \in 0..k
        BY <2>1, <3>0, <3>3
      <4> QED
        BY <2>1, <2>2, <4>1
    <3> QED
      BY <3>0, <3>1, <3>2, <3>3
  <2> QED
    BY <1>5, <2>1, <2>3, <2>4 DEF LongestIn, n
<1> QED
  BY <1>3, <1>4, <1>5
-----------------------------------------------------------------------------
(* The children of a node.                                                 *)

\* Each child is listed once.
LEMMA ChildrenAre ==
  ASSUME NEW u \in Strings
  PROVE  /\ ChildrenOf(u) \in Seq(Strings)
         /\ ToSet(ChildrenOf(u)) = {Append(u, c) : c \in {d \in Letters : Has(u, d)}}
         /\ \A k, m \in 1..Len(ChildrenOf(u)) : k # m => ChildrenOf(u)[k] # ChildrenOf(u)[m]
<1> DEFINE P == {k \in DOMAIN Alphabet : Has(u, Alphabet[k])}
           a == Ascending(P)
           n == Cardinality(P)
<1>1. /\ Alphabet \in Seq(STRING) /\ Len(Alphabet) \in Nat /\ DOMAIN Alphabet = 1..Len(Alphabet)
      /\ Letters = {Alphabet[k] : k \in 1..Len(Alphabet)}
      /\ \A k, m \in 1..Len(Alphabet) : Alphabet[k] = Alphabet[m] => k = m
  BY AlphabetAssumption DEF Letters, ToSet
<1>2. P \in SUBSET (1..Len(Alphabet)) /\ P \in SUBSET Int /\ IsFiniteSet(P)
  <2>1. P \in SUBSET (1..Len(Alphabet)) /\ P \in SUBSET Int
    BY <1>1
  <2>2. IsFiniteSet(1..Len(Alphabet))
    BY <1>1, FS_Interval
  <2> HIDE DEF P
  <2>3. IsFiniteSet(P)
    BY <2>1, <2>2, FS_Subset
  <2> QED
    BY <2>1, <2>3
<1>3. /\ n \in Nat /\ a \in [1..n -> P] /\ DOMAIN a = 1..n
      /\ \A x \in P : \E k \in 1..n : a[k] = x
      /\ \A k, m \in 1..n : k < m <=> a[k] < a[m]
  BY <1>2, AscendingLists
<1>4. ChildrenOf(u) = [k \in 1..n |-> Append(u, Alphabet[a[k]])]
  BY <1>3 DEF ChildrenOf
<1>5. \A k \in 1..n : a[k] \in P /\ a[k] \in 1..Len(Alphabet) /\ Alphabet[a[k]] \in Letters
  BY <1>1, <1>2, <1>3
<1> HIDE DEF a, n
<1>6. \A k \in 1..n : Append(u, Alphabet[a[k]]) \in Strings
  BY <1>5, AppendIs DEF Chars
<1>7. ChildrenOf(u) \in Seq(Strings) /\ Len(ChildrenOf(u)) = n
  BY <1>3, <1>4, <1>6
<1>8. ToSet(ChildrenOf(u)) = {Append(u, c) : c \in {d \in Letters : Has(u, d)}}
  <2>1. ASSUME NEW k \in 1..n
        PROVE  Append(u, Alphabet[a[k]]) \in {Append(u, c) : c \in {d \in Letters : Has(u, d)}}
    BY <1>5
  <2>2. ASSUME NEW c \in Letters, Has(u, c)
        PROVE  \E k \in 1..n : Append(u, c) = Append(u, Alphabet[a[k]])
    <3>1. PICK x \in 1..Len(Alphabet) : Alphabet[x] = c
      BY <1>1
    <3>2. x \in P
      BY <1>1, <2>2, <3>1
    <3> QED
      BY <1>3, <3>1, <3>2
  <2>3. ToSet(ChildrenOf(u)) = {Append(u, Alphabet[a[k]]) : k \in 1..n}
    BY <1>4 DEF ToSet
  <2> QED
    BY <2>1, <2>2, <2>3
<1>9. ASSUME NEW k \in 1..n, NEW m \in 1..n, k # m
      PROVE  ChildrenOf(u)[k] # ChildrenOf(u)[m]
  <2>1. a[k] # a[m]
    <3>1. k < m \/ m < k
      BY <1>3, <1>9
    <3>2. a[k] < a[m] \/ a[m] < a[k]
      BY <1>3, <3>1
    <3> QED
      BY <1>5, <3>2
  <2>2. Alphabet[a[k]] # Alphabet[a[m]]
    BY <1>1, <1>5, <2>1
  <2>3. Append(u, Alphabet[a[k]]) # Append(u, Alphabet[a[m]])
    BY <1>5, <2>2, AppendInjective DEF Strings, Chars
  <2> QED
    BY <1>4, <2>3
<1> QED
  BY <1>7, <1>8, <1>9
-----------------------------------------------------------------------------
(* insert_word.                                                            *)

\* A word of letters is walked to its end, and no other is.
LEMMA LettersOfIs ==
  ASSUME NEW w \in Strings
  PROVE  /\ LettersOf(w) \in Seq(Letters)
         /\ LettersOf(w) = w <=> ToSet(w) \subseteq Letters
<1> DEFINE bad == {k \in DOMAIN w : w[k] \notin Letters}
           least == CHOOSE k \in bad : \A m \in bad : k <= m
<1>1. Len(w) \in Nat /\ DOMAIN w = 1..Len(w) /\ w \in [1..Len(w) -> Chars]
  BY DEF Strings, Chars
<1>2. ToSet(w) \subseteq Letters <=> bad = {}
  BY DEF ToSet
<1>3. LettersOf(w) = IF bad = {} THEN w ELSE SubSeq(w, 1, least - 1)
  BY DEF LettersOf
<1>4. CASE bad = {}
  <2>1. w \in [1..Len(w) -> Letters]
    BY <1>1, <1>4
  <2>2. w \in Seq(Letters)
    BY <1>1, <2>1
  <2> QED
    BY <1>2, <1>3, <1>4, <2>2
<1>5. CASE bad # {}
  <2>1. bad \in SUBSET Nat
    BY <1>1
  <2>2. \E k \in bad : \A m \in bad : k <= m
    BY <1>5, <2>1, Least
  <2>3. least \in bad /\ \A m \in bad : least <= m
    BY <2>2
  <2>4. least \in 1..Len(w) /\ \A k \in 1..(least - 1) : w[k] \in Letters
    <3>1. least \in 1..Len(w)
      BY <1>1, <2>3
    <3> HIDE DEF least
    <3>2. ASSUME NEW k \in 1..(least - 1) PROVE w[k] \in Letters
      <4>1. k \in 1..Len(w) /\ ~(least <= k)
        BY <1>1, <3>1
      <4> QED
        BY <1>1, <2>3, <4>1
    <3> QED
      BY <3>1, <3>2
  <2> HIDE DEF least, bad
  <2>5. SubSeq(w, 1, least - 1) \in Seq(Letters) /\ Len(SubSeq(w, 1, least - 1)) = least - 1
    <3>1. least - 1 \in Int /\ least - 1 >= 0 /\ 1 \in Int
      BY <1>1, <2>4
    <3> DEFINE n == least - 1
    <3>2. n \in Int /\ n >= 0 /\ \A k \in 1..n : w[k] \in Letters
      BY <2>4, <3>1
    <3> HIDE DEF n
    <3>3. SubSeq(w, 1, n) \in Seq(Letters) /\ Len(SubSeq(w, 1, n)) = IF 1 <= n THEN n - 1 + 1 ELSE 0
      BY <3>2, SubSeqProperties
    <3>4. Len(SubSeq(w, 1, n)) = n
      BY <3>2, <3>3
    <3> QED
      BY <3>3, <3>4 DEF n
  <2>6. SubSeq(w, 1, least - 1) # w
    BY <1>1, <2>4, <2>5
  <2> QED
    BY <1>2, <1>3, <1>5, <2>5, <2>6
<1> QED
  BY <1>4, <1>5

\* The prefixes of a string are prefix-closed.
LEMMA PrefixesAre ==
  ASSUME NEW s \in Seq(Letters)
  PROVE  /\ \A k \in 0..Len(s) : SubSeq(s, 1, k) \in Seq(Letters) /\ Len(SubSeq(s, 1, k)) = k
         /\ \A k \in 0..Len(s) : \A j \in 0..k : SubSeq(SubSeq(s, 1, k), 1, j) = SubSeq(s, 1, j)
         /\ SubSeq(s, 1, Len(s)) = s /\ Len(s) \in Nat
<1>0. Len(s) \in Nat /\ \A k \in 1..Len(s) : s[k] \in Letters
  OBVIOUS
<1>1. ASSUME NEW k \in 0..Len(s)
      PROVE  /\ SubSeq(s, 1, k) \in Seq(Letters) /\ Len(SubSeq(s, 1, k)) = k
             /\ \A j \in 1..k : SubSeq(s, 1, k)[j] = s[j]
  BY <1>0, SubSeqProperties
<1>2. ASSUME NEW k \in 0..Len(s), NEW j \in 0..k
      PROVE  SubSeq(SubSeq(s, 1, k), 1, j) = SubSeq(s, 1, j)
  <2> DEFINE t == SubSeq(s, 1, k)
  <2>1. t \in Seq(Letters) /\ Len(t) = k /\ \A m \in 1..k : t[m] = s[m]
    BY <1>1
  <2> HIDE DEF t
  <2>2. /\ SubSeq(t, 1, j) \in Seq(Letters) /\ Len(SubSeq(t, 1, j)) = j
        /\ \A m \in 1..j : SubSeq(t, 1, j)[m] = t[m]
    BY <1>2, <2>1, SubSeqProperties
  <2>3. j \in 0..Len(s)
    BY <1>0, <1>2
  <2>4. /\ SubSeq(s, 1, j) \in Seq(Letters) /\ Len(SubSeq(s, 1, j)) = j
        /\ \A m \in 1..j : SubSeq(s, 1, j)[m] = s[m]
    BY <1>1, <2>3
  <2>5. \A m \in 1..j : SubSeq(t, 1, j)[m] = SubSeq(s, 1, j)[m]
    BY <1>2, <2>1, <2>2, <2>4
  <2>6. SubSeq(t, 1, j) = SubSeq(s, 1, j)
    BY <2>2, <2>4, <2>5, SeqEqual
  <2> QED
    BY <2>6 DEF t
<1>3. SubSeq(s, 1, Len(s)) = s
  BY SubSeqFull
<1> QED
  BY <1>0, <1>1, <1>2, <1>3

\* insert_word accepts a word if it should.
LEMMA InsertAccepts ==
  ASSUME DataInv, TrieInv, InsertWord
  PROVE  DataInv' /\ words' \subseteq trie' \ {Root}
<1> DEFINE w    == Head(dict.left)
           walk == LettersOf(w)
<1>0. /\ dict.left \in Seq(Strings) /\ dict.left # <<>> /\ dict.done \in Seq(Strings)
      /\ minLength \in Nat /\ words = Accepted /\ words \subseteq trie \ {Root}
  BY DEF DataInv, TrieInv, InsertWord
<1>1. w \in Strings /\ Tail(dict.left) \in Seq(Strings) /\ Append(dict.done, w) \in Seq(Strings)
  BY <1>0
<1>2. /\ dict' = [left |-> Tail(dict.left), done |-> Append(dict.done, w)]
      /\ phase' = phase /\ minLength' = minLength /\ text' = text /\ i' = i
  BY DEF InsertWord
<1>3. ToSet(dict'.done) = ToSet(dict.done) \cup {w}
  BY <1>0, <1>1, <1>2, ToSetAppend
<1>4. Accepted' = Accepted \cup {x \in {w} : Len(x) >= minLength /\ x # <<>> /\ ToSet(x) \subseteq Letters}
  BY <1>2, <1>3 DEF Accepted
<1>5. walk \in Seq(Letters) /\ (walk = w <=> ToSet(w) \subseteq Letters) /\ Len(w) \in Nat
  BY <1>1, LettersOfIs, SuffixEnds
<1>6. SubSeq(walk, 1, Len(walk)) = walk /\ Len(walk) \in 0..Len(walk)
  BY <1>5, PrefixesAre
<1> HIDE DEF walk
<1>7. CASE Len(w) < minLength
  <2>1. trie' = trie /\ words' = words
    BY <1>7 DEF InsertWord
  <2>2. Accepted' = Accepted
    BY <1>0, <1>4, <1>5, <1>7
  <2> QED
    BY <1>0, <1>1, <1>2, <2>1, <2>2 DEF DataInv
<1>8. CASE ~(Len(w) < minLength)
  <2>1. /\ trie' = trie \cup {SubSeq(walk, 1, k) : k \in 0..Len(walk)}
        /\ words' = IF walk = w /\ w # <<>> THEN words \cup {w} ELSE words
    BY <1>8 DEF InsertWord, walk
  <2>2. Accepted' = words'
    BY <1>0, <1>4, <1>5, <1>8, <2>1
  <2>3. walk \in trie'
    BY <1>6, <2>1
  <2>4. words' \subseteq trie' \ {Root}
    BY <1>0, <2>1, <2>3 DEF Root
  <2> QED
    BY <1>0, <1>1, <1>2, <2>2, <2>4 DEF DataInv
<1> QED
  BY <1>7, <1>8

\* It keeps the trie prefix-closed, and the children those of the trie.
LEMMA InsertStep ==
  ASSUME IInv, InsertWord
  PROVE  IInv'
<1> DEFINE w     == Head(dict.left)
           walk  == LettersOf(w)
           added == {SubSeq(walk, 1, k) : k \in 0..Len(walk)}
           tree(t) == [u \in t |-> [c \in {d \in Letters : Append(u, d) \in t} |-> Append(u, c)]]
<1>0. DataInv /\ TrieInv /\ PhaseInv /\ ChildrenInv /\ phase = "insert"
  BY DEF IInv, InsertWord
<1>1. DataInv' /\ words' \subseteq trie' \ {Root}
  BY <1>0, InsertAccepts
<1>2. /\ phase' = phase /\ i' = i /\ state' = state /\ raw' = raw
      /\ failure' = failure /\ outputLink' = outputLink
  BY DEF InsertWord
<1>3. Complete = {} /\ DOMAIN failure = {} /\ Complete' = {} /\ DOMAIN failure' = {} /\ PhaseInv'
  BY <1>0, <1>2 DEF PhaseInv, Complete
<1>4. Head(dict.left) \in Strings
  BY <1>0 DEF DataInv, InsertWord
<1>5. walk \in Seq(Letters)
  BY <1>4, LettersOfIs
<1>6. \/ trie' = trie /\ children' = children
      \/ trie' = trie \cup added /\ children' = tree(trie')
  BY DEF InsertWord
<1> HIDE DEF walk
<1>7. TrieInv'
  <2>1. \A u \in added : u \in Seq(Letters) /\ \A j \in 0..Len(u) : SubSeq(u, 1, j) \in added
    <3> SUFFICES ASSUME NEW k \in 0..Len(walk)
                 PROVE  /\ SubSeq(walk, 1, k) \in Seq(Letters)
                        /\ \A j \in 0..Len(SubSeq(walk, 1, k)) : SubSeq(SubSeq(walk, 1, k), 1, j) \in added
      OBVIOUS
    <3>1. SubSeq(walk, 1, k) \in Seq(Letters) /\ Len(SubSeq(walk, 1, k)) = k /\ Len(walk) \in Nat
      BY <1>5, PrefixesAre
    <3>2. \A j \in 0..k : SubSeq(SubSeq(walk, 1, k), 1, j) = SubSeq(walk, 1, j) /\ j \in 0..Len(walk)
      BY <1>5, <3>1, PrefixesAre
    <3> QED
      BY <3>1, <3>2
  <2> HIDE DEF added
  <2> QED
    BY <1>0, <1>1, <1>6, <2>1 DEF TrieInv
<1>8. ChildrenInv'
  <2> DEFINE Made(t, f) == /\ DOMAIN f = t
                           /\ \A u \in t : f[u] = [c \in {d \in Letters : Append(u, d) \in t} |-> Append(u, c)]
  <2>1. Made(trie, children)
    BY <1>0, <1>3 DEF ChildrenInv
  <2>2. \A t : Made(t, tree(t))
    OBVIOUS
  <2> HIDE DEF Made, tree
  <2>3. Made(trie', children')
    BY <1>6, <2>1, <2>2
  <2> USE DEF Made
  <2> QED
    BY <1>3, <2>3 DEF ChildrenInv
<1>9. FailureInv' /\ OutputInv' /\ StateInv' /\ MatchesAreExact'
  BY <1>0, <1>2, <1>3 DEF FailureInv, OutputInv, StateInv, MatchesAreExact
<1> QED
  BY <1>1, <1>3, <1>7, <1>8, <1>9 DEF IInv
-----------------------------------------------------------------------------
(* build().                                                                *)

\* Appending a letter and taking the parent.
LEMMA ParentOfAppend ==
  ASSUME NEW s \in Strings, NEW c \in Chars
  PROVE  Parent(Append(s, c)) = s /\ Last(Append(s, c)) = c
<1> DEFINE t == Append(s, c)
<1>1. /\ t \in Strings /\ Len(t) = Len(s) + 1 /\ t[Len(s) + 1] = c /\ Len(s) \in Nat
      /\ \A j \in 1..Len(s) : t[j] = s[j]
  BY AppendIs, SuffixEnds
<1> HIDE DEF t
<1>2. \A j \in 1..Len(s) : t[j] \in Chars
  BY <1>1 DEF Strings, Chars
<1>3. /\ SubSeq(t, 1, Len(s)) \in Strings /\ Len(SubSeq(t, 1, Len(s))) = Len(s)
      /\ \A j \in 1..Len(s) : SubSeq(t, 1, Len(s))[j] = t[j]
  BY <1>1, <1>2, SubSeqProperties DEF Strings, Chars
<1>4. SubSeq(t, 1, Len(s)) = s
  BY <1>1, <1>3, Same
<1>5. Len(t) - 1 = Len(s)
  BY <1>1
<1> QED
  BY <1>1, <1>4, <1>5 DEF Parent, Last, t

\* A node other than the root is a child of its parent.
LEMMA NodeParent ==
  ASSUME TrieInv, NEW v \in trie \ {Root}
  PROVE  /\ v \in Strings /\ Parent(v) \in trie /\ Last(v) \in Letters
         /\ v = Append(Parent(v), Last(v))
         /\ Len(v) \in Nat /\ Len(v) >= 1 /\ Len(Parent(v)) = Len(v) - 1
<1>1. v \in Seq(Letters) /\ v # <<>> /\ v \in Strings /\ trie \subseteq Strings
  BY NodesAre DEF TrieInv, Root
<1>2. PICK s \in Seq(Letters), c \in Letters : v = Append(s, c)
  BY <1>1, SequenceEmptyOrAppend
<1>3. s \in Strings /\ c \in Chars
  <2>1. Seq(Letters) \subseteq Seq(Chars)
    BY SeqMonotonic DEF Chars
  <2> QED
    BY <2>1 DEF Strings, Chars
<1>4. Parent(v) = s /\ Last(v) = c
  BY <1>2, <1>3, ParentOfAppend
<1>5. s \in trie
  BY <1>2, <1>3, NodesAre
<1>6. Len(v) = Len(s) + 1 /\ Len(s) \in Nat
  BY <1>2, <1>3, AppendIs, SuffixEnds
<1> QED
  BY <1>1, <1>2, <1>4, <1>5, <1>6

\* What is pushed for a node that is not complete.
LEMMA PushedAre ==
  ASSUME TrieInv, ChildrenInv, NEW u \in trie \ Complete
  PROVE  /\ \A c \in Letters : Has(u, c) <=> Append(u, c) \in trie
         /\ ChildrenOf(u) \in Seq(trie \ {Root})
         /\ \A k, m \in 1..Len(ChildrenOf(u)) : k # m => ChildrenOf(u)[k] # ChildrenOf(u)[m]
         /\ ToSet(ChildrenOf(u)) = {v \in trie \ {Root} : Parent(v) = u}
         /\ \A k \in 1..Len(ChildrenOf(u)) :
              /\ ChildrenOf(u)[k] \in trie \ {Root} /\ Parent(ChildrenOf(u)[k]) = u
              /\ Len(ChildrenOf(u)[k]) = Len(u) + 1
<1>1. u \in Strings /\ trie \subseteq Strings
  BY NodesAre
<1>2. \A c \in Letters : Has(u, c) <=> Append(u, c) \in trie
  BY DEF Has, ChildrenInv
<1>3. /\ ChildrenOf(u) \in Seq(Strings)
      /\ ToSet(ChildrenOf(u)) = {Append(u, c) : c \in {d \in Letters : Has(u, d)}}
      /\ \A k, m \in 1..Len(ChildrenOf(u)) : k # m => ChildrenOf(u)[k] # ChildrenOf(u)[m]
  BY <1>1, ChildrenAre
<1>4. ASSUME NEW v \in ToSet(ChildrenOf(u)) PROVE v \in trie \ {Root} /\ Parent(v) = u /\ Len(v) = Len(u) + 1
  <2>1. PICK c \in Letters : Has(u, c) /\ v = Append(u, c)
    BY <1>3
  <2>2. c \in Chars
    BY DEF Chars
  <2> QED
    BY <1>1, <1>2, <2>1, <2>2, AppendIs, ParentOfAppend
<1>5. ASSUME NEW v \in trie \ {Root}, Parent(v) = u PROVE v \in ToSet(ChildrenOf(u))
  <2>1. Last(v) \in Letters /\ v = Append(u, Last(v))
    BY <1>5, NodeParent
  <2> QED
    BY <1>2, <1>3, <2>1
<1>6. ToSet(ChildrenOf(u)) = {v \in trie \ {Root} : Parent(v) = u}
  BY <1>4, <1>5
<1>7. \A k \in 1..Len(ChildrenOf(u)) : ChildrenOf(u)[k] \in ToSet(ChildrenOf(u))
  BY <1>3 DEF ToSet
<1>8. ChildrenOf(u) \in Seq(trie \ {Root})
  <2> DEFINE ch == ChildrenOf(u)
  <2>1. ch \in Seq(Strings) /\ \A k \in 1..Len(ch) : ch[k] \in trie \ {Root}
    BY <1>3, <1>4, <1>7
  <2> HIDE DEF ch
  <2>2. ch \in [1..Len(ch) -> trie \ {Root}] /\ Len(ch) \in Nat
    BY <2>1
  <2>3. ch \in Seq(trie \ {Root})
    BY <2>2
  <2> QED
    BY <2>3 DEF ch
<1> QED
  BY <1>2, <1>3, <1>4, <1>6, <1>7, <1>8

\* The transition from u with c, when x is what is left of it without u.
LEMMA TransitionIs ==
  ASSUME TrieInv, NEW u \in trie, NEW c \in Letters, NEW x,
         LongestIn(trie, x, Append(u, c), Len(u))
  PROVE  LongestIn(trie, IF Append(u, c) \in trie THEN Append(u, c) ELSE x, Append(u, c), Len(u) + 1)
<1> DEFINE t == Append(u, c)
<1>1. t \in Strings /\ Len(t) = Len(u) + 1 /\ Len(u) \in Nat
  BY NodesAre, AppendIs, SuffixEnds DEF Chars
<1>2. Suffix(t, Len(u) + 1) = t
  BY <1>1, SuffixEnds
<1>3. PICK k \in 0..Len(u) : /\ x = Suffix(t, k) /\ x \in trie
                             /\ \A j \in (k + 1)..Len(u) : Suffix(t, j) \notin trie
  BY DEF LongestIn
<1> HIDE DEF t
<1>4. CASE t \in trie
  BY <1>1, <1>2, <1>4 DEF LongestIn, t
<1>5. CASE t \notin trie
  <2>1. \A j \in (k + 1)..(Len(u) + 1) : Suffix(t, j) \notin trie
    BY <1>1, <1>2, <1>3, <1>5
  <2>2. k \in 0..(Len(u) + 1)
    BY <1>1
  <2> QED
    BY <1>3, <1>5, <2>1, <2>2 DEF LongestIn, t
<1> QED
  BY <1>4, <1>5

\* The root: its children are queued, and what it has no child for leads back to it.
LEMMA RootStep ==
  ASSUME IInv, BuildRoot
  PROVE  IInv'
<1> DEFINE ch == ChildrenOf(Root)
<1>0. DataInv /\ TrieInv /\ ChildrenInv /\ PhaseInv /\ phase = "insert"
  BY DEF IInv, BuildRoot
<1>1. /\ Complete = {} /\ Root \in trie \ Complete /\ Root \in Strings /\ Len(Root) = 0
      /\ i = 0 /\ state = Root /\ raw = <<>>
  <2>1. Root \in trie /\ Complete = {} /\ i = 0 /\ state = Root /\ raw = <<>>
    BY <1>0 DEF PhaseInv, TrieInv
  <2>2. Root \in Strings /\ Len(Root) = 0
    BY <2>1, <1>0, NodesAre, SuffixEnds
  <2> QED
    BY <2>1, <2>2
<1>2. /\ phase' = "bfs" /\ bfs' = ch /\ failure' = [u \in ToSet(ch) |-> Root]
      /\ outputLink' = [u \in {Root} |-> Root]
      /\ children' = [children EXCEPT ![Root] =
                        [c \in Letters |-> IF Has(Root, c) THEN <<c>> ELSE Root]]
      /\ UNCHANGED <<dict, minLength, trie, words, text, i, state, raw>>
  BY DEF BuildRoot
<1>3. /\ \A c \in Letters : Has(Root, c) <=> Append(Root, c) \in trie
      /\ ch \in Seq(trie \ {Root})
      /\ \A k, m \in 1..Len(ch) : k # m => ch[k] # ch[m]
      /\ ToSet(ch) = {v \in trie \ {Root} : Parent(v) = Root}
      /\ \A k \in 1..Len(ch) : Len(ch[k]) = 1
  <2>1. Len(Root) + 1 = 1
    BY <1>1
  <2> QED
    BY <1>0, <1>1, <2>1, PushedAre
<1> HIDE DEF ch
<1>4. Complete' = {Root} /\ DOMAIN failure' = ToSet(ch)
  BY <1>2 DEF Complete
<1>5. DataInv' /\ TrieInv'
  BY <1>0, <1>2 DEF DataInv, TrieInv, Accepted
<1>6. QueueInv'
  <2>1. Root \in trie /\ \A v \in trie : Len(v) < 1 => v = Root
    <3> SUFFICES ASSUME NEW v \in trie, Len(v) < 1 PROVE v = Root
      BY <1>1
    <3>1. v \in Strings
      BY <1>0, NodesAre
    <3> QED
      BY <3>1, SuffixEnds
  <2>2. ch # <<>> => Len(ch[1]) = 1
    <3>1. ch # <<>> => 1 \in 1..Len(ch)
      BY <1>3
    <3> QED
      BY <1>3, <3>1
  <2>3. \A k, m \in 1..Len(ch) : k < m =>
          ch[k] # ch[m] /\ Len(ch[k]) <= Len(ch[m]) /\ Len(ch[m]) <= Len(ch[k]) + 1
    BY <1>3
  <2>4. ToSet(ch) = {v \in trie \ ({Root} \cup {Root}) : Parent(v) \in {Root}}
        /\ ToSet(ch) = {v \in trie \ {Root} : Parent(v) \in {Root}}
    BY <1>3
  <2> QED
    BY <1>2, <1>3, <1>4, <2>1, <2>2, <2>3, <2>4 DEF QueueInv
<1>7. PhaseInv'
  BY <1>1, <1>2, <1>6 DEF PhaseInv
<1>8. \A u \in Strings : LongestIn(trie, Root, u, 0)
  <2> SUFFICES ASSUME NEW u \in Strings PROVE LongestIn(trie, Root, u, 0)
    OBVIOUS
  <2>1. Root = Suffix(u, 0) /\ Root \in trie /\ 0 \in 0..0 /\ \A j \in (0 + 1)..0 : FALSE
    BY <1>1, SuffixEnds
  <2> QED
    BY <2>1 DEF LongestIn
<1>9. ChildrenInv'
  <2>1. DOMAIN children = trie /\ DOMAIN children' = trie
    BY <1>0, <1>2 DEF ChildrenInv
  <2>2. \A u \in trie \ {Root} : children'[u] = children[u]
    BY <1>2, <2>1
  <2>3. \A u \in trie \ {Root} :
          children[u] = [c \in {d \in Letters : Append(u, d) \in trie} |-> Append(u, c)]
    BY <1>0, <1>1 DEF ChildrenInv
  <2>4. children'[Root] = [c \in Letters |-> IF Append(Root, c) \in trie THEN Append(Root, c) ELSE Root]
    <3>1. children'[Root] = [c \in Letters |-> IF Has(Root, c) THEN <<c>> ELSE Root]
      BY <1>1, <1>2, <2>1
    <3>2. \A c \in Letters : <<c>> = Append(Root, c)
      BY DEF Root
    <3> QED
      BY <1>3, <3>1, <3>2
  <2>5. \A c \in Letters : LongestIn(trie, children'[Root][c], Append(Root, c), Len(Root) + 1)
    <3> SUFFICES ASSUME NEW c \in Letters
                 PROVE  LongestIn(trie, children'[Root][c], Append(Root, c), Len(Root) + 1)
      OBVIOUS
    <3>1. Append(Root, c) \in Strings
      BY <1>1, AppendIs DEF Chars
    <3>2. LongestIn(trie, Root, Append(Root, c), Len(Root))
      BY <1>1, <1>8, <3>1
    <3>3. LongestIn(trie, IF Append(Root, c) \in trie THEN Append(Root, c) ELSE Root,
                    Append(Root, c), Len(Root) + 1)
      BY <1>0, <1>1, <3>2, TransitionIs
    <3>4. children'[Root][c] = IF Append(Root, c) \in trie THEN Append(Root, c) ELSE Root
      BY <2>4
    <3> QED
      BY <3>3, <3>4
  <2>6. DOMAIN children'[Root] = Letters
    BY <2>4
  <2>7. \A u \in trie \ Complete' :
          children'[u] = [c \in {d \in Letters : Append(u, d) \in trie} |-> Append(u, c)]
    BY <1>4, <2>2, <2>3
  <2>8. \A u \in Complete' :
          /\ DOMAIN children'[u] = Letters
          /\ \A c \in Letters : LongestIn(trie, children'[u][c], Append(u, c), Len(u) + 1)
    BY <1>4, <2>5, <2>6
  <2>9. trie' = trie
    BY <1>2
  <2> QED
    BY <2>1, <2>7, <2>8, <2>9 DEF ChildrenInv
<1>10. FailureInv'
  <2> SUFFICES ASSUME NEW u \in ToSet(ch)
               PROVE  u \in trie \ {Root} /\ LongestIn(trie, Root, u, Len(u) - 1)
    BY <1>2, <1>4 DEF FailureInv
  <2>1. u \in trie \ {Root} /\ u \in Strings
    BY <1>0, <1>3, NodesAre
  <2>2. Len(u) = 1
    BY <1>3 DEF ToSet
  <2>3. Len(u) - 1 = 0
    BY <2>2
  <2> QED
    BY <1>8, <2>1, <2>3
<1>11. OutputInv' /\ StateInv' /\ MatchesAreExact'
  BY <1>2, <1>4 DEF OutputInv, StateInv, MatchesAreExact
<1> QED
  BY <1>5, <1>7, <1>9, <1>10, <1>11 DEF IInv

\* The node at the head of the queue: its failure node is complete, being shallower.
LEMMA HeadIs ==
  ASSUME TrieInv, QueueInv, FailureInv, bfs # <<>>, NEW u, u = Head(bfs)
  PROVE  /\ u \in trie \ {Root} /\ u \notin Complete /\ Parent(u) \in Complete /\ u \in Strings
         /\ u \in ToSet(bfs) /\ u = bfs[1] /\ Len(u) \in Nat /\ Len(u) >= 1
         /\ LongestIn(trie, failure[u], u, Len(u) - 1) /\ failure[u] \in Complete
         /\ failure[u] \in Strings
<1>1. bfs \in Seq(trie \ {Root}) /\ Len(bfs) \in Nat /\ 1 \in DOMAIN bfs /\ u = bfs[1]
  BY DEF QueueInv
<1>2. u \in ToSet(bfs)
  BY <1>1 DEF ToSet
<1>3. u \in trie \ {Root} /\ u \notin Complete /\ Parent(u) \in Complete /\ u \in DOMAIN failure
  BY <1>2 DEF QueueInv
<1>4. u \in Strings /\ Len(u) \in Nat /\ Len(u) >= 1
  BY <1>3, NodeParent
<1>5. LongestIn(trie, failure[u], u, Len(u) - 1)
  BY <1>3 DEF FailureInv
<1>6. Len(u) - 1 \in -1..Len(u)
  BY <1>4
<1>7. failure[u] \in trie /\ failure[u] \in Strings /\ Len(failure[u]) \in 0..(Len(u) - 1)
  BY <1>4, <1>5, <1>6, LongestIs
<1>8. Len(failure[u]) < Len(bfs[1])
  BY <1>1, <1>4, <1>7
<1>9. failure[u] \in Complete
  BY <1>7, <1>8 DEF QueueInv
<1> QED
  BY <1>1, <1>2, <1>3, <1>4, <1>5, <1>7, <1>9

\* One turn of the loop and the queue.
LEMMA QueueStep ==
  ASSUME IInv, BuildNode
  PROVE  QueueInv' /\ Complete' = Complete \cup {Head(bfs)}
<1> DEFINE u  == Head(bfs)
           ch == ChildrenOf(u)
           n  == Len(bfs)
           h  == Len(u)
<1>0. TrieInv /\ ChildrenInv /\ FailureInv /\ QueueInv /\ bfs # <<>>
  BY DEF IInv, PhaseInv, BuildNode
<1>1. /\ bfs' = Tail(bfs) \o ch /\ trie' = trie
      /\ DOMAIN failure' = DOMAIN failure \cup ToSet(ch)
      /\ Complete' = Complete \cup {u}
  BY DEF BuildNode, Complete
<1>2. /\ u \in trie \ {Root} /\ u \notin Complete /\ Parent(u) \in Complete
      /\ u \in ToSet(bfs) /\ u = bfs[1] /\ h \in Nat /\ h >= 1
  BY <1>0, HeadIs
<1>3. /\ ch \in Seq(trie \ {Root})
      /\ \A k, m \in 1..Len(ch) : k # m => ch[k] # ch[m]
      /\ ToSet(ch) = {v \in trie \ {Root} : Parent(v) = u}
      /\ \A k \in 1..Len(ch) : ch[k] \in trie \ {Root} /\ Parent(ch[k]) = u /\ Len(ch[k]) = h + 1
  BY <1>0, <1>2, PushedAre
<1>4. /\ bfs \in Seq(trie \ {Root}) /\ n \in Nat /\ n >= 1 /\ DOMAIN bfs = 1..n
      /\ ToSet(bfs) = {bfs[k] : k \in 1..n}
      /\ \A k, m \in 1..n : k < m =>
           bfs[k] # bfs[m] /\ Len(bfs[k]) <= Len(bfs[m]) /\ Len(bfs[m]) <= Len(bfs[k]) + 1
      /\ ToSet(bfs) = {v \in trie \ ({Root} \cup Complete) : Parent(v) \in Complete}
  BY <1>0 DEF QueueInv, ToSet
<1>5. \A v \in trie : v \in Strings /\ Len(v) \in Nat
  BY <1>0, NodesAre, SuffixEnds
<1> HIDE DEF u, ch, n, h
<1>6. /\ bfs' \in Seq(trie \ {Root}) /\ Len(bfs') = n - 1 + Len(ch) /\ Len(ch) \in Nat
      /\ \A k \in 1..(n - 1) : bfs'[k] = bfs[k + 1]
      /\ \A k \in 1..Len(ch) : bfs'[n - 1 + k] = ch[k]
  <2>1. /\ Tail(bfs) \in Seq(trie \ {Root}) /\ Len(Tail(bfs)) = n - 1
        /\ \A k \in 1..(n - 1) : Tail(bfs)[k] = bfs[k + 1]
    BY <1>0, <1>4, HeadTailProperties DEF n
  <2>2. /\ bfs' \in Seq(trie \ {Root}) /\ Len(bfs') = Len(Tail(bfs)) + Len(ch)
        /\ \A k \in 1..(Len(Tail(bfs)) + Len(ch)) :
             bfs'[k] = IF k <= Len(Tail(bfs)) THEN Tail(bfs)[k] ELSE ch[k - Len(Tail(bfs))]
    BY <1>1, <1>3, <2>1, ConcatProperties
  <2>3. Len(ch) \in Nat
    BY <1>3
  <2>4. \A k \in 1..(n - 1) : bfs'[k] = bfs[k + 1]
    BY <1>4, <2>1, <2>2, <2>3
  <2>5. \A k \in 1..Len(ch) : bfs'[n - 1 + k] = ch[k]
    <3> SUFFICES ASSUME NEW k \in 1..Len(ch) PROVE bfs'[n - 1 + k] = ch[k]
      OBVIOUS
    <3>1. n - 1 + k \in 1..(n - 1 + Len(ch)) /\ ~(n - 1 + k <= n - 1) /\ (n - 1 + k) - (n - 1) = k
      BY <1>4, <2>3
    <3> QED
      BY <2>1, <2>2, <3>1
  <2> QED
    BY <2>1, <2>2, <2>3, <2>4, <2>5
\* Which nodes the two parts of the new queue hold, and how deep these are.
<1>7. \A k \in 1..(n - 1) : /\ bfs'[k] \in ToSet(bfs) \ {u} /\ Parent(bfs'[k]) \in Complete
                            /\ h <= Len(bfs'[k]) /\ Len(bfs'[k]) <= h + 1
  <2> SUFFICES ASSUME NEW k \in 1..(n - 1)
               PROVE  /\ bfs[k + 1] \in ToSet(bfs) \ {u} /\ Parent(bfs[k + 1]) \in Complete
                      /\ h <= Len(bfs[k + 1]) /\ Len(bfs[k + 1]) <= h + 1
    BY <1>6
  <2>1. 1 \in 1..n /\ k + 1 \in 1..n /\ 1 < k + 1
    BY <1>4
  <2>2. bfs[k + 1] \in ToSet(bfs) /\ bfs[1] # bfs[k + 1]
    BY <1>4, <2>1
  <2>3. h <= Len(bfs[k + 1]) /\ Len(bfs[k + 1]) <= h + 1
    BY <1>2, <1>4, <2>1 DEF h
  <2> QED
    BY <1>2, <1>4, <2>2, <2>3
<1>8. \A k \in n..Len(bfs') : /\ k - (n - 1) \in 1..Len(ch) /\ bfs'[k] = ch[k - (n - 1)]
                              /\ bfs'[k] \in trie \ {Root} /\ Parent(bfs'[k]) = u /\ Len(bfs'[k]) = h + 1
  <2> SUFFICES ASSUME NEW k \in n..Len(bfs')
               PROVE  /\ k - (n - 1) \in 1..Len(ch) /\ bfs'[k] = ch[k - (n - 1)]
                      /\ bfs'[k] \in trie \ {Root} /\ Parent(bfs'[k]) = u /\ Len(bfs'[k]) = h + 1
    OBVIOUS
  <2>1. k - (n - 1) \in 1..Len(ch) /\ n - 1 + (k - (n - 1)) = k
    BY <1>4, <1>6
  <2> QED
    BY <1>3, <1>6, <2>1
<1>9. \A k, m \in 1..Len(bfs') : k < m =>
        bfs'[k] # bfs'[m] /\ Len(bfs'[k]) <= Len(bfs'[m]) /\ Len(bfs'[m]) <= Len(bfs'[k]) + 1
  <2> SUFFICES ASSUME NEW k \in 1..Len(bfs'), NEW m \in 1..Len(bfs'), k < m
               PROVE  bfs'[k] # bfs'[m] /\ Len(bfs'[k]) <= Len(bfs'[m]) /\ Len(bfs'[m]) <= Len(bfs'[k]) + 1
    OBVIOUS
  <2>0. k \in Int /\ m \in Int /\ Len(bfs') \in Int
    BY <1>6
  <2>1. CASE m <= n - 1
    <3>1. k \in 1..(n - 1) /\ m \in 1..(n - 1) /\ k + 1 \in 1..n /\ m + 1 \in 1..n /\ k + 1 < m + 1
      BY <1>4, <2>0, <2>1
    <3>2. bfs'[k] = bfs[k + 1] /\ bfs'[m] = bfs[m + 1]
      BY <1>6, <3>1
    <3>3. /\ bfs[k + 1] # bfs[m + 1] /\ Len(bfs[k + 1]) <= Len(bfs[m + 1])
          /\ Len(bfs[m + 1]) <= Len(bfs[k + 1]) + 1
      BY <1>4, <3>1
    <3> QED
      BY <3>2, <3>3
  <2>2. CASE k <= n - 1 /\ ~(m <= n - 1)
    <3>1. k \in 1..(n - 1) /\ m \in n..Len(bfs')
      BY <1>4, <2>0, <2>2
    <3>2. Parent(bfs'[k]) # Parent(bfs'[m])
      BY <1>2, <1>7, <1>8, <3>1
    <3>3. /\ h <= Len(bfs'[k]) /\ Len(bfs'[k]) <= h + 1 /\ Len(bfs'[m]) = h + 1
          /\ Len(bfs'[k]) \in Nat /\ h \in Nat
      BY <1>2, <1>4, <1>5, <1>7, <1>8, <3>1
    <3>4. Len(bfs'[k]) <= Len(bfs'[m]) /\ Len(bfs'[m]) <= Len(bfs'[k]) + 1
      BY <3>3
    <3> QED
      BY <3>2, <3>4
  <2>3. CASE ~(k <= n - 1)
    <3>1. k \in n..Len(bfs') /\ m \in n..Len(bfs') /\ k - (n - 1) # m - (n - 1)
      BY <1>4, <2>0, <2>3
    <3>2. bfs'[k] # bfs'[m]
      BY <1>3, <1>8, <3>1
    <3>3. Len(bfs'[k]) = h + 1 /\ Len(bfs'[m]) = h + 1
      BY <1>8, <3>1
    <3> QED
      BY <1>2, <3>2, <3>3
  <2> QED
    BY <1>4, <2>0, <2>1, <2>2, <2>3
<1>10. ToSet(bfs') = (ToSet(bfs) \ {u}) \cup ToSet(ch)
  <2>1. ToSet(bfs') = {bfs'[k] : k \in 1..Len(bfs')}
    BY <1>6 DEF ToSet
  <2>2. ASSUME NEW v \in ToSet(bfs') PROVE v \in (ToSet(bfs) \ {u}) \cup ToSet(ch)
    <3>1. PICK k \in 1..Len(bfs') : v = bfs'[k]
      BY <2>1, <2>2
    <3>2. k \in 1..(n - 1) \/ k \in n..Len(bfs')
      BY <1>4, <1>6
    <3> QED
      BY <1>3, <1>7, <1>8, <3>1, <3>2
  <2>3. ASSUME NEW v \in ToSet(bfs) \ {u} PROVE v \in ToSet(bfs')
    <3>1. PICK k \in 1..n : v = bfs[k]
      BY <1>4, <2>3
    <3>2. k # 1
      BY <1>2, <2>3, <3>1
    <3>3. k - 1 \in 1..(n - 1) /\ (k - 1) + 1 = k /\ k - 1 \in 1..Len(bfs')
      BY <1>4, <1>6, <3>2
    <3>4. bfs'[k - 1] = v
      BY <1>6, <3>1, <3>3
    <3> QED
      BY <2>1, <3>3, <3>4
  <2>4. ASSUME NEW v \in ToSet(ch) PROVE v \in ToSet(bfs')
    <3>1. PICK k \in 1..Len(ch) : v = ch[k]
      BY <1>3, <2>4 DEF ToSet
    <3>2. n - 1 + k \in 1..Len(bfs')
      BY <1>4, <1>6
    <3>3. bfs'[n - 1 + k] = v
      BY <1>6, <3>1
    <3> QED
      BY <2>1, <3>2, <3>3
  <2> QED
    BY <2>2, <2>3, <2>4
<1>11. \A v \in Complete \ {Root} : Parent(v) \in Complete
  BY <1>0 DEF QueueInv
<1>12. \A v \in trie \ {Root} : v \in ToSet(ch) => v \notin Complete /\ v # u
  <2> SUFFICES ASSUME NEW v \in trie \ {Root}, Parent(v) = u PROVE v \notin Complete /\ v # u
    BY <1>3
  <2>1. v \notin Complete
    BY <1>2, <1>11
  <2>2. Parent(u) # u
    BY <1>2
  <2> QED
    BY <2>1, <2>2
<1>13. ToSet(bfs') = {v \in trie \ ({Root} \cup Complete') : Parent(v) \in Complete'}
  BY <1>1, <1>3, <1>4, <1>10, <1>12
<1>14. DOMAIN failure' = {v \in trie \ {Root} : Parent(v) \in Complete'}
  <2>1. DOMAIN failure = {v \in trie \ {Root} : Parent(v) \in Complete}
    BY <1>0 DEF QueueInv
  <2> QED
    BY <1>1, <1>3, <2>1
<1>15. \A v \in Complete' \ {Root} : Parent(v) \in Complete'
  BY <1>1, <1>2, <1>11
<1>16. ASSUME bfs' # <<>>, NEW v \in trie, Len(v) < Len(bfs'[1]) PROVE v \in Complete'
  <2>1. 1 \in 1..Len(bfs') /\ Len(bfs') \in Nat
    BY <1>6, <1>16
  <2>2. Len(bfs'[1]) <= h + 1 /\ Len(bfs'[1]) \in Nat
    <3>1. 1 \in 1..(n - 1) \/ 1 \in n..Len(bfs')
      BY <1>4, <2>1
    <3>2. Len(bfs'[1]) <= h + 1
      BY <1>2, <1>7, <1>8, <3>1
    <3>3. bfs'[1] \in trie
      BY <1>6, <2>1
    <3> QED
      BY <1>5, <3>2, <3>3
  <2>3. CASE Len(v) < h
    <3>1. Len(v) < Len(bfs[1])
      BY <1>2, <2>3 DEF h
    <3> QED
      BY <1>0, <1>1, <3>1 DEF QueueInv
  <2>4. CASE ~(Len(v) < h)
    <3>1. Len(v) = h
      BY <1>2, <1>5, <1>16, <2>2, <2>4
    <3>2. v \in trie \ {Root}
      <4>1. Len(Root) = 0
        BY <1>5, SuffixEnds
      <4> QED
        BY <1>2, <3>1, <4>1
    <3>3. Parent(v) \in trie /\ Len(Parent(v)) < h
      BY <1>0, <1>2, <3>1, <3>2, NodeParent
    <3>4. Parent(v) \in Complete
      BY <1>0, <1>2, <3>3 DEF QueueInv, h
    <3>5. CASE v \in Complete
      BY <1>1, <3>5
    <3>6. CASE v = u
      BY <1>1, <3>6
    <3>7. CASE v \notin Complete /\ v # u
      <4>1. v \in ToSet(bfs)
        BY <1>4, <3>2, <3>4, <3>7
      <4>2. PICK j \in 1..n : v = bfs[j]
        BY <1>4, <4>1
      <4>3. j # 1
        BY <1>2, <3>7, <4>2
      <4>4. 2 \in 1..n /\ bfs'[1] = bfs[2] /\ (2 < j \/ 2 = j)
        <5>1. 1 \in 1..(n - 1) /\ 1 + 1 = 2 /\ j \in Int /\ 2 \in 1..n /\ (2 < j \/ 2 = j)
          BY <1>4, <4>3
        <5> QED
          BY <1>6, <5>1
      <4>5. Len(bfs[2]) <= Len(bfs[j])
        BY <1>4, <1>5, <4>2, <4>4
      <4>6. ~(Len(v) < Len(bfs'[1]))
        BY <1>5, <2>2, <4>2, <4>4, <4>5
      <4> QED
        BY <1>16, <4>6
    <3> QED
      BY <3>5, <3>6, <3>7
  <2> QED
    BY <2>3, <2>4
<1>17. Root \in Complete' /\ Complete' \subseteq trie
  BY <1>0, <1>1, <1>2 DEF QueueInv
<1> QED
  BY <1>1, <1>6, <1>9, <1>13, <1>14, <1>15, <1>16, <1>17 DEF QueueInv, u

\* One turn of the loop and the links: those of u's failure node are there already.
LEMMA NodeStep ==
  ASSUME IInv, BuildNode
  PROVE  IInv'
<1> DEFINE u  == Head(bfs)
           ch == ChildrenOf(u)
           f  == failure[u]
<1>0. /\ DataInv /\ TrieInv /\ ChildrenInv /\ FailureInv /\ OutputInv /\ QueueInv /\ PhaseInv
      /\ phase = "bfs" /\ bfs # <<>>
  BY DEF IInv, PhaseInv, BuildNode
<1>1. QueueInv' /\ Complete' = Complete \cup {u}
  BY QueueStep
<1>2. /\ outputLink' = [v \in DOMAIN outputLink \cup {u} |->
                          IF v = u THEN OutputOf(u) ELSE outputLink[v]]
      /\ failure' = [v \in DOMAIN failure \cup ToSet(ch) |->
                       IF v \in ToSet(ch) THEN FailureOf(u, Last(v)) ELSE failure[v]]
      /\ children' = [children EXCEPT ![u] =
                        [c \in Letters |-> IF Has(u, c) THEN Append(u, c) ELSE FailureOf(u, c)]]
      /\ UNCHANGED <<dict, minLength, phase, trie, words, text, i, state, raw>>
  BY DEF BuildNode
<1>3. /\ u \in trie \ {Root} /\ u \notin Complete /\ u \in Strings /\ Len(u) \in Nat /\ Len(u) >= 1
      /\ LongestIn(trie, f, u, Len(u) - 1) /\ f \in Complete /\ f \in Strings
  BY <1>0, HeadIs
<1>4. /\ \A c \in Letters : Has(u, c) <=> Append(u, c) \in trie
      /\ ToSet(ch) = {v \in trie \ {Root} : Parent(v) = u}
  BY <1>0, <1>3, PushedAre
<1> HIDE DEF u, ch
<1>5. DataInv' /\ TrieInv' /\ PhaseInv'
  BY <1>0, <1>1, <1>2 DEF DataInv, TrieInv, PhaseInv, Accepted
\* What FailureOf finds with the failure node's transitions.
<1>6. ASSUME NEW c \in Letters
      PROVE  LongestIn(trie, FailureOf(u, c), Append(u, c), Len(u))
  <2>1. LongestIn(trie, FailureOf(u, c), Append(f, c), Len(f) + 1)
    BY <1>0, <1>3 DEF ChildrenInv, FailureOf
  <2>2. c \in Chars /\ Len(u) - 1 \in 0..Len(u) /\ (Len(u) - 1) + 1 = Len(u)
    BY <1>3 DEF Chars
  <2> HIDE DEF f
  <2>3. LongestIn(trie, FailureOf(u, c), Append(u, c), (Len(u) - 1) + 1)
    BY <1>0, <1>3, <2>1, <2>2, LongestExtends
  <2> QED
    BY <2>2, <2>3
<1>7. ChildrenInv'
  <2>1. DOMAIN children' = trie /\ \A v \in trie \ {u} : children'[v] = children[v]
    BY <1>0, <1>2 DEF ChildrenInv
  <2>2. children'[u] = [c \in Letters |-> IF Append(u, c) \in trie THEN Append(u, c) ELSE FailureOf(u, c)]
    <3>1. children'[u] = [c \in Letters |-> IF Has(u, c) THEN Append(u, c) ELSE FailureOf(u, c)]
      BY <1>0, <1>2, <1>3 DEF ChildrenInv
    <3> QED
      BY <1>4, <3>1
  <2>3. \A c \in Letters : LongestIn(trie, children'[u][c], Append(u, c), Len(u) + 1)
    <3> SUFFICES ASSUME NEW c \in Letters
                 PROVE  LongestIn(trie, children'[u][c], Append(u, c), Len(u) + 1)
      OBVIOUS
    <3>1. children'[u][c] = IF Append(u, c) \in trie THEN Append(u, c) ELSE FailureOf(u, c)
      BY <2>2
    <3>2. LongestIn(trie, FailureOf(u, c), Append(u, c), Len(u))
      BY <1>6
    <3>3. LongestIn(trie, IF Append(u, c) \in trie THEN Append(u, c) ELSE FailureOf(u, c),
                    Append(u, c), Len(u) + 1)
      BY <1>0, <1>3, <3>2, TransitionIs
    <3> QED
      BY <3>1, <3>3
  <2>4. \A v \in trie \ Complete' :
          children'[v] = [c \in {d \in Letters : Append(v, d) \in trie} |-> Append(v, c)]
    BY <1>0, <1>1, <2>1 DEF ChildrenInv
  <2>5. ASSUME NEW v \in Complete'
        PROVE  /\ DOMAIN children'[v] = Letters
               /\ \A c \in Letters : LongestIn(trie, children'[v][c], Append(v, c), Len(v) + 1)
    <3>1. CASE v = u
      BY <2>2, <2>3, <3>1
    <3>2. CASE v # u
      <4>1. v \in Complete /\ v \in trie
        BY <1>0, <1>1, <3>2 DEF QueueInv
      <4>2. children'[v] = children[v]
        BY <2>1, <3>2, <4>1
      <4> QED
        BY <1>0, <4>1, <4>2 DEF ChildrenInv
    <3> QED
      BY <3>1, <3>2
  <2>6. trie' = trie
    BY <1>2
  <2> QED
    BY <2>1, <2>4, <2>5, <2>6 DEF ChildrenInv
<1>8. FailureInv'
  <2>1. DOMAIN failure' = DOMAIN failure \cup ToSet(ch) /\ trie' = trie
    BY <1>2
  <2>2. ASSUME NEW v \in DOMAIN failure \cup ToSet(ch)
        PROVE  v \in trie \ {Root} /\ LongestIn(trie, failure'[v], v, Len(v) - 1)
    <3>1. CASE v \in ToSet(ch)
      <4>1. v \in trie \ {Root} /\ Last(v) \in Letters /\ v = Append(u, Last(v)) /\ Len(u) = Len(v) - 1
        BY <1>0, <1>4, <3>1, NodeParent
      <4>2. failure'[v] = FailureOf(u, Last(v))
        BY <1>2, <3>1
      <4>3. LongestIn(trie, FailureOf(u, Last(v)), Append(u, Last(v)), Len(u))
        BY <1>6, <4>1
      <4> QED
        BY <4>1, <4>2, <4>3
    <3>2. CASE v \notin ToSet(ch)
      <4>1. v \in DOMAIN failure /\ failure'[v] = failure[v]
        BY <1>2, <2>2, <3>2
      <4> QED
        BY <1>0, <4>1 DEF FailureInv
    <3> QED
      BY <3>1, <3>2
  <2> QED
    BY <2>1, <2>2 DEF FailureInv
<1>9. OutputInv'
  <2>1. LongestIn(words \cup {Root}, OutputOf(u), u, Len(u) - 1)
    <3>1. /\ f = Root => outputLink[f] = Root
          /\ f # Root => LongestIn(words \cup {Root}, outputLink[f], f, Len(f) - 1)
      BY <1>0, <1>3 DEF OutputInv
    <3>2. OutputOf(u) = IF f \in words THEN f ELSE outputLink[f]
      BY DEF OutputOf
    <3>3. u # Root
      BY <1>3
    <3> HIDE DEF f
    <3> QED
      BY <1>0, <1>3, <3>1, <3>2, <3>3, OutputExtends
  <2>2. outputLink'[u] = OutputOf(u) /\ \A v \in Complete \ {u} : outputLink'[v] = outputLink[v]
    BY <1>2 DEF Complete
  <2>3. words' = words
    BY <1>2
  <2>4. ASSUME NEW v \in Complete'
        PROVE  /\ v = Root => outputLink'[v] = Root
               /\ v # Root => LongestIn(words \cup {Root}, outputLink'[v], v, Len(v) - 1)
    <3>1. CASE v = u
      BY <1>3, <2>1, <2>2, <3>1
    <3>2. CASE v # u
      <4>1. v \in Complete /\ outputLink'[v] = outputLink[v]
        BY <1>1, <2>2, <3>2
      <4> QED
        BY <1>0, <4>1 DEF OutputInv
    <3> QED
      BY <3>1, <3>2
  <2> QED
    BY <2>3, <2>4 DEF OutputInv
<1>10. StateInv' /\ MatchesAreExact'
  BY <1>0, <1>2 DEF StateInv, MatchesAreExact
<1> QED
  BY <1>5, <1>7, <1>8, <1>9, <1>10 DEF IInv

\* When the queue is empty, every node has been in it.
LEMMA AllComplete ==
  ASSUME TrieInv, QueueInv, bfs = <<>>
  PROVE  Complete = trie
<1> DEFINE T == {Len(v) : v \in trie \ Complete}
<1>1. \A v \in trie : v \in Strings /\ Len(v) \in Nat
  BY NodesAre, SuffixEnds
<1>2. T \in SUBSET Nat
  BY <1>1
<1>3. ASSUME T # {} PROVE FALSE
  <2>1. PICK n \in T : \A m \in T : n <= m
    BY <1>2, <1>3, Least
  <2>2. PICK v \in trie \ Complete : n = Len(v)
    BY <2>1
  <2>3. v \in trie \ {Root}
    BY <2>2 DEF QueueInv
  <2>4. Parent(v) \in trie /\ Len(Parent(v)) = Len(v) - 1 /\ Len(v) \in Nat
    BY <2>3, NodeParent
  <2>5. ~(Len(v) <= Len(Parent(v)))
    BY <2>4
  <2>6. Parent(v) \in Complete
    BY <2>1, <2>2, <2>4, <2>5
  <2>7. v \in ToSet(bfs)
    BY <2>2, <2>3, <2>6 DEF QueueInv
  <2> QED
    BY <2>7 DEF ToSet
<1>4. trie \subseteq Complete
  BY <1>3
<1> QED
  BY <1>4 DEF QueueInv
-----------------------------------------------------------------------------
(* What is expected of a scan.                                             *)

\* The words s ends with.
Endings(s) == {w \in words : Len(w) <= Len(s) /\ Suffix(s, Len(w)) = w}

\* They are finitely many, and told apart by their length.
LEMMA EndingsFinite ==
  ASSUME TrieInv, NEW s \in Strings
  PROVE  /\ IsFiniteSet(Endings(s)) /\ Cardinality(Endings(s)) \in Nat
         /\ \A w \in Endings(s) : /\ w \in words /\ w \in trie \ {Root} /\ w \in Strings
                                  /\ Len(w) \in 1..Len(s) /\ Suffix(s, Len(w)) = w
<1> DEFINE f == [k \in 0..Len(s) |-> Suffix(s, k)]
           T == {f[k] : k \in 0..Len(s)}
<1>0. Len(s) \in Nat
  BY SuffixEnds
<1>1. ASSUME NEW w \in Endings(s)
      PROVE  /\ w \in words /\ w \in trie \ {Root} /\ w \in Strings
             /\ Len(w) \in 1..Len(s) /\ Suffix(s, Len(w)) = w
  <2>1. w \in words /\ w \in trie \ {Root} /\ w \in Strings /\ Len(w) <= Len(s) /\ Suffix(s, Len(w)) = w
    BY NodesAre DEF Endings, TrieInv
  <2>2. Len(w) \in Nat /\ Len(w) # 0
    BY <2>1, SuffixEnds
  <2> QED
    BY <1>0, <2>1, <2>2
<1>2. IsFiniteSet(0..Len(s))
  BY <1>0, FS_Interval
<1>3. f \in Surjection(0..Len(s), T)
  BY DEF Surjection
<1>4. IsFiniteSet(T)
  BY <1>2, <1>3, FS_Surjection
<1>5. Endings(s) \in SUBSET T
  <2> SUFFICES ASSUME NEW w \in Endings(s) PROVE w \in T
    OBVIOUS
  <2>1. Len(w) \in 0..Len(s) /\ f[Len(w)] = w
    BY <1>0, <1>1
  <2> QED
    BY <2>1
<1>6. IsFiniteSet(Endings(s))
  BY <1>4, <1>5, FS_Subset
<1> QED
  BY <1>1, <1>6, FS_CardinalityType

\* The suffixes of what was read, told by positions.
LEMMA SuffixOfText ==
  ASSUME NEW t \in Strings, NEW e \in 0..Len(t)
  PROVE  /\ SubSeq(t, 1, e) \in Strings /\ Len(SubSeq(t, 1, e)) = e
         /\ \A k \in 0..e : Suffix(SubSeq(t, 1, e), k) = SubSeq(t, e - k + 1, e)
<1> DEFINE p == SubSeq(t, 1, e)
<1>0. Len(t) \in Nat /\ \A j \in 1..Len(t) : t[j] \in Chars
  BY DEF Strings, Chars
<1>1. p \in Strings /\ Len(p) = e /\ \A j \in 1..e : p[j] = t[j]
  BY <1>0, SubSeqProperties DEF Strings, Chars
<1> HIDE DEF p
<1>2. ASSUME NEW k \in 0..e PROVE Suffix(p, k) = SubSeq(t, e - k + 1, e)
  <2> DEFINE m == e - k + 1
  <2>0. m \in Int /\ m >= 1 /\ e \in Int /\ e - m + 1 = k
    BY <1>2
  <2>1. \A j \in m..e : t[j] \in Chars
    BY <1>0, <2>0
  <2> HIDE DEF m
  <2>2. /\ SubSeq(t, m, e) \in Strings /\ Len(SubSeq(t, m, e)) = (IF m <= e THEN e - m + 1 ELSE 0)
        /\ \A j \in 1..(e - m + 1) : SubSeq(t, m, e)[j] = t[m + j - 1]
    BY <2>0, <2>1, SubSeqProperties DEF Strings, Chars
  <2>3. /\ Suffix(p, k) \in Strings /\ Len(Suffix(p, k)) = k
        /\ \A j \in 1..k : Suffix(p, k)[j] = p[e - k + j]
    BY <1>1, <1>2, SuffixIs
  <2>4. Len(SubSeq(t, m, e)) = k
    BY <1>2, <2>0, <2>2
  <2>5. ASSUME NEW j \in 1..k PROVE Suffix(p, k)[j] = SubSeq(t, m, e)[j]
    <3>1. e - k + j \in 1..e /\ m + j - 1 = e - k + j /\ j \in 1..(e - m + 1)
      BY <1>2, <2>0 DEF m
    <3> QED
      BY <1>1, <2>2, <2>3, <3>1
  <2>6. Suffix(p, k) = SubSeq(t, m, e)
    BY <2>2, <2>3, <2>4, <2>5, Same
  <2> QED
    BY <2>6 DEF m
<1> QED
  BY <1>1, <1>2 DEF p

\* The words that end at e.
LEMMA EndingsOfText ==
  ASSUME DataInv, TrieInv, NEW e \in 0..Len(text)
  PROVE  SubSeq(text, 1, e) \in Strings /\ EndingAt(e) = Endings(SubSeq(text, 1, e))
<1>1. /\ SubSeq(text, 1, e) \in Strings /\ Len(SubSeq(text, 1, e)) = e
      /\ \A k \in 0..e : Suffix(SubSeq(text, 1, e), k) = SubSeq(text, e - k + 1, e)
  BY SuffixOfText DEF DataInv
<1>2. words = Accepted /\ \A w \in words : Len(w) \in Nat
  BY NodesAre, SuffixEnds DEF DataInv, TrieInv
<1>3. \A w \in words : Len(w) <= e => SubSeq(text, e - Len(w) + 1, e) = Suffix(SubSeq(text, 1, e), Len(w))
  BY <1>1, <1>2
<1> QED
  BY <1>1, <1>2, <1>3 DEF EndingAt, Endings

\* The matches that end at e.
Match(e, k) == LET w == CHOOSE v \in EndingAt(e) :
                          Cardinality({x \in EndingAt(e) : Len(x) > Len(v)}) = k - 1
               IN  <<e - Len(w), w>>
At(e) == [k \in 1..Cardinality(EndingAt(e)) |-> Match(e, k)]

\* F lists the matches that end in 1..e, for every e up to n.
Lists(F, n) == F = [e \in 0..n |-> IF e = 0 THEN <<>> ELSE F[e - 1] \o At(e)]

\* The recursive definition of Expected defines something: its equation has a solution.
LEMMA ExpectedIs ==
  ASSUME text \in Strings
  PROVE  /\ Expected[0] = <<>>
         /\ \A e \in 1..Len(text) : Expected[e] = Expected[e - 1] \o At(e)
<1> DEFINE T == {n \in Nat : \E F : Lists(F, n)}
<1>0. Len(text) \in Nat
  BY SuffixEnds
<1>1. 0 \in T
  <2> DEFINE F == [e \in 0..0 |-> <<>>]
  <2>1. \A e \in 0..0 : e = 0
    OBVIOUS
  <2>2. F = [e \in 0..0 |-> IF e = 0 THEN <<>> ELSE F[e - 1] \o At(e)]
    BY <2>1
  <2> QED
    BY <2>2 DEF Lists
<1>2. \A n \in 1..Len(text) : n - 1 \in T => n \in T
  <2> SUFFICES ASSUME NEW n \in 1..Len(text), n - 1 \in T PROVE n \in T
    OBVIOUS
  <2>1. PICK F : Lists(F, n - 1)
    OBVIOUS
  <2> DEFINE G == [e \in 0..n |-> IF e = 0 THEN <<>> ELSE F[e - 1] \o At(e)]
  <2>2. \A e \in 0..(n - 1) : F[e] = IF e = 0 THEN <<>> ELSE F[e - 1] \o At(e)
    BY <2>1 DEF Lists
  <2>3. \A e \in 0..n : e # 0 => e - 1 \in 0..(n - 1) /\ e - 1 \in 0..n
    BY <1>0
  <2>4. \A e \in 0..n : e # 0 => G[e - 1] = F[e - 1]
    BY <2>2, <2>3
  <2>5. G = [e \in 0..n |-> IF e = 0 THEN <<>> ELSE G[e - 1] \o At(e)]
    BY <2>4
  <2>6. Lists(G, n)
    <3> HIDE DEF G
    <3> QED BY <2>5 DEF Lists
  <2>7. n \in Nat
    BY <1>0
  <2> QED
    BY <2>6, <2>7
<1> HIDE DEF T
<1>3. \A n \in 0..Len(text) : n \in T
  BY <1>0, <1>1, <1>2, UpTo
<1>4. \E F : Lists(F, Len(text))
  BY <1>0, <1>3 DEF T
<1>5. Lists(Expected, Len(text))
  BY <1>4, Zenon DEF Lists, Expected, At, Match
<1>6. \A e \in 0..Len(text) : Expected[e] = IF e = 0 THEN <<>> ELSE Expected[e - 1] \o At(e)
  BY <1>5 DEF Lists
<1>7. Expected[0] = <<>>
  <2>1. 0 \in 0..Len(text)
    BY <1>0
  <2> QED
    BY <1>6, <2>1
<1>8. \A e \in 1..Len(text) : e \in 0..Len(text) /\ e # 0
  OBVIOUS
<1> QED
  BY <1>6, <1>7, <1>8

\* It is a sequence.
LEMMA ExpectedSeq ==
  ASSUME DataInv, TrieInv
  PROVE  \E X : \A e \in 0..Len(text) : Expected[e] \in Seq(X)
<1> DEFINE X == UNION {ToSet(At(e)) : e \in 1..Len(text)}
           T == {e \in Nat : Expected[e] \in Seq(X)}
<1>0. text \in Strings /\ Len(text) \in Nat
  BY SuffixEnds DEF DataInv
<1>1. \A e \in 1..Len(text) : At(e) \in Seq(X)
  <2> SUFFICES ASSUME NEW e \in 1..Len(text) PROVE At(e) \in Seq(X)
    OBVIOUS
  <2> DEFINE a == At(e)
  <2>1. \A k \in DOMAIN a : a[k] \in X
    BY DEF ToSet
  <2>2. a = [k \in 1..Cardinality(EndingAt(e)) |-> a[k]]
    BY DEF At
  <2>3. Cardinality(EndingAt(e)) \in Nat
    <3>1. e \in 0..Len(text)
      BY <1>0
    <3> QED
      BY <3>1, EndingsFinite, EndingsOfText
  <2> HIDE DEF a, X
  <2>4. a \in [1..Cardinality(EndingAt(e)) -> X]
    <3>1. DOMAIN a = 1..Cardinality(EndingAt(e))
      BY <2>2
    <3> QED
      BY <2>1, <2>2, <3>1
  <2>5. a \in Seq(X)
    BY <2>3, <2>4
  <2> QED
    BY <2>5 DEF a
<1> HIDE DEF X
<1>2. 0 \in T
  <2>1. Expected[0] = <<>> /\ <<>> \in Seq(X)
    BY <1>0, ExpectedIs
  <2> QED
    BY <2>1
<1>3. \A e \in 1..Len(text) : e - 1 \in T => e \in T
  <2> SUFFICES ASSUME NEW e \in 1..Len(text), e - 1 \in T PROVE e \in T
    OBVIOUS
  <2>1. Expected[e] = Expected[e - 1] \o At(e) /\ Expected[e - 1] \in Seq(X) /\ At(e) \in Seq(X)
    BY <1>0, <1>1, ExpectedIs
  <2>2. Expected[e] \in Seq(X) /\ e \in Nat
    BY <1>0, <2>1, ConcatProperties
  <2> QED
    BY <2>2
<1> HIDE DEF T
<1>4. \A e \in 0..Len(text) : e \in T
  BY <1>0, <1>2, <1>3, UpTo
<1> QED
  BY <1>4 DEF T

-----------------------------------------------------------------------------
(* The chain of output links.                                              *)

\* The words s ends with, longest first.
Longer(s, v) == {x \in Endings(s) : Len(x) > Len(v)}
Ranked(s, k) == CHOOSE v \in Endings(s) : Cardinality(Longer(s, v)) = k - 1
Ranking(s) == [k \in 1..Cardinality(Endings(s)) |-> Ranked(s, k)]

\* A ranking is a sequence.
LEMMA RankingIs ==
  ASSUME TrieInv, NEW s \in Strings
  PROVE  /\ Ranking(s) \in Seq({Ranking(s)[k] : k \in DOMAIN Ranking(s)})
         /\ Len(Ranking(s)) = Cardinality(Endings(s))
         /\ DOMAIN Ranking(s) = 1..Cardinality(Endings(s))
         /\ \A k \in 1..Cardinality(Endings(s)) : Ranking(s)[k] = Ranked(s, k)
<1> DEFINE n == Cardinality(Endings(s))
           r == Ranking(s)
<1>1. n \in Nat
  BY EndingsFinite
<1>2. r = [k \in 1..n |-> Ranked(s, k)]
  BY DEF Ranking
<1> HIDE DEF n, r
<1>3. DOMAIN r = 1..n /\ \A k \in 1..n : r[k] = Ranked(s, k)
  BY <1>2
<1>4. r \in [1..n -> {r[k] : k \in DOMAIN r}]
  BY <1>2, <1>3
<1>5. r \in Seq({r[k] : k \in DOMAIN r}) /\ Len(r) = n
  BY <1>1, <1>4
<1> QED
  BY <1>3, <1>5 DEF n, r

\* What s ends with, beside itself, is what its output link ends with.
LEMMA EndingsStep ==
  ASSUME TrieInv, NEW s \in trie, s # Root,
         NEW l, LongestIn(words \cup {Root}, l, s, Len(s) - 1)
  PROVE  /\ l \in trie /\ l \in Strings /\ Len(l) \in 0..(Len(s) - 1)
         /\ Endings(l) = Endings(s) \ {s}
         /\ s \in Endings(s) <=> s \in words
<1>0. s \in Strings /\ Len(s) \in Nat /\ Len(s) - 1 \in -1..Len(s) /\ words \cup {Root} \subseteq trie
  BY NodesAre, SuffixEnds DEF TrieInv
<1>1. /\ l \in words \cup {Root} /\ l \in Strings /\ Len(l) \in 0..(Len(s) - 1)
      /\ l = Suffix(s, Len(l))
  BY <1>0, LongestIs
<1>2. \A j \in (Len(l) + 1)..(Len(s) - 1) : Suffix(s, j) \notin words
  <2>1. PICK k \in 0..(Len(s) - 1) : /\ l = Suffix(s, k)
                                     /\ \A j \in (k + 1)..(Len(s) - 1) : Suffix(s, j) \notin words
    BY DEF LongestIn
  <2>2. k \in 0..Len(s)
    BY <1>0
  <2>3. Len(l) = k
    BY <1>0, <2>1, <2>2, SuffixIs
  <2> QED
    BY <2>1, <2>3
<1>3. \A j \in 0..Len(l) : Suffix(l, j) = Suffix(s, j)
  BY <1>0, <1>1, SuffixSuffix
<1>4. ASSUME NEW w \in Endings(s), w # s PROVE w \in Endings(l)
  <2>1. w \in words /\ w \in Strings /\ Len(w) \in 1..Len(s) /\ Suffix(s, Len(w)) = w
    BY <1>0, EndingsFinite
  <2>2. Len(w) # Len(s)
    BY <1>0, <1>4, <2>1, SuffixEnds
  <2>3. ~(Len(w) \in (Len(l) + 1)..(Len(s) - 1))
    BY <1>2, <2>1
  <2>4. Len(w) \in 0..Len(l)
    BY <1>0, <1>1, <2>1, <2>2, <2>3
  <2>5. Suffix(l, Len(w)) = w /\ Len(w) <= Len(l)
    BY <1>3, <2>1, <2>4
  <2> QED
    BY <2>1, <2>5 DEF Endings
<1>5. ASSUME NEW w \in Endings(l) PROVE w \in Endings(s) /\ w # s
  <2>1. w \in words /\ w \in Strings /\ Len(w) \in 1..Len(l) /\ Suffix(l, Len(w)) = w
    BY <1>1, EndingsFinite
  <2>2. Len(w) \in 0..Len(l) /\ Len(w) < Len(s) /\ Len(w) <= Len(s)
    BY <1>0, <1>1, <2>1
  <2>3. Suffix(s, Len(w)) = w
    BY <1>3, <2>1, <2>2
  <2> QED
    BY <1>0, <2>1, <2>2, <2>3 DEF Endings
<1>6. s \in Endings(s) <=> s \in words
  BY <1>0, SuffixEnds DEF Endings
<1> QED
  BY <1>0, <1>1, <1>4, <1>5, <1>6

\* A node that is a word itself comes first, and moves the others up by one.
LEMMA RankedStep ==
  ASSUME TrieInv, NEW s \in words,
         NEW l, LongestIn(words \cup {Root}, l, s, Len(s) - 1)
  PROVE  /\ Cardinality(Endings(s)) = Cardinality(Endings(l)) + 1
         /\ Ranked(s, 1) = s
         /\ \A k \in 1..Cardinality(Endings(l)) : Ranked(s, k + 1) = Ranked(l, k)
<1>0. s \in trie /\ s # Root /\ s \in Strings
  BY NodesAre DEF TrieInv
<1>1. /\ l \in Strings /\ Len(l) \in 0..(Len(s) - 1)
      /\ Endings(l) = Endings(s) \ {s} /\ s \in Endings(s)
  BY <1>0, EndingsStep
<1>2. /\ IsFiniteSet(Endings(l)) /\ Cardinality(Endings(l)) \in Nat /\ Len(s) \in Nat
      /\ \A w \in Endings(l) : Len(w) \in Nat /\ Len(w) < Len(s)
  <2>1. Len(s) \in Nat
    BY <1>0, SuffixEnds
  <2>2. /\ IsFiniteSet(Endings(l)) /\ Cardinality(Endings(l)) \in Nat
        /\ \A w \in Endings(l) : Len(w) \in 1..Len(l)
    BY <1>1, EndingsFinite
  <2> QED
    BY <1>1, <2>1, <2>2
<1>3. Cardinality(Endings(s)) = Cardinality(Endings(l)) + 1
  <2>1. Endings(s) = Endings(l) \cup {s} /\ s \notin Endings(l)
    BY <1>1
  <2> QED
    BY <1>2, <2>1, FS_AddElement
<1>4. Longer(s, s) = {}
  BY <1>1, <1>2 DEF Longer
<1>5. \A v \in Endings(l) : /\ Cardinality(Longer(l, v)) \in Nat
                            /\ Cardinality(Longer(s, v)) = Cardinality(Longer(l, v)) + 1
  <2> SUFFICES ASSUME NEW v \in Endings(l)
               PROVE  /\ Cardinality(Longer(l, v)) \in Nat
                      /\ Cardinality(Longer(s, v)) = Cardinality(Longer(l, v)) + 1
    OBVIOUS
  <2>1. Longer(l, v) \in SUBSET Endings(l)
    BY DEF Longer
  <2>2. IsFiniteSet(Longer(l, v)) /\ Cardinality(Longer(l, v)) \in Nat
    BY <1>2, <2>1, FS_Subset, FS_CardinalityType
  <2>3. Longer(s, v) = Longer(l, v) \cup {s} /\ s \notin Longer(l, v)
    BY <1>1, <1>2 DEF Longer
  <2> QED
    BY <2>2, <2>3, FS_AddElement
<1>6. Ranked(s, 1) = s
  <2>1. Cardinality(Longer(s, s)) = 0
    BY <1>4, FS_EmptySet
  <2>2. \A v \in Endings(s) : Cardinality(Longer(s, v)) = 0 => v = s
    BY <1>1, <1>5
  <2>3. 1 - 1 = 0
    OBVIOUS
  <2> QED
    BY <1>1, <2>1, <2>2, <2>3 DEF Ranked
<1>7. ASSUME NEW k \in 1..Cardinality(Endings(l)) PROVE Ranked(s, k + 1) = Ranked(l, k)
  <2>1. k \in Nat /\ k >= 1 /\ (k + 1) - 1 = k
    BY <1>2, <1>7
  <2>2. \A v : v \in Endings(s) /\ Cardinality(Longer(s, v)) = (k + 1) - 1
               <=> v \in Endings(l) /\ Cardinality(Longer(l, v)) = k - 1
    <3> SUFFICES ASSUME NEW v
                 PROVE  v \in Endings(s) /\ Cardinality(Longer(s, v)) = (k + 1) - 1
                        <=> v \in Endings(l) /\ Cardinality(Longer(l, v)) = k - 1
      OBVIOUS
    <3>1. CASE v = s
      <4>1. Cardinality(Longer(s, v)) = 0
        BY <1>4, <3>1, FS_EmptySet
      <4> QED
        BY <1>1, <2>1, <3>1, <4>1
    <3>2. CASE v # s /\ v \in Endings(l)
      BY <1>1, <1>5, <2>1, <3>2
    <3>3. CASE v # s /\ v \notin Endings(l)
      BY <1>1, <3>3
    <3> QED
      BY <3>1, <3>2, <3>3
  <2> QED
    BY <2>2, Zenon DEF Ranked
<1> QED
  BY <1>3, <1>6, <1>7

\* The words of a node are itself, if it is one, and those of its output link.
LEMMA RankingStep ==
  ASSUME TrieInv, NEW s \in trie, s # Root,
         NEW l, LongestIn(words \cup {Root}, l, s, Len(s) - 1)
  PROVE  Ranking(s) = (IF s \in words THEN <<s>> ELSE <<>>) \o Ranking(l)
<1> DEFINE n == Cardinality(Endings(l))
           X == {Ranking(l)[k] : k \in DOMAIN Ranking(l)} \cup {s}
<1>0. s \in Strings /\ l \in Strings /\ Endings(l) = Endings(s) \ {s} /\ (s \in Endings(s) <=> s \in words)
  BY NodesAre, EndingsStep
<1>1. n \in Nat
  BY <1>0, EndingsFinite
<1>2. /\ Ranking(l) \in Seq(X) /\ Len(Ranking(l)) = n
      /\ \A k \in 1..n : Ranking(l)[k] = Ranked(l, k)
  <2>1. /\ Ranking(l) \in Seq({Ranking(l)[k] : k \in DOMAIN Ranking(l)}) /\ Len(Ranking(l)) = n
        /\ \A k \in 1..n : Ranking(l)[k] = Ranked(l, k)
    BY <1>0, RankingIs
  <2> DEFINE Y == {Ranking(l)[k] : k \in DOMAIN Ranking(l)}
  <2>2. Ranking(l) \in Seq(Y) /\ Y \subseteq X
    BY <2>1
  <2> HIDE DEF X, Y
  <2>3. Ranking(l) \in Seq(X)
    BY <2>2, SeqMonotonic
  <2> QED
    BY <2>1, <2>3
<1>3. CASE s \notin words
  <2>1. Endings(s) = Endings(l)
    BY <1>0, <1>3
  <2>2. Ranking(s) = Ranking(l)
    BY <2>1 DEF Ranking, Ranked, Longer
  <2> HIDE DEF X
  <2>3. <<>> \o Ranking(l) = Ranking(l)
    BY <1>2, ConcatEmptySeq
  <2> QED
    BY <1>3, <2>2, <2>3
<1>4. CASE s \in words
  <2>1. /\ Cardinality(Endings(s)) = n + 1 /\ Ranked(s, 1) = s
        /\ \A k \in 1..n : Ranked(s, k + 1) = Ranked(l, k)
    BY <1>4, RankedStep, ZenonT(60)
  <2>2. Ranking(s) = [k \in 1..(n + 1) |-> Ranked(s, k)]
    BY <2>1 DEF Ranking
  <2> DEFINE r == <<s>> \o Ranking(l)
  <2>3. <<s>> \in Seq(X) /\ Len(<<s>>) = 1 /\ <<s>>[1] = s
    OBVIOUS
  <2> HIDE DEF n, X
  <2>4. /\ r \in Seq(X) /\ Len(r) = 1 + n
        /\ \A k \in 1..(1 + n) : r[k] = IF k <= 1 THEN <<s>>[k] ELSE Ranking(l)[k - 1]
    BY <1>2, <2>3, ConcatProperties
  <2>5. ASSUME NEW k \in 1..(n + 1) PROVE r[k] = Ranked(s, k)
    <3>1. CASE k = 1
      BY <1>1, <2>1, <2>3, <2>4, <3>1
    <3>2. CASE k # 1
      <4>1. k - 1 \in 1..n /\ (k - 1) + 1 = k /\ ~(k <= 1) /\ k \in 1..(1 + n)
        BY <1>1, <3>2
      <4>2. r[k] = Ranking(l)[k - 1]
        BY <2>4, <4>1
      <4>3. Ranking(l)[k - 1] = Ranked(l, k - 1)
        BY <1>2, <4>1
      <4>4. Ranked(s, (k - 1) + 1) = Ranked(l, k - 1)
        BY <2>1, <4>1
      <4> QED
        BY <4>1, <4>2, <4>3, <4>4
    <3> QED
      BY <3>1, <3>2
  <2> HIDE DEF r
  <2>6. r = [k \in 1..(n + 1) |-> r[k]]
    <3>1. r \in [1..(1 + n) -> X] /\ 1 + n = n + 1
      BY <1>1, <2>4
    <3> QED
      BY <3>1
  <2>7. r = Ranking(s)
    BY <2>2, <2>5, <2>6
  <2> QED
    BY <1>4, <2>7 DEF r
<1> QED
  BY <1>3, <1>4

\* O follows the output links from every node to the root.
Follows(O) ==
  O = [s \in trie |-> IF s = Root THEN <<>>
                      ELSE (IF s \in words THEN <<s>> ELSE <<>>) \o O[outputLink[s]]]

\* The chain of output links from a node gives all words it ends with.
LEMMA OutputsAre ==
  ASSUME TrieInv, OutputInv, Complete = trie
  PROVE  \A s \in trie : Outputs[s] = Ranking(s)
<1> DEFINE R == [s \in trie |-> Ranking(s)]
<1>1. \A s \in trie : s \in Strings /\ Len(s) \in Nat
  BY NodesAre, SuffixEnds
<1>2. ASSUME NEW s \in trie, s # Root
      PROVE  /\ outputLink[s] \in trie /\ Len(outputLink[s]) < Len(s)
             /\ Ranking(s) = (IF s \in words THEN <<s>> ELSE <<>>) \o Ranking(outputLink[s])
  <2>1. LongestIn(words \cup {Root}, outputLink[s], s, Len(s) - 1)
    BY <1>2 DEF OutputInv
  <2>2. outputLink[s] \in trie /\ Len(outputLink[s]) \in 0..(Len(s) - 1)
    BY <1>2, <2>1, EndingsStep
  <2>3. Ranking(s) = (IF s \in words THEN <<s>> ELSE <<>>) \o Ranking(outputLink[s])
    BY <1>2, <2>1, RankingStep
  <2>4. Len(outputLink[s]) < Len(s)
    BY <1>1, <1>2, <2>2
  <2> QED
    BY <2>2, <2>3, <2>4
<1>3. Ranking(Root) = <<>>
  <2>1. Root \in Strings /\ Len(Root) = 0
    BY <1>1, SuffixEnds DEF TrieInv
  <2>2. Endings(Root) = {}
    BY <2>1, EndingsFinite
  <2>3. Len(Ranking(Root)) = 0 /\ Ranking(Root) \in Seq({Ranking(Root)[k] : k \in DOMAIN Ranking(Root)})
    BY <2>1, <2>2, RankingIs, FS_EmptySet
  <2> QED
    BY <2>3, EmptySeq
<1>4. Follows(R)
  <2>1. \A s \in trie : R[s] = IF s = Root THEN <<>>
                               ELSE (IF s \in words THEN <<s>> ELSE <<>>) \o R[outputLink[s]]
    BY <1>2, <1>3
  <2>2. R = [s \in trie |-> R[s]]
    OBVIOUS
  <2> HIDE DEF R
  <2>3. R = [s \in trie |-> IF s = Root THEN <<>>
                            ELSE (IF s \in words THEN <<s>> ELSE <<>>) \o R[outputLink[s]]]
    BY <2>1, <2>2
  <2> QED
    BY <2>3 DEF Follows
<1>5. Follows(Outputs)
  <2> HIDE DEF R
  <2>1. \E O : Follows(O)
    BY <1>4
  <2> QED
    BY <2>1, Zenon DEF Follows, Outputs
<1>6. \A s \in trie : Outputs[s] = IF s = Root THEN <<>>
                                   ELSE (IF s \in words THEN <<s>> ELSE <<>>) \o Outputs[outputLink[s]]
  BY <1>5 DEF Follows
<1> DEFINE T == {Len(s) : s \in {v \in trie : Outputs[v] # Ranking(v)}}
<1>7. ASSUME T # {} PROVE FALSE
  <2>1. T \in SUBSET Nat
    BY <1>1
  <2>2. PICK n \in T : \A m \in T : n <= m
    BY <1>7, <2>1, Least
  <2>3. PICK s \in trie : Outputs[s] # Ranking(s) /\ Len(s) = n
    BY <2>2
  <2>4. s # Root
    BY <1>3, <1>6, <2>3
  <2>5. outputLink[s] \in trie /\ Len(outputLink[s]) < Len(s)
    BY <1>2, <2>4
  <2>6. ~(n <= Len(outputLink[s]))
    BY <1>1, <2>3, <2>5
  <2>7. Outputs[outputLink[s]] = Ranking(outputLink[s])
    BY <2>2, <2>5, <2>6
  <2> QED
    BY <1>2, <1>6, <2>3, <2>4, <2>7
<1> QED
  BY <1>7
-----------------------------------------------------------------------------
(* scan_chunk().                                                           *)

\* The state knows every word that ends here.
LEMMA StateEndings ==
  ASSUME DataInv, TrieInv, NEW e \in 0..Len(text), NEW s,
         LongestIn(trie, s, SubSeq(text, 1, e), e)
  PROVE  s \in trie /\ s \in Strings /\ EndingAt(e) = Endings(s)
<1> DEFINE t == SubSeq(text, 1, e)
<1>1. t \in Strings /\ Len(t) = e /\ EndingAt(e) = Endings(t) /\ e \in Nat
  BY EndingsOfText, SuffixOfText, SuffixEnds DEF DataInv
<1> HIDE DEF t
<1>2. e \in -1..Len(t)
  BY <1>1
<1>3. PICK k \in 0..e : s = Suffix(t, k) /\ s \in trie /\ \A j \in (k + 1)..e : Suffix(t, j) \notin trie
  BY DEF LongestIn, t
<1>4. s \in Strings /\ Len(s) = k
  BY <1>1, <1>3, SuffixIs
<1>5. \A j \in 0..k : Suffix(s, j) = Suffix(t, j)
  BY <1>1, <1>3, SuffixSuffix
<1>6. ASSUME NEW w \in Endings(t) PROVE w \in Endings(s)
  <2>1. w \in words /\ w \in trie /\ Len(w) \in 1..Len(t) /\ Suffix(t, Len(w)) = w
    BY <1>1, EndingsFinite
  <2>2. ~(Len(w) \in (k + 1)..e)
    BY <1>3, <2>1
  <2>3. Len(w) \in 0..k /\ Len(w) <= Len(s)
    BY <1>1, <1>4, <2>1, <2>2
  <2> QED
    BY <1>5, <2>1, <2>3 DEF Endings
<1>7. ASSUME NEW w \in Endings(s) PROVE w \in Endings(t)
  <2>1. w \in words /\ Len(w) \in 1..Len(s) /\ Suffix(s, Len(w)) = w
    BY <1>4, EndingsFinite
  <2>2. Len(w) \in 0..k /\ Len(w) <= Len(t)
    BY <1>1, <1>4, <2>1
  <2> QED
    BY <1>5, <2>1, <2>2 DEF Endings
<1> QED
  BY <1>1, <1>3, <1>4, <1>6, <1>7

\* What one more character does to the longest suffix.
LEMMA ReadStep ==
  ASSUME DataInv, TrieInv, ChildrenInv, Complete = trie, i < Len(text),
         LongestIn(trie, state, SubSeq(text, 1, i), i),
         NEW c, c = text[i + 1],
         NEW s, s = IF c \in Letters THEN children[state][c] ELSE Root
  PROVE  i + 1 \in 1..Len(text) /\ LongestIn(trie, s, SubSeq(text, 1, i + 1), i + 1)
<1> DEFINE t == SubSeq(text, 1, i)
           e == i + 1
<1>1. /\ text \in Strings /\ Len(text) \in Nat /\ i \in Nat /\ i \in 0..Len(text)
      /\ e \in 1..Len(text) /\ e - 1 = i /\ i <= Len(text)
  BY SuffixEnds DEF DataInv
<1>2. c \in Chars
  BY <1>1 DEF Strings, Chars
<1>3. t \in Strings /\ Len(t) = i
  BY <1>1, SuffixOfText
<1>4. SubSeq(text, 1, e) = Append(t, c)
  <2>1. 1 \in 1..Len(text) /\ e \in 1..Len(text) /\ text \in Seq(Chars)
    BY <1>1 DEF Strings, Chars
  <2> HIDE DEF t
  <2>2. SubSeq(text, 1, e) = SubSeq(text, 1, e - 1) \o <<text[e]>>
    <3> HIDE DEF e
    <3> QED BY <2>1, SubSeqRecursiveSecond
  <2>3. Append(t, c) = t \o <<c>>
    BY <1>2, <1>3, AppendIsConcat DEF Strings, Chars
  <2> QED
    BY <1>1, <2>2, <2>3 DEF t
<1>5. state \in trie /\ state \in Strings
  <2> HIDE DEF t
  <2>1. i \in -1..Len(t)
    BY <1>1, <1>3
  <2> QED
    BY <1>3, <2>1, LongestIs DEF t
<1>6. CASE c \in Letters
  <2>1. LongestIn(trie, s, Append(state, c), Len(state) + 1)
    BY <1>5, <1>6 DEF ChildrenInv
  <2>2. i \in 0..Len(t)
    BY <1>1, <1>3
  <2>3. LongestIn(trie, s, Append(t, c), i + 1)
    <3> HIDE DEF t
    <3>1. LongestIn(trie, state, t, i)
      BY DEF t
    <3> QED
      BY <1>2, <1>3, <2>1, <2>2, <3>1, LongestExtends
  <2> QED
    BY <1>1, <1>4, <2>3
<1>7. CASE c \notin Letters
  <2> HIDE DEF t, e
  <2>1. Append(t, c) \in Strings /\ Len(Append(t, c)) = i + 1
    BY <1>2, <1>3, AppendIs
  <2>2. Root = Suffix(Append(t, c), 0) /\ Root \in trie /\ s = Root
    BY <1>7, <2>1, SuffixEnds DEF TrieInv
  <2>3. ASSUME NEW j \in 1..(i + 1) PROVE Suffix(Append(t, c), j) \notin trie
    <3>1. j - 1 \in 0..Len(t) /\ (j - 1) + 1 = j
      BY <1>1, <1>3
    <3>2. Suffix(Append(t, c), j) = Append(Suffix(t, j - 1), c) /\ Suffix(t, j - 1) \in Strings
      BY <1>2, <1>3, <3>1, SuffixAppend, SuffixIs
    <3> QED
      BY <1>2, <1>7, <3>2, NodesAre
  <2>4. 0 \in 0..(i + 1) /\ 0 + 1 = 1
    BY <1>1
  <2>5. LongestIn(trie, s, Append(t, c), i + 1)
    BY <2>2, <2>3, <2>4 DEF LongestIn
  <2> QED
    BY <1>1, <1>4, <2>5 DEF e
<1> QED
  BY <1>6, <1>7

\* What the scan adds to raw_out for a list of words that end at e.
Placed(e, list) == [k \in DOMAIN list |-> <<e - Len(list[k]), list[k]>>]

\* The matches of one character are those of its state.
LEMMA AtIs ==
  ASSUME DataInv, TrieInv, NEW e \in 0..Len(text), NEW s,
         LongestIn(trie, s, SubSeq(text, 1, e), e)
  PROVE  At(e) = Placed(e, Ranking(s))
<1>1. s \in Strings /\ EndingAt(e) = Endings(s)
  BY StateEndings
<1>2. \A k : Match(e, k) = <<e - Len(Ranked(s, k)), Ranked(s, k)>>
  BY <1>1 DEF Match, Ranked, Longer
<1>3. DOMAIN Ranking(s) = 1..Cardinality(Endings(s))
      /\ \A k \in 1..Cardinality(Endings(s)) : Ranking(s)[k] = Ranked(s, k)
  BY <1>1, RankingIs
<1> QED
  BY <1>1, <1>2, <1>3 DEF At, Placed

\* The scan leaves the automaton and its inputs alone.
LEMMA Frame ==
  ASSUME IInv, i' \in 0..Len(text), phase' \in {"insert", "bfs", "scan", "done"},
         UNCHANGED <<dict, minLength, trie, children, failure, outputLink, words, text>>
  PROVE  /\ DataInv' /\ TrieInv' /\ ChildrenInv' /\ FailureInv' /\ OutputInv'
         /\ Expected' = Expected
<1>1. DataInv'
  <2>1. Accepted' = Accepted
    BY DEF Accepted
  <2> QED
    BY <2>1 DEF IInv, DataInv
<1>2. TrieInv'
  BY DEF IInv, TrieInv
<1>3. ChildrenInv'
  <2>1. Complete' = Complete
    BY DEF Complete
  <2>2. ChildrenInv
    BY DEF IInv
  <2>3. DOMAIN children' = trie'
    BY <2>2 DEF ChildrenInv
  <2>4. ASSUME NEW u \in trie' \ Complete'
        PROVE  children'[u] = [c \in {d \in Letters : Append(u, d) \in trie'} |-> Append(u, c)]
    BY <2>1, <2>2, ZenonT(60) DEF ChildrenInv
  <2>5. ASSUME NEW u \in Complete'
        PROVE  /\ DOMAIN children'[u] = Letters
               /\ \A c \in Letters : LongestIn(trie', children'[u][c], Append(u, c), Len(u) + 1)
    BY <2>1, <2>2 DEF ChildrenInv
  <2> QED
    BY <2>3, <2>4, <2>5 DEF ChildrenInv
<1>4. FailureInv'
  BY DEF IInv, FailureInv
<1>5. OutputInv'
  BY DEF IInv, OutputInv, Complete
<1>6. Expected' = Expected
  BY DEF Expected, EndingAt, Accepted
<1> QED
  BY <1>1, <1>2, <1>3, <1>4, <1>5, <1>6

\* A character adds the matches that end with it.
LEMMA ScanStep ==
  ASSUME IInv, ScanCharacter
  PROVE  IInv'
<1> DEFINE c == text[i + 1]
           e == i + 1
<1>0. /\ DataInv /\ TrieInv /\ ChildrenInv /\ FailureInv /\ OutputInv /\ PhaseInv
      /\ phase = "scan" /\ i < Len(text)
      /\ Complete = trie /\ LongestIn(trie, state, SubSeq(text, 1, i), i) /\ raw = Expected[i]
  BY DEF IInv, ScanCharacter, PhaseInv, StateInv, MatchesAreExact
<1>1. /\ i' = e /\ state' = (IF c \in Letters THEN children[state][c] ELSE Root)
      /\ UNCHANGED <<dict, minLength, phase, trie, children, failure, outputLink, words, bfs, text>>
  BY DEF ScanCharacter
<1>2. e \in 1..Len(text) /\ LongestIn(trie, state', SubSeq(text, 1, e), e)
  BY <1>0, <1>1, ReadStep
<1>3. text \in Strings /\ i \in 0..Len(text) /\ Len(text) \in Nat /\ e - 1 = i /\ e \in 0..Len(text)
  BY <1>0, <1>2, SuffixEnds DEF DataInv
<1> HIDE DEF e, c
<1>4. DataInv' /\ TrieInv' /\ ChildrenInv' /\ FailureInv' /\ OutputInv' /\ Expected' = Expected
  BY <1>0, <1>1, <1>3, Frame
<1>5. PhaseInv'
  BY <1>0, <1>1 DEF PhaseInv, QueueInv, Complete
<1>6. StateInv'
  BY <1>0, <1>1, <1>2 DEF StateInv
<1>7. raw' = raw \o At(e)
  <2>1. At(e) = Placed(e, Ranking(state'))
    BY <1>0, <1>2, <1>3, AtIs
  <2>2. state' \in trie
    BY <1>0, <1>2, <1>3, StateEndings
  <2>3. CASE c \in Letters
    <3>1. raw' = raw \o Placed(i + 1, Outputs[state'])
      BY <2>3, Zenon DEF ScanCharacter, c, Placed
    <3>2. Outputs[state'] = Ranking(state')
      BY <1>0, <2>2, OutputsAre
    <3> QED
      BY <2>1, <3>1, <3>2, Zenon DEF e
  <2>4. CASE c \notin Letters
    <3>1. raw' = raw /\ state' = Root
      BY <1>1, <2>4 DEF ScanCharacter, c
    <3>2. Endings(Root) = {} /\ EndingAt(e) = Endings(state')
      <4>1. Root \in Strings /\ Len(Root) = 0
        BY <1>3, SuffixEnds
      <4> QED
        BY <1>0, <1>2, <1>3, <4>1, EndingsFinite, StateEndings
    <3>3. Cardinality(EndingAt(e)) = 0
      BY <3>1, <3>2, FS_EmptySet
    <3>4. At(e) = <<>>
      BY <3>3 DEF At
    <3>5. \E X : raw \in Seq(X)
      BY <1>0, <1>3, ExpectedSeq
    <3> QED
      BY <3>1, <3>4, <3>5, ConcatEmptySeq
  <2> QED
    BY <2>3, <2>4
<1>8. MatchesAreExact'
  <2>1. Expected[e] = Expected[i] \o At(e)
    BY <1>2, <1>3, ExpectedIs
  <2> QED
    BY <1>0, <1>1, <1>4, <1>7, <2>1 DEF MatchesAreExact
<1> QED
  BY <1>4, <1>5, <1>6, <1>8 DEF IInv

\* The queue is empty: every node is complete, and the scan starts at the root.
LEMMA EndsStep ==
  ASSUME IInv, BuildEnds
  PROVE  IInv'
<1>0. /\ DataInv /\ TrieInv /\ ChildrenInv /\ FailureInv /\ OutputInv /\ PhaseInv /\ QueueInv
      /\ bfs = <<>> /\ i = 0 /\ state = Root /\ raw = <<>>
  BY DEF IInv, BuildEnds, PhaseInv
<1>1. /\ phase' = "scan"
      /\ UNCHANGED <<dict, minLength, trie, children, failure, outputLink, words, bfs, text, i, state, raw>>
  BY DEF BuildEnds
<1>2. Complete = trie
  BY <1>0, AllComplete
<1>3. text \in Strings /\ 0 \in 0..Len(text)
  BY <1>0 DEF DataInv
<1>4. LongestIn(trie, Root, SubSeq(text, 1, 0), 0)
  <2>1. SubSeq(text, 1, 0) \in Strings
    BY <1>3, SuffixOfText
  <2>2. Root = Suffix(SubSeq(text, 1, 0), 0) /\ Root \in trie /\ 0 \in 0..0 /\ \A j \in (0 + 1)..0 : FALSE
    BY <1>0, <2>1, SuffixEnds DEF TrieInv
  <2> QED
    BY <2>2 DEF LongestIn
<1>5. Expected[0] = <<>>
  BY <1>3, ExpectedIs
<1>6. DataInv' /\ TrieInv' /\ ChildrenInv' /\ FailureInv' /\ OutputInv' /\ Expected' = Expected
  BY <1>0, <1>1, <1>3, Frame
<1>7. PhaseInv'
  BY <1>0, <1>1, <1>2 DEF PhaseInv, QueueInv, Complete
<1>8. StateInv' /\ MatchesAreExact'
  BY <1>0, <1>1, <1>4, <1>5, <1>6 DEF StateInv, MatchesAreExact
<1> QED
  BY <1>6, <1>7, <1>8 DEF IInv

\* The end of the scan, and steps that change nothing.
LEMMA IdleStep ==
  ASSUME IInv, ScanEnds \/ UNCHANGED vars
  PROVE  IInv'
<1>1. /\ UNCHANGED <<dict, minLength, trie, children, failure, outputLink, words, bfs, text, i, state, raw>>
      /\ (phase' = phase \/ (phase = "scan" /\ phase' = "done"))
  BY DEF ScanEnds, vars
<1>2. i' \in 0..Len(text) /\ phase' \in {"insert", "bfs", "scan", "done"}
  BY <1>1 DEF IInv, DataInv
<1>3. DataInv' /\ TrieInv' /\ ChildrenInv' /\ FailureInv' /\ OutputInv' /\ Expected' = Expected
  BY <1>1, <1>2, Frame
<1>4. PhaseInv'
  BY <1>1 DEF IInv, PhaseInv, QueueInv, Complete
<1>5. StateInv' /\ MatchesAreExact'
  BY <1>1, <1>3 DEF IInv, StateInv, MatchesAreExact
<1> QED
  BY <1>3, <1>4, <1>5 DEF IInv

\* An automaton without words.
LEMMA Start == Init => IInv
<1> SUFFICES ASSUME Init PROVE IInv
  OBVIOUS
<1>1. /\ phase = "insert" /\ trie = {Root} /\ words = {} /\ children = [u \in {Root} |-> [c \in {} |-> Root]]
      /\ failure = [u \in {} |-> Root] /\ outputLink = [u \in {} |-> Root]
      /\ i = 0 /\ state = Root /\ raw = <<>>
  BY DEF Init
<1>2. /\ dict.done = <<>> /\ dict \in [left : Seq(Strings), done : Seq(Strings)]
      /\ text \in Strings /\ minLength \in Nat
  <2>1. dict \in [left : Dictionaries, done : {<<>>}] /\ text \in Texts /\ minLength \in MinWordLengths
    BY DEF Init
  <2>2. Dictionaries \subseteq Seq(Strings) /\ Texts \subseteq Strings /\ MinWordLengths \subseteq Nat
    BY InputAssumption
  <2>3. <<>> \in Seq(Strings)
    OBVIOUS
  <2> QED
    BY <2>1, <2>2, <2>3
<1>3. Len(text) \in Nat /\ Root \in Strings /\ Len(Root) = 0
  BY <1>2, SuffixEnds
<1>4. DataInv
  <2>1. Accepted = {}
    BY <1>2 DEF Accepted, ToSet
  <2> QED
    BY <1>1, <1>2, <1>3, <2>1 DEF DataInv
<1>5. TrieInv
  <2>1. Root \in Seq(Letters) /\ \A k \in 0..0 : SubSeq(Root, 1, k) = Root
    BY SubSeqEmpty DEF Root
  <2> QED
    BY <1>1, <1>3, <2>1 DEF TrieInv
<1>6. Complete = {} /\ DOMAIN failure = {}
  BY <1>1 DEF Complete
<1>7. ChildrenInv
  <2>1. \A d \in Letters : Append(Root, d) # Root
    BY <1>3, AppendIs DEF Chars
  <2>2. [c \in {d \in Letters : Append(Root, d) \in {Root}} |-> Append(Root, c)] = [c \in {} |-> Root]
    <3>1. {d \in Letters : Append(Root, d) \in {Root}} = {}
      BY <2>1
    <3> QED
      BY <3>1
  <2> QED
    BY <1>1, <1>6, <2>2 DEF ChildrenInv
<1> QED
  BY <1>1, <1>4, <1>5, <1>6, <1>7
     DEF IInv, PhaseInv, FailureInv, OutputInv, StateInv, MatchesAreExact
-----------------------------------------------------------------------------
(* The theorems.                                                           *)

LEMMA Induction == IInv /\ [Next]_vars => IInv'
<1> SUFFICES ASSUME IInv, [Next]_vars PROVE IInv'
  OBVIOUS
<1>1. CASE InsertWord
  BY <1>1, InsertStep
<1>2. CASE BuildRoot
  BY <1>2, RootStep
<1>3. CASE BuildNode
  BY <1>3, NodeStep
<1>4. CASE BuildEnds
  BY <1>4, EndsStep
<1>5. CASE ScanCharacter
  BY <1>5, ScanStep
<1>6. CASE ScanEnds \/ Terminated \/ UNCHANGED vars
  BY <1>6, IdleStep DEF Terminated
<1> QED
  BY <1>1, <1>2, <1>3, <1>4, <1>5, <1>6 DEF Next

\* The invariant holds in every reachable state.
THEOREM Invariance == Spec => []IInv
<1>1. Init => IInv
  BY Start
<1>2. IInv /\ [Next]_vars => IInv'
  BY Induction
<1> QED
  BY <1>1, <1>2, PTL DEF Spec

\* Every link, transition and state is a node (TypeOK of the run).
LEMMA WellTyped == IInv => TypeOK
<1> SUFFICES ASSUME IInv PROVE TypeOK
  OBVIOUS
<1>1. /\ DataInv /\ TrieInv /\ PhaseInv /\ ChildrenInv /\ StateInv
      /\ trie \subseteq Strings /\ Letters \subseteq Chars
  BY NodesAre DEF IInv, Chars
<1>2. ASSUME NEW u \in trie, NEW c \in DOMAIN children[u] PROVE children[u][c] \in trie
  <2>1. CASE u \in Complete
    BY <1>1, <2>1 DEF ChildrenInv, LongestIn
  <2>2. CASE u \notin Complete
    <3>1. children[u] = [d \in {d \in Letters : Append(u, d) \in trie} |-> Append(u, d)]
      BY <1>1, <2>2 DEF ChildrenInv
    <3> QED
      BY <3>1
  <2> QED
    BY <2>1, <2>2
<1>3. phase \in {"scan", "done"} => \A u \in trie : DOMAIN children[u] = Letters
  BY <1>1 DEF PhaseInv, ChildrenInv
<1>4. state \in trie
  <2>1. CASE phase \in {"insert", "bfs"}
    BY <1>1, <2>1 DEF PhaseInv, TrieInv
  <2>2. CASE phase \in {"scan", "done"}
    BY <1>1, <2>2 DEF StateInv, LongestIn
  <2> QED
    BY <1>1, <2>1, <2>2 DEF DataInv
<1> QED
  BY <1>1, <1>2, <1>3, <1>4 DEF TypeOK, DataInv, TrieInv, ChildrenInv

\* The links are what LinksAreLongestSuffixes says.
LEMMA LinksAre == IInv => LinksAreLongestSuffixes
<1> SUFFICES ASSUME IInv PROVE LinksAreLongestSuffixes
  OBVIOUS
<1>1. /\ TrieInv /\ ChildrenInv /\ FailureInv /\ OutputInv
      /\ trie \subseteq Strings /\ Letters \subseteq Chars /\ Complete \subseteq trie
  <2>1. Complete \subseteq trie
    BY DEF IInv, PhaseInv, QueueInv
  <2> QED
    BY <2>1, NodesAre DEF IInv, Chars
<1>2. ASSUME NEW u \in DOMAIN failure PROVE failure[u] = LongestSuffix(u, Len(u) - 1)
  <2>1. u \in Strings /\ LongestIn(trie, failure[u], u, Len(u) - 1)
    BY <1>1 DEF FailureInv
  <2>2. Len(u) - 1 \in -1..Len(u)
    BY <2>1, SuffixEnds
  <2> QED
    BY <2>1, <2>2, LongestChosen
<1>3. ASSUME NEW u \in Complete, NEW c \in Letters
      PROVE  children[u][c] = LongestSuffix(Append(u, c), Len(u) + 1)
  <2>1. u \in Strings /\ LongestIn(trie, children[u][c], Append(u, c), Len(u) + 1)
    BY <1>1 DEF ChildrenInv
  <2>2. Append(u, c) \in Strings /\ Len(u) + 1 \in -1..Len(Append(u, c))
    BY <1>1, <2>1, AppendIs, SuffixEnds
  <2> QED
    BY <2>1, <2>2, LongestChosen
<1>4. ASSUME NEW u \in Complete \ {Root}
      PROVE  LET shorter == {Suffix(u, k) : k \in 1..(Len(u) - 1)} \cap words
             IN  IF shorter = {} THEN outputLink[u] = Root
                 ELSE outputLink[u] \in shorter /\ \A v \in shorter : Len(v) <= Len(outputLink[u])
  <2> DEFINE shorter == {Suffix(u, k) : k \in 1..(Len(u) - 1)} \cap words
             x       == outputLink[u]
  <2>1. u \in Strings /\ LongestIn(words \cup {Root}, x, u, Len(u) - 1) /\ Len(u) \in Nat
    BY <1>1, SuffixEnds DEF OutputInv
  <2>2. PICK k \in 0..(Len(u) - 1) :
          /\ x = Suffix(u, k) /\ x \in words \cup {Root}
          /\ \A j \in (k + 1)..(Len(u) - 1) : Suffix(u, j) \notin words \cup {Root}
    BY <2>1 DEF LongestIn
  <2>3. \A j \in 0..(Len(u) - 1) : j \in 0..Len(u) /\ Len(Suffix(u, j)) = j
    <3>1. \A j \in 0..(Len(u) - 1) : j \in 0..Len(u)
      BY <2>1
    <3> QED
      BY <2>1, <3>1, SuffixIs
  <2>4. Root \notin words
    BY <1>1 DEF TrieInv
  <2>5. CASE k = 0
    <3>1. x = Root
      BY <2>1, <2>2, <2>5, SuffixEnds
    <3>2. shorter = {}
      BY <2>1, <2>2, <2>5
    <3> QED
      BY <3>1, <3>2
  <2>6. CASE k # 0
    <3>1. k \in 1..(Len(u) - 1) /\ Len(x) = k
      BY <2>1, <2>2, <2>3, <2>6
    <3>2. x # Root
      BY <2>1, <3>1, SuffixEnds
    <3>3. x \in shorter
      BY <2>2, <3>1, <3>2
    <3>4. ASSUME NEW v \in shorter PROVE Len(v) <= Len(x)
      <4>1. PICK j \in 1..(Len(u) - 1) : v = Suffix(u, j) /\ v \in words
        OBVIOUS
      <4>2. Len(v) = j
        BY <2>1, <2>3, <4>1
      <4>3. j <= k
        BY <2>1, <2>2, <4>1
      <4> QED
        BY <3>1, <4>2, <4>3
    <3> QED
      BY <3>3, <3>4
  <2> QED
    BY <2>5, <2>6
<1> QED
  BY <1>2, <1>3, <1>4 DEF LinksAreLongestSuffixes, Complete

\* insert_word, build() and scan_chunk() never leave the nodes of the trie, and the
\* scan finds a transition for every letter (TypeOK of the run).
THEOREM TypeCorrect == Spec => []TypeOK
<1>1. IInv => TypeOK
  BY WellTyped
<1> QED
  BY <1>1, Invariance, PTL

\* build() gives every node the failure link, the transitions and the output link
\* that the comment on AhoCorasickCPU promises, whatever the words.
THEOREM LinksCorrect == Spec => []LinksAreLongestSuffixes
<1>1. IInv => LinksAreLongestSuffixes
  BY LinksAre
<1> QED
  BY <1>1, Invariance, PTL

\* scan_chunk() reports every occurrence of every accepted word, once each, by its
\* end and longer words first, in any text.
THEOREM ScanCorrect == Spec => []MatchesAreExact
<1>1. IInv => MatchesAreExact
  BY DEF IInv
<1> QED
  BY <1>1, Invariance, PTL

-----------------------------------------------------------------------------
(* The automaton, told as operators: what WordPolicies says of scan_chunk. *)

\* GoTo is the longest suffix that a word begins with.
LEMMA GoToIs ==
  ASSUME NEW C, NEW d \in SUBSET Seq(C), NEW s \in Seq(C), NEW c \in C
  PROVE  LongestIn(Heads(C, d), GoTo(d, s, c), Append(s, c), Len(s) + 1)
<1> DEFINE t == Append(s, c)
           W == Heads(C, d)
           nodes == {x \in Suffixes(t) : x = <<>> \/ \E w \in d : IsPrefix(x, w)}
           K == {k \in 0..Len(t) : Suffix(t, k) \in W}
           g == CHOOSE x \in nodes : \A y \in nodes : Len(y) <= Len(x)
<1>1. t \in Seq(C) /\ Len(t) \in Nat /\ Len(t) = Len(s) + 1
  BY Appended, EndsAre
<1>2. GoTo(d, s, c) = g
  BY DEF GoTo
<1> HIDE DEF t
<1>3. \A k \in 0..Len(t) : Suffix(t, k) \in Seq(C) /\ Len(Suffix(t, k)) = k
  BY <1>1, EndIs
<1>4. \A x : x \in nodes <=> \E k \in K : x = Suffix(t, k)
  <2>1. Suffixes(t) = {Suffix(t, k) : k \in 0..Len(t)}
    BY <1>1, SuffixesAre
  <2> QED
    BY <1>3, <2>1 DEF Heads
<1> HIDE DEF nodes
<1>5. PICK k \in K : \A j \in K : j <= k
  <2>1. K \in SUBSET Nat /\ IsFiniteSet(K)
    <3>1. K \subseteq 0..Len(t) /\ IsFiniteSet(0..Len(t))
      BY <1>1, FS_Interval
    <3> QED
      BY <3>1, FS_Subset
  <2>2. 0 \in K
    <3>1. Suffix(t, 0) = <<>> /\ <<>> \in W
      BY <1>1, EndsAre, HeadsAre
    <3> QED
      BY <1>1, <3>1
  <2> HIDE DEF K
  <2> QED
    BY <2>1, <2>2, Greatest
<1>6. \A x \in nodes : \E j \in K : x = Suffix(t, j) /\ Len(x) = j
  BY <1>3, <1>4
<1>7. \E x \in nodes : \A y \in nodes : Len(y) <= Len(x)
  <2>1. Suffix(t, k) \in nodes /\ Len(Suffix(t, k)) = k
    BY <1>3, <1>4
  <2> QED
    BY <1>5, <1>6, <2>1
<1>8. g \in nodes /\ \A y \in nodes : Len(y) <= Len(g)
  BY <1>7
<1> HIDE DEF g
<1>9. PICK m \in K : g = Suffix(t, m) /\ Len(g) = m
  BY <1>6, <1>8
<1>10. \A j \in (m + 1)..(Len(s) + 1) : Suffix(t, j) \notin W
  <2> SUFFICES ASSUME NEW j \in (m + 1)..(Len(s) + 1), Suffix(t, j) \in W PROVE FALSE
    OBVIOUS
  <2>1. j \in K /\ ~(j <= m)
    BY <1>1
  <2>2. Suffix(t, j) \in nodes /\ Len(Suffix(t, j)) = j
    BY <1>3, <1>4, <2>1
  <2> QED
    BY <1>8, <1>9, <2>1, <2>2
<1>11. m \in 0..(Len(s) + 1) /\ Suffix(t, m) \in W
  BY <1>1
<1> QED
  BY <1>2, <1>9, <1>10, <1>11 DEF LongestIn, t

\* OutputWords lists the words a string ends with, longest first.
LEMMA OutputWordsAre ==
  ASSUME NEW C, NEW d \in SUBSET Seq(C), NEW s \in Seq(C)
  PROVE  /\ OutputWords(d, s) \in Seq(d)
         /\ \A k \in 1..Len(OutputWords(d, s)) : IsSuffix(OutputWords(d, s)[k], s)
         /\ \A w \in d : IsSuffix(w, s) => \E k \in 1..Len(OutputWords(d, s)) : OutputWords(d, s)[k] = w
         /\ \A k, m \in 1..Len(OutputWords(d, s)) :
              k < m => Len(OutputWords(d, s)[m]) < Len(OutputWords(d, s)[k])
<1> DEFINE here == {w \in d : IsSuffix(w, s)}
           L == {Len(w) : w \in here}
           lengths == Ascending(L)
           n == Cardinality(L)
           O == OutputWords(d, s)
<1>0. Len(s) \in Nat
  OBVIOUS
<1>1. \A w \in here : w \in Seq(C) /\ Len(w) \in 0..Len(s) /\ w = Suffix(s, Len(w))
  <2> SUFFICES ASSUME NEW w \in here PROVE w \in Seq(C) /\ Len(w) \in 0..Len(s) /\ w = Suffix(s, Len(w))
    OBVIOUS
  <2>1. w \in Seq(C) /\ IsSuffix(w, s) /\ Len(w) \in Nat
    OBVIOUS
  <2>2. Len(w) <= Len(s) /\ w = Suffix(s, Len(w))
    BY <2>1, SuffixAt
  <2> QED
    BY <1>0, <2>1, <2>2
<1>2. L \in SUBSET Int /\ IsFiniteSet(L)
  <2>1. L \subseteq 0..Len(s) /\ IsFiniteSet(0..Len(s))
    BY <1>0, <1>1, FS_Interval
  <2> QED
    BY <2>1, FS_Subset
<1>3. /\ n \in Nat /\ lengths \in [1..n -> L] /\ DOMAIN lengths = 1..n /\ Len(lengths) = n
      /\ \A x \in L : \E k \in 1..n : lengths[k] = x
      /\ \A k, m \in 1..n : k < m <=> lengths[k] < lengths[m]
  <2> HIDE DEF L
  <2> QED
    BY <1>2, AscendingLists
<1>4. O = [k \in 1..n |-> Suffix(s, lengths[n + 1 - k])]
  <2>1. O = [k \in DOMAIN lengths |-> Suffix(s, lengths[Len(lengths) + 1 - k])]
    BY DEF OutputWords
  <2> HIDE DEF O, lengths, n
  <2> QED
    BY <1>3, <2>1
<1>5. \A k \in L : Suffix(s, k) \in here /\ Len(Suffix(s, k)) = k /\ k \in Int
  BY <1>1, <1>2
<1> HIDE DEF L, lengths, n, O, here
<1>6. \A k \in 1..n : n + 1 - k \in 1..n /\ n + 1 - (n + 1 - k) = k
  BY <1>3
<1>7. \A k \in 1..n : O[k] \in here /\ Len(O[k]) = lengths[n + 1 - k]
  <2> SUFFICES ASSUME NEW k \in 1..n PROVE O[k] \in here /\ Len(O[k]) = lengths[n + 1 - k]
    OBVIOUS
  <2>1. lengths[n + 1 - k] \in L /\ O[k] = Suffix(s, lengths[n + 1 - k])
    BY <1>3, <1>4, <1>6
  <2> QED
    BY <1>5, <2>1
<1>8. O \in Seq(d) /\ Len(O) = n
  <2>1. \A k \in 1..n : O[k] \in d
    BY <1>7 DEF here
  <2>2. O = [k \in 1..n |-> O[k]]
    BY <1>4
  <2> QED
    BY <1>3, <2>1, <2>2
<1>9. ASSUME NEW w \in d, IsSuffix(w, s) PROVE \E k \in 1..n : O[k] = w
  <2>1. w \in here /\ Len(w) \in L
    BY <1>9 DEF here, L
  <2>2. PICK m \in 1..n : lengths[m] = Len(w)
    BY <1>3, <2>1
  <2>3. n + 1 - m \in 1..n /\ O[n + 1 - m] = Suffix(s, lengths[n + 1 - (n + 1 - m)])
    BY <1>4, <1>6
  <2>4. O[n + 1 - m] = w
    BY <1>1, <1>6, <2>1, <2>2, <2>3
  <2> QED
    BY <2>3, <2>4
<1>10. ASSUME NEW k \in 1..n, NEW m \in 1..n, k < m PROVE Len(O[m]) < Len(O[k])
  <2>1. n + 1 - m < n + 1 - k
    BY <1>3, <1>10
  <2> QED
    BY <1>3, <1>6, <1>7, <2>1
<1>11. \A k \in 1..n : IsSuffix(O[k], s)
  BY <1>7 DEF here
<1> QED
  BY <1>8, <1>9, <1>10, <1>11 DEF O

\* scan_chunk, one character.
ScanOne(d, chars, offset, acc, c) ==
  [state |-> GoTo(d, acc.state, chars[c]),
   raw   |-> acc.raw \o [k \in DOMAIN OutputWords(d, GoTo(d, acc.state, chars[c])) |->
                [start |-> offset + c - Len(OutputWords(d, GoTo(d, acc.state, chars[c]))[k]),
                 word  |-> OutputWords(d, GoTo(d, acc.state, chars[c]))[k]]]]

Raws(d) == [start : Int, word : d]

Scans(C, d) == [state : Seq(C), raw : Seq(Raws(d))]

\* A step of the scan keeps the types.
LEMMA ScanOneIs ==
  ASSUME NEW C, NEW d \in SUBSET Seq(C), NEW chars \in Seq(C), NEW offset \in Int,
         NEW acc \in Scans(C, d), NEW c \in 1..Len(chars)
  PROVE  ScanOne(d, chars, offset, acc, c) \in Scans(C, d)
<1> DEFINE s == GoTo(d, acc.state, chars[c])
           o == OutputWords(d, s)
           r == [k \in DOMAIN o |-> [start |-> offset + c - Len(o[k]), word |-> o[k]]]
<1>1. s \in Seq(C)
  <2>1. acc.state \in Seq(C) /\ chars[c] \in C
    BY ElementOfSeq DEF Scans
  <2>2. LongestIn(Heads(C, d), s, Append(acc.state, chars[c]), Len(acc.state) + 1)
    BY <2>1, GoToIs
  <2>3. Append(acc.state, chars[c]) \in Seq(C) /\ Len(acc.state) + 1 \in -1..Len(Append(acc.state, chars[c]))
    <3>1. Append(acc.state, chars[c]) \in Seq(C) /\ Len(Append(acc.state, chars[c])) = Len(acc.state) + 1 /\ Len(acc.state) \in Nat
      BY <2>1, Appended, EndsAre
    <3> QED
      BY <3>1
  <2> HIDE DEF s
  <2> QED
    BY <2>2, <2>3, LongestEnd
<1>2. o \in Seq(d)
  <2> HIDE DEF s
  <2> QED
    BY <1>1, OutputWordsAre
<1>3. r \in Seq(Raws(d))
  <2> HIDE DEF o
  <2>1. Len(o) \in Nat /\ DOMAIN o = 1..Len(o)
    BY <1>2
  <2>2. \A k \in 1..Len(o) : o[k] \in d /\ o[k] \in Seq(C) /\ Len(o[k]) \in Nat
    BY <1>2, ElementOfSeq
  <2>3. \A k \in 1..Len(o) : [start |-> offset + c - Len(o[k]), word |-> o[k]] \in Raws(d)
    BY <2>2 DEF Raws
  <2>4. r \in [1..Len(o) -> Raws(d)]
    BY <2>1, <2>3
  <2> HIDE DEF r
  <2> QED
    BY <2>1, <2>4, SeqDef
<1>4. acc.raw \o r \in Seq(Raws(d))
  <2>1. acc.raw \in Seq(Raws(d))
    BY DEF Scans
  <2> HIDE DEF r
  <2> QED
    BY <1>3, <2>1, ConcatProperties
<1>5. ScanOne(d, chars, offset, acc, c) = [state |-> s, raw |-> acc.raw \o r]
  BY DEF ScanOne
<1> HIDE DEF s, r
<1> QED
  BY <1>1, <1>4, <1>5 DEF Scans

\* F[k] is what the scan is after k characters.
ScanSteps(F, C, d, chars, offset, before) ==
  /\ F \in [0..Len(chars) -> Scans(C, d)] /\ F[0] = before
  /\ \A k \in 1..Len(chars) : F[k] = ScanOne(d, chars, offset, F[k - 1], k)

\* scan_chunk goes through the characters one by one.
LEMMA ScanIsStepwise ==
  ASSUME NEW C, NEW d \in SUBSET Seq(C), NEW chars \in Seq(C), NEW offset \in Int,
         NEW before \in Scans(C, d)
  PROVE  \E F : /\ ScanSteps(F, C, d, chars, offset, before)
                /\ ScanChunk(d, chars, offset, before) = F[Len(chars)]
<1> DEFINE n == Len(chars)
           X == Scans(C, d)
           q == [p \in DOMAIN chars |-> p]
           h == [k \in 1..n |-> [a \in X |-> ScanOne(d, chars, offset, a, k)]]
           Eq(g) == g = [s \in SUBSET DOMAIN q |->
                           IF s = {} THEN before
                           ELSE ScanOne(d, chars, offset, g[s \ {Max(s)}], q[Max(s)])]
           It == CHOOSE g : Eq(g)
<1>0. n \in Nat /\ DOMAIN chars = 1..n /\ DOMAIN q = 1..n
  OBVIOUS
<1>1. ScanChunk(d, chars, offset, before) = It[DOMAIN q]
  BY DEF ScanChunk, FoldLeftDomain, FoldLeft, MapThenFoldSet, ScanOne
<1>2. h \in [1..n -> [X -> X]] /\ \A k \in 1..n, a \in X : h[k][a] = ScanOne(d, chars, offset, a, k)
  <2>1. \A k \in 1..n, a \in X : ScanOne(d, chars, offset, a, k) \in X
    BY ScanOneIs
  <2> HIDE DEF X, n
  <2> QED
    BY <2>1
<1>3. PICK A : FoldsOver(A, X, before, h, n)
  <2> HIDE DEF X, h, n
  <2> QED
    BY <1>0, <1>2, FoldsExist DEF X
<1>4. Eq(A)
  <2>1. /\ A \in [SUBSET (1..n) -> X] /\ A[{}] = before
        /\ \A s \in SUBSET (1..n) : s # {} => A[s] = h[Max(s)][A[s \ {Max(s)}]]
    BY <1>3 DEF FoldsOver
  <2>2. \A s \in SUBSET (1..n) : s # {} => Max(s) \in 1..n /\ s \ {Max(s)} \in SUBSET (1..n)
    BY <1>0, MaxIs
  <2> HIDE DEF X, h, n
  <2>3. \A s \in SUBSET (1..n) : s # {} => A[s] = ScanOne(d, chars, offset, A[s \ {Max(s)}], Max(s))
    BY <1>2, <2>1, <2>2
  <2>4. \A s \in SUBSET (1..n) : s # {} => q[Max(s)] = Max(s)
    BY <1>0, <2>2
  <2> HIDE DEF q
  <2> QED
    BY <1>0, <2>1, <2>3, <2>4
<1>5. Eq(It)
  <2> HIDE DEF Eq
  <2> QED
    BY <1>4
<1> DEFINE F == [k \in 0..n |-> A[1..k]]
           T == {k \in 0..n : It[1..k] = A[1..k]}
<1>6. \A k \in 0..n : 1..k \in SUBSET (1..n)
  BY <1>0
<1>7. ASSUME NEW k \in 1..n
      PROVE  /\ A[1..k] = ScanOne(d, chars, offset, A[1..(k - 1)], k)
             /\ It[1..k] = ScanOne(d, chars, offset, It[1..(k - 1)], k)
  <2>1. k \in Nat /\ k # 0 /\ k \in 0..n
    BY <1>0
  <2>2. 1..k # {} /\ Max(1..k) = k /\ (1..k) \ {k} = 1..(k - 1) /\ 1..k \in SUBSET (1..n)
    BY <1>6, <2>1, MaxOfFirst
  <2>3. q[k] = k
    BY <1>0
  <2> HIDE DEF q, It, n
  <2> QED
    BY <1>0, <1>4, <1>5, <2>2, <2>3
<1>8. 1..0 = {} /\ A[{}] = before /\ It[{}] = before
  <2> HIDE DEF It, q
  <2> QED
    BY <1>0, <1>4, <1>5
<1>9. \A k \in 0..n : k \in T
  <2>1. 0 \in T
    BY <1>0, <1>8
  <2>2. ASSUME NEW k \in 1..n, k - 1 \in T PROVE k \in T
    <3> HIDE DEF It
    <3>1. k \in 0..n
      BY <1>0
    <3> QED
      BY <1>7, <2>2, <3>1
  <2> HIDE DEF T, n
  <2> QED
    BY <1>0, <2>1, <2>2, UpTo
<1>10. n \in T /\ n \in 0..n
  <2>1. n \in 0..n
    BY <1>0
  <2> HIDE DEF T, n
  <2> QED
    BY <1>9, <2>1
<1>11. F \in [0..n -> X]
  <2>1. A \in [SUBSET (1..n) -> X]
    BY <1>3 DEF FoldsOver
  <2> HIDE DEF X
  <2> QED
    BY <1>6, <2>1
<1>12. \A k \in 1..n : F[k] = ScanOne(d, chars, offset, F[k - 1], k)
  <2>1. \A k \in 1..n : k \in 0..n /\ k - 1 \in 0..n
    BY <1>0
  <2> HIDE DEF n
  <2> QED
    BY <1>7, <2>1
<1>13. F[0] = before /\ ScanChunk(d, chars, offset, before) = F[n]
  <2> HIDE DEF It
  <2> QED
    BY <1>0, <1>1, <1>8, <1>10
<1> HIDE DEF F, X
<1>14. ScanSteps(F, C, d, chars, offset, before)
  BY <1>11, <1>12, <1>13 DEF X, ScanSteps
<1> QED
  BY <1>13, <1>14

\* The words of d in the first e characters of U, when U begins at character base.
FoundIn(d, U, base, e) ==
  {m \in [start : Nat, word : d] :
     /\ base <= m.start /\ EndOf(m) <= base + e
     /\ SubSeq(U, m.start - base + 1, EndOf(m) - base) = m.word}

\* What a scan is after the first e characters of U.
ScannedTo(C, d, U, base, e, acc) ==
  /\ acc \in Scans(C, d)
  /\ LongestIn(Heads(C, d), acc.state, SubSeq(U, 1, e), e)
  /\ ToSet(acc.raw) = FoundIn(d, U, base, e) /\ IsInjective(acc.raw)

\* The words that end here are those that end the state, the longest suffix that a word begins
\* with.
LEMMA EndsOfScan ==
  ASSUME NEW C, NEW d \in SUBSET Seq(C), NEW t \in Seq(C), NEW x,
         LongestIn(Heads(C, d), x, t, Len(t)), NEW w \in d
  PROVE  IsSuffix(w, x) <=> Len(w) <= Len(t) /\ w = Suffix(t, Len(w))
<1>1. PICK k \in 0..Len(t) : /\ x = Suffix(t, k) /\ x \in Heads(C, d)
                             /\ \A j \in (k + 1)..Len(t) : Suffix(t, j) \notin Heads(C, d)
  BY DEF LongestIn
<1>2. w \in Heads(C, d) /\ w \in Seq(C)
  BY HeadsAre
<1>3. x \in Seq(C) /\ Len(x) = k /\ Len(t) \in Nat /\ k \in Nat /\ Len(w) \in Nat
  <2>1. Len(t) \in Nat /\ Len(w) \in Nat
    BY <1>2, EndsAre
  <2> QED
    BY <1>1, <2>1, EndIs
<1>4. \A n \in 0..k : Suffix(x, n) = Suffix(t, n)
  BY <1>1, EndOfEnd
<1>5. IsSuffix(w, x) <=> Len(w) <= k /\ w = Suffix(x, Len(w))
  BY <1>2, <1>3, SuffixAt
<1>6. ASSUME Len(w) <= Len(t), w = Suffix(t, Len(w)) PROVE Len(w) <= k
  <2>1. Len(w) \notin (k + 1)..Len(t)
    BY <1>1, <1>2, <1>6
  <2> QED
    BY <1>3, <1>6, <2>1
<1>7. Len(w) <= k => Suffix(x, Len(w)) = Suffix(t, Len(w)) /\ Len(w) <= Len(t)
  <2> SUFFICES ASSUME Len(w) <= k PROVE Suffix(x, Len(w)) = Suffix(t, Len(w)) /\ Len(w) <= Len(t)
    OBVIOUS
  <2>1. Len(w) \in 0..k
    BY <1>3
  <2>2. k <= Len(t)
    BY <1>3
  <2> QED
    BY <1>3, <1>4, <2>1, <2>2
<1> QED
  BY <1>5, <1>6, <1>7

\* Before the first character nothing is found.
LEMMA ScanBegins ==
  ASSUME NEW C, NEW d \in SUBSET Seq(C), \A w \in d : Len(w) # 0,
         NEW U \in Seq(C), NEW base \in Nat
  PROVE  ScannedTo(C, d, U, base, 0, [state |-> <<>>, raw |-> <<>>])
<1> DEFINE e == << >>
<1>0. Len(U) \in Nat /\ e \in Seq(C) /\ Len(e) = 0 /\ e \in Seq(Raws(d))
  OBVIOUS
<1>1. SubSeq(U, 1, 0) = e /\ Suffix(e, 0) = e
  <2>1. SubSeq(U, 1, 0) = e
    BY SubSeqEmpty
  <2>2. Suffix(e, 0) = << >>
    BY <1>0, EndsAre
  <2> QED
    BY <2>1, <2>2
<1>2. e \in Heads(C, d)
  BY HeadsAre
<1> HIDE DEF e
<1>3. LongestIn(Heads(C, d), e, SubSeq(U, 1, 0), 0)
  <2>1. (\A j \in (0 + 1)..0 : FALSE) /\ 0 \in 0..0
    OBVIOUS
  <2> QED
    BY <1>1, <1>2, <2>1 DEF LongestIn
<1>4. FoundIn(d, U, base, 0) = {}
  <2>1. ASSUME NEW m \in [start : Nat, word : d], base <= m.start, EndOf(m) <= base + 0 PROVE FALSE
    <3>1. m.start \in Nat /\ m.word \in d /\ m.word \in Seq(C)
      OBVIOUS
    <3>2. Len(m.word) \in Nat /\ Len(m.word) # 0
      BY <3>1
    <3> QED
      BY <2>1, <3>1, <3>2 DEF EndOf
  <2> QED
    BY <2>1 DEF FoundIn
<1>5. DOMAIN e = {}
  BY DEF e
<1>6. ToSet(e) = {} /\ IsInjective(e)
  BY <1>5 DEF ToSet, IsInjective
<1> QED
  BY <1>0, <1>3, <1>4, <1>6 DEF ScannedTo, Scans, e

\* A character more: the matches that end there are added.
LEMMA ScanGrows ==
  ASSUME NEW C, NEW d \in SUBSET Seq(C), \A w \in d : Len(w) # 0,
         NEW U \in Seq(C), NEW base \in Nat, NEW e \in 0..Len(U), e < Len(U),
         NEW acc, ScannedTo(C, d, U, base, e, acc),
         NEW chars \in Seq(C), NEW offset \in Int, NEW c \in 1..Len(chars),
         chars[c] = U[e + 1], offset + c = base + e + 1
  PROVE  ScannedTo(C, d, U, base, e + 1, ScanOne(d, chars, offset, acc, c))
<1> DEFINE x == GoTo(d, acc.state, chars[c])
           o == OutputWords(d, x)
           r == [k \in DOMAIN o |-> [start |-> offset + c - Len(o[k]), word |-> o[k]]]
           new == ScanOne(d, chars, offset, acc, c)
           s == SubSeq(U, 1, e)
           t == SubSeq(U, 1, e + 1)
           W == Heads(C, d)
<1>0. Len(U) \in Nat /\ e \in Nat /\ e + 1 \in 0..Len(U) /\ c \in Nat
  OBVIOUS
<1>1. /\ s \in Seq(C) /\ Len(s) = e /\ t \in Seq(C) /\ Len(t) = e + 1
      /\ U[e + 1] \in C /\ t = Append(s, U[e + 1])
  BY <1>0, FirstPart
<1>2. acc \in Scans(C, d) /\ new \in Scans(C, d) /\ acc.state \in Seq(C) /\ acc.raw \in Seq(Raws(d))
  <2>1. acc \in Scans(C, d)
    BY DEF ScannedTo
  <2>2. new \in Scans(C, d)
    BY <2>1, ScanOneIs
  <2> QED
    BY <2>1, <2>2 DEF Scans
<1>3. LongestIn(W, x, t, e + 1)
  <2>1. LongestIn(W, acc.state, s, e)
    BY DEF ScannedTo
  <2>2. LongestIn(W, x, Append(acc.state, U[e + 1]), Len(acc.state) + 1)
    BY <1>1, <1>2, GoToIs
  <2>3. e \in 0..Len(s)
    BY <1>0, <1>1
  <2>4. \A u \in Seq(C), b \in C : Append(u, b) \in W => u \in W
    BY HeadsAre
  <2> HIDE DEF x, s, t, W
  <2>5. LongestIn(W, x, Append(s, U[e + 1]), e + 1)
    BY <1>1, <2>1, <2>2, <2>3, <2>4, LongestGrows
  <2> QED
    BY <1>1, <2>5
<1>4. x \in Seq(C) /\ \A w \in d : IsSuffix(w, x) <=> Len(w) <= e + 1 /\ w = Suffix(t, Len(w))
  <2> HIDE DEF x, t
  <2>1. e + 1 \in -1..Len(t)
    BY <1>0, <1>1
  <2>2. x \in Seq(C)
    BY <1>1, <1>3, <2>1, LongestEnd
  <2>3. LongestIn(Heads(C, d), x, t, Len(t))
    BY <1>1, <1>3
  <2>4. ASSUME NEW w \in d PROVE IsSuffix(w, x) <=> Len(w) <= Len(t) /\ w = Suffix(t, Len(w))
    <3>1. t \in Seq(C)
      BY <1>1
    <3> QED
      BY <2>3, <3>1, EndsOfScan
  <2> QED
    BY <1>1, <2>2, <2>4
<1>5. /\ o \in Seq(d)
      /\ \A k \in 1..Len(o) : IsSuffix(o[k], x)
      /\ \A w \in d : IsSuffix(w, x) => \E k \in 1..Len(o) : o[k] = w
      /\ \A j, k \in 1..Len(o) : j < k => Len(o[j]) > Len(o[k])
  <2> HIDE DEF x
  <2> QED
    BY <1>4, OutputWordsAre
<1>6. new.state = x /\ new.raw = acc.raw \o r
  BY DEF ScanOne
<1> HIDE DEF x, o, new
<1>7. /\ DOMAIN o = 1..Len(o) /\ Len(o) \in Nat
      /\ \A k \in 1..Len(o) : o[k] \in d /\ o[k] \in Seq(C) /\ Len(o[k]) \in Nat /\ Len(o[k]) # 0
  <2>1. DOMAIN o = 1..Len(o) /\ Len(o) \in Nat
    BY <1>5
  <2>2. \A k \in 1..Len(o) : o[k] \in d
    BY <1>5, ElementOfSeq
  <2> QED
    BY <2>1, <2>2, EndsAre
<1>8. /\ DOMAIN r = 1..Len(o)
      /\ \A k \in 1..Len(o) : r[k] = [start |-> offset + c - Len(o[k]), word |-> o[k]]
  BY <1>7
<1> HIDE DEF r
<1>9. \A k \in 1..Len(o) : /\ r[k].start = base + e + 1 - Len(o[k]) /\ r[k].word = o[k]
                           /\ r[k].start \in Int /\ r[k] \in Raws(d)
  <2>1. \A k \in 1..Len(o) : /\ offset + c - Len(o[k]) = base + e + 1 - Len(o[k])
                             /\ offset + c - Len(o[k]) \in Int
    BY <1>0, <1>7
  <2>2. ASSUME NEW k \in 1..Len(o) PROVE r[k].start = offset + c - Len(o[k]) /\ r[k].word = o[k]
    <3>1. r[k] = [start |-> offset + c - Len(o[k]), word |-> o[k]]
      BY <1>8
    <3> QED
      BY <3>1
  <2>3. \A k \in 1..Len(o) : r[k] \in Raws(d)
    BY <1>7, <1>8, <2>1 DEF Raws
  <2> QED
    BY <2>1, <2>2, <2>3
<1>10. Len(r) = Len(o) /\ r \in Seq(Raws(d))
  <2>1. r \in [1..Len(o) -> Raws(d)]
    <3>1. r = [k \in 1..Len(o) |-> r[k]]
      BY <1>8 DEF r
    <3> QED
      BY <1>9, <3>1
  <2> QED
    BY <1>7, <2>1, SeqDef
<1> DEFINE N == Len(acc.raw)
<1>11. /\ N \in Nat /\ DOMAIN acc.raw = 1..N /\ new.raw \in Seq(Raws(d)) /\ DOMAIN new.raw = 1..(N + Len(o))
       /\ \A p \in 1..N : new.raw[p] = acc.raw[p]
       /\ \A k \in 1..Len(o) : new.raw[N + k] = r[k]
  <2>1. N \in Nat /\ DOMAIN acc.raw = 1..N
    BY <1>2
  <2>2. /\ acc.raw \o r \in Seq(Raws(d)) /\ Len(acc.raw \o r) = N + Len(o)
        /\ \A p \in 1..N : (acc.raw \o r)[p] = acc.raw[p]
        /\ \A k \in 1..Len(o) : (acc.raw \o r)[N + k] = r[k]
    <3> DEFINE f == acc.raw
               S == Raws(d)
    <3>1. f \in Seq(S) /\ r \in Seq(S) /\ Len(r) = Len(o)
      BY <1>2, <1>10
    <3> HIDE DEF f, S
    <3>2. /\ f \o r \in Seq(S) /\ Len(f \o r) = Len(f) + Len(r)
          /\ \A p \in 1..Len(f) : (f \o r)[p] = f[p]
          /\ \A k \in 1..Len(r) : (f \o r)[Len(f) + k] = r[k]
      <4>1. f \in Seq(S) /\ r \in Seq(S)
        BY <3>1
      <4>2. f \o r \in Seq(S) /\ Len(f \o r) = Len(f) + Len(r)
        BY <4>1, TwoParts
      <4>3. \A p \in 1..Len(f) : (f \o r)[p] = f[p]
        BY <4>1, TwoParts
      <4>4. \A k \in 1..Len(r) : (f \o r)[Len(f) + k] = r[k]
        BY <4>1, TwoParts
      <4> QED
        BY <4>2, <4>3, <4>4
    <3> QED
      BY <3>1, <3>2 DEF f, S
  <2>3. new.raw \in Seq(Raws(d)) /\ Len(new.raw) = N + Len(o)
    BY <1>6, <2>2
  <2>4. DOMAIN new.raw = 1..(N + Len(o))
    BY <2>3
  <2> QED
    BY <1>6, <2>1, <2>2, <2>3, <2>4
<1> HIDE DEF N
<1>12. \A p \in 1..(N + Len(o)) : p \in 1..N \/ (p - N \in 1..Len(o) /\ N + (p - N) = p)
  BY <1>7, <1>11
<1>13. \A p \in 1..N : acc.raw[p] \in FoundIn(d, U, base, e)
  <2>1. \A p \in 1..N : acc.raw[p] \in ToSet(acc.raw)
    BY <1>11 DEF ToSet
  <2> QED
    BY <2>1 DEF ScannedTo
<1>14. \A m \in FoundIn(d, U, base, e) : \E p \in 1..N : acc.raw[p] = m
  <2>1. ToSet(acc.raw) = {acc.raw[p] : p \in 1..N}
    BY <1>11 DEF ToSet
  <2> QED
    BY <2>1 DEF ScannedTo
<1>15. \A m \in [start : Nat, word : d] : /\ m.start \in Nat /\ m.word \in d /\ m.word \in Seq(C) /\ Len(m.word) \in Nat
                                           /\ Len(m.word) # 0 /\ EndOf(m) = m.start + Len(m.word) /\ EndOf(m) \in Nat
  <2> SUFFICES ASSUME NEW m \in [start : Nat, word : d]
               PROVE  /\ m.start \in Nat /\ m.word \in d /\ m.word \in Seq(C) /\ Len(m.word) \in Nat
                      /\ Len(m.word) # 0 /\ EndOf(m) = m.start + Len(m.word) /\ EndOf(m) \in Nat
    OBVIOUS
  <2>1. m.start \in Nat /\ m.word \in d /\ m.word \in Seq(C)
    OBVIOUS
  <2>2. Len(m.word) \in Nat /\ Len(m.word) # 0
    BY <2>1
  <2> QED
    BY <2>1, <2>2 DEF EndOf
<1>16. ASSUME NEW w \in d, Len(w) \in 0..(e + 1)
       PROVE  Suffix(t, Len(w)) = SubSeq(U, e + 1 - Len(w) + 1, e + 1)
  BY <1>0, <1>16, EndOfFirstPart

\* The matches that end with the character are those that are added.
<1>17. \A k \in 1..Len(o) : r[k] \in FoundIn(d, U, base, e + 1) /\ EndOf(r[k]) = base + e + 1
  <2> SUFFICES ASSUME NEW k \in 1..Len(o)
               PROVE  r[k] \in FoundIn(d, U, base, e + 1) /\ EndOf(r[k]) = base + e + 1
    OBVIOUS
  <2>1. o[k] \in d /\ Len(o[k]) \in Nat /\ Len(o[k]) <= e + 1 /\ o[k] = Suffix(t, Len(o[k]))
    BY <1>4, <1>5, <1>7
  <2>2. Len(o[k]) \in 0..(e + 1)
    BY <1>0, <2>1
  <2>3. o[k] = SubSeq(U, e + 1 - Len(o[k]) + 1, e + 1)
    BY <1>16, <2>1, <2>2
  <2>4. r[k].start = base + e + 1 - Len(o[k]) /\ r[k].word = o[k]
    BY <1>9
  <2>5. /\ EndOf(r[k]) = base + e + 1 /\ base <= r[k].start /\ r[k].start \in Nat
        /\ r[k].start - base + 1 = e + 1 - Len(o[k]) + 1 /\ EndOf(r[k]) - base = e + 1
        /\ base + (e + 1) = base + e + 1
    BY <1>0, <2>2, <2>4 DEF EndOf
  <2>6. r[k] \in [start : Nat, word : d]
    <3>1. r[k] = [start |-> r[k].start, word |-> r[k].word]
      BY <1>9, MatchIs DEF Raws
    <3>2. r[k].start \in Nat /\ r[k].word \in d
      BY <2>1, <2>4, <2>5
    <3>3. [start |-> r[k].start, word |-> r[k].word] \in [start : Nat, word : d]
      BY <3>2
    <3> QED
      BY <3>1, <3>3
  <2>7. SubSeq(U, r[k].start - base + 1, EndOf(r[k]) - base) = r[k].word
    BY <2>3, <2>4, <2>5
  <2>8. EndOf(r[k]) <= base + (e + 1)
    BY <1>0, <2>5
  <2> QED
    BY <2>5, <2>6, <2>7, <2>8 DEF FoundIn
<1>18. ASSUME NEW m \in FoundIn(d, U, base, e + 1), EndOf(m) = base + e + 1
       PROVE  \E k \in 1..Len(o) : r[k] = m
  <2>1. /\ m \in [start : Nat, word : d] /\ base <= m.start
        /\ SubSeq(U, m.start - base + 1, EndOf(m) - base) = m.word
    BY DEF FoundIn
  <2>2. m.start \in Nat /\ m.word \in d /\ Len(m.word) \in Nat /\ EndOf(m) = m.start + Len(m.word)
    BY <1>15, <2>1
  <2>3. /\ Len(m.word) \in 0..(e + 1) /\ m.start = base + e + 1 - Len(m.word)
        /\ m.start - base + 1 = e + 1 - Len(m.word) + 1 /\ EndOf(m) - base = e + 1
    <3> DEFINE l == Len(m.word)
               b == m.start
               f == EndOf(m)
    <3>1. l \in Nat /\ b \in Nat /\ f = b + l /\ base <= b /\ f = base + e + 1 /\ base \in Nat /\ e \in Nat
      BY <1>0, <1>18, <2>1, <2>2
    <3> HIDE DEF l, b, f
    <3>2. l \in 0..(e + 1) /\ b = base + e + 1 - l /\ b - base + 1 = e + 1 - l + 1 /\ f - base = e + 1
      BY <3>1
    <3> QED
      BY <3>2 DEF l, b, f
  <2>4. m.word = Suffix(t, Len(m.word))
    BY <1>16, <2>1, <2>2, <2>3
  <2>5. IsSuffix(m.word, x)
    BY <1>0, <1>4, <2>2, <2>3, <2>4
  <2>6. PICK k \in 1..Len(o) : o[k] = m.word
    BY <1>5, <2>2, <2>5
  <2>7. r[k].start = m.start /\ r[k].word = m.word /\ r[k] \in Raws(d) /\ m \in Raws(d)
    BY <1>9, <2>1, <2>3, <2>6 DEF Raws
  <2>8. r[k] = m
    <3>1. r[k] = [start |-> r[k].start, word |-> r[k].word] /\ m = [start |-> m.start, word |-> m.word]
      BY <2>7, MatchIs DEF Raws
    <3> QED
      BY <2>7, <3>1
  <2> QED
    BY <2>8
<1>19. \A m \in FoundIn(d, U, base, e + 1) : EndOf(m) = base + e + 1 \/ m \in FoundIn(d, U, base, e)
  <2> SUFFICES ASSUME NEW m \in FoundIn(d, U, base, e + 1), EndOf(m) # base + e + 1
               PROVE  m \in FoundIn(d, U, base, e)
    OBVIOUS
  <2>1. m \in [start : Nat, word : d] /\ EndOf(m) <= base + (e + 1)
    BY DEF FoundIn
  <2>2. EndOf(m) \in Nat
    BY <1>15, <2>1
  <2>3. EndOf(m) <= base + e
    BY <1>0, <2>1, <2>2
  <2> QED
    BY <2>3 DEF FoundIn
<1>20. \A m \in FoundIn(d, U, base, e) : m \in FoundIn(d, U, base, e + 1) /\ EndOf(m) # base + e + 1
  <2> SUFFICES ASSUME NEW m \in FoundIn(d, U, base, e)
               PROVE  m \in FoundIn(d, U, base, e + 1) /\ EndOf(m) # base + e + 1
    OBVIOUS
  <2>1. m \in [start : Nat, word : d] /\ EndOf(m) <= base + e
    BY DEF FoundIn
  <2>2. EndOf(m) \in Nat
    BY <1>15, <2>1
  <2>3. EndOf(m) <= base + (e + 1) /\ EndOf(m) # base + e + 1
    BY <1>0, <2>1, <2>2
  <2> QED
    BY <2>3 DEF FoundIn
<1>21. ToSet(new.raw) = FoundIn(d, U, base, e + 1)
  <2>1. ASSUME NEW m \in ToSet(new.raw) PROVE m \in FoundIn(d, U, base, e + 1)
    <3>1. PICK p \in 1..(N + Len(o)) : new.raw[p] = m
      BY <1>11 DEF ToSet
    <3>2. CASE p \in 1..N
      BY <1>11, <1>13, <1>20, <3>1, <3>2
    <3>3. CASE p \notin 1..N
      BY <1>11, <1>12, <1>17, <3>1, <3>3
    <3> QED
      BY <3>2, <3>3
  <2>2. ASSUME NEW m \in FoundIn(d, U, base, e + 1) PROVE m \in ToSet(new.raw)
    <3>1. CASE EndOf(m) = base + e + 1
      <4>1. PICK k \in 1..Len(o) : r[k] = m
        BY <1>18, <3>1
      <4>2. N + k \in 1..(N + Len(o)) /\ new.raw[N + k] = m
        BY <1>7, <1>11, <4>1
      <4> QED
        BY <1>11, <4>2 DEF ToSet
    <3>2. CASE m \in FoundIn(d, U, base, e)
      <4>1. PICK p \in 1..N : acc.raw[p] = m
        BY <1>14, <3>2
      <4>2. p \in 1..(N + Len(o)) /\ new.raw[p] = m
        BY <1>7, <1>11, <4>1
      <4> QED
        BY <1>11, <4>2 DEF ToSet
    <3> QED
      BY <1>19, <3>1, <3>2
  <2> QED
    BY <2>1, <2>2
<1>22. IsInjective(new.raw)
  <2> SUFFICES ASSUME NEW p \in 1..(N + Len(o)), NEW q \in 1..(N + Len(o)), new.raw[p] = new.raw[q], p # q
               PROVE  FALSE
    BY <1>11 DEF IsInjective
  <2>1. CASE p \in 1..N /\ q \in 1..N
    <3>1. IsInjective(acc.raw)
      BY DEF ScannedTo
    <3> QED
      BY <1>11, <2>1, <3>1 DEF IsInjective
  <2>0. /\ \A a \in 1..N : EndOf(new.raw[a]) # base + e + 1
        /\ \A a \in 1..(N + Len(o)) : a \notin 1..N => EndOf(new.raw[a]) = base + e + 1
    <3>1. \A a \in 1..N : EndOf(acc.raw[a]) # base + e + 1
      BY <1>13, <1>20
    <3>2. ASSUME NEW a \in 1..(N + Len(o)), a \notin 1..N PROVE EndOf(new.raw[a]) = base + e + 1
      <4> DEFINE j == a - N
      <4>1. j \in 1..Len(o) /\ N + j = a
        BY <1>12, <3>2
      <4> HIDE DEF j
      <4>2. new.raw[a] = r[j] /\ EndOf(r[j]) = base + e + 1
        BY <1>11, <1>17, <4>1
      <4> QED
        BY <4>2
    <3> QED
      BY <1>11, <3>1, <3>2
  <2>2. CASE p \in 1..N /\ q \notin 1..N
    BY <2>0, <2>2
  <2>3. CASE p \notin 1..N /\ q \in 1..N
    BY <2>0, <2>3
  <2>4. CASE p \notin 1..N /\ q \notin 1..N
    <3> DEFINE j == p - N
               k == q - N
    <3>1. j \in 1..Len(o) /\ k \in 1..Len(o) /\ j # k /\ N + j = p /\ N + k = q
      BY <1>11, <1>12, <2>4
    <3> HIDE DEF j, k
    <3>2. r[j].word = r[k].word
      BY <1>11, <3>1
    <3>3. o[j] = o[k]
      BY <1>9, <3>1, <3>2
    <3>4. j < k \/ k < j
      BY <3>1
    <3>5. Len(o[j]) > Len(o[k]) \/ Len(o[k]) > Len(o[j])
      BY <1>5, <3>1, <3>4
    <3> QED
      BY <1>7, <3>1, <3>3, <3>5
  <2> QED
    BY <2>1, <2>2, <2>3, <2>4
<1> QED
  BY <1>2, <1>3, <1>6, <1>21, <1>22 DEF ScannedTo, new

\* A whole chunk: chars are the characters of U after the first k.
LEMMA ScanFinds ==
  ASSUME NEW C, NEW d \in SUBSET Seq(C), \A w \in d : Len(w) # 0,
         NEW U \in Seq(C), NEW base \in Nat, NEW k \in 0..Len(U),
         NEW chars \in Seq(C), k + Len(chars) <= Len(U),
         \A j \in 1..Len(chars) : chars[j] = U[k + j],
         NEW before, ScannedTo(C, d, U, base, k, before)
  PROVE  ScannedTo(C, d, U, base, k + Len(chars), ScanChunk(d, chars, base + k, before))
<1> DEFINE n == Len(chars)
           offset == base + k
<1>0. Len(U) \in Nat /\ n \in Nat /\ k \in Nat /\ offset \in Int
  OBVIOUS
<1>1. before \in Scans(C, d)
  BY DEF ScannedTo
<1> HIDE DEF n, offset
<1>2. PICK F : ScanSteps(F, C, d, chars, offset, before) /\ ScanChunk(d, chars, offset, before) = F[n]
  BY <1>0, <1>1, ScanIsStepwise DEF n
<1> DEFINE T == {m \in 0..n : ScannedTo(C, d, U, base, k + m, F[m])}
<1>3. 0 \in T
  BY <1>0, <1>2 DEF ScanSteps
<1>4. ASSUME NEW m \in 1..n, m - 1 \in T PROVE m \in T
  <2> DEFINE e == k + (m - 1)
  <2>1. /\ e \in 0..Len(U) /\ e < Len(U) /\ e + 1 = k + m /\ offset + m = base + e + 1
        /\ m \in 1..Len(chars) /\ m \in 0..n
    <3>1. k + n <= Len(U) /\ m \in 1..n /\ k \in Nat /\ n \in Nat /\ base \in Nat
      BY <1>0 DEF n
    <3>2. e \in 0..Len(U) /\ e < Len(U) /\ e + 1 = k + m /\ (base + k) + m = base + e + 1 /\ m \in 0..n
      BY <1>0, <3>1
    <3> QED
      BY <3>2 DEF n, offset
  <2>2. chars[m] = U[e + 1] /\ F[m] = ScanOne(d, chars, offset, F[m - 1], m)
    BY <1>2, <2>1 DEF ScanSteps
  <2>3. ScannedTo(C, d, U, base, e, F[m - 1])
    BY <1>4
  <2> HIDE DEF e
  <2>4. ScannedTo(C, d, U, base, e + 1, ScanOne(d, chars, offset, F[m - 1], m))
    BY <1>0, <2>1, <2>2, <2>3, ScanGrows
  <2> QED
    BY <2>1, <2>2, <2>4
<1>5. \A m \in 0..n : m \in T
  <2> HIDE DEF T
  <2> QED
    BY <1>0, <1>3, <1>4, UpTo
<1>6. n \in 0..n
  BY <1>0
<1>7. ScannedTo(C, d, U, base, k + n, F[n])
  BY <1>5, <1>6
<1> QED
  BY <1>2, <1>7 DEF n, offset

InputOK ==
  /\ input.digits \in Seq(0..9) /\ Dpc \in Nat \ {0}
  /\ IsFiniteSet(input.dict) /\ input.dict \in SUBSET Seq(0..25) /\ \A w \in input.dict : Len(w) # 0
  /\ input.chunk \in Nat \ {0} /\ input.maxDigits \in Nat /\ input.minPhrase \in Nat \ {0}
  /\ input.policy \in {"all-combos", "earliest-then-longest"}

\* A setting that must be positive is.
LEMMA PositiveSettings ==
  ASSUME NEW x \in Inputs, Errors(x.config) = {}, NEW k \in Positive, NEW default \in Nat \ {0}
  PROVE  NumberOf(x.config, k, default) \in Nat \ {0}
<1> DEFINE g == x.config
<1>1. CASE k \in DOMAIN g /\ g[k].type = "integer"
  <2>1. g[k].value \in Int
    BY <1>1, ScanInputAssumption
  <2>2. k \notin {j \in Given(g, Positive) : g[j].type # "integer" \/ g[j].value < 1}
    BY DEF Errors
  <2>3. ~(g[k].value < 1)
    BY <1>1, <2>2 DEF Given
  <2> HIDE DEF g
  <2>4. NumberOf(g, k, default) = g[k].value
    BY <1>1 DEF NumberOf, ValueOr
  <2>5. g[k].value \in Nat \ {0}
    BY <2>1, <2>3
  <2> QED
    BY <2>4, <2>5 DEF g
<1>2. CASE ~(k \in DOMAIN g /\ g[k].type = "integer")
  BY <1>2 DEF NumberOf, ValueOr
<1> QED
  BY <1>1, <1>2

\* main() goes on with settings that make sense only: what validate_config lets pass.
LEMMA InputIsOK ==
  ASSUME InputInit
  PROVE  InputOK
<1>1. PICK x \in Inputs : Errors(x.config) = {} /\ input = Configured(x)
  BY DEF InputInit
<1> DEFINE g == x.config
<1>2. /\ x.digits \in Seq(0..9) /\ x.mapping.dpc \in Nat \ {0}
      /\ IsFiniteSet(x.words) /\ \A w \in x.words : w \in Seq(0..25)
      /\ \A k \in DOMAIN g : g[k].type = "integer" => g[k].value \in Int
  BY ScanInputAssumption
<1>3. /\ input.digits = x.digits
      /\ input.mapper = IF TextOf(g, "digit_mapper.type") = "two-digit-block" THEN TwoDigitBlock ELSE x.mapping
      /\ input.dict = {w \in x.words : Len(w) >= NumberOf(g, "word_finder.min_word_length", 1)}
      /\ input.chunk = NumberOf(g, "digit_source.chunk_size", 131072)
      /\ input.maxDigits = NumberOf(g, "digit_source.max_digits", 0)
      /\ input.policy = TextOf(g, "word_finder.overlap_policy")
      /\ input.minPhrase = NumberOf(g, "phrase_scanner.min_phrase_length", 1)
  BY <1>1 DEF Configured
<1>4. /\ NumberOf(g, "digit_source.chunk_size", 131072) \in Nat \ {0}
      /\ NumberOf(g, "word_finder.min_word_length", 1) \in Nat \ {0}
      /\ NumberOf(g, "phrase_scanner.min_phrase_length", 1) \in Nat \ {0}
  <2>1. /\ "digit_source.chunk_size" \in Positive /\ "word_finder.min_word_length" \in Positive
        /\ "phrase_scanner.min_phrase_length" \in Positive
    BY DEF Positive
  <2>2. 131072 \in Nat \ {0} /\ 1 \in Nat \ {0}
    OBVIOUS
  <2>3. \A k \in Positive, n \in Nat \ {0} : NumberOf(g, k, n) \in Nat \ {0}
    BY <1>1, PositiveSettings
  <2> HIDE DEF g
  <2> QED
    BY <2>1, <2>2, <2>3
<1>5. NumberOf(g, "digit_source.max_digits", 0) \in Nat
  <2> DEFINE k == "digit_source.max_digits"
  <2>1. CASE k \in DOMAIN g /\ g[k].type = "integer"
    <3>1. g[k].value \in Int
      BY <1>2, <2>1
    <3>2. k \notin {j \in Given(g, {k}) : g[j].type = "integer" /\ g[j].value < 0}
      BY <1>1 DEF Errors
    <3>3. ~(g[k].value < 0)
      BY <2>1, <3>2 DEF Given
    <3> HIDE DEF g
    <3> QED
      BY <2>1, <3>1, <3>3 DEF NumberOf, ValueOr
  <2>2. CASE ~(k \in DOMAIN g /\ g[k].type = "integer")
    BY <2>2 DEF NumberOf, ValueOr
  <2> QED
    BY <2>1, <2>2
<1>6. TextOf(g, "word_finder.overlap_policy") \in {"all-combos", "earliest-then-longest"}
  <2> DEFINE k == "word_finder.overlap_policy"
  <2>1. k \in WithChoices
    BY DEF WithChoices
  <2>2. k \notin {j \in WithChoices : TextOf(g, j) \notin AllowedTexts(j)}
    BY <1>1 DEF Errors
  <2>3. AllowedTexts(k) = {"all-combos", "earliest-then-longest"}
    BY DEF AllowedTexts
  <2> QED
    BY <2>1, <2>2, <2>3
<1>7. Dpc \in Nat \ {0}
  <2>1. TwoDigitBlock.dpc = 2
    BY DEF TwoDigitBlock
  <2> QED
    BY <1>2, <1>3, <2>1 DEF Dpc
<1>8. IsFiniteSet(input.dict) /\ input.dict \in SUBSET Seq(0..25)
  <2>1. input.dict \subseteq x.words
    BY <1>3
  <2> QED
    BY <1>2, <2>1, FS_Subset
<1>9. ASSUME NEW w \in input.dict PROVE Len(w) # 0
  <2> DEFINE m == NumberOf(g, "word_finder.min_word_length", 1)
  <2>1. w \in Seq(0..25) /\ Len(w) \in Nat /\ Len(w) >= m /\ m \in Nat \ {0}
    BY <1>3, <1>4, <1>8
  <2> HIDE DEF m
  <2> QED
    BY <2>1
<1> QED
  BY <1>2, <1>3, <1>4, <1>5, <1>6, <1>7, <1>8, <1>9 DEF InputOK

\* The letter that a block of digits stands for.
LetterOf(block) == input.mapper.table[FoldLeft(LAMBDA v, d : v * 10 + d, 0, block)]

\* The alphabet and what the mapper gives.
TextAlphabet == (0..25) \cup {AllLetters[p] : p \in 1..Len(AllLetters)}

\* DigitMapper::map, letter by letter.
LEMMA MappedIs ==
  ASSUME NEW D \in Seq(0..9), Dpc \in Nat \ {0}
  PROVE  /\ Len(MapDigits(D)) = Len(D) \div Dpc /\ Len(D) \div Dpc \in Nat
         /\ DOMAIN MapDigits(D) = 1..(Len(D) \div Dpc)
         /\ \A p \in 1..(Len(D) \div Dpc) :
              MapDigits(D)[p] = LetterOf(SubSeq(D, (p - 1) * Dpc + 1, p * Dpc))
         /\ \A S : (\A p \in 1..(Len(D) \div Dpc) : MapDigits(D)[p] \in S) => MapDigits(D) \in Seq(S)
<1> DEFINE n == Len(D) \div Dpc
<1>1. n \in Nat
  <2>1. Len(D) \in Nat
    OBVIOUS
  <2> QED
    BY <2>1, Division
<1>2. MapDigits(D) = [p \in 1..n |-> LetterOf(SubSeq(D, (p - 1) * Dpc + 1, p * Dpc))]
  BY DEF MapDigits, LetterOf
<1> HIDE DEF n
<1>3. /\ DOMAIN MapDigits(D) = 1..n
      /\ \A p \in 1..n : MapDigits(D)[p] = LetterOf(SubSeq(D, (p - 1) * Dpc + 1, p * Dpc))
  BY <1>2
<1>4. MapDigits(D) = [p \in 1..n |-> MapDigits(D)[p]]
  BY <1>2, <1>3
<1>5. ASSUME NEW S, \A p \in 1..n : MapDigits(D)[p] \in S PROVE MapDigits(D) \in Seq(S)
  <2>1. MapDigits(D) \in [1..n -> S]
    BY <1>4, <1>5
  <2> QED
    BY <1>1, <2>1, SeqDef
<1>6. Len(MapDigits(D)) = n
  BY <1>1, <1>3, LenProperties
<1> QED
  BY <1>1, <1>3, <1>5, <1>6 DEF n

\* The text, and the words, are of one alphabet.
LEMMA TextIs ==
  ASSUME InputOK
  PROVE  /\ AllLetters \in Seq(TextAlphabet) /\ Len(AllLetters) = Len(input.digits) \div Dpc
         /\ Len(AllLetters) \in Nat /\ Len(input.digits) \in Nat
         /\ input.dict \in SUBSET Seq(TextAlphabet)
<1>1. /\ Len(MapDigits(input.digits)) = Len(input.digits) \div Dpc
      /\ Len(input.digits) \div Dpc \in Nat
      /\ \A S : (\A p \in 1..(Len(input.digits) \div Dpc) : MapDigits(input.digits)[p] \in S)
            => MapDigits(input.digits) \in Seq(S)
  BY MappedIs DEF InputOK
<1>2. \A p \in 1..Len(AllLetters) : AllLetters[p] \in TextAlphabet
  BY DEF TextAlphabet
<1>3. AllLetters \in Seq(TextAlphabet)
  BY <1>1, <1>2 DEF AllLetters
<1>4. input.dict \in SUBSET Seq(TextAlphabet)
  <2>1. 0..25 \subseteq TextAlphabet
    BY DEF TextAlphabet
  <2>2. \A w \in Seq(0..25) : w \in Seq(TextAlphabet)
    BY <2>1, SeqMonotonic
  <2> QED
    BY <2>2 DEF InputOK
<1>5. Len(input.digits) \in Nat
  BY DEF InputOK
<1> QED
  BY <1>1, <1>3, <1>4, <1>5 DEF AllLetters

\* The letters of a part of the digits that begins with a block.
MappedPart(D, a, e) ==
  /\ D \in Seq(0..9) /\ Len(D) = e - a * Dpc
  /\ MapDigits(D) \in Seq(TextAlphabet) /\ Len(MapDigits(D)) = Len(D) \div Dpc
  /\ a + Len(MapDigits(D)) = e \div Dpc /\ a + Len(MapDigits(D)) <= Len(AllLetters)
  /\ \A j \in 1..Len(MapDigits(D)) : MapDigits(D)[j] = AllLetters[a + j]

\* The letters of a part of the digits that begins with a block are a part of the text.
LEMMA PartMapped ==
  ASSUME InputOK, NEW a \in Nat, NEW e \in 0..Len(input.digits), a * Dpc <= e
  PROVE  MappedPart(SubSeq(input.digits, a * Dpc + 1, e), a, e)
<1> DEFINE D == input.digits
           q == Dpc
           b == a * q + 1
           P == SubSeq(D, b, e)
           u == Len(P) \div q
<1>1. D \in Seq(0..9) /\ q \in Nat \ {0} /\ Len(D) \in Nat /\ e \in Nat /\ e <= Len(D)
  BY DEF InputOK
<1>2. a * q \in Nat /\ b \in Nat \ {0} /\ b <= e + 1
  <2>1. a * q \in Nat /\ a * q <= e
    BY <1>1
  <2> HIDE DEF q
  <2> QED
    BY <1>1, <2>1
<1>3. P \in Seq(0..9) /\ Len(P) = e - a * q
  <2>1. \A j \in b..e : D[j] \in 0..9
    <3>1. \A j \in b..e : j \in 1..Len(D)
      BY <1>1, <1>2
    <3> HIDE DEF D
    <3> QED
      BY <1>1, <3>1, ElementOfSeq
  <2>2. b \in Int /\ e \in Int /\ e - b + 1 = e - a * q
    BY <1>1, <1>2
  <2> HIDE DEF b, D, q
  <2>3. P \in Seq(0..9) /\ Len(P) = IF b <= e THEN e - b + 1 ELSE 0
    BY <2>1, <2>2, SubSeqProperties
  <2> QED
    BY <1>1, <1>2, <2>2, <2>3 DEF b
<1> DEFINE c == e - a * q
<1>4. c \in Nat /\ e = a * q + c /\ Len(P) = c
  BY <1>1, <1>2, <1>3
<1> HIDE DEF c, P
<1>5. u \in Nat /\ e \div q = a + u /\ u * q \in 0..c
  <2> HIDE DEF q
  <2> QED
    BY <1>1, <1>4, QuotientOfSum
<1>6. /\ Len(MapDigits(P)) = u
      /\ \A p \in 1..u : MapDigits(P)[p] = LetterOf(SubSeq(P, (p - 1) * q + 1, p * q))
      /\ \A S : (\A p \in 1..u : MapDigits(P)[p] \in S) => MapDigits(P) \in Seq(S)
  BY <1>1, <1>3, MappedIs
<1>7. /\ Len(AllLetters) = Len(D) \div q /\ AllLetters \in Seq(TextAlphabet)
      /\ \A p \in 1..(Len(D) \div q) : AllLetters[p] = LetterOf(SubSeq(D, (p - 1) * q + 1, p * q))
  BY <1>1, MappedIs, TextIs DEF AllLetters
<1> HIDE DEF q, D, u
<1>8. a + u <= Len(AllLetters)
  <2>1. e \div q <= Len(D) \div q
    BY <1>1, QuotientGrows
  <2> QED
    BY <1>5, <1>7, <2>1
<1>9. ASSUME NEW j \in 1..u PROVE MapDigits(P)[j] = AllLetters[a + j]
  <2> DEFINE x == (j - 1) * q + 1
             y == j * q
  <2>1. a + j \in 1..(Len(D) \div q)
    BY <1>5, <1>7, <1>8
  <2>2. AllLetters[a + j] = LetterOf(SubSeq(D, ((a + j) - 1) * q + 1, (a + j) * q))
    BY <1>7, <2>1
  <2>3. j - 1 \in Nat /\ j \in Nat /\ (j - 1) * q \in Nat /\ j * q \in Nat /\ j * q = (j - 1) * q + q
    <3>1. j - 1 \in Nat /\ j \in Nat
      BY <1>5
    <3>2. \A k \in Nat : k * q \in Nat
      BY <1>1
    <3>3. j * q = (j - 1) * q + q
      BY <1>1, <3>1
    <3> QED
      BY <3>1, <3>2, <3>3
  <2>4. x \in Nat \ {0} /\ y \in Int /\ x <= y + 1
    BY <1>1, <2>3
  <2>5. j * q <= u * q
    <3>1. u - j \in Nat /\ (u - j) * q \in Nat /\ u * q = j * q + (u - j) * q
      <4>1. u - j \in Nat
        BY <1>5
      <4>2. (u - j) * q \in Nat
        BY <1>1, <4>1
      <4>3. u * q = j * q + (u - j) * q
        BY <1>1, <1>5, <4>1
      <4> QED
        BY <4>1, <4>2, <4>3
    <3> QED
      BY <1>5, <2>3, <3>1
  <2>6. b + y - 1 <= e
    <3> DEFINE l == a * q
               m == j * q
               n == u * q
    <3>1. l \in Nat /\ m \in Nat /\ n \in Nat /\ c \in Nat /\ e = l + c /\ n <= c /\ m <= n
      BY <1>2, <1>4, <1>5, <2>3, <2>5
    <3>2. b + y - 1 = (l + 1) + m - 1
      BY DEF b
    <3> HIDE DEF l, m, n, b, y
    <3>3. (l + 1) + m - 1 = l + m /\ l + m <= e
      BY <3>1
    <3> QED
      BY <3>2, <3>3
  <2>7. /\ ((a + j) - 1) * q + 1 = b + x - 1 /\ (a + j) * q = b + y - 1
    <3>1. ((a + j) - 1) * q = a * q + (j - 1) * q /\ (a + j) * q = a * q + j * q
      BY <1>1, <2>3
    <3> DEFINE l == (j - 1) * q
               m == j * q
               n == a * q
    <3>2. l \in Int /\ m \in Int /\ n \in Int /\ ((a + j) - 1) * q = n + l /\ (a + j) * q = n + m
      BY <1>2, <2>3, <3>1
    <3> HIDE DEF l, m, n
    <3>3. (n + l) + 1 = (n + 1) + (l + 1) - 1 /\ n + m = (n + 1) + m - 1
      BY <3>2
    <3>4. b = n + 1 /\ x = l + 1 /\ y = m
      BY DEF l, m, n
    <3> QED
      BY <3>2, <3>3, <3>4
  <2> HIDE DEF x, y, b
  <2>8. SubSeq(P, x, y) = SubSeq(D, b + x - 1, b + y - 1)
    BY <1>1, <1>2, <2>4, <2>6, PartOfPart DEF P
  <2>9. MapDigits(P)[j] = LetterOf(SubSeq(P, x, y))
    BY <1>6 DEF x, y
  <2> QED
    BY <2>2, <2>7, <2>8, <2>9
<1>10. MapDigits(P) \in Seq(TextAlphabet)
  <2>1. \A j \in 1..u : a + j \in 1..Len(AllLetters)
    BY <1>5, <1>8
  <2>2. \A j \in 1..u : AllLetters[a + j] \in TextAlphabet
    BY <1>7, <2>1, ElementOfSeq
  <2> QED
    BY <1>6, <1>9, <2>2
<1>11. MappedPart(P, a, e)
  <2>1. Len(P) \div Dpc = u
    BY DEF u, q
  <2> QED
    BY <1>3, <1>5, <1>6, <1>8, <1>9, <1>10, <2>1 DEF MappedPart, q
<1> QED
  BY <1>11 DEF P, b, q, D

\* A whole number of characters.
LEMMA ChunkSizeIs ==
  ASSUME InputOK
  PROVE  \E m \in Nat \ {0} : ChunkSize = m * Dpc /\ ChunkSize \in Nat \ {0} /\ ChunkSize >= Dpc
<1> DEFINE q == Dpc
           c == input.chunk
<1>1. q \in Nat \ {0} /\ c \in Nat \ {0}
  BY DEF InputOK
<1>2. ChunkSize = IF c % q # 0 THEN ((c \div q) + 1) * q ELSE c
  BY DEF ChunkSize
<1> HIDE DEF q, c
<1> DEFINE d == c \div q
<1>3. d \in Nat /\ c % q \in 0..(q - 1) /\ c = q * d + (c % q)
  BY <1>1, Division
<1> HIDE DEF d
<1> DEFINE m == IF c % q # 0 THEN d + 1 ELSE d
<1>4. m \in Nat \ {0}
  <2>1. CASE c % q # 0
    BY <1>3, <2>1
  <2>2. CASE c % q = 0
    <3>1. d # 0
      <4>1. ASSUME d = 0 PROVE FALSE
        <5>1. q * d = 0
          BY <1>1, <4>1
        <5> QED
          BY <1>1, <1>3, <2>2, <5>1
      <4> QED
        BY <4>1
    <3> QED
      BY <1>3, <2>2, <3>1
  <2> QED
    BY <2>1, <2>2
<1>5. ChunkSize = m * q
  <2>1. CASE c % q # 0
    BY <1>2, <2>1 DEF d
  <2>2. CASE c % q = 0
    <3>1. q * d = d * q /\ q * d \in Nat
      BY <1>1, <1>3
    <3>2. c = d * q
      BY <1>3, <2>2, <3>1
    <3> QED
      BY <1>2, <2>2, <3>2
  <2> QED
    BY <2>1, <2>2
<1> HIDE DEF m
<1>6. m * q >= q /\ m * q \in Nat \ {0}
  <2>1. m - 1 \in Nat /\ m = (m - 1) + 1
    BY <1>4
  <2>2. (m - 1) * q \in Nat
    BY <1>1, <2>1
  <2>3. m * q = (m - 1) * q + q
    BY <1>1, <1>4
  <2> QED
    BY <1>1, <2>2, <2>3
<1> QED
  BY <1>4, <1>5, <1>6 DEF q

Consumed(p) == p \in 0..Len(input.digits) /\ (p % Dpc = 0 \/ p = Len(input.digits))

\* The serial run has read the digits up to position, and has scanned their letters.
SerialText ==
  /\ InputOK /\ Consumed(position) /\ serialPc \in {"read", "emit", "done"}
  /\ serialPc # "read" => position = Len(input.digits)
  /\ letters = SubSeq(AllLetters, 1, position \div Dpc)
  /\ ScannedTo(TextAlphabet, input.dict, AllLetters, 0, position \div Dpc, scan)

\* What one call of next_chunk gives, and where it stops.
NextRead(e, chars) ==
  /\ position + Len(Chunk) = e /\ Consumed(e) /\ position <= e
  /\ Usable = <<>> => e = Len(input.digits)
  /\ chars \in Seq(TextAlphabet) /\ position \div Dpc \in Nat
  /\ (position \div Dpc) + Len(chars) = e \div Dpc /\ e \div Dpc <= Len(AllLetters)
  /\ \A j \in 1..Len(chars) : chars[j] = AllLetters[(position \div Dpc) + j]

\* next_chunk gives what comes next in the text, and nothing only when all is read.
LEMMA NextReadIs ==
  ASSUME InputOK, Consumed(position)
  PROVE  \E e : NextRead(e, MapDigits(Usable)) /\ (Usable = <<>> => Len(MapDigits(Usable)) = 0)
<1> DEFINE q == Dpc
           D == input.digits
           L == Len(D)
           K == ChunkSize
<1>1. q \in Nat \ {0} /\ L \in Nat /\ D \in Seq(0..9) /\ position \in 0..L /\ position \in Nat
  BY DEF InputOK, Consumed
<1>2. PICK m \in Nat \ {0} : K = m * q /\ K \in Nat \ {0} /\ K >= q
  BY ChunkSizeIs
<1> DEFINE e == Lesser(position + K, L)
<1>3. e \in position..L /\ (e = position + K \/ e = L) /\ e \in 0..L /\ e \in Nat
  <2> HIDE DEF K, L
  <2> QED
    BY <1>1, <1>2 DEF Lesser
<1>4. Chunk = SubSeq(D, position + 1, e)
  BY DEF Chunk
<1> HIDE DEF e, K, L
<1>5. Chunk \in Seq(0..9) /\ Len(Chunk) = e - position
  <2> DEFINE b == position + 1
  <2>1. \A j \in b..e : j \in 1..Len(D)
    BY <1>1, <1>3 DEF L
  <2>2. \A j \in b..e : D[j] \in 0..9
    <3> HIDE DEF b, D
    <3> QED
      BY <1>1, <2>1, ElementOfSeq
  <2>3. b \in Int /\ e \in Int
    BY <1>1, <1>3
  <2> HIDE DEF b, D
  <2>4. SubSeq(D, b, e) \in Seq(0..9) /\ Len(SubSeq(D, b, e)) = IF b <= e THEN e - b + 1 ELSE 0
    BY <2>2, <2>3, SubSeqProperties
  <2>5. Chunk = SubSeq(D, b, e)
    BY <1>4 DEF b
  <2>6. (IF b <= e THEN e - b + 1 ELSE 0) = e - position
    BY <1>1, <1>3 DEF b
  <2> QED
    BY <2>4, <2>5, <2>6
<1> DEFINE c == e - position
           u == c \div q
           a == position \div q
<1>6. c \in Nat /\ e = position + c /\ u \in Nat /\ u * q \in 0..c /\ a \in Nat
  <2>1. c \in Nat /\ e = position + c
    BY <1>1, <1>3
  <2> HIDE DEF c, q
  <2> QED
    BY <1>1, <2>1, QuotientOfSum, Division
<1>7. Usable = SubSeq(Chunk, 1, u * q)
  BY <1>5 DEF Usable
<1> HIDE DEF c, u, a, q
<1>8. Usable \in Seq(0..9) /\ Len(Usable) = u * q
  <2> HIDE DEF Chunk
  <2>1. u * q \in 0..Len(Chunk)
    BY <1>5, <1>6 DEF c
  <2> QED
    BY <1>5, <1>7, <2>1, FirstPart
<1>9. CASE position = L
  <2>1. c = 0 /\ e = L
    BY <1>1, <1>3, <1>9 DEF c
  <2>2. u * q = 0
    BY <1>6, <2>1
  <2>3. Usable = <<>> /\ Len(Usable) = 0
    BY <1>8, <2>2, EmptySeq
  <2>4. 0 \div Dpc = 0
    <3>1. 0 * q + 0 = 0 /\ 0 \in Nat /\ 0 \in 0..(q - 1)
      BY <1>1
    <3>2. (0 * q + 0) \div q = 0
      BY <1>1, <3>1, Quotient
    <3> QED
      BY <3>1, <3>2 DEF q
  <2>5. /\ Len(MapDigits(Usable)) = 0
        /\ (\A p \in 1..0 : MapDigits(Usable)[p] \in TextAlphabet) => MapDigits(Usable) \in Seq(TextAlphabet)
    BY <1>1, <1>8, <2>3, <2>4, MappedIs DEF q
  <2>6. L \div q \in Nat /\ Len(AllLetters) = L \div q
    BY <1>1, TextIs DEF L, q
  <2>7. NextRead(e, MapDigits(Usable))
    <3>1. position + Len(Chunk) = e
      BY <1>1, <1>5, <2>1, <1>9
    <3>2. Consumed(e) /\ position <= e
      BY <1>1, <1>9, <2>1 DEF Consumed, L
    <3>3. MapDigits(Usable) \in Seq(TextAlphabet)
      BY <2>5
    <3>4. (position \div Dpc) + 0 = e \div Dpc /\ position \div Dpc \in Nat /\ e \div Dpc <= Len(AllLetters)
      BY <1>9, <2>1, <2>6 DEF q
    <3> HIDE DEF Usable, Chunk
    <3> QED
      BY <2>1, <2>5, <3>1, <3>2, <3>3, <3>4 DEF NextRead, L
  <2> QED
    BY <2>5, <2>7
<1>10. CASE position # L
  <2>1. position = a * q /\ a * q \in Nat
    <3>1. position % q = 0
      BY <1>10 DEF Consumed, L, q
    <3>2. position = q * a + (position % q)
      BY <1>1, Division DEF a
    <3>3. q * a = a * q /\ q * a \in Nat
      BY <1>1, <1>6
    <3> QED
      BY <1>1, <3>1, <3>2, <3>3
  <2>2. e \div q = a + u /\ (a + u) * q = position + u * q /\ u * q \in Nat
    <3>1. (a * q + c) \div q = a + u
      <4>1. a \in Nat /\ c \in Nat /\ q \in Nat \ {0}
        BY <1>1, <1>6
      <4>2. /\ (a * q + c) \div q = a + (c \div q) /\ (a * q + c) % q = c % q
            /\ (a * q) \div q = a /\ (a * q) % q = 0 /\ a * q \in Nat
            /\ c \div q \in Nat /\ (c \div q) * q \in 0..c
        BY <4>1, QuotientOfSum
      <4> QED
        BY <4>2 DEF u
    <3>2. (a + u) * q = a * q + u * q
      BY <1>1, <1>6
    <3> QED
      BY <1>1, <1>6, <2>1, <3>1, <3>2
  <2>3. Usable = SubSeq(D, position + 1, (a + u) * q)
    <3> DEFINE b == position + 1
               y == u * q
    <3>1. /\ b \in Nat \ {0} /\ e \in 0..Len(D) /\ y \in Int /\ 1 <= y + 1 /\ b + y - 1 <= e
          /\ b + 1 - 1 = b /\ b + y - 1 = position + y /\ 1 \in Nat \ {0}
      BY <1>1, <1>3, <1>6, <2>2 DEF L
    <3>2. Chunk = SubSeq(D, b, e)
      BY <1>4
    <3> HIDE DEF b, y, D
    <3>3. SubSeq(SubSeq(D, b, e), 1, y) = SubSeq(D, b + 1 - 1, b + y - 1)
      BY <1>1, <3>1, PartOfPart
    <3> QED
      BY <1>7, <2>2, <3>1, <3>2, <3>3 DEF b, y
  <2> DEFINE f == (a + u) * q
  <2>4. a * Dpc <= f /\ f \in 0..Len(input.digits) /\ f \div Dpc = a + u
    <3>1. f = position + u * q /\ f \in Nat /\ f <= L /\ a * q <= f
      BY <1>1, <1>3, <1>6, <2>1, <2>2
    <3>2. f \div q = a + u
      <4>1. a + u \in Nat
        BY <1>6
      <4> QED
        BY <1>1, <4>1, QuotientOfSum
    <3> QED
      BY <1>1, <3>1, <3>2 DEF q, L
  <2>5. Usable = SubSeq(input.digits, a * Dpc + 1, f)
    BY <2>1, <2>3 DEF q
  <2> HIDE DEF f
  <2>6. MappedPart(Usable, a, f)
    BY <1>6, <2>4, <2>5, PartMapped
  <2>7. NextRead(e, MapDigits(Usable))
    <3> HIDE DEF Usable, Chunk
    <3>1. position + Len(Chunk) = e /\ position <= e
      BY <1>1, <1>3, <1>5, <1>6
    <3>2. Consumed(e)
      <4>1. CASE e = position + K
        <5>1. e = (a + m) * q /\ a + m \in Nat
          <6>1. (a + m) * q = a * q + m * q
            BY <1>1, <1>2, <1>6
          <6> QED
            BY <1>2, <1>6, <2>1, <4>1, <6>1
        <5>2. e % q = 0
          BY <1>1, <5>1, QuotientOfSum
        <5> QED
          BY <1>3, <5>2 DEF Consumed, L, q
      <4>2. CASE e = L
        BY <1>1, <4>2 DEF Consumed, L
      <4> QED
        BY <1>3, <4>1, <4>2
    <3>3. ASSUME Usable = <<>> PROVE e = L
      <4>1. u * q = 0
        <5>1. Len(Usable) = 0
          BY <3>3
        <5> QED
          BY <1>8, <5>1
      <4>2. u = 0
        <5>1. ASSUME u # 0 PROVE FALSE
          <6>1. u - 1 \in Nat
            BY <1>6, <5>1
          <6>2. (u - 1) * q \in Nat /\ u * q = (u - 1) * q + q
            <7>1. (u - 1) * q \in Nat
              BY <1>1, <6>1
            <7>2. u * q = (u - 1) * q + q
              BY <1>1, <1>6
            <7> QED
              BY <7>1, <7>2
          <6> QED
            BY <1>1, <4>1, <6>2
        <5> QED
          BY <5>1
      <4>3. c < q
        <5>1. c = q * u + (c % q) /\ c % q \in 0..(q - 1)
          BY <1>1, <1>6, Division DEF u
        <5>2. q * u = 0
          BY <1>1, <4>2
        <5> QED
          BY <1>1, <1>6, <5>1, <5>2
      <4> QED
        BY <1>1, <1>2, <1>3, <1>6, <4>3 DEF c
    <3>4. /\ MapDigits(Usable) \in Seq(TextAlphabet) /\ a + Len(MapDigits(Usable)) = a + u
          /\ a + Len(MapDigits(Usable)) <= Len(AllLetters)
          /\ \A j \in 1..Len(MapDigits(Usable)) : MapDigits(Usable)[j] = AllLetters[a + j]
      BY <2>4, <2>6 DEF MappedPart
    <3>5. position \div Dpc = a /\ e \div Dpc = a + u
      BY <2>2 DEF a, q
    <3> QED
      BY <1>6, <3>1, <3>2, <3>3, <3>4, <3>5 DEF NextRead, L
  <2>8. Usable = <<>> => Len(MapDigits(Usable)) = 0
    <3>1. Len(MapDigits(Usable)) = Len(Usable) \div Dpc
      BY <1>1, <1>8, MappedIs DEF q
    <3>2. Usable = <<>> => Len(Usable) = 0
      OBVIOUS
    <3>3. 0 \div Dpc = 0
      <4>1. 0 * q + 0 = 0 /\ 0 \in Nat /\ 0 \in 0..(q - 1)
        BY <1>1
      <4>2. (0 * q + 0) \div q = 0
        BY <1>1, <4>1, Quotient
      <4> QED
        BY <4>1, <4>2 DEF q
    <3> HIDE DEF Usable
    <3> QED
      BY <3>1, <3>2, <3>3
  <2> QED
    BY <2>7, <2>8
<1> QED
  BY <1>9, <1>10

\* Before the first chunk.
LEMMA SerialTextBegins ==
  ASSUME InputInit, SerialInit
  PROVE  SerialText
<1>1. InputOK
  BY InputIsOK
<1>2. position = 0 /\ letters = <<>> /\ scan = [state |-> <<>>, raw |-> <<>>] /\ serialPc = "read"
  BY DEF SerialInit
<1>3. 0 \div Dpc = 0 /\ 0 % Dpc = 0 /\ Len(input.digits) \in Nat
  <2>1. Dpc \in Nat \ {0} /\ Len(input.digits) \in Nat
    BY <1>1 DEF InputOK
  <2> DEFINE q == Dpc
  <2>2. q \in Nat \ {0}
    BY <2>1
  <2> HIDE DEF q
  <2>3. 0 * q + 0 = 0 /\ 0 \in Nat /\ 0 \in 0..(q - 1)
    BY <2>2
  <2>4. (0 * q + 0) \div q = 0 /\ (0 * q + 0) % q = 0
    BY <2>2, <2>3, Quotient
  <2> QED
    BY <2>1, <2>3, <2>4 DEF q
<1>4. /\ AllLetters \in Seq(TextAlphabet) /\ input.dict \in SUBSET Seq(TextAlphabet)
      /\ \A w \in input.dict : Len(w) # 0
  BY <1>1, TextIs DEF InputOK
<1>5. ScannedTo(TextAlphabet, input.dict, AllLetters, 0, 0, [state |-> <<>>, raw |-> <<>>])
  <2>1. 0 \in Nat
    OBVIOUS
  <2> QED
    BY <1>4, <2>1, ScanBegins
<1>6. SubSeq(AllLetters, 1, 0) = <<>>
  BY SubSeqEmpty
<1>7. Consumed(position)
  BY <1>2, <1>3 DEF Consumed
<1> QED
  BY <1>1, <1>2, <1>3, <1>5, <1>6, <1>7 DEF SerialText

\* A chunk more is scanned.
LEMMA ScanNextKeeps ==
  ASSUME SerialText, ScanNext, UNCHANGED input
  PROVE  SerialText'
<1> DEFINE chars == MapDigits(Usable)
           k == position \div Dpc
           U == AllLetters
<1>1. /\ serialPc = "read" /\ letters' = letters \o chars /\ serialPc' = "read"
      /\ scan' = ScanChunk(input.dict, chars, Len(letters), scan)
      /\ position' = position + Len(Chunk)
  BY DEF ScanNext
<1>2. InputOK /\ Consumed(position) /\ letters = SubSeq(U, 1, k) /\ ScannedTo(TextAlphabet, input.dict, U, 0, k, scan)
  BY DEF SerialText
<1>3. PICK e : NextRead(e, chars)
  BY <1>2, NextReadIs
<1>4. /\ U \in Seq(TextAlphabet) /\ input.dict \in SUBSET Seq(TextAlphabet) /\ Len(U) \in Nat
      /\ \A w \in input.dict : Len(w) # 0
  BY <1>2, TextIs DEF InputOK
<1> HIDE DEF chars, U, k
<1>5. /\ chars \in Seq(TextAlphabet) /\ k \in Nat /\ k + Len(chars) = e \div Dpc /\ k + Len(chars) <= Len(U)
      /\ \A j \in 1..Len(chars) : chars[j] = U[k + j]
      /\ position' = e /\ Consumed(e)
  BY <1>1, <1>3 DEF NextRead, k, U
<1>6. k \in 0..Len(U) /\ Len(chars) \in Nat /\ 0 \in Nat /\ 0 + k = k
  <2>1. Len(chars) \in Nat
    BY <1>5
  <2> QED
    BY <1>4, <1>5, <2>1
<1>7. letters' = SubSeq(U, 1, k + Len(chars))
  BY <1>1, <1>2, <1>4, <1>5, <1>6, FirstPartContinued
<1>8. Len(letters) = k
  BY <1>2, <1>4, <1>6, FirstPart
<1>9. ScannedTo(TextAlphabet, input.dict, U, 0, k + Len(chars), ScanChunk(input.dict, chars, 0 + k, scan))
  BY <1>2, <1>4, <1>5, <1>6, ScanFinds
<1>10. /\ InputOK' /\ (Consumed(e) => Consumed(e)') /\ AllLetters' = AllLetters
       /\ Dpc' = Dpc /\ TextAlphabet' = TextAlphabet /\ input' = input
  <2>1. input' = input
    OBVIOUS
  <2>2. Dpc' = Dpc
    BY <2>1 DEF Dpc
  <2>3. InputOK'
    BY <1>2, <2>1, <2>2 DEF InputOK
  <2>4. AllLetters' = AllLetters
    BY <2>1, <2>2 DEF AllLetters, MapDigits, FoldLeft, MapThenFoldSet
  <2>5. TextAlphabet' = TextAlphabet
    BY <2>4 DEF TextAlphabet
  <2>6. Consumed(e) => Consumed(e)'
    BY <2>1, <2>2 DEF Consumed
  <2> QED
    BY <2>1, <2>2, <2>3, <2>4, <2>5, <2>6
<1>11. Consumed(position)'
  BY <1>5, <1>10 DEF Consumed
<1> QED
  BY <1>1, <1>5, <1>6, <1>7, <1>8, <1>9, <1>10, <1>11 DEF SerialText, U

\* The lookahead is a whole number of characters, and no word is longer than it by more than one.
LEMMA LookaheadIs ==
  ASSUME InputOK
  PROVE  \E h \in Nat : LookaheadDigits = h * Dpc /\ \A w \in input.dict : Len(w) <= h + 1
<1>1. IsFiniteSet(input.dict) /\ input.dict \in SUBSET Seq(0..25) /\ Dpc \in Nat \ {0}
  BY DEF InputOK
<1>2. \A w \in input.dict : Len(w) \in Nat /\ Len(w) # 0
  BY EndsAre DEF InputOK
<1>3. CASE input.dict = {}
  <2>1. MaxWordLength = 0
    BY <1>3 DEF MaxWordLength
  <2>2. LookaheadDigits = 0 * Dpc
    BY <2>1 DEF LookaheadDigits
  <2> QED
    BY <1>3, <2>2
<1>4. CASE input.dict # {}
  <2> DEFINE S == {Len(w) : w \in input.dict}
             v == CHOOSE w \in input.dict : \A u \in input.dict : Len(u) <= Len(w)
  <2>1. IsFiniteSet(S) /\ S # {} /\ S \in SUBSET Nat
    <3> DEFINE f == [w \in input.dict |-> Len(w)]
    <3>1. f \in Surjection(input.dict, S)
      BY DEF Surjection
    <3>2. IsFiniteSet(S)
      <4> HIDE DEF f, S
      <4> QED
        BY <1>1, <3>1, FS_Surjection
    <3>3. S # {} /\ S \in SUBSET Nat
      BY <1>2, <1>4
    <3> QED
      BY <3>2, <3>3
  <2>2. \E w \in input.dict : \A u \in input.dict : Len(u) <= Len(w)
    <3> HIDE DEF S
    <3>1. PICK x \in S : \A y \in S : y <= x
      BY <2>1, Greatest
    <3> QED
      BY <3>1 DEF S
  <2>3. v \in input.dict /\ \A u \in input.dict : Len(u) <= Len(v)
    BY <2>2
  <2>4. MaxWordLength = Len(v)
    BY <1>4 DEF MaxWordLength
  <2> HIDE DEF v
  <2> DEFINE h == Len(v) - 1
  <2>5. h \in Nat /\ Len(v) > 0 /\ h + 1 = Len(v)
    BY <1>2, <2>3
  <2>6. LookaheadDigits = h * Dpc
    BY <2>4, <2>5 DEF LookaheadDigits
  <2>7. \A w \in input.dict : Len(w) <= h + 1
    BY <2>3, <2>5
  <2> HIDE DEF h
  <2> QED
    BY <2>5, <2>6, <2>7
<1> QED
  BY <1>3, <1>4

\* What a package of chunk n is.
Packaged(pkg, n) ==
  /\ pkg.offset = CharsOf(n) /\ pkg.offset \in Nat
  /\ pkg.chars \in Seq(TextAlphabet) /\ pkg.offset + Len(pkg.chars) <= Len(AllLetters)
  /\ \A j \in 1..Len(pkg.chars) : pkg.chars[j] = AllLetters[pkg.offset + j]
  /\ pkg.numReal \in 0..Len(pkg.chars) /\ CharsOf(n + 1) = pkg.offset + pkg.numReal
  /\ \A m \in Occurrences : m.start < pkg.offset + pkg.numReal => EndOf(m) <= pkg.offset + Len(pkg.chars)

\* The package of a chunk holds the characters of the chunk and all of the words that start in it.
LEMMA PackageIs ==
  ASSUME InputOK, nextSeq \in Nat, NextPackage # <<>>
  PROVE  Packaged(MapPackage(NextPackage[1]), nextSeq)
<1> DEFINE q == Dpc
           D == input.digits
           L == Len(D)
           K == ChunkSize
           X == input.maxDigits
           n == nextSeq
           o == n * K
           E == EffectiveChunk(o)
           A == LookaheadDigits
           e == Lesser(o + (E + A), L)
           part == SubSeq(D, o + 1, e)
<1>1. q \in Nat \ {0} /\ L \in Nat /\ D \in Seq(0..9) /\ X \in Nat /\ n \in Nat
  BY DEF InputOK
<1>2. PICK c \in Nat \ {0} : K = c * q /\ K \in Nat \ {0} /\ K >= q
  BY ChunkSizeIs
<1>3. PICK h \in Nat : A = h * q /\ \A w \in input.dict : Len(w) <= h + 1
  BY LookaheadIs
<1>4. NextPackage = IF (X > 0 /\ o >= X) \/ part = <<>> THEN <<>>
                    ELSE <<[offset |-> o, numReal |-> Lesser(E, Len(part)), digits |-> part]>>
  BY DEF NextPackage
<1>5. ~(X > 0 /\ o >= X) /\ part # <<>>
      /\ NextPackage[1] = [offset |-> o, numReal |-> Lesser(E, Len(part)), digits |-> part]
  <2> HIDE DEF X, o, part, E
  <2> QED
    BY <1>4
<1> DEFINE a == n * c
<1>6. a \in Nat /\ o = a * q /\ o \in Nat /\ A \in Nat /\ o \div q = a
  <2>1. a \in Nat /\ n * (c * q) = (n * c) * q
    BY <1>1, <1>2
  <2> HIDE DEF a, A, K, q
  <2>2. o = a * q
    BY <1>2, <2>1 DEF a
  <2>3. a * q \in Nat /\ h * q \in Nat
    BY <1>1, <1>3, <2>1
  <2>4. (a * q) \div q = a
    BY <1>1, <2>1, QuotientOfSum
  <2> HIDE DEF o
  <2> QED
    BY <1>3, <2>1, <2>2, <2>3, <2>4
<1>7. E = IF X > 0 /\ o + K > X THEN X - o ELSE K
  BY DEF EffectiveChunk
<1> HIDE DEF q, K, X, n, o, E, A, a
<1>8. E \in 1..K /\ E \in Nat /\ (E = K \/ (X > 0 /\ E = X - o)) /\ (X > 0 => o + E <= X)
  <2>1. X \in Nat /\ K \in Nat \ {0} /\ o \in Nat /\ ~(X > 0 /\ o >= X)
    BY <1>1, <1>2, <1>5, <1>6
  <2>2. CASE X > 0 /\ o + K > X
    BY <1>7, <2>1, <2>2
  <2>3. CASE ~(X > 0 /\ o + K > X)
    BY <1>7, <2>1, <2>3
  <2> QED
    BY <2>2, <2>3
<1>9. o < L /\ e \in (o + 1)..L /\ (e = L \/ e = o + (E + A)) /\ e <= o + (E + A) /\ e \in Nat
  <2>1. e \in Int /\ e <= L /\ (e = L \/ e = o + (E + A)) /\ e <= o + (E + A)
    <3> HIDE DEF L
    <3> QED
      BY <1>1, <1>6, <1>8 DEF Lesser
  <2>2. ASSUME e < o + 1 PROVE FALSE
    <3>1. o + 1 \in Int /\ part = <<>>
      <4> DEFINE b == o + 1
      <4>1. b \in Int /\ e < b
        BY <1>6, <2>2
      <4> HIDE DEF b, e, D
      <4>2. SubSeq(D, b, e) = <<>>
        BY <2>1, <4>1, SubSeqEmpty
      <4> QED
        BY <4>1, <4>2 DEF b
    <3> QED
      BY <1>5, <3>1
  <2> HIDE DEF e
  <2> QED
    BY <1>1, <1>6, <2>1, <2>2
<1> HIDE DEF e, L
<1>10. MappedPart(part, a, e)
  <2>1. a * Dpc <= e /\ e \in 0..Len(input.digits)
    BY <1>1, <1>6, <1>9 DEF q, L
  <2>2. part = SubSeq(input.digits, a * Dpc + 1, e)
    BY <1>6 DEF q
  <2> HIDE DEF part
  <2> QED
    BY <1>6, <2>1, <2>2, PartMapped
<1>11. Len(part) = e - o /\ Len(part) \in Nat
  <2>1. Len(part) = e - a * Dpc
    BY <1>10 DEF MappedPart
  <2> HIDE DEF part
  <2> QED
    BY <1>6, <1>9, <2>1 DEF q
<1> HIDE DEF part
<1> DEFINE r == Lesser(E, Len(part))
           f == o + r
           M == MapDigits(part)
           pkg == MapPackage(NextPackage[1])
<1>12. r \in Nat /\ r <= Len(part) /\ f \in Nat /\ (e # L => r = E)
  BY <1>1, <1>6, <1>8, <1>9, <1>11 DEF Lesser
<1>13. f = Lesser(o + E, L)
  BY <1>1, <1>6, <1>8, <1>9, <1>11 DEF Lesser
<1>14. CharsOf(n) = a
  <2>1. Lesser(o, L) = o /\ (X > 0 => Lesser(o, X) = o)
    BY <1>1, <1>5, <1>6, <1>9 DEF Lesser
  <2>2. CharsOf(n) = (IF X > 0 THEN Lesser(Lesser(o, L), X) ELSE Lesser(o, L)) \div q
    BY DEF CharsOf, X, o, L, q, K
  <2> QED
    BY <1>6, <2>1, <2>2
<1>15. CharsOf(n + 1) = f \div q
  <2>1. (n + 1) * K = o + K
    BY <1>1, <1>2 DEF o
  <2>2. CharsOf(n + 1) = (IF X > 0 THEN Lesser(Lesser((n + 1) * K, L), X) ELSE Lesser((n + 1) * K, L)) \div q
    BY DEF CharsOf, X, L, q, K
  <2>3. (IF X > 0 THEN Lesser(Lesser(o + K, L), X) ELSE Lesser(o + K, L)) = f
    <3> HIDE DEF f
    <3> QED
      BY <1>1, <1>2, <1>6, <1>7, <1>8, <1>9, <1>13 DEF Lesser
  <2> QED
    BY <2>1, <2>2, <2>3
<1>16. f \div q = a + (r \div q) /\ r \div q \in Nat
  <2> HIDE DEF r
  <2>1. (a * q + r) \div q = a + (r \div q) /\ r \div q \in Nat
    <3>1. a \in Nat /\ r \in Nat /\ q \in Nat \ {0}
      BY <1>1, <1>6, <1>12
    <3>2. /\ (a * q + r) \div q = a + (r \div q) /\ (a * q + r) % q = r % q
          /\ (a * q) \div q = a /\ (a * q) % q = 0 /\ a * q \in Nat
          /\ r \div q \in Nat /\ (r \div q) * q \in 0..r
      BY <3>1, QuotientOfSum
    <3> QED
      BY <3>2
  <2>2. f = a * q + r
    BY <1>6
  <2> QED
    BY <2>1, <2>2
<1>17. pkg.offset = a /\ pkg.numReal = r \div q /\ pkg.chars = M
  <2>1. pkg = [offset |-> o \div q, numReal |-> r \div q, chars |-> M]
    BY <1>5 DEF MapPackage, q
  <2> HIDE DEF pkg, r, M
  <2> QED
    BY <1>6, <2>1
<1> HIDE DEF pkg, f
<1>18. /\ M \in Seq(TextAlphabet) /\ Len(M) = Len(part) \div q /\ a + Len(M) = e \div q
       /\ a + Len(M) <= Len(AllLetters) /\ \A j \in 1..Len(M) : M[j] = AllLetters[a + j]
  BY <1>10 DEF MappedPart, q
<1>19. r \div q \in 0..Len(M)
  <2> HIDE DEF r, M
  <2>1. r \div q <= Len(part) \div q
    BY <1>1, <1>11, <1>12, QuotientGrows
  <2>2. Len(M) \in Nat
    BY <1>18
  <2> QED
    BY <1>16, <1>18, <2>1, <2>2
<1> HIDE DEF r, M
<1>20. ASSUME NEW m \in Occurrences, m.start < a + (r \div q) PROVE EndOf(m) <= a + Len(M)
  <2>1. /\ m.start \in Nat /\ m.word \in input.dict /\ EndOf(m) <= Len(AllLetters)
        /\ Len(m.word) \in Nat /\ EndOf(m) = m.start + Len(m.word)
    <3>1. m \in [start : 0..Len(AllLetters), word : input.dict] /\ EndOf(m) <= Len(AllLetters)
      BY DEF Occurrences
    <3>2. m.start \in Nat /\ m.word \in input.dict
      BY <3>1
    <3>3. Len(m.word) \in Nat
      BY <3>2 DEF InputOK
    <3> QED
      BY <3>1, <3>2, <3>3 DEF EndOf
  <2>2. CASE e = L
    <3>1. Len(AllLetters) = L \div q
      BY TextIs DEF L, q
    <3> QED
      BY <1>18, <2>1, <2>2, <3>1
  <2>3. CASE e # L
    <3>1. e = o + (E + A) /\ r = E
      BY <1>9, <1>12, <2>3
    <3>2. e = (a + h) * q + r /\ a + h \in Nat
      <4>1. (a + h) * q = a * q + h * q /\ a * q \in Nat /\ h * q \in Nat
        BY <1>1, <1>3, <1>6
      <4> QED
        BY <1>3, <1>6, <1>8, <3>1, <4>1
    <3>3. ((a + h) * q + r) \div q = (a + h) + (r \div q)
      <4> DEFINE b == a + h
      <4>1. b \in Nat /\ r \in Nat /\ q \in Nat \ {0}
        BY <1>1, <1>12, <3>2
      <4> HIDE DEF b
      <4>2. /\ (b * q + r) \div q = b + (r \div q) /\ (b * q + r) % q = r % q
            /\ (b * q) \div q = b /\ (b * q) % q = 0 /\ b * q \in Nat
            /\ r \div q \in Nat /\ (r \div q) * q \in 0..r
        BY <4>1, QuotientOfSum
      <4> QED
        BY <4>2 DEF b
    <3>4. a + Len(M) = (a + h) + (r \div q)
      BY <1>18, <3>2, <3>3
    <3>5. Len(m.word) <= h + 1
      BY <1>3, <2>1
    <3> QED
      BY <1>3, <1>6, <1>16, <1>20, <2>1, <3>4, <3>5
  <2> QED
    BY <2>2, <2>3
<1>21. Packaged(pkg, n)
  BY <1>6, <1>14, <1>15, <1>16, <1>17, <1>18, <1>19, <1>20 DEF Packaged
<1> QED
  BY <1>21 DEF pkg, n

\* A part of the matches of the text.
Between(a, b) == {m \in Occurrences : a <= m.start /\ m.start < b}

\* WordFinderWorker finds the words that start in the chunk, each once.
LEMMA RealMatchesAre ==
  ASSUME InputOK, NEW n \in Nat, NEW pkg, Packaged(pkg, n)
  PROVE  /\ RealMatches(pkg) \in Seq([start : Nat, word : input.dict])
         /\ ToSet(RealMatches(pkg)) = Between(CharsOf(n), CharsOf(n + 1))
         /\ IsInjective(RealMatches(pkg))
<1> DEFINE d == input.dict
           U == pkg.chars
           o == pkg.offset
           r == pkg.numReal
           C == TextAlphabet
           none == [state |-> <<>>, raw |-> <<>>]
           end == ScanChunk(d, U, o, none)
           P == {k \in DOMAIN end.raw : ~(end.raw[k].start >= o + r)}
           S == [start : Nat, word : d]
<1>1. /\ o = CharsOf(n) /\ o \in Nat /\ U \in Seq(C) /\ o + Len(U) <= Len(AllLetters)
      /\ \A j \in 1..Len(U) : U[j] = AllLetters[o + j]
      /\ r \in 0..Len(U) /\ CharsOf(n + 1) = o + r
      /\ \A m \in Occurrences : m.start < o + r => EndOf(m) <= o + Len(U)
  BY DEF Packaged
<1>2. /\ d \in SUBSET Seq(C) /\ AllLetters \in Seq(C) /\ Len(AllLetters) \in Nat
      /\ \A w \in d : Len(w) # 0
  BY TextIs DEF InputOK
<1> HIDE DEF U, o, r, d, C
<1>3. Len(U) \in Nat
  BY <1>1
<1>4. ScannedTo(C, d, U, o, Len(U), end)
  <2>1. ScannedTo(C, d, U, o, 0, none)
    BY <1>1, <1>2, ScanBegins
  <2>2. 0 \in 0..Len(U) /\ 0 + Len(U) = Len(U) /\ o + 0 = o
    BY <1>1, <1>3
  <2>3. \A j \in 1..Len(U) : U[j] = U[0 + j]
    BY <1>3
  <2> HIDE DEF none
  <2>4. ScannedTo(C, d, U, o, 0 + Len(U), ScanChunk(d, U, o + 0, none))
    <3>1. 0 + Len(U) <= Len(U)
      BY <1>3
    <3> QED
      BY <1>1, <1>2, <2>1, <2>2, <2>3, <3>1, ScanFinds
  <2> QED
    BY <2>2, <2>4
<1> HIDE DEF end
<1>5. /\ end.raw \in Seq(Raws(d)) /\ ToSet(end.raw) = FoundIn(d, U, o, Len(U)) /\ IsInjective(end.raw)
      /\ DOMAIN end.raw = 1..Len(end.raw)
  <2>1. end.raw \in Seq(Raws(d)) /\ ToSet(end.raw) = FoundIn(d, U, o, Len(U)) /\ IsInjective(end.raw)
    BY <1>4 DEF ScannedTo, Scans
  <2> QED
    BY <2>1
<1>6. end.raw \in Seq(S)
  <2>1. \A k \in 1..Len(end.raw) : end.raw[k] \in ToSet(end.raw)
    BY <1>5 DEF ToSet
  <2>2. \A k \in 1..Len(end.raw) : end.raw[k] \in S
    BY <1>5, <2>1 DEF FoundIn
  <2>3. end.raw \in [1..Len(end.raw) -> S]
    <3>1. end.raw = [k \in 1..Len(end.raw) |-> end.raw[k]]
      BY <1>5
    <3> HIDE DEF S
    <3> QED
      BY <2>2, <3>1
  <2>4. Len(end.raw) \in Nat
    BY <1>5
  <2> HIDE DEF S
  <2> QED
    BY <2>3, <2>4, SeqDef
<1>7. RealMatches(pkg) = Selected(end.raw, P)
  BY DEF RealMatches, end, d, U, o, r
<1>8. P \in SUBSET (1..Len(end.raw))
  BY <1>5
<1> DEFINE all == end.raw
<1> HIDE DEF S
<1>9. /\ Selected(all, P) \in Seq(S) /\ IsInjective(Selected(all, P))
      /\ ToSet(Selected(all, P)) = {all[k] : k \in P}
  <2> HIDE DEF P
  <2> QED
    BY <1>5, <1>6, <1>8, SelectedSet
<1>10. {all[k] : k \in P} = {m \in FoundIn(d, U, o, Len(U)) : ~(m.start >= o + r)}
  <2>1. ToSet(all) = {all[k] : k \in DOMAIN all}
    BY DEF ToSet
  <2> HIDE DEF all
  <2>2. P = {k \in DOMAIN all : ~(all[k].start >= o + r)}
    BY DEF all
  <2> HIDE DEF P
  <2>3. ToSet(all) = FoundIn(d, U, o, Len(U))
    BY <1>5 DEF all
  <2> QED
    BY <2>1, <2>2, <2>3
<1>11. ASSUME NEW m, m.start \in Nat, m.word \in d, o <= m.start, EndOf(m) <= o + Len(U)
       PROVE  /\ EndOf(m) \in Nat /\ EndOf(m) <= Len(AllLetters) /\ m.start <= Len(AllLetters)
              /\ SubSeq(U, m.start - o + 1, EndOf(m) - o) = SubSeq(AllLetters, m.start + 1, EndOf(m))
  <2> DEFINE b == m.start + 1
             e == EndOf(m)
  <2>1. Len(m.word) \in Nat /\ e = m.start + Len(m.word)
    BY <1>2, <1>11 DEF EndOf
  <2> HIDE DEF e
  <2>2. e \in Nat /\ e <= Len(AllLetters) /\ m.start <= Len(AllLetters)
    BY <1>1, <1>2, <1>3, <1>11, <2>1 DEF e
  <2> DEFINE x == m.start - o + 1
             y == e - o
             u == SubSeq(U, x, y)
             v == SubSeq(AllLetters, b, e)
  <2>3. /\ x \in Nat \ {0} /\ y \in 0..Len(U) /\ b \in Nat \ {0} /\ y - x + 1 = Len(m.word) /\ e - b + 1 = Len(m.word)
        /\ o + x = b /\ o + y = e
    <3> DEFINE s == m.start
               l == Len(m.word)
               N == Len(U)
    <3>1. /\ s \in Nat /\ l \in Nat /\ o \in Nat /\ N \in Nat /\ o <= s /\ e = s + l /\ e <= o + N
          /\ b = s + 1 /\ x = s - o + 1 /\ y = e - o
      BY <1>1, <1>3, <1>11, <2>1, <2>2 DEF e
    <3> HIDE DEF s, l, N, x, y, b
    <3>2. x \in Nat \ {0} /\ y \in 0..N /\ b \in Nat \ {0}
      BY <3>1
    <3>3. y - x + 1 = l /\ e - b + 1 = l /\ o + x = b /\ o + y = e
      BY <3>1
    <3> QED
      BY <3>2, <3>3 DEF N, l
  <2>4. \A j \in x..y : j \in 1..Len(U)
    BY <1>3, <2>3
  <2>5. \A j \in b..e : j \in 1..Len(AllLetters)
    BY <1>2, <2>2, <2>3
  <2> HIDE DEF x, y, b
  <2>6. u \in Seq(C) /\ Len(u) = Len(m.word) /\ \A j \in 1..Len(m.word) : u[j] = U[x + j - 1]
    <3>1. \A j \in x..y : U[j] \in C
      BY <1>1, <2>4, ElementOfSeq
    <3>2. x \in Int /\ y \in Int
      BY <2>3
    <3>3. /\ u \in Seq(C) /\ Len(u) = IF x <= y THEN y - x + 1 ELSE 0
          /\ \A j \in 1..(y - x + 1) : u[j] = U[x + j - 1]
      BY <3>1, <3>2, SubSeqProperties
    <3> QED
      BY <2>1, <2>3, <3>3
  <2>7. v \in Seq(C) /\ Len(v) = Len(m.word) /\ \A j \in 1..Len(m.word) : v[j] = AllLetters[b + j - 1]
    <3>1. \A j \in b..e : AllLetters[j] \in C
      BY <1>2, <2>5, ElementOfSeq
    <3>2. b \in Int /\ e \in Int
      BY <2>2, <2>3
    <3>3. /\ v \in Seq(C) /\ Len(v) = IF b <= e THEN e - b + 1 ELSE 0
          /\ \A j \in 1..(e - b + 1) : v[j] = AllLetters[b + j - 1]
      BY <3>1, <3>2, SubSeqProperties
    <3> QED
      BY <2>1, <2>3, <3>3
  <2>8. ASSUME NEW j \in 1..Len(m.word) PROVE u[j] = v[j]
    <3> DEFINE i2 == x + j - 1
    <3>1. i2 \in 1..Len(U) /\ o + i2 = b + j - 1
      <4> DEFINE l == Len(m.word)
      <4>1. /\ x \in Nat \ {0} /\ y \in Int /\ y - x + 1 = l /\ l \in Nat /\ j \in 1..l
            /\ o + x = b /\ o \in Nat
        <5>1. y \in Int
          BY <1>3, <2>3
        <5>2. x \in Nat \ {0} /\ y - x + 1 = l /\ o + x = b
          BY <2>3
        <5>3. l \in Nat /\ j \in 1..l
          BY <2>1
        <5>4. o \in Nat
          BY <1>1
        <5> HIDE DEF l
        <5> QED
          BY <5>1, <5>2, <5>3, <5>4
      <4> HIDE DEF l
      <4>2. i2 \in x..y /\ o + i2 = b + j - 1
        BY <4>1
      <4> QED
        BY <2>4, <4>2
    <3> HIDE DEF i2
    <3>2. U[i2] = AllLetters[o + i2]
      BY <1>1, <3>1
    <3> QED
      BY <2>6, <2>7, <3>1, <3>2 DEF i2
  <2> HIDE DEF u, v
  <2>9. u = v
    BY <2>6, <2>7, <2>8, SameSeq
  <2> QED
    BY <2>2, <2>9 DEF u, v, x, y, b, e
<1>12. {m \in FoundIn(d, U, o, Len(U)) : ~(m.start >= o + r)} = Between(o, o + r)
  <2>1. ASSUME NEW m \in FoundIn(d, U, o, Len(U)), ~(m.start >= o + r) PROVE m \in Between(o, o + r)
    <3>1. /\ m \in [start : Nat, word : d] /\ o <= m.start /\ EndOf(m) <= o + Len(U)
          /\ SubSeq(U, m.start - o + 1, EndOf(m) - o) = m.word
      BY DEF FoundIn
    <3>2. m.start \in Nat /\ m.word \in d /\ m = [start |-> m.start, word |-> m.word]
      BY <3>1
    <3>3. /\ EndOf(m) <= Len(AllLetters) /\ m.start <= Len(AllLetters)
          /\ SubSeq(AllLetters, m.start + 1, EndOf(m)) = m.word
      BY <1>11, <3>1, <3>2
    <3>4. m.start \in 0..Len(AllLetters)
      BY <1>2, <3>2, <3>3
    <3>5. m \in [start : 0..Len(AllLetters), word : d]
      BY <3>2, <3>4
    <3>6. m \in Occurrences
      BY <3>3, <3>5 DEF Occurrences, d
    <3>7. m.start < o + r
      BY <1>1, <1>3, <2>1, <3>2
    <3> QED
      BY <3>1, <3>6, <3>7 DEF Between
  <2>2. ASSUME NEW m \in Between(o, o + r) PROVE m \in FoundIn(d, U, o, Len(U)) /\ ~(m.start >= o + r)
    <3>1. /\ m \in Occurrences /\ o <= m.start /\ m.start < o + r
          /\ m \in [start : 0..Len(AllLetters), word : d]
          /\ SubSeq(AllLetters, m.start + 1, EndOf(m)) = m.word
      BY DEF Between, Occurrences, d
    <3>2. m.start \in Nat /\ m.word \in d /\ m = [start |-> m.start, word |-> m.word]
      BY <1>2, <3>1
    <3>3. EndOf(m) <= o + Len(U)
      BY <1>1, <3>1
    <3>4. SubSeq(U, m.start - o + 1, EndOf(m) - o) = m.word
      BY <1>11, <3>1, <3>2, <3>3
    <3>5. m \in [start : Nat, word : d]
      BY <3>2
    <3>6. ~(m.start >= o + r)
      BY <1>1, <1>3, <3>1, <3>2
    <3> QED
      BY <3>1, <3>3, <3>4, <3>5, <3>6 DEF FoundIn
  <2> QED
    BY <2>1, <2>2
<1>13. ToSet(Selected(all, P)) = Between(CharsOf(n), CharsOf(n + 1))
  <2> HIDE DEF P, all
  <2> QED
    BY <1>1, <1>9, <1>10, <1>12
<1> HIDE DEF P
<1> QED
  BY <1>7, <1>9, <1>13 DEF S, d

\* What the chunks of the parallel mode have given so far.
ChunkedText ==
  /\ InputOK /\ chunkedPc \in {"run", "done"}
  /\ Len(found) \in Nat /\ nextSeq = Len(found) + (IF chunkedPc = "done" THEN 1 ELSE 0)
  /\ found \in Seq(Seq([start : Nat, word : input.dict]))
  /\ EveryWordOnce
  /\ lettersOut = SubSeq(AllLetters, 1, CharsOf(Len(found)))
  /\ CharsOf(Len(found)) \in 0..Len(AllLetters)
  /\ chunkedPc = "done" => serialPc = "done"
  /\ (chunkedPc = "done" /\ input.maxDigits = 0) => CharsOf(Len(found)) = Len(AllLetters)

ScanInv == SerialText /\ ChunkedText

\* No chunk, no characters.
LEMMA CharsOfZero ==
  ASSUME InputOK
  PROVE  CharsOf(0) = 0
<1>1. Dpc \in Nat \ {0} /\ Len(input.digits) \in Nat /\ input.maxDigits \in Nat
  BY DEF InputOK
<1>2. 0 * ChunkSize = 0
  <2>1. ChunkSize \in Nat
    BY ChunkSizeIs
  <2> HIDE DEF ChunkSize
  <2> QED
    BY <2>1
<1>3. Lesser(0, Len(input.digits)) = 0 /\ (input.maxDigits > 0 => Lesser(0, input.maxDigits) = 0)
  BY <1>1 DEF Lesser
<1>4. 0 \div Dpc = 0
  <2> DEFINE q == Dpc
  <2>1. q \in Nat \ {0}
    BY <1>1
  <2> HIDE DEF q
  <2>2. 0 * q + 0 = 0 /\ 0 \in Nat /\ 0 \in 0..(q - 1)
    BY <2>1
  <2>3. (0 * q + 0) \div q = 0
    BY <2>1, <2>2, Quotient
  <2> QED
    BY <2>2, <2>3 DEF q
<1> QED
  BY <1>2, <1>3, <1>4 DEF CharsOf

\* Before the first chunk.
LEMMA ChunkedTextBegins ==
  ASSUME InputInit, ChunkedInit
  PROVE  ChunkedText
<1>1. InputOK
  BY InputIsOK
<1>2. nextSeq = 0 /\ found = <<>> /\ lettersOut = <<>> /\ chunkedPc = "run"
  BY DEF ChunkedInit
<1>3. CharsOf(0) = 0
  BY <1>1, CharsOfZero
<1>4. AllLetters \in Seq(TextAlphabet) /\ Len(AllLetters) \in Nat
  BY <1>1, TextIs
<1> DEFINE e == << >>
<1>5. Len(e) = 0 /\ e \in Seq(Seq([start : Nat, word : input.dict])) /\ DOMAIN e = {}
  OBVIOUS
<1>6. FlattenSeq(e) = e
  BY <1>5 DEF FlattenSeq
<1> HIDE DEF e
<1>7. ToSet(e) = {} /\ IsInjective(e)
  BY <1>5 DEF ToSet, IsInjective
<1>8. {m \in Occurrences : m.start < 0} = {}
  <2> SUFFICES ASSUME NEW m \in Occurrences, m.start < 0 PROVE FALSE
    OBVIOUS
  <2>1. m \in [start : 0..Len(AllLetters), word : input.dict]
    BY DEF Occurrences
  <2>2. m.start \in 0..Len(AllLetters)
    BY <2>1
  <2> QED
    BY <1>4, <2>2
<1>9. found = e
  BY <1>2 DEF e
<1>10. EveryWordOnce
  BY <1>3, <1>5, <1>6, <1>7, <1>8, <1>9 DEF EveryWordOnce, Processed
<1>11. SubSeq(AllLetters, 1, 0) = <<>>
  BY SubSeqEmpty
<1>12. Len(found) = 0 /\ found \in Seq(Seq([start : Nat, word : input.dict])) /\ Len(found) \in Nat
  BY <1>5, <1>9
<1>13. nextSeq = Len(found) + (IF chunkedPc = "done" THEN 1 ELSE 0)
  BY <1>2, <1>12
<1>14. 0 \in 0..Len(AllLetters)
  BY <1>4
<1> QED
  BY <1>1, <1>2, <1>3, <1>10, <1>11, <1>12, <1>13, <1>14 DEF ChunkedText

\* A chunk more is processed.
LEMMA ProcessChunkKeeps ==
  ASSUME ChunkedText, ProcessChunk, UNCHANGED <<input, serialVars>>
  PROVE  ChunkedText'
<1> DEFINE n == Len(found)
           pkg == MapPackage(NextPackage[1])
           here == RealMatches(pkg)
           out == LettersOfPackage(pkg)
           S == [start : Nat, word : input.dict]
<1>1. /\ chunkedPc = "run" /\ chunkedPc' = "run" /\ NextPackage # <<>>
      /\ found' = Append(found, here) /\ lettersOut' = lettersOut \o out
      /\ nextSeq' = nextSeq + 1 /\ input' = input /\ serialPc' = serialPc
  BY DEF ProcessChunk, serialVars
<1>2. /\ InputOK /\ n \in Nat /\ nextSeq = n /\ found \in Seq(Seq(S))
      /\ ToSet(FlattenSeq(found)) = {m \in Occurrences : m.start < CharsOf(n)}
      /\ IsInjective(FlattenSeq(found))
      /\ lettersOut = SubSeq(AllLetters, 1, CharsOf(n))
  BY <1>1 DEF ChunkedText, EveryWordOnce, Processed
<1>3. Packaged(pkg, n)
  <2>1. nextSeq \in Nat
    BY <1>2
  <2>2. Packaged(MapPackage(NextPackage[1]), nextSeq)
    BY <1>1, <1>2, <2>1, PackageIs
  <2> QED
    BY <1>2, <2>2
<1> HIDE DEF pkg
<1>4. here \in Seq(S) /\ ToSet(here) = Between(CharsOf(n), CharsOf(n + 1)) /\ IsInjective(here)
  BY <1>2, <1>3, RealMatchesAre
<1>5. /\ pkg.offset = CharsOf(n) /\ pkg.offset \in Nat
      /\ pkg.chars \in Seq(TextAlphabet) /\ pkg.offset + Len(pkg.chars) <= Len(AllLetters)
      /\ \A j \in 1..Len(pkg.chars) : pkg.chars[j] = AllLetters[pkg.offset + j]
      /\ pkg.numReal \in 0..Len(pkg.chars) /\ CharsOf(n + 1) = pkg.offset + pkg.numReal
      /\ AllLetters \in Seq(TextAlphabet) /\ Len(AllLetters) \in Nat
  BY <1>2, <1>3, TextIs DEF Packaged
<1> HIDE DEF n, here, S
<1> DEFINE f == Append(found, here)
<1>6. f \in Seq(Seq(S)) /\ Len(f) = n + 1 /\ FlattenSeq(f) = FlattenSeq(found) \o here
  <2>1. f \in Seq(Seq(S)) /\ Len(f) = Len(found) + 1
    BY <1>2, <1>4, Appended
  <2>2. FlattenSeq(f) = FlattenSeq(found) \o here
    BY <1>2, <1>4, FlattenAppend
  <2> QED
    BY <2>1, <2>2 DEF n
<1> HIDE DEF f
<1>7. FlattenSeq(found) \in Seq(S)
  BY <1>2, FlattenIs
<1>8. \A m \in Occurrences : m.start \in Nat
  <2> SUFFICES ASSUME NEW m \in Occurrences PROVE m.start \in Nat
    OBVIOUS
  <2>1. m \in [start : 0..Len(AllLetters), word : input.dict]
    BY DEF Occurrences
  <2>2. m.start \in 0..Len(AllLetters)
    BY <2>1
  <2> QED
    BY <1>5, <2>2
<1> DEFINE a == CharsOf(n)
           b == CharsOf(n + 1)
<1>9. a \in Nat /\ b \in Nat /\ a <= b /\ b <= Len(AllLetters) /\ Len(pkg.chars) \in Nat
  <2>1. Len(pkg.chars) \in Nat
    BY <1>5
  <2> QED
    BY <1>5, <2>1
<1> HIDE DEF a, b
<1>10. ToSet(FlattenSeq(f)) = {m \in Occurrences : m.start < b}
  <2>1. ToSet(FlattenSeq(f)) = ToSet(FlattenSeq(found)) \cup ToSet(here)
    BY <1>4, <1>6, <1>7, JoinedSets
  <2>2. \A m \in Occurrences : m.start < b <=> m.start < a \/ (a <= m.start /\ m.start < b)
    BY <1>8, <1>9
  <2> QED
    BY <1>2, <1>4, <2>1, <2>2 DEF Between, a, b
<1>11. IsInjective(FlattenSeq(f))
  <2>1. ToSet(FlattenSeq(found)) \cap ToSet(here) = {}
    <3> SUFFICES ASSUME NEW m \in Occurrences, m.start < a, a <= m.start PROVE FALSE
      BY <1>2, <1>4 DEF Between, a
    <3> QED
      BY <1>8, <1>9
  <2> QED
    BY <1>2, <1>4, <1>6, <1>7, <2>1, JoinedSets
<1>12. lettersOut \o out = SubSeq(AllLetters, 1, b)
  <2> DEFINE r == pkg.numReal
             c == pkg.chars
  <2>1. r \in 0..Len(c) /\ c \in Seq(TextAlphabet) /\ out = SubSeq(c, 1, r)
    BY <1>5 DEF LettersOfPackage
  <2>2. out \in Seq(TextAlphabet) /\ Len(out) = r /\ \A j \in 1..r : out[j] = c[j]
    <3> HIDE DEF r, c, out
    <3> QED
      BY <2>1, FirstPart
  <2>3. a \in 0..Len(AllLetters) /\ a + r = b /\ a + r <= Len(AllLetters) /\ r \in Nat
    BY <1>5, <1>9 DEF a, b
  <2>4. \A j \in 1..r : out[j] = AllLetters[a + j]
    <3>1. \A j \in 1..r : j \in 1..Len(c)
      BY <1>9, <2>1
    <3> QED
      BY <1>5, <2>2, <3>1 DEF a
  <2> HIDE DEF out, r, c
  <2>5. SubSeq(AllLetters, 1, a) \o out = SubSeq(AllLetters, 1, a + r)
    <3>1. a + Len(out) <= Len(AllLetters) /\ \A j \in 1..Len(out) : out[j] = AllLetters[a + j]
      BY <2>2, <2>3, <2>4
    <3>2. SubSeq(AllLetters, 1, a) \o out = SubSeq(AllLetters, 1, a + Len(out))
      <4>1. AllLetters \in Seq(TextAlphabet) /\ out \in Seq(TextAlphabet) /\ a \in 0..Len(AllLetters)
        BY <1>5, <2>2, <2>3
      <4> QED
        BY <3>1, <4>1, FirstPartContinued
    <3> QED
      BY <2>2, <3>2
  <2> QED
    BY <1>2, <2>3, <2>5 DEF a
<1>13. found' = f /\ Len(found') = n + 1
  BY <1>1, <1>6 DEF f
<1>14. /\ InputOK' /\ AllLetters' = AllLetters /\ Occurrences' = Occurrences
       /\ \A k : CharsOf(k)' = CharsOf(k)
  <2>1. Dpc' = Dpc
    BY <1>1 DEF Dpc
  <2>2. AllLetters' = AllLetters
    BY <1>1, <2>1 DEF AllLetters, MapDigits, FoldLeft, MapThenFoldSet
  <2>3. ChunkSize' = ChunkSize
    BY <1>1, <2>1 DEF ChunkSize
  <2>4. Occurrences' = Occurrences
    BY <1>1, <2>2 DEF Occurrences
  <2>5. InputOK'
    BY <1>1, <1>2, <2>1 DEF InputOK
  <2>6. \A k : CharsOf(k)' = CharsOf(k)
    BY <1>1, <2>1, <2>3 DEF CharsOf
  <2> QED
    BY <2>2, <2>4, <2>5, <2>6
<1>15. CharsOf(Len(found))' = b
  <2>1. CharsOf(Len(found))' = CharsOf(n + 1)
    BY <1>1, <1>13, <1>14 DEF CharsOf, ChunkSize, Dpc
  <2> QED
    BY <2>1 DEF b
<1>16. EveryWordOnce'
  BY <1>10, <1>11, <1>13, <1>14, <1>15 DEF EveryWordOnce, Processed
<1>17. /\ found' \in Seq(Seq([start : Nat, word : input'.dict]))
       /\ nextSeq' = Len(found') + (IF chunkedPc' = "done" THEN 1 ELSE 0)
       /\ Len(found') \in Nat
  BY <1>1, <1>2, <1>6, <1>13 DEF S
<1> QED
  BY <1>1, <1>9, <1>12, <1>14, <1>15, <1>16, <1>17 DEF ChunkedText

\* With the same input the text is the same.
LEMMA SameText ==
  ASSUME UNCHANGED input
  PROVE  /\ InputOK' = InputOK /\ Dpc' = Dpc /\ AllLetters' = AllLetters /\ Occurrences' = Occurrences
         /\ TextAlphabet' = TextAlphabet /\ ChunkSize' = ChunkSize
<1>1. input' = input
  OBVIOUS
<1>2. Dpc' = Dpc
  BY <1>1 DEF Dpc
<1>3. AllLetters' = AllLetters
  BY <1>1, <1>2 DEF AllLetters, MapDigits, FoldLeft, MapThenFoldSet
<1>4. ChunkSize' = ChunkSize
  BY <1>1, <1>2 DEF ChunkSize
<1>5. Occurrences' = Occurrences
  BY <1>1, <1>3 DEF Occurrences
<1>6. InputOK' = InputOK
  BY <1>1, <1>2 DEF InputOK
<1>7. TextAlphabet' = TextAlphabet
  BY <1>3 DEF TextAlphabet
<1> QED
  BY <1>2, <1>3, <1>4, <1>5, <1>6, <1>7

\* The serial run stops reading when all is read.
LEMMA EndOfDigitsKeeps ==
  ASSUME SerialText, EndOfDigits, UNCHANGED input
  PROVE  SerialText'
<1>1. /\ serialPc = "read" /\ serialPc' = "emit" /\ letters' = letters /\ scan' = scan
      /\ position' = position + Len(Chunk) /\ Usable = <<>>
  BY DEF EndOfDigits
<1>2. InputOK /\ Consumed(position) /\ letters = SubSeq(AllLetters, 1, position \div Dpc)
      /\ ScannedTo(TextAlphabet, input.dict, AllLetters, 0, position \div Dpc, scan)
  BY DEF SerialText
<1>3. PICK e : NextRead(e, MapDigits(Usable)) /\ Len(MapDigits(Usable)) = 0
  BY <1>1, <1>2, NextReadIs
<1>4. position' = e /\ e = Len(input.digits) /\ Consumed(e) /\ e \div Dpc = position \div Dpc
  <2> HIDE DEF Usable, Chunk
  <2>1. position \div Dpc \in Nat /\ (position \div Dpc) + 0 = e \div Dpc
    BY <1>3 DEF NextRead
  <2>2. e \div Dpc = position \div Dpc
    BY <2>1
  <2> QED
    BY <1>1, <1>3, <2>2 DEF NextRead
<1>5. /\ InputOK' /\ AllLetters' = AllLetters /\ Dpc' = Dpc /\ TextAlphabet' = TextAlphabet /\ input' = input
  BY <1>2, SameText
<1>6. Consumed(position)'
  BY <1>4, <1>5 DEF Consumed
<1> QED
  BY <1>1, <1>2, <1>4, <1>5, <1>6 DEF SerialText

\* What follows leaves the text and the matches as they are.
LEMMA RestOfSerialKeeps ==
  ASSUME SerialText, UNCHANGED <<input, position, scan, letters>>,
         serialPc' = serialPc \/ (serialPc # "read" /\ serialPc' \in {"emit", "done"})
  PROVE  SerialText'
<1>1. UNCHANGED input /\ position' = position /\ scan' = scan /\ letters' = letters
  OBVIOUS
<1>2. /\ InputOK' = InputOK /\ AllLetters' = AllLetters /\ Dpc' = Dpc
      /\ TextAlphabet' = TextAlphabet /\ input' = input
  BY <1>1, SameText
<1>3. InputOK' /\ Consumed(position)'
  BY <1>1, <1>2 DEF SerialText, Consumed
<1>4. /\ serialPc' \in {"read", "emit", "done"} /\ (serialPc' # "read" => position' = Len(input'.digits))
  BY <1>1, <1>2 DEF SerialText
<1>5. /\ letters' = SubSeq(AllLetters', 1, position' \div Dpc')
      /\ ScannedTo(TextAlphabet', input'.dict, AllLetters', 0, position' \div Dpc', scan')
  BY <1>1, <1>2 DEF SerialText
<1> QED
  BY <1>3, <1>4, <1>5 DEF SerialText

\* Every step of the serial run keeps SerialText.
LEMMA SerialKeepsText ==
  ASSUME SerialText, SerialStep, UNCHANGED input
  PROVE  SerialText'
<1>1. CASE ScanNext
  BY <1>1, ScanNextKeeps
<1>2. CASE EndOfDigits
  BY <1>2, EndOfDigitsKeeps
<1>3. CASE EmitSequence
  BY <1>3, RestOfSerialKeeps DEF EmitSequence
<1>4. CASE SerialEnds
  BY <1>4, RestOfSerialKeeps DEF SerialEnds
<1> QED
  BY <1>1, <1>2, <1>3, <1>4 DEF SerialStep

\* When there is no next package the chunks hold all the text, if nothing cuts it.
LEMMA AllChunksTaken ==
  ASSUME InputOK, nextSeq \in Nat, NextPackage = <<>>, input.maxDigits = 0
  PROVE  CharsOf(nextSeq) = Len(AllLetters)
<1> DEFINE L == Len(input.digits)
           o == nextSeq * ChunkSize
           E == EffectiveChunk(o)
           A == LookaheadDigits
           e == Lesser(o + (E + A), L)
           part == SubSeq(input.digits, o + 1, e)
<1>1. L \in Nat /\ Dpc \in Nat \ {0} /\ input.digits \in Seq(0..9)
  BY DEF InputOK
<1>2. ChunkSize \in Nat \ {0} /\ o \in Nat
  <2>1. ChunkSize \in Nat \ {0}
    BY ChunkSizeIs
  <2> HIDE DEF ChunkSize
  <2> QED
    BY <2>1
<1>3. A \in Nat
  <2>1. PICK h \in Nat : A = h * Dpc
    BY LookaheadIs
  <2> DEFINE q == Dpc
  <2>2. q \in Nat
    BY <1>1
  <2> HIDE DEF q, A
  <2>3. h * q \in Nat
    BY <2>2
  <2> QED
    BY <2>1, <2>3 DEF q
<1>4. E = ChunkSize
  BY DEF EffectiveChunk
<1>5. part = <<>>
  <2>1. NextPackage = IF (input.maxDigits > 0 /\ o >= input.maxDigits) \/ part = <<>> THEN <<>>
                      ELSE <<[offset |-> o, numReal |-> Lesser(E, Len(part)), digits |-> part]>>
    BY DEF NextPackage
  <2> HIDE DEF part, E, o
  <2> QED
    BY <2>1
<1> HIDE DEF L, o, E, A
<1>6. ASSUME o < L PROVE FALSE
  <2> DEFINE b == o + 1
  <2>1. b \in Nat \ {0} /\ e \in Int /\ b <= e /\ e <= L
    BY <1>1, <1>2, <1>3, <1>4, <1>6 DEF Lesser
  <2>2. \A j \in b..e : j \in 1..Len(input.digits)
    BY <1>1, <2>1 DEF L
  <2>3. \A j \in b..e : input.digits[j] \in 0..9
    BY <1>1, <2>2, ElementOfSeq
  <2> HIDE DEF e, b
  <2>4. Len(SubSeq(input.digits, b, e)) = IF b <= e THEN e - b + 1 ELSE 0
    BY <2>1, <2>3, SubSeqProperties
  <2>5. Len(part) = e - b + 1
    BY <2>1, <2>4 DEF b
  <2>6. Len(part) # 0
    <3> DEFINE l == Len(part)
    <3>1. l = e - b + 1 /\ b \in Nat \ {0} /\ e \in Int /\ b <= e
      BY <2>1, <2>5
    <3> HIDE DEF l
    <3>2. l # 0
      BY <3>1
    <3> QED
      BY <3>2 DEF l
  <2> HIDE DEF part
  <2> QED
    BY <1>5, <2>6
<1>7. Lesser(o, L) = L
  BY <1>1, <1>2, <1>6 DEF Lesser
<1>8. CharsOf(nextSeq) = L \div Dpc
  <2>1. CharsOf(nextSeq) = (IF input.maxDigits > 0 THEN Lesser(Lesser(o, L), input.maxDigits) ELSE Lesser(o, L)) \div Dpc
    BY DEF CharsOf, o, L
  <2> QED
    BY <1>7, <2>1
<1> QED
  BY <1>8, TextIs DEF L

\* The parallel run stops when no chunk is left.
LEMMA ChunksEndKeeps ==
  ASSUME ChunkedText, ChunksEnd, serialPc = "done", UNCHANGED <<input, serialVars>>
  PROVE  ChunkedText'
<1>1. /\ chunkedPc = "run" /\ chunkedPc' = "done" /\ NextPackage = <<>> /\ nextSeq' = nextSeq + 1
      /\ found' = found /\ lettersOut' = lettersOut /\ input' = input /\ serialPc' = "done"
  BY DEF ChunksEnd, serialVars
<1>2. InputOK /\ Len(found) \in Nat /\ nextSeq = Len(found)
  BY <1>1 DEF ChunkedText
<1>3. input.maxDigits = 0 => CharsOf(Len(found)) = Len(AllLetters)
  <2>1. nextSeq \in Nat
    BY <1>2
  <2>2. input.maxDigits = 0 => CharsOf(nextSeq) = Len(AllLetters)
    BY <1>1, <1>2, <2>1, AllChunksTaken
  <2> QED
    BY <1>2, <2>2
<1>4. InputOK' /\ AllLetters' = AllLetters /\ Occurrences' = Occurrences /\ Dpc' = Dpc /\ ChunkSize' = ChunkSize
  <2>1. UNCHANGED input
    BY <1>1
  <2> QED
    BY <1>2, <2>1, SameText
<1>5. CharsOf(Len(found))' = CharsOf(Len(found))
  BY <1>1, <1>4 DEF CharsOf
<1>6. EveryWordOnce'
  BY <1>1, <1>4, <1>5 DEF EveryWordOnce, Processed, ChunkedText
<1>7. /\ nextSeq' = Len(found') + (IF chunkedPc' = "done" THEN 1 ELSE 0) /\ Len(found') \in Nat
      /\ found' \in Seq(Seq([start : Nat, word : input'.dict]))
  BY <1>1, <1>2 DEF ChunkedText
<1>8. lettersOut' = SubSeq(AllLetters', 1, CharsOf(Len(found))') /\ CharsOf(Len(found))' \in 0..Len(AllLetters')
  BY <1>1, <1>4, <1>5 DEF ChunkedText
<1> QED
  BY <1>1, <1>3, <1>4, <1>5, <1>6, <1>7, <1>8 DEF ChunkedText

\* The steps of the serial run leave the chunks as they are.
LEMMA IdleChunksKeep ==
  ASSUME ChunkedText, UNCHANGED <<input, chunkedVars>>, serialPc = "done" => serialPc' = "done"
  PROVE  ChunkedText'
<1>1. /\ chunkedPc' = chunkedPc /\ nextSeq' = nextSeq
      /\ found' = found /\ lettersOut' = lettersOut /\ input' = input
  BY DEF chunkedVars
<1>2. InputOK' = InputOK /\ AllLetters' = AllLetters /\ Occurrences' = Occurrences /\ Dpc' = Dpc /\ ChunkSize' = ChunkSize
  <2>1. UNCHANGED input
    BY <1>1
  <2> QED
    BY <2>1, SameText
<1>3. CharsOf(Len(found))' = CharsOf(Len(found))
  BY <1>1, <1>2 DEF CharsOf
<1>4. EveryWordOnce'
  BY <1>1, <1>2, <1>3 DEF EveryWordOnce, Processed, ChunkedText
<1>5. /\ InputOK' /\ chunkedPc' \in {"run", "done"}
      /\ nextSeq' = Len(found') + (IF chunkedPc' = "done" THEN 1 ELSE 0) /\ Len(found') \in Nat
      /\ found' \in Seq(Seq([start : Nat, word : input'.dict]))
  BY <1>1, <1>2 DEF ChunkedText
<1>6. lettersOut' = SubSeq(AllLetters', 1, CharsOf(Len(found))') /\ CharsOf(Len(found))' \in 0..Len(AllLetters')
  BY <1>1, <1>2, <1>3 DEF ChunkedText
<1>7. /\ chunkedPc' = "done" => serialPc' = "done"
      /\ (chunkedPc' = "done" /\ input'.maxDigits = 0) => CharsOf(Len(found))' = Len(AllLetters')
  BY <1>1, <1>2, <1>3 DEF ChunkedText
<1> QED
  BY <1>4, <1>5, <1>6, <1>7 DEF ChunkedText

\* ScanInv is inductive.
LEMMA ScanInvHolds == ScanSpec => []ScanInv
<1>1. ScanInit => ScanInv
  BY SerialTextBegins, ChunkedTextBegins DEF ScanInit, ScanInv
<1>2. ScanInv /\ [ModesStep]_scanVars => ScanInv'
  <2> SUFFICES ASSUME ScanInv, [ModesStep]_scanVars PROVE ScanInv'
    OBVIOUS
  <2>0. SerialText /\ ChunkedText
    BY DEF ScanInv
  <2>1. CASE SerialStep /\ UNCHANGED <<input, chunkedVars>>
    <3>1. SerialText'
      BY <2>0, <2>1, SerialKeepsText
    <3>2. serialPc # "done"
      BY <2>1 DEF SerialStep, ScanNext, EndOfDigits, EmitSequence, SerialEnds
    <3>3. ChunkedText'
      BY <2>0, <2>1, <3>2, IdleChunksKeep
    <3> QED
      BY <3>1, <3>3 DEF ScanInv
  <2>2. CASE serialPc = "done" /\ ChunkedStep /\ UNCHANGED <<input, serialVars>>
    <3>1. SerialText'
      BY <2>0, <2>2, RestOfSerialKeeps DEF serialVars
    <3>2. ChunkedText'
      BY <2>0, <2>2, ProcessChunkKeeps, ChunksEndKeeps DEF ChunkedStep
    <3> QED
      BY <3>1, <3>2 DEF ScanInv
  <2>3. CASE UNCHANGED scanVars
    <3>1. UNCHANGED input /\ UNCHANGED serialVars /\ UNCHANGED chunkedVars
      BY <2>3 DEF scanVars
    <3>2. SerialText'
      BY <2>0, <3>1, RestOfSerialKeeps DEF serialVars
    <3>3. ChunkedText'
      BY <2>0, <3>1, IdleChunksKeep DEF serialVars
    <3> QED
      BY <3>2, <3>3 DEF ScanInv
  <2> QED
    BY <2>1, <2>2, <2>3 DEF ModesStep
<1> QED
  BY <1>1, <1>2, PTL DEF ScanSpec

\* In serial mode the chunk size shows nowhere: the automaton state carried from chunk to chunk
\* makes the matches the occurrences in what is read so far, each once.
THEOREM ChunkSizeInvisibleHolds == ScanSpec => []ChunkSizeInvisible
<1>1. ScanInv => ChunkSizeInvisible
  <2> SUFFICES ASSUME ScanInv PROVE ChunkSizeInvisible
    OBVIOUS
  <2> DEFINE e == position \div Dpc
             d == input.dict
             U == AllLetters
             C == TextAlphabet
  <2>1. InputOK /\ Consumed(position) /\ letters = SubSeq(U, 1, e) /\ ScannedTo(C, d, U, 0, e, scan)
    BY DEF ScanInv, SerialText
  <2>2. U \in Seq(C) /\ Len(U) \in Nat /\ Len(U) = Len(input.digits) \div Dpc /\ d \in SUBSET Seq(C)
    BY <2>1, TextIs
  <2>3. e \in 0..Len(U)
    <3>1. /\ Dpc \in Nat \ {0} /\ position \in Nat /\ Len(input.digits) \in Nat
          /\ position <= Len(input.digits)
      BY <2>1, TextIs DEF Consumed, InputOK
    <3>2. e <= Len(input.digits) \div Dpc /\ e \in Nat
      BY <3>1, QuotientGrows
    <3> HIDE DEF e
    <3> QED
      BY <2>2, <3>2
  <2> HIDE DEF e, U, C, d
  <2>4. Len(letters) = e
    BY <2>1, <2>2, <2>3, FirstPart
  <2>5. ToSet(scan.raw) = FoundIn(d, U, 0, e) /\ IsInjective(scan.raw)
    BY <2>1 DEF ScannedTo
  <2>6. FoundIn(d, U, 0, e) = {m \in Occurrences : EndOf(m) <= e}
    <3>0. Occurrences = {m \in [start : 0..Len(U), word : d] :
                           EndOf(m) <= Len(U) /\ SubSeq(U, m.start + 1, EndOf(m)) = m.word}
      BY DEF Occurrences, U, d
    <3>1. ASSUME NEW m, m.start \in Nat, m.word \in d
          PROVE  EndOf(m) \in Nat /\ m.start <= EndOf(m) /\ m.start - 0 + 1 = m.start + 1 /\ EndOf(m) - 0 = EndOf(m)
      <4>1. Len(m.word) \in Nat /\ EndOf(m) = m.start + Len(m.word)
        BY <2>2, <3>1 DEF EndOf
      <4> QED
        BY <3>1, <4>1
    <3>2. ASSUME NEW m \in FoundIn(d, U, 0, e) PROVE m \in Occurrences /\ EndOf(m) <= e
      <4>1. /\ m \in [start : Nat, word : d] /\ EndOf(m) <= 0 + e
            /\ SubSeq(U, m.start - 0 + 1, EndOf(m) - 0) = m.word
        BY DEF FoundIn
      <4>2. m.start \in Nat /\ m.word \in d /\ m = [start |-> m.start, word |-> m.word]
        BY <4>1
      <4>3. EndOf(m) \in Nat /\ m.start <= EndOf(m) /\ SubSeq(U, m.start + 1, EndOf(m)) = m.word
        BY <3>1, <4>1, <4>2
      <4>4. EndOf(m) <= e /\ EndOf(m) <= Len(U) /\ m.start \in 0..Len(U)
        BY <2>2, <2>3, <4>1, <4>2, <4>3
      <4>5. m \in [start : 0..Len(U), word : d]
        BY <4>2, <4>4
      <4> QED
        BY <3>0, <4>3, <4>4, <4>5
    <3>3. ASSUME NEW m \in Occurrences, EndOf(m) <= e PROVE m \in FoundIn(d, U, 0, e)
      <4>1. /\ m \in [start : 0..Len(U), word : d] /\ SubSeq(U, m.start + 1, EndOf(m)) = m.word
        BY <3>0
      <4>2. m.start \in Nat /\ m.word \in d /\ m = [start |-> m.start, word |-> m.word]
        BY <2>2, <4>1
      <4>3. m \in [start : Nat, word : d]
        BY <4>2
      <4>4. /\ 0 <= m.start /\ EndOf(m) <= 0 + e
            /\ SubSeq(U, m.start - 0 + 1, EndOf(m) - 0) = m.word
        BY <2>3, <3>1, <3>3, <4>1, <4>2
      <4> QED
        BY <4>3, <4>4 DEF FoundIn
    <3> QED
      BY <3>2, <3>3
  <2> QED
    BY <2>1, <2>4, <2>5, <2>6 DEF ChunkSizeInvisible, U
<1> QED
  BY <1>1, ScanInvHolds, PTL

\* Every occurrence that starts in the characters of a chunk is found by that chunk and by no
\* other, for every chunk size, dictionary and cap on the digits: the lookahead is enough.
THEOREM EveryWordOnceHolds == ScanSpec => []EveryWordOnce
<1>1. ScanInv => EveryWordOnce
  BY DEF ScanInv, ChunkedText
<1> QED
  BY <1>1, ScanInvHolds, PTL

\* The letters of the chunks are the text without gaps or repetitions, and so those of the
\* serial run when max_digits does not cut them.
THEOREM SameLettersHolds == ScanSpec => []SameLetters
<1>1. ScanInv => SameLetters
  <2> SUFFICES ASSUME ScanInv PROVE SameLetters
    OBVIOUS
  <2>1. lettersOut = SubSeq(AllLetters, 1, CharsOf(Processed))
    BY DEF ScanInv, ChunkedText, Processed
  <2>2. ASSUME chunkedPc = "done", input.maxDigits = 0 PROVE lettersOut = letters
    <3>1. serialPc = "done" /\ CharsOf(Processed) = Len(AllLetters) /\ InputOK
      BY <2>2 DEF ScanInv, ChunkedText, Processed
    <3>2. position = Len(input.digits) /\ letters = SubSeq(AllLetters, 1, position \div Dpc)
      BY <3>1 DEF ScanInv, SerialText
    <3>3. Len(AllLetters) = Len(input.digits) \div Dpc
      BY <3>1, TextIs
    <3> QED
      BY <2>1, <3>1, <3>2, <3>3
  <2> QED
    BY <2>1, <2>2 DEF SameLetters
<1> QED
  BY <1>1, ScanInvHolds, PTL

-----------------------------------------------------------------------------
(* Earliest-then-longest.                                                  *)

\* Matches as scan_chunk reports them, with words of one letter or more.
RawOf(hits, W) ==
  hits \in Seq([start : Nat, word : W]) /\ \A w \in W : Len(w) \in Nat /\ Len(w) # 0

\* Where the matches start, and which start where.
LEMMA StartsAre ==
  ASSUME NEW W, NEW hits, RawOf(hits, W)
  PROVE  /\ Starts(hits) \in SUBSET Nat /\ IsFiniteSet(Starts(hits))
         /\ Starts(hits) = {m.start : m \in ToSet(hits)}
         /\ \A m \in ToSet(hits) : m.start \in Nat /\ m.word \in W /\ m = [start |-> m.start, word |-> m.word]
         /\ IsFiniteSet(ToSet(hits))
<1> DEFINE n == Len(hits)
           f == [k \in 1..n |-> hits[k].start]
           g == [k \in 1..n |-> hits[k]]
<1>1. n \in Nat /\ DOMAIN hits = 1..n /\ \A k \in 1..n : hits[k] \in [start : Nat, word : W]
  <2> DEFINE M == [start : Nat, word : W]
  <2>1. hits \in Seq(M)
    BY DEF RawOf
  <2> HIDE DEF M
  <2>2. n \in Nat /\ DOMAIN hits = 1..n
    BY <2>1
  <2>3. \A k \in 1..n : hits[k] \in M
    BY <2>1, ElementOfSeq
  <2> QED
    BY <2>2, <2>3 DEF M
<1>2. \A k \in 1..n : hits[k].start \in Nat /\ hits[k].word \in W
                      /\ hits[k] = [start |-> hits[k].start, word |-> hits[k].word]
  BY <1>1
<1>3. Starts(hits) = {hits[k].start : k \in 1..n} /\ ToSet(hits) = {hits[k] : k \in 1..n}
  BY <1>1 DEF Starts, ToSet
<1>4. IsFiniteSet(1..n)
  BY <1>1, FS_Interval
<1>5. IsFiniteSet(Starts(hits))
  <2>1. f \in Surjection(1..n, Starts(hits))
    BY <1>3 DEF Surjection
  <2> QED
    BY <1>4, <2>1, FS_Surjection
<1>6. IsFiniteSet(ToSet(hits))
  <2>1. g \in Surjection(1..n, ToSet(hits))
    BY <1>3 DEF Surjection
  <2> QED
    BY <1>4, <2>1, FS_Surjection
<1>7. Starts(hits) = {m.start : m \in ToSet(hits)}
  BY <1>3
<1>8. \A m \in ToSet(hits) : m.start \in Nat /\ m.word \in W /\ m = [start |-> m.start, word |-> m.word]
  BY <1>2, <1>3
<1>9. Starts(hits) \in SUBSET Nat
  BY <1>7, <1>8
<1> QED
  BY <1>5, <1>6, <1>7, <1>8, <1>9

\* The matches that start at pos, each as often as it is reported.
LEMMA StartingAtIs ==
  ASSUME NEW W, NEW hits, RawOf(hits, W), NEW pos
  PROVE  /\ StartingAt(hits, pos) \in Seq([start : Nat, word : W])
         /\ ToSet(StartingAt(hits, pos)) = {m \in ToSet(hits) : m.start = pos}
         /\ IsInjective(hits) => IsInjective(StartingAt(hits, pos))
<1> DEFINE M == [start : Nat, word : W]
           P == {k \in DOMAIN hits : hits[k].start = pos}
           s == Selected(hits, P)
<1>1. hits \in Seq(M) /\ DOMAIN hits = 1..Len(hits) /\ P \in SUBSET (1..Len(hits))
  BY DEF RawOf
<1>2. StartingAt(hits, pos) = s
  BY DEF StartingAt
<1> HIDE DEF M
<1>3. PICK n \in Nat : \E p \in [1..n -> P] :
           /\ \A k, m \in 1..n : k < m <=> p[k] < p[m]
           /\ \A x \in P : \E k \in 1..n : p[k] = x
           /\ s = [k \in 1..n |-> hits[p[k]]]
           /\ s \in Seq(M) /\ Len(s) = n
  <2> HIDE DEF P
  <2> QED
    BY <1>1, SelectedIs
<1>4. PICK p \in [1..n -> P] :
           /\ \A x \in P : \E k \in 1..n : p[k] = x
           /\ s = [k \in 1..n |-> hits[p[k]]] /\ s \in Seq(M)
  BY <1>3
<1>5. DOMAIN s = 1..n /\ \A k \in 1..n : s[k] = hits[p[k]] /\ p[k] \in P
  BY <1>4
<1>6. ToSet(s) = {hits[p[k]] : k \in 1..n}
  <2>1. ToSet(s) = {s[k] : k \in DOMAIN s}
    BY DEF ToSet
  <2> HIDE DEF s
  <2> QED
    BY <1>5, <2>1
<1>7. ToSet(hits) = {hits[k] : k \in DOMAIN hits}
  BY DEF ToSet
<1>8. \A k \in 1..n : p[k] \in DOMAIN hits /\ hits[p[k]].start = pos
  BY <1>5
<1>9. ToSet(s) \subseteq {m \in ToSet(hits) : m.start = pos}
  BY <1>6, <1>7, <1>8
<1>10. ASSUME NEW m \in ToSet(hits), m.start = pos PROVE m \in ToSet(s)
  <2>1. PICK k \in DOMAIN hits : m = hits[k]
    BY <1>7
  <2>2. k \in P
    BY <1>10, <2>1
  <2>3. PICK j \in 1..n : p[j] = k
    BY <1>4, <2>2
  <2> QED
    BY <1>6, <2>1, <2>3
<1>11. ASSUME IsInjective(hits) PROVE IsInjective(s)
  <2> HIDE DEF P
  <2> QED
    BY <1>1, <1>11, SelectedSet
<1> HIDE DEF s
<1> QED
  BY <1>2, <1>4, <1>9, <1>10, <1>11 DEF M

\* What starts at pos and is longest.
LEMMA BestAtIs ==
  ASSUME NEW W, NEW hits, RawOf(hits, W), NEW pos \in Starts(hits)
  PROVE  \E m \in ToSet(hits) : /\ m.start = pos /\ m.word = BestAt(hits, pos)
                               /\ \A o \in ToSet(hits) : o.start = pos => Len(o.word) <= Len(m.word)
<1> DEFINE here == ToSet(StartingAt(hits, pos))
           f == [m \in here |-> Len(m.word)]
           L == {Len(m.word) : m \in here}
           best == CHOOSE m \in here : \A o \in here : Len(o.word) <= Len(m.word)
<1>1. here = {m \in ToSet(hits) : m.start = pos}
  BY StartingAtIs
<1>2. /\ Starts(hits) = {m.start : m \in ToSet(hits)} /\ IsFiniteSet(ToSet(hits))
      /\ \A m \in ToSet(hits) : m.word \in W
  BY StartsAre
<1>3. IsFiniteSet(here) /\ here # {}
  BY <1>1, <1>2, FS_Subset
<1>4. IsFiniteSet(L) /\ L \in SUBSET Nat /\ L # {}
  <2>1. f \in Surjection(here, L)
    BY DEF Surjection
  <2>2. IsFiniteSet(L)
    <3> HIDE DEF f, L, here
    <3> QED
      BY <1>3, <2>1, FS_Surjection
  <2>3. \A m \in here : Len(m.word) \in Nat
    BY <1>1, <1>2 DEF RawOf
  <2> QED
    BY <1>3, <2>2, <2>3
<1>5. PICK x \in L : \A y \in L : y <= x
  BY <1>4, Greatest
<1>6. \E m \in here : \A o \in here : Len(o.word) <= Len(m.word)
  BY <1>5
<1>7. best \in here /\ \A o \in here : Len(o.word) <= Len(best.word)
  <2> HIDE DEF here
  <2> QED
    BY <1>6
<1>8. BestAt(hits, pos) = best.word
  BY DEF BestAt
<1> HIDE DEF best
<1> QED
  BY <1>1, <1>7, <1>8

\* The body of the loop of apply_etl_cb, and what it works on.
Picked(W) == [start : Nat, word : W, consecutive : BOOLEAN]

PickStates(W) == [result : Seq(Picked(W)), scanPos : Nat]

PickOneStep(hits, acc, start) ==
  IF start < acc.scanPos THEN acc
  ELSE LET word == BestAt(hits, start) IN
       [result  |-> Append(acc.result,
                      [start |-> start, word |-> word,
                       consecutive |-> acc.result # <<>> /\ start = acc.scanPos]),
        scanPos |-> start + Len(word)]

\* A turn of the loop keeps the types.
LEMMA PickStepIs ==
  ASSUME NEW W, NEW hits, RawOf(hits, W), NEW pos \in Starts(hits), NEW acc \in PickStates(W)
  PROVE  /\ pos \in Nat /\ BestAt(hits, pos) \in W /\ Len(BestAt(hits, pos)) \in Nat
         /\ Len(BestAt(hits, pos)) # 0
         /\ acc.result \in Seq(Picked(W)) /\ acc.scanPos \in Nat
         /\ PickOneStep(hits, acc, pos) \in PickStates(W)
<1>1. PICK m \in ToSet(hits) : m.word = BestAt(hits, pos)
  BY BestAtIs
<1>2. Starts(hits) \in SUBSET Nat /\ \A o \in ToSet(hits) : o.word \in W
  BY StartsAre
<1> DEFINE w == BestAt(hits, pos)
           c == (acc.result # <<>> /\ pos = acc.scanPos)
           e == [start |-> pos, word |-> w, consecutive |-> c]
           S == Seq(Picked(W))
<1>3. pos \in Nat /\ w \in W
  BY <1>1, <1>2
<1>4. Len(w) \in Nat /\ Len(w) # 0
  BY <1>3 DEF RawOf
<1>5. acc.result \in S /\ acc.scanPos \in Nat
  BY DEF PickStates
<1> HIDE DEF w
<1>6. e \in Picked(W)
  <2>1. c \in BOOLEAN
    OBVIOUS
  <2> HIDE DEF c
  <2> QED
    BY <1>3, <2>1 DEF Picked
<1>7. PickOneStep(hits, acc, pos) =
        IF pos < acc.scanPos THEN acc ELSE [result |-> Append(acc.result, e), scanPos |-> pos + Len(w)]
  BY DEF PickOneStep, w
<1>8. Append(acc.result, e) \in S
  <2> HIDE DEF e
  <2> QED
    BY <1>5, <1>6
<1>9. pos + Len(w) \in Nat
  BY <1>3, <1>4
<1> HIDE DEF e, S
<1>10. PickOneStep(hits, acc, pos) \in PickStates(W)
  BY <1>7, <1>8, <1>9 DEF PickStates, S
<1> QED
  BY <1>3, <1>4, <1>5, <1>10 DEF w, S

\* F has what is picked after each start.
PickSteps(F, hits, W) ==
  LET starts == Ascending(Starts(hits)) IN
    /\ F \in [0..Len(starts) -> PickStates(W)] /\ F[0] = [result |-> <<>>, scanPos |-> 0]
    /\ \A k \in 1..Len(starts) : F[k] = PickOneStep(hits, F[k - 1], starts[k])

\* apply_etl_cb goes through the starts one by one.
LEMMA GreedyIsStepwise ==
  ASSUME NEW W, NEW hits, RawOf(hits, W)
  PROVE  \E F : /\ PickSteps(F, hits, W)
                /\ Greedy(hits) = F[Len(Ascending(Starts(hits)))].result
<1> DEFINE q == Ascending(Starts(hits))
           n == Len(q)
           X == PickStates(W)
           x0 == [result |-> <<>>, scanPos |-> 0]
           h == [k \in 1..n |-> [a \in X |-> PickOneStep(hits, a, q[k])]]
           Eq(g) == g = [s \in SUBSET DOMAIN q |->
                           IF s = {} THEN x0
                           ELSE PickOneStep(hits, g[s \ {Max(s)}], q[Max(s)])]
           It == CHOOSE g : Eq(g)
<1>0. /\ n \in Nat /\ DOMAIN q = 1..n /\ \A k \in 1..n : q[k] \in Starts(hits)
  <2>1. Starts(hits) \in SUBSET Int /\ IsFiniteSet(Starts(hits))
    BY StartsAre
  <2>2. /\ Cardinality(Starts(hits)) \in Nat /\ q \in [1..Cardinality(Starts(hits)) -> Starts(hits)]
        /\ Len(q) = Cardinality(Starts(hits))
    BY <2>1, AscendingLists
  <2> HIDE DEF q
  <2> QED
    BY <2>2
<1>1. Greedy(hits) = It[DOMAIN q].result
  BY DEF Greedy, FoldLeft, MapThenFoldSet, PickOneStep
<1>2. h \in [1..n -> [X -> X]] /\ \A k \in 1..n, a \in X : h[k][a] = PickOneStep(hits, a, q[k])
  <2>1. \A k \in 1..n, a \in X : PickOneStep(hits, a, q[k]) \in X
    BY <1>0, PickStepIs
  <2> HIDE DEF X, n, q
  <2> QED
    BY <2>1
<1>3. x0 \in X
  <2>1. <<>> \in Seq(Picked(W))
    OBVIOUS
  <2> QED
    BY <2>1 DEF PickStates
<1> HIDE DEF X, x0
<1>4. PICK A : FoldsOver(A, X, x0, h, n)
  <2> HIDE DEF h, n
  <2> QED
    BY <1>0, <1>2, <1>3, FoldsExist
<1>5. Eq(A)
  <2>1. /\ A \in [SUBSET (1..n) -> X] /\ A[{}] = x0
        /\ \A s \in SUBSET (1..n) : s # {} => A[s] = h[Max(s)][A[s \ {Max(s)}]]
    BY <1>4 DEF FoldsOver
  <2>2. \A s \in SUBSET (1..n) : s # {} => Max(s) \in 1..n /\ s \ {Max(s)} \in SUBSET (1..n)
    BY <1>0, MaxIs
  <2> HIDE DEF h, n, q
  <2>3. \A s \in SUBSET (1..n) : s # {} => A[s] = PickOneStep(hits, A[s \ {Max(s)}], q[Max(s)])
    BY <1>2, <2>1, <2>2
  <2> QED
    BY <1>0, <2>1, <2>3
<1>6. Eq(It)
  <2> HIDE DEF Eq
  <2> QED
    BY <1>5
<1>7. It[{}] = x0
  <2> HIDE DEF It, q
  <2> QED
    BY <1>0, <1>6
<1>8. \A k \in 1..n : It[1..(k - 1)] \in X => It[1..k] = h[k][It[1..(k - 1)]]
  <2> SUFFICES ASSUME NEW k \in 1..n, It[1..(k - 1)] \in X PROVE It[1..k] = h[k][It[1..(k - 1)]]
    OBVIOUS
  <2>1. k \in Nat /\ k # 0 /\ 1..k \in SUBSET (1..n)
    BY <1>0
  <2>2. 1..k # {} /\ Max(1..k) = k /\ (1..k) \ {k} = 1..(k - 1)
    BY <2>1, MaxOfFirst
  <2> HIDE DEF It, q, n, h
  <2>3. It[1..k] = PickOneStep(hits, It[1..(k - 1)], q[k])
    BY <1>0, <1>6, <2>1, <2>2
  <2> QED
    BY <1>2, <2>3
<1>9. Reaches(It, X, x0, h, n)
  <2> HIDE DEF h, n, It
  <2> QED
    BY <1>7, <1>8 DEF Reaches
<1>10. PICK F : Stepwise(F, X, x0, h, n) /\ It[1..n] = F[n]
  <2> HIDE DEF h, n, It
  <2> QED
    BY <1>0, <1>2, <1>3, <1>9, FoldReached
<1>11. F \in [0..n -> X] /\ F[0] = x0 /\ \A k \in 1..n : F[k] = h[k][F[k - 1]]
  BY <1>10 DEF Stepwise
<1>12. \A k \in 1..n : F[k] = PickOneStep(hits, F[k - 1], q[k])
  <2>1. \A k \in 1..n : F[k - 1] \in X
    <3>1. \A k \in 1..n : k - 1 \in 0..n
      BY <1>0
    <3> QED
      BY <1>11, <3>1
  <2> HIDE DEF h, n, q
  <2> QED
    BY <1>2, <1>11, <2>1
<1>13. Greedy(hits) = F[n].result
  <2> HIDE DEF It, q, n
  <2> QED
    BY <1>0, <1>1, <1>10
<1>14. PickSteps(F, hits, W)
  BY <1>11, <1>12 DEF PickSteps, X, x0
<1> HIDE DEF q
<1> QED
  BY <1>13, <1>14 DEF q

\* Matches in a row that do not overlap, and which of them follow without a gap.
Apart(g) == \A r, j \in 1..Len(g) : r < j => EndOf(g[r]) <= g[j].start

MarksRuns(g) == \A r \in 1..Len(g) : g[r].consecutive = (r > 1 /\ g[r].start = EndOf(g[r - 1]))

\* The loop of apply_etl_cb, after k starts.
GreedyTo(hits, acc, k) ==
  LET q == Ascending(Starts(hits))
      g == acc.result
  IN  /\ Apart(g) /\ MarksRuns(g)
      /\ acc.scanPos = IF g = <<>> THEN 0 ELSE EndOf(g[Len(g)])
      /\ \A r \in 1..Len(g) : \E p \in 1..k : g[r].start = q[p]
      /\ \A r \in 1..Len(g) : g[r].word = BestAt(hits, g[r].start)
      /\ \A p \in 1..k : \E r \in 1..Len(g) : g[r].start <= q[p] /\ q[p] < EndOf(g[r])

\* The starts come in ascending order, all of them.
LEMMA StartsListed ==
  ASSUME NEW W, NEW hits, RawOf(hits, W)
  PROVE  LET q == Ascending(Starts(hits)) IN
         /\ Len(q) \in Nat /\ \A k \in 1..Len(q) : q[k] \in Starts(hits) /\ q[k] \in Nat
         /\ \A x \in Starts(hits) : \E k \in 1..Len(q) : q[k] = x
         /\ \A k, m \in 1..Len(q) : k < m <=> q[k] < q[m]
<1> DEFINE q == Ascending(Starts(hits))
<1>1. Starts(hits) \in SUBSET Nat /\ Starts(hits) \in SUBSET Int /\ IsFiniteSet(Starts(hits))
  BY StartsAre
<1>2. /\ Cardinality(Starts(hits)) \in Nat /\ q \in [1..Cardinality(Starts(hits)) -> Starts(hits)]
      /\ Len(q) = Cardinality(Starts(hits))
      /\ \A x \in Starts(hits) : \E k \in 1..Cardinality(Starts(hits)) : q[k] = x
      /\ \A k, m \in 1..Cardinality(Starts(hits)) : k < m <=> q[k] < q[m]
  BY <1>1, AscendingLists
<1> HIDE DEF q
<1>3. \A k \in 1..Len(q) : q[k] \in Starts(hits) /\ q[k] \in Nat
  BY <1>1, <1>2
<1> QED
  BY <1>2, <1>3 DEF q

\* A turn of the loop.
LEMMA PickStepKeeps ==
  ASSUME NEW W, NEW hits, RawOf(hits, W), NEW k \in 1..Len(Ascending(Starts(hits))),
         NEW acc \in PickStates(W), GreedyTo(hits, acc, k - 1)
  PROVE  GreedyTo(hits, PickOneStep(hits, acc, Ascending(Starts(hits))[k]), k)
<1> DEFINE q == Ascending(Starts(hits))
           g == acc.result
           pos == q[k]
           w == BestAt(hits, pos)
           next == PickOneStep(hits, acc, pos)
<1>1. /\ Len(q) \in Nat /\ (\A p \in 1..Len(q) : q[p] \in Starts(hits) /\ q[p] \in Nat)
      /\ \A p, m \in 1..Len(q) : p < m <=> q[p] < q[m]
  BY StartsListed
<1>2. /\ Apart(g) /\ MarksRuns(g)
      /\ acc.scanPos = IF g = <<>> THEN 0 ELSE EndOf(g[Len(g)])
      /\ \A r \in 1..Len(g) : \E p \in 1..(k - 1) : g[r].start = q[p]
      /\ \A r \in 1..Len(g) : g[r].word = BestAt(hits, g[r].start)
      /\ \A p \in 1..(k - 1) : \E r \in 1..Len(g) : g[r].start <= q[p] /\ q[p] < EndOf(g[r])
  BY DEF GreedyTo
<1>3. k \in Nat /\ k \in 1..Len(q) /\ pos \in Starts(hits)
  BY <1>1
<1>4. pos \in Nat /\ w \in W /\ Len(w) \in Nat /\ Len(w) # 0 /\ g \in Seq(Picked(W)) /\ acc.scanPos \in Nat
  <2> HIDE DEF pos
  <2> QED
    BY <1>3, PickStepIs
<1> HIDE DEF q
<1>5. Len(g) \in Nat /\ \A r \in 1..Len(g) : g[r] \in Picked(W)
  <2> HIDE DEF g
  <2>1. Len(g) \in Nat
    BY <1>4
  <2>2. \A r \in 1..Len(g) : g[r] \in Picked(W)
    BY <1>4, ElementOfSeq
  <2> QED
    BY <2>1, <2>2
<1>6. \A r \in 1..Len(g) : /\ g[r].start \in Nat /\ Len(g[r].word) \in Nat /\ Len(g[r].word) # 0
                           /\ EndOf(g[r]) = g[r].start + Len(g[r].word) /\ EndOf(g[r]) \in Nat
                           /\ g[r].start <= EndOf(g[r])
  <2> SUFFICES ASSUME NEW r \in 1..Len(g)
               PROVE  /\ g[r].start \in Nat /\ Len(g[r].word) \in Nat /\ Len(g[r].word) # 0
                      /\ EndOf(g[r]) = g[r].start + Len(g[r].word) /\ EndOf(g[r]) \in Nat
                      /\ g[r].start <= EndOf(g[r])
    OBVIOUS
  <2>1. g[r].start \in Nat /\ g[r].word \in W
    BY <1>5 DEF Picked
  <2>2. Len(g[r].word) \in Nat /\ Len(g[r].word) # 0
    BY <2>1 DEF RawOf
  <2>3. EndOf(g[r]) = g[r].start + Len(g[r].word)
    BY DEF EndOf
  <2>4. EndOf(g[r]) \in Nat /\ g[r].start <= EndOf(g[r])
    BY <2>1, <2>2, <2>3
  <2> QED
    BY <2>1, <2>2, <2>3, <2>4
<1>7. \A r \in 1..Len(g) : g[r].start < pos
  <2> SUFFICES ASSUME NEW r \in 1..Len(g) PROVE g[r].start < pos
    OBVIOUS
  <2>1. PICK p \in 1..(k - 1) : g[r].start = q[p]
    BY <1>2
  <2>2. p \in 1..Len(q) /\ p < k
    BY <1>1, <1>3
  <2> QED
    BY <1>1, <1>3, <2>1, <2>2
<1>8. g = <<>> <=> Len(g) = 0
  BY <1>4, EmptySeq
<1> HIDE DEF g, pos, w
<1>9. CASE pos < acc.scanPos
  <2>1. next = acc
    BY <1>9 DEF PickOneStep
  <2>2. Len(g) # 0 /\ acc.scanPos = EndOf(g[Len(g)]) /\ Len(g) \in 1..Len(g)
    BY <1>2, <1>4, <1>5, <1>8, <1>9
  <2>3. g[Len(g)].start <= pos /\ pos < EndOf(g[Len(g)])
    <3>1. g[Len(g)].start < pos /\ g[Len(g)].start \in Nat
      BY <1>6, <1>7, <2>2
    <3> QED
      BY <1>4, <1>9, <2>2, <3>1
  <2>4. \A p \in 1..k : \E r \in 1..Len(g) : g[r].start <= q[p] /\ q[p] < EndOf(g[r])
    <3>1. \A p \in 1..k : p \in 1..(k - 1) \/ p = k
      BY <1>3
    <3> QED
      BY <1>2, <2>2, <2>3, <3>1 DEF pos
  <2>5. \A r \in 1..Len(g) : \E p \in 1..k : g[r].start = q[p]
    <3>1. \A p \in 1..(k - 1) : p \in 1..k
      BY <1>3
    <3> QED
      BY <1>2, <3>1
  <2>6. GreedyTo(hits, acc, k)
    BY <1>2, <2>4, <2>5 DEF GreedyTo, g, q
  <2> QED
    BY <2>1, <2>6 DEF pos, q
<1>10. CASE ~(pos < acc.scanPos)
  <2> DEFINE c == (g # <<>> /\ pos = acc.scanPos)
             e == [start |-> pos, word |-> w, consecutive |-> c]
             G == Append(g, e)
             n == Len(g)
  <2>1. next.result = G /\ next.scanPos = pos + Len(w)
    BY <1>10 DEF PickOneStep, g, w
  <2>2. e \in Picked(W)
    <3>1. c \in BOOLEAN
      OBVIOUS
    <3> HIDE DEF c
    <3> QED
      BY <1>4, <3>1 DEF Picked
  <2>3. e.start = pos /\ e.word = w /\ e.consecutive = c /\ EndOf(e) = pos + Len(w)
    BY DEF EndOf
  <2> HIDE DEF e
  <2>4. Len(G) = n + 1 /\ G # <<>> /\ G[n + 1] = e /\ \A r \in 1..n : G[r] = g[r]
    BY <1>4, <2>2, Appended
  <2> HIDE DEF G, next
  <2>5. n \in Nat /\ \A r \in 1..(n + 1) : r \in 1..n \/ r = n + 1
    BY <1>5
  <2>6. \A r \in 1..n : EndOf(g[r]) <= pos
    <3> SUFFICES ASSUME NEW r \in 1..n PROVE EndOf(g[r]) <= pos
      OBVIOUS
    <3>1. n \in 1..n /\ n # 0
      BY <1>5
    <3>2. EndOf(g[n]) <= pos /\ g[n].start <= EndOf(g[n]) /\ g[n].start \in Nat /\ EndOf(g[n]) \in Nat
      <4>1. EndOf(g[n]) = acc.scanPos
        BY <1>2, <1>8, <3>1
      <4>2. g[n].start \in Nat /\ EndOf(g[n]) \in Nat /\ g[n].start <= EndOf(g[n])
        BY <1>6, <3>1
      <4>3. EndOf(g[n]) <= pos
        BY <1>4, <1>10, <4>1
      <4> QED
        BY <4>2, <4>3
    <3>3. r = n \/ EndOf(g[r]) <= g[n].start
      <4>1. r = n \/ r < n
        BY <1>5
      <4> QED
        BY <1>2, <3>1, <4>1 DEF Apart
    <3>4. EndOf(g[r]) \in Nat
      BY <1>6
    <3> QED
      BY <1>4, <3>2, <3>3, <3>4
  <2>7. Apart(G)
    <3> SUFFICES ASSUME NEW r \in 1..(n + 1), NEW j \in 1..(n + 1), r < j
                 PROVE  EndOf(G[r]) <= G[j].start
      BY <2>4 DEF Apart
    <3>1. r \in 1..n
      BY <1>5
    <3>2. CASE j = n + 1
      BY <2>3, <2>4, <2>6, <3>1, <3>2
    <3>3. CASE j \in 1..n
      BY <1>2, <2>4, <3>1, <3>3 DEF Apart
    <3> QED
      BY <2>5, <3>2, <3>3
  <2>8. MarksRuns(G)
    <3> SUFFICES ASSUME NEW r \in 1..(n + 1)
                 PROVE  G[r].consecutive = (r > 1 /\ G[r].start = EndOf(G[r - 1]))
      BY <2>4 DEF MarksRuns
    <3>1. CASE r = n + 1
      <4>1. n = 0 => G[r].consecutive = (r > 1 /\ G[r].start = EndOf(G[r - 1]))
        <5> HAVE n = 0
        <5>1. g = <<>> /\ ~(r > 1) /\ G[r].consecutive = c
          BY <1>8, <2>3, <2>4, <3>1
        <5> QED
          BY <5>1
      <4>2. n # 0 => G[r].consecutive = (r > 1 /\ G[r].start = EndOf(G[r - 1]))
        <5> HAVE n # 0
        <5>1. n \in 1..n /\ r - 1 = n /\ r > 1 /\ g # <<>>
          BY <1>5, <1>8, <3>1
        <5>2. EndOf(G[r - 1]) = acc.scanPos
          BY <1>2, <2>4, <5>1
        <5>3. G[r].start = pos /\ G[r].consecutive = c
          BY <2>3, <2>4, <3>1
        <5> QED
          BY <5>1, <5>2, <5>3
      <4> QED
        BY <4>1, <4>2
    <3>2. CASE r \in 1..n
      <4>1. g[r].consecutive = (r > 1 /\ g[r].start = EndOf(g[r - 1]))
        BY <1>2, <3>2 DEF MarksRuns
      <4>2. r > 1 => r - 1 \in 1..n
        BY <1>5, <3>2
      <4>3. G[r] = g[r] /\ (r > 1 => G[r - 1] = g[r - 1])
        BY <2>4, <3>2, <4>2
      <4> QED
        BY <4>1, <4>3
    <3> QED
      BY <2>5, <3>1, <3>2
  <2>9. \A r \in 1..(n + 1) : \E p \in 1..k : G[r].start = q[p]
    <3>1. \A p \in 1..(k - 1) : p \in 1..k
      BY <1>3
    <3>2. k \in 1..k
      BY <1>3
    <3>3. G[n + 1].start = q[k]
      BY <2>3, <2>4 DEF pos
    <3>4. \A r \in 1..n : \E p \in 1..k : G[r].start = q[p]
      BY <1>2, <2>4, <3>1
    <3> QED
      BY <2>5, <3>2, <3>3, <3>4
  <2>10. \A r \in 1..(n + 1) : G[r].word = BestAt(hits, G[r].start)
    <3>1. G[n + 1].word = BestAt(hits, G[n + 1].start)
      BY <2>3, <2>4 DEF w
    <3> QED
      BY <1>2, <2>4, <2>5, <3>1
  <2>11. \A p \in 1..k : \E r \in 1..(n + 1) : G[r].start <= q[p] /\ q[p] < EndOf(G[r])
    <3> SUFFICES ASSUME NEW p \in 1..k PROVE \E r \in 1..(n + 1) : G[r].start <= q[p] /\ q[p] < EndOf(G[r])
      OBVIOUS
    <3>1. CASE p = k
      <4>1. n + 1 \in 1..(n + 1) /\ q[p] = pos
        BY <1>5, <3>1 DEF pos
      <4>2. G[n + 1].start <= pos /\ pos < EndOf(G[n + 1])
        BY <1>4, <2>3, <2>4
      <4> QED
        BY <4>1, <4>2
    <3>2. CASE p \in 1..(k - 1)
      <4>1. PICK r \in 1..n : g[r].start <= q[p] /\ q[p] < EndOf(g[r])
        BY <1>2, <3>2
      <4>2. r \in 1..(n + 1) /\ G[r] = g[r]
        BY <2>4, <2>5
      <4> QED
        BY <4>1, <4>2
    <3> QED
      BY <1>3, <3>1, <3>2
  <2>12. next.scanPos = IF G = <<>> THEN 0 ELSE EndOf(G[Len(G)])
    BY <2>1, <2>3, <2>4
  <2>13. GreedyTo(hits, next, k)
    BY <2>1, <2>4, <2>7, <2>8, <2>9, <2>10, <2>11, <2>12 DEF GreedyTo, q
  <2> QED
    BY <2>13 DEF next, pos, q
<1> QED
  BY <1>9, <1>10

\* What is picked does not overlap, is longest where it starts, and covers every start.
LEMMA GreedyIs ==
  ASSUME NEW W, NEW hits, RawOf(hits, W)
  PROVE  LET g == Greedy(hits) IN
         /\ g \in Seq(Picked(W)) /\ Apart(g) /\ MarksRuns(g)
         /\ \A r \in 1..Len(g) : g[r].start \in Starts(hits) /\ g[r].word = BestAt(hits, g[r].start)
         /\ \A x \in Starts(hits) : \E r \in 1..Len(g) : g[r].start <= x /\ x < EndOf(g[r])
<1> DEFINE q == Ascending(Starts(hits))
           n == Len(q)
<1>1. PICK F : PickSteps(F, hits, W) /\ Greedy(hits) = F[n].result
  BY GreedyIsStepwise
<1>2. /\ F \in [0..n -> PickStates(W)] /\ F[0] = [result |-> <<>>, scanPos |-> 0]
      /\ \A k \in 1..n : F[k] = PickOneStep(hits, F[k - 1], q[k])
  BY <1>1 DEF PickSteps
<1>3. /\ n \in Nat /\ (\A k \in 1..n : q[k] \in Starts(hits))
      /\ \A x \in Starts(hits) : \E k \in 1..n : q[k] = x
  BY StartsListed
<1> DEFINE T == {k \in 0..n : GreedyTo(hits, F[k], k)}
<1>4. 0 \in T
  <2>1. F[0].result = <<>> /\ F[0].scanPos = 0 /\ Len(<<>>) = 0 /\ 1..0 = {}
    BY <1>2
  <2>2. GreedyTo(hits, F[0], 0)
    BY <2>1 DEF GreedyTo, Apart, MarksRuns
  <2> HIDE DEF n
  <2> QED
    BY <1>3, <2>2
<1>5. ASSUME NEW k \in 1..n, k - 1 \in T PROVE k \in T
  <2>1. k - 1 \in 0..n /\ k \in 0..n /\ GreedyTo(hits, F[k - 1], k - 1)
    <3> HIDE DEF n
    <3> QED
      BY <1>3, <1>5
  <2>2. F[k - 1] \in PickStates(W)
    BY <1>2, <2>1
  <2>3. GreedyTo(hits, PickOneStep(hits, F[k - 1], q[k]), k)
    BY <2>1, <2>2, PickStepKeeps
  <2> QED
    BY <1>2, <2>1, <2>3
<1>6. n \in 0..n /\ GreedyTo(hits, F[n], n)
  <2>1. \A k \in 0..n : k \in T
    <3> HIDE DEF T, n
    <3> QED
      BY <1>3, <1>4, <1>5, UpTo
  <2>2. n \in 0..n
    BY <1>3
  <2> HIDE DEF n
  <2> QED
    BY <2>1, <2>2
<1> DEFINE g == F[n].result
<1>7. g \in Seq(Picked(W))
  BY <1>2, <1>6 DEF PickStates
<1> HIDE DEF n
<1>8. /\ Apart(g) /\ MarksRuns(g)
      /\ \A r \in 1..Len(g) : \E p \in 1..n : g[r].start = q[p]
      /\ \A r \in 1..Len(g) : g[r].word = BestAt(hits, g[r].start)
      /\ \A p \in 1..n : \E r \in 1..Len(g) : g[r].start <= q[p] /\ q[p] < EndOf(g[r])
  BY <1>6 DEF GreedyTo
<1> HIDE DEF g, q
<1>9. \A r \in 1..Len(g) : g[r].start \in Starts(hits)
  BY <1>3, <1>8
<1>10. \A x \in Starts(hits) : \E r \in 1..Len(g) : g[r].start <= x /\ x < EndOf(g[r])
  BY <1>3, <1>8
<1>11. Greedy(hits) = g
  BY <1>1 DEF g
<1> QED
  BY <1>7, <1>8, <1>9, <1>10, <1>11

\* The last loop of apply_etl_cb: what is picked is cut where a word does not follow the one before.
RunStep(acc, m) ==
  IF m.consecutive /\ acc # <<>>
  THEN Append(Front(acc), Append(Last(acc), m))
  ELSE Append(acc, <<m>>)

RunsOf(g) == FoldLeft(RunStep, <<>>, g)

\* Only the runs that are long enough are reported.
LEMMA EtlSelects ==
  ASSUME NEW hits, NEW min
  PROVE  Etl(hits, min) = LET runs == RunsOf(Greedy(hits)) IN
                          Selected(runs, {k \in DOMAIN runs : Len(runs[k]) >= min})
BY DEF Etl, RunsOf, RunStep, FoldLeft, MapThenFoldSet

\* A turn of that loop keeps the types.
LEMMA RunStepIs ==
  ASSUME NEW P, NEW m \in P, NEW acc \in Seq(Seq(P))
  PROVE  RunStep(acc, m) \in Seq(Seq(P))
<1>1. CASE m.consecutive /\ acc # <<>>
  <2>1. Last(acc) \in Seq(P) /\ Front(acc) \in Seq(Seq(P))
    BY <1>1, LastIs
  <2>2. Append(Last(acc), m) \in Seq(P)
    BY <2>1
  <2>3. Append(Front(acc), Append(Last(acc), m)) \in Seq(Seq(P))
    BY <2>1, <2>2
  <2> QED
    BY <1>1, <2>3 DEF RunStep
<1>2. CASE ~(m.consecutive /\ acc # <<>>)
  <2>1. <<m>> \in Seq(P)
    OBVIOUS
  <2>2. Append(acc, <<m>>) \in Seq(Seq(P))
    BY <2>1
  <2> QED
    BY <1>2, <2>2 DEF RunStep
<1> QED
  BY <1>1, <1>2

RunSteps(F, g, P) ==
  /\ F \in [0..Len(g) -> Seq(Seq(P))] /\ F[0] = <<>>
  /\ \A k \in 1..Len(g) : F[k] = RunStep(F[k - 1], g[k])

\* The loop goes through what is picked word by word.
LEMMA RunsAreStepwise ==
  ASSUME NEW P, NEW g \in Seq(P)
  PROVE  \E F : RunSteps(F, g, P) /\ RunsOf(g) = F[Len(g)]
<1> DEFINE n == Len(g)
           X == Seq(Seq(P))
           x0 == <<>>
           h == [k \in 1..n |-> [a \in X |-> RunStep(a, g[k])]]
           Eq(f) == f = [s \in SUBSET DOMAIN g |->
                           IF s = {} THEN <<>>
                           ELSE RunStep(f[s \ {Max(s)}], g[Max(s)])]
           It == CHOOSE f : Eq(f)
<1>0. n \in Nat /\ DOMAIN g = 1..n /\ \A k \in 1..n : g[k] \in P
  BY ElementOfSeq
<1>1. RunsOf(g) = It[DOMAIN g]
  BY DEF RunsOf, FoldLeft, MapThenFoldSet
<1>2. h \in [1..n -> [X -> X]] /\ \A k \in 1..n, a \in X : h[k][a] = RunStep(a, g[k])
  <2>1. \A k \in 1..n, a \in X : RunStep(a, g[k]) \in X
    BY <1>0, RunStepIs
  <2> HIDE DEF X, n
  <2> QED
    BY <2>1
<1>3. x0 \in X /\ x0 = <<>>
  OBVIOUS
<1> HIDE DEF X, x0
<1>4. PICK A : FoldsOver(A, X, x0, h, n)
  <2> HIDE DEF h, n
  <2> QED
    BY <1>0, <1>2, <1>3, FoldsExist
<1>5. Eq(A)
  <2>1. /\ A \in [SUBSET (1..n) -> X] /\ A[{}] = x0
        /\ \A s \in SUBSET (1..n) : s # {} => A[s] = h[Max(s)][A[s \ {Max(s)}]]
    BY <1>4 DEF FoldsOver
  <2>2. \A s \in SUBSET (1..n) : s # {} => Max(s) \in 1..n /\ s \ {Max(s)} \in SUBSET (1..n)
    BY <1>0, MaxIs
  <2> HIDE DEF h, n
  <2>3. \A s \in SUBSET (1..n) : s # {} => A[s] = RunStep(A[s \ {Max(s)}], g[Max(s)])
    BY <1>2, <2>1, <2>2
  <2> QED
    BY <1>0, <1>3, <2>1, <2>3
<1>6. Eq(It)
  <2> HIDE DEF Eq
  <2> QED
    BY <1>5
<1>7. It[{}] = x0
  <2> HIDE DEF It
  <2> QED
    BY <1>0, <1>3, <1>6
<1>8. \A k \in 1..n : It[1..(k - 1)] \in X => It[1..k] = h[k][It[1..(k - 1)]]
  <2> SUFFICES ASSUME NEW k \in 1..n, It[1..(k - 1)] \in X PROVE It[1..k] = h[k][It[1..(k - 1)]]
    OBVIOUS
  <2>1. k \in Nat /\ k # 0 /\ 1..k \in SUBSET (1..n)
    BY <1>0
  <2>2. 1..k # {} /\ Max(1..k) = k /\ (1..k) \ {k} = 1..(k - 1)
    BY <2>1, MaxOfFirst
  <2> HIDE DEF It, n, h
  <2>3. It[1..k] = RunStep(It[1..(k - 1)], g[k])
    BY <1>0, <1>6, <2>1, <2>2
  <2> QED
    BY <1>2, <2>3
<1>9. Reaches(It, X, x0, h, n)
  <2> HIDE DEF h, n, It
  <2> QED
    BY <1>7, <1>8 DEF Reaches
<1>10. PICK F : Stepwise(F, X, x0, h, n) /\ It[1..n] = F[n]
  <2> HIDE DEF h, n, It
  <2> QED
    BY <1>0, <1>2, <1>3, <1>9, FoldReached
<1>11. F \in [0..n -> X] /\ F[0] = x0 /\ \A k \in 1..n : F[k] = h[k][F[k - 1]]
  BY <1>10 DEF Stepwise
<1>12. \A k \in 1..n : F[k] = RunStep(F[k - 1], g[k])
  <2>1. \A k \in 1..n : F[k - 1] \in X
    <3>1. \A k \in 1..n : k - 1 \in 0..n
      BY <1>0
    <3> QED
      BY <1>11, <3>1
  <2> HIDE DEF h, n
  <2> QED
    BY <1>2, <1>11, <2>1
<1>13. RunsOf(g) = F[n]
  <2> HIDE DEF It, n
  <2> QED
    BY <1>0, <1>1, <1>10
<1>14. RunSteps(F, g, P)
  BY <1>3, <1>11, <1>12 DEF RunSteps, X
<1> QED
  BY <1>13, <1>14

\* The first k words of g, cut into groups; cut[j] is where group j begins.
CutAt(cut, groups, g, k) ==
  LET m == Len(groups) IN
  /\ cut \in [1..(m + 1) -> Nat \ {0}] /\ cut[1] = 1 /\ cut[m + 1] = k + 1
  /\ \A a, b \in 1..(m + 1) : a < b => cut[a] < cut[b]
  /\ \A p \in 1..k : \E j \in 1..m : cut[j] <= p /\ p < cut[j + 1]
  /\ \A j \in 1..m : ~g[cut[j]].consecutive /\ Len(groups[j]) = cut[j + 1] - cut[j]
  /\ \A j \in 1..m : \A x \in 1..Len(groups[j]) :
       groups[j][x] = g[cut[j] + x - 1] /\ (x > 1 => g[cut[j] + x - 1].consecutive)

\* A word more.
LEMMA RunStepKeeps ==
  ASSUME NEW P, NEW g \in Seq(P), MarksRuns(g), NEW k \in 1..Len(g), NEW acc \in Seq(Seq(P)),
         NEW cut, CutAt(cut, acc, g, k - 1)
  PROVE  \E next : CutAt(next, RunStep(acc, g[k]), g, k)
<1> DEFINE m == Len(acc)
           e == g[k]
<1>1. k \in Nat \ {0} /\ m \in Nat /\ e \in P /\ (acc = <<>> <=> m = 0)
  <2>1. k \in Nat \ {0}
    OBVIOUS
  <2>2. m \in Nat /\ (acc = <<>> <=> m = 0)
    BY EmptySeq
  <2>3. e \in P
    BY ElementOfSeq
  <2> QED
    BY <2>1, <2>2, <2>3
<1>2. /\ cut \in [1..(m + 1) -> Nat \ {0}] /\ cut[1] = 1 /\ cut[m + 1] = k - 1 + 1
      /\ \A a, b \in 1..(m + 1) : a < b => cut[a] < cut[b]
      /\ \A p \in 1..(k - 1) : \E j \in 1..m : cut[j] <= p /\ p < cut[j + 1]
      /\ \A j \in 1..m : ~g[cut[j]].consecutive /\ Len(acc[j]) = cut[j + 1] - cut[j]
      /\ \A j \in 1..m : \A x \in 1..Len(acc[j]) :
            acc[j][x] = g[cut[j] + x - 1] /\ (x > 1 => g[cut[j] + x - 1].consecutive)
  BY DEF CutAt
<1>3. cut[m + 1] = k /\ m + 1 \in 1..(m + 1) /\ 1 \in 1..(m + 1)
  <2> HIDE DEF m
  <2> QED
    BY <1>1, <1>2
<1>4. \A j \in 1..m : j \in 1..(m + 1) /\ j + 1 \in 1..(m + 1) /\ cut[j] \in Nat \ {0} /\ cut[j + 1] \in Nat \ {0}
  <2>1. \A j \in 1..m : j \in 1..(m + 1) /\ j + 1 \in 1..(m + 1)
    BY <1>1
  <2> HIDE DEF m
  <2> QED
    BY <1>2, <2>1
<1>5. \A p \in 1..k : p = k \/ p \in 1..(k - 1)
  BY <1>1
<1>6. CASE e.consecutive /\ acc # <<>>
  <2> DEFINE l == Append(Last(acc), e)
             G == Append(Front(acc), l)
             next == [a \in 1..(m + 1) |-> IF a = m + 1 THEN k + 1 ELSE cut[a]]
  <2>1. RunStep(acc, e) = G
    BY <1>6 DEF RunStep
  <2>2. /\ m \in Nat \ {0} /\ Last(acc) = acc[m] /\ Last(acc) \in Seq(P)
        /\ Front(acc) \in Seq(Seq(P)) /\ Len(Front(acc)) = m - 1
        /\ \A j \in 1..(m - 1) : Front(acc)[j] = acc[j]
    BY <1>6, LastIs
  <2>3. /\ l \in Seq(P) /\ Len(l) = Len(acc[m]) + 1 /\ (\A x \in 1..Len(acc[m]) : l[x] = acc[m][x])
        /\ l[Len(acc[m]) + 1] = e /\ Len(acc[m]) \in Nat
    BY <1>1, <2>2, Appended
  <2> HIDE DEF l, m, e
  <2>4. Len(G) = m /\ G[m] = l /\ \A j \in 1..(m - 1) : G[j] = acc[j]
    <3>1. /\ Len(G) = m - 1 + 1 /\ G[m - 1 + 1] = l
          /\ \A j \in 1..(m - 1) : G[j] = Front(acc)[j]
      BY <2>2, <2>3, Appended
    <3>2. m - 1 + 1 = m
      BY <2>2
    <3> QED
      BY <2>2, <3>1, <3>2
  <2> HIDE DEF G
  <2>5. m \in 1..m /\ (\A j \in 1..m : j = m \/ j \in 1..(m - 1)) /\ \A j \in 1..(m - 1) : j + 1 \in 1..m
    <3>1. m \in Nat \ {0}
      BY <2>2
    <3> QED
      BY <3>1
  <2>6. /\ next \in [1..(m + 1) -> Nat \ {0}] /\ next[m + 1] = k + 1
        /\ \A j \in 1..m : next[j] = cut[j]
    <3>1. \A a \in 1..(m + 1) : (IF a = m + 1 THEN k + 1 ELSE cut[a]) \in Nat \ {0}
      <4>1. k + 1 \in Nat \ {0}
        BY <1>1
      <4>2. \A a \in 1..(m + 1) : cut[a] \in Nat \ {0}
        BY <1>2
      <4> QED
        BY <4>1, <4>2
    <3>2. next[m + 1] = k + 1
      BY <1>3
    <3>3. \A j \in 1..m : next[j] = cut[j]
      BY <1>1, <1>4
    <3> QED
      BY <3>1, <3>2, <3>3
  <2>7. next[1] = 1
    <3>1. 1 \in 1..m
      BY <2>2
    <3> QED
      BY <1>2, <2>6, <3>1
  <2> HIDE DEF next
  <2>8. \A a, b \in 1..(m + 1) : a < b => next[a] < next[b]
    <3> SUFFICES ASSUME NEW a \in 1..(m + 1), NEW b \in 1..(m + 1), a < b PROVE next[a] < next[b]
      OBVIOUS
    <3>1. a \in 1..m /\ next[a] = cut[a] /\ cut[a] \in Nat
      <4>1. a \in 1..m
        BY <1>1
      <4> QED
        BY <1>4, <2>6, <4>1
    <3>2. CASE b \in 1..m
      BY <1>2, <2>6, <3>1, <3>2
    <3>3. CASE b = m + 1
      <4>1. cut[a] < k
        BY <1>2, <1>3, <3>3
      <4> QED
        BY <1>1, <2>6, <3>1, <3>3, <4>1
    <3> QED
      BY <1>1, <3>2, <3>3
  <2>9. \A p \in 1..k : \E j \in 1..m : next[j] <= p /\ p < next[j + 1]
    <3> SUFFICES ASSUME NEW p \in 1..k PROVE \E j \in 1..m : next[j] <= p /\ p < next[j + 1]
      OBVIOUS
    <3>1. CASE p = k
      <4>1. cut[m] < k /\ cut[m] \in Nat
        <5>1. m \in 1..(m + 1) /\ m < m + 1
          BY <2>2
        <5> QED
          BY <1>2, <1>3, <5>1
      <4>2. next[m] <= p /\ p < next[m + 1]
        BY <1>1, <2>5, <2>6, <3>1, <4>1
      <4> QED
        BY <2>5, <4>2
    <3>2. CASE p \in 1..(k - 1)
      <4>1. PICK j \in 1..m : cut[j] <= p /\ p < cut[j + 1]
        BY <1>2, <3>2
      <4>2. next[j] <= p
        BY <2>6, <4>1
      <4>3. p < next[j + 1]
        <5>1. CASE j = m
          BY <1>1, <2>6, <3>2, <5>1
        <5>2. CASE j \in 1..(m - 1)
          <6>1. j + 1 \in 1..m
            BY <2>5, <5>2
          <6> QED
            BY <2>6, <4>1, <6>1
        <5> QED
          BY <2>5, <5>1, <5>2
      <4> QED
        BY <4>2, <4>3
    <3> QED
      BY <1>5, <3>1, <3>2
  <2>10. \A j \in 1..m : ~g[next[j]].consecutive /\ Len(G[j]) = next[j + 1] - next[j]
    <3> SUFFICES ASSUME NEW j \in 1..m
                 PROVE  ~g[next[j]].consecutive /\ Len(G[j]) = next[j + 1] - next[j]
      OBVIOUS
    <3>1. ~g[next[j]].consecutive
      BY <1>2, <2>6
    <3>2. CASE j = m
      <4>1. Len(acc[m]) = k - cut[m] /\ cut[m] \in Nat
        BY <1>2, <1>3, <1>4, <2>5
      <4>2. Len(G[m]) = Len(acc[m]) + 1
        BY <2>3, <2>4
      <4>3. next[m + 1] = k + 1 /\ next[m] = cut[m]
        BY <2>5, <2>6
      <4>4. (k - cut[m]) + 1 = (k + 1) - cut[m]
        BY <1>1, <4>1
      <4>5. Len(G[m]) = next[m + 1] - next[m]
        BY <4>1, <4>2, <4>3, <4>4
      <4> QED
        BY <3>1, <3>2, <4>5
    <3>3. CASE j \in 1..(m - 1)
      <4>1. j + 1 \in 1..m
        BY <2>2, <3>3
      <4>2. Len(G[j]) = cut[j + 1] - cut[j]
        BY <1>2, <2>4, <3>3
      <4> QED
        BY <2>6, <3>1, <4>1, <4>2
    <3> QED
      BY <2>5, <3>2, <3>3
  <2>11. \A j \in 1..m : \A x \in 1..Len(G[j]) :
            G[j][x] = g[next[j] + x - 1] /\ (x > 1 => g[next[j] + x - 1].consecutive)
    <3> SUFFICES ASSUME NEW j \in 1..m, NEW x \in 1..Len(G[j])
                 PROVE  G[j][x] = g[next[j] + x - 1] /\ (x > 1 => g[next[j] + x - 1].consecutive)
      OBVIOUS
    <3>0. next[j] = cut[j]
      BY <2>6
    <3>1. CASE j \in 1..(m - 1)
      <4>1. G[j] = acc[j] /\ x \in 1..Len(acc[j])
        BY <2>4, <3>1
      <4> QED
        BY <1>2, <3>0, <4>1
    <3>2. CASE j = m
      <4> DEFINE o == Len(acc[m])
      <4>1. G[j] = l /\ x \in 1..(o + 1) /\ o \in Nat
        BY <2>3, <2>4, <3>2
      <4>2. o = k - cut[m] /\ cut[m] \in Nat
        BY <1>2, <1>3, <1>4, <2>5
      <4>3. CASE x \in 1..o
        <5>1. l[x] = acc[m][x]
          BY <2>3, <4>3
        <5>2. acc[m][x] = g[cut[m] + x - 1] /\ (x > 1 => g[cut[m] + x - 1].consecutive)
          BY <1>2, <2>5, <4>3
        <5> QED
          BY <3>0, <3>2, <4>1, <5>1, <5>2
      <4>4. CASE x = o + 1
        <5>1. l[x] = e
          BY <2>3, <4>4
        <5>2. cut[m] + x - 1 = k
          <6> HIDE DEF o
          <6> QED
            BY <1>1, <4>1, <4>2, <4>4
        <5> QED
          BY <1>6, <3>0, <3>2, <4>1, <5>1, <5>2 DEF e
      <4> HIDE DEF o
      <4>5. x \in 1..o \/ x = o + 1
        BY <4>1
      <4> QED
        BY <4>3, <4>4, <4>5
    <3> QED
      BY <2>5, <3>1, <3>2
  <2>12. CutAt(next, G, g, k)
    BY <2>4, <2>6, <2>7, <2>8, <2>9, <2>10, <2>11 DEF CutAt
  <2> QED
    BY <2>1, <2>12 DEF e
<1>7. CASE ~(e.consecutive /\ acc # <<>>)
  <2> DEFINE G == Append(acc, <<e>>)
             M == m + 1
             next == [a \in 1..(M + 1) |-> IF a = M + 1 THEN k + 1 ELSE cut[a]]
  <2>1. RunStep(acc, e) = G
    BY <1>7 DEF RunStep
  <2>2. <<e>> \in Seq(P) /\ Len(<<e>>) = 1 /\ <<e>>[1] = e
    BY <1>1
  <2>3. Len(G) = M /\ G[M] = <<e>> /\ \A j \in 1..m : G[j] = acc[j]
    BY <2>2, Appended
  <2>4. ~e.consecutive
    <3>1. CASE acc = <<>>
      <4>1. k = 1
        BY <1>1, <1>2, <1>3, <3>1
      <4>2. g[1].consecutive = (1 > 1 /\ g[1].start = EndOf(g[1 - 1]))
        BY <4>1 DEF MarksRuns
      <4>3. ~(1 > 1)
        OBVIOUS
      <4>4. ~g[1].consecutive
        BY <4>2, <4>3, Zenon
      <4> QED
        BY <4>1, <4>4
    <3> QED
      BY <1>7, <3>1
  <2> HIDE DEF G, m, e
  <2>5. M \in Nat \ {0} /\ M \in 1..M /\ M + 1 \in 1..(M + 1) /\ \A j \in 1..M : j = M \/ j \in 1..m
    BY <1>1
  <2>6. /\ next \in [1..(M + 1) -> Nat \ {0}] /\ next[M + 1] = k + 1
        /\ \A j \in 1..M : next[j] = cut[j]
    <3>1. \A a \in 1..(M + 1) : (IF a = M + 1 THEN k + 1 ELSE cut[a]) \in Nat \ {0}
      <4>1. \A a \in 1..(M + 1) : a = M + 1 \/ a \in 1..(m + 1)
        BY <1>1
      <4> HIDE DEF M
      <4> QED
        BY <1>1, <1>2, <4>1
    <3>2. next[M + 1] = k + 1
      BY <2>5
    <3>3. \A j \in 1..M : next[j] = cut[j]
      <4>1. \A j \in 1..M : j \in 1..(M + 1) /\ j # M + 1
        BY <2>5
      <4> QED
        BY <4>1
    <3> HIDE DEF M
    <3> QED
      BY <3>1, <3>2, <3>3
  <2>7. next[1] = 1 /\ next[M] = k
    <3>1. 1 \in 1..M
      BY <2>5
    <3> QED
      BY <1>2, <1>3, <2>5, <2>6, <3>1
  <2> HIDE DEF next
  <2>8. \A a, b \in 1..(M + 1) : a < b => next[a] < next[b]
    <3> SUFFICES ASSUME NEW a \in 1..(M + 1), NEW b \in 1..(M + 1), a < b PROVE next[a] < next[b]
      OBVIOUS
    <3>1. a \in 1..M /\ next[a] = cut[a] /\ cut[a] \in Nat
      <4>1. a \in 1..M
        BY <1>1
      <4> QED
        BY <1>2, <2>6, <4>1
    <3>2. cut[a] <= k
      <4>1. a \in 1..m => cut[a] < k
        BY <1>2, <1>3, <1>4
      <4>2. a = M => cut[a] = k
        BY <1>3
      <4> QED
        BY <1>1, <2>5, <3>1, <4>1, <4>2
    <3>3. CASE b \in 1..M
      <4> HIDE DEF M
      <4>1. b \in 1..(m + 1) /\ a \in 1..(m + 1)
        BY <3>1, <3>3 DEF M
      <4> QED
        BY <1>2, <2>6, <3>1, <3>3, <4>1
    <3>4. CASE b = M + 1
      BY <1>1, <2>6, <3>1, <3>2, <3>4
    <3> QED
      BY <2>5, <3>3, <3>4
  <2>9. \A p \in 1..k : \E j \in 1..M : next[j] <= p /\ p < next[j + 1]
    <3> SUFFICES ASSUME NEW p \in 1..k PROVE \E j \in 1..M : next[j] <= p /\ p < next[j + 1]
      OBVIOUS
    <3>1. CASE p = k
      <4>1. next[M] <= p /\ p < next[M + 1]
        BY <1>1, <2>6, <2>7, <3>1
      <4> QED
        BY <2>5, <4>1
    <3>2. CASE p \in 1..(k - 1)
      <4>1. PICK j \in 1..m : cut[j] <= p /\ p < cut[j + 1]
        BY <1>2, <3>2
      <4>2. j \in 1..M /\ j + 1 \in 1..M
        BY <1>1
      <4> QED
        BY <2>6, <4>1, <4>2
    <3> QED
      BY <1>5, <3>1, <3>2
  <2>10. \A j \in 1..M : ~g[next[j]].consecutive /\ Len(G[j]) = next[j + 1] - next[j]
    <3> SUFFICES ASSUME NEW j \in 1..M
                 PROVE  ~g[next[j]].consecutive /\ Len(G[j]) = next[j + 1] - next[j]
      OBVIOUS
    <3>1. CASE j = M
      <4>1. ~g[next[M]].consecutive
        BY <2>4, <2>7 DEF e
      <4>2. Len(G[M]) = 1 /\ next[M + 1] = k + 1 /\ next[M] = k
        BY <2>2, <2>3, <2>6, <2>7
      <4> QED
        BY <1>1, <3>1, <4>1, <4>2
    <3>2. CASE j \in 1..m
      <4>1. j + 1 \in 1..M
        BY <1>1, <3>2
      <4> QED
        BY <1>2, <2>3, <2>6, <3>2, <4>1
    <3> QED
      BY <2>5, <3>1, <3>2
  <2>11. \A j \in 1..M : \A x \in 1..Len(G[j]) :
            G[j][x] = g[next[j] + x - 1] /\ (x > 1 => g[next[j] + x - 1].consecutive)
    <3> SUFFICES ASSUME NEW j \in 1..M, NEW x \in 1..Len(G[j])
                 PROVE  G[j][x] = g[next[j] + x - 1] /\ (x > 1 => g[next[j] + x - 1].consecutive)
      OBVIOUS
    <3>1. CASE j \in 1..m
      <4>1. G[j] = acc[j] /\ next[j] = cut[j]
        BY <2>3, <2>6, <3>1
      <4> QED
        BY <1>2, <3>1, <4>1
    <3>2. CASE j = M
      <4>0. G[j] = <<e>> /\ next[j] = k
        BY <2>3, <2>7, <3>2
      <4>1. x = 1 /\ G[j][x] = e /\ next[j] = k
        <5>1. x \in 1..1
          BY <2>2, <4>0
        <5> QED
          BY <2>2, <4>0, <5>1
      <4>2. next[j] + x - 1 = k
        BY <1>1, <4>1
      <4> QED
        BY <4>1, <4>2 DEF e
    <3> QED
      BY <2>5, <3>1, <3>2
  <2> HIDE DEF M
  <2>12. CutAt(next, G, g, k)
    BY <2>3, <2>6, <2>7, <2>8, <2>9, <2>10, <2>11 DEF CutAt
  <2> QED
    BY <2>1, <2>12 DEF e
<1> QED
  BY <1>6, <1>7

\* The groups are the runs of what is picked.
LEMMA RunsAre ==
  ASSUME NEW P, NEW g \in Seq(P), MarksRuns(g)
  PROVE  RunsOf(g) \in Seq(Seq(P)) /\ \E cut : CutAt(cut, RunsOf(g), g, Len(g))
<1> DEFINE n == Len(g)
<1>1. PICK F : RunSteps(F, g, P) /\ RunsOf(g) = F[n]
  BY RunsAreStepwise
<1>2. /\ n \in Nat /\ F \in [0..n -> Seq(Seq(P))] /\ F[0] = <<>>
      /\ \A k \in 1..n : F[k] = RunStep(F[k - 1], g[k])
  BY <1>1 DEF RunSteps
<1> DEFINE T == {k \in 0..n : \E cut : CutAt(cut, F[k], g, k)}
<1>3. 0 \in T
  <2> DEFINE cut == [a \in 1..1 |-> 1]
  <2>1. Len(F[0]) = 0 /\ 0 + 1 = 1 /\ 1..0 = {} /\ \A a, b \in 1..1 : ~(a < b)
    BY <1>2
  <2>2. cut \in [1..1 -> Nat \ {0}] /\ cut[1] = 1
    OBVIOUS
  <2> HIDE DEF cut
  <2>3. CutAt(cut, F[0], g, 0)
    BY <2>1, <2>2 DEF CutAt
  <2> HIDE DEF n
  <2> QED
    BY <1>2, <2>3
<1>4. ASSUME NEW k \in 1..n, k - 1 \in T PROVE k \in T
  <2>1. k - 1 \in 0..n /\ k \in 0..n /\ \E cut : CutAt(cut, F[k - 1], g, k - 1)
    <3> HIDE DEF n
    <3> QED
      BY <1>2, <1>4
  <2>2. PICK cut : CutAt(cut, F[k - 1], g, k - 1)
    BY <2>1
  <2>3. F[k - 1] \in Seq(Seq(P))
    BY <1>2, <2>1
  <2>4. \E next : CutAt(next, RunStep(F[k - 1], g[k]), g, k)
    BY <2>2, <2>3, RunStepKeeps
  <2> QED
    BY <1>2, <2>1, <2>4
<1>5. \A k \in 0..n : k \in T
  <2> HIDE DEF T, n
  <2> QED
    BY <1>2, <1>3, <1>4, UpTo
<1>6. n \in 0..n
  <2> HIDE DEF n
  <2> QED
    BY <1>2
<1> HIDE DEF n
<1>7. F[n] \in Seq(Seq(P)) /\ \E cut : CutAt(cut, F[n], g, n)
  BY <1>2, <1>5, <1>6
<1> QED
  BY <1>1, <1>7 DEF n

\* The chains cs are runs of g: chain k is what g holds from lo[k] to hi[k].
RunsIn(cs, g, W, min, lo, hi) ==
  /\ cs \in Seq(Seq(Picked(W))) /\ lo \in [1..Len(cs) -> 1..Len(g)] /\ hi \in [1..Len(cs) -> 1..Len(g)]
  /\ \A k \in 1..Len(cs) : /\ lo[k] <= hi[k] /\ Len(cs[k]) = hi[k] - lo[k] + 1 /\ Len(cs[k]) >= min
                           /\ ~g[lo[k]].consecutive
  /\ \A k \in 1..Len(cs) : \A x \in 1..Len(cs[k]) :
       cs[k][x] = g[lo[k] + x - 1] /\ (x > 1 => g[lo[k] + x - 1].consecutive)
  /\ \A k, l \in 1..Len(cs) : k < l => hi[k] < lo[l]
  /\ min <= 1 => \A p \in 1..Len(g) : \E k \in 1..Len(cs) : lo[k] <= p /\ p <= hi[k]

\* apply_etl_cb reports runs of what it picks.
LEMMA EtlIs ==
  ASSUME NEW W, NEW hits, RawOf(hits, W), NEW min \in Nat
  PROVE  \E lo, hi : RunsIn(Etl(hits, min), Greedy(hits), W, min, lo, hi)
<1> DEFINE g == Greedy(hits)
           runs == RunsOf(g)
           R == {k \in DOMAIN runs : Len(runs[k]) >= min}
           cs == Selected(runs, R)
           C == Seq(Picked(W))
           m == Len(runs)
<1>1. g \in C /\ MarksRuns(g) /\ Len(g) \in Nat
  <2>1. g \in C /\ MarksRuns(g)
    BY GreedyIs
  <2> HIDE DEF g
  <2> QED
    BY <2>1
<1>2. runs \in Seq(C) /\ \E cut : CutAt(cut, runs, g, Len(g))
  <2> HIDE DEF g
  <2> QED
    BY <1>1, RunsAre
<1>3. PICK cut : CutAt(cut, runs, g, Len(g))
  BY <1>2
<1>4. Etl(hits, min) = cs
  BY EtlSelects
<1> HIDE DEF g, runs
<1>5. m \in Nat /\ DOMAIN runs = 1..m /\ (\A j \in 1..m : runs[j] \in C) /\ R \in SUBSET (1..m)
  <2> HIDE DEF C
  <2>1. m \in Nat /\ DOMAIN runs = 1..m
    BY <1>2
  <2>2. \A j \in 1..m : runs[j] \in C
    BY <1>2, ElementOfSeq
  <2> QED
    BY <2>1, <2>2
<1>6. /\ cut \in [1..(m + 1) -> Nat \ {0}] /\ cut[m + 1] = Len(g) + 1
      /\ \A a, b \in 1..(m + 1) : a < b => cut[a] < cut[b]
      /\ \A p \in 1..Len(g) : \E j \in 1..m : cut[j] <= p /\ p < cut[j + 1]
      /\ \A j \in 1..m : ~g[cut[j]].consecutive /\ Len(runs[j]) = cut[j + 1] - cut[j]
      /\ \A j \in 1..m : \A x \in 1..Len(runs[j]) :
           runs[j][x] = g[cut[j] + x - 1] /\ (x > 1 => g[cut[j] + x - 1].consecutive)
  BY <1>3 DEF CutAt
<1>7. \A j \in 1..m : Len(runs[j]) \in Nat
  BY <1>5
<1> HIDE DEF C, m, cs
<1>8. PICK n \in Nat : \E p \in [1..n -> R] :
           /\ \A k, l \in 1..n : k < l <=> p[k] < p[l]
           /\ \A x \in R : \E k \in 1..n : p[k] = x
           /\ cs = [k \in 1..n |-> runs[p[k]]]
           /\ cs \in Seq(C) /\ Len(cs) = n
  <2>1. R \in SUBSET (1..Len(runs))
    BY <1>5 DEF m
  <2> HIDE DEF R
  <2> QED
    BY <1>2, <2>1, SelectedIs DEF cs
<1>9. PICK p \in [1..n -> R] :
           /\ \A k, l \in 1..n : k < l <=> p[k] < p[l]
           /\ \A x \in R : \E k \in 1..n : p[k] = x
           /\ cs = [k \in 1..n |-> runs[p[k]]]
           /\ cs \in Seq(C) /\ Len(cs) = n
  BY <1>8
<1>10. \A k \in 1..n : /\ p[k] \in 1..m /\ Len(runs[p[k]]) >= min /\ cs[k] = runs[p[k]]
                       /\ p[k] \in 1..(m + 1) /\ p[k] + 1 \in 1..(m + 1) /\ p[k] < p[k] + 1
  <2>1. \A k \in 1..n : p[k] \in R
    BY <1>9
  <2>2. \A j \in 1..m : j \in 1..(m + 1) /\ j + 1 \in 1..(m + 1) /\ j < j + 1
    BY <1>5
  <2> QED
    BY <1>5, <1>9, <2>1, <2>2
<1> DEFINE lo == [k \in 1..n |-> cut[p[k]]]
           hi == [k \in 1..n |-> cut[p[k] + 1] - 1]
<1>11. \A j \in 1..m : /\ cut[j] \in Nat \ {0} /\ cut[j + 1] \in Nat \ {0} /\ cut[j] < cut[j + 1]
                       /\ cut[j + 1] <= Len(g) + 1
  <2> SUFFICES ASSUME NEW j \in 1..m
               PROVE  /\ cut[j] \in Nat \ {0} /\ cut[j + 1] \in Nat \ {0} /\ cut[j] < cut[j + 1]
                      /\ cut[j + 1] <= Len(g) + 1
    OBVIOUS
  <2>1. j \in 1..(m + 1) /\ j + 1 \in 1..(m + 1) /\ m + 1 \in 1..(m + 1) /\ j < j + 1 /\ (j + 1 = m + 1 \/ j + 1 < m + 1)
    BY <1>5
  <2>2. cut[j] \in Nat \ {0} /\ cut[j + 1] \in Nat \ {0} /\ cut[j] < cut[j + 1]
    BY <1>6, <2>1
  <2>3. j + 1 = m + 1 \/ cut[j + 1] < cut[m + 1]
    BY <1>6, <2>1
  <2> QED
    BY <1>1, <1>6, <2>2, <2>3
<1>12. \A k \in 1..n : /\ lo[k] = cut[p[k]] /\ hi[k] = cut[p[k] + 1] - 1
                       /\ lo[k] \in 1..Len(g) /\ hi[k] \in 1..Len(g) /\ lo[k] <= hi[k]
                       /\ Len(cs[k]) = hi[k] - lo[k] + 1 /\ Len(cs[k]) >= min
                       /\ ~g[lo[k]].consecutive
  <2> SUFFICES ASSUME NEW k \in 1..n
               PROVE  /\ lo[k] = cut[p[k]] /\ hi[k] = cut[p[k] + 1] - 1
                      /\ lo[k] \in 1..Len(g) /\ hi[k] \in 1..Len(g) /\ lo[k] <= hi[k]
                      /\ Len(cs[k]) = hi[k] - lo[k] + 1 /\ Len(cs[k]) >= min
                      /\ ~g[lo[k]].consecutive
    OBVIOUS
  <2>1. lo[k] = cut[p[k]] /\ hi[k] = cut[p[k] + 1] - 1
    OBVIOUS
  <2> DEFINE a == cut[p[k]]
             b == cut[p[k] + 1]
  <2>2. a \in Nat \ {0} /\ b \in Nat \ {0} /\ a < b /\ b <= Len(g) + 1
    BY <1>10, <1>11
  <2>3. Len(cs[k]) = b - a /\ Len(cs[k]) >= min /\ ~g[a].consecutive
    BY <1>6, <1>10
  <2> HIDE DEF a, b, lo, hi
  <2>4. a \in 1..Len(g) /\ b - 1 \in 1..Len(g) /\ a <= b - 1 /\ b - a = b - 1 - a + 1
    BY <1>1, <2>2
  <2> QED
    BY <2>1, <2>3, <2>4 DEF a, b
<1>13. lo \in [1..n -> 1..Len(g)] /\ hi \in [1..n -> 1..Len(g)]
  <2>1. \A k \in 1..n : cut[p[k]] \in 1..Len(g) /\ cut[p[k] + 1] - 1 \in 1..Len(g)
    <3> SUFFICES ASSUME NEW k \in 1..n PROVE cut[p[k]] \in 1..Len(g) /\ cut[p[k] + 1] - 1 \in 1..Len(g)
      OBVIOUS
    <3> HIDE DEF lo, hi
    <3> QED
      BY <1>12
  <2> QED
    BY <2>1
<1> HIDE DEF lo, hi
<1>14. \A k \in 1..n : \A x \in 1..Len(cs[k]) :
         cs[k][x] = g[lo[k] + x - 1] /\ (x > 1 => g[lo[k] + x - 1].consecutive)
  <2> SUFFICES ASSUME NEW k \in 1..n, NEW x \in 1..Len(cs[k])
               PROVE  cs[k][x] = g[lo[k] + x - 1] /\ (x > 1 => g[lo[k] + x - 1].consecutive)
    OBVIOUS
  <2>1. cs[k] = runs[p[k]] /\ p[k] \in 1..m
    BY <1>10
  <2>2. lo[k] = cut[p[k]]
    BY <1>12
  <2>3. x \in 1..Len(runs[p[k]])
    BY <2>1
  <2>4. runs[p[k]][x] = g[cut[p[k]] + x - 1] /\ (x > 1 => g[cut[p[k]] + x - 1].consecutive)
    BY <1>6, <2>1, <2>3
  <2> QED
    BY <2>1, <2>2, <2>4
<1>15. \A k, l \in 1..n : k < l => hi[k] < lo[l]
  <2> SUFFICES ASSUME NEW k \in 1..n, NEW l \in 1..n, k < l PROVE hi[k] < lo[l]
    OBVIOUS
  <2>1. p[k] < p[l] /\ p[k] \in 1..m /\ p[l] \in 1..m
    BY <1>9, <1>10
  <2>2. p[k] + 1 = p[l] \/ p[k] + 1 < p[l]
    BY <1>5, <2>1
  <2>3. p[k] + 1 \in 1..(m + 1) /\ p[l] \in 1..(m + 1)
    BY <1>10
  <2>4. cut[p[k] + 1] = cut[p[l]] \/ cut[p[k] + 1] < cut[p[l]]
    BY <1>6, <2>2, <2>3
  <2>5. cut[p[k] + 1] \in Nat /\ cut[p[l]] \in Nat
    BY <1>11, <2>1
  <2> QED
    BY <1>12, <2>4, <2>5
<1>16. ASSUME min <= 1, NEW y \in 1..Len(g) PROVE \E k \in 1..n : lo[k] <= y /\ y <= hi[k]
  <2>1. PICK j \in 1..m : cut[j] <= y /\ y < cut[j + 1]
    BY <1>6
  <2>2. cut[j] \in Nat /\ cut[j + 1] \in Nat /\ Len(runs[j]) = cut[j + 1] - cut[j] /\ cut[j] < cut[j + 1]
    BY <1>6, <1>11
  <2>3. Len(runs[j]) >= min
    <3>1. cut[j + 1] - cut[j] >= 1
      BY <2>2
    <3> QED
      BY <1>7, <1>16, <2>2, <3>1
  <2>4. j \in R
    BY <1>5, <2>3
  <2>5. PICK k \in 1..n : p[k] = j
    BY <1>9, <2>4
  <2>6. lo[k] = cut[j] /\ hi[k] = cut[j + 1] - 1
    BY <1>12, <2>5
  <2>7. lo[k] <= y /\ y <= hi[k]
    BY <1>1, <2>1, <2>2, <2>6
  <2> QED
    BY <2>7
<1> HIDE DEF R
<1>17. cs \in Seq(C) /\ Len(cs) = n
  BY <1>9
<1>18. RunsIn(cs, g, W, min, lo, hi)
  BY <1>12, <1>13, <1>14, <1>15, <1>16, <1>17 DEF RunsIn, C
<1> QED
  BY <1>4, <1>18 DEF g

\* A chain: words that follow each other without a gap.
GluedChain(c, W) ==
  c \in Seq(Picked(W)) /\ c # <<>> /\ \A x \in 2..Len(c) : c[x].start = EndOf(c[x - 1])

\* The words of the chains cs.
WordsOf(cs) == UNION {ToSet(cs[k]) : k \in DOMAIN cs}

\* What earliest-then-longest promises of a chunk.
GreedyChains(cs, hits, min) ==
  /\ \A a, b \in WordsOf(cs) : a = b \/ ~Overlap(a, b)
  /\ \A c, d \in ToSet(cs) : EndOf(Last(c)) # d[1].start
  /\ \A c \in ToSet(cs) : Len(c) >= min
  /\ \A a \in WordsOf(cs), m \in ToSet(hits) : m.start = a.start => Len(m.word) <= Len(a.word)
  /\ min <= 1 => \A m \in ToSet(hits) : \E a \in WordsOf(cs) : a.start <= m.start /\ m.start < EndOf(a)

\* The chains of apply_etl_cb have their words in order, and are whole runs.
LEMMA EtlChains ==
  ASSUME NEW W, NEW hits, RawOf(hits, W), NEW min \in Nat \ {0}
  PROVE  LET cs == Etl(hits, min) IN
         /\ cs \in Seq(Seq(Picked(W))) /\ GreedyChains(cs, hits, min)
         /\ \A k \in 1..Len(cs) : GluedChain(cs[k], W) /\ Len(cs[k]) >= min
         /\ \A k \in 1..Len(cs) : \A x \in 1..Len(cs[k]) : \E m \in ToSet(hits) :
              m.start = cs[k][x].start /\ m.word = cs[k][x].word
         /\ \A k, l \in 1..Len(cs) : k < l => cs[k][1].start <= cs[l][1].start
<1> DEFINE g == Greedy(hits)
           cs == Etl(hits, min)
           n == Len(cs)
<1>1. /\ g \in Seq(Picked(W)) /\ Apart(g) /\ MarksRuns(g)
      /\ \A r \in 1..Len(g) : g[r].start \in Starts(hits) /\ g[r].word = BestAt(hits, g[r].start)
      /\ \A x \in Starts(hits) : \E r \in 1..Len(g) : g[r].start <= x /\ x < EndOf(g[r])
  BY GreedyIs
<1>2. PICK lo, hi : RunsIn(cs, g, W, min, lo, hi)
  BY EtlIs
<1> HIDE DEF g, cs
<1>3. /\ cs \in Seq(Seq(Picked(W))) /\ lo \in [1..n -> 1..Len(g)] /\ hi \in [1..n -> 1..Len(g)]
      /\ \A k \in 1..n : /\ lo[k] <= hi[k] /\ Len(cs[k]) = hi[k] - lo[k] + 1 /\ Len(cs[k]) >= min
                          /\ ~g[lo[k]].consecutive
      /\ \A k \in 1..n : \A x \in 1..Len(cs[k]) :
           cs[k][x] = g[lo[k] + x - 1] /\ (x > 1 => g[lo[k] + x - 1].consecutive)
      /\ \A k, l \in 1..n : k < l => hi[k] < lo[l]
      /\ min <= 1 => \A p \in 1..Len(g) : \E k \in 1..n : lo[k] <= p /\ p <= hi[k]
  BY <1>2 DEF RunsIn
<1>4. /\ Len(g) \in Nat /\ n \in Nat /\ DOMAIN cs = 1..n /\ (\A k \in 1..n : cs[k] \in Seq(Picked(W)))
      /\ \A r \in 1..Len(g) : g[r] \in Picked(W)
  <2>1. Len(g) \in Nat /\ \A r \in 1..Len(g) : g[r] \in Picked(W)
    BY <1>1, ElementOfSeq
  <2> DEFINE S == Seq(Picked(W))
  <2>2. cs \in Seq(S)
    BY <1>3
  <2> HIDE DEF S
  <2>3. n \in Nat /\ DOMAIN cs = 1..n
    BY <2>2
  <2>4. \A k \in 1..n : cs[k] \in S
    BY <2>2, ElementOfSeq
  <2> QED
    BY <2>1, <2>3, <2>4 DEF S
<1>5. \A r \in 1..Len(g) : /\ g[r].start \in Nat /\ g[r].word \in W /\ Len(g[r].word) \in Nat
                           /\ EndOf(g[r]) \in Nat /\ g[r].start < EndOf(g[r])
  <2> SUFFICES ASSUME NEW r \in 1..Len(g)
               PROVE  /\ g[r].start \in Nat /\ g[r].word \in W /\ Len(g[r].word) \in Nat
                      /\ EndOf(g[r]) \in Nat /\ g[r].start < EndOf(g[r])
    OBVIOUS
  <2>1. g[r].start \in Nat /\ g[r].word \in W
    BY <1>4 DEF Picked
  <2>2. Len(g[r].word) \in Nat /\ Len(g[r].word) # 0
    BY <2>1 DEF RawOf
  <2>3. EndOf(g[r]) = g[r].start + Len(g[r].word)
    BY DEF EndOf
  <2> QED
    BY <2>1, <2>2, <2>3
<1>6. \A k \in 1..n : /\ lo[k] \in 1..Len(g) /\ hi[k] \in 1..Len(g) /\ Len(cs[k]) \in Nat \ {0}
                      /\ lo[k] + Len(cs[k]) - 1 = hi[k]
                      /\ \A x \in 1..Len(cs[k]) : lo[k] + x - 1 \in lo[k]..hi[k] /\ lo[k] + x - 1 \in 1..Len(g)
  <2> SUFFICES ASSUME NEW k \in 1..n
               PROVE  /\ lo[k] \in 1..Len(g) /\ hi[k] \in 1..Len(g) /\ Len(cs[k]) \in Nat \ {0}
                      /\ lo[k] + Len(cs[k]) - 1 = hi[k]
                      /\ \A x \in 1..Len(cs[k]) : lo[k] + x - 1 \in lo[k]..hi[k] /\ lo[k] + x - 1 \in 1..Len(g)
    OBVIOUS
  <2> DEFINE a == lo[k]
             b == hi[k]
             c == Len(cs[k])
  <2>1. a \in 1..Len(g) /\ b \in 1..Len(g) /\ a <= b /\ c = b - a + 1
    BY <1>3
  <2> HIDE DEF a, b, c
  <2>2. c \in Nat \ {0} /\ a + c - 1 = b
    BY <1>4, <2>1
  <2>3. \A x \in 1..c : a + x - 1 \in a..b /\ a + x - 1 \in 1..Len(g)
    BY <1>4, <2>1, <2>2
  <2> QED
    BY <2>1, <2>2, <2>3 DEF a, b, c
<1>7. ASSUME NEW k \in 1..n PROVE GluedChain(cs[k], W)
  <2>1. cs[k] \in Seq(Picked(W)) /\ cs[k] # <<>>
    BY <1>4, <1>6, EmptySeq
  <2>2. ASSUME NEW x \in 2..Len(cs[k]) PROVE cs[k][x].start = EndOf(cs[k][x - 1])
    <3> DEFINE r == lo[k] + x - 1
    <3>1. x \in 1..Len(cs[k]) /\ x - 1 \in 1..Len(cs[k]) /\ x > 1
      BY <1>6
    <3>2. cs[k][x] = g[r] /\ g[r].consecutive /\ r \in 1..Len(g) /\ cs[k][x - 1] = g[lo[k] + (x - 1) - 1]
      <4>1. cs[k][x] = g[r] /\ g[r].consecutive
        BY <1>3, <3>1
      <4>2. r \in 1..Len(g)
        BY <1>6, <3>1
      <4>3. cs[k][x - 1] = g[lo[k] + (x - 1) - 1]
        BY <1>3, <3>1
      <4> QED
        BY <4>1, <4>2, <4>3
    <3>3. lo[k] + (x - 1) - 1 = r - 1
      <4>1. lo[k] \in Int /\ x \in Int
        BY <1>6
      <4> QED
        BY <4>1
    <3> HIDE DEF r
    <3>4. g[r].consecutive = (r > 1 /\ g[r].start = EndOf(g[r - 1]))
      BY <1>1, <3>2 DEF MarksRuns
    <3>5. g[r].start = EndOf(g[r - 1])
      BY <3>2, <3>4, Zenon
    <3> QED
      BY <3>2, <3>3, <3>5
  <2> QED
    BY <2>1, <2>2 DEF GluedChain
<1>8. ASSUME NEW k \in 1..n, NEW x \in 1..Len(cs[k])
      PROVE  \E m \in ToSet(hits) : m.start = cs[k][x].start /\ m.word = cs[k][x].word
  <2>1. cs[k][x] = g[lo[k] + x - 1] /\ lo[k] + x - 1 \in 1..Len(g)
    <3>1. cs[k][x] = g[lo[k] + x - 1]
      BY <1>3
    <3>2. lo[k] + x - 1 \in 1..Len(g)
      BY <1>6
    <3> QED
      BY <3>1, <3>2
  <2>2. cs[k][x].start \in Starts(hits) /\ cs[k][x].word = BestAt(hits, cs[k][x].start)
    BY <1>1, <2>1
  <2> QED
    BY <2>2, BestAtIs
<1>9. ASSUME NEW k \in 1..n, NEW l \in 1..n, k < l PROVE cs[k][1].start <= cs[l][1].start
  <2>1. 1 \in 1..Len(cs[k]) /\ 1 \in 1..Len(cs[l]) /\ lo[k] + 1 - 1 = lo[k] /\ lo[l] + 1 - 1 = lo[l]
    BY <1>6
  <2>2. cs[k][1] = g[lo[k]] /\ cs[l][1] = g[lo[l]]
    BY <1>3, <2>1
  <2>3. lo[k] < lo[l] /\ lo[k] \in 1..Len(g) /\ lo[l] \in 1..Len(g)
    <3>1. lo[k] <= hi[k] /\ hi[k] < lo[l]
      BY <1>3, <1>9
    <3> QED
      BY <1>6, <3>1
  <2>4. EndOf(g[lo[k]]) <= g[lo[l]].start
    BY <1>1, <2>3 DEF Apart
  <2> QED
    BY <1>5, <2>2, <2>3, <2>4
<1>10. \A a \in WordsOf(cs) : \E k \in 1..n : \E r \in lo[k]..hi[k] : r \in 1..Len(g) /\ a = g[r]
  <2> SUFFICES ASSUME NEW a \in WordsOf(cs)
               PROVE  \E k \in 1..n : \E r \in lo[k]..hi[k] : r \in 1..Len(g) /\ a = g[r]
    OBVIOUS
  <2>1. PICK k \in 1..n : a \in ToSet(cs[k])
    BY <1>4 DEF WordsOf
  <2>2. PICK x \in 1..Len(cs[k]) : a = cs[k][x]
    <3>1. DOMAIN cs[k] = 1..Len(cs[k])
      BY <1>4
    <3> QED
      BY <2>1, <3>1 DEF ToSet
  <2>3. a = g[lo[k] + x - 1]
    BY <1>3, <2>2
  <2> QED
    BY <1>6, <2>3
<1>11. \A k \in 1..n : \A r \in lo[k]..hi[k] : g[r] \in WordsOf(cs)
  <2> SUFFICES ASSUME NEW k \in 1..n, NEW r \in lo[k]..hi[k] PROVE g[r] \in WordsOf(cs)
    OBVIOUS
  <2> DEFINE x == r - lo[k] + 1
  <2>1. x \in 1..Len(cs[k]) /\ lo[k] + x - 1 = r
    <3>1. lo[k] \in Int /\ hi[k] \in Int /\ lo[k] + Len(cs[k]) - 1 = hi[k] /\ Len(cs[k]) \in Nat
      BY <1>6
    <3> QED
      BY <3>1
  <2> HIDE DEF x
  <2>2. cs[k][x] = g[r]
    BY <1>3, <2>1
  <2>3. g[r] \in ToSet(cs[k])
    <3>1. DOMAIN cs[k] = 1..Len(cs[k])
      BY <1>4
    <3> QED
      BY <2>1, <2>2, <3>1 DEF ToSet
  <2> QED
    BY <1>4, <2>3 DEF WordsOf
<1>12. ASSUME NEW a \in WordsOf(cs), NEW b \in WordsOf(cs), a # b PROVE ~Overlap(a, b)
  <2>1. PICK r \in 1..Len(g) : a = g[r]
    BY <1>10
  <2>2. PICK s \in 1..Len(g) : b = g[s]
    BY <1>10
  <2>3. r < s \/ s < r
    BY <1>4, <1>12, <2>1, <2>2
  <2>4. EndOf(a) <= b.start \/ EndOf(b) <= a.start
    BY <1>1, <2>1, <2>2, <2>3 DEF Apart
  <2>5. EndOf(a) \in Nat /\ EndOf(b) \in Nat /\ a.start \in Nat /\ b.start \in Nat
    BY <1>5, <2>1, <2>2
  <2> QED
    BY <2>4, <2>5 DEF Overlap
<1>13. ASSUME NEW k \in 1..n, NEW l \in 1..n PROVE EndOf(Last(cs[k])) # cs[l][1].start
  <2> DEFINE r == hi[k]
             s == lo[l]
  <2>1. Last(cs[k]) = g[r]
    <3>1. Last(cs[k]) = cs[k][Len(cs[k])] /\ Len(cs[k]) \in 1..Len(cs[k])
      BY <1>6 DEF Last
    <3>2. cs[k][Len(cs[k])] = g[lo[k] + Len(cs[k]) - 1]
      BY <1>3, <3>1
    <3>3. lo[k] + Len(cs[k]) - 1 = r
      BY <1>6
    <3> QED
      BY <3>1, <3>2, <3>3
  <2>2. cs[l][1] = g[s]
    <3>1. 1 \in 1..Len(cs[l]) /\ s + 1 - 1 = s
      BY <1>6
    <3> QED
      BY <1>3, <3>1
  <2>3. r \in 1..Len(g) /\ s \in 1..Len(g)
    BY <1>6
  <2>4. g[s].consecutive = (s > 1 /\ g[s].start = EndOf(g[s - 1])) /\ ~g[s].consecutive
    BY <1>1, <1>3, <2>3 DEF MarksRuns
  <2>5. ~(s > 1 /\ g[s].start = EndOf(g[s - 1]))
    BY <2>4, Zenon
  <2> HIDE DEF r, s
  <2>6. CASE s <= r
    <3>1. g[s].start <= g[r].start
      <4>1. s = r \/ EndOf(g[s]) <= g[r].start
        BY <1>1, <2>3, <2>6 DEF Apart
      <4> QED
        BY <1>5, <2>3, <4>1
    <3>2. g[s].start < EndOf(g[r])
      BY <1>5, <2>3, <3>1
    <3> QED
      BY <1>5, <2>1, <2>2, <2>3, <3>2
  <2>7. CASE s = r + 1
    <3>1. s > 1 /\ s - 1 = r
      BY <2>3, <2>7
    <3> QED
      BY <2>1, <2>2, <2>5, <3>1
  <2>8. CASE s > r + 1
    <3>1. r + 1 \in 1..Len(g) /\ r < r + 1 /\ r + 1 < s
      BY <1>4, <2>3, <2>8
    <3>2. EndOf(g[r]) <= g[r + 1].start /\ EndOf(g[r + 1]) <= g[s].start
      BY <1>1, <2>3, <3>1 DEF Apart
    <3>3. g[r + 1].start < EndOf(g[r + 1]) /\ g[r + 1].start \in Nat /\ EndOf(g[r + 1]) \in Nat
      BY <1>5, <3>1
    <3>4. EndOf(g[r]) < g[s].start
      BY <1>5, <2>3, <3>2, <3>3
    <3> QED
      BY <1>5, <2>1, <2>2, <2>3, <3>4
  <2>9. s <= r \/ s = r + 1 \/ s > r + 1
    BY <2>3
  <2> QED
    BY <2>6, <2>7, <2>8, <2>9
<1>14. ASSUME NEW a \in WordsOf(cs), NEW m \in ToSet(hits), m.start = a.start PROVE Len(m.word) <= Len(a.word)
  <2>1. PICK r \in 1..Len(g) : a = g[r]
    BY <1>10
  <2>2. a.start \in Starts(hits) /\ a.word = BestAt(hits, a.start)
    BY <1>1, <2>1
  <2> QED
    BY <1>14, <2>2, BestAtIs
<1>15. ASSUME min <= 1, NEW m \in ToSet(hits)
       PROVE  \E a \in WordsOf(cs) : a.start <= m.start /\ m.start < EndOf(a)
  <2>1. m.start \in Starts(hits)
    BY StartsAre
  <2>2. PICK r \in 1..Len(g) : g[r].start <= m.start /\ m.start < EndOf(g[r])
    BY <1>1, <2>1
  <2>3. PICK k \in 1..n : lo[k] <= r /\ r <= hi[k]
    BY <1>3, <1>15
  <2>4. r \in lo[k]..hi[k]
    <3>1. lo[k] \in Int /\ hi[k] \in Int
      BY <1>6
    <3> QED
      BY <2>3, <3>1
  <2>5. g[r] \in WordsOf(cs)
    BY <1>11, <2>4
  <2> QED
    BY <2>2, <2>5
<1>16. ToSet(cs) = {cs[k] : k \in 1..n}
  BY <1>4 DEF ToSet
<1>17. GreedyChains(cs, hits, min)
  <2>1. \A c \in ToSet(cs) : Len(c) >= min
    BY <1>3, <1>16
  <2>2. \A c, d \in ToSet(cs) : EndOf(Last(c)) # d[1].start
    BY <1>13, <1>16
  <2>3. \A a, b \in WordsOf(cs) : a = b \/ ~Overlap(a, b)
    BY <1>12
  <2> QED
    BY <1>14, <1>15, <2>1, <2>2, <2>3 DEF GreedyChains
<1> QED
  BY <1>3, <1>7, <1>8, <1>9, <1>17 DEF cs

-----------------------------------------------------------------------------
(* Phrases: what the scanner makes of a chain.                             *)

\* Words have letters.
WordsOK(W) == \A w \in W : Len(w) \in Nat /\ Len(w) # 0

\* The phrase of a chain, and of its first k words.
FirstWords(c, k) == [start |-> c[1].start, words |-> [j \in 1..k |-> c[j].word]]

PhraseOf(c) == [start |-> c[1].start, words |-> [j \in DOMAIN c |-> c[j].word]]

PhrasesOver(W) == [start : Nat, words : Seq(W)]

\* The words of a chain, one after the other.
LEMMA ChainIs ==
  ASSUME NEW W, WordsOK(W), NEW c, GluedChain(c, W)
  PROVE  /\ Len(c) \in Nat \ {0} /\ DOMAIN c = 1..Len(c) /\ PhraseOf(c) = FirstWords(c, Len(c))
         /\ \A k \in 1..Len(c) : /\ c[k].start \in Nat /\ c[k].word \in W /\ EndOf(c[k]) \in Nat
                                 /\ c[k].start < EndOf(c[k])
         /\ \A k \in 2..Len(c) : c[k].start = EndOf(c[k - 1]) /\ k - 1 \in 1..Len(c)
         /\ \A k, m \in 1..Len(c) : k < m => EndOf(c[k]) <= c[m].start
<1> DEFINE n == Len(c)
<1>1. c \in Seq(Picked(W)) /\ c # <<>> /\ \A k \in 2..n : c[k].start = EndOf(c[k - 1])
  BY DEF GluedChain
<1>2. n \in Nat \ {0} /\ DOMAIN c = 1..n
  BY <1>1, EmptySeq
<1>3. \A k \in 1..n : c[k] \in Picked(W)
  BY <1>1, ElementOfSeq
<1>4. \A k \in 1..n : /\ c[k].start \in Nat /\ c[k].word \in W /\ EndOf(c[k]) \in Nat
                      /\ c[k].start < EndOf(c[k])
  <2> SUFFICES ASSUME NEW k \in 1..n
               PROVE  /\ c[k].start \in Nat /\ c[k].word \in W /\ EndOf(c[k]) \in Nat
                      /\ c[k].start < EndOf(c[k])
    OBVIOUS
  <2>1. c[k].start \in Nat /\ c[k].word \in W
    BY <1>3 DEF Picked
  <2>2. Len(c[k].word) \in Nat /\ Len(c[k].word) # 0
    BY <2>1 DEF WordsOK
  <2>3. EndOf(c[k]) = c[k].start + Len(c[k].word)
    BY DEF EndOf
  <2> QED
    BY <2>1, <2>2, <2>3
<1> HIDE DEF n
<1>5. \A k \in 2..n : k - 1 \in 1..n
  BY <1>2
<1> DEFINE T == {m \in 0..n : \A k \in 1..n : k < m => EndOf(c[k]) <= c[m].start}
<1>6. \A m \in 0..n : m \in T
  <2>1. 0 \in T
    BY <1>2
  <2>2. ASSUME NEW m \in 1..n, m - 1 \in T PROVE m \in T
    <3>1. m \in 0..n
      OBVIOUS
    <3> SUFFICES ASSUME NEW k \in 1..n, k < m PROVE EndOf(c[k]) <= c[m].start
      BY <3>1
    <3>2. m \in 2..n /\ m - 1 \in 1..n
      BY <1>2
    <3>3. c[m].start = EndOf(c[m - 1])
      BY <1>1, <3>2 DEF n
    <3>4. CASE k = m - 1
      BY <1>4, <3>2, <3>3, <3>4
    <3>5. CASE k < m - 1
      <4>1. EndOf(c[k]) <= c[m - 1].start
        BY <2>2, <3>5
      <4>2. c[m - 1].start < EndOf(c[m - 1]) /\ c[m - 1].start \in Nat /\ EndOf(c[m - 1]) \in Nat /\ EndOf(c[k]) \in Nat
        BY <1>4, <3>2
      <4> QED
        BY <3>3, <4>1, <4>2
    <3> QED
      BY <1>2, <3>4, <3>5
  <2> HIDE DEF T
  <2> QED
    BY <1>2, <2>1, <2>2, UpTo
<1>7. \A k, m \in 1..n : k < m => EndOf(c[k]) <= c[m].start
  <2>1. \A m \in 1..n : m \in 0..n
    OBVIOUS
  <2> QED
    BY <1>6, <2>1
<1>8. PhraseOf(c) = FirstWords(c, n)
  BY <1>2 DEF PhraseOf, FirstWords
<1> QED
  BY <1>1, <1>2, <1>4, <1>5, <1>7, <1>8 DEF n

\* A phrase with one word more.
LEMMA OneWordMore ==
  ASSUME NEW a, NEW s, NEW v
  PROVE  WithWord([start |-> a, words |-> s], v) = [start |-> a, words |-> Append(s, v)]
BY DEF WithWord

\* The first words of a chain make a phrase; a word more is appended.
LEMMA FirstWordsAre ==
  ASSUME NEW W, WordsOK(W), NEW c, GluedChain(c, W), NEW k \in 1..Len(c)
  PROVE  /\ FirstWords(c, k) \in PhrasesOver(W)
         /\ k = 1 => FirstWords(c, k) = [start |-> c[k].start, words |-> <<c[k].word>>]
         /\ k > 1 => FirstWords(c, k) = WithWord(FirstWords(c, k - 1), c[k].word)
<1>1. /\ Len(c) \in Nat \ {0} /\ \A j \in 1..Len(c) : c[j].start \in Nat /\ c[j].word \in W
  BY ChainIs
<1> DEFINE ws(n) == [j \in 1..n |-> c[j].word]
<1>2. \A n \in 0..Len(c) : ws(n) \in Seq(W) /\ Len(ws(n)) = n
  <2> SUFFICES ASSUME NEW n \in 0..Len(c) PROVE ws(n) \in Seq(W) /\ Len(ws(n)) = n
    OBVIOUS
  <2>1. n \in Nat /\ \A j \in 1..n : c[j].word \in W
    BY <1>1
  <2> QED
    BY <2>1
<1>3. FirstWords(c, k) = [start |-> c[1].start, words |-> ws(k)]
  BY DEF FirstWords
<1>4. k \in 0..Len(c) /\ 1 \in 1..Len(c)
  BY <1>1
<1>5. FirstWords(c, k) \in PhrasesOver(W)
  <2> HIDE DEF ws
  <2> QED
    BY <1>1, <1>2, <1>3, <1>4 DEF PhrasesOver
<1>6. ASSUME k = 1 PROVE FirstWords(c, k) = [start |-> c[k].start, words |-> <<c[k].word>>]
  <2>1. ws(1) = <<c[1].word>>
    OBVIOUS
  <2> HIDE DEF ws
  <2> QED
    BY <1>3, <1>6, <2>1
<1>7. ASSUME k > 1 PROVE FirstWords(c, k) = WithWord(FirstWords(c, k - 1), c[k].word)
  <2>1. FirstWords(c, k - 1) = [start |-> c[1].start, words |-> ws(k - 1)]
    BY DEF FirstWords
  <2>2. ws(k) = Append(ws(k - 1), c[k].word)
    <3>1. k - 1 \in 0..Len(c) /\ c[k].word \in W
      BY <1>1, <1>7
    <3>2. ws(k) \in Seq(W) /\ Len(ws(k)) = k /\ ws(k - 1) \in Seq(W) /\ Len(ws(k - 1)) = k - 1
      BY <1>2, <1>4, <3>1
    <3>3. /\ \A j \in 1..k : ws(k)[j] = c[j].word
          /\ \A j \in 1..(k - 1) : ws(k - 1)[j] = c[j].word
      OBVIOUS
    <3> DEFINE s == ws(k)
               t == ws(k - 1)
               u == Append(t, c[k].word)
    <3> HIDE DEF ws
    <3>4. u \in Seq(W) /\ Len(u) = k - 1 + 1 /\ u[k - 1 + 1] = c[k].word /\ \A j \in 1..(k - 1) : u[j] = t[j]
      BY <3>1, <3>2, Appended
    <3>5. Len(u) = k /\ u[k] = c[k].word /\ \A j \in 1..k : j = k \/ j \in 1..(k - 1)
      BY <3>4
    <3> HIDE DEF u
    <3>6. \A j \in 1..k : s[j] = u[j]
      BY <3>3, <3>4, <3>5
    <3> HIDE DEF s, t
    <3>7. s = u
      BY <3>2, <3>4, <3>5, <3>6, SameSeq DEF s, t
    <3> QED
      BY <3>7 DEF s, t, u
  <2> DEFINE a == c[1].start
             s == ws(k - 1)
             p == FirstWords(c, k - 1)
             v == c[k].word
  <2>3. p = [start |-> a, words |-> s] /\ FirstWords(c, k) = [start |-> a, words |-> Append(s, v)]
    <3> HIDE DEF ws
    <3> QED
      BY <1>3, <2>1, <2>2
  <2> HIDE DEF a, s, p, v, ws
  <2>4. WithWord([start |-> a, words |-> s], v) = [start |-> a, words |-> Append(s, v)]
    BY OneWordMore
  <2>5. FirstWords(c, k) = WithWord(p, v)
    BY <2>3, <2>4
  <2> QED
    BY <2>5 DEF p, v
<1> QED
  BY <1>5, <1>6, <1>7

-----------------------------------------------------------------------------
(* What the policy and the scanner make of each chunk.                     *)

HitsOf(W) == Seq([start : Nat, word : W])

\* The chains of a chunk, and the phrases of a chunk's chains.
MadeBy(in) == [hits \in HitsOf(in.dict) |-> Chains(in.policy, hits, in.minPhrase)]

WrittenOf(cs) == FlattenSeq([k \in DOMAIN cs |-> ProcessWords(cs[k])])

WrittenBy(in) == [hits \in HitsOf(in.dict) |-> WrittenOf(Chains(in.policy, hits, in.minPhrase))]

RangeOf(F) == {F[x] : x \in DOMAIN F}

ChunkChains ==
  /\ combos \in Seq(RangeOf(MadeBy(input))) /\ EachOf(combos, MadeBy(input), found)
  /\ output \in Seq(RangeOf(WrittenBy(input))) /\ EachOf(output, WrittenBy(input), found)

\* Before the first chunk there are no chains.
LEMMA ChunkChainsBegin ==
  ASSUME ChunkedInit
  PROVE  ChunkChains
<1>1. combos = <<>> /\ output = <<>> /\ found = <<>>
  BY DEF ChunkedInit
<1>2. \A T : <<>> \in Seq(T)
  OBVIOUS
<1>3. Len(<<>>) = 0 /\ \A k \in 1..0 : FALSE
  OBVIOUS
<1>4. \A F : EachOf(<<>>, F, <<>>)
  BY <1>3 DEF EachOf
<1> QED
  BY <1>1, <1>2, <1>4 DEF ChunkChains

\* The chains and phrases of a chunk come from its matches alone.
LEMMA ProcessChunkMakesChains ==
  ASSUME ChunkedText, ChunkedText', ChunkChains, ProcessChunk, UNCHANGED input
  PROVE  ChunkChains'
<1> DEFINE h == RealMatches(MapPackage(NextPackage[1]))
           S == HitsOf(input.dict)
           F == MadeBy(input)
           G == WrittenBy(input)
<1>1. /\ found' = Append(found, h)
      /\ combos' = Append(combos, Chains(input.policy, h, input.minPhrase))
      /\ output' = Append(output, WrittenOf(Chains(input.policy, h, input.minPhrase)))
  BY DEF ProcessChunk, WrittenOf
<1>2. found \in Seq(S) /\ found' \in Seq(S)
  BY DEF ChunkedText, HitsOf
<1>3. h \in S
  <2>1. Len(found) \in Nat
    BY <1>2
  <2>2. Len(Append(found, h)) = Len(found) + 1 /\ Append(found, h)[Len(found) + 1] = h
    BY <1>2
  <2>3. Len(found) + 1 \in 1..Len(found')
    BY <1>1, <2>1, <2>2
  <2> HIDE DEF S, h
  <2> QED
    BY <1>1, <1>2, <2>2, <2>3, ElementOfSeq
<1>4. F[h] = Chains(input.policy, h, input.minPhrase) /\ G[h] = WrittenOf(Chains(input.policy, h, input.minPhrase))
  BY <1>3 DEF MadeBy, WrittenBy
<1>5. F \in [S -> RangeOf(F)] /\ G \in [S -> RangeOf(G)]
  BY DEF MadeBy, WrittenBy, RangeOf
<1>6. input' = input /\ MadeBy(input)' = F /\ WrittenBy(input)' = G
  OBVIOUS
<1> HIDE DEF F, G, h, S
<1>7. /\ combos \in Seq(RangeOf(F)) /\ EachOf(combos, F, found)
      /\ output \in Seq(RangeOf(G)) /\ EachOf(output, G, found)
  BY DEF ChunkChains, F, G
<1>8. Append(combos, F[h]) \in Seq(RangeOf(F)) /\ EachOf(Append(combos, F[h]), F, Append(found, h))
  BY <1>2, <1>3, <1>5, <1>7, OneMoreOfEach
<1>9. Append(output, G[h]) \in Seq(RangeOf(G)) /\ EachOf(Append(output, G[h]), G, Append(found, h))
  BY <1>2, <1>3, <1>5, <1>7, OneMoreOfEach
<1>10. combos' \in Seq(RangeOf(F)) /\ EachOf(combos', F, found')
  BY <1>1, <1>4, <1>8
<1>11. output' \in Seq(RangeOf(G)) /\ EachOf(output', G, found')
  BY <1>1, <1>4, <1>9
<1> QED
  BY <1>6, <1>10, <1>11 DEF ChunkChains

\* The steps of the serial run leave them as they are.
LEMMA ChunkChainsHold == ScanSpec => []ChunkChains
<1>1. ScanInit => ChunkChains
  BY ChunkChainsBegin DEF ScanInit
<1>2. ScanInv /\ ScanInv' /\ ChunkChains /\ [ModesStep]_scanVars => ChunkChains'
  <2> SUFFICES ASSUME ScanInv, ScanInv', ChunkChains, [ModesStep]_scanVars PROVE ChunkChains'
    OBVIOUS
  <2>1. ASSUME UNCHANGED <<input, combos, output, found>> PROVE ChunkChains'
    <3>1. input' = input /\ combos' = combos /\ output' = output /\ found' = found
      BY <2>1
    <3>2. MadeBy(input)' = MadeBy(input) /\ WrittenBy(input)' = WrittenBy(input)
      BY <3>1
    <3> QED
      BY <3>1, <3>2 DEF ChunkChains
  <2>2. CASE SerialStep /\ UNCHANGED <<input, chunkedVars>>
    BY <2>1, <2>2 DEF chunkedVars
  <2>3. CASE serialPc = "done" /\ ChunkedStep /\ UNCHANGED <<input, serialVars>>
    <3>1. CASE ProcessChunk
      BY <2>3, <3>1, ProcessChunkMakesChains DEF ScanInv
    <3>2. CASE ChunksEnd
      BY <2>1, <2>3, <3>2 DEF ChunksEnd
    <3> QED
      BY <2>3, <3>1, <3>2 DEF ChunkedStep
  <2>4. CASE UNCHANGED scanVars
    BY <2>1, <2>4 DEF scanVars, chunkedVars
  <2> QED
    BY <2>2, <2>3, <2>4 DEF ModesStep
<1> QED
  BY <1>1, <1>2, ScanInvHolds, PTL DEF ScanSpec

\* A chunk's chains are those of the policy for its matches.
LEMMA ChunkMade ==
  ASSUME ScanInv, ChunkChains, NEW n \in DOMAIN combos
  PROVE  /\ n \in 1..Len(found) /\ combos[n] = Chains(input.policy, found[n], input.minPhrase)
         /\ output[n] = WrittenOf(combos[n]) /\ RawOf(found[n], input.dict)
         /\ DOMAIN combos = 1..Len(found)
<1> DEFINE S == HitsOf(input.dict)
           F == MadeBy(input)
           G == WrittenBy(input)
<1>1. found \in Seq(S) /\ InputOK
  BY DEF ScanInv, ChunkedText, HitsOf
<1>2. combos \in Seq(RangeOf(F)) /\ Len(combos) = Len(found)
  BY DEF ChunkChains, EachOf
<1>3. DOMAIN combos = 1..Len(found)
  <2> HIDE DEF F
  <2>1. DOMAIN combos = 1..Len(combos)
    BY <1>2
  <2> QED
    BY <1>2, <2>1
<1>4. n \in 1..Len(found)
  BY <1>3
<1>5. found[n] \in S
  <2> HIDE DEF S
  <2> QED
    BY <1>1, <1>4, ElementOfSeq
<1>6. combos[n] = F[found[n]] /\ output[n] = G[found[n]]
  BY <1>4 DEF ChunkChains, EachOf
<1>7. /\ F[found[n]] = Chains(input.policy, found[n], input.minPhrase)
      /\ G[found[n]] = WrittenOf(Chains(input.policy, found[n], input.minPhrase))
  BY <1>5 DEF MadeBy, WrittenBy
<1>8. RawOf(found[n], input.dict)
  <2>1. \A w \in input.dict : Len(w) \in Nat /\ Len(w) # 0
    BY <1>1 DEF InputOK
  <2> QED
    BY <1>5, <2>1 DEF RawOf, HitsOf
<1> HIDE DEF F, G
<1> QED
  BY <1>3, <1>4, <1>6, <1>7, <1>8

\* Within a chunk earliest-then-longest chooses words that do not overlap, the
\* longest where it chooses, and keeps the whole runs (AhoCorasickCPU.cpp).
THEOREM EtlIsGreedyHolds == ScanSpec => []EtlIsGreedy
<1>1. ScanInv /\ ChunkChains => EtlIsGreedy
  <2> SUFFICES ASSUME ScanInv, ChunkChains, input.policy = "earliest-then-longest",
                      NEW n \in DOMAIN combos
               PROVE  GreedyChains(combos[n], found[n], input.minPhrase)
    BY DEF EtlIsGreedy, GreedyChains, Chosen, WordsOf
  <2>1. input.minPhrase \in Nat \ {0}
    BY DEF ScanInv, ChunkedText, InputOK
  <2>2. combos[n] = Chains(input.policy, found[n], input.minPhrase) /\ RawOf(found[n], input.dict)
    BY ChunkMade
  <2>3. combos[n] = Etl(found[n], input.minPhrase)
    BY <2>2 DEF Chains
  <2>4. GreedyChains(Etl(found[n], input.minPhrase), found[n], input.minPhrase)
    BY <2>1, <2>2, EtlChains
  <2> QED
    BY <2>3, <2>4
<1> QED
  BY <1>1, ScanInvHolds, ChunkChainsHold, PTL

\* Phrases are given by their start and their words.
LEMMA PhraseIs ==
  ASSUME NEW W, NEW p \in PhrasesOver(W)
  PROVE  p = [start |-> p.start, words |-> p.words] /\ p.start \in Nat /\ p.words \in Seq(W)
BY DEF PhrasesOver

\* A phrase with one word more is a phrase.
LEMMA OneMoreIs ==
  ASSUME NEW W, NEW p \in PhrasesOver(W), NEW v \in W
  PROVE  /\ WithWord(p, v) \in PhrasesOver(W)
         /\ WithWord(p, v) = [start |-> p.start, words |-> Append(p.words, v)]
<1> DEFINE a == p.start
           s == p.words
<1>1. p = [start |-> a, words |-> s] /\ a \in Nat /\ s \in Seq(W)
  BY PhraseIs
<1> HIDE DEF a, s
<1>2. WithWord([start |-> a, words |-> s], v) = [start |-> a, words |-> Append(s, v)]
  BY OneWordMore
<1>3. Append(s, v) \in Seq(W)
  BY <1>1
<1>4. [start |-> a, words |-> Append(s, v)] \in PhrasesOver(W)
  BY <1>1, <1>3 DEF PhrasesOver
<1> QED
  BY <1>1, <1>2, <1>4 DEF a, s

\* A new phrase of one word.
LEMMA NewPhraseIs ==
  ASSUME NEW W, NEW m, m.start \in Nat, m.word \in W
  PROVE  [start |-> m.start, words |-> <<m.word>>] \in PhrasesOver(W)
<1> DEFINE a == m.start
           v == m.word
<1>1. <<v>> \in Seq(W) /\ a \in Nat
  OBVIOUS
<1> HIDE DEF a, v
<1>2. [start |-> a, words |-> <<v>>] \in PhrasesOver(W)
  BY <1>1 DEF PhrasesOver
<1> QED
  BY <1>2 DEF a, v

\* What the scanner keeps while a chain streams through it.
Streams(W) == [out : Seq(PhrasesOver(W)), pending : {<<>>} \cup {<<p>> : p \in PhrasesOver(W)},
               pendingEnd : Nat]

\* A word begins a phrase or is appended to the pending one.
LEMMA StreamWordIs ==
  ASSUME NEW W, NEW acc \in Streams(W), NEW m, m.start \in Nat, m.word \in W, EndOf(m) \in Nat
  PROVE  /\ StreamWord(acc, m) \in Streams(W)
         /\ acc.pending = <<>> => StreamWord(acc, m) =
              [out |-> acc.out, pending |-> <<[start |-> m.start, words |-> <<m.word>>]>>,
               pendingEnd |-> EndOf(m)]
         /\ \A p \in PhrasesOver(W) : acc.pending = <<p>> /\ acc.pendingEnd = m.start =>
              StreamWord(acc, m) =
                [out |-> acc.out, pending |-> <<WithWord(p, m.word)>>, pendingEnd |-> EndOf(m)]
<1> DEFINE P == PhrasesOver(W)
           o == acc.out
           q == acc.pending
           e == acc.pendingEnd
           a == m.start
           v == m.word
           b == EndOf(m)
           new == [start |-> a, words |-> <<v>>]
<1>1. acc = [out |-> o, pending |-> q, pendingEnd |-> e] /\ o \in Seq(P) /\ q \in {<<>>} \cup {<<p>> : p \in P} /\ e \in Nat
  BY DEF Streams
<1>2. new \in P
  BY NewPhraseIs
<1>3. a \in Nat /\ v \in W /\ b \in Nat
  OBVIOUS
<1>4. \A p \in P : WithWord(p, v) \in P
  BY OneMoreIs
<1>5. CASE q = <<>>
  <2>1. StreamWord(acc, m) = [out |-> o \o q, pending |-> <<new>>, pendingEnd |-> b]
    BY <1>5 DEF StreamWord
  <2> HIDE DEF P, o, q, e, a, v, b, new
  <2>2. o \o q = o
    BY <1>1, <1>5
  <2>3. \A p \in P : q # <<p>>
    BY <1>5
  <2>4. [out |-> o, pending |-> <<new>>, pendingEnd |-> b] \in Streams(W)
    BY <1>1, <1>2, <1>3 DEF Streams, P
  <2> QED
    BY <2>1, <2>2, <2>3, <2>4 DEF P, o, q, e, a, v, b, new
<1>6. ASSUME NEW p \in P, q = <<p>>, e = a
      PROVE  StreamWord(acc, m) = [out |-> o, pending |-> <<WithWord(p, v)>>, pendingEnd |-> b]
  <2>1. a - e = 0 /\ q # <<>> /\ q[1] = p
    BY <1>3, <1>6
  <2>2. StreamWord(acc, m) = [out |-> o, pending |-> <<WithWord(q[1], v)>>, pendingEnd |-> b]
    BY <2>1 DEF StreamWord
  <2> QED
    BY <2>1, <2>2
<1>7. CASE q # <<>>
  <2>1. PICK p \in P : q = <<p>>
    BY <1>1, <1>7
  <2>2. CASE e = a
    <3>1. StreamWord(acc, m) = [out |-> o, pending |-> <<WithWord(p, v)>>, pendingEnd |-> b]
      BY <1>6, <2>1, <2>2
    <3> DEFINE t == WithWord(p, v)
    <3>2. t \in P
      BY <1>4
    <3> HIDE DEF P, o, q, e, a, v, b, new, t
    <3>3. [out |-> o, pending |-> <<t>>, pendingEnd |-> b] \in Streams(W)
      BY <1>1, <1>3, <3>2 DEF Streams, P
    <3>4. StreamWord(acc, m) \in Streams(W)
      BY <3>1, <3>3 DEF t
    <3> QED
      BY <1>6, <1>7, <3>4 DEF P, o, q, e, a, v, b, new
  <2>3. CASE e # a
    <3>1. a - e # 0
      BY <1>1, <1>3, <2>3
    <3>2. StreamWord(acc, m) = [out |-> o \o q, pending |-> <<new>>, pendingEnd |-> b]
      BY <3>1 DEF StreamWord
    <3> HIDE DEF P, o, q, e, a, v, b, new
    <3>3. q \in Seq(P)
      BY <2>1
    <3>4. o \o q \in Seq(P)
      BY <1>1, <3>3
    <3>5. [out |-> o \o q, pending |-> <<new>>, pendingEnd |-> b] \in Streams(W)
      BY <1>2, <1>3, <3>4 DEF Streams, P
    <3>6. StreamWord(acc, m) \in Streams(W)
      BY <3>2, <3>5
    <3> QED
      BY <1>7, <2>3, <3>6 DEF P, o, q, e, a, v, b, new
  <2> QED
    BY <2>2, <2>3
<1> QED
  BY <1>5, <1>7

NoStream == [out |-> <<>>, pending |-> <<>>, pendingEnd |-> 0]

StreamSteps(F, c, W) ==
  /\ F \in [0..Len(c) -> Streams(W)] /\ F[0] = NoStream
  /\ \A k \in 1..Len(c) : F[k] = StreamWord(F[k - 1], c[k])

\* A chain streams through the scanner word by word.
LEMMA StreamsStepwise ==
  ASSUME NEW W, WordsOK(W), NEW c, GluedChain(c, W)
  PROVE  \E F : StreamSteps(F, c, W) /\ Streamed(c) = F[Len(c)].out \o F[Len(c)].pending
<1> DEFINE n == Len(c)
           X == Streams(W)
           x0 == NoStream
           h == [k \in 1..n |-> [a \in X |-> StreamWord(a, c[k])]]
           Eq(f) == f = [s \in SUBSET DOMAIN c |->
                           IF s = {} THEN NoStream
                           ELSE StreamWord(f[s \ {Max(s)}], c[Max(s)])]
           It == CHOOSE f : Eq(f)
<1>0. /\ n \in Nat /\ DOMAIN c = 1..n
      /\ \A k \in 1..n : c[k].start \in Nat /\ c[k].word \in W /\ EndOf(c[k]) \in Nat
  BY ChainIs
<1>1. Streamed(c) = It[DOMAIN c].out \o It[DOMAIN c].pending
  BY DEF Streamed, NoStream, FoldLeft, MapThenFoldSet
<1>2. h \in [1..n -> [X -> X]] /\ \A k \in 1..n, a \in X : h[k][a] = StreamWord(a, c[k])
  <2>1. \A k \in 1..n, a \in X : StreamWord(a, c[k]) \in X
    <3> HIDE DEF n
    <3> QED
      BY <1>0, StreamWordIs
  <2> HIDE DEF X, n
  <2> QED
    BY <2>1
<1>3. x0 \in X
  BY DEF Streams, NoStream
<1> HIDE DEF X
<1>4. PICK A : FoldsOver(A, X, x0, h, n)
  <2> HIDE DEF h, n, x0
  <2> QED
    BY <1>0, <1>2, <1>3, FoldsExist
<1>5. Eq(A)
  <2>1. /\ A \in [SUBSET (1..n) -> X] /\ A[{}] = x0
        /\ \A s \in SUBSET (1..n) : s # {} => A[s] = h[Max(s)][A[s \ {Max(s)}]]
    BY <1>4 DEF FoldsOver
  <2>2. \A s \in SUBSET (1..n) : s # {} => Max(s) \in 1..n /\ s \ {Max(s)} \in SUBSET (1..n)
    BY <1>0, MaxIs
  <2> HIDE DEF h, n
  <2>3. \A s \in SUBSET (1..n) : s # {} => A[s] = StreamWord(A[s \ {Max(s)}], c[Max(s)])
    BY <1>2, <2>1, <2>2
  <2> QED
    BY <1>0, <2>1, <2>3
<1>6. Eq(It)
  <2> HIDE DEF Eq
  <2> QED
    BY <1>5
<1>7. It[{}] = x0
  <2> HIDE DEF It
  <2> QED
    BY <1>0, <1>6
<1>8. \A k \in 1..n : It[1..(k - 1)] \in X => It[1..k] = h[k][It[1..(k - 1)]]
  <2> SUFFICES ASSUME NEW k \in 1..n, It[1..(k - 1)] \in X PROVE It[1..k] = h[k][It[1..(k - 1)]]
    OBVIOUS
  <2>1. k \in Nat /\ k # 0 /\ 1..k \in SUBSET (1..n)
    BY <1>0
  <2>2. 1..k # {} /\ Max(1..k) = k /\ (1..k) \ {k} = 1..(k - 1)
    BY <2>1, MaxOfFirst
  <2> HIDE DEF It, n, h
  <2>3. It[1..k] = StreamWord(It[1..(k - 1)], c[k])
    BY <1>0, <1>6, <2>1, <2>2
  <2> QED
    BY <1>2, <2>3
<1>9. Reaches(It, X, x0, h, n)
  <2> HIDE DEF h, n, It
  <2> QED
    BY <1>7, <1>8 DEF Reaches
<1>10. PICK F : Stepwise(F, X, x0, h, n) /\ It[1..n] = F[n]
  <2> HIDE DEF h, n, It, x0
  <2> QED
    BY <1>0, <1>2, <1>3, <1>9, FoldReached
<1>11. F \in [0..n -> X] /\ F[0] = x0 /\ \A k \in 1..n : F[k] = h[k][F[k - 1]]
  BY <1>10 DEF Stepwise
<1>12. \A k \in 1..n : F[k] = StreamWord(F[k - 1], c[k])
  <2>1. \A k \in 1..n : F[k - 1] \in X
    <3>1. \A k \in 1..n : k - 1 \in 0..n
      BY <1>0
    <3> QED
      BY <1>11, <3>1
  <2> HIDE DEF h, n
  <2> QED
    BY <1>2, <1>11, <2>1
<1>13. Streamed(c) = F[n].out \o F[n].pending
  <2> HIDE DEF It, n
  <2> QED
    BY <1>0, <1>1, <1>10
<1>14. StreamSteps(F, c, W)
  BY <1>3, <1>11, <1>12 DEF StreamSteps, X
<1> QED
  BY <1>13, <1>14

\* A chain becomes one phrase, process_words_streaming.
LEMMA StreamedIs ==
  ASSUME NEW W, WordsOK(W), NEW c, GluedChain(c, W)
  PROVE  Streamed(c) = <<PhraseOf(c)>>
<1> DEFINE n == Len(c)
           Made(k) == [out |-> <<>>, pending |-> <<FirstWords(c, k)>>, pendingEnd |-> EndOf(c[k])]
<1>1. /\ n \in Nat \ {0} /\ PhraseOf(c) = FirstWords(c, n)
      /\ \A k \in 1..n : c[k].start \in Nat /\ c[k].word \in W /\ EndOf(c[k]) \in Nat
      /\ \A k \in 2..n : c[k].start = EndOf(c[k - 1]) /\ k - 1 \in 1..n
  BY ChainIs
<1>2. PICK F : StreamSteps(F, c, W) /\ Streamed(c) = F[n].out \o F[n].pending
  BY StreamsStepwise
<1>3. /\ F \in [0..n -> Streams(W)] /\ F[0] = NoStream
      /\ \A k \in 1..n : F[k] = StreamWord(F[k - 1], c[k])
  BY <1>2 DEF StreamSteps
<1> DEFINE T == {k \in 0..n : k = 0 \/ F[k] = Made(k)}
<1>4. \A k \in 0..n : k \in T
  <2>1. 0 \in T
    BY <1>1
  <2>2. ASSUME NEW k \in 1..n, k - 1 \in T PROVE k \in T
    <3> DEFINE acc == F[k - 1]
               m == c[k]
    <3>1. acc \in Streams(W) /\ F[k] = StreamWord(acc, m) /\ k \in 0..n
      <4>1. k - 1 \in 0..n
        BY <1>1
      <4> QED
        BY <1>3, <4>1
    <3>2. m.start \in Nat /\ m.word \in W /\ EndOf(m) \in Nat
      BY <1>1
    <3>3. CASE k = 1
      <4>1. acc = NoStream
        BY <1>3, <3>3
      <4>2. acc.pending = <<>> /\ acc.out = <<>>
        BY <4>1 DEF NoStream
      <4>3. FirstWords(c, k) = [start |-> m.start, words |-> <<m.word>>]
        BY <3>3, FirstWordsAre
      <4> HIDE DEF acc, m
      <4>4. StreamWord(acc, m) = [out |-> acc.out, pending |-> <<[start |-> m.start, words |-> <<m.word>>]>>,
                                  pendingEnd |-> EndOf(m)]
        BY <3>1, <3>2, <4>2, StreamWordIs
      <4>5. F[k] = Made(k)
        BY <3>1, <4>2, <4>3, <4>4 DEF m
      <4> QED
        BY <3>1, <4>5
    <3>4. CASE k # 1
      <4> DEFINE p == FirstWords(c, k - 1)
      <4>1. k \in 2..n /\ k > 1 /\ k - 1 \in 1..n /\ k - 1 # 0
        BY <1>1, <3>4
      <4>2. p \in PhrasesOver(W) /\ FirstWords(c, k) = WithWord(p, m.word)
        BY <4>1, FirstWordsAre
      <4>3. acc = Made(k - 1)
        BY <2>2, <4>1
      <4>4. acc.pending = <<p>> /\ acc.out = <<>> /\ acc.pendingEnd = EndOf(c[k - 1])
        BY <4>3
      <4>5. acc.pendingEnd = m.start
        BY <1>1, <4>1, <4>4
      <4> HIDE DEF acc, m, p
      <4>6. StreamWord(acc, m) = [out |-> acc.out, pending |-> <<WithWord(p, m.word)>>, pendingEnd |-> EndOf(m)]
        BY <3>1, <3>2, <4>2, <4>4, <4>5, StreamWordIs
      <4>7. F[k] = Made(k)
        BY <3>1, <4>2, <4>4, <4>6 DEF m
      <4> QED
        BY <3>1, <4>7
    <3> QED
      BY <3>3, <3>4
  <2> HIDE DEF T
  <2> QED
    BY <1>1, <2>1, <2>2, UpTo
<1>5. F[n] = Made(n)
  <2>1. n \in 0..n /\ n # 0
    BY <1>1
  <2>2. n \in T
    BY <1>4, <2>1
  <2> QED
    BY <2>1, <2>2
<1>6. F[n].out = <<>> /\ F[n].pending = <<PhraseOf(c)>>
  BY <1>1, <1>5
<1>7. <<>> \o <<PhraseOf(c)>> = <<PhraseOf(c)>>
  <2> DEFINE p == PhraseOf(c)
  <2> HIDE DEF p
  <2>1. <<>> \o <<p>> = <<p>>
    OBVIOUS
  <2> QED
    BY <2>1 DEF p
<1> QED
  BY <1>2, <1>6, <1>7

\* The stable sort of process_words, and a word of its two loops.
SortedBefore(c, a, b) == c[a].start < c[b].start \/ (c[a].start = c[b].start /\ a < b)

OrderOf(c) == [k \in DOMAIN c |->
                 CHOOSE b \in DOMAIN c : Cardinality({a \in DOMAIN c : SortedBefore(c, a, b)}) = k - 1]

PhraseStep(c, acc, k) ==
  IF acc.phrases # <<>> /\ c[k].start = acc.prevEnd
  THEN [phrases |-> Append(Front(acc.phrases), WithWord(Last(acc.phrases), c[k].word)),
        prevEnd |-> EndOf(c[k])]
  ELSE [phrases |-> Append(acc.phrases, [start |-> c[k].start, words |-> <<c[k].word>>]),
        prevEnd |-> EndOf(c[k])]

NoPhrases == [phrases |-> <<>>, prevEnd |-> 0]

\* The words of a chain are in order already.
LEMMA OrderIs ==
  ASSUME NEW W, WordsOK(W), NEW c, GluedChain(c, W)
  PROVE  OrderOf(c) = [k \in 1..Len(c) |-> k]
<1> DEFINE n == Len(c)
<1>1. /\ n \in Nat \ {0} /\ DOMAIN c = 1..n
      /\ \A k \in 1..n : c[k].start \in Nat /\ EndOf(c[k]) \in Nat /\ c[k].start < EndOf(c[k])
      /\ \A k, m \in 1..n : k < m => EndOf(c[k]) <= c[m].start
  BY ChainIs
<1>2. \A a, b \in 1..n : SortedBefore(c, a, b) <=> a < b
  <2> SUFFICES ASSUME NEW a \in 1..n, NEW b \in 1..n PROVE SortedBefore(c, a, b) <=> a < b
    OBVIOUS
  <2>1. /\ c[a].start \in Nat /\ EndOf(c[a]) \in Nat /\ c[a].start < EndOf(c[a])
        /\ c[b].start \in Nat /\ EndOf(c[b]) \in Nat /\ c[b].start < EndOf(c[b])
        /\ (a < b => EndOf(c[a]) <= c[b].start) /\ (b < a => EndOf(c[b]) <= c[a].start)
    BY <1>1
  <2>2. a \in Nat /\ b \in Nat
    BY <1>1
  <2>3. a < b => c[a].start < c[b].start
    BY <2>1
  <2>4. b < a => c[b].start < c[a].start
    BY <2>1
  <2>5. a = b \/ a < b \/ b < a
    BY <2>2
  <2> QED
    BY <2>1, <2>2, <2>3, <2>4, <2>5 DEF SortedBefore
<1> HIDE DEF n
<1>3. \A b \in 1..n : Cardinality({a \in 1..n : SortedBefore(c, a, b)}) = b - 1
  <2> SUFFICES ASSUME NEW b \in 1..n PROVE Cardinality({a \in 1..n : SortedBefore(c, a, b)}) = b - 1
    OBVIOUS
  <2>1. {a \in 1..n : SortedBefore(c, a, b)} = 1..(b - 1)
    <3>1. \A a \in 1..n : a < b <=> a \in 1..(b - 1)
      BY <1>1
    <3>2. \A a \in 1..(b - 1) : a \in 1..n
      BY <1>1
    <3> QED
      BY <1>2, <3>1, <3>2
  <2>2. Cardinality(1..(b - 1)) = b - 1
    <3>1. b - 1 \in Nat
      BY <1>1
    <3>2. Cardinality(1..(b - 1)) = IF 1 > b - 1 THEN 0 ELSE b - 1 - 1 + 1
      BY <3>1, FS_Interval
    <3> QED
      BY <3>1, <3>2
  <2> QED
    BY <2>1, <2>2
<1>4. \A k \in 1..n : (CHOOSE b \in 1..n : Cardinality({a \in 1..n : SortedBefore(c, a, b)}) = k - 1) = k
  <2> SUFFICES ASSUME NEW k \in 1..n
               PROVE  (CHOOSE b \in 1..n : Cardinality({a \in 1..n : SortedBefore(c, a, b)}) = k - 1) = k
    OBVIOUS
  <2> DEFINE g == CHOOSE b \in 1..n : Cardinality({a \in 1..n : SortedBefore(c, a, b)}) = k - 1
  <2>1. g \in 1..n /\ Cardinality({a \in 1..n : SortedBefore(c, a, g)}) = k - 1
    BY <1>3
  <2> HIDE DEF g
  <2>2. g - 1 = k - 1
    BY <1>3, <2>1
  <2>3. g = k
    BY <2>1, <2>2
  <2> QED
    BY <2>3 DEF g
<1>5. OrderOf(c) = [k \in 1..n |-> CHOOSE b \in 1..n : Cardinality({a \in 1..n : SortedBefore(c, a, b)}) = k - 1]
  BY <1>1 DEF OrderOf
<1> QED
  BY <1>4, <1>5 DEF n

\* Phrases found so far, with the end of the last one.
PhraseStates(W) == [phrases : Seq(PhrasesOver(W)), prevEnd : Nat]

\* A turn of the loop of process_words begins a phrase or appends to the last one.
LEMMA PhraseStepIs ==
  ASSUME NEW W, NEW c, NEW k, NEW acc \in PhraseStates(W), c[k].start \in Nat, c[k].word \in W, EndOf(c[k]) \in Nat
  PROVE  /\ PhraseStep(c, acc, k) \in PhraseStates(W)
         /\ acc.phrases = <<>> => PhraseStep(c, acc, k) =
              [phrases |-> <<[start |-> c[k].start, words |-> <<c[k].word>>]>>, prevEnd |-> EndOf(c[k])]
         /\ \A p \in PhrasesOver(W) : acc.phrases = <<p>> /\ acc.prevEnd = c[k].start =>
              PhraseStep(c, acc, k) = [phrases |-> <<WithWord(p, c[k].word)>>, prevEnd |-> EndOf(c[k])]
<1> DEFINE P == PhrasesOver(W)
           q == acc.phrases
           e == acc.prevEnd
           a == c[k].start
           v == c[k].word
           b == EndOf(c[k])
           new == [start |-> a, words |-> <<v>>]
<1>1. q \in Seq(P) /\ e \in Nat /\ b \in Nat
  BY DEF PhraseStates
<1>2. new \in P
  BY NewPhraseIs
<1>3. \A p \in P : WithWord(p, v) \in P
  BY OneMoreIs
<1>4. PhraseStep(c, acc, k) = IF q # <<>> /\ a = e
                             THEN [phrases |-> Append(Front(q), WithWord(Last(q), v)), prevEnd |-> b]
                             ELSE [phrases |-> Append(q, new), prevEnd |-> b]
  BY DEF PhraseStep
<1> HIDE DEF P, q, e, a, v, b, new
<1>5. PhraseStep(c, acc, k) \in PhraseStates(W)
  <2>1. CASE q # <<>> /\ a = e
    <3> DEFINE t == WithWord(Last(q), v)
    <3>1. Last(q) \in P /\ Front(q) \in Seq(P)
      BY <1>1, <2>1, LastIs
    <3>2. t \in P
      BY <1>3, <3>1
    <3> HIDE DEF t
    <3>3. Append(Front(q), t) \in Seq(P)
      BY <3>1, <3>2
    <3>4. [phrases |-> Append(Front(q), t), prevEnd |-> b] \in PhraseStates(W)
      BY <1>1, <3>3 DEF PhraseStates, P
    <3> QED
      BY <1>4, <2>1, <3>4 DEF t
  <2>2. CASE ~(q # <<>> /\ a = e)
    <3>1. Append(q, new) \in Seq(P)
      BY <1>1, <1>2
    <3>2. [phrases |-> Append(q, new), prevEnd |-> b] \in PhraseStates(W)
      BY <1>1, <3>1 DEF PhraseStates, P
    <3> QED
      BY <1>4, <2>2, <3>2
  <2> QED
    BY <2>1, <2>2
<1>6. ASSUME q = <<>> PROVE PhraseStep(c, acc, k) = [phrases |-> <<new>>, prevEnd |-> b]
  <2>1. Append(<<>>, new) = <<new>>
    OBVIOUS
  <2> QED
    BY <1>4, <1>6, <2>1
<1>7. ASSUME NEW p \in P, q = <<p>>, e = a
      PROVE  PhraseStep(c, acc, k) = [phrases |-> <<WithWord(p, v)>>, prevEnd |-> b]
  <2> DEFINE t == WithWord(p, v)
  <2>1. q # <<>> /\ Len(q) = 1 /\ q[1] = p
    BY <1>7
  <2>2. Last(q) = p /\ Front(q) \in Seq(P) /\ Len(Front(q)) = 0
    <3>1. Last(q) = q[Len(q)] /\ Front(q) \in Seq(P) /\ Len(Front(q)) = Len(q) - 1
      BY <1>1, <2>1, LastIs
    <3> QED
      BY <2>1, <3>1
  <2>3. Front(q) = <<>>
    BY <2>2, EmptySeq
  <2> HIDE DEF t
  <2>4. Append(<<>>, t) = <<t>>
    OBVIOUS
  <2>5. PhraseStep(c, acc, k) = [phrases |-> Append(Front(q), t), prevEnd |-> b]
    BY <1>4, <1>7, <2>1, <2>2 DEF t
  <2> QED
    BY <2>3, <2>4, <2>5 DEF t
<1> QED
  BY <1>5, <1>6, <1>7 DEF P, q, e, a, v, b, new

PhraseSteps(F, c, W) ==
  /\ F \in [0..Len(c) -> PhraseStates(W)] /\ F[0] = NoPhrases
  /\ \A k \in 1..Len(c) : F[k] = PhraseStep(c, F[k - 1], k)

\* process_words takes a chain word by word.
LEMMA PhrasesStepwise ==
  ASSUME NEW W, WordsOK(W), NEW c, GluedChain(c, W)
  PROVE  \E F : PhraseSteps(F, c, W) /\ ProcessWords(c) = F[Len(c)].phrases
<1> DEFINE n == Len(c)
           X == PhraseStates(W)
           x0 == NoPhrases
           h == [k \in 1..n |-> [a \in X |-> PhraseStep(c, a, k)]]
           q == [k \in 1..n |-> k]
           Eq(f) == f = [s \in SUBSET DOMAIN q |->
                           IF s = {} THEN NoPhrases
                           ELSE PhraseStep(c, f[s \ {Max(s)}], q[Max(s)])]
           It == CHOOSE f : Eq(f)
<1>0. /\ n \in Nat /\ DOMAIN c = 1..n
      /\ \A k \in 1..n : c[k].start \in Nat /\ c[k].word \in W /\ EndOf(c[k]) \in Nat
  BY ChainIs
<1>1. ProcessWords(c) = It[DOMAIN q].phrases
  <2>1. ProcessWords(c) = FoldLeft(LAMBDA acc, k : PhraseStep(c, acc, k), NoPhrases, OrderOf(c)).phrases
    BY DEF ProcessWords, OrderOf, SortedBefore, PhraseStep, NoPhrases, FoldLeft, MapThenFoldSet
  <2>2. OrderOf(c) = q
    BY OrderIs
  <2> QED
    BY <2>1, <2>2 DEF FoldLeft, MapThenFoldSet
<1>21. DOMAIN q = 1..n /\ \A k \in 1..n : q[k] = k
  OBVIOUS
<1>2. h \in [1..n -> [X -> X]] /\ \A k \in 1..n, a \in X : h[k][a] = PhraseStep(c, a, k)
  <2>1. \A k \in 1..n, a \in X : PhraseStep(c, a, k) \in X
    <3> HIDE DEF n
    <3> QED
      BY <1>0, PhraseStepIs
  <2> HIDE DEF X, n
  <2> QED
    BY <2>1
<1>3. x0 \in X
  BY DEF PhraseStates, NoPhrases
<1> HIDE DEF X
<1>4. PICK A : FoldsOver(A, X, x0, h, n)
  <2> HIDE DEF h, n, x0
  <2> QED
    BY <1>0, <1>2, <1>3, FoldsExist
<1>5. Eq(A)
  <2>1. /\ A \in [SUBSET (1..n) -> X] /\ A[{}] = x0
        /\ \A s \in SUBSET (1..n) : s # {} => A[s] = h[Max(s)][A[s \ {Max(s)}]]
    BY <1>4 DEF FoldsOver
  <2>2. \A s \in SUBSET (1..n) : s # {} => Max(s) \in 1..n /\ s \ {Max(s)} \in SUBSET (1..n)
    BY <1>0, MaxIs
  <2> HIDE DEF h, n
  <2>3. \A s \in SUBSET (1..n) : s # {} => A[s] = PhraseStep(c, A[s \ {Max(s)}], Max(s))
    BY <1>2, <2>1, <2>2
  <2> QED
    BY <1>0, <1>21, <2>1, <2>2, <2>3
<1>6. Eq(It)
  <2> HIDE DEF Eq
  <2> QED
    BY <1>5
<1>7. It[{}] = x0
  <2> HIDE DEF It
  <2> QED
    BY <1>0, <1>21, <1>6
<1>8. \A k \in 1..n : It[1..(k - 1)] \in X => It[1..k] = h[k][It[1..(k - 1)]]
  <2> SUFFICES ASSUME NEW k \in 1..n, It[1..(k - 1)] \in X PROVE It[1..k] = h[k][It[1..(k - 1)]]
    OBVIOUS
  <2>1. k \in Nat /\ k # 0 /\ 1..k \in SUBSET (1..n)
    BY <1>0
  <2>2. 1..k # {} /\ Max(1..k) = k /\ (1..k) \ {k} = 1..(k - 1)
    BY <2>1, MaxOfFirst
  <2> HIDE DEF It, n, h, q
  <2> DEFINE s == 1..k
  <2>4. s \in SUBSET DOMAIN q /\ s # {} /\ q[Max(s)] = k /\ s \ {Max(s)} = 1..(k - 1)
    BY <1>21, <2>1, <2>2
  <2> HIDE DEF s
  <2>9. It[s] = PhraseStep(c, It[s \ {Max(s)}], q[Max(s)])
    BY <1>6, <2>4
  <2>3. It[1..k] = PhraseStep(c, It[1..(k - 1)], k)
    BY <2>4, <2>9 DEF s
  <2> QED
    BY <1>2, <2>3
<1>9. Reaches(It, X, x0, h, n)
  <2> HIDE DEF h, n, It
  <2> QED
    BY <1>7, <1>8 DEF Reaches
<1>10. PICK F : Stepwise(F, X, x0, h, n) /\ It[1..n] = F[n]
  <2> HIDE DEF h, n, It, x0
  <2> QED
    BY <1>0, <1>2, <1>3, <1>9, FoldReached
<1>11. F \in [0..n -> X] /\ F[0] = x0 /\ \A k \in 1..n : F[k] = h[k][F[k - 1]]
  BY <1>10 DEF Stepwise
<1>12. \A k \in 1..n : F[k] = PhraseStep(c, F[k - 1], k)
  <2>1. \A k \in 1..n : F[k - 1] \in X
    <3>1. \A k \in 1..n : k - 1 \in 0..n
      BY <1>0
    <3> QED
      BY <1>11, <3>1
  <2> HIDE DEF h, n
  <2> QED
    BY <1>2, <1>11, <2>1
<1>13. ProcessWords(c) = F[n].phrases
  <2> HIDE DEF It, n
  <2> QED
    BY <1>0, <1>21, <1>1, <1>10
<1>14. PhraseSteps(F, c, W)
  BY <1>3, <1>11, <1>12 DEF PhraseSteps, X
<1> QED
  BY <1>13, <1>14

\* A chain becomes one phrase, process_words.
LEMMA ProcessWordsIs ==
  ASSUME NEW W, WordsOK(W), NEW c, GluedChain(c, W)
  PROVE  ProcessWords(c) = <<PhraseOf(c)>>
<1> DEFINE n == Len(c)
           Made(k) == [phrases |-> <<FirstWords(c, k)>>, prevEnd |-> EndOf(c[k])]
<1>1. /\ n \in Nat \ {0} /\ PhraseOf(c) = FirstWords(c, n)
      /\ \A k \in 1..n : c[k].start \in Nat /\ c[k].word \in W /\ EndOf(c[k]) \in Nat
      /\ \A k \in 2..n : c[k].start = EndOf(c[k - 1]) /\ k - 1 \in 1..n
  BY ChainIs
<1>2. PICK F : PhraseSteps(F, c, W) /\ ProcessWords(c) = F[n].phrases
  BY PhrasesStepwise
<1>3. /\ F \in [0..n -> PhraseStates(W)] /\ F[0] = NoPhrases
      /\ \A k \in 1..n : F[k] = PhraseStep(c, F[k - 1], k)
  BY <1>2 DEF PhraseSteps
<1> DEFINE T == {k \in 0..n : k = 0 \/ F[k] = Made(k)}
<1>4. \A k \in 0..n : k \in T
  <2>1. 0 \in T
    BY <1>1
  <2>2. ASSUME NEW k \in 1..n, k - 1 \in T PROVE k \in T
    <3> DEFINE acc == F[k - 1]
               m == c[k]
    <3>1. acc \in PhraseStates(W) /\ F[k] = PhraseStep(c, acc, k) /\ k \in 0..n
      <4>1. k - 1 \in 0..n
        BY <1>1
      <4> QED
        BY <1>3, <4>1
    <3>2. m.start \in Nat /\ m.word \in W /\ EndOf(m) \in Nat
      BY <1>1
    <3>3. CASE k = 1
      <4>1. acc = NoPhrases
        BY <1>3, <3>3
      <4>2. acc.phrases = <<>>
        BY <4>1 DEF NoPhrases
      <4>3. FirstWords(c, k) = [start |-> m.start, words |-> <<m.word>>]
        BY <3>3, FirstWordsAre
      <4> HIDE DEF acc
      <4>4. PhraseStep(c, acc, k) = [phrases |-> <<[start |-> m.start, words |-> <<m.word>>]>>, prevEnd |-> EndOf(m)]
        BY <3>1, <3>2, <4>2, PhraseStepIs
      <4>5. F[k] = Made(k)
        BY <3>1, <4>2, <4>3, <4>4 DEF m
      <4> QED
        BY <3>1, <4>5
    <3>4. CASE k # 1
      <4> DEFINE p == FirstWords(c, k - 1)
      <4>1. k \in 2..n /\ k > 1 /\ k - 1 \in 1..n /\ k - 1 # 0
        BY <1>1, <3>4
      <4>2. p \in PhrasesOver(W) /\ FirstWords(c, k) = WithWord(p, m.word)
        BY <4>1, FirstWordsAre
      <4>3. acc = Made(k - 1)
        BY <2>2, <4>1
      <4>4. acc.phrases = <<p>> /\ acc.prevEnd = EndOf(c[k - 1])
        BY <4>3
      <4>5. acc.prevEnd = m.start
        BY <1>1, <4>1, <4>4
      <4> HIDE DEF acc, p
      <4>6. PhraseStep(c, acc, k) = [phrases |-> <<WithWord(p, m.word)>>, prevEnd |-> EndOf(m)]
        BY <3>1, <3>2, <4>2, <4>4, <4>5, PhraseStepIs
      <4>7. F[k] = Made(k)
        BY <3>1, <4>2, <4>4, <4>6 DEF m
      <4> QED
        BY <3>1, <4>7
    <3> QED
      BY <3>3, <3>4
  <2> HIDE DEF T
  <2> QED
    BY <1>1, <2>1, <2>2, UpTo
<1>5. F[n] = Made(n)
  <2>1. n \in 0..n /\ n # 0
    BY <1>1
  <2>2. n \in T
    BY <1>4, <2>1
  <2> QED
    BY <2>1, <2>2
<1> QED
  BY <1>1, <1>2, <1>5

-----------------------------------------------------------------------------
(* All combinations.                                                       *)

\* What from gives for the chains that follow a match, and for those that begin with it.
After(hits, f, m) == IF EndOf(m) \in Starts(hits) THEN f[EndOf(m)] ELSE <<>>

Begun(hits, f, m) == << <<m>> >> \o [r \in DOMAIN After(hits, f, m) |-> <<m>> \o After(hits, f, m)[r]]

\* The equation that from solves.
FromStep(hits, f) ==
  [pos \in Starts(hits) |->
     FlattenSeq([k \in DOMAIN StartingAt(hits, pos) |-> Begun(hits, f, StartingAt(hits, pos)[k])])]

FromOf(hits) == CHOOSE f : f = FromStep(hits, f)

\* A chain whose matches are marked: all but the first are consecutive.
Mark(c) == [k \in DOMAIN c |-> [start |-> c[k].start, word |-> c[k].word, consecutive |-> k > 1]]

\* All the chains, by where they start.
RawChains(hits) == LET starts == Ascending(Starts(hits)) IN FlattenSeq([k \in DOMAIN starts |-> FromOf(hits)[starts[k]]])

\* Of all the chains those that are long enough are reported.
LEMMA AllCombosSelects ==
  ASSUME NEW hits, NEW min
  PROVE  AllCombos(hits, min) =
           LET all == RawChains(hits)
               marked == [c \in DOMAIN all |-> Mark(all[c])]
           IN  Selected(marked, {c \in DOMAIN marked : HasQualifyingRun(marked[c], min)})
BY DEF AllCombos, RawChains, Mark, FromOf, FromStep, Begun, After

MatchesOver(W) == [start : Nat, word : W]

ChainLists(W) == Seq(Seq(MatchesOver(W)))

\* For every place where a match starts, a list of chains.
Tables(hits, W) == [Starts(hits) -> ChainLists(W)]

\* The chains that begin with a match are the match, and the match with a chain after it.
MatchThenChains(hits, W, f, m) ==
  /\ After(hits, f, m) \in ChainLists(W) /\ Begun(hits, f, m) \in ChainLists(W)
  /\ Len(Begun(hits, f, m)) = Len(After(hits, f, m)) + 1 /\ Begun(hits, f, m)[1] = <<m>>
  /\ \A r \in 1..Len(After(hits, f, m)) : Begun(hits, f, m)[r + 1] = <<m>> \o After(hits, f, m)[r]

\* The chains that begin with a match: the match alone, and before each chain that follows it.
LEMMA BegunIs ==
  ASSUME NEW W, NEW hits, NEW m \in MatchesOver(W), NEW f \in Tables(hits, W)
  PROVE  MatchThenChains(hits, W, f, m)
<1> DEFINE C == Seq(MatchesOver(W))
           a == After(hits, f, m)
           b == [r \in DOMAIN a |-> <<m>> \o a[r]]
<1>1. a \in Seq(C)
  <2>1. <<>> \in Seq(C)
    OBVIOUS
  <2>2. EndOf(m) \in Starts(hits) => f[EndOf(m)] \in Seq(C)
    BY DEF ChainLists, Tables
  <2> HIDE DEF C
  <2> QED
    BY <2>1, <2>2 DEF After
<1>2. <<m>> \in C
  OBVIOUS
<1> HIDE DEF a
<1>3. Len(a) \in Nat /\ DOMAIN a = 1..Len(a) /\ \A r \in 1..Len(a) : a[r] \in C
  <2> HIDE DEF C
  <2> QED
    BY <1>1, ElementOfSeq
<1>4. \A r \in 1..Len(a) : <<m>> \o a[r] \in C
  BY <1>2, <1>3
<1> HIDE DEF C
<1>5. b \in Seq(C) /\ Len(b) = Len(a) /\ \A r \in 1..Len(a) : b[r] = <<m>> \o a[r]
  BY <1>3, <1>4
<1> DEFINE s == << <<m>> >>
<1>6. s \in Seq(C) /\ Len(s) = 1 /\ s[1] = <<m>>
  <2> DEFINE x == <<m>>
  <2> HIDE DEF x
  <2>1. <<x>> \in Seq(C) /\ Len(<<x>>) = 1 /\ <<x>>[1] = x
    BY <1>2 DEF x
  <2> QED
    BY <2>1 DEF x
<1>7. Begun(hits, f, m) = s \o b
  BY DEF Begun, a
<1> HIDE DEF s, b
<1>8. s \o b \in Seq(C) /\ Len(s \o b) = Len(a) + 1 /\ (s \o b)[1] = <<m>>
  <2>1. s \o b \in Seq(C) /\ Len(s \o b) = Len(s) + Len(b) /\ \A p \in 1..Len(s) : (s \o b)[p] = s[p]
    BY <1>5, <1>6, TwoParts
  <2>2. 1 \in 1..Len(s) /\ Len(s) + Len(b) = Len(a) + 1
    BY <1>3, <1>5, <1>6
  <2> QED
    BY <1>6, <2>1, <2>2
<1>9. \A r \in 1..Len(a) : (s \o b)[r + 1] = <<m>> \o a[r]
  <2>1. /\ s \o b \in Seq(C) /\ Len(s \o b) = Len(s) + Len(b)
        /\ \A p \in 1..Len(s) : (s \o b)[p] = s[p]
        /\ \A k \in 1..Len(b) : (s \o b)[Len(s) + k] = b[k]
    <3>1. s \in Seq(C) /\ b \in Seq(C)
      BY <1>5, <1>6
    <3> QED
      BY <3>1, TwoParts
  <2>2. \A r \in 1..Len(a) : Len(s) + r = r + 1
    BY <1>3, <1>6
  <2> QED
    BY <1>5, <2>1, <2>2
<1> QED
  BY <1>1, <1>7, <1>8, <1>9 DEF a, C, ChainLists, MatchThenChains

\* The matches that start somewhere, with their chains.
ChainsByMatch(hits, W, f, pos) ==
  LET s == StartingAt(hits, pos)
      q == [k \in DOMAIN s |-> Begun(hits, f, s[k])]
  IN  /\ q \in Seq(ChainLists(W)) /\ Len(q) = Len(s) /\ Len(s) \in Nat
      /\ \A k \in 1..Len(s) : /\ q[k] = Begun(hits, f, s[k]) /\ s[k] \in MatchesOver(W)
                              /\ s[k] \in ToSet(hits) /\ s[k].start = pos

\* The chains that begin with the matches at pos, match by match.
LEMMA BegunListIs ==
  ASSUME NEW W, NEW hits, RawOf(hits, W), NEW f \in Tables(hits, W), NEW pos
  PROVE  ChainsByMatch(hits, W, f, pos)
<1> DEFINE s == StartingAt(hits, pos)
           q == [k \in DOMAIN s |-> Begun(hits, f, s[k])]
           L == ChainLists(W)
<1>1. s \in Seq(MatchesOver(W)) /\ ToSet(s) = {m \in ToSet(hits) : m.start = pos}
  <2>1. /\ StartingAt(hits, pos) \in Seq([start : Nat, word : W])
        /\ ToSet(StartingAt(hits, pos)) = {m \in ToSet(hits) : m.start = pos}
    BY StartingAtIs
  <2> QED
    BY <2>1 DEF MatchesOver
<1> HIDE DEF s
<1>2. Len(s) \in Nat /\ DOMAIN s = 1..Len(s) /\ \A k \in 1..Len(s) : s[k] \in MatchesOver(W)
  <2> DEFINE M == MatchesOver(W)
  <2>1. s \in Seq(M)
    BY <1>1
  <2> HIDE DEF M
  <2>2. Len(s) \in Nat /\ DOMAIN s = 1..Len(s) /\ \A k \in 1..Len(s) : s[k] \in M
    BY <2>1, ElementOfSeq
  <2> QED
    BY <2>2 DEF M
<1>3. \A k \in 1..Len(s) : Begun(hits, f, s[k]) \in L
  BY <1>2, BegunIs DEF MatchThenChains
<1>4. \A k \in 1..Len(s) : s[k] \in ToSet(s)
  BY <1>2 DEF ToSet
<1> HIDE DEF L
<1>5. q \in Seq(L) /\ Len(q) = Len(s) /\ \A k \in 1..Len(s) : q[k] = Begun(hits, f, s[k])
  BY <1>2, <1>3
<1> HIDE DEF q
<1> QED
  BY <1>1, <1>2, <1>4, <1>5 DEF s, q, L, ChainsByMatch

\* The equation of from keeps the types.
LEMMA FromStepIs ==
  ASSUME NEW W, NEW hits, RawOf(hits, W), NEW f \in Tables(hits, W)
  PROVE  FromStep(hits, f) \in Tables(hits, W)
<1>1. ASSUME NEW pos \in Starts(hits)
      PROVE  FlattenSeq([k \in DOMAIN StartingAt(hits, pos) |-> Begun(hits, f, StartingAt(hits, pos)[k])])
             \in ChainLists(W)
  <2> DEFINE q == [k \in DOMAIN StartingAt(hits, pos) |-> Begun(hits, f, StartingAt(hits, pos)[k])]
             C == Seq(MatchesOver(W))
  <2>1. q \in Seq(ChainLists(W))
    BY BegunListIs DEF ChainsByMatch
  <2>2. q \in Seq(Seq(C))
    BY <2>1 DEF ChainLists
  <2> HIDE DEF q, C
  <2>3. FlattenSeq(q) \in Seq(C)
    BY <2>2, FlattenIs
  <2> QED
    BY <2>3 DEF q, C, ChainLists
<1> QED
  BY <1>1 DEF FromStep, Tables

SameLater(hits, f, g, pos) == \A y \in Starts(hits) : y > pos => f[y] = g[y]

\* What FromStep gives for a place depends on what f gives for later ones.
LEMMA FromStepLater ==
  ASSUME NEW W, NEW hits, RawOf(hits, W), NEW f, NEW g, NEW pos \in Starts(hits),
         SameLater(hits, f, g, pos)
  PROVE  FromStep(hits, f)[pos] = FromStep(hits, g)[pos]
<1> DEFINE s == StartingAt(hits, pos)
<1>1. s \in Seq(MatchesOver(W)) /\ ToSet(s) = {m \in ToSet(hits) : m.start = pos}
  <2>1. /\ StartingAt(hits, pos) \in Seq([start : Nat, word : W])
        /\ ToSet(StartingAt(hits, pos)) = {m \in ToSet(hits) : m.start = pos}
    BY StartingAtIs
  <2> QED
    BY <2>1 DEF MatchesOver
<1>2. ASSUME NEW k \in DOMAIN s PROVE Begun(hits, f, s[k]) = Begun(hits, g, s[k])
  <2> DEFINE m == s[k]
  <2>1. m \in ToSet(hits) /\ m.start = pos
    BY <1>1 DEF ToSet
  <2>2. m.start \in Nat /\ m.word \in W
    BY <2>1, StartsAre
  <2>3. Len(m.word) \in Nat /\ Len(m.word) # 0
    BY <2>2 DEF RawOf
  <2> HIDE DEF m
  <2>4. EndOf(m) > pos
    BY <2>1, <2>2, <2>3 DEF EndOf
  <2>5. After(hits, f, m) = After(hits, g, m)
    BY <2>4 DEF After, SameLater
  <2> QED
    BY <2>5 DEF Begun, m
<1> HIDE DEF s
<1>3. [k \in DOMAIN s |-> Begun(hits, f, s[k])] = [k \in DOMAIN s |-> Begun(hits, g, s[k])]
  BY <1>2
<1> QED
  BY <1>3 DEF FromStep, s

\* The equation of from has a solution, and only one.
LEMMA FromIs ==
  ASSUME NEW W, NEW hits, RawOf(hits, W)
  PROVE  FromOf(hits) \in Tables(hits, W) /\ FromOf(hits) = FromStep(hits, FromOf(hits))
<1> DEFINE S == Starts(hits)
           X == Tables(hits, W)
           x0 == [pos \in S |-> <<>>]
           h == [n \in Nat |-> [f \in X |-> FromStep(hits, f)]]
<1>1. S \in SUBSET Nat /\ IsFiniteSet(S)
  BY StartsAre
<1>2. x0 \in X
  <2>1. <<>> \in ChainLists(W)
    BY DEF ChainLists
  <2> QED
    BY <2>1 DEF Tables
<1>3. h \in [Nat -> [X -> X]]
  <2>1. \A f \in X : FromStep(hits, f) \in X
    BY FromStepIs
  <2> HIDE DEF X
  <2> QED
    BY <2>1
<1>4. PICK F : F \in [Nat -> X] /\ Iterates(F, x0, h)
  <2> HIDE DEF X, x0, h
  <2> QED
    BY <1>2, <1>3, Recursion
<1>5. \A n \in Nat : F[n] \in X /\ F[n + 1] = FromStep(hits, F[n])
  <2>1. \A n \in Nat : F[n] \in X /\ F[n + 1] = h[n][F[n]]
    BY <1>4 DEF Iterates
  <2> HIDE DEF X
  <2> QED
    BY <2>1
<1>6. \E b \in Nat : \A x \in S : x < b
  <2>1. CASE S = {}
    BY <2>1
  <2>2. CASE S # {}
    <3> HIDE DEF S
    <3>1. PICK x \in S : \A y \in S : y <= x
      BY <1>1, <2>2, Greatest
    <3>2. x + 1 \in Nat /\ \A y \in S : y < x + 1
      BY <1>1, <3>1
    <3> QED
      BY <3>2
  <2> QED
    BY <2>1, <2>2
<1>7. PICK b \in Nat : \A x \in S : x < b
  BY <1>6
<1> DEFINE T == {n \in 0..b : \A x \in S : x >= b - n => F[n + 1][x] = F[n][x]}
<1>8. \A n \in 0..b : n \in T
  <2>1. 0 \in T
    <3>1. \A x \in S : ~(x >= b - 0)
      <4> HIDE DEF S
      <4> QED
        BY <1>1, <1>7
    <3> QED
      BY <3>1
  <2>2. ASSUME NEW n \in 1..b, n - 1 \in T PROVE n \in T
    <3>1. n \in 0..b /\ n - 1 \in Nat /\ (n - 1) + 1 = n
      OBVIOUS
    <3> SUFFICES ASSUME NEW x \in S, x >= b - n PROVE F[n + 1][x] = F[n][x]
      BY <3>1
    <3>2. F[n + 1] = FromStep(hits, F[n]) /\ F[n] = FromStep(hits, F[n - 1])
      <4>1. F[n + 1] = FromStep(hits, F[n])
        BY <1>5, <3>1
      <4>2. F[(n - 1) + 1] = FromStep(hits, F[n - 1])
        BY <1>5, <3>1
      <4> QED
        BY <3>1, <4>1, <4>2
    <3>3. \A y \in S : y > x => F[n][y] = F[n - 1][y]
      <4> SUFFICES ASSUME NEW y \in S, y > x PROVE F[n][y] = F[n - 1][y]
        OBVIOUS
      <4>1. y >= b - (n - 1)
        <5>1. y \in Nat /\ x \in Nat
          BY <1>1
        <5> HIDE DEF S
        <5> QED
          BY <5>1
      <4>2. F[(n - 1) + 1][y] = F[n - 1][y]
        BY <2>2, <4>1
      <4> QED
        BY <3>1, <4>2
    <3> DEFINE f == F[n]
               g == F[n - 1]
    <3>4. \A y \in S : y > x => f[y] = g[y]
      BY <3>3
    <3> HIDE DEF f, g
    <3>6. x \in Starts(hits) /\ SameLater(hits, f, g, x)
      BY <3>4 DEF SameLater
    <3> HIDE DEF S, T, X, x0, h
    <3>5. FromStep(hits, f)[x] = FromStep(hits, g)[x]
      BY <3>6, FromStepLater
    <3> QED
      BY <3>2, <3>5 DEF f, g
  <2> HIDE DEF T
  <2> QED
    BY <2>1, <2>2, UpTo
<1> DEFINE A == F[b]
<1>9. A \in X /\ FromStep(hits, A) \in X
  BY <1>5, FromStepIs
<1>10. A = FromStep(hits, A)
  <2>1. b \in 0..b /\ F[b + 1] = FromStep(hits, A)
    BY <1>5
  <2>2. b \in T
    BY <1>8, <2>1
  <2>3. \A x \in S : F[b + 1][x] = A[x]
    <3>1. \A x \in S : x >= b - b
      <4> HIDE DEF S
      <4> QED
        BY <1>1
    <3> QED
      BY <2>2, <3>1
  <2> DEFINE B == FromStep(hits, A)
  <2>4. A \in X /\ B \in X /\ \A x \in S : B[x] = A[x]
    BY <1>9, <2>1, <2>3
  <2> HIDE DEF A, B, S
  <2>5. A = B
    BY <2>4 DEF Tables, S
  <2> QED
    BY <2>5 DEF B
<1> HIDE DEF A
<1>11. FromOf(hits) = FromStep(hits, FromOf(hits))
  BY <1>10 DEF FromOf
<1> DEFINE G == FromOf(hits)
<1>12. DOMAIN G = S /\ G = [x \in S |-> G[x]]
  <2> HIDE DEF G
  <2>1. G = FromStep(hits, G)
    BY <1>11 DEF G
  <2> QED
    BY <2>1 DEF FromStep
<1> DEFINE U == {x \in S : G[x] = A[x]}
<1>13. \A x \in S : x \in U
  <2>1. ASSUME NEW x \in S, \A y \in S : y > x => y \in U PROVE x \in U
    <3>1. \A y \in S : y > x => G[y] = A[y]
      BY <2>1
    <3> HIDE DEF G
    <3>4. x \in Starts(hits) /\ SameLater(hits, G, A, x)
      BY <3>1 DEF SameLater
    <3> HIDE DEF S, T, X, x0, h
    <3>2. FromStep(hits, G)[x] = FromStep(hits, A)[x]
      BY <3>4, FromStepLater
    <3>3. G[x] = A[x]
      BY <1>10, <1>11, <3>2 DEF G
    <3> QED
      BY <3>3
  <2> HIDE DEF U
  <2> QED
    BY <1>1, <2>1, Downward
<1>14. G = A
  <2> HIDE DEF G
  <2>1. \A x \in S : G[x] = A[x]
    BY <1>13
  <2> HIDE DEF S
  <2> QED
    BY <1>9, <1>12, <2>1 DEF Tables, S
<1> QED
  BY <1>9, <1>11, <1>14

\* A chain of matches of hits that begins at pos: each starts where the one before ends.
Linked(c, hits, W, pos) ==
  /\ c \in Seq(MatchesOver(W)) /\ c # <<>> /\ c[1].start = pos
  /\ \A k \in 1..Len(c) : c[k] \in ToSet(hits)
  /\ \A k \in 2..Len(c) : c[k].start = EndOf(c[k - 1])

\* One match is a chain.
LEMMA LinkedOne ==
  ASSUME NEW W, NEW hits, NEW m \in MatchesOver(W), m \in ToSet(hits)
  PROVE  Linked(<<m>>, hits, W, m.start)
<1> DEFINE c == <<m>>
<1>1. c \in Seq(MatchesOver(W)) /\ c # <<>> /\ Len(c) = 1 /\ c[1] = m
  OBVIOUS
<1> HIDE DEF c
<1>2. \A k \in 1..Len(c) : c[k] \in ToSet(hits)
  <2>1. \A k \in 1..1 : k = 1
    OBVIOUS
  <2> QED
    BY <1>1, <2>1
<1>3. \A k \in 2..Len(c) : FALSE
  BY <1>1
<1>4. Linked(c, hits, W, m.start)
  BY <1>1, <1>2, <1>3 DEF Linked
<1> QED
  BY <1>4 DEF c

\* A match in front of a chain that starts where it ends makes a chain.
LEMMA LinkedMore ==
  ASSUME NEW W, NEW hits, NEW m \in MatchesOver(W), m \in ToSet(hits),
         NEW c, Linked(c, hits, W, EndOf(m))
  PROVE  Linked(<<m>> \o c, hits, W, m.start)
<1> DEFINE M == MatchesOver(W)
           d == <<m>> \o c
<1>1. /\ c \in Seq(M) /\ c # <<>> /\ c[1].start = EndOf(m)
      /\ \A k \in 1..Len(c) : c[k] \in ToSet(hits)
      /\ \A k \in 2..Len(c) : c[k].start = EndOf(c[k - 1])
  BY DEF Linked
<1>2. d \in Seq(M) /\ Len(d) = Len(c) + 1 /\ d[1] = m /\ \A k \in 1..Len(c) : d[k + 1] = c[k]
  <2> HIDE DEF M
  <2>1. c \in Seq(M) /\ m \in M
    BY <1>1 DEF M
  <2> QED
    BY <2>1, InFront
<1>3. Len(c) \in Nat \ {0}
  <2> HIDE DEF M
  <2> QED
    BY <1>1, EmptySeq
<1> HIDE DEF d, M
<1>4. d # <<>>
  BY <1>2, <1>3, EmptySeq
<1>5. \A k \in 2..Len(d) : k - 1 \in 1..Len(c) /\ (k - 1) + 1 = k /\ (k = 2 \/ (k - 1 \in 2..Len(c) /\ k - 2 \in 1..Len(c) /\ (k - 1) - 1 = k - 2 /\ (k - 2) + 1 = k - 1))
  BY <1>2, <1>3
<1>6. ASSUME NEW k \in 1..Len(d) PROVE d[k] \in ToSet(hits)
  <2>1. CASE k = 1
    BY <1>2, <2>1
  <2>2. CASE k # 1
    <3>1. k \in 2..Len(d)
      BY <1>2, <1>3, <2>2
    <3>2. d[(k - 1) + 1] = c[k - 1] /\ c[k - 1] \in ToSet(hits)
      BY <1>1, <1>2, <1>5, <3>1
    <3> QED
      BY <1>5, <3>1, <3>2
  <2> QED
    BY <2>1, <2>2
<1>7. ASSUME NEW k \in 2..Len(d) PROVE d[k].start = EndOf(d[k - 1])
  <2>1. d[k] = c[k - 1]
    <3>1. d[(k - 1) + 1] = c[k - 1]
      BY <1>2, <1>5
    <3> QED
      BY <1>5, <3>1
  <2>2. CASE k = 2
    <3>1. k - 1 = 1
      BY <2>2
    <3> QED
      BY <1>1, <1>2, <2>1, <3>1
  <2>3. CASE k # 2
    <3>1. k - 1 \in 2..Len(c) /\ k - 2 \in 1..Len(c) /\ (k - 1) - 1 = k - 2 /\ (k - 2) + 1 = k - 1
      BY <1>5, <2>3
    <3>2. c[k - 1].start = EndOf(c[(k - 1) - 1])
      BY <1>1, <3>1
    <3>3. d[(k - 2) + 1] = c[k - 2]
      BY <1>2, <3>1
    <3> QED
      BY <2>1, <3>1, <3>2, <3>3
  <2> QED
    BY <2>2, <2>3
<1>8. Linked(d, hits, W, m.start)
  BY <1>2, <1>4, <1>6, <1>7 DEF Linked, M
<1> QED
  BY <1>8 DEF d

\* A chain is one match, or a match in front of a chain that starts where it ends.
LEMMA LinkedLess ==
  ASSUME NEW W, NEW hits, NEW pos, NEW c, Linked(c, hits, W, pos)
  PROVE  /\ c[1] \in MatchesOver(W) /\ c[1] \in ToSet(hits) /\ c[1].start = pos
         /\ c = <<c[1]>> \/ (c = <<c[1]>> \o Tail(c) /\ Linked(Tail(c), hits, W, EndOf(c[1])))
<1> DEFINE M == MatchesOver(W)
           t == Tail(c)
<1>1. /\ c \in Seq(M) /\ c # <<>> /\ c[1].start = pos
      /\ \A k \in 1..Len(c) : c[k] \in ToSet(hits)
      /\ \A k \in 2..Len(c) : c[k].start = EndOf(c[k - 1])
  BY DEF Linked
<1> HIDE DEF M
<1>2. /\ Len(c) \in Nat \ {0} /\ c[1] \in M
      /\ t \in Seq(M) /\ Len(t) = Len(c) - 1
      /\ \A k \in 1..(Len(c) - 1) : t[k] = c[k + 1]
      /\ c = <<c[1]>> \o t
  <2>1. c \in Seq(M) /\ c # <<>>
    BY <1>1
  <2> QED
    BY <2>1, WithoutFirst
<1>3. c[1] \in ToSet(hits)
  <2>1. 1 \in 1..Len(c)
    BY <1>2
  <2> QED
    BY <1>1, <2>1
<1> HIDE DEF t
<1>4. CASE t = <<>>
  <2> DEFINE m == c[1]
  <2> HIDE DEF m
  <2>1. <<m>> \o <<>> = <<m>>
    OBVIOUS
  <2>2. c = <<c[1]>>
    BY <1>2, <1>4, <2>1 DEF m
  <2> QED
    BY <1>1, <1>2, <1>3, <2>2 DEF M
<1>5. CASE t # <<>>
  <2>1. Len(t) \in Nat \ {0}
    BY <1>2, <1>5, EmptySeq
  <2>2. t[1].start = EndOf(c[1])
    <3>1. 1 \in 1..(Len(c) - 1) /\ 2 \in 2..Len(c) /\ 1 + 1 = 2 /\ 2 - 1 = 1
      BY <1>2, <2>1
    <3>2. t[1] = c[1 + 1] /\ c[2].start = EndOf(c[2 - 1])
      BY <1>1, <1>2, <3>1
    <3> QED
      BY <3>1, <3>2
  <2>3. ASSUME NEW k \in 1..Len(t) PROVE t[k] \in ToSet(hits)
    <3>1. k \in 1..(Len(c) - 1) /\ k + 1 \in 1..Len(c)
      BY <1>2
    <3> QED
      BY <1>1, <1>2, <3>1
  <2>4. ASSUME NEW k \in 2..Len(t) PROVE t[k].start = EndOf(t[k - 1])
    <3>1. k \in 1..(Len(c) - 1) /\ k - 1 \in 1..(Len(c) - 1) /\ k + 1 \in 2..Len(c) /\ (k + 1) - 1 = k /\ (k - 1) + 1 = k
      BY <1>2
    <3>2. t[k] = c[k + 1] /\ t[k - 1] = c[(k - 1) + 1] /\ c[k + 1].start = EndOf(c[(k + 1) - 1])
      BY <1>1, <1>2, <3>1
    <3> QED
      BY <3>1, <3>2
  <2>5. Linked(t, hits, W, EndOf(c[1]))
    BY <1>2, <1>5, <2>2, <2>3, <2>4 DEF Linked, M
  <2> QED
    BY <1>1, <1>2, <1>3, <2>5 DEF M, t
<1> QED
  BY <1>4, <1>5

\* What from gives at pos, chain by chain: chain p is number b[p] of those that begin with
\* the match number a[p] of those that start there.
FromLaid(hits, W, pos, a, b) ==
  LET s == StartingAt(hits, pos)
      f == FromOf(hits)[pos]
  IN  /\ f \in ChainLists(W) /\ s \in Seq(MatchesOver(W))
      /\ \A k \in 1..Len(s) : s[k] \in MatchesOver(W) /\ s[k] \in ToSet(hits) /\ s[k].start = pos
      /\ a \in [1..Len(f) -> 1..Len(s)] /\ b \in [1..Len(f) -> Nat]
      /\ \A p \in 1..Len(f) : /\ b[p] \in 1..Len(Begun(hits, FromOf(hits), s[a[p]]))
                              /\ f[p] = Begun(hits, FromOf(hits), s[a[p]])[b[p]]
      /\ \A p, r \in 1..Len(f) : p < r => a[p] < a[r] \/ (a[p] = a[r] /\ b[p] < b[r])
      /\ \A j \in 1..Len(s) : \A m \in 1..Len(Begun(hits, FromOf(hits), s[j])) :
           \E p \in 1..Len(f) : a[p] = j /\ b[p] = m

\* from lays the chains of the matches at pos end to end.
LEMMA FromIsLaid ==
  ASSUME NEW W, NEW hits, RawOf(hits, W), NEW pos \in Starts(hits)
  PROVE  \E a, b : FromLaid(hits, W, pos, a, b)
<1> DEFINE G == FromOf(hits)
           s == StartingAt(hits, pos)
           q == [k \in DOMAIN s |-> Begun(hits, G, s[k])]
           f == G[pos]
           C == Seq(MatchesOver(W))
<1>1. G \in Tables(hits, W) /\ G = FromStep(hits, G)
  BY FromIs DEF Tables
<1>2. f = FlattenSeq(q)
  <2> HIDE DEF G
  <2>1. FromStep(hits, G)[pos] = FlattenSeq([k \in DOMAIN s |-> Begun(hits, G, s[k])])
    BY DEF FromStep
  <2> QED
    BY <1>1, <2>1
<1>3. /\ q \in Seq(ChainLists(W)) /\ Len(q) = Len(s) /\ Len(s) \in Nat
      /\ \A k \in 1..Len(s) : /\ q[k] = Begun(hits, G, s[k]) /\ s[k] \in MatchesOver(W)
                              /\ s[k] \in ToSet(hits) /\ s[k].start = pos
  <2> HIDE DEF G, q, s, f, C
  <2>1. ChainsByMatch(hits, W, G, pos)
    BY <1>1, BegunListIs
  <2> QED
    BY <2>1 DEF ChainsByMatch, q, s
<1>4. s \in Seq(MatchesOver(W))
  <2>1. StartingAt(hits, pos) \in Seq([start : Nat, word : W])
    BY StartingAtIs
  <2> QED
    BY <2>1 DEF MatchesOver
<1> HIDE DEF q, s, f
<1>5. q \in Seq(Seq(C))
  BY <1>3 DEF ChainLists
<1> HIDE DEF C
<1>6. f \in Seq(C)
  BY <1>2, <1>5, FlattenIs
<1>7. PICK a, b : Laid(f, q, Len(q), a, b)
  BY <1>2, <1>5, FlattenLaid
<1>8. /\ a \in [1..Len(f) -> 1..Len(s)] /\ b \in [1..Len(f) -> Nat]
      /\ \A p \in 1..Len(f) : b[p] \in 1..Len(q[a[p]]) /\ f[p] = q[a[p]][b[p]]
      /\ \A p, r \in 1..Len(f) : p < r => a[p] < a[r] \/ (a[p] = a[r] /\ b[p] < b[r])
      /\ \A j \in 1..Len(s) : \A m \in 1..Len(q[j]) : \E p \in 1..Len(f) : a[p] = j /\ b[p] = m
  BY <1>3, <1>7 DEF Laid
<1>9. \A p \in 1..Len(f) : a[p] \in 1..Len(s)
  BY <1>8
<1>10. \A p \in 1..Len(f) : b[p] \in 1..Len(Begun(hits, G, s[a[p]])) /\ f[p] = Begun(hits, G, s[a[p]])[b[p]]
  BY <1>3, <1>8, <1>9
<1>11. \A j \in 1..Len(s) : \A m \in 1..Len(Begun(hits, G, s[j])) : \E p \in 1..Len(f) : a[p] = j /\ b[p] = m
  BY <1>3, <1>8
<1>12. FromLaid(hits, W, pos, a, b)
  BY <1>3, <1>4, <1>6, <1>8, <1>10, <1>11 DEF FromLaid, C, ChainLists, f, s
<1> QED
  BY <1>12

\* Number k of the chains that begin with a match is the match, or the match and a chain after it.
AloneOrContinued(hits, m, k) ==
  LET c == Begun(hits, FromOf(hits), m)[k] IN
  \/ k = 1 /\ c = <<m>>
  \/ /\ k > 1 /\ EndOf(m) \in Starts(hits) /\ k - 1 \in 1..Len(FromOf(hits)[EndOf(m)])
     /\ c = <<m>> \o FromOf(hits)[EndOf(m)][k - 1]

\* A chain that begins with a match is the match alone, or goes on as from gives it.
LEMMA BegunCases ==
  ASSUME NEW W, NEW hits, RawOf(hits, W), NEW m \in MatchesOver(W),
         NEW k \in 1..Len(Begun(hits, FromOf(hits), m))
  PROVE  AloneOrContinued(hits, m, k)
<1> DEFINE G == FromOf(hits)
           B == Begun(hits, G, m)
           A == After(hits, G, m)
<1>1. G \in Tables(hits, W)
  BY FromIs DEF Tables
<1>2. /\ Len(B) = Len(A) + 1 /\ B[1] = <<m>> /\ A \in ChainLists(W)
      /\ \A r \in 1..Len(A) : B[r + 1] = <<m>> \o A[r]
  <2> HIDE DEF G, A, B
  <2>1. MatchThenChains(hits, W, G, m)
    BY <1>1, BegunIs
  <2> QED
    BY <2>1 DEF MatchThenChains, A, B
<1>3. Len(A) \in Nat
  <2> HIDE DEF A
  <2> QED
    BY <1>2 DEF ChainLists
<1> HIDE DEF A, B
<1>4. k \in 1..Len(B)
  BY DEF B
<1>5. CASE k = 1
  BY <1>2, <1>5 DEF B, AloneOrContinued
<1>6. CASE k # 1
  <2>1. k > 1 /\ k - 1 \in 1..Len(A) /\ (k - 1) + 1 = k
    BY <1>2, <1>3, <1>4, <1>6
  <2>2. B[(k - 1) + 1] = <<m>> \o A[k - 1]
    BY <1>2, <2>1
  <2>3. EndOf(m) \in Starts(hits) /\ A = G[EndOf(m)]
    <3>1. ASSUME EndOf(m) \notin Starts(hits) PROVE FALSE
      <4>1. Len(A) = 0
        BY <3>1 DEF A, After
      <4> QED
        BY <2>1, <4>1
    <3> QED
      BY <3>1 DEF A, After
  <2> QED
    BY <2>1, <2>2, <2>3 DEF B, AloneOrContinued
<1> QED
  BY <1>5, <1>6

\* The chains that from gives are linked chains.
LEMMA FromHas ==
  ASSUME NEW W, NEW hits, RawOf(hits, W)
  PROVE  \A pos \in Starts(hits) : \A r \in 1..Len(FromOf(hits)[pos]) : Linked(FromOf(hits)[pos][r], hits, W, pos)
<1> DEFINE G == FromOf(hits)
           S == Starts(hits)
           T == {x \in S : \A r \in 1..Len(G[x]) : Linked(G[x][r], hits, W, x)}
<1>1. S \in SUBSET Nat /\ IsFiniteSet(S)
  BY StartsAre
<1>2. ASSUME NEW x \in S, \A y \in S : y > x => y \in T PROVE x \in T
  <2> SUFFICES ASSUME NEW r \in 1..Len(G[x]) PROVE Linked(G[x][r], hits, W, x)
    OBVIOUS
  <2> DEFINE s == StartingAt(hits, x)
  <2>1. PICK a, b : FromLaid(hits, W, x, a, b)
    BY FromIsLaid
  <2>2. /\ \A k \in 1..Len(s) : s[k] \in MatchesOver(W) /\ s[k] \in ToSet(hits) /\ s[k].start = x
        /\ a[r] \in 1..Len(s) /\ b[r] \in 1..Len(Begun(hits, G, s[a[r]]))
        /\ G[x][r] = Begun(hits, G, s[a[r]])[b[r]]
    BY <2>1 DEF FromLaid
  <2> DEFINE m == s[a[r]]
             k == b[r]
  <2>3. m \in MatchesOver(W) /\ m \in ToSet(hits) /\ m.start = x /\ k \in 1..Len(Begun(hits, G, m))
    BY <2>2
  <2>4. G[x][r] = Begun(hits, G, m)[k]
    BY <2>2
  <2> HIDE DEF m, k, s
  <2>5. \/ k = 1 /\ Begun(hits, G, m)[k] = <<m>>
        \/ /\ k > 1 /\ EndOf(m) \in S /\ k - 1 \in 1..Len(G[EndOf(m)])
           /\ Begun(hits, G, m)[k] = <<m>> \o G[EndOf(m)][k - 1]
    <3>1. m \in MatchesOver(W) /\ k \in 1..Len(Begun(hits, FromOf(hits), m))
      BY <2>3
    <3> HIDE DEF G, S, T
    <3>2. AloneOrContinued(hits, m, k)
      BY <3>1, BegunCases
    <3> QED
      BY <3>2 DEF AloneOrContinued, G, S
  <2>6. CASE k = 1 /\ Begun(hits, G, m)[k] = <<m>>
    <3>1. Linked(<<m>>, hits, W, m.start)
      BY <2>3, LinkedOne
    <3> QED
      BY <2>3, <2>4, <2>6, <3>1
  <2>7. CASE /\ k > 1 /\ EndOf(m) \in S /\ k - 1 \in 1..Len(G[EndOf(m)])
             /\ Begun(hits, G, m)[k] = <<m>> \o G[EndOf(m)][k - 1]
    <3> DEFINE y == EndOf(m)
               c == G[y][k - 1]
    <3>1. y > x
      <4>1. m.start \in Nat /\ m.word \in W
        BY <2>3 DEF MatchesOver
      <4>2. Len(m.word) \in Nat /\ Len(m.word) # 0
        BY <4>1 DEF RawOf
      <4> QED
        BY <2>3, <4>1, <4>2 DEF EndOf
    <3>2. Linked(c, hits, W, EndOf(m))
      <4>1. y \in T
        BY <1>2, <2>7, <3>1
      <4> QED
        BY <2>7, <4>1
    <3> HIDE DEF c
    <3>3. Linked(<<m>> \o c, hits, W, m.start)
      BY <2>3, <3>2, LinkedMore
    <3> QED
      BY <2>3, <2>4, <2>7, <3>3 DEF c
  <2> QED
    BY <2>5, <2>6, <2>7
<1> HIDE DEF T
<1>3. \A x \in S : x \in T
  <2> HIDE DEF S
  <2> QED
    BY <1>1, <1>2, Downward
<1> QED
  BY <1>3 DEF T

\* It gives all of them.
LEMMA FromAll ==
  ASSUME NEW W, NEW hits, RawOf(hits, W)
  PROVE  \A pos \in Starts(hits) : \A c : Linked(c, hits, W, pos) => \E r \in 1..Len(FromOf(hits)[pos]) : FromOf(hits)[pos][r] = c
<1> DEFINE G == FromOf(hits)
           S == Starts(hits)
           Every(x) == \A c : Linked(c, hits, W, x) => \E r \in 1..Len(G[x]) : G[x][r] = c
           T == {x \in S : Every(x)}
<1>1. S \in SUBSET Nat /\ IsFiniteSet(S) /\ S = {m.start : m \in ToSet(hits)}
  BY StartsAre
<1>2. ASSUME NEW x \in S, \A y \in S : y > x => y \in T PROVE x \in T
  <2> SUFFICES ASSUME NEW c, Linked(c, hits, W, x) PROVE \E r \in 1..Len(G[x]) : G[x][r] = c
    OBVIOUS
  <2> DEFINE s == StartingAt(hits, x)
             m == c[1]
             t == Tail(c)
             y == EndOf(m)
             B == Begun(hits, G, m)
             A == After(hits, G, m)
  <2>1. /\ m \in MatchesOver(W) /\ m \in ToSet(hits) /\ m.start = x
        /\ c = <<m>> \/ (c = <<m>> \o t /\ Linked(t, hits, W, y))
    BY LinkedLess
  <2>2. PICK a, b : FromLaid(hits, W, x, a, b)
    BY FromIsLaid
  <2>3. PICK j \in 1..Len(s) : s[j] = m
    <3>1. ToSet(StartingAt(hits, x)) = {o \in ToSet(hits) : o.start = x}
      BY StartingAtIs
    <3>2. m \in ToSet(s)
      BY <2>1, <3>1
    <3>3. s \in Seq(MatchesOver(W))
      BY <2>2 DEF FromLaid
    <3> HIDE DEF s, m
    <3>4. DOMAIN s = 1..Len(s)
      BY <3>3
    <3> QED
      BY <3>2, <3>4 DEF ToSet
  <2>4. \A k \in 1..Len(B) : \E r \in 1..Len(G[x]) : G[x][r] = B[k]
    <3> SUFFICES ASSUME NEW k \in 1..Len(B) PROVE \E r \in 1..Len(G[x]) : G[x][r] = B[k]
      OBVIOUS
    <3>1. k \in 1..Len(Begun(hits, G, s[j])) /\ B = Begun(hits, G, s[j])
      BY <2>3
    <3>2. \E p \in 1..Len(G[x]) : a[p] = j /\ b[p] = k
      BY <2>2, <3>1 DEF FromLaid
    <3>3. PICK p \in 1..Len(G[x]) : a[p] = j /\ b[p] = k
      BY <3>2
    <3>4. G[x][p] = Begun(hits, G, s[a[p]])[b[p]]
      BY <2>2 DEF FromLaid
    <3>5. G[x][p] = B[k]
      BY <3>1, <3>3, <3>4
    <3> QED
      BY <3>5
  <2>5. G \in Tables(hits, W)
    BY FromIs DEF Tables
  <2> HIDE DEF G, S
  <2>6. /\ Len(B) = Len(A) + 1 /\ B[1] = <<m>> /\ A \in ChainLists(W)
        /\ \A r \in 1..Len(A) : B[r + 1] = <<m>> \o A[r]
    <3> HIDE DEF m, A, B, T, s, t, y
    <3>1. m \in MatchesOver(W)
      BY <2>1
    <3>2. MatchThenChains(hits, W, G, m)
      BY <2>5, <3>1, BegunIs
    <3> QED
      BY <3>2 DEF MatchThenChains, A, B
  <2> HIDE DEF A, B
  <2>7. Len(A) \in Nat
    BY <2>6 DEF ChainLists
  <2>8. CASE c = <<m>>
    <3>1. 1 \in 1..Len(B)
      BY <2>6, <2>7
    <3> QED
      BY <2>4, <2>6, <2>8, <3>1
  <2>9. CASE c = <<m>> \o t /\ Linked(t, hits, W, y)
    <3>1. y > x
      <4>1. m.start \in Nat /\ m.word \in W
        BY <2>1 DEF MatchesOver
      <4>2. Len(m.word) \in Nat /\ Len(m.word) # 0
        BY <4>1 DEF RawOf
      <4> QED
        BY <2>1, <4>1, <4>2 DEF EndOf
    <3>2. y \in S
      <4>1. t[1] \in ToSet(hits) /\ t[1].start = y
        <5>1. Linked(t, hits, W, y)
          BY <2>9
        <5> DEFINE M == MatchesOver(W)
        <5> HIDE DEF t, y, T, M
        <5>2. t \in Seq(M) /\ t # <<>> /\ t[1].start = y /\ \A k \in 1..Len(t) : t[k] \in ToSet(hits)
          BY <5>1 DEF Linked, M
        <5>3. 1 \in 1..Len(t)
          BY <5>2, EmptySeq
        <5> QED
          BY <5>2, <5>3
      <4> HIDE DEF t, y
      <4> QED
        BY <1>1, <4>1
    <3>3. Every(y)
      BY <1>2, <3>1, <3>2
    <3>4. PICK r \in 1..Len(G[y]) : G[y][r] = t
      BY <2>9, <3>3
    <3>5. A = G[y]
      BY <3>2 DEF A, After, S
    <3>6. B[r + 1] = <<m>> \o A[r] /\ r + 1 \in 1..Len(B)
      <4>1. r \in 1..Len(A)
        BY <3>5
      <4>2. r + 1 \in 1..Len(B)
        BY <2>6, <2>7, <4>1
      <4> QED
        BY <2>6, <4>1, <4>2
    <3>7. B[r + 1] = c
      BY <2>9, <3>4, <3>5, <3>6
    <3> QED
      BY <2>4, <3>6, <3>7
  <2> QED
    BY <2>1, <2>8, <2>9
<1> HIDE DEF T
<1>3. \A x \in S : x \in T
  <2> HIDE DEF S
  <2> QED
    BY <1>1, <1>2, Downward
<1> QED
  BY <1>3 DEF T

\* Two of the chains that begin at x: they are the same only if they are number k and l of the
\* same match, with the same chain after it.
SameBegun(hits, m, o, k, l) ==
  Begun(hits, FromOf(hits), m)[k] = Begun(hits, FromOf(hits), o)[l] =>
    /\ m = o
    /\ \/ k = l
       \/ /\ EndOf(m) \in Starts(hits) /\ k > 1 /\ l > 1
          /\ k - 1 \in 1..Len(FromOf(hits)[EndOf(m)]) /\ l - 1 \in 1..Len(FromOf(hits)[EndOf(m)])
          /\ FromOf(hits)[EndOf(m)][k - 1] = FromOf(hits)[EndOf(m)][l - 1]

\* A chain tells the match it begins with, and how it goes on.
LEMMA BegunOnce ==
  ASSUME NEW W, NEW hits, RawOf(hits, W), NEW m \in MatchesOver(W), NEW o \in MatchesOver(W),
         NEW k \in 1..Len(Begun(hits, FromOf(hits), m)), NEW l \in 1..Len(Begun(hits, FromOf(hits), o))
  PROVE  SameBegun(hits, m, o, k, l)
<1> DEFINE G == FromOf(hits)
           M == MatchesOver(W)
           c == Begun(hits, G, m)[k]
           d == Begun(hits, G, o)[l]
           y == EndOf(m)
           z == EndOf(o)
<1>1. AloneOrContinued(hits, m, k) /\ AloneOrContinued(hits, o, l)
  BY BegunCases
<1>2. /\ (k = 1 /\ c = <<m>>) \/ (k > 1 /\ y \in Starts(hits) /\ k - 1 \in 1..Len(G[y]) /\ c = <<m>> \o G[y][k - 1])
      /\ (l = 1 /\ d = <<o>>) \/ (l > 1 /\ z \in Starts(hits) /\ l - 1 \in 1..Len(G[z]) /\ d = <<o>> \o G[z][l - 1])
  BY <1>1 DEF AloneOrContinued
<1>3. \A x \in Starts(hits) : \A r \in 1..Len(G[x]) : G[x][r] \in Seq(M) /\ G[x][r] # <<>>
  <2>1. \A x \in Starts(hits) : \A r \in 1..Len(G[x]) : Linked(G[x][r], hits, W, x)
    BY FromHas
  <2> HIDE DEF G
  <2> QED
    BY <2>1 DEF Linked
<1> SUFFICES ASSUME c = d
             PROVE  m = o /\ (k = l \/ (/\ y \in Starts(hits) /\ k > 1 /\ l > 1
                                        /\ k - 1 \in 1..Len(G[y]) /\ l - 1 \in 1..Len(G[y])
                                        /\ G[y][k - 1] = G[y][l - 1]))
  BY DEF SameBegun
<1> HIDE DEF M, G, c, d
<1>4. CASE k = 1 /\ l = 1 /\ c = <<m>> /\ d = <<o>>
  <2>1. <<m>> = <<o>>
    BY <1>4
  <2> DEFINE s == <<m>>
             t == <<o>>
  <2>2. s[1] = m /\ t[1] = o
    OBVIOUS
  <2> HIDE DEF s, t
  <2>3. s = t
    BY <2>1 DEF s, t
  <2>4. m = o
    BY <2>2, <2>3
  <2> QED
    BY <1>4, <2>4
<1>5. CASE k = 1 /\ c = <<m>> /\ l > 1 /\ z \in Starts(hits) /\ l - 1 \in 1..Len(G[z]) /\ d = <<o>> \o G[z][l - 1]
  <2> DEFINE t == G[z][l - 1]
  <2>1. t \in Seq(M) /\ t # <<>>
    BY <1>3, <1>5
  <2>2. <<o>> \o t = <<m>>
    BY <1>5
  <2> HIDE DEF t
  <2>3. m \in M /\ o \in M
    BY DEF M
  <2> QED
    BY <2>1, <2>2, <2>3, LongerThanOne
<1>6. CASE l = 1 /\ d = <<o>> /\ k > 1 /\ y \in Starts(hits) /\ k - 1 \in 1..Len(G[y]) /\ c = <<m>> \o G[y][k - 1]
  <2> DEFINE t == G[y][k - 1]
  <2>1. t \in Seq(M) /\ t # <<>>
    BY <1>3, <1>6
  <2>2. <<m>> \o t = <<o>>
    BY <1>6
  <2> HIDE DEF t
  <2>3. m \in M /\ o \in M
    BY DEF M
  <2> QED
    BY <2>1, <2>2, <2>3, LongerThanOne
<1>7. CASE /\ k > 1 /\ y \in Starts(hits) /\ k - 1 \in 1..Len(G[y]) /\ c = <<m>> \o G[y][k - 1]
           /\ l > 1 /\ z \in Starts(hits) /\ l - 1 \in 1..Len(G[z]) /\ d = <<o>> \o G[z][l - 1]
  <2> DEFINE t == G[y][k - 1]
             u == G[z][l - 1]
  <2>1. t \in Seq(M) /\ u \in Seq(M)
    BY <1>3, <1>7
  <2>2. <<m>> \o t = <<o>> \o u
    BY <1>7
  <2>3. m \in M /\ o \in M
    BY DEF M
  <2>4. m = o /\ t = u
    <3> HIDE DEF t, u
    <3> QED
      BY <2>1, <2>2, <2>3, SameInFront
  <2>5. y = z
    BY <2>4
  <2> QED
    BY <1>7, <2>4, <2>5
<1> QED
  BY <1>2, <1>4, <1>5, <1>6, <1>7

\* Matches that are reported once make chains that are given once.
LEMMA FromOnce ==
  ASSUME NEW W, NEW hits, RawOf(hits, W), IsInjective(hits)
  PROVE  \A pos \in Starts(hits) : IsInjective(FromOf(hits)[pos])
<1> DEFINE G == FromOf(hits)
           S == Starts(hits)
           Once(x) == \A p, r \in 1..Len(G[x]) : p < r => G[x][p] # G[x][r]
           T == {x \in S : Once(x)}
<1>1. S \in SUBSET Nat /\ IsFiniteSet(S)
  BY StartsAre
<1>2. ASSUME NEW x \in S, \A y \in S : y > x => y \in T PROVE x \in T
  <2> DEFINE s == StartingAt(hits, x)
             f == G[x]
  <2> SUFFICES ASSUME NEW p \in 1..Len(f), NEW r \in 1..Len(f), p < r, f[p] = f[r] PROVE FALSE
    OBVIOUS
  <2>1. PICK a, b : FromLaid(hits, W, x, a, b)
    BY FromIsLaid
  <2>2. /\ s \in Seq(MatchesOver(W))
        /\ \A k \in 1..Len(s) : s[k] \in MatchesOver(W) /\ s[k] \in ToSet(hits) /\ s[k].start = x
        /\ a \in [1..Len(f) -> 1..Len(s)] /\ b \in [1..Len(f) -> Nat]
        /\ \A u \in 1..Len(f) : b[u] \in 1..Len(Begun(hits, G, s[a[u]])) /\ f[u] = Begun(hits, G, s[a[u]])[b[u]]
        /\ a[p] < a[r] \/ (a[p] = a[r] /\ b[p] < b[r])
    BY <2>1 DEF FromLaid
  <2>3. IsInjective(s)
    BY StartingAtIs
  <2>4. \A u, j \in 1..Len(s) : s[u] = s[j] => u = j
    <3> DEFINE M == MatchesOver(W)
    <3> HIDE DEF M, s
    <3> QED
      BY <2>2, <2>3 DEF IsInjective, M
  <2>5. a[p] \in 1..Len(s) /\ a[r] \in 1..Len(s) /\ b[p] \in Nat /\ b[r] \in Nat
    BY <2>2
  <2> DEFINE m == s[a[p]]
             o == s[a[r]]
             k == b[p]
             l == b[r]
             y == EndOf(m)
  <2>6. /\ m \in MatchesOver(W) /\ o \in MatchesOver(W) /\ m.start = x
        /\ k \in 1..Len(Begun(hits, G, m)) /\ l \in 1..Len(Begun(hits, G, o))
        /\ Begun(hits, G, m)[k] = Begun(hits, G, o)[l]
    BY <2>2, <2>5
  <2>7. /\ m = o
        /\ \/ k = l
           \/ /\ y \in S /\ k > 1 /\ l > 1 /\ k - 1 \in 1..Len(G[y]) /\ l - 1 \in 1..Len(G[y])
              /\ G[y][k - 1] = G[y][l - 1]
    <3>1. m \in MatchesOver(W) /\ o \in MatchesOver(W) /\ k \in 1..Len(Begun(hits, FromOf(hits), m)) /\ l \in 1..Len(Begun(hits, FromOf(hits), o))
      BY <2>6
    <3>2. Begun(hits, FromOf(hits), m)[k] = Begun(hits, FromOf(hits), o)[l]
      BY <2>6
    <3> HIDE DEF m, o, k, l, G, S, T, f, s
    <3>3. SameBegun(hits, m, o, k, l)
      BY <3>1, BegunOnce
    <3> QED
      BY <3>2, <3>3 DEF SameBegun, G, S
  <2>8. a[p] = a[r] /\ k < l
    BY <2>2, <2>4, <2>5, <2>7
  <2>9. y > x
    <3>1. m.start \in Nat /\ m.word \in W
      BY <2>6 DEF MatchesOver
    <3>2. Len(m.word) \in Nat /\ Len(m.word) # 0
      BY <3>1 DEF RawOf
    <3> HIDE DEF m
    <3> QED
      BY <2>6, <3>1, <3>2 DEF EndOf
  <2> HIDE DEF m, o, k, l, s, f
  <2>10. /\ y \in S /\ k > 1 /\ l > 1 /\ k - 1 \in 1..Len(G[y]) /\ l - 1 \in 1..Len(G[y])
         /\ G[y][k - 1] = G[y][l - 1]
    <3>1. k \in Nat /\ l \in Nat
      BY <2>5 DEF k, l
    <3> QED
      BY <2>7, <2>8, <3>1
  <2>11. k - 1 < l - 1
    <3>1. k \in Nat /\ l \in Nat
      BY <2>5 DEF k, l
    <3> QED
      BY <2>8, <3>1
  <2>12. y \in T
    BY <1>2, <2>9, <2>10
  <2> QED
    BY <2>10, <2>11, <2>12
<1> HIDE DEF T
<1>3. \A x \in S : x \in T
  <2> HIDE DEF S
  <2> QED
    BY <1>1, <1>2, Downward
<1>4. ASSUME NEW x \in S PROVE IsInjective(G[x])
  <2>1. x \in T
    BY <1>3
  <2>2. \A p, r \in 1..Len(G[x]) : p < r => G[x][p] # G[x][r]
    BY <2>1 DEF T
  <2>3. DOMAIN G[x] = 1..Len(G[x]) /\ Len(G[x]) \in Nat
    <3>1. G \in Tables(hits, W)
      BY FromIs DEF Tables
    <3> HIDE DEF G
    <3>2. G[x] \in ChainLists(W)
      BY <3>1 DEF Tables
    <3> DEFINE C == Seq(MatchesOver(W))
    <3>3. G[x] \in Seq(C)
      BY <3>2 DEF ChainLists
    <3> HIDE DEF C
    <3> QED
      BY <3>3
  <2> DEFINE f == G[x]
  <2> HIDE DEF f
  <2>4. \A p, r \in 1..Len(f) : f[p] = f[r] => p = r
    <3> SUFFICES ASSUME NEW p \in 1..Len(f), NEW r \in 1..Len(f), f[p] = f[r], p # r PROVE FALSE
      OBVIOUS
    <3>1. p < r \/ r < p
      OBVIOUS
    <3> QED
      BY <2>2, <3>1 DEF f
  <2> QED
    BY <2>3, <2>4 DEF IsInjective, f
<1> QED
  BY <1>4

\* cs has every chain of the matches, by where they start, and once if the matches are reported once.
AllLinked(cs, hits, W) ==
  /\ cs \in ChainLists(W)
  /\ \A p \in 1..Len(cs) : Linked(cs[p], hits, W, cs[p][1].start)
  /\ \A p, r \in 1..Len(cs) : p < r => cs[p][1].start <= cs[r][1].start
  /\ \A x, c : Linked(c, hits, W, x) => \E p \in 1..Len(cs) : cs[p] = c
  /\ IsInjective(hits) => \A p, r \in 1..Len(cs) : p < r => cs[p] # cs[r]

\* dfs finds every chain.
LEMMA RawChainsAre ==
  ASSUME NEW W, NEW hits, RawOf(hits, W)
  PROVE  AllLinked(RawChains(hits), hits, W)
<1> DEFINE G == FromOf(hits)
           S == Starts(hits)
           st == Ascending(S)
           n == Cardinality(S)
           q == [k \in DOMAIN st |-> G[st[k]]]
           cs == RawChains(hits)
           C == Seq(MatchesOver(W))
<1>1. S \in SUBSET Nat /\ IsFiniteSet(S) /\ S = {m.start : m \in ToSet(hits)}
  BY StartsAre
<1>2. /\ n \in Nat /\ DOMAIN st = 1..n
      /\ \A k \in 1..n : st[k] \in S
      /\ \A x \in S : \E k \in 1..n : st[k] = x
      /\ \A k, m \in 1..n : k < m <=> st[k] < st[m]
  <2>1. S \in SUBSET Int
    BY <1>1
  <2> HIDE DEF S, st, n
  <2>2. /\ Cardinality(S) \in Nat
        /\ Ascending(S) \in [1..Cardinality(S) -> S]
        /\ \A x \in S : \E k \in 1..Cardinality(S) : Ascending(S)[k] = x
        /\ \A k, m \in 1..Cardinality(S) : k < m <=> Ascending(S)[k] < Ascending(S)[m]
    BY <1>1, <2>1, AscendingLists
  <2> QED
    BY <2>2 DEF st, n
<1>3. cs = FlattenSeq(q)
  BY DEF RawChains
<1>4. \A x \in S : G[x] \in Seq(C)
  <2>1. G \in Tables(hits, W)
    BY FromIs DEF Tables
  <2> HIDE DEF G, C
  <2> QED
    BY <2>1 DEF Tables, ChainLists, C
<1>5. q \in Seq(Seq(C)) /\ Len(q) = n /\ \A k \in 1..n : q[k] = G[st[k]]
  <2> DEFINE L == Seq(C)
  <2>1. \A k \in 1..n : G[st[k]] \in L
    BY <1>2, <1>4
  <2> HIDE DEF L, st, n, G
  <2>2. q \in Seq(L) /\ Len(q) = n
    BY <1>2, <2>1
  <2> QED
    BY <1>2, <2>2 DEF L
<1> HIDE DEF q, st, n, cs, C, G
<1>6. cs \in Seq(C)
  BY <1>3, <1>5, FlattenIs
<1>7. PICK a, b : Laid(cs, q, n, a, b)
  BY <1>3, <1>5, FlattenLaid
<1>8. \A p \in 1..Len(cs) : a[p] \in 1..n /\ b[p] \in Nat
  BY <1>7 DEF Laid
<1>9. \A p \in 1..Len(cs) : b[p] \in 1..Len(G[st[a[p]]]) /\ cs[p] = G[st[a[p]]][b[p]] /\ st[a[p]] \in S
  BY <1>2, <1>5, <1>7, <1>8 DEF Laid
<1>10. \A p, r \in 1..Len(cs) : p < r => a[p] < a[r] \/ (a[p] = a[r] /\ b[p] < b[r])
  BY <1>7 DEF Laid
<1>11. \A j \in 1..n : \A m \in 1..Len(G[st[j]]) : \E p \in 1..Len(cs) : a[p] = j /\ b[p] = m
  BY <1>5, <1>7 DEF Laid
<1>12. \A p \in 1..Len(cs) : Linked(cs[p], hits, W, st[a[p]]) /\ cs[p][1].start = st[a[p]]
  <2>1. \A x \in S : \A r \in 1..Len(G[x]) : Linked(G[x][r], hits, W, x)
    BY FromHas DEF G
  <2>2. \A p \in 1..Len(cs) : Linked(cs[p], hits, W, st[a[p]])
    BY <1>9, <2>1
  <2> QED
    BY <2>2 DEF Linked
<1>13. \A p \in 1..Len(cs) : Linked(cs[p], hits, W, cs[p][1].start)
  BY <1>12
<1>14. ASSUME NEW p \in 1..Len(cs), NEW r \in 1..Len(cs), p < r PROVE cs[p][1].start <= cs[r][1].start
  <2>1. a[p] <= a[r]
    BY <1>8, <1>10, <1>14
  <2>2. st[a[p]] \in Nat /\ st[a[r]] \in Nat
    BY <1>1, <1>9
  <2>3. st[a[p]] <= st[a[r]]
    BY <1>2, <1>8, <2>1, <2>2
  <2> QED
    BY <1>12, <2>3
<1>15. ASSUME NEW x, NEW c, Linked(c, hits, W, x) PROVE \E p \in 1..Len(cs) : cs[p] = c
  <2>1. x \in S
    <3>1. c[1] \in ToSet(hits) /\ c[1].start = x
      <4> DEFINE M == MatchesOver(W)
      <4> HIDE DEF M
      <4>1. c \in Seq(M) /\ c # <<>> /\ c[1].start = x /\ \A k \in 1..Len(c) : c[k] \in ToSet(hits)
        BY <1>15 DEF Linked, M
      <4>2. 1 \in 1..Len(c)
        BY <4>1, EmptySeq
      <4> QED
        BY <4>1, <4>2
    <3> QED
      BY <1>1, <3>1
  <2>2. PICK r \in 1..Len(G[x]) : G[x][r] = c
    BY <1>15, <2>1, FromAll DEF G
  <2>3. PICK j \in 1..n : st[j] = x
    BY <1>2, <2>1
  <2>4. PICK p \in 1..Len(cs) : a[p] = j /\ b[p] = r
    BY <1>11, <2>2, <2>3
  <2> QED
    BY <1>9, <2>2, <2>3, <2>4
<1>16. ASSUME IsInjective(hits), NEW p \in 1..Len(cs), NEW r \in 1..Len(cs), p < r, cs[p] = cs[r] PROVE FALSE
  <2>1. st[a[p]] = st[a[r]]
    BY <1>12, <1>16
  <2>2. st[a[p]] \in Nat /\ st[a[r]] \in Nat
    BY <1>1, <1>9
  <2>3. a[p] = a[r]
    <3>1. ~(a[p] < a[r])
      BY <1>2, <1>8, <2>1, <2>2
    <3> QED
      BY <1>10, <1>16, <3>1
  <2>4. b[p] < b[r]
    BY <1>8, <1>10, <1>16, <2>3
  <2> DEFINE x == st[a[p]]
  <2>5. x \in S /\ b[p] \in 1..Len(G[x]) /\ b[r] \in 1..Len(G[x]) /\ G[x][b[p]] = G[x][b[r]]
    BY <1>9, <1>16, <2>3
  <2>6. IsInjective(G[x])
    BY <1>16, <2>5, FromOnce DEF G
  <2> HIDE DEF x
  <2>7. DOMAIN G[x] = 1..Len(G[x])
    <3>1. G[x] \in Seq(C)
      BY <1>4, <2>5
    <3> QED
      BY <3>1
  <2> DEFINE f == G[x]
             u == b[p]
             j == b[r]
  <2> HIDE DEF f, u, j
  <2>8. u \in DOMAIN f /\ j \in DOMAIN f /\ f[u] = f[j] /\ u < j
    BY <2>4, <2>5, <2>7 DEF f, u, j
  <2>9. u = j
    BY <2>6, <2>8 DEF f, IsInjective
  <2>10. u \in Nat
    BY <1>8 DEF u
  <2> QED
    BY <2>8, <2>9, <2>10
<1>17. AllLinked(cs, hits, W)
  BY <1>6, <1>13, <1>14, <1>15, <1>16 DEF AllLinked, ChainLists, C
<1> QED
  BY <1>17 DEF cs

\* c and its marked form, match by match.
MarkedAs(d, c, W) ==
  /\ d \in Seq(Picked(W)) /\ Len(d) = Len(c) /\ d # <<>> /\ DOMAIN d = 1..Len(c)
  /\ \A k \in 1..Len(c) : /\ d[k].start = c[k].start /\ d[k].word = c[k].word
                          /\ d[k].consecutive = (k > 1) /\ EndOf(d[k]) = EndOf(c[k])
                          /\ c[k] = [start |-> d[k].start, word |-> d[k].word]

\* A marked chain has the words and starts of the chain, and no gaps.
LEMMA MarkIs ==
  ASSUME NEW W, NEW hits, NEW x, NEW c, Linked(c, hits, W, x)
  PROVE  /\ Len(c) \in Nat \ {0} /\ MarkedAs(Mark(c), c, W) /\ GluedChain(Mark(c), W)
         /\ \A k \in 1..Len(c) : c[k] \in ToSet(hits) /\ c[k].start \in Nat /\ c[k].word \in W
<1> DEFINE M == MatchesOver(W)
           n == Len(c)
           d == Mark(c)
           R(k) == [start |-> c[k].start, word |-> c[k].word, consecutive |-> k > 1]
<1>1. /\ c \in Seq(M) /\ c # <<>> /\ \A k \in 1..n : c[k] \in ToSet(hits)
      /\ \A k \in 2..n : c[k].start = EndOf(c[k - 1])
  BY DEF Linked
<1>2. n \in Nat \ {0} /\ DOMAIN c = 1..n /\ \A k \in 1..n : c[k] \in M
  <2> HIDE DEF M
  <2>1. n \in Nat \ {0} /\ DOMAIN c = 1..n
    BY <1>1, EmptySeq
  <2>2. \A k \in 1..n : c[k] \in M
    BY <1>1, ElementOfSeq
  <2> QED
    BY <2>1, <2>2
<1> HIDE DEF n
<1>3. \A k \in 1..n : /\ c[k].start \in Nat /\ c[k].word \in W
                      /\ c[k] = [start |-> c[k].start, word |-> c[k].word]
  BY <1>2 DEF MatchesOver
<1>4. d = [k \in 1..n |-> R(k)]
  BY <1>2 DEF Mark
<1>5. ASSUME NEW k \in 1..n PROVE R(k) \in Picked(W)
  <2> DEFINE v == k > 1
  <2>1. v \in BOOLEAN
    OBVIOUS
  <2> HIDE DEF v
  <2>2. [start |-> c[k].start, word |-> c[k].word, consecutive |-> v] \in Picked(W)
    BY <1>3, <2>1 DEF Picked
  <2> QED
    BY <2>2 DEF v
<1>6. d \in Seq(Picked(W)) /\ Len(d) = n /\ DOMAIN d = 1..n
  <2> DEFINE P == Picked(W)
             e == [k \in 1..n |-> R(k)]
  <2>1. \A k \in 1..n : R(k) \in P
    BY <1>5
  <2> HIDE DEF P
  <2>2. e \in Seq(P) /\ Len(e) = n /\ DOMAIN e = 1..n
    BY <1>2, <2>1
  <2> HIDE DEF e
  <2> QED
    BY <1>4, <2>2 DEF e, P
<1>7. \A k \in 1..n : d[k] = R(k)
  BY <1>4
<1> HIDE DEF d
<1>8. ASSUME NEW k \in 1..n
      PROVE  d[k].start = c[k].start /\ d[k].word = c[k].word /\ d[k].consecutive = (k > 1)
  <2> DEFINE a == c[k].start
             b == c[k].word
             v == k > 1
             r == [start |-> a, word |-> b, consecutive |-> v]
  <2>1. r.start = a /\ r.word = b /\ r.consecutive = v
    <3> HIDE DEF a, b, v
    <3> QED
      OBVIOUS
  <2>2. d[k] = r
    BY <1>7
  <2> HIDE DEF a, b, v, r
  <2>3. d[k].start = a /\ d[k].word = b /\ d[k].consecutive = v
    BY <2>1, <2>2, Zenon
  <2> QED
    BY <2>3, Zenon DEF a, b, v
<1>10. \A k \in 1..n : EndOf(d[k]) = EndOf(c[k])
  BY <1>8 DEF EndOf
<1>11. d # <<>>
  BY <1>2, <1>6, EmptySeq
<1>12. \A k \in 1..n : c[k] = [start |-> d[k].start, word |-> d[k].word]
  BY <1>3, <1>8
<1>13. MarkedAs(d, c, W)
  BY <1>2, <1>6, <1>10, <1>8, <1>11, <1>12, Zenon DEF MarkedAs, n
<1>14. \A k \in 2..Len(d) : d[k].start = EndOf(d[k - 1])
  <2>1. \A k \in 2..n : k \in 1..n /\ k - 1 \in 1..n
    BY <1>2
  <2> QED
    BY <1>1, <1>6, <1>10, <1>8, <2>1
<1>15. GluedChain(d, W)
  BY <1>6, <1>11, <1>14 DEF GluedChain
<1> QED
  BY <1>1, <1>2, <1>3, <1>13, <1>15 DEF d, n

\* Marked chains are the same only if the chains are.
LEMMA MarkOnce ==
  ASSUME NEW W, NEW hits, NEW x, NEW c, Linked(c, hits, W, x), NEW y, NEW e, Linked(e, hits, W, y),
         Mark(c) = Mark(e)
  PROVE  c = e
<1> DEFINE M == MatchesOver(W)
           d == Mark(c)
<1>1. MarkedAs(d, c, W)
  BY MarkIs
<1>2. MarkedAs(d, e, W)
  BY MarkIs
<1>3. c \in Seq(M) /\ e \in Seq(M)
  BY DEF Linked
<1> HIDE DEF d, M
<1>4. Len(c) = Len(e) /\ \A k \in 1..Len(c) : c[k] = e[k]
  <2>1. Len(c) = Len(e)
    BY <1>1, <1>2 DEF MarkedAs
  <2>2. \A k \in 1..Len(c) : c[k] = [start |-> d[k].start, word |-> d[k].word]
    BY <1>1 DEF MarkedAs
  <2>3. \A k \in 1..Len(c) : e[k] = [start |-> d[k].start, word |-> d[k].word]
    BY <1>2, <2>1 DEF MarkedAs
  <2> QED
    BY <2>1, <2>2, <2>3
<1> QED
  BY <1>3, <1>4, SameSeq

\* All of a chain is one run.
LEMMA QualifyingIs ==
  ASSUME NEW W, NEW hits, NEW x, NEW c, Linked(c, hits, W, x), NEW min \in Nat \ {0}
  PROVE  HasQualifyingRun(Mark(c), min) <=> Len(c) >= min
<1> DEFINE n == Len(c)
           d == Mark(c)
           Eq(f) == f = [k \in 1..Len(d) |-> IF k > 1 /\ d[k].consecutive THEN f[k - 1] + 1 ELSE 1]
           run == CHOOSE f : Eq(f)
<1>1. n \in Nat \ {0} /\ MarkedAs(d, c, W)
  BY MarkIs
<1> HIDE DEF d, n
<1>2. Len(d) = n /\ DOMAIN d = 1..n /\ d # <<>>
  BY <1>1 DEF MarkedAs, n
<1>3. \A k \in 1..n : k > 1 => d[k].consecutive
  <2>1. \A k \in 1..n : d[k].consecutive = (k > 1)
    BY <1>1 DEF MarkedAs, n
  <2> QED
    BY <2>1, Zenon
<1>4. Eq([k \in 1..n |-> k])
  <2> DEFINE f == [k \in 1..n |-> k]
             g == [k \in 1..Len(d) |-> IF k > 1 /\ d[k].consecutive THEN f[k - 1] + 1 ELSE 1]
  <2>1. ASSUME NEW k \in 1..n PROVE (IF k > 1 /\ d[k].consecutive THEN f[k - 1] + 1 ELSE 1) = k
    <3>1. CASE k > 1
      <4>1. k - 1 \in 1..n
        BY <1>1, <3>1
      <4>2. f[k - 1] + 1 = k
        BY <4>1
      <4> QED
        BY <1>3, <3>1, <4>2
    <3>2. CASE ~(k > 1)
      BY <3>2
    <3> QED
      BY <3>1, <3>2
  <2>2. g = [k \in 1..n |-> k]
    BY <1>2, <2>1
  <2> QED
    BY <2>2
<1>5. Eq(run)
  <2> HIDE DEF Eq
  <2> QED
    BY <1>4
<1> HIDE DEF run
<1>6. \A k \in 1..n : run[k] = IF k > 1 /\ d[k].consecutive THEN run[k - 1] + 1 ELSE 1
  BY <1>2, <1>5
<1> HIDE DEF Eq
<1> DEFINE T == {k \in 0..n : k > 0 => run[k] = k}
<1>7. \A k \in 0..n : k \in T
  <2>1. 0 \in T
    BY <1>1
  <2>2. ASSUME NEW k \in 1..n, k - 1 \in T PROVE k \in T
    <3>1. CASE k > 1
      <4>1. run[k - 1] = k - 1
        BY <2>2, <3>1
      <4>2. run[k] = run[k - 1] + 1
        BY <1>3, <1>6, <3>1
      <4> QED
        BY <1>1, <4>1, <4>2
    <3>2. CASE ~(k > 1)
      BY <1>1, <1>6, <3>2
    <3> QED
      BY <3>1, <3>2
  <2> HIDE DEF T
  <2> QED
    BY <1>1, <2>1, <2>2, UpTo
<1>8. \A k \in 1..n : run[k] = k
  <2>1. \A k \in 1..n : k \in 0..n /\ k > 0
    BY <1>1
  <2> HIDE DEF T
  <2>2. \A k \in 1..n : k \in T
    BY <1>7, <2>1
  <2> QED
    BY <2>1, <2>2 DEF T
<1>9. HasQualifyingRun(d, min) <=> IF min <= 1 THEN d # <<>> ELSE \E k \in DOMAIN d : run[k] >= min
  BY DEF HasQualifyingRun, run, Eq
<1>10. (\E k \in 1..n : run[k] >= min) <=> n >= min
  <2>1. n \in 1..n
    BY <1>1
  <2>2. n >= min => run[n] >= min
    BY <1>8, <2>1
  <2>3. \A k \in 1..n : run[k] >= min => n >= min
    BY <1>1, <1>8
  <2> QED
    BY <2>1, <2>2, <2>3
<1>11. HasQualifyingRun(d, min) <=> n >= min
  <2>1. CASE min <= 1
    BY <1>1, <1>2, <1>9, <2>1
  <2>2. CASE ~(min <= 1)
    BY <1>2, <1>9, <1>10, <2>2
  <2> QED
    BY <2>1, <2>2
<1> QED
  BY <1>11 DEF d, n

\* What every policy promises of the chains cs: they are chains of matches that are long enough,
\* in the order of their starts.
ChainsOf(cs, hits, W, min) ==
  /\ cs \in Seq(Seq(Picked(W)))
  /\ \A k \in 1..Len(cs) : GluedChain(cs[k], W) /\ Len(cs[k]) >= min
  /\ \A k \in 1..Len(cs) : \A x \in 1..Len(cs[k]) : \E m \in ToSet(hits) :
       m.start = cs[k][x].start /\ m.word = cs[k][x].word
  /\ \A k, l \in 1..Len(cs) : k < l => cs[k][1].start <= cs[l][1].start

\* What all-combos promises besides: all of them, once if the matches are reported once.
EveryChain(cs, hits, W, min) ==
  /\ \A k \in 1..Len(cs) : \E x, c : Linked(c, hits, W, x) /\ cs[k] = Mark(c) /\ Len(c) >= min
  /\ \A x, c : Linked(c, hits, W, x) /\ Len(c) >= min => \E k \in 1..Len(cs) : cs[k] = Mark(c)
  /\ IsInjective(hits) => \A k, l \in 1..Len(cs) : k < l => cs[k] # cs[l]

\* The chains of apply_all_combos_cb.
LEMMA AllCombosIs ==
  ASSUME NEW W, NEW hits, RawOf(hits, W), NEW min \in Nat \ {0}
  PROVE  ChainsOf(AllCombos(hits, min), hits, W, min) /\ EveryChain(AllCombos(hits, min), hits, W, min)
<1> DEFINE rc == RawChains(hits)
           marked == [c \in DOMAIN rc |-> Mark(rc[c])]
           P == {c \in DOMAIN marked : HasQualifyingRun(marked[c], min)}
           cs == AllCombos(hits, min)
           D == Seq(Picked(W))
           N == Len(rc)
<1>1. /\ rc \in ChainLists(W)
      /\ \A p \in 1..N : Linked(rc[p], hits, W, rc[p][1].start)
      /\ \A p, r \in 1..N : p < r => rc[p][1].start <= rc[r][1].start
      /\ \A x, c : Linked(c, hits, W, x) => \E p \in 1..N : rc[p] = c
      /\ IsInjective(hits) => \A p, r \in 1..N : p < r => rc[p] # rc[r]
  <2>1. AllLinked(RawChains(hits), hits, W)
    BY RawChainsAre
  <2> HIDE DEF rc
  <2> QED
    BY <2>1 DEF AllLinked, rc
<1>2. cs = Selected(marked, P)
  BY AllCombosSelects
<1> HIDE DEF rc, cs
<1>3. N \in Nat /\ DOMAIN rc = 1..N
  <2> DEFINE C == Seq(MatchesOver(W))
  <2>1. rc \in Seq(C)
    BY <1>1 DEF ChainLists
  <2> HIDE DEF C
  <2> QED
    BY <2>1
<1> HIDE DEF N
<1>4. \A p \in 1..N : Mark(rc[p]) \in D /\ GluedChain(Mark(rc[p]), W)
  <2> SUFFICES ASSUME NEW p \in 1..N PROVE Mark(rc[p]) \in D /\ GluedChain(Mark(rc[p]), W)
    OBVIOUS
  <2>1. Linked(rc[p], hits, W, rc[p][1].start)
    BY <1>1
  <2>2. GluedChain(Mark(rc[p]), W)
    BY <2>1, MarkIs
  <2> QED
    BY <2>2 DEF GluedChain
<1>5. marked \in Seq(D) /\ Len(marked) = N /\ \A p \in 1..N : marked[p] = Mark(rc[p])
  <2> HIDE DEF D
  <2> QED
    BY <1>3, <1>4
<1>6. P = {p \in 1..N : Len(rc[p]) >= min}
  <2>1. P = {p \in 1..N : HasQualifyingRun(Mark(rc[p]), min)}
    BY <1>3
  <2>2. ASSUME NEW p \in 1..N PROVE HasQualifyingRun(Mark(rc[p]), min) <=> Len(rc[p]) >= min
    <3>1. Linked(rc[p], hits, W, rc[p][1].start)
      BY <1>1
    <3> QED
      BY <3>1, QualifyingIs
  <2> QED
    BY <2>1, <2>2
<1> HIDE DEF marked, P, D
<1>7. P \in SUBSET (1..Len(marked))
  BY <1>5, <1>6
<1>8. PICK n \in Nat : \E p \in [1..n -> P] :
           /\ \A k, m \in 1..n : k < m <=> p[k] < p[m]
           /\ \A x \in P : \E k \in 1..n : p[k] = x
           /\ Selected(marked, P) = [k \in 1..n |-> marked[p[k]]]
           /\ Selected(marked, P) \in Seq(D) /\ Len(Selected(marked, P)) = n
  BY <1>5, <1>7, SelectedIs
<1>9. PICK p : /\ p \in [1..n -> P]
               /\ \A k, m \in 1..n : k < m <=> p[k] < p[m]
               /\ \A x \in P : \E k \in 1..n : p[k] = x
               /\ cs = [k \in 1..n |-> marked[p[k]]]
               /\ cs \in Seq(D) /\ Len(cs) = n
  BY <1>2, <1>8
<1>10. \A k \in 1..n : /\ p[k] \in 1..N /\ Len(rc[p[k]]) >= min /\ cs[k] = Mark(rc[p[k]])
                       /\ Linked(rc[p[k]], hits, W, rc[p[k]][1].start)
  <2>1. \A k \in 1..n : p[k] \in P /\ cs[k] = marked[p[k]]
    BY <1>9
  <2>2. \A k \in 1..n : p[k] \in 1..N /\ Len(rc[p[k]]) >= min
    BY <1>6, <2>1
  <2>3. \A k \in 1..n : Linked(rc[p[k]], hits, W, rc[p[k]][1].start)
    BY <1>1, <2>2
  <2> QED
    BY <1>5, <2>1, <2>2, <2>3
<1>11. ASSUME NEW k \in 1..n
       PROVE  /\ GluedChain(cs[k], W) /\ Len(cs[k]) >= min /\ cs[k][1].start = rc[p[k]][1].start
              /\ \A x \in 1..Len(cs[k]) : \E m \in ToSet(hits) :
                   m.start = cs[k][x].start /\ m.word = cs[k][x].word
  <2> DEFINE c == rc[p[k]]
  <2>1. Linked(c, hits, W, c[1].start) /\ cs[k] = Mark(c) /\ Len(c) >= min
    BY <1>10
  <2> HIDE DEF c
  <2>2. /\ Len(c) \in Nat \ {0} /\ MarkedAs(Mark(c), c, W) /\ GluedChain(Mark(c), W)
        /\ \A x \in 1..Len(c) : c[x] \in ToSet(hits)
    BY <2>1, MarkIs
  <2> DEFINE d == Mark(c)
  <2>3. /\ Len(d) = Len(c) /\ \A x \in 1..Len(c) : d[x].start = c[x].start /\ d[x].word = c[x].word
    BY <2>2 DEF MarkedAs
  <2> HIDE DEF d
  <2>4. \A x \in 1..Len(d) : \E m \in ToSet(hits) : m.start = d[x].start /\ m.word = d[x].word
    BY <2>2, <2>3
  <2>5. d[1].start = c[1].start
    <3>1. 1 \in 1..Len(c)
      BY <2>2
    <3> QED
      BY <2>3, <3>1
  <2> QED
    BY <2>1, <2>2, <2>3, <2>4, <2>5 DEF d, c
<1>12. ASSUME NEW k \in 1..n, NEW l \in 1..n, k < l PROVE cs[k][1].start <= cs[l][1].start
  <2>1. p[k] < p[l] /\ p[k] \in 1..N /\ p[l] \in 1..N
    BY <1>9, <1>10, <1>12
  <2>2. rc[p[k]][1].start <= rc[p[l]][1].start
    BY <1>1, <2>1
  <2> QED
    BY <1>11, <2>2
<1>13. ChainsOf(cs, hits, W, min)
  BY <1>9, <1>11, <1>12 DEF ChainsOf, D
<1>14. \A k \in 1..n : \E x, c : Linked(c, hits, W, x) /\ cs[k] = Mark(c) /\ Len(c) >= min
  BY <1>10
<1>15. ASSUME NEW x, NEW c, Linked(c, hits, W, x), Len(c) >= min PROVE \E k \in 1..n : cs[k] = Mark(c)
  <2>1. PICK r \in 1..N : rc[r] = c
    BY <1>1, <1>15
  <2>2. r \in P
    BY <1>6, <1>15, <2>1
  <2>3. PICK k \in 1..n : p[k] = r
    BY <1>9, <2>2
  <2> QED
    BY <1>10, <2>1, <2>3
<1>16. ASSUME IsInjective(hits), NEW k \in 1..n, NEW l \in 1..n, k < l, cs[k] = cs[l] PROVE FALSE
  <2>1. p[k] < p[l] /\ p[k] \in 1..N /\ p[l] \in 1..N
    BY <1>9, <1>10, <1>16
  <2>2. rc[p[k]] # rc[p[l]]
    BY <1>1, <1>16, <2>1
  <2> DEFINE c == rc[p[k]]
             e == rc[p[l]]
             y == c[1].start
             z == e[1].start
  <2>3. Linked(c, hits, W, y) /\ Linked(e, hits, W, z) /\ Mark(c) = Mark(e)
    BY <1>10, <1>16
  <2> HIDE DEF c, e, y, z
  <2>4. c = e
    BY <2>3, MarkOnce
  <2> QED
    BY <2>2, <2>4 DEF c, e
<1>17. EveryChain(cs, hits, W, min)
  BY <1>9, <1>14, <1>15, <1>16 DEF EveryChain
<1> QED
  BY <1>13, <1>17 DEF cs

\* The chains of both policies.
LEMMA ChainsAre ==
  ASSUME NEW W, NEW hits, RawOf(hits, W), NEW min \in Nat \ {0}, NEW policy
  PROVE  ChainsOf(Chains(policy, hits, min), hits, W, min)
<1>1. CASE policy = "all-combos"
  <2>1. Chains(policy, hits, min) = AllCombos(hits, min)
    BY <1>1 DEF Chains
  <2>2. ChainsOf(AllCombos(hits, min), hits, W, min)
    BY AllCombosIs
  <2> QED
    BY <2>1, <2>2
<1>2. CASE policy # "all-combos"
  <2> DEFINE cs == Etl(hits, min)
  <2>1. Chains(policy, hits, min) = cs
    BY <1>2 DEF Chains
  <2>2. /\ cs \in Seq(Seq(Picked(W)))
        /\ \A k \in 1..Len(cs) : GluedChain(cs[k], W) /\ Len(cs[k]) >= min
        /\ \A k \in 1..Len(cs) : \A x \in 1..Len(cs[k]) : \E m \in ToSet(hits) :
             m.start = cs[k][x].start /\ m.word = cs[k][x].word
        /\ \A k, l \in 1..Len(cs) : k < l => cs[k][1].start <= cs[l][1].start
    BY EtlChains
  <2> HIDE DEF cs
  <2>3. ChainsOf(cs, hits, W, min)
    BY <2>2 DEF ChainsOf
  <2> QED
    BY <2>1, <2>3
<1> QED
  BY <1>1, <1>2

\* Chains become phrases one by one.
LEMMA WrittenIs ==
  ASSUME NEW W, WordsOK(W), NEW cs \in Seq(Seq(Picked(W))), \A k \in 1..Len(cs) : GluedChain(cs[k], W)
  PROVE  /\ WrittenOf(cs) = [k \in DOMAIN cs |-> PhraseOf(cs[k])] /\ DOMAIN cs = 1..Len(cs)
         /\ WrittenOf(cs) \in Seq(PhrasesOver(W)) /\ Len(WrittenOf(cs)) = Len(cs)
         /\ \A k \in 1..Len(cs) : WrittenOf(cs)[k] = PhraseOf(cs[k]) /\ PhraseOf(cs[k]) \in PhrasesOver(W)
<1> DEFINE n == Len(cs)
           q == [k \in 1..n |-> PhraseOf(cs[k])]
           P == PhrasesOver(W)
           C == Seq(Picked(W))
<1>1. n \in Nat /\ DOMAIN cs = 1..n
  <2>1. cs \in Seq(C)
    OBVIOUS
  <2> HIDE DEF C
  <2> QED
    BY <2>1
<1> HIDE DEF n
<1>2. \A k \in 1..n : ProcessWords(cs[k]) = <<PhraseOf(cs[k])>> /\ PhraseOf(cs[k]) \in P
  <2> SUFFICES ASSUME NEW k \in 1..n PROVE ProcessWords(cs[k]) = <<PhraseOf(cs[k])>> /\ PhraseOf(cs[k]) \in P
    OBVIOUS
  <2> DEFINE c == cs[k]
  <2>1. GluedChain(c, W)
    BY DEF n
  <2> HIDE DEF c
  <2>2. ProcessWords(c) = <<PhraseOf(c)>>
    BY <2>1, ProcessWordsIs
  <2>3. PhraseOf(c) = FirstWords(c, Len(c)) /\ Len(c) \in Nat \ {0}
    BY <2>1, ChainIs
  <2>4. Len(c) \in 1..Len(c)
    BY <2>3
  <2>5. FirstWords(c, Len(c)) \in P
    BY <2>1, <2>4, FirstWordsAre
  <2> QED
    BY <2>2, <2>3, <2>5 DEF c
<1>3. q \in Seq(P) /\ Len(q) = n /\ DOMAIN q = 1..n /\ \A k \in 1..n : q[k] = PhraseOf(cs[k])
  <2>1. \A k \in 1..n : PhraseOf(cs[k]) \in P
    BY <1>2
  <2> HIDE DEF P
  <2> QED
    BY <1>1, <2>1
<1> HIDE DEF q, P
<1>4. FlattenSeq([k \in 1..Len(q) |-> <<q[k]>>]) = q
  BY <1>3, FlattenSingles
<1>5. [k \in 1..Len(q) |-> <<q[k]>>] = [k \in DOMAIN cs |-> ProcessWords(cs[k])]
  <2>1. \A k \in 1..n : <<q[k]>> = ProcessWords(cs[k])
    BY <1>2, <1>3
  <2>2. Len(q) = n /\ DOMAIN cs = 1..n
    BY <1>1, <1>3
  <2> QED
    BY <2>1, <2>2, Zenon
<1>6. WrittenOf(cs) = q
  BY <1>4, <1>5, Zenon DEF WrittenOf
<1>7. q = [k \in DOMAIN cs |-> PhraseOf(cs[k])]
  BY <1>1 DEF q
<1> QED
  BY <1>1, <1>2, <1>3, <1>6, <1>7 DEF n, P

\* What the serial run reads are matches as scan_chunk reports them.
LEMMA SerialMatches ==
  ASSUME SerialText
  PROVE  RawOf(scan.raw, input.dict) /\ WordsOK(input.dict) /\ input.minPhrase \in Nat \ {0}
<1> DEFINE d == input.dict
           R == scan.raw
           M == [start : Nat, word : d]
<1>1. InputOK /\ ScannedTo(TextAlphabet, d, AllLetters, 0, position \div Dpc, scan)
  BY DEF SerialText
<1>2. \A w \in d : Len(w) \in Nat /\ Len(w) # 0
  BY <1>1 DEF InputOK
<1>3. R \in Seq(Raws(d)) /\ ToSet(R) = FoundIn(d, AllLetters, 0, position \div Dpc)
  BY <1>1 DEF ScannedTo, Scans
<1>4. \A k \in 1..Len(R) : R[k] \in M
  <2>1. \A m \in ToSet(R) : m \in M
    BY <1>3 DEF FoundIn
  <2>2. \A k \in 1..Len(R) : R[k] \in ToSet(R)
    <3> DEFINE A == Raws(d)
    <3> HIDE DEF A, R
    <3>1. DOMAIN R = 1..Len(R)
      BY <1>3 DEF A
    <3> QED
      BY <3>1 DEF ToSet
  <2> QED
    BY <2>1, <2>2
<1>5. R \in Seq(M)
  <2> DEFINE A == Raws(d)
  <2> HIDE DEF A, R, M
  <2>1. R \in Seq(A)
    BY <1>3 DEF A
  <2> QED
    BY <1>4, <2>1
<1> QED
  BY <1>1, <1>2, <1>5 DEF RawOf, WordsOK, InputOK

\* The first n chains of all are written, the others are left.
Emitted(n, ps, rest, all, W) ==
  /\ n \in Nat /\ ps \in Seq(PhrasesOver(W)) /\ Len(ps) = n /\ n <= Len(all)
  /\ \A k \in 1..n : ps[k] = PhraseOf(all[k])
  /\ rest \in Seq(Seq(Picked(W))) /\ n + Len(rest) = Len(all)
  /\ \A k \in 1..Len(rest) : rest[k] = all[n + k]

SerialChains == Chains(input.policy, scan.raw, input.minPhrase)

SerialPhrases ==
  IF serialPc = "read" THEN phrases = <<>>
  ELSE \E n : Emitted(n, phrases, chains, SerialChains, input.dict)

\* The policy reports the chains.
LEMMA EndOfDigitsEmits ==
  ASSUME SerialText, SerialPhrases, EndOfDigits, UNCHANGED input
  PROVE  SerialPhrases'
<1> DEFINE W == input.dict
           all == SerialChains
<1>1. /\ serialPc = "read" /\ serialPc' = "emit" /\ scan' = scan /\ phrases' = phrases /\ input' = input
      /\ chains' = all
  BY DEF EndOfDigits, SerialChains
<1>2. phrases' = <<>>
  BY <1>1 DEF SerialPhrases
<1>3. SerialChains' = all
  BY <1>1 DEF SerialChains
<1>4. all \in Seq(Seq(Picked(W)))
  <2>1. RawOf(scan.raw, W) /\ input.minPhrase \in Nat \ {0}
    BY SerialMatches
  <2> DEFINE hits == scan.raw
             min == input.minPhrase
             policy == input.policy
  <2> HIDE DEF hits, min, policy, W
  <2>2. ChainsOf(Chains(policy, hits, min), hits, W, min)
    BY <2>1, ChainsAre DEF hits, min
  <2> QED
    BY <2>2 DEF ChainsOf, SerialChains, hits, min, policy
<1>5. Emitted(0, <<>>, all, all, W)
  <2> DEFINE C == Seq(Picked(W))
             P == PhrasesOver(W)
  <2> HIDE DEF all, C, P, W
  <2>1. all \in Seq(C)
    BY <1>4 DEF C
  <2>2. Len(all) \in Nat /\ <<>> \in Seq(P)
    BY <2>1
  <2>3. \A k \in 1..Len(all) : 0 + k = k
    BY <2>2
  <2>4. 0 + Len(all) = Len(all) /\ 0 <= Len(all) /\ 0 \in Nat /\ 1..0 = {}
    BY <2>2
  <2>5. Len(<<>>) = 0
    OBVIOUS
  <2> QED
    BY <1>4, <2>2, <2>3, <2>4, <2>5 DEF Emitted, P
<1>6. Emitted(0, phrases', chains', SerialChains', input'.dict)
  BY <1>1, <1>2, <1>3, <1>5, Zenon
<1>7. serialPc' # "read"
  BY <1>1
<1> QED
  BY <1>6, <1>7 DEF SerialPhrases

\* A chain more is written, a chain less is left.
LEMMA OneMoreEmitted ==
  ASSUME NEW W, WordsOK(W), NEW all, \A k \in 1..Len(all) : GluedChain(all[k], W), Len(all) \in Nat,
         NEW n, NEW ps, NEW rest, Emitted(n, ps, rest, all, W), rest # <<>>
  PROVE  Emitted(n + 1, ps \o Streamed(Head(rest)), Tail(rest), all, W)
<1> DEFINE P == PhrasesOver(W)
           C == Seq(Picked(W))
           c == all[n + 1]
           p == PhraseOf(c)
           qs == Append(ps, p)
           t == Tail(rest)
<1>1. /\ n \in Nat /\ ps \in Seq(P) /\ Len(ps) = n /\ n <= Len(all)
      /\ \A k \in 1..n : ps[k] = PhraseOf(all[k])
      /\ rest \in Seq(C) /\ n + Len(rest) = Len(all)
      /\ \A k \in 1..Len(rest) : rest[k] = all[n + k]
  BY DEF Emitted
<1> HIDE DEF P, C
<1>2. /\ Len(rest) \in Nat \ {0} /\ t \in Seq(C) /\ Len(t) = Len(rest) - 1
      /\ \A k \in 1..(Len(rest) - 1) : t[k] = rest[k + 1]
  BY <1>1, WithoutFirst
<1>3. Head(rest) = c
  <2>1. Head(rest) = rest[1]
    BY <1>1, <1>2, EmptySeq, HeadTailProperties
  <2>2. 1 \in 1..Len(rest)
    BY <1>2
  <2> QED
    BY <1>1, <2>1, <2>2
<1>4. n + 1 \in 1..Len(all)
  BY <1>1, <1>2
<1>5. GluedChain(c, W)
  BY <1>4
<1> HIDE DEF c, t
<1>6. Streamed(c) = <<p>> /\ p \in P
  <2>1. PhraseOf(c) = FirstWords(c, Len(c)) /\ Len(c) \in Nat \ {0}
    BY <1>5, ChainIs
  <2>2. Len(c) \in 1..Len(c)
    BY <2>1
  <2>3. FirstWords(c, Len(c)) \in P
    BY <1>5, <2>2, FirstWordsAre DEF P
  <2> QED
    BY <1>5, <2>1, <2>3, StreamedIs
<1> HIDE DEF p
<1>7. ps \o <<p>> = qs
  BY <1>1, <1>6
<1>8. qs \in Seq(P) /\ Len(qs) = n + 1 /\ (\A j \in 1..n : qs[j] = ps[j]) /\ qs[n + 1] = p
  BY <1>1, <1>6, Appended
<1> HIDE DEF qs
<1>9. \A k \in 1..(n + 1) : qs[k] = PhraseOf(all[k])
  <2>1. \A k \in 1..(n + 1) : k \in 1..n \/ k = n + 1
    BY <1>1
  <2> QED
    BY <1>1, <1>8, <2>1 DEF p, c
<1>10. (n + 1) + Len(t) = Len(all) /\ n + 1 <= Len(all) /\ n + 1 \in Nat
  <2> DEFINE x == Len(rest)
             y == Len(t)
             z == Len(all)
  <2>1. x \in Nat \ {0} /\ y = x - 1 /\ n + x = z /\ n \in Nat /\ z \in Nat
    BY <1>1, <1>2
  <2> HIDE DEF x, y, z
  <2>2. (n + 1) + y = n + x
    BY <2>1
  <2>3. (n + 1) + y = z /\ n + 1 <= z /\ n + 1 \in Nat
    BY <2>1, <2>2
  <2> QED
    BY <2>3 DEF y, z
<1>11. \A k \in 1..Len(t) : t[k] = all[(n + 1) + k]
  <2>1. \A k \in 1..Len(t) : k \in 1..(Len(rest) - 1) /\ k + 1 \in 1..Len(rest) /\ n + (k + 1) = (n + 1) + k
    BY <1>1, <1>2
  <2>2. \A k \in 1..Len(t) : t[k] = rest[k + 1] /\ rest[k + 1] = all[n + (k + 1)]
    BY <1>1, <1>2, <2>1
  <2> QED
    BY <2>1, <2>2
<1>12. Emitted(n + 1, qs, t, all, W)
  BY <1>2, <1>8, <1>9, <1>10, <1>11 DEF Emitted, P, C
<1>13. ps \o Streamed(Head(rest)) = qs
  BY <1>3, <1>6, <1>7
<1> QED
  BY <1>12, <1>13 DEF t

\* The chains the serial run writes.
LEMMA SerialChainsAre ==
  ASSUME SerialText
  PROVE  /\ ChainsOf(SerialChains, scan.raw, input.dict, input.minPhrase) /\ WordsOK(input.dict)
         /\ RawOf(scan.raw, input.dict) /\ input.minPhrase \in Nat \ {0}
         /\ Len(SerialChains) \in Nat /\ DOMAIN SerialChains = 1..Len(SerialChains)
         /\ \A k \in 1..Len(SerialChains) : GluedChain(SerialChains[k], input.dict)
<1> DEFINE W == input.dict
           hits == scan.raw
           min == input.minPhrase
           policy == input.policy
           all == Chains(policy, hits, min)
<1>1. RawOf(hits, W) /\ WordsOK(W) /\ min \in Nat \ {0}
  BY SerialMatches
<1> HIDE DEF hits, min, policy, W, all
<1>2. ChainsOf(all, hits, W, min)
  BY <1>1, ChainsAre DEF all
<1>3. Len(all) \in Nat /\ DOMAIN all = 1..Len(all)
  <2> DEFINE C == Seq(Picked(W))
  <2>1. all \in Seq(C)
    BY <1>2 DEF ChainsOf
  <2> HIDE DEF C
  <2> QED
    BY <2>1
<1>4. \A k \in 1..Len(all) : GluedChain(all[k], W)
  BY <1>2 DEF ChainsOf
<1>5. SerialChains = all
  BY DEF SerialChains, all, policy, hits, min
<1> QED
  BY <1>1, <1>2, <1>3, <1>4, <1>5, Zenon DEF W, hits, min

\* With one chain after the other written, the rest is left.
LEMMA EmitSequenceEmits ==
  ASSUME SerialText, SerialPhrases, EmitSequence, UNCHANGED input
  PROVE  SerialPhrases'
<1> DEFINE W == input.dict
           all == SerialChains
<1>1. /\ serialPc = "emit" /\ serialPc' = "emit" /\ scan' = scan /\ input' = input /\ chains # <<>>
      /\ phrases' = phrases \o Streamed(Head(chains)) /\ chains' = Tail(chains)
  BY DEF EmitSequence
<1>2. SerialChains' = all
  BY <1>1 DEF SerialChains
<1>3. PICK n : Emitted(n, phrases, chains, all, W)
  BY <1>1 DEF SerialPhrases
<1>4. WordsOK(W) /\ Len(all) \in Nat /\ \A k \in 1..Len(all) : GluedChain(all[k], W)
  BY SerialChainsAre
<1> HIDE DEF all, W
<1>5. Emitted(n + 1, phrases \o Streamed(Head(chains)), Tail(chains), all, W)
  BY <1>1, <1>3, <1>4, OneMoreEmitted
<1>6. Emitted(n + 1, phrases', chains', SerialChains', input'.dict)
  BY <1>1, <1>2, <1>5, Zenon DEF W
<1>7. serialPc' # "read"
  BY <1>1
<1> QED
  BY <1>6, <1>7 DEF SerialPhrases

\* The phrases of the serial run are those of the chains reported so far.
LEMMA SerialPhrasesHold == ScanSpec => []SerialPhrases
<1>1. ScanInit => SerialPhrases
  BY DEF ScanInit, SerialInit, SerialPhrases
<1>2. ScanInv /\ SerialPhrases /\ [ModesStep]_scanVars => SerialPhrases'
  <2> SUFFICES ASSUME ScanInv, SerialPhrases, [ModesStep]_scanVars PROVE SerialPhrases'
    OBVIOUS
  <2>0. SerialText
    BY DEF ScanInv
  <2>1. ASSUME UNCHANGED <<input, scan, chains, phrases>>, (serialPc = "read") = (serialPc' = "read") PROVE SerialPhrases'
    <3>1. input' = input /\ scan' = scan /\ chains' = chains /\ phrases' = phrases
      BY <2>1
    <3>2. SerialChains' = SerialChains
      BY <3>1 DEF SerialChains
    <3> QED
      BY <2>1, <3>1, <3>2 DEF SerialPhrases
  <2>2. CASE SerialStep /\ UNCHANGED <<input, chunkedVars>>
    <3>1. CASE ScanNext
      <4>1. phrases' = phrases /\ serialPc = "read" /\ serialPc' = "read"
        BY <3>1 DEF ScanNext
      <4> QED
        BY <4>1 DEF SerialPhrases
    <3>2. CASE EndOfDigits
      BY <2>0, <2>2, <3>2, EndOfDigitsEmits
    <3>3. CASE EmitSequence
      BY <2>0, <2>2, <3>3, EmitSequenceEmits
    <3>4. CASE SerialEnds
      <4>1. UNCHANGED <<scan, chains, phrases>> /\ serialPc = "emit" /\ serialPc' = "done"
        BY <3>4 DEF SerialEnds
      <4> QED
        BY <2>1, <2>2, <4>1
    <3> QED
      BY <2>2, <3>1, <3>2, <3>3, <3>4 DEF SerialStep
  <2>3. CASE serialPc = "done" /\ ChunkedStep /\ UNCHANGED <<input, serialVars>>
    BY <2>1, <2>3 DEF serialVars
  <2>4. CASE UNCHANGED scanVars
    BY <2>1, <2>4 DEF scanVars, serialVars
  <2> QED
    BY <2>2, <2>3, <2>4 DEF ModesStep
<1> QED
  BY <1>1, <1>2, ScanInvHolds, PTL DEF ScanSpec

\* What is written and what is left make all of it.
LEMMA EmittedIs ==
  ASSUME NEW W, WordsOK(W), NEW all \in Seq(Seq(Picked(W))), \A k \in 1..Len(all) : GluedChain(all[k], W),
         NEW n, NEW ps, NEW rest, Emitted(n, ps, rest, all, W)
  PROVE  ps \o WrittenOf(rest) = WrittenOf(all)
<1> DEFINE P == PhrasesOver(W)
           C == Seq(Picked(W))
           r == WrittenOf(rest)
           a == WrittenOf(all)
           s == ps \o r
<1>1. /\ n \in Nat /\ ps \in Seq(P) /\ Len(ps) = n /\ n <= Len(all)
      /\ \A k \in 1..n : ps[k] = PhraseOf(all[k])
      /\ rest \in Seq(C) /\ n + Len(rest) = Len(all)
      /\ \A k \in 1..Len(rest) : rest[k] = all[n + k]
  BY DEF Emitted
<1>2. Len(rest) \in Nat /\ Len(all) \in Nat
  <2> HIDE DEF P, C, r, a, s
  <2>1. rest \in Seq(C) /\ all \in Seq(C)
    BY <1>1 DEF C
  <2> QED
    BY <2>1
<1>3. \A k \in 1..Len(rest) : n + k \in 1..Len(all)
  BY <1>1, <1>2
<1>4. \A k \in 1..Len(rest) : GluedChain(rest[k], W)
  BY <1>1, <1>3
<1>5. r \in Seq(P) /\ Len(r) = Len(rest) /\ \A k \in 1..Len(rest) : r[k] = PhraseOf(rest[k])
  <2> HIDE DEF P, r, a, s
  <2>1. rest \in Seq(Seq(Picked(W)))
    BY <1>1
  <2> QED
    BY <1>4, <2>1, WrittenIs DEF r, P
<1>6. a \in Seq(P) /\ Len(a) = Len(all) /\ \A k \in 1..Len(all) : a[k] = PhraseOf(all[k])
  BY WrittenIs
<1> HIDE DEF P, C, r, a
<1>7. /\ s \in Seq(P) /\ Len(s) = n + Len(rest)
      /\ \A k \in 1..n : s[k] = ps[k]
      /\ \A k \in 1..Len(rest) : s[n + k] = r[k]
  <2>1. ps \in Seq(P) /\ r \in Seq(P)
    BY <1>1, <1>5
  <2>2. /\ ps \o r \in Seq(P) /\ Len(ps \o r) = Len(ps) + Len(r)
        /\ \A k \in 1..Len(ps) : (ps \o r)[k] = ps[k]
        /\ \A k \in 1..Len(r) : (ps \o r)[Len(ps) + k] = r[k]
    BY <2>1, TwoParts
  <2> HIDE DEF s
  <2>3. /\ s \in Seq(P) /\ Len(s) = Len(ps) + Len(r)
        /\ \A k \in 1..Len(ps) : s[k] = ps[k]
        /\ \A k \in 1..Len(r) : s[Len(ps) + k] = r[k]
    BY <2>2 DEF s
  <2>4. Len(ps) = n /\ Len(r) = Len(rest)
    BY <1>1, <1>5
  <2> QED
    BY <2>3, <2>4, Zenon
<1> HIDE DEF s
<1>8. \A k \in 1..Len(s) : s[k] = a[k]
  <2> SUFFICES ASSUME NEW k \in 1..Len(s) PROVE s[k] = a[k]
    OBVIOUS
  <2>1. k \in 1..Len(all)
    BY <1>1, <1>7
  <2>2. CASE k <= n
    <3>1. k \in 1..n
      BY <1>1, <2>1, <2>2
    <3> QED
      BY <1>1, <1>6, <1>7, <2>1, <3>1
  <2>3. CASE ~(k <= n)
    <3>1. k - n \in 1..Len(rest) /\ n + (k - n) = k
      BY <1>1, <1>2, <2>1, <2>3
    <3>2. s[n + (k - n)] = r[k - n] /\ r[k - n] = PhraseOf(rest[k - n]) /\ rest[k - n] = all[n + (k - n)]
      BY <1>1, <1>5, <1>7, <3>1
    <3> QED
      BY <1>6, <2>1, <3>1, <3>2
  <2> QED
    BY <2>2, <2>3
<1>9. Len(s) = Len(a)
  BY <1>1, <1>6, <1>7
<1>10. s = a
  BY <1>6, <1>7, <1>8, <1>9, SameSeq
<1> QED
  BY <1>10 DEF s, r, a

\* The letter with number x is one of the digits that count.
Counts(x) == /\ (x + 1) * Dpc <= Len(input.digits)
             /\ input.maxDigits > 0 => (x + 1) * Dpc <= input.maxDigits

\* The first n chunks have the letters whose chunk has a number below n.
LEMMA InFirstChunks ==
  ASSUME InputOK, NEW n \in Nat, NEW x \in Nat
  PROVE  /\ x < CharsOf(n) <=> ChunkOf(x) < n /\ Counts(x)
         /\ ChunkOf(x) \in Nat /\ CharsOf(n) \in Nat
<1> DEFINE q == Dpc
           K == ChunkSize
           L == Len(input.digits)
           M == input.maxDigits
           D == IF M > 0 THEN Lesser(Lesser(n * K, L), M) ELSE Lesser(n * K, L)
           y == (x + 1) * q
<1>1. q \in Nat \ {0} /\ L \in Nat /\ M \in Nat
  BY DEF InputOK
<1>2. PICK m \in Nat \ {0} : K = m * q /\ K \in Nat \ {0}
  BY ChunkSizeIs
<1>3. CharsOf(n) = D \div q
  BY DEF CharsOf
<1> HIDE DEF q, K, L, M
<1>4. n * K \in Nat /\ y \in Nat /\ x + 1 \in Nat
  BY <1>1, <1>2
<1>5. D \in Nat /\ (y <= D <=> y <= n * K /\ y <= L /\ (M > 0 => y <= M))
  <2> DEFINE t == n * K
  <2>1. t \in Nat
    BY <1>4
  <2> HIDE DEF t, y
  <2> QED
    BY <1>1, <1>4, <2>1 DEF Lesser
<1>6. x < D \div q <=> y <= D
  <2>1. x + 1 <= D \div q <=> y <= D
    <3> HIDE DEF D
    <3> QED
      BY <1>1, <1>4, <1>5, QuotientAtLeast
  <2>2. D \div q \in Nat
    <3> HIDE DEF D
    <3>1. D <= D
      BY <1>5
    <3> QED
      BY <1>1, <1>5, <3>1, QuotientGrows
  <2> DEFINE z == D \div q
  <2>3. z \in Nat /\ (x + 1 <= z <=> y <= D)
    BY <2>1, <2>2
  <2> HIDE DEF z, D, y
  <2>4. x < z <=> x + 1 <= z
    BY <2>3
  <2> QED
    BY <2>3, <2>4 DEF z
<1>7. ChunkOf(x) = (x * q) \div K
  BY DEF ChunkOf, q, K
<1>8. (y <= n * K <=> ChunkOf(x) < n) /\ ChunkOf(x) \in Nat
  <2>1. (y <= n * K <=> (x * q) \div K < n) /\ (x * q) \div K \in Nat
    BY <1>1, <1>2, InBlocks
  <2> QED
    BY <1>7, <2>1
<1>10. Counts(x) <=> y <= L /\ (M > 0 => y <= M)
  BY DEF Counts, q, L, M
<1>11. CharsOf(n) \in Nat
  <2>1. D <= D
    <3> HIDE DEF D
    <3> QED
      BY <1>5
  <2> HIDE DEF D
  <2>2. D \div q \in Nat
    BY <1>1, <1>5, <2>1, QuotientGrows
  <2> QED
    BY <1>3, <2>2
<1> HIDE DEF D, y
<1> QED
  BY <1>3, <1>5, <1>6, <1>8, <1>10, <1>11

\* Every chunk has found the words that start in it, each once.
ChunkFound ==
  \A n \in 1..Len(found) :
    ToSet(found[n]) = Between(CharsOf(n - 1), CharsOf(n)) /\ IsInjective(found[n])

\* A chunk more.
LEMMA ProcessChunkFinds ==
  ASSUME ChunkedText, ChunkFound, ProcessChunk, UNCHANGED input
  PROVE  ChunkFound'
<1> DEFINE n == Len(found)
           pkg == MapPackage(NextPackage[1])
           here == RealMatches(pkg)
           S == [start : Nat, word : input.dict]
           C == Seq(S)
           f == Append(found, here)
           Good(h, k) == ToSet(h) = Between(CharsOf(k - 1), CharsOf(k)) /\ IsInjective(h)
<1>1. /\ chunkedPc = "run" /\ NextPackage # <<>> /\ found' = f /\ input' = input
  BY DEF ProcessChunk
<1>2. InputOK /\ n \in Nat /\ nextSeq = n /\ found \in Seq(C)
  BY <1>1 DEF ChunkedText
<1>3. Packaged(pkg, n)
  <2>1. nextSeq \in Nat
    BY <1>2
  <2>2. Packaged(MapPackage(NextPackage[1]), nextSeq)
    BY <1>1, <1>2, <2>1, PackageIs
  <2> QED
    BY <1>2, <2>2
<1> HIDE DEF pkg
<1>4. here \in C /\ ToSet(here) = Between(CharsOf(n), CharsOf(n + 1)) /\ IsInjective(here)
  BY <1>2, <1>3, RealMatchesAre
<1> HIDE DEF here, C, f
<1>5. Len(f) = n + 1 /\ (\A k \in 1..n : f[k] = found[k]) /\ f[n + 1] = here
  BY <1>2, <1>4, Appended DEF f
<1>6. (n + 1) - 1 = n
  BY <1>2
<1>7. Good(here, n + 1)
  BY <1>4, <1>6
<1>8. \A k \in 1..n : Good(found[k], k)
  BY DEF ChunkFound
<1> HIDE DEF Good
<1>9. \A k \in 1..Len(f) : Good(f[k], k)
  <2>1. \A k \in 1..(n + 1) : k \in 1..n \/ k = n + 1
    BY <1>2
  <2> QED
    BY <1>5, <1>7, <1>8, <2>1
<1>10. /\ Occurrences' = Occurrences /\ Dpc' = Dpc /\ ChunkSize' = ChunkSize
  BY <1>1, SameText
<1>11. /\ ToSet(f) = ToSet(f)
       /\ \A a, b : Between(a, b)' = Between(a, b)
  BY <1>10 DEF Between
<1>12. \A k : CharsOf(k)' = CharsOf(k)
  BY <1>1, <1>10 DEF CharsOf, Lesser
<1>13. \A k \in 1..Len(found') : ToSet(found'[k]) = Between(CharsOf(k - 1), CharsOf(k))' /\ IsInjective(found'[k])
  <2> SUFFICES ASSUME NEW k \in 1..Len(found') PROVE ToSet(found'[k]) = Between(CharsOf(k - 1), CharsOf(k))' /\ IsInjective(found'[k])
    OBVIOUS
  <2>1. Good(f[k], k) /\ found'[k] = f[k]
    BY <1>1, <1>9
  <2>2. Between(CharsOf(k - 1), CharsOf(k))' = Between(CharsOf(k - 1), CharsOf(k))
    BY <1>10, <1>12 DEF Between
  <2> QED
    BY <2>1, <2>2 DEF Good
<1> QED
  BY <1>13 DEF ChunkFound

\* Every chunk finds the occurrences that start in it.
LEMMA ChunkFoundHolds == ScanSpec => []ChunkFound
<1>1. ScanInit => ChunkFound
  <2> SUFFICES ASSUME ScanInit PROVE ChunkFound
    OBVIOUS
  <2>1. found = <<>>
    BY DEF ScanInit, ChunkedInit
  <2>2. Len(found) = 0
    BY <2>1
  <2> QED
    BY <2>2 DEF ChunkFound
<1>2. ScanInv /\ ChunkFound /\ [ModesStep]_scanVars => ChunkFound'
  <2> SUFFICES ASSUME ScanInv, ChunkFound, [ModesStep]_scanVars PROVE ChunkFound'
    OBVIOUS
  <2>1. ASSUME UNCHANGED <<input, found>> PROVE ChunkFound'
    <3>1. input' = input /\ found' = found
      BY <2>1
    <3>2. Occurrences' = Occurrences /\ Dpc' = Dpc /\ ChunkSize' = ChunkSize
      <4>1. UNCHANGED input
        BY <3>1
      <4> QED
        BY <4>1, SameText
    <3>3. \A k : CharsOf(k)' = CharsOf(k)
      BY <3>1, <3>2 DEF CharsOf, Lesser
    <3>4. \A k \in 1..Len(found') : ToSet(found'[k]) = Between(CharsOf(k - 1), CharsOf(k))' /\ IsInjective(found'[k])
      <4> SUFFICES ASSUME NEW k \in 1..Len(found') PROVE ToSet(found'[k]) = Between(CharsOf(k - 1), CharsOf(k))' /\ IsInjective(found'[k])
        OBVIOUS
      <4>1. ToSet(found[k]) = Between(CharsOf(k - 1), CharsOf(k)) /\ IsInjective(found[k])
        BY <3>1 DEF ChunkFound
      <4>2. Between(CharsOf(k - 1), CharsOf(k))' = Between(CharsOf(k - 1), CharsOf(k))
        BY <3>2, <3>3 DEF Between
      <4> QED
        BY <3>1, <4>1, <4>2
    <3> QED
      BY <3>4 DEF ChunkFound
  <2>2. CASE SerialStep /\ UNCHANGED <<input, chunkedVars>>
    BY <2>1, <2>2 DEF chunkedVars
  <2>3. CASE serialPc = "done" /\ ChunkedStep /\ UNCHANGED <<input, serialVars>>
    <3>1. CASE ProcessChunk
      BY <2>3, <3>1, ProcessChunkFinds DEF ScanInv
    <3>2. CASE ChunksEnd
      BY <2>1, <2>3, <3>2 DEF ChunksEnd
    <3> QED
      BY <2>3, <3>1, <3>2 DEF ChunkedStep
  <2>4. CASE UNCHANGED scanVars
    BY <2>1, <2>4 DEF scanVars, chunkedVars
  <2> QED
    BY <2>2, <2>3, <2>4 DEF ModesStep
<1> QED
  BY <1>1, <1>2, ScanInvHolds, PTL DEF ScanSpec

\* A chunk's phrases are those of its chains, which are in order.
Phrased(n) == /\ output[n] = [k \in DOMAIN combos[n] |-> PhraseOf(combos[n][k])]
              /\ ChainsOf(combos[n], found[n], input.dict, input.minPhrase)

\* The phrases of a chunk start in it, and so the chunks keep the order.
LEMMA OutputAscends ==
  ASSUME ScanInv, ChunkChains, ChunkFound, \A n \in DOMAIN combos : Phrased(n)
  PROVE  \A n, l \in DOMAIN output : \A j \in DOMAIN output[n], k \in DOMAIN output[l] :
           n < l \/ (n = l /\ j < k) => output[n][j].start <= output[l][k].start
<1>1. InputOK /\ Len(found) \in Nat
  BY LenProperties DEF ScanInv, ChunkedText
<1>2. DOMAIN output = 1..Len(found) /\ DOMAIN combos = 1..Len(found)
  <2>1. output \in Seq(RangeOf(WrittenBy(input))) /\ combos \in Seq(RangeOf(MadeBy(input)))
        /\ Len(output) = Len(found) /\ Len(combos) = Len(found)
    BY DEF ChunkChains, EachOf
  <2> QED
    BY <2>1, LenProperties
<1>3. ASSUME NEW n \in 1..Len(found), NEW j \in DOMAIN output[n]
      PROVE  /\ j \in 1..Len(combos[n]) /\ output[n][j].start = combos[n][j][1].start
             /\ CharsOf(n - 1) <= output[n][j].start /\ output[n][j].start < CharsOf(n)
             /\ output[n][j].start \in Nat
             /\ \A k, l \in 1..Len(combos[n]) :
                  k < l => combos[n][k][1].start <= combos[n][l][1].start
  <2> DEFINE cs == combos[n]
             W == input.dict
  <2>1. /\ output[n] = [k \in DOMAIN cs |-> PhraseOf(cs[k])]
        /\ ChainsOf(cs, found[n], W, input.minPhrase)
    BY <1>2 DEF Phrased
  <2>2. cs \in Seq(Seq(Picked(W))) /\ j \in 1..Len(cs) /\ GluedChain(cs[j], W)
    BY <2>1 DEF ChainsOf
  <2>3. output[n][j].start = cs[j][1].start
    BY <2>1, <2>2 DEF PhraseOf
  <2>4. 1 \in 1..Len(cs[j])
    BY <2>2, EmptySeq, LenProperties DEF GluedChain
  <2>5. PICK m \in ToSet(found[n]) : m.start = cs[j][1].start
    BY <2>1, <2>2, <2>4 DEF ChainsOf
  <2>6. m \in Between(CharsOf(n - 1), CharsOf(n))
    BY <2>5 DEF ChunkFound
  <2>7. cs[j][1].start \in Nat
    <3> DEFINE c == cs[j]
    <3>1. c \in Seq(Picked(W)) /\ 1 \in 1..Len(c)
      BY <2>2, <2>4 DEF GluedChain
    <3> HIDE DEF c
    <3>2. c[1] \in Picked(W)
      BY <3>1, ElementOfSeq
    <3> QED
      BY <3>2 DEF Picked, c
  <2> QED
    BY <2>1, <2>2, <2>3, <2>5, <2>6, <2>7 DEF Between, ChainsOf
<1>4. ASSUME NEW n \in 1..Len(found), NEW l \in 1..Len(found), n < l
      PROVE  CharsOf(n) <= CharsOf(l - 1) /\ CharsOf(n) \in Nat /\ CharsOf(l - 1) \in Nat
  <2> DEFINE x == CharsOf(l - 1)
  <2>1. n \in Nat /\ l - 1 \in Nat /\ n <= l - 1
    BY <1>1, <1>4
  <2>2. x \in Nat /\ CharsOf(n) \in Nat
    BY <1>1, <2>1, InFirstChunks
  <2> HIDE DEF x
  <2>3. /\ x < CharsOf(n) <=> ChunkOf(x) < n /\ Counts(x)
        /\ x < CharsOf(l - 1) <=> ChunkOf(x) < l - 1 /\ Counts(x)
        /\ ChunkOf(x) \in Nat
    BY <1>1, <2>1, <2>2, InFirstChunks
  <2>4. ~(x < CharsOf(l - 1))
    BY <2>2 DEF x
  <2>5. ~(x < CharsOf(n))
    BY <2>1, <2>3, <2>4
  <2> QED
    BY <2>2, <2>5 DEF x
<1> SUFFICES ASSUME NEW n \in 1..Len(found), NEW l \in 1..Len(found),
                    NEW j \in DOMAIN output[n], NEW k \in DOMAIN output[l],
                    n < l \/ (n = l /\ j < k)
             PROVE  output[n][j].start <= output[l][k].start
  BY <1>2
<1>5. CASE n < l
  BY <1>3, <1>4, <1>5
<1>6. CASE n = l /\ j < k
  BY <1>3, <1>6
<1> QED
  BY <1>5, <1>6

\* Every chain reaches results.json as one phrase with all of its words, whichever
\* of the two scanners makes it, and the phrases of each mode come in the order of
\* their starts (HumanReviewScanner.cpp).
THEOREM OnePhrasePerChainHolds == ScanSpec => []OnePhrasePerChain
<1>1. ScanInv /\ ChunkChains /\ ChunkFound /\ SerialPhrases => OnePhrasePerChain
  <2> SUFFICES ASSUME ScanInv, ChunkChains, ChunkFound, SerialPhrases PROVE OnePhrasePerChain
    OBVIOUS
  <2> DEFINE W == input.dict
             all == SerialChains
  <2>1. SerialText
    BY DEF ScanInv
  <2>2. /\ ChainsOf(all, scan.raw, W, input.minPhrase) /\ WordsOK(W) /\ input.minPhrase \in Nat \ {0}
        /\ Len(all) \in Nat /\ \A k \in 1..Len(all) : GluedChain(all[k], W)
    BY <2>1, SerialChainsAre
  <2>3. \A n \in DOMAIN combos : Phrased(n)
    <3> SUFFICES ASSUME NEW n \in DOMAIN combos PROVE Phrased(n)
      OBVIOUS
    <3> DEFINE hits == found[n]
               min == input.minPhrase
               policy == input.policy
               cs == combos[n]
    <3>1. cs = Chains(policy, hits, min) /\ output[n] = WrittenOf(cs) /\ RawOf(hits, W)
      BY ChunkMade
    <3> HIDE DEF hits, min, policy, W, cs
    <3>2. ChainsOf(Chains(policy, hits, min), hits, W, min)
      BY <2>2, <3>1, ChainsAre DEF min
    <3>3. cs \in Seq(Seq(Picked(W))) /\ \A k \in 1..Len(cs) : GluedChain(cs[k], W)
      BY <3>1, <3>2 DEF ChainsOf
    <3>4. WrittenOf(cs) = [k \in DOMAIN cs |-> PhraseOf(cs[k])]
      BY <2>2, <3>3, WrittenIs
    <3> QED
      BY <3>1, <3>2, <3>4 DEF cs, policy, hits, min, W, Phrased
  <2>4. ASSUME serialPc # "read"
        PROVE  /\ \A k \in 1..(Len(phrases) - 1) : phrases[k].start <= phrases[k + 1].start
               /\ phrases \o WrittenOf(chains) = WrittenOf(all)
    <3>1. PICK n : Emitted(n, phrases, chains, all, W)
      BY <2>4 DEF SerialPhrases
    <3> DEFINE hits == scan.raw
               min == input.minPhrase
    <3> HIDE DEF all, W, hits, min
    <3>2. /\ all \in Seq(Seq(Picked(W)))
          /\ \A k, l \in 1..Len(all) : k < l => all[k][1].start <= all[l][1].start
      BY <2>2 DEF ChainsOf
    <3>3. phrases \o WrittenOf(chains) = WrittenOf(all)
      <4> DEFINE ps == phrases
                 rest == chains
      <4>1. Emitted(n, ps, rest, all, W) /\ all \in Seq(Seq(Picked(W))) /\ WordsOK(W)
        BY <2>2, <3>1, <3>2
      <4>2. \A k \in 1..Len(all) : GluedChain(all[k], W)
        BY <2>2
      <4> HIDE DEF ps, rest
      <4>3. ps \o WrittenOf(rest) = WrittenOf(all)
        BY <4>1, <4>2, EmittedIs
      <4> QED
        BY <4>3 DEF ps, rest
    <3>4. /\ n \in Nat /\ Len(phrases) = n /\ n <= Len(all)
          /\ \A k \in 1..n : phrases[k] = PhraseOf(all[k])
      BY <3>1 DEF Emitted
    <3>5. \A k \in 1..n : phrases[k].start = all[k][1].start
      BY <3>4 DEF PhraseOf
    <3>6. ASSUME NEW k \in 1..(Len(phrases) - 1) PROVE phrases[k].start <= phrases[k + 1].start
      <4>1. k \in 1..n /\ k + 1 \in 1..n /\ k < k + 1
        BY <3>4
      <4>2. k \in 1..Len(all) /\ k + 1 \in 1..Len(all)
        BY <2>2, <3>4, <4>1
      <4>3. all[k][1].start <= all[k + 1][1].start
        BY <3>2, <4>1, <4>2
      <4> QED
        BY <3>5, <4>1, <4>3
    <3> QED
      BY <3>3, <3>6
  <2>5. \A k \in 1..(Len(phrases) - 1) : phrases[k].start <= phrases[k + 1].start
    <3>1. CASE serialPc = "read"
      <4>1. phrases = <<>>
        BY <3>1 DEF SerialPhrases
      <4>2. Len(phrases) = 0
        BY <4>1
      <4> QED
        BY <4>2
    <3> QED
      BY <2>4, <3>1
  <2>6. serialPc # "read" =>
          phrases \o FlattenSeq([k \in DOMAIN chains |-> ProcessWords(chains[k])])
          = LET cs == Chains(input.policy, scan.raw, input.minPhrase)
            IN  FlattenSeq([k \in DOMAIN cs |-> ProcessWords(cs[k])])
    <3>1. FlattenSeq([k \in DOMAIN chains |-> ProcessWords(chains[k])]) = WrittenOf(chains)
      BY DEF WrittenOf
    <3>2. (LET cs == Chains(input.policy, scan.raw, input.minPhrase)
           IN  FlattenSeq([k \in DOMAIN cs |-> ProcessWords(cs[k])])) = WrittenOf(all)
      BY DEF WrittenOf, SerialChains
    <3> QED
      BY <2>4, <3>1, <3>2
  <2>7. \A n \in DOMAIN combos : output[n] =
          [k \in DOMAIN combos[n] |->
             [start |-> combos[n][k][1].start,
              words |-> [j \in DOMAIN combos[n][k] |-> combos[n][k][j].word]]]
    BY <2>3 DEF Phrased, PhraseOf
  <2>8. \A n, l \in DOMAIN output : \A j \in DOMAIN output[n], k \in DOMAIN output[l] :
          n < l \/ (n = l /\ j < k) => output[n][j].start <= output[l][k].start
    BY <2>3, OutputAscends
  <2> QED
    BY <2>5, <2>6, <2>7, <2>8 DEF OnePhrasePerChain
<1> QED
  BY <1>1, ScanInvHolds, ChunkChainsHold, ChunkFoundHolds, SerialPhrasesHold, PTL

\* The run is done only when every chain is written.
NoneLeft == serialPc = "done" => chains = <<>>

\* The serial run ends when all the chains are written.
LEMMA NoneLeftHolds == ScanSpec => []NoneLeft
<1>1. ScanInit => NoneLeft
  BY DEF ScanInit, SerialInit, NoneLeft
<1>2. NoneLeft /\ [ModesStep]_scanVars => NoneLeft'
  BY DEF NoneLeft, ModesStep, SerialStep, ScanNext, EndOfDigits, EmitSequence, SerialEnds, scanVars, serialVars
<1> QED
  BY <1>1, <1>2, PTL DEF ScanSpec

\* What a chain has, match by match.
MatchByMatch(c, hits, W, x) ==
  /\ Len(c) \in Nat \ {0} /\ DOMAIN c = 1..Len(c) /\ c[1].start = x
  /\ \A k \in 1..Len(c) : /\ c[k].start \in Nat /\ c[k].word \in W /\ Len(c[k].word) \in Nat
                          /\ EndOf(c[k]) = c[k].start + Len(c[k].word) /\ c[k] \in ToSet(hits)
                          /\ c[k] = [start |-> c[k].start, word |-> c[k].word]
  /\ \A k \in 2..Len(c) : c[k].start = EndOf(c[k - 1]) /\ k - 1 \in 1..Len(c)

\* The matches of a chain, one by one.
LEMMA LinkedIs ==
  ASSUME NEW W, WordsOK(W), NEW hits, NEW x, NEW c, Linked(c, hits, W, x)
  PROVE  MatchByMatch(c, hits, W, x)
<1> DEFINE M == MatchesOver(W)
           n == Len(c)
<1>1. /\ c \in Seq(M) /\ c # <<>> /\ c[1].start = x
      /\ \A k \in 1..n : c[k] \in ToSet(hits)
      /\ \A k \in 2..n : c[k].start = EndOf(c[k - 1])
  BY DEF Linked
<1>2. n \in Nat \ {0} /\ DOMAIN c = 1..n /\ \A k \in 1..n : c[k] \in M
  <2> HIDE DEF M
  <2>1. n \in Nat \ {0} /\ DOMAIN c = 1..n
    BY <1>1, EmptySeq
  <2>2. \A k \in 1..n : c[k] \in M
    BY <1>1, ElementOfSeq
  <2> QED
    BY <2>1, <2>2
<1> HIDE DEF n
<1>3. \A k \in 1..n : /\ c[k].start \in Nat /\ c[k].word \in W
                      /\ c[k] = [start |-> c[k].start, word |-> c[k].word]
  BY <1>2 DEF MatchesOver
<1>4. \A k \in 1..n : Len(c[k].word) \in Nat /\ EndOf(c[k]) = c[k].start + Len(c[k].word)
  BY <1>3 DEF WordsOK, EndOf
<1>5. \A k \in 2..n : k - 1 \in 1..n
  BY <1>2
<1> QED
  BY <1>1, <1>2, <1>3, <1>4, <1>5 DEF n, MatchByMatch

\* The words of a chain start in ascending order.
LEMMA LinkedAscends ==
  ASSUME NEW W, WordsOK(W), NEW hits, NEW x, NEW c, Linked(c, hits, W, x)
  PROVE  \A k \in 1..Len(c) : x <= c[k].start /\ c[k].start <= c[Len(c)].start
<1> DEFINE n == Len(c)
<1>0. MatchByMatch(c, hits, W, x)
  BY LinkedIs
<1>1. /\ n \in Nat \ {0} /\ c[1].start = x
      /\ \A k \in 1..n : /\ c[k].start \in Nat /\ Len(c[k].word) \in Nat
                         /\ EndOf(c[k]) = c[k].start + Len(c[k].word)
      /\ \A k \in 2..n : c[k].start = EndOf(c[k - 1]) /\ k - 1 \in 1..n
  BY <1>0 DEF MatchByMatch
<1> HIDE DEF n
<1>2. \A k \in 2..n : c[k - 1].start <= c[k].start
  <2> SUFFICES ASSUME NEW k \in 2..n PROVE c[k - 1].start <= c[k].start
    OBVIOUS
  <2>1. k - 1 \in 1..n /\ k \in 1..n /\ c[k].start = EndOf(c[k - 1])
    BY <1>1
  <2> DEFINE a == c[k - 1].start
             l == Len(c[k - 1].word)
  <2>2. a \in Nat /\ l \in Nat /\ c[k].start = a + l
    BY <1>1, <2>1
  <2> HIDE DEF a, l
  <2>3. a <= a + l
    BY <2>2
  <2> QED
    BY <2>2, <2>3 DEF a
<1> DEFINE T == {k \in 0..n : \A j \in 1..k : c[j].start <= c[k].start}
<1>3. \A k \in 0..n : k \in T
  <2>1. 0 \in T
    BY <1>1
  <2>2. ASSUME NEW k \in 1..n, k - 1 \in T PROVE k \in T
    <3> SUFFICES ASSUME NEW j \in 1..k PROVE c[j].start <= c[k].start
      BY <1>1
    <3>1. CASE j = k
      BY <1>1, <3>1
    <3>2. CASE j # k
      <4>1. k \in 2..n /\ j \in 1..(k - 1) /\ j \in 1..n /\ k - 1 \in 1..n
        BY <1>1, <3>2
      <4>2. c[j].start <= c[k - 1].start
        BY <2>2, <4>1
      <4>3. c[k - 1].start <= c[k].start
        BY <1>2, <4>1
      <4>4. c[j].start \in Nat /\ c[k - 1].start \in Nat /\ c[k].start \in Nat
        BY <1>1, <4>1
      <4> QED
        BY <4>2, <4>3, <4>4
    <3> QED
      BY <3>1, <3>2
  <2> HIDE DEF T
  <2> QED
    BY <1>1, <2>1, <2>2, UpTo
<1>4. \A k \in 1..n : c[1].start <= c[k].start /\ c[k].start <= c[n].start
  <2> SUFFICES ASSUME NEW k \in 1..n PROVE c[1].start <= c[k].start /\ c[k].start <= c[n].start
    OBVIOUS
  <2>1. k \in 0..n /\ n \in 0..n /\ 1 \in 1..k
    BY <1>1
  <2>2. k \in T /\ n \in T
    BY <1>3, <2>1
  <2> QED
    BY <2>1, <2>2
<1> QED
  BY <1>1, <1>4 DEF n

\* The marked chain makes the same phrase.
LEMMA PhraseOfMarked ==
  ASSUME NEW W, WordsOK(W), NEW hits, NEW x, NEW c, Linked(c, hits, W, x)
  PROVE  PhraseOf(Mark(c)) = PhraseOf(c)
<1> DEFINE d == Mark(c)
           n == Len(c)
<1>1. n \in Nat \ {0} /\ MarkedAs(d, c, W)
  BY MarkIs
<1>2. DOMAIN c = 1..n
  <2>1. MatchByMatch(c, hits, W, x)
    BY LinkedIs
  <2> QED
    BY <2>1 DEF MatchByMatch
<1> HIDE DEF d, n
<1>3. DOMAIN d = 1..n /\ \A k \in 1..n : d[k].start = c[k].start /\ d[k].word = c[k].word
  BY <1>1 DEF MarkedAs, n
<1>4. 1 \in 1..n
  BY <1>1
<1>5. [j \in DOMAIN d |-> d[j].word] = [j \in DOMAIN c |-> c[j].word]
  BY <1>2, <1>3
<1>6. PhraseOf(d) = PhraseOf(c)
  BY <1>3, <1>4, <1>5 DEF PhraseOf
<1> QED
  BY <1>6 DEF d

\* A phrase tells where its last word starts.
LEMMA LastWordStartIs ==
  ASSUME NEW W, WordsOK(W), NEW A, W \subseteq Seq(A), NEW hits, NEW x, NEW c, Linked(c, hits, W, x)
  PROVE  PhraseOf(c).start = x /\ LastWordStart(PhraseOf(c)) = c[Len(c)].start
<1> DEFINE n == Len(c)
           ws == [j \in 1..n |-> c[j].word]
           B == Seq(A)
<1>0. MatchByMatch(c, hits, W, x)
  BY LinkedIs
<1>1. /\ n \in Nat \ {0} /\ DOMAIN c = 1..n /\ c[1].start = x
      /\ \A k \in 1..n : /\ c[k].start \in Nat /\ c[k].word \in W /\ Len(c[k].word) \in Nat
                         /\ EndOf(c[k]) = c[k].start + Len(c[k].word)
      /\ \A k \in 2..n : c[k].start = EndOf(c[k - 1]) /\ k - 1 \in 1..n
  BY <1>0 DEF MatchByMatch
<1> HIDE DEF n
<1>2. PhraseOf(c) = [start |-> x, words |-> ws]
  BY <1>1 DEF PhraseOf
<1>3. ws \in Seq(B) /\ Len(ws) = n /\ \A k \in 1..n : ws[k] = c[k].word
  <2>1. \A k \in 1..n : c[k].word \in B
    BY <1>1
  <2> HIDE DEF B
  <2> QED
    BY <1>1, <2>1
<1> HIDE DEF ws
<1>4. PICK F : Flattens(F, A, ws) /\ FlattenSeq(ws) = F[n]
  BY <1>3, FlattenIs
<1>5. F \in [0..n -> Seq(A)] /\ F[0] = <<>> /\ \A k \in 1..n : F[k] = F[k - 1] \o ws[k]
  BY <1>3, <1>4 DEF Flattens
<1> DEFINE T == {k \in 0..n : k > 0 => x + Len(F[k]) = EndOf(c[k])}
<1>6. \A k \in 0..n : k \in T
  <2>1. 0 \in T
    BY <1>1
  <2>2. ASSUME NEW k \in 1..n, k - 1 \in T PROVE k \in T
    <3>1. k \in 0..n /\ k - 1 \in 0..n
      BY <1>1
    <3> DEFINE f == F[k - 1]
               w == ws[k]
    <3>2. f \in Seq(A) /\ w \in Seq(A) /\ F[k] = f \o w
      BY <1>1, <1>3, <1>5, <3>1
    <3>3. Len(w) \in Nat /\ EndOf(c[k]) = c[k].start + Len(w) /\ c[k].start \in Nat
      BY <1>1, <1>3
    <3>4. x + Len(f) = c[k].start
      <4>1. CASE k = 1
        <5>1. f = <<>>
          BY <1>5, <4>1
        <5>2. Len(f) = 0
          BY <5>1
        <5> HIDE DEF f
        <5> QED
          BY <1>1, <3>3, <4>1, <5>2
      <4>2. CASE k # 1
        <5>1. k \in 2..n /\ k - 1 > 0
          BY <1>1, <4>2
        <5>2. x + Len(f) = EndOf(c[k - 1])
          BY <2>2, <5>1
        <5> QED
          BY <1>1, <5>1, <5>2
      <4> QED
        BY <4>1, <4>2
    <3> HIDE DEF f, w
    <3>5. Len(f \o w) = Len(f) + Len(w) /\ Len(f) \in Nat /\ x \in Nat
      <4>1. x \in Nat
        <5>1. 1 \in 1..n
          BY <1>1
        <5> QED
          BY <1>1, <5>1
      <4> QED
        BY <3>2, <4>1
    <3>6. x + Len(f \o w) = EndOf(c[k])
      BY <3>3, <3>4, <3>5
    <3> QED
      BY <3>1, <3>2, <3>6
  <2> HIDE DEF T
  <2> QED
    BY <1>1, <2>1, <2>2, UpTo
<1>7. x + Len(F[n]) = EndOf(c[n])
  <2>1. n \in 0..n /\ n > 0
    BY <1>1
  <2>2. n \in T
    BY <1>6, <2>1
  <2> QED
    BY <2>1, <2>2
<1>8. Last(ws) = c[n].word
  <2>1. n \in 1..n
    BY <1>1
  <2> QED
    BY <1>3, <2>1 DEF Last
<1>9. LastWordStart(PhraseOf(c)) = (x + Len(F[n])) - Len(c[n].word)
  <2> DEFINE p == PhraseOf(c)
             b == Len(F[n])
             l == Len(c[n].word)
  <2>1. p.start = x /\ p.words = ws
    BY <1>2
  <2>2. x \in Nat /\ b \in Nat /\ l \in Nat
    <3>1. 1 \in 1..n /\ n \in 1..n /\ n \in 0..n
      BY <1>1
    <3>2. F[n] \in Seq(A)
      BY <1>5, <3>1
    <3> QED
      BY <1>1, <3>1, <3>2
  <2>3. Len(FlattenSeq(p.words)) = b /\ Len(Last(p.words)) = l
    BY <1>4, <1>8, <2>1
  <2> HIDE DEF p, b, l
  <2>4. LastWordStart(p) = x + b - l
    BY <2>1, <2>3 DEF LastWordStart
  <2>5. x + b - l = (x + b) - l
    BY <2>2
  <2> QED
    BY <2>4, <2>5 DEF p, b, l
<1>10. LastWordStart(PhraseOf(c)) = c[n].start
  <2>1. n \in 1..n
    BY <1>1
  <2> DEFINE s == c[n].start
             l == Len(c[n].word)
  <2>2. s \in Nat /\ l \in Nat /\ EndOf(c[n]) = s + l
    BY <1>1, <2>1
  <2>3. LastWordStart(PhraseOf(c)) = (s + l) - l
    BY <1>7, <1>9, <2>2
  <2> HIDE DEF s, l
  <2>4. (s + l) - l = s
    BY <2>2
  <2> QED
    BY <2>3, <2>4 DEF s
<1>11. PhraseOf(c).start = x
  BY <1>2
<1> QED
  BY <1>10, <1>11 DEF n

\* A phrase tells its chain.
LEMMA PhraseOnce ==
  ASSUME NEW W, WordsOK(W), NEW hits, NEW x, NEW c, Linked(c, hits, W, x),
         NEW y, NEW e, Linked(e, hits, W, y), PhraseOf(c) = PhraseOf(e)
  PROVE  c = e
<1> DEFINE n == Len(c)
           u == [j \in 1..n |-> c[j].word]
           v == [j \in 1..Len(e) |-> e[j].word]
<1>1. /\ n \in Nat \ {0} /\ DOMAIN c = 1..n /\ c[1].start = x
      /\ \A k \in 1..n : /\ EndOf(c[k]) = c[k].start + Len(c[k].word)
                         /\ c[k] = [start |-> c[k].start, word |-> c[k].word]
      /\ \A k \in 2..n : c[k].start = EndOf(c[k - 1]) /\ k - 1 \in 1..n
  <2>1. MatchByMatch(c, hits, W, x)
    BY LinkedIs
  <2> QED
    BY <2>1 DEF MatchByMatch
<1>2. /\ Len(e) \in Nat \ {0} /\ DOMAIN e = 1..Len(e) /\ e[1].start = y
      /\ \A k \in 1..Len(e) : /\ EndOf(e[k]) = e[k].start + Len(e[k].word)
                         /\ e[k] = [start |-> e[k].start, word |-> e[k].word]
      /\ \A k \in 2..Len(e) : e[k].start = EndOf(e[k - 1])
  <2>1. MatchByMatch(e, hits, W, y)
    BY LinkedIs
  <2> QED
    BY <2>1 DEF MatchByMatch
<1> HIDE DEF n
<1>3. PhraseOf(c) = [start |-> x, words |-> u] /\ PhraseOf(e) = [start |-> y, words |-> v]
  BY <1>1, <1>2 DEF PhraseOf
<1>4. x = y /\ u = v
  <2> HIDE DEF u, v
  <2>1. [start |-> x, words |-> u].start = x /\ [start |-> y, words |-> v].start = y
    OBVIOUS
  <2>2. [start |-> x, words |-> u].words = u /\ [start |-> y, words |-> v].words = v
    OBVIOUS
  <2> QED
    BY <1>3, <2>1, <2>2, Zenon
<1>5. n = Len(e)
  <2>1. DOMAIN u = 1..n /\ DOMAIN v = 1..Len(e)
    OBVIOUS
  <2>2. 1..n = 1..Len(e)
    BY <1>4, <2>1
  <2> DEFINE m == Len(e)
  <2>3. n \in Nat \ {0} /\ m \in Nat \ {0}
    BY <1>1, <1>2
  <2> HIDE DEF m
  <2>4. n \in 1..m /\ m \in 1..n
    BY <2>2, <2>3 DEF m
  <2>5. n = m
    BY <2>3, <2>4
  <2> QED
    BY <2>5 DEF m
<1>6. \A k \in 1..n : c[k].word = e[k].word
  <2>1. \A k \in 1..n : u[k] = c[k].word
    OBVIOUS
  <2>2. \A k \in 1..n : v[k] = e[k].word
    BY <1>5
  <2> HIDE DEF u, v
  <2> QED
    BY <1>4, <2>1, <2>2
<1> HIDE DEF u, v
<1> DEFINE T == {k \in 0..n : k > 0 => c[k].start = e[k].start}
<1>7. \A k \in 0..n : k \in T
  <2>1. 0 \in T
    BY <1>1
  <2>2. ASSUME NEW k \in 1..n, k - 1 \in T PROVE k \in T
    <3>1. CASE k = 1
      BY <1>1, <1>2, <1>4, <3>1
    <3>2. CASE k # 1
      <4>1. k \in 2..n /\ k - 1 > 0 /\ k - 1 \in 1..n /\ k \in 2..Len(e) /\ k - 1 \in 1..Len(e)
        BY <1>1, <1>5, <3>2
      <4>2. c[k - 1].start = e[k - 1].start /\ c[k - 1].word = e[k - 1].word
        BY <1>6, <2>2, <4>1
      <4>3. EndOf(c[k - 1]) = EndOf(e[k - 1])
        BY <1>1, <1>2, <4>1, <4>2
      <4>4. c[k].start = e[k].start
        BY <1>1, <1>2, <4>1, <4>3
      <4> QED
        BY <4>4
    <3> QED
      BY <3>1, <3>2
  <2> HIDE DEF T
  <2> QED
    BY <1>1, <2>1, <2>2, UpTo
<1>8. \A k \in 1..n : c[k].start = e[k].start
  <2>1. \A k \in 1..n : k \in 0..n /\ k > 0
    BY <1>1
  <2> HIDE DEF T
  <2>2. \A k \in 1..n : k \in T
    BY <1>7, <2>1
  <2> QED
    BY <2>1, <2>2 DEF T
<1>9. \A k \in 1..n : c[k] = e[k]
  BY <1>1, <1>2, <1>5, <1>6, <1>8
<1> DEFINE M == MatchesOver(W)
<1>10. c \in Seq(M) /\ e \in Seq(M)
  BY DEF Linked
<1> HIDE DEF M
<1> QED
  BY <1>5, <1>9, <1>10, SameSeq DEF n

\* ps are the phrases of the chains of at least min words, each once if the matches are
\* reported once.
ChainPhrases(ps, hits, W, min) ==
  /\ ps \in Seq(PhrasesOver(W))
  /\ \A k \in 1..Len(ps) : \E x, c : Linked(c, hits, W, x) /\ Len(c) >= min /\ ps[k] = PhraseOf(c)
  /\ \A x, c : Linked(c, hits, W, x) /\ Len(c) >= min => \E k \in 1..Len(ps) : ps[k] = PhraseOf(c)
  /\ IsInjective(hits) => \A k, l \in 1..Len(ps) : k < l => ps[k] # ps[l]

\* What all-combos writes for some matches.
LEMMA AllPhrasesAre ==
  ASSUME NEW W, WordsOK(W), NEW hits, RawOf(hits, W), NEW min \in Nat \ {0}
  PROVE  ChainPhrases(WrittenOf(AllCombos(hits, min)), hits, W, min)
<1> DEFINE cs == AllCombos(hits, min)
           ps == WrittenOf(cs)
           n == Len(ps)
<1>1. ChainsOf(cs, hits, W, min) /\ EveryChain(cs, hits, W, min)
  BY AllCombosIs
<1> HIDE DEF cs
<1>2. cs \in Seq(Seq(Picked(W))) /\ \A k \in 1..Len(cs) : GluedChain(cs[k], W)
  BY <1>1 DEF ChainsOf
<1>3. /\ ps \in Seq(PhrasesOver(W)) /\ Len(cs) = n
      /\ \A k \in 1..n : ps[k] = PhraseOf(cs[k])
  BY <1>2, WrittenIs
<1> HIDE DEF ps
<1>4. ASSUME NEW k \in 1..n
      PROVE  \E x, c : Linked(c, hits, W, x) /\ cs[k] = Mark(c) /\ Len(c) >= min /\ ps[k] = PhraseOf(c)
  <2>1. PICK x, c : Linked(c, hits, W, x) /\ cs[k] = Mark(c) /\ Len(c) >= min
    BY <1>1, <1>3 DEF EveryChain
  <2>2. PhraseOf(Mark(c)) = PhraseOf(c)
    BY <2>1, PhraseOfMarked
  <2>3. ps[k] = PhraseOf(c)
    BY <1>3, <2>1, <2>2
  <2> QED
    BY <2>1, <2>3
<1>5. ASSUME NEW x, NEW c, Linked(c, hits, W, x), Len(c) >= min
      PROVE  \E k \in 1..n : ps[k] = PhraseOf(c)
  <2>1. PICK k \in 1..n : cs[k] = Mark(c)
    BY <1>1, <1>3, <1>5 DEF EveryChain
  <2>2. PhraseOf(Mark(c)) = PhraseOf(c)
    BY <1>5, PhraseOfMarked
  <2>3. ps[k] = PhraseOf(c)
    BY <1>3, <2>1, <2>2
  <2> QED
    BY <2>3
<1>6. ASSUME IsInjective(hits), NEW k \in 1..n, NEW l \in 1..n, k < l PROVE ps[k] # ps[l]
  <2> SUFFICES ASSUME ps[k] = ps[l] PROVE FALSE
    OBVIOUS
  <2>1. PICK x, c : Linked(c, hits, W, x) /\ cs[k] = Mark(c) /\ ps[k] = PhraseOf(c)
    BY <1>4
  <2>2. PICK y, e : Linked(e, hits, W, y) /\ cs[l] = Mark(e) /\ ps[l] = PhraseOf(e)
    BY <1>4
  <2>3. PhraseOf(c) = PhraseOf(e)
    BY <2>1, <2>2
  <2>4. c = e
    BY <2>1, <2>2, <2>3, PhraseOnce
  <2>5. cs[k] = cs[l]
    BY <2>1, <2>2, <2>4
  <2>6. cs[k] # cs[l]
    BY <1>1, <1>3, <1>6 DEF EveryChain
  <2> QED
    BY <2>5, <2>6
<1>7. \A k \in 1..n : \E x, c : Linked(c, hits, W, x) /\ Len(c) >= min /\ ps[k] = PhraseOf(c)
  BY <1>4
<1> QED
  BY <1>3, <1>5, <1>6, <1>7 DEF ChainPhrases, ps, cs

\* The chains of a chunk are those of the whole text whose first and last words start in the
\* chunk: the words in between then do.
LEMMA ChainsOfChunk ==
  ASSUME InputOK, NEW n \in Nat \ {0}, NEW W, WordsOK(W),
         NEW hits, ToSet(hits) = Between(CharsOf(n - 1), CharsOf(n)),
         NEW all, ToSet(all) = Occurrences, NEW x, NEW c
  PROVE  Linked(c, hits, W, x)
         <=> /\ Linked(c, all, W, x) /\ ChunkOf(x) = n - 1
             /\ ChunkOf(c[Len(c)].start) = n - 1 /\ Counts(c[Len(c)].start)
<1> DEFINE z == c[Len(c)].start
           a == CharsOf(n - 1)
           b == CharsOf(n)
<1>0. n - 1 \in Nat /\ n \in Nat
  OBVIOUS
<1>1. ASSUME NEW y \in Nat
      PROVE  /\ y < b <=> ChunkOf(y) < n /\ Counts(y)
             /\ y < a <=> ChunkOf(y) < n - 1 /\ Counts(y)
             /\ ChunkOf(y) \in Nat /\ a \in Nat /\ b \in Nat
  BY <1>0, InFirstChunks
<1> HIDE DEF a, b
<1>2. \A m : m \in ToSet(hits) <=> m \in ToSet(all) /\ a <= m.start /\ m.start < b
  BY DEF Between, a, b
<1>3. ASSUME NEW h, Linked(c, h, W, x)
      PROVE  /\ Len(c) \in 1..Len(c) /\ 1 \in 1..Len(c) /\ x \in Nat /\ z \in Nat /\ c[1].start = x
             /\ \A k \in 1..Len(c) : c[k].start \in Nat /\ c[k] \in ToSet(h) /\ x <= c[k].start /\ c[k].start <= z
  <2>1. MatchByMatch(c, h, W, x)
    BY <1>3, LinkedIs
  <2>2. \A k \in 1..Len(c) : x <= c[k].start /\ c[k].start <= c[Len(c)].start
    BY <1>3, LinkedAscends
  <2>3. Len(c) \in Nat \ {0}
    BY <2>1 DEF MatchByMatch
  <2>4. Len(c) \in 1..Len(c) /\ 1 \in 1..Len(c)
    BY <2>3
  <2> QED
    BY <2>1, <2>2, <2>4 DEF MatchByMatch
<1>4. ASSUME Linked(c, hits, W, x)
      PROVE  Linked(c, all, W, x) /\ ChunkOf(x) = n - 1 /\ ChunkOf(z) = n - 1 /\ Counts(z)
  <2>1. \A k \in 1..Len(c) : c[k] \in ToSet(hits) /\ c[k].start \in Nat
    BY <1>3, <1>4
  <2>2. Linked(c, all, W, x)
    BY <1>2, <1>4, <2>1 DEF Linked
  <2>3. x \in Nat /\ z \in Nat /\ a <= x /\ x < b /\ a <= z /\ z < b
    BY <1>2, <1>3, <1>4
  <2>4. /\ ChunkOf(x) < n /\ Counts(x) /\ ChunkOf(z) < n /\ Counts(z)
        /\ ChunkOf(x) \in Nat /\ ChunkOf(z) \in Nat
    BY <1>1, <2>3
  <2>5. ~(ChunkOf(x) < n - 1) /\ ~(ChunkOf(z) < n - 1)
    <3>0. a \in Nat
      BY <1>1, <2>3
    <3>1. ~(x < a) /\ ~(z < a)
      <4> HIDE DEF z
      <4> QED
        BY <2>3, <3>0
    <3> QED
      BY <1>1, <2>3, <2>4, <3>1
  <2> DEFINE p == ChunkOf(x)
             r == ChunkOf(z)
  <2>6. p \in Nat /\ r \in Nat /\ p < n /\ r < n /\ ~(p < n - 1) /\ ~(r < n - 1)
    BY <2>4, <2>5
  <2> HIDE DEF p, r
  <2>7. p = n - 1 /\ r = n - 1
    BY <2>6
  <2> QED
    BY <2>2, <2>4, <2>7 DEF p, r
<1>5. ASSUME Linked(c, all, W, x), ChunkOf(x) = n - 1, ChunkOf(z) = n - 1, Counts(z)
      PROVE  Linked(c, hits, W, x)
  <2>1. x \in Nat /\ z \in Nat
    BY <1>3, <1>5
  <2>2. z < b /\ ~(x < a) /\ a \in Nat /\ b \in Nat
    <3>1. n - 1 < n /\ ~(n - 1 < n - 1)
      OBVIOUS
    <3> QED
      BY <1>1, <1>5, <2>1, <3>1
  <2>3. \A k \in 1..Len(c) : c[k] \in ToSet(hits)
    <3> SUFFICES ASSUME NEW k \in 1..Len(c) PROVE c[k] \in ToSet(hits)
      OBVIOUS
    <3>1. c[k].start \in Nat /\ c[k] \in ToSet(all) /\ x <= c[k].start /\ c[k].start <= z
      BY <1>3, <1>5
    <3> DEFINE s == c[k].start
    <3>2. s \in Nat /\ x <= s /\ s <= z
      BY <3>1
    <3> HIDE DEF s, z
    <3>3. a <= s /\ s < b
      BY <2>1, <2>2, <3>2
    <3> QED
      BY <1>2, <3>1, <3>3 DEF s
  <2> QED
    BY <1>5, <2>3 DEF Linked
<1> QED
  BY <1>4, <1>5

\* What is written of a chunk under all-combos.
LEMMA ChunkPhrases ==
  ASSUME ScanInv, ChunkChains, input.policy = "all-combos", NEW n \in 1..Len(found)
  PROVE  ChainPhrases(output[n], found[n], input.dict, input.minPhrase)
<1> DEFINE hits == found[n]
           W == input.dict
           min == input.minPhrase
           cs == combos[n]
<1>1. n \in DOMAIN combos
  <2>1. combos \in Seq(RangeOf(MadeBy(input))) /\ Len(combos) = Len(found)
    BY DEF ChunkChains, EachOf
  <2>2. DOMAIN combos = 1..Len(combos)
    BY <2>1
  <2> QED
    BY <2>1, <2>2
<1>2. /\ cs = Chains(input.policy, hits, min) /\ output[n] = WrittenOf(cs) /\ RawOf(hits, W)
  BY <1>1, ChunkMade
<1>3. SerialText
  BY DEF ScanInv
<1>4. WordsOK(W) /\ min \in Nat \ {0}
  BY <1>3, SerialChainsAre
<1>5. cs = AllCombos(hits, min)
  BY <1>2 DEF Chains
<1> HIDE DEF hits, W, min, cs
<1>6. ChainPhrases(WrittenOf(AllCombos(hits, min)), hits, W, min)
  BY <1>2, <1>4, AllPhrasesAre
<1>7. output[n] = WrittenOf(AllCombos(hits, min))
  BY <1>2, <1>5
<1>8. ChainPhrases(output[n], hits, W, min)
  BY <1>6, <1>7
<1> QED
  BY <1>8 DEF hits, W, min

\* What is written of the whole text.
LEMMA TextPhrases ==
  ASSUME ScanInv, SerialPhrases, NoneLeft, ChunkSizeInvisible, serialPc = "done",
         input.policy = "all-combos"
  PROVE  /\ ChainPhrases(phrases, scan.raw, input.dict, input.minPhrase)
         /\ ToSet(scan.raw) = Occurrences /\ IsInjective(scan.raw)
<1> DEFINE hits == scan.raw
           W == input.dict
           min == input.minPhrase
           all == SerialChains
           ps == phrases
           rest == chains
<1>1. SerialText /\ rest = <<>>
  BY DEF ScanInv, NoneLeft
<1>2. /\ ChainsOf(all, hits, W, min) /\ WordsOK(W) /\ RawOf(hits, W) /\ min \in Nat \ {0}
      /\ Len(all) \in Nat /\ \A k \in 1..Len(all) : GluedChain(all[k], W)
  BY <1>1, SerialChainsAre
<1>3. PICK n : Emitted(n, ps, rest, all, W)
  BY DEF SerialPhrases
<1>4. all = AllCombos(hits, min)
  BY DEF SerialChains, Chains
<1>5. ToSet(hits) = {m \in Occurrences : EndOf(m) <= Len(letters)} /\ IsInjective(hits)
  BY DEF ChunkSizeInvisible
<1>6. \A m \in Occurrences : EndOf(m) <= Len(letters)
  <2>1. position \div Dpc = Len(AllLetters) /\ AllLetters \in Seq(TextAlphabet) /\ Len(AllLetters) \in Nat
        /\ letters = SubSeq(AllLetters, 1, position \div Dpc)
    BY <1>1, TextIs DEF SerialText
  <2> DEFINE U == AllLetters
             C == TextAlphabet
             u == Len(U)
  <2>2. U \in Seq(C) /\ u \in 0..Len(U) /\ letters = SubSeq(U, 1, u)
    BY <2>1
  <2> HIDE DEF U, C, u
  <2>3. Len(letters) = u
    BY <2>2, FirstPart
  <2> QED
    BY <2>3 DEF Occurrences, U, u
<1> HIDE DEF hits, W, min, all, ps, rest
<1>7. ToSet(hits) = Occurrences
  BY <1>5, <1>6
<1>8. all \in Seq(Seq(Picked(W)))
  BY <1>2 DEF ChainsOf
<1>9. ps \o WrittenOf(rest) = WrittenOf(all)
  BY <1>2, <1>3, <1>8, EmittedIs
<1>10. ps \o WrittenOf(rest) = ps
  <2> DEFINE e == WrittenOf(rest)
  <2>1. rest \in Seq(Seq(Picked(W))) /\ Len(rest) = 0 /\ ps \in Seq(PhrasesOver(W))
    BY <1>1, <1>3 DEF Emitted
  <2>2. \A k \in 1..Len(rest) : GluedChain(rest[k], W)
    BY <2>1
  <2>3. e \in Seq(PhrasesOver(W)) /\ Len(e) = 0
    BY <1>2, <2>1, <2>2, WrittenIs
  <2> HIDE DEF e
  <2>4. e = <<>>
    BY <2>3, EmptySeq
  <2>5. ps \o <<>> = ps
    BY <2>1
  <2> QED
    BY <2>4, <2>5 DEF e
<1>11. ps = WrittenOf(AllCombos(hits, min))
  BY <1>4, <1>9, <1>10
<1>12. ChainPhrases(ps, hits, W, min)
  BY <1>2, <1>11, AllPhrasesAre
<1> QED
  BY <1>5, <1>7, <1>12 DEF hits, W, min, ps

\* q are the phrases of the chunks, hits their matches.
ChunkByChunk(q, hits, W, min) ==
  /\ q \in Seq(Seq(PhrasesOver(W)))
  /\ \A n \in 1..Len(q) : /\ ToSet(hits[n]) = Between(CharsOf(n - 1), CharsOf(n))
                          /\ IsInjective(hits[n]) /\ ChainPhrases(q[n], hits[n], W, min)

\* A chain whose words all start in chunk n.
InOneChunk(c, all, W, x, n) ==
  /\ Linked(c, all, W, x) /\ ChunkOf(x) = n - 1
  /\ ChunkOf(c[Len(c)].start) = n - 1 /\ Counts(c[Len(c)].start)

\* The phrases of a chunk are those of the chains in it, and start in it.
LEMMA PhrasesOfChunk ==
  ASSUME InputOK, NEW W, WordsOK(W), NEW all, ToSet(all) = Occurrences,
         NEW q, NEW hits, NEW min, ChunkByChunk(q, hits, W, min), NEW n \in 1..Len(q)
  PROVE  /\ \A k \in 1..Len(q[n]) : \E x, c : InOneChunk(c, all, W, x, n) /\ Len(c) >= min /\ q[n][k] = PhraseOf(c)
         /\ \A x, c : InOneChunk(c, all, W, x, n) /\ Len(c) >= min
                      => \E k \in 1..Len(q[n]) : q[n][k] = PhraseOf(c)
         /\ \A k, l \in 1..Len(q[n]) : k < l => q[n][k] # q[n][l]
<1> DEFINE h == hits[n]
           t == q[n]
<1>1. n \in Nat \ {0} /\ ToSet(h) = Between(CharsOf(n - 1), CharsOf(n)) /\ IsInjective(h) /\ ChainPhrases(t, h, W, min)
  <2>1. n \in Nat \ {0}
    BY DEF ChunkByChunk
  <2> QED
    BY <2>1 DEF ChunkByChunk
<1> HIDE DEF h, t
<1>2. ASSUME NEW x, NEW c PROVE Linked(c, h, W, x) <=> InOneChunk(c, all, W, x, n)
  <2>1. Linked(c, h, W, x)
         <=> /\ Linked(c, all, W, x) /\ ChunkOf(x) = n - 1
             /\ ChunkOf(c[Len(c)].start) = n - 1 /\ Counts(c[Len(c)].start)
    BY <1>1, ChainsOfChunk
  <2> QED
    BY <2>1 DEF InOneChunk
<1>3. \A k \in 1..Len(t) : \E x, c : InOneChunk(c, all, W, x, n) /\ Len(c) >= min /\ t[k] = PhraseOf(c)
  BY <1>1, <1>2 DEF ChainPhrases
<1>4. ASSUME NEW x, NEW c, InOneChunk(c, all, W, x, n), Len(c) >= min
      PROVE  \E k \in 1..Len(t) : t[k] = PhraseOf(c)
  BY <1>1, <1>2, <1>4 DEF ChainPhrases
<1>5. \A k, l \in 1..Len(t) : k < l => t[k] # t[l]
  BY <1>1 DEF ChainPhrases
<1> QED
  BY <1>3, <1>4, <1>5 DEF t

\* Laid end to end, the chunks' phrases are those of the chains within a chunk, each once.
LEMMA OnlyBoundariesLost ==
  ASSUME InputOK, NEW W, WordsOK(W), NEW A, W \subseteq Seq(A), NEW all, ToSet(all) = Occurrences,
         IsInjective(all), NEW q, NEW hits, NEW min, ChunkByChunk(q, hits, W, min),
         NEW ps, ChainPhrases(ps, all, W, min)
  PROVE  /\ ToSet(FlattenSeq(q)) = {p \in ToSet(ps) : /\ LastWordStart(p) < CharsOf(Len(q))
                                                      /\ ChunkOf(p.start) = ChunkOf(LastWordStart(p))}
         /\ IsInjective(FlattenSeq(q)) /\ IsInjective(ps)
<1> DEFINE f == FlattenSeq(q)
           N == Len(q)
           P == PhrasesOver(W)
<1>1. q \in Seq(Seq(P)) /\ N \in Nat /\ \A n \in 1..N : q[n] \in Seq(P) /\ Len(q[n]) \in Nat
  <2>1. q \in Seq(Seq(P))
    BY DEF ChunkByChunk
  <2> HIDE DEF P
  <2> DEFINE Q == Seq(P)
  <2>2. N \in Nat
    BY <2>1
  <2>3. \A n \in 1..N : q[n] \in Q
    <3> HIDE DEF Q
    <3> QED
      BY <2>1, ElementOfSeq DEF Q
  <2> QED
    BY <2>1, <2>2, <2>3
<1>2. PICK a, b : Laid(f, q, N, a, b)
  BY <1>1, FlattenLaid
<1>3. f \in Seq(P) /\ Len(f) \in Nat /\ DOMAIN f = 1..Len(f)
  <2>1. f \in Seq(P)
    BY <1>1, FlattenIs DEF Flattens
  <2> HIDE DEF f, P
  <2> QED
    BY <2>1
<1>4. /\ ps \in Seq(P) /\ Len(ps) \in Nat /\ DOMAIN ps = 1..Len(ps)
      /\ \A k \in 1..Len(ps) : \E x, c : Linked(c, all, W, x) /\ Len(c) >= min /\ ps[k] = PhraseOf(c)
      /\ \A x, c : Linked(c, all, W, x) /\ Len(c) >= min => \E k \in 1..Len(ps) : ps[k] = PhraseOf(c)
      /\ \A k, l \in 1..Len(ps) : k < l => ps[k] # ps[l]
  <2>1. ps \in Seq(P)
    BY DEF ChainPhrases
  <2>2. Len(ps) \in Nat /\ DOMAIN ps = 1..Len(ps)
    <3> HIDE DEF P
    <3> QED
      BY <2>1
  <2> QED
    BY <2>1, <2>2 DEF ChainPhrases
<1> HIDE DEF f, N, P
<1>5. ASSUME NEW x, NEW c, Linked(c, all, W, x)
      PROVE  /\ PhraseOf(c).start = x /\ LastWordStart(PhraseOf(c)) = c[Len(c)].start
             /\ x \in Nat /\ c[Len(c)].start \in Nat
  <2>1. PhraseOf(c).start = x /\ LastWordStart(PhraseOf(c)) = c[Len(c)].start
    BY <1>5, LastWordStartIs
  <2>2. MatchByMatch(c, all, W, x)
    BY <1>5, LinkedIs
  <2>3. Len(c) \in Nat \ {0}
    BY <2>2 DEF MatchByMatch
  <2>4. Len(c) \in 1..Len(c) /\ 1 \in 1..Len(c)
    BY <2>3
  <2>5. x \in Nat /\ c[Len(c)].start \in Nat
    BY <2>2, <2>4 DEF MatchByMatch
  <2> QED
    BY <2>1, <2>5
<1>6. ASSUME NEW y \in Nat PROVE (y < CharsOf(N) <=> ChunkOf(y) < N /\ Counts(y)) /\ ChunkOf(y) \in Nat
  BY <1>1, InFirstChunks
<1>7. ASSUME NEW r \in 1..Len(f)
      PROVE  /\ a[r] \in 1..N /\ b[r] \in 1..Len(q[a[r]]) /\ f[r] = q[a[r]][b[r]]
             /\ \E x, c : InOneChunk(c, all, W, x, a[r]) /\ Len(c) >= min /\ f[r] = PhraseOf(c)
  <2>1. a[r] \in 1..N /\ b[r] \in 1..Len(q[a[r]]) /\ f[r] = q[a[r]][b[r]]
    BY <1>2 DEF Laid
  <2> DEFINE n == a[r]
  <2>2. n \in 1..Len(q)
    BY <2>1 DEF N
  <2> HIDE DEF n
  <2>3. \A k \in 1..Len(q[n]) : \E x, c : InOneChunk(c, all, W, x, n) /\ Len(c) >= min /\ q[n][k] = PhraseOf(c)
    BY <2>2, PhrasesOfChunk
  <2> QED
    BY <2>1, <2>3 DEF n
<1>8. ASSUME NEW p \in ToSet(f)
      PROVE  p \in ToSet(ps) /\ LastWordStart(p) < CharsOf(N) /\ ChunkOf(p.start) = ChunkOf(LastWordStart(p))
  <2>1. PICK r \in 1..Len(f) : p = f[r]
    BY <1>3 DEF ToSet
  <2>2. PICK x, c : InOneChunk(c, all, W, x, a[r]) /\ Len(c) >= min /\ f[r] = PhraseOf(c)
    BY <1>7
  <2> DEFINE z == c[Len(c)].start
  <2>3. Linked(c, all, W, x) /\ ChunkOf(x) = a[r] - 1 /\ ChunkOf(z) = a[r] - 1 /\ Counts(z)
    BY <2>2 DEF InOneChunk
  <2>4. p.start = x /\ LastWordStart(p) = z /\ z \in Nat
    BY <1>5, <2>1, <2>2, <2>3
  <2>5. p \in ToSet(ps)
    BY <1>4, <2>1, <2>2, <2>3 DEF ToSet
  <2> HIDE DEF z
  <2>6. ChunkOf(z) < N
    <3>1. a[r] \in 1..N
      BY <1>7
    <3>2. a[r] - 1 < N
      BY <1>1, <3>1
    <3> QED
      BY <2>3, <3>2
  <2>7. z < CharsOf(N)
    BY <1>6, <2>3, <2>4, <2>6
  <2> QED
    BY <2>3, <2>4, <2>5, <2>7
<1>9. ASSUME NEW p \in ToSet(ps), LastWordStart(p) < CharsOf(N), ChunkOf(p.start) = ChunkOf(LastWordStart(p))
      PROVE  p \in ToSet(f)
  <2>1. PICK k \in 1..Len(ps) : p = ps[k]
    BY <1>4 DEF ToSet
  <2>2. PICK x, c : Linked(c, all, W, x) /\ Len(c) >= min /\ ps[k] = PhraseOf(c)
    BY <1>4
  <2> DEFINE z == c[Len(c)].start
             u == ChunkOf(z)
             n == u + 1
  <2>3. p.start = x /\ LastWordStart(p) = z /\ z \in Nat /\ x \in Nat
    BY <1>5, <2>1, <2>2
  <2> HIDE DEF z
  <2>4. u < N /\ Counts(z) /\ u \in Nat /\ ChunkOf(x) = u
    BY <1>6, <1>9, <2>3
  <2> HIDE DEF u
  <2>5. n \in 1..N /\ n - 1 = u
    BY <1>1, <2>4
  <2> HIDE DEF n
  <2>6. InOneChunk(c, all, W, x, n)
    BY <2>2, <2>4, <2>5 DEF InOneChunk, u, z
  <2>7. n \in 1..Len(q)
    BY <2>5 DEF N
  <2>8. \A y, e : InOneChunk(e, all, W, y, n) /\ Len(e) >= min
                  => \E m \in 1..Len(q[n]) : q[n][m] = PhraseOf(e)
    BY <2>7, PhrasesOfChunk
  <2>9. PICK m \in 1..Len(q[n]) : q[n][m] = PhraseOf(c)
    BY <2>2, <2>6, <2>8
  <2>10. PICK r \in 1..Len(f) : a[r] = n /\ b[r] = m
    BY <1>2, <2>5, <2>9 DEF Laid
  <2>11. f[r] = p
    BY <1>7, <2>1, <2>2, <2>9, <2>10
  <2> QED
    BY <1>3, <2>11 DEF ToSet
<1>10. ASSUME NEW r \in 1..Len(f), NEW s \in 1..Len(f), r < s PROVE f[r] # f[s]
  <2> SUFFICES ASSUME f[r] = f[s] PROVE FALSE
    OBVIOUS
  <2>1. a[r] < a[s] \/ (a[r] = a[s] /\ b[r] < b[s])
    BY <1>2, <1>10 DEF Laid
  <2>2. CASE a[r] < a[s]
    <3>1. PICK x, c : InOneChunk(c, all, W, x, a[r]) /\ f[r] = PhraseOf(c)
      BY <1>7
    <3>2. PICK y, e : InOneChunk(e, all, W, y, a[s]) /\ f[s] = PhraseOf(e)
      BY <1>7
    <3>3. Linked(c, all, W, x) /\ Linked(e, all, W, y) /\ ChunkOf(x) = a[r] - 1 /\ ChunkOf(y) = a[s] - 1
      BY <3>1, <3>2 DEF InOneChunk
    <3>4. x = y
      <4>1. PhraseOf(c).start = x /\ PhraseOf(e).start = y
        BY <1>5, <3>3
      <4>2. PhraseOf(c) = PhraseOf(e)
        BY <3>1, <3>2
      <4> QED
        BY <4>1, <4>2
    <3>5. a[r] - 1 = a[s] - 1
      BY <3>3, <3>4
    <3>6. a[r] \in 1..N /\ a[s] \in 1..N
      BY <1>7
    <3> QED
      BY <1>1, <2>2, <3>5, <3>6
  <2>3. CASE a[r] = a[s] /\ b[r] < b[s]
    <3> DEFINE n == a[r]
               k == b[r]
               l == b[s]
    <3>1. n \in 1..N /\ k \in 1..Len(q[n]) /\ l \in 1..Len(q[n]) /\ f[r] = q[n][k] /\ f[s] = q[n][l]
      BY <1>7, <2>3
    <3>2. n \in 1..Len(q) /\ k < l
      BY <2>3, <3>1 DEF N
    <3> HIDE DEF n, k, l
    <3>3. \A u, v \in 1..Len(q[n]) : u < v => q[n][u] # q[n][v]
      BY <3>2, PhrasesOfChunk
    <3> QED
      BY <3>1, <3>2, <3>3
  <2> QED
    BY <2>1, <2>2, <2>3
<1>11. IsInjective(f)
  BY <1>3, <1>10, NoneTwice
<1>12. IsInjective(ps)
  BY <1>4, NoneTwice
<1> QED
  BY <1>8, <1>9, <1>11, <1>12 DEF f, N

\* Under all-combos the parallel mode finds the phrases of the serial mode whose words all
\* start in one chunk, and no other, each once: only those across a boundary are missing
\* (the test of test_parallel_pipeline.cpp:137).
THEOREM AllCombosLoseOnlyBoundariesHolds == ScanSpec => []AllCombosLoseOnlyBoundaries
<1>1. ScanInv /\ ChunkChains /\ ChunkFound /\ SerialPhrases /\ NoneLeft /\ ChunkSizeInvisible
        => AllCombosLoseOnlyBoundaries
  <2> SUFFICES ASSUME ScanInv, ChunkChains, ChunkFound, SerialPhrases, NoneLeft, ChunkSizeInvisible,
                      chunkedPc = "done", input.policy = "all-combos"
               PROVE  /\ ParallelPhrases = {p \in ToSet(phrases) :
                                              /\ LastWordStart(p) < CharsOf(Processed)
                                              /\ ChunkOf(p.start) = ChunkOf(LastWordStart(p))}
                      /\ IsInjective(FlattenSeq(output)) /\ IsInjective(phrases)
    BY DEF AllCombosLoseOnlyBoundaries
  <2> DEFINE W == input.dict
             min == input.minPhrase
             all == scan.raw
             q == output
             ps == phrases
             A == 0..25
  <2>1. serialPc = "done" /\ InputOK /\ SerialText
    BY DEF ScanInv, ChunkedText
  <2>2. ChainPhrases(ps, all, W, min) /\ ToSet(all) = Occurrences /\ IsInjective(all)
    BY <2>1, TextPhrases
  <2>3. WordsOK(W) /\ W \subseteq Seq(A)
    <3>1. WordsOK(W)
      BY <2>1, SerialChainsAre
    <3> QED
      BY <2>1, <3>1 DEF InputOK
  <2>4. Len(q) = Len(found) /\ Len(found) \in Nat
    BY DEF ChunkChains, EachOf, ScanInv, ChunkedText
  <2>5. \A n \in 1..Len(q) : ChainPhrases(q[n], found[n], W, min)
    BY <2>4, ChunkPhrases
  <2>6. ChunkByChunk(q, found, W, min)
    <3>1. q \in Seq(RangeOf(WrittenBy(input)))
      BY DEF ChunkChains
    <3>2. DOMAIN q = 1..Len(q)
      <4> DEFINE B == RangeOf(WrittenBy(input))
      <4> HIDE DEF B, q
      <4> QED
        BY <3>1 DEF B
    <3> DEFINE Q == Seq(PhrasesOver(W))
    <3>3. \A n \in 1..Len(q) : q[n] \in Q
      BY <2>5 DEF ChainPhrases
    <3> HIDE DEF q, Q
    <3>4. q \in Seq(Q)
      <4>1. \E n \in Nat : q \in [1..n -> Q]
        <5>1. PICK B : q \in Seq(B)
          BY <3>1 DEF q
        <5>2. q = [n \in DOMAIN q |-> q[n]] /\ Len(q) \in Nat
          BY <5>1
        <5> QED
          BY <3>2, <3>3, <5>2
      <4> QED
        BY <4>1
    <3>5. \A n \in 1..Len(q) : ToSet(found[n]) = Between(CharsOf(n - 1), CharsOf(n)) /\ IsInjective(found[n])
      BY <2>4 DEF ChunkFound, q
    <3> QED
      BY <2>5, <3>4, <3>5 DEF ChunkByChunk, Q, q
  <2> HIDE DEF W, min, all, q, ps, A
  <2>7. /\ ToSet(FlattenSeq(q)) = {p \in ToSet(ps) : /\ LastWordStart(p) < CharsOf(Len(q))
                                                    /\ ChunkOf(p.start) = ChunkOf(LastWordStart(p))}
        /\ IsInjective(FlattenSeq(q)) /\ IsInjective(ps)
    BY <2>1, <2>2, <2>3, <2>6, OnlyBoundariesLost
  <2>8. ParallelPhrases = ToSet(FlattenSeq(q)) /\ Processed = Len(q)
    BY <2>4 DEF ParallelPhrases, Processed, q
  <2> QED
    BY <2>7, <2>8 DEF q, ps
<1> QED
  BY <1>1, ScanInvHolds, ChunkChainsHold, ChunkFoundHolds, SerialPhrasesHold, NoneLeftHolds,
     ChunkSizeInvisibleHolds, PTL

\* The occurrences are matches within the text.
LEMMA OccurrencesAre ==
  ASSUME NEW s, NEW S, s \in Seq(S), ToSet(s) \subseteq Occurrences
  PROVE  s \in Seq(Matches)
<1> DEFINE M == Matches
<1>1. Occurrences \subseteq M
  BY DEF Occurrences, Matches
<1> HIDE DEF M
<1>2. Len(s) \in Nat /\ s = [k \in 1..Len(s) |-> s[k]] /\ DOMAIN s = 1..Len(s)
  BY SeqIs
<1>3. \A k \in 1..Len(s) : s[k] \in M
  BY <1>1, <1>2 DEF ToSet
<1> QED
  BY <1>2, <1>3 DEF M

\* The phrases of chains of the text are phrases within the text.
LEMMA PhrasesAre ==
  ASSUME NEW W, W = input.dict, NEW hits, ToSet(hits) \subseteq Occurrences, NEW cs, NEW min, ChainsOf(cs, hits, W, min),
         NEW ps \in Seq(PhrasesOver(W)), Len(ps) <= Len(cs),
         \A k \in 1..Len(ps) : ps[k] = PhraseOf(cs[k])
  PROVE  ps \in Seq(Phrases)
<1> DEFINE P == Phrases
           Q == PhrasesOver(W)
           U == AllLetters
<1>1. ASSUME NEW k \in 1..Len(ps) PROVE ps[k] \in P
  <2>1. k \in 1..Len(cs)
    <3> DEFINE B == Seq(Picked(W))
    <3>0. cs \in Seq(B)
      BY DEF ChainsOf
    <3> HIDE DEF B, Q
    <3>1. Len(ps) \in Nat /\ Len(cs) \in Nat
      BY <3>0 DEF Q
    <3> QED
      BY <3>1
  <2> DEFINE c == cs[k]
  <2>2. GluedChain(c, W) /\ \A x \in 1..Len(c) : \E m \in ToSet(hits) : m.start = c[x].start
    BY <2>1 DEF ChainsOf
  <2> HIDE DEF c
  <2>3. 1 \in 1..Len(c)
    <3>1. c \in Seq(Picked(W)) /\ c # <<>>
      BY <2>2 DEF GluedChain
    <3>2. Len(c) \in Nat \ {0}
      BY <3>1, EmptySeq
    <3> QED
      BY <3>2
  <2>4. PICK m \in ToSet(hits) : m.start = c[1].start
    BY <2>2, <2>3
  <2>5. m \in [start : 0..Len(U), word : input.dict]
    BY <2>4 DEF Occurrences
  <2>6. m.start \in 0..Len(U)
    BY <2>5
  <2>7. ps[k] \in Q /\ ps[k].start = c[1].start
    <3>1. ps[k] \in Q
      <4> HIDE DEF Q
      <4> QED
        BY ElementOfSeq DEF Q
    <3>2. ps[k] = PhraseOf(c)
      BY DEF c
    <3> QED
      BY <3>1, <3>2 DEF PhraseOf
  <2> DEFINE p == ps[k]
             w == Seq(W)
             n == 0..Len(U)
  <2>8. p \in [start : Nat, words : w] /\ p.start \in n
    BY <2>4, <2>6, <2>7 DEF PhrasesOver
  <2> HIDE DEF p, w, n
  <2>9. p \in [start : n, words : w]
    BY <2>8
  <2> QED
    BY <2>9 DEF p, w, n, Phrases
<1> HIDE DEF P
<1>2. Len(ps) \in Nat /\ ps = [k \in 1..Len(ps) |-> ps[k]]
  BY SeqIs
<1> QED
  BY <1>1, <1>2 DEF P

\* The type invariant.
THEOREM ScanTypeOKHolds == ScanSpec => []ScanTypeOK
<1>1. ScanInv /\ ChunkChains /\ ChunkFound /\ SerialPhrases /\ ChunkSizeInvisible => ScanTypeOK
  <2> SUFFICES ASSUME ScanInv, ChunkChains, ChunkFound, SerialPhrases, ChunkSizeInvisible PROVE ScanTypeOK
    OBVIOUS
  <2> DEFINE W == input.dict
             min == input.minPhrase
             C == TextAlphabet
             S == [start : Nat, word : W]
  <2>1. /\ SerialText /\ ChunkedText /\ InputOK
    BY DEF ScanInv, SerialText
  <2>2. /\ input.chunk \in Nat \ {0} /\ input.maxDigits \in Nat /\ input.minPhrase \in Nat \ {0}
        /\ input.policy \in {"all-combos", "earliest-then-longest"}
    BY <2>1 DEF InputOK
  <2>3. position \in 0..Len(input.digits) /\ serialPc \in {"read", "emit", "done"}
    BY <2>1 DEF SerialText, Consumed
  <2>4. scan \in Scans(C, W) /\ scan.state \in Heads(C, W)
    <3>1. \E e, U : ScannedTo(C, W, U, 0, e, scan)
      BY <2>1 DEF SerialText
    <3> QED
      BY <3>1 DEF ScannedTo, LongestIn
  <2>5. scan.raw \in Seq(Matches)
    <3>1. scan.raw \in Seq(Raws(W))
      BY <2>4 DEF Scans
    <3>2. ToSet(scan.raw) \subseteq Occurrences
      BY DEF ChunkSizeInvisible
    <3> QED
      BY <3>1, <3>2, OccurrencesAre
  <2>6. scan.state = <<>> \/ \E w \in input.dict : IsPrefix(scan.state, w)
    BY <2>4 DEF Heads
  <2>7. nextSeq \in Nat /\ chunkedPc \in {"run", "done"}
        /\ nextSeq = Len(found) + (IF chunkedPc = "done" THEN 1 ELSE 0)
    BY <2>1 DEF ChunkedText
  <2>8. Len(found) = Len(combos) /\ Len(found) = Len(output) /\ Len(found) \in Nat
    BY <2>1 DEF ChunkChains, EachOf, ChunkedText
  <2>9. found \in Seq(Seq(Matches))
    <3> DEFINE M == Matches
               T == Seq(S)
               Q == Seq(M)
    <3>1. found \in Seq(T)
      BY <2>1 DEF ChunkedText
    <3>2. \A n \in 1..Len(found) : found[n] \in Q
      <4> SUFFICES ASSUME NEW n \in 1..Len(found) PROVE found[n] \in Q
        OBVIOUS
      <4>1. found[n] \in T
        <5> HIDE DEF T
        <5> QED
          BY <3>1, ElementOfSeq
      <4>2. ToSet(found[n]) \subseteq Occurrences
        BY DEF ChunkFound, Between
      <4> QED
        BY <4>1, <4>2, OccurrencesAre
    <3> HIDE DEF T, Q
    <3>3. found = [n \in 1..Len(found) |-> found[n]] /\ Len(found) \in Nat
      BY <3>1, SeqIs
    <3>4. found \in Seq(Q)
      BY <3>2, <3>3
    <3> QED
      BY <3>4 DEF Q
  <2>10. output \in Seq(Seq(Phrases))
    <3> DEFINE q == output
               Q == Seq(Phrases)
               B == RangeOf(WrittenBy(input))
    <3>1. q \in Seq(B)
      BY DEF ChunkChains
    <3>2. \A n \in 1..Len(q) : q[n] \in Q
      <4> SUFFICES ASSUME NEW n \in 1..Len(output) PROVE output[n] \in Q
        OBVIOUS
      <4> DEFINE hits == found[n]
                 policy == input.policy
                 cs == combos[n]
                 ps == output[n]
      <4>1. n \in 1..Len(found) /\ n \in DOMAIN combos
        <5>1. DOMAIN combos = 1..Len(combos)
          <6>1. combos \in Seq(RangeOf(MadeBy(input)))
            BY DEF ChunkChains
          <6> QED
            BY <6>1
        <5> QED
          BY <2>8, <5>1
      <4>2. cs = Chains(policy, hits, min) /\ ps = WrittenOf(cs) /\ RawOf(hits, W)
        BY <4>1, ChunkMade
      <4>3. ToSet(hits) \subseteq Occurrences
        BY <4>1 DEF ChunkFound, Between
      <4>4. WordsOK(W) /\ min \in Nat \ {0}
        BY <2>1, SerialChainsAre
      <4>5. W = input.dict
        OBVIOUS
      <4> HIDE DEF hits, policy, cs, W, min, ps
      <4>6. ChainsOf(cs, hits, W, min)
        BY <4>2, <4>4, ChainsAre
      <4>7. cs \in Seq(Seq(Picked(W))) /\ \A k \in 1..Len(cs) : GluedChain(cs[k], W)
        BY <4>6 DEF ChainsOf
      <4>8. /\ ps \in Seq(PhrasesOver(W)) /\ Len(ps) = Len(cs) /\ Len(cs) \in Nat
            /\ \A k \in 1..Len(ps) : ps[k] = PhraseOf(cs[k])
        <5>1. Len(cs) \in Nat
          <6> DEFINE D == Seq(Picked(W))
          <6>1. cs \in Seq(D)
            BY <4>7
          <6> HIDE DEF D
          <6> QED
            BY <6>1
        <5> QED
          BY <4>2, <4>4, <4>7, <5>1, WrittenIs
      <4>9. Len(ps) <= Len(cs)
        BY <4>8
      <4>10. ps \in Seq(Phrases)
        BY <4>3, <4>5, <4>6, <4>8, <4>9, PhrasesAre
      <4> QED
        BY <4>10 DEF ps
    <3> HIDE DEF q, Q, B
    <3>3. q = [n \in 1..Len(q) |-> q[n]] /\ Len(q) \in Nat
      BY <3>1, SeqIs
    <3>4. q \in Seq(Q)
      BY <3>2, <3>3
    <3> QED
      BY <3>4 DEF q, Q
  <2>11. phrases \in Seq(Phrases)
    <3>1. CASE serialPc = "read"
      <4>1. phrases = <<>>
        BY <3>1 DEF SerialPhrases
      <4> QED
        BY <4>1
    <3>2. CASE serialPc # "read"
      <4> DEFINE all == SerialChains
                 hits == scan.raw
                 ps == phrases
                 rest == chains
      <4>1. PICK n : Emitted(n, ps, rest, all, W)
        BY <3>2 DEF SerialPhrases
      <4>2. ToSet(hits) \subseteq Occurrences
        BY DEF ChunkSizeInvisible
      <4>3. ChainsOf(all, hits, W, min) /\ W = input.dict
        BY <2>1, SerialChainsAre
      <4> HIDE DEF all, hits, ps, rest, W, min
      <4>4. ps \in Seq(PhrasesOver(W)) /\ Len(ps) <= Len(all) /\ \A k \in 1..Len(ps) : ps[k] = PhraseOf(all[k])
        BY <4>1 DEF Emitted
      <4>5. ps \in Seq(Phrases)
        BY <4>2, <4>3, <4>4, PhrasesAre
      <4> QED
        BY <4>5 DEF ps
    <3> QED
      BY <3>1, <3>2
  <2> QED
    BY <2>2, <2>3, <2>5, <2>6, <2>7, <2>8, <2>9, <2>10, <2>11 DEF ScanTypeOK
<1> QED
  BY <1>1, ScanInvHolds, ChunkChainsHold, ChunkFoundHolds, SerialPhrasesHold, ChunkSizeInvisibleHolds, PTL
=============================================================================
