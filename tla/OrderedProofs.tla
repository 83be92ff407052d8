--------------------------- MODULE OrderedProofs ----------------------------
(***************************************************************************)
(* What the proofs need of the order of the integers: a least element,     *)
(* which stands in for induction, and the members of a finite set in       *)
(* ascending order; and of sequences: their suffixes and parts, folds over *)
(* them, and sequences laid end to end.                                    *)
(***************************************************************************)
EXTENDS Ordered, SequencesExt, FiniteSetTheorems, FunctionTheorems, WellFoundedInduction,
        SequenceTheorems, TLAPS

\* A nonempty set of numbers has a least member.
LEMMA Least ==
  ASSUME NEW T \in SUBSET Nat, T # {}
  PROVE  \E x \in T : \A y \in T : x <= y
<1> DEFINE R == OpToRel(<, Nat)
<1>1. IsWellFoundedOn(R, Nat)
  BY NatLessThanWellFounded
<1>2. \A x \in Nat, y \in Nat : y < x => <<y, x>> \in R
  BY DEF OpToRel
<1> HIDE DEF R
<1>3. PICK x \in T : \A y \in T : ~(<<y, x>> \in R)
  BY <1>1, WFMin
<1>4. ASSUME NEW y \in T PROVE x <= y
  <2>1. x \in Nat /\ y \in Nat
    OBVIOUS
  <2>2. ~(y < x)
    BY <1>2, <1>3, <2>1, Zenon
  <2> QED
    BY <2>1, <2>2
<1> QED
  BY <1>4

\* A set that has 0 and with a number the next one, up to n, has all of them.
LEMMA UpTo ==
  ASSUME NEW T, NEW n \in Nat, 0 \in T, \A k \in 1..n : k - 1 \in T => k \in T
  PROVE  \A k \in 0..n : k \in T
<1> DEFINE U == {k \in 0..n : k \notin T}
<1>1. U \in SUBSET Nat
  OBVIOUS
<1>2. ASSUME U # {} PROVE FALSE
  <2>1. PICK x \in U : \A y \in U : x <= y
    BY <1>1, <1>2, Least
  <2>2. x \in 1..n /\ x \notin T
    <3>1. x \in 0..n /\ x # 0
      BY <2>1
    <3> QED
      BY <2>1, <3>1
  <2>3. x - 1 \in 0..n /\ ~(x <= x - 1)
    BY <2>2
  <2>4. x - 1 \in T
    BY <2>1, <2>3
  <2> QED
    BY <2>2, <2>4
<1> QED
  BY <1>2

\* How many members of S there are up to x.
Rank(S, x) == Cardinality({y \in S : y <= x})

\* A larger member has a higher rank, and ranks are counted from 1.
LEMMA RankGrows ==
  ASSUME NEW S \in SUBSET Int, IsFiniteSet(S), NEW x \in S
  PROVE  /\ Rank(S, x) \in 1..Cardinality(S)
         /\ \A z \in S : x < z => Rank(S, x) < Rank(S, z)
<1> DEFINE Up(z) == {y \in S : y <= z}
<1>1. \A z \in S : IsFiniteSet(Up(z)) /\ Cardinality(Up(z)) \in Nat /\ Cardinality(Up(z)) <= Cardinality(S)
  <2> SUFFICES ASSUME NEW z \in S
               PROVE  IsFiniteSet(Up(z)) /\ Cardinality(Up(z)) \in Nat /\ Cardinality(Up(z)) <= Cardinality(S)
    OBVIOUS
  <2>1. Up(z) \in SUBSET S
    OBVIOUS
  <2>2. IsFiniteSet(Up(z)) /\ Cardinality(Up(z)) <= Cardinality(S)
    BY <2>1, FS_Subset
  <2> QED
    BY <2>2, FS_CardinalityType
<1>2. Cardinality(S) \in Nat
  BY FS_CardinalityType
<1>3. Cardinality(Up(x)) # 0
  BY <1>1, FS_EmptySet
<1>4. ASSUME NEW z \in S, x < z PROVE Cardinality(Up(x)) < Cardinality(Up(z))
  <2>0. (\A y \in S : y <= x => y <= z) /\ z <= z /\ ~(z <= x)
    <3>1. x \in Int /\ z \in Int
      BY <1>4
    <3> QED
      BY <1>4, <3>1
  <2>1. Up(x) \in SUBSET Up(z) /\ z \in Up(z) /\ z \notin Up(x)
    BY <1>4, <2>0, Zenon
  <2>2. Up(x) # Up(z)
    BY <2>1
  <2>3. Cardinality(Up(x)) <= Cardinality(Up(z)) /\ Cardinality(Up(x)) # Cardinality(Up(z))
    BY <1>1, <2>1, <2>2, FS_Subset
  <2> QED
    BY <1>1, <2>3
<1> QED
  BY <1>1, <1>2, <1>3, <1>4 DEF Rank

\* Every rank is that of one member.
LEMMA RanksAreUsed ==
  ASSUME NEW S \in SUBSET Int, IsFiniteSet(S)
  PROVE  /\ \A k \in 1..Cardinality(S) : \E x \in S : Rank(S, x) = k
         /\ \A x \in S : \A z \in S : Rank(S, x) = Rank(S, z) => x = z
<1> DEFINE r == [x \in S |-> Rank(S, x)]
<1>1. \A x \in S : Rank(S, x) \in 1..Cardinality(S) /\ \A z \in S : x < z => Rank(S, x) < Rank(S, z)
  BY RankGrows
<1>2. \A x \in S : \A z \in S : Rank(S, x) = Rank(S, z) => x = z
  <2> SUFFICES ASSUME NEW x \in S, NEW z \in S, Rank(S, x) = Rank(S, z)
               PROVE  x = z
    OBVIOUS
  <2>1. ~(x < z) /\ ~(z < x)
    BY <1>1
  <2> QED
    BY <2>1
<1>3. r \in Injection(S, 1..Cardinality(S))
  BY <1>1, <1>2 DEF Injection, IsInjective
<1>4. Cardinality(S) \in Nat
  BY FS_CardinalityType
<1>5. IsFiniteSet(1..Cardinality(S)) /\ Cardinality(1..Cardinality(S)) = Cardinality(S)
  BY <1>4, FS_Interval
<1>6. r \in Surjection(S, 1..Cardinality(S))
  BY <1>3, <1>5, FS_Injection
<1>7. \A k \in 1..Cardinality(S) : \E x \in S : r[x] = k
  BY <1>6 DEF Surjection
<1> QED
  BY <1>2, <1>7

\* Ascending lists each member once, in ascending order.
LEMMA AscendingLists ==
  ASSUME NEW S \in SUBSET Int, IsFiniteSet(S)
  PROVE  /\ Cardinality(S) \in Nat
         /\ Ascending(S) \in [1..Cardinality(S) -> S]
         /\ Ascending(S) \in Seq(S) /\ Len(Ascending(S)) = Cardinality(S)
         /\ \A x \in S : \E k \in 1..Cardinality(S) : Ascending(S)[k] = x
         /\ \A k, m \in 1..Cardinality(S) : k < m <=> Ascending(S)[k] < Ascending(S)[m]
<1>1. Cardinality(S) \in Nat
  BY FS_CardinalityType
<1>2. \A k \in 1..Cardinality(S) : Ascending(S)[k] \in S /\ Rank(S, Ascending(S)[k]) = k
  <2> SUFFICES ASSUME NEW k \in 1..Cardinality(S)
               PROVE  Ascending(S)[k] \in S /\ Rank(S, Ascending(S)[k]) = k
    OBVIOUS
  <2>1. \E x \in S : Cardinality({y \in S : y <= x}) = k
    BY RanksAreUsed DEF Rank
  <2>2. Ascending(S)[k] = CHOOSE x \in S : Cardinality({y \in S : y <= x}) = k
    BY DEF Ascending
  <2> QED
    BY <2>1, <2>2 DEF Rank
<1>3. Ascending(S) = [k \in 1..Cardinality(S) |-> Ascending(S)[k]]
  BY SMTT(30) DEF Ascending
<1>4. Ascending(S) \in [1..Cardinality(S) -> S]
  BY <1>2, <1>3
<1>5. Ascending(S) \in Seq(S) /\ Len(Ascending(S)) = Cardinality(S)
  BY <1>1, <1>4
<1>6. \A x \in S : \E k \in 1..Cardinality(S) : Ascending(S)[k] = x
  <2> SUFFICES ASSUME NEW x \in S PROVE \E k \in 1..Cardinality(S) : Ascending(S)[k] = x
    OBVIOUS
  <2>1. Rank(S, x) \in 1..Cardinality(S)
    BY RankGrows
  <2> DEFINE a == Ascending(S)[Rank(S, x)]
  <2>2. a \in S /\ Rank(S, a) = Rank(S, x)
    BY <1>2, <2>1
  <2> HIDE DEF a
  <2>3. a = x
    BY <2>2, RanksAreUsed
  <2> QED
    BY <2>1, <2>3 DEF a
<1>7. \A k, m \in 1..Cardinality(S) : k < m <=> Ascending(S)[k] < Ascending(S)[m]
  <2> SUFFICES ASSUME NEW k \in 1..Cardinality(S), NEW m \in 1..Cardinality(S)
               PROVE  k < m <=> Ascending(S)[k] < Ascending(S)[m]
    OBVIOUS
  <2> DEFINE a == Ascending(S)[k]
             b == Ascending(S)[m]
  <2>1. a \in S /\ b \in S /\ Rank(S, a) = k /\ Rank(S, b) = m
    BY <1>2
  <2> HIDE DEF a, b
  <2>2. (a < b => k < m) /\ (b < a => m < k) /\ (a = b => k = m)
    BY <2>1, RankGrows
  <2>3. a \in Int /\ b \in Int /\ k \in Int /\ m \in Int
    BY <1>1, <2>1
  <2>4. k < m <=> a < b
    BY <2>2, <2>3
  <2> QED
    BY <2>4 DEF a, b
<1> QED
  BY <1>1, <1>4, <1>5, <1>6, <1>7
-----------------------------------------------------------------------------
(* Induction over the subsets of a finite set.                             *)

\* What holds of a set if it holds of the set without any one of its members.
LEMMA ByMembers ==
  ASSUME NEW D, IsFiniteSet(D), NEW T,
         \A s \in SUBSET D : (\A x \in s : s \ {x} \in T) => s \in T
  PROVE  \A s \in SUBSET D : s \in T
<1> DEFINE U == {Cardinality(s) : s \in {s \in SUBSET D : s \notin T}}
<1>1. \A s \in SUBSET D : IsFiniteSet(s) /\ Cardinality(s) \in Nat
  BY FS_Subset, FS_CardinalityType
<1>2. U \in SUBSET Nat
  BY <1>1
<1>3. ASSUME U # {} PROVE FALSE
  <2>1. PICK n \in U : \A m \in U : n <= m
    BY <1>2, <1>3, Least
  <2>2. PICK s \in SUBSET D : s \notin T /\ n = Cardinality(s)
    BY <2>1
  <2>3. ASSUME NEW x \in s PROVE s \ {x} \in T
    <3> DEFINE r == s \ {x}
    <3>1. r \in SUBSET D /\ Cardinality(r) = n - 1 /\ n \in Nat
      BY <1>1, <2>2, FS_RemoveElement
    <3>2. r \notin T => Cardinality(r) \in U
      BY <3>1
    <3> HIDE DEF U, r
    <3>3. r \notin T => n <= n - 1
      BY <2>1, <3>1, <3>2
    <3>4. r \in T
      BY <3>1, <3>3
    <3> QED
      BY <3>4 DEF r
  <2> QED
    BY <2>2, <2>3
<1> QED
  BY <1>3

\* A nonempty finite set of numbers has a greatest member.
LEMMA Greatest ==
  ASSUME NEW D \in SUBSET Nat, IsFiniteSet(D), D # {}
  PROVE  \E x \in D : \A y \in D : y <= x
<1> DEFINE T == {s \in SUBSET D : s # {} => \E x \in s : \A y \in s : y <= x}
<1>1. ASSUME NEW s \in SUBSET D, \A x \in s : s \ {x} \in T PROVE s \in T
  <2> SUFFICES ASSUME s # {} PROVE \E x \in s : \A y \in s : y <= x
    OBVIOUS
  <2>1. PICK x \in s : TRUE
    OBVIOUS
  <2>2. CASE s \ {x} = {}
    <3>1. \A y \in s : y = x
      BY <2>2
    <3> QED
      BY <3>1
  <2>3. CASE s \ {x} # {}
    <3>1. PICK z \in s \ {x} : \A y \in s \ {x} : y <= z
      BY <1>1, <2>3
    <3>2. \A y \in s : y = x \/ y <= z
      BY <3>1
    <3>3. x \in Nat /\ z \in Nat /\ z \in s /\ \A y \in s : y \in Nat
      OBVIOUS
    <3>4. CASE x <= z
      <4>1. \A y \in s : y <= z
        BY <3>2, <3>3, <3>4
      <4> QED
        BY <3>3, <4>1
    <3>5. CASE ~(x <= z)
      <4>1. \A y \in s : y <= x
        BY <3>2, <3>3, <3>5
      <4> QED
        BY <4>1
    <3> QED
      BY <3>4, <3>5
  <2> QED
    BY <2>2, <2>3
<1> HIDE DEF T
<1>2. D \in T
  BY <1>1, ByMembers
<1> QED
  BY <1>2 DEF T

\* The member of a set that the folds take first.
Pick(s) == CHOOSE x \in s : TRUE

\* A set without its first member.
LEMMA PickOne ==
  ASSUME NEW D, IsFiniteSet(D), NEW s \in SUBSET D, s # {}
  PROVE  /\ Pick(s) \in s /\ s \ {Pick(s)} \in SUBSET D
         /\ IsFiniteSet(s) /\ Cardinality(s) \in Nat /\ Cardinality(s) >= 1
         /\ Cardinality(s \ {Pick(s)}) = Cardinality(s) - 1
<1>1. Pick(s) \in s /\ IsFiniteSet(s)
  BY FS_Subset DEF Pick
<1>2. Cardinality(s) \in Nat /\ Cardinality(s) # 0
  BY <1>1, FS_CardinalityType, FS_EmptySet
<1> HIDE DEF Pick
<1>3. Cardinality(s \ {Pick(s)}) = Cardinality(s) - 1
  BY <1>1, FS_RemoveElement
<1> QED
  BY <1>1, <1>2, <1>3

\* What holds of the empty set, and of a set if it holds without its first member.
LEMMA BySubsets ==
  ASSUME NEW D, IsFiniteSet(D), NEW T, {} \in T,
         \A s \in SUBSET D : s # {} /\ s \ {Pick(s)} \in T => s \in T
  PROVE  \A s \in SUBSET D : s \in T
<1>1. ASSUME NEW s \in SUBSET D, \A x \in s : s \ {x} \in T PROVE s \in T
  <2>1. CASE s = {}
    BY <2>1
  <2>2. CASE s # {}
    <3>1. Pick(s) \in s
      BY <2>2 DEF Pick
    <3> QED
      BY <1>1, <2>2, <3>1
  <2> QED
    BY <2>1, <2>2
<1> QED
  BY <1>1, ByMembers

-----------------------------------------------------------------------------
(* Recursion, and division.                                                *)

\* F is the sequence that h makes of x0.
Iterates(F, x0, h) == F[0] = x0 /\ \A n \in Nat : F[n + 1] = h[n][F[n]]

\* Recursion on the natural numbers, of a function that is given as such.
LEMMA Recursion ==
  ASSUME NEW X, NEW x0 \in X, NEW h \in [Nat -> [X -> X]]
  PROVE  \E F \in [Nat -> X] : Iterates(F, x0, h)
<1> DEFINE Upto(f, n) == /\ f \in [0..n -> X] /\ f[0] = x0
                         /\ \A k \in 1..n : f[k] = h[k - 1][f[k - 1]]
           T == {n \in Nat : \E f : Upto(f, n)}
           Chosen(n) == CHOOSE f : Upto(f, n)
           F == [n \in Nat |-> Chosen(n)[n]]
<1>1. ASSUME NEW n \in Nat, NEW f, Upto(f, n) PROVE \E g : Upto(g, n + 1)
  <2> DEFINE g == [k \in 0..(n + 1) |-> IF k = n + 1 THEN h[n][f[n]] ELSE f[k]]
  <2>0. f \in [0..n -> X] /\ f[0] = x0 /\ \A k \in 1..n : f[k] = h[k - 1][f[k - 1]]
    BY <1>1
  <2>1. \A k \in 0..n : k \in 0..(n + 1) /\ k # n + 1 /\ g[k] = f[k] /\ f[k] \in X
    BY <2>0
  <2>2. g[n + 1] = h[n][f[n]] /\ g[n + 1] \in X
    BY <2>0
  <2>3. g \in [0..(n + 1) -> X]
    <3>1. \A k \in 0..(n + 1) : k \in 0..n \/ k = n + 1
      OBVIOUS
    <3>2. \A k \in 0..(n + 1) : g[k] \in X
      BY <2>1, <2>2, <3>1
    <3> QED
      BY <3>2
  <2>4. ASSUME NEW k \in 1..(n + 1) PROVE g[k] = h[k - 1][g[k - 1]]
    <3>1. CASE k = n + 1
      <4>1. k - 1 = n /\ n \in 0..n
        BY <3>1
      <4> QED
        BY <2>1, <2>2, <3>1, <4>1
    <3>2. CASE k # n + 1
      <4>1. k \in 1..n /\ k \in 0..n /\ k - 1 \in 0..n
        BY <3>2
      <4>2. g[k] = f[k] /\ g[k - 1] = f[k - 1]
        BY <2>1, <4>1
      <4> QED
        BY <2>0, <4>1, <4>2
    <3> QED
      BY <3>1, <3>2
  <2>5. g[0] = x0
    BY <2>0, <2>1
  <2> HIDE DEF g
  <2> QED
    BY <2>3, <2>4, <2>5
<1>2. ASSUME NEW n \in Nat PROVE Upto(Chosen(n), n)
  <2>1. 0 \in T
    <3> DEFINE f == [k \in 0..0 |-> x0]
    <3>1. Upto(f, 0)
      OBVIOUS
    <3> QED
      BY <3>1
  <2>2. \A k \in 1..n : k - 1 \in T => k \in T
    <3> SUFFICES ASSUME NEW k \in 1..n, k - 1 \in T PROVE k \in T
      OBVIOUS
    <3>1. k - 1 \in Nat /\ (k - 1) + 1 = k /\ k \in Nat
      OBVIOUS
    <3>2. PICK f : Upto(f, k - 1)
      OBVIOUS
    <3> HIDE DEF Upto
    <3>3. \E g : Upto(g, (k - 1) + 1)
      BY <1>1, <3>1, <3>2
    <3> QED
      BY <3>1, <3>3
  <2> HIDE DEF T
  <2>3. \A k \in 0..n : k \in T
    BY <2>1, <2>2, UpTo
  <2>4. n \in 0..n
    OBVIOUS
  <2>5. n \in T
    BY <2>3, <2>4
  <2> USE DEF T
  <2> HIDE DEF Upto
  <2>6. \E f : Upto(f, n)
    BY <2>5
  <2> QED
    BY <2>6
<1>3. ASSUME NEW n \in Nat, NEW f, NEW g, Upto(f, n), Upto(g, n + 1) PROVE f[n] = g[n]
  <2> DEFINE S == {k \in 0..n : f[k] = g[k]}
  <2>1. 0 \in S
    BY <1>3
  <2>2. \A k \in 1..n : k - 1 \in S => k \in S
    BY <1>3
  <2> HIDE DEF S
  <2>3. \A k \in 0..n : k \in S
    BY <2>1, <2>2, UpTo
  <2> QED
    BY <2>3 DEF S
<1>4. ASSUME NEW n \in Nat PROVE Chosen(n)[n] \in X
  <2> HIDE DEF Chosen
  <2> QED
    BY <1>2
<1>5. F \in [Nat -> X]
  <2> HIDE DEF Chosen
  <2> QED
    BY <1>4
<1>6. F[0] = x0
  <2>1. F[0] = Chosen(0)[0]
    OBVIOUS
  <2>2. Upto(Chosen(0), 0)
    BY <1>2
  <2> HIDE DEF Chosen, F
  <2> QED
    BY <2>1, <2>2
<1>7. ASSUME NEW n \in Nat PROVE F[n + 1] = h[n][F[n]]
  <2>0. n + 1 \in Nat
    OBVIOUS
  <2>1. F[n] = Chosen(n)[n] /\ F[n + 1] = Chosen(n + 1)[n + 1]
    BY <2>0, Zenon
  <2> DEFINE g == Chosen(n + 1)
             m == n + 1
  <2>2. Upto(Chosen(n), n) /\ Upto(g, m)
    <3>1. m \in Nat
      OBVIOUS
    <3> HIDE DEF Chosen, Upto, m
    <3>2. Upto(Chosen(m), m)
      BY <1>2, <3>1
    <3>3. Upto(Chosen(n), n)
      BY <1>2
    <3> QED
      BY <3>2, <3>3 DEF m
  <2> HIDE DEF Chosen, F, g
  <2>3. Chosen(n)[n] = g[n]
    <3> HIDE DEF Upto
    <3> QED
      BY <1>3, <2>2
  <2>4. g[n + 1] = h[n][g[n]]
    <3>1. n + 1 \in 1..m /\ (n + 1) - 1 = n
      OBVIOUS
    <3> QED
      BY <2>2, <3>1
  <2> QED
    BY <2>1, <2>3, <2>4 DEF g
<1> HIDE DEF F
<1> QED
  BY <1>5, <1>6, <1>7 DEF Iterates

\* Quotient and remainder.
LEMMA Division ==
  ASSUME NEW a \in Nat, NEW n \in Nat \ {0}
  PROVE  /\ a \div n \in Nat /\ a % n \in 0..(n - 1)
         /\ a = n * (a \div n) + (a % n)
OBVIOUS

\* Of two numbers the larger one has the larger quotient, or the same and a larger remainder.
LEMMA Larger ==
  ASSUME NEW n \in Nat \ {0}, NEW q \in Nat, NEW p \in Nat,
         NEW s \in 0..(n - 1), NEW r \in 0..(n - 1), n * q + s >= n * p + r
  PROVE  q >= p /\ (q = p => s >= r)
<1>1. ASSUME q < p PROVE FALSE
  <2>1. n * p >= n * (q + 1)
    BY <1>1
  <2>2. n * (q + 1) = n * q + n
    OBVIOUS
  <2> QED
    BY <2>1, <2>2
<1> QED
  BY <1>1

-----------------------------------------------------------------------------
(* Suffixes, and the longest one in a set.                                 *)

\* x is the longest suffix of s, of at most n characters, that is in W.
LongestIn(W, x, s, n) ==
  \E k \in 0..n : /\ x = Suffix(s, k) /\ x \in W
                  /\ \A j \in (k + 1)..n : Suffix(s, j) \notin W

\* A suffix is what its name says.
LEMMA EndIs ==
  ASSUME NEW C, NEW s \in Seq(C), NEW n \in 0..Len(s)
  PROVE  /\ Suffix(s, n) \in Seq(C) /\ Len(Suffix(s, n)) = n
         /\ \A j \in 1..n : Suffix(s, n)[j] = s[Len(s) - n + j]
<1> DEFINE m == Len(s) - n + 1
<1>1. Len(s) \in Nat /\ n \in Nat /\ m \in Int /\ \A j \in m..Len(s) : s[j] \in C
  OBVIOUS
<1>2. /\ SubSeq(s, m, Len(s)) \in Seq(C)
      /\ Len(SubSeq(s, m, Len(s))) = IF m <= Len(s) THEN Len(s) - m + 1 ELSE 0
      /\ \A j \in 1..(Len(s) - m + 1) : SubSeq(s, m, Len(s))[j] = s[m + j - 1]
  <2> HIDE DEF m
  <2> QED BY <1>1, SubSeqProperties
<1>3. Len(SubSeq(s, m, Len(s))) = n
  BY <1>1, <1>2
<1>4. \A j \in 1..n : SubSeq(s, m, Len(s))[j] = s[Len(s) - n + j]
  <2> SUFFICES ASSUME NEW j \in 1..n PROVE SubSeq(s, m, Len(s))[j] = s[Len(s) - n + j]
    OBVIOUS
  <2>1. j \in 1..(Len(s) - m + 1) /\ m + j - 1 = Len(s) - n + j
    BY <1>1
  <2> QED
    BY <1>2, <2>1
<1> QED
  BY <1>2, <1>3, <1>4 DEF Suffix

\* Two strings with the same characters are the same.
LEMMA SameSeq ==
  ASSUME NEW C, NEW s \in Seq(C), NEW t \in Seq(C), Len(s) = Len(t),
         \A j \in 1..Len(s) : s[j] = t[j]
  PROVE  s = t
BY SeqEqual

\* Appending a character.
LEMMA Appended ==
  ASSUME NEW C, NEW s \in Seq(C), NEW c \in C
  PROVE  /\ Append(s, c) \in Seq(C) /\ Append(s, c) # <<>> /\ Len(Append(s, c)) = Len(s) + 1
         /\ \A j \in 1..Len(s) : Append(s, c)[j] = s[j]
         /\ Append(s, c)[Len(s) + 1] = c
BY AppendProperties

\* The suffixes of all and of no characters.
LEMMA EndsAre ==
  ASSUME NEW C, NEW s \in Seq(C)
  PROVE  /\ Suffix(s, 0) = <<>> /\ Suffix(s, Len(s)) = s
         /\ <<>> \in Seq(C) /\ Len(<<>>) = 0 /\ Len(s) \in Nat
         /\ Len(s) = 0 <=> s = <<>>
<1>1. Len(s) \in Nat /\ <<>> \in Seq(C) /\ Len(<<>>) = 0 /\ (Len(s) = 0 <=> s = <<>>)
  OBVIOUS
<1>2. Suffix(s, 0) \in Seq(C) /\ Len(Suffix(s, 0)) = 0
  BY <1>1, EndIs
<1>3. Suffix(s, Len(s)) = s
  <2>1. /\ Suffix(s, Len(s)) \in Seq(C) /\ Len(Suffix(s, Len(s))) = Len(s)
        /\ \A j \in 1..Len(s) : Suffix(s, Len(s))[j] = s[Len(s) - Len(s) + j]
    BY <1>1, EndIs
  <2>2. \A j \in 1..Len(s) : Suffix(s, Len(s))[j] = s[j]
    BY <1>1, <2>1
  <2> QED
    BY <2>1, <2>2, SameSeq
<1> QED
  BY <1>1, <1>2, <1>3

\* A suffix of a string with one more character.
LEMMA EndOfAppend ==
  ASSUME NEW C, NEW s \in Seq(C), NEW c \in C, NEW n \in 0..Len(s)
  PROVE  Suffix(Append(s, c), n + 1) = Append(Suffix(s, n), c)
<1> DEFINE l == Suffix(Append(s, c), n + 1)
           r == Append(Suffix(s, n), c)
<1>0. Len(s) \in Nat /\ n \in Nat /\ Append(s, c) \in Seq(C) /\ Len(Append(s, c)) = Len(s) + 1
  BY Appended, EndsAre
<1>1. /\ l \in Seq(C) /\ Len(l) = n + 1
      /\ \A j \in 1..(n + 1) : l[j] = Append(s, c)[(Len(s) + 1) - (n + 1) + j]
  <2> DEFINE t == Append(s, c)
             k == n + 1
  <2>1. t \in Seq(C) /\ k \in 0..Len(t) /\ Len(t) = Len(s) + 1
    BY <1>0
  <2> HIDE DEF t, k
  <2>2. /\ Suffix(t, k) \in Seq(C) /\ Len(Suffix(t, k)) = k
        /\ \A j \in 1..k : Suffix(t, k)[j] = t[Len(t) - k + j]
    BY <2>1, EndIs
  <2> QED
    BY <2>1, <2>2 DEF t, k
<1>2. /\ Suffix(s, n) \in Seq(C) /\ Len(Suffix(s, n)) = n
      /\ \A j \in 1..n : Suffix(s, n)[j] = s[Len(s) - n + j]
  BY EndIs
<1>3. /\ r \in Seq(C) /\ Len(r) = n + 1 /\ r[n + 1] = c
      /\ \A j \in 1..n : r[j] = s[Len(s) - n + j]
  BY <1>2, Appended
<1>4. \A j \in 1..(n + 1) : l[j] = r[j]
  <2> SUFFICES ASSUME NEW j \in 1..(n + 1) PROVE l[j] = r[j]
    OBVIOUS
  <2> HIDE DEF l, r
  <2>1. l[j] = Append(s, c)[Len(s) - n + j]
    BY <1>0, <1>1
  <2>2. CASE j = n + 1
    <3>1. l[j] = Append(s, c)[Len(s) + 1]
      BY <1>0, <2>1, <2>2
    <3> QED
      BY <1>3, <2>2, <3>1, Appended
  <2>3. CASE j # n + 1
    <3>1. j \in 1..n /\ Len(s) - n + j \in 1..Len(s)
      BY <1>0, <2>3
    <3> QED
      BY <1>3, <2>1, <3>1, Appended
  <2> QED
    BY <2>2, <2>3
<1> QED
  <2> HIDE DEF l, r
  <2>1. l = r
    BY <1>1, <1>3, <1>4, SameSeq
  <2> QED
    BY <2>1 DEF l, r

\* A suffix of a suffix.
LEMMA EndOfEnd ==
  ASSUME NEW C, NEW s \in Seq(C), NEW n \in 0..Len(s), NEW m \in 0..n
  PROVE  Suffix(Suffix(s, n), m) = Suffix(s, m)
<1>0. Len(s) \in Nat /\ n \in Nat /\ m \in Nat /\ m \in 0..Len(s)
  BY EndsAre
<1>1. /\ Suffix(s, n) \in Seq(C) /\ Len(Suffix(s, n)) = n
      /\ \A j \in 1..n : Suffix(s, n)[j] = s[Len(s) - n + j]
  BY EndIs
<1>2. /\ Suffix(s, m) \in Seq(C) /\ Len(Suffix(s, m)) = m
      /\ \A j \in 1..m : Suffix(s, m)[j] = s[Len(s) - m + j]
  BY <1>0, EndIs
<1> DEFINE t == Suffix(s, n)
<1> HIDE DEF t
<1>3. /\ Suffix(t, m) \in Seq(C) /\ Len(Suffix(t, m)) = m
      /\ \A j \in 1..m : Suffix(t, m)[j] = t[n - m + j]
  <2>1. t \in Seq(C) /\ m \in 0..Len(t) /\ Len(t) = n
    BY <1>0, <1>1 DEF t
  <2>2. /\ Suffix(t, m) \in Seq(C) /\ Len(Suffix(t, m)) = m
        /\ \A j \in 1..m : Suffix(t, m)[j] = t[Len(t) - m + j]
    BY <2>1, EndIs
  <2> QED
    BY <2>1, <2>2
<1>4. \A j \in 1..m : Suffix(t, m)[j] = Suffix(s, m)[j]
  <2> SUFFICES ASSUME NEW j \in 1..m PROVE Suffix(t, m)[j] = Suffix(s, m)[j]
    OBVIOUS
  <2>1. n - m + j \in 1..n /\ Len(s) - n + (n - m + j) = Len(s) - m + j
    BY <1>0
  <2>2. t[n - m + j] = s[Len(s) - n + (n - m + j)]
    BY <1>1, <2>1 DEF t
  <2> QED
    BY <1>2, <1>3, <2>1, <2>2
<1> QED
  BY <1>2, <1>3, <1>4, SameSeq DEF t

\* The longest suffix is in the set, and not longer than asked for.
LEMMA LongestEnd ==
  ASSUME NEW C, NEW W, NEW x, NEW s \in Seq(C), NEW n \in -1..Len(s), LongestIn(W, x, s, n)
  PROVE  x \in W /\ x \in Seq(C) /\ Len(x) \in 0..n /\ x = Suffix(s, Len(x))
<1>1. PICK k \in 0..n : x = Suffix(s, k) /\ x \in W
  BY DEF LongestIn
<1>2. k \in 0..Len(s)
  BY EndsAre
<1>3. x \in Seq(C) /\ Len(x) = k
  BY <1>1, <1>2, EndIs
<1> QED
  BY <1>1, <1>3

\* There is only one.
LEMMA OneLongest ==
  ASSUME NEW C, NEW W, NEW s \in Seq(C), NEW n \in -1..Len(s),
         NEW x, LongestIn(W, x, s, n), NEW y, LongestIn(W, y, s, n)
  PROVE  x = y
<1>1. PICK k \in 0..n : x = Suffix(s, k) /\ x \in W /\ \A j \in (k + 1)..n : Suffix(s, j) \notin W
  BY DEF LongestIn
<1>2. PICK m \in 0..n : y = Suffix(s, m) /\ y \in W /\ \A j \in (m + 1)..n : Suffix(s, j) \notin W
  BY DEF LongestIn
<1>3. n \in Int
  BY EndsAre
<1>4. ~(k < m) /\ ~(m < k)
  BY <1>1, <1>2, <1>3
<1> QED
  BY <1>1, <1>2, <1>3, <1>4

\* The longest suffix after one more character needs the longest suffix only: this is
\* why a failure link and a state are all there is to remember.
LEMMA LongestGrows ==
  ASSUME NEW C, NEW W, \A t \in Seq(C), d \in C : Append(t, d) \in W => t \in W,
         NEW s \in Seq(C), NEW c \in C, NEW n \in 0..Len(s),
         NEW f, LongestIn(W, f, s, n),
         NEW x, LongestIn(W, x, Append(f, c), Len(f) + 1)
  PROVE  LongestIn(W, x, Append(s, c), n + 1)
<1>0. Len(s) \in Nat /\ n \in Nat
  BY EndsAre
<1>1. PICK k \in 0..n : f = Suffix(s, k) /\ f \in W /\ \A j \in (k + 1)..n : Suffix(s, j) \notin W
  BY DEF LongestIn
<1>2. k \in 0..Len(s) /\ f \in Seq(C) /\ Len(f) = k
  BY <1>0, <1>1, EndIs
<1>3. PICK m \in 0..(k + 1) : /\ x = Suffix(Append(f, c), m) /\ x \in W
                              /\ \A j \in (m + 1)..(k + 1) : Suffix(Append(f, c), j) \notin W
  BY <1>2 DEF LongestIn
<1>4. \A j \in 0..(k + 1) : Suffix(Append(f, c), j) = Suffix(Append(s, c), j)
  <2> SUFFICES ASSUME NEW j \in 0..(k + 1)
               PROVE  Suffix(Append(f, c), j) = Suffix(Append(s, c), j)
    OBVIOUS
  <2>1. CASE j = 0
    BY <1>2, <2>1, EndsAre, Appended
  <2>2. CASE j # 0
    <3>1. j - 1 \in 0..k /\ (j - 1) + 1 = j /\ j - 1 \in 0..Len(f) /\ j - 1 \in 0..Len(s)
      BY <1>0, <1>2, <2>2
    <3>2. Suffix(Append(f, c), j) = Append(Suffix(f, j - 1), c)
      BY <1>2, <3>1, EndOfAppend
    <3>3. Suffix(Append(s, c), j) = Append(Suffix(s, j - 1), c)
      BY <3>1, EndOfAppend
    <3>4. Suffix(f, j - 1) = Suffix(s, j - 1)
      BY <1>1, <1>2, <3>1, EndOfEnd
    <3> QED
      BY <3>2, <3>3, <3>4
  <2> QED
    BY <2>1, <2>2
<1>5. \A j \in (m + 1)..(n + 1) : Suffix(Append(s, c), j) \notin W
  <2> SUFFICES ASSUME NEW j \in (m + 1)..(n + 1), Suffix(Append(s, c), j) \in W
               PROVE  FALSE
    OBVIOUS
  <2>1. j - 1 \in 0..n /\ j - 1 \in 0..Len(s) /\ (j - 1) + 1 = j /\ j \in Int
    BY <1>0, <1>2
  <2>2. Suffix(Append(s, c), j) = Append(Suffix(s, j - 1), c) /\ Suffix(s, j - 1) \in Seq(C)
    BY <2>1, EndOfAppend, EndIs
  <2>3. Suffix(s, j - 1) \in W
    BY <2>2
  <2>4. j - 1 <= k
    BY <1>0, <1>1, <2>1, <2>3
  <2>5. j \in (m + 1)..(k + 1) /\ j \in 0..(k + 1)
    BY <1>2, <2>1, <2>4
  <2> QED
    BY <1>3, <1>4, <2>5
<1>6. m \in 0..(n + 1) /\ x = Suffix(Append(s, c), m)
  BY <1>0, <1>3, <1>4
<1> QED
  BY <1>3, <1>5, <1>6 DEF LongestIn

-----------------------------------------------------------------------------
(* Sequences: parts of them, folds, and sequences of sequences.            *)

\* A set of places of a sequence.
LEMMA PlacesAre ==
  ASSUME NEW n \in Nat, NEW P \in SUBSET (1..n)
  PROVE  /\ P \in SUBSET Nat /\ P \in SUBSET Int /\ IsFiniteSet(P)
         /\ Cardinality(P) \in Nat /\ Cardinality(P) <= n
<1>1. IsFiniteSet(1..n) /\ Cardinality(1..n) = n
  BY FS_Interval
<1>2. IsFiniteSet(P) /\ Cardinality(P) <= n
  BY <1>1, FS_Subset
<1>3. Cardinality(P) \in Nat
  BY <1>2, FS_CardinalityType
<1>4. P \in SUBSET Nat
  OBVIOUS
<1>5. P \in SUBSET Int
  BY <1>4
<1> QED
  BY <1>2, <1>3, <1>4, <1>5

\* What is selected, place by place.
LEMMA SelectedIs ==
  ASSUME NEW C, NEW s \in Seq(C), NEW P \in SUBSET (1..Len(s))
  PROVE  \E n \in Nat : \E p \in [1..n -> P] :
           /\ \A k, m \in 1..n : k < m <=> p[k] < p[m]
           /\ \A x \in P : \E k \in 1..n : p[k] = x
           /\ Selected(s, P) = [k \in 1..n |-> s[p[k]]]
           /\ Selected(s, P) \in Seq(C) /\ Len(Selected(s, P)) = n
<1> DEFINE n == Cardinality(P)
           p == Ascending(P)
<1>1. P \in SUBSET Int /\ IsFiniteSet(P)
  <2>1. Len(s) \in Nat
    OBVIOUS
  <2> QED
    BY <2>1, PlacesAre
<1>2. /\ n \in Nat /\ p \in [1..n -> P] /\ DOMAIN p = 1..n
      /\ \A x \in P : \E k \in 1..n : p[k] = x
      /\ \A k, m \in 1..n : k < m <=> p[k] < p[m]
  BY <1>1, AscendingLists
<1>3. Selected(s, P) = [k \in DOMAIN p |-> s[p[k]]]
  BY DEF Selected
<1> HIDE DEF n, p
<1>4. Selected(s, P) = [k \in 1..n |-> s[p[k]]]
  BY <1>2, <1>3
<1>5. \A k \in 1..n : s[p[k]] \in C
  <2>1. \A x \in 1..Len(s) : s[x] \in C
    BY ElementOfSeq
  <2>2. \A k \in 1..n : p[k] \in 1..Len(s)
    BY <1>2
  <2> QED
    BY <2>1, <2>2
<1>6. Selected(s, P) \in Seq(C) /\ Len(Selected(s, P)) = n
  BY <1>2, <1>4, <1>5
<1> QED
  BY <1>2, <1>4, <1>6

\* A has what the fold over each set of places makes of x0; h[k] is the step at place k.
FoldsOver(A, X, x0, h, n) ==
  /\ A \in [SUBSET (1..n) -> X] /\ A[{}] = x0
  /\ \A s \in SUBSET (1..n) : s # {} => A[s] = h[Max(s)][A[s \ {Max(s)}]]

\* The greatest of a set of places.
LEMMA MaxIs ==
  ASSUME NEW n \in Nat, NEW s \in SUBSET (1..n), s # {}
  PROVE  Max(s) \in s /\ \A y \in s : y <= Max(s)
<1>1. s \in SUBSET Nat /\ IsFiniteSet(s)
  BY PlacesAre
<1>2. \E x \in s : \A y \in s : y <= x
  BY <1>1, Greatest
<1>3. \E x \in s : \A y \in s : x >= y
  BY <1>1, <1>2
<1>4. Max(s) \in s /\ \A y \in s : Max(s) >= y
  BY <1>3 DEF Max
<1> QED
  BY <1>1, <1>4

\* The last of the first n places.
LEMMA MaxOfFirst ==
  ASSUME NEW n \in Nat, n # 0
  PROVE  /\ 1..n # {} /\ Max(1..n) = n /\ (1..n) \ {n} = 1..(n - 1) /\ n - 1 \in Nat
<1>1. n \in 1..n /\ (1..n) \ {n} = 1..(n - 1) /\ n - 1 \in Nat
  OBVIOUS
<1>2. Max(1..n) \in 1..n /\ \A y \in 1..n : y <= Max(1..n)
  BY <1>1, MaxIs
<1>3. Max(1..n) = n
  BY <1>1, <1>2
<1> QED
  BY <1>1, <1>3

\* Every fold over a sequence has its values: F after the first n places, A over any set
\* of places.
LEMMA FoldsExist ==
  ASSUME NEW n \in Nat, NEW X, NEW x0 \in X, NEW h \in [1..n -> [X -> X]]
  PROVE  \E A : FoldsOver(A, X, x0, h, n)
<1> DEFINE D == 1..n
           Y == [SUBSET D -> X]
           y0 == [s \in SUBSET D |-> x0]
           add(g) == [s \in SUBSET D |-> IF s = {} THEN x0 ELSE h[Max(s)][g[s \ {Max(s)}]]]
           hh == [k \in Nat |-> [g \in Y |-> add(g)]]
<1>0. IsFiniteSet(D) /\ Cardinality(D) = n
  BY FS_Interval
<1>1. \A s \in SUBSET D : s # {} => Max(s) \in s /\ s \ {Max(s)} \in SUBSET D
  BY MaxIs
<1>2. ASSUME NEW g \in Y PROVE add(g) \in Y
  <2>1. \A s \in SUBSET D : s # {} => g[s \ {Max(s)}] \in X /\ h[Max(s)] \in [X -> X]
    BY <1>1
  <2>2. \A s \in SUBSET D : s # {} => h[Max(s)][g[s \ {Max(s)}]] \in X
    BY <2>1
  <2> QED
    BY <2>2
<1>3. y0 \in Y
  OBVIOUS
<1>4. hh \in [Nat -> [Y -> Y]] /\ \A k \in Nat, g \in Y : hh[k][g] = add(g)
  <2> HIDE DEF add, Y
  <2> QED
    BY <1>2
<1>5. PICK F \in [Nat -> Y] : Iterates(F, y0, hh)
  <2> HIDE DEF hh, Y, y0
  <2> QED
    BY <1>3, <1>4, Recursion
<1>6. F[0] = y0 /\ \A k \in Nat : F[k] \in Y /\ F[k + 1] = add(F[k])
  <2> HIDE DEF hh, Y, y0, add
  <2> QED
    BY <1>4, <1>5 DEF Iterates
<1> DEFINE T == {s \in SUBSET D : \A k \in Nat : Cardinality(s) <= k => F[k + 1][s] = F[k][s]}
<1>7. ASSUME NEW s \in SUBSET D, \A x \in s : s \ {x} \in T PROVE s \in T
  <2>1. CASE s = {}
    <3>1. \A k \in Nat : add(F[k])[{}] = x0
      OBVIOUS
    <3>2. \A k \in Nat : F[k + 1][{}] = x0
      BY <1>6, <3>1
    <3>3. F[0][{}] = x0
      BY <1>6
    <3>4. ASSUME NEW k \in Nat PROVE F[k][{}] = x0
      <4>1. CASE k = 0
        BY <3>3, <4>1
      <4>2. CASE k # 0
        <5> DEFINE m == k - 1
        <5>1. m \in Nat /\ k = m + 1
          BY <4>2
        <5> HIDE DEF m
        <5> QED
          BY <3>2, <5>1
      <4> QED
        BY <4>1, <4>2
    <3> QED
      BY <2>1, <3>2, <3>4
  <2>2. CASE s # {}
    <3> DEFINE r == s \ {Max(s)}
    <3>1. Max(s) \in s /\ r \in T /\ IsFiniteSet(s)
      BY <1>0, <1>1, <1>7, <2>2, FS_Subset
    <3>2. Cardinality(s) \in Nat /\ Cardinality(r) = Cardinality(s) - 1 /\ Cardinality(r) \in Nat
      <4>1. IsFiniteSet(r) /\ Cardinality(r) = Cardinality(s) - 1
        BY <3>1, FS_RemoveElement, FS_Subset
      <4> HIDE DEF r
      <4> QED
        BY <3>1, <4>1, FS_CardinalityType
    <3>3. ASSUME NEW k \in Nat, Cardinality(s) <= k PROVE F[k + 1][s] = F[k][s]
      <4> DEFINE m == k - 1
      <4>1. m \in Nat /\ m + 1 = k /\ Cardinality(r) <= m
        BY <3>2, <3>3
      <4> HIDE DEF m
      <4>2. F[k] = add(F[m]) /\ F[k + 1] = add(F[k])
        BY <1>6, <4>1
      <4>3. F[k][r] = F[m][r]
        BY <3>1, <4>1
      <4>4. F[k][s] = h[Max(s)][F[m][r]] /\ F[k + 1][s] = h[Max(s)][F[k][r]]
        BY <2>2, <4>2
      <4> QED
        BY <4>3, <4>4
    <3> QED
      BY <3>3
  <2> QED
    BY <2>1, <2>2
<1>8. \A s \in SUBSET D : s \in T
  <2> HIDE DEF T, D
  <2> QED
    BY <1>0, <1>7, ByMembers
<1> DEFINE A == F[n]
<1>9. \A s \in SUBSET D : F[n + 1][s] = A[s]
  <2>1. \A s \in SUBSET D : Cardinality(s) <= n
    BY PlacesAre
  <2> QED
    BY <1>8, <2>1
<1>10. A \in Y /\ F[n + 1] = add(A)
  <2> HIDE DEF add, Y
  <2> QED
    BY <1>6
<1> HIDE DEF A, T
<1> QED
  BY <1>9, <1>10 DEF FoldsOver

\* F[k] is what the first k members of q make, joined.
Flattens(F, C, q) ==
  /\ F \in [0..Len(q) -> Seq(C)] /\ F[0] = <<>>
  /\ \A k \in 1..Len(q) : F[k] = F[k - 1] \o q[k]

\* FlattenSeq, member by member.
LEMMA FlattenIs ==
  ASSUME NEW C, NEW q \in Seq(Seq(C))
  PROVE  /\ \E F : Flattens(F, C, q) /\ FlattenSeq(q) = F[Len(q)]
         /\ FlattenSeq(q) \in Seq(C)
<1> DEFINE n == Len(q)
           X == Seq(C)
           x0 == << >>
           h == [k \in Nat |-> [g \in X |-> IF k + 1 \in 1..n THEN g \o q[k + 1] ELSE g]]
<1>1. n \in Nat /\ x0 \in X /\ \A k \in 1..n : q[k] \in X
  BY ElementOfSeq
<1>2. h \in [Nat -> [X -> X]] /\ \A k \in Nat, g \in X : h[k][g] = IF k + 1 \in 1..n THEN g \o q[k + 1] ELSE g
  <2>1. ASSUME NEW k \in Nat, NEW g \in X PROVE (IF k + 1 \in 1..n THEN g \o q[k + 1] ELSE g) \in X
    <3>1. CASE k + 1 \in 1..n
      <4>1. q[k + 1] \in X
        BY <1>1, <3>1
      <4> QED
        BY <3>1, <4>1, ConcatProperties
    <3>2. CASE k + 1 \notin 1..n
      BY <3>2
    <3> QED
      BY <3>1, <3>2
  <2> HIDE DEF X, n
  <2> QED
    BY <2>1
<1>3. PICK H \in [Nat -> X] : Iterates(H, x0, h)
  <2> HIDE DEF h, X, x0
  <2> QED
    BY <1>1, <1>2, Recursion
<1>4. H[0] = x0 /\ \A k \in 1..n : H[k] = H[k - 1] \o q[k]
  <2> SUFFICES ASSUME NEW k \in 1..n PROVE H[0] = x0 /\ H[k] = H[k - 1] \o q[k]
    BY <1>3 DEF Iterates
  <2> DEFINE m == k - 1
  <2>1. m \in Nat /\ m + 1 = k /\ k \in 1..n
    BY <1>1
  <2> HIDE DEF m, h, x0, n
  <2>2. H[m] \in X /\ H[m + 1] = h[m][H[m]] /\ H[0] = x0
    BY <1>3, <2>1 DEF Iterates
  <2>3. H[k] = H[m] \o q[k]
    BY <1>2, <2>1, <2>2
  <2> QED
    BY <2>2, <2>3 DEF m
<1> DEFINE F == [k \in 0..n |-> H[k]]
<1>5. Flattens(F, C, q)
  <2>1. \A k \in 1..n : k - 1 \in 0..n /\ k \in 0..n
    BY <1>1
  <2>2. \A k \in 1..n : F[k] = H[k] /\ F[k - 1] = H[k - 1]
    BY <2>1
  <2>3. F \in [0..n -> X]
    OBVIOUS
  <2>4. F[0] = H[0]
    BY <1>1
  <2> HIDE DEF F
  <2> QED
    BY <1>4, <2>2, <2>3, <2>4 DEF Flattens
<1>6. FlattenSeq(q) = F[n]
  <2>1. CASE n = 0
    <3>1. q = << >>
      BY <2>1, EmptySeq
    <3>2. FlattenSeq(q) = q
      BY <2>1 DEF FlattenSeq
    <3> QED
      BY <1>5, <2>1, <3>1, <3>2 DEF Flattens
  <2>2. CASE n # 0
    <3> DEFINE Eq(f) == f = [p \in 1..n |-> IF p = 1 THEN q[p] ELSE f[p - 1] \o q[p]]
               Fl == CHOOSE f : Eq(f)
               G == [k \in 1..n |-> H[k]]
    <3>1. FlattenSeq(q) = Fl[n]
      BY <2>2 DEF FlattenSeq
    <3>2. Eq(G)
      <4>1. \A p \in 1..n : p # 1 => p - 1 \in 1..n
        BY <1>1
      <4>2. \A p \in 1..n : p # 1 => G[p - 1] = H[p - 1]
        BY <4>1
      <4>3. H[1] = q[1]
        <5> HIDE DEF n, h, Eq, Fl, G
        <5>1. 1 \in 1..n /\ 1 - 1 = 0
          BY <1>1, <2>2
        <5>2. H[1] = H[0] \o q[1] /\ q[1] \in Seq(C)
          BY <1>1, <1>4, <5>1
        <5> QED
          BY <1>4, <5>1, <5>2, ConcatEmptySeq
      <4>4. \A p \in 1..n : H[p] = IF p = 1 THEN q[p] ELSE G[p - 1] \o q[p]
        BY <1>4, <4>2, <4>3
      <4> QED
        BY <4>4
    <3>3. Eq(Fl)
      <4> HIDE DEF Eq
      <4> QED
        BY <3>2
    <3> DEFINE T == {k \in 0..n : k # 0 => Fl[k] = H[k]}
    <3>4. \A k \in 0..n : k \in T
      <4>1. 0 \in T
        BY <1>1
      <4>2. ASSUME NEW k \in 1..n, k - 1 \in T PROVE k \in T
        <5>1. CASE k = 1
          <6>1. Fl[1] = q[1] /\ G[1] = q[1] /\ G[1] = H[1]
            BY <3>2, <3>3, <5>1
          <6>2. k \in 0..n
            BY <1>1
          <6>3. Fl[k] = H[k]
            <7> HIDE DEF Fl, G
            <7> QED
              BY <5>1, <6>1
          <6> HIDE DEF Fl, n
          <6> QED
            BY <6>2, <6>3
        <5>2. CASE k # 1
          <6>0. k \in 1..n /\ k - 1 # 0 /\ k \in 0..n
            <7> HIDE DEF n, T
            <7> QED
              BY <1>1, <5>2
          <6>1. Fl[k] = Fl[k - 1] \o q[k] /\ k - 1 # 0 /\ k \in 0..n
            <7> HIDE DEF Fl, n
            <7> QED
              BY <3>3, <5>2, <6>0
          <6>2. Fl[k - 1] = H[k - 1]
            BY <4>2, <6>1
          <6> HIDE DEF Fl
          <6> QED
            BY <1>4, <6>1, <6>2
        <5> QED
          BY <5>1, <5>2
      <4> HIDE DEF T
      <4> QED
        BY <1>1, <4>1, <4>2, UpTo
    <3>5. n \in T
      <4>1. n \in 0..n
        BY <1>1
      <4> HIDE DEF T
      <4> QED
        BY <3>4, <4>1
    <3> HIDE DEF Fl
    <3> QED
      BY <1>1, <2>2, <3>1, <3>5
  <2> QED
    BY <2>1, <2>2
<1>7. F[n] \in Seq(C)
  BY <1>1
<1> HIDE DEF F
<1> QED
  BY <1>5, <1>6, <1>7

\* One more member.
LEMMA FlattenAppend ==
  ASSUME NEW C, NEW q \in Seq(Seq(C)), NEW s \in Seq(C)
  PROVE  FlattenSeq(Append(q, s)) = FlattenSeq(q) \o s
<1> DEFINE n == Len(q)
           r == Append(q, s)
<1>1. /\ n \in Nat /\ r \in Seq(Seq(C)) /\ Len(r) = n + 1 /\ r[n + 1] = s
      /\ \A k \in 1..n : r[k] = q[k]
  BY AppendProperties
<1> HIDE DEF r
<1>2. PICK F : Flattens(F, C, q) /\ FlattenSeq(q) = F[n]
  BY FlattenIs
<1>3. PICK G : Flattens(G, C, r) /\ FlattenSeq(r) = G[n + 1]
  BY <1>1, FlattenIs
<1> DEFINE T == {k \in 0..n : G[k] = F[k]}
<1>4. 0 \in T
  BY <1>1, <1>2, <1>3 DEF Flattens
<1>5. ASSUME NEW k \in 1..n, k - 1 \in T PROVE k \in T
  <2>1. k \in 1..(n + 1) /\ k \in 0..n
    BY <1>1
  <2>2. G[k] = G[k - 1] \o r[k] /\ F[k] = F[k - 1] \o q[k]
    BY <1>1, <1>2, <1>3, <2>1 DEF Flattens
  <2> QED
    BY <1>1, <1>5, <2>1, <2>2
<1>6. \A k \in 0..n : k \in T
  <2> HIDE DEF T
  <2> QED
    BY <1>1, <1>4, <1>5, UpTo
<1>7. G[n] = F[n]
  BY <1>1, <1>6
<1>8. n + 1 \in 1..(n + 1) /\ (n + 1) - 1 = n
  BY <1>1
<1>9. G[n + 1] = G[n] \o s
  BY <1>1, <1>3, <1>8 DEF Flattens
<1> QED
  BY <1>2, <1>3, <1>7, <1>9 DEF r

\* Place p of f is place b[p] of member a[p] of q, of the first k, one after the other.
Laid(f, q, k, a, b) ==
  /\ a \in [1..Len(f) -> 1..k] /\ b \in [1..Len(f) -> Nat]
  /\ \A p \in 1..Len(f) : b[p] \in 1..Len(q[a[p]]) /\ f[p] = q[a[p]][b[p]]
  /\ \A p, r \in 1..Len(f) : p < r => a[p] < a[r] \/ (a[p] = a[r] /\ b[p] < b[r])
  /\ \A j \in 1..k : \A m \in 1..Len(q[j]) : \E p \in 1..Len(f) : a[p] = j /\ b[p] = m

\* A sequence of sequences, laid end to end.
LEMMA FlattenLaid ==
  ASSUME NEW C, NEW q \in Seq(Seq(C))
  PROVE  \E a, b : Laid(FlattenSeq(q), q, Len(q), a, b)
<1> DEFINE n == Len(q)
<1>0. n \in Nat /\ \A k \in 1..n : q[k] \in Seq(C)
  BY ElementOfSeq
<1>1. PICK F : Flattens(F, C, q) /\ FlattenSeq(q) = F[n]
  BY FlattenIs
<1> DEFINE T == {k \in 0..n : \E a, b : Laid(F[k], q, k, a, b)}
<1>2. 0 \in T
  <2> DEFINE e == [p \in {} |-> 0]
             z == << >>
  <2>1. F[0] = z /\ 0 \in 0..n /\ 1..0 = {} /\ Len(z) = 0
    BY <1>0, <1>1 DEF Flattens
  <2> HIDE DEF z
  <2>2. Laid(z, q, 0, e, e)
    BY <2>1 DEF Laid
  <2> HIDE DEF e
  <2>3. \E a, b : Laid(F[0], q, 0, a, b)
    BY <2>1, <2>2
  <2> QED
    BY <2>1, <2>3
<1>3. ASSUME NEW k \in 1..n, k - 1 \in T PROVE k \in T
  <2>0. k - 1 \in 0..n /\ k \in 0..n /\ k - 1 \in Nat
    BY <1>0
  <2> DEFINE f == F[k - 1]
             N == Len(f)
             s == q[k]
             g == F[k]
  <2>1. f \in Seq(C) /\ s \in Seq(C) /\ N \in Nat /\ Len(s) \in Nat /\ g = f \o s
    <3>1. f \in Seq(C) /\ s \in Seq(C) /\ g = f \o s
      BY <1>0, <1>1, <2>0 DEF Flattens
    <3> HIDE DEF f, s
    <3> QED
      BY <3>1
  <2>2. PICK a, b : Laid(f, q, k - 1, a, b)
    BY <1>3
  <2> HIDE DEF f, N, s, g
  <2>3. /\ g \in Seq(C) /\ Len(g) = N + Len(s)
        /\ \A p \in 1..N : g[p] = f[p]
        /\ \A p \in 1..Len(s) : g[N + p] = s[p]
    BY <2>1, ConcatProperties DEF N
  <2> DEFINE M == N + Len(s)
             a2 == [p \in 1..M |-> IF p <= N THEN a[p] ELSE k]
             b2 == [p \in 1..M |-> IF p <= N THEN b[p] ELSE p - N]
  <2>4. /\ a \in [1..N -> 1..(k - 1)] /\ b \in [1..N -> Nat]
        /\ \A p \in 1..N : b[p] \in 1..Len(q[a[p]]) /\ f[p] = q[a[p]][b[p]]
        /\ \A p, r \in 1..N : p < r => a[p] < a[r] \/ (a[p] = a[r] /\ b[p] < b[r])
        /\ \A j \in 1..(k - 1) : \A m \in 1..Len(q[j]) : \E p \in 1..N : a[p] = j /\ b[p] = m
    BY <2>2 DEF Laid, N
  <2>5. \A p \in 1..M : p \in 1..N \/ (p \notin 1..N /\ ~(p <= N) /\ p - N \in 1..Len(s) /\ N + (p - N) = p)
    BY <2>1
  <2>6. /\ \A p \in 1..N : p \in 1..M /\ p <= N /\ a2[p] = a[p] /\ b2[p] = b[p]
        /\ \A p \in 1..M : p \notin 1..N => a2[p] = k /\ b2[p] = p - N
    <3>1. \A p \in 1..N : p \in 1..M /\ p <= N
      BY <2>1
    <3> QED
      BY <2>5, <3>1
  <2>7. \A j \in 1..(k - 1) : j \in 1..k /\ j < k /\ j \in Int
    BY <2>0
  <2>8. a2 \in [1..M -> 1..k] /\ b2 \in [1..M -> Nat]
    <3>1. \A p \in 1..M : a2[p] \in 1..k /\ b2[p] \in Nat
      <4> SUFFICES ASSUME NEW p \in 1..M PROVE a2[p] \in 1..k /\ b2[p] \in Nat
        OBVIOUS
      <4>1. CASE p \in 1..N
        <5>1. a[p] \in 1..(k - 1) /\ b[p] \in Nat
          BY <2>4, <4>1
        <5> QED
          BY <2>6, <2>7, <4>1, <5>1
      <4>2. CASE p \notin 1..N
        BY <2>0, <2>5, <2>6, <4>2
      <4> QED
        BY <4>1, <4>2
    <3>2. a2 = [p \in 1..M |-> a2[p]] /\ b2 = [p \in 1..M |-> b2[p]]
      OBVIOUS
    <3> HIDE DEF a2, b2
    <3> QED
      BY <3>1, <3>2
  <2> HIDE DEF a2, b2
  <2>9. ASSUME NEW p \in 1..M PROVE b2[p] \in 1..Len(q[a2[p]]) /\ g[p] = q[a2[p]][b2[p]]
    <3>1. CASE p \in 1..N
      BY <2>3, <2>4, <2>6, <3>1
    <3>2. CASE p \notin 1..N
      <4>1. g[N + (p - N)] = s[p - N] /\ N + (p - N) = p
        BY <2>3, <2>5, <3>2
      <4> QED
        BY <2>5, <2>6, <3>2, <4>1 DEF s
    <3> QED
      BY <3>1, <3>2
  <2>10. ASSUME NEW p \in 1..M, NEW r \in 1..M, p < r
         PROVE  a2[p] < a2[r] \/ (a2[p] = a2[r] /\ b2[p] < b2[r])
    <3>1. CASE p \in 1..N /\ r \in 1..N
      BY <2>4, <2>6, <2>10, <3>1
    <3>2. CASE p \in 1..N /\ r \notin 1..N
      <4>1. a[p] \in 1..(k - 1)
        BY <2>4, <3>2
      <4> QED
        BY <2>6, <2>7, <3>2, <4>1
    <3>3. CASE p \notin 1..N /\ r \notin 1..N
      <4>1. p - N < r - N
        BY <2>1, <2>10
      <4> QED
        BY <2>6, <3>3, <4>1
    <3>4. CASE p \notin 1..N /\ r \in 1..N
      BY <2>1, <2>10, <3>4
    <3> QED
      BY <3>1, <3>2, <3>3, <3>4
  <2>11. ASSUME NEW j \in 1..k, NEW m \in 1..Len(q[j]) PROVE \E p \in 1..M : a2[p] = j /\ b2[p] = m
    <3>1. CASE j \in 1..(k - 1)
      <4>1. PICK p \in 1..N : a[p] = j /\ b[p] = m
        BY <2>4, <3>1
      <4> QED
        BY <2>6, <4>1
    <3>2. CASE j \notin 1..(k - 1)
      <4>1. j = k /\ m \in 1..Len(s)
        BY <2>0, <3>2 DEF s
      <4>2. N + m \in 1..M /\ N + m \notin 1..N /\ (N + m) - N = m
        BY <2>1, <4>1
      <4>3. a2[N + m] = k /\ b2[N + m] = m
        BY <2>6, <4>2
      <4> QED
        BY <4>1, <4>2, <4>3
    <3> QED
      BY <3>1, <3>2
  <2> HIDE DEF M
  <2>12. Laid(g, q, k, a2, b2)
    <3>1. Len(g) = M
      BY <2>3 DEF M
    <3> QED
      BY <2>8, <2>9, <2>10, <2>11, <3>1 DEF Laid
  <2> QED
    BY <2>0, <2>12 DEF g
<1>4. \A k \in 0..n : k \in T
  <2> HIDE DEF T, n
  <2> QED
    BY <1>0, <1>2, <1>3, UpTo
<1>5. n \in T
  BY <1>0, <1>4
<1> QED
  BY <1>1, <1>5

\* The first part of a sequence, and how it grows.
LEMMA FirstPart ==
  ASSUME NEW C, NEW U \in Seq(C), NEW e \in 0..Len(U)
  PROVE  /\ SubSeq(U, 1, e) \in Seq(C) /\ Len(SubSeq(U, 1, e)) = e /\ e \in Nat
         /\ \A j \in 1..e : SubSeq(U, 1, e)[j] = U[j]
         /\ e < Len(U) => /\ U[e + 1] \in C
                          /\ SubSeq(U, 1, e + 1) = Append(SubSeq(U, 1, e), U[e + 1])
<1>0. Len(U) \in Nat
  OBVIOUS
<1>1. \A f \in 0..Len(U) : /\ SubSeq(U, 1, f) \in Seq(C) /\ Len(SubSeq(U, 1, f)) = f /\ f \in Nat
                           /\ \A j \in 1..f : SubSeq(U, 1, f)[j] = U[j]
  <2> SUFFICES ASSUME NEW f \in 0..Len(U)
               PROVE  /\ SubSeq(U, 1, f) \in Seq(C) /\ Len(SubSeq(U, 1, f)) = f /\ f \in Nat
                      /\ \A j \in 1..f : SubSeq(U, 1, f)[j] = U[j]
    OBVIOUS
  <2>1. \A j \in 1..f : U[j] \in C
    BY <1>0, ElementOfSeq
  <2> QED
    BY <1>0, <2>1, SubSeqProperties
<1>2. ASSUME e < Len(U) PROVE U[e + 1] \in C /\ SubSeq(U, 1, e + 1) = Append(SubSeq(U, 1, e), U[e + 1])
  <2> DEFINE s == SubSeq(U, 1, e)
             t == SubSeq(U, 1, e + 1)
  <2>1. e + 1 \in 0..Len(U) /\ e + 1 \in 1..Len(U) /\ e \in Nat
    BY <1>0, <1>2
  <2>2. U[e + 1] \in C
    BY <2>1, ElementOfSeq
  <2>3. /\ s \in Seq(C) /\ Len(s) = e /\ \A j \in 1..e : s[j] = U[j]
        /\ t \in Seq(C) /\ Len(t) = e + 1 /\ \A j \in 1..(e + 1) : t[j] = U[j]
    BY <1>1, <2>1
  <2> HIDE DEF s, t
  <2>4. /\ Append(s, U[e + 1]) \in Seq(C) /\ Len(Append(s, U[e + 1])) = e + 1
        /\ \A j \in 1..e : Append(s, U[e + 1])[j] = s[j]
        /\ Append(s, U[e + 1])[e + 1] = U[e + 1]
    BY <2>2, <2>3, Appended
  <2>5. \A j \in 1..(e + 1) : j \in 1..e \/ j = e + 1
    BY <2>1
  <2>6. \A j \in 1..(e + 1) : t[j] = Append(s, U[e + 1])[j]
    BY <2>1, <2>3, <2>4, <2>5
  <2>7. t = Append(s, U[e + 1])
    BY <2>3, <2>4, <2>6, SameSeq
  <2> QED
    BY <2>2, <2>7 DEF s, t
<1> QED
  BY <1>1, <1>2

\* What is at the end of the first part of U.
LEMMA EndOfFirstPart ==
  ASSUME NEW C, NEW U \in Seq(C), NEW e \in 0..Len(U), NEW n \in 0..e
  PROVE  Suffix(SubSeq(U, 1, e), n) = SubSeq(U, e - n + 1, e)
<1> DEFINE s == SubSeq(U, 1, e)
           t == SubSeq(U, e - n + 1, e)
<1>0. Len(U) \in Nat /\ e \in Nat /\ n \in Nat /\ e - n + 1 \in 1..(e + 1)
  OBVIOUS
<1>1. s \in Seq(C) /\ Len(s) = e /\ \A j \in 1..e : s[j] = U[j]
  BY FirstPart
<1>2. /\ Suffix(s, n) \in Seq(C) /\ Len(Suffix(s, n)) = n
      /\ \A j \in 1..n : Suffix(s, n)[j] = s[e - n + j]
  <2> HIDE DEF s
  <2> QED
    BY <1>1, EndIs
<1>3. t \in Seq(C) /\ Len(t) = n /\ \A j \in 1..n : t[j] = U[e - n + j]
  <2> DEFINE b == e - n + 1
  <2>1. \A j \in b..e : U[j] \in C
    BY <1>0, ElementOfSeq
  <2>2. b \in 1..(e + 1) /\ e \in b - 1..Len(U) /\ e - b + 1 = n
    BY <1>0
  <2>3. \A j \in 1..n : b + j - 1 = e - n + j
    BY <1>0
  <2> QED
    BY <1>0, <2>1, <2>2, <2>3, SubSeqProperties
<1>4. \A j \in 1..n : e - n + j \in 1..e
  BY <1>0
<1> HIDE DEF s, t
<1>5. Suffix(s, n) = t
  BY <1>1, <1>2, <1>3, <1>4, SameSeq
<1> QED
  BY <1>5 DEF s, t

\* A record has the fields it has.
LEMMA MatchIs ==
  ASSUME NEW S, NEW T, NEW m \in [start : S, word : T]
  PROVE  m = [start |-> m.start, word |-> m.word] /\ m.start \in S /\ m.word \in T
OBVIOUS

\* Two sequences, one after the other.
LEMMA TwoParts ==
  ASSUME NEW C, NEW s \in Seq(C), NEW t \in Seq(C)
  PROVE  /\ s \o t \in Seq(C) /\ Len(s \o t) = Len(s) + Len(t)
         /\ \A p \in 1..Len(s) : (s \o t)[p] = s[p]
         /\ \A k \in 1..Len(t) : (s \o t)[Len(s) + k] = t[k]
BY ConcatProperties

\* A quotient is the only number of its kind.
LEMMA Quotient ==
  ASSUME NEW n \in Nat \ {0}, NEW a \in Nat, NEW r \in 0..(n - 1)
  PROVE  (a * n + r) \div n = a /\ (a * n + r) % n = r /\ a * n \in Nat
<1> DEFINE x == a * n + r
<1>0. a * n \in Nat /\ x \in Nat /\ x = n * a + r
  OBVIOUS
<1>1. x \div n \in Nat /\ x % n \in 0..(n - 1) /\ x = n * (x \div n) + (x % n)
  <2> HIDE DEF x
  <2> QED
    BY <1>0, Division
<1> DEFINE q == x \div n
           s == x % n
<1>2. q \in Nat /\ s \in 0..(n - 1) /\ n * a + r = n * q + s
  BY <1>0, <1>1
<1> HIDE DEF q, s, x
<1>3. n * a + r >= n * q + s /\ n * q + s >= n * a + r
  <2>1. n * a \in Nat /\ n * q \in Nat
    BY <1>2
  <2> QED
    BY <1>2, <2>1
<1>4. a >= q /\ q >= a
  BY <1>2, <1>3, Larger
<1>5. a = q
  BY <1>2, <1>4
<1>6. r = s
  BY <1>2, <1>5
<1> QED
  BY <1>0, <1>5, <1>6 DEF q, s, x

\* Division after a whole number of blocks.
LEMMA QuotientOfSum ==
  ASSUME NEW n \in Nat \ {0}, NEW a \in Nat, NEW c \in Nat
  PROVE  /\ (a * n + c) \div n = a + (c \div n) /\ (a * n + c) % n = c % n
         /\ (a * n) \div n = a /\ (a * n) % n = 0 /\ a * n \in Nat
         /\ c \div n \in Nat /\ (c \div n) * n \in 0..c
<1> DEFINE q == c \div n
           s == c % n
<1>1. q \in Nat /\ s \in 0..(n - 1) /\ c = n * q + s /\ c = q * n + s
  <2>1. q \in Nat /\ s \in 0..(n - 1) /\ c = n * q + s
    BY Division
  <2> HIDE DEF q, s
  <2> QED
    BY <2>1
<1> HIDE DEF q, s
<1>2. a + q \in Nat /\ a * n + c = (a + q) * n + s /\ a * n \in Nat /\ a * n + 0 = a * n /\ 0 \in 0..(n - 1)
  <2>1. (a + q) * n = a * n + q * n /\ a * n \in Nat /\ q * n \in Nat
    BY <1>1
  <2> QED
    BY <1>1, <2>1
<1>3. (a * n + c) \div n = a + q /\ (a * n + c) % n = s
  BY <1>1, <1>2, Quotient
<1>4. (a * n + 0) \div n = a /\ (a * n + 0) % n = 0
  BY <1>2, Quotient
<1>5. q * n \in 0..c
  <2>1. q * n \in Nat
    BY <1>1
  <2> QED
    BY <1>1, <2>1
<1> QED
  BY <1>1, <1>2, <1>3, <1>4, <1>5 DEF q, s

\* The larger number has the larger quotient.
LEMMA QuotientGrows ==
  ASSUME NEW n \in Nat \ {0}, NEW a \in Nat, NEW c \in Nat, a <= c
  PROVE  a \div n <= c \div n /\ a \div n \in Nat /\ c \div n \in Nat
<1> DEFINE p == a \div n
           q == c \div n
           r == a % n
           s == c % n
<1>1. /\ p \in Nat /\ q \in Nat /\ r \in 0..(n - 1) /\ s \in 0..(n - 1)
      /\ a = n * p + r /\ c = n * q + s
  BY Division
<1> HIDE DEF p, q, r, s
<1>2. n * q + s >= n * p + r
  BY <1>1
<1>3. q >= p
  BY <1>1, <1>2, Larger
<1> QED
  BY <1>1, <1>3 DEF p, q

\* A part of a part.
LEMMA PartOfPart ==
  ASSUME NEW C, NEW s \in Seq(C), NEW p \in Nat \ {0}, NEW q \in 0..Len(s),
         NEW x \in Nat \ {0}, NEW y \in Int, x <= y + 1, p + y - 1 <= q
  PROVE  SubSeq(SubSeq(s, p, q), x, y) = SubSeq(s, p + x - 1, p + y - 1)
<1> DEFINE t == SubSeq(s, p, q)
           u == SubSeq(t, x, y)
           v == SubSeq(s, p + x - 1, p + y - 1)
           n == y - x + 1
<1>0. Len(s) \in Nat /\ q \in Nat /\ n \in Nat /\ \A j \in 1..n : x + j - 1 \in 1..(q - p + 1)
  OBVIOUS
<1>1. \A j \in p..q : s[j] \in C
  <2>1. \A j \in p..q : j \in 1..Len(s)
    BY <1>0
  <2> QED
    BY <2>1, ElementOfSeq
<1>2. t \in Seq(C) /\ \A j \in 1..(q - p + 1) : t[j] = s[p + j - 1]
  BY <1>0, <1>1, SubSeqProperties
<1>3. \A j \in x..y : j \in 1..(q - p + 1) /\ p + j - 1 \in p..q
  BY <1>0
<1>4. \A j \in x..y : t[j] \in C
  <2> HIDE DEF t
  <2> QED
    BY <1>1, <1>2, <1>3
<1> HIDE DEF t
<1>5. u \in Seq(C) /\ Len(u) = n /\ \A j \in 1..n : u[j] = t[x + j - 1]
  <2>1. /\ u \in Seq(C) /\ Len(u) = IF x <= y THEN y - x + 1 ELSE 0
        /\ \A j \in 1..(y - x + 1) : u[j] = t[x + j - 1]
    BY <1>4, SubSeqProperties
  <2> QED
    BY <1>0, <2>1
<1>6. v \in Seq(C) /\ Len(v) = n /\ \A j \in 1..n : v[j] = s[(p + x - 1) + j - 1]
  <2> DEFINE b == p + x - 1
             e == p + y - 1
  <2>1. b \in Int /\ e \in Int /\ e - b + 1 = n /\ \A j \in b..e : j \in p..q
    BY <1>0
  <2>2. \A j \in b..e : s[j] \in C
    BY <1>1, <2>1
  <2>3. SubSeq(s, b, e) = v
    OBVIOUS
  <2> HIDE DEF v, n, b, e
  <2>6. /\ SubSeq(s, b, e) \in Seq(C) /\ Len(SubSeq(s, b, e)) = IF b <= e THEN e - b + 1 ELSE 0
        /\ \A j \in 1..(e - b + 1) : SubSeq(s, b, e)[j] = s[b + j - 1]
    BY <2>1, <2>2, SubSeqProperties
  <2>4. /\ v \in Seq(C) /\ Len(v) = IF b <= e THEN e - b + 1 ELSE 0
        /\ \A j \in 1..(e - b + 1) : v[j] = s[b + j - 1]
    BY <2>3, <2>6
  <2>5. Len(v) = n
    BY <1>0, <2>1, <2>4
  <2> QED
    BY <2>1, <2>4, <2>5 DEF b
<1>7. \A j \in 1..n : u[j] = v[j]
  <2> SUFFICES ASSUME NEW j \in 1..n PROVE u[j] = v[j]
    OBVIOUS
  <2>1. x + j - 1 \in 1..(q - p + 1) /\ p + (x + j - 1) - 1 = (p + x - 1) + j - 1
    BY <1>0
  <2>2. t[x + j - 1] = s[p + (x + j - 1) - 1]
    BY <1>2, <2>1
  <2> QED
    BY <1>5, <1>6, <2>1, <2>2
<1> HIDE DEF u, v, n
<1>8. u = v
  BY <1>5, <1>6, <1>7, SameSeq
<1> QED
  BY <1>8 DEF u, v, t

\* The first part of U, continued.
LEMMA FirstPartContinued ==
  ASSUME NEW C, NEW U \in Seq(C), NEW k \in 0..Len(U), NEW chars \in Seq(C),
         k + Len(chars) <= Len(U), \A j \in 1..Len(chars) : chars[j] = U[k + j]
  PROVE  SubSeq(U, 1, k) \o chars = SubSeq(U, 1, k + Len(chars))
<1> DEFINE n == Len(chars)
           s == SubSeq(U, 1, k)
           t == SubSeq(U, 1, k + n)
           r == s \o chars
<1>0. Len(U) \in Nat /\ n \in Nat /\ k \in Nat /\ k + n \in 0..Len(U)
  BY EndsAre
<1>1. /\ s \in Seq(C) /\ Len(s) = k /\ \A j \in 1..k : s[j] = U[j]
      /\ t \in Seq(C) /\ Len(t) = k + n /\ \A j \in 1..(k + n) : t[j] = U[j]
  <2> HIDE DEF n
  <2> QED
    BY <1>0, FirstPart
<1> HIDE DEF s, t
<1>2. r \in Seq(C) /\ Len(r) = k + n /\ (\A p \in 1..k : r[p] = s[p]) /\ \A j \in 1..n : r[k + j] = chars[j]
  <2>1. /\ s \o chars \in Seq(C) /\ Len(s \o chars) = Len(s) + Len(chars)
        /\ \A p \in 1..Len(s) : (s \o chars)[p] = s[p]
    BY <1>1, TwoParts
  <2>2. \A j \in 1..Len(chars) : (s \o chars)[Len(s) + j] = chars[j]
    BY <1>1, TwoParts
  <2> QED
    BY <1>1, <2>1, <2>2
<1> HIDE DEF r
<1>3. \A p \in 1..(k + n) : r[p] = t[p]
  <2> SUFFICES ASSUME NEW p \in 1..(k + n) PROVE r[p] = t[p]
    OBVIOUS
  <2>1. CASE p \in 1..k
    BY <1>1, <1>2, <2>1
  <2>2. CASE p \notin 1..k
    <3> DEFINE j == p - k
    <3>1. j \in 1..n /\ p = k + j
      BY <1>0, <2>2
    <3> HIDE DEF j
    <3>2. r[k + j] = chars[j] /\ chars[j] = U[k + j]
      BY <1>2, <3>1
    <3> QED
      BY <1>1, <3>1, <3>2
  <2> QED
    BY <2>1, <2>2
<1>4. r = t
  BY <1>1, <1>2, <1>3, SameSeq
<1> QED
  BY <1>4 DEF r, t, s, n

\* What two sequences have between them.
LEMMA JoinedSets ==
  ASSUME NEW C, NEW s \in Seq(C), NEW t \in Seq(C)
  PROVE  /\ ToSet(s \o t) = ToSet(s) \cup ToSet(t)
         /\ IsInjective(s) /\ IsInjective(t) /\ ToSet(s) \cap ToSet(t) = {} => IsInjective(s \o t)
<1> DEFINE r == s \o t
           N == Len(s)
           M == Len(t)
<1>1. N \in Nat /\ M \in Nat /\ DOMAIN s = 1..N /\ DOMAIN t = 1..M
  OBVIOUS
<1>2. r \in Seq(C) /\ Len(r) = N + M /\ (\A p \in 1..N : r[p] = s[p]) /\ \A k \in 1..M : r[N + k] = t[k]
  BY TwoParts
<1>3. DOMAIN r = 1..(N + M)
  <2> HIDE DEF r
  <2> QED
    BY <1>2
<1> HIDE DEF r, N, M
<1>4. \A p \in 1..(N + M) : p \in 1..N \/ (p \notin 1..N /\ p - N \in 1..M /\ N + (p - N) = p)
  BY <1>1
<1>5. ToSet(s) = {s[p] : p \in 1..N} /\ ToSet(t) = {t[p] : p \in 1..M} /\ ToSet(r) = {r[p] : p \in 1..(N + M)}
  BY <1>1, <1>3 DEF ToSet
<1>6. ToSet(r) = ToSet(s) \cup ToSet(t)
  <2>1. ASSUME NEW p \in 1..(N + M) PROVE r[p] \in ToSet(s) \cup ToSet(t)
    <3>1. CASE p \in 1..N
      BY <1>2, <1>5, <3>1
    <3>2. CASE p \notin 1..N
      <4> DEFINE k == p - N
      <4>1. k \in 1..M /\ N + k = p
        BY <1>4, <3>2
      <4> HIDE DEF k
      <4> QED
        BY <1>2, <1>5, <4>1
    <3> QED
      BY <3>1, <3>2
  <2>2. \A p \in 1..N : p \in 1..(N + M) /\ r[p] = s[p]
    BY <1>1, <1>2
  <2>3. \A k \in 1..M : N + k \in 1..(N + M) /\ r[N + k] = t[k]
    BY <1>1, <1>2
  <2> QED
    BY <1>5, <2>1, <2>2, <2>3
<1>7. ASSUME IsInjective(s), IsInjective(t), ToSet(s) \cap ToSet(t) = {} PROVE IsInjective(r)
  <2> SUFFICES ASSUME NEW p \in 1..(N + M), NEW q \in 1..(N + M), r[p] = r[q] PROVE p = q
    BY <1>3 DEF IsInjective
  <2>1. \A x \in 1..(N + M) : \/ x \in 1..N /\ r[x] \in ToSet(s) /\ r[x] = s[x]
                              \/ x \notin 1..N /\ x - N \in 1..M /\ r[x] \in ToSet(t) /\ r[x] = t[x - N]
    <3> SUFFICES ASSUME NEW x \in 1..(N + M)
                 PROVE  \/ x \in 1..N /\ r[x] \in ToSet(s) /\ r[x] = s[x]
                        \/ x \notin 1..N /\ x - N \in 1..M /\ r[x] \in ToSet(t) /\ r[x] = t[x - N]
      OBVIOUS
    <3>1. CASE x \in 1..N
      BY <1>2, <1>5, <3>1
    <3>2. CASE x \notin 1..N
      <4> DEFINE k == x - N
      <4>1. k \in 1..M /\ N + k = x
        BY <1>4, <3>2
      <4>2. x - N = k
        OBVIOUS
      <4> HIDE DEF k
      <4> QED
        BY <1>2, <1>5, <3>2, <4>1, <4>2
    <3> QED
      BY <3>1, <3>2
  <2>2. CASE p \in 1..N /\ q \in 1..N
    <3>1. s[p] = s[q]
      BY <2>1, <2>2
    <3> QED
      BY <1>1, <1>7, <2>2, <3>1 DEF IsInjective
  <2>3. CASE p \notin 1..N /\ q \notin 1..N
    <3>1. p - N \in 1..M /\ q - N \in 1..M /\ t[p - N] = t[q - N]
      BY <2>1, <2>3
    <3>2. p - N = q - N
      BY <1>1, <1>7, <3>1 DEF IsInjective
    <3> QED
      BY <1>1, <3>2
  <2>4. CASE (p \in 1..N) # (q \in 1..N)
    <3>1. r[p] \in ToSet(s) \cap ToSet(t)
      BY <2>1, <2>4
    <3> QED
      BY <1>7, <3>1
  <2> QED
    BY <2>2, <2>3, <2>4
<1> QED
  BY <1>6, <1>7 DEF r

\* What is selected from a sequence without repetitions has none.
LEMMA SelectedSet ==
  ASSUME NEW C, NEW s \in Seq(C), IsInjective(s), NEW P \in SUBSET (1..Len(s))
  PROVE  /\ Selected(s, P) \in Seq(C) /\ IsInjective(Selected(s, P))
         /\ ToSet(Selected(s, P)) = {s[k] : k \in P}
<1>1. PICK n \in Nat : \E p \in [1..n -> P] :
           /\ \A k, m \in 1..n : k < m <=> p[k] < p[m]
           /\ \A x \in P : \E k \in 1..n : p[k] = x
           /\ Selected(s, P) = [k \in 1..n |-> s[p[k]]]
           /\ Selected(s, P) \in Seq(C) /\ Len(Selected(s, P)) = n
  BY SelectedIs
<1>2. PICK p \in [1..n -> P] :
           /\ \A k, m \in 1..n : k < m <=> p[k] < p[m]
           /\ \A x \in P : \E k \in 1..n : p[k] = x
           /\ Selected(s, P) = [k \in 1..n |-> s[p[k]]]
           /\ Selected(s, P) \in Seq(C)
  BY <1>1
<1>3. /\ DOMAIN Selected(s, P) = 1..n /\ \A k \in 1..n : Selected(s, P)[k] = s[p[k]]
  BY <1>2
<1>4. \A k \in 1..n : p[k] \in P
  BY <1>2
<1>5. IsInjective(Selected(s, P))
  <2> SUFFICES ASSUME NEW k \in 1..n, NEW m \in 1..n, s[p[k]] = s[p[m]], k # m PROVE FALSE
    BY <1>3 DEF IsInjective
  <2>1. p[k] \in DOMAIN s /\ p[m] \in DOMAIN s
    <3>1. DOMAIN s = 1..Len(s)
      OBVIOUS
    <3> QED
      BY <1>4, <3>1
  <2>2. p[k] = p[m]
    BY <2>1 DEF IsInjective
  <2>3. k < m \/ m < k
    OBVIOUS
  <2>4. p[k] \in Int /\ (p[k] < p[m] \/ p[m] < p[k])
    <3>1. P \in SUBSET Int
      OBVIOUS
    <3> QED
      BY <1>2, <1>4, <2>3, <3>1
  <2> QED
    BY <2>2, <2>4
<1>6. ToSet(Selected(s, P)) = {s[k] : k \in P}
  <2>1. ToSet(Selected(s, P)) = {s[p[k]] : k \in 1..n}
    BY <1>3 DEF ToSet
  <2>2. \A k \in P : \E m \in 1..n : p[m] = k
    BY <1>2
  <2>3. ASSUME NEW k \in P PROVE s[k] \in {s[p[m]] : m \in 1..n}
    BY <2>2
  <2>4. \A m \in 1..n : s[p[m]] \in {s[k] : k \in P}
    BY <1>4
  <2>5. {s[p[m]] : m \in 1..n} = {s[k] : k \in P}
    BY <2>3, <2>4
  <2> QED
    BY <2>1, <2>5
<1> QED
  BY <1>2, <1>5, <1>6

\* It has the value of a fold after the first k places wherever it has one before.
Reaches(It, X, x0, h, n) ==
  It[{}] = x0 /\ \A k \in 1..n : It[1..(k - 1)] \in X => It[1..k] = h[k][It[1..(k - 1)]]

\* F has the values of a fold after 0 to n places.
Stepwise(F, X, x0, h, n) ==
  F \in [0..n -> X] /\ F[0] = x0 /\ \A k \in 1..n : F[k] = h[k][F[k - 1]]

\* What a fold computes is reached step by step.
LEMMA FoldReached ==
  ASSUME NEW n \in Nat, NEW X, NEW x0 \in X, NEW h \in [1..n -> [X -> X]], NEW It,
         Reaches(It, X, x0, h, n)
  PROVE  \E F : Stepwise(F, X, x0, h, n) /\ It[1..n] = F[n]
<1>0. It[{}] = x0 /\ \A k \in 1..n : It[1..(k - 1)] \in X => It[1..k] = h[k][It[1..(k - 1)]]
  BY DEF Reaches
<1> DEFINE T == {k \in 0..n : It[1..k] \in X}
           F == [k \in 0..n |-> It[1..k]]
<1>1. \A k \in 0..n : k \in T
  <2>1. 0 \in T
    <3>1. 1..0 = {}
      OBVIOUS
    <3> QED
      BY <1>0, <3>1
  <2>2. ASSUME NEW k \in 1..n, k - 1 \in T PROVE k \in T
    <3>1. k \in 0..n /\ It[1..(k - 1)] \in X
      BY <2>2
    <3>2. h[k] \in [X -> X] /\ It[1..k] = h[k][It[1..(k - 1)]]
      BY <1>0, <3>1
    <3> QED
      BY <3>1, <3>2
  <2> HIDE DEF T
  <2> QED
    BY <2>1, <2>2, UpTo
<1>2. \A k \in 0..n : It[1..k] \in X
  BY <1>1
<1>3. F \in [0..n -> X]
  BY <1>2
<1>4. F[0] = x0
  <2>1. 1..0 = {} /\ 0 \in 0..n
    OBVIOUS
  <2> QED
    BY <1>0, <2>1
<1>5. \A k \in 1..n : F[k] = h[k][F[k - 1]]
  <2>1. \A k \in 1..n : k \in 0..n /\ k - 1 \in 0..n
    OBVIOUS
  <2> QED
    BY <1>0, <1>2, <2>1
<1>6. It[1..n] = F[n]
  <2>1. n \in 0..n
    OBVIOUS
  <2> QED
    BY <2>1
<1> HIDE DEF F
<1>7. Stepwise(F, X, x0, h, n)
  BY <1>3, <1>4, <1>5 DEF Stepwise
<1> QED
  BY <1>6, <1>7

\* The last one of a sequence, and those before.
LEMMA LastIs ==
  ASSUME NEW C, NEW s \in Seq(C), s # <<>>
  PROVE  /\ Len(s) \in Nat \ {0} /\ Last(s) = s[Len(s)] /\ Last(s) \in C
         /\ Front(s) \in Seq(C) /\ Len(Front(s)) = Len(s) - 1
         /\ \A k \in 1..(Len(s) - 1) : Front(s)[k] = s[k]
<1> DEFINE n == Len(s)
           t == SubSeq(s, 1, n - 1)
<1>1. n \in Nat /\ n # 0
  BY EmptySeq
<1>2. n \in 1..n /\ Last(s) = s[n]
  BY <1>1 DEF Last
<1>3. s[n] \in C /\ \A k \in 1..n : s[k] \in C
  BY <1>2, ElementOfSeq
<1>4. Front(s) = t
  BY DEF Front
<1>5. t \in Seq(C) /\ Len(t) = n - 1 /\ \A k \in 1..(n - 1) : t[k] = s[k]
  <2>1. \A k \in 1..(n - 1) : s[k] \in C
    BY <1>1, <1>3
  <2>2. 1 \in Int /\ n - 1 \in Int
    BY <1>1
  <2> HIDE DEF n
  <2>3. /\ t \in Seq(C) /\ Len(t) = (IF 1 <= n - 1 THEN n - 1 - 1 + 1 ELSE 0)
        /\ \A k \in 1..(n - 1 - 1 + 1) : t[k] = s[1 + k - 1]
    BY <2>1, <2>2, SubSeqProperties
  <2>4. Len(t) = n - 1
    BY <1>1, <2>3
  <2>5. \A k \in 1..(n - 1) : k \in 1..(n - 1 - 1 + 1) /\ 1 + k - 1 = k
    BY <1>1
  <2> QED
    BY <2>3, <2>4, <2>5
<1> HIDE DEF t
<1> QED
  BY <1>1, <1>2, <1>3, <1>4, <1>5

\* Sequences of one member each, laid end to end.
LEMMA FlattenSingles ==
  ASSUME NEW C, NEW q \in Seq(C)
  PROVE  FlattenSeq([k \in 1..Len(q) |-> <<q[k]>>]) = q
<1> DEFINE n == Len(q)
           r == [k \in 1..n |-> <<q[k]>>]
<1>1. n \in Nat /\ \A k \in 1..n : q[k] \in C
  BY ElementOfSeq
<1>2. \A k \in 1..n : <<q[k]>> \in Seq(C)
  BY <1>1
<1>3. r \in Seq(Seq(C)) /\ Len(r) = n /\ \A k \in 1..n : r[k] = <<q[k]>>
  <2> DEFINE S == Seq(C)
  <2>1. \A k \in 1..n : r[k] \in S
    BY <1>2
  <2> HIDE DEF S, n
  <2>2. r \in Seq(S) /\ Len(r) = n
    BY <1>1, <2>1
  <2> QED
    BY <2>2 DEF S
<1> HIDE DEF r
<1>4. PICK F : Flattens(F, C, r) /\ FlattenSeq(r) = F[n]
  BY <1>3, FlattenIs
<1>5. F \in [0..n -> Seq(C)] /\ F[0] = <<>> /\ \A k \in 1..n : F[k] = F[k - 1] \o <<q[k]>>
  BY <1>3, <1>4 DEF Flattens
<1> HIDE DEF n
<1> DEFINE T == {k \in 0..n : Len(F[k]) = k /\ \A j \in 1..k : F[k][j] = q[j]}
<1>6. \A k \in 0..n : k \in T
  <2>1. 0 \in T
    BY <1>1, <1>5
  <2>2. ASSUME NEW k \in 1..n, k - 1 \in T PROVE k \in T
    <3> DEFINE f == F[k - 1]
    <3>1. k \in 0..n /\ k - 1 \in 0..n /\ q[k] \in C
      BY <1>1
    <3>2. f \in Seq(C) /\ Len(f) = k - 1 /\ \A j \in 1..(k - 1) : f[j] = q[j]
      BY <1>5, <2>2, <3>1
    <3>3. F[k] = f \o <<q[k]>>
      BY <1>5
    <3> HIDE DEF f
    <3>4. f \o <<q[k]>> = Append(f, q[k])
      BY <3>1, <3>2
    <3>5. Len(Append(f, q[k])) = k - 1 + 1 /\ Append(f, q[k])[k - 1 + 1] = q[k]
          /\ \A j \in 1..(k - 1) : Append(f, q[k])[j] = f[j]
      BY <3>1, <3>2, Appended
    <3>6. k - 1 + 1 = k /\ \A j \in 1..k : j = k \/ j \in 1..(k - 1)
      BY <3>1
    <3>7. Len(F[k]) = k /\ \A j \in 1..k : F[k][j] = q[j]
      BY <3>2, <3>3, <3>4, <3>5, <3>6
    <3> QED
      BY <3>1, <3>7
  <2> HIDE DEF T
  <2> QED
    BY <1>1, <2>1, <2>2, UpTo
<1>7. Len(F[n]) = n /\ (\A j \in 1..n : F[n][j] = q[j]) /\ F[n] \in Seq(C)
  <2>1. n \in 0..n
    BY <1>1
  <2> QED
    BY <1>5, <1>6, <2>1
<1>8. F[n] = q
  <2> DEFINE s == F[n]
  <2>1. s \in Seq(C) /\ Len(s) = Len(q) /\ \A j \in 1..Len(s) : s[j] = q[j]
    BY <1>7 DEF n
  <2> HIDE DEF s
  <2> QED
    BY <2>1, SameSeq DEF s
<1> QED
  BY <1>4, <1>8 DEF r, n

\* What holds of a number if it holds of the larger ones holds of all those of a finite set.
LEMMA Downward ==
  ASSUME NEW D \in SUBSET Nat, IsFiniteSet(D), NEW T,
         \A x \in D : (\A y \in D : y > x => y \in T) => x \in T
  PROVE  \A x \in D : x \in T
<1> DEFINE U == {x \in D : x \notin T}
<1>1. ASSUME U # {} PROVE FALSE
  <2>1. U \in SUBSET Nat /\ IsFiniteSet(U)
    <3>1. U \subseteq D
      OBVIOUS
    <3> QED
      BY <3>1, FS_Subset
  <2> HIDE DEF U
  <2>2. PICK x \in U : \A y \in U : y <= x
    BY <1>1, <2>1, Greatest
  <2>3. \A y \in D : y > x => y \in T
    <3> SUFFICES ASSUME NEW y \in D, y > x, y \notin T PROVE FALSE
      OBVIOUS
    <3>1. y \in U
      BY DEF U
    <3>2. y <= x /\ y \in Nat /\ x \in Nat
      BY <2>1, <2>2, <3>1
    <3> QED
      BY <3>2
  <2> QED
    BY <2>2, <2>3 DEF U
<1> QED
  BY <1>1

\* A sequence with one more member in front, and a sequence without its first.
LEMMA InFront ==
  ASSUME NEW C, NEW m \in C, NEW c \in Seq(C)
  PROVE  /\ <<m>> \o c \in Seq(C) /\ Len(<<m>> \o c) = Len(c) + 1 /\ (<<m>> \o c)[1] = m
         /\ \A k \in 1..Len(c) : (<<m>> \o c)[k + 1] = c[k]
<1> DEFINE s == <<m>>
<1>1. s \in Seq(C) /\ Len(s) = 1 /\ s[1] = m
  OBVIOUS
<1> HIDE DEF s
<1>2. /\ s \o c \in Seq(C) /\ Len(s \o c) = Len(s) + Len(c)
      /\ \A p \in 1..Len(s) : (s \o c)[p] = s[p]
      /\ \A k \in 1..Len(c) : (s \o c)[Len(s) + k] = c[k]
  <2>1. s \in Seq(C)
    BY <1>1
  <2> QED
    BY <2>1, TwoParts
<1>3. Len(s) + Len(c) = Len(c) + 1 /\ 1 \in 1..Len(s) /\ Len(c) \in Nat
  BY <1>1
<1>4. \A k \in 1..Len(c) : Len(s) + k = k + 1
  BY <1>1, <1>3
<1> QED
  BY <1>1, <1>2, <1>3, <1>4 DEF s

\* The first member of a sequence, and the rest.
LEMMA WithoutFirst ==
  ASSUME NEW C, NEW c \in Seq(C), c # <<>>
  PROVE  /\ Len(c) \in Nat \ {0} /\ c[1] \in C
         /\ Tail(c) \in Seq(C) /\ Len(Tail(c)) = Len(c) - 1
         /\ \A k \in 1..(Len(c) - 1) : Tail(c)[k] = c[k + 1]
         /\ c = <<c[1]>> \o Tail(c)
<1> DEFINE n == Len(c)
           t == Tail(c)
<1>1. n \in Nat \ {0}
  BY EmptySeq
<1>2. c[1] \in C
  <2>1. 1 \in 1..n
    BY <1>1
  <2> QED
    BY <2>1, ElementOfSeq
<1>3. t \in Seq(C) /\ Len(t) = n - 1 /\ \A k \in 1..(n - 1) : t[k] = c[k + 1]
  BY HeadTailProperties
<1> HIDE DEF t
<1> DEFINE d == <<c[1]>> \o t
<1>4. d \in Seq(C) /\ Len(d) = Len(t) + 1 /\ d[1] = c[1] /\ \A k \in 1..Len(t) : d[k + 1] = t[k]
  BY <1>2, <1>3, InFront
<1> HIDE DEF d, n
<1>5. Len(d) = n
  BY <1>1, <1>3, <1>4
<1>6. \A k \in 1..n : d[k] = c[k]
  <2> SUFFICES ASSUME NEW k \in 1..n PROVE d[k] = c[k]
    OBVIOUS
  <2>1. CASE k = 1
    BY <1>4, <2>1
  <2>2. CASE k # 1
    <3>1. k - 1 \in 1..(n - 1) /\ k - 1 \in 1..Len(t) /\ (k - 1) + 1 = k
      BY <1>1, <1>3, <2>2
    <3>2. d[(k - 1) + 1] = t[k - 1] /\ t[k - 1] = c[(k - 1) + 1]
      BY <1>3, <1>4, <3>1
    <3> QED
      BY <3>1, <3>2
  <2> QED
    BY <2>1, <2>2
<1>7. d = c
  BY <1>4, <1>5, <1>6, SameSeq DEF n
<1> QED
  BY <1>1, <1>2, <1>3, <1>7 DEF n, t, d

\* A sequence with one more in front tells both.
LEMMA SameInFront ==
  ASSUME NEW C, NEW m \in C, NEW o \in C, NEW c \in Seq(C), NEW d \in Seq(C)
  PROVE  /\ <<m>> \o c = <<o>> \o d => m = o /\ c = d
         /\ <<m>> \o c = <<o>> => m = o /\ c = <<>>
<1> DEFINE x == <<m>> \o c
           y == <<o>> \o d
           z == <<o>>
<1>1. /\ x \in Seq(C) /\ Len(x) = Len(c) + 1 /\ x[1] = m /\ \A k \in 1..Len(c) : x[k + 1] = c[k]
  BY InFront
<1>2. /\ y \in Seq(C) /\ Len(y) = Len(d) + 1 /\ y[1] = o /\ \A k \in 1..Len(d) : y[k + 1] = d[k]
  BY InFront
<1>3. Len(z) = 1 /\ z[1] = o
  OBVIOUS
<1>4. Len(c) \in Nat /\ Len(d) \in Nat
  OBVIOUS
<1> HIDE DEF x, y, z
<1>5. ASSUME x = y PROVE m = o /\ c = d
  <2>1. Len(c) = Len(d)
    BY <1>1, <1>2, <1>4, <1>5
  <2>2. \A k \in 1..Len(c) : c[k] = d[k]
    BY <1>1, <1>2, <1>5, <2>1
  <2>3. c = d
    BY <2>1, <2>2, SameSeq
  <2> QED
    BY <1>1, <1>2, <1>5, <2>3
<1>6. ASSUME x = z PROVE m = o /\ c = <<>>
  <2>1. Len(c) = 0
    BY <1>1, <1>3, <1>4, <1>6
  <2> QED
    BY <1>1, <1>3, <1>6, <2>1, EmptySeq
<1> QED
  BY <1>5, <1>6 DEF x, y, z

\* A match alone is no longer chain.
LEMMA LongerThanOne ==
  ASSUME NEW C, NEW m \in C, NEW o \in C, NEW c \in Seq(C), c # <<>>
  PROVE  <<m>> \o c # <<o>>
<1>1. <<m>> \o c = <<o>> => c = <<>>
  <2>1. c \in Seq(C)
    OBVIOUS
  <2> QED
    BY SameInFront, <2>1
<1> QED
  BY <1>1

\* How many times a number holds another.
LEMMA QuotientAtLeast ==
  ASSUME NEW n \in Nat \ {0}, NEW a \in Nat, NEW k \in Nat
  PROVE  k <= a \div n <=> k * n <= a
<1> DEFINE q == a \div n
           r == a % n
           x == q * n
           y == k * n
<1>1. q \in Nat /\ r \in 0..(n - 1) /\ a = n * q + r
  OBVIOUS
<1>2. x \in Nat /\ y \in Nat /\ a = x + r
  BY <1>1
<1>3. ASSUME k <= q PROVE y <= a
  <2>1. q - k \in Nat /\ (q - k) * n \in Nat /\ x = y + (q - k) * n
    <3>1. q - k \in Nat
      BY <1>1, <1>3
    <3>2. (q - k) * n \in Nat
      BY <3>1
    <3>3. x = y + (q - k) * n
      BY <1>1, <3>1
    <3> QED
      BY <3>1, <3>2, <3>3
  <2> DEFINE z == (q - k) * n
  <2>2. z \in Nat /\ x = y + z
    BY <2>1
  <2> HIDE DEF x, y, z, r, q
  <2> QED
    BY <1>1, <1>2, <2>2
<1>4. ASSUME ~(k <= q) PROVE ~(y <= a)
  <2>1. k - (q + 1) \in Nat /\ (k - (q + 1)) * n \in Nat /\ y = (x + n) + (k - (q + 1)) * n
    <3>1. k - (q + 1) \in Nat
      BY <1>1, <1>4
    <3>2. (k - (q + 1)) * n \in Nat
      BY <3>1
    <3>3. y = (x + n) + (k - (q + 1)) * n
      BY <1>1, <3>1
    <3> QED
      BY <3>1, <3>2, <3>3
  <2> DEFINE z == (k - (q + 1)) * n
  <2>2. z \in Nat /\ y = (x + n) + z
    BY <2>1
  <2> HIDE DEF x, y, z, r, q
  <2> QED
    BY <1>1, <1>2, <2>2
<1> QED
  BY <1>3, <1>4

\* A common factor does not matter.
LEMMA SameFactor ==
  ASSUME NEW n \in Nat \ {0}, NEW a \in Nat, NEW k \in Nat
  PROVE  k <= a <=> k * n <= a * n
<1>1. a * n \in Nat /\ (a * n) \div n = a
  BY QuotientOfSum
<1>2. k <= (a * n) \div n <=> k * n <= a * n
  BY <1>1, QuotientAtLeast
<1> QED
  BY <1>1, <1>2

\* A sequence whose later members are other ones has each of them once.
LEMMA NoneTwice ==
  ASSUME NEW C, NEW s \in Seq(C), \A k, l \in 1..Len(s) : k < l => s[k] # s[l]
  PROVE  IsInjective(s)
<1>1. Len(s) \in Nat /\ DOMAIN s = 1..Len(s)
  OBVIOUS
<1>2. ASSUME NEW k \in 1..Len(s), NEW l \in 1..Len(s), s[k] = s[l] PROVE k = l
  <2>1. ~(k < l) /\ ~(l < k)
    BY <1>2
  <2> QED
    BY <1>1, <2>1
<1> QED
  BY <1>1, <1>2 DEF IsInjective

\* A sequence is the function of its places.
LEMMA SeqIs ==
  ASSUME NEW S, NEW s \in Seq(S)
  PROVE  Len(s) \in Nat /\ s = [k \in 1..Len(s) |-> s[k]] /\ DOMAIN s = 1..Len(s)
OBVIOUS

\* The members of a sequence with one more.
LEMMA ToSetAppend ==
  ASSUME NEW S, NEW s \in Seq(S), NEW x \in S
  PROVE  ToSet(Append(s, x)) = ToSet(s) \cup {x}
<1>1. /\ DOMAIN s = 1..Len(s) /\ DOMAIN Append(s, x) = 1..(Len(s) + 1) /\ Len(s) \in Nat
      /\ \A k \in 1..Len(s) : Append(s, x)[k] = s[k]
      /\ Append(s, x)[Len(s) + 1] = x
  OBVIOUS
<1>2. \A y : y \in ToSet(Append(s, x)) <=> y \in ToSet(s) \/ y = x
  <2> SUFFICES ASSUME NEW y PROVE y \in ToSet(Append(s, x)) <=> y \in ToSet(s) \/ y = x
    OBVIOUS
  <2>1. y \in ToSet(Append(s, x)) <=> \E k \in 1..(Len(s) + 1) : y = Append(s, x)[k]
    BY <1>1 DEF ToSet
  <2>2. y \in ToSet(s) <=> \E k \in 1..Len(s) : y = s[k]
    BY <1>1 DEF ToSet
  <2> QED
    BY <1>1, <2>1, <2>2
<1> QED
  BY <1>2

\* A prefix, place by place.
LEMMA PrefixIs ==
  ASSUME NEW C, NEW s \in Seq(C), NEW w \in Seq(C)
  PROVE  IsPrefix(s, w) <=> Len(s) <= Len(w) /\ \A j \in 1..Len(s) : s[j] = w[j]
<1>0. Len(s) \in Nat /\ Len(w) \in Nat
  OBVIOUS
<1>1. SubSeq(s, 1, Len(s)) = s
  BY <1>0
<1>2. CASE Len(s) <= Len(w)
  <2>1. /\ SubSeq(w, 1, Len(s)) \in Seq(C) /\ Len(SubSeq(w, 1, Len(s))) = Len(s)
        /\ \A j \in 1..Len(s) : SubSeq(w, 1, Len(s))[j] = w[j]
    BY <1>0, <1>2
  <2>2. SubSeq(w, 1, Len(s)) = s <=> \A j \in 1..Len(s) : s[j] = w[j]
    BY <2>1, SameSeq
  <2> QED
    BY <1>1, <1>2, <2>2 DEF IsPrefix
<1>3. CASE ~(Len(s) <= Len(w))
  BY <1>3 DEF IsPrefix
<1> QED
  BY <1>2, <1>3

\* A suffix is the last part of its length.
LEMMA SuffixAt ==
  ASSUME NEW C, NEW w \in Seq(C), NEW s \in Seq(C)
  PROVE  IsSuffix(w, s) <=> Len(w) <= Len(s) /\ w = Suffix(s, Len(w))
<1>0. Len(s) \in Nat /\ Len(w) \in Nat
  OBVIOUS
<1>1. \A t \in Seq(C) : /\ Reverse(t) \in Seq(C) /\ Len(Reverse(t)) = Len(t)
                        /\ \A j \in 1..Len(t) : Reverse(t)[j] = t[(Len(t) - j) + 1]
  <2> SUFFICES ASSUME NEW t \in Seq(C)
               PROVE  /\ Reverse(t) \in Seq(C) /\ Len(Reverse(t)) = Len(t)
                      /\ \A j \in 1..Len(t) : Reverse(t)[j] = t[(Len(t) - j) + 1]
    OBVIOUS
  <2>1. Reverse(t) = [j \in 1..Len(t) |-> t[(Len(t) - j) + 1]]
    BY DEF Reverse
  <2>2. Len(t) \in Nat /\ \A j \in 1..Len(t) : (Len(t) - j) + 1 \in 1..Len(t)
    OBVIOUS
  <2>3. \A j \in 1..Len(t) : t[(Len(t) - j) + 1] \in C
    BY <2>2, ElementOfSeq
  <2> QED
    BY <2>1, <2>2, <2>3
<1>2. IsSuffix(w, s) <=> Len(w) <= Len(s) /\ \A j \in 1..Len(w) : w[(Len(w) - j) + 1] = s[(Len(s) - j) + 1]
  <2>1. IsSuffix(w, s) <=> /\ Len(Reverse(w)) <= Len(Reverse(s))
                           /\ \A j \in 1..Len(Reverse(w)) : Reverse(w)[j] = Reverse(s)[j]
    BY <1>1, PrefixIs DEF IsSuffix
  <2> QED
    BY <1>0, <1>1, <2>1
<1>3. ASSUME Len(w) <= Len(s)
      PROVE  (\A j \in 1..Len(w) : w[(Len(w) - j) + 1] = s[(Len(s) - j) + 1]) <=> w = Suffix(s, Len(w))
  <2>0. Len(w) \in 0..Len(s)
    BY <1>0, <1>3
  <2>1. /\ Suffix(s, Len(w)) \in Seq(C) /\ Len(Suffix(s, Len(w))) = Len(w)
        /\ \A j \in 1..Len(w) : Suffix(s, Len(w))[j] = s[Len(s) - Len(w) + j]
    BY <2>0, EndIs
  <2>2. w = Suffix(s, Len(w)) <=> \A j \in 1..Len(w) : w[j] = s[Len(s) - Len(w) + j]
    BY <2>1, SameSeq
  <2>3. ASSUME \A j \in 1..Len(w) : w[(Len(w) - j) + 1] = s[(Len(s) - j) + 1], NEW j \in 1..Len(w)
        PROVE  w[j] = s[Len(s) - Len(w) + j]
    <3> DEFINE k == (Len(w) - j) + 1
    <3>1. k \in 1..Len(w) /\ (Len(w) - k) + 1 = j /\ (Len(s) - k) + 1 = Len(s) - Len(w) + j
      BY <1>0
    <3> HIDE DEF k
    <3>2. w[(Len(w) - k) + 1] = s[(Len(s) - k) + 1]
      BY <2>3, <3>1
    <3> QED
      BY <3>1, <3>2
  <2>4. ASSUME \A j \in 1..Len(w) : w[j] = s[Len(s) - Len(w) + j], NEW j \in 1..Len(w)
        PROVE  w[(Len(w) - j) + 1] = s[(Len(s) - j) + 1]
    <3> DEFINE k == (Len(w) - j) + 1
    <3>1. k \in 1..Len(w) /\ Len(s) - Len(w) + k = (Len(s) - j) + 1
      BY <1>0
    <3> HIDE DEF k
    <3>2. w[k] = s[Len(s) - Len(w) + k]
      BY <2>4, <3>1
    <3> QED
      BY <3>1, <3>2 DEF k
  <2> QED
    BY <2>2, <2>3, <2>4
<1> QED
  BY <1>2, <1>3

\* The strings that a word of d begins with.
Heads(C, d) == {s \in Seq(C) : s = <<>> \/ \E w \in d : IsPrefix(s, w)}

\* What a word begins with: the root and the words themselves are among it, and with a string
\* all that it begins with.
LEMMA HeadsAre ==
  ASSUME NEW C, NEW d \in SUBSET Seq(C)
  PROVE  /\ <<>> \in Heads(C, d) /\ d \subseteq Heads(C, d) /\ Heads(C, d) \subseteq Seq(C)
         /\ \A t \in Seq(C), c \in C : Append(t, c) \in Heads(C, d) => t \in Heads(C, d)
<1>1. ASSUME NEW w \in d PROVE w \in Heads(C, d)
  <2>1. w \in Seq(C) /\ Len(w) \in Nat
    OBVIOUS
  <2>2. IsPrefix(w, w)
    BY <2>1, PrefixIs
  <2> QED
    BY <2>1, <2>2 DEF Heads
<1>2. ASSUME NEW t \in Seq(C), NEW c \in C, Append(t, c) \in Heads(C, d) PROVE t \in Heads(C, d)
  <2> DEFINE u == Append(t, c)
  <2>1. u \in Seq(C) /\ u # <<>> /\ Len(u) = Len(t) + 1 /\ Len(t) \in Nat /\ \A j \in 1..Len(t) : u[j] = t[j]
    BY Appended
  <2> HIDE DEF u
  <2>2. PICK w \in d : IsPrefix(u, w)
    BY <1>2, <2>1 DEF Heads, u
  <2>3. w \in Seq(C) /\ Len(w) \in Nat
    OBVIOUS
  <2>4. Len(u) <= Len(w) /\ \A j \in 1..Len(u) : u[j] = w[j]
    BY <2>1, <2>2, <2>3, PrefixIs
  <2>5. Len(t) <= Len(w) /\ \A j \in 1..Len(t) : j \in 1..Len(u) /\ t[j] = w[j]
    BY <2>1, <2>3, <2>4
  <2>6. IsPrefix(t, w)
    BY <2>3, <2>5, PrefixIs
  <2> QED
    BY <2>6 DEF Heads
<1>3. <<>> \in Heads(C, d)
  BY DEF Heads
<1> QED
  BY <1>1, <1>2, <1>3 DEF Heads

\* The suffixes of a string, by their lengths.
LEMMA SuffixesAre ==
  ASSUME NEW C, NEW s \in Seq(C)
  PROVE  Suffixes(s) = {Suffix(s, k) : k \in 0..Len(s)}
<1>0. Len(s) \in Nat /\ Suffix(s, 0) = <<>>
  BY EndsAre
<1>1. ASSUME NEW l \in 1..Len(s) PROVE \E k \in 0..Len(s) : SubSeq(s, l, Len(s)) = Suffix(s, k)
  <2> DEFINE k == Len(s) - l + 1
  <2>1. k \in 0..Len(s) /\ Len(s) - k + 1 = l
    BY <1>0
  <2> HIDE DEF k
  <2> QED
    BY <2>1 DEF Suffix
<1>2. ASSUME NEW k \in 0..Len(s) PROVE Suffix(s, k) = <<>> \/ \E l \in 1..Len(s) : SubSeq(s, l, Len(s)) = Suffix(s, k)
  <2>1. CASE k = 0
    BY <1>0, <2>1
  <2>2. CASE k # 0
    <3> DEFINE l == Len(s) - k + 1
    <3>1. l \in 1..Len(s)
      BY <1>0, <2>2
    <3> QED
      BY <3>1 DEF Suffix
  <2> QED
    BY <2>1, <2>2
<1>3. \E k \in 0..Len(s) : <<>> = Suffix(s, k)
  BY <1>0
<1> QED
  BY <1>1, <1>2, <1>3 DEF Suffixes

\* A sequence that lists a set in ascending order is the one that Ascending makes.
LEMMA AscendingUnique ==
  ASSUME NEW S \in SUBSET Int, NEW n \in Nat, NEW a \in [1..n -> S],
         \A k, m \in 1..n : k < m => a[k] < a[m], \A x \in S : \E k \in 1..n : a[k] = x
  PROVE  IsFiniteSet(S) /\ Cardinality(S) = n /\ Ascending(S) = a
<1>0. \A k, m \in 1..n : a[k] \in Int /\ (a[k] = a[m] => k = m) /\ (k < m <=> a[k] < a[m])
  <2> SUFFICES ASSUME NEW k \in 1..n, NEW m \in 1..n
               PROVE  a[k] \in Int /\ (a[k] = a[m] => k = m) /\ (k < m <=> a[k] < a[m])
    OBVIOUS
  <2>1. a[k] \in Int /\ a[m] \in Int /\ (k < m => a[k] < a[m]) /\ (m < k => a[m] < a[k])
    OBVIOUS
  <2> QED
    BY <2>1
<1>1. a \in Bijection(1..n, S)
  BY <1>0 DEF Bijection, Injection, Surjection, IsInjective
<1>2. IsFiniteSet(S) /\ Cardinality(S) = n
  <2>1. ExistsBijection(1..n, S) /\ IsFiniteSet(1..n)
    BY <1>1, FS_Interval DEF ExistsBijection
  <2> QED
    BY <2>1, FS_CountingElements, FS_Bijection
<1> DEFINE b == Ascending(S)
<1>3. /\ b \in [1..n -> S] /\ \A x \in S : \E k \in 1..n : b[k] = x
      /\ \A k, m \in 1..n : k < m <=> b[k] < b[m]
  BY <1>2, AscendingLists
<1> HIDE DEF b
\* Place by place: up to x the two have the same members.
<1> DEFINE T == {k \in 0..n : \A j \in 1..k : a[j] = b[j]}
<1>4. \A k \in 0..n : k \in T
  <2>1. 0 \in T
    OBVIOUS
  <2>2. ASSUME NEW k \in 1..n, k - 1 \in T PROVE k \in T
    <3>1. \A j \in 1..(k - 1) : a[j] = b[j]
      BY <2>2
    <3>2. PICK p \in 1..n : a[p] = b[k]
      BY <1>3
    <3>3. PICK q \in 1..n : b[q] = a[k]
      BY <1>3
    <3>4. ~(p < k)
      <4>1. ASSUME p < k PROVE FALSE
        <5>1. p \in 1..(k - 1) /\ b[p] = b[k]
          BY <3>1, <3>2, <4>1
        <5>2. b[p] < b[k] /\ b[p] \in Int /\ b[k] \in Int
          BY <1>3, <4>1
        <5> QED
          BY <5>1, <5>2
      <4> QED
        BY <4>1
    <3>5. ~(q < k)
      <4>1. ASSUME q < k PROVE FALSE
        <5>1. q \in 1..(k - 1) /\ a[q] = a[k]
          BY <3>1, <3>3, <4>1
        <5>2. a[q] < a[k] /\ a[q] \in Int /\ a[k] \in Int
          BY <1>0, <4>1
        <5> QED
          BY <5>1, <5>2
      <4> QED
        BY <4>1
    <3>6. a[k] = b[k]
      <4>1. a[k] \in Int /\ b[k] \in Int
        BY <1>3
      <4>2. ~(b[k] < a[k])
        <5>1. k < p \/ k = p
          BY <3>4
        <5>2. k < p => a[k] < a[p]
          BY <1>0
        <5> QED
          BY <3>2, <4>1, <5>1, <5>2
      <4>3. ~(a[k] < b[k])
        <5>1. k < q \/ k = q
          BY <3>5
        <5>2. k < q => b[k] < b[q]
          BY <1>3
        <5> QED
          BY <3>3, <4>1, <5>1, <5>2
      <4> QED
        BY <4>1, <4>2, <4>3
    <3>7. \A j \in 1..k : j \in 1..(k - 1) \/ j = k
      OBVIOUS
    <3> QED
      BY <3>1, <3>6, <3>7
  <2> HIDE DEF T
  <2> QED
    BY <2>1, <2>2, UpTo
<1>5. \A j \in 1..n : a[j] = b[j]
  BY <1>4
<1>6. a = b
  BY <1>3, <1>5
<1> QED
  BY <1>2, <1>6 DEF b

\* Of two sets, one behind the other, the numbers of the first come first.
LEMMA AscendingJoined ==
  ASSUME NEW S \in SUBSET Int, IsFiniteSet(S), NEW T \in SUBSET Int, IsFiniteSet(T),
         \A x \in S, y \in T : x < y
  PROVE  /\ IsFiniteSet(S \cup T) /\ Ascending(S \cup T) = Ascending(S) \o Ascending(T)
         /\ Cardinality(S \cup T) = Cardinality(S) + Cardinality(T)
<1> DEFINE n == Cardinality(S)
           m == Cardinality(T)
           a == Ascending(S)
           b == Ascending(T)
           c == a \o b
<1>1. /\ n \in Nat /\ a \in [1..n -> S] /\ a \in Seq(Int) /\ Len(a) = n
      /\ \A x \in S : \E k \in 1..n : a[k] = x
      /\ \A k, l \in 1..n : k < l <=> a[k] < a[l]
  <2>1. /\ n \in Nat /\ a \in [1..n -> S] /\ a \in Seq(S) /\ Len(a) = n
        /\ \A x \in S : \E k \in 1..n : a[k] = x
        /\ \A k, l \in 1..n : k < l <=> a[k] < a[l]
    BY AscendingLists
  <2> HIDE DEF n, a
  <2>2. a \in [1..n -> Int]
    BY <2>1
  <2>3. a \in Seq(Int)
    BY <2>1, <2>2
  <2> QED
    BY <2>1, <2>3
<1>2. /\ m \in Nat /\ b \in [1..m -> T] /\ b \in Seq(Int) /\ Len(b) = m
      /\ \A x \in T : \E k \in 1..m : b[k] = x
      /\ \A k, l \in 1..m : k < l <=> b[k] < b[l]
  <2>1. /\ m \in Nat /\ b \in [1..m -> T] /\ b \in Seq(T) /\ Len(b) = m
        /\ \A x \in T : \E k \in 1..m : b[k] = x
        /\ \A k, l \in 1..m : k < l <=> b[k] < b[l]
    BY AscendingLists
  <2> HIDE DEF m, b
  <2>2. b \in [1..m -> Int]
    BY <2>1
  <2>3. b \in Seq(Int)
    BY <2>1, <2>2
  <2> QED
    BY <2>1, <2>3
<1> HIDE DEF n, m, a, b
<1>3. /\ c \in Seq(Int) /\ Len(c) = n + m
      /\ \A p \in 1..n : c[p] = a[p] /\ a[p] \in S
      /\ \A k \in 1..m : c[n + k] = b[k] /\ b[k] \in T
  <2>1. a \in Seq(Int) /\ b \in Seq(Int) /\ Len(a) = n /\ Len(b) = m
    BY <1>1, <1>2
  <2>2. /\ a \o b \in Seq(Int) /\ Len(a \o b) = Len(a) + Len(b)
        /\ \A p \in 1..Len(a) : (a \o b)[p] = a[p]
        /\ \A k \in 1..Len(b) : (a \o b)[Len(a) + k] = b[k]
    <3> DEFINE C == Int
    <3>1. a \in Seq(C) /\ b \in Seq(C)
      BY <2>1
    <3> HIDE DEF C
    <3>2. /\ a \o b \in Seq(C) /\ Len(a \o b) = Len(a) + Len(b)
          /\ \A p \in 1..Len(a) : (a \o b)[p] = a[p]
          /\ \A k \in 1..Len(b) : (a \o b)[Len(a) + k] = b[k]
      BY <3>1, TwoParts
    <3> QED
      BY <3>2 DEF C
  <2>3. /\ c \in Seq(Int) /\ Len(c) = Len(a) + Len(b)
        /\ \A p \in 1..Len(a) : c[p] = a[p]
        /\ \A k \in 1..Len(b) : c[Len(a) + k] = b[k]
    BY <2>2, Zenon
  <2> HIDE DEF c
  <2> QED
    BY <1>1, <1>2, <2>1, <2>3
<1> HIDE DEF c
<1>4. \A p \in 1..(n + m) : p \in 1..n \/ (p - n \in 1..m /\ n + (p - n) = p /\ p > n)
  BY <1>1, <1>2
<1>5. \A p \in 1..(n + m) : /\ p \in 1..n => c[p] = a[p] /\ c[p] \in S
                            /\ p \notin 1..n => c[p] = b[p - n] /\ c[p] \in T
  BY <1>3, <1>4
<1>6. c \in [1..(n + m) -> S \cup T]
  BY <1>1, <1>2, <1>3, <1>5
<1>7. ASSUME NEW p \in 1..(n + m), NEW q \in 1..(n + m), p < q PROVE c[p] < c[q]
  <2>1. CASE q \in 1..n
    <3>1. p \in 1..n
      BY <1>1, <1>7, <2>1
    <3> QED
      BY <1>1, <1>5, <1>7, <2>1, <3>1
  <2>2. CASE p \in 1..n /\ q \notin 1..n
    BY <1>5, <2>2
  <2>3. CASE p \notin 1..n
    <3>1. q \notin 1..n /\ p - n \in 1..m /\ q - n \in 1..m /\ p - n < q - n
      BY <1>1, <1>2, <1>4, <1>7, <2>3
    <3>2. b[p - n] < b[q - n]
      BY <1>2, <3>1
    <3> QED
      BY <1>5, <2>3, <3>1, <3>2
  <2> QED
    BY <2>1, <2>2, <2>3
<1>8. ASSUME NEW x \in S \cup T PROVE \E p \in 1..(n + m) : c[p] = x
  <2>1. CASE x \in S
    <3>1. PICK k \in 1..n : a[k] = x
      BY <1>1, <2>1
    <3>2. k \in 1..(n + m) /\ c[k] = x
      BY <1>1, <1>2, <1>3, <3>1
    <3> QED
      BY <3>2
  <2>2. CASE x \in T
    <3>1. PICK k \in 1..m : b[k] = x
      BY <1>2, <2>2
    <3>2. n + k \in 1..(n + m) /\ c[n + k] = x
      BY <1>1, <1>2, <1>3, <3>1
    <3> QED
      BY <3>2
  <2> QED
    BY <2>1, <2>2
<1>9. n + m \in Nat /\ S \cup T \in SUBSET Int
  BY <1>1, <1>2
<1>10. IsFiniteSet(S \cup T) /\ Cardinality(S \cup T) = n + m /\ Ascending(S \cup T) = c
  BY <1>6, <1>7, <1>8, <1>9, AscendingUnique
<1> QED
  BY <1>10 DEF c, n, m, a, b

\* One number alone, and none.
LEMMA AscendingFew ==
  /\ \A x \in Int : Ascending({x}) = <<x>>
  /\ Ascending({}) = <<>>
<1>1. ASSUME NEW x \in Int PROVE Ascending({x}) = <<x>>
  <2> DEFINE a == <<x>>
             S == {x}
  <2>1. a \in [1..1 -> S] /\ a[1] = x /\ S \in SUBSET Int
    OBVIOUS
  <2>2. \A k \in 1..1 : k = 1
    OBVIOUS
  <2>3. \A k, m \in 1..1 : ~(k < m)
    OBVIOUS
  <2>4. \A y \in S : \E k \in 1..1 : a[k] = y
    BY <2>1
  <2> HIDE DEF a, S
  <2>5. Ascending(S) = a
    <3>1. 1 \in Nat /\ \A k, m \in 1..1 : k < m => a[k] < a[m]
      BY <2>3
    <3> QED
      BY <2>1, <2>4, <3>1, AscendingUnique
  <2> QED
    BY <2>5 DEF a, S
<1>2. Ascending({}) = <<>>
  <2> DEFINE a == <<>>
             S == {}
  <2>1. a \in [1..0 -> S] /\ S \in SUBSET Int /\ 1..0 = {}
    OBVIOUS
  <2> HIDE DEF a
  <2>2. \A x \in S : \E k \in 1..0 : a[k] = x
    OBVIOUS
  <2>3. \A k, m \in 1..0 : k < m => a[k] < a[m]
    BY <2>1
  <2> HIDE DEF S
  <2>4. Ascending(S) = a
    BY <2>1, <2>2, <2>3, AscendingUnique
  <2> QED
    BY <2>4 DEF a, S
<1> QED
  BY <1>1, <1>2

\* t is what F gives for s, one by one.
EachOf(t, F, s) == Len(t) = Len(s) /\ \A k \in 1..Len(s) : t[k] = F[s[k]]

\* One more of each.
LEMMA OneMoreOfEach ==
  ASSUME NEW S, NEW T, NEW F \in [S -> T], NEW s \in Seq(S), NEW t \in Seq(T), EachOf(t, F, s),
         NEW x \in S
  PROVE  Append(t, F[x]) \in Seq(T) /\ EachOf(Append(t, F[x]), F, Append(s, x))
<1> DEFINE n == Len(s)
           u == Append(s, x)
           v == Append(t, F[x])
<1>1. n \in Nat /\ Len(t) = n /\ F[x] \in T /\ \A k \in 1..n : t[k] = F[s[k]]
  BY DEF EachOf
<1>2. u \in Seq(S) /\ Len(u) = n + 1 /\ u[n + 1] = x /\ \A k \in 1..n : u[k] = s[k]
  BY Appended
<1>3. v \in Seq(T) /\ Len(v) = n + 1 /\ v[n + 1] = F[x] /\ \A k \in 1..n : v[k] = t[k]
  BY <1>1, Appended
<1>4. \A k \in 1..(n + 1) : k = n + 1 \/ k \in 1..n
  BY <1>1
<1> HIDE DEF u, v, n
<1>5. \A k \in 1..(n + 1) : v[k] = F[u[k]]
  BY <1>1, <1>2, <1>3, <1>4
<1>6. EachOf(v, F, u)
  BY <1>2, <1>3, <1>5 DEF EachOf
<1> QED
  BY <1>3, <1>6 DEF u, v

\* Numbers counted in parts of q, and the parts in blocks of m: the first n blocks.
LEMMA InBlocks ==
  ASSUME NEW q \in Nat \ {0}, NEW m \in Nat \ {0}, NEW n \in Nat, NEW x \in Nat,
         m * q \in Nat \ {0}
  PROVE  /\ (x + 1) * q <= n * (m * q) <=> (x * q) \div (m * q) < n
         /\ (x * q) \div (m * q) \in Nat
<1> DEFINE K == m * q
           a == x * q
           b == n * m
           c == a \div K
<1>1. a \in Nat /\ b \in Nat /\ n * K = b * q
  OBVIOUS
<1>2. c \in Nat
  <2>1. a <= a
    BY <1>1
  <2> HIDE DEF a, K
  <2> QED
    BY <1>1, <2>1, QuotientGrows DEF K
<1>3. n <= c <=> n * K <= a
  <2> HIDE DEF a, K
  <2> QED
    BY <1>1, QuotientAtLeast DEF K
<1>4. (b <= x <=> b * q <= x * q) /\ (x + 1 <= b <=> (x + 1) * q <= b * q)
  <2>1. x + 1 \in Nat
    OBVIOUS
  <2> HIDE DEF b
  <2> QED
    BY <1>1, <2>1, SameFactor
<1>5. n <= c <=> b <= x
  BY <1>1, <1>3, <1>4
<1>6. (x + 1) * q <= n * K <=> x + 1 <= b
  BY <1>1, <1>4
<1> HIDE DEF a, b, c, K
<1>7. (x + 1) * q <= n * K <=> c < n
  <2>1. (x + 1 <= b <=> ~(b <= x)) /\ (c < n <=> ~(n <= c))
    BY <1>1, <1>2
  <2> QED
    BY <1>5, <1>6, <2>1
<1> QED
  BY <1>2, <1>7 DEF c, a, K

=============================================================================
