---------------------------- MODULE ToolsProofs -----------------------------
(***************************************************************************)
(* Proofs about two of the programs around the pipeline.  gen_mapping: the *)
(* shares of the letters, and the mapping file as MappingFileMapper reads  *)
(* it, for any dictionary, any number of digits and any shuffle.           *)
(* analyze_results: the parts of results.json, the directory of part files *)
(* and, whatever the number of threads, the files and the statistics that  *)
(* results.json says, for any results.                                     *)
(***************************************************************************)
EXTENDS GenMapping, ResultAnalyzer, OrderedProofs, SequenceTheorems
-----------------------------------------------------------------------------
(* Sums over finite sets, as the folds of the community modules make them. *)

\* A has the sums of f over the subsets of D.
Sums(A, f, D) ==
  /\ A \in [SUBSET D -> Int] /\ A[{}] = 0
  /\ \A s \in SUBSET D : s # {} => A[s] = f[Pick(s)] + A[s \ {Pick(s)}]

\* Every function on a finite set has its sums.
LEMMA SumsExist ==
  ASSUME NEW D, IsFiniteSet(D), NEW f \in [D -> Int]
  PROVE  \E A : Sums(A, f, D)
<1> DEFINE X == [SUBSET D -> Int]
           x0 == [s \in SUBSET D |-> 0]
           add(g) == [s \in SUBSET D |-> IF s = {} THEN 0 ELSE f[Pick(s)] + g[s \ {Pick(s)}]]
           h == [n \in Nat |-> [g \in X |-> add(g)]]
<1>1. \A s \in SUBSET D : s # {} => Pick(s) \in s /\ f[Pick(s)] \in Int /\ s \ {Pick(s)} \in SUBSET D
  BY DEF Pick
<1>2. ASSUME NEW g \in X PROVE add(g) \in X
  BY <1>1
<1>3. x0 \in X
  OBVIOUS
<1>4. h \in [Nat -> [X -> X]] /\ \A n \in Nat, g \in X : h[n][g] = add(g)
  <2> HIDE DEF add, X
  <2> QED
    BY <1>2
<1>5. PICK F \in [Nat -> X] : Iterates(F, x0, h)
  <2> HIDE DEF h, X, x0
  <2> QED
    BY <1>3, <1>4, Recursion
<1>6. F[0] = x0 /\ \A n \in Nat : F[n] \in X /\ F[n + 1] = add(F[n])
  <2> HIDE DEF h, X, x0, add
  <2> QED
    BY <1>4, <1>5 DEF Iterates
<1> DEFINE T == {s \in SUBSET D : \A n \in Nat : Cardinality(s) <= n => F[n + 1][s] = F[n][s]}
<1>7. \A s \in SUBSET D : s \in T
  <2>1. {} \in T
    <3>1. \A n \in Nat : add(F[n])[{}] = 0
      OBVIOUS
    <3>2. \A n \in Nat : F[n + 1][{}] = 0
      BY <1>6, <3>1
    <3>3. F[0][{}] = 0
      BY <1>6
    <3>5. ASSUME NEW n \in Nat PROVE F[n][{}] = 0
      <4>1. CASE n = 0
        BY <3>3, <4>1
      <4>2. CASE n # 0
        <5> DEFINE m == n - 1
        <5>1. m \in Nat /\ n = m + 1
          BY <4>2
        <5> HIDE DEF m
        <5> QED
          BY <3>2, <5>1
      <4> QED
        BY <4>1, <4>2
    <3> QED
      BY <3>2, <3>5
  <2>2. ASSUME NEW s \in SUBSET D, s # {}, s \ {Pick(s)} \in T PROVE s \in T
    <3> DEFINE r == s \ {Pick(s)}
    <3>1. /\ Cardinality(s) \in Nat /\ Cardinality(s) >= 1 /\ Cardinality(r) = Cardinality(s) - 1
      <4> QED
        BY <2>2, PickOne
    <3>2. ASSUME NEW n \in Nat, Cardinality(s) <= n PROVE F[n + 1][s] = F[n][s]
      <4> DEFINE m == n - 1
      <4>1. m \in Nat /\ m + 1 = n /\ Cardinality(r) <= m
        BY <3>1, <3>2
      <4> HIDE DEF m
      <4>2. F[n] = add(F[m]) /\ F[n + 1] = add(F[n])
        BY <1>6, <4>1
      <4>3. F[n][r] = F[m][r]
        BY <2>2, <4>1
      <4>4. F[n][s] = f[Pick(s)] + F[m][r] /\ F[n + 1][s] = f[Pick(s)] + F[n][r]
        BY <2>2, <4>2
      <4> QED
        BY <4>3, <4>4
    <3> QED
      BY <3>2
  <2> HIDE DEF T
  <2> QED
    BY <2>1, <2>2, BySubsets
<1> DEFINE N == Cardinality(D)
           A == F[N]
<1>8. N \in Nat /\ \A s \in SUBSET D : Cardinality(s) <= N
  BY FS_CardinalityType, FS_Subset
<1>9. \A s \in SUBSET D : F[N + 1][s] = A[s]
  BY <1>7, <1>8
<1>10. A \in X /\ F[N + 1] = add(A)
  <2> HIDE DEF N, add, X
  <2> QED
    BY <1>6, <1>8
<1> HIDE DEF A, N, T
<1> QED
  BY <1>9, <1>10 DEF Sums

\* The fold over a subset of the letters.
LEMMA SizeOverIs ==
  ASSUME NEW D, IsFiniteSet(D), NEW f \in [D -> Int], NEW A, Sums(A, f, D),
         NEW s \in SUBSET D
  PROVE  SizeOver(f, s) = A[s]
<1> DEFINE Eq(g) == g = [t \in SUBSET s |-> IF t = {} THEN 0 ELSE f[Pick(t)] + g[t \ {Pick(t)}]]
           iter == CHOOSE g : Eq(g)
           B == [t \in SUBSET s |-> A[t]]
<1>0. IsFiniteSet(s)
  BY FS_Subset
<1>1. Eq(B)
  <2>1. \A t \in SUBSET s : t # {} => Pick(t) \in t /\ t \ {Pick(t)} \in SUBSET s
    BY DEF Pick
  <2>2. \A t \in SUBSET s : A[t] = IF t = {} THEN 0 ELSE f[Pick(t)] + A[t \ {Pick(t)}]
    BY DEF Sums
  <2>3. \A t \in SUBSET s : t # {} => B[t \ {Pick(t)}] = A[t \ {Pick(t)}]
    BY <2>1
  <2>4. \A t \in SUBSET s : A[t] = IF t = {} THEN 0 ELSE f[Pick(t)] + B[t \ {Pick(t)}]
    BY <2>2, <2>3
  <2> QED
    BY <2>4
<1>2. Eq(iter)
  <2> HIDE DEF Eq
  <2> QED
    BY <1>1
<1>3. SizeOver(f, s) = iter[s]
  BY DEF SizeOver, MapThenSumSet, MapThenFoldSet, Pick
<1> HIDE DEF iter
<1> DEFINE T == {t \in SUBSET s : iter[t] = A[t]}
<1>4. \A t \in SUBSET s : t \in T
  <2>1. {} \in T
    BY <1>2 DEF Sums
  <2>2. ASSUME NEW t \in SUBSET s, t # {}, t \ {Pick(t)} \in T PROVE t \in T
    BY <1>2, <2>2 DEF Sums
  <2> HIDE DEF T
  <2> QED
    BY <1>0, <2>1, <2>2, BySubsets
<1> QED
  BY <1>3, <1>4

\* Size is the sum over the whole domain.
LEMMA SizeIs ==
  ASSUME NEW D, IsFiniteSet(D), NEW f \in [D -> Int], NEW A, Sums(A, f, D)
  PROVE  Size(f) = A[D] /\ Size(f) \in Int
<1>1. Size(f) = SizeOver(f, D)
  BY DEF Size
<1>2. SizeOver(f, D) = A[D]
  BY SizeOverIs
<1>3. A[D] \in Int
  BY DEF Sums
<1> QED
  BY <1>1, <1>2, <1>3

\* The sum of two functions that are added.
LEMMA SumOfSums ==
  ASSUME NEW D, IsFiniteSet(D), NEW f \in [D -> Int], NEW g \in [D -> Int]
  PROVE  Size([c \in D |-> f[c] + g[c]]) = Size(f) + Size(g)
<1> DEFINE p == [c \in D |-> f[c] + g[c]]
<1>1. p \in [D -> Int] /\ \A c \in D : p[c] = f[c] + g[c]
  OBVIOUS
<1> HIDE DEF p
<1>2. PICK A : Sums(A, f, D)
  BY SumsExist
<1>3. PICK B : Sums(B, g, D)
  BY SumsExist
<1>4. PICK P : Sums(P, p, D)
  BY <1>1, SumsExist
<1> DEFINE T == {s \in SUBSET D : P[s] = A[s] + B[s]}
<1>5. \A s \in SUBSET D : s \in T
  <2>1. {} \in T
    BY <1>2, <1>3, <1>4 DEF Sums
  <2>2. ASSUME NEW s \in SUBSET D, s # {}, s \ {Pick(s)} \in T PROVE s \in T
    <3> DEFINE x == Pick(s)
               r == s \ {x}
    <3>1. x \in D /\ r \in SUBSET D /\ p[x] = f[x] + g[x] /\ f[x] \in Int /\ g[x] \in Int
      BY <1>1, <2>2, PickOne
    <3>2. /\ A[s] = f[x] + A[r] /\ B[s] = g[x] + B[r] /\ P[s] = p[x] + P[r]
          /\ A[r] \in Int /\ B[r] \in Int
      BY <1>2, <1>3, <1>4, <2>2, <3>1 DEF Sums
    <3>3. P[r] = A[r] + B[r]
      BY <2>2
    <3> HIDE DEF x, r
    <3>4. P[s] = A[s] + B[s]
      BY <3>1, <3>2, <3>3
    <3> QED
      BY <3>4
  <2> HIDE DEF T
  <2> QED
    BY <2>1, <2>2, BySubsets
<1>6. P[D] = A[D] + B[D]
  BY <1>5
<1> QED
  BY <1>1, <1>2, <1>3, <1>4, <1>6, SizeIs DEF p

\* The sum of a function that is multiplied by a number.
LEMMA SumOfProducts ==
  ASSUME NEW D, IsFiniteSet(D), NEW f \in [D -> Int], NEW k \in Int
  PROVE  Size([c \in D |-> k * f[c]]) = k * Size(f)
<1> DEFINE p == [c \in D |-> k * f[c]]
<1>1. p \in [D -> Int] /\ \A c \in D : p[c] = k * f[c]
  OBVIOUS
<1> HIDE DEF p
<1>2. PICK A : Sums(A, f, D)
  BY SumsExist
<1>4. PICK P : Sums(P, p, D)
  BY <1>1, SumsExist
<1> DEFINE T == {s \in SUBSET D : P[s] = k * A[s]}
<1>5. \A s \in SUBSET D : s \in T
  <2>1. {} \in T
    BY <1>2, <1>4 DEF Sums
  <2>2. ASSUME NEW s \in SUBSET D, s # {}, s \ {Pick(s)} \in T PROVE s \in T
    <3> DEFINE x == Pick(s)
               r == s \ {x}
               a == A[r]
               b == f[x]
    <3>1. x \in D /\ r \in SUBSET D /\ p[x] = k * b /\ b \in Int
      BY <1>1, <2>2, PickOne
    <3>2. A[s] = b + a /\ P[s] = p[x] + P[r] /\ a \in Int
      BY <1>2, <1>4, <2>2, <3>1 DEF Sums
    <3>3. P[r] = k * a
      BY <2>2
    <3> HIDE DEF x, r, a, b
    <3>4. k * (b + a) = k * b + k * a
      BY <3>1, <3>2
    <3>5. P[s] = k * A[s]
      BY <3>1, <3>2, <3>3, <3>4
    <3> QED
      BY <3>5
  <2> HIDE DEF T
  <2> QED
    BY <2>1, <2>2, BySubsets
<1>6. P[D] = k * A[D]
  BY <1>5
<1> QED
  BY <1>1, <1>2, <1>4, <1>6, SizeIs DEF p

\* A function that is never larger has no larger sum.
LEMMA SumsCompare ==
  ASSUME NEW D, IsFiniteSet(D), NEW f \in [D -> Int], NEW g \in [D -> Int],
         \A c \in D : f[c] <= g[c]
  PROVE  Size(f) <= Size(g)
<1>2. PICK A : Sums(A, f, D)
  BY SumsExist
<1>3. PICK B : Sums(B, g, D)
  BY SumsExist
<1> DEFINE T == {s \in SUBSET D : A[s] <= B[s]}
<1>5. \A s \in SUBSET D : s \in T
  <2>1. {} \in T
    BY <1>2, <1>3 DEF Sums
  <2>2. ASSUME NEW s \in SUBSET D, s # {}, s \ {Pick(s)} \in T PROVE s \in T
    <3> DEFINE x == Pick(s)
               r == s \ {x}
    <3>1. x \in D /\ r \in SUBSET D /\ f[x] <= g[x] /\ f[x] \in Int /\ g[x] \in Int
      BY <2>2, PickOne
    <3>2. /\ A[s] = f[x] + A[r] /\ B[s] = g[x] + B[r]
          /\ A[r] \in Int /\ B[r] \in Int
      BY <1>2, <1>3, <2>2, <3>1 DEF Sums
    <3>3. A[r] <= B[r]
      BY <2>2
    <3> HIDE DEF x, r
    <3>4. A[s] <= B[s]
      BY <3>1, <3>2, <3>3
    <3> QED
      BY <3>4
  <2> HIDE DEF T
  <2> QED
    BY <2>1, <2>2, BySubsets
<1>6. A[D] <= B[D]
  BY <1>5
<1> QED
  BY <1>2, <1>3, <1>6, SizeIs

\* A sum of ones counts.
LEMMA SumOfOnes ==
  ASSUME NEW D, IsFiniteSet(D), NEW S \in SUBSET D
  PROVE  Size([c \in D |-> IF c \in S THEN 1 ELSE 0]) = Cardinality(S)
<1> DEFINE p == [c \in D |-> IF c \in S THEN 1 ELSE 0]
<1>1. p \in [D -> Int] /\ \A c \in D : p[c] = IF c \in S THEN 1 ELSE 0
  OBVIOUS
<1> HIDE DEF p
<1>4. PICK P : Sums(P, p, D)
  BY <1>1, SumsExist
<1> DEFINE T == {s \in SUBSET D : P[s] = Cardinality(s \cap S)}
<1>5. \A s \in SUBSET D : s \in T
  <2>1. {} \in T
    BY <1>4, FS_EmptySet DEF Sums
  <2>2. ASSUME NEW s \in SUBSET D, s # {}, s \ {Pick(s)} \in T PROVE s \in T
    <3> DEFINE x == Pick(s)
               r == s \ {x}
    <3>1. x \in D /\ x \in s /\ r \in SUBSET D
      BY <2>2, PickOne
    <3>2. P[s] = p[x] + P[r] /\ P[r] = Cardinality(r \cap S)
      BY <1>4, <2>2, <3>1 DEF Sums
    <3>3. IsFiniteSet(s \cap S) /\ IsFiniteSet(r \cap S)
      BY <3>1, FS_Subset
    <3>4. Cardinality(s \cap S) \in Nat /\ Cardinality(r \cap S) \in Nat
      BY <3>3, FS_CardinalityType
    <3>5. CASE x \in S
      <4>1. x \in s \cap S /\ r \cap S = (s \cap S) \ {x}
        BY <3>1, <3>5
      <4>2. Cardinality(r \cap S) = Cardinality(s \cap S) - 1
        <5> DEFINE u == s \cap S
        <5>1. x \in u /\ IsFiniteSet(u) /\ r \cap S = u \ {x}
          BY <3>3, <4>1
        <5> HIDE DEF x, r, u
        <5>2. Cardinality(u \ {x}) = Cardinality(u) - 1
          BY <5>1, FS_RemoveElement
        <5> QED
          BY <5>1, <5>2 DEF u
      <4> HIDE DEF x, r
      <4>3. P[s] = Cardinality(s \cap S)
        BY <1>1, <3>1, <3>2, <3>4, <3>5, <4>2
      <4> QED
        BY <4>3
    <3>6. CASE x \notin S
      <4>1. r \cap S = s \cap S
        BY <3>6
      <4> HIDE DEF x, r
      <4>2. p[x] = 0
        BY <1>1, <3>1, <3>6
      <4>3. P[s] = Cardinality(s \cap S)
        BY <3>2, <3>4, <4>1, <4>2
      <4> QED
        BY <4>3
    <3> QED
      BY <3>5, <3>6
  <2> HIDE DEF T
  <2> QED
    BY <2>1, <2>2, BySubsets
<1>6. P[D] = Cardinality(D \cap S) /\ D \cap S = S
  BY <1>5
<1> QED
  BY <1>1, <1>4, <1>6, SizeIs DEF p
\* Any member can be taken out first.
LEMMA SumWithout ==
  ASSUME NEW D, IsFiniteSet(D), NEW f \in [D -> Int], NEW A, Sums(A, f, D),
         NEW t \in SUBSET D, NEW y \in t
  PROVE  A[t] = f[y] + A[t \ {y}]
<1> DEFINE T == {s \in SUBSET D : \A x \in s : A[s] = f[x] + A[s \ {x}]}
<1>1. ASSUME NEW s \in SUBSET D, \A x \in s : s \ {x} \in T PROVE s \in T
  <2> SUFFICES ASSUME NEW x \in s PROVE A[s] = f[x] + A[s \ {x}]
    OBVIOUS
  <2> DEFINE p == Pick(s)
             r == (s \ {x}) \ {p}
  <2>1. p \in s /\ A[s] = f[p] + A[s \ {p}]
    BY DEF Sums, Pick
  <2>2. CASE x = p
    BY <2>1, <2>2
  <2>3. CASE x # p
    <3>1. s \ {x} \in T /\ p \in s \ {x} /\ s \ {p} \in T /\ x \in s \ {p}
      BY <1>1, <2>1, <2>3
    <3>2. A[s \ {x}] = f[p] + A[r]
      BY <3>1
    <3>3. r = (s \ {p}) \ {x}
      OBVIOUS
    <3>4. A[s \ {p}] = f[x] + A[r]
      BY <3>1, <3>3
    <3>5. f[p] \in Int /\ f[x] \in Int /\ A[r] \in Int
      BY <2>1 DEF Sums
    <3> HIDE DEF p, r
    <3> QED
      BY <2>1, <3>2, <3>4, <3>5
  <2> QED
    BY <2>2, <2>3
<1> HIDE DEF T
<1>2. \A s \in SUBSET D : s \in T
  BY <1>1, ByMembers
<1> QED
  BY <1>2 DEF T

\* A larger set has a larger sum of numbers that are not negative.
LEMMA SumsGrow ==
  ASSUME NEW D, IsFiniteSet(D), NEW f \in [D -> Nat], NEW A, Sums(A, f, D)
  PROVE  \A t \in SUBSET D : \A s \in SUBSET t : A[s] <= A[t]
<1>0. f \in [D -> Int] /\ \A t \in SUBSET D : A[t] \in Int
  BY DEF Sums
<1> DEFINE T == {t \in SUBSET D : \A s \in SUBSET t : A[s] <= A[t]}
<1>1. ASSUME NEW t \in SUBSET D, \A x \in t : t \ {x} \in T PROVE t \in T
  <2> SUFFICES ASSUME NEW s \in SUBSET t PROVE A[s] <= A[t]
    OBVIOUS
  <2>1. CASE s = t
    BY <1>0, <2>1
  <2>2. CASE s # t
    <3>1. PICK x \in t : x \notin s
      BY <2>2
    <3>2. t \ {x} \in T /\ s \in SUBSET (t \ {x})
      BY <1>1, <3>1
    <3>3. A[s] <= A[t \ {x}]
      BY <3>2
    <3>4. A[t] = f[x] + A[t \ {x}]
      BY <1>0, SumWithout
    <3>5. A[s] \in Int /\ A[t] \in Int /\ A[t \ {x}] \in Int /\ f[x] \in Nat
      BY <1>0
    <3> QED
      BY <3>3, <3>4, <3>5
  <2> QED
    BY <2>1, <2>2
<1> HIDE DEF T
<1>2. \A t \in SUBSET D : t \in T
  BY <1>1, ByMembers
<1> QED
  BY <1>2 DEF T
-----------------------------------------------------------------------------
(* allocate_slots.                                                         *)

\* Frequencies are positive, of finitely many letters.
FreqInv ==
  /\ IsFiniteSet(DOMAIN freq) /\ DOMAIN freq \in SUBSET Nat
  /\ freq \in [DOMAIN freq -> Nat \ {0}]
  /\ digits \in Nat \ {0} /\ TotalSlots \in Nat

\* The shares when the letters in S are the lucky ones.
Shares(S) == [c \in DOMAIN freq |-> 1 + FloorShare(c) + IF c \in S THEN 1 ELSE 0]

\* What allocate_slots promises, of the shares that one order of the sort gives: the
\* remainders add up to a multiple of the total, of which a lucky letter has a part.
LEMMA SharesAre ==
  ASSUME FreqInv, DOMAIN freq # {}, Cardinality(DOMAIN freq) <= TotalSlots,
         NEW S \in SUBSET DOMAIN freq, Lucky(S)
  PROVE  /\ Shares(S) \in [DOMAIN freq -> Nat \ {0}]
         /\ Size(Shares(S)) = TotalSlots
         /\ \A c \in DOMAIN freq :
              LET off == (Shares(S)[c] - 1) * Size(freq) - Remaining * freq[c]
              IN  -Size(freq) < off /\ off < Size(freq)
         /\ \A c, d \in DOMAIN freq : freq[c] > freq[d] => Shares(S)[c] >= Shares(S)[d]
<1> DEFINE D == DOMAIN freq
           N == Size(freq)
           R == Remaining
           ones == [c \in D |-> IF c \in D THEN 1 ELSE 0]
           more == [c \in D |-> IF c \in S THEN 1 ELSE 0]
           q == [c \in D |-> FloorShare(c)]
           r == [c \in D |-> Remainder(c)]
           x == [c \in D |-> R * freq[c]]
<1>1. IsFiniteSet(D) /\ freq \in [D -> Nat \ {0}] /\ freq \in [D -> Int] /\ Cardinality(D) \in Nat
      /\ IsFiniteSet(S) /\ Cardinality(S) \in Nat
  BY FS_CardinalityType, FS_Subset DEF FreqInv
<1>2. R \in Nat /\ TotalSlots = R + Cardinality(D)
  BY <1>1 DEF Remaining, FreqInv
<1>3. /\ ones \in [D -> Int] /\ more \in [D -> Int]
      /\ \A c \in D : ones[c] = 1 /\ more[c] = IF c \in S THEN 1 ELSE 0
      /\ Size(ones) = Cardinality(D) /\ Size(more) = Cardinality(S)
  BY <1>1, SumOfOnes
<1>4. N \in Nat \ {0}
  <2>1. N \in Int
    <3>1. PICK A : Sums(A, freq, D)
      BY <1>1, SumsExist
    <3> QED
      BY <1>1, <3>1, SizeIs
  <2>2. \A c \in D : ones[c] <= freq[c]
    BY <1>1
  <2>3. Size(ones) <= N
    <3> HIDE DEF ones, D
    <3> QED
      BY <1>1, <1>3, <2>2, SumsCompare
  <2>4. Cardinality(D) # 0
    BY <1>1, FS_EmptySet
  <2> QED
    BY <1>1, <1>3, <2>1, <2>3, <2>4
<1>5. \A c \in D : /\ q[c] \in Nat /\ r[c] \in 0..(N - 1) /\ x[c] \in Nat
                   /\ q[c] = FloorShare(c) /\ r[c] = Remainder(c)
                   /\ x[c] = R * freq[c] /\ x[c] = N * q[c] + r[c]
  <2> SUFFICES ASSUME NEW c \in D
               PROVE  /\ FloorShare(c) \in Nat /\ Remainder(c) \in 0..(N - 1) /\ R * freq[c] \in Nat
                      /\ R * freq[c] = N * FloorShare(c) + Remainder(c)
    OBVIOUS
  <2> DEFINE a == R * freq[c]
  <2>1. a \in Nat
    BY <1>1, <1>2
  <2>2. FloorShare(c) = a \div N /\ Remainder(c) = a % N
    BY DEF FloorShare, Remainder
  <2> HIDE DEF a, N
  <2>3. a \div N \in Nat /\ a % N \in 0..(N - 1) /\ a = N * (a \div N) + (a % N)
    BY <1>4, <2>1, Division
  <2> QED
    BY <2>1, <2>2, <2>3 DEF a
<1>6. Size(q) \in Int /\ Cardinality(S) = R - Size(q)
  <2>1. q \in [D -> Int]
    BY <1>5
  <2>2. PICK A : Sums(A, q, D)
    <3> HIDE DEF q
    <3> QED
      BY <1>1, <2>1, SumsExist
  <2>3. Size(q) \in Int
    <3> HIDE DEF q
    <3> QED
      BY <1>1, <2>1, <2>2, SizeIs
  <2> QED
    BY <2>3 DEF Lucky, Leftover
<1>7. r \in [D -> Int] /\ Size(r) = N * Cardinality(S)
  <2> DEFINE nq == [c \in D |-> N * q[c]]
  <2>1. q \in [D -> Int] /\ r \in [D -> Int]
    BY <1>4, <1>5
  <2>2. nq \in [D -> Int] /\ \A c \in D : nq[c] = N * q[c]
    BY <1>4, <2>1
  <2>3. Size(nq) = N * Size(q)
    <3> HIDE DEF q, N
    <3> QED
      BY <1>1, <1>4, <2>1, SumOfProducts
  <2>4. Size(x) = R * N
    <3> HIDE DEF R
    <3> QED
      BY <1>1, <1>2, SumOfProducts
  <2>5. x = [c \in D |-> nq[c] + r[c]]
    BY <1>5, <2>2
  <2>6. Size([c \in D |-> nq[c] + r[c]]) = Size(nq) + Size(r)
    <3> HIDE DEF nq, r
    <3> QED
      BY <1>1, <2>1, <2>2, SumOfSums
  <2>7. Size(r) \in Int
    <3> HIDE DEF r
    <3>1. PICK A : Sums(A, r, D)
      BY <1>1, <2>1, SumsExist
    <3> QED
      BY <1>1, <2>1, <3>1, SizeIs
  <2>8. R * N = N * Size(q) + Size(r)
    BY <2>3, <2>4, <2>5, <2>6
  <2> HIDE DEF N, R, q, r
  <2>9. N * Cardinality(S) = N * R - N * Size(q)
    BY <1>1, <1>2, <1>4, <1>6
  <2>10. N * R = R * N /\ N * R \in Int /\ N * Size(q) \in Int
    BY <1>2, <1>4, <1>6
  <2> QED
    BY <2>1, <2>7, <2>8, <2>9, <2>10
<1>8. \A c \in D : Shares(S)[c] = 1 + q[c] + more[c] /\ more[c] \in {0, 1}
  BY <1>3, <1>5 DEF Shares
<1>9. Size(Shares(S)) = TotalSlots
  <2> DEFINE p == [c \in D |-> ones[c] + q[c]]
  <2>1. q \in [D -> Int]
    BY <1>5
  <2>2. p \in [D -> Int] /\ \A c \in D : p[c] = 1 + q[c]
    BY <1>3, <2>1
  <2>3. Size(p) = Size(ones) + Size(q)
    <3> HIDE DEF ones, q
    <3> QED
      BY <1>1, <1>3, <2>1, SumOfSums
  <2>4. Shares(S) = [c \in D |-> p[c] + more[c]]
    BY <1>3, <1>8, <2>2 DEF Shares
  <2>5. Size([c \in D |-> p[c] + more[c]]) = Size(p) + Size(more)
    <3> HIDE DEF p, more
    <3> QED
      BY <1>1, <1>3, <2>2, SumOfSums
  <2>6. Size(Shares(S)) = Cardinality(D) + Size(q) + Cardinality(S)
    BY <1>3, <2>3, <2>4, <2>5
  <2> HIDE DEF q, R, D
  <2> QED
    BY <1>1, <1>2, <1>6, <2>6
<1>10. \A c \in S : r[c] # 0
  <2> SUFFICES ASSUME NEW c \in S, r[c] = 0 PROVE FALSE
    OBVIOUS
  <2> DEFINE n == N - 1
             nm == [b \in D |-> n * more[b]]
  <2>1. \A b \in D \ S : r[b] = 0
    <3> SUFFICES ASSUME NEW b \in D \ S PROVE r[b] = 0
      OBVIOUS
    <3>1. Before(c, b)
      BY DEF Lucky
    <3>2. Remainder(c) >= Remainder(b)
      BY <1>4, <1>5, <3>1 DEF Before
    <3>3. r[b] \in 0..(N - 1) /\ r[b] = Remainder(b) /\ Remainder(c) = 0
      BY <1>5
    <3> HIDE DEF N, r
    <3> QED
      BY <1>4, <3>2, <3>3
  <2>2. n \in Nat
    BY <1>4
  <2>3. nm \in [D -> Int] /\ r \in [D -> Int] /\ \A b \in D : r[b] <= nm[b]
    <3> HIDE DEF N, r
    <3>1. \A b \in D : n * more[b] = IF b \in S THEN n ELSE 0
      BY <1>3, <2>2
    <3>2. \A b \in D : nm[b] = IF b \in S THEN n ELSE 0
      BY <3>1
    <3>3. nm \in [D -> Int]
      BY <1>3, <2>2
    <3>4. r \in [D -> Int]
      BY <1>7
    <3>5. ASSUME NEW b \in D PROVE r[b] <= nm[b]
      <4>1. r[b] \in 0..(N - 1) /\ (b \notin S => r[b] = 0) /\ nm[b] = IF b \in S THEN n ELSE 0
        BY <1>5, <2>1, <3>2
      <4> HIDE DEF r, nm
      <4> QED
        BY <1>4, <4>1
    <3> QED
      BY <3>3, <3>4, <3>5
  <2>4. Size(nm) = n * Size(more)
    <3> HIDE DEF n, more
    <3> QED
      BY <1>1, <1>3, <2>2, SumOfProducts
  <2>5. Size(r) <= Size(nm)
    <3> HIDE DEF nm, r
    <3> QED
      BY <1>1, <2>3, SumsCompare
  <2>6. N * Cardinality(S) <= n * Cardinality(S)
    BY <1>3, <1>7, <2>4, <2>5
  <2>7. Cardinality(S) >= 1
    BY <1>1, FS_EmptySet
  <2> HIDE DEF N
  <2>8. n * Cardinality(S) = N * Cardinality(S) - Cardinality(S) /\ N * Cardinality(S) \in Int
    BY <1>1, <1>4
  <2> QED
    BY <1>1, <2>6, <2>7, <2>8
<1>11. ASSUME NEW c \in D
       PROVE  /\ -N < (Shares(S)[c] - 1) * N - R * freq[c]
              /\ (Shares(S)[c] - 1) * N - R * freq[c] < N
  <2> DEFINE qc == q[c]
             rc == r[c]
             mc == more[c]
             xc == x[c]
  <2>1. Shares(S)[c] - 1 = qc + mc /\ qc \in Nat /\ mc \in {0, 1} /\ rc \in 0..(N - 1)
    BY <1>5, <1>8
  <2>2. R * freq[c] = xc /\ xc = N * qc + rc
    BY <1>5
  <2>3. mc = 1 => rc # 0
    <3>1. more[c] = IF c \in S THEN 1 ELSE 0
      BY <1>3
    <3>2. c \in S => r[c] # 0
      BY <1>10
    <3> HIDE DEF more, r
    <3> QED
      BY <3>1, <3>2
  <2> HIDE DEF N, qc, rc, mc, xc
  <2>4. (qc + mc) * N = N * qc + mc * N /\ N * qc \in Nat
    BY <1>4, <2>1
  <2>5. mc * N = IF mc = 1 THEN N ELSE 0
    BY <1>4, <2>1
  <2>6. (qc + mc) * N - xc = (IF mc = 1 THEN N ELSE 0) - rc
    BY <1>4, <2>1, <2>2, <2>4, <2>5
  <2>7. (Shares(S)[c] - 1) * N - R * freq[c] = (IF mc = 1 THEN N ELSE 0) - rc
    BY <2>1, <2>2, <2>6
  <2> QED
    BY <1>4, <2>1, <2>3, <2>7
<1>12. ASSUME NEW c \in D, NEW d \in D, freq[c] > freq[d] PROVE Shares(S)[c] >= Shares(S)[d]
  <2> DEFINE qc == q[c]
             rc == r[c]
             qd == q[d]
             rd == r[d]
  <2>1. /\ qc \in Nat /\ qd \in Nat /\ rc \in 0..(N - 1) /\ rd \in 0..(N - 1)
        /\ R * freq[c] = N * qc + rc /\ R * freq[d] = N * qd + rd
    BY <1>5
  <2>2. R * freq[c] >= R * freq[d] /\ (R # 0 => R * freq[c] # R * freq[d])
    <3> HIDE DEF R
    <3>1. freq[c] \in Nat /\ freq[d] \in Nat
      BY <1>1
    <3>2. R * (freq[c] - freq[d]) >= 0 /\ (R # 0 => R * (freq[c] - freq[d]) # 0)
      BY <1>2, <1>12, <3>1
    <3>3. R * (freq[c] - freq[d]) = R * freq[c] - R * freq[d]
          /\ R * freq[c] \in Int /\ R * freq[d] \in Int
      BY <1>2, <3>1
    <3> QED
      BY <3>2, <3>3
  <2>3. qc >= qd /\ (qc = qd => rc >= rd)
    <3> HIDE DEF N, qc, qd, rc, rd
    <3> QED
      BY <1>4, <2>1, <2>2, Larger
  <2>4. ASSUME qc = qd, d \in S, c \notin S PROVE FALSE
    <3>1. Before(d, c)
      BY <2>4 DEF Lucky
    <3>2. rd >= rc
      BY <1>4, <1>5, <3>1 DEF Before
    <3>3. rd = rc
      BY <2>1, <2>3, <2>4, <3>2, <1>4
    <3>4. R = 0
      BY <2>1, <2>2, <2>4, <3>3
    <3>5. R * freq[d] = 0
      <4> HIDE DEF R
      <4> QED
        BY <1>1, <3>4
    <3>6. rd = 0
      <4> HIDE DEF N, qd, rd, R
      <4>1. N * qd >= 0 /\ N * qd \in Int
        BY <1>4, <2>1
      <4> QED
        BY <1>4, <2>1, <3>5, <4>1
    <3> QED
      BY <1>10, <2>4, <3>6
  <2>5. qc >= qd + 1 \/ more[c] >= more[d]
    BY <1>3, <2>1, <2>3, <2>4
  <2>6. /\ Shares(S)[c] = 1 + qc + more[c] /\ more[c] \in {0, 1}
        /\ Shares(S)[d] = 1 + qd + more[d] /\ more[d] \in {0, 1}
    BY <1>8
  <2> HIDE DEF qc, qd, more
  <2> QED
    BY <2>1, <2>3, <2>5, <2>6
<1>13. Shares(S) \in [D -> Nat \ {0}]
  BY <1>5, <1>8 DEF Shares
<1> QED
  BY <1>9, <1>11, <1>12, <1>13
-----------------------------------------------------------------------------
(* Numbers in base 10.                                                     *)

\* The power as its definition says.
LEMMA Powers ==
  /\ PowInt(10, 0) = 1
  /\ \A n \in Nat : PowInt(10, n) \in Nat \ {0} /\ PowInt(10, n + 1) = 10 * PowInt(10, n)
<1> DEFINE Eq(g) == g = [n \in Nat |-> IF n = 0 THEN 1 ELSE 10 * g[n - 1]]
           power == CHOOSE g : Eq(g)
           h == [n \in Nat |-> [x \in Nat |-> 10 * x]]
<1>1. PICK F \in [Nat -> Nat] : Iterates(F, 1, h)
  <2>1. h \in [Nat -> [Nat -> Nat]]
    OBVIOUS
  <2> HIDE DEF h
  <2> QED
    BY <2>1, Recursion
<1>2. Eq(F)
  <2>1. F[0] = 1 /\ \A n \in Nat : F[n + 1] = 10 * F[n]
    BY <1>1 DEF Iterates
  <2>2. \A n \in Nat : n # 0 => n - 1 \in Nat /\ (n - 1) + 1 = n
    OBVIOUS
  <2>3. \A n \in Nat : F[n] = IF n = 0 THEN 1 ELSE 10 * F[n - 1]
    BY <2>1, <2>2
  <2> QED
    BY <2>3
<1>3. Eq(power)
  <2> HIDE DEF Eq
  <2> QED
    BY <1>2
<1>4. \A n : PowInt(10, n) = power[n]
  BY DEF PowInt
<1> HIDE DEF power
<1>5. power[0] = 1 /\ \A n \in Nat : power[n + 1] = 10 * power[n]
  BY <1>3
<1>6. ASSUME NEW n \in Nat PROVE power[n] \in Nat \ {0}
  <2> DEFINE T == {k \in Nat : power[k] \in Nat \ {0}}
  <2>1. 0 \in T
    BY <1>5
  <2>2. \A k \in 1..n : k - 1 \in T => k \in T
    <3> SUFFICES ASSUME NEW k \in 1..n, k - 1 \in T PROVE k \in T
      OBVIOUS
    <3> DEFINE m == k - 1
    <3>1. m \in Nat /\ k = m + 1 /\ power[m] \in Nat \ {0}
      OBVIOUS
    <3> HIDE DEF m
    <3>2. power[k] = 10 * power[m]
      BY <1>5, <3>1
    <3> QED
      BY <3>1, <3>2
  <2> HIDE DEF T
  <2>3. \A k \in 0..n : k \in T
    BY <2>1, <2>2, UpTo
  <2> QED
    BY <2>3 DEF T
<1> QED
  BY <1>4, <1>5, <1>6

\* The value of a combo, place by place.
LEMMA Values ==
  ASSUME NEW d \in Nat, NEW combo \in [1..d -> Nat], NEW v,
         v \in [0..d -> Nat], v[0] = 0, \A n \in 1..d : v[n] = v[n - 1] * 10 + combo[n]
  PROVE  Value(combo, 10) = v[d]
<1> DEFINE Eq(g) == g = [n \in 0..d |-> IF n = 0 THEN 0 ELSE g[n - 1] * 10 + combo[n]]
           value == CHOOSE g : Eq(g)
<1>1. Len(combo) = d
  OBVIOUS
<1>2. Eq(v)
  <2>1. \A n \in 0..d : v[n] = IF n = 0 THEN 0 ELSE v[n - 1] * 10 + combo[n]
    OBVIOUS
  <2> QED
    BY <2>1
<1>3. Eq(value)
  <2> HIDE DEF Eq
  <2> QED
    BY <1>2
<1>4. Value(combo, 10) = value[d]
  BY <1>1 DEF Value
<1> HIDE DEF value
<1> DEFINE T == {n \in 0..d : value[n] = v[n]}
<1>5. 0 \in T
  BY <1>3
<1>6. \A k \in 1..d : k - 1 \in T => k \in T
  <2> SUFFICES ASSUME NEW k \in 1..d, k - 1 \in T PROVE k \in T
    OBVIOUS
  <2>1. k \in 0..d /\ k # 0
    OBVIOUS
  <2>2. value[k] = value[k - 1] * 10 + combo[k]
    BY <1>3, <2>1
  <2> QED
    BY <2>1, <2>2
<1> HIDE DEF T
<1>7. \A k \in 0..d : k \in T
  BY <1>5, <1>6, UpTo
<1> QED
  BY <1>4, <1>7 DEF T

\* The last figure of a quotient.
LEMMA DivTwice ==
  ASSUME NEW a \in Nat, NEW p \in Nat \ {0}
  PROVE  a \div p = (a \div (10 * p)) * 10 + ((a \div p) % 10)
<1> DEFINE q == a \div p
           r == a % p
           u == q \div 10
           w == q % 10
           t == 10 * p
           x == a \div t
           y == a % t
<1>1. q \in Nat /\ r \in 0..(p - 1) /\ a = p * q + r
  BY Division
<1>2. u \in Nat /\ w \in 0..9 /\ q = 10 * u + w
  <2> HIDE DEF q
  <2> QED
    BY <1>1
<1>3. t \in Nat \ {0}
  OBVIOUS
<1>4. x \in Nat /\ y \in 0..(t - 1) /\ a = t * x + y
  <2> HIDE DEF t
  <2> QED
    BY <1>3, Division
<1> DEFINE s == p * w + r
<1>5. s \in 0..(t - 1) /\ a = t * u + s
  <2> HIDE DEF q, r, u, w
  <2>1. p * q = p * (10 * u) + p * w /\ p * (10 * u) = t * u
    BY <1>1, <1>2
  <2>2. p * w >= 0 /\ p * w <= p * 9 /\ p * w \in Int
    BY <1>2
  <2> QED
    BY <1>1, <1>2, <2>1, <2>2
<1>6. x = u
  <2> HIDE DEF t, x, y, u, s
  <2>1. x >= u
    BY <1>2, <1>3, <1>4, <1>5, Larger
  <2>2. u >= x
    BY <1>2, <1>3, <1>4, <1>5, Larger
  <2> QED
    BY <1>2, <1>4, <2>1, <2>2
<1> HIDE DEF q, u, w, x, t
<1>7. q = x * 10 + w
  BY <1>2, <1>6
<1> QED
  BY <1>7 DEF q, w, x, t

\* A combo is the decimal representation of its index.
LEMMA Combos ==
  ASSUME digits \in Nat, NEW k \in 0..(TotalSlots - 1)
  PROVE  Combo(k) \in [1..digits -> 0..9] /\ Len(Combo(k)) = digits /\ Value(Combo(k), 10) = k
<1> DEFINE d == digits
           p(n) == PowInt(10, d - n)
           v == [n \in 0..d |-> k \div p(n)]
           combo == Combo(k)
<1>1. \A n \in 0..d : d - n \in Nat
  OBVIOUS
<1>2. \A n \in 0..d : p(n) \in Nat \ {0}
  BY <1>1, Powers
<1>3. k \in Nat /\ TotalSlots = p(0)
  <2>1. d - 0 = d
    OBVIOUS
  <2>2. p(0) \in Nat
    BY <1>2
  <2> QED
    BY <2>1, <2>2 DEF TotalSlots
<1>4. \A n \in 0..d : v[n] \in Nat /\ v[n] = k \div p(n)
  <2> HIDE DEF p
  <2> QED
    BY <1>2, <1>3, Division
<1>5. \A j \in 1..d : combo[j] = v[j] % 10
  BY DEF Combo
<1>6. combo \in [1..d -> 0..9]
  <2>1. \A j \in 1..d : v[j] % 10 \in 0..9
    <3> HIDE DEF v
    <3>1. \A j \in 1..d : v[j] \in Nat
      BY <1>4
    <3> QED
      BY <3>1
  <2>2. combo = [j \in 1..d |-> v[j] % 10]
    BY DEF Combo
  <2> HIDE DEF v, combo
  <2> QED
    BY <2>1, <2>2
<1>7. Len(combo) = d
  BY DEF Combo
<1>8. v[0] = 0
  <2>1. k \div p(0) = 0
    <3> DEFINE n == p(0)
    <3>1. n \in Nat \ {0} /\ k \in 0..(n - 1)
      BY <1>2, <1>3
    <3> HIDE DEF n
    <3>2. k = n * (k \div n) + (k % n) /\ k \div n \in Nat /\ k % n \in 0..(n - 1)
      BY <1>3, <3>1, Division
    <3>3. k >= n * 0 + k /\ n * 0 + k >= n * (k \div n) + (k % n)
      BY <3>1, <3>2
    <3>4. 0 >= k \div n
      BY <3>1, <3>2, <3>3, Larger
    <3>5. k \div n = 0
      BY <3>2, <3>4
    <3> QED
      BY <3>5 DEF n
  <2> QED
    BY <1>4, <2>1
<1>9. v[d] = k
  <2>1. p(d) = 1
    <3>1. d - d = 0
      OBVIOUS
    <3> QED
      BY <3>1, Powers
  <2>2. v[d] = k \div p(d)
    BY <1>4
  <2> HIDE DEF p, v
  <2> QED
    BY <1>3, <2>1, <2>2
<1>10. ASSUME NEW n \in 1..d PROVE v[n] = v[n - 1] * 10 + combo[n]
  <2> DEFINE a == p(n)
             b == p(n - 1)
  <2>1. n \in 0..d /\ n - 1 \in 0..d /\ d - (n - 1) = (d - n) + 1 /\ d - n \in Nat
    OBVIOUS
  <2>2. a \in Nat \ {0} /\ b = 10 * a
    BY <2>1, Powers
  <2>3. v[n] = k \div a /\ v[n - 1] = k \div b
    BY <1>4, <2>1
  <2>4. combo[n] = (k \div a) % 10
    BY <1>5, <2>3
  <2> HIDE DEF a, b, v, combo
  <2>5. k \div a = (k \div (10 * a)) * 10 + ((k \div a) % 10)
    BY <1>3, <2>2, DivTwice
  <2> QED
    BY <2>2, <2>3, <2>4, <2>5
<1>11. combo \in [1..d -> Nat] /\ v \in [0..d -> Nat]
  BY <1>4, <1>6
<1>12. Value(combo, 10) = v[d]
  <2> HIDE DEF combo, v
  <2> QED
    BY <1>8, <1>10, <1>11, Values
<1> QED
  BY <1>6, <1>7, <1>9, <1>12
-----------------------------------------------------------------------------
(* assign_combos and the shuffle.                                          *)

\* The places in `assignments` that a letter has.
Places(cs, c) == {i \in 1..TotalSlots : cs[i] = c}

\* Every place has a letter, and every letter as many places as slots.
Deal(cs) ==
  /\ cs \in [1..TotalSlots -> DOMAIN freq]
  /\ \A c \in DOMAIN freq : Cardinality(Places(cs, c)) = slots[c]

\* assign_combos deals by the slots: the letters take consecutive ranges of places.
LEMMA DealtAre ==
  ASSUME FreqInv, DOMAIN freq # {}, slots \in [DOMAIN freq -> Nat \ {0}], Size(slots) = TotalSlots
  PROVE  Deal(Dealt)
<1> DEFINE D == DOMAIN freq
           T == TotalSlots
           below(c) == {d \in D : d < c}
           upto(c) == {d \in D : d <= c}
<1>1. IsFiniteSet(D) /\ D \in SUBSET Nat /\ T \in Nat
  BY DEF FreqInv
<1>2. slots \in [D -> Int] /\ slots \in [D -> Nat] /\ DOMAIN slots = D
  OBVIOUS
<1>3. PICK A : Sums(A, slots, D)
  BY <1>1, <1>2, SumsExist
<1>4. A \in [SUBSET D -> Int] /\ A[{}] = 0 /\ A[D] = T
  BY <1>1, <1>2, <1>3, SizeIs DEF Sums
<1>5. \A t \in SUBSET D : \A s \in SUBSET t : A[s] <= A[t]
  <2> HIDE DEF D
  <2> QED
    BY <1>1, <1>2, <1>3, SumsGrow
<1>5a. slots \in [D -> Int] /\ IsFiniteSet(D) /\ Sums(A, slots, D)
  BY <1>1, <1>2, <1>3
<1>5b. \A s \in SUBSET D : \A x \in s : A[s] = slots[x] + A[s \ {x}]
  <2> SUFFICES ASSUME NEW s \in SUBSET D, NEW x \in s PROVE A[s] = slots[x] + A[s \ {x}]
    OBVIOUS
  <2> HIDE DEF D
  <2> QED
    BY <1>5a, SumWithout
<1>5c. \A s \in SUBSET D : SizeOver(slots, s) = A[s]
  <2> HIDE DEF D
  <2> QED
    BY <1>5a, SizeOverIs
<1> DEFINE lo == [c \in D |-> A[below(c)]]
           hi == [c \in D |-> A[upto(c)]]
           mine(c, i) == lo[c] < i /\ i <= lo[c] + slots[c]
<1>6. ASSUME NEW c \in D PROVE lo[c] \in Nat /\ slots[c] \in Nat \ {0} /\ hi[c] = lo[c] + slots[c] /\ hi[c] <= T
  <2>1. upto(c) \in SUBSET D /\ c \in upto(c) /\ upto(c) \ {c} = below(c) /\ below(c) \in SUBSET D
    BY <1>1
  <2>2. A[upto(c)] = slots[c] + A[upto(c) \ {c}]
    BY <1>5b, <2>1
  <2>3. A[upto(c)] <= A[D] /\ A[{}] <= A[below(c)]
    <3> HIDE DEF upto, below
    <3> QED
      BY <1>5, <2>1
  <2>4. A[upto(c)] \in Int /\ A[below(c)] \in Int
    <3> HIDE DEF upto, below
    <3> QED
      BY <1>4, <2>1
  <2>5. lo[c] = A[below(c)] /\ hi[c] = A[upto(c)]
    OBVIOUS
  <2>6. slots[c] \in Nat \ {0}
    OBVIOUS
  <2>7. A[upto(c)] = slots[c] + A[below(c)]
    BY <2>1, <2>2
  <2> HIDE DEF lo, hi, upto, below, T
  <2>8. A[below(c)] >= 0 /\ A[upto(c)] <= T /\ T \in Nat
    BY <1>1, <1>4, <2>3
  <2> HIDE DEF D
  <2> QED
    BY <2>4, <2>5, <2>6, <2>7, <2>8
<1>7. ASSUME NEW c \in D, NEW e \in D, c < e PROVE hi[c] <= lo[e]
  <2>1. upto(c) \in SUBSET below(e) /\ below(e) \in SUBSET D
    BY <1>1, <1>7
  <2>2. lo[e] = A[below(e)] /\ hi[c] = A[upto(c)]
    OBVIOUS
  <2> HIDE DEF upto, below, lo, hi
  <2> QED
    BY <1>5, <2>1, <2>2
<1>8. ASSUME NEW i \in 1..T PROVE \E c \in D : mine(c, i)
  <2> DEFINE late == {c \in D : i <= hi[c]}
  <2>1. late # {}
    <3>1. PICK z \in D : \A y \in D : y <= z
      BY <1>1, Greatest
    <3>2. upto(z) = D
      BY <3>1
    <3>3. hi[z] = A[upto(z)]
      OBVIOUS
    <3> HIDE DEF hi, upto, T
    <3>4. i <= hi[z]
      BY <1>1, <1>4, <3>2, <3>3
    <3> QED
      BY <3>4
  <2>2. PICK c \in late : \A y \in late : c <= y
    BY <1>1, <2>1, Least
  <2>3. c \in D /\ c \in Nat /\ i <= hi[c]
    BY <1>1
  <2>4. ASSUME i <= lo[c] PROVE FALSE
    <3>1. lo[c] = A[below(c)]
      BY <2>3
    <3>2. below(c) # {}
      <4> HIDE DEF below, lo, T
      <4> QED
        BY <1>1, <1>4, <2>4, <3>1
    <3>3. below(c) \in SUBSET Nat /\ IsFiniteSet(below(c))
      BY <1>1, FS_Subset
    <3>4. PICK z \in below(c) : \A y \in below(c) : y <= z
      <4> HIDE DEF below
      <4> QED
        BY <3>2, <3>3, Greatest
    <3>5. z \in D /\ z \in Nat /\ z < c
      BY <1>1
    <3>6. upto(z) = below(c)
      BY <1>1, <2>3, <3>4, <3>5
    <3>7. hi[z] = A[upto(z)]
      BY <3>5
    <3> HIDE DEF hi, lo, upto, below
    <3>8. z \in late
      BY <2>4, <3>1, <3>5, <3>6, <3>7
    <3> QED
      BY <2>2, <2>3, <3>5, <3>8
  <2> HIDE DEF lo, hi, late, T
  <2>5. mine(c, i)
    BY <1>1, <1>6, <2>3, <2>4
  <2> QED
    BY <2>3, <2>5
<1>9. ASSUME NEW i \in 1..T, NEW c \in D, NEW e \in D, mine(c, i), mine(e, i) PROVE c = e
  <2>1. c \in Nat /\ e \in Nat
    BY <1>1
  <2> HIDE DEF lo, hi, T, D
  <2>2. ~(c < e)
    BY <1>1, <1>6, <1>7, <1>9
  <2>3. ~(e < c)
    BY <1>1, <1>6, <1>7, <1>9
  <2> QED
    BY <2>1, <2>2, <2>3
<1>10. \A c \in D : SizeOver(slots, {d \in DOMAIN slots : d < c}) = lo[c]
  <2> SUFFICES ASSUME NEW c \in D
               PROVE SizeOver(slots, {d \in DOMAIN slots : d < c}) = lo[c]
    OBVIOUS
  <2>1. {d \in DOMAIN slots : d < c} = below(c) /\ below(c) \in SUBSET D /\ lo[c] = A[below(c)]
    BY <1>2
  <2> HIDE DEF below, lo
  <2>2. SizeOver(slots, below(c)) = A[below(c)]
    BY <1>5c, <2>1
  <2> QED
    BY <2>1, <2>2
<1>11. ASSUME NEW i \in 1..T PROVE Dealt[i] = CHOOSE c \in D : mine(c, i)
  <2>1. Dealt[i] = CHOOSE c \in DOMAIN slots :
                     LET b == SizeOver(slots, {d \in DOMAIN slots : d < c})
                     IN  b < i /\ i <= b + slots[c]
    BY DEF Dealt
  <2> HIDE DEF lo
  <2> QED
    BY <1>2, <1>10, <2>1
<1>12. DOMAIN Dealt = 1..T
  BY DEF Dealt
<1>13. \A i \in 1..T : Dealt[i] \in D /\ mine(Dealt[i], i)
  <2> HIDE DEF mine
  <2> QED
    BY <1>8, <1>11
<1>14. Dealt \in [1..T -> D]
  <2>1. Dealt = [i \in 1..T |-> Dealt[i]]
    BY DEF Dealt
  <2> QED
    BY <1>13, <2>1
<1>15. ASSUME NEW c \in D PROVE Cardinality(Places(Dealt, c)) = slots[c]
  <2>1. \A i \in 1..T : Dealt[i] = c <=> mine(c, i)
    <3> HIDE DEF mine
    <3> QED
      BY <1>9, <1>13
  <2>2. lo[c] \in Nat /\ slots[c] \in Nat \ {0} /\ lo[c] + slots[c] <= T
    <3> HIDE DEF lo, hi
    <3> QED
      BY <1>6
  <2> HIDE DEF lo, D
  <2>3. Places(Dealt, c) = (lo[c] + 1)..(lo[c] + slots[c])
    <3>1. \A i \in Int : mine(c, i) => i \in 1..T
      BY <1>1, <2>2
    <3>2. \A i \in Int : mine(c, i) <=> i \in (lo[c] + 1)..(lo[c] + slots[c])
      BY <2>2
    <3> HIDE DEF mine
    <3>3. \A i : i \in Places(Dealt, c) <=> i \in 1..T /\ mine(c, i)
      BY <2>1 DEF Places
    <3>4. \A i : i \in 1..T => i \in Int
      BY <1>1
    <3>5. \A i : i \in (lo[c] + 1)..(lo[c] + slots[c]) => i \in Int
      BY <2>2
    <3>6. \A i : i \in Places(Dealt, c) <=> i \in (lo[c] + 1)..(lo[c] + slots[c])
      BY <3>1, <3>2, <3>3, <3>4, <3>5
    <3> QED
      BY <3>6
  <2>4. Cardinality((lo[c] + 1)..(lo[c] + slots[c])) = slots[c]
    <3> DEFINE a == lo[c] + 1
               b == lo[c] + slots[c]
    <3>1. a \in Int /\ b \in Int /\ ~(a > b) /\ (b - a) + 1 = slots[c]
      BY <2>2
    <3> HIDE DEF a, b
    <3>2. Cardinality(a..b) = (b - a) + 1
      BY <3>1, FS_Interval
    <3> QED
      BY <3>1, <3>2 DEF a, b
  <2> QED
    BY <2>3, <2>4
<1> QED
  BY <1>14, <1>15 DEF Deal

\* A transposition moves no letter out of the deal.
LEMMA SwapDeals ==
  ASSUME FreqInv, Deal(chars), NEW i \in 1..TotalSlots, NEW j \in 1..TotalSlots
  PROVE  Deal(Swap(i, j))
<1> DEFINE D == DOMAIN freq
           T == TotalSlots
           new == Swap(i, j)
           turn(k) == IF k = i THEN j ELSE IF k = j THEN i ELSE k
<1>1. chars \in [1..T -> D]
  BY DEF Deal
<1>2. new \in [1..T -> D] /\ \A k \in 1..T : turn(k) \in 1..T /\ new[k] = chars[turn(k)] /\ turn(turn(k)) = k
  <2>1. new \in [1..T -> D]
    BY <1>1 DEF Swap
  <2>2. \A k \in 1..T : new[k] = chars[turn(k)]
    BY <1>1 DEF Swap
  <2> QED
    BY <2>1, <2>2
<1>3. ASSUME NEW c \in D PROVE Cardinality(Places(new, c)) = slots[c]
  <2> DEFINE P == Places(chars, c)
             Q == Places(new, c)
             g == [k \in P |-> turn(k)]
  <2>1. P \in SUBSET (1..T) /\ Q \in SUBSET (1..T) /\ IsFiniteSet(P)
    <3>1. P \in SUBSET (1..T) /\ Q \in SUBSET (1..T)
      BY DEF Places
    <3>2. T \in Int
      BY DEF FreqInv
    <3>3. IsFiniteSet(1..T)
      <4> HIDE DEF T
      <4> QED
        BY <3>2, FS_Interval
    <3> QED
      BY <3>1, <3>3, FS_Subset
  <2>2. \A k \in P : turn(k) \in Q
    <3> HIDE DEF turn, new
    <3> QED
      BY <1>2 DEF Places
  <2>3. \A k \in Q : turn(k) \in P /\ turn(turn(k)) = k
    <3> HIDE DEF turn, new
    <3> QED
      BY <1>2 DEF Places
  <2>4. \A k, m \in P : turn(k) = turn(m) => k = m
    <3> HIDE DEF turn
    <3> QED
      BY <1>2, <2>1
  <2>5. g \in Bijection(P, Q)
    <3> HIDE DEF P, Q, turn
    <3>1. g \in [P -> Q]
      BY <2>2
    <3>2. \A k, m \in P : g[k] = g[m] => k = m
      BY <2>4
    <3>3. \A y \in Q : \E k \in P : g[k] = y
      BY <2>3
    <3> HIDE DEF g
    <3> QED
      BY <3>1, <3>2, <3>3, Fun_IsBij
  <2>6. Cardinality(Q) = Cardinality(P)
    <3> HIDE DEF P, Q, g
    <3>1. ExistsBijection(P, Q)
      BY <2>5 DEF ExistsBijection
    <3> QED
      BY <2>1, <3>1, FS_Bijection
  <2> QED
    BY <2>6 DEF Deal
<1> QED
  BY <1>2, <1>3 DEF Deal
-----------------------------------------------------------------------------
(* write_mapping_file, and the mapper that reads what it wrote.            *)

\* f has the n elements of s before the m elements of t.
Joins(f, s, t, n, m) ==
  /\ Len(f) = n + m
  /\ \A i \in 1..n : f[i] = s[i]
  /\ \A i \in 1..m : f[n + i] = t[i]

\* The parts of a concatenation.
LEMMA Joined ==
  ASSUME NEW S, NEW s \in Seq(S), NEW t \in Seq(S), NEW n \in Nat, NEW m \in Nat,
         Len(s) = n, Len(t) = m, NEW f, f = s \o t
  PROVE  f \in Seq(S) /\ Joins(f, s, t, n, m)
<1>1. s \o t \in Seq(S) /\ Len(s \o t) = n + m
  BY ConcatProperties
<1>2. ASSUME NEW i \in 1..n PROVE (s \o t)[i] = s[i]
  <2>1. i \in 1..(Len(s) + Len(t)) /\ i <= Len(s)
    OBVIOUS
  <2> QED
    BY <2>1, ConcatProperties
<1>3. ASSUME NEW i \in 1..m PROVE (s \o t)[n + i] = t[i]
  <2>1. n + i \in 1..(Len(s) + Len(t)) /\ ~(n + i <= Len(s)) /\ (n + i) - Len(s) = i
    OBVIOUS
  <2>2. (s \o t)[n + i] = t[(n + i) - Len(s)]
    BY <2>1, ConcatProperties
  <2> QED
    BY <2>1, <2>2
<1> QED
  BY <1>1, <1>2, <1>3 DEF Joins

\* The mapping, line by line.
LEMMA MappingIs ==
  ASSUME FreqInv, Deal(chars)
  PROVE  /\ TotalSlots \in Nat \ {0}
         /\ \E S : Mapping \in Seq(S)
         /\ Len(Mapping) = TotalSlots + 2
         /\ Mapping[1] = Header("digits_per_char", digits) /\ Mapping[2] = Header("base", 10)
         /\ \A i \in 3..(TotalSlots + 2) : Mapping[i] = Entry(Combo(i - 3), chars[i - 2])
<1> DEFINE T == TotalSlots
           head == <<Header("digits_per_char", digits), Header("base", 10)>>
           entries == [i \in 1..Len(chars) |-> Entry(Combo(i - 1), chars[i])]
           S == {head[1], head[2]} \cup {entries[i] : i \in 1..T}
<1>1. T \in Nat \ {0}
  BY Powers DEF FreqInv, TotalSlots
<1>2. Len(chars) = T
  BY <1>1 DEF Deal
<1>3. head \in Seq(S) /\ Len(head) = 2
  <2>1. head[1] \in S /\ head[2] \in S /\ head = <<head[1], head[2]>>
    OBVIOUS
  <2> HIDE DEF S
  <2> QED
    BY <2>1
<1>4. entries \in Seq(S) /\ Len(entries) = T
  <2>1. \A i \in 1..T : entries[i] \in S
    OBVIOUS
  <2>2. entries = [i \in 1..T |-> entries[i]]
    BY <1>2
  <2> HIDE DEF S, entries, T
  <2>3. entries \in [1..T -> S]
    BY <2>1, <2>2
  <2> QED
    BY <1>1, <2>3
<1>5. \A i \in 1..T : entries[i] = Entry(Combo(i - 1), chars[i])
  BY <1>2
<1>6. Mapping = head \o entries
  BY DEF Mapping
<1>7. head[1] = Header("digits_per_char", digits) /\ head[2] = Header("base", 10)
  OBVIOUS
<1> HIDE DEF S, head, entries, T
<1>8. /\ Mapping \in Seq(S) /\ Len(Mapping) = 2 + T
      /\ \A i \in 1..2 : Mapping[i] = head[i]
      /\ \A i \in 1..T : Mapping[2 + i] = entries[i]
  <2>1. 2 \in Nat /\ T \in Nat
    BY <1>1
  <2>2. Mapping \in Seq(S) /\ Joins(Mapping, head, entries, 2, T)
    BY <1>3, <1>4, <1>6, <2>1, Joined
  <2> QED
    BY <2>2 DEF Joins
<1>9. Mapping[1] = head[1] /\ Mapping[2] = head[2]
  BY <1>1, <1>8
<1>10. ASSUME NEW i \in 3..(T + 2) PROVE Mapping[i] = Entry(Combo(i - 3), chars[i - 2])
  <2>1. i = 2 + (i - 2) /\ i - 2 \in 1..T /\ (i - 2) - 1 = i - 3
    BY <1>1
  <2>2. Mapping[i] = entries[i - 2]
    BY <1>6, <1>8, <2>1
  <2> QED
    BY <1>5, <2>1, <2>2
<1> QED
  BY <1>1, <1>6, <1>7, <1>8, <1>9, <1>10 DEF T

\* f has m lines, and begins with the first n of the mapping.
Begins(f, m, n) == Len(f) = m /\ DOMAIN f = 1..m /\ \A i \in 1..n : f[i] = Mapping[i]

\* The file is a beginning of the mapping, or one with a part of the next line.
LEMMA WrittenAre ==
  ASSUME FreqInv, Deal(chars), NEW n \in 0..Len(Mapping), NEW f \in Written(n)
  PROVE  \/ Begins(f, n, n) /\ (n = Len(Mapping) => f = Mapping)
         \/ n < Len(Mapping) /\ Begins(f, n + 1, n) /\ f[n + 1] \in CutOff(Mapping[n + 1])
<1>1. PICK S : Mapping \in Seq(S)
  BY MappingIs
<1> DEFINE g == SubSeq(Mapping, 1, n)
<1>2. Len(Mapping) \in Nat /\ n \in Nat
  BY <1>1
<1>3. /\ g \in Seq(S) /\ Len(g) = n
      /\ \A i \in 1..n : g[i] = Mapping[i]
  BY <1>1, <1>2
<1>4. CASE f = g
  <2>1. n = Len(Mapping) => g = Mapping
    BY <1>1, <1>3
  <2>2. DOMAIN g = 1..n
    BY <1>3
  <2> HIDE DEF g
  <2> QED
    BY <1>2, <1>3, <1>4, <2>1, <2>2 DEF Begins
<1>5. CASE f # g
  <2>1. n # Len(Mapping) /\ \E cut \in CutOff(Mapping[n + 1]) : f = g \o <<cut>>
    BY <1>5 DEF Written
  <2>2. PICK cut \in CutOff(Mapping[n + 1]) : f = g \o <<cut>>
    BY <2>1
  <2> HIDE DEF g
  <2> DEFINE R == S \cup {cut}
  <2>3. g \in Seq(R) /\ <<cut>> \in Seq(R) /\ Len(<<cut>>) = 1 /\ <<cut>>[1] = cut
    <3>1. g \in [1..n -> R]
      BY <1>3
    <3> QED
      BY <1>2, <3>1
  <2> HIDE DEF R
  <2> DEFINE e == <<cut>>
  <2>4. /\ f \in Seq(R) /\ Len(f) = n + 1
        /\ \A i \in 1..n : f[i] = g[i]
        /\ \A i \in 1..1 : f[n + i] = e[i]
    <3>1. Len(e) = 1 /\ e \in Seq(R) /\ 1 \in Nat /\ f = g \o e
      BY <2>2, <2>3 DEF e
    <3> HIDE DEF e
    <3>2. f \in Seq(R) /\ Joins(f, g, e, n, 1)
      BY <1>2, <1>3, <2>3, <3>1, Joined
    <3> QED
      BY <3>2 DEF Joins
  <2>5. f \in Seq(R) /\ Len(f) = n + 1 /\ f[n + 1] = cut /\ \A i \in 1..n : f[i] = g[i]
    <3>1. e[1] = cut
      BY DEF e
    <3> HIDE DEF e
    <3> QED
      BY <2>4, <3>1
  <2>6. DOMAIN f = 1..(n + 1) /\ n < Len(Mapping)
    BY <1>2, <2>1, <2>5
  <2>7. Begins(f, n + 1, n)
    BY <1>2, <1>3, <2>5, <2>6 DEF Begins
  <2> QED
    BY <2>5, <2>6, <2>7
<1> QED
  BY <1>4, <1>5
\* The fields of the lines.
LEMMA Fields ==
  /\ \A key, value : Header(key, value).key = key /\ Header(key, value).value = value
  /\ \A combo, out : /\ Entry(combo, out).key = "entry"
                     /\ Entry(combo, out).combo = combo /\ Entry(combo, out).out = out
  /\ Malformed.key = "malformed"
BY DEF Header, Entry, Malformed

\* Both headers are there, and then n - 2 entries; nothing else can be read.
LEMMA LinesAre ==
  ASSUME FreqInv, Deal(chars), NEW n \in 2..Len(Mapping), NEW m \in n..(n + 1), NEW f,
         Begins(f, m, n), m # n => f[m] = Malformed
  PROVE  /\ \A i \in 3..n : f[i] = Entry(Combo(i - 3), chars[i - 2])
         /\ LinesWith(f, "entry") = 3..n
         /\ LinesWith(f, "malformed") = IF m = n THEN {} ELSE {m}
         /\ LinesWith(f, "digits_per_char") = {1} /\ LinesWith(f, "base") = {2}
         /\ f[1].value = digits /\ f[2].value = 10
         /\ ValueOf(f, "digits_per_char") = digits /\ ValueOf(f, "base") = 10
<1>1. TotalSlots \in Nat \ {0} /\ Len(Mapping) = TotalSlots + 2 /\ n \in Int
  BY MappingIs
<1>2. f[1] = Header("digits_per_char", digits) /\ f[2] = Header("base", 10)
  <2>1. 1 \in 1..n /\ 2 \in 1..n
    BY <1>1
  <2> QED
    BY <2>1, MappingIs DEF Begins
<1>3. \A i \in 3..n : f[i] = Entry(Combo(i - 3), chars[i - 2])
  <2> SUFFICES ASSUME NEW i \in 3..n PROVE f[i] = Entry(Combo(i - 3), chars[i - 2])
    OBVIOUS
  <2>1. i \in 1..n /\ i \in 3..(TotalSlots + 2)
    BY <1>1
  <2>2. f[i] = Mapping[i]
    BY <2>1 DEF Begins
  <2>3. Mapping[i] = Entry(Combo(i - 3), chars[i - 2])
    BY <2>1, MappingIs
  <2> QED
    BY <2>2, <2>3
<1>4. /\ f[1].key = "digits_per_char" /\ f[2].key = "base" /\ \A i \in 3..n : f[i].key = "entry"
      /\ f[1].value = digits /\ f[2].value = 10
      /\ m # n => f[m].key = "malformed"
  <2>1. \A i \in 3..n : f[i].key = "entry"
    <3> SUFFICES ASSUME NEW i \in 3..n PROVE f[i].key = "entry"
      OBVIOUS
    <3>1. f[i] = Entry(Combo(i - 3), chars[i - 2])
      BY <1>3
    <3> QED
      BY <3>1, Fields
  <2>2. /\ f[1].key = "digits_per_char" /\ f[1].value = digits
        /\ f[2].key = "base" /\ f[2].value = 10
    BY <1>2, Fields
  <2>3. m # n => f[m].key = "malformed"
    BY Fields
  <2> QED
    BY <2>1, <2>2, <2>3
<1>5. \A i \in DOMAIN f : i = 1 \/ i = 2 \/ i \in 3..n \/ (m # n /\ i = m)
  <2>1. \A i \in 1..m : i = 1 \/ i = 2 \/ i \in 3..n \/ (m # n /\ i = m)
    BY <1>1
  <2> QED
    BY <2>1 DEF Begins
<1>6. 1 \in DOMAIN f /\ 2 \in DOMAIN f
  BY <1>1 DEF Begins
<1>7. \A i \in 3..n : i \in DOMAIN f
  BY <1>1 DEF Begins
<1>8. m \in DOMAIN f
  BY <1>1 DEF Begins
<1>9. \A i : i \in LinesWith(f, "entry") <=> i \in 3..n
  BY <1>4, <1>5, <1>6, <1>7, <1>8 DEF LinesWith
<1>10. LinesWith(f, "malformed") = IF m = n THEN {} ELSE {m}
  <2>1. \A i \in LinesWith(f, "malformed") : m # n /\ i = m
    BY <1>4, <1>5 DEF LinesWith
  <2>2. m # n => m \in LinesWith(f, "malformed")
    BY <1>4, <1>8 DEF LinesWith
  <2> QED
    BY <2>1, <2>2
<1>11. LinesWith(f, "digits_per_char") = {1}
  <2>1. \A i \in LinesWith(f, "digits_per_char") : i = 1
    BY <1>4, <1>5 DEF LinesWith
  <2>2. 1 \in LinesWith(f, "digits_per_char")
    BY <1>4, <1>6 DEF LinesWith
  <2> QED
    BY <2>1, <2>2
<1>12. LinesWith(f, "base") = {2}
  <2>1. \A i \in LinesWith(f, "base") : i = 2
    BY <1>4, <1>5 DEF LinesWith
  <2>2. 2 \in LinesWith(f, "base")
    BY <1>4, <1>6 DEF LinesWith
  <2> QED
    BY <2>1, <2>2
<1>13. ASSUME NEW a \in Int PROVE LastOf({a}) = a
  <2>1. \A j \in {a} : j <= a
    OBVIOUS
  <2>2. LastOf({a}) \in {a}
    BY <2>1 DEF LastOf
  <2> QED
    BY <2>2
<1>14. ValueOf(f, "digits_per_char") = digits /\ ValueOf(f, "base") = 10
  <2>1. LastOf({1}) = 1 /\ LastOf({2}) = 2
    BY <1>13
  <2>2. LastOf(LinesWith(f, "digits_per_char")) = 1 /\ LastOf(LinesWith(f, "base")) = 2
    BY <1>11, <1>12, <2>1
  <2> QED
    BY <1>4, <2>2 DEF ValueOf
<1> QED
  BY <1>3, <1>4, <1>9, <1>10, <1>11, <1>12, <1>14

\* MappingIsUsable of a file that was written.
Usable(f) ==
  /\ Accepted(f) = (Len(f) = 2 + TotalSlots /\ f[Len(f)] # Malformed)
  /\ Accepted(f) =>
       \A c \in DOMAIN freq :
         Cardinality({v \in DOMAIN Table(f) : Table(f)[v] = c}) = slots[c]

\* The whole mapping is accepted, and its table has the letters of the deal.
LEMMA MappingUsable ==
  ASSUME FreqInv, Deal(chars)
  PROVE  Usable(Mapping)
<1> DEFINE T == TotalSlots
           f == Mapping
           n == T + 2
<1>1. T \in Nat \ {0} /\ Len(f) = n /\ DOMAIN f = 1..n /\ T = PowInt(10, digits) /\ digits \in Nat \ {0}
  BY MappingIs DEF TotalSlots, FreqInv
<1>2. n \in 2..Len(Mapping) /\ Begins(f, n, n) /\ n \in n..(n + 1)
  BY <1>1 DEF Begins
<1>3. /\ \A i \in 3..n : f[i] = Entry(Combo(i - 3), chars[i - 2])
      /\ LinesWith(f, "entry") = 3..n
      /\ LinesWith(f, "malformed") = {}
      /\ LinesWith(f, "digits_per_char") = {1} /\ LinesWith(f, "base") = {2}
      /\ f[1].value = digits /\ f[2].value = 10
      /\ ValueOf(f, "digits_per_char") = digits /\ ValueOf(f, "base") = 10
  <2> HIDE DEF n, f
  <2> QED
    BY <1>1, <1>2, LinesAre DEF f
<1>4. \A k \in 0..(T - 1) : Combo(k) \in [1..digits -> 0..9] /\ Len(Combo(k)) = digits /\ Value(Combo(k), 10) = k
  BY <1>1, Combos
<1>5. \A i \in 3..n : /\ i - 3 \in 0..(T - 1) /\ f[i].key = "entry" /\ f[i].combo = Combo(i - 3)
                      /\ f[i].out = chars[i - 2]
  <2>1. \A i \in 3..n : i - 3 \in 0..(T - 1)
    BY <1>1
  <2>2. \A i \in 3..n : f[i].key = "entry" /\ f[i].combo = Combo(i - 3) /\ f[i].out = chars[i - 2]
    <3> HIDE DEF f, n
    <3> SUFFICES ASSUME NEW i \in 3..n
                 PROVE  f[i].key = "entry" /\ f[i].combo = Combo(i - 3) /\ f[i].out = chars[i - 2]
      OBVIOUS
    <3>1. f[i] = Entry(Combo(i - 3), chars[i - 2])
      BY <1>3
    <3> QED
      BY <3>1, Fields
  <2> QED
    BY <2>1, <2>2
<1> HIDE DEF f, n
<1>6. \A i \in 3..n : Value(f[i].combo, 10) = i - 3
  BY <1>4, <1>5
<1>7. \A i \in 3..n : EntryOK(f[i], digits, 10)
  <2> SUFFICES ASSUME NEW i \in 3..n PROVE EntryOK(f[i], digits, 10)
    OBVIOUS
  <2>1. f[i] # Malformed
    BY <1>5 DEF Malformed
  <2> DEFINE combo == f[i].combo
  <2>2. combo \in [1..digits -> 0..9] /\ Len(combo) = digits
    BY <1>4, <1>5
  <2>3. \A j \in DOMAIN combo : combo[j] < 10
    <3> HIDE DEF combo
    <3>1. \A j \in 1..digits : combo[j] \in 0..9
      BY <2>2
    <3> QED
      BY <2>2, <3>1
  <2> QED
    BY <2>1, <2>2, <2>3 DEF EntryOK
<1>8. NoDuplicates(f)
  <2>1. \A i, j \in 3..n : f[i].combo = f[j].combo => i - 3 = j - 3
    BY <1>6
  <2>2. \A i, j \in 3..n : i - 3 = j - 3 => i = j
    BY <1>1 DEF n
  <2> QED
    BY <1>3, <2>1, <2>2 DEF NoDuplicates
<1>9. \A v \in 0..(T - 1) : v + 3 \in 3..n /\ (v + 3) - 3 = v /\ (v + 3) - 2 = v + 1
  BY <1>1 DEF n
<1>10. NoneMissing(f, digits, 10)
  <2>1. \A v \in 0..(T - 1) : \E i \in 3..n : Value(f[i].combo, 10) = v
    BY <1>6, <1>9
  <2> QED
    BY <1>1, <1>3, <2>1 DEF NoneMissing
<1>11. HeaderOK(f, "digits_per_char", Nat \ {0}) /\ HeaderOK(f, "base", 2..10)
  <2>1. HeaderOK(f, "digits_per_char", Nat \ {0})
    <3>1. \A i \in {1} : f[i].value \in Nat \ {0}
      BY <1>1, <1>3
    <3> QED
      BY <1>3, <3>1 DEF HeaderOK
  <2>2. HeaderOK(f, "base", 2..10)
    <3>1. \A i \in {2} : f[i].value \in 2..10
      BY <1>3
    <3> QED
      BY <1>3, <3>1 DEF HeaderOK
  <2> QED
    BY <2>1, <2>2
<1>12. Accepted(f)
  BY <1>3, <1>7, <1>8, <1>10, <1>11 DEF Accepted
<1>13. f[Len(f)] # Malformed
  <2>1. n \in 3..n
    BY <1>1 DEF n
  <2>2. f[n].key = "entry"
    BY <1>5, <2>1
  <2> QED
    BY <1>1, <2>2 DEF Malformed
<1>14. Len(f) = 2 + TotalSlots
  BY <1>1 DEF n
<1>15. Table(f) = [v \in 0..(T - 1) |-> chars[v + 1]]
  <2>1. ASSUME NEW v \in 0..(T - 1)
        PROVE  (CHOOSE i \in LinesWith(f, "entry") : Value(f[i].combo, ValueOf(f, "base")) = v) = v + 3
    <3>1. v + 3 \in 3..n /\ Value(f[v + 3].combo, 10) = v
      BY <1>6, <1>9
    <3>2. \A i \in 3..n : Value(f[i].combo, 10) = v => i = v + 3
      <4>1. \A i \in 3..n : i - 3 = v => i = v + 3
        BY <1>1 DEF n
      <4> QED
        BY <1>6, <4>1
    <3> QED
      BY <1>3, <3>1, <3>2
  <2>2. \A v \in 0..(T - 1) : f[v + 3].out = chars[v + 1]
    BY <1>5, <1>9
  <2>3. PowInt(ValueOf(f, "base"), ValueOf(f, "digits_per_char")) = T
    BY <1>1, <1>3
  <2>4. Table(f) = [v \in 0..(T - 1) |->
                      LET i == CHOOSE i \in LinesWith(f, "entry") : Value(f[i].combo, ValueOf(f, "base")) = v
                      IN  f[i].out]
    BY <2>3 DEF Table
  <2> DEFINE entry(v) == CHOOSE i \in LinesWith(f, "entry") : Value(f[i].combo, ValueOf(f, "base")) = v
  <2>5. \A v \in 0..(T - 1) : entry(v) = v + 3
    BY <2>1
  <2>6. Table(f) = [v \in 0..(T - 1) |-> f[entry(v)].out]
    BY <2>4
  <2> HIDE DEF entry
  <2>7. \A v \in 0..(T - 1) : f[entry(v)].out = chars[v + 1]
    BY <2>2, <2>5
  <2> QED
    BY <2>6, <2>7
<1>16. ASSUME NEW c \in DOMAIN freq
       PROVE  Cardinality({v \in DOMAIN Table(f) : Table(f)[v] = c}) = slots[c]
  <2> DEFINE P == Places(chars, c)
             Q == {v \in DOMAIN Table(f) : Table(f)[v] = c}
             g == [k \in P |-> k - 1]
  <2>1. Q = {v \in 0..(T - 1) : chars[v + 1] = c}
    BY <1>15
  <2>2. P = {k \in 1..T : chars[k] = c} /\ IsFiniteSet(P)
    <3>1. P = {k \in 1..T : chars[k] = c}
      BY DEF Places
    <3>2. T \in Int
      BY <1>1
    <3> HIDE DEF T, P
    <3>3. IsFiniteSet(1..T)
      BY <3>2, FS_Interval
    <3> QED
      BY <3>1, <3>3, FS_Subset
  <2> HIDE DEF P, Q
  <2>3. \A k \in P : k - 1 \in Q
    <3>1. \A k \in 1..T : k - 1 \in 0..(T - 1) /\ (k - 1) + 1 = k
      BY <1>1
    <3> QED
      BY <2>1, <2>2, <3>1
  <2>4. \A v \in Q : v + 1 \in P /\ (v + 1) - 1 = v
    <3>1. \A v \in 0..(T - 1) : v + 1 \in 1..T /\ (v + 1) - 1 = v
      BY <1>1
    <3> QED
      BY <2>1, <2>2, <3>1
  <2>5. \A k, m \in P : k - 1 = m - 1 => k = m
    <3>1. \A k, m \in 1..T : k - 1 = m - 1 => k = m
      BY <1>1
    <3> QED
      BY <2>2, <3>1
  <2>6. g \in Bijection(P, Q)
    <3>1. g \in [P -> Q] /\ \A k, m \in P : g[k] = g[m] => k = m
      BY <2>3, <2>5
    <3>2. \A y \in Q : \E k \in P : g[k] = y
      BY <2>4
    <3> HIDE DEF g
    <3> QED
      BY <3>1, <3>2, Fun_IsBij
  <2>7. Cardinality(Q) = Cardinality(P)
    <3> HIDE DEF g
    <3>1. ExistsBijection(P, Q)
      BY <2>6 DEF ExistsBijection
    <3> QED
      BY <2>2, <3>1, FS_Bijection
  <2>8. Cardinality(P) = slots[c]
    BY DEF Deal, P
  <2> QED
    BY <2>7, <2>8 DEF Q
<1> QED
  BY <1>12, <1>13, <1>14, <1>16 DEF Usable, f
\* A file that ends early is refused, and so is one with a line that is cut off.
LEMMA CutIsRefused ==
  ASSUME FreqInv, Deal(chars), NEW n \in 0..(TotalSlots + 1), NEW m \in n..(n + 1), NEW f,
         Begins(f, m, n), m # n => f[m] \in CutOff(Mapping[m])
  PROVE  ~Accepted(f) /\ (m = TotalSlots + 2 => f[m] = Malformed)
<1> DEFINE T == TotalSlots
<1>1. T \in Nat \ {0} /\ Len(Mapping) = T + 2 /\ n \in Nat /\ m \in Nat
  BY MappingIs
<1>2. Mapping[1] = Header("digits_per_char", digits) /\ Mapping[2] = Header("base", 10)
  BY MappingIs
<1>3. \A i \in 1..n : f[i] = Mapping[i]
  BY DEF Begins
<1>4. DOMAIN f = 1..m
  BY DEF Begins
<1> HIDE DEF T
<1>5. n >= 2 => (m # n => f[m] = Malformed)
  <2> SUFFICES ASSUME n >= 2, m # n PROVE f[m] = Malformed
    OBVIOUS
  <2>1. m \in 3..(T + 2)
    BY <1>1 DEF T
  <2>2. Mapping[m] = Entry(Combo(m - 3), chars[m - 2])
    BY <2>1, MappingIs DEF T
  <2>3. Mapping[m].key = "entry"
    BY <2>2, Fields
  <2> QED
    BY <2>3 DEF CutOff
<1>6. CASE n >= 2
  <2>1. n \in 2..Len(Mapping)
    BY <1>1, <1>6 DEF T
  <2>2. /\ \A i \in 3..n : f[i] = Entry(Combo(i - 3), chars[i - 2])
        /\ LinesWith(f, "entry") = 3..n
        /\ LinesWith(f, "malformed") = IF m = n THEN {} ELSE {m}
        /\ ValueOf(f, "digits_per_char") = digits /\ ValueOf(f, "base") = 10
    BY <1>5, <1>6, <2>1, LinesAre
  <2>3. ASSUME Accepted(f), m # n PROVE FALSE
    <3>1. m \in LinesWith(f, "malformed") /\ f[m] = Malformed
      BY <1>5, <1>6, <2>2, <2>3
    <3>2. EntryOK(f[m], digits, 10)
      BY <2>2, <2>3, <3>1 DEF Accepted
    <3> QED
      BY <3>1, <3>2 DEF EntryOK
  <2>4. ASSUME Accepted(f) PROVE FALSE
    <3> DEFINE v == n - 2
    <3>1. v \in 0..(T - 1)
      BY <1>1, <1>6 DEF T
    <3>2. NoneMissing(f, digits, 10)
      BY <2>2, <2>4 DEF Accepted
    <3>3. PowInt(10, digits) = T
      BY DEF T, TotalSlots
    <3>4. PICK i \in 3..n : Value(f[i].combo, 10) = v
      <4> HIDE DEF v
      <4> QED
        BY <2>2, <3>1, <3>2, <3>3 DEF NoneMissing
    <3>5. f[i] = Entry(Combo(i - 3), chars[i - 2])
      BY <2>2
    <3>6. f[i].combo = Combo(i - 3)
      BY <3>5, Fields
    <3>7. i - 3 \in 0..(TotalSlots - 1) /\ i - 3 # v
      BY <1>1, <1>6 DEF T
    <3>8. digits \in Nat
      BY DEF FreqInv
    <3>9. Value(Combo(i - 3), 10) = i - 3
      <4> DEFINE k == i - 3
      <4>1. k \in 0..(TotalSlots - 1)
        BY <3>7
      <4> HIDE DEF k
      <4>2. Value(Combo(k), 10) = k
        BY <3>8, <4>1, Combos
      <4> QED
        BY <4>2 DEF k
    <3> QED
      BY <3>4, <3>6, <3>7, <3>9
  <2>5. m = TotalSlots + 2 => f[m] = Malformed
    <3>1. m = TotalSlots + 2 => m # n
      BY <1>1 DEF T
    <3> QED
      BY <1>5, <1>6, <3>1
  <2> QED
    BY <2>4, <2>5
<1>7. CASE ~(n >= 2)
  <2>1. n \in {0, 1} /\ m \in {0, 1, 2} /\ m \in n..(n + 1) /\ m # T + 2
    BY <1>1, <1>7
  <2>2. ASSUME NEW i \in DOMAIN f, f[i].key = "base" PROVE f[i].value = 1
    <3>1. i \in 1..m
      BY <1>4
    <3>2. CASE i \in 1..n
      <4>1. i = 1 /\ 1 \in 1..n
        BY <2>1, <3>2
      <4>2. f[i] = Header("digits_per_char", digits)
        BY <1>2, <1>3, <4>1
      <4>3. f[i].key = "digits_per_char"
        BY <4>2, Fields
      <4> QED
        BY <2>2, <4>3
    <3>3. CASE ~(i \in 1..n)
      <4>1. i = m /\ m # n /\ (m = 1 \/ m = 2)
        BY <2>1, <3>1, <3>3
      <4>2. f[m] \in CutOff(Mapping[m])
        BY <4>1
      <4>3. CASE m = 1
        <5> DEFINE line == Mapping[1]
        <5>1. line.key = "digits_per_char"
          BY <1>2, Fields
        <5>2. f[i].key = "malformed" \/ f[i].key = "digits_per_char"
          <6>1. f[i] = Malformed \/ \E w : f[i] = Header(line.key, w)
            BY <4>1, <4>2, <4>3 DEF CutOff
          <6> HIDE DEF line
          <6> QED
            BY <5>1, <6>1, Fields
        <5> QED
          BY <2>2, <5>2
      <4>4. CASE m = 2
        <5> DEFINE line == Mapping[2]
        <5>1. line.key = "base" /\ line.value = 10
          BY <1>2, Fields
        <5>2. f[i] = Malformed \/ f[i] = Header(line.key, IF line.value < 10 THEN NoNumber ELSE line.value \div 10)
          BY <4>1, <4>2, <4>4 DEF CutOff
        <5> HIDE DEF line
        <5>3. (IF line.value < 10 THEN NoNumber ELSE line.value \div 10) = 1
          BY <5>1
        <5>4. f[i] = Malformed \/ f[i] = Header("base", 1)
          BY <5>1, <5>2, <5>3
        <5> QED
          BY <2>2, <5>4, Fields
      <4> QED
        BY <4>1, <4>3, <4>4
    <3> QED
      BY <3>2, <3>3
  <2>3. ~HeaderOK(f, "base", 2..10)
    <3>1. \A i \in LinesWith(f, "base") : f[i].value \notin 2..10
      BY <2>2 DEF LinesWith
    <3> QED
      BY <3>1 DEF HeaderOK
  <2> QED
    BY <2>1, <2>3 DEF Accepted, T
<1> QED
  BY <1>1, <1>6, <1>7

\* Whatever has been written, the mapper takes the whole file and no other.
LEMMA WrittenUsable ==
  ASSUME FreqInv, Deal(chars), NEW n \in 0..Len(Mapping), NEW f \in Written(n)
  PROVE  Usable(f)
<1>1. TotalSlots \in Nat \ {0} /\ Len(Mapping) = TotalSlots + 2
  BY MappingIs
<1>2. CASE f = Mapping
  BY <1>2, MappingUsable
<1>3. CASE f # Mapping
  <2>1. PICK m \in n..(n + 1) :
          n < Len(Mapping) /\ Begins(f, m, n) /\ (m # n => f[m] \in CutOff(Mapping[m]))
    <3>1. n \in n..(n + 1) /\ n + 1 \in n..(n + 1) /\ (n < Len(Mapping) \/ n = Len(Mapping))
      BY <1>1
    <3> QED
      BY <1>3, <3>1, WrittenAre
  <2>2. n \in 0..(TotalSlots + 1) /\ 2 + TotalSlots = TotalSlots + 2
    BY <1>1, <2>1
  <2>3. ~Accepted(f) /\ (m = TotalSlots + 2 => f[m] = Malformed)
    BY <2>1, <2>2, CutIsRefused
  <2>4. Len(f) = m
    BY <2>1 DEF Begins
  <2>5. ~(Len(f) = 2 + TotalSlots /\ f[Len(f)] # Malformed)
    BY <2>2, <2>3, <2>4
  <2>6. Accepted(f) \in BOOLEAN
    BY DEF Accepted
  <2> QED
    BY <2>3, <2>5, <2>6 DEF Usable
<1> QED
  BY <1>2, <1>3
-----------------------------------------------------------------------------
(* The run of gen_mapping.                                                 *)

\* From the allocation on every letter has slots, and together they are all there are.
SlotsInv ==
  gpc \in {"assign", "shuffle", "write"} /\ DOMAIN freq # {} =>
    slots \in [DOMAIN freq -> Nat \ {0}] /\ Size(slots) = TotalSlots

\* The letters are dealt out by their slots, however far the shuffle is.
DealInv ==
  gpc \in {"shuffle", "write"} /\ DOMAIN freq # {} => Deal(chars) /\ shuffled \in Nat

\* The inductive invariant.
GenInv ==
  /\ gpc \in {"allocate", "assign", "shuffle", "write", "done"}
  /\ FreqInv /\ SlotsInv /\ DealInv /\ FairShares
  /\ gpc # "done" => file \in OldFiles
  /\ gpc = "done" /\ file \notin OldFiles /\ DOMAIN freq # {} => Usable(file)

\* The initial states satisfy the invariant.
LEMMA GenInit == MappingInit => GenInv
<1> SUFFICES ASSUME MappingInit PROVE GenInv
  OBVIOUS
<1>1. PICK x \in Invocations : freq = Frequencies(x) /\ digits = x.digits
  BY DEF MappingInit
<1> DEFINE D == DOMAIN freq
           count(c) == x.lower[c] + x.upper[c]
<1>2. /\ x.digits \in Nat \ {0} /\ DOMAIN x.lower \subseteq Nat /\ IsFiniteSet(DOMAIN x.lower)
      /\ \A c \in DOMAIN x.lower : x.lower[c] \in Nat /\ x.upper[c] \in Nat
  BY <1>1, GenMappingAssumption
<1>3. freq = [c \in {c \in DOMAIN x.lower : count(c) > 0} |-> count(c)]
  BY <1>1 DEF Frequencies
<1>4. D = {c \in DOMAIN x.lower : count(c) > 0}
  BY <1>3
<1>5. IsFiniteSet(D) /\ D \in SUBSET Nat
  BY <1>2, <1>4, FS_Subset
<1>6. \A c \in D : freq[c] \in Nat \ {0}
  <2>1. \A c \in D : freq[c] = count(c) /\ count(c) > 0 /\ x.lower[c] \in Nat /\ x.upper[c] \in Nat
    BY <1>2, <1>3, <1>4
  <2>2. \A c \in D : count(c) \in Nat
    BY <2>1
  <2> HIDE DEF count
  <2> QED
    BY <2>1, <2>2
<1>7. freq \in [D -> Nat \ {0}]
  <2>1. freq = [c \in D |-> freq[c]]
    BY <1>3
  <2> QED
    BY <1>6, <2>1
<1>8. digits \in Nat \ {0} /\ TotalSlots \in Nat
  BY <1>1, <1>2, Powers DEF TotalSlots
<1>9. FreqInv
  BY <1>5, <1>7, <1>8 DEF FreqInv
<1>10. gpc = "allocate" /\ file \in OldFiles
  BY DEF MappingInit
<1> QED
  BY <1>9, <1>10 DEF GenInv, SlotsInv, DealInv, FairShares

\* Every step keeps the invariant.
LEMMA GenStep == GenInv /\ [MappingNext]_mappingVars => GenInv'
<1> SUFFICES ASSUME GenInv, [MappingNext]_mappingVars PROVE GenInv'
  OBVIOUS
<1> USE DEF GenInv
<1>0. freq' = freq /\ digits' = digits
  BY DEF MappingNext, mappingVars, AllocateSlots, TooManyLetters, AssignCombos, Shuffle, ShuffleEnds,
         WriteMappingFile, OpenFails, WriteStops, Exits, Done
<1>1. FreqInv'
  BY <1>0 DEF FreqInv, TotalSlots
<1>2. CASE AllocateSlots
  <2>1. gpc = "allocate" /\ gpc' = "assign" /\ file' = file /\ Cardinality(DOMAIN freq) <= TotalSlots
    BY <1>2 DEF AllocateSlots
  <2>2. PICK S \in SUBSET DOMAIN freq : (DOMAIN freq # {} => Lucky(S)) /\ slots' = Shares(S)
    BY <1>2 DEF AllocateSlots, Shares
  <2>3. SlotsInv' /\ FairShares'
    <3>1. CASE DOMAIN freq = {}
      BY <1>0, <3>1 DEF SlotsInv, FairShares
    <3>2. CASE DOMAIN freq # {}
      <4>1. /\ Shares(S) \in [DOMAIN freq -> Nat \ {0}]
            /\ Size(Shares(S)) = TotalSlots
            /\ \A c \in DOMAIN freq :
                 LET off == (Shares(S)[c] - 1) * Size(freq) - Remaining * freq[c]
                 IN  -Size(freq) < off /\ off < Size(freq)
            /\ \A c, d \in DOMAIN freq : freq[c] > freq[d] => Shares(S)[c] >= Shares(S)[d]
        BY <2>1, <2>2, <3>2, SharesAre
      <4>2. TotalSlots' = TotalSlots /\ Remaining' = Remaining
        BY <1>0 DEF TotalSlots, Remaining
      <4> DEFINE s == Shares(S)
      <4>3. \A c \in DOMAIN freq : s[c] >= 1
        BY <4>1
      <4>4. slots' = s
        BY <2>2
      <4> HIDE DEF s
      <4>5. SlotsInv'
        BY <1>0, <4>1, <4>2, <4>4 DEF SlotsInv, s
      <4>6. FairShares'
        BY <1>0, <4>1, <4>2, <4>3, <4>4 DEF FairShares, s
      <4> QED
        BY <4>5, <4>6
    <3> QED
      BY <3>1, <3>2
  <2> QED
    BY <1>1, <2>1, <2>3 DEF DealInv
<1>3. CASE TooManyLetters
  BY <1>0, <1>1, <1>3 DEF TooManyLetters, SlotsInv, DealInv, FairShares
<1>4. CASE AssignCombos
  <2>1. gpc = "assign" /\ gpc' = "shuffle" /\ file' = file /\ slots' = slots /\ chars' = Dealt /\ shuffled' = 1
    BY <1>4 DEF AssignCombos
  <2>2. SlotsInv'
    BY <1>0, <2>1 DEF SlotsInv, TotalSlots
  <2>3. DealInv'
    <3> SUFFICES ASSUME DOMAIN freq # {} PROVE Deal(chars)' /\ shuffled' \in Nat
      BY <1>0 DEF DealInv
    <3>1. Deal(Dealt)
      BY <2>1, DealtAre DEF SlotsInv
    <3> QED
      BY <1>0, <2>1, <3>1 DEF Deal, Places, TotalSlots
  <2> QED
    BY <1>1, <2>1, <2>2, <2>3 DEF FairShares
<1>5. CASE Shuffle
  <2>1. gpc = "shuffle" /\ gpc' = "shuffle" /\ file' = file /\ slots' = slots /\ shuffled < Len(chars)
        /\ shuffled' = shuffled + 1
    BY <1>5 DEF Shuffle
  <2>2. PICK j \in 1..(shuffled + 1) : chars' = Swap(shuffled + 1, j)
    BY <1>5 DEF Shuffle
  <2>3. SlotsInv'
    BY <1>0, <2>1 DEF SlotsInv, TotalSlots
  <2>4. DealInv'
    <3> SUFFICES ASSUME DOMAIN freq # {} PROVE Deal(chars)' /\ shuffled' \in Nat
      BY <1>0 DEF DealInv
    <3>1. Deal(chars) /\ shuffled \in Nat
      BY <2>1 DEF DealInv
    <3>2. Len(chars) = TotalSlots /\ TotalSlots \in Nat
      BY <3>1 DEF Deal, FreqInv
    <3>3. shuffled + 1 \in 1..TotalSlots /\ j \in 1..TotalSlots
      BY <2>1, <3>1, <3>2
    <3>4. Deal(Swap(shuffled + 1, j))
      BY <3>1, <3>3, SwapDeals
    <3>5. Deal(chars')
      BY <2>2, <3>4
    <3>6. slots' = slots /\ shuffled' \in Nat
      BY <2>1, <3>1
    <3>7. Deal(chars)'
      BY <1>0, <3>5, <3>6 DEF Deal, Places, TotalSlots
    <3> QED
      BY <3>6, <3>7
  <2> QED
    BY <1>1, <2>1, <2>3, <2>4 DEF FairShares
<1>6. CASE ShuffleEnds
  <2>1. SlotsInv' /\ DealInv'
    BY <1>0, <1>6 DEF ShuffleEnds, SlotsInv, DealInv, Deal, Places, TotalSlots
  <2> QED
    BY <1>1, <1>6, <2>1 DEF ShuffleEnds, FairShares
<1>7. ASSUME gpc = "write", gpc' = "done", slots' = slots,
             DOMAIN freq # {} => file' \in OldFiles \/ Usable(file')
      PROVE  GenInv'
  <2>1. file' \notin OldFiles /\ DOMAIN freq # {} => Usable(file)'
    <3>1. Usable(file') => Usable(file)'
      BY <1>0, <1>7 DEF Usable, TotalSlots
    <3> QED
      BY <1>7, <3>1
  <2> QED
    BY <1>0, <1>1, <1>7, <2>1 DEF SlotsInv, DealInv, FairShares
<1>8. CASE WriteMappingFile
  <2>1. gpc = "write" /\ gpc' = "done" /\ slots' = slots /\ file' = Mapping
    BY <1>8 DEF WriteMappingFile, Exits
  <2>2. DOMAIN freq # {} => Usable(file')
    BY <2>1, MappingUsable DEF DealInv
  <2> QED
    BY <1>7, <2>1, <2>2
<1>9. CASE OpenFails
  BY <1>7, <1>9 DEF OpenFails, Exits
<1>10. CASE WriteStops
  <2>1. gpc = "write" /\ gpc' = "done" /\ slots' = slots /\ \E n \in 0..Len(Mapping) : file' \in Written(n)
    BY <1>10 DEF WriteStops, Exits
  <2>2. DOMAIN freq # {} => Usable(file')
    BY <2>1, WrittenUsable DEF DealInv
  <2> QED
    BY <1>7, <2>1, <2>2
<1>11. CASE Done \/ UNCHANGED mappingVars
  BY <1>11 DEF Done, mappingVars, SlotsInv, DealInv, Deal, Places, FairShares, FreqInv, TotalSlots, Remaining, Usable
<1> QED
  BY <1>2, <1>3, <1>4, <1>5, <1>6, <1>8, <1>9, <1>10, <1>11 DEF MappingNext

\* FairShares, for every dictionary and every number of digits: the combos are used up,
\* no share is a whole combo off its proportion and a more frequent letter never gets
\* fewer (allocate_slots, GenMapping.cpp:20-66).
THEOREM SharesFair == MappingSpec => []FairShares
<1>1. GenInv => FairShares
  BY DEF GenInv
<1> QED
  BY <1>1, GenInit, GenStep, PTL DEF MappingSpec

\* MappingIsUsable, for every dictionary and number of digits, every outcome of the
\* shuffle and every point at which the writing ends: MappingFileMapper takes the whole
\* mapping, with the shares of allocate_slots in its table, and no part of one.
THEOREM MappingUsableAlways == MappingSpec => []MappingIsUsable
<1>1. GenInv => MappingIsUsable
  BY DEF GenInv, Usable, MappingIsUsable
<1> QED
  BY <1>1, GenInit, GenStep, PTL DEF MappingSpec
-----------------------------------------------------------------------------
(* The result analyzer: its parts, as numbers of objects.                  *)

\* A document with objects of at least one byte.
DocInv ==
  /\ doc \in Seq(ToSet(doc)) /\ closed \in BOOLEAN /\ tail \in Nat
  /\ \A k \in DOMAIN doc : doc[k].bytes \in Nat \ {0}

\* The objects start where the recursion says, one after the other.
LEMMA Starts ==
  ASSUME DocInv
  PROVE  \A k \in 1..(Len(doc) + 1) :
           /\ ObjectStart(k) \in Nat
           /\ k <= Len(doc) => ObjectStart(k) < ObjectStart(k + 1)
<1>1. PICK n \in Nat : n = Len(doc) /\ DOMAIN doc = 1..n
  BY DEF DocInv
<1>0. \A j \in 1..n : doc[j].bytes \in Nat \ {0}
  BY <1>1 DEF DocInv
<1> DEFINE gap(j) == IF j \in 1..n THEN doc[j].bytes + 2 ELSE 0
           h == [i \in Nat |-> [x \in Nat |-> x + gap(i + 1)]]
<1>2. \A j \in Nat : gap(j) \in Nat /\ (j \in 1..n => gap(j) > 0 /\ gap(j) = doc[j].bytes + 2)
  BY <1>0
<1>3. PICK F \in [Nat -> Nat] : Iterates(F, 1, h)
  <2>1. \A i \in Nat : i + 1 \in Nat
    OBVIOUS
  <2> HIDE DEF gap
  <2>2. h \in [Nat -> [Nat -> Nat]]
    BY <1>2, <2>1
  <2> HIDE DEF h
  <2> QED
    BY <2>2, Recursion
<1>4. F[0] = 1 /\ \A i \in Nat : F[i + 1] = F[i] + gap(i + 1)
  <2> HIDE DEF gap
  <2> QED
    BY <1>3 DEF Iterates
<1>5. ASSUME NEW k \in 1..(n + 1) PROVE ObjectStart(k) = F[k - 1]
  <2> DEFINE Eq(g) == g = [j \in 1..k |-> IF j = 1 THEN 1 ELSE g[j - 1] + doc[j - 1].bytes + 2]
             start == CHOOSE g : Eq(g)
             G == [j \in 1..k |-> F[j - 1]]
  <2>1. Eq(G)
    <3>1. ASSUME NEW j \in 1..k PROVE F[j - 1] = IF j = 1 THEN 1 ELSE G[j - 1] + doc[j - 1].bytes + 2
      <4>1. CASE j = 1
        BY <1>4, <4>1
      <4>2. CASE j # 1
        <5> DEFINE m == j - 2
        <5>1. m \in Nat /\ m + 1 = j - 1 /\ j - 1 \in 1..k /\ j - 1 \in 1..n /\ (j - 1) - 1 = m
          BY <1>1, <4>2
        <5>2. F[m + 1] = F[m] + gap(m + 1) /\ G[j - 1] = F[m] /\ F[m] \in Nat
          <6> HIDE DEF gap, m
          <6> QED
            BY <1>4, <5>1
        <5>3. gap(j - 1) = doc[j - 1].bytes + 2 /\ doc[j - 1].bytes \in Nat
          BY <1>0, <5>1
        <5>4. F[j - 1] = G[j - 1] + (doc[j - 1].bytes + 2) /\ G[j - 1] \in Nat
          <6> HIDE DEF gap, m, G
          <6> QED
            BY <5>1, <5>2, <5>3
        <5> HIDE DEF gap, m, G
        <5> QED
          BY <4>2, <5>3, <5>4
      <4> QED
        BY <4>1, <4>2
    <3>2. G = [j \in 1..k |-> IF j = 1 THEN 1 ELSE G[j - 1] + doc[j - 1].bytes + 2]
      BY <3>1
    <3> HIDE DEF G
    <3> QED
      BY <3>2
  <2>2. Eq(start)
    <3> HIDE DEF Eq
    <3> QED
      BY <2>1
  <2>3. ObjectStart(k) = start[k]
    BY DEF ObjectStart
  <2> HIDE DEF start
  <2> DEFINE T == {i \in 0..(k - 1) : start[i + 1] = F[i]}
  <2>4. 0 \in T
    BY <1>4, <2>2
  <2>5. \A i \in 1..(k - 1) : i - 1 \in T => i \in T
    <3> SUFFICES ASSUME NEW i \in 1..(k - 1), i - 1 \in T PROVE i \in T
      OBVIOUS
    <3>1. i \in 1..n /\ i \in Nat /\ i - 1 \in Nat /\ (i - 1) + 1 = i /\ (i + 1) - 1 = i /\ i + 1 \in 1..k /\ i + 1 # 1
          /\ F[i - 1] \in Nat
      OBVIOUS
    <3>2. start[i] = F[i - 1]
      BY <3>1
    <3>3. start[i + 1] = start[i] + doc[i].bytes + 2
      BY <2>2, <3>1
    <3>4. F[i] = F[i - 1] + gap(i) /\ gap(i) = doc[i].bytes + 2 /\ doc[i].bytes \in Nat
      <4> HIDE DEF gap
      <4> QED
        BY <1>0, <1>2, <1>4, <3>1
    <3> HIDE DEF gap
    <3> QED
      BY <3>1, <3>2, <3>3, <3>4
  <2> HIDE DEF T
  <2>6. k - 1 \in Nat /\ k - 1 \in 0..(k - 1) /\ (k - 1) + 1 = k
    OBVIOUS
  <2>7. \A i \in 0..(k - 1) : i \in T
    BY <2>4, <2>5, <2>6, UpTo
  <2>8. k - 1 \in T
    BY <2>6, <2>7
  <2> QED
    BY <2>3, <2>6, <2>8 DEF T
<1> SUFFICES ASSUME NEW k \in 1..(n + 1)
             PROVE  /\ ObjectStart(k) \in Nat
                    /\ k <= n => ObjectStart(k) < ObjectStart(k + 1)
  BY <1>1
<1>6. k - 1 \in Nat /\ (k - 1) + 1 = k /\ (k + 1) - 1 = k /\ F[k - 1] \in Nat
      /\ (k <= n => k + 1 \in 1..(n + 1) /\ k \in 1..n)
  OBVIOUS
<1>7. ObjectStart(k) = F[k - 1] /\ (k <= n => ObjectStart(k + 1) = F[k])
  BY <1>5, <1>6
<1>8. F[k] = F[k - 1] + gap(k) /\ gap(k) \in Nat /\ (k <= n => gap(k) > 0)
  <2> HIDE DEF gap
  <2> QED
    BY <1>2, <1>4, <1>6
<1> HIDE DEF gap
<1> QED
  BY <1>6, <1>7, <1>8

\* Objects start in the order of the document.
LEMMA StartsGrow ==
  ASSUME DocInv, NEW j \in 1..(Len(doc) + 1), NEW k \in 1..(Len(doc) + 1), j <= k
  PROVE  ObjectStart(j) <= ObjectStart(k)
<1>1. PICK n \in Nat : n = Len(doc)
  BY DEF DocInv
<1>2. \A i \in 1..(n + 1) : ObjectStart(i) \in Nat /\ (i <= n => ObjectStart(i) < ObjectStart(i + 1))
  BY <1>1, Starts
<1> DEFINE T == {i \in Nat : j + i <= n + 1 => ObjectStart(j) <= ObjectStart(j + i)}
<1>3. j \in 1..(n + 1) /\ k \in 1..(n + 1)
  BY <1>1
<1>4. 0 \in T
  <2>1. ObjectStart(j) \in Nat /\ j + 0 = j
    BY <1>2, <1>3
  <2> QED
    BY <2>1
<1>5. \A i \in 1..(k - j) : i - 1 \in T => i \in T
  <2> SUFFICES ASSUME NEW i \in 1..(k - j), i - 1 \in T, j + i <= n + 1
               PROVE  i \in Nat /\ ObjectStart(j) <= ObjectStart(j + i)
    OBVIOUS
  <2> DEFINE m == j + (i - 1)
  <2>1. i \in Nat /\ m \in 1..(n + 1) /\ m <= n /\ m + 1 = j + i
    BY <1>3
  <2>2. ObjectStart(j) <= ObjectStart(m)
    BY <2>1
  <2> HIDE DEF m
  <2>3. ObjectStart(m) < ObjectStart(m + 1) /\ ObjectStart(m) \in Nat /\ ObjectStart(j) \in Nat
    BY <1>2, <1>3, <2>1
  <2>4. j + i \in 1..(n + 1) /\ ObjectStart(j + i) \in Nat
    BY <1>2, <1>3, <2>1
  <2> QED
    BY <2>1, <2>2, <2>3, <2>4
<1> HIDE DEF T
<1>6. k - j \in Nat /\ k - j \in 0..(k - j) /\ j + (k - j) = k
  BY <1>3
<1>7. \A i \in 0..(k - j) : i \in T
  BY <1>4, <1>5, <1>6, UpTo
<1>8. k - j \in T
  BY <1>6, <1>7
<1> QED
  BY <1>3, <1>6, <1>8 DEF T

\* There are fewer cuts than threads: a cut has a target of its own, between the starts
\* of the object before it and of the one after it.
LEMMA CutsAre ==
  ASSUME DocInv, NEW whole \in 1..Len(doc), NEW begun \in whole..(whole + 1), NEW n \in Nat, n > 1
  PROVE  /\ CutsBefore(n, begun) \in SUBSET (2..begun)
         /\ IsFiniteSet(CutsBefore(n, begun)) /\ Cardinality(CutsBefore(n, begun)) <= n - 1
<1>1. PICK len \in Nat : len = Len(doc)
  BY DEF DocInv
<1> DEFINE cuts == CutsBefore(n, begun)
           target(k) == (Span * k) \div n
           Hits(j, k) == target(k) <= ObjectStart(j) /\ (j > 2 => target(k) > ObjectStart(j - 1))
           own == [j \in cuts |-> CHOOSE k \in 1..(n - 1) : Hits(j, k)]
<1>2. len > 0 /\ begun \in 1..(len + 1)
  BY <1>1
<1>3. cuts \in SUBSET (2..begun)
  BY DEF CutsBefore
<1>4. cuts \in SUBSET (2..(len + 1))
  BY <1>2, <1>3
<1>5. \A k \in 1..(n - 1) : target(k) \in Nat
  <2>1. Span \in Nat
    <3>1. len \in 1..len /\ len \in 1..(len + 1) /\ DOMAIN doc = 1..len
      BY <1>1 DEF DocInv
    <3>2. ObjectStart(len) \in Nat /\ doc[len].bytes \in Nat /\ tail \in Nat
      BY <1>1, <3>1, Starts DEF DocInv
    <3> QED
      BY <1>1, <3>2 DEF Span
  <2> SUFFICES ASSUME NEW k \in 1..(n - 1) PROVE target(k) \in Nat
    OBVIOUS
  <2>2. Span * k \in Nat /\ n \in Nat \ {0}
    BY <2>1
  <2> QED
    BY <2>2, Division
<1>6. \A j \in cuts : \E k \in 1..(n - 1) : Hits(j, k)
  BY DEF CutsBefore, Targets
<1>7. \A j \in cuts : own[j] \in 1..(n - 1) /\ Hits(j, own[j])
  <2> HIDE DEF cuts, Hits
  <2> QED
    BY <1>6
<1>8. ASSUME NEW j \in cuts, NEW k \in cuts, own[j] = own[k], j < k PROVE FALSE
  <2> HIDE DEF cuts, own
  <2>1. j \in 1..(len + 1) /\ k - 1 \in 1..(len + 1) /\ j <= k - 1 /\ k > 2
    BY <1>4, <1>8
  <2>2. ObjectStart(j) <= ObjectStart(k - 1)
    BY <1>1, <2>1, StartsGrow
  <2>3. ObjectStart(j) \in Nat /\ ObjectStart(k - 1) \in Nat
    BY <1>1, <2>1, Starts
  <2>4. target(own[j]) <= ObjectStart(j) /\ target(own[k]) > ObjectStart(k - 1) /\ own[j] \in 1..(n - 1)
    BY <1>7, <2>1
  <2>5. target(own[j]) \in Nat
    <3> HIDE DEF target
    <3> QED
      BY <1>5, <2>4
  <2> HIDE DEF target
  <2> QED
    BY <1>8, <2>2, <2>3, <2>4, <2>5
<1>9. own \in Injection(cuts, 1..(n - 1))
  <2>1. own \in [cuts -> 1..(n - 1)]
    <3> DEFINE pick(j) == CHOOSE k \in 1..(n - 1) : Hits(j, k)
    <3>1. own = [j \in cuts |-> pick(j)]
      OBVIOUS
    <3>2. \A j \in cuts : pick(j) \in 1..(n - 1)
      BY <1>7
    <3> HIDE DEF cuts, own, pick
    <3> QED
      BY <3>1, <3>2
  <2>2. \A j, k \in cuts : j # k => j < k \/ k < j
    BY <1>4
  <2>3. \A j, k \in cuts : own[j] = own[k] => j = k
    <3> HIDE DEF cuts, own
    <3> QED
      BY <1>8, <2>2
  <2> HIDE DEF cuts, own
  <2> QED
    BY <2>1, <2>3 DEF Injection, IsInjective
<1>10. IsFiniteSet(1..(n - 1)) /\ Cardinality(1..(n - 1)) = n - 1
  <2>1. 1 \in Int /\ n - 1 \in Int /\ ~(1 > n - 1) /\ (n - 1) - 1 + 1 = n - 1
    OBVIOUS
  <2> QED
    BY <2>1, FS_Interval
<1>11. IsFiniteSet(cuts) /\ Cardinality(cuts) <= n - 1
  <2> HIDE DEF cuts, own
  <2> QED
    BY <1>9, <1>10, FS_Injection
<1> QED
  BY <1>3, <1>11

\* A scan of results.json has seen so many whole objects, and so many that begin.
Scanned(whole, begun) ==
  /\ whole \in 0..Len(doc) /\ begun \in whole..(whole + 1)
  /\ whole = Len(doc) /\ closed => begun = whole

\* That is what scans see.
LEMMA ScansAre ==
  ASSUME DocInv, NEW seen \in Scans
  PROVE  Scanned(seen[1], seen[2])
<1>1. PICK len \in Nat : len = Len(doc)
  BY DEF DocInv
<1>2. Begun \in len..(len + 1) /\ (closed => Begun = len)
  BY <1>1 DEF Begun
<1>3. seen[1] \in 0..len /\ seen[2] \in seen[1]..(IF seen[1] = len THEN Begun ELSE seen[1] + 1)
  BY <1>1 DEF Scans
<1> QED
  BY <1>1, <1>2, <1>3 DEF Scanned

\* What PartsPartition says, of any parts of the whole objects that were seen.
Partition(parts, n, whole) ==
  /\ Len(parts) \in 2..n
  /\ parts[1].first = 1 /\ Last(parts).last = whole
  /\ \A i \in DOMAIN parts : \/ parts[i].first <= parts[i].last
                             \/ i = Len(parts) /\ (~closed \/ whole < Len(doc))
  /\ \A i \in 1..(Len(parts) - 1) : parts[i + 1].first = parts[i].last + 1

\* Parts of the document, the last of which may be empty.
InDocument(parts) ==
  /\ Len(parts) \in Nat /\ DOMAIN parts = 1..Len(parts)
  /\ \A i \in DOMAIN parts : /\ parts[i].first \in 1..(Len(doc) + 1) /\ parts[i].last \in 0..Len(doc)
                             /\ parts[i].first <= parts[i].last + 1

\* The boundaries are a partition, when there are any.
LEMMA BoundariesPartition ==
  ASSUME DocInv, NEW whole, NEW begun, Scanned(whole, begun), NEW n \in Nat, n > 1,
         Len(Boundaries(n, whole, begun)) > 1
  PROVE  /\ Partition(Boundaries(n, whole, begun), n, whole)
         /\ InDocument(Boundaries(n, whole, begun))
<1>1. PICK len \in Nat : len = Len(doc)
  BY DEF DocInv
<1>0. whole \in 0..len /\ begun \in whole..(whole + 1) /\ (whole = len /\ closed => begun = whole)
  BY <1>1 DEF Scanned
<1>2. whole # 0 /\ whole \in 1..Len(doc)
  <2>1. ASSUME whole = 0 PROVE FALSE
    BY <2>1 DEF Boundaries
  <2> QED
    BY <1>0, <1>1, <2>1
<1> DEFINE cuts == CutsBefore(n, begun)
           a == Ascending(cuts)
           firsts == <<1>> \o a
<1>3. cuts \in SUBSET (2..begun) /\ IsFiniteSet(cuts) /\ Cardinality(cuts) <= n - 1
  BY <1>0, <1>2, CutsAre
<1>4. PICK c \in Nat : c = Cardinality(cuts)
  BY <1>3, FS_CardinalityType
<1>5. a \in Seq(Int) /\ Len(a) = c /\ \A k \in 1..c : a[k] \in 2..begun
  <2>1. cuts \in SUBSET Int
    BY <1>3
  <2>2. a \in [1..c -> cuts]
    BY <1>3, <1>4, <2>1, AscendingLists
  <2>3. a \in [1..c -> Int]
    BY <2>1, <2>2
  <2> HIDE DEF a, cuts
  <2> QED
    BY <1>3, <2>2, <2>3
<1>6. \A k, m \in 1..c : k < m => a[k] < a[m]
  <2>1. cuts \in SUBSET Int
    BY <1>3
  <2> HIDE DEF cuts
  <2> QED
    BY <1>3, <1>4, <2>1, AscendingLists
<1> DEFINE parts == PartsFrom(firsts, whole)
<1>10. Boundaries(n, whole, begun) = parts
  BY <1>2 DEF Boundaries
<1> HIDE DEF a
<1>7. PICK m \in Nat : m = c + 1
  OBVIOUS
<1>8. firsts \in Seq(Int) /\ Len(firsts) = m /\ firsts[1] = 1 /\ \A k \in 1..c : firsts[k + 1] = a[k]
  BY <1>5, <1>7, SMTT(30)
<1>9. DOMAIN firsts = 1..m
  BY <1>8
<1> HIDE DEF firsts
<1>11. DOMAIN parts = 1..m
       /\ \A i \in 1..m : /\ parts[i].first = firsts[i]
                          /\ parts[i].last = IF i = m THEN whole ELSE firsts[i + 1] - 1
  BY <1>8, <1>9 DEF PartsFrom
<1>12. Len(parts) = m
  BY <1>11
<1> HIDE DEF parts
<1>13. m \in 2..n
  BY <1>3, <1>4, <1>7, <1>10, <1>12
<1>14. \A i \in 1..m : firsts[i] \in 1..begun
  <2> SUFFICES ASSUME NEW i \in 1..m PROVE firsts[i] \in 1..begun
    OBVIOUS
  <2>1. CASE i = 1
    BY <1>0, <1>2, <1>8, <2>1
  <2>2. CASE i # 1
    <3>1. PICK k \in 1..c : k + 1 = i
      <4>1. i - 1 \in 1..c /\ (i - 1) + 1 = i
        BY <1>7, <2>2
      <4> QED
        BY <4>1
    <3>2. firsts[i] = a[k] /\ a[k] \in 2..begun
      BY <1>5, <1>8, <3>1
    <3> QED
      BY <1>3, <3>2
  <2> QED
    BY <2>1, <2>2
<1>15. \A i \in 1..(m - 1) : firsts[i] < firsts[i + 1]
  <2> SUFFICES ASSUME NEW i \in 1..(m - 1) PROVE firsts[i] < firsts[i + 1]
    OBVIOUS
  <2>1. i \in 1..c /\ firsts[i + 1] = a[i] /\ a[i] \in 2..begun
    BY <1>5, <1>7, <1>8
  <2>2. CASE i = 1
    BY <1>3, <1>8, <2>1, <2>2
  <2>3. CASE i # 1
    <3>1. PICK k \in 1..c : k + 1 = i
      <4>1. i - 1 \in 1..c /\ (i - 1) + 1 = i
        BY <2>1, <2>3
      <4> QED
        BY <4>1
    <3>2. firsts[i] = a[k] /\ a[k] < a[i]
      BY <1>6, <1>8, <2>1, <3>1
    <3> QED
      BY <2>1, <3>2
  <2> QED
    BY <2>2, <2>3
<1>16. ASSUME NEW i \in 1..m PROVE parts[i].first <= parts[i].last \/ (i = m /\ (~closed \/ whole < len))
  <2>1. CASE i = m
    BY <1>0, <1>11, <1>14, <2>1
  <2>2. CASE i # m
    <3>1. i \in 1..(m - 1) /\ i + 1 \in 1..m
      BY <2>2
    <3>2. firsts[i] < firsts[i + 1] /\ firsts[i] \in 1..begun /\ firsts[i + 1] \in 1..begun
      BY <1>14, <1>15, <3>1
    <3> QED
      BY <1>0, <1>11, <2>2, <3>2
  <2> QED
    BY <2>1, <2>2
<1>17. ASSUME NEW i \in 1..(m - 1) PROVE parts[i + 1].first = parts[i].last + 1
  <2>1. i \in 1..m /\ i + 1 \in 1..m /\ i # m
    OBVIOUS
  <2>2. parts[i + 1].first = firsts[i + 1] /\ parts[i].last = firsts[i + 1] - 1 /\ firsts[i + 1] \in 1..begun
    BY <1>11, <1>14, <2>1
  <2> QED
    BY <1>3, <2>2
<1>18. parts[1].first = 1 /\ parts[m].last = whole
  BY <1>8, <1>11, <1>13
<1>19. Partition(parts, n, whole)
  BY <1>1, <1>11, <1>12, <1>13, <1>16, <1>17, <1>18 DEF Partition, Last
<1>20. ASSUME NEW i \in 1..m
       PROVE  /\ parts[i].first \in 1..(len + 1) /\ parts[i].last \in 0..len
              /\ parts[i].first <= parts[i].last + 1
  <2>1. firsts[i] \in 1..(len + 1)
    BY <1>0, <1>14
  <2>2. CASE i = m
    BY <1>0, <1>11, <1>14, <2>1, <2>2
  <2>3. CASE i # m
    <3>1. i \in 1..(m - 1) /\ i + 1 \in 1..m
      BY <2>3
    <3>2. firsts[i] < firsts[i + 1] /\ firsts[i + 1] \in 1..(len + 1)
      BY <1>0, <1>14, <1>15, <3>1
    <3>3. parts[i].first = firsts[i] /\ parts[i].last = firsts[i + 1] - 1
      BY <1>11, <2>3
    <3> HIDE DEF parts, firsts
    <3> QED
      BY <1>0, <2>1, <3>2, <3>3
  <2> QED
    BY <2>2, <2>3
<1>21. InDocument(parts)
  BY <1>1, <1>11, <1>12, <1>20 DEF InDocument
<1> QED
  BY <1>10, <1>19, <1>21
-----------------------------------------------------------------------------
(* The run of the analyzer.                                                *)

\* The parts are what the code takes for boundaries of what its scan has seen: all of
\* results.json, unless a failure has gone unnoticed.
Divided ==
  \E whole, begun : /\ Scanned(whole, begun) /\ chunks = Boundaries(nThreads, whole, begun)
                    /\ silent = 0 => whole = Len(doc)

\* An analysis that is under way has its parts, and returned nothing yet; a single part
\* leaves .analyze_tmp as it was.
PhaseInv ==
  /\ silent \in 0..MaxSilent
  /\ pc \in {"idle", "single", "parts", "merge"} /\ nThreads \in Nat /\ leftovers \in BOOLEAN
  /\ outcome = "ok" => pc = "idle"
  /\ pc = "single" => Len(chunks) = 1 /\ (tmp # NoFiles <=> leftovers)
  /\ pc \in {"parts", "merge"} => nThreads > 1 /\ Len(chunks) > 1 /\ Divided

\* .analyze_tmp is the one that was found or none, as TempDirRemoved says.
TempInv ==
  /\ outcome = "ok" /\ Len(chunks) > 1 => tmp = NoFiles
  /\ outcome = "ok" /\ Len(chunks) = 1 => (tmp # NoFiles <=> leftovers)

\* The inductive invariant.
AnalyzerInv == DocInv /\ PhaseInv /\ TempInv

\* The initial states satisfy the invariant.
LEMMA AnalyzerInit == Init => AnalyzerInv
<1> SUFFICES ASSUME Init PROVE AnalyzerInv
  OBVIOUS
<1>1. PICK d \in Documents : doc = d.phrases /\ closed = d.closed /\ tail = d.tail
  BY DEF Init
<1>2. DocInv
  BY <1>1, AnalyzerAssumption DEF DocInv
<1>3. pc = "idle" /\ outcome = "none" /\ nThreads = 0 /\ leftovers = FALSE /\ silent = 0
  BY DEF Init
<1>4. 0 \in 0..MaxSilent
  BY AnalyzerAssumption
<1>5. PhaseInv /\ TempInv
  BY <1>3, <1>4 DEF PhaseInv, TempInv
<1> QED
  BY <1>2, <1>5 DEF AnalyzerInv

\* What nobody notices is counted.
LEMMA UnnoticedIs ==
  ASSUME silent \in 0..MaxSilent, NEW k \in 0..1, Unnoticed(k)
  PROVE  silent' \in 0..MaxSilent /\ (silent' = 0 => silent = 0 /\ k = 0)
<1>1. silent' = silent + k /\ silent' <= MaxSilent /\ MaxSilent \in Nat
  BY AnalyzerAssumption DEF Unnoticed
<1> QED
  BY <1>1

\* No step but Analyze takes back a failure.
LEMMA SilentGrows ==
  ASSUME silent \in 0..MaxSilent,
         \/ SinglePhrase \/ SingleEnds \/ ParseError \/ JoinThreads \/ MergeLength \/ MergeEnds
         \/ AnalysisFails \/ UNCHANGED vars
         \/ \E i \in Parts : PartPhrase(i) \/ PartEnds(i) \/ PartFails(i)
  PROVE  silent' \in 0..MaxSilent /\ (silent' = 0 => silent = 0)
<1>1. CASE \/ SinglePhrase \/ JoinThreads \/ AnalysisFails \/ UNCHANGED vars
           \/ \E i \in Parts : PartPhrase(i)
  <2>1. silent' = silent
    BY <1>1 DEF SinglePhrase, JoinThreads, AnalysisFails, PartPhrase, vars
  <2> QED
    BY <2>1
<1>2. CASE \/ SingleEnds \/ ParseError \/ MergeLength \/ MergeEnds
           \/ \E i \in Parts : PartEnds(i) \/ PartFails(i)
  <2>1. \E P \in BOOLEAN : Unnoticed(IF P THEN 1 ELSE 0)
    <3>1. CASE SingleEnds
      BY <3>1 DEF SingleEnds
    <3>2. CASE ParseError
      BY <3>2 DEF ParseError
    <3>3. CASE MergeLength
      BY <3>3 DEF MergeLength
    <3>4. CASE MergeEnds
      BY <3>4 DEF MergeEnds
    <3>5. ASSUME NEW i \in Parts, PartEnds(i) \/ PartFails(i)
          PROVE  \E P \in BOOLEAN : Unnoticed(IF P THEN 1 ELSE 0)
      BY <3>5 DEF PartEnds, PartFails
    <3> QED
      BY <1>2, <3>1, <3>2, <3>3, <3>4, <3>5
  <2>2. PICK P \in BOOLEAN : Unnoticed(IF P THEN 1 ELSE 0)
    BY <2>1
  <2>3. (IF P THEN 1 ELSE 0) \in 0..1
    OBVIOUS
  <2> QED
    BY <2>2, <2>3, UnnoticedIs
<1> QED
  BY <1>1, <1>2

\* Every step of the analyzer preserves the invariant.
LEMMA AnalyzerStep == AnalyzerInv /\ [Next]_vars => AnalyzerInv'
<1> SUFFICES ASSUME AnalyzerInv, [Next]_vars PROVE AnalyzerInv'
  OBVIOUS
<1> USE DEF AnalyzerInv
<1>1. doc' = doc /\ closed' = closed /\ tail' = tail
  BY DEF Next, Analyze, SinglePhrase, SingleEnds, ParseError, PartPhrase, PartEnds, PartFails,
         ThreadEnds, JoinThreads, MergeLength, MergeEnds, AnalysisFails, NoMoreAnalyses, vars, results
<1>2. DocInv'
  BY <1>1 DEF DocInv
<1> SUFFICES PhaseInv' /\ TempInv'
  BY <1>2
<1>3. \A n, whole, begun : Boundaries(n, whole, begun)' = Boundaries(n, whole, begun)
  BY <1>1 DEF Boundaries, CutsBefore, Targets, Span, ObjectStart, PartsFrom
<1>15. \A whole, begun : Scanned(whole, begun)' = Scanned(whole, begun)
  BY <1>1 DEF Scanned
<1>4. ASSUME NEW n \in ThreadCounts, Analyze(n) PROVE PhaseInv' /\ TempInv'
  <2>1. n \in Nat
    BY AnalyzerAssumption
  <2>2. PICK seen \in Scans :
          LET split == IF n > 1 THEN Boundaries(n, seen[1], seen[2]) ELSE <<>>
          IN  /\ pc' = (IF Len(split) > 1 THEN "parts" ELSE "single")
              /\ chunks' = (IF Len(split) > 1 THEN split ELSE <<[first |-> 1, last |-> Len(doc)]>>)
              /\ silent' = (IF Len(split) > 1 /\ seen[1] < Len(doc) THEN 1 ELSE 0)
              /\ silent' <= MaxSilent
    BY <1>4 DEF Analyze
  <2> DEFINE split == IF n > 1 THEN Boundaries(n, seen[1], seen[2]) ELSE <<>>
  <2>3. /\ nThreads' = n /\ outcome' = "none" /\ leftovers' = (tmp # NoFiles) /\ tmp' = tmp
        /\ pc' = (IF Len(split) > 1 THEN "parts" ELSE "single")
        /\ chunks' = (IF Len(split) > 1 THEN split ELSE <<[first |-> 1, last |-> Len(doc)]>>)
        /\ silent' = (IF Len(split) > 1 /\ seen[1] < Len(doc) THEN 1 ELSE 0)
    BY <1>4, <2>2 DEF Analyze
  <2>4. silent' \in 0..MaxSilent
    <3>1. silent' \in {0, 1} /\ silent' <= MaxSilent /\ MaxSilent \in Nat
      BY <2>2, AnalyzerAssumption
    <3> QED
      BY <3>1
  <2>5. CASE Len(split) > 1
    <3>1. n > 1
      <4>1. ASSUME ~(n > 1) PROVE FALSE
        <5>1. split = <<>> /\ Len(<<>>) = 0
          BY <4>1
        <5> QED
          BY <2>5, <5>1
      <4> QED
        BY <4>1
    <3>2. chunks' = Boundaries(n, seen[1], seen[2]) /\ Len(chunks') > 1 /\ pc' = "parts"
          /\ silent' = (IF seen[1] < Len(doc) THEN 1 ELSE 0)
      BY <2>3, <2>5, <3>1
    <3>3. Scanned(seen[1], seen[2])
      BY ScansAre
    <3>4. silent' = 0 => seen[1] = Len(doc)
      <4>1. seen[1] \in 0..Len(doc) /\ Len(doc) \in Nat
        BY <3>3 DEF Scanned, DocInv
      <4> QED
        BY <3>2, <4>1
    <3>5. Divided'
      <4>1. chunks' = Boundaries(nThreads, seen[1], seen[2])'
        BY <1>3, <2>3, <3>2
      <4> QED
        BY <1>1, <1>15, <3>3, <3>4, <4>1 DEF Divided
    <3> HIDE DEF split
    <3> QED
      BY <2>1, <2>3, <2>4, <3>1, <3>2, <3>5 DEF PhaseInv, TempInv
  <2>6. CASE ~(Len(split) > 1)
    <3>1. pc' = "single" /\ chunks' = <<[first |-> 1, last |-> Len(doc)]>>
      BY <2>3, <2>6
    <3>2. Len(chunks') = 1
      BY <3>1
    <3> HIDE DEF split
    <3>3. tmp' # NoFiles' <=> leftovers'
      BY <2>3 DEF NoFiles
    <3> QED
      BY <2>1, <2>3, <2>4, <3>1, <3>2, <3>3 DEF PhaseInv, TempInv
  <2> QED
    BY <2>5, <2>6
<1>5. NoFiles' = NoFiles
  BY DEF NoFiles
<1>16. ASSUME chunks' = chunks, nThreads' = nThreads, silent' = 0 => silent = 0, Divided
       PROVE  Divided'
  BY <1>1, <1>3, <1>15, <1>16 DEF Divided
<1>17. silent \in 0..MaxSilent
  BY DEF PhaseInv
<1>6. CASE SinglePhrase
  <2>1. silent' \in 0..MaxSilent
    BY <1>6, <1>17, SilentGrows
  <2> QED
    BY <1>5, <1>6, <2>1 DEF SinglePhrase, PhaseInv, TempInv
<1>7. CASE SingleEnds
  <2>1. /\ Len(chunks) = 1 /\ chunks' = chunks /\ tmp' = tmp /\ pc' = "idle" /\ (tmp # NoFiles <=> leftovers)
        /\ nThreads' = nThreads /\ leftovers' = leftovers
    BY <1>7 DEF SingleEnds, Return, PhaseInv
  <2>2. ~(Len(chunks') > 1)
    <3>1. ASSUME Len(chunks') > 1 PROVE FALSE
      <4>1. 1 > 1
        BY <2>1, <3>1
      <4> QED
        BY <4>1
    <3> QED
      BY <3>1
  <2>3. silent' \in 0..MaxSilent
    BY <1>7, <1>17, SilentGrows
  <2> QED
    BY <1>5, <2>1, <2>2, <2>3 DEF PhaseInv, TempInv
<1>8. CASE ParseError \/ AnalysisFails
  <2>1. pc' = "idle" /\ outcome' = "failed" /\ nThreads' = nThreads /\ leftovers' = leftovers
    BY <1>8 DEF ParseError, AnalysisFails, Return
  <2>2. silent' \in 0..MaxSilent
    BY <1>8, <1>17, SilentGrows
  <2> QED
    BY <2>1, <2>2 DEF PhaseInv, TempInv
<1>9. ASSUME NEW i \in Parts, PartPhrase(i) \/ PartEnds(i) \/ PartFails(i) PROVE PhaseInv' /\ TempInv'
  <2>1. silent' \in 0..MaxSilent /\ (silent' = 0 => silent = 0)
    BY <1>9, <1>17, SilentGrows
  <2>2. /\ pc = "parts" /\ pc' = pc /\ chunks' = chunks /\ nThreads' = nThreads /\ outcome' = outcome
        /\ leftovers' = leftovers
    BY <1>9 DEF PartPhrase, PartEnds, PartFails, ThreadEnds
  <2>3. Divided'
    BY <1>16, <2>1, <2>2 DEF PhaseInv
  <2> QED
    BY <2>1, <2>2, <2>3 DEF PhaseInv, TempInv
<1>10. CASE JoinThreads
  <2>1. silent' \in 0..MaxSilent /\ (silent' = 0 => silent = 0)
    BY <1>10, <1>17, SilentGrows
  <2>2. /\ pc = "parts" /\ pc' \in {"idle", "merge"} /\ chunks' = chunks /\ nThreads' = nThreads
        /\ leftovers' = leftovers /\ (outcome' = "failed" \/ (outcome' = outcome /\ pc' = "merge"))
    BY <1>10 DEF JoinThreads, Return
  <2>3. Divided'
    BY <1>16, <2>1, <2>2 DEF PhaseInv
  <2> QED
    BY <2>1, <2>2, <2>3 DEF PhaseInv, TempInv
<1>11. CASE MergeLength
  <2>1. silent' \in 0..MaxSilent /\ (silent' = 0 => silent = 0)
    BY <1>11, <1>17, SilentGrows
  <2>2. /\ pc = "merge" /\ pc' = pc /\ chunks' = chunks /\ nThreads' = nThreads /\ outcome' = outcome
        /\ leftovers' = leftovers
    BY <1>11 DEF MergeLength
  <2>3. Divided'
    BY <1>16, <2>1, <2>2 DEF PhaseInv
  <2> QED
    BY <2>1, <2>2, <2>3 DEF PhaseInv, TempInv
<1>12. CASE MergeEnds
  <2>1. Len(chunks) > 1 /\ chunks' = chunks /\ tmp' = NoFiles /\ pc' = "idle"
        /\ nThreads' = nThreads /\ leftovers' = leftovers
    BY <1>12 DEF MergeEnds, Return, PhaseInv
  <2>2. ~(Len(chunks') = 1)
    <3>1. ASSUME Len(chunks') = 1 PROVE FALSE
      <4>1. 1 > 1
        BY <2>1, <3>1
      <4> QED
        BY <4>1
    <3> QED
      BY <3>1
  <2>3. silent' \in 0..MaxSilent
    BY <1>12, <1>17, SilentGrows
  <2> QED
    BY <1>5, <2>1, <2>2, <2>3 DEF PhaseInv, TempInv
<1>14. CASE UNCHANGED vars
  <2>1. Divided => Divided'
    BY <1>14, <1>16 DEF vars
  <2> QED
    BY <1>5, <1>14, <2>1 DEF vars, PhaseInv, TempInv
<1> QED
  BY <1>4, <1>6, <1>7, <1>8, <1>9, <1>10, <1>11, <1>12, <1>14 DEF Next, NoMoreAnalyses

\* The invariant of the analyzer.
THEOREM AnalyzerInvariance == Spec => []AnalyzerInv
  BY AnalyzerInit, AnalyzerStep, PTL DEF Spec

\* ResultAnalyzer.hpp:20-26: the parts of an analysis are a partition of the objects, of one
\* object each at least, however many threads and wherever their targets fall; when a failure
\* has gone unnoticed, of the objects that were seen.
THEOREM PartsAreAPartition == Spec => []PartsPartition
<1>1. AnalyzerInv => PartsPartition
  <2> SUFFICES ASSUME AnalyzerInv, pc \in {"parts", "merge"} PROVE PartsPartition
    BY DEF PartsPartition
  <2>1. DocInv /\ nThreads \in Nat /\ nThreads > 1 /\ Len(chunks) > 1 /\ silent \in 0..MaxSilent
        /\ Divided
    BY DEF AnalyzerInv, PhaseInv
  <2>2. PICK whole, begun : /\ Scanned(whole, begun) /\ chunks = Boundaries(nThreads, whole, begun)
                            /\ silent = 0 => whole = Len(doc)
    BY <2>1 DEF Divided
  <2>3. Partition(chunks, nThreads, whole)
    BY <2>1, <2>2, BoundariesPartition
  <2>5. whole \in 0..Len(doc) /\ Len(doc) \in Nat
    BY <2>1, <2>2 DEF Scanned, DocInv
  <2>4. whole <= Len(doc) /\ (whole < Len(doc) => silent > 0)
    BY <2>1, <2>2, <2>5
  <2> QED
    BY <2>2, <2>3, <2>4 DEF PartsPartition, Partition, Parts
<1> QED
  BY <1>1, AnalyzerInvariance, PTL

\* .analyze_tmp is gone when an analysis in parts returns, and an analysis in one part
\* leaves it as it was.
THEOREM TempDirIsRemoved == Spec => []TempDirRemoved
<1>1. AnalyzerInv => TempDirRemoved
  BY DEF AnalyzerInv, PhaseInv, TempInv, TempDirRemoved
<1> QED
  BY <1>1, AnalyzerInvariance, PTL
-----------------------------------------------------------------------------
(* The SAX handler: what it makes of a results.json, event by event.       *)

\* From g the events lead to h.
Runs(g, events, h) ==
  \E F : /\ F[0] = g /\ F[Len(events)] = h
         /\ \A k \in 1..Len(events) : F[k] = Handle(F[k - 1], events[k])

\* A holds what is made of the events at each set of places up to n.
HandlesAll(A, g, events, n) ==
  /\ DOMAIN A = SUBSET (1..n) /\ A[{}] = g /\ A = [s \in SUBSET (1..n) |-> A[s]]
  /\ \A s \in SUBSET (1..n) : s # {} => A[s] = Handle(A[s \ {Max(s)}], events[Max(s)])

\* There is such a function.
LEMMA HandlesExist ==
  ASSUME NEW g, NEW events, NEW n \in Nat
  PROVE  \E A : HandlesAll(A, g, events, n)
<1> DEFINE T == {k \in 0..n : \E A : HandlesAll(A, g, events, k)}
<1>1. 0 \in T
  <2> DEFINE A == [s \in SUBSET (1..0) |-> g]
  <2>1. 1..0 = {}
    OBVIOUS
  <2>2. DOMAIN A = SUBSET (1..0) /\ A[{}] = g /\ A = [s \in SUBSET (1..0) |-> A[s]]
    OBVIOUS
  <2>3. \A s \in SUBSET (1..0) : s = {}
    BY <2>1
  <2> HIDE DEF A
  <2>4. HandlesAll(A, g, events, 0)
    BY <2>2, <2>3 DEF HandlesAll
  <2> QED
    BY <2>4
<1>2. ASSUME NEW k \in 1..n, k - 1 \in T PROVE k \in T
  <2>1. PICK B : HandlesAll(B, g, events, k - 1)
    BY <1>2
  <2> DEFINE A == [s \in SUBSET (1..k) |-> IF k \in s THEN Handle(B[s \ {k}], events[k]) ELSE B[s]]
             P(s) == A[s] = Handle(A[s \ {Max(s)}], events[Max(s)])
  <2>2. /\ B[{}] = g
        /\ \A s \in SUBSET (1..(k - 1)) : s # {} => B[s] = Handle(B[s \ {Max(s)}], events[Max(s)])
    BY <2>1 DEF HandlesAll
  <2>3. DOMAIN A = SUBSET (1..k) /\ A[{}] = g /\ A = [s \in SUBSET (1..k) |-> A[s]]
    BY <2>2
  <2>4. /\ \A s \in SUBSET (1..k) : k \in s => A[s] = Handle(B[s \ {k}], events[k])
        /\ \A s \in SUBSET (1..k) : k \notin s => A[s] = B[s]
    OBVIOUS
  <2> HIDE DEF A
  <2>5. ASSUME NEW s \in SUBSET (1..k), s # {} PROVE P(s)
    <3> DEFINE x == Max(s)
               r == s \ {x}
    <3>1. x \in s /\ \A y \in s : y <= x
      BY <2>5, MaxIs
    <3> HIDE DEF x
    <3>2. r \in SUBSET (1..k) /\ \A y \in r : y < x
      BY <3>1
    <3>3. CASE k \in s
      <4>1. x = k
        BY <3>1, <3>3
      <4>2. k \notin r
        BY <4>1
      <4>3. A[r] = B[r]
        BY <2>4, <3>2, <4>2
      <4>4. A[s] = Handle(A[r], events[x])
        BY <2>4, <3>3, <4>1, <4>3
      <4> QED
        BY <4>4 DEF x
    <3>4. CASE k \notin s
      <4>1. s \in SUBSET (1..(k - 1)) /\ k \notin r
        BY <3>4
      <4>2. A[s] = B[s] /\ A[r] = B[r]
        BY <2>4, <3>2, <3>4, <4>1
      <4>3. B[s] = Handle(B[r], events[x])
        BY <2>2, <2>5, <4>1 DEF x
      <4>4. A[s] = Handle(A[r], events[x])
        BY <4>2, <4>3
      <4> QED
        BY <4>4 DEF x
    <3> QED
      BY <3>3, <3>4
  <2>6. HandlesAll(A, g, events, k)
    BY <2>3, <2>5 DEF HandlesAll
  <2> QED
    BY <2>6
<1> HIDE DEF T
<1>3. \A k \in 0..n : k \in T
  BY <1>1, <1>2, UpTo
<1>4. n \in T
  BY <1>3
<1> QED
  BY <1>4 DEF T

\* What the events lead to is what the parser leaves.
LEMMA ParsedRuns ==
  ASSUME NEW E, NEW events \in Seq(E), NEW h, Runs(NewHandler, events, h)
  PROVE  Parsed(events) = h.reported
<1> DEFINE n == Len(events)
           Eq(f) == f = [s \in SUBSET DOMAIN events |->
                           IF s = {} THEN NewHandler
                           ELSE LET x == Max(s) IN Handle(f[s \ {x}], events[x])]
           It == CHOOSE f : Eq(f)
<1>0. n \in Nat /\ DOMAIN events = 1..n
  OBVIOUS
<1>1. Parsed(events) = It[DOMAIN events].reported
  BY DEF Parsed, FoldLeft, MapThenFoldSet
<1>2. PICK A : HandlesAll(A, NewHandler, events, n)
  BY <1>0, HandlesExist
<1> HIDE DEF n
<1>3. Eq(A)
  <2>1. \A s \in SUBSET (1..n) :
          A[s] = IF s = {} THEN NewHandler ELSE LET x == Max(s) IN Handle(A[s \ {x}], events[x])
    BY <1>2 DEF HandlesAll
  <2>2. A = [s \in SUBSET (1..n) |-> A[s]]
    BY <1>2 DEF HandlesAll
  <2> QED
    BY <1>0, <2>1, <2>2
<1>4. Eq(It)
  <2> HIDE DEF Eq
  <2> QED
    BY <1>3
<1>5. \A s \in SUBSET (1..n) :
        It[s] = IF s = {} THEN NewHandler ELSE LET x == Max(s) IN Handle(It[s \ {x}], events[x])
  <2> HIDE DEF It
  <2> QED
    BY <1>0, <1>4
<1> HIDE DEF It
<1>6. PICK F : /\ F[0] = NewHandler /\ F[n] = h
               /\ \A k \in 1..n : F[k] = Handle(F[k - 1], events[k])
  BY DEF Runs, n
<1> DEFINE T == {k \in 0..n : It[1..k] = F[k]}
<1>7. 0 \in T
  <2>1. 1..0 = {} /\ {} \in SUBSET (1..n)
    OBVIOUS
  <2>2. It[{}] = NewHandler
    BY <1>5, <2>1
  <2> QED
    BY <1>0, <1>6, <2>1, <2>2
<1>8. ASSUME NEW k \in 1..n, k - 1 \in T PROVE k \in T
  <2>1. k \in Nat /\ k # 0 /\ k \in 0..n
    BY <1>0
  <2>2. 1..k # {} /\ Max(1..k) = k /\ (1..k) \ {k} = 1..(k - 1)
    BY <2>1, MaxOfFirst
  <2> DEFINE s == 1..k
  <2>3. s \in SUBSET (1..n) /\ s # {} /\ Max(s) = k /\ s \ {k} = 1..(k - 1)
    BY <1>0, <2>1, <2>2
  <2> HIDE DEF s
  <2>4. It[s] = Handle(It[1..(k - 1)], events[k])
    BY <1>5, <2>3
  <2>5. It[1..(k - 1)] = F[k - 1]
    BY <1>8
  <2>6. It[s] = F[k]
    BY <1>6, <2>4, <2>5
  <2> QED
    BY <2>1, <2>6 DEF s
<1> HIDE DEF T
<1>9. \A k \in 0..n : k \in T
  BY <1>0, <1>7, <1>8, UpTo
<1>10. It[1..n] = F[n]
  <2>1. n \in T
    BY <1>0, <1>9
  <2> QED
    BY <2>1 DEF T
<1> QED
  BY <1>0, <1>1, <1>6, <1>10

\* No event, one event, one event more, and one part after the other.
LEMMA RunsNone ==
  ASSUME NEW g
  PROVE  Runs(g, <<>>, g)
<1> DEFINE F == [k \in {0} |-> g]
           e == << >>
<1>1. F[0] = g /\ Len(e) = 0
  OBVIOUS
<1> HIDE DEF F, e
<1>2. \A k \in 1..Len(e) : F[k] = Handle(F[k - 1], e[k])
  BY <1>1
<1> QED
  BY <1>1, <1>2 DEF Runs, e

\* One event more.
LEMMA RunsMore ==
  ASSUME NEW E, NEW s \in Seq(E), NEW e \in E, NEW g, NEW h, Runs(g, s, h)
  PROVE  Runs(g, Append(s, e), Handle(h, e))
<1> DEFINE n == Len(s)
           t == Append(s, e)
<1>1. n \in Nat /\ Len(t) = n + 1 /\ t[n + 1] = e /\ \A k \in 1..n : t[k] = s[k]
  BY Appended
<1> HIDE DEF t, n
<1>2. PICK F : F[0] = g /\ F[n] = h /\ \A k \in 1..n : F[k] = Handle(F[k - 1], s[k])
  BY DEF Runs, n
<1> DEFINE G == [k \in 0..(n + 1) |-> IF k = n + 1 THEN Handle(h, e) ELSE F[k]]
<1>3. G[n + 1] = Handle(h, e) /\ \A k \in 0..n : G[k] = F[k]
  BY <1>1
<1> HIDE DEF G
<1>4. G[0] = g /\ G[n] = h
  BY <1>1, <1>2, <1>3
<1>5. ASSUME NEW k \in 1..(n + 1) PROVE G[k] = Handle(G[k - 1], t[k])
  <2>1. CASE k = n + 1
    <3>1. k - 1 = n
      BY <1>1, <2>1
    <3> QED
      BY <1>1, <1>3, <1>4, <2>1, <3>1
  <2>2. CASE k # n + 1
    <3>1. k \in 1..n /\ k \in 0..n /\ k - 1 \in 0..n
      BY <1>1, <2>2
    <3> QED
      BY <1>1, <1>2, <1>3, <3>1
  <2> QED
    BY <2>1, <2>2
<1> QED
  BY <1>1, <1>3, <1>4, <1>5 DEF Runs, t

\* One part after the other.
LEMMA RunsOn ==
  ASSUME NEW E, NEW s \in Seq(E), NEW t \in Seq(E), NEW g, NEW h, Runs(g, s, h), NEW f, Runs(h, t, f)
  PROVE  Runs(g, s \o t, f)
<1> DEFINE n == Len(s)
           m == Len(t)
           u == s \o t
<1>1. /\ n \in Nat /\ m \in Nat /\ Len(u) = n + m
      /\ \A k \in 1..n : u[k] = s[k]
      /\ \A k \in 1..m : u[n + k] = t[k]
  BY TwoParts, SeqIs
<1>2. PICK F : F[0] = g /\ F[n] = h /\ \A k \in 1..n : F[k] = Handle(F[k - 1], s[k])
  BY DEF Runs
<1>3. PICK G : G[0] = h /\ G[m] = f /\ \A k \in 1..m : G[k] = Handle(G[k - 1], t[k])
  BY DEF Runs
<1> HIDE DEF n, m, u
<1> DEFINE H == [k \in 0..(n + m) |-> IF k <= n THEN F[k] ELSE G[k - n]]
<1>4. \A k \in 0..n : H[k] = F[k]
  BY <1>1
<1>5. \A k \in 0..m : H[n + k] = G[k]
  <2> SUFFICES ASSUME NEW k \in 0..m PROVE H[n + k] = G[k]
    OBVIOUS
  <2>1. n + k \in 0..(n + m) /\ (n + k) - n = k
    BY <1>1
  <2>2. CASE k = 0
    BY <1>1, <1>2, <1>3, <2>1, <2>2
  <2>3. CASE k # 0
    <3>1. ~(n + k <= n)
      BY <1>1, <2>3
    <3> QED
      BY <2>1, <3>1
  <2> QED
    BY <2>2, <2>3
<1> HIDE DEF H
<1>6. H[0] = g /\ H[n + m] = f
  BY <1>1, <1>2, <1>3, <1>4, <1>5
<1>7. ASSUME NEW k \in 1..(n + m) PROVE H[k] = Handle(H[k - 1], u[k])
  <2>1. CASE k <= n
    <3>1. k \in 1..n /\ k \in 0..n /\ k - 1 \in 0..n
      BY <1>1, <2>1
    <3> QED
      BY <1>1, <1>2, <1>4, <3>1
  <2>2. CASE ~(k <= n)
    <3> DEFINE j == k - n
    <3>1. j \in 1..m /\ j \in 0..m /\ j - 1 \in 0..m /\ n + j = k /\ n + (j - 1) = k - 1
      BY <1>1, <2>2
    <3> HIDE DEF j
    <3>2. H[n + j] = G[j] /\ H[n + (j - 1)] = G[j - 1] /\ u[n + j] = t[j]
      BY <1>1, <1>5, <3>1
    <3>3. G[j] = Handle(G[j - 1], t[j])
      BY <1>3, <3>1
    <3> QED
      BY <3>1, <3>2, <3>3
  <2> QED
    BY <2>1, <2>2
<1> QED
  BY <1>1, <1>6, <1>7 DEF Runs, u

\* Objects and arrays begin and end.
LEMMA NestingIs ==
  ASSUME NEW events, NEW n \in Nat
  PROVE  /\ Nesting(events, 0) = 0 /\ Nesting(events, n) \in Int
         /\ n > 0 => Nesting(events, n) = Nesting(events, n - 1)
              + (IF events[n].on \in {"start_object", "start_array"} THEN 1 ELSE 0)
              - (IF events[n].on \in {"end_object", "end_array"} THEN 1 ELSE 0)
<1> DEFINE O == {"start_object", "start_array"}
           C == {"end_object", "end_array"}
           Many(S, k) == {i \in 1..k : events[i].on \in S}
<1>1. ASSUME NEW S, NEW k \in Nat
      PROVE  IsFiniteSet(Many(S, k)) /\ Cardinality(Many(S, k)) \in Nat
  <2>1. IsFiniteSet(1..k)
    BY FS_Interval
  <2>2. IsFiniteSet(Many(S, k))
    BY <2>1, FS_Subset
  <2> QED
    BY <2>2, FS_CardinalityType
<1>2. ASSUME NEW S, n > 0
      PROVE  Cardinality(Many(S, n)) = Cardinality(Many(S, n - 1)) + (IF events[n].on \in S THEN 1 ELSE 0)
  <2> DEFINE A == Many(S, n)
             B == Many(S, n - 1)
  <2>1. n - 1 \in Nat /\ n \notin B
    BY <1>2
  <2>2. IsFiniteSet(B) /\ Cardinality(B) \in Nat
    BY <1>1, <2>1
  <2>3. CASE events[n].on \in S
    <3>1. A = B \cup {n}
      BY <1>2, <2>3
    <3> HIDE DEF A, B
    <3>2. Cardinality(A) = Cardinality(B) + 1
      BY <2>1, <2>2, <3>1, FS_AddElement
    <3> QED
      BY <2>3, <3>2 DEF A, B
  <2>4. CASE events[n].on \notin S
    <3>1. A = B
      BY <1>2, <2>4
    <3> HIDE DEF A, B
    <3>2. Cardinality(A) = Cardinality(B) + 0
      BY <2>2, <3>1
    <3> QED
      BY <2>4, <3>2 DEF A, B
  <2> QED
    BY <2>3, <2>4
<1>3. Nesting(events, 0) = 0
  <2>1. Many(O, 0) = {} /\ Many(C, 0) = {}
    OBVIOUS
  <2>2. Cardinality(Many(O, 0)) = 0 /\ Cardinality(Many(C, 0)) = 0
    BY <2>1, FS_EmptySet
  <2> QED
    BY <2>2 DEF Nesting
<1>4. \A k \in Nat : Nesting(events, k) = Cardinality(Many(O, k)) - Cardinality(Many(C, k))
  BY DEF Nesting
<1> HIDE DEF Many
<1>5. Nesting(events, n) \in Int
  BY <1>1, <1>4
<1>6. ASSUME n > 0
      PROVE  Nesting(events, n) = Nesting(events, n - 1) + (IF events[n].on \in O THEN 1 ELSE 0)
                                                         - (IF events[n].on \in C THEN 1 ELSE 0)
  <2> DEFINE a == Cardinality(Many(O, n))
             b == Cardinality(Many(C, n))
             c == Cardinality(Many(O, n - 1))
             d == Cardinality(Many(C, n - 1))
             x == IF events[n].on \in O THEN 1 ELSE 0
             y == IF events[n].on \in C THEN 1 ELSE 0
  <2>0. n - 1 \in Nat
    BY <1>6
  <2>1. a = c + x /\ b = d + y
    BY <1>2, <1>6
  <2>2. c \in Nat /\ d \in Nat /\ x \in {0, 1} /\ y \in {0, 1}
    BY <1>1, <2>0
  <2>3. Nesting(events, n) = a - b /\ Nesting(events, n - 1) = c - d
    BY <1>4, <2>0
  <2> HIDE DEF a, b, c, d, x, y
  <2>4. Nesting(events, n) = Nesting(events, n - 1) + x - y
    BY <2>1, <2>2, <2>3
  <2> QED
    BY <2>4 DEF x, y
<1> QED
  BY <1>3, <1>5, <1>6

\* The handler inside of the phrases array.
InArray(h, depth, inObject, inWords, skip, words, reported) ==
  /\ DOMAIN h = {"depth", "inPhrasesArray", "inPhraseObject", "inWordsArray", "skipDepth",
                 "currentKey", "start", "words", "sawPhrases", "reported"}
  /\ h.depth = depth /\ h.inPhrasesArray = TRUE /\ h.inPhraseObject = inObject
  /\ h.inWordsArray = inWords /\ h.skipDepth = skip /\ h.words = words /\ h.reported = reported

\* Between two objects, and in a member that is not looked for.
Ready(h, r) == \E w : InArray(h, 2, FALSE, FALSE, NoSkip, w, r) /\ h.currentKey = NoKey
InFurther(h, l, s, r) ==
  /\ InArray(h, 3 + l, TRUE, FALSE, IF l = 0 THEN NoSkip ELSE 4, <<>>, r)
  /\ h.currentKey \notin {"start_offset", "words"} /\ h.start = s

\* In its array of words, of which w are read.
InWords(h, w, s, r) ==
  InArray(h, 4, TRUE, TRUE, NoSkip, w, r) /\ h.currentKey = NoKey /\ h.start = s

\* An event of a member that is not looked for.
LEMMA FurtherEvent ==
  ASSUME NEW s, NEW r, NEW h, NEW l \in Nat, InFurther(h, l, s, r), NEW e, NEW m \in Nat,
         m = l + (IF e.on \in {"start_object", "start_array"} THEN 1 ELSE 0)
               - (IF e.on \in {"end_object", "end_array"} THEN 1 ELSE 0),
         (e.on = "key" /\ m = 0) => e.value \notin {"start_offset", "words"}
  PROVE  InFurther(Handle(h, e), m, s, r)
<1> DEFINE skip(k) == IF k = 0 THEN NoSkip ELSE 4
           d == 3 + l
<1>1. InArray(h, d, TRUE, FALSE, skip(l), <<>>, r)
  BY DEF InFurther
<1>2. h.currentKey \notin {"start_offset", "words"} /\ h.start = s
  BY DEF InFurther
<1>3. NoKey \notin {"start_offset", "words"} /\ NoSkip # 4
  BY DEF NoKey, NoSkip
<1>10. d \in Nat /\ d > 2 /\ (l = 0 => d = 3) /\ (l # 0 => d # 3)
  OBVIOUS
<1>11. \A g : (/\ InArray(g, 3 + m, TRUE, FALSE, skip(m), <<>>, r)
               /\ g.currentKey \notin {"start_offset", "words"} /\ g.start = s) => InFurther(g, m, s, r)
  BY DEF InFurther
<1> HIDE DEF d
<1>4. CASE e.on = "number"
  <2>1. Handle(h, e) = NumberUnsigned(h, e.value)
    BY <1>4 DEF Handle
  <2> DEFINE g == NumberUnsigned(h, e.value)
  <2>2. InArray(g, d, TRUE, FALSE, skip(l), <<>>, r) /\ g.currentKey = NoKey /\ g.start = s
    BY <1>1, <1>2 DEF NumberUnsigned, InArray
  <2>3. m = l
    BY <1>4
  <2> HIDE DEF g
  <2> QED
    BY <1>3, <1>11, <2>1, <2>2, <2>3 DEF d, g
<1>5. CASE e.on = "string"
  <2>1. Handle(h, e) = String(h, e.value)
    BY <1>5 DEF Handle
  <2> DEFINE g == String(h, e.value)
  <2>2. InArray(g, d, TRUE, FALSE, skip(l), <<>>, r) /\ g.currentKey = NoKey /\ g.start = s
    BY <1>1, <1>2 DEF String, InArray
  <2>3. m = l
    BY <1>5
  <2> HIDE DEF g
  <2> QED
    BY <1>3, <1>11, <2>1, <2>2, <2>3 DEF d, g
<1>6. CASE e.on = "key"
  <2>1. Handle(h, e) = Key(h, e.value)
    BY <1>6 DEF Handle
  <2> DEFINE g == Key(h, e.value)
  <2>2. m = l
    BY <1>6
  <2>3. InArray(g, d, TRUE, FALSE, skip(l), <<>>, r) /\ g.start = s
    BY <1>1, <1>2 DEF Key, InArray
  <2>4. g.currentKey \notin {"start_offset", "words"}
    <3>1. CASE l = 0
      <4>1. e.value \notin {"start_offset", "words"}
        BY <1>6, <2>2, <3>1
      <4> QED
        BY <1>1, <1>2, <4>1 DEF Key, InArray
    <3>2. CASE l # 0
      <4>1. h.skipDepth # NoSkip /\ h.depth # 1
        BY <1>1, <1>3, <1>10, <3>2 DEF InArray
      <4>2. g = h
        BY <4>1 DEF Key
      <4> QED
        BY <1>2, <4>2
    <3> QED
      BY <3>1, <3>2
  <2> HIDE DEF g
  <2> QED
    BY <1>11, <2>1, <2>2, <2>3, <2>4 DEF d, g
<1>7. CASE e.on \in {"start_object", "start_array"}
  <2>1. m = l + 1 /\ m # 0 /\ 3 + m = d + 1
    BY <1>7 DEF d
  <2> DEFINE g == SkipFrom(h, d + 1)
  <2>2. Handle(h, e) = g
    <3>1. CASE e.on = "start_object"
      <4>1. Handle(h, e) = StartObject(h)
        BY <3>1 DEF Handle
      <4>2. h.depth = d /\ d # 2
        BY <1>1, <1>10 DEF InArray
      <4> QED
        BY <4>1, <4>2 DEF StartObject
    <3>2. CASE e.on = "start_array"
      <4>1. Handle(h, e) = StartArray(h)
        BY <3>2 DEF Handle
      <4>2. h.depth = d /\ d # 1 /\ h.currentKey # "words"
        BY <1>1, <1>2, <1>10 DEF InArray
      <4> QED
        BY <4>1, <4>2 DEF StartArray
    <3> QED
      BY <1>7, <3>1, <3>2
  <2>3. (IF h.skipDepth = NoSkip /\ h.inPhraseObject THEN d + 1 ELSE h.skipDepth) = 4
    <3>1. CASE l = 0
      <4>1. h.skipDepth = NoSkip /\ h.inPhraseObject /\ d + 1 = 4
        BY <1>1, <1>10, <3>1 DEF InArray
      <4> QED
        BY <4>1
    <3>2. CASE l # 0
      <4>1. h.skipDepth = 4
        BY <1>1, <3>2 DEF InArray
      <4> QED
        BY <1>3, <4>1
    <3> QED
      BY <3>1, <3>2
  <2>4. g = [h EXCEPT !.depth = d + 1, !.skipDepth = 4]
    BY <1>1, <2>3 DEF SkipFrom, InArray
  <2>5. InArray(g, d + 1, TRUE, FALSE, 4, <<>>, r) /\ g.currentKey = h.currentKey /\ g.start = s
    <3> DEFINE d1 == d + 1
    <3> HIDE DEF d1, g
    <3> QED
      BY <1>1, <1>2, <2>4 DEF InArray
  <2> HIDE DEF g
  <2>6. skip(m) = 4
    BY <2>1
  <2> QED
    BY <1>2, <1>11, <2>1, <2>2, <2>5, <2>6
<1>8. CASE e.on \in {"end_object", "end_array"}
  <2>1. m = l - 1 /\ l # 0 /\ 3 + m = d - 1 /\ (m = 0 <=> d = 4)
    BY <1>8 DEF d
  <2> DEFINE g == EndSkipped(h)
  <2>2. h.skipDepth = 4 /\ h.skipDepth # NoSkip /\ h.depth = d
    BY <1>1, <1>3, <2>1 DEF InArray
  <2>3. Handle(h, e) = g
    <3>1. CASE e.on = "end_object"
      BY <2>2, <3>1 DEF Handle, EndObject
    <3>2. CASE e.on = "end_array"
      BY <2>2, <3>2 DEF Handle, EndArray
    <3> QED
      BY <1>8, <3>1, <3>2
  <2>4. (IF h.skipDepth = h.depth THEN NoSkip ELSE h.skipDepth) = skip(m)
    BY <2>1, <2>2
  <2>5. g = [h EXCEPT !.depth = d - 1, !.skipDepth = skip(m)]
    BY <1>1, <2>2, <2>4 DEF EndSkipped, InArray
  <2>6. InArray(g, d - 1, TRUE, FALSE, skip(m), <<>>, r) /\ g.currentKey = h.currentKey /\ g.start = s
    <3> DEFINE k == skip(m)
    <3> HIDE DEF k, g, skip
    <3> QED
      BY <1>1, <1>2, <2>5 DEF InArray
  <2> HIDE DEF g
  <2> QED
    BY <1>2, <1>11, <2>1, <2>3, <2>6
<1>9. CASE e.on \notin {"number", "string", "key", "start_object", "start_array", "end_object", "end_array"}
  <2>1. Handle(h, e) = h /\ m = l
    BY <1>9 DEF Handle
  <2> QED
    BY <2>1
<1> QED
  BY <1>4, <1>5, <1>6, <1>7, <1>8, <1>9

\* Members that are not looked for leave no trace.
LEMMA FurtherSkipped ==
  ASSUME NEW s, NEW r, NEW h, InFurther(h, 0, s, r), NEW events, FurtherMembers(events)
  PROVE  \E f : Runs(h, events, f) /\ InFurther(f, 0, s, r)
<1> DEFINE n == Len(events)
           E == ToSet(events)
           T == {k \in 0..n : \E f : Runs(h, SubSeq(events, 1, k), f) /\ InFurther(f, Nesting(events, k), s, r)}
<1>1. /\ events \in Seq(E) /\ Nesting(events, n) = 0
      /\ \A k \in DOMAIN events : Nesting(events, k) >= 0
      /\ \A k \in DOMAIN events : (events[k].on = "key" /\ Nesting(events, k) = 0)
                                   => events[k].value \notin {"start_offset", "words"}
  <2> HIDE DEF T
  <2>1. events \in Seq(E) /\ Nesting(events, n) = 0
    BY DEF FurtherMembers
  <2>2. \A k \in DOMAIN events : Nesting(events, k) >= 0
    BY Zenon DEF FurtherMembers
  <2>3. \A k \in DOMAIN events : (events[k].on = "key" /\ Nesting(events, k) = 0)
                                   => events[k].value \notin {"start_offset", "words"}
    BY Zenon DEF FurtherMembers
  <2> QED
    BY <2>1, <2>2, <2>3
<1> HIDE DEF E
<1>2. n \in Nat /\ DOMAIN events = 1..n /\ SubSeq(events, 1, n) = events
  BY <1>1
<1>3. \A k \in 0..n : Nesting(events, k) \in Nat
  <2> SUFFICES ASSUME NEW k \in 0..n PROVE Nesting(events, k) \in Nat
    OBVIOUS
  <2>1. k \in Nat
    BY <1>2
  <2>2. CASE k = 0
    BY <2>1, <2>2, NestingIs
  <2>3. CASE k # 0
    <3>1. k \in DOMAIN events
      BY <1>2, <2>3
    <3>2. Nesting(events, k) \in Int
      BY <2>1, NestingIs
    <3>3. Nesting(events, k) >= 0
      BY <1>1, <3>1
    <3> DEFINE x == Nesting(events, k)
    <3> HIDE DEF x
    <3>4. x \in Int /\ x >= 0
      BY <3>2, <3>3 DEF x
    <3> QED
      BY <3>4 DEF x
  <2> QED
    BY <2>2, <2>3
<1>4. 0 \in T
  <2>1. SubSeq(events, 1, 0) = <<>>
    BY SubSeqEmpty
  <2>2. Nesting(events, 0) = 0
    BY NestingIs
  <2>3. Runs(h, <<>>, h)
    BY RunsNone
  <2>4. Runs(h, SubSeq(events, 1, 0), h) /\ InFurther(h, Nesting(events, 0), s, r)
    BY <2>1, <2>2, <2>3
  <2>5. 0 \in 0..n
    BY <1>2
  <2> QED
    BY <2>4, <2>5
<1>5. ASSUME NEW k \in 1..n, k - 1 \in T PROVE k \in T
  <2> DEFINE a == SubSeq(events, 1, k - 1)
             b == SubSeq(events, 1, k)
             e == events[k]
  <2>1. PICK f : Runs(h, a, f) /\ InFurther(f, Nesting(events, k - 1), s, r)
    BY <1>5
  <2>2. k \in Nat /\ k > 0 /\ k \in 0..n /\ k - 1 \in 0..n /\ k - 1 < n /\ (k - 1) + 1 = k /\ k \in DOMAIN events
    BY <1>2
  <2>3. a \in Seq(E) /\ e \in E /\ b = Append(a, e)
    <3> DEFINE j == k - 1
    <3>1. j \in 0..Len(events) /\ j < Len(events) /\ j + 1 = k
      BY <2>2
    <3> HIDE DEF j
    <3>2. SubSeq(events, 1, j) \in Seq(E) /\ events[j + 1] \in E
          /\ SubSeq(events, 1, j + 1) = Append(SubSeq(events, 1, j), events[j + 1])
      BY <1>1, <3>1, FirstPart
    <3> QED
      BY <3>1, <3>2 DEF j
  <2> HIDE DEF a, b
  <2>4. Runs(h, b, Handle(f, e))
    BY <2>1, <2>3, RunsMore
  <2> DEFINE l == Nesting(events, k - 1)
             m == Nesting(events, k)
  <2>5. m = l + (IF e.on \in {"start_object", "start_array"} THEN 1 ELSE 0)
              - (IF e.on \in {"end_object", "end_array"} THEN 1 ELSE 0)
    BY <2>2, NestingIs
  <2>6. l \in Nat /\ m \in Nat /\ ((e.on = "key" /\ m = 0) => e.value \notin {"start_offset", "words"})
    BY <1>1, <1>3, <2>2
  <2>7. InFurther(f, l, s, r)
    BY <2>1
  <2> HIDE DEF l, m, e
  <2>8. InFurther(Handle(f, e), m, s, r)
    BY <2>5, <2>6, <2>7, FurtherEvent
  <2> QED
    BY <2>2, <2>4, <2>8 DEF b, m
<1> HIDE DEF T
<1>6. \A k \in 0..n : k \in T
  BY <1>2, <1>4, <1>5, UpTo
<1>7. n \in T
  BY <1>2, <1>6
<1> QED
  BY <1>1, <1>2, <1>7 DEF T

\* The events of an object, and those around the objects, are in E.
Wrapping == {Event("start_object", 0), Event("key", "start_offset"), Event("key", "words"),
             Event("start_array", 0), Event("end_array", 0), Event("end_object", 0),
             Event("key", "phrases")}
Within(E, p) ==
  /\ Wrapping \subseteq E /\ Event("number", p.start) \in E /\ p.extra \in Seq(E)
  /\ p.words \in Seq(ToSet(p.words)) /\ \A w \in ToSet(p.words) : Event("string", w) \in E

\* Two and three events.
LEMMA RunsFew ==
  ASSUME NEW E, NEW a \in E, NEW b \in E, NEW c \in E, NEW g
  PROVE  /\ Runs(g, <<a, b>>, Handle(Handle(g, a), b)) /\ <<a, b>> \in Seq(E)
         /\ Runs(g, <<a, b, c>>, Handle(Handle(Handle(g, a), b), c)) /\ <<a, b, c>> \in Seq(E)
<1> DEFINE s0 == << >>
           s1 == <<a>>
           s2 == <<a, b>>
           s3 == <<a, b, c>>
<1>1. s0 \in Seq(E) /\ s1 \in Seq(E) /\ s2 \in Seq(E) /\ s3 \in Seq(E)
  OBVIOUS
<1>2. s1 = Append(s0, a) /\ s2 = Append(s1, b) /\ s3 = Append(s2, c)
  OBVIOUS
<1>3. Runs(g, s0, g)
  BY RunsNone
<1> HIDE DEF s0, s1, s2, s3
<1>4. Runs(g, s1, Handle(g, a))
  BY <1>1, <1>2, <1>3, RunsMore
<1>5. Runs(g, s2, Handle(Handle(g, a), b))
  BY <1>1, <1>2, <1>4, RunsMore
<1>6. Runs(g, s3, Handle(Handle(Handle(g, a), b), c))
  BY <1>1, <1>2, <1>5, RunsMore
<1> QED
  BY <1>1, <1>5, <1>6 DEF s2, s3

\* In an object, but in none of its members.
LEMMA FurtherAtTop ==
  ASSUME NEW h, NEW s, NEW r
  PROVE  InFurther(h, 0, s, r) <=> /\ InArray(h, 3, TRUE, FALSE, NoSkip, <<>>, r)
                                   /\ h.currentKey \notin {"start_offset", "words"} /\ h.start = s
<1> DEFINE k == IF 0 = 0 THEN NoSkip ELSE 4
           d == 3 + 0
<1>1. d = 3 /\ k = NoSkip
  OBVIOUS
<1>2. InFurther(h, 0, s, r) <=> /\ InArray(h, d, TRUE, FALSE, k, <<>>, r)
                                /\ h.currentKey \notin {"start_offset", "words"} /\ h.start = s
  BY Zenon DEF InFurther
<1> HIDE DEF d, k
<1> QED
  BY <1>1, <1>2

\* An object begins, with its start.
LEMMA ObjectBegins ==
  ASSUME NEW E, NEW p, Within(E, p), NEW r, NEW h, Ready(h, r)
  PROVE  LET s == <<Event("start_object", 0), Event("key", "start_offset"), Event("number", p.start)>>
         IN  s \in Seq(E) /\ \E f : Runs(h, s, f) /\ InFurther(f, 0, p.start, r)
<1> DEFINE a == Event("start_object", 0)
           b == Event("key", "start_offset")
           c == Event("number", p.start)
           x == StartObject(h)
           y == Key(x, "start_offset")
           z == NumberUnsigned(y, p.start)
<1>1. a \in E /\ b \in E /\ c \in E
  BY DEF Within, Wrapping
<1>2. Handle(h, a) = x /\ Handle(x, b) = y /\ Handle(y, c) = z
  BY DEF Handle, Event
<1>3. InArray(x, 3, TRUE, FALSE, NoSkip, <<>>, r)
  BY DEF Ready, InArray, StartObject
<1>4. InArray(y, 3, TRUE, FALSE, NoSkip, <<>>, r) /\ y.currentKey = "start_offset"
  <2> HIDE DEF x
  <2> QED
    BY <1>3 DEF InArray, Key
<1>5. InArray(z, 3, TRUE, FALSE, NoSkip, <<>>, r) /\ z.currentKey = NoKey /\ z.start = p.start
  <2> HIDE DEF y
  <2> QED
    BY <1>4 DEF InArray, NumberUnsigned
<1> HIDE DEF a, b, c, x, y, z
<1>6. Runs(h, <<a, b, c>>, z) /\ <<a, b, c>> \in Seq(E)
  BY <1>1, <1>2, RunsFew
<1>7. InFurther(z, 0, p.start, r)
  <2>1. z.currentKey \notin {"start_offset", "words"}
    BY <1>5 DEF NoKey
  <2> QED
    BY <1>5, <2>1, FurtherAtTop
<1> QED
  BY <1>6, <1>7 DEF a, b, c

\* Its array of words begins.
LEMMA WordsBegin ==
  ASSUME NEW E, NEW p, Within(E, p), NEW r, NEW s, NEW h, InFurther(h, 0, s, r)
  PROVE  LET t == <<Event("key", "words"), Event("start_array", 0)>>
         IN  /\ t \in Seq(E)
             /\ \E f : Runs(h, t, f) /\ InWords(f, <<>>, s, r)
<1> DEFINE a == Event("key", "words")
           b == Event("start_array", 0)
           x == Key(h, "words")
           y == StartArray(x)
<1>1. a \in E /\ b \in E
  BY DEF Within, Wrapping
<1>2. Handle(h, a) = x /\ Handle(x, b) = y
  BY DEF Handle, Event
<1>3. InArray(h, 3, TRUE, FALSE, NoSkip, <<>>, r) /\ h.start = s
  BY FurtherAtTop
<1>4. InArray(x, 3, TRUE, FALSE, NoSkip, <<>>, r) /\ x.currentKey = "words" /\ x.start = s
  BY <1>3 DEF InArray, Key
<1>5. InArray(y, 4, TRUE, TRUE, NoSkip, <<>>, r) /\ y.currentKey = NoKey /\ y.start = s
  <2> HIDE DEF x
  <2>1. y = [x EXCEPT !.depth = 4, !.inWordsArray = TRUE, !.currentKey = NoKey]
    BY <1>4 DEF InArray, StartArray
  <2> HIDE DEF y
  <2> QED
    BY <1>4, <2>1 DEF InArray
<1> HIDE DEF a, b, x, y
<1>6. Runs(h, <<a, b>>, y) /\ <<a, b>> \in Seq(E)
  BY <1>1, <1>2, RunsFew
<1> QED
  BY <1>5, <1>6 DEF a, b, InWords

\* The words are taken down.
LEMMA WordsTaken ==
  ASSUME NEW E, NEW p, Within(E, p), NEW r, NEW s, NEW h, InWords(h, <<>>, s, r)
  PROVE  LET t == [k \in DOMAIN p.words |-> Event("string", p.words[k])]
         IN  /\ t \in Seq(E)
             /\ \E f : Runs(h, t, f) /\ InWords(f, p.words, s, r)
<1> DEFINE W == ToSet(p.words)
           w == p.words
           n == Len(w)
           t == [k \in DOMAIN w |-> Event("string", w[k])]
           Taken(f, k) == /\ InArray(f, 4, TRUE, TRUE, NoSkip, SubSeq(w, 1, k), r)
                          /\ f.currentKey = NoKey /\ f.start = s
           T == {k \in 0..n : \E f : Runs(h, SubSeq(t, 1, k), f) /\ Taken(f, k)}
<1>1. w \in Seq(W) /\ \A v \in W : Event("string", v) \in E
  BY DEF Within
<1> HIDE DEF W, w
<1>2. n \in Nat /\ DOMAIN w = 1..n /\ SubSeq(w, 1, n) = w /\ \A k \in 1..n : w[k] \in W
  BY <1>1
<1>3. t \in Seq(E) /\ Len(t) = n /\ SubSeq(t, 1, n) = t /\ \A k \in 1..n : t[k] = Event("string", w[k])
  <2>1. t \in Seq(E) /\ Len(t) = n
    BY <1>1, <1>2
  <2>2. \A k \in 1..n : t[k] = Event("string", w[k])
    BY <1>2
  <2> HIDE DEF t
  <2> QED
    BY <1>2, <2>1, <2>2
<1> HIDE DEF t, n
<1>4. 0 \in T
  <2>1. SubSeq(t, 1, 0) = <<>> /\ SubSeq(w, 1, 0) = <<>>
    BY SubSeqEmpty
  <2>2. Runs(h, SubSeq(t, 1, 0), h) /\ Taken(h, 0)
    BY <2>1, RunsNone DEF InWords
  <2>3. 0 \in 0..n
    BY <1>2
  <2> HIDE DEF Taken
  <2> QED
    BY <2>2, <2>3
<1>5. ASSUME NEW k \in 1..n, k - 1 \in T PROVE k \in T
  <2> DEFINE j == k - 1
             e == t[k]
             u == SubSeq(w, 1, j)
             v == SubSeq(w, 1, k)
             a == SubSeq(t, 1, j)
             b == SubSeq(t, 1, k)
  <2>1. PICK f : Runs(h, a, f) /\ Taken(f, j)
    BY <1>5
  <2>2. j \in 0..Len(t) /\ j < Len(t) /\ j \in 0..Len(w) /\ j < Len(w) /\ j + 1 = k /\ k \in 0..n
    BY <1>2, <1>3 DEF n
  <2> HIDE DEF j
  <2>3. a \in Seq(E) /\ t[j + 1] \in E /\ SubSeq(t, 1, j + 1) = Append(a, t[j + 1])
    BY <1>3, <2>2, FirstPart
  <2>4. SubSeq(w, 1, j + 1) = Append(u, w[j + 1])
    BY <1>1, <2>2, FirstPart
  <2>5. e \in E /\ b = Append(a, e) /\ v = Append(u, w[k])
    BY <2>2, <2>3, <2>4
  <2>6. Runs(h, b, Handle(f, e))
    BY <2>1, <2>3, <2>5, RunsMore
  <2>7. e = Event("string", w[k])
    BY <1>3
  <2> DEFINE g == String(f, w[k])
  <2>8. Handle(f, e) = g
    BY <2>7 DEF Handle, Event
  <2>9. InArray(f, 4, TRUE, TRUE, NoSkip, u, r) /\ f.currentKey = NoKey /\ f.start = s
    BY <2>1
  <2> HIDE DEF e, u, v, a, b
  <2>10. InArray(g, 4, TRUE, TRUE, NoSkip, v, r) /\ g.currentKey = NoKey /\ g.start = s
    <3>1. g = [f EXCEPT !.words = Append(u, w[k])]
      BY <2>9 DEF InArray, String
    <3> HIDE DEF g
    <3> QED
      BY <2>5, <2>9, <3>1 DEF InArray
  <2> HIDE DEF g
  <2>11. Taken(g, k)
    BY <2>10 DEF v
  <2>12. Runs(h, SubSeq(t, 1, k), g)
    BY <2>6, <2>8 DEF b
  <2> HIDE DEF Taken
  <2> QED
    BY <2>2, <2>11, <2>12
<1> HIDE DEF T
<1>6. \A k \in 0..n : k \in T
  BY <1>2, <1>4, <1>5, UpTo
<1>7. n \in T
  BY <1>2, <1>6
<1>8. PICK f : Runs(h, SubSeq(t, 1, n), f) /\ Taken(f, n)
  BY <1>7 DEF T
<1>9. t \in Seq(E) /\ Runs(h, t, f) /\ InArray(f, 4, TRUE, TRUE, NoSkip, w, r) /\ f.currentKey = NoKey /\ f.start = s
  BY <1>2, <1>3, <1>8
<1> QED
  BY <1>9 DEF t, w, InWords

\* Its array and the object end, and the phrase is reported.
LEMMA ObjectEnds ==
  ASSUME NEW E, NEW p, Within(E, p), NEW r, NEW h, InWords(h, p.words, p.start, r)
  PROVE  LET t == <<Event("end_array", 0), Event("end_object", 0)>>
         IN  t \in Seq(E) /\ \E f : Runs(h, t, f) /\ Ready(f, Append(r, Line(p)))
<1> DEFINE a == Event("end_array", 0)
           b == Event("end_object", 0)
           x == EndArray(h)
           y == EndObject(x)
<1>0. InArray(h, 4, TRUE, TRUE, NoSkip, p.words, r) /\ h.currentKey = NoKey /\ h.start = p.start
  BY DEF InWords
<1>1. a \in E /\ b \in E
  BY DEF Within, Wrapping
<1>2. Handle(h, a) = x /\ Handle(x, b) = y
  BY DEF Handle, Event
<1>3. InArray(x, 3, TRUE, FALSE, NoSkip, p.words, r) /\ x.currentKey = NoKey /\ x.start = p.start
  <2>1. x = [h EXCEPT !.depth = 3, !.inWordsArray = FALSE, !.inPhrasesArray = TRUE]
    <3>1. h.depth = 4 /\ h.skipDepth = NoSkip /\ h.inPhrasesArray = TRUE
      BY <1>0 DEF InArray
    <3>2. x = [h EXCEPT !.depth = @ - 1, !.inWordsArray = @ /\ h.depth # 4, !.inPhrasesArray = @ /\ h.depth # 2]
      BY <3>1 DEF EndArray
    <3> HIDE DEF x
    <3>3. h.depth - 1 = 3 /\ ~(h.depth # 4) /\ (h.inPhrasesArray /\ h.depth # 2)
      BY <3>1
    <3>4. (h.inWordsArray /\ h.depth # 4) = FALSE /\ (h.inPhrasesArray /\ h.depth # 2) = TRUE
      BY <3>3, Zenon
    <3> QED
      BY <3>2, <3>3, <3>4
  <2> HIDE DEF x
  <2> QED
    BY <1>0, <2>1 DEF InArray
<1> HIDE DEF x
<1>4. y = [x EXCEPT !.depth = 2, !.inPhraseObject = FALSE, !.reported = Append(r, Line(p))]
  BY <1>3 DEF InArray, EndObject, Line
<1> HIDE DEF y
<1>5. InArray(y, 2, FALSE, FALSE, NoSkip, p.words, Append(r, Line(p))) /\ y.currentKey = NoKey
  BY <1>3, <1>4 DEF InArray
<1>6. Ready(y, Append(r, Line(p)))
  BY <1>5 DEF Ready
<1> HIDE DEF a, b
<1>7. Runs(h, <<a, b>>, y) /\ <<a, b>> \in Seq(E)
  BY <1>1, <1>2, RunsFew
<1> QED
  BY <1>6, <1>7 DEF a, b

\* A whole object, and the phrase in it.
LEMMA ObjectRuns ==
  ASSUME NEW E, NEW p, Within(E, p), FurtherMembers(p.extra), NEW r, NEW h, Ready(h, r)
  PROVE  EventsOf(p) \in Seq(E) /\ \E f : Runs(h, EventsOf(p), f) /\ Ready(f, Append(r, Line(p)))
<1> DEFINE A == <<Event("start_object", 0), Event("key", "start_offset"), Event("number", p.start)>>
           x == p.extra
           B == <<Event("key", "words"), Event("start_array", 0)>>
           C == [k \in DOMAIN p.words |-> Event("string", p.words[k])]
           D == <<Event("end_array", 0), Event("end_object", 0)>>
           AX == A \o x
           AB == AX \o B
           AC == AB \o C
           AD == AC \o D
<1>1. EventsOf(p) = AD
  BY DEF EventsOf
<1>2. A \in Seq(E) /\ \E f : Runs(h, A, f) /\ InFurther(f, 0, p.start, r)
  BY ObjectBegins
<1>3. PICK f1 : Runs(h, A, f1) /\ InFurther(f1, 0, p.start, r)
  BY <1>2
<1>4. x \in Seq(E)
  BY DEF Within
<1>5. PICK f2 : Runs(f1, x, f2) /\ InFurther(f2, 0, p.start, r)
  BY <1>3, FurtherSkipped
<1>6. B \in Seq(E) /\ \E f : Runs(f2, B, f) /\ InWords(f, <<>>, p.start, r)
  BY <1>5, WordsBegin
<1>7. PICK f3 : Runs(f2, B, f3) /\ InWords(f3, <<>>, p.start, r)
  BY <1>6
<1>8. C \in Seq(E) /\ \E f : Runs(f3, C, f) /\ InWords(f, p.words, p.start, r)
  BY <1>7, WordsTaken
<1>9. PICK f4 : Runs(f3, C, f4) /\ InWords(f4, p.words, p.start, r)
  BY <1>8
<1>10. D \in Seq(E) /\ \E f : Runs(f4, D, f) /\ Ready(f, Append(r, Line(p)))
  BY <1>9, ObjectEnds
<1>11. PICK f5 : Runs(f4, D, f5) /\ Ready(f5, Append(r, Line(p)))
  BY <1>10
<1> HIDE DEF A, B, C, D, x
<1>12. AX \in Seq(E) /\ Runs(h, AX, f2)
  BY <1>2, <1>3, <1>4, <1>5, RunsOn, TwoParts
<1> HIDE DEF AX
<1>13. AB \in Seq(E) /\ Runs(h, AB, f3)
  BY <1>6, <1>7, <1>12, RunsOn, TwoParts
<1> HIDE DEF AB
<1>14. AC \in Seq(E) /\ Runs(h, AC, f4)
  BY <1>8, <1>9, <1>13, RunsOn, TwoParts
<1> HIDE DEF AC
<1>15. AD \in Seq(E) /\ Runs(h, AD, f5)
  BY <1>10, <1>11, <1>14, RunsOn, TwoParts
<1> HIDE DEF AD
<1> QED
  BY <1>1, <1>11, <1>15

\* The objects one after the other.
LEMMA ObjectsRun ==
  ASSUME NEW S, NEW objects \in Seq(S), NEW E, \A p \in S : Within(E, p) /\ FurtherMembers(p.extra),
         NEW h, Ready(h, <<>>)
  PROVE  LET t == FlattenSeq([k \in DOMAIN objects |-> EventsOf(objects[k])])
         IN  t \in Seq(E) /\ \E f : Runs(h, t, f) /\ Ready(f, [k \in DOMAIN objects |-> Line(objects[k])])
<1> DEFINE n == Len(objects)
           q == [k \in DOMAIN objects |-> EventsOf(objects[k])]
           l == [k \in DOMAIN objects |-> Line(objects[k])]
           L == {Line(p) : p \in S}
           X == Seq(E)
<1>1. n \in Nat /\ DOMAIN objects = 1..n /\ \A k \in 1..n : objects[k] \in S
  BY ElementOfSeq
<1>2. \A p \in S : EventsOf(p) \in X
  BY ObjectRuns
<1>3. \A k \in 1..n : q[k] = EventsOf(objects[k])
  BY <1>1
<1>4. q \in Seq(X) /\ Len(q) = n
  <2> HIDE DEF X
  <2> QED
    BY <1>1, <1>2
<1>5. l \in Seq(L) /\ Len(l) = n /\ \A k \in 1..n : l[k] = Line(objects[k])
  <2>1. \A k \in 1..n : Line(objects[k]) \in L
    BY <1>1
  <2> HIDE DEF L
  <2> QED
    BY <1>1, <2>1
<1> HIDE DEF q, l, L
<1>6. PICK F : Flattens(F, E, q) /\ FlattenSeq(q) = F[Len(q)]
  BY <1>4, FlattenIs DEF X
<1>7. FlattenSeq(q) \in Seq(E)
  BY <1>4, FlattenIs DEF X
<1>8. /\ \A k \in 0..n : F[k] \in Seq(E)
      /\ F[0] = <<>> /\ \A k \in 1..n : F[k] = F[k - 1] \o q[k]
  BY <1>4, <1>6 DEF Flattens
<1> HIDE DEF n
<1> DEFINE T == {k \in 0..n : \E f : Runs(h, F[k], f) /\ Ready(f, SubSeq(l, 1, k))}
<1>9. 0 \in T
  <2>1. SubSeq(l, 1, 0) = <<>>
    BY SubSeqEmpty
  <2>2. Runs(h, F[0], h) /\ Ready(h, SubSeq(l, 1, 0))
    BY <1>8, <2>1, RunsNone
  <2> QED
    BY <1>1, <2>2
<1>10. ASSUME NEW k \in 1..n, k - 1 \in T PROVE k \in T
  <2> DEFINE j == k - 1
             p == objects[k]
             r == SubSeq(l, 1, j)
  <2>1. PICK f : Runs(h, F[j], f) /\ Ready(f, r)
    BY <1>10
  <2>2. j \in 0..n /\ j \in 0..Len(l) /\ j < Len(l) /\ j + 1 = k /\ k \in 0..n
    BY <1>1, <1>5
  <2>3. F[k] = F[j] \o q[k] /\ F[j] \in Seq(E)
    BY <1>8, <2>2
  <2> HIDE DEF j
  <2>4. SubSeq(l, 1, j + 1) = Append(r, l[j + 1])
    BY <1>5, <2>2, FirstPart
  <2>5. SubSeq(l, 1, k) = Append(r, Line(p))
    BY <1>5, <2>2, <2>4
  <2>6. Within(E, p) /\ FurtherMembers(p.extra)
    BY <1>1
  <2> HIDE DEF r, p
  <2>7. EventsOf(p) \in Seq(E) /\ \E g : Runs(f, EventsOf(p), g) /\ Ready(g, Append(r, Line(p)))
    BY <2>1, <2>6, ObjectRuns
  <2>8. PICK g : Runs(f, EventsOf(p), g) /\ Ready(g, Append(r, Line(p)))
    BY <2>7
  <2>9. q[k] = EventsOf(p)
    BY <1>3 DEF p
  <2>10. Runs(h, F[k], g)
    BY <2>1, <2>3, <2>7, <2>8, <2>9, RunsOn
  <2> QED
    BY <2>2, <2>5, <2>8, <2>10
<1> HIDE DEF T
<1>11. \A k \in 0..n : k \in T
  BY <1>1, <1>9, <1>10, UpTo
<1>12. n \in T
  BY <1>1, <1>11
<1>13. PICK f : Runs(h, F[n], f) /\ Ready(f, SubSeq(l, 1, n))
  BY <1>12 DEF T
<1>14. SubSeq(l, 1, n) = l
  BY <1>5
<1>15. Runs(h, FlattenSeq(q), f) /\ Ready(f, l)
  BY <1>4, <1>6, <1>13, <1>14
<1> QED
  BY <1>7, <1>15 DEF q, l

\* The parser reports the objects of a part, in order, and nothing else.
LEMMA ParsedIs ==
  ASSUME NEW S, NEW objects \in Seq(S),
         \A p \in S : p.words \in Seq(ToSet(p.words)) /\ FurtherMembers(p.extra)
  PROVE  Parsed(Wrapped(objects)) = [k \in DOMAIN objects |-> Line(objects[k])]
<1> DEFINE E == Wrapping \cup UNION {{Event("number", p.start)} \cup ToSet(p.extra)
                                       \cup {Event("string", w) : w \in ToSet(p.words)} : p \in S}
           a == Event("start_object", 0)
           b == Event("key", "phrases")
           c == Event("start_array", 0)
           d == Event("end_array", 0)
           e == Event("end_object", 0)
           A == <<a, b, c>>
           B == FlattenSeq([k \in DOMAIN objects |-> EventsOf(objects[k])])
           D == <<d, e>>
           l == [k \in DOMAIN objects |-> Line(objects[k])]
<1>1. ASSUME NEW p \in S PROVE Within(E, p) /\ FurtherMembers(p.extra)
  <2> DEFINE U == {Event("number", p.start)} \cup ToSet(p.extra)
                                       \cup {Event("string", w) : w \in ToSet(p.words)}
  <2>1. U \subseteq E
    OBVIOUS
  <2>2. Event("number", p.start) \in U /\ ToSet(p.extra) \subseteq U
        /\ \A w \in ToSet(p.words) : Event("string", w) \in U
    OBVIOUS
  <2>3. Wrapping \subseteq E
    OBVIOUS
  <2>4. p.extra \in Seq(ToSet(p.extra))
    BY DEF FurtherMembers
  <2> HIDE DEF U, E
  <2> DEFINE V == ToSet(p.extra)
  <2>5. V \subseteq E
    BY <2>1, <2>2
  <2> HIDE DEF V
  <2>6. p.extra \in Seq(E)
    <3>1. p.extra \in Seq(V)
      BY <2>4 DEF V
    <3> QED
      BY <2>5, <3>1
  <2> QED
    BY <2>1, <2>2, <2>3, <2>6 DEF Within
<1>2. a \in E /\ b \in E /\ c \in E /\ d \in E /\ e \in E
  BY DEF Wrapping
<1> HIDE DEF E
<1> DEFINE h0 == NewHandler
           h1 == StartObject(h0)
           h2 == Key(h1, "phrases")
           h3 == StartArray(h2)
<1>3. Handle(h0, a) = h1 /\ Handle(h1, b) = h2 /\ Handle(h2, c) = h3
  BY DEF Handle, Event
<1>4. Ready(h3, <<>>)
  <2> DEFINE Names == {"depth", "inPhrasesArray", "inPhraseObject", "inWordsArray", "skipDepth",
                       "currentKey", "start", "words", "sawPhrases", "reported"}
  <2>1. /\ DOMAIN h0 = Names /\ h0.depth = 0 /\ ~h0.inPhrasesArray /\ h0.inPhraseObject = FALSE
        /\ h0.inWordsArray = FALSE /\ h0.skipDepth = NoSkip /\ h0.reported = <<>>
    BY DEF NewHandler
  <2> HIDE DEF h0
  <2>2. h1 = [h0 EXCEPT !.depth = 1, !.skipDepth = NoSkip]
    BY <2>1 DEF StartObject, SkipFrom
  <2> HIDE DEF h1
  <2>3. /\ DOMAIN h1 = Names /\ h1.depth = 1 /\ h1.inPhraseObject = FALSE
        /\ h1.inWordsArray = FALSE /\ h1.skipDepth = NoSkip /\ h1.reported = <<>>
    BY <2>1, <2>2
  <2>4. h2 = [h1 EXCEPT !.currentKey = "phrases"]
    BY <2>3 DEF Key
  <2> HIDE DEF h2
  <2>5. /\ DOMAIN h2 = Names /\ h2.depth = 1 /\ h2.inPhraseObject = FALSE /\ h2.currentKey = "phrases"
        /\ h2.inWordsArray = FALSE /\ h2.skipDepth = NoSkip /\ h2.reported = <<>>
    BY <2>3, <2>4
  <2>6. h3 = [h2 EXCEPT !.depth = 2, !.inPhrasesArray = TRUE, !.sawPhrases = TRUE, !.currentKey = NoKey]
    BY <2>5 DEF StartArray
  <2> HIDE DEF h3
  <2>7. InArray(h3, 2, FALSE, FALSE, NoSkip, h3.words, <<>>) /\ h3.currentKey = NoKey
    BY <2>5, <2>6 DEF InArray
  <2> QED
    BY <2>7 DEF Ready
<1> HIDE DEF h0, h1, h2, h3, a, b, c, d, e
<1>5. Runs(NewHandler, A, h3) /\ A \in Seq(E)
  BY <1>2, <1>3, RunsFew DEF h0
<1>6. B \in Seq(E) /\ \E f : Runs(h3, B, f) /\ Ready(f, l)
  BY <1>1, <1>4, ObjectsRun
<1>7. PICK f : Runs(h3, B, f) /\ Ready(f, l)
  BY <1>6
<1> DEFINE g == EndArray(f)
           h == EndObject(g)
<1>8. Handle(f, d) = g /\ Handle(g, e) = h
  BY DEF Handle, Event, d, e
<1> HIDE DEF l
<1>9. h.reported = l
  <2>1. PICK w : InArray(f, 2, FALSE, FALSE, NoSkip, w, l)
    BY <1>7 DEF Ready
  <2>2. g.skipDepth = NoSkip /\ g.inPhraseObject = FALSE /\ g.reported = l /\ "reported" \in DOMAIN g
    BY <2>1 DEF InArray, EndArray
  <2> HIDE DEF g
  <2> QED
    BY <2>2 DEF EndObject
<1> HIDE DEF g, h, A, B, D
<1> DEFINE AB == A \o B
           AD == AB \o D
<1>10. Runs(f, D, h) /\ D \in Seq(E)
  BY <1>2, <1>8, RunsFew DEF D
<1>11. Runs(NewHandler, AB, f) /\ AB \in Seq(E)
  BY <1>5, <1>6, <1>7, RunsOn, TwoParts
<1> HIDE DEF AB
<1>12. Runs(NewHandler, AD, h) /\ AD \in Seq(E)
  BY <1>10, <1>11, RunsOn, TwoParts
<1> HIDE DEF AD
<1>13. Wrapped(objects) = AD
  BY DEF Wrapped, AD, AB, A, B, D, a, b, c, d, e
<1>14. Parsed(AD) = h.reported
  BY <1>12, ParsedRuns
<1> QED
  BY <1>9, <1>13, <1>14 DEF l

-----------------------------------------------------------------------------
(* The data of the analyzer: what the threads write, object by object.      *)

\* An analysis works in the parts it has made, on the objects that are in them.
PlacesInv ==
  /\ Len(chunks) \in Nat /\ DOMAIN chunks = 1..Len(chunks)
  /\ DOMAIN at = Parts /\ DOMAIN partStats = Parts
  /\ failed \subseteq over /\ over \subseteq Parts
  /\ pc = "single" => 1 \in Parts /\ chunks[1].first = 1
  /\ \A k \in Parts : /\ chunks[k].first \in 1..(Len(doc) + 1) /\ chunks[k].last \in 0..Len(doc)
                      /\ at[k] \in chunks[k].first..(chunks[k].last + 1)

\* A file has lines of its length, or torn ones; a thread has a file for each length it has met.
FileLines(len) == LinesOf(len) \cup {Torn}
PartFilesInv ==
  /\ \A key \in DOMAIN tmp : key[2] \in LengthsOfDoc /\ tmp[key] \in Seq(FileLines(key[2]))
  /\ pc = "parts" => \A k \in Parts : \A j \in chunks[k].first..(at[k] - 1) :
                       <<k, Len(doc[j].words)>> \in DOMAIN tmp
FilesInv ==
  /\ \A len \in DOMAIN files : len \in LengthsOfDoc /\ files[len] \in Seq(FileLines(len))
  /\ pc = "single" => \A j \in 1..(at[1] - 1) : Len(doc[j].words) \in DOMAIN files

\* What TypeOK says of the rest.
CallsInv ==
  /\ \E d \in Documents : doc = d.phrases /\ closed = d.closed /\ tail = d.tail
  /\ analyses \in 0..MaxAnalyses /\ outcome \in {"none", "ok", "failed"} /\ toMerge \subseteq LengthsOfDoc

DataInv == CallsInv /\ PlacesInv /\ PartFilesInv /\ FilesInv

\* What the assumption says of the objects.
LEMMA DocIs ==
  ASSUME CallsInv
  PROVE  /\ doc \in Seq(ToSet(doc)) /\ Len(doc) \in Nat /\ DOMAIN doc = 1..Len(doc)
         /\ \A k \in DOMAIN doc : /\ doc[k].words \in Seq(ToSet(doc[k].words)) /\ FurtherMembers(doc[k].extra)
                                  /\ Len(doc[k].words) \in Nat
<1>1. PICK d \in Documents : doc = d.phrases
  BY DEF CallsInv
<1>2. /\ d.phrases \in Seq(ToSet(d.phrases))
      /\ \A k \in DOMAIN d.phrases : /\ d.phrases[k].words \in Seq(DOMAIN WordLength)
                                     /\ FurtherMembers(d.phrases[k].extra)
  BY AnalyzerAssumption
<1>3. doc \in Seq(ToSet(doc))
  BY <1>1, <1>2
<1>4. Len(doc) \in Nat /\ DOMAIN doc = 1..Len(doc)
  <2> DEFINE S == ToSet(doc)
  <2> HIDE DEF S
  <2>1. doc \in Seq(S)
    BY <1>3 DEF S
  <2> QED
    BY <2>1
<1>5. ASSUME NEW k \in DOMAIN doc
      PROVE  /\ doc[k].words \in Seq(ToSet(doc[k].words)) /\ FurtherMembers(doc[k].extra)
             /\ Len(doc[k].words) \in Nat
  <2> DEFINE w == doc[k].words
  <2>1. w \in Seq(DOMAIN WordLength) /\ FurtherMembers(doc[k].extra)
    BY <1>1, <1>2
  <2> HIDE DEF w
  <2>2. Len(w) \in Nat /\ w = [j \in 1..Len(w) |-> w[j]] /\ DOMAIN w = 1..Len(w)
    BY <2>1, SeqIs
  <2>3. \A j \in 1..Len(w) : w[j] \in ToSet(w)
    BY <2>2 DEF ToSet
  <2>4. w \in Seq(ToSet(w))
    <3> DEFINE S == ToSet(w)
    <3>1. \A j \in 1..Len(w) : w[j] \in S
      BY <2>3
    <3> HIDE DEF S
    <3> QED
      BY <2>2, <3>1 DEF S
  <2> QED
    BY <2>1, <2>2, <2>4 DEF w
<1> QED
  BY <1>3, <1>4, <1>5

\* The line of a phrase, written from the object or from what the parser makes of it.
LEMMA LinesAreOf ==
  ASSUME CallsInv, NEW k \in DOMAIN doc
  PROVE  /\ Len(doc[k].words) \in LengthsOfDoc
         /\ Line(doc[k]) \in LinesOf(Len(doc[k].words)) /\ Line(Line(doc[k])) = Line(doc[k])
<1>1. Line(doc[k]).words = doc[k].words /\ Line(doc[k]) \in Lines
  BY DEF Line, Lines
<1>2. Line(Line(doc[k])) = Line(doc[k])
  BY DEF Line
<1> QED
  BY <1>1, <1>2 DEF LinesOf, LengthsOfDoc

\* What the parser of a part reports next is the object at which its thread is.
LEMMA NextIs ==
  ASSUME CallsInv, PlacesInv, NEW k \in Parts, Working(k)
  PROVE  at[k] \in DOMAIN doc /\ NextPhrase(k) = Line(doc[at[k]])
<1> DEFINE S == ToSet(doc)
           a == chunks[k].first
           x == at[k]
           part == SubSeq(doc, a, x)
<1>1. /\ doc \in Seq(S) /\ Len(doc) \in Nat /\ DOMAIN doc = 1..Len(doc)
      /\ \A j \in DOMAIN doc : doc[j].words \in Seq(ToSet(doc[j].words)) /\ FurtherMembers(doc[j].extra)
  BY DocIs
<1>2. a \in 1..Len(doc) /\ x \in a..Len(doc)
  <2>1. /\ a \in 1..(Len(doc) + 1) /\ chunks[k].last \in 0..Len(doc) /\ x \in a..(chunks[k].last + 1)
        /\ x <= chunks[k].last
    BY DEF PlacesInv, Working
  <2> HIDE DEF a, x
  <2> QED
    BY <1>1, <2>1
<1>3. NextPhrase(k) = Parsed(Wrapped(part))[x - a + 1]
  BY DEF NextPhrase
<1>4. \A p \in S : p.words \in Seq(ToSet(p.words)) /\ FurtherMembers(p.extra)
  BY <1>1 DEF ToSet
<1> HIDE DEF S, a, x
<1>5. part \in Seq(S) /\ Len(part) = x - a + 1 /\ \A j \in 1..(x - a + 1) : part[j] = doc[a + j - 1]
  BY <1>1, <1>2
<1> HIDE DEF part
<1>6. Parsed(Wrapped(part)) = [j \in DOMAIN part |-> Line(part[j])]
  BY <1>4, <1>5, ParsedIs
<1>7. x - a + 1 \in 1..(x - a + 1) /\ DOMAIN part = 1..(x - a + 1) /\ a + (x - a + 1) - 1 = x /\ x \in DOMAIN doc
  BY <1>1, <1>2, <1>5
<1>8. part[x - a + 1] = doc[x]
  <2> DEFINE j == x - a + 1
  <2>1. j \in 1..(x - a + 1) /\ a + j - 1 = x
    BY <1>7
  <2> HIDE DEF j
  <2>2. part[j] = doc[x]
    BY <1>5, <2>1
  <2> QED
    BY <2>2 DEF j
<1> QED
  BY <1>3, <1>6, <1>7, <1>8 DEF x

\* The file is one of lines in L, and there if the writer has met its length before.
MayWrite(dir, key, first, k, L) ==
  /\ key \in DOMAIN dir => dir[key] \in Seq(L)
  /\ \A j \in first..(k - 1) : FileOf(first, j) = FileOf(first, k) => key \in DOMAIN dir
WasWritten(dir, key, dir2, L) ==
  /\ DOMAIN dir2 = DOMAIN dir \cup {key} /\ dir2[key] \in Seq(L)
  /\ \A x \in DOMAIN dir : x # key => dir2[x] = dir[x]

\* A file after a phrase is written to it.
LEMMA WriteIs ==
  ASSUME NEW dir, NEW key, NEW L, NEW p, Line(p) \in L, NEW first, NEW k,
         MayWrite(dir, key, first, k, L)
  PROVE  WasWritten(dir, key, WritePhrase(dir, key, first, k, p), L)
<1> DEFINE met == \E j \in first..(k - 1) : FileOf(first, j) = FileOf(first, k)
           v == IF met THEN Append(dir[key], Line(p)) ELSE <<Line(p)>>
<1>1. WritePhrase(dir, key, first, k, p) = Put(dir, key, v)
  BY DEF WritePhrase
<1>2. (met => key \in DOMAIN dir) /\ (key \in DOMAIN dir => dir[key] \in Seq(L))
  BY DEF MayWrite
<1>3. v \in Seq(L)
  <2> HIDE DEF met
  <2>1. CASE met
    BY <1>2, <2>1
  <2>2. CASE ~met
    BY <2>2
  <2> QED
    BY <2>1, <2>2
<1> HIDE DEF v
<1> QED
  BY <1>1, <1>3 DEF Put, WasWritten

\* A file that is cut short has lines of the file, and perhaps a torn one.
LEMMA CutShortIs ==
  ASSUME NEW L, Torn \in L, NEW q \in Seq(L), NEW h \in Nat
  PROVE  CutShort(q, h) \in Seq(L) /\ (h >= 2 * Len(q) => CutShort(q, h) = q)
<1>1. CASE h >= 2 * Len(q)
  BY <1>1 DEF CutShort
<1>2. CASE ~(h >= 2 * Len(q))
  <2> DEFINE m == h \div 2
             rest == IF h % 2 = 1 THEN <<Torn>> ELSE <<>>
  <2>1. m \in 0..Len(q)
    BY <1>2
  <2>2. rest \in Seq(L)
    OBVIOUS
  <2>3. CutShort(q, h) = SubSeq(q, 1, m) \o rest
    BY <1>2 DEF CutShort
  <2> HIDE DEF m, rest
  <2>4. SubSeq(q, 1, m) \in Seq(L)
    BY <2>1
  <2> QED
    BY <1>2, <2>2, <2>3, <2>4
<1> QED
  BY <1>1, <1>2

\* Some files of a directory are cut short.
CutDown(dir, dir2) ==
  /\ DOMAIN dir2 = DOMAIN dir
  /\ \A key \in DOMAIN dir : \E h \in Nat : dir2[key] = CutShort(dir[key], h)

\* That is what becomes of the files that are closed.
LEMMA KeptIs ==
  ASSUME NEW dir, NEW keys \in SUBSET DOMAIN dir, NEW w \in Reached(dir, keys),
         \A key \in DOMAIN dir : Len(dir[key]) \in Nat
  PROVE  CutDown(dir, Kept(dir, w))
<1>1. DOMAIN w = keys
  BY DEF Reached
<1>2. ASSUME NEW key \in keys PROVE w[key] \in Nat
  <2>1. w[key] \in UNION {0..(2 * Len(dir[k])) : k \in keys}
    BY DEF Reached
  <2>2. PICK k \in keys : w[key] \in 0..(2 * Len(dir[k]))
    BY <2>1
  <2>3. Len(dir[k]) \in Nat
    OBVIOUS
  <2> QED
    BY <2>2, <2>3
<1>3. ASSUME NEW key \in DOMAIN dir PROVE \E h \in Nat : Kept(dir, w)[key] = CutShort(dir[key], h)
  <2>1. CASE key \in keys
    BY <1>1, <1>2, <2>1 DEF Kept
  <2>2. CASE key \notin keys
    <3> DEFINE h == 2 * Len(dir[key])
    <3>1. h \in Nat /\ CutShort(dir[key], h) = dir[key]
      BY DEF CutShort
    <3>2. Kept(dir, w)[key] = dir[key]
      BY <1>1, <2>2 DEF Kept
    <3> QED
      BY <3>1, <3>2
  <2> QED
    BY <2>1, <2>2
<1> QED
  BY <1>3 DEF CutDown, Kept

\* The least of some numbers is one of them.
LEMMA MinIs ==
  ASSUME NEW S \in SUBSET Nat, S # {}
  PROVE  Min(S) \in S
<1>1. \E x \in S : \A y \in S : x <= y
  BY Least
<1> QED
  BY <1>1 DEF Min

\* The initial states satisfy the invariant.
LEMMA DataInit == Init => DataInv
<1> SUFFICES ASSUME Init PROVE DataInv
  OBVIOUS
<1>1. /\ \E d \in Documents : doc = d.phrases /\ closed = d.closed /\ tail = d.tail
      /\ analyses = 0 /\ pc = "idle" /\ outcome = "none" /\ chunks = <<>> /\ at = <<>>
      /\ over = {} /\ failed = {}
      /\ partStats = <<>> /\ toMerge = {} /\ tmp = NoFiles /\ files = NoFiles
  BY DEF Init
<1>2. MaxAnalyses \in Nat
  BY AnalyzerAssumption
<1>3. CallsInv
  BY <1>1, <1>2 DEF CallsInv
<1>4. Len(chunks) = 0 /\ DOMAIN chunks = {} /\ DOMAIN at = {} /\ DOMAIN partStats = {} /\ 1..0 = {}
  BY <1>1
<1>5. PlacesInv
  BY <1>1, <1>4 DEF PlacesInv, Parts
<1>6. DOMAIN tmp = {} /\ DOMAIN files = {}
  BY <1>1 DEF NoFiles
<1> QED
  BY <1>1, <1>3, <1>5, <1>6 DEF DataInv, PartFilesInv, FilesInv

\* A new analysis has its parts before it, and no files of its own.
LEMMA AnalyzeKeeps ==
  ASSUME DocInv, DataInv, NEW n \in ThreadCounts, Analyze(n), doc' = doc, closed' = closed, tail' = tail
  PROVE  DataInv'
<1>0. PICK seen \in Scans :
        LET split == IF n > 1 THEN Boundaries(n, seen[1], seen[2]) ELSE <<>>
        IN  /\ pc' = IF Len(split) > 1 THEN "parts" ELSE "single"
            /\ chunks' = IF Len(split) > 1 THEN split ELSE <<[first |-> 1, last |-> Len(doc)]>>
  BY DEF Analyze
<1> DEFINE split == IF n > 1 THEN Boundaries(n, seen[1], seen[2]) ELSE <<>>
           one == <<[first |-> 1, last |-> Len(doc)]>>
<1>1. /\ analyses < MaxAnalyses /\ analyses' = analyses + 1 /\ toMerge' = {} /\ outcome' = "none"
      /\ over' = {} /\ failed' = {} /\ tmp' = tmp /\ files' = files
      /\ pc' = IF Len(split) > 1 THEN "parts" ELSE "single"
      /\ chunks' = IF Len(split) > 1 THEN split ELSE one
      /\ DOMAIN at' = DOMAIN chunks' /\ DOMAIN partStats' = DOMAIN chunks'
      /\ \A k \in DOMAIN chunks' : at'[k] = chunks'[k].first
  BY <1>0 DEF Analyze
<1>2. n \in Nat /\ MaxAnalyses \in Nat
  BY AnalyzerAssumption
<1>3. LengthsOfDoc' = LengthsOfDoc /\ \A len : FileLines(len)' = FileLines(len)
  BY DEF LengthsOfDoc, FileLines, LinesOf, Lines, Torn
<1>4. CallsInv'
  BY <1>1, <1>2 DEF DataInv, CallsInv
<1>5. Len(doc) \in Nat
  BY DocIs DEF DataInv
<1>6. InDocument(chunks') /\ (pc' = "single" => 1 \in DOMAIN chunks' /\ chunks'[1].first = 1)
  <2>1. CASE Len(split) > 1
    <3>1. n > 1
      <4>1. ASSUME ~(n > 1) PROVE FALSE
        <5>1. split = <<>> /\ Len(<<>>) = 0
          BY <4>1
        <5> QED
          BY <2>1, <5>1
      <4> QED
        BY <4>1
    <3>2. /\ chunks' = Boundaries(n, seen[1], seen[2]) /\ Len(Boundaries(n, seen[1], seen[2])) > 1
          /\ pc' = "parts"
      BY <1>1, <2>1, <3>1
    <3>3. InDocument(Boundaries(n, seen[1], seen[2]))
      BY <1>2, <3>1, <3>2, ScansAre, BoundariesPartition
    <3> QED
      BY <3>2, <3>3
  <2>2. CASE ~(Len(split) > 1)
    <3>1. chunks' = one
      BY <1>1, <2>2
    <3>2. Len(one) = 1 /\ DOMAIN one = 1..1 /\ one[1].first = 1 /\ one[1].last = Len(doc)
      OBVIOUS
    <3> HIDE DEF one
    <3>3. \A k \in DOMAIN one : k = 1
      BY <3>2
    <3> QED
      BY <1>5, <3>1, <3>2, <3>3 DEF InDocument
  <2> QED
    BY <2>1, <2>2
<1> HIDE DEF split, one
<1>7. /\ Len(chunks') \in Nat /\ DOMAIN chunks' = 1..Len(chunks')
      /\ \A k \in DOMAIN chunks' : /\ chunks'[k].first \in 1..(Len(doc) + 1) /\ chunks'[k].last \in 0..Len(doc)
                                   /\ chunks'[k].first <= chunks'[k].last + 1
  BY <1>6 DEF InDocument
<1>8. \A k \in DOMAIN chunks' : at'[k] \in chunks'[k].first..(chunks'[k].last + 1)
  <2> SUFFICES ASSUME NEW k \in DOMAIN chunks' PROVE at'[k] \in chunks'[k].first..(chunks'[k].last + 1)
    OBVIOUS
  <2>1. /\ chunks'[k].first \in 1..(Len(doc) + 1) /\ chunks'[k].last \in 0..Len(doc)
        /\ chunks'[k].first <= chunks'[k].last + 1 /\ at'[k] = chunks'[k].first
    BY <1>1, <1>7
  <2> QED
    BY <1>5, <2>1
<1>9. PlacesInv'
  BY <1>1, <1>6, <1>7, <1>8 DEF PlacesInv, Parts
<1>10. \A k \in DOMAIN chunks' : chunks'[k].first..(at'[k] - 1) = {}
  <2> SUFFICES ASSUME NEW k \in DOMAIN chunks' PROVE chunks'[k].first..(at'[k] - 1) = {}
    OBVIOUS
  <2>1. chunks'[k].first \in Nat /\ at'[k] = chunks'[k].first
    BY <1>1, <1>5, <1>7
  <2> QED
    BY <2>1
<1>11. PartFilesInv'
  BY <1>1, <1>3, <1>10 DEF DataInv, PartFilesInv, Parts
<1>12. pc' = "single" => 1..(at'[1] - 1) = {}
  BY <1>1, <1>6
<1>13. FilesInv'
  BY <1>1, <1>3, <1>12 DEF DataInv, FilesInv
<1> QED
  BY <1>4, <1>9, <1>11, <1>13 DEF DataInv

\* One phrase of the only part, written.
LEMMA SinglePhraseKeeps ==
  ASSUME DataInv, SinglePhrase, doc' = doc, closed' = closed, tail' = tail
  PROVE  DataInv'
<1> DEFINE x == at[1]
           len == Len(doc[x].words)
           p == NextPhrase(1)
           L == FileLines(len)
<1>1. /\ pc = "single" /\ Working(1) /\ at' = [at EXCEPT ![1] = x + 1]
      /\ files' = WritePhrase(files, FileOf(1, x), 1, x, p)
      /\ DOMAIN partStats' = DOMAIN partStats
      /\ analyses' = analyses /\ pc' = pc /\ chunks' = chunks /\ over' = over /\ failed' = failed
      /\ tmp' = tmp /\ toMerge' = toMerge /\ outcome' = outcome
  BY DEF SinglePhrase
<1>2. LengthsOfDoc' = LengthsOfDoc /\ \A y : FileLines(y)' = FileLines(y)
  BY DEF LengthsOfDoc, FileLines, LinesOf, Lines, Torn
<1>3. CallsInv'
  BY <1>1, <1>2 DEF DataInv, CallsInv
<1>4. CallsInv /\ PlacesInv /\ 1 \in Parts /\ chunks[1].first = 1 /\ DOMAIN at = Parts
  BY <1>1 DEF DataInv, PlacesInv
<1>5. x \in DOMAIN doc /\ p = Line(doc[x])
  BY <1>1, <1>4, NextIs
<1>6. len \in LengthsOfDoc /\ Line(p) \in L
  BY <1>4, <1>5, LinesAreOf DEF FileLines
<1>7. FileOf(1, x) = len /\ \A j : FileOf(1, j) = Len(doc[j].words)
  BY DEF FileOf
<1>8. /\ \A y \in DOMAIN files : y \in LengthsOfDoc /\ files[y] \in Seq(FileLines(y))
      /\ \A j \in 1..(x - 1) : Len(doc[j].words) \in DOMAIN files
  BY <1>1 DEF DataInv, FilesInv
<1>9. x \in Nat /\ x <= chunks[1].last /\ chunks[1].last \in Nat
  BY <1>1, <1>4, <1>5, DocIs DEF PlacesInv, Working
<1> HIDE DEF x, len, p
<1>10. /\ len \in DOMAIN files => files[len] \in Seq(L)
       /\ \A j \in 1..(x - 1) : FileOf(1, j) = FileOf(1, x) => len \in DOMAIN files
       /\ files' = WritePhrase(files, len, 1, x, p)
  BY <1>1, <1>7, <1>8
<1> HIDE DEF L
<1>11. /\ DOMAIN files' = DOMAIN files \cup {len} /\ files'[len] \in Seq(L)
       /\ \A y \in DOMAIN files : y # len => files'[y] = files[y]
  <2>1. MayWrite(files, len, 1, x, L)
    BY <1>10 DEF MayWrite
  <2>2. WasWritten(files, len, WritePhrase(files, len, 1, x, p), L)
    BY <1>6, <2>1, WriteIs
  <2> QED
    BY <1>10, <2>2 DEF WasWritten
<1>12. at'[1] = x + 1 /\ DOMAIN at' = DOMAIN at /\ \A k \in Parts : k # 1 => at'[k] = at[k]
  BY <1>1, <1>4 DEF x
<1>13. \A j \in 1..(at'[1] - 1) : Len(doc[j].words) \in DOMAIN files'
  <2> SUFFICES ASSUME NEW j \in 1..(at'[1] - 1) PROVE Len(doc[j].words) \in DOMAIN files'
    OBVIOUS
  <2>1. CASE j = x
    BY <1>11, <2>1 DEF len
  <2>2. CASE j # x
    <3>1. j \in 1..(x - 1)
      BY <1>9, <1>12, <2>2
    <3> QED
      BY <1>8, <1>11, <3>1
  <2> QED
    BY <2>1, <2>2
<1>14. \A y \in DOMAIN files' : y \in LengthsOfDoc /\ files'[y] \in Seq(FileLines(y))
  BY <1>6, <1>8, <1>11 DEF L
<1>15. FilesInv'
  BY <1>2, <1>13, <1>14 DEF FilesInv
<1>16. PartFilesInv'
  BY <1>1, <1>2 DEF DataInv, PartFilesInv
<1>17. at'[1] \in chunks[1].first..(chunks[1].last + 1)
  BY <1>4, <1>9, <1>12
<1>18. PlacesInv'
  BY <1>1, <1>4, <1>12, <1>17 DEF PlacesInv, Parts
<1> QED
  BY <1>3, <1>15, <1>16, <1>18 DEF DataInv

\* One phrase of a part, written to a file of the part.
LEMMA PartPhraseKeeps ==
  ASSUME DataInv, NEW k \in Parts, PartPhrase(k), doc' = doc, closed' = closed, tail' = tail
  PROVE  DataInv'
<1> DEFINE x == at[k]
           first == chunks[k].first
           len == Len(doc[x].words)
           key == <<k, len>>
           p == NextPhrase(k)
           L == FileLines(len)
<1>1. /\ pc = "parts" /\ Working(k) /\ at' = [at EXCEPT ![k] = x + 1]
      /\ tmp' = WritePhrase(tmp, <<k, FileOf(first, x)>>, first, x, p)
      /\ DOMAIN partStats' = DOMAIN partStats
      /\ analyses' = analyses /\ pc' = pc /\ chunks' = chunks /\ over' = over /\ failed' = failed
      /\ files' = files /\ toMerge' = toMerge /\ outcome' = outcome
  BY DEF PartPhrase
<1>2. LengthsOfDoc' = LengthsOfDoc /\ \A y : FileLines(y)' = FileLines(y)
  BY DEF LengthsOfDoc, FileLines, LinesOf, Lines, Torn
<1>3. CallsInv'
  BY <1>1, <1>2 DEF DataInv, CallsInv
<1>4. CallsInv /\ PlacesInv /\ DOMAIN at = Parts
  BY DEF DataInv, PlacesInv
<1>5. x \in DOMAIN doc /\ p = Line(doc[x])
  BY <1>1, <1>4, NextIs
<1>6. len \in LengthsOfDoc /\ Line(p) \in L
  BY <1>4, <1>5, LinesAreOf DEF FileLines
<1>7. FileOf(first, x) = len /\ \A j : FileOf(first, j) = Len(doc[j].words)
  BY DEF FileOf
<1>8. /\ \A y \in DOMAIN tmp : y[2] \in LengthsOfDoc /\ tmp[y] \in Seq(FileLines(y[2]))
      /\ \A m \in Parts : \A j \in chunks[m].first..(at[m] - 1) : <<m, Len(doc[j].words)>> \in DOMAIN tmp
  BY <1>1 DEF DataInv, PartFilesInv
<1>9. x \in first..(chunks[k].last + 1) /\ first \in Nat /\ x <= chunks[k].last /\ chunks[k].last \in Nat
  BY <1>1, <1>4, DocIs DEF PlacesInv, Working
<1>0. key[2] = len
  OBVIOUS
<1> HIDE DEF x, len, p, first
<1>10. /\ key \in DOMAIN tmp => tmp[key] \in Seq(L)
       /\ \A j \in first..(x - 1) : FileOf(first, j) = FileOf(first, x) => key \in DOMAIN tmp
       /\ tmp' = WritePhrase(tmp, key, first, x, p)
  <2>1. key \in DOMAIN tmp => tmp[key] \in Seq(L)
    <3> HIDE DEF key
    <3> QED
      BY <1>0, <1>8
  <2>2. \A j \in first..(x - 1) : FileOf(first, j) = FileOf(first, x) => key \in DOMAIN tmp
    BY <1>7, <1>8 DEF first, x
  <2>3. tmp' = WritePhrase(tmp, key, first, x, p)
    BY <1>1, <1>7
  <2> QED
    BY <2>1, <2>2, <2>3
<1> HIDE DEF L, key
<1>11. /\ DOMAIN tmp' = DOMAIN tmp \cup {key} /\ tmp'[key] \in Seq(L)
       /\ \A y \in DOMAIN tmp : y # key => tmp'[y] = tmp[y]
  <2>1. MayWrite(tmp, key, first, x, L)
    BY <1>10 DEF MayWrite
  <2>2. WasWritten(tmp, key, WritePhrase(tmp, key, first, x, p), L)
    BY <1>6, <2>1, WriteIs
  <2> QED
    BY <1>10, <2>2 DEF WasWritten
<1>12. at'[k] = x + 1 /\ DOMAIN at' = DOMAIN at /\ \A m \in Parts : m # k => at'[m] = at[m]
  BY <1>1, <1>4 DEF x
<1>13. ASSUME NEW m \in Parts, NEW j \in chunks[m].first..(at'[m] - 1)
       PROVE  <<m, Len(doc[j].words)>> \in DOMAIN tmp'
  <2>1. CASE m = k /\ j = x
    BY <1>11, <2>1 DEF len, key
  <2>2. CASE ~(m = k /\ j = x)
    <3>1. j \in chunks[m].first..(at[m] - 1)
      <4>1. CASE m = k
        <5>1. j \in first..x /\ j # x
          BY <1>9, <1>12, <2>2, <4>1 DEF first
        <5>2. j \in first..(x - 1)
          BY <1>9, <5>1
        <5> QED
          BY <4>1, <5>2 DEF first, x
      <4>2. CASE m # k
        BY <1>12, <4>2
      <4> QED
        BY <4>1, <4>2
    <3> QED
      BY <1>8, <1>11, <3>1
  <2> QED
    BY <2>1, <2>2
<1>14. \A y \in DOMAIN tmp' : y[2] \in LengthsOfDoc /\ tmp'[y] \in Seq(FileLines(y[2]))
  BY <1>0, <1>6, <1>8, <1>11 DEF L
<1>15. PartFilesInv'
  BY <1>1, <1>2, <1>13, <1>14 DEF PartFilesInv, Parts
<1>16. FilesInv'
  BY <1>1, <1>2 DEF DataInv, FilesInv
<1>17. at'[k] \in chunks[k].first..(chunks[k].last + 1)
  BY <1>9, <1>12 DEF first
<1>18. PlacesInv'
  BY <1>1, <1>4, <1>12, <1>17 DEF PlacesInv, Parts
<1> QED
  BY <1>3, <1>15, <1>16, <1>18 DEF DataInv

\* What the part files of one length are merged to, from each as much as w says.
LEMMA MergedIs ==
  ASSUME DataInv, NEW len, NEW w, \A k \in DOMAIN w : <<k, len>> \in DOMAIN tmp /\ w[k] \in Nat
  PROVE  Merged(len, w) \in Seq(FileLines(len))
<1> DEFINE part(k) == IF k \in DOMAIN w THEN CutShort(tmp[<<k, len>>], w[k]) ELSE <<>>
           q == [k \in Parts |-> part(k)]
           C == FileLines(len)
           X == Seq(C)
<1>1. \A y \in DOMAIN tmp : tmp[y] \in Seq(FileLines(y[2]))
  BY DEF DataInv, PartFilesInv
<1>2. Len(chunks) \in Nat /\ Parts = 1..Len(chunks)
  BY DEF DataInv, PlacesInv, Parts
<1>3. Torn \in C
  BY DEF FileLines
<1>4. ASSUME NEW k \in Parts PROVE part(k) \in X
  <2>1. CASE k \in DOMAIN w
    <3> DEFINE y == <<k, len>>
    <3>1. y[2] = len
      OBVIOUS
    <3> HIDE DEF y
    <3>2. tmp[y] \in Seq(C) /\ w[k] \in Nat
      BY <1>1, <2>1, <3>1 DEF y
    <3> HIDE DEF C
    <3>3. CutShort(tmp[y], w[k]) \in Seq(C)
      BY <1>3, <3>2, CutShortIs
    <3> QED
      BY <2>1, <3>3 DEF y
  <2>2. CASE k \notin DOMAIN w
    <3> HIDE DEF C
    <3> QED
      BY <2>2
  <2> QED
    BY <2>1, <2>2
<1>5. Merged(len, w) = FlattenSeq(q)
  BY DEF Merged
<1> HIDE DEF C, part
<1>6. q \in Seq(X)
  <2> HIDE DEF X
  <2> QED
    BY <1>2, <1>4
<1> HIDE DEF q
<1>7. FlattenSeq(q) \in Seq(C)
  BY <1>6, FlattenIs DEF X
<1> QED
  BY <1>5, <1>7 DEF C

\* The part files of one length as a whole.
LEMMA AllOfIs ==
  ASSUME DataInv, NEW len
  PROVE  /\ DOMAIN AllOf(len) = Copied(len)
         /\ \A k \in Copied(len) : /\ k \in Parts /\ <<k, len>> \in DOMAIN tmp /\ AllOf(len)[k] \in Nat
                                   /\ AllOf(len)[k] = 2 * Len(tmp[<<k, len>>])
<1>1. \A y \in DOMAIN tmp : Len(tmp[y]) \in Nat
  BY DEF DataInv, PartFilesInv
<1>2. \A k \in Copied(len) : k \in Parts /\ <<k, len>> \in DOMAIN tmp
  BY DEF Copied
<1>3. DOMAIN AllOf(len) = Copied(len) /\ \A k \in Copied(len) : AllOf(len)[k] = 2 * Len(tmp[<<k, len>>])
  BY DEF AllOf
<1>4. ASSUME NEW k \in Copied(len) PROVE AllOf(len)[k] \in Nat
  <2>1. Len(tmp[<<k, len>>]) \in Nat
    BY <1>1, <1>2
  <2> QED
    BY <1>3, <2>1
<1> QED
  BY <1>2, <1>3, <1>4

\* A file that the merge has written, whatever has reached it.
LEMMA PutKeeps ==
  ASSUME DataInv, NEW len \in LengthsOfDoc, NEW q \in Seq(FileLines(len)), files' = Put(files, len, q),
         LengthsOfDoc' = LengthsOfDoc, \A y : FileLines(y)' = FileLines(y), pc' # "single"
  PROVE  FilesInv'
<1>1. /\ DOMAIN files' = DOMAIN files \cup {len} /\ files'[len] \in Seq(FileLines(len))
      /\ \A y \in DOMAIN files : y # len => files'[y] = files[y]
  BY DEF Put
<1> QED
  BY <1>1 DEF DataInv, FilesInv

\* The files that are cut short are still such files.
LEMMA FilesCut ==
  ASSUME DataInv, CutDown(files, files'), LengthsOfDoc' = LengthsOfDoc,
         \A y : FileLines(y)' = FileLines(y), pc' # "single"
  PROVE  FilesInv'
<1>1. \A y \in DOMAIN files : y \in LengthsOfDoc /\ files[y] \in Seq(FileLines(y))
  BY DEF DataInv, FilesInv
<1>2. ASSUME NEW y \in DOMAIN files' PROVE y \in LengthsOfDoc /\ files'[y] \in Seq(FileLines(y))
  <2>1. y \in DOMAIN files /\ y \in LengthsOfDoc /\ files[y] \in Seq(FileLines(y))
    BY <1>1 DEF CutDown
  <2>2. PICK h \in Nat : files'[y] = CutShort(files[y], h)
    BY <2>1 DEF CutDown
  <2>3. Torn \in FileLines(y)
    BY DEF FileLines
  <2> QED
    BY <2>1, <2>2, <2>3, CutShortIs
<1> QED
  BY <1>2 DEF FilesInv
LEMMA PartFilesCut ==
  ASSUME DataInv, CutDown(tmp, tmp'), LengthsOfDoc' = LengthsOfDoc,
         \A y : FileLines(y)' = FileLines(y), pc' = "parts" => pc = "parts",
         chunks' = chunks, at' = at, doc' = doc
  PROVE  PartFilesInv'
<1>1. \A y \in DOMAIN tmp : y[2] \in LengthsOfDoc /\ tmp[y] \in Seq(FileLines(y[2]))
  BY DEF DataInv, PartFilesInv
<1>2. ASSUME NEW y \in DOMAIN tmp' PROVE y[2] \in LengthsOfDoc /\ tmp'[y] \in Seq(FileLines(y[2]))
  <2>1. y \in DOMAIN tmp /\ y[2] \in LengthsOfDoc /\ tmp[y] \in Seq(FileLines(y[2]))
    BY <1>1 DEF CutDown
  <2>2. PICK h \in Nat : tmp'[y] = CutShort(tmp[y], h)
    BY <2>1 DEF CutDown
  <2>3. Torn \in FileLines(y[2])
    BY DEF FileLines
  <2> QED
    BY <2>1, <2>2, <2>3, CutShortIs
<1>3. DOMAIN tmp' = DOMAIN tmp
  BY DEF CutDown
<1>4. pc = "parts" => \A k \in Parts : \A j \in chunks[k].first..(at[k] - 1) :
                        <<k, Len(doc[j].words)>> \in DOMAIN tmp
  BY DEF DataInv, PartFilesInv
<1> QED
  BY <1>2, <1>3, <1>4 DEF PartFilesInv, Parts

\* The files that are open are there.
LEMMA OpenedAre ==
  ASSUME DataInv
  PROVE  /\ pc = "single" => Opened(1) \subseteq DOMAIN files
         /\ pc = "parts" => \A k \in Parts : {k} \X Opened(k) \subseteq DOMAIN tmp
<1>1. \A first, j : FileOf(first, j) = Len(doc[j].words)
  BY DEF FileOf
<1>2. ASSUME pc = "single" PROVE Opened(1) \subseteq DOMAIN files
  <2>1. chunks[1].first = 1 /\ \A j \in 1..(at[1] - 1) : Len(doc[j].words) \in DOMAIN files
    BY <1>2 DEF DataInv, PlacesInv, FilesInv
  <2> QED
    BY <1>1, <2>1 DEF Opened
<1>3. ASSUME pc = "parts", NEW k \in Parts PROVE {k} \X Opened(k) \subseteq DOMAIN tmp
  <2>1. \A j \in chunks[k].first..(at[k] - 1) : <<k, Len(doc[j].words)>> \in DOMAIN tmp
    BY <1>3 DEF DataInv, PartFilesInv
  <2>2. \A x \in Opened(k) : \E j \in chunks[k].first..(at[k] - 1) : x = Len(doc[j].words)
    BY <1>1 DEF Opened
  <2> QED
    BY <2>1, <2>2
<1> QED
  BY <1>2, <1>3
LEMMA LinesAreCounted ==
  ASSUME DataInv
  PROVE  /\ \A y \in DOMAIN files : Len(files[y]) \in Nat
         /\ \A y \in DOMAIN tmp : Len(tmp[y]) \in Nat
  BY DEF DataInv, FilesInv, PartFilesInv

\* The files of an analysis in one part, when they are closed.
LEMMA SingleCut ==
  ASSUME DataInv, pc = "single", \E w \in Reached(files, Opened(1)) : files' = Kept(files, w)
  PROVE  CutDown(files, files')
<1>1. PICK w \in Reached(files, Opened(1)) : files' = Kept(files, w)
  OBVIOUS
<1>2. Opened(1) \in SUBSET DOMAIN files
  BY OpenedAre
<1> QED
  BY <1>1, <1>2, LinesAreCounted, KeptIs

\* And those of threads.
LEMMA PartsCut ==
  ASSUME DataInv, pc = "parts", NEW threads \in SUBSET Parts,
         \E w \in Reached(tmp, OpenedBy(threads)) : tmp' = Kept(tmp, w)
  PROVE  CutDown(tmp, tmp')
<1>1. PICK w \in Reached(tmp, OpenedBy(threads)) : tmp' = Kept(tmp, w)
  OBVIOUS
<1>2. OpenedBy(threads) \in SUBSET DOMAIN tmp
  <2>1. \A k \in threads : {k} \X Opened(k) \subseteq DOMAIN tmp
    BY OpenedAre
  <2> QED
    BY <2>1 DEF OpenedBy
<1> QED
  BY <1>1, <1>2, LinesAreCounted, KeptIs
LEMMA ThreadCut ==
  ASSUME DataInv, NEW k \in Parts, ThreadEnds(k)
  PROVE  CutDown(tmp, tmp')
<1>1. pc = "parts" /\ \E w \in Reached(tmp, {k} \X Opened(k)) : tmp' = Kept(tmp, w)
  BY DEF ThreadEnds
<1>2. OpenedBy({k}) = {k} \X Opened(k)
  BY DEF OpenedBy
<1> QED
  BY <1>1, <1>2, PartsCut

\* The part files of one length, joined.
LEMMA MergeKeeps ==
  ASSUME DataInv, MergeLength, doc' = doc, closed' = closed, tail' = tail
  PROVE  DataInv'
<1> DEFINE len == Min(toMerge)
<1>1. /\ pc = "merge" /\ toMerge # {} /\ toMerge' = toMerge \ {len}
      /\ analyses' = analyses /\ pc' = pc /\ chunks' = chunks /\ at' = at /\ over' = over /\ failed' = failed
      /\ partStats' = partStats /\ tmp' = tmp /\ outcome' = outcome
  BY DEF MergeLength
<1>0. PICK w \in [Copied(len) -> UNION {0..AllOf(len)[k] : k \in Copied(len)}] :
        files' = Put(files, len, Merged(len, w))
  BY DEF MergeLength
<1>2. LengthsOfDoc' = LengthsOfDoc /\ \A y : FileLines(y)' = FileLines(y)
  BY DEF LengthsOfDoc, FileLines, LinesOf, Lines, Torn
<1>3. toMerge \subseteq LengthsOfDoc /\ CallsInv
  BY DEF DataInv, CallsInv
<1>4. LengthsOfDoc \subseteq Nat
  BY <1>3, DocIs DEF LengthsOfDoc
<1>5. len \in LengthsOfDoc
  BY <1>1, <1>3, <1>4, MinIs
<1>6. CallsInv'
  BY <1>1, <1>2, <1>3 DEF CallsInv
<1> HIDE DEF len
<1>7. ASSUME NEW k \in DOMAIN w PROVE <<k, len>> \in DOMAIN tmp /\ w[k] \in Nat
  <2>1. k \in Copied(len) /\ w[k] \in UNION {0..AllOf(len)[j] : j \in Copied(len)}
    OBVIOUS
  <2>2. PICK j \in Copied(len) : w[k] \in 0..AllOf(len)[j]
    BY <2>1
  <2>3. AllOf(len)[j] \in Nat /\ <<k, len>> \in DOMAIN tmp
    BY <2>1, AllOfIs
  <2> QED
    BY <2>2, <2>3
<1>8. Merged(len, w) \in Seq(FileLines(len))
  BY <1>7, MergedIs
<1>13. FilesInv'
  BY <1>0, <1>1, <1>2, <1>5, <1>8, PutKeeps
<1>14. PartFilesInv' /\ PlacesInv'
  BY <1>1, <1>2 DEF DataInv, PartFilesInv, PlacesInv, Parts
<1> QED
  BY <1>6, <1>13, <1>14 DEF DataInv

\* What a failure leaves of the files.
LEMMA FailsKeeps ==
  ASSUME DataInv, AnalysisFails, doc' = doc, closed' = closed, tail' = tail
  PROVE  DataInv'
<1>1. /\ analyses' = analyses /\ pc' = "idle" /\ chunks' = chunks /\ at' = at /\ over' = over
      /\ failed' = failed /\ partStats' = partStats /\ toMerge' = toMerge /\ outcome' = "failed"
  BY DEF AnalysisFails, Return
<1>2. LengthsOfDoc' = LengthsOfDoc /\ \A y : FileLines(y)' = FileLines(y)
  BY DEF LengthsOfDoc, FileLines, LinesOf, Lines, Torn
<1>3. CallsInv' /\ PlacesInv'
  BY <1>1, <1>2 DEF DataInv, CallsInv, PlacesInv, Parts
<1>4. ASSUME tmp' = tmp PROVE PartFilesInv'
  BY <1>1, <1>2, <1>4 DEF DataInv, PartFilesInv, Parts
<1>5. ASSUME files' = files PROVE FilesInv'
  BY <1>1, <1>2, <1>5 DEF DataInv, FilesInv
<1>6. CASE FailsInSingle
  <2>1. CutDown(files, files') /\ tmp' = tmp
    BY <1>6, SingleCut DEF FailsInSingle
  <2>2. FilesInv'
    BY <1>1, <1>2, <2>1, FilesCut
  <2> QED
    BY <1>3, <1>4, <2>1, <2>2 DEF DataInv
<1>7. CASE FailsInParts
  <2>1. CutDown(tmp, tmp') /\ files' = files
    BY <1>7, PartsCut DEF FailsInParts
  <2>2. PartFilesInv'
    BY <1>1, <1>2, <2>1, PartFilesCut
  <2> QED
    BY <1>3, <1>5, <2>1, <2>2 DEF DataInv
<1>8. CASE FailsInMerge
  <2>1. CASE toMerge = {}
    <3>1. files' = files /\ \E keys \in SUBSET DOMAIN tmp : tmp' = [key \in keys |-> tmp[key]]
      BY <1>8, <2>1 DEF FailsInMerge
    <3>2. \A key \in DOMAIN tmp' : key \in DOMAIN tmp /\ tmp'[key] = tmp[key]
      BY <3>1
    <3>3. PartFilesInv'
      BY <1>1, <1>2, <3>2 DEF DataInv, PartFilesInv
    <3> QED
      BY <1>3, <1>5, <3>1, <3>3 DEF DataInv
  <2>2. CASE toMerge # {}
    <3> DEFINE len == Min(toMerge)
    <3>1. /\ tmp' = tmp
          /\ \/ files' = files
             \/ \E h \in 0..(2 * Len(Merged(len, AllOf(len)))) :
                  files' = Put(files, len, CutShort(Merged(len, AllOf(len)), h))
      BY <1>8, <2>2 DEF FailsInMerge
    <3>2. toMerge \subseteq LengthsOfDoc /\ CallsInv
      BY DEF DataInv, CallsInv
    <3>3. LengthsOfDoc \subseteq Nat
      BY <3>2, DocIs DEF LengthsOfDoc
    <3>4. len \in LengthsOfDoc
      BY <2>2, <3>2, <3>3, MinIs
    <3> HIDE DEF len
    <3>5. Merged(len, AllOf(len)) \in Seq(FileLines(len))
      BY AllOfIs, MergedIs
    <3>6. CASE files' = files
      BY <1>3, <1>4, <1>5, <3>1, <3>6 DEF DataInv
    <3>7. CASE \E h \in 0..(2 * Len(Merged(len, AllOf(len)))) :
                 files' = Put(files, len, CutShort(Merged(len, AllOf(len)), h))
      <4>1. PICK h \in 0..(2 * Len(Merged(len, AllOf(len)))) :
              files' = Put(files, len, CutShort(Merged(len, AllOf(len)), h))
        BY <3>7
      <4>2. h \in Nat /\ Torn \in FileLines(len)
        BY <3>5 DEF FileLines
      <4>3. CutShort(Merged(len, AllOf(len)), h) \in Seq(FileLines(len))
        BY <3>5, <4>2, CutShortIs
      <4>4. FilesInv'
        BY <1>1, <1>2, <3>4, <4>1, <4>3, PutKeeps
      <4> QED
        BY <1>3, <1>4, <3>1, <4>4 DEF DataInv
    <3> QED
      BY <3>1, <3>6, <3>7
  <2> QED
    BY <2>1, <2>2
<1> QED
  BY <1>6, <1>7, <1>8 DEF AnalysisFails

\* Every step preserves the invariant.
LEMMA DataStep == AnalyzerInv /\ DataInv /\ [Next]_vars => DataInv'
<1> SUFFICES ASSUME AnalyzerInv, DataInv, [Next]_vars PROVE DataInv'
  OBVIOUS
<1>1. doc' = doc /\ closed' = closed /\ tail' = tail
  BY DEF Next, Analyze, SinglePhrase, SingleEnds, ParseError, PartPhrase, PartEnds, PartFails,
         ThreadEnds, JoinThreads, MergeLength, MergeEnds, AnalysisFails, NoMoreAnalyses, vars, results
<1>2. LengthsOfDoc' = LengthsOfDoc /\ \A y : FileLines(y)' = FileLines(y)
  BY <1>1 DEF LengthsOfDoc, FileLines, LinesOf, Lines, Torn
<1>3. ASSUME NEW n \in ThreadCounts, Analyze(n) PROVE DataInv'
  BY <1>1, <1>3, AnalyzeKeeps DEF AnalyzerInv
<1>4. CASE SinglePhrase
  BY <1>1, <1>4, SinglePhraseKeeps
<1>5. CASE SingleEnds \/ ParseError
  <2>1. /\ pc = "single" /\ pc' = "idle" /\ analyses' = analyses /\ chunks' = chunks /\ at' = at
        /\ over' = over /\ failed' = failed /\ partStats' = partStats /\ toMerge' = toMerge /\ tmp' = tmp
        /\ outcome' \in {"ok", "failed"} /\ \E w \in Reached(files, Opened(1)) : files' = Kept(files, w)
    BY <1>5 DEF SingleEnds, ParseError, Return
  <2>2. FilesInv'
    BY <1>2, <2>1, SingleCut, FilesCut
  <2>3. CallsInv' /\ PlacesInv' /\ PartFilesInv'
    BY <1>1, <1>2, <2>1 DEF DataInv, CallsInv, PlacesInv, PartFilesInv, Parts
  <2> QED
    BY <2>2, <2>3 DEF DataInv
<1>6. ASSUME NEW k \in Parts, PartPhrase(k) PROVE DataInv'
  BY <1>1, <1>6, PartPhraseKeeps
<1>7. ASSUME NEW k \in Parts, PartEnds(k) \/ PartFails(k) PROVE DataInv'
  <2>1. ThreadEnds(k) /\ failed' \in {failed, failed \cup {k}}
    BY <1>7 DEF PartEnds, PartFails
  <2>2. /\ pc = "parts" /\ pc' = pc /\ analyses' = analyses /\ chunks' = chunks /\ at' = at
        /\ over' = over \cup {k} /\ partStats' = partStats /\ toMerge' = toMerge /\ files' = files
        /\ outcome' = outcome
    BY <2>1 DEF ThreadEnds
  <2>3. PartFilesInv'
    BY <1>1, <1>2, <2>1, <2>2, ThreadCut, PartFilesCut
  <2>4. CallsInv' /\ PlacesInv' /\ FilesInv'
    BY <1>1, <1>2, <2>1, <2>2 DEF DataInv, CallsInv, PlacesInv, FilesInv, Parts
  <2> QED
    BY <2>3, <2>4 DEF DataInv
<1>8. CASE JoinThreads
  <2>1. /\ toMerge' = toMerge \/ toMerge' = Lengths
        /\ pc' \in {"idle", "merge"} /\ outcome' \in {"failed", outcome}
        /\ analyses' = analyses /\ chunks' = chunks /\ at' = at /\ over' = over /\ failed' = failed
        /\ partStats' = partStats /\ tmp' = tmp /\ files' = files
    BY <1>8 DEF JoinThreads, Return
  <2>2. Lengths \subseteq LengthsOfDoc
    BY DEF Lengths, DataInv, PartFilesInv
  <2>3. CallsInv'
    BY <1>1, <1>2, <2>1, <2>2 DEF DataInv, CallsInv
  <2> QED
    BY <1>1, <1>2, <2>1, <2>3 DEF DataInv, PlacesInv, PartFilesInv, FilesInv, Parts
<1>9. CASE MergeLength
  BY <1>1, <1>9, MergeKeeps
<1>10. CASE MergeEnds
  <2>1. DOMAIN tmp' = {} /\ pc' = "idle" /\ outcome' = "ok"
        /\ analyses' = analyses /\ chunks' = chunks /\ at' = at /\ over' = over /\ failed' = failed
        /\ partStats' = partStats /\ files' = files /\ toMerge' = toMerge
    BY <1>10 DEF MergeEnds, Return, NoFiles
  <2> QED
    BY <1>1, <1>2, <2>1 DEF DataInv, CallsInv, PlacesInv, PartFilesInv, FilesInv, Parts
<1>11. CASE UNCHANGED vars
  BY <1>1, <1>2, <1>11 DEF vars, DataInv, CallsInv, PlacesInv, PartFilesInv, FilesInv, Parts
<1>12. CASE AnalysisFails
  BY <1>1, <1>12, FailsKeeps
<1> QED
  BY <1>3, <1>4, <1>5, <1>6, <1>7, <1>8, <1>9, <1>10, <1>11, <1>12 DEF Next, NoMoreAnalyses

\* Every file of phrases, of a part and of the whole, holds lines of results.json of its
\* length only, or a line that was cut off, and a thread never leaves its part; through
\* failures, noticed or not, kills and repetitions.
THEOREM FilesHoldTheirLines == Spec => []TypeOK
<1>1. AnalyzerInv /\ DataInv => TypeOK
  BY DEF TypeOK, AnalyzerInv, PhaseInv, DataInv, CallsInv, PlacesInv, PartFilesInv, FilesInv, FileLines
<1> QED
  BY <1>1, AnalyzerInvariance, DataInit, DataStep, PTL DEF Spec
-----------------------------------------------------------------------------
(* What MatchesSerial says, object by object.                               *)

\* The objects f to e: those with len words, the lengths there are and how often, the lines of
\* one length, and the words at their starts.
PlacesOf(len, f, e) == {k \in f..e : Len(doc[k].words) = len}
LengthsIn(f, e) == {Len(doc[k].words) : k \in f..e}
CountsOf(f, e) == [len \in LengthsIn(f, e) |-> Cardinality(PlacesOf(len, f, e))]
LinesAt(places) == [j \in DOMAIN Ascending(places) |-> Line(doc[Ascending(places)[j]])]
OccurrencesIn(f, e) == UNION {Occurrences(doc[k]) : k \in f..e}

\* offsets has each word of S, and where it is first.
Firsts(offsets, S) ==
  /\ DOMAIN offsets = {x[1] : x \in S}
  /\ \A w \in DOMAIN offsets : <<w, offsets[w]>> \in S /\ \A x \in S : x[1] = w => offsets[w] <= x[2]

\* The objects up to one and those after it.
Neighbours(f, e, g) ==
  /\ \A len : /\ PlacesOf(len, f, g) = PlacesOf(len, f, e) \cup PlacesOf(len, e + 1, g)
              /\ \A x \in PlacesOf(len, f, e), y \in PlacesOf(len, e + 1, g) : x < y
              /\ PlacesOf(len, f, e) \in SUBSET Int /\ IsFiniteSet(PlacesOf(len, f, e))
              /\ PlacesOf(len, e + 1, g) \in SUBSET Int /\ IsFiniteSet(PlacesOf(len, e + 1, g))
  /\ LengthsIn(f, g) = LengthsIn(f, e) \cup LengthsIn(e + 1, g)
  /\ OccurrencesIn(f, g) = OccurrencesIn(f, e) \cup OccurrencesIn(e + 1, g)
LEMMA PlacesJoined ==
  ASSUME NEW f \in Int, NEW e \in Int, NEW g \in Int, f <= e + 1, e <= g
  PROVE  Neighbours(f, e, g)
<1>1. /\ f..g = (f..e) \cup ((e + 1)..g)
      /\ \A x \in f..e, y \in (e + 1)..g : x < y
  OBVIOUS
<1>2. IsFiniteSet(f..e) /\ IsFiniteSet((e + 1)..g) /\ f..e \in SUBSET Int /\ (e + 1)..g \in SUBSET Int
  BY FS_Interval
<1>3. ASSUME NEW len
      PROVE  /\ PlacesOf(len, f, g) = PlacesOf(len, f, e) \cup PlacesOf(len, e + 1, g)
             /\ \A x \in PlacesOf(len, f, e), y \in PlacesOf(len, e + 1, g) : x < y
             /\ PlacesOf(len, f, e) \in SUBSET Int /\ IsFiniteSet(PlacesOf(len, f, e))
             /\ PlacesOf(len, e + 1, g) \in SUBSET Int /\ IsFiniteSet(PlacesOf(len, e + 1, g))
  <2>1. PlacesOf(len, f, e) \in SUBSET (f..e) /\ PlacesOf(len, e + 1, g) \in SUBSET ((e + 1)..g)
    BY DEF PlacesOf
  <2>2. IsFiniteSet(PlacesOf(len, f, e)) /\ IsFiniteSet(PlacesOf(len, e + 1, g))
    BY <1>2, <2>1, FS_Subset
  <2>3. PlacesOf(len, f, g) = PlacesOf(len, f, e) \cup PlacesOf(len, e + 1, g)
    BY <1>1 DEF PlacesOf
  <2> QED
    BY <1>1, <1>2, <2>1, <2>2, <2>3
<1>4. LengthsIn(f, g) = LengthsIn(f, e) \cup LengthsIn(e + 1, g)
  BY <1>1 DEF LengthsIn
<1>5. OccurrencesIn(f, g) = OccurrencesIn(f, e) \cup OccurrencesIn(e + 1, g)
  BY <1>1 DEF OccurrencesIn
<1> QED
  BY <1>3, <1>4, <1>5 DEF Neighbours

\* A length occurs where there is an object of it, of one object its own.
LEMMA LengthOccurs ==
  ASSUME NEW f \in Int, NEW e \in Int
  PROVE  /\ \A len : len \in LengthsIn(f, e) <=> PlacesOf(len, f, e) # {}
         /\ e < f => LengthsIn(f, e) = {} /\ OccurrencesIn(f, e) = {}
         /\ e = f => /\ LengthsIn(f, e) = {Len(doc[f].words)} /\ OccurrencesIn(f, e) = Occurrences(doc[f])
                     /\ \A len : PlacesOf(len, f, e) = IF len = Len(doc[f].words) THEN {f} ELSE {}
<1>1. \A len : len \in LengthsIn(f, e) <=> PlacesOf(len, f, e) # {}
  BY DEF LengthsIn, PlacesOf
<1>2. e < f => f..e = {}
  OBVIOUS
<1>3. e = f => f..e = {f}
  OBVIOUS
<1>4. e < f => LengthsIn(f, e) = {} /\ OccurrencesIn(f, e) = {}
  BY <1>2 DEF LengthsIn, OccurrencesIn
<1>5. e = f => LengthsIn(f, e) = {Len(doc[f].words)} /\ OccurrencesIn(f, e) = Occurrences(doc[f])
  BY <1>3 DEF LengthsIn, OccurrencesIn
<1>6. e = f => \A len : PlacesOf(len, f, e) = IF len = Len(doc[f].words) THEN {f} ELSE {}
  BY <1>3 DEF PlacesOf
<1> QED
  BY <1>1, <1>4, <1>5, <1>6

\* The lines of some objects.
LEMMA LinesAtAre ==
  ASSUME CallsInv, NEW P \in SUBSET DOMAIN doc
  PROVE  /\ P \in SUBSET Int /\ IsFiniteSet(P) /\ Cardinality(P) \in Nat
         /\ LinesAt(P) \in Seq(Lines) /\ Len(LinesAt(P)) = Cardinality(P)
         /\ Len(Ascending(P)) = Cardinality(P) /\ Ascending(P) \in Seq(Int)
         /\ \A j \in 1..Cardinality(P) : LinesAt(P)[j] = Line(doc[Ascending(P)[j]])
<1>1. Len(doc) \in Nat /\ DOMAIN doc = 1..Len(doc)
  BY DocIs
<1>2. P \in SUBSET Int /\ IsFiniteSet(P)
  BY <1>1, PlacesAre
<1> DEFINE n == Cardinality(P)
           a == Ascending(P)
           l == LinesAt(P)
<1>3. n \in Nat /\ a \in [1..n -> P] /\ a \in Seq(P) /\ Len(a) = n
  BY <1>2, AscendingLists
<1>4. l = [j \in DOMAIN a |-> Line(doc[a[j]])]
  BY DEF LinesAt
<1> HIDE DEF n, a, l
<1>5. \A j \in 1..n : Line(doc[a[j]]) \in Lines
  BY <1>3 DEF Lines
<1>6. l \in Seq(Lines) /\ Len(l) = n /\ \A j \in 1..n : l[j] = Line(doc[a[j]])
  <2> DEFINE L == Lines
  <2>1. \A j \in 1..n : Line(doc[a[j]]) \in L
    BY <1>5
  <2> HIDE DEF L
  <2>2. l \in Seq(L) /\ Len(l) = n /\ \A j \in 1..n : l[j] = Line(doc[a[j]])
    BY <1>3, <1>4, <2>1
  <2> QED
    BY <2>2 DEF L
<1>7. a \in Seq(Int)
  <2> DEFINE L == Int
  <2>1. a \in [1..n -> L]
    BY <1>2, <1>3
  <2> HIDE DEF L
  <2>2. a \in Seq(L)
    BY <1>3, <2>1
  <2> QED
    BY <2>2 DEF L
<1> QED
  BY <1>2, <1>3, <1>6, <1>7 DEF n, a, l

\* The lines of the first objects come first.
LEMMA LinesJoined ==
  ASSUME CallsInv, NEW P \in SUBSET DOMAIN doc, NEW Q \in SUBSET DOMAIN doc,
         \A x \in P, y \in Q : x < y
  PROVE  LinesAt(P \cup Q) = LinesAt(P) \o LinesAt(Q)
<1> DEFINE R == P \cup Q
           n == Cardinality(P)
           m == Cardinality(Q)
           a == Ascending(P)
           b == Ascending(Q)
           c == Ascending(R)
<1>1. /\ P \in SUBSET Int /\ IsFiniteSet(P) /\ n \in Nat /\ Len(a) = n /\ a \in Seq(Int)
      /\ LinesAt(P) \in Seq(Lines) /\ Len(LinesAt(P)) = n
      /\ \A j \in 1..n : LinesAt(P)[j] = Line(doc[a[j]])
  BY LinesAtAre
<1>2. /\ Q \in SUBSET Int /\ IsFiniteSet(Q) /\ m \in Nat /\ Len(b) = m /\ b \in Seq(Int)
      /\ LinesAt(Q) \in Seq(Lines) /\ Len(LinesAt(Q)) = m
      /\ \A j \in 1..m : LinesAt(Q)[j] = Line(doc[b[j]])
  BY LinesAtAre
<1>3. /\ Cardinality(R) = n + m /\ c = a \o b
  BY <1>1, <1>2, AscendingJoined
<1>4. /\ LinesAt(R) \in Seq(Lines) /\ Len(LinesAt(R)) = Cardinality(R)
      /\ \A j \in 1..Cardinality(R) : LinesAt(R)[j] = Line(doc[c[j]])
  <2>1. R \in SUBSET DOMAIN doc
    OBVIOUS
  <2> HIDE DEF R
  <2> QED
    BY <2>1, LinesAtAre
<1> HIDE DEF R, n, m, a, b, c
<1>5. /\ \A p \in 1..n : c[p] = a[p]
      /\ \A k \in 1..m : c[n + k] = b[k]
  <2> DEFINE C == Int
  <2>1. a \in Seq(C) /\ b \in Seq(C)
    BY <1>1, <1>2
  <2> HIDE DEF C
  <2>2. /\ \A p \in 1..Len(a) : (a \o b)[p] = a[p]
        /\ \A k \in 1..Len(b) : (a \o b)[Len(a) + k] = b[k]
    BY <2>1, TwoParts
  <2> QED
    BY <1>1, <1>2, <1>3, <2>2
<1> DEFINE s == LinesAt(P)
           t == LinesAt(Q)
           u == LinesAt(R)
<1>6. /\ s \o t \in Seq(Lines) /\ Len(s \o t) = n + m
      /\ \A p \in 1..n : (s \o t)[p] = s[p]
      /\ \A k \in 1..m : (s \o t)[n + k] = t[k]
  <2> HIDE DEF s, t
  <2>1. s \in Seq(Lines) /\ t \in Seq(Lines) /\ Len(s) = n /\ Len(t) = m
    BY <1>1, <1>2 DEF s, t
  <2> DEFINE C == Lines
  <2> HIDE DEF C
  <2>2. s \in Seq(C) /\ t \in Seq(C)
    BY <2>1 DEF C
  <2>3. /\ s \o t \in Seq(C) /\ Len(s \o t) = Len(s) + Len(t)
        /\ \A p \in 1..Len(s) : (s \o t)[p] = s[p]
        /\ \A k \in 1..Len(t) : (s \o t)[Len(s) + k] = t[k]
    BY <2>2, TwoParts
  <2> QED
    BY <2>1, <2>3 DEF C
<1>7. ASSUME NEW p \in 1..(n + m) PROVE u[p] = (s \o t)[p]
  <2>1. u[p] = Line(doc[c[p]])
    BY <1>3, <1>4
  <2>2. CASE p \in 1..n
    BY <1>1, <1>5, <1>6, <2>1, <2>2
  <2>3. CASE p \notin 1..n
    <3> DEFINE k == p - n
    <3>1. k \in 1..m /\ p = n + k
      BY <1>1, <1>2, <2>3
    <3> HIDE DEF k
    <3>2. c[p] = b[k] /\ (s \o t)[p] = t[k] /\ t[k] = Line(doc[b[k]])
      BY <1>2, <1>5, <1>6, <3>1
    <3> QED
      BY <2>1, <3>2
  <2> QED
    BY <2>2, <2>3
<1>8. u \in Seq(Lines) /\ Len(u) = n + m
  BY <1>3, <1>4
<1> HIDE DEF s, t, u
<1>9. u = s \o t
  <2> DEFINE C == Lines
             v == s \o t
  <2>1. u \in Seq(C) /\ v \in Seq(C) /\ Len(u) = Len(v) /\ \A j \in 1..Len(u) : u[j] = v[j]
    BY <1>6, <1>7, <1>8
  <2> HIDE DEF C, v
  <2>2. u = v
    BY <2>1, SameSeq
  <2> QED
    BY <2>2 DEF v
<1> QED
  BY <1>9 DEF s, t, u, R

\* The line of one object, and of none.
LEMMA LinesFew ==
  ASSUME CallsInv
  PROVE  (\A x \in DOMAIN doc : LinesAt({x}) = <<Line(doc[x])>>) /\ LinesAt({}) = <<>>
<1>1. ASSUME NEW x \in DOMAIN doc PROVE LinesAt({x}) = <<Line(doc[x])>>
  <2>1. x \in Int
    BY DocIs
  <2>2. Ascending({x}) = <<x>>
    BY <2>1, AscendingFew
  <2>3. DOMAIN <<x>> = {1} /\ <<x>>[1] = x
    OBVIOUS
  <2>4. LinesAt({x}) = [j \in {1} |-> Line(doc[x])]
    BY <2>2, <2>3 DEF LinesAt
  <2>5. \A v : [j \in {1} |-> v] = <<v>>
    OBVIOUS
  <2> QED
    BY <2>4, <2>5
<1>2. LinesAt({}) = <<>>
  <2>1. Ascending({}) = <<>> /\ DOMAIN <<>> = {}
    BY AscendingFew
  <2>2. LinesAt({}) = [j \in {} |-> Line(doc[Ascending({})[j]])]
    BY <2>1 DEF LinesAt
  <2> QED
    BY <2>2
<1> QED
  BY <1>1, <1>2

\* A finite set, as a sequence.
LEMMA SetToSeqIs ==
  ASSUME NEW S, IsFiniteSet(S)
  PROVE  LET q == SetToSeq(S) IN
         /\ Len(q) \in Nat /\ DOMAIN q = 1..Len(q) /\ \A k \in 1..Len(q) : q[k] \in S
         /\ \A k, m \in 1..Len(q) : q[k] = q[m] => k = m
         /\ \A x \in S : \E k \in 1..Len(q) : q[k] = x
<1> DEFINE n == Cardinality(S)
           q == SetToSeq(S)
<1>1. n \in Nat
  BY FS_CardinalityType
<1>2. \E f \in [1..n -> S] : IsInjective(f)
  BY FS_CardinalityType DEF ExistsBijection, Bijection, Injection
<1>3. q \in [1..n -> S] /\ IsInjective(q)
  BY <1>2 DEF SetToSeq
<1> HIDE DEF q
<1>4. q \in Injection(1..n, S)
  BY <1>3 DEF Injection
<1>5. IsFiniteSet(1..n) /\ Cardinality(1..n) = n
  BY <1>1, FS_Interval
<1>6. q \in Surjection(1..n, S)
  <2> HIDE DEF n
  <2>1. n = Cardinality(S)
    BY DEF n
  <2> QED
    BY <1>4, <1>5, <2>1, FS_Injection
<1>7. Len(q) = n /\ DOMAIN q = 1..n
  BY <1>1, <1>3
<1> HIDE DEF n
<1>8. \A k, m \in 1..n : q[k] = q[m] => k = m
  BY <1>3 DEF IsInjective
<1>9. \A x \in S : \E k \in 1..n : q[k] = x
  BY <1>6 DEF Surjection
<1> QED
  BY <1>1, <1>3, <1>7, <1>8, <1>9 DEF q

\* Numbers for finitely many members of D, and none for the others.
NumbersFor(D) == UNION {[A -> Nat] : A \in {B \in SUBSET D : IsFiniteSet(B)}}
NumberIn(counts, len) == IF len \in DOMAIN counts THEN counts[len] ELSE 0

\* d is c with one number counted up; and d is b and c together.
CountedUp(d, c, n, by) ==
  /\ DOMAIN d = DOMAIN c \cup {n}
  /\ \A len : NumberIn(d, len) = NumberIn(c, len) + IF len = n THEN by ELSE 0
Together(d, b, c) ==
  /\ DOMAIN d = DOMAIN b \cup DOMAIN c
  /\ \A len : NumberIn(d, len) = NumberIn(b, len) + NumberIn(c, len)

LEMMA NumbersFinite ==
  ASSUME NEW D, NEW c \in NumbersFor(D)
  PROVE  IsFiniteSet(DOMAIN c)
BY DEF NumbersFor

\* One number, counted up.
LEMMA CountIs ==
  ASSUME NEW D, NEW c \in NumbersFor(D), NEW n \in D, NEW by \in Nat
  PROVE  Count(c, n, by) \in NumbersFor(D) /\ CountedUp(Count(c, n, by), c, n, by)
<1>1. PICK A \in SUBSET D : c \in [A -> Nat] /\ IsFiniteSet(A)
  BY DEF NumbersFor
<1>7. IsFiniteSet(A \cup {n})
  BY <1>1, FS_AddElement
<1> DEFINE v == (IF n \in DOMAIN c THEN c[n] ELSE 0) + by
           d == [x \in DOMAIN c \cup {n} |-> IF x = n THEN v ELSE c[x]]
<1>2. Count(c, n, by) = d
  BY DEF Count, Put
<1>3. v \in Nat /\ v = NumberIn(c, n) + by
  BY <1>1 DEF NumberIn
<1> HIDE DEF v
<1>4. d \in [A \cup {n} -> Nat] /\ DOMAIN d = DOMAIN c \cup {n} /\ A \cup {n} \in SUBSET D
  BY <1>1, <1>3
<1>5. d \in NumbersFor(D)
  BY <1>4, <1>7 DEF NumbersFor
<1>6. ASSUME NEW len PROVE NumberIn(d, len) = NumberIn(c, len) + IF len = n THEN by ELSE 0
  <2>1. CASE len = n
    BY <1>3, <1>4, <2>1 DEF NumberIn
  <2>2. CASE len # n
    <3>1. NumberIn(d, len) = NumberIn(c, len)
      BY <1>4, <2>2 DEF NumberIn
    <3>2. NumberIn(c, len) \in Nat
      BY <1>1 DEF NumberIn
    <3> QED
      BY <2>2, <3>1, <3>2
  <2> QED
    BY <2>1, <2>2
<1> HIDE DEF d
<1> QED
  BY <1>2, <1>4, <1>5, <1>6 DEF CountedUp

\* F counts up from c, length by length.
CountSteps(F, D, c, d, q) ==
  /\ F \in [0..Len(q) -> NumbersFor(D)] /\ F[0] = c
  /\ \A k \in 1..Len(q) : F[k] = Count(F[k - 1], q[k], d[q[k]])

\* The counts of merge_from.
LEMMA CountsStepwise ==
  ASSUME NEW D, NEW s, NEW t, s.counts \in NumbersFor(D), t.counts \in NumbersFor(D)
  PROVE  LET q == SetToSeq(DOMAIN t.counts) IN
         \E F : CountSteps(F, D, s.counts, t.counts, q) /\ Merge(s, t).counts = F[Len(q)]
<1> DEFINE q == SetToSeq(DOMAIN t.counts)
<1>0. /\ Len(q) \in Nat /\ DOMAIN q = 1..Len(q)
      /\ \A k \in 1..Len(q) : q[k] \in D /\ t.counts[q[k]] \in Nat
  <2>1. /\ Len(q) \in Nat /\ DOMAIN q = 1..Len(q) /\ \A k \in 1..Len(q) : q[k] \in DOMAIN t.counts
    BY NumbersFinite, SetToSeqIs
  <2>2. PICK A \in SUBSET D : t.counts \in [A -> Nat]
    BY DEF NumbersFor
  <2> HIDE DEF q
  <2> QED
    BY <2>1, <2>2
<1> DEFINE n == Len(q)
           X == NumbersFor(D)
           x0 == s.counts
           h == [k \in 1..n |-> [a \in X |-> Count(a, q[k], t.counts[q[k]])]]
           Eq(f) == f = [z \in SUBSET DOMAIN q |->
                           IF z = {} THEN s.counts
                           ELSE Count(f[z \ {Max(z)}], q[Max(z)], t.counts[q[Max(z)]])]
           It == CHOOSE f : Eq(f)
<1>1. Merge(s, t).counts = It[DOMAIN q]
  BY DEF Merge, FoldLeft, MapThenFoldSet
<1>2. \A k \in 1..n, a \in X : Count(a, q[k], t.counts[q[k]]) \in X
  <2> HIDE DEF n, q
  <2>1. \A k \in 1..n : q[k] \in D /\ t.counts[q[k]] \in Nat
    BY <1>0 DEF n
  <2> QED
    BY <2>1, CountIs
<1>11. n \in Nat /\ DOMAIN q = 1..n
  BY <1>0
<1>3. x0 \in X
  OBVIOUS
<1> HIDE DEF X, q
<1>4. h \in [1..n -> [X -> X]] /\ \A k \in 1..n, a \in X : h[k][a] = Count(a, q[k], t.counts[q[k]])
  <2> HIDE DEF n
  <2> QED
    BY <1>2
<1>5. Eq(It)
  <2>1. PICK A : FoldsOver(A, X, x0, h, n)
    <3> HIDE DEF h, n, x0
    <3> QED
      BY <1>11, <1>3, <1>4, FoldsExist
  <2>2. /\ A \in [SUBSET (1..n) -> X] /\ A[{}] = x0
        /\ \A z \in SUBSET (1..n) : z # {} => A[z] = h[Max(z)][A[z \ {Max(z)}]]
    BY <2>1 DEF FoldsOver
  <2>3. \A z \in SUBSET (1..n) : z # {} => Max(z) \in 1..n /\ z \ {Max(z)} \in SUBSET (1..n)
    BY <1>11, MaxIs
  <2>4. \A z \in SUBSET (1..n) : z # {} => A[z] = Count(A[z \ {Max(z)}], q[Max(z)], t.counts[q[Max(z)]])
    <3> HIDE DEF h, n
    <3> QED
      BY <1>4, <2>2, <2>3
  <2>5. Eq(A)
    <3> HIDE DEF h, n
    <3> QED
      BY <1>11, <2>2, <2>4
  <2> HIDE DEF Eq
  <2> QED
    BY <2>5
<1>6. Reaches(It, X, x0, h, n)
  <2>1. It[{}] = x0
    <3> HIDE DEF It
    <3> QED
      BY <1>11, <1>5
  <2>2. ASSUME NEW k \in 1..n, It[1..(k - 1)] \in X PROVE It[1..k] = h[k][It[1..(k - 1)]]
    <3>1. k \in Nat /\ k # 0 /\ 1..k \in SUBSET (1..n)
      BY <1>11
    <3>2. 1..k # {} /\ Max(1..k) = k /\ (1..k) \ {k} = 1..(k - 1)
      BY <3>1, MaxOfFirst
    <3> HIDE DEF It, n, h
    <3>3. It[1..k] = Count(It[1..(k - 1)], q[k], t.counts[q[k]])
      BY <1>11, <1>5, <3>1, <3>2
    <3> QED
      BY <1>4, <2>2, <3>3
  <2> HIDE DEF h, n, It
  <2> QED
    BY <2>1, <2>2 DEF Reaches
<1>7. PICK F : Stepwise(F, X, x0, h, n) /\ It[1..n] = F[n]
  <2> HIDE DEF h, n, It, x0
  <2> QED
    BY <1>11, <1>3, <1>4, <1>6, FoldReached
<1>8. F \in [0..n -> X] /\ F[0] = x0 /\ \A k \in 1..n : F[k] = Count(F[k - 1], q[k], t.counts[q[k]])
  <2>1. F \in [0..n -> X] /\ F[0] = x0 /\ \A k \in 1..n : F[k] = h[k][F[k - 1]]
    BY <1>7 DEF Stepwise
  <2>2. \A k \in 1..n : F[k - 1] \in X
    <3>1. \A k \in 1..n : k - 1 \in 0..n
      BY <1>11
    <3> QED
      BY <2>1, <3>1
  <2> HIDE DEF h, n
  <2> QED
    BY <1>4, <2>1, <2>2
<1>9. CountSteps(F, D, s.counts, t.counts, q)
  BY <1>8 DEF CountSteps, X
<1>10. Merge(s, t).counts = F[n]
  <2> HIDE DEF It
  <2> QED
    BY <1>0, <1>1, <1>7
<1> QED
  BY <1>9, <1>10 DEF q

\* The image of a finite set is finite.
LEMMA ImageIsFinite ==
  ASSUME NEW S, IsFiniteSet(S), NEW g, DOMAIN g = S
  PROVE  IsFiniteSet({g[x] : x \in S})
<1> DEFINE h == [x \in S |-> g[x]]
           T == {g[x] : x \in S}
<1>1. h \in Surjection(S, T)
  BY DEF Surjection
<1> QED
  BY <1>1, FS_Surjection

\* Numbers are told by what there is of each member.
LEMMA SameNumbers ==
  ASSUME NEW D, NEW c \in NumbersFor(D), NEW d \in NumbersFor(D), DOMAIN c = DOMAIN d,
         \A x \in DOMAIN c : NumberIn(c, x) = NumberIn(d, x)
  PROVE  c = d
<1>1. PICK A \in SUBSET D : c \in [A -> Nat]
  BY DEF NumbersFor
<1>2. PICK B \in SUBSET D : d \in [B -> Nat]
  BY DEF NumbersFor
<1>3. A = B /\ \A x \in A : c[x] = d[x]
  BY <1>1, <1>2 DEF NumberIn
<1>4. c \in [A -> Nat] /\ d \in [A -> Nat]
  BY <1>1, <1>2, <1>3
<1> QED
  BY <1>3, <1>4

\* The counts of some objects.
CountsAre(c, f, e) ==
  /\ c \in NumbersFor(Nat) /\ DOMAIN c = LengthsIn(f, e) /\ IsFiniteSet(LengthsIn(f, e))
  /\ \A len : NumberIn(c, len) = Cardinality(PlacesOf(len, f, e))
LEMMA CountsOfAre ==
  ASSUME CallsInv, NEW f \in Nat \ {0}, NEW e \in Int, e <= Len(doc)
  PROVE  CountsAre(CountsOf(f, e), f, e)
<1>1. DOMAIN doc = 1..Len(doc) /\ Len(doc) \in Nat /\ \A k \in DOMAIN doc : Len(doc[k].words) \in Nat
  BY DocIs
<1>2. \A k \in f..e : Len(doc[k].words) \in Nat
  BY <1>1
<1>3. LengthsIn(f, e) \in SUBSET Nat
  BY <1>2 DEF LengthsIn
<1>4. IsFiniteSet(f..e)
  BY FS_Interval
<1>5. IsFiniteSet(LengthsIn(f, e))
  <2> DEFINE g == [k \in f..e |-> Len(doc[k].words)]
  <2>1. LengthsIn(f, e) = {g[k] : k \in f..e} /\ DOMAIN g = f..e
    BY DEF LengthsIn
  <2> HIDE DEF g
  <2> QED
    BY <1>4, <2>1, ImageIsFinite
<1>6. \A len : IsFiniteSet(PlacesOf(len, f, e)) /\ PlacesOf(len, f, e) \in SUBSET (f..e)
  BY <1>4, FS_Subset DEF PlacesOf
<1>7. \A len : Cardinality(PlacesOf(len, f, e)) \in Nat
  BY <1>6, FS_CardinalityType
<1> DEFINE c == [len \in LengthsIn(f, e) |-> Cardinality(PlacesOf(len, f, e))]
<1>8. c \in [LengthsIn(f, e) -> Nat]
  BY <1>7
<1>9. CountsOf(f, e) = c
  BY DEF CountsOf
<1> HIDE DEF c
<1>10. c \in NumbersFor(Nat) /\ DOMAIN c = LengthsIn(f, e)
  BY <1>3, <1>5, <1>8 DEF NumbersFor
<1>11. ASSUME NEW len PROVE NumberIn(c, len) = Cardinality(PlacesOf(len, f, e))
  <2>1. CASE len \in LengthsIn(f, e)
    BY <1>8, <2>1 DEF NumberIn, c
  <2>2. CASE len \notin LengthsIn(f, e)
    <3>1. PlacesOf(len, f, e) = {}
      BY <2>2, LengthOccurs
    <3> QED
      BY <1>8, <2>2, <3>1, FS_EmptySet DEF NumberIn
  <2> QED
    BY <2>1, <2>2
<1> QED
  BY <1>5, <1>9, <1>10, <1>11 DEF CountsAre

\* One object more, counted.
LEMMA CountsGrow ==
  ASSUME CallsInv, NEW f \in Nat \ {0}, NEW k \in DOMAIN doc, f <= k
  PROVE  Count(CountsOf(f, k - 1), Len(doc[k].words), 1) = CountsOf(f, k)
<1> DEFINE l == Len(doc[k].words)
           c == CountsOf(f, k - 1)
           d == CountsOf(f, k)
<1>1. k \in Nat /\ k <= Len(doc) /\ Len(doc) \in Nat /\ l \in Nat
  BY DocIs
<1>2. CountsAre(c, f, k - 1) /\ CountsAre(d, f, k)
  BY <1>1, CountsOfAre
<1>4. /\ \A len : /\ PlacesOf(len, f, k) = PlacesOf(len, f, k - 1) \cup PlacesOf(len, k, k)
                  /\ \A x \in PlacesOf(len, f, k - 1), y \in PlacesOf(len, k, k) : x < y
                  /\ PlacesOf(len, f, k - 1) \in SUBSET Int /\ IsFiniteSet(PlacesOf(len, f, k - 1))
      /\ LengthsIn(f, k) = LengthsIn(f, k - 1) \cup LengthsIn(k, k)
  <2> DEFINE e == k - 1
  <2>1. f \in Int /\ e \in Int /\ k \in Int /\ f <= e + 1 /\ e <= k /\ e + 1 = k
    BY <1>1
  <2> HIDE DEF e
  <2>2. Neighbours(f, e, k)
    BY <2>1, PlacesJoined
  <2> QED
    BY <2>1, <2>2 DEF e, Neighbours
<1>5. LengthsIn(k, k) = {l} /\ \A len : PlacesOf(len, k, k) = IF len = l THEN {k} ELSE {}
  BY <1>1, LengthOccurs
<1> DEFINE N == Nat
<1>6. Count(c, l, 1) \in NumbersFor(N) /\ CountedUp(Count(c, l, 1), c, l, 1) /\ d \in NumbersFor(N)
  <2>1. c \in NumbersFor(N) /\ l \in N /\ 1 \in Nat /\ d \in NumbersFor(N)
    BY <1>1, <1>2 DEF CountsAre
  <2> HIDE DEF N, c, l, d
  <2> QED
    BY <2>1, CountIs
<1>7. ASSUME NEW len PROVE NumberIn(d, len) = NumberIn(c, len) + IF len = l THEN 1 ELSE 0
  <2> DEFINE P == PlacesOf(len, f, k - 1)
  <2>1. /\ PlacesOf(len, f, k) = P \cup PlacesOf(len, k, k) /\ P \in SUBSET Int /\ IsFiniteSet(P)
        /\ \A x \in P, y \in PlacesOf(len, k, k) : x < y
    BY <1>4
  <2>2. NumberIn(d, len) = Cardinality(PlacesOf(len, f, k)) /\ NumberIn(c, len) = Cardinality(P)
    BY <1>2 DEF CountsAre
  <2> HIDE DEF P
  <2>3. Cardinality(P) \in Nat
    BY <2>1, FS_CardinalityType
  <2>4. CASE len = l
    <3>1. PlacesOf(len, k, k) = {k}
      BY <1>5, <2>4
    <3>2. k \notin P
      BY <1>1, <2>1, <3>1
    <3>3. Cardinality(P \cup {k}) = Cardinality(P) + 1
      BY <2>1, <3>2, FS_AddElement
    <3> QED
      BY <2>1, <2>2, <2>4, <3>1, <3>3
  <2>5. CASE len # l
    <3>1. PlacesOf(len, f, k) = P
      BY <1>5, <2>1, <2>5
    <3> QED
      BY <2>2, <2>3, <2>5, <3>1
  <2> QED
    BY <2>4, <2>5
<1> HIDE DEF c, d, l
<1>8. DOMAIN Count(c, l, 1) = DOMAIN d /\ \A x : NumberIn(Count(c, l, 1), x) = NumberIn(d, x)
  BY <1>2, <1>4, <1>5, <1>6, <1>7 DEF CountsAre, CountedUp
<1>9. Count(c, l, 1) = d
  <2> HIDE DEF N
  <2> QED
    BY <1>6, <1>8, SameNumbers
<1> QED
  BY <1>9 DEF c, d, l

\* The counts of merge_from: those of both.
LEMMA CountsMerged ==
  ASSUME NEW D, NEW s, NEW t, s.counts \in NumbersFor(D), t.counts \in NumbersFor(D)
  PROVE  Merge(s, t).counts \in NumbersFor(D) /\ Together(Merge(s, t).counts, s.counts, t.counts)
<1> DEFINE d == t.counts
           c == s.counts
           q == SetToSeq(DOMAIN t.counts)
           n == Len(q)
<1>1. PICK F : CountSteps(F, D, c, d, q) /\ Merge(s, t).counts = F[n]
  BY CountsStepwise
<1>2. /\ n \in Nat /\ \A k \in 1..n : q[k] \in DOMAIN d
      /\ \A k, m \in 1..n : q[k] = q[m] => k = m
      /\ \A x \in DOMAIN d : \E k \in 1..n : q[k] = x
  BY NumbersFinite, SetToSeqIs
<1>3. PICK A \in SUBSET D : d \in [A -> Nat]
  BY DEF NumbersFor
<1>4. PICK B \in SUBSET D : c \in [B -> Nat]
  BY DEF NumbersFor
<1> HIDE DEF q, n, d, c
<1>5. \A len : NumberIn(c, len) \in Nat
  BY <1>4 DEF NumberIn
<1>6. /\ F \in [0..n -> NumbersFor(D)] /\ F[0] = c
      /\ \A k \in 1..n : F[k] = Count(F[k - 1], q[k], d[q[k]])
  BY <1>1 DEF CountSteps, n
<1> DEFINE Has(k, len) == \E j \in 1..k : q[j] = len
           T == {k \in 0..n : /\ DOMAIN F[k] = DOMAIN c \cup {q[j] : j \in 1..k}
                              /\ \A len : NumberIn(F[k], len) =
                                   NumberIn(c, len) + IF Has(k, len) THEN d[len] ELSE 0}
<1>7. 0 \in T
  <2>1. 1..0 = {}
    OBVIOUS
  <2> QED
    BY <1>2, <1>5, <1>6, <2>1
<1>8. ASSUME NEW k \in 1..n, k - 1 \in T PROVE k \in T
  <2>0. k - 1 \in 0..n /\ 1..k = 1..(k - 1) \cup {k} /\ k \notin 1..(k - 1) /\ 1..k \in SUBSET (1..n)
    BY <1>2
  <2>1. q[k] \in D /\ d[q[k]] \in Nat /\ F[k - 1] \in NumbersFor(D)
    BY <1>2, <1>3, <1>6, <2>0
  <2>2. /\ DOMAIN F[k] = DOMAIN F[k - 1] \cup {q[k]}
        /\ \A len : NumberIn(F[k], len) = NumberIn(F[k - 1], len) + IF len = q[k] THEN d[q[k]] ELSE 0
    <3>1. F[k] = Count(F[k - 1], q[k], d[q[k]])
      BY <1>6
    <3>2. CountedUp(Count(F[k - 1], q[k], d[q[k]]), F[k - 1], q[k], d[q[k]])
      BY <2>1, CountIs
    <3> QED
      BY <3>1, <3>2 DEF CountedUp
  <2>3. DOMAIN F[k] = DOMAIN c \cup {q[j] : j \in 1..k}
    BY <1>8, <2>0, <2>2
  <2>4. ASSUME NEW len PROVE NumberIn(F[k], len) = NumberIn(c, len) + IF Has(k, len) THEN d[len] ELSE 0
    <3>1. NumberIn(F[k - 1], len) = NumberIn(c, len) + IF Has(k - 1, len) THEN d[len] ELSE 0
      BY <1>8
    <3>2. Has(k, len) <=> Has(k - 1, len) \/ len = q[k]
      BY <2>0
    <3>3. len = q[k] => ~Has(k - 1, len)
      BY <1>2, <2>0
    <3> HIDE DEF Has
    <3>4. CASE len = q[k]
      BY <1>5, <2>1, <2>2, <3>1, <3>2, <3>3, <3>4
    <3>5. CASE len # q[k]
      <4>1. NumberIn(F[k], len) = NumberIn(F[k - 1], len) + 0
        BY <2>2, <3>5
      <4>2. CASE Has(k, len)
        <5>1. d[len] \in Nat
          BY <1>2, <1>3, <2>0, <4>2 DEF Has
        <5> QED
          BY <1>5, <3>1, <3>2, <3>5, <4>1, <4>2, <5>1
      <4>3. CASE ~Has(k, len)
        BY <1>5, <3>1, <3>2, <3>5, <4>1, <4>3
      <4> QED
        BY <4>2, <4>3
    <3> QED
      BY <3>4, <3>5
  <2> QED
    BY <2>0, <2>3, <2>4
<1> HIDE DEF T
<1>9. n \in T
  <2>1. \A k \in 0..n : k \in T
    BY <1>2, <1>7, <1>8, UpTo
  <2> QED
    BY <1>2, <2>1
<1>10. DOMAIN F[n] = DOMAIN c \cup DOMAIN d
  BY <1>2, <1>9 DEF T
<1>11. ASSUME NEW len PROVE NumberIn(F[n], len) = NumberIn(c, len) + NumberIn(d, len)
  BY <1>2, <1>9 DEF T, NumberIn
<1>12. F[n] \in NumbersFor(D)
  BY <1>2, <1>6
<1> QED
  BY <1>1, <1>10, <1>11, <1>12 DEF c, d, Together

\* The objects of two neighbouring parts, counted.
LEMMA CountsJoined ==
  ASSUME CallsInv, NEW f \in Nat \ {0}, NEW e \in Nat, NEW g \in Nat, f <= e + 1, e <= g, g <= Len(doc),
         NEW s, NEW t, s.counts = CountsOf(f, e), t.counts = CountsOf(e + 1, g)
  PROVE  Merge(s, t).counts = CountsOf(f, g)
<1> DEFINE m == Merge(s, t).counts
           d == CountsOf(f, g)
<1>0. Len(doc) \in Nat /\ e <= Len(doc)
  BY DocIs
<1> DEFINE N == Nat
<1>1. CountsAre(s.counts, f, e) /\ CountsAre(t.counts, e + 1, g) /\ CountsAre(d, f, g)
  <2>1. e \in Int /\ g \in Int /\ e + 1 \in Nat \ {0}
    OBVIOUS
  <2> QED
    BY <1>0, <2>1, CountsOfAre
<1>2. s.counts \in NumbersFor(N) /\ t.counts \in NumbersFor(N) /\ d \in NumbersFor(N)
  BY <1>1 DEF CountsAre
<1> HIDE DEF N
<1>3. m \in NumbersFor(N) /\ Together(m, s.counts, t.counts)
  BY <1>2, CountsMerged
<1> HIDE DEF m, d
<1>5. /\ \A len : /\ PlacesOf(len, f, g) = PlacesOf(len, f, e) \cup PlacesOf(len, e + 1, g)
                  /\ \A x \in PlacesOf(len, f, e), y \in PlacesOf(len, e + 1, g) : x < y
                  /\ PlacesOf(len, f, e) \in SUBSET Int /\ IsFiniteSet(PlacesOf(len, f, e))
                  /\ PlacesOf(len, e + 1, g) \in SUBSET Int /\ IsFiniteSet(PlacesOf(len, e + 1, g))
      /\ LengthsIn(f, g) = LengthsIn(f, e) \cup LengthsIn(e + 1, g)
  <2>1. f \in Int /\ e \in Int /\ g \in Int /\ f <= e + 1 /\ e <= g
    OBVIOUS
  <2>2. Neighbours(f, e, g)
    BY <2>1, PlacesJoined
  <2> QED
    BY <2>2 DEF Neighbours
<1>6. ASSUME NEW len PROVE NumberIn(m, len) = NumberIn(d, len)
  <2>1. /\ PlacesOf(len, f, g) = PlacesOf(len, f, e) \cup PlacesOf(len, e + 1, g)
        /\ PlacesOf(len, f, e) \in SUBSET Int /\ IsFiniteSet(PlacesOf(len, f, e))
        /\ PlacesOf(len, e + 1, g) \in SUBSET Int /\ IsFiniteSet(PlacesOf(len, e + 1, g))
        /\ \A x \in PlacesOf(len, f, e), y \in PlacesOf(len, e + 1, g) : x < y
    BY <1>5
  <2>2. Cardinality(PlacesOf(len, f, g)) = Cardinality(PlacesOf(len, f, e)) + Cardinality(PlacesOf(len, e + 1, g))
    BY <2>1, AscendingJoined
  <2> QED
    BY <1>1, <1>3, <2>2 DEF CountsAre, Together
<1>7. DOMAIN m = DOMAIN d
  BY <1>1, <1>3, <1>5 DEF CountsAre, Together
<1>8. m = d
  BY <1>2, <1>3, <1>6, <1>7, SameNumbers
<1> QED
  BY <1>8 DEF m, d

-----------------------------------------------------------------------------
(* The first offsets of words.                                             *)

\* An offset that is taken over if it is the lower one.
Lowered(r, o, w, x) ==
  /\ DOMAIN r = DOMAIN o \cup {w} /\ \A v \in DOMAIN o : v # w => r[v] = o[v]
  /\ w \in DOMAIN o => o[w] \in Nat /\ r[w] = IF x < o[w] THEN x ELSE o[w]
  /\ w \notin DOMAIN o => r[w] = x
LEMMA LowerIs ==
  ASSUME NEW W, NEW o \in NumbersFor(W), NEW w \in W, NEW x \in Nat
  PROVE  Lower(o, w, x) \in NumbersFor(W) /\ Lowered(Lower(o, w, x), o, w, x)
<1>1. PICK A \in SUBSET W : o \in [A -> Nat] /\ IsFiniteSet(A)
  BY DEF NumbersFor
<1>9. IsFiniteSet(A \cup {w})
  BY <1>1, FS_AddElement
<1> DEFINE p == [v \in DOMAIN o \cup {w} |-> IF v = w THEN x ELSE o[v]]
<1>2. Lower(o, w, x) = IF w \notin DOMAIN o \/ x < o[w] THEN p ELSE o
  BY DEF Lower, Put
<1>3. p \in [A \cup {w} -> Nat] /\ DOMAIN p = DOMAIN o \cup {w} /\ A \cup {w} \in SUBSET W
  BY <1>1
<1>4. p \in NumbersFor(W)
  BY <1>3, <1>9 DEF NumbersFor
<1>5. p[w] = x /\ \A v \in DOMAIN o : v # w => p[v] = o[v]
  OBVIOUS
<1> HIDE DEF p
<1>6. w \in DOMAIN o => o[w] \in Nat /\ DOMAIN o \cup {w} = DOMAIN o
  BY <1>1
<1>7. CASE w \notin DOMAIN o \/ x < o[w]
  BY <1>2, <1>3, <1>4, <1>5, <1>6, <1>7 DEF Lowered
<1>8. CASE ~(w \notin DOMAIN o \/ x < o[w])
  BY <1>2, <1>6, <1>8 DEF Lowered
<1> QED
  BY <1>7, <1>8

\* There are first offsets of what is found so far; then one more word is found.
LEMMA FirstsLowered ==
  ASSUME NEW W, NEW o \in NumbersFor(W), NEW S \in SUBSET (W \X Nat), Firsts(o, S), NEW w \in W, NEW x \in Nat
  PROVE  Firsts(Lower(o, w, x), S \cup {<<w, x>>})
<1> DEFINE r == Lower(o, w, x)
           y == <<w, x>>
           T == S \cup {y}
<1>1. /\ DOMAIN r = DOMAIN o \cup {w}
      /\ \A v \in DOMAIN o : v # w => r[v] = o[v]
      /\ w \in DOMAIN o => o[w] \in Nat /\ r[w] = IF x < o[w] THEN x ELSE o[w]
      /\ w \notin DOMAIN o => r[w] = x
  <2>1. Lowered(r, o, w, x)
    BY LowerIs
  <2> QED
    BY <2>1 DEF Lowered
<1>2. /\ DOMAIN o = {z[1] : z \in S}
      /\ \A v \in DOMAIN o : <<v, o[v]>> \in S /\ \A z \in S : z[1] = v => o[v] <= z[2]
  BY DEF Firsts
<1>3. y[1] = w /\ y[2] = x /\ \A z \in S : z[1] \in W /\ z[2] \in Nat
  OBVIOUS
<1> HIDE DEF r
<1>4. DOMAIN r = {z[1] : z \in T}
  <2> HIDE DEF y
  <2> QED
    BY <1>1, <1>2, <1>3
<1>5. ASSUME NEW v \in DOMAIN r PROVE <<v, r[v]>> \in T /\ \A z \in T : z[1] = v => r[v] <= z[2]
  <2>1. CASE v # w
    <3>1. v \in DOMAIN o /\ r[v] = o[v]
      BY <1>1, <2>1
    <3> HIDE DEF y
    <3> QED
      BY <1>2, <1>3, <2>1, <3>1
  <2>2. CASE v = w /\ w \notin DOMAIN o
    <3>1. r[v] = x /\ \A z \in S : z[1] # v
      BY <1>1, <1>2, <2>2
    <3>2. <<v, r[v]>> \in T
      BY <2>2, <3>1
    <3> HIDE DEF y
    <3> QED
      BY <1>3, <3>1, <3>2
  <2>3. CASE v = w /\ w \in DOMAIN o
    <3>1. /\ o[w] \in Nat /\ r[v] = IF x < o[w] THEN x ELSE o[w]
          /\ <<w, o[w]>> \in S /\ \A z \in S : z[1] = w => o[w] <= z[2]
      BY <1>1, <1>2, <2>3
    <3>2. r[v] <= x /\ r[v] <= o[w] /\ r[v] \in Nat
      BY <3>1
    <3>3. <<v, r[v]>> \in T
      <4>1. CASE x < o[w]
        BY <2>3, <3>1, <4>1
      <4>2. CASE ~(x < o[w])
        BY <2>3, <3>1, <4>2
      <4> QED
        BY <4>1, <4>2
    <3>4. ASSUME NEW z \in T, z[1] = v PROVE r[v] <= z[2]
      <4>1. CASE z = y
        BY <1>3, <3>2, <4>1
      <4>2. CASE z \in S
        <5>1. o[w] <= z[2] /\ z[2] \in Nat
          BY <1>3, <2>3, <3>1, <3>4, <4>2
        <5> HIDE DEF y
        <5> QED
          BY <3>1, <3>2, <5>1
      <4> QED
        BY <4>1, <4>2
    <3> QED
      BY <3>3, <3>4
  <2> QED
    BY <1>1, <2>1, <2>2, <2>3
<1> HIDE DEF T
<1>6. Firsts(r, T)
  BY <1>4, <1>5 DEF Firsts
<1> QED
  BY <1>6 DEF r, T

\* The first offsets of T stand for T.
PairsOf(t) == {<<w, t[w]>> : w \in DOMAIN t}
LEMMA FirstsTightened ==
  ASSUME NEW W, NEW S \in SUBSET (W \X Nat), NEW T \in SUBSET (W \X Nat), NEW t, Firsts(t, T),
         NEW r \in NumbersFor(W), Firsts(r, S \cup PairsOf(t))
  PROVE  Firsts(r, S \cup T)
<1> DEFINE g == [w \in DOMAIN t |-> <<w, t[w]>>]
           G == {g[w] : w \in DOMAIN t}
<1>1. \A w \in DOMAIN t : g[w][1] = w /\ g[w][2] = t[w] /\ g[w] = <<w, t[w]>>
  OBVIOUS
<1>2. /\ DOMAIN t = {x[1] : x \in T}
      /\ \A w \in DOMAIN t : <<w, t[w]>> \in T /\ \A x \in T : x[1] = w => t[w] <= x[2]
  BY DEF Firsts
<1>3. /\ DOMAIN r = {x[1] : x \in S \cup G}
      /\ \A w \in DOMAIN r : <<w, r[w]>> \in S \cup G /\ \A x \in S \cup G : x[1] = w => r[w] <= x[2]
  <2>1. G = PairsOf(t)
    BY DEF PairsOf
  <2> HIDE DEF G
  <2> QED
    BY <2>1 DEF Firsts
<1>4. \A x \in S \cup T : x[1] \in W /\ x[2] \in Nat
  OBVIOUS
<1>5. \A w \in DOMAIN r : r[w] \in Nat
  BY DEF NumbersFor
<1> HIDE DEF g
<1>6. DOMAIN r = {x[1] : x \in S \cup T}
  <2>1. {x[1] : x \in G} = DOMAIN t
    BY <1>1
  <2> HIDE DEF G
  <2> QED
    BY <1>2, <1>3, <2>1
<1>7. ASSUME NEW w \in DOMAIN r PROVE <<w, r[w]>> \in S \cup T /\ \A x \in S \cup T : x[1] = w => r[w] <= x[2]
  <2>1. <<w, r[w]>> \in S \cup G /\ \A x \in S \cup G : x[1] = w => r[w] <= x[2]
    BY <1>3
  <2>2. G \subseteq T
    BY <1>1, <1>2
  <2>3. ASSUME NEW x \in T, x[1] = w PROVE r[w] <= x[2]
    <3>1. w \in DOMAIN t /\ t[w] <= x[2] /\ <<w, t[w]>> \in T
      BY <1>2, <2>3
    <3>2. r[w] <= t[w]
      <4>1. g[w] \in G /\ g[w][1] = w /\ g[w][2] = t[w]
        BY <1>1, <3>1
      <4> HIDE DEF G
      <4> QED
        BY <2>1, <4>1
    <3>3. t[w] \in Nat /\ x[2] \in Nat /\ r[w] \in Nat
      BY <1>4, <1>5, <3>1
    <3> QED
      BY <3>1, <3>2, <3>3
  <2> HIDE DEF G
  <2> QED
    BY <2>1, <2>2, <2>3
<1> QED
  BY <1>6, <1>7 DEF Firsts

\* The offsets of merge_from, word by word.
OffsetSteps(F, W, o, t, q) ==
  /\ F \in [0..Len(q) -> NumbersFor(W)] /\ F[0] = o
  /\ \A k \in 1..Len(q) : F[k] = Lower(F[k - 1], q[k], t[q[k]])
MergesOffsets(s, t, W) ==
  LET q == SetToSeq(DOMAIN t.offsets) IN
  \E F : OffsetSteps(F, W, s.offsets, t.offsets, q) /\ Merge(s, t).offsets = F[Len(q)]
LEMMA OffsetsStepwise ==
  ASSUME NEW W, NEW s, NEW t, s.offsets \in NumbersFor(W), t.offsets \in NumbersFor(W)
  PROVE  MergesOffsets(s, t, W)
<1> DEFINE q == SetToSeq(DOMAIN t.offsets)
<1>0. /\ Len(q) \in Nat /\ DOMAIN q = 1..Len(q)
      /\ \A k \in 1..Len(q) : q[k] \in W /\ t.offsets[q[k]] \in Nat
  <2>1. /\ Len(q) \in Nat /\ DOMAIN q = 1..Len(q) /\ \A k \in 1..Len(q) : q[k] \in DOMAIN t.offsets
    BY NumbersFinite, SetToSeqIs
  <2>2. PICK A \in SUBSET W : t.offsets \in [A -> Nat]
    BY DEF NumbersFor
  <2> HIDE DEF q
  <2> QED
    BY <2>1, <2>2
<1> DEFINE n == Len(q)
           X == NumbersFor(W)
           x0 == s.offsets
           h == [k \in 1..n |-> [a \in X |-> Lower(a, q[k], t.offsets[q[k]])]]
           Eq(f) == f = [z \in SUBSET DOMAIN q |->
                           IF z = {} THEN s.offsets
                           ELSE Lower(f[z \ {Max(z)}], q[Max(z)], t.offsets[q[Max(z)]])]
           It == CHOOSE f : Eq(f)
<1>1. Merge(s, t).offsets = It[DOMAIN q]
  BY DEF Merge, FoldLeft, MapThenFoldSet
<1>2. \A k \in 1..n, a \in X : Lower(a, q[k], t.offsets[q[k]]) \in X
  <2> HIDE DEF n, q
  <2>1. \A k \in 1..n : q[k] \in W /\ t.offsets[q[k]] \in Nat
    BY <1>0 DEF n
  <2> QED
    BY <2>1, LowerIs
<1>11. n \in Nat /\ DOMAIN q = 1..n
  BY <1>0
<1>3. x0 \in X
  OBVIOUS
<1> HIDE DEF X, q
<1>4. h \in [1..n -> [X -> X]] /\ \A k \in 1..n, a \in X : h[k][a] = Lower(a, q[k], t.offsets[q[k]])
  <2> HIDE DEF n
  <2> QED
    BY <1>2
<1>5. Eq(It)
  <2>1. PICK A : FoldsOver(A, X, x0, h, n)
    <3> HIDE DEF h, n, x0
    <3> QED
      BY <1>11, <1>3, <1>4, FoldsExist
  <2>2. /\ A \in [SUBSET (1..n) -> X] /\ A[{}] = x0
        /\ \A z \in SUBSET (1..n) : z # {} => A[z] = h[Max(z)][A[z \ {Max(z)}]]
    BY <2>1 DEF FoldsOver
  <2>3. \A z \in SUBSET (1..n) : z # {} => Max(z) \in 1..n /\ z \ {Max(z)} \in SUBSET (1..n)
    BY <1>11, MaxIs
  <2>4. \A z \in SUBSET (1..n) : z # {} => A[z] = Lower(A[z \ {Max(z)}], q[Max(z)], t.offsets[q[Max(z)]])
    <3> HIDE DEF h, n
    <3> QED
      BY <1>4, <2>2, <2>3
  <2>5. Eq(A)
    <3> HIDE DEF h, n
    <3> QED
      BY <1>11, <2>2, <2>4
  <2> HIDE DEF Eq
  <2> QED
    BY <2>5
<1>6. Reaches(It, X, x0, h, n)
  <2>1. It[{}] = x0
    <3> HIDE DEF It
    <3> QED
      BY <1>11, <1>5
  <2>2. ASSUME NEW k \in 1..n, It[1..(k - 1)] \in X PROVE It[1..k] = h[k][It[1..(k - 1)]]
    <3>1. k \in Nat /\ k # 0 /\ 1..k \in SUBSET (1..n)
      BY <1>11
    <3>2. 1..k # {} /\ Max(1..k) = k /\ (1..k) \ {k} = 1..(k - 1)
      BY <3>1, MaxOfFirst
    <3> HIDE DEF It, n, h
    <3>3. It[1..k] = Lower(It[1..(k - 1)], q[k], t.offsets[q[k]])
      BY <1>11, <1>5, <3>1, <3>2
    <3> QED
      BY <1>4, <2>2, <3>3
  <2> HIDE DEF h, n, It
  <2> QED
    BY <2>1, <2>2 DEF Reaches
<1>7. PICK F : Stepwise(F, X, x0, h, n) /\ It[1..n] = F[n]
  <2> HIDE DEF h, n, It, x0
  <2> QED
    BY <1>11, <1>3, <1>4, <1>6, FoldReached
<1>8. F \in [0..n -> X] /\ F[0] = x0 /\ \A k \in 1..n : F[k] = Lower(F[k - 1], q[k], t.offsets[q[k]])
  <2>1. F \in [0..n -> X] /\ F[0] = x0 /\ \A k \in 1..n : F[k] = h[k][F[k - 1]]
    BY <1>7 DEF Stepwise
  <2>2. \A k \in 1..n : F[k - 1] \in X
    <3>1. \A k \in 1..n : k - 1 \in 0..n
      BY <1>11
    <3> QED
      BY <2>1, <3>1
  <2> HIDE DEF h, n
  <2> QED
    BY <1>4, <2>1, <2>2
<1>9. OffsetSteps(F, W, s.offsets, t.offsets, q)
  BY <1>8 DEF OffsetSteps, X
<1>10. Merge(s, t).offsets = F[n]
  <2> HIDE DEF It
  <2> QED
    BY <1>0, <1>1, <1>7
<1> QED
  BY <1>9, <1>10 DEF q, MergesOffsets

\* They are the first ones of both.
LEMMA FirstsMerged ==
  ASSUME NEW W, NEW s, NEW t, s.offsets \in NumbersFor(W), t.offsets \in NumbersFor(W),
         NEW S \in SUBSET (W \X Nat), NEW T \in SUBSET (W \X Nat), Firsts(s.offsets, S), Firsts(t.offsets, T)
  PROVE  Merge(s, t).offsets \in NumbersFor(W) /\ Firsts(Merge(s, t).offsets, S \cup T)
<1>0. MergesOffsets(s, t, W)
  BY OffsetsStepwise
<1> DEFINE o == s.offsets
           d == t.offsets
           q == SetToSeq(DOMAIN t.offsets)
           n == Len(q)
           y == [w \in DOMAIN d |-> <<w, d[w]>>]
<1>1. PICK F : OffsetSteps(F, W, o, d, q) /\ Merge(s, t).offsets = F[n]
  BY <1>0 DEF MergesOffsets
<1>2. /\ n \in Nat /\ \A k \in 1..n : q[k] \in DOMAIN d
      /\ \A x \in DOMAIN d : \E k \in 1..n : q[k] = x
  BY NumbersFinite, SetToSeqIs
<1>3. PICK A \in SUBSET W : d \in [A -> Nat]
  BY DEF NumbersFor
<1> HIDE DEF q, n, d, o
<1>4. /\ F \in [0..n -> NumbersFor(W)] /\ F[0] = o
      /\ \A k \in 1..n : F[k] = Lower(F[k - 1], q[k], d[q[k]])
  BY <1>1 DEF OffsetSteps, n
<1>5. Firsts(o, S) /\ Firsts(d, T)
  BY DEF o, d
<1>6. \A k \in 1..n : q[k] \in W /\ d[q[k]] \in Nat /\ y[q[k]] = <<q[k], d[q[k]]>> /\ y[q[k]] \in W \X Nat
  BY <1>2, <1>3
<1> HIDE DEF y
<1> DEFINE Met(k) == S \cup {y[q[j]] : j \in 1..k}
           K == {k \in 0..n : Firsts(F[k], Met(k))}
<1>7. 0 \in K
  <2>1. 1..0 = {}
    OBVIOUS
  <2>2. Met(0) = S
    BY <2>1
  <2> HIDE DEF Met
  <2> QED
    BY <1>2, <1>4, <1>5, <2>2
<1>8. ASSUME NEW k \in 1..n, k - 1 \in K PROVE k \in K
  <2>1. k - 1 \in 0..n /\ k \in 0..n /\ 1..k = 1..(k - 1) \cup {k} /\ 1..(k - 1) \in SUBSET (1..n)
    BY <1>2
  <2>2. Met(k) = Met(k - 1) \cup {<<q[k], d[q[k]]>>} /\ Met(k - 1) \in SUBSET (W \X Nat)
    BY <1>6, <2>1
  <2>3. F[k - 1] \in NumbersFor(W) /\ Firsts(F[k - 1], Met(k - 1)) /\ F[k] = Lower(F[k - 1], q[k], d[q[k]])
    BY <1>4, <1>8, <2>1
  <2> HIDE DEF Met
  <2>4. Firsts(F[k], Met(k))
    BY <1>6, <2>2, <2>3, FirstsLowered
  <2> QED
    BY <2>1, <2>4
<1> HIDE DEF K
<1>9. n \in K
  <2>1. \A k \in 0..n : k \in K
    BY <1>2, <1>7, <1>8, UpTo
  <2> QED
    BY <1>2, <2>1
<1>10. Met(n) = S \cup PairsOf(d)
  <2>1. {y[q[j]] : j \in 1..n} = {y[w] : w \in DOMAIN d}
    BY <1>2
  <2>2. {y[w] : w \in DOMAIN d} = PairsOf(d)
    BY DEF y, PairsOf
  <2> QED
    BY <2>1, <2>2
<1>11. Firsts(F[n], S \cup PairsOf(d))
  <2> HIDE DEF Met
  <2> QED
    BY <1>9, <1>10 DEF K
<1>12. F[n] \in NumbersFor(W)
  BY <1>2, <1>4
<1>13. Firsts(F[n], S \cup T)
  BY <1>5, <1>11, <1>12, FirstsTightened
<1> QED
  BY <1>1, <1>12, <1>13

\* The words that have a length, and a phrase of them.
Vocabulary == DOMAIN WordLength
IsPhrase(p) == p.start \in Nat /\ p.words \in Seq(Vocabulary)
LengthsOf(p) == [i \in DOMAIN p.words |-> WordLength[p.words[i]]]

\* What the assumption says of the words.
LEMMA WordsHaveLengths == WordLength \in [Vocabulary -> Nat]
  BY AnalyzerAssumption DEF Vocabulary
LEMMA PhraseWords ==
  ASSUME NEW p, IsPhrase(p)
  PROVE  /\ Len(p.words) \in Nat /\ DOMAIN p.words = 1..Len(p.words) /\ IsFiniteSet(DOMAIN p.words)
         /\ \A i \in DOMAIN p.words : p.words[i] \in Vocabulary /\ WordLength[p.words[i]] \in Nat
         /\ LengthsOf(p) \in [DOMAIN p.words -> Nat] /\ LengthsOf(p) \in [DOMAIN p.words -> Int]
<1>1. /\ Len(p.words) \in Nat /\ DOMAIN p.words = 1..Len(p.words)
      /\ \A i \in DOMAIN p.words : p.words[i] \in Vocabulary
  <2> DEFINE s == p.words
  <2>1. s \in Seq(Vocabulary)
    BY DEF IsPhrase
  <2> HIDE DEF s
  <2>2. Len(s) \in Nat /\ DOMAIN s = 1..Len(s) /\ \A i \in DOMAIN s : s[i] \in Vocabulary
    BY <2>1
  <2> QED
    BY <2>2 DEF s
<1>2. IsFiniteSet(DOMAIN p.words)
  BY <1>1, FS_Interval
<1>3. \A i \in DOMAIN p.words : WordLength[p.words[i]] \in Nat
  BY <1>1, WordsHaveLengths
<1>4. LengthsOf(p) \in [DOMAIN p.words -> Nat]
  BY <1>3 DEF LengthsOf
<1> QED
  BY <1>1, <1>2, <1>3, <1>4

\* Where a word starts, as the sum of those before it.
LEMMA WordStartSum ==
  ASSUME NEW p, IsPhrase(p), NEW A, Sums(A, LengthsOf(p), DOMAIN p.words),
         NEW j \in 1..(Len(p.words) + 1)
  PROVE  WordStart(p, j) = p.start + A[1..(j - 1)]
<1> DEFINE f == LengthsOf(p)
           D == DOMAIN p.words
           s == 1..(j - 1)
           Eq(g) == g = [t \in SUBSET s |-> IF t = {} THEN 0 ELSE WordLength[p.words[Pick(t)]] + g[t \ {Pick(t)}]]
           iter == CHOOSE g : Eq(g)
           B == [t \in SUBSET s |-> A[t]]
<1>0. s \in SUBSET D /\ IsFiniteSet(s) /\ \A x \in D : f[x] = WordLength[p.words[x]]
  <2>1. Len(p.words) \in Nat /\ D = 1..Len(p.words) /\ j - 1 \in Int
    BY PhraseWords
  <2>2. IsFiniteSet(s)
    BY <2>1, FS_Interval
  <2>3. s \in SUBSET D
    BY <2>1
  <2> QED
    BY <2>2, <2>3 DEF LengthsOf
<1>3. WordStart(p, j) = p.start + iter[s]
  BY DEF WordStart, MapThenSumSet, MapThenFoldSet, Pick
<1> HIDE DEF f, D, s
<1>1. Eq(B)
  <2>1. \A t \in SUBSET s : t # {} => Pick(t) \in t /\ t \ {Pick(t)} \in SUBSET s
    BY DEF Pick
  <2>2. \A t \in SUBSET s : A[t] = IF t = {} THEN 0 ELSE f[Pick(t)] + A[t \ {Pick(t)}]
    BY <1>0 DEF Sums, f, D
  <2>3. \A t \in SUBSET s : t # {} => B[t \ {Pick(t)}] = A[t \ {Pick(t)}]
    BY <2>1
  <2>4. \A t \in SUBSET s : t # {} => f[Pick(t)] = WordLength[p.words[Pick(t)]]
    BY <1>0, <2>1
  <2>5. \A t \in SUBSET s : A[t] = IF t = {} THEN 0 ELSE WordLength[p.words[Pick(t)]] + B[t \ {Pick(t)}]
    BY <2>2, <2>3, <2>4
  <2> QED
    BY <2>5
<1>2. Eq(iter)
  <2> HIDE DEF Eq
  <2> QED
    BY <1>1
<1> HIDE DEF iter
<1> DEFINE T == {t \in SUBSET s : iter[t] = A[t]}
<1>4. \A t \in SUBSET s : t \in T
  <2>1. {} \in T
    BY <1>2 DEF Sums
  <2>2. ASSUME NEW t \in SUBSET s, t # {}, t \ {Pick(t)} \in T PROVE t \in T
    <3>1. Pick(t) \in t /\ t \in SUBSET D
      BY <1>0, <2>2 DEF Pick
    <3>2. A[t] = f[Pick(t)] + A[t \ {Pick(t)}] /\ f[Pick(t)] = WordLength[p.words[Pick(t)]]
      BY <1>0, <2>2, <3>1 DEF Sums, f, D
    <3> QED
      BY <1>2, <2>2, <3>2
  <2> HIDE DEF T
  <2> QED
    BY <1>0, <2>1, <2>2, BySubsets
<1> QED
  BY <1>3, <1>4 DEF s

\* A word starts where the one before it ends, the first one where its phrase does.
LEMMA WordStarts ==
  ASSUME NEW p, IsPhrase(p)
  PROVE  /\ WordStart(p, 1) = p.start
         /\ \A k \in DOMAIN p.words : WordStart(p, k + 1) = WordStart(p, k) + WordLength[p.words[k]]
         /\ \A k \in 1..(Len(p.words) + 1) : WordStart(p, k) \in Nat
<1> DEFINE D == DOMAIN p.words
           f == LengthsOf(p)
           n == Len(p.words)
<1>1. /\ n \in Nat /\ D = 1..n /\ IsFiniteSet(D) /\ f \in [D -> Nat] /\ f \in [D -> Int]
      /\ \A k \in D : f[k] = WordLength[p.words[k]]
  BY PhraseWords DEF LengthsOf
<1>2. PICK A : Sums(A, f, D)
  <2> HIDE DEF D, f
  <2> QED
    BY <1>1, SumsExist
<1>3. \A j \in 1..(n + 1) : WordStart(p, j) = p.start + A[1..(j - 1)]
  BY <1>2, WordStartSum
<1>4. p.start \in Nat
  BY DEF IsPhrase
<1> HIDE DEF D, f, n
<1>5. A[{}] = 0 /\ \A t \in SUBSET D : A[t] \in Int
  BY <1>2 DEF Sums
<1>10. \A t \in SUBSET D : \A y \in t : A[t] = f[y] + A[t \ {y}]
  <2> SUFFICES ASSUME NEW t \in SUBSET D, NEW y \in t PROVE A[t] = f[y] + A[t \ {y}]
    OBVIOUS
  <2>1. IsFiniteSet(D) /\ f \in [D -> Int] /\ Sums(A, f, D)
    BY <1>1, <1>2
  <2> QED
    BY <2>1, SumWithout
<1>6. 1 \in 1..(n + 1) /\ 1..(1 - 1) = {}
  BY <1>1
<1>7. WordStart(p, 1) = p.start
  BY <1>3, <1>4, <1>5, <1>6
<1>8. ASSUME NEW k \in D PROVE WordStart(p, k + 1) = WordStart(p, k) + WordLength[p.words[k]]
  <2>1. 1..k \in SUBSET D /\ k \in 1..k /\ (1..k) \ {k} = 1..(k - 1) /\ k \in 1..(n + 1) /\ k + 1 \in 1..(n + 1)
        /\ (k + 1) - 1 = k
    BY <1>1
  <2>2. A[1..k] = f[k] + A[1..(k - 1)]
    <3> DEFINE t == 1..k
    <3>1. t \in SUBSET D /\ k \in t /\ IsFiniteSet(D) /\ f \in [D -> Int] /\ Sums(A, f, D)
      BY <1>1, <1>2, <2>1
    <3> HIDE DEF t
    <3>2. A[t] = f[k] + A[t \ {k}]
      BY <1>10, <3>1
    <3> QED
      BY <2>1, <3>2 DEF t
  <2>3. 1..(k - 1) \in SUBSET D
    BY <2>1
  <2>4. A[1..(k - 1)] \in Int /\ f[k] \in Nat
    BY <1>1, <1>5, <2>3
  <2>5. WordStart(p, k + 1) = p.start + A[1..k] /\ WordStart(p, k) = p.start + A[1..(k - 1)]
    BY <1>3, <2>1
  <2>6. f[k] = WordLength[p.words[k]]
    BY <1>1
  <2> QED
    BY <1>4, <2>2, <2>4, <2>5, <2>6
<1>9. ASSUME NEW k \in 1..(n + 1) PROVE WordStart(p, k) \in Nat
  <2>1. 1..(k - 1) \in SUBSET D /\ {} \in SUBSET (1..(k - 1))
    BY <1>1
  <2>2. A[{}] <= A[1..(k - 1)]
    BY <1>1, <1>2, <2>1, SumsGrow
  <2> QED
    BY <1>3, <1>4, <1>5, <2>1, <2>2
<1> QED
  BY <1>7, <1>8, <1>9 DEF D, n

\* The line of a phrase has the same words at the same places.
LEMMA SameOccurrences ==
  ASSUME NEW p, IsPhrase(p)
  PROVE  IsPhrase(Line(p)) /\ Occurrences(Line(p)) = Occurrences(p)
<1> DEFINE r == Line(p)
           D == DOMAIN p.words
           f == LengthsOf(p)
<1>1. r.words = p.words /\ r.start = p.start
  BY DEF Line
<1> HIDE DEF r
<1>2. IsPhrase(r) /\ LengthsOf(r) = f
  BY <1>1 DEF IsPhrase, LengthsOf
<1>3. /\ IsFiniteSet(D) /\ f \in [D -> Int] /\ D = 1..Len(p.words) /\ Len(p.words) \in Nat
  BY PhraseWords
<1>4. PICK A : Sums(A, f, D)
  <2> HIDE DEF D, f
  <2> QED
    BY <1>3, SumsExist
<1>5. \A j \in 1..(Len(p.words) + 1) : WordStart(p, j) = p.start + A[1..(j - 1)]
  BY <1>4, WordStartSum
<1>6. \A j \in 1..(Len(r.words) + 1) : WordStart(r, j) = r.start + A[1..(j - 1)]
  <2>1. Sums(A, LengthsOf(r), DOMAIN r.words)
    BY <1>1, <1>2, <1>4
  <2> QED
    BY <1>2, <2>1, WordStartSum
<1>7. \A j \in D : WordStart(r, j) = WordStart(p, j)
  BY <1>1, <1>3, <1>5, <1>6
<1> QED
  BY <1>1, <1>2, <1>7 DEF Occurrences, r

\* The words of a phrase at their places, and of some objects.
LEMMA OccurrencesOne ==
  ASSUME NEW p, IsPhrase(p)
  PROVE  Occurrences(p) \in SUBSET (Vocabulary \X Nat) /\ IsFiniteSet(Occurrences(p))
<1> DEFINE g == [j \in DOMAIN p.words |-> <<p.words[j], WordStart(p, j)>>]
<1>1. Occurrences(p) = {g[j] : j \in DOMAIN p.words} /\ DOMAIN g = DOMAIN p.words
  BY DEF Occurrences
<1>2. \A j \in DOMAIN p.words : p.words[j] \in Vocabulary /\ j \in 1..(Len(p.words) + 1)
  BY PhraseWords
<1>3. \A j \in DOMAIN p.words : g[j] \in Vocabulary \X Nat
  BY <1>2, WordStarts
<1> HIDE DEF g
<1>4. IsFiniteSet({g[j] : j \in DOMAIN p.words})
  BY <1>1, PhraseWords, ImageIsFinite
<1> QED
  BY <1>1, <1>3, <1>4

\* The state of add_phrase, word by word.
AddStates == [offsets : NumbersFor(Vocabulary), offset : Nat]
AddWord(acc, w) ==
  [offsets |-> Lower(acc.offsets, w, acc.offset), offset |-> acc.offset + WordLength[w]]
AddSteps(F, o, p) ==
  /\ F \in [0..Len(p.words) -> AddStates] /\ F[0] = [offsets |-> o, offset |-> p.start]
  /\ \A k \in 1..Len(p.words) : F[k] = AddWord(F[k - 1], p.words[k])
LEMMA AddWordIs ==
  ASSUME NEW acc \in AddStates, NEW w \in Vocabulary
  PROVE  AddWord(acc, w) \in AddStates
<1>1. acc.offsets \in NumbersFor(Vocabulary) /\ acc.offset \in Nat
  BY DEF AddStates
<1>2. Lower(acc.offsets, w, acc.offset) \in NumbersFor(Vocabulary)
  BY <1>1, LowerIs
<1>3. acc.offset + WordLength[w] \in Nat
  BY <1>1, WordsHaveLengths
<1> QED
  BY <1>2, <1>3 DEF AddWord, AddStates
LEMMA AddStepwise ==
  ASSUME NEW stats, NEW p, IsPhrase(p), stats.offsets \in NumbersFor(Vocabulary)
  PROVE  \E F : AddSteps(F, stats.offsets, p) /\ AddPhrase(stats, p).offsets = F[Len(p.words)].offsets
<1> DEFINE q == p.words
<1>0. /\ Len(q) \in Nat /\ DOMAIN q = 1..Len(q)
      /\ \A k \in 1..Len(q) : q[k] \in Vocabulary
  BY PhraseWords
<1> DEFINE n == Len(q)
           X == AddStates
           x0 == [offsets |-> stats.offsets, offset |-> p.start]
           h == [k \in 1..n |-> [a \in X |-> AddWord(a, q[k])]]
           Eq(f) == f = [z \in SUBSET DOMAIN q |->
                           IF z = {} THEN [offsets |-> stats.offsets, offset |-> p.start]
                           ELSE AddWord(f[z \ {Max(z)}], q[Max(z)])]
           It == CHOOSE f : Eq(f)
<1>1. AddPhrase(stats, p).offsets = It[DOMAIN q].offsets
  BY DEF AddPhrase, FoldLeft, MapThenFoldSet, AddWord
<1>2. \A k \in 1..n, a \in X : AddWord(a, q[k]) \in X
  <2> HIDE DEF n, q
  <2>1. \A k \in 1..n : q[k] \in Vocabulary
    BY <1>0 DEF n
  <2> QED
    BY <2>1, AddWordIs
<1>11. n \in Nat /\ DOMAIN q = 1..n
  BY <1>0
<1>3. x0 \in X
  BY DEF AddStates, IsPhrase
<1> HIDE DEF X, q
<1>4. h \in [1..n -> [X -> X]] /\ \A k \in 1..n, a \in X : h[k][a] = AddWord(a, q[k])
  <2> HIDE DEF n
  <2> QED
    BY <1>2
<1>5. Eq(It)
  <2>1. PICK A : FoldsOver(A, X, x0, h, n)
    <3> HIDE DEF h, n, x0
    <3> QED
      BY <1>11, <1>3, <1>4, FoldsExist
  <2>2. /\ A \in [SUBSET (1..n) -> X] /\ A[{}] = x0
        /\ \A z \in SUBSET (1..n) : z # {} => A[z] = h[Max(z)][A[z \ {Max(z)}]]
    BY <2>1 DEF FoldsOver
  <2>3. \A z \in SUBSET (1..n) : z # {} => Max(z) \in 1..n /\ z \ {Max(z)} \in SUBSET (1..n)
    BY <1>11, MaxIs
  <2>4. \A z \in SUBSET (1..n) : z # {} => A[z] = AddWord(A[z \ {Max(z)}], q[Max(z)])
    <3> HIDE DEF h, n
    <3> QED
      BY <1>4, <2>2, <2>3
  <2>5. Eq(A)
    <3> HIDE DEF h, n
    <3> QED
      BY <1>11, <2>2, <2>4
  <2> HIDE DEF Eq
  <2> QED
    BY <2>5
<1>6. Reaches(It, X, x0, h, n)
  <2>1. It[{}] = x0
    <3> HIDE DEF It
    <3> QED
      BY <1>11, <1>5
  <2>2. ASSUME NEW k \in 1..n, It[1..(k - 1)] \in X PROVE It[1..k] = h[k][It[1..(k - 1)]]
    <3>1. k \in Nat /\ k # 0 /\ 1..k \in SUBSET (1..n)
      BY <1>11
    <3>2. 1..k # {} /\ Max(1..k) = k /\ (1..k) \ {k} = 1..(k - 1)
      BY <3>1, MaxOfFirst
    <3> HIDE DEF It, n, h
    <3>3. It[1..k] = AddWord(It[1..(k - 1)], q[k])
      BY <1>11, <1>5, <3>1, <3>2
    <3> QED
      BY <1>4, <2>2, <3>3
  <2> HIDE DEF h, n, It
  <2> QED
    BY <2>1, <2>2 DEF Reaches
<1>7. PICK F : Stepwise(F, X, x0, h, n) /\ It[1..n] = F[n]
  <2> HIDE DEF h, n, It, x0
  <2> QED
    BY <1>11, <1>3, <1>4, <1>6, FoldReached
<1>8. F \in [0..n -> X] /\ F[0] = x0 /\ \A k \in 1..n : F[k] = AddWord(F[k - 1], q[k])
  <2>1. F \in [0..n -> X] /\ F[0] = x0 /\ \A k \in 1..n : F[k] = h[k][F[k - 1]]
    BY <1>7 DEF Stepwise
  <2>2. \A k \in 1..n : F[k - 1] \in X
    <3>1. \A k \in 1..n : k - 1 \in 0..n
      BY <1>11
    <3> QED
      BY <2>1, <3>1
  <2> HIDE DEF h, n
  <2> QED
    BY <1>4, <2>1, <2>2
<1>9. AddSteps(F, stats.offsets, p)
  BY <1>8 DEF AddSteps, X, q
<1>10. AddPhrase(stats, p).offsets = F[n].offsets
  <2> HIDE DEF It
  <2> QED
    BY <1>0, <1>1, <1>7
<1> QED
  BY <1>9, <1>10 DEF q

\* The first offsets with those of one phrase more.
LEMMA FirstsAdded ==
  ASSUME NEW stats, NEW p, IsPhrase(p), stats.offsets \in NumbersFor(Vocabulary),
         NEW S \in SUBSET (Vocabulary \X Nat), Firsts(stats.offsets, S)
  PROVE  /\ AddPhrase(stats, p).offsets \in NumbersFor(Vocabulary)
         /\ Firsts(AddPhrase(stats, p).offsets, S \cup Occurrences(p))
<1> DEFINE q == p.words
           o == stats.offsets
           n == Len(q)
           W == Vocabulary
           y == [j \in DOMAIN q |-> <<q[j], WordStart(p, j)>>]
<1>1. PICK F : AddSteps(F, o, p) /\ AddPhrase(stats, p).offsets = F[n].offsets
  BY AddStepwise
<1>2. n \in Nat /\ DOMAIN q = 1..n /\ \A k \in 1..n : q[k] \in W /\ WordLength[q[k]] \in Nat
  BY PhraseWords
<1>3. /\ WordStart(p, 1) = p.start
      /\ \A k \in 1..n : /\ WordStart(p, k + 1) = WordStart(p, k) + WordLength[q[k]]
                         /\ WordStart(p, k) \in Nat
  <2>1. \A k \in 1..n : k \in 1..(n + 1)
    BY <1>2
  <2> QED
    BY <1>2, <2>1, WordStarts
<1>4. /\ F \in [0..n -> AddStates] /\ F[0] = [offsets |-> o, offset |-> p.start]
      /\ \A k \in 1..n : F[k] = AddWord(F[k - 1], q[k])
  BY <1>1 DEF AddSteps
<1>5. Occurrences(p) = {y[j] : j \in 1..n}
  BY <1>2 DEF Occurrences
<1>6. \A j \in 1..n : y[j] = <<q[j], WordStart(p, j)>> /\ y[j] \in W \X Nat
  BY <1>2, <1>3
<1>7. \A k \in 0..n : F[k].offsets \in NumbersFor(W) /\ F[k].offset \in Nat
  BY <1>4 DEF AddStates
<1> HIDE DEF y, W, n, q, o
<1> DEFINE Met(k) == S \cup {y[j] : j \in 1..k}
           K == {k \in 0..n : F[k].offset = WordStart(p, k + 1) /\ Firsts(F[k].offsets, Met(k))}
<1>8. 0 \in K
  <2>1. 1..0 = {} /\ 0 + 1 = 1
    OBVIOUS
  <2>2. Met(0) = S
    BY <2>1
  <2>3. F[0].offsets = o /\ F[0].offset = p.start
    BY <1>4
  <2> HIDE DEF Met
  <2> QED
    BY <1>2, <1>3, <2>1, <2>2, <2>3 DEF o
<1>9. ASSUME NEW k \in 1..n, k - 1 \in K PROVE k \in K
  <2>1. k - 1 \in 0..n /\ k \in 0..n /\ 1..k = 1..(k - 1) \cup {k} /\ 1..(k - 1) \in SUBSET (1..n) /\ (k - 1) + 1 = k
    BY <1>2
  <2>2. Met(k) = Met(k - 1) \cup {<<q[k], WordStart(p, k)>>} /\ Met(k - 1) \in SUBSET (W \X Nat)
    <3>1. S \in SUBSET (W \X Nat)
      BY DEF W
    <3> QED
      BY <1>6, <2>1, <3>1
  <2>3. F[k - 1].offset = WordStart(p, k) /\ Firsts(F[k - 1].offsets, Met(k - 1)) /\ F[k - 1].offsets \in NumbersFor(W)
    BY <1>7, <1>9, <2>1
  <2>4. F[k].offsets = Lower(F[k - 1].offsets, q[k], F[k - 1].offset)
        /\ F[k].offset = F[k - 1].offset + WordLength[q[k]]
    <3>1. F[k] = AddWord(F[k - 1], q[k])
      BY <1>4
    <3> QED
      BY <3>1 DEF AddWord
  <2> DEFINE M == Met(k - 1)
             x == WordStart(p, k)
             r == F[k - 1].offsets
             w == q[k]
  <2> HIDE DEF Met, K
  <2>5. Firsts(F[k].offsets, Met(k))
    <3>1. r \in NumbersFor(W) /\ M \in SUBSET (W \X Nat) /\ Firsts(r, M) /\ w \in W /\ x \in Nat
      BY <1>2, <1>3, <2>2, <2>3
    <3>2. F[k].offsets = Lower(r, w, x) /\ Met(k) = M \cup {<<w, x>>}
      BY <2>2, <2>3, <2>4
    <3> HIDE DEF M, x, r, w
    <3>3. Firsts(Lower(r, w, x), M \cup {<<w, x>>})
      BY <3>1, FirstsLowered
    <3> QED
      BY <3>2, <3>3
  <2>6. F[k].offset = WordStart(p, k + 1)
    BY <1>3, <2>3, <2>4
  <2> QED
    BY <2>1, <2>5, <2>6 DEF K
<1> HIDE DEF K
<1>10. n \in K /\ n \in 0..n
  <2>1. \A k \in 0..n : k \in K
    BY <1>2, <1>8, <1>9, UpTo
  <2> QED
    BY <1>2, <2>1
<1>11. Firsts(F[n].offsets, S \cup Occurrences(p))
  BY <1>5, <1>10 DEF K
<1> QED
  BY <1>1, <1>7, <1>10, <1>11 DEF W

\* The statistics of the objects f to e.
Gathered(stats, f, e) ==
  /\ stats.counts = CountsOf(f, e)
  /\ stats.offsets \in NumbersFor(Vocabulary) /\ Firsts(stats.offsets, OccurrencesIn(f, e))

\* The statistics of a part are those of the objects before its thread, and what is written
\* in the end is what MatchesSerial asks for.
StatsInv ==
  /\ pc \in {"single", "parts"} =>
       \A k \in Parts : Gathered(partStats[k], chunks[k].first, at[k] - 1)
  /\ pc = "merge" \/ outcome = "ok" =>
       statistics[1].counts = ExpectedCounts /\ LongestAreReported(statistics[1].longest)

\* What the files of one thread hold, and those of its parts.
SingleLines ==
  pc = "single" => /\ chunks[1].last = Len(doc)
                   /\ \A len \in LengthsIn(1, at[1] - 1) :
                        len \in DOMAIN files /\ files[len] = LinesAt(PlacesOf(len, 1, at[1] - 1))
PartLines ==
  pc \in {"parts", "merge"} =>
    /\ \A k \in Parts : \A len \in LengthsIn(chunks[k].first, at[k] - 1) :
         /\ <<k, len>> \in DOMAIN tmp
         /\ tmp[<<k, len>>] = LinesAt(PlacesOf(len, chunks[k].first, at[k] - 1))
    /\ ~leftovers => \A key \in DOMAIN tmp :
         \E k \in Parts : \E len \in LengthsIn(chunks[k].first, at[k] - 1) : key = <<k, len>>

\* The files of the lengths that are merged, and all files in the end.
MergedLines ==
  /\ pc = "merge" => \A k \in Parts : at[k] = chunks[k].last + 1
  /\ pc = "merge" /\ ~leftovers =>
       \A len \in LengthsOfDoc \ toMerge : len \in DOMAIN files /\ files[len] = ExpectedFiles[len]
  /\ outcome = "ok" /\ ~leftovers => files = ExpectedFiles

\* A thread that ends without an error has reported all of its part.
OverInv == pc = "parts" => \A k \in over \ failed : ~Working(k)

\* So it is as long as no failure goes unnoticed.
AllMatch == StatsInv /\ SingleLines /\ PartLines /\ MergedLines /\ OverInv
AreFiles == files = [len \in DOMAIN files |-> files[len]]
MatchInv == AreFiles /\ (silent = 0 => AllMatch)

\* The objects are phrases.
LEMMA PhrasesAre ==
  ASSUME CallsInv, NEW k \in DOMAIN doc
  PROVE  IsPhrase(doc[k])
<1>1. PICK d \in Documents : doc = d.phrases
  BY DEF CallsInv
<1>2. d.phrases[k].start \in Nat /\ d.phrases[k].words \in Seq(DOMAIN WordLength)
  BY <1>1, AnalyzerAssumption
<1> QED
  BY <1>1, <1>2 DEF IsPhrase, Vocabulary

\* The words of some objects.
LEMMA OccurrencesAre ==
  ASSUME CallsInv, NEW f \in Nat \ {0}, NEW e \in Int, e <= Len(doc)
  PROVE  OccurrencesIn(f, e) \in SUBSET (Vocabulary \X Nat) /\ IsFiniteSet(OccurrencesIn(f, e))
<1>1. \A k \in f..e : k \in DOMAIN doc
  BY DocIs
<1>2. ASSUME NEW k \in f..e PROVE Occurrences(doc[k]) \in SUBSET (Vocabulary \X Nat) /\ IsFiniteSet(Occurrences(doc[k]))
  <2>1. IsPhrase(doc[k])
    BY <1>1, PhrasesAre
  <2> DEFINE p == doc[k]
  <2> HIDE DEF p
  <2>2. IsPhrase(p)
    BY <2>1 DEF p
  <2>3. Occurrences(p) \in SUBSET (Vocabulary \X Nat) /\ IsFiniteSet(Occurrences(p))
    BY <2>2, OccurrencesOne
  <2> QED
    BY <2>3 DEF p
<1> DEFINE g == [k \in f..e |-> Occurrences(doc[k])]
           U == {g[k] : k \in f..e}
<1>3. OccurrencesIn(f, e) = UNION U /\ \A k \in f..e : g[k] = Occurrences(doc[k])
  BY DEF OccurrencesIn
<1>4. DOMAIN g = f..e /\ IsFiniteSet(f..e)
  BY FS_Interval
<1> HIDE DEF g
<1>5. IsFiniteSet(U) /\ \A T \in U : IsFiniteSet(T)
  BY <1>2, <1>3, <1>4, ImageIsFinite
<1>6. IsFiniteSet(UNION U)
  <2> HIDE DEF U
  <2> QED
    BY <1>5, FS_UNION
<1> QED
  BY <1>2, <1>3, <1>6

\* There are no statistics of no objects.
LEMMA GatheredNone ==
  ASSUME CallsInv, NEW f \in Int, NEW e \in Int, e < f
  PROVE  Gathered(NoStats, f, e)
<1>1. LengthsIn(f, e) = {} /\ OccurrencesIn(f, e) = {}
  BY LengthOccurs
<1>2. NoStats.counts = CountsOf(f, e)
  <2>1. CountsOf(f, e) = [len \in {} |-> Cardinality(PlacesOf(len, f, e))]
    BY <1>1 DEF CountsOf
  <2>2. [len \in {} |-> Cardinality(PlacesOf(len, f, e))] = [n \in {} |-> 0]
    OBVIOUS
  <2> QED
    BY <2>1, <2>2 DEF NoStats
<1> DEFINE o == [w \in {} |-> 0]
<1>3. NoStats.offsets = o
  BY DEF NoStats
<1>4. o \in NumbersFor(Vocabulary)
  <2>1. {} \in SUBSET Vocabulary /\ IsFiniteSet({}) /\ o \in [{} -> Nat]
    BY FS_EmptySet
  <2> HIDE DEF o
  <2> QED
    BY <2>1 DEF NumbersFor
<1>5. Firsts(o, {})
  BY DEF Firsts
<1> QED
  BY <1>1, <1>2, <1>3, <1>4, <1>5 DEF Gathered

\* add_phrase: the statistics of one object more.
LEMMA GatheredMore ==
  ASSUME CallsInv, NEW f \in Nat \ {0}, NEW k \in DOMAIN doc, f <= k, NEW stats, Gathered(stats, f, k - 1)
  PROVE  Gathered(AddPhrase(stats, Line(doc[k])), f, k)
<1>1. k \in Nat /\ k <= Len(doc) /\ Len(doc) \in Nat
  BY DocIs
<1>2. IsPhrase(doc[k])
  BY PhrasesAre
<1> DEFINE p == doc[k]
           r == Line(doc[k])
           S == OccurrencesIn(f, k - 1)
<1>3. IsPhrase(r) /\ Occurrences(r) = Occurrences(doc[k])
  <2> HIDE DEF p
  <2>1. IsPhrase(p)
    BY <1>2 DEF p
  <2>2. IsPhrase(Line(p)) /\ Occurrences(Line(p)) = Occurrences(p)
    BY <2>1, SameOccurrences
  <2> QED
    BY <2>2 DEF p
<1>4. r.words = doc[k].words
  BY DEF Line
<1>5. S \in SUBSET (Vocabulary \X Nat)
  <2>1. k - 1 \in Int /\ k - 1 <= Len(doc)
    BY <1>1
  <2> QED
    BY <2>1, OccurrencesAre
<1>6. OccurrencesIn(f, k) = S \cup Occurrences(doc[k])
  <2>1. Neighbours(f, k - 1, k)
    <3>1. k - 1 \in Int /\ f <= (k - 1) + 1 /\ k - 1 <= k
      BY <1>1
    <3> QED
      BY <1>1, <3>1, PlacesJoined
  <2>2. (k - 1) + 1 = k
    BY <1>1
  <2>3. OccurrencesIn(k, k) = Occurrences(doc[k])
    BY <1>1, LengthOccurs
  <2> QED
    BY <2>1, <2>2, <2>3 DEF Neighbours
<1>7. Count(CountsOf(f, k - 1), Len(doc[k].words), 1) = CountsOf(f, k)
  BY CountsGrow
<1>8. stats.counts = CountsOf(f, k - 1) /\ stats.offsets \in NumbersFor(Vocabulary) /\ Firsts(stats.offsets, S)
  BY DEF Gathered
<1> HIDE DEF r, S, p
<1>9. AddPhrase(stats, r).counts = CountsOf(f, k)
  BY <1>4, <1>7, <1>8 DEF AddPhrase
<1>10. AddPhrase(stats, r).offsets \in NumbersFor(Vocabulary) /\ Firsts(AddPhrase(stats, r).offsets, S \cup Occurrences(r))
  BY <1>3, <1>5, <1>8, FirstsAdded
<1> QED
  BY <1>3, <1>6, <1>9, <1>10 DEF Gathered, r

\* merge_from: the statistics of some objects and of those after them.
LEMMA GatheredJoined ==
  ASSUME CallsInv, NEW f \in Nat \ {0}, NEW e \in Nat, NEW g \in Nat, f <= e + 1, e <= g, g <= Len(doc),
         NEW s, NEW t, Gathered(s, f, e), Gathered(t, e + 1, g)
  PROVE  Gathered(Merge(s, t), f, g)
<1>1. s.counts = CountsOf(f, e) /\ t.counts = CountsOf(e + 1, g)
  BY DEF Gathered
<1>2. Merge(s, t).counts = CountsOf(f, g)
  BY <1>1, CountsJoined
<1> DEFINE S == OccurrencesIn(f, e)
           T == OccurrencesIn(e + 1, g)
<1>3. S \in SUBSET (Vocabulary \X Nat) /\ T \in SUBSET (Vocabulary \X Nat)
  <2>1. Len(doc) \in Nat /\ e \in Int /\ e <= Len(doc) /\ e + 1 \in Nat \ {0} /\ g \in Int
    BY DocIs
  <2> QED
    BY <2>1, OccurrencesAre
<1>4. /\ s.offsets \in NumbersFor(Vocabulary) /\ Firsts(s.offsets, S)
      /\ t.offsets \in NumbersFor(Vocabulary) /\ Firsts(t.offsets, T)
  BY DEF Gathered
<1>5. OccurrencesIn(f, g) = S \cup T
  <2>1. Neighbours(f, e, g)
    <3>1. e \in Int /\ g \in Int /\ f \in Int
      OBVIOUS
    <3> QED
      BY <3>1, PlacesJoined
  <2> QED
    BY <2>1 DEF Neighbours
<1> HIDE DEF S, T
<1>6. Merge(s, t).offsets \in NumbersFor(Vocabulary) /\ Firsts(Merge(s, t).offsets, S \cup T)
  <2> DEFINE W == Vocabulary
  <2> HIDE DEF W
  <2>1. /\ s.offsets \in NumbersFor(W) /\ t.offsets \in NumbersFor(W)
        /\ S \in SUBSET (W \X Nat) /\ T \in SUBSET (W \X Nat)
    BY <1>3, <1>4 DEF W
  <2>2. Merge(s, t).offsets \in NumbersFor(W) /\ Firsts(Merge(s, t).offsets, S \cup T)
    BY <1>4, <2>1, FirstsMerged
  <2> QED
    BY <2>2 DEF W
<1> QED
  BY <1>2, <1>5, <1>6 DEF Gathered

\* Statistics of any phrases, and of two groups of them.
Statuses == [counts : NumbersFor(Nat), offsets : NumbersFor(Vocabulary)]
Summed(t) == t.counts \in NumbersFor(Nat) /\ t.offsets \in NumbersFor(Vocabulary)
LEMMA MergeIs ==
  ASSUME NEW s \in Statuses, NEW t, Summed(t)
  PROVE  Merge(s, t) \in Statuses
<1>1. s.counts \in NumbersFor(Nat) /\ s.offsets \in NumbersFor(Vocabulary)
  BY DEF Statuses
<1>2. t.counts \in NumbersFor(Nat) /\ t.offsets \in NumbersFor(Vocabulary)
  BY DEF Summed
<1>3. Merge(s, t).counts \in NumbersFor(Nat)
  <2> DEFINE N == Nat
  <2>1. s.counts \in NumbersFor(N) /\ t.counts \in NumbersFor(N)
    BY <1>1, <1>2
  <2> HIDE DEF N
  <2>2. Merge(s, t).counts \in NumbersFor(N)
    BY <2>1, CountsMerged
  <2> QED
    BY <2>2 DEF N
<1>4. Merge(s, t).offsets \in NumbersFor(Vocabulary)
  <2> DEFINE W == Vocabulary
             q == SetToSeq(DOMAIN t.offsets)
  <2>1. s.offsets \in NumbersFor(W) /\ t.offsets \in NumbersFor(W)
    BY <1>1, <1>2
  <2> HIDE DEF W
  <2>2. MergesOffsets(s, t, W)
    BY <2>1, OffsetsStepwise
  <2>3. PICK F : OffsetSteps(F, W, s.offsets, t.offsets, q) /\ Merge(s, t).offsets = F[Len(q)]
    BY <2>2 DEF MergesOffsets
  <2>4. Len(q) \in Nat
    BY <2>1, NumbersFinite, SetToSeqIs
  <2> HIDE DEF q
  <2>5. F \in [0..Len(q) -> NumbersFor(W)]
    BY <2>3 DEF OffsetSteps
  <2> QED
    BY <2>3, <2>4, <2>5 DEF W
<1>5. Merge(s, t) = [counts |-> Merge(s, t).counts, offsets |-> Merge(s, t).offsets]
  BY DEF Merge
<1> QED
  BY <1>3, <1>4, <1>5 DEF Statuses
LEMMA NoStatusIs == NoStats \in Statuses
<1> DEFINE z == [w \in {} |-> 0]
<1>1. \A W : z \in NumbersFor(W)
  <2> SUFFICES ASSUME NEW W PROVE z \in NumbersFor(W)
    OBVIOUS
  <2>1. {} \in SUBSET W /\ IsFiniteSet({}) /\ z \in [{} -> Nat]
    BY FS_EmptySet
  <2> HIDE DEF z
  <2> QED
    BY <2>1 DEF NumbersFor
<1>2. NoStats = [counts |-> z, offsets |-> z]
  BY DEF NoStats
<1> HIDE DEF z
<1> QED
  BY <1>1, <1>2 DEF Statuses

\* The merge of the parts, one by one.
MergeSteps(F, q, num) ==
  /\ F \in [0..num -> Statuses] /\ F[0] = NoStats
  /\ \A k \in 1..num : F[k] = Merge(F[k - 1], q[k])
LEMMA MergeStepwise ==
  ASSUME NEW num \in Nat, NEW q, DOMAIN q = 1..num, \A k \in 1..num : Summed(q[k])
  PROVE  \E F : MergeSteps(F, q, num) /\ FoldLeft(Merge, NoStats, q) = F[num]
<1>0. num \in Nat /\ DOMAIN q = 1..num /\ \A k \in 1..num : Summed(q[k])
  OBVIOUS
<1> DEFINE n == num
           X == Statuses
           x0 == NoStats
           h == [k \in 1..n |-> [a \in X |-> Merge(a, q[k])]]
           Eq(f) == f = [z \in SUBSET DOMAIN q |->
                           IF z = {} THEN NoStats
                           ELSE Merge(f[z \ {Max(z)}], q[Max(z)])]
           It == CHOOSE f : Eq(f)
<1>1. FoldLeft(Merge, NoStats, q) = It[DOMAIN q]
  BY DEF FoldLeft, MapThenFoldSet
<1>2. \A k \in 1..n, a \in X : Merge(a, q[k]) \in X
  BY <1>0, MergeIs
<1>11. n \in Nat /\ DOMAIN q = 1..n
  BY <1>0
<1>3. x0 \in X
  BY NoStatusIs
<1> HIDE DEF X
<1>4. h \in [1..n -> [X -> X]] /\ \A k \in 1..n, a \in X : h[k][a] = Merge(a, q[k])
  <2> HIDE DEF n
  <2> QED
    BY <1>2
<1>5. Eq(It)
  <2>1. PICK A : FoldsOver(A, X, x0, h, n)
    <3> HIDE DEF h, n, x0
    <3> QED
      BY <1>11, <1>3, <1>4, FoldsExist
  <2>2. /\ A \in [SUBSET (1..n) -> X] /\ A[{}] = x0
        /\ \A z \in SUBSET (1..n) : z # {} => A[z] = h[Max(z)][A[z \ {Max(z)}]]
    BY <2>1 DEF FoldsOver
  <2>3. \A z \in SUBSET (1..n) : z # {} => Max(z) \in 1..n /\ z \ {Max(z)} \in SUBSET (1..n)
    BY <1>11, MaxIs
  <2>4. \A z \in SUBSET (1..n) : z # {} => A[z] = Merge(A[z \ {Max(z)}], q[Max(z)])
    <3> HIDE DEF h, n
    <3> QED
      BY <1>4, <2>2, <2>3
  <2>5. Eq(A)
    <3> HIDE DEF h, n
    <3> QED
      BY <1>11, <2>2, <2>4
  <2> HIDE DEF Eq
  <2> QED
    BY <2>5
<1>6. Reaches(It, X, x0, h, n)
  <2>1. It[{}] = x0
    <3> HIDE DEF It
    <3> QED
      BY <1>11, <1>5
  <2>2. ASSUME NEW k \in 1..n, It[1..(k - 1)] \in X PROVE It[1..k] = h[k][It[1..(k - 1)]]
    <3>1. k \in Nat /\ k # 0 /\ 1..k \in SUBSET (1..n)
      BY <1>11
    <3>2. 1..k # {} /\ Max(1..k) = k /\ (1..k) \ {k} = 1..(k - 1)
      BY <3>1, MaxOfFirst
    <3> HIDE DEF It, n, h
    <3>3. It[1..k] = Merge(It[1..(k - 1)], q[k])
      BY <1>11, <1>5, <3>1, <3>2
    <3> QED
      BY <1>4, <2>2, <3>3
  <2> HIDE DEF h, n, It
  <2> QED
    BY <2>1, <2>2 DEF Reaches
<1>7. PICK F : Stepwise(F, X, x0, h, n) /\ It[1..n] = F[n]
  <2> HIDE DEF h, n, It, x0
  <2> QED
    BY <1>11, <1>3, <1>4, <1>6, FoldReached
<1>8. F \in [0..n -> X] /\ F[0] = x0 /\ \A k \in 1..n : F[k] = Merge(F[k - 1], q[k])
  <2>1. F \in [0..n -> X] /\ F[0] = x0 /\ \A k \in 1..n : F[k] = h[k][F[k - 1]]
    BY <1>7 DEF Stepwise
  <2>2. \A k \in 1..n : F[k - 1] \in X
    <3>1. \A k \in 1..n : k - 1 \in 0..n
      BY <1>11
    <3> QED
      BY <2>1, <3>1
  <2> HIDE DEF h, n
  <2> QED
    BY <1>4, <2>1, <2>2
<1>9. MergeSteps(F, q, num)
  BY <1>8 DEF MergeSteps, X
<1>10. FoldLeft(Merge, NoStats, q) = F[n]
  <2> HIDE DEF It
  <2> QED
    BY <1>0, <1>1, <1>7
<1> QED
  BY <1>9, <1>10

\* Where the parts of a partition end, the part 0 before the first object.
Ends(E) ==
  /\ E \in [0..Len(chunks) -> 0..Len(doc)] /\ E[0] = 0 /\ E[Len(chunks)] = Len(doc)
  /\ \A k \in 1..Len(chunks) : /\ chunks[k].first = E[k - 1] + 1 /\ chunks[k].last = E[k]
                               /\ E[k - 1] <= E[k]
LEMMA PartRanges ==
  ASSUME CallsInv, PlacesInv, NEW m, Partition(chunks, m, Len(doc)), InDocument(chunks)
  PROVE  \E E : Ends(E)
<1> DEFINE n == Len(chunks)
           E == [k \in 0..n |-> IF k = 0 THEN 0 ELSE chunks[k].last]
<1>1. n \in Nat /\ Parts = 1..n /\ Len(doc) \in Nat
  BY DocIs DEF PlacesInv, Parts
<1>2. n # 0 /\ chunks[n].last = Len(doc)
  BY DEF Partition, Last
<1>3. \A k \in 1..n : /\ chunks[k].first \in 1..(Len(doc) + 1) /\ chunks[k].last \in 0..Len(doc)
                      /\ chunks[k].first <= chunks[k].last + 1
  BY <1>1 DEF InDocument, Parts
<1>4. chunks[1].first = 1 /\ \A i \in 1..(n - 1) : chunks[i + 1].first = chunks[i].last + 1
  BY DEF Partition
<1> HIDE DEF n
<1>5. E \in [0..n -> 0..Len(doc)] /\ E[0] = 0 /\ E[n] = Len(doc)
  <2>1. \A k \in 0..n : k # 0 => k \in 1..n
    BY <1>1
  <2> QED
    BY <1>1, <1>2, <1>3, <2>1
<1>6. \A k \in 1..n : E[k] = chunks[k].last /\ k - 1 \in 0..n
  BY <1>1
<1>7. ASSUME NEW k \in 1..n PROVE chunks[k].first = E[k - 1] + 1
  <2>1. CASE k = 1
    BY <1>1, <1>4, <1>5, <2>1
  <2>2. CASE k # 1
    <3> DEFINE i == k - 1
    <3>1. i \in 1..(n - 1) /\ i + 1 = k /\ i # 0 /\ i \in 1..n
      BY <1>1, <2>2
    <3>2. E[i] = chunks[i].last
      BY <1>6, <3>1
    <3> HIDE DEF i, E
    <3>3. chunks[k].first = E[i] + 1
      BY <1>4, <3>1, <3>2
    <3> QED
      BY <3>3 DEF i
  <2> QED
    BY <2>1, <2>2
<1>8. ASSUME NEW k \in 1..n PROVE E[k - 1] <= E[k]
  <2>1. E[k - 1] + 1 <= E[k] + 1 /\ E[k - 1] \in 0..Len(doc) /\ E[k] \in 0..Len(doc)
    BY <1>3, <1>5, <1>6, <1>7
  <2> QED
    BY <1>1, <2>1
<1> HIDE DEF E
<1>9. Ends(E)
  BY <1>5, <1>6, <1>7, <1>8 DEF Ends, n
<1> QED
  BY <1>9

\* The statistics of the parts of a partition make those of the document.
LEMMA GatheredAll ==
  ASSUME CallsInv, PlacesInv, NEW E, Ends(E),
         \A k \in Parts : Gathered(partStats[k], chunks[k].first, chunks[k].last)
  PROVE  Gathered(FoldLeft(Merge, NoStats, partStats), 1, Len(doc))
<1> DEFINE n == Len(chunks)
           q == partStats
<1>1. n \in Nat /\ Parts = 1..n /\ DOMAIN q = 1..n /\ Len(doc) \in Nat
  BY DocIs DEF PlacesInv, Parts
<1>2. /\ E \in [0..n -> 0..Len(doc)] /\ E[0] = 0 /\ E[n] = Len(doc)
      /\ \A k \in 1..n : chunks[k].first = E[k - 1] + 1 /\ chunks[k].last = E[k] /\ E[k - 1] <= E[k]
  BY DEF Ends
<1>3. \A k \in 1..n : chunks[k].first \in 1..(Len(doc) + 1) /\ chunks[k].last \in 0..Len(doc)
  BY <1>1 DEF PlacesInv
<1>4. \A k \in 1..n : Gathered(q[k], chunks[k].first, chunks[k].last)
  BY <1>1
<1> HIDE DEF n, q
<1>5. \A k \in 1..n : Summed(q[k])
  <2> SUFFICES ASSUME NEW k \in 1..n PROVE Summed(q[k])
    OBVIOUS
  <2> DEFINE f == chunks[k].first
             e == chunks[k].last
  <2>1. f \in Nat \ {0} /\ e \in Int /\ e <= Len(doc) /\ Gathered(q[k], f, e)
    BY <1>1, <1>3, <1>4
  <2> HIDE DEF f, e
  <2>2. CountsAre(CountsOf(f, e), f, e)
    BY <2>1, CountsOfAre
  <2> QED
    BY <2>1, <2>2 DEF Gathered, CountsAre, Summed
<1>6. PICK F : MergeSteps(F, q, n) /\ FoldLeft(Merge, NoStats, q) = F[n]
  BY <1>1, <1>5, MergeStepwise
<1>7. F[0] = NoStats /\ \A k \in 1..n : F[k] = Merge(F[k - 1], q[k])
  BY <1>6 DEF MergeSteps
<1> DEFINE K == {k \in 0..n : Gathered(F[k], 1, E[k])}
<1>8. 0 \in K
  <2>1. Gathered(NoStats, 1, 0)
    BY GatheredNone
  <2> QED
    BY <1>1, <1>2, <1>7, <2>1
<1>9. ASSUME NEW k \in 1..n, k - 1 \in K PROVE k \in K
  <2> DEFINE e == E[k - 1]
             g == E[k]
             s == F[k - 1]
             t == q[k]
             f == 1
  <2>1. k \in 0..n /\ k - 1 \in 0..n
    BY <1>1
  <2>2. e \in Nat /\ g \in Nat /\ f \in Nat \ {0} /\ f <= e + 1 /\ e <= g /\ g <= Len(doc)
    <3>1. e \in 0..Len(doc) /\ g \in 0..Len(doc) /\ e <= g
      BY <1>2, <2>1
    <3> HIDE DEF e, g
    <3> QED
      BY <1>1, <3>1
  <2>3. Gathered(s, f, e) /\ Gathered(t, e + 1, g)
    BY <1>2, <1>4, <1>9
  <2>4. F[k] = Merge(s, t)
    BY <1>7
  <2> HIDE DEF e, s, t, f, K
  <2>5. Gathered(Merge(s, t), f, g)
    <3> HIDE DEF g
    <3> QED
      BY <2>2, <2>3, GatheredJoined
  <2> QED
    BY <2>1, <2>4, <2>5 DEF K, f
<1> HIDE DEF K
<1>10. n \in K
  <2>1. \A k \in 0..n : k \in K
    BY <1>1, <1>8, <1>9, UpTo
  <2> QED
    BY <1>1, <2>1
<1> QED
  BY <1>2, <1>6, <1>10 DEF K, q

\* before[w] are those before w in an order of A; then there is one of each rank.
IsOrder(A, before) ==
  /\ before \in [A -> SUBSET A]
  /\ \A w \in A : w \notin before[w] /\ \A v \in before[w] : before[v] \subseteq before[w]
  /\ \A v, w \in A : v = w \/ v \in before[w] \/ w \in before[v]
IsRanked(A, before) ==
  /\ Cardinality(A) \in Nat
  /\ \A w \in A : Cardinality(before[w]) \in 0..(Cardinality(A) - 1)
  /\ \A v, w \in A : /\ v \in before[w] <=> Cardinality(before[v]) < Cardinality(before[w])
                     /\ Cardinality(before[v]) = Cardinality(before[w]) => v = w
  /\ \A m \in 0..(Cardinality(A) - 1) : \E w \in A : Cardinality(before[w]) = m
LEMMA OrderRanks ==
  ASSUME NEW A, IsFiniteSet(A), NEW before, IsOrder(A, before)
  PROVE  IsRanked(A, before)
<1> DEFINE n == Cardinality(A)
           rank == [w \in A |-> Cardinality(before[w])]
<1>0. /\ before \in [A -> SUBSET A]
      /\ \A w \in A : w \notin before[w] /\ \A v \in before[w] : before[v] \subseteq before[w]
      /\ \A v, w \in A : v = w \/ v \in before[w] \/ w \in before[v]
  BY DEF IsOrder
<1>1. n \in Nat
  BY FS_CardinalityType
<1>2. ASSUME NEW w \in A
      PROVE  IsFiniteSet(before[w]) /\ Cardinality(before[w]) \in 0..(n - 1)
  <2> DEFINE T == before[w]
  <2>1. T \in SUBSET A /\ w \notin T /\ T # A
    BY <1>0
  <2> HIDE DEF T
  <2>2. IsFiniteSet(T) /\ Cardinality(T) <= Cardinality(A) /\ (Cardinality(T) = Cardinality(A) => T = A)
    BY <2>1, FS_Subset
  <2>3. Cardinality(T) \in Nat
    BY <2>2, FS_CardinalityType
  <2> QED
    BY <1>1, <2>1, <2>2, <2>3 DEF T
<1>3. ASSUME NEW w \in A, NEW v \in before[w] PROVE Cardinality(before[v]) < Cardinality(before[w])
  <2> DEFINE S == before[v]
             T == before[w]
  <2>1. S \in SUBSET T /\ v \in A /\ v \notin S /\ v \in T /\ S # T
    BY <1>0
  <2>2. IsFiniteSet(T) /\ Cardinality(T) \in Nat /\ IsFiniteSet(S) /\ Cardinality(S) \in Nat
    BY <1>1, <1>2, <2>1
  <2> HIDE DEF S, T
  <2>3. Cardinality(S) <= Cardinality(T) /\ (Cardinality(S) = Cardinality(T) => S = T)
    BY <2>1, <2>2, FS_Subset
  <2>4. Cardinality(S) < Cardinality(T)
    BY <2>1, <2>2, <2>3
  <2> QED
    BY <2>4 DEF S, T
<1>4. \A w \in A : Cardinality(before[w]) \in Nat
  BY <1>1, <1>2
<1>5. ASSUME NEW v \in A, NEW w \in A
      PROVE  /\ v \in before[w] <=> Cardinality(before[v]) < Cardinality(before[w])
             /\ Cardinality(before[v]) = Cardinality(before[w]) => v = w
  <2> DEFINE c == Cardinality(before[v])
             d == Cardinality(before[w])
  <2>1. v = w \/ v \in before[w] \/ w \in before[v]
    BY <1>0
  <2>2. (v \in before[w] => c < d) /\ (w \in before[v] => d < c)
    BY <1>3
  <2>3. c \in Nat /\ d \in Nat /\ (v = w => c = d)
    BY <1>4
  <2> HIDE DEF c, d
  <2>4. (v \in before[w] <=> c < d) /\ (c = d => v = w)
    BY <2>1, <2>2, <2>3
  <2> QED
    BY <2>4 DEF c, d
<1>6. rank \in Injection(A, 0..(n - 1))
  <2>1. rank \in [A -> 0..(n - 1)] /\ \A w \in A : rank[w] = Cardinality(before[w])
    BY <1>2
  <2> HIDE DEF rank, n
  <2>2. \A v, w \in A : rank[v] = rank[w] => v = w
    BY <1>5, <2>1
  <2> QED
    BY <2>1, <2>2 DEF Injection, IsInjective
<1>7. IsFiniteSet(0..(n - 1)) /\ Cardinality(0..(n - 1)) = n
  <2> HIDE DEF n
  <2> DEFINE m == n - 1
  <2>1. m \in Int /\ (0 > m => n = 0) /\ m - 0 + 1 = n
    BY <1>1
  <2> HIDE DEF m
  <2>2. IsFiniteSet(0..m) /\ Cardinality(0..m) = IF 0 > m THEN 0 ELSE m - 0 + 1
    BY <2>1, FS_Interval
  <2> QED
    BY <1>1, <2>1, <2>2 DEF m
<1>8. rank \in Surjection(A, 0..(n - 1))
  <2> DEFINE R == 0..(n - 1)
  <2>1. rank \in Injection(A, R) /\ IsFiniteSet(R) /\ Cardinality(R) = Cardinality(A)
    BY <1>6, <1>7
  <2> HIDE DEF R, rank, n
  <2>2. rank \in Surjection(A, R)
    BY <2>1, FS_Injection
  <2> QED
    BY <2>2 DEF R
<1>9. \A m \in 0..(n - 1) : \E w \in A : Cardinality(before[w]) = m
  BY <1>8 DEF Surjection
<1> QED
  BY <1>1, <1>2, <1>5, <1>9 DEF IsRanked

\* The least of two numbers.
LEMMA LesserIs ==
  ASSUME NEW a \in Nat, NEW b \in Nat
  PROVE  Min({a, b}) \in Nat /\ Min({a, b}) <= a /\ Min({a, b}) <= b
<1>1. CASE a <= b
  <2>1. a \in {a, b} /\ \A y \in {a, b} : a <= y
    BY <1>1
  <2> QED
    BY <2>1 DEF Min
<1>2. CASE ~(a <= b)
  <2>1. b \in {a, b} /\ \A y \in {a, b} : b <= y
    BY <1>2
  <2> QED
    BY <2>1 DEF Min
<1> QED
  BY <1>1, <1>2

\* What the document says, as statistics of its objects.
LEMMA WholeDocument ==
  ASSUME CallsInv
  PROVE  /\ CountsOf(1, Len(doc)) = ExpectedCounts
         /\ WordsOfDoc = {x[1] : x \in OccurrencesIn(1, Len(doc))}
         /\ \A w : Offsets(w) = {x[2] : x \in {y \in OccurrencesIn(1, Len(doc)) : y[1] = w}}
<1>1. DOMAIN doc = 1..Len(doc)
  BY DocIs
<1>2. LengthsIn(1, Len(doc)) = LengthsOfDoc
  BY <1>1 DEF LengthsIn, LengthsOfDoc
<1>3. \A len : PlacesOf(len, 1, Len(doc)) = {k \in DOMAIN doc : Len(doc[k].words) = len}
  BY <1>1 DEF PlacesOf
<1>4. CountsOf(1, Len(doc)) = ExpectedCounts
  BY <1>2, <1>3 DEF CountsOf, ExpectedCounts
<1> DEFINE S == OccurrencesIn(1, Len(doc))
<1>5. S = UNION {Occurrences(doc[k]) : k \in DOMAIN doc}
  BY <1>1 DEF OccurrencesIn
<1>6. WordsOfDoc = {x[1] : x \in S}
  <2>1. \A w : w \in WordsOfDoc <=> \E k \in DOMAIN doc : \E j \in DOMAIN doc[k].words : doc[k].words[j] = w
    BY DEF WordsOfDoc, ToSet
  <2>2. ASSUME NEW k \in DOMAIN doc, NEW j \in DOMAIN doc[k].words
        PROVE  \E x \in S : x[1] = doc[k].words[j]
    <3> DEFINE x == <<doc[k].words[j], WordStart(doc[k], j)>>
    <3>1. x \in Occurrences(doc[k]) /\ x[1] = doc[k].words[j]
      BY DEF Occurrences
    <3> HIDE DEF x
    <3> QED
      BY <1>5, <3>1
  <2>3. ASSUME NEW x \in S PROVE \E k \in DOMAIN doc : \E j \in DOMAIN doc[k].words : doc[k].words[j] = x[1]
    <3>1. PICK k \in DOMAIN doc : x \in Occurrences(doc[k])
      BY <1>5
    <3>2. PICK j \in DOMAIN doc[k].words : x = <<doc[k].words[j], WordStart(doc[k], j)>>
      BY <3>1 DEF Occurrences
    <3> QED
      BY <3>2
  <2> HIDE DEF S
  <2>4. \A w : w \in {x[1] : x \in S} <=> \E x \in S : x[1] = w
    BY Zenon
  <2>5. \A w : w \in WordsOfDoc <=> w \in {x[1] : x \in S}
    BY <2>1, <2>2, <2>3, <2>4
  <2> QED
    BY <2>5
<1>7. \A w : Offsets(w) = {x[2] : x \in {y \in S : y[1] = w}}
  <2> HIDE DEF S
  <2> QED
    BY <1>5 DEF Offsets
<1> QED
  BY <1>4, <1>6, <1>7

\* The words in the order in which they are reported.
Befores(o) == [w \in DOMAIN o |-> {v \in DOMAIN o : Precedes(o, v, w)}]
LEMMA WordsOrdered ==
  ASSUME CallsInv, NEW stats, Gathered(stats, 1, Len(doc))
  PROVE  IsFiniteSet(DOMAIN stats.offsets) /\ IsOrder(DOMAIN stats.offsets, Befores(stats.offsets))
<1> DEFINE o == stats.offsets
           A == DOMAIN stats.offsets
           S == OccurrencesIn(1, Len(doc))
           b == Befores(o)
<1>1. o \in NumbersFor(Vocabulary) /\ Firsts(o, S)
  BY DEF Gathered
<1>2. IsFiniteSet(A)
  BY <1>1, NumbersFinite
<1>3. \A w \in A : w \in Vocabulary /\ o[w] \in Nat
  <2>1. PICK D \in SUBSET Vocabulary : o \in [D -> Nat]
    BY <1>1 DEF NumbersFor
  <2> HIDE DEF o
  <2>2. \A w \in DOMAIN o : w \in Vocabulary /\ o[w] \in Nat
    BY <2>1
  <2> QED
    BY <2>2 DEF o
<1>4. \A w \in A : WordLength[w] \in Nat
  BY <1>3, WordsHaveLengths
<1>5. \A w \in A : <<w, o[w]>> \in S
  <2> HIDE DEF S
  <2> QED
    BY <1>1 DEF Firsts
<1>6. ASSUME NEW v \in A, NEW w \in A, o[v] = o[w], WordLength[v] = WordLength[w] PROVE v = w
  <2>1. PICK d \in Documents : doc = d.phrases
    BY DEF CallsInv
  <2>2. DOMAIN doc = 1..Len(doc)
    BY DocIs
  <2> DEFINE x == <<v, o[v]>>
             y == <<w, o[w]>>
  <2>3. x \in S /\ y \in S /\ x[1] = v /\ x[2] = o[v] /\ y[1] = w /\ y[2] = o[w]
    BY <1>5
  <2> HIDE DEF x, y, o
  <2>4. PICK k \in DOMAIN doc : x \in Occurrences(doc[k])
    BY <2>2, <2>3 DEF OccurrencesIn
  <2>5. PICK l \in DOMAIN doc : y \in Occurrences(doc[l])
    BY <2>2, <2>3 DEF OccurrencesIn
  <2>6. x[2] = y[2] /\ WordLength[x[1]] = WordLength[y[1]] => x[1] = y[1]
    BY <2>1, <2>4, <2>5, AnalyzerAssumption
  <2> QED
    BY <1>6, <2>3, <2>6
<1>7. \A v, w \in A : v \in b[w] <=> Precedes(o, v, w)
  BY DEF Befores
<1>8. b \in [A -> SUBSET A]
  BY DEF Befores
<1> HIDE DEF b, A, o
<1>9. \A w \in A : w \notin b[w]
  <2>1. \A w \in A : ~Precedes(o, w, w)
    BY <1>3, <1>4 DEF Precedes
  <2> QED
    BY <1>7, <2>1
<1>10. ASSUME NEW w \in A, NEW v \in b[w] PROVE b[v] \subseteq b[w]
  <2>1. v \in A /\ Precedes(o, v, w)
    BY <1>7, <1>8
  <2> SUFFICES ASSUME NEW u \in b[v] PROVE u \in b[w]
    OBVIOUS
  <2>2. u \in A /\ Precedes(o, u, v)
    BY <1>7, <1>8, <2>1
  <2>3. /\ WordLength[u] \in Nat /\ WordLength[v] \in Nat /\ WordLength[w] \in Nat
        /\ o[u] \in Nat /\ o[v] \in Nat /\ o[w] \in Nat
    BY <1>3, <1>4, <2>1, <2>2
  <2>4. Precedes(o, u, w)
    BY <2>1, <2>2, <2>3 DEF Precedes
  <2> QED
    BY <1>7, <2>2, <2>4
<1>11. ASSUME NEW v \in A, NEW w \in A PROVE v = w \/ v \in b[w] \/ w \in b[v]
  <2>1. WordLength[v] \in Nat /\ WordLength[w] \in Nat /\ o[v] \in Nat /\ o[w] \in Nat
    BY <1>3, <1>4
  <2>2. v = w \/ Precedes(o, v, w) \/ Precedes(o, w, v)
    BY <1>6, <2>1 DEF Precedes
  <2> QED
    BY <1>7, <2>2
<1>12. IsOrder(A, b)
  BY <1>8, <1>9, <1>10, <1>11 DEF IsOrder
<1> QED
  BY <1>2, <1>12 DEF A, b, o

\* The words that are reported are the first ones of that order, at their first offsets.
LEMMA LongestIs ==
  ASSUME CallsInv, NEW stats, Gathered(stats, 1, Len(doc))
  PROVE  LongestAreReported(Longest(stats))
<1> DEFINE o == stats.offsets
           A == DOMAIN stats.offsets
           S == OccurrencesIn(1, Len(doc))
           b == Befores(o)
           n == Cardinality(A)
           m == Min({ReportedWords, n})
           sorted(i) == CHOOSE w \in A : Cardinality({v \in A : Precedes(o, v, w)}) = i - 1
           r == [i \in 1..m |-> [word |-> sorted(i), offset |-> o[sorted(i)]]]
<1>1. Longest(stats) = r
  BY DEF Longest
<1>2. /\ n \in Nat
      /\ \A w \in A : Cardinality(b[w]) \in 0..(n - 1)
      /\ \A v, w \in A : /\ v \in b[w] <=> Cardinality(b[v]) < Cardinality(b[w])
                         /\ Cardinality(b[v]) = Cardinality(b[w]) => v = w
      /\ \A k \in 0..(n - 1) : \E w \in A : Cardinality(b[w]) = k
  <2>1. IsFiniteSet(A) /\ IsOrder(A, b)
    BY WordsOrdered
  <2> HIDE DEF A, b
  <2>2. IsRanked(A, b)
    BY <2>1, OrderRanks
  <2> QED
    BY <2>2 DEF IsRanked
<1>3. m \in Nat /\ m <= n
  <2> HIDE DEF n
  <2> QED
    BY <1>2, AnalyzerAssumption, LesserIs
<1>4. \A w \in A : b[w] = {v \in A : Precedes(o, v, w)}
  BY DEF Befores
<1>5. \A i \in 1..n : sorted(i) \in A /\ Cardinality(b[sorted(i)]) = i - 1
  <2> SUFFICES ASSUME NEW i \in 1..n PROVE sorted(i) \in A /\ Cardinality(b[sorted(i)]) = i - 1
    OBVIOUS
  <2> HIDE DEF A, o, b, n
  <2>1. i - 1 \in 0..(n - 1)
    BY <1>2
  <2>2. PICK u \in A : Cardinality(b[u]) = i - 1
    BY <1>2, <2>1
  <2>3. Cardinality({v \in A : Precedes(o, v, u)}) = i - 1
    BY <1>4, <2>2
  <2>4. sorted(i) \in A /\ Cardinality({v \in A : Precedes(o, v, sorted(i))}) = i - 1
    BY <2>3
  <2> QED
    BY <1>4, <2>4
<1>6. Firsts(o, S)
  BY DEF Gathered
<1>7. /\ WordsOfDoc = {x[1] : x \in S}
      /\ \A w : Offsets(w) = {x[2] : x \in {y \in S : y[1] = w}}
  BY WholeDocument
<1>8. S \in SUBSET (Vocabulary \X Nat)
  <2>1. 1 \in Nat \ {0} /\ Len(doc) \in Int /\ Len(doc) <= Len(doc)
    BY DocIs
  <2> QED
    BY <2>1, OccurrencesAre
<1> HIDE DEF S, b, o, n, m, A
<1>9. A = DOMAIN o
  BY DEF A, o
<1>10. WordsOfDoc = A
  BY <1>6, <1>7, <1>9 DEF Firsts
<1>11. ASSUME NEW w \in A PROVE Min(Offsets(w)) = o[w]
  <2>1. <<w, o[w]>> \in S /\ \A x \in S : x[1] = w => o[w] <= x[2]
    BY <1>6, <1>9 DEF Firsts
  <2> DEFINE T == Offsets(w)
             y == <<w, o[w]>>
  <2>2. T = {x[2] : x \in {z \in S : z[1] = w}}
    BY <1>7
  <2>3. y[1] = w /\ y[2] = o[w] /\ y \in S
    BY <2>1
  <2> HIDE DEF T, y
  <2>4. o[w] \in T
    BY <2>2, <2>3
  <2>5. \A t \in T : o[w] <= t /\ t \in Nat
    BY <1>8, <2>1, <2>2
  <2>6. Min(T) \in T /\ \A t \in T : Min(T) <= t
    <3>1. \E x \in T : \A t \in T : x <= t
      BY <2>4, <2>5
    <3> QED
      BY <3>1 DEF Min
  <2>7. Min(T) <= o[w] /\ o[w] <= Min(T) /\ Min(T) \in Nat /\ o[w] \in Nat
    BY <2>4, <2>5, <2>6
  <2>8. Min(T) = o[w]
    BY <2>7
  <2> QED
    BY <2>8 DEF T
<1> HIDE DEF sorted
<1>12. \A i \in 1..m : i \in 1..n /\ r[i].word = sorted(i) /\ r[i].offset = o[sorted(i)]
  BY <1>2, <1>3
<1>13. Len(r) = m /\ DOMAIN r = 1..m
  BY <1>3
<1> HIDE DEF r
<1>14. Len(r) = Min({ReportedWords, Cardinality(WordsOfDoc)})
  BY <1>10, <1>13 DEF m, n
<1>15. ASSUME NEW i \in DOMAIN r
       PROVE  /\ r[i].word \in WordsOfDoc /\ r[i].offset = Min(Offsets(r[i].word))
              /\ {v \in WordsOfDoc : \/ WordLength[v] > WordLength[r[i].word]
                                     \/ /\ WordLength[v] = WordLength[r[i].word]
                                        /\ Min(Offsets(v)) < r[i].offset}
                   = {r[j].word : j \in 1..(i - 1)}
  <2> DEFINE w == sorted(i)
  <2>1. i \in 1..m /\ i \in 1..n /\ w \in A /\ Cardinality(b[w]) = i - 1 /\ r[i].word = w /\ r[i].offset = o[w]
    BY <1>5, <1>12, <1>13
  <2> DEFINE before == {v \in WordsOfDoc : \/ WordLength[v] > WordLength[r[i].word]
                                           \/ /\ WordLength[v] = WordLength[r[i].word]
                                              /\ Min(Offsets(v)) < r[i].offset}
  <2> HIDE DEF w
  <2>2. before = b[w]
    <3>1. \A v \in A : Precedes(o, v, w) <=> (WordLength[v] > WordLength[w]
                                              \/ (WordLength[v] = WordLength[w] /\ o[v] < o[w]))
      BY DEF Precedes
    <3>2. \A v \in A : Min(Offsets(v)) = o[v]
      BY <1>11
    <3> QED
      BY <1>4, <1>10, <2>1, <3>1, <3>2
  <2> HIDE DEF before
  <2>3. \A j \in 1..(i - 1) : j \in 1..m /\ j \in 1..n /\ r[j].word = sorted(j)
    BY <1>2, <1>3, <1>12, <2>1
  <2>4. ASSUME NEW j \in 1..(i - 1) PROVE r[j].word \in b[w]
    <3>1. sorted(j) \in A /\ Cardinality(b[sorted(j)]) = j - 1 /\ r[j].word = sorted(j) /\ j - 1 < i - 1
      BY <1>5, <2>1, <2>3
    <3> QED
      BY <1>2, <2>1, <3>1
  <2>5. ASSUME NEW v \in b[w] PROVE \E j \in 1..(i - 1) : r[j].word = v
    <3>1. v \in A
      BY <1>4, <2>1
    <3>2. Cardinality(b[v]) < i - 1 /\ Cardinality(b[v]) \in 0..(n - 1)
      BY <1>2, <2>1, <3>1
    <3> DEFINE j == Cardinality(b[v]) + 1
    <3>3. j \in 1..(i - 1) /\ j - 1 = Cardinality(b[v])
      BY <2>1, <3>2
    <3> HIDE DEF j
    <3>4. sorted(j) \in A /\ Cardinality(b[sorted(j)]) = j - 1 /\ r[j].word = sorted(j)
      BY <1>5, <2>3, <3>3
    <3>5. sorted(j) = v
      BY <1>2, <3>1, <3>3, <3>4
    <3> QED
      BY <3>3, <3>4, <3>5
  <2>6. b[w] = {r[j].word : j \in 1..(i - 1)}
    BY <2>4, <2>5
  <2>7. r[i].word \in WordsOfDoc /\ r[i].offset = Min(Offsets(r[i].word))
    BY <1>10, <1>11, <2>1
  <2>8. before = {r[j].word : j \in 1..(i - 1)}
    BY <2>2, <2>6
  <2> QED
    BY <2>7, <2>8 DEF before
<1>16. LongestAreReported(r)
  BY <1>14, <1>15 DEF LongestAreReported
<1> QED
  BY <1>1, <1>16

\* Every object is in a part.
LEMMA PartOf ==
  ASSUME CallsInv, PlacesInv, NEW E, Ends(E), NEW x \in DOMAIN doc
  PROVE  \E k \in Parts : x \in chunks[k].first..chunks[k].last
<1> DEFINE n == Len(chunks)
           K == {k \in 0..n : E[k] < x}
<1>1. n \in Nat /\ Parts = 1..n /\ Len(doc) \in Nat /\ x \in 1..Len(doc)
  BY DocIs DEF PlacesInv, Parts
<1>2. /\ E \in [0..n -> 0..Len(doc)] /\ E[0] = 0 /\ E[n] = Len(doc)
      /\ \A k \in 1..n : chunks[k].first = E[k - 1] + 1 /\ chunks[k].last = E[k]
  BY DEF Ends
<1> HIDE DEF n
<1>3. ASSUME \A k \in 1..n : ~(E[k - 1] < x /\ x <= E[k]) PROVE FALSE
  <2>1. 0 \in K
    BY <1>1, <1>2
  <2>2. ASSUME NEW k \in 1..n, k - 1 \in K PROVE k \in K
    <3>1. k \in 0..n /\ E[k] \in 0..Len(doc)
      BY <1>1, <1>2
    <3> QED
      BY <1>1, <1>3, <2>2, <3>1
  <2> HIDE DEF K
  <2>3. \A k \in 0..n : k \in K
    BY <1>1, <2>1, <2>2, UpTo
  <2>4. n \in K
    BY <1>1, <2>3
  <2> QED
    BY <1>1, <1>2, <2>4 DEF K
<1>4. PICK k \in 1..n : E[k - 1] < x /\ x <= E[k]
  BY <1>3
<1>5. x \in chunks[k].first..chunks[k].last
  <2>1. E[k - 1] \in 0..Len(doc) /\ E[k] \in 0..Len(doc) /\ chunks[k].first = E[k - 1] + 1 /\ chunks[k].last = E[k]
    <3>1. k - 1 \in 0..n /\ k \in 0..n
      BY <1>1
    <3> QED
      BY <1>2, <3>1
  <2> QED
    BY <1>1, <1>4, <2>1
<1> QED
  BY <1>1, <1>4, <1>5

\* A file after an object is written to it.
Extended(dir, key, d, lines) ==
  /\ d = [x \in DOMAIN d |-> d[x]] /\ DOMAIN d = DOMAIN dir \cup {key} /\ d[key] = lines
  /\ \A x \in DOMAIN dir : x # key => d[x] = dir[x]
LEMMA LineWritten ==
  ASSUME CallsInv, NEW f \in Nat \ {0}, NEW k \in DOMAIN doc, f <= k, NEW dir, NEW key,
         NEW len, len = Len(doc[k].words),
         len \in LengthsIn(f, k - 1) => key \in DOMAIN dir /\ dir[key] = LinesAt(PlacesOf(len, f, k - 1))
  PROVE  Extended(dir, key, WritePhrase(dir, key, f, k, Line(doc[k])), LinesAt(PlacesOf(len, f, k)))
<1> DEFINE met == \E j \in f..(k - 1) : FileOf(f, j) = FileOf(f, k)
           P == PlacesOf(len, f, k - 1)
           v == IF met THEN Append(dir[key], Line(doc[k])) ELSE <<Line(doc[k])>>
           l == Line(doc[k])
<1>1. k \in Nat /\ k - 1 \in Int /\ k - 1 <= Len(doc) /\ Len(doc) \in Nat /\ (k - 1) + 1 = k /\ f <= (k - 1) + 1
      /\ k - 1 <= k
  BY DocIs
<1>2. Line(Line(doc[k])) = Line(doc[k])
  BY LinesAreOf
<1>3. WritePhrase(dir, key, f, k, Line(doc[k])) = Put(dir, key, v)
  BY <1>2 DEF WritePhrase
<1>4. met <=> len \in LengthsIn(f, k - 1)
  BY DEF FileOf, LengthsIn
<1>5. PlacesOf(len, f, k) = P \cup {k} /\ P \in SUBSET DOMAIN doc /\ \A x \in P : x < k
  <2>1. Neighbours(f, k - 1, k)
    BY <1>1, PlacesJoined
  <2>2. PlacesOf(len, k, k) = {k}
    BY <1>1, LengthOccurs
  <2>3. PlacesOf(len, f, k) = P \cup PlacesOf(len, k, k) /\ \A x \in P, y \in PlacesOf(len, k, k) : x < y
    BY <1>1, <2>1 DEF Neighbours
  <2>4. P \in SUBSET DOMAIN doc
    <3>1. \A x \in f..(k - 1) : x \in DOMAIN doc
      BY <1>1, DocIs
    <3> QED
      BY <3>1 DEF PlacesOf
  <2> QED
    BY <2>2, <2>3, <2>4
<1>6. LinesAt(P \cup {k}) = LinesAt(P) \o <<l>>
  <2> DEFINE Q == {k}
  <2>1. Q \in SUBSET DOMAIN doc /\ \A x \in P, y \in Q : x < y
    BY <1>5
  <2>2. LinesAt(Q) = <<l>>
    BY LinesFew
  <2> HIDE DEF P, Q, l
  <2>3. LinesAt(P \cup Q) = LinesAt(P) \o LinesAt(Q)
    BY <1>5, <2>1, LinesJoined
  <2> QED
    BY <2>2, <2>3 DEF Q
<1>7. LinesAt(P) \in Seq(Lines) /\ (P = {} => LinesAt(P) = <<>>) /\ l \in Lines
  <2>1. LinesAt(P) \in Seq(Lines)
    <3> HIDE DEF P
    <3> QED
      BY <1>5, LinesAtAre
  <2> QED
    BY <2>1, LinesFew DEF Lines
<1> HIDE DEF l
<1>8. v = LinesAt(PlacesOf(len, f, k))
  <2>1. CASE met
    <3>1. v = Append(LinesAt(P), l)
      BY <1>4, <2>1 DEF l
    <3> DEFINE C == Lines
               s == LinesAt(P)
    <3>2. s \in Seq(C) /\ l \in C
      BY <1>7
    <3> HIDE DEF C, s
    <3>3. Append(s, l) = s \o <<l>>
      BY <3>2
    <3> HIDE DEF v, P
    <3> QED
      BY <1>5, <1>6, <3>1, <3>3 DEF s
  <2>2. CASE ~met
    <3>1. v = <<l>>
      BY <2>2 DEF l
    <3>2. P = {}
      BY <1>1, <1>4, <2>2, LengthOccurs
    <3>3. P \cup {k} = {k} /\ LinesAt({k}) = <<l>>
      BY <3>2, LinesFew DEF l
    <3> HIDE DEF v, P
    <3> QED
      BY <1>5, <3>1, <3>3
  <2> QED
    BY <2>1, <2>2
<1> DEFINE d == [x \in DOMAIN dir \cup {key} |-> IF x = key THEN v ELSE dir[x]]
<1> HIDE DEF v
<1>9. Put(dir, key, v) = d
  BY DEF Put
<1>10. Extended(dir, key, d, v)
  BY DEF Extended
<1> QED
  BY <1>3, <1>8, <1>9, <1>10

\* Of the other lengths there is nothing new.
LEMMA OtherLengths ==
  ASSUME CallsInv, NEW f \in Nat \ {0}, NEW k \in DOMAIN doc, f <= k, NEW len, len # Len(doc[k].words)
  PROVE  PlacesOf(len, f, k) = PlacesOf(len, f, k - 1) /\ (len \in LengthsIn(f, k) => len \in LengthsIn(f, k - 1))
<1>1. k \in Nat /\ k - 1 \in Int /\ (k - 1) + 1 = k /\ f <= (k - 1) + 1 /\ k - 1 <= k
  BY DocIs
<1>2. Neighbours(f, k - 1, k)
  BY <1>1, PlacesJoined
<1>3. PlacesOf(len, k, k) = {} /\ LengthsIn(k, k) = {Len(doc[k].words)}
  BY <1>1, LengthOccurs
<1> QED
  BY <1>1, <1>2, <1>3 DEF Neighbours

\* The files of the whole document.
LEMMA ExpectedAre ==
  ASSUME CallsInv
  PROVE  /\ LengthsIn(1, Len(doc)) = LengthsOfDoc
         /\ ExpectedFiles = [len \in LengthsOfDoc |-> LinesAt(PlacesOf(len, 1, Len(doc)))]
<1>1. DOMAIN doc = 1..Len(doc)
  BY DocIs
<1>2. LengthsIn(1, Len(doc)) = LengthsOfDoc
  BY <1>1 DEF LengthsIn, LengthsOfDoc
<1>3. \A len : PlacesOf(len, 1, Len(doc)) = {k \in DOMAIN doc : Len(doc[k].words) = len}
  BY <1>1 DEF PlacesOf
<1> DEFINE P(len) == {k \in DOMAIN doc : Len(doc[k].words) = len}
<1>4. ExpectedFiles = [len \in LengthsOfDoc |->
                         [j \in DOMAIN Ascending(P(len)) |-> Line(doc[Ascending(P(len))[j]])]]
  BY DEF ExpectedFiles
<1>5. \A len : LinesAt(P(len)) = [j \in DOMAIN Ascending(P(len)) |-> Line(doc[Ascending(P(len))[j]])]
  BY DEF LinesAt
<1>6. \A len : PlacesOf(len, 1, Len(doc)) = P(len)
  BY <1>3
<1> HIDE DEF P
<1> QED
  BY <1>2, <1>4, <1>5, <1>6

\* The part files of one length, joined.
LEMMA PartsJoined ==
  ASSUME CallsInv, PlacesInv, NEW E, Ends(E), NEW len, NEW q \in Seq(Seq(Lines)), Len(q) = Len(chunks),
         \A k \in Parts : q[k] = LinesAt(PlacesOf(len, chunks[k].first, chunks[k].last))
  PROVE  FlattenSeq(q) = LinesAt(PlacesOf(len, 1, Len(doc)))
<1> DEFINE n == Len(chunks)
           C == Lines
<1>1. n \in Nat /\ Parts = 1..n /\ Len(doc) \in Nat
  BY DocIs DEF PlacesInv, Parts
<1>2. /\ E \in [0..n -> 0..Len(doc)] /\ E[0] = 0 /\ E[n] = Len(doc)
      /\ \A k \in 1..n : chunks[k].first = E[k - 1] + 1 /\ chunks[k].last = E[k] /\ E[k - 1] <= E[k]
  BY DEF Ends
<1>3. PICK F : Flattens(F, C, q) /\ FlattenSeq(q) = F[n]
  <2> HIDE DEF C
  <2>1. q \in Seq(Seq(C)) /\ Len(q) = n
    BY DEF C
  <2> QED
    BY <2>1, FlattenIs
<1>4. F[0] = <<>> /\ \A k \in 1..n : F[k] = F[k - 1] \o q[k]
  BY <1>3 DEF Flattens
<1> HIDE DEF n, C
<1> DEFINE K == {k \in 0..n : F[k] = LinesAt(PlacesOf(len, 1, E[k]))}
<1>5. 0 \in K
  <2>1. PlacesOf(len, 1, 0) = {}
    BY LengthOccurs
  <2>2. LinesAt(PlacesOf(len, 1, 0)) = <<>>
    BY <2>1, LinesFew
  <2> QED
    BY <1>1, <1>2, <1>4, <2>2
<1>6. ASSUME NEW k \in 1..n, k - 1 \in K PROVE k \in K
  <2> DEFINE e == E[k - 1]
             g == E[k]
             P == PlacesOf(len, 1, e)
             Q == PlacesOf(len, e + 1, g)
  <2>1. k \in 0..n /\ k - 1 \in 0..n
    BY <1>1
  <2>2. e \in 0..Len(doc) /\ g \in 0..Len(doc) /\ e <= g
    BY <1>2, <2>1
  <2>3. q[k] = LinesAt(Q) /\ F[k - 1] = LinesAt(P) /\ F[k] = F[k - 1] \o q[k]
    BY <1>1, <1>2, <1>4, <1>6
  <2> HIDE DEF K
  <2>4. PlacesOf(len, 1, g) = P \cup Q /\ \A x \in P, y \in Q : x < y
    <3> HIDE DEF e, g
    <3>1. e \in Int /\ g \in Int /\ 1 <= e + 1 /\ e <= g
      BY <1>1, <2>2
    <3> DEFINE f == 1
    <3>2. f \in Int /\ f <= e + 1
      BY <3>1
    <3> HIDE DEF f
    <3>3. Neighbours(f, e, g)
      BY <3>1, <3>2, PlacesJoined
    <3> QED
      BY <3>3 DEF Neighbours, f
  <2>5. P \in SUBSET DOMAIN doc /\ Q \in SUBSET DOMAIN doc
    <3> HIDE DEF e, g
    <3>1. DOMAIN doc = 1..Len(doc)
      BY DocIs
    <3>2. 1..e \in SUBSET DOMAIN doc /\ (e + 1)..g \in SUBSET DOMAIN doc
      BY <1>1, <2>2, <3>1
    <3> QED
      BY <3>2 DEF PlacesOf
  <2>6. LinesAt(P \cup Q) = LinesAt(P) \o LinesAt(Q)
    <3> HIDE DEF P, Q
    <3> QED
      BY <2>4, <2>5, LinesJoined
  <2>7. F[k] = LinesAt(PlacesOf(len, 1, g))
    <3> HIDE DEF P, Q, g
    <3> QED
      BY <2>3, <2>4, <2>6
  <2> QED
    BY <2>1, <2>7 DEF K
<1> HIDE DEF K
<1>7. n \in K
  <2>1. \A k \in 0..n : k \in K
    BY <1>1, <1>5, <1>6, UpTo
  <2> QED
    BY <1>1, <2>1
<1> QED
  BY <1>2, <1>3, <1>7 DEF K

\* merge_part_files for one length, when the part files are those of this analysis.
PartLinesOf(len, k) == IF <<k, len>> \in DOMAIN tmp THEN tmp[<<k, len>>] ELSE <<>>
LEMMA LengthMerged ==
  ASSUME CallsInv, PlacesInv, PartLines, pc = "merge", ~leftovers, NEW E, Ends(E), NEW len,
         \A k \in Parts : at[k] = chunks[k].last + 1
  PROVE  FlattenSeq([k \in Parts |-> PartLinesOf(len, k)]) = LinesAt(PlacesOf(len, 1, Len(doc)))
<1> DEFINE n == Len(chunks)
           q == [k \in Parts |-> PartLinesOf(len, k)]
           L(k) == LinesAt(PlacesOf(len, chunks[k].first, chunks[k].last))
<1>1. n \in Nat /\ Parts = 1..n /\ Len(doc) \in Nat
  BY DocIs DEF PlacesInv, Parts
<1>2. \A k \in Parts : chunks[k].first \in 1..(Len(doc) + 1) /\ chunks[k].last \in 0..Len(doc)
  BY DEF PlacesInv
<1>3. \A k \in Parts : at[k] - 1 = chunks[k].last
  BY <1>1, <1>2
<1>4. /\ \A k \in Parts : \A y \in LengthsIn(chunks[k].first, chunks[k].last) :
           /\ <<k, y>> \in DOMAIN tmp
           /\ tmp[<<k, y>>] = LinesAt(PlacesOf(y, chunks[k].first, chunks[k].last))
      /\ \A key \in DOMAIN tmp :
           \E k \in Parts : \E y \in LengthsIn(chunks[k].first, chunks[k].last) : key = <<k, y>>
  BY <1>3 DEF PartLines
<1>5. ASSUME NEW k \in Parts PROVE PartLinesOf(len, k) = L(k) /\ L(k) \in Seq(Lines)
  <2> DEFINE f == chunks[k].first
             e == chunks[k].last
             P == PlacesOf(len, f, e)
  <2>1. f \in Int /\ e \in Int
    BY <1>1, <1>2
  <2>2. P \in SUBSET DOMAIN doc
    <3>1. f..e \in SUBSET DOMAIN doc
      BY <1>1, <1>2, DocIs
    <3> QED
      BY <3>1 DEF PlacesOf
  <2>3. LinesAt(P) \in Seq(Lines)
    <3> HIDE DEF P
    <3> QED
      BY <2>2, LinesAtAre
  <2>4. CASE len \in LengthsIn(f, e)
    BY <1>4, <2>3, <2>4 DEF PartLinesOf
  <2>5. CASE len \notin LengthsIn(f, e)
    <3>1. <<k, len>> \notin DOMAIN tmp
      BY <1>4, <2>5
    <3>2. P = {}
      <4> HIDE DEF f, e
      <4> QED
        BY <2>1, <2>5, LengthOccurs
    <3>3. LinesAt(P) = <<>>
      BY <3>2, LinesFew
    <3> QED
      BY <2>3, <3>1, <3>3 DEF PartLinesOf
  <2> QED
    BY <2>4, <2>5
<1>6. q \in Seq(Seq(Lines)) /\ Len(q) = n /\ \A k \in Parts : q[k] = L(k)
  <2> DEFINE X == Seq(Lines)
  <2>1. \A k \in Parts : PartLinesOf(len, k) \in X /\ PartLinesOf(len, k) = L(k)
    BY <1>5
  <2> HIDE DEF X, n, L
  <2> QED
    BY <1>1, <2>1 DEF X
<1> HIDE DEF q
<1>7. FlattenSeq(q) = LinesAt(PlacesOf(len, 1, Len(doc)))
  BY <1>6, PartsJoined
<1> QED
  BY <1>7 DEF q

\* No part file is empty then, so all of them are copied, to their ends.
LEMMA MergedWhole ==
  ASSUME DataInv, PartLines, pc = "merge", ~leftovers, NEW len
  PROVE  Merged(len, AllOf(len)) = FlattenSeq([k \in Parts |-> PartLinesOf(len, k)])
<1>1. CallsInv /\ PlacesInv /\ Len(doc) \in Nat /\ DOMAIN doc = 1..Len(doc)
  BY DocIs DEF DataInv
<1>2. ASSUME NEW key \in DOMAIN tmp PROVE tmp[key] # <<>>
  <2>1. PICK k \in Parts : \E y \in LengthsIn(chunks[k].first, at[k] - 1) : key = <<k, y>>
    BY DEF PartLines
  <2>2. PICK y \in LengthsIn(chunks[k].first, at[k] - 1) : key = <<k, y>>
    BY <2>1
  <2> DEFINE f == chunks[k].first
             e == at[k] - 1
             P == PlacesOf(y, f, e)
  <2>3. tmp[key] = LinesAt(P)
    BY <2>2 DEF PartLines
  <2>4. f \in 1..(Len(doc) + 1) /\ e \in Int /\ e <= Len(doc)
    <3>1. /\ chunks[k].first \in 1..(Len(doc) + 1) /\ chunks[k].last \in 0..Len(doc)
          /\ at[k] \in chunks[k].first..(chunks[k].last + 1)
      BY <1>1 DEF PlacesInv
    <3> QED
      BY <1>1, <3>1
  <2>5. y \in LengthsIn(f, e)
    BY <2>2
  <2> HIDE DEF f, e
  <2>6. P # {}
    BY <1>1, <2>4, <2>5, LengthOccurs
  <2>7. P \in SUBSET DOMAIN doc
    <3>1. f..e \in SUBSET DOMAIN doc
      BY <1>1, <2>4
    <3> QED
      BY <3>1 DEF PlacesOf
  <2> HIDE DEF P
  <2>8. IsFiniteSet(P) /\ Len(LinesAt(P)) = Cardinality(P)
    BY <1>1, <2>7, LinesAtAre
  <2>9. Cardinality(P) # 0
    BY <2>6, <2>8, FS_EmptySet
  <2> QED
    BY <2>3, <2>8, <2>9
<1>3. \A k \in Parts : k \in Copied(len) <=> <<k, len>> \in DOMAIN tmp
  BY <1>2 DEF Copied
<1> DEFINE part(k) == IF k \in DOMAIN AllOf(len) THEN CutShort(tmp[<<k, len>>], AllOf(len)[k]) ELSE <<>>
<1>4. ASSUME NEW k \in Parts PROVE part(k) = PartLinesOf(len, k)
  <2>1. CASE <<k, len>> \in DOMAIN tmp
    <3>1. k \in DOMAIN AllOf(len) /\ AllOf(len)[k] = 2 * Len(tmp[<<k, len>>])
      BY <1>3, <2>1, AllOfIs
    <3>2. Len(tmp[<<k, len>>]) \in Nat
      BY <2>1, LinesAreCounted
    <3>3. CutShort(tmp[<<k, len>>], AllOf(len)[k]) = tmp[<<k, len>>]
      BY <3>1, <3>2 DEF CutShort
    <3> QED
      BY <2>1, <3>1, <3>3 DEF PartLinesOf
  <2>2. CASE <<k, len>> \notin DOMAIN tmp
    <3>1. k \notin DOMAIN AllOf(len)
      BY <1>3, <2>2, AllOfIs
    <3> QED
      BY <2>2, <3>1 DEF PartLinesOf
  <2> QED
    BY <2>1, <2>2
<1>5. Merged(len, AllOf(len)) = FlattenSeq([k \in Parts |-> part(k)])
  BY DEF Merged
<1> HIDE DEF part
<1>6. [k \in Parts |-> part(k)] = [k \in Parts |-> PartLinesOf(len, k)]
  BY <1>4
<1> QED
  BY <1>5, <1>6

\* What is said of the document stays while it does.
LEMMA SameDocument ==
  ASSUME doc' = doc
  PROVE  /\ \A f, e : LengthsIn(f, e)' = LengthsIn(f, e)
         /\ \A len, f, e : PlacesOf(len, f, e)' = PlacesOf(len, f, e)
         /\ \A P : LinesAt(P)' = LinesAt(P)
         /\ \A s, f, e : Gathered(s, f, e)' <=> Gathered(s, f, e)
         /\ \A l : LongestAreReported(l)' <=> LongestAreReported(l)
         /\ ExpectedFiles' = ExpectedFiles /\ ExpectedCounts' = ExpectedCounts /\ LengthsOfDoc' = LengthsOfDoc
<1>1. \A f, e : LengthsIn(f, e)' = LengthsIn(f, e)
  BY DEF LengthsIn
<1>2. \A len, f, e : PlacesOf(len, f, e)' = PlacesOf(len, f, e)
  BY DEF PlacesOf
<1>3. \A P : LinesAt(P)' = LinesAt(P)
  BY DEF LinesAt
<1>4. \A f, e : OccurrencesIn(f, e)' = OccurrencesIn(f, e)
  BY DEF OccurrencesIn
<1>5. \A f, e : CountsOf(f, e)' = CountsOf(f, e)
  BY <1>1, <1>2 DEF CountsOf
<1>6. \A s, f, e : Gathered(s, f, e)' <=> Gathered(s, f, e)
  BY <1>4, <1>5 DEF Gathered
<1>7. WordsOfDoc' = WordsOfDoc /\ \A w : Offsets(w)' = Offsets(w)
  BY DEF WordsOfDoc, Offsets
<1>8. \A l : LongestAreReported(l)' <=> LongestAreReported(l)
  BY <1>7 DEF LongestAreReported
<1>9. ExpectedFiles' = ExpectedFiles /\ ExpectedCounts' = ExpectedCounts /\ LengthsOfDoc' = LengthsOfDoc
  BY DEF ExpectedFiles, ExpectedCounts, LengthsOfDoc
<1> QED
  BY <1>1, <1>2, <1>3, <1>6, <1>8, <1>9

\* A new analysis has gathered and written nothing.
LEMMA AnalyzeMatches ==
  ASSUME DocInv, DataInv, NEW n \in ThreadCounts, Analyze(n), doc' = doc, closed' = closed, tail' = tail
  PROVE  AllMatch'
<1>1. /\ tmp' = tmp /\ files' = files /\ leftovers' = (tmp # NoFiles) /\ outcome' = "none" /\ pc' \in {"parts", "single"}
      /\ over' = {}
      /\ DOMAIN partStats' = DOMAIN chunks' /\ \A k \in DOMAIN chunks' : partStats'[k] = NoStats
      /\ \A k \in DOMAIN chunks' : at'[k] = chunks'[k].first
      /\ pc' = "single" => chunks' = <<[first |-> 1, last |-> Len(doc)]>>
  BY DEF Analyze
<1>2. DataInv'
  BY AnalyzeKeeps
<1>3. /\ CallsInv' /\ Len(doc) \in Nat
      /\ pc' = "single" => 1 \in DOMAIN chunks' /\ chunks'[1].first = 1 /\ chunks'[1].last = Len(doc)
      /\ \A k \in DOMAIN chunks' : chunks'[k].first \in 1..(Len(doc) + 1)
  BY <1>1, <1>2, DocIs DEF DataInv, PlacesInv, Parts
<1>4. \A k \in DOMAIN chunks' : /\ chunks'[k].first \in Int /\ at'[k] - 1 \in Int /\ at'[k] - 1 < chunks'[k].first
  BY <1>1, <1>3
<1>5. \A k \in DOMAIN chunks' : Gathered(partStats'[k], chunks'[k].first, at'[k] - 1)
  <2> SUFFICES ASSUME NEW k \in DOMAIN chunks' PROVE Gathered(partStats'[k], chunks'[k].first, at'[k] - 1)
    OBVIOUS
  <2> DEFINE f == chunks'[k].first
             e == at'[k] - 1
  <2>1. f \in Int /\ e \in Int /\ e < f /\ partStats'[k] = NoStats
    BY <1>1, <1>4
  <2> HIDE DEF f, e
  <2>2. Gathered(NoStats, f, e)
    BY <2>1, GatheredNone DEF DataInv
  <2> QED
    BY <2>1, <2>2 DEF f, e
<1>6. \A k \in DOMAIN chunks' : LengthsIn(chunks'[k].first, at'[k] - 1) = {}
  <2> SUFFICES ASSUME NEW k \in DOMAIN chunks' PROVE LengthsIn(chunks'[k].first, at'[k] - 1) = {}
    OBVIOUS
  <2> DEFINE f == chunks'[k].first
             e == at'[k] - 1
  <2>1. f \in Int /\ e \in Int /\ e < f
    BY <1>4
  <2> HIDE DEF f, e
  <2>2. LengthsIn(f, e) = {}
    BY <2>1, LengthOccurs
  <2> QED
    BY <2>2 DEF f, e
<1>7. StatsInv'
  BY <1>1, <1>5, SameDocument DEF StatsInv, Parts
<1>8. SingleLines'
  BY <1>1, <1>3, <1>6, SameDocument DEF SingleLines
<1>9. ~leftovers' => DOMAIN tmp' = {}
  BY <1>1 DEF NoFiles
<1>10. PartLines'
  BY <1>1, <1>6, <1>9, SameDocument DEF PartLines, Parts
<1>11. MergedLines' /\ OverInv'
  BY <1>1 DEF MergedLines, OverInv
<1> QED
  BY <1>7, <1>8, <1>10, <1>11 DEF AllMatch

\* One phrase of the only part.
LEMMA SinglePhraseMatches ==
  ASSUME AnalyzerInv, DataInv, AllMatch, SinglePhrase, doc' = doc
  PROVE  AllMatch'
<1> DEFINE x == at[1]
           p == Line(doc[x])
           len == Len(doc[x].words)
           d == WritePhrase(files, len, 1, x, p)
<1>1. /\ pc = "single" /\ pc' = "single" /\ Working(1) /\ at' = [at EXCEPT ![1] = x + 1]
      /\ partStats' = [partStats EXCEPT ![1] = AddPhrase(partStats[1], NextPhrase(1))]
      /\ files' = WritePhrase(files, FileOf(1, x), 1, x, NextPhrase(1))
      /\ chunks' = chunks /\ outcome' = outcome
  BY DEF SinglePhrase
<1>2. /\ CallsInv /\ PlacesInv /\ 1 \in Parts /\ chunks[1].first = 1 /\ DOMAIN at = Parts /\ DOMAIN partStats = Parts
      /\ x \in 1..(chunks[1].last + 1)
  BY <1>1 DEF DataInv, PlacesInv
<1>3. x \in DOMAIN doc /\ NextPhrase(1) = p
  BY <1>1, <1>2, NextIs
<1>4. Parts = {1} /\ Parts' = Parts
  <2>1. Len(chunks) = 1 /\ Parts = 1..Len(chunks)
    BY <1>1 DEF AnalyzerInv, PhaseInv, DataInv, PlacesInv, Parts
  <2> QED
    BY <1>1, <2>1 DEF Parts
<1>5. x \in Nat /\ 1 <= x /\ (x + 1) - 1 = x /\ outcome # "ok"
  <2>1. outcome # "ok"
    BY <1>1 DEF AnalyzerInv, PhaseInv
  <2>2. x \in Nat /\ 1 <= x
    BY <1>2, <1>3, DocIs
  <2> HIDE DEF x
  <2> QED
    BY <2>1, <2>2
<1>6. at'[1] = x + 1 /\ partStats'[1] = AddPhrase(partStats[1], p) /\ files' = d
  BY <1>1, <1>2, <1>3 DEF FileOf
<1>7. Gathered(partStats[1], 1, x - 1)
  BY <1>1, <1>2 DEF AllMatch, StatsInv
<1>8. Gathered(AddPhrase(partStats[1], p), 1, x)
  <2> DEFINE f == 1
             s == partStats[1]
  <2>1. f \in Nat \ {0} /\ f <= x /\ Gathered(s, f, x - 1)
    BY <1>5, <1>7
  <2> HIDE DEF f, s, x
  <2>2. Gathered(AddPhrase(s, p), f, x)
    BY <1>2, <1>3, <2>1, GatheredMore
  <2> QED
    BY <2>2 DEF f, s
<1>9. /\ chunks[1].last = Len(doc)
      /\ \A y \in LengthsIn(1, x - 1) : y \in DOMAIN files /\ files[y] = LinesAt(PlacesOf(y, 1, x - 1))
  BY <1>1 DEF AllMatch, SingleLines
<1>10. Extended(files, len, d, LinesAt(PlacesOf(len, 1, x)))
  <2> DEFINE f == 1
             l == len
  <2>1. /\ f \in Nat \ {0} /\ f <= x /\ l = Len(doc[x].words)
        /\ l \in LengthsIn(f, x - 1) => l \in DOMAIN files /\ files[l] = LinesAt(PlacesOf(l, f, x - 1))
    BY <1>5, <1>9
  <2> HIDE DEF f, x, l
  <2>2. Extended(files, l, WritePhrase(files, l, f, x, Line(doc[x])), LinesAt(PlacesOf(l, f, x)))
    BY <1>2, <1>3, <2>1, LineWritten
  <2> QED
    BY <2>2 DEF f, l
<1> HIDE DEF d
<1>11. /\ d = [y \in DOMAIN d |-> d[y]] /\ DOMAIN d = DOMAIN files \cup {len}
       /\ d[len] = LinesAt(PlacesOf(len, 1, x)) /\ \A y \in DOMAIN files : y # len => d[y] = files[y]
  BY <1>10 DEF Extended
<1>12. ASSUME NEW y \in LengthsIn(1, x) PROVE y \in DOMAIN d /\ d[y] = LinesAt(PlacesOf(y, 1, x))
  <2>1. CASE y = len
    BY <1>11, <2>1
  <2>2. CASE y # len
    <3> DEFINE f == 1
    <3>1. f \in Nat \ {0} /\ f <= x /\ y \in LengthsIn(f, x) /\ y # Len(doc[x].words)
      BY <1>5, <2>2
    <3> HIDE DEF f, x
    <3>2. PlacesOf(y, f, x) = PlacesOf(y, f, x - 1) /\ y \in LengthsIn(f, x - 1)
      BY <1>2, <1>3, <3>1, OtherLengths
    <3> QED
      BY <1>9, <1>11, <2>2, <3>2 DEF f
  <2> QED
    BY <2>1, <2>2
<1> HIDE DEF x, p, len
<1>13. StatsInv'
  BY <1>1, <1>2, <1>4, <1>5, <1>6, <1>8, SameDocument DEF StatsInv
<1>14. SingleLines'
  BY <1>1, <1>5, <1>6, <1>9, <1>12, SameDocument DEF SingleLines
<1>15. PartLines'
  BY <1>1 DEF PartLines
<1>16. MergedLines' /\ OverInv'
  BY <1>1, <1>5 DEF MergedLines, OverInv
<1> QED
  BY <1>13, <1>14, <1>15, <1>16 DEF AllMatch

\* One phrase of a part.
LEMMA PartPhraseMatches ==
  ASSUME AnalyzerInv, DataInv, AllMatch, NEW k \in Parts, PartPhrase(k), doc' = doc
  PROVE  AllMatch'
<1> DEFINE x == at[k]
           f == chunks[k].first
           p == Line(doc[x])
           len == Len(doc[x].words)
           key == <<k, len>>
           d == WritePhrase(tmp, key, f, x, p)
           s == partStats[k]
<1>1. /\ pc = "parts" /\ pc' = "parts" /\ Working(k) /\ at' = [at EXCEPT ![k] = x + 1]
      /\ partStats' = [partStats EXCEPT ![k] = AddPhrase(s, NextPhrase(k))]
      /\ tmp' = WritePhrase(tmp, <<k, FileOf(f, x)>>, f, x, NextPhrase(k))
      /\ chunks' = chunks /\ outcome' = outcome /\ files' = files /\ leftovers' = leftovers
  BY DEF PartPhrase
<1>2. /\ CallsInv /\ PlacesInv /\ DOMAIN at = Parts /\ DOMAIN partStats = Parts
      /\ f \in 1..(Len(doc) + 1) /\ x \in f..(chunks[k].last + 1)
  BY <1>1 DEF DataInv, PlacesInv
<1>3. x \in DOMAIN doc /\ NextPhrase(k) = p
  BY <1>1, <1>2, NextIs
<1>4. Parts' = Parts
  BY <1>1 DEF Parts
<1>5. x \in Nat /\ f \in Nat \ {0} /\ f <= x /\ (x + 1) - 1 = x /\ outcome # "ok"
  <2>1. outcome # "ok"
    BY <1>1 DEF AnalyzerInv, PhaseInv
  <2>2. Len(doc) \in Nat /\ x \in 1..Len(doc)
    BY <1>2, <1>3, DocIs
  <2> HIDE DEF x, f
  <2> QED
    BY <1>2, <2>1, <2>2
<1>6. /\ at'[k] = x + 1 /\ partStats'[k] = AddPhrase(s, p) /\ tmp' = d
      /\ \A i \in Parts : i # k => at'[i] = at[i] /\ partStats'[i] = partStats[i]
  BY <1>1, <1>2, <1>3 DEF FileOf
<1>7. \A i \in Parts : Gathered(partStats[i], chunks[i].first, at[i] - 1)
  BY <1>1 DEF AllMatch, StatsInv
<1>8. Gathered(AddPhrase(s, p), f, x)
  <2>1. Gathered(s, f, x - 1)
    BY <1>7
  <2> HIDE DEF f, s, x
  <2> QED
    BY <1>2, <1>3, <1>5, <2>1, GatheredMore
<1>9. /\ \A i \in Parts : \A y \in LengthsIn(chunks[i].first, at[i] - 1) :
           <<i, y>> \in DOMAIN tmp /\ tmp[<<i, y>>] = LinesAt(PlacesOf(y, chunks[i].first, at[i] - 1))
      /\ ~leftovers => \A z \in DOMAIN tmp :
           \E i \in Parts : \E y \in LengthsIn(chunks[i].first, at[i] - 1) : z = <<i, y>>
  BY <1>1 DEF AllMatch, PartLines
<1>10. Extended(tmp, key, d, LinesAt(PlacesOf(len, f, x)))
  <2> DEFINE l == len
             c == key
  <2>1. /\ l = Len(doc[x].words)
        /\ l \in LengthsIn(f, x - 1) => c \in DOMAIN tmp /\ tmp[c] = LinesAt(PlacesOf(l, f, x - 1))
    BY <1>9
  <2> HIDE DEF f, x, l, c
  <2>2. Extended(tmp, c, WritePhrase(tmp, c, f, x, Line(doc[x])), LinesAt(PlacesOf(l, f, x)))
    BY <1>2, <1>3, <1>5, <2>1, LineWritten
  <2> QED
    BY <2>2 DEF l, c
<1> HIDE DEF d
<1>11. /\ DOMAIN d = DOMAIN tmp \cup {key}
       /\ d[key] = LinesAt(PlacesOf(len, f, x)) /\ \A z \in DOMAIN tmp : z # key => d[z] = tmp[z]
  BY <1>10 DEF Extended
<1>12. ASSUME NEW y \in LengthsIn(f, x) PROVE <<k, y>> \in DOMAIN d /\ d[<<k, y>>] = LinesAt(PlacesOf(y, f, x))
  <2>1. CASE y = len
    BY <1>11, <2>1
  <2>2. CASE y # len
    <3>1. PlacesOf(y, f, x) = PlacesOf(y, f, x - 1) /\ y \in LengthsIn(f, x - 1)
      <4>1. y # Len(doc[x].words)
        BY <2>2
      <4> HIDE DEF f, x
      <4> QED
        BY <1>2, <1>3, <1>5, <4>1, OtherLengths
    <3>2. <<k, y>> \in DOMAIN tmp /\ tmp[<<k, y>>] = LinesAt(PlacesOf(y, f, x - 1))
      BY <1>9, <3>1
    <3>3. <<k, y>> # key
      BY <2>2
    <3> HIDE DEF key
    <3> QED
      BY <1>11, <3>1, <3>2, <3>3
  <2> QED
    BY <2>1, <2>2
<1>13. \A i \in Parts : i # k => \A y \in LengthsIn(chunks[i].first, at[i] - 1) :
         <<i, y>> \in DOMAIN d /\ d[<<i, y>>] = LinesAt(PlacesOf(y, chunks[i].first, at[i] - 1))
  <2> SUFFICES ASSUME NEW i \in Parts, i # k, NEW y \in LengthsIn(chunks[i].first, at[i] - 1)
               PROVE  <<i, y>> \in DOMAIN d /\ d[<<i, y>>] = LinesAt(PlacesOf(y, chunks[i].first, at[i] - 1))
    OBVIOUS
  <2>1. <<i, y>> # key
    OBVIOUS
  <2>2. <<i, y>> \in DOMAIN tmp /\ tmp[<<i, y>>] = LinesAt(PlacesOf(y, chunks[i].first, at[i] - 1))
    BY <1>9
  <2> HIDE DEF key
  <2> QED
    BY <1>11, <2>1, <2>2
<1>14. LengthsIn(f, x) = LengthsIn(f, x - 1) \cup {len}
  <2>1. x - 1 \in Int /\ (x - 1) + 1 = x /\ f <= (x - 1) + 1 /\ x - 1 <= x /\ f \in Int /\ x \in Int
    BY <1>5
  <2> HIDE DEF f, x
  <2>2. Neighbours(f, x - 1, x)
    BY <2>1, PlacesJoined
  <2>3. LengthsIn(x, x) = {Len(doc[x].words)}
    BY <2>1, LengthOccurs
  <2> QED
    BY <2>1, <2>2, <2>3 DEF Neighbours
<1>15. ASSUME ~leftovers, NEW z \in DOMAIN d
       PROVE  \E i \in Parts : \E y \in LengthsIn(chunks[i].first, at'[i] - 1) : z = <<i, y>>
  <2>1. CASE z = key
    <3>1. len \in LengthsIn(chunks[k].first, at'[k] - 1)
      BY <1>5, <1>6, <1>14
    <3> QED
      BY <2>1, <3>1
  <2>2. CASE z # key
    <3>1. PICK i \in Parts : \E y \in LengthsIn(chunks[i].first, at[i] - 1) : z = <<i, y>>
      BY <1>9, <1>11, <1>15, <2>2
    <3>2. PICK y \in LengthsIn(chunks[i].first, at[i] - 1) : z = <<i, y>>
      BY <3>1
    <3>3. y \in LengthsIn(chunks[i].first, at'[i] - 1)
      <4>1. CASE i = k
        BY <1>5, <1>6, <1>14, <4>1
      <4>2. CASE i # k
        BY <1>6, <4>2
      <4> QED
        BY <4>1, <4>2
    <3> QED
      BY <3>2, <3>3
  <2> QED
    BY <2>1, <2>2
<1>16. \A i \in Parts : Gathered(partStats'[i], chunks[i].first, at'[i] - 1)
  <2> SUFFICES ASSUME NEW i \in Parts PROVE Gathered(partStats'[i], chunks[i].first, at'[i] - 1)
    OBVIOUS
  <2>1. CASE i = k
    BY <1>5, <1>6, <1>8, <2>1
  <2>2. CASE i # k
    BY <1>6, <1>7, <2>2
  <2> QED
    BY <2>1, <2>2
<1>17. \A i \in Parts : \A y \in LengthsIn(chunks[i].first, at'[i] - 1) :
         <<i, y>> \in DOMAIN d /\ d[<<i, y>>] = LinesAt(PlacesOf(y, chunks[i].first, at'[i] - 1))
  <2> SUFFICES ASSUME NEW i \in Parts, NEW y \in LengthsIn(chunks[i].first, at'[i] - 1)
               PROVE  <<i, y>> \in DOMAIN d /\ d[<<i, y>>] = LinesAt(PlacesOf(y, chunks[i].first, at'[i] - 1))
    OBVIOUS
  <2>1. CASE i = k
    BY <1>5, <1>6, <1>12, <2>1
  <2>2. CASE i # k
    BY <1>6, <1>13, <2>2
  <2> QED
    BY <2>1, <2>2
<1> HIDE DEF x, f, p, len, key, s
<1>18. StatsInv'
  BY <1>1, <1>4, <1>5, <1>16, SameDocument DEF StatsInv
<1>19. SingleLines'
  BY <1>1 DEF SingleLines
<1>20. PartLines'
  <2>1. \A i \in Parts : \A y \in LengthsIn(chunks'[i].first, at'[i] - 1) :
          <<i, y>> \in DOMAIN tmp' /\ tmp'[<<i, y>>] = LinesAt(PlacesOf(y, chunks'[i].first, at'[i] - 1))
    BY <1>1, <1>6, <1>17
  <2>2. ~leftovers' => \A z \in DOMAIN tmp' :
          \E i \in Parts : \E y \in LengthsIn(chunks'[i].first, at'[i] - 1) : z = <<i, y>>
    BY <1>1, <1>6, <1>15
  <2> QED
    BY <1>4, <2>1, <2>2, SameDocument DEF PartLines
<1>21. MergedLines'
  BY <1>1, <1>5 DEF MergedLines, AllMatch
<1>22. OverInv'
  <2>1. k \notin over /\ over' = over /\ failed' = failed /\ at' = [at EXCEPT ![k] = at[k] + 1]
    BY DEF PartPhrase
  <2>2. \A i \in over \ failed : i # k /\ at[i] = at'[i] /\ ~(at[i] <= chunks[i].last)
    BY <1>1, <2>1 DEF AllMatch, OverInv, Working
  <2> QED
    BY <1>1, <2>1, <2>2 DEF OverInv, Working
<1> QED
  BY <1>18, <1>19, <1>20, <1>21, <1>22 DEF AllMatch

\* The parts of an analysis in parts are a partition.
LEMMA PartsNow ==
  ASSUME AnalyzerInv, DataInv, pc \in {"parts", "merge"}, silent = 0
  PROVE  Partition(chunks, nThreads, Len(doc)) /\ InDocument(chunks) /\ \E E : Ends(E)
<1>1. DocInv /\ nThreads \in Nat /\ nThreads > 1 /\ Len(chunks) > 1 /\ Divided
  BY DEF AnalyzerInv, PhaseInv
<1>2. PICK whole, begun : /\ Scanned(whole, begun) /\ chunks = Boundaries(nThreads, whole, begun)
                          /\ whole = Len(doc)
  BY <1>1 DEF Divided
<1>3. Partition(chunks, nThreads, Len(doc)) /\ InDocument(chunks)
  BY <1>1, <1>2, BoundariesPartition
<1> QED
  BY <1>3, PartRanges DEF DataInv

\* The joins: all parts are done, their statistics are those of the document, and every length
\* has a part file.
LEMMA JoinMatches ==
  ASSUME AnalyzerInv, DataInv, AllMatch, silent = 0, JoinThreads, doc' = doc
  PROVE  AllMatch'
<1>1. /\ pc = "parts" /\ chunks' = chunks /\ at' = at /\ partStats' = partStats /\ tmp' = tmp /\ files' = files
      /\ leftovers' = leftovers /\ over = Parts
      /\ failed # {} => pc' = "idle" /\ outcome' = "failed"
      /\ failed = {} => /\ statistics' = Statistics(FoldLeft(Merge, NoStats, partStats)) /\ toMerge' = Lengths
                        /\ pc' = "merge" /\ outcome' = outcome
  BY DEF JoinThreads, Return
<1>2. CASE failed # {}
  BY <1>1, <1>2 DEF AllMatch, StatsInv, SingleLines, PartLines, MergedLines, OverInv
<1>3. CASE failed = {}
  <2>1. Parts' = Parts /\ outcome # "ok"
    BY <1>1 DEF Parts, AnalyzerInv, PhaseInv
  <2>2. CallsInv /\ PlacesInv /\ Partition(chunks, nThreads, Len(doc)) /\ InDocument(chunks)
    BY <1>1, PartsNow DEF DataInv
  <2>3. PICK E : Ends(E)
    BY <1>1, PartsNow
  <2>4. Len(doc) \in Nat /\ DOMAIN doc = 1..Len(doc)
    BY <2>2, DocIs
  <2>5. ASSUME NEW k \in Parts PROVE at[k] = chunks[k].last + 1 /\ at[k] - 1 = chunks[k].last
    <3>1. ~(at[k] <= chunks[k].last)
      BY <1>1, <1>3 DEF Working, AllMatch, OverInv
    <3>2. chunks[k].first \in 1..(Len(doc) + 1) /\ chunks[k].last \in 0..Len(doc) /\ at[k] \in chunks[k].first..(chunks[k].last + 1)
      BY <2>2 DEF PlacesInv
    <3> QED
      BY <2>4, <3>1, <3>2
  <2>6. \A k \in Parts : Gathered(partStats[k], chunks[k].first, chunks[k].last)
    <3>1. \A k \in Parts : Gathered(partStats[k], chunks[k].first, at[k] - 1)
      BY <1>1 DEF AllMatch, StatsInv
    <3> QED
      BY <2>5, <3>1
  <2> DEFINE s == FoldLeft(Merge, NoStats, partStats)
  <2>7. Gathered(s, 1, Len(doc))
    BY <2>2, <2>3, <2>6, GatheredAll
  <2> HIDE DEF s
  <2>8. s.counts = ExpectedCounts /\ LongestAreReported(Longest(s))
    BY <2>2, <2>7, LongestIs, WholeDocument DEF Gathered
  <2>9. statistics'[1].counts = ExpectedCounts /\ LongestAreReported(statistics'[1].longest)
    <3>1. statistics' = Statistics(s)
      BY <1>1, <1>3 DEF s
    <3> QED
      BY <2>8, <3>1 DEF Statistics
  <2>10. StatsInv'
    BY <1>1, <1>3, <2>9, SameDocument DEF StatsInv
  <2>11. SingleLines'
    BY <1>1, <1>3 DEF SingleLines
  <2>12. PartLines'
    BY <1>1, <2>1, SameDocument DEF PartLines, AllMatch
  <2>13. \A len \in LengthsOfDoc : len \in Lengths
    <3> SUFFICES ASSUME NEW len \in LengthsOfDoc PROVE len \in Lengths
      OBVIOUS
    <3>1. PICK x \in DOMAIN doc : len = Len(doc[x].words)
      BY DEF LengthsOfDoc
    <3>2. PICK k \in Parts : x \in chunks[k].first..chunks[k].last
      BY <2>2, <2>3, PartOf
    <3>3. len \in LengthsIn(chunks[k].first, at[k] - 1)
      BY <2>5, <3>1, <3>2 DEF LengthsIn
    <3>4. <<k, len>> \in DOMAIN tmp
      BY <1>1, <3>3 DEF AllMatch, PartLines
    <3> DEFINE key == <<k, len>>
    <3>5. key \in DOMAIN tmp /\ key[1] = k /\ key[2] = len
      BY <3>4
    <3> HIDE DEF key
    <3> QED
      BY <3>5 DEF Lengths
  <2>14. MergedLines' /\ OverInv'
    BY <1>1, <1>3, <2>1, <2>5, <2>13, SameDocument DEF MergedLines, AllMatch, OverInv
  <2> QED
    BY <2>10, <2>11, <2>12, <2>14 DEF AllMatch
<1> QED
  BY <1>2, <1>3

\* The part files of one length are merged.
LEMMA MergeMatches ==
  ASSUME AnalyzerInv, DataInv, AllMatch, silent = 0, silent' = 0, MergeLength, doc' = doc
  PROVE  AllMatch'
<1> DEFINE len == Min(toMerge)
           v == Merged(len, AllOf(len))
           d == [y \in DOMAIN files \cup {len} |-> IF y = len THEN v ELSE files[y]]
<1>1. /\ pc = "merge" /\ pc' = "merge" /\ toMerge' = toMerge \ {len} /\ chunks' = chunks /\ at' = at
      /\ tmp' = tmp /\ statistics' = statistics /\ outcome' = outcome /\ leftovers' = leftovers
      /\ files' = Put(files, len, v)
  <2>1. PICK w : files' = Put(files, len, Merged(len, w))
    BY DEF MergeLength
  <2>2. Unnoticed(IF files'[len] # v THEN 1 ELSE 0)
    BY DEF MergeLength
  <2>3. ~(files'[len] # v)
    BY <2>2 DEF Unnoticed
  <2>4. Merged(len, w) = v
    <3> HIDE DEF len, v
    <3>1. files'[len] = Merged(len, w)
      BY <2>1 DEF Put
    <3> QED
      BY <2>3, <3>1
  <2> HIDE DEF v
  <2> QED
    BY <2>1, <2>4 DEF MergeLength
<1>2. files' = d
  BY <1>1 DEF Put
<1>3. Parts' = Parts /\ outcome # "ok"
  BY <1>1 DEF Parts, AnalyzerInv, PhaseInv
<1>4. /\ CallsInv /\ PlacesInv /\ PartLines /\ \A k \in Parts : at[k] = chunks[k].last + 1
      /\ ~leftovers => \A y \in LengthsOfDoc \ toMerge : y \in DOMAIN files /\ files[y] = ExpectedFiles[y]
  BY <1>1 DEF DataInv, AllMatch, MergedLines
<1>5. PICK E : Ends(E)
  BY <1>1, PartsNow
<1> HIDE DEF len
<1>6. ASSUME ~leftovers, len \in LengthsOfDoc PROVE v = ExpectedFiles[len]
  <2>1. v = LinesAt(PlacesOf(len, 1, Len(doc)))
    BY <1>1, <1>4, <1>5, <1>6, LengthMerged, MergedWhole
  <2>2. ExpectedFiles = [y \in LengthsOfDoc |-> LinesAt(PlacesOf(y, 1, Len(doc)))]
    BY <1>4, ExpectedAre
  <2> HIDE DEF v
  <2> QED
    BY <1>6, <2>1, <2>2
<1>7. ASSUME ~leftovers, NEW y \in LengthsOfDoc, y \notin toMerge \ {len} PROVE y \in DOMAIN d /\ d[y] = ExpectedFiles[y]
  <2> HIDE DEF v
  <2> QED
    BY <1>4, <1>6, <1>7
<1>8. d = [y \in DOMAIN d |-> d[y]]
  OBVIOUS
<1> HIDE DEF d, v
<1>9. StatsInv'
  BY <1>1, <1>3, SameDocument DEF StatsInv, AllMatch
<1>10. SingleLines'
  BY <1>1 DEF SingleLines
<1>11. PartLines'
  BY <1>1, <1>3, <1>4, SameDocument DEF PartLines
<1>12. MergedLines' /\ OverInv'
  BY <1>1, <1>2, <1>3, <1>4, <1>7, <1>8, SameDocument DEF MergedLines, OverInv
<1> QED
  BY <1>9, <1>10, <1>11, <1>12 DEF AllMatch

\* The returns: all files are there, and no other.
LEMMA EndsMatch ==
  ASSUME AnalyzerInv, DataInv, AllMatch, AreFiles, silent = 0, silent' = 0, SingleEnds \/ MergeEnds,
         doc' = doc
  PROVE  AllMatch'
<1>1. pc' = "idle" /\ outcome' = "ok" /\ files' = files /\ leftovers' = leftovers
  <2>1. CASE SingleEnds
    <3>1. Unnoticed(IF files' # files \/ statistics' = <<>> THEN 1 ELSE 0)
      BY <2>1 DEF SingleEnds
    <3> QED
      BY <2>1, <3>1 DEF SingleEnds, Return, Unnoticed
  <2>2. CASE MergeEnds
    BY <2>2 DEF MergeEnds, Return
  <2> QED
    BY <2>1, <2>2
<1>2. CallsInv /\ PlacesInv /\ DOMAIN files \subseteq LengthsOfDoc /\ files = [len \in DOMAIN files |-> files[len]]
  BY DEF DataInv, FilesInv, AreFiles
<1>3. /\ LengthsIn(1, Len(doc)) = LengthsOfDoc
      /\ ExpectedFiles = [len \in LengthsOfDoc |-> LinesAt(PlacesOf(len, 1, Len(doc)))]
  BY <1>2, ExpectedAre
<1>4. /\ statistics'[1].counts = ExpectedCounts /\ LongestAreReported(statistics'[1].longest)
      /\ ~leftovers => \A len \in LengthsOfDoc : len \in DOMAIN files /\ files[len] = ExpectedFiles[len]
  <2>1. CASE SingleEnds
    <3>1. pc = "single" /\ ~Working(1) /\ statistics' = Statistics(partStats[1])
      <4>1. Unnoticed(IF files' # files \/ statistics' = <<>> THEN 1 ELSE 0)
        BY <2>1 DEF SingleEnds
      <4>2. statistics' # <<>>
        BY <4>1 DEF Unnoticed
      <4> QED
        BY <2>1, <4>2 DEF SingleEnds
    <3>2. 1 \in Parts /\ chunks[1].first = 1 /\ chunks[1].last = Len(doc) /\ at[1] \in 1..(Len(doc) + 1)
      BY <1>2, <3>1 DEF PlacesInv, AllMatch, SingleLines
    <3>3. at[1] - 1 = Len(doc)
      <4>1. ~(at[1] <= Len(doc)) /\ Len(doc) \in Nat
        BY <1>2, <3>1, <3>2, DocIs DEF Working
      <4> QED
        BY <3>2, <4>1
    <3> DEFINE s == partStats[1]
    <3>4. Gathered(s, 1, Len(doc))
      BY <3>1, <3>2, <3>3 DEF AllMatch, StatsInv
    <3> HIDE DEF s
    <3>5. s.counts = ExpectedCounts /\ LongestAreReported(Longest(s))
      BY <1>2, <3>4, LongestIs, WholeDocument DEF Gathered
    <3>6. statistics'[1].counts = ExpectedCounts /\ LongestAreReported(statistics'[1].longest)
      BY <3>1, <3>5 DEF Statistics, s
    <3>7. \A len \in LengthsOfDoc : len \in DOMAIN files /\ files[len] = LinesAt(PlacesOf(len, 1, Len(doc)))
      BY <1>3, <3>1, <3>3 DEF AllMatch, SingleLines
    <3>8. \A len \in LengthsOfDoc : files[len] = ExpectedFiles[len]
      BY <1>3, <3>7
    <3> QED
      BY <3>6, <3>7, <3>8
  <2>2. CASE MergeEnds
    <3>1. pc = "merge" /\ toMerge = {} /\ statistics' = statistics
      <4>1. Unnoticed(IF statistics' # statistics THEN 1 ELSE 0)
        BY <2>2 DEF MergeEnds
      <4> QED
        BY <2>2, <4>1 DEF MergeEnds, Unnoticed
    <3>2. statistics'[1].counts = ExpectedCounts /\ LongestAreReported(statistics'[1].longest)
      BY <3>1 DEF AllMatch, StatsInv
    <3>3. ~leftovers => \A len \in LengthsOfDoc \ toMerge : len \in DOMAIN files /\ files[len] = ExpectedFiles[len]
      BY <3>1 DEF AllMatch, MergedLines
    <3> QED
      BY <3>1, <3>2, <3>3
  <2> QED
    BY <2>1, <2>2
<1>5. ~leftovers => files = ExpectedFiles
  <2> SUFFICES ASSUME ~leftovers PROVE files = ExpectedFiles
    OBVIOUS
  <2>1. DOMAIN files = LengthsOfDoc /\ \A len \in LengthsOfDoc : files[len] = ExpectedFiles[len]
    BY <1>2, <1>4
  <2> DEFINE g == ExpectedFiles
  <2>2. g = [len \in LengthsOfDoc |-> g[len]]
    BY <1>3
  <2> HIDE DEF g
  <2>3. files = g
    <3>1. \A len \in LengthsOfDoc : files[len] = g[len]
      BY <2>1 DEF g
    <3>2. files = [len \in LengthsOfDoc |-> files[len]]
      BY <1>2, <2>1
    <3> QED
      BY <2>2, <3>1, <3>2
  <2> QED
    BY <2>3 DEF g
<1>6. StatsInv'
  BY <1>1, <1>4, SameDocument DEF StatsInv
<1>7. SingleLines' /\ PartLines' /\ OverInv'
  BY <1>1 DEF SingleLines, PartLines, OverInv
<1>8. MergedLines'
  BY <1>1, <1>2, <1>5, SameDocument DEF MergedLines
<1> QED
  BY <1>6, <1>7, <1>8 DEF AllMatch

\* The initial states satisfy the invariant.
LEMMA MatchInit == Init => MatchInv
<1> SUFFICES ASSUME Init PROVE MatchInv
  OBVIOUS
<1>1. pc = "idle" /\ outcome = "none" /\ files = NoFiles
  BY DEF Init
<1>2. AreFiles
  BY <1>1 DEF NoFiles, AreFiles
<1> QED
  BY <1>1, <1>2 DEF MatchInv, AllMatch, StatsInv, SingleLines, PartLines, MergedLines, OverInv

\* Whatever is written, the phrase files are files.
LEMMA StillFiles ==
  ASSUME AreFiles, [Next]_vars
  PROVE  AreFiles'
<1>1. \A f, k, v : Put(f, k, v) = [x \in DOMAIN Put(f, k, v) |-> Put(f, k, v)[x]]
  <2> SUFFICES ASSUME NEW f, NEW k, NEW v
               PROVE  Put(f, k, v) = [x \in DOMAIN Put(f, k, v) |-> Put(f, k, v)[x]]
    OBVIOUS
  <2> DEFINE D == DOMAIN f \cup {k}
             g == [x \in D |-> IF x = k THEN v ELSE f[x]]
  <2>1. Put(f, k, v) = g
    BY DEF Put
  <2>2. DOMAIN g = D /\ g = [x \in DOMAIN g |-> g[x]]
    OBVIOUS
  <2> HIDE DEF g
  <2> QED
    BY <2>1, <2>2
<1>2. \A f, w : Kept(f, w) = [x \in DOMAIN Kept(f, w) |-> Kept(f, w)[x]]
  <2> SUFFICES ASSUME NEW f, NEW w
               PROVE  Kept(f, w) = [x \in DOMAIN Kept(f, w) |-> Kept(f, w)[x]]
    OBVIOUS
  <2> DEFINE g == [x \in DOMAIN f |-> IF x \in DOMAIN w THEN CutShort(f[x], w[x]) ELSE f[x]]
  <2>1. Kept(f, w) = g
    BY DEF Kept
  <2>2. g = [x \in DOMAIN g |-> g[x]]
    OBVIOUS
  <2> HIDE DEF g
  <2> QED
    BY <2>1, <2>2
<1>3. \/ files' = files
      \/ \E k, v : files' = Put(files, k, v)
      \/ \E w : files' = Kept(files, w)
  <2>1. ASSUME NEW n \in ThreadCounts, Analyze(n) PROVE files' = files
    BY <2>1 DEF Analyze
  <2>2. CASE SinglePhrase
    <3>1. files' = WritePhrase(files, FileOf(1, at[1]), 1, at[1], NextPhrase(1))
      BY <2>2 DEF SinglePhrase
    <3> QED
      BY <3>1 DEF WritePhrase
  <2>3. CASE SingleEnds
    BY <2>3 DEF SingleEnds
  <2>4. CASE ParseError
    BY <2>4 DEF ParseError
  <2>5. ASSUME NEW k \in Parts, PartPhrase(k) \/ PartEnds(k) \/ PartFails(k) PROVE files' = files
    BY <2>5 DEF PartPhrase, PartEnds, PartFails, ThreadEnds
  <2>6. CASE JoinThreads \/ MergeEnds
    BY <2>6 DEF JoinThreads, MergeEnds
  <2>7. CASE MergeLength
    BY <2>7 DEF MergeLength
  <2>8. CASE AnalysisFails
    BY <2>8 DEF AnalysisFails, FailsInSingle, FailsInParts, FailsInMerge
  <2>9. CASE UNCHANGED vars
    BY <2>9 DEF vars
  <2> QED
    BY <2>1, <2>2, <2>3, <2>4, <2>5, <2>6, <2>7, <2>8, <2>9 DEF Next, NoMoreAnalyses
<1> QED
  BY <1>1, <1>2, <1>3 DEF AreFiles

\* A thread that ends, with an error or at the end of its part.
LEMMA ThreadMatches ==
  ASSUME AnalyzerInv, AllMatch, silent = 0, silent' = 0, NEW k \in Parts, PartEnds(k) \/ PartFails(k),
         doc' = doc
  PROVE  AllMatch'
<1>1. /\ pc = "parts" /\ pc' = pc /\ chunks' = chunks /\ at' = at /\ partStats' = partStats
      /\ files' = files /\ leftovers' = leftovers /\ outcome' = outcome /\ Parts' = Parts
      /\ outcome # "ok" /\ over' = over \cup {k}
  BY DEF PartEnds, PartFails, ThreadEnds, Parts, AnalyzerInv, PhaseInv
<1>2. tmp' = tmp /\ ((failed' = failed /\ ~Working(k)) \/ failed' = failed \cup {k})
  <2>1. CASE PartEnds(k)
    <3>1. Unnoticed(IF Working(k) \/ tmp' # tmp THEN 1 ELSE 0) /\ failed' = failed
      BY <2>1 DEF PartEnds
    <3> HIDE DEF Working
    <3> QED
      BY <3>1 DEF Unnoticed
  <2>2. CASE PartFails(k)
    <3>1. Unnoticed(IF tmp' # tmp THEN 1 ELSE 0) /\ failed' = failed \cup {k}
      BY <2>2 DEF PartFails
    <3> QED
      BY <3>1 DEF Unnoticed
  <2> QED
    BY <2>1, <2>2
<1>3. StatsInv' /\ SingleLines' /\ MergedLines'
  BY <1>1, SameDocument DEF AllMatch, StatsInv, SingleLines, MergedLines
<1>4. PartLines'
  BY <1>1, <1>2, SameDocument DEF AllMatch, PartLines
<1>5. OverInv'
  <2>1. \A i \in over \ failed : ~(at[i] <= chunks[i].last)
    BY <1>1 DEF AllMatch, OverInv, Working
  <2> QED
    BY <1>1, <1>2, <2>1 DEF OverInv, Working
<1> QED
  BY <1>3, <1>4, <1>5 DEF AllMatch

\* Every step preserves the invariant.
LEMMA MatchStep == AnalyzerInv /\ DataInv /\ MatchInv /\ [Next]_vars => MatchInv'
<1> SUFFICES ASSUME AnalyzerInv, DataInv, MatchInv, [Next]_vars PROVE MatchInv'
  OBVIOUS
<1>1. doc' = doc /\ closed' = closed /\ tail' = tail
  BY DEF Next, Analyze, SinglePhrase, SingleEnds, ParseError, PartPhrase, PartEnds, PartFails,
         ThreadEnds, JoinThreads, MergeLength, MergeEnds, AnalysisFails, NoMoreAnalyses, vars, results
<1>0. AreFiles /\ AreFiles' /\ silent \in 0..MaxSilent
  BY StillFiles DEF MatchInv, AnalyzerInv, PhaseInv
<1> SUFFICES ASSUME silent' = 0 PROVE AllMatch'
  BY <1>0 DEF MatchInv
<1>2. ASSUME NEW n \in ThreadCounts, Analyze(n) PROVE AllMatch'
  BY <1>1, <1>2, AnalyzeMatches DEF AnalyzerInv
<1>12. ASSUME \/ SinglePhrase \/ SingleEnds \/ ParseError \/ JoinThreads \/ MergeLength \/ MergeEnds
              \/ AnalysisFails \/ UNCHANGED vars
              \/ \E i \in Parts : PartPhrase(i) \/ PartEnds(i) \/ PartFails(i)
       PROVE  silent = 0 /\ AllMatch
  BY <1>0, <1>12, SilentGrows DEF MatchInv
<1>3. CASE SinglePhrase
  BY <1>1, <1>3, <1>12, SinglePhraseMatches
<1>4. CASE SingleEnds \/ MergeEnds
  BY <1>0, <1>1, <1>4, <1>12, EndsMatch
<1>5. CASE ParseError \/ AnalysisFails
  <2>1. pc' = "idle" /\ outcome' = "failed"
    BY <1>5 DEF ParseError, AnalysisFails, Return
  <2> QED
    BY <2>1 DEF AllMatch, StatsInv, SingleLines, PartLines, MergedLines, OverInv
<1>6. ASSUME NEW k \in Parts, PartPhrase(k) PROVE AllMatch'
  BY <1>1, <1>6, <1>12, PartPhraseMatches
<1>7. ASSUME NEW k \in Parts, PartEnds(k) \/ PartFails(k) PROVE AllMatch'
  BY <1>1, <1>7, <1>12, ThreadMatches
<1>8. CASE JoinThreads
  BY <1>1, <1>8, <1>12, JoinMatches
<1>9. CASE MergeLength
  BY <1>1, <1>9, <1>12, MergeMatches
<1>10. CASE UNCHANGED vars
  <2>1. /\ pc' = pc /\ chunks' = chunks /\ at' = at /\ partStats' = partStats /\ tmp' = tmp /\ files' = files
        /\ leftovers' = leftovers /\ outcome' = outcome /\ toMerge' = toMerge /\ statistics' = statistics
        /\ over' = over /\ failed' = failed /\ Parts' = Parts /\ AllMatch
    BY <1>10, <1>12 DEF vars, Parts
  <2>2. StatsInv'
    BY <1>1, <2>1, SameDocument DEF AllMatch, StatsInv
  <2>3. SingleLines'
    BY <1>1, <2>1, SameDocument DEF AllMatch, SingleLines
  <2>4. PartLines'
    BY <1>1, <2>1, SameDocument DEF AllMatch, PartLines
  <2>5. MergedLines'
    BY <1>1, <2>1, SameDocument DEF AllMatch, MergedLines
  <2>6. OverInv'
    BY <2>1 DEF AllMatch, OverInv, Working
  <2> QED
    BY <2>2, <2>3, <2>4, <2>5, <2>6 DEF AllMatch
<1> QED
  BY <1>2, <1>3, <1>4, <1>5, <1>6, <1>7, <1>8, <1>9, <1>10 DEF Next, NoMoreAnalyses

\* tests/test_analyze_results.cpp:633: an analysis that returns, and of which no failure went
\* unnoticed, has written the statistics and, when no earlier one has left parts behind, the
\* files that results.json has in it, whatever the number of threads, the order of their steps
\* and the analyses before, even those that lost something.
THEOREM MatchesSerialHolds == Spec => []MatchesSerial
<1>1. MatchInv => MatchesSerial
  BY DEF MatchInv, AllMatch, StatsInv, MergedLines, MatchesSerial
<1> QED
  BY <1>1, AnalyzerInvariance, DataInit, DataStep, MatchInit, MatchStep, PTL DEF Spec
=============================================================================
