----------------------------- MODULE GenMapping -----------------------------
(***************************************************************************)
(* gen_mapping (src/src/gen_mapping.cpp, src/src/gen_mapping/GenMapping.cpp): *)
(* every letter of a dictionary gets a share of the 10^digits combos in    *)
(* proportion to its frequency; the combos are dealt out in a random order *)
(* and written as a mapping file, for MappingFileMapper to read.           *)
(*                                                                         *)
(* A letter is represented by its place in the alphabet.                   *)
(***************************************************************************)
EXTENDS MappingFileMapper, FiniteSetsExt

CONSTANTS Invocations, \* [digits, lower, upper]: the argument, and how often a letter
                       \* occurs in the dictionary in either case
          OldFiles     \* what is at output_path before

ASSUME GenMappingAssumption ==
  \A x \in Invocations :
    /\ x.digits \in Nat \ {0} /\ DOMAIN x.lower = DOMAIN x.upper
    /\ DOMAIN x.lower \subseteq Nat /\ IsFiniteSet(DOMAIN x.lower)
    /\ \A c \in DOMAIN x.lower : x.lower[c] \in Nat /\ x.upper[c] \in Nat

VARIABLES gpc,        \* "allocate", "assign", "shuffle", "write", "done"
          freq,       \* freqs: letter -> count
          digits,     \* args.digits
          slots,      \* alloc.slots: letter -> number of combos
          chars,      \* the characters of `assignments`, combo by combo
          shuffled,   \* how many of them the shuffle is through with
          file,       \* the lines at output_path
          exit        \* "none"; "ok": main returned 0; "failed": 1; "killed"

mappingVars == <<gpc, freq, digits, slots, chars, shuffled, file, exit>>

SizeOver(f, S) == MapThenSumSet(LAMBDA c : f[c], S)
Size(f) == SizeOver(f, DOMAIN f)

\* count_char_frequencies: letters in either case, and nothing else.
Frequencies(text) ==
  LET count(c) == text.lower[c] + text.upper[c] IN
  [c \in {c \in DOMAIN text.lower : count(c) > 0} |-> count(c)]

MappingInit ==
  /\ gpc = "allocate"
  /\ \E x \in Invocations : freq = Frequencies(x) /\ digits = x.digits
  /\ slots = <<>> /\ chars = <<>> /\ shuffled = 0
  /\ file \in OldFiles /\ exit = "none"
-----------------------------------------------------------------------------
TotalSlots == PowInt(10, digits)
Remaining == TotalSlots - Cardinality(DOMAIN freq)

\* The share of a letter is Remaining * count / total, rounded down, and what is
\* lost in that, in units of 1 / total.
FloorShare(c) == (Remaining * freq[c]) \div Size(freq)
Remainder(c) == (Remaining * freq[c]) % Size(freq)

\* Mutant of Before: the sort is alphabetical.
BeforeByName(a, b) == a < b

\* The sort puts a before b.  Remainders are doubles: those of equal counts are
\* equal, and alphabetical; those of different counts that should be equal come
\* out of the division in either order.
Before(a, b) ==
  \/ Remainder(a) > Remainder(b)
  \/ Remainder(a) = Remainder(b) /\ (freq[a] = freq[b] => a < b)

Leftover == Remaining - Size([c \in DOMAIN freq |-> FloorShare(c)])

\* The first Leftover letters in the order of the sort get one more.
Lucky(S) ==
  /\ S \subseteq DOMAIN freq /\ Cardinality(S) = Leftover
  /\ \A a \in S, b \in DOMAIN freq \ S : Before(a, b)

AllocateSlots ==
  /\ gpc = "allocate" /\ Cardinality(DOMAIN freq) <= TotalSlots
  /\ \E S \in SUBSET DOMAIN freq :
       /\ DOMAIN freq # {} => Lucky(S)
       /\ slots' = [c \in DOMAIN freq |-> 1 + FloorShare(c) + IF c \in S THEN 1 ELSE 0]
  /\ gpc' = "assign"
  /\ UNCHANGED <<freq, digits, chars, shuffled, file, exit>>

\* std::invalid_argument: more letters than slots.
TooManyLetters ==
  /\ gpc = "allocate" /\ Cardinality(DOMAIN freq) > TotalSlots
  /\ gpc' = "done" /\ exit' = "failed"
  /\ UNCHANGED <<freq, digits, slots, chars, shuffled, file>>

\* assign_combos: letter by letter in alphabetical order.
Dealt ==
  [i \in 1..Size(slots) |->
     CHOOSE c \in DOMAIN slots :
       LET below == SizeOver(slots, {d \in DOMAIN slots : d < c})
       IN  below < i /\ i <= below + slots[c]]

AssignCombos ==
  /\ gpc = "assign"
  /\ chars' = Dealt /\ shuffled' = 1 /\ gpc' = "shuffle"
  /\ UNCHANGED <<freq, digits, slots, file, exit>>

Swap(i, j) == [chars EXCEPT ![i] = chars[j], ![j] = chars[i]]

\* std::shuffle: the next character changes places with one up to itself.
Shuffle ==
  /\ gpc = "shuffle" /\ shuffled < Len(chars)
  /\ \E j \in 1..(shuffled + 1) : chars' = Swap(shuffled + 1, j)
  /\ shuffled' = shuffled + 1
  /\ UNCHANGED <<gpc, freq, digits, slots, file, exit>>

ShuffleEnds ==
  /\ gpc = "shuffle" /\ shuffled >= Len(chars)
  /\ gpc' = "write"
  /\ UNCHANGED <<freq, digits, slots, chars, shuffled, file, exit>>

\* The index in decimal, zero-padded to `digits` places.
Combo(index) == [j \in 1..digits |-> (index \div PowInt(10, digits - j)) % 10]

Mapping ==
  <<Header("digits_per_char", digits), Header("base", 10)>>
    \o [i \in 1..Len(chars) |-> Entry(Combo(i - 1), chars[i])]

\* What may be left of a line that is cut off: without its '=' or its character it
\* is malformed, and a number loses its last figures.
CutOff(line) ==
  {Malformed} \cup
  IF line.key = "entry" THEN {}
  ELSE {Header(line.key, IF line.value < 10 THEN NoNumber ELSE line.value \div 10)}

\* What is at output_path after the first n lines of the mapping, and perhaps a
\* part of the next, have been written.
Written(n) ==
  {SubSeq(Mapping, 1, n)} \cup
  IF n = Len(Mapping) THEN {} ELSE {SubSeq(Mapping, 1, n) \o <<cut>> : cut \in CutOff(Mapping[n + 1])}

Exits(status) ==
  /\ exit' = status /\ gpc' = "done" /\ chars' = <<>> /\ shuffled' = 0
  /\ UNCHANGED <<freq, digits, slots>>

\* write_mapping_file: the file is truncated and written.
WriteMappingFile ==
  /\ gpc = "write"
  /\ file' = Mapping
  /\ Exits("ok")

OpenFails == gpc = "write" /\ UNCHANGED file /\ Exits("failed")

\* The process is killed while it writes, or the disk is full: the state of the
\* stream is not looked at, and main returns 0.
WriteStops ==
  /\ gpc = "write"
  /\ \E n \in 0..Len(Mapping) : file' \in Written(n)
  /\ \E status \in {"ok", "killed"} : Exits(status)

Done == gpc = "done" /\ UNCHANGED mappingVars

MappingNext ==
  \/ AllocateSlots \/ TooManyLetters \/ AssignCombos \/ Shuffle \/ ShuffleEnds
  \/ WriteMappingFile \/ OpenFails \/ WriteStops \/ Done

MappingSpec == MappingInit /\ [][MappingNext]_mappingVars
-----------------------------------------------------------------------------
\* allocate_slots (GenMapping.cpp:30): the shares use up the combos, every letter has
\* one, none is a whole combo away from its proportional share, and a letter that is
\* more frequent never gets fewer.  An empty dictionary has no letter to give them to.
FairShares ==
  gpc = "assign" /\ DOMAIN freq # {} =>
    /\ Size(slots) = TotalSlots
    /\ \A c \in DOMAIN freq :
         LET off == (slots[c] - 1) * Size(freq) - Remaining * freq[c] IN
         slots[c] >= 1 /\ -Size(freq) < off /\ off < Size(freq)
    /\ \A c, d \in DOMAIN freq : freq[c] > freq[d] => slots[c] >= slots[d]

\* README.md:290, "can be used directly": pi_poetry takes the file of a finished run
\* of a dictionary with letters in it, and every letter has its share of the table;
\* a file that was cut off is refused, whatever the program reported.
MappingIsUsable ==
  gpc = "done" /\ file \notin OldFiles /\ DOMAIN freq # {} =>
    /\ Accepted(file) = (Len(file) = 2 + TotalSlots /\ file[Len(file)] # Malformed)
    /\ Accepted(file) =>
         \A c \in DOMAIN freq :
           Cardinality({v \in DOMAIN Table(file) : Table(file)[v] = c}) = slots[c]
=============================================================================
