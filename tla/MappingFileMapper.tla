------------------------- MODULE MappingFileMapper -------------------------
(***************************************************************************)
(* MappingFileMapper (src/src/digit_mapper/MappingFileMapper.cpp): which   *)
(* mapping files it accepts, and the table it makes of them.               *)
(*                                                                         *)
(* A file is the sequence of its lines; comments and blank lines are left  *)
(* out.  A header has a key and a value, NoNumber where stoi finds none;   *)
(* an entry has a combo, which is a sequence of digits, and a character;   *)
(* any other line is a Malformed one.                                      *)
(***************************************************************************)
EXTENDS Integers, Sequences

NoNumber == -1
Malformed == [key |-> "malformed"]
Header(key, value) == [key |-> key, value |-> value]
Entry(combo, out) == [key |-> "entry", combo |-> combo, out |-> out]

LinesWith(f, key) == {i \in DOMAIN f : f[i].key = key}

\* The last header of a key counts.
LastOf(S) == CHOOSE i \in S : \A j \in S : j <= i
ValueOf(f, key) == f[LastOf(LinesWith(f, key))].value

\* A header is missing or out of its range, also one that is overridden later.
HeaderOK(f, key, range) ==
  LinesWith(f, key) # {} /\ \A i \in LinesWith(f, key) : f[i].value \in range

PowInt(base, exp) ==
  LET power[n \in Nat] == IF n = 0 THEN 1 ELSE base * power[n - 1] IN power[exp]

Value(combo, base) ==
  LET value[n \in 0..Len(combo)] == IF n = 0 THEN 0 ELSE value[n - 1] * base + combo[n]
  IN  value[Len(combo)]

EntryOK(line, dpc, base) ==
  /\ line # Malformed
  /\ Len(line.combo) = dpc
  /\ \A j \in DOMAIN line.combo : line.combo[j] < base

\* No combo twice: the constructor throws at the second one.
NoDuplicates(f) ==
  \A i, j \in LinesWith(f, "entry") : f[i].combo = f[j].combo => i = j

\* Every value of a combo has an entry.
NoneMissing(f, dpc, base) ==
  \A v \in 0..(PowInt(base, dpc) - 1) :
    \E i \in LinesWith(f, "entry") : Value(f[i].combo, base) = v

\* Mutant of Accepted: a combo without an entry keeps its '\0'.
AcceptedWithGaps(f) ==
  /\ HeaderOK(f, "digits_per_char", Nat \ {0}) /\ HeaderOK(f, "base", 2..10)
  /\ LET dpc == ValueOf(f, "digits_per_char")
         base == ValueOf(f, "base") IN
     /\ \A i \in LinesWith(f, "entry") \cup LinesWith(f, "malformed") : EntryOK(f[i], dpc, base)
     /\ NoDuplicates(f)

\* The constructor returns.
Accepted(f) ==
  /\ HeaderOK(f, "digits_per_char", Nat \ {0}) /\ HeaderOK(f, "base", 2..10)
  /\ LET dpc == ValueOf(f, "digits_per_char")
         base == ValueOf(f, "base") IN
     /\ \A i \in LinesWith(f, "entry") \cup LinesWith(f, "malformed") : EntryOK(f[i], dpc, base)
     /\ NoDuplicates(f)
     /\ NoneMissing(f, dpc, base)

\* table_ of a file that is accepted.
Table(f) ==
  [v \in 0..(PowInt(ValueOf(f, "base"), ValueOf(f, "digits_per_char")) - 1) |->
     LET i == CHOOSE i \in LinesWith(f, "entry") : Value(f[i].combo, ValueOf(f, "base")) = v
     IN  f[i].out]
=============================================================================
