\* No failures; the stop file may appear at any time.
CONSTANTS
  Feeders = {f1, f2}
  Mappers = {m1}
  Finders = {w1}
  Scanners = {s1}
  DigitQCapacity = 1
  LetterQCapacity = 1
  ComboQCapacity = 1
  PhraseQCapacity = 1
  NumChunks = 3
  Chains <- MCChains
  Faults <- MCNoFaults
SPECIFICATION Spec
INVARIANT StopFileConsumed
