\* Three chunks through two feeders, one mapper, one finder and two scanners; reads
\* and the opening of the output may fail.
CONSTANTS
  Feeders = {f1, f2}
  Mappers = {m1}
  Finders = {w1}
  Scanners = {s1, s2}
  DigitQCapacity = 1
  LetterQCapacity = 1
  ComboQCapacity = 1
  PhraseQCapacity = 1
  NumChunks = 3
  Chains <- MCChains
  Faults <- MCFaults
SPECIFICATION FairSpec
INVARIANTS
  TypeOK
  NothingDropped
  WriterNeverThrows
  CompleteAtFinish
  StopIsPrompt
PROPERTIES
  EveryRunEnds
  ImplementsSequential
