\* Every text of up to five digits one by one, or five and six in pairs.
CONSTANTS
  Inputs <- MCInputs
  Files <- MCFiles
SPECIFICATION ScanSpec
INVARIANTS
  ScanTypeOK
  ChunkSizeInvisible
  EveryWordOnce
  SameLetters
  AllCombosLoseOnlyBoundaries
  OnePhrasePerChain
  EtlIsGreedy
