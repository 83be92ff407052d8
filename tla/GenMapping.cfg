\* Dictionaries of up to three letters (and one of eleven) on ten or a hundred combos.
CONSTANTS
  Invocations <- MCInvocations
  OldFiles <- MCOldFiles
SPECIFICATION MappingSpec
INVARIANTS
  FairShares
  MappingIsUsable
