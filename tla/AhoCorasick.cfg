\* Five dictionaries, every short text, two minimum word lengths.
CONSTANTS
  Alphabet <- MCAlphabet
  Other = "#"
  Dictionaries <- MCDictionaries
  Texts <- MCTexts
  MinWordLengths = {1, 2}
SPECIFICATION Spec
INVARIANTS
  TypeOK
  LinksAreLongestSuffixes
  MatchesAreExact
