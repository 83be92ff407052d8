\* Four chunks of one, three, two and one packages, arriving in every order.
CONSTANTS
  NumChunks = 4
  Size <- MCSize
SPECIFICATION Spec
INVARIANTS
  TypeOK
  WrittenInOrder
  NothingForgotten
  PromptDrain
  NeverThrows
