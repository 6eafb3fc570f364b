SPECIFICATION BuilderSpec
CONSTANTS
  Sizes <- MCSizes
  Names <- MCNames
  Values <- MCValues
  Numbers <- MCNumbers
  Chars <- MCChars
  Control <- MCControl
  Escaped <- MCEscaped
  MaxDepth = 2
  MaxCalls = 5
INVARIANTS
  BuilderTypeOK
  RoomCounted
  Terminated
  ShortMeansWhole
  WholeWhenFits
CHECK_DEADLOCK FALSE
