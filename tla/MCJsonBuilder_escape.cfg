SPECIFICATION BuilderSpec
CONSTANTS
  Sizes <- MCSizes
  Names <- MCNames
  Values <- MCValues
  Numbers <- MCNumbers
  Chars <- MCChars
  Control <- MCControl
  Escaped <- MCEscaped
  MaxDepth = 2
  MaxCalls = 5
INVARIANT EscapesAdded
CHECK_DEADLOCK FALSE
