SPECIFICATION ParserSpec
CONSTANTS
  Documents <- MCDocuments
  Styles <- MCStyles
  Render <- ServerText
  Chars <- MCChars
  Qty = 5
INVARIANTS
  ParserTypeOK
  TreeIsDocument
  CutRejected
  FailsForCause
PROPERTY Finishes
CHECK_DEADLOCK FALSE
