SPECIFICATION SystemSpec
CONSTANTS
  MaxRows = 6
  Styles <- EarlyStyles
  Row <- SourceRows
INVARIANTS
  BraceEndsFunction
CHECK_DEADLOCK FALSE
