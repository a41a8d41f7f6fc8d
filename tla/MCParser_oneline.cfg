SPECIFICATION SystemSpec
CONSTANTS
  MaxRows = 6
  Styles <- OneLineStyles
  Row <- SourceRows
INVARIANTS
  StateTwoMeansBody
CHECK_DEADLOCK FALSE
