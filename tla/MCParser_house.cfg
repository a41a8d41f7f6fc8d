SPECIFICATION SystemSpec
CONSTANTS
  MaxRows = 9
  Styles <- HouseStyles
  Row <- SourceRows
INVARIANTS
  FilesAreDisjoint
  BodyEndsAtFirstBrace
  OneFunctionPerFile
  NoneMissed
PROPERTIES
  FilesOpenAtHeads
  SlicerSpec
CHECK_DEADLOCK FALSE
