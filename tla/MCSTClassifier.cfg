SPECIFICATION Spec
CONSTANTS
  Sizes <- SmallSizes
  Scores <- ThreeScores
  TEST = 50
  Thresholds <- SomeThresholds
  MaxUnreadable = 1
INVARIANTS
  NoTestFileTrained
  ClassesBalanced
  RowsAreCurve
PROPERTIES
  TrainBeforeTest
  EndsOrIsCaught
CHECK_DEADLOCK FALSE
