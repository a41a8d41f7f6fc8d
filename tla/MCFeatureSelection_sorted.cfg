SPECIFICATION SelectionSpec
CONSTANTS
  NumFeatures = 4
  MaxSamples = 5
  PerClass = 2
  TrainTotal = 4
  Gain = {0, 1, 2}
INVARIANTS
  SortedByInfoGain
CHECK_DEADLOCK FALSE
