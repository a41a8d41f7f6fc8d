SPECIFICATION Spec
CONSTANTS
  Original = {1, 2, 3}
  Buggy = {1, 3}
  FunctionCount <- ThreeFiles
  Base = 4
  Sample = 2
  Prefix = {1, 2}
INVARIANTS
  LabelsAreRight
  NothingStale
  SampleComplete
  ClassesAlternate
  SortedCompletely
