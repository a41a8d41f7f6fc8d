SPECIFICATION Spec
CONSTANTS
  Original = {1, 2, 3, 4}
  Buggy = {1, 3}
  FunctionCount <- FourFiles
  Base = 3
  Sample = 2
  Prefix = {2}
INVARIANTS
  LabelsAreRight
