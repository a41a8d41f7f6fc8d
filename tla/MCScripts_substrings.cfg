SPECIFICATION Spec
CONSTANTS
  Alphabets <- SomeAlphabets
  MaxLength = 7
  Option = "c"
  N = 2
  K = 4
  Directories <- UpToThreeFiles
  Letter <- SmallLetters
  LowerCase <- Capitals
  Files <- SomeFiles
  Selections <- UpToFour
INVARIANT SubstringsCounted
CHECK_DEADLOCK FALSE
