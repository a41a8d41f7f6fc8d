SPECIFICATION ScoreSpec
CONSTANTS
  Letter = {a, b}
  WordLength = 3
  Word <- AllWords
  MAX_DEEP = 4
  MaxWords = 3
INVARIANTS
  LevelsWithinFreq
  PhiAddsToOne
  CountsAreOccurrences
  WalkStaysInTree
  ScoreWithinPath
  LongestPrefixMatched
  ZeroMeansUnknown
PROPERTIES
  ScoreReturns
CHECK_DEADLOCK FALSE
