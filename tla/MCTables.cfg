SPECIFICATION TablesSpec
CONSTANTS
  Dataset = {"dataset1", "dataset4"}
  FilesIn <- DatasetFiles
  FeatureScripts <- TwoFeatures
  Integral = {"charDiversity2"}
  MaxRuns = 2
  MaxFailures = 2
  NumFeatures = 4
  MaxSamples = 7
  PerClass = 2
  TrainTotal = 4
  Gain = {0, 1, 2}
  Calls <- SomeCalls
INVARIANTS
  SortedFromSecond
  SelectionBlind
  FailsOnlyIfShort
  MarginsUnlessHalved
  SoundTablePasses
  FewRowsLost
  ReportsSampleIfEven
  ResultAligned
PROPERTY ResultIsFresh
CHECK_DEADLOCK FALSE
