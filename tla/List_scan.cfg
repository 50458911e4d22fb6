SPECIFICATION FairListSpec
CONSTANTS
  Files <- SmallFiles
  Bandwidths = {0, 2}
  MaxInt = 9
  MaxIndex = 2
  MaxStarts = 2
CHECK_DEADLOCK FALSE
INVARIANTS BinsFitTuner SavedIndexIsStable
PROPERTIES RetunedForBin EveryChannelIsScanned
