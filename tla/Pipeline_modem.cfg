SPECIFICATION Spec
CONSTANTS
  Freqs = {8}
  FirstFreq = 12
  FirstCenter = 10
  Rates = {4, 8}
  FirstRate = 4
  IQMax = 1
  CommandMax = 1
  ResultMax = 1
  MaxTunes = 1
  MaxRates = 1
INVARIANTS MixedForItsRate
PROPERTIES NoDeadKit LevelIsOfTarget TerminateEnds
CHECK_DEADLOCK FALSE
