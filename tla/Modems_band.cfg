SPECIFICATION Spec
CONSTANTS
  Channels <- FmAndAm
  Centers = {10, 20}
  InitFreq = 10
  FirstCenter = 10
  HalfRate = 2
  QueueMax = 1
  MaxVisits = 2
CHECK_DEADLOCK FALSE
INVARIANTS OpenModemIsTuned TunedModemIsFed
