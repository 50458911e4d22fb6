SPECIFICATION FairSpec
CONSTANTS
  FirstFreq = 1
  Freqs = {3}
  Gains = {2}
  Configs <- SavedConfigs
  TunerRate = 4
  TunerPPM = 1
  MaxRetunes = 1
  MaxGains = 1
INVARIANTS SettingsReachDevice
PROPERTIES WaitEnds StopReturns
CHECK_DEADLOCK FALSE
