SPECIFICATION FairSpec
CONSTANTS
  c1 = c1  c2 = c2  f1 = f1  f2 = f2
  NoData = NoData  RawData = RawData  NoId = NoId  BadId = BadId
  Channels = {c1}
  Freqs = {f1}
  DefaultFreq = f1
  AmIds = {f1}
  DelayIds = {c1}
  TriggerHits = 2
  InitialDatabases <- OneChannel
  InitialSaved <- SavedAny
  UseDebugConsole = FALSE
  MaxRequests = 1
  MaxBoots = 1
CHECK_DEADLOCK FALSE
INVARIANTS RestoresSavedMode
PROPERTIES StopCompletes InternalHoldEnds
