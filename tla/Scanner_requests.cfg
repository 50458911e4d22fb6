SPECIFICATION Spec
CONSTANTS
  c1 = c1  c2 = c2  f1 = f1  f2 = f2
  NoData = NoData  RawData = RawData  NoId = NoId  BadId = BadId
  Channels = {c1, c2}
  Freqs = {f1}
  DefaultFreq = f1
  AmIds = {c2}
  DelayIds = {c1}
  TriggerHits = 2
  InitialDatabases <- SmallDatabases
  InitialSaved <- SavedAny
  UseDebugConsole = TRUE
  MaxRequests = 2
  MaxBoots = 0
CHECK_DEADLOCK FALSE
INVARIANTS OnlyCurrentModemOpen ReceivesRealEntry HeardIsShown LockedIsShown DataBelongsToManual
PROPERTIES StoppingSticks
