SPECIFICATION FairSpec
CONSTANTS MaxCalls = 4
CHECK_DEADLOCK FALSE
INVARIANTS OneLateTick
PROPERTIES StopRests DestroyReturns
