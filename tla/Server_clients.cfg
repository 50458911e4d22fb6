SPECIFICATION FairSpec
CONSTANTS
  Console = Console  NoConn = NoConn
  MaxClients = 2
  MaxConnections = 2
  UseDebugServer = TRUE
  MaxPublished = 2
  MaxLevels = 1
CHECK_DEADLOCK FALSE
INVARIANTS OpenIsRegistered
PROPERTIES FeedsInOrder WokenFlushes RequestsAreTaken
