SPECIFICATION SessionSpec
CONSTANTS
  Squelches <- ChosenSquelches
  Gains <- ChosenGains
  Stored <- OneStored
  MaxMoves = 1
  MaxPresses = 1
  MaxSessions = 1
  MaxBatch = 2
INVARIANTS SlidersAgree ScanRequestsAreAsked
PROPERTIES OneValueDiesDown
CHECK_DEADLOCK FALSE
