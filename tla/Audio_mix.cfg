SPECIFICATION Spec
CONSTANTS
  Modems = {"NFM", "AM"}
  QueueMax = 1
  MaxCalls = 2
INVARIANTS EndedIsUnbound ActiveIsBound
PROPERTIES SetActiveReturns
CHECK_DEADLOCK FALSE
