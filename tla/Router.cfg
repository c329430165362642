SPECIFICATION ColdSpec
CONSTANTS
  Budget = 2
  None = None
CHECK_DEADLOCK FALSE
INVARIANTS
  OneRouter
  StateIsKept
  FailedIsFenced
  ClearedIsOriginal
  OriginalIsKept
PROPERTIES
  ImplementsSelection
  OperationEnds
