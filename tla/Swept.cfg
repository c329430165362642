SPECIFICATION Spec
CONSTANTS
  Low = Low
  High = High
  First = Low
  Texts = {"as it was", "edited"}
  Faults = {"kill", "edit"}
  Budget = 2
  Length = 3
  None = None
CHECK_DEADLOCK FALSE
PROPERTIES
  PushesItsChange
