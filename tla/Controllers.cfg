SPECIFICATION Spec
CONSTANTS
  Low = Low
  High = High
  First = Low
  Texts = {"as it was", "edited"}
  Faults = {"kill", "lock", "contact", "commit", "edit", "demote", "promote"}
  Budget = 2
  Length = 3
  None = None
CHECK_DEADLOCK FALSE
INVARIANTS
  OneMarker
PROPERTIES
  
  SwitchCompletes
