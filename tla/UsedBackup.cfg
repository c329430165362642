SPECIFICATION MCSpec
CONSTANTS
  Chapters = {"evidence"}
  PartsOf <- MCParts
  Budget = 0
  Modes = {"initial", "replacement"}
  Mishaps = 0
CHECK_DEADLOCK FALSE
PROPERTIES
  UsedIsRetired
