SPECIFICATION MCSpec
CONSTANTS
  Chapters = {"disk", "evidence"}
  PartsOf <- MCParts
  Budget = 2
  Modes = {"initial", "replacement"}
  Mishaps = 2
CHECK_DEADLOCK FALSE
INVARIANTS
  PreparedIsWhole
  HelperIsFenced
  AccessIsRetired
  TemplateIsKept
  RetiredIsEmpty
  InspectorIsFenced
PROPERTIES
  CleanupEnds
  EvidenceEnds
