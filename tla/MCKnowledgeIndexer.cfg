CONSTANTS
  p = p
  q = q
  Paths <- MCPaths
  Cases <- MCCases
  DefaultSize = 4

SPECIFICATION Spec

INVARIANTS
  IndexIsCurrent
  RowsFit
  WindowsOverlap

PROPERTIES
  StaysFindable

\* Every run ends.
CHECK_DEADLOCK FALSE
