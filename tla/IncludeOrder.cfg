SPECIFICATION Spec
CONSTANTS
  Header <- MCHeader
  Endings <- MCEndings
  MaxLines = 5
CONSTRAINT Balanced
CHECK_DEADLOCK FALSE
INVARIANTS
  OrderReported
  IncludesRemembered
