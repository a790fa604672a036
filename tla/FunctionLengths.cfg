SPECIFICATION Spec
CONSTANTS
  Lines <- MCLines
  Verbosities = {0, 1, 4, 5}
  MaxLines = 5
CHECK_DEADLOCK FALSE
INVARIANTS
  AlwaysPrinted
  LongFunctionsReported
