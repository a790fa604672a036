SPECIFICATION Spec
CONSTANTS
  all = all
  nothing = nothing
  All <- all
  NoComment <- nothing
  Categories <- MCCategories
  LegacyCategories = {"legacy"}
  CSuppressed = {"readability/casting"}
  KernelSuppressed = {"whitespace/tab"}
  Runs <- LoopRuns
CHECK_DEADLOCK FALSE
INVARIANTS
  NolintHidesItsLine
