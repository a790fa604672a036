SPECIFICATION Spec
CONSTANTS
  Files <- MCFiles
  Missing <- MCMissing
  Pairs <- MCPairs
  Marks <- MCMarks
  Ends <- MCEnds
  FirstComponent <- MCFirstComponent
  WordOf <- MCWordOf
  Roots <- MCRoots
INVARIANTS
  NameBelowTheRoot
  OwnHeaderFound
  GuardsDiffer
PROPERTIES
  Returns
CHECK_DEADLOCK FALSE
