SPECIFICATION Spec
CONSTANTS
  Texts <- MCTexts
  MaxLines = 5
CONSTRAINT Followed
CHECK_DEADLOCK FALSE
INVARIANTS
  EmptyBodiesReported
  RedundantReported
  NothingLooksControlled
  OneSideReported
