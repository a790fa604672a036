SPECIFICATION Spec
CONSTANTS
  Texts <- MCTexts
  MaxWords = 6
INVARIANTS
  ElidedIsTheCode
  ReportedIfItGoesOn
CHECK_DEADLOCK FALSE
