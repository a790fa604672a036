SPECIFICATION MCSpec
CONSTANTS
  Before <- MCBefore
  Literals <- MCLiterals
  MaxLength = 10
CONSTRAINT SmallTexts
INVARIANTS
  BracketFindsItsMate
  AngleFindsItsMate
  BackToTheStart
  TextsInsideAgree
  SuggestionsKeepMeaning
CHECK_DEADLOCK FALSE
