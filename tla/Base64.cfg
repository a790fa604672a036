SPECIFICATION Spec
CONSTANTS
  Byte <- MCByte
  Garbage <- MCGarbage
  MaxLength = 5
INVARIANTS
  SixBitsEach
  LengthsAgree
  RoundTrip
CHECK_DEADLOCK FALSE
