SPECIFICATION SourceSpec
CONSTANTS
  Source <- AllLines
  Alphabets <- AllAlphabets
  MaxLines = 6
  HeadTokens <- ScopeHeads
  MaxScopes = 2
  Words <- TightWords
CHECK_DEADLOCK FALSE
INVARIANTS
  Tracks
  OneBranchCounts
  AsmLinesSkipped
  LayoutReported
  BlankLinesReported
  BracesSpaced
  ExplicitReported
  ReferencesReported
  VirtSpecifiersReported
