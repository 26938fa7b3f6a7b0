SPECIFICATION CliSpec
CONSTANTS
  kMaxDecodeDepth = 3
  Paths <- MCPaths
  Entries <- MCEntries
  Holds <- MCHolds
  Texts <- MCTexts
INVARIANTS BytesReachStdout
CHECK_DEADLOCK FALSE
