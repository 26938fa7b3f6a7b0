SPECIFICATION ToolSpec
CONSTANTS
  kMaxDecodeDepth = 3
  Paths <- MCPaths
  Entries <- MCEntries
  Holds <- MCHolds
  Texts <- MCTexts
  Docs <- MCDocs
  Depths <- MCDepths
  kSize = 2
  Payloads <- MCPayloads
  Empty = ""
  Parses = {"a", "sparse"}
  RawSize <- MCRawSize
  PackedSize <- MCPackedSize
  MaxOutput = 16777216
  kLengthMax = 2000000000
  Timestamps = {0, 7}
  NoBlock = NoBlock
  Coords = {}
  Writes = {}
  Files <- MCFiles
  Absent = Absent
INVARIANTS
  CommandsTell
  ReadsBack
  GuessesAgree
  LinesTell
CHECK_DEADLOCK FALSE
