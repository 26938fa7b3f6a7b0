SPECIFICATION FileSpec
CONSTANTS
  kSize = 2
  Payloads <- MCPayloads
  Empty = ""
  Parses = {"a", "b", "sparse"}
  RawSize <- MCRawSize
  PackedSize <- MCPackedSize
  MaxOutput = 16777216
  kLengthMax = 2000000000
  Timestamps = {0, 7}
  NoBlock = NoBlock
  Coords <- FileCoords
  Writes <- FileWrites
  Files <- FileFiles
  Absent = Absent
  Cuts <- MCCuts
  kTail = 4096
INVARIANTS TornFileSafe LostFromTheEnd SavedIsRegion
