SPECIFICATION Spec
CONSTANTS
  kSize = 2
  Payloads <- MCPayloads
  Empty = ""
  Parses = {"a", "b", "sparse"}
  RawSize <- MCRawSize
  PackedSize <- MCPackedSize
  MaxOutput = 16777216
  kLengthMax = 2000000000
  Timestamps = {0, 7}
  NoBlock = NoBlock
  Coords <- MCCoords
  Writes <- MCWrites
  Files <- MCFiles
  Absent = Absent
INVARIANTS TypeOK CacheCoherent LiveViewCurrent SavedLayout
PROPERTIES ViewsSurviveReads ImplementsRegionSpec
