SPECIFICATION CodecSpec
CONSTANTS
  kMaxDecodeDepth = 3
  Roots <- MCRoots
  MaxRoots = 2
  MaxNesting = 3
  Damage <- MCDamage
  Patches <- MCPatches
  Sizes <- MCSizes
  Fill = 255
  Pieces <- MCPieces
  MaxPieces = 3
INVARIANTS
  RootsReadBack
  CutIsSeen
  SkipAgrees
  Reencodes
  HoldsLast
  TranscodersInvert
CHECK_DEADLOCK FALSE
