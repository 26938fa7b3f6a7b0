SPECIFICATION ViewSpec
CONSTANTS
  Objects = {o1, o2, o3, o4}
  Blocks = {b1, b2, b3}
  Plain = {"level"}
  Short = {"cafe"}
  Long = {"long", "other"}
  kMaxDecodeDepth = 3
  Docs <- MCDocs
  Keys <- MCKeys
  Damage <- MCDamage
SYMMETRY MCSymmetry
INVARIANTS
  MovedNamesSurvive
  ShowsWhatDecodeReads
PROPERTY
  IterationAdvances
CHECK_DEADLOCK FALSE
