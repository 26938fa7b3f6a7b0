SPECIFICATION Spec
CONSTANTS
  kMaxDecodeDepth = 3
  Roots <- EndRoots
  MaxRoots = 2
  MaxNesting = 3
  Damage <- MCDamage
INVARIANT
  RoundTrips
CHECK_DEADLOCK FALSE
