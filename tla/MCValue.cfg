SPECIFICATION ValueSpec
CONSTANTS
  x = x
  y = y
  z = z
  h1 = h1
  h2 = h2
  Names <- MCNames
  Kinds <- MCKinds
  Values <- MCValues
  KindOf <- MCKindOf
  Compounds <- MCCompounds
  Holders <- MCHolders
  MaxEntries = 4
  MaxLength = 6
  Texts <- MCTexts
  Roots <- MCRoots
  Nodes <- MCNodes
  Letters <- MCLetters
  kMaxIndex = 99
  Trees <- MCTrees
  Options <- MCOptions
  Prints <- MCPrints
  Snippets <- MCSnippets
  Damage <- MCDamage
INVARIANTS
  PointersStay
  ParsesTheGrammar
  FindsTheNode
  RoundTrips
  ReadsAsWritten
PROPERTY
  ImplementsMap
CHECK_DEADLOCK FALSE
