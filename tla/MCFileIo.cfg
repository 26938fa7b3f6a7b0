SPECIFICATION IoSpec
CONSTANTS
  Cells = {"a1", "a2", "a3", "b1", "b2"}
  Buffers <- MCBuffers
  Zero = Zero
  NoFile = NoFile
  kBuffer = 1
  Streams <- MCStreams
  Limits <- MCLimits
INVARIANTS
  OkMeansAlmostWritten
  QuietReadExact
  OverlappedRead
  OutputBounded
  AnswerRight
PROPERTIES
  CallsReturn
  Returns
CHECK_DEADLOCK FALSE
