CONSTANTS
  FifoSize = 2
  HalfFull = 1
  BufferSize = 3
  Period = 3
  Size = 32
  DmaBlock = 10
  Align = 2
  Bunches = 2
  ReadBuffer = 11
  WriteBuffer = 16
  WaveLength = 3
  Counts = {0, 3, 5}
  Starts = {3}
  Decimations = {1, 2, 5}
  Origins = {21}
  Delays = {0, 2}
  SavedEntries = {1, 4, 7, 12, 15}
  ReadoutOffsets = {0, 1}
  MaxCaptures = 2
  MaxWrites = 1
SPECIFICATION MCSpec
INVARIANTS
  TypesOK
  NoHiddenGap
  ReadFaithful
  CaptureCorrect
PROPERTIES
  PublishedStable
  BuffersComplete
  StreamEnds
  CaptureShown
CHECK_DEADLOCK FALSE
