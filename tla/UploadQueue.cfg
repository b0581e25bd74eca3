CONSTANTS
  short = short
  long = long
  Chunk <- MCChunk
  Size <- MCSize
  MaxBuffered = 2
  MaxBufferBytes = 5
  MaxSeq = 9
SPECIFICATION Spec
INVARIANTS InOrderOnceEach NothingLost WithinBudget RetryNeverRefused GapCanBeFilled
PROPERTY ImplementsOrderedStream
