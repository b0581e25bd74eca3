CONSTANTS
  Tries <- Four
  Posts <- Four
  Chunk <- MCChunk
  Size <- MCSize
  PostSeq <- MCPostSeq
  MaxChunk = 3
  Gets = {}
  MaxBuffered = 2
  MaxBufferBytes = 10
  IdleTimeout = 1
  UplinkDepth = 1
  DownDepth = 1
  DownReads = 0
  HasPrologue = FALSE
  BodyFramed = TRUE
SPECIFICATION Spec
INVARIANT OwnerSeesStream
CHECK_DEADLOCK FALSE
