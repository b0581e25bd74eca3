CONSTANTS
  Tries <- Two
  Posts <- Two
  Chunk <- MCChunk
  Size <- MCSize
  PostSeq <- MCPostSeq
  g1 = g1
  MaxChunk = 1
  Gets = {g1}
  MaxBuffered = 2
  MaxBufferBytes = 10
  IdleTimeout = 1
  UplinkDepth = 0
  DownDepth = 1
  DownReads = 2
  HasPrologue = TRUE
  BodyFramed = FALSE
SPECIFICATION Spec
INVARIANT EofDeliversAll
PROPERTIES OwnerEnds StreamCloses WaitersAnswered
CHECK_DEADLOCK FALSE
