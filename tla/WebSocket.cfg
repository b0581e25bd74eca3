CONSTANTS
  Requests <- MCRequests
  HeaderLen = 2
  MaxHeader = 3
  StreamLen = 4
  DownLen = 2
  MaxQueued = 2
SPECIFICATION Spec
INVARIANTS NothingLostAfterHeader RefusedHearNothing ReplyThenStream EofDeliversWhole
PROPERTY DestEndEndsTask
CHECK_DEADLOCK FALSE
