CONSTANTS
  Requests <- MCServed
  HeaderLen = 2
  MaxHeader = 3
  StreamLen = 4
  DownLen = 2
  MaxQueued = 2
SPECIFICATION Spec
INVARIANT PayloadReachesDest
CHECK_DEADLOCK FALSE
