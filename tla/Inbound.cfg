CONSTANTS
    UserLists <- MCUserLists
    MaxSealed = 13
    MaxPlain = 2
    MaxChunk = 5
    CounterWrap = 2
    Clients <- MCClients
    Skew <- MCSkew
    Ages <- MCAges
    MaxAge = 3
    MaxHeader = 17
    MaxText = 2
    MaxWritten = 3
    MaxSent = 3
SPECIFICATION Spec
INVARIANTS
    HeaderAwaited
    StreamsIntact
CHECK_DEADLOCK FALSE
