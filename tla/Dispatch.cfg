SPECIFICATION Spec
CONSTANTS
    RouteSets <- MCRouteSets
    Passwords <- MCPasswords
    Requests <- MCRequests
    Bundles <- MCBundles
    SessionIds <- MCSessionIds
    SeqNumber <- MCSeqNumber
    SessionSecs = 2
    Diagnostics = FALSE
    MaxNow = 3
INVARIANTS
    OnlyLiveSessions
    NoPasswordNoPanel
    OneOwnerPerPath
