\* The server started alone, by a wrapper or in a container, and closed at any moment.
SPECIFICATION FairSpec
CONSTANTS
    None = None
    MaxCalls = 2
CHECK_DEADLOCK FALSE
INVARIANTS
    DrainNotKilled
    ServedEndsGracefully
    SignalNotLost
    CloseLeavesNobody
PROPERTY CloseReturns
