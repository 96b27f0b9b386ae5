\* The timeout of mutex_acquire against a slow call.
SPECIFICATION Spec
CONSTANTS
    Key = {k1}
    WorkerId = {w1, w2}
    NoKey = NoKey
    Free = Free
    NoTimeout = NoTimeout
    Delay = 2
    Timeouts <- TimedOrNot
    RpcTimeout = 4
    CanFail = TRUE
    MaxRequests = 2
INVARIANT TimeoutBoundsLoop
