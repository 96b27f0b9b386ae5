\* Two workers, one mutex, calls that fail and requests served late; no symmetry,
\* since a liveness property is checked.
SPECIFICATION FairSpec
CONSTANTS
    Key = {k1}
    WorkerId = {w1, w2}
    NoKey = NoKey
    Free = Free
    NoTimeout = NoTimeout
    Delay = 2
    Timeouts <- TimedOrNot
    RpcTimeout = 4
    CanFail = TRUE
    MaxRequests = 2
INVARIANTS
    MutualExclusion
    NoSilentOrphan
PROPERTY SomeoneAcquires
