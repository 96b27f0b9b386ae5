\* Two threads with a hook and a deadline, and close().  The fairness promises no
\* answer and no end at the deadline: only cancellation is sure to end a call.
SPECIFICATION FairSpec
CONSTANTS
    Thread = {t1, t2}
    HasHook = TRUE
    HasDeadline = TRUE
INVARIANTS
    FrameOutlivesCall
    CloseReachesAll
    CancelledIsMeant
PROPERTIES
    CloseDrains
