\* Three coroutines, two threads, calls without a deadline, and close().
SPECIFICATION AsyncFairSpec
CONSTANTS
    Thread = {t1, t2}
    Coroutine = {c1, c2, c3}
    NoCoroutine = NoCoroutine
    HasHook = FALSE
    HasDeadline = FALSE
CHECK_DEADLOCK FALSE
INVARIANT CallServedOnce
PROPERTY AsyncCloseDrains
