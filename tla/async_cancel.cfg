\* Two coroutines on a pool of one thread, calls with a deadline: a call that is
\* queued behind another does not run on when its coroutine is cancelled.
SPECIFICATION AsyncFairSpec
CONSTANTS
    Thread = {t1}
    Coroutine = {c1, c2}
    NoCoroutine = NoCoroutine
    HasHook = FALSE
    HasDeadline = TRUE
CHECK_DEADLOCK FALSE
PROPERTY CanceledCallRunsOn
