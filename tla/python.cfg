\* Ctrl-C and close() during the calls of two threads; only cancellation is sure
\* to end a call.
SPECIFICATION PyFairSpec
CONSTANTS
    Thread = {m, t}
    Main = m
    HasHook = TRUE
    HasDeadline = TRUE
PROPERTIES
    InterruptSurfaces
    InterruptEndsCall
