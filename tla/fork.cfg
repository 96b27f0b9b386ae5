\* Who refuses calls in a family of processes.
SPECIFICATION Spec
CONSTANT MaxProcess = 4
CHECK_DEADLOCK FALSE
INVARIANTS
    NoFalseRefusal
    GuardReachesDescendants
