\* Two clients and one key, under each workload.
SPECIFICATION Spec
CONSTANTS
    Client = {c1, c2}
    Key = {k1}
    None = None
    EmptyString = EmptyString
    Unparsable = Unparsable
    Micro = 2
    Width = 2
    Chunks = {1, 3}
    Times <- SomeTimes
    Steps = {0, 1}
    Bounds <- SomeBounds
    Workloads <- SomeWorkloads
SYMMETRY Permuted
CHECK_DEADLOCK FALSE
INVARIANTS
    TailExact
    AckedOnce
    GetExact
    CounterOrdered
    ReadYourWrites
    ListedIfWritten
