\* The dependency graph: one queue, one priority, lists of up to two parents.
SPECIFICATION Spec
CONSTANTS
    q1 = q1
    q2 = q2
    t1 = t1
    t2 = t2
    TaskId = {t1, t2, t3, t4}
    WorkerId = {w1}
    QueueName = {q1}
    Output = {o1}
    Empty = Empty
    MaxSeq = 0
    Priority <- OnePriority
    ParentLists <- AnyTwoParents
    QueueLists <- OneQueue
SYMMETRY Permuted
INVARIANTS
    TypeOK
    PendingExact
    GraphConsistent
    DispatchAfterParents
    NoStrandedWaiter
    OriginNamesCulprit
    ReadsAgree
PROPERTY FinalStaysFinal
