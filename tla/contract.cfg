\* The queues and the contract, and that every task ends: two queues, one of which
\* a task names twice, two priorities that task_set_priority changes while entries
\* at the old one are still queued, a child of two parents and of one named twice;
\* no symmetry, since a liveness property is checked.
SPECIFICATION FairSpec
CONSTANTS
    q1 = q1
    q2 = q2
    t1 = t1
    t2 = t2
    TaskId = {t1, t2, t3}
    WorkerId = {w1}
    QueueName = {q1, q2}
    Output = {o1}
    Empty = Empty
    MaxSeq = 2
    Priority <- TwoPriorities
    ParentLists <- FewParents
    QueueLists <- TwoQueues
INVARIANT LiveEntriesExact
PROPERTIES
    ImplementsContract
    EveryTaskEnds
