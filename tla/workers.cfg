\* Two workers, one of which may die or fail: who holds which task, and that every
\* task ends.
SPECIFICATION WFairSpec
CONSTANTS
    q1 = q1
    q2 = q2
    t1 = t1
    TaskId = {t1, t2}
    WorkerId = {w1, w2}
    QueueName = {q1, q2}
    Output = {w1, w2}
    Empty = Empty
    NoJob = NoJob
    Survivors = {w1}
    Failures = {"UNAVAILABLE"}
    MaxReports = 2
    MaxSeq = 2
    Priority <- OnePriority
    ParentLists <- OnFirst
    QueueLists <- TwoQueues
CHECK_DEADLOCK FALSE
INVARIANTS
    NoneForgotten
    ReportSettled
    RunOnce
PROPERTIES
    EveryTaskSettles
