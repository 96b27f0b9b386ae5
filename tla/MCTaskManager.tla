--------------------------- MODULE MCTaskManager ---------------------------
(* Small instances of TaskManager and of its contract.                     *)
EXTENDS TaskManagerContract, TLC

CONSTANTS q1, q2, t1, t2

\* Every list of at most n members of S, repetitions included.
ListsUpTo(S, n) == UNION {[1..k -> S] : k \in 0..n}

AnyTwoParents == ListsUpTo(TaskId, 2)

\* No parents, two, and one of them twice.
FewParents == {<<>>, <<t1, t2>>, <<t1, t1>>}

OneQueue == {<<q1>>}
\* Two queues, one of them twice.
TwoQueues == {<<q1, q2, q2>>}

OnePriority == {1}
TwoPriorities == {1, 2}

\* The loop of search_id is the standard filter.
ASSUME KeepIsSelectSeq ==
    \A s \in ListsUpTo(1..3, 4), T \in SUBSET (1..3) :
        Keep(s, {i \in DOMAIN s : s[i] \in T}) = SelectSeq(s, LAMBDA x : x \in T)

Permuted == Permutations(TaskId)
============================================================================
