------------------------ MODULE TaskManagerContract ------------------------
(***************************************************************************)
(* TaskManager implements TaskContract.  The mapping reads the state of    *)
(* the table the way callers do: through the index and the read            *)
(* operations.                                                             *)
(***************************************************************************)
EXTENDS TaskManager

known == {t \in TaskId : get_status(t) # "Undefined"}

Members(list) == {list[k] : k \in DOMAIN list}

status_of == [t \in known |-> get_status(t)]
needs_of == [t \in known |-> {task_id[r] : r \in Members(parents[task_index[t]])}]
wants_of == [t \in known |-> Members(queues[task_index[t]])]
prio_of == [t \in known |-> get_priority(t)]
arrival_of == [t \in known |-> seq[task_index[t]]]
holder_of == [t \in known |-> get_worker_id(t)]
result_of == [t \in known |-> get_output(t)]
culprit_of == [t \in known |-> task_id[terminal_origin[task_index[t]]]]

Contract == INSTANCE TaskContract WITH
    PollLists <- QueueLists,
    Nobody    <- "NotRunning",
    added     <- task_id,
    status    <- status_of,
    needs     <- needs_of,
    wants     <- wants_of,
    prio      <- prio_of,
    arrival   <- arrival_of,
    holder    <- holder_of,
    result    <- result_of,
    culprit   <- culprit_of

\* Every step of the table, its counts, its lists of children and its heaps
\* full of dead entries is a step of the contract on task ids, or changes
\* nothing a caller can see: who becomes Ready and in which order, who ends
\* with whom and what it reports, and which task a poll of a list of queues
\* is given (task-manager.cpp 82-180, 251-308, 347-442).
ImplementsContract == Contract!Spec
============================================================================
