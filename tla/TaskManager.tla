---------------------------- MODULE TaskManager ----------------------------
(***************************************************************************)
(* The task table, the dependency graph and the queues of ds-service       *)
(* (cpp/server/core/task-manager.cpp, data-structures.hpp).                *)
(*                                                                         *)
(* Every operation takes TaskManager::lock for its whole body, so every    *)
(* operation is one atomic action.  A column of TaskTable is a function on *)
(* Rows; a refused request is an action of its own that changes nothing.   *)
(* The function and input payloads are left out: nothing reads them but    *)
(* the reply of task_get.                                                  *)
(***************************************************************************)
EXTENDS Integers, FiniteSets, Sequences, Filter

CONSTANTS
    TaskId,         \* the task ids callers use
    WorkerId,       \* the worker ids callers use, Empty possibly among them
    QueueName,      \* the queue names
    Priority,       \* the priorities requested: no NaN among them
    Output,         \* what a worker may report as the output of a run
    Empty,          \* the empty string: no worker, no output
    ParentLists,    \* the parent_task_ids a task_add may carry
    QueueLists,     \* the queue lists a task_add or a task_get may carry
    MaxSeq          \* bound: no task_set_priority once next_seq reaches it

ASSUME ConstantsAssumption ==
    /\ Priority \subseteq Int
    /\ ParentLists \subseteq Seq(TaskId)
    /\ QueueLists \subseteq Seq(QueueName)
    /\ MaxSeq \in Nat

VARIABLES
    task_id, output, state, worker_id, priority, queues, seq,
    pending_parents,
    children,         \* children[p]: the pairs <<c, k>>, one for each place k
                      \* of p in the parent list row c was added with
    terminal_origin,
    task_index,       \* the row of a task id, NoRow when there is none
    next_seq,
    queue,            \* the entries of each queue
    parents           \* history: the rows named by parent_task_ids, in order

columns == <<task_id, priority, queues, children, parents, task_index>>
vars == <<columns, output, state, worker_id, seq, pending_parents,
          terminal_origin, next_seq, queue>>

----------------------------------------------------------------------------

NoRow == 0
Rows == 1..Len(task_id)

\* TaskState, without the Undefined that only task_get_status reports.
Active == {"Waiting", "Ready", "Running"}
Ended == {"Failed", "Canceled"}
Final == Ended \cup {"Finished"}
TaskState == Active \cup Final

CanceledOutput == <<"Task canceled">>
DependencyFailed(id) == <<"Dependency failed", id>>

terminal_output(st, id) ==
    IF st = "Failed" THEN DependencyFailed(id) ELSE CanceledOutput

Outputs == Output \cup {Empty, CanceledOutput}
                  \cup {DependencyFailed(id) : id \in TaskId}

\* A queue entry.  slot is the place of the queue in the list of the row: it
\* keeps apart the equal entries of a list that names one queue twice.
Entry == [priority : Priority, seq : Nat \ {0}, index : Rows, slot : Nat \ {0}]

\* Faulty variant: rows of equal priority leave last in, first out.
EntryOrder_Lifo(a, b) ==
    IF a.priority # b.priority THEN a.priority < b.priority ELSE a.seq < b.seq

\* TaskQueueEntryOrder: entry a leaves the queue after entry b.
EntryOrder(a, b) ==
    IF a.priority # b.priority THEN a.priority < b.priority ELSE a.seq > b.seq

\* Faulty variant: an entry of a row that was claimed or canceled is still used.
Live_Claimed(e) == e.seq = seq[e.index]

\* task_get drops an entry that is not live.
Live(e) == state[e.index] = "Ready" /\ e.seq = seq[e.index]

Usable(q) == {e \in queue[q] : Live(e)}

TypeOK ==
    /\ task_id \in Seq(TaskId)
    /\ output \in [Rows -> Outputs]
    /\ state \in [Rows -> TaskState]
    /\ worker_id \in [Rows -> WorkerId \cup {Empty}]
    /\ priority \in [Rows -> Priority]
    /\ queues \in [Rows -> QueueLists]
    /\ seq \in [Rows -> 0..next_seq]
    /\ pending_parents \in [Rows -> Nat]
    /\ children \in [Rows -> SUBSET (Rows \X Nat)]
    /\ terminal_origin \in [Rows -> Rows]
    /\ task_index \in [TaskId -> Rows \cup {NoRow}]
    /\ next_seq \in Nat
    /\ queue \in [QueueName -> SUBSET Entry]
    /\ parents \in [Rows -> Seq(Rows)]

Init ==
    /\ task_id = <<>> /\ output = <<>> /\ state = <<>> /\ worker_id = <<>>
    /\ priority = <<>> /\ queues = <<>> /\ seq = <<>>
    /\ pending_parents = <<>> /\ children = <<>> /\ terminal_origin = <<>>
    /\ parents = <<>>
    /\ task_index = [t \in TaskId |-> NoRow]
    /\ next_seq = 0
    /\ queue = [q \in QueueName |-> {}]

----------------------------------------------------------------------------
(* enqueue, for a set of rows taken in ascending order.                    *)

Stamp(R, r) == next_seq + Cardinality({d \in R : d <= r})

Entries(R, q, qcol, pcol) ==
    UNION {{[priority |-> pcol[r], seq |-> Stamp(R, r), index |-> r, slot |-> k]
              : k \in {j \in DOMAIN qcol[r] : qcol[r][j] = q}} : r \in R}

\* qcol, pcol and scol are the columns queues, priority and seq on entry.
enqueue(R, qcol, pcol, scol) ==
    /\ next_seq' = next_seq + Cardinality(R)
    /\ seq' = [r \in DOMAIN scol |-> IF r \in R THEN Stamp(R, r) ELSE scol[r]]
    /\ queue' = [q \in QueueName |-> queue[q] \cup Entries(R, q, qcol, pcol)]

----------------------------------------------------------------------------
(* add                                                                     *)

\* Faulty variant: an id already in the table is accepted again.
add_result_Again(t, pl) ==
    IF \E k \in DOMAIN pl : task_index[pl[k]] = NoRow THEN "NotFound" ELSE "OK"

add_result(t, pl) ==
    IF task_index[t] # NoRow THEN "AlreadyExists"
    ELSE IF \E k \in DOMAIN pl : task_index[pl[k]] = NoRow THEN "NotFound"
    ELSE "OK"

\* pr is the list of parent rows; the places in it whose row is in state st.
PlacesIn(pr, st) == {k \in DOMAIN pr : state[pr[k]] = st}
Unfinished(pr) == {k \in DOMAIN pr : state[pr[k]] # "Finished"}
\* Faulty variant: a parent named twice is counted once.
PendingCount_Distinct(pr) == Cardinality({pr[k] : k \in Unfinished(pr)})
PendingCount(pr) == Cardinality(Unfinished(pr))
First(K) == CHOOSE k \in K : \A j \in K : k <= j

AddedState(pr) ==
    IF PlacesIn(pr, "Failed") # {} THEN "Failed"
    ELSE IF PlacesIn(pr, "Canceled") # {} THEN "Canceled"
    ELSE IF PendingCount(pr) > 0 THEN "Waiting"
    ELSE "Ready"

\* Faulty variant: the row blames the parent next to it in the chain.
AddedOrigin_Parent(pr, index) ==
    IF AddedState(pr) \in Ended THEN pr[First(PlacesIn(pr, AddedState(pr)))] ELSE index

AddedOrigin(pr, index) ==
    IF AddedState(pr) \in Ended
    THEN terminal_origin[pr[First(PlacesIn(pr, AddedState(pr)))]]
    ELSE index

\* Faulty variant: the new row registers once with a parent named twice.
Registrations_Once(pr, p) ==
    {k \in Unfinished(pr) : pr[k] = p /\ \A j \in 1..(k - 1) : pr[j] # p}

\* The places of parent row p in the list that register the new row with p.
Registrations(pr, p) == {k \in Unfinished(pr) : pr[k] = p}

\* A column with the value of the new row.
push_back(column, v) ==
    [r \in 1..(Len(task_id) + 1) |-> IF r = Len(task_id) + 1 THEN v ELSE column[r]]

add(t, pl, ql, p) ==
    LET index == Len(task_id) + 1
        pr == [k \in DOMAIN pl |-> task_index[pl[k]]]
        st == AddedState(pr)
        origin == AddedOrigin(pr, index)
    IN
    /\ add_result(t, pl) = "OK"
    /\ task_index' = [task_index EXCEPT ![t] = index]
    /\ task_id' = Append(task_id, t)
    /\ output' = push_back(output, IF st \in Ended
                                THEN terminal_output(st, task_id[origin])
                                ELSE Empty)
    /\ state' = push_back(state, st)
    /\ worker_id' = push_back(worker_id, Empty)
    /\ priority' = push_back(priority, p)
    /\ queues' = push_back(queues, ql)
    /\ pending_parents' = push_back(pending_parents, PendingCount(pr))
    /\ terminal_origin' = push_back(terminal_origin, origin)
    /\ parents' = push_back(parents, pr)
    /\ children' = [r \in 1..index |->
                      IF r = index THEN {}
                      ELSE children[r] \cup {<<index, k>> : k \in Registrations(pr, r)}]
    /\ enqueue(IF st = "Ready" THEN {index} ELSE {}, queues', priority', push_back(seq, 0))

add_refused(t, pl) ==
    /\ add_result(t, pl) # "OK"
    /\ UNCHANGED vars

----------------------------------------------------------------------------
(* propagate_to_children: the walk down the graph from row i.              *)

ChildrenOf(i) == {reg[1] : reg \in children[i]}

\* Faulty variant: the walk overwrites a row that is already final.
Movable_Final(i) == Rows \ {i}

\* The rows the walk moves.  A row that is final stops it, and i itself,
\* which the caller has already ended.
Movable(i) == {r \in Rows \ {i} : state[r] \in Active}

Closed(S, i) == \A r \in S \cup {i} : ChildrenOf(r) \cap Movable(i) \subseteq S

\* Faulty variant: the walk stops at the direct children.
Reached_Direct(i) == ChildrenOf(i) \cap Movable(i)

Reached(i) == {r \in Movable(i) : \A S \in SUBSET Movable(i) : Closed(S, i) => r \in S}

\* Row i ends in state st with output out, and everything Reached with it.
EndWithDependents(i, st, out, worker) ==
    LET R == Reached(i) IN
    /\ state' = [r \in Rows |-> IF r = i \/ r \in R THEN st ELSE state[r]]
    /\ worker_id' = [r \in Rows |-> IF r = i THEN worker
                                    ELSE IF r \in R THEN Empty
                                    ELSE worker_id[r]]
    /\ output' = [r \in Rows |-> IF r = i THEN out
                                 ELSE IF r \in R THEN terminal_output(st, task_id[i])
                                 ELSE output[r]]
    /\ terminal_origin' = [r \in Rows |-> IF r = i \/ r \in R THEN i
                                          ELSE terminal_origin[r]]
    /\ UNCHANGED <<columns, seq, pending_parents, next_seq, queue>>

----------------------------------------------------------------------------
(* cancel                                                                  *)

cancel_result(t) ==
    IF task_index[t] = NoRow THEN "NotFound"
    ELSE IF state[task_index[t]] \notin Active THEN "false"
    ELSE "true"

cancel(t) ==
    /\ cancel_result(t) = "true"
    /\ EndWithDependents(task_index[t], "Canceled", terminal_output("Canceled", t), Empty)

cancel_refused(t) ==
    /\ cancel_result(t) # "true"
    /\ UNCHANGED vars

----------------------------------------------------------------------------
(* set_priority                                                            *)

\* Faulty variant: the new priority is stored and no queue learns of it.
Requeued_Never(i) == {}

Requeued(i) == IF state[i] = "Ready" THEN {i} ELSE {}

set_priority(t, p) ==
    LET i == task_index[t] IN
    /\ i # NoRow
    /\ priority' = [priority EXCEPT ![i] = p]
    /\ enqueue(Requeued(i), queues, priority', seq)
    /\ UNCHANGED <<task_id, queues, children, parents, task_index, output, state,
                   worker_id, pending_parents, terminal_origin>>

set_priority_refused(t) ==
    /\ task_index[t] = NoRow
    /\ UNCHANGED vars

----------------------------------------------------------------------------
(* get: worker w polls the queues of ql in order.                          *)

\* The queues emptied before place k of the list is looked at.
Emptied(ql, k) == {ql[j] : j \in 1..(k - 1)}

\* What is left of queue q once entry e has been popped: everything that
\* compares greater was popped before it.
Below(q, e) == {f \in queue[q] : f # e /\ ~EntryOrder(e, f)}

get_claim(w, ql) ==
    \E k \in DOMAIN ql :
      /\ \A j \in 1..(k - 1) : Usable(ql[j]) = {}
      /\ \E e \in Usable(ql[k]) :
           /\ \A f \in Usable(ql[k]) : ~EntryOrder(e, f)
           /\ state' = [state EXCEPT ![e.index] = "Running"]
           /\ worker_id' = [worker_id EXCEPT ![e.index] = w]
           /\ queue' = [q \in QueueName |->
                          IF q = ql[k] THEN Below(q, e)
                          ELSE IF q \in Emptied(ql, k) THEN {}
                          ELSE queue[q]]
      /\ UNCHANGED <<columns, output, seq, pending_parents, terminal_origin, next_seq>>

\* "No tasks available": every entry of every listed queue has been dropped.
get_none(ql) ==
    /\ \A k \in DOMAIN ql : Usable(ql[k]) = {}
    /\ queue' = [q \in QueueName |->
                   IF q \in Emptied(ql, Len(ql) + 1) THEN {} ELSE queue[q]]
    /\ UNCHANGED <<columns, output, state, worker_id, seq, pending_parents,
                   terminal_origin, next_seq>>

----------------------------------------------------------------------------
(* done: worker w reports the end of its run of t.                         *)

\* Faulty variant: the report on a canceled task is refused.
done_result_Canceled(w, t) ==
    LET i == task_index[t] IN
    IF i = NoRow THEN "NotFound"
    ELSE IF state[i] # "Running" THEN "NotRunning"
    ELSE IF worker_id[i] # w THEN "NotHolder"
    ELSE "OK"

done_result(w, t) ==
    LET i == task_index[t] IN
    IF i = NoRow THEN "NotFound"
    ELSE IF state[i] = "Canceled" THEN "Dropped"
    ELSE IF state[i] # "Running" THEN "NotRunning"
    ELSE IF worker_id[i] # w THEN "NotHolder"
    ELSE "OK"

\* How often row c is in the children list of row i.
Count(i, c) == Cardinality({reg[2] : reg \in {g \in children[i] : g[1] = c}})

\* Faulty variant: the first parent to finish releases the row.
Released_First(i) == {c \in ChildrenOf(i) : state[c] = "Waiting"}

\* Faulty variant: the row is released only if its count was one before the loop.
Released_LastOnly(i) == {c \in ChildrenOf(i) : state[c] = "Waiting" /\ pending_parents[c] = 1}

\* The rows whose count of unfinished parents lands on zero in the loop.
Released(i) == {c \in ChildrenOf(i) : state[c] = "Waiting"
                                      /\ pending_parents[c] \in 1..Count(i, c)}

done_finished(w, t, out) ==
    LET i == task_index[t] IN
    /\ done_result(w, t) = "OK"
    /\ output' = [output EXCEPT ![i] = out]
    /\ pending_parents' = [c \in Rows |-> pending_parents[c] - Count(i, c)]
    /\ state' = [r \in Rows |-> IF r = i THEN "Finished"
                                ELSE IF r \in Released(i) THEN "Ready"
                                ELSE state[r]]
    /\ enqueue(Released(i), queues, priority, seq)
    /\ UNCHANGED <<columns, worker_id, terminal_origin>>

done_failed(w, t, out) ==
    /\ done_result(w, t) = "OK"
    /\ EndWithDependents(task_index[t], "Failed", out, worker_id[task_index[t]])

\* Refused, or accepted and dropped because the task was canceled.
done_refused(w, t) ==
    /\ done_result(w, t) # "OK"
    /\ UNCHANGED vars

----------------------------------------------------------------------------

Next ==
    \/ \E t \in TaskId, pl \in ParentLists :
         \/ \E ql \in QueueLists, p \in Priority : add(t, pl, ql, p)
         \/ add_refused(t, pl)
    \/ \E t \in TaskId :
         \/ cancel(t)
         \/ cancel_refused(t)
         \/ \E p \in Priority : next_seq < MaxSeq /\ set_priority(t, p)
         \/ set_priority_refused(t)
    \/ \E ql \in QueueLists :
         \/ \E w \in WorkerId : get_claim(w, ql)
         \/ get_none(ql)
    \/ \E w \in WorkerId, t \in TaskId :
         \/ \E out \in Output : done_finished(w, t, out) \/ done_failed(w, t, out)
         \/ done_refused(w, t)

Spec == Init /\ [][Next]_vars
----------------------------------------------------------------------------
(* The reads.  A read that finds no row answers NotFound.                  *)

get_status(t) == IF task_index[t] = NoRow THEN "Undefined" ELSE state[task_index[t]]

get_output(t) == IF task_index[t] = NoRow THEN "NotFound" ELSE output[task_index[t]]

get_priority(t) == IF task_index[t] = NoRow THEN "NotFound" ELSE priority[task_index[t]]

get_worker_id(t) ==
    IF task_index[t] = NoRow THEN "NotFound"
    ELSE IF state[task_index[t]] # "Running" THEN "NotRunning"
    ELSE worker_id[task_index[t]]

get_count_by_state == [st \in TaskState |-> Cardinality({r \in Rows : state[r] = st})]

\* A pattern: whether it compiles, and the ids it then matches.
Pattern == [ok : BOOLEAN, matches : SUBSET TaskId]

search_id(pattern) ==
    IF pattern.ok
    THEN [code |-> "OK", key |-> Keep(task_id, {r \in Rows : task_id[r] \in pattern.matches})]
    ELSE [code |-> "InvalidArgument", key |-> <<>>]

----------------------------------------------------------------------------
(* Safety                                                                  *)

\* pending_parents of a row is the number of places of its parent list whose
\* task has yet to finish: the count at task_add and the releases at task_done
\* never drift apart (task-manager.cpp 167-173 and 433-439), whatever is
\* repeated in the list and whatever was canceled or failed meanwhile.
PendingExact ==
    \A r \in Rows : pending_parents[r] =
        Cardinality({k \in DOMAIN parents[r] : state[parents[r][k]] # "Finished"})

IndexInverse ==
    /\ \A t \in TaskId : task_index[t] # NoRow => task_id[task_index[t]] = t
    /\ \A r \in Rows : task_index[task_id[r]] = r

ParentsPrecede == \A r \in Rows : \A k \in DOMAIN parents[r] : parents[r][k] < r

ChildrenExact ==
    \A p \in Rows :
        /\ \A reg \in children[p] : /\ reg[2] \in DOMAIN parents[reg[1]]
                                    /\ parents[reg[1]][reg[2]] = p
        /\ state[p] # "Finished" =>
             \A c \in Rows : \A k \in DOMAIN parents[c] :
                parents[c][k] = p => <<c, k>> \in children[p]

\* The index and the table name each other, a task depends on earlier tasks
\* only, and the children list of a task that has yet to finish holds exactly
\* the places where later tasks name it as a parent, repeated places apart
\* (task-manager.cpp 94-104, 151, 167-173).
GraphConsistent == IndexInverse /\ ParentsPrecede /\ ChildrenExact

\* A task is offered to workers, run or finished only when every task it
\* depends on has finished (task-manager.cpp 147 and 435).
DispatchAfterParents ==
    \A r \in Rows : state[r] \in {"Ready", "Running", "Finished"} =>
        \A k \in DOMAIN parents[r] : state[parents[r][k]] = "Finished"

\* A Waiting task has a parent that can still finish and none that never will:
\* the ending of a parent reaches every task below it, so no task waits for
\* ever on one that failed or was canceled (task-manager.cpp 53-80, 137-149).
NoStrandedWaiter ==
    \A r \in Rows : state[r] = "Waiting" =>
        /\ \E k \in DOMAIN parents[r] : state[parents[r][k]] \in Active
        /\ \A k \in DOMAIN parents[r] : state[parents[r][k]] \notin Ended

\* Among the live and the dead entries of a queue, the ones task_get would use
\* are exactly one per place of the queue in the list of each Ready row, at
\* the row's current priority and seq (task-manager.cpp 36-44, 303-305, 370).
LiveEntriesExact ==
    \A q \in QueueName : Usable(q) =
        UNION {{[priority |-> priority[r], seq |-> seq[r], index |-> r, slot |-> k]
                  : k \in {j \in DOMAIN queues[r] : queues[r][j] = q}}
                : r \in {s \in Rows : state[s] = "Ready"}}

\* A row that failed or was canceled names as its origin a row that ended the
\* same way on its own account, and inherited it along a chain of parents that
\* all name that row; its output says so (data-structures.hpp 166-172).
OriginNamesCulprit ==
    \A r \in Rows : state[r] \in Ended =>
        LET o == terminal_origin[r] IN
        /\ state[o] = state[r] /\ terminal_origin[o] = o
        /\ r # o => /\ output[r] = terminal_output(state[r], task_id[o])
                    /\ \E k \in DOMAIN parents[r] :
                         LET p == parents[r][k] IN
                         state[p] = state[r] /\ terminal_origin[p] = o

CountsAgree ==
    \A st \in TaskState :
        get_count_by_state[st] = Cardinality({t \in TaskId : get_status(t) = st})

SearchAgrees ==
    \A pattern \in Pattern : search_id(pattern).code = "OK" =>
        LET found == search_id(pattern).key IN
        /\ {found[i] : i \in DOMAIN found} = {t \in pattern.matches : get_status(t) # "Undefined"}
        /\ \A i, j \in DOMAIN found : i < j => task_index[found[i]] < task_index[found[j]]

\* What one id reads, the counts over the table and a search agree: the table
\* holds one row for each known id, and a search whose pattern compiles lists the
\* known ids it matches, once each, in the order they were added (task-manager.cpp 85-89, 151, 212-249,
\* 328-345).
ReadsAgree == CountsAgree /\ SearchAgrees

----------------------------------------------------------------------------
(* What a step may never do                                                *)

\* A task that is final keeps its state, its output and its origin, and a task
\* that is Running stays with the worker that claimed it until it is final:
\* late reports, later cancels and endings passed down from another parent
\* leave it alone (task-manager.cpp 66-69, 260-263, 403-414).
FinalStaysFinal ==
    [][\A r \in Rows :
         /\ state[r] \in Final =>
              <<state'[r], output'[r], terminal_origin'[r]>>
                = <<state[r], output[r], terminal_origin[r]>>
         /\ state[r] = "Running" =>
              \/ state'[r] \in Final
              \/ state'[r] = "Running" /\ worker_id'[r] = worker_id[r]]_vars

----------------------------------------------------------------------------
(* Liveness.  The server starts nothing on its own: it is the workers that *)
(* poll and report.  Fairness says that some worker keeps polling a list   *)
(* that holds every queue, and that the worker holding a task reports.     *)

PollsEverything(ql) == \A q \in QueueName : \E k \in DOMAIN ql : ql[k] = q

Fairness ==
    /\ WF_vars(\E w \in WorkerId, ql \in QueueLists : PollsEverything(ql) /\ get_claim(w, ql))
    /\ \A t \in TaskId :
         WF_vars(\E w \in WorkerId, out \in Output :
                   done_finished(w, t, out) \/ done_failed(w, t, out))

FairSpec == Spec /\ Fairness

\* Every task that was added comes to an end: no release is lost at task_done,
\* no Ready task is missing from its queues, none waits on a task that ended
\* (task-manager.cpp 53-80, 355-384, 433-439).  It is stated for task lists
\* that name at least one queue: a task added to no queue stays Ready.
EveryTaskEnds ==
    \A t \in TaskId : (get_status(t) # "Undefined") ~> (get_status(t) \in Final)
============================================================================
