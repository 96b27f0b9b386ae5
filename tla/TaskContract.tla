---------------------------- MODULE TaskContract ----------------------------
(***************************************************************************)
(* What the task operations promise their callers, in terms of task ids:   *)
(* no rows, no counts of unfinished parents, no lists of children, no      *)
(* entries left over in queues.  A task depends on a set of tasks and      *)
(* wants a set of queues; who is Ready, who ends with whom and who is      *)
(* dispatched next is said directly of those.  The functions are defined   *)
(* on the ids added so far.                                                *)
(***************************************************************************)
EXTENDS Integers, Sequences

CONSTANTS TaskId, WorkerId, QueueName, Priority, Output, Empty,
          PollLists,          \* the queue lists workers poll with
          Nobody,             \* the holder of a task no worker holds
          CanceledOutput,     \* what a canceled task reports
          DependencyFailed(_) \* what a task reports whose ancestor failed

VARIABLES
    added,      \* the ids, in the order they were added
    status,     \* the TaskState of a task
    needs,      \* the ids a task depends on
    wants,      \* the queues a task may be dispatched through
    prio,
    arrival,    \* orders the tasks by when they last became available
    holder,     \* the worker a Running task is with
    result,     \* its output
    culprit     \* the task whose ending decided that of a task

vars == <<added, status, needs, wants, prio, arrival, holder, result, culprit>>

Active == {"Waiting", "Ready", "Running"}
Ended == {"Failed", "Canceled"}
Known == DOMAIN status

Init ==
    /\ added = <<>>
    /\ \A f \in {status, needs, wants, prio, arrival, holder, result, culprit} : f = <<>>

-----------------------------------------------------------------------------

\* The function f with id t given the value v.
With(f, t, v) == [u \in DOMAIN f \cup {t} |-> IF u = t THEN v ELSE f[u]]

AddedEarlier(t, u) ==
    \E i, j \in DOMAIN added : i < j /\ added[i] = t /\ added[j] = u

\* The tasks of R become available now, in the order they were added: each
\* goes behind every task there is.  The others keep their place.
Arrive(R) ==
    /\ DOMAIN arrival' = DOMAIN status'
    /\ \A t \in DOMAIN arrival \ R : arrival'[t] = arrival[t]
    /\ \A t \in R : \A u \in DOMAIN arrival : arrival'[t] > arrival[u]
    /\ \A t, u \in R : AddedEarlier(t, u) => arrival'[t] < arrival'[u]

\* Everything that depends on t, directly or through other tasks.
Dependents(t) ==
    {u \in Known : \A S \in SUBSET Known :
        (\A v \in Known : (needs[v] \cap (S \cup {t}) # {}) => v \in S) => u \in S}

ReadyFor(q) == {t \in Known : status[t] = "Ready" /\ q \in wants[t]}

\* Task t is dispatched before task u.
Precedes(t, u) == prio[t] > prio[u] \/ (prio[t] = prio[u] /\ arrival[t] < arrival[u])

----------------------------------------------------------------------------

\* A new task takes the ending of a parent that failed, else of one that was
\* canceled, else waits for the parents that have yet to finish.
StatusUnder(D) ==
    LET among(st) == \E d \in D : status[d] = st IN
    IF among("Failed") THEN "Failed"
    ELSE IF among("Canceled") THEN "Canceled"
    ELSE IF \E d \in D : status[d] # "Finished" THEN "Waiting"
    ELSE "Ready"

Add(t, D, Q, p) ==
    LET st == StatusUnder(D) IN
    /\ t \notin Known /\ D \subseteq Known
    /\ added' = Append(added, t)
    /\ needs' = With(needs, t, D)
    /\ wants' = With(wants, t, Q)
    /\ prio' = With(prio, t, p)
    /\ status' = With(status, t, st)
    /\ holder' = With(holder, t, Nobody)
    /\ \E c \in IF st \in Ended THEN {culprit[d] : d \in {e \in D : status[e] = st}} ELSE {t} :
         /\ culprit' = With(culprit, t, c)
         /\ result' = With(result, t, IF st = "Failed" THEN DependencyFailed(c)
                                      ELSE IF st = "Canceled" THEN CanceledOutput
                                      ELSE Empty)
    /\ Arrive(IF st = "Ready" THEN {t} ELSE {})

\* Task t ends in state st with output out; what depends on it and has not
\* ended or finished ends with it.
EndAll(t, st, out) ==
    LET D == {u \in Dependents(t) : status[u] \in Active} IN
    /\ UNCHANGED <<added, needs, wants, prio, arrival>>
    /\ status' = [u \in Known |-> IF u = t \/ u \in D THEN st ELSE status[u]]
    /\ holder' = [u \in Known |-> IF u = t \/ u \in D THEN Nobody ELSE holder[u]]
    /\ culprit' = [u \in Known |-> IF u = t \/ u \in D THEN t ELSE culprit[u]]
    /\ result' = [u \in Known |-> IF u = t THEN out
                                  ELSE IF u \notin D THEN result[u]
                                  ELSE IF st = "Failed" THEN DependencyFailed(t)
                                  ELSE CanceledOutput]

Cancel(t) ==
    /\ t \in Known /\ status[t] \in Active
    /\ EndAll(t, "Canceled", CanceledOutput)

\* A task that is Ready goes behind the tasks of its new priority.
SetPriority(t, p) ==
    /\ t \in Known
    /\ prio' = [prio EXCEPT ![t] = p]
    /\ UNCHANGED <<added, status, needs, wants, holder, result, culprit>>
    /\ Arrive(IF status[t] = "Ready" THEN {t} ELSE {})

\* Worker w takes the first task of the first queue of ql that has one.
Claim(w, ql) ==
    \E k \in DOMAIN ql :
      /\ \A j \in 1..(k - 1) : ReadyFor(ql[j]) = {}
      /\ \E t \in ReadyFor(ql[k]) :
           /\ \A u \in ReadyFor(ql[k]) : ~Precedes(u, t)
           /\ status' = [status EXCEPT ![t] = "Running"]
           /\ holder' = [holder EXCEPT ![t] = w]
      /\ UNCHANGED <<added, needs, wants, prio, arrival, result, culprit>>

Holds(w, t) == t \in Known /\ status[t] = "Running" /\ holder[t] = w

\* The tasks that waited for t alone become available.
Finish(w, t, out) ==
    LET R == {u \in Known : /\ status[u] = "Waiting" /\ t \in needs[u]
                            /\ \A d \in needs[u] \ {t} : status[d] = "Finished"}
    IN
    /\ Holds(w, t)
    /\ status' = [u \in Known |-> IF u = t THEN "Finished"
                                  ELSE IF u \in R THEN "Ready" ELSE status[u]]
    /\ holder' = [holder EXCEPT ![t] = Nobody]
    /\ result' = [result EXCEPT ![t] = out]
    /\ UNCHANGED <<added, needs, wants, prio, culprit>>
    /\ Arrive(R)

Fail(w, t, out) ==
    /\ Holds(w, t)
    /\ EndAll(t, "Failed", out)

Next ==
    \/ \E t \in TaskId \ Known :
         \E D \in SUBSET Known, Q \in SUBSET QueueName, p \in Priority : Add(t, D, Q, p)
    \/ \E t \in TaskId : Cancel(t) \/ \E p \in Priority : SetPriority(t, p)
    \/ \E w \in WorkerId, ql \in PollLists : Claim(w, ql)
    \/ \E w \in WorkerId, t \in TaskId, out \in Output : Finish(w, t, out) \/ Fail(w, t, out)

Spec == Init /\ [][Next]_vars
=============================================================================
