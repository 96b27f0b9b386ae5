------------------------------ MODULE Workers ------------------------------
(***************************************************************************)
(* Workers that run the claim-work-report loop of docs/how-to-guides/      *)
(* write-a-worker.md against the task manager, over calls that can fail.   *)
(* A call that fails leaves its request on the wire: it is executed later, *)
(* or lost.  A worker that cannot reach the server ends, except that it    *)
(* may report again.  Worker ids are unique, as the guide asks, and the    *)
(* output of a run is the id of the worker that made it.                   *)
(*                                                                         *)
(* Submitters add and cancel tasks in one step each.                       *)
(***************************************************************************)
EXTENDS TaskManager, Errors, SequencesExt

CONSTANTS NoJob,      \* no task, and no reply yet
          Survivors,  \* the workers that do not die and whose calls do not fail
          Failures,   \* the statuses gRPC may end a call with on its own
          MaxReports  \* how often a worker reports one run before it gives up

\* The output of a run is the id of its worker; the statuses gRPC makes on its
\* own are not those that say what the server found (statuscodes.md of gRPC).
ASSUME WorkersAssumption ==
    /\ Survivors \subseteq WorkerId /\ WorkerId \subseteq Output
    /\ Failures \subseteq StatusCode \ {"OK", "NOT_FOUND", "FAILED_PRECONDITION"}
    /\ MaxReports \in Nat
    /\ NoJob \notin TaskId
    /\ NoJob \notin [code : {"OK", "NotFound", "FailedPrecondition"}, task : TaskId \cup {NoJob}]

VARIABLES
    pc,      \* "idle", "getting", "running", "report", "reporting" or "gone"
    job,     \* the task a worker holds, whether its run failed and how often
             \* a report of it failed; or NoJob
    wire,    \* its requests; live: the one it waits for
    reply_,  \* the reply to that one: a task or NoJob, with the code
    claims,  \* history: the <<worker, task>> of every claim the server granted,
             \* in order, whether its reply arrives or not
    runs     \* history: the <<worker, task>> of every run

workers == <<pc, job, wire, reply_, claims, runs>>
allvars == <<vars, workers>>

WInit ==
    /\ Init
    /\ pc = [w \in WorkerId |-> "idle"]
    /\ job = [w \in WorkerId |-> NoJob]
    /\ wire = [w \in WorkerId |-> <<>>]
    /\ reply_ = [w \in WorkerId |-> NoJob]
    /\ claims = <<>>
    /\ runs = {}

----------------------------------------------------------------------------
(* The worker                                                              *)

\* A call of task_get or task_done goes out.
call(w, op, at) ==
    /\ pc' = [pc EXCEPT ![w] = at]
    /\ wire' = [wire EXCEPT ![w] = Append(@, [op |-> op, job |-> job[w], live |-> TRUE])]
    /\ UNCHANGED <<vars, job, reply_, claims, runs>>

poll(w) == pc[w] = "idle" /\ call(w, "task_get", "getting")

\* The work ends, and how it ended is reported.
work(w, failed) ==
    /\ pc[w] = "running"
    /\ job' = [job EXCEPT ![w].failed = failed]
    /\ pc' = [pc EXCEPT ![w] = "report"]
    /\ UNCHANGED <<vars, wire, reply_, claims, runs>>

report(w) == pc[w] = "report" /\ call(w, "task_done", "reporting")

Calling(w) == pc[w] \in {"getting", "reporting"}
Op(w) == IF pc[w] = "getting" THEN "task_get" ELSE "task_done"

\* The call of w ends: it returns, or raises what the loop catches, or raises
\* anything else, which ends the worker or, of a report, has it repeated.
ends(w, out) ==
    /\ pc' = [pc EXCEPT ![w] =
                IF Op(w) = "task_get" /\ out = "OK" THEN "running"
                ELSE IF out \in {"OK", "NoTaskAvailable", "TaskStateError"} THEN "idle"
                ELSE @]
    /\ job' = [job EXCEPT ![w] =
                IF Op(w) = "task_get" /\ out = "OK"
                THEN [task |-> reply_[w].task, failed |-> FALSE, tries |-> 0] ELSE NoJob]
    /\ runs' = IF Op(w) = "task_get" /\ out = "OK"
               THEN runs \cup {<<w, reply_[w].task>>} ELSE runs

returns(w) ==
    /\ Calling(w) /\ reply_[w] # NoJob
    /\ LET out == Outcome(Op(w), reply(reply_[w].code)) IN
       /\ out \in {"OK", "NoTaskAvailable", "TaskStateError"}
       /\ ends(w, out)
    /\ reply_' = [reply_ EXCEPT ![w] = NoJob]
    /\ UNCHANGED <<vars, wire, claims>>

GivenUp(w) == [i \in DOMAIN wire[w] |-> [wire[w][i] EXCEPT !.live = FALSE]]

\* gRPC ends the call without the answer of the server.
fails(w, status) ==
    LET out == Outcome(Op(w), status) IN
    /\ Calling(w) /\ w \notin Survivors
    /\ IF out \in {"OK", "NoTaskAvailable", "TaskStateError"} THEN ends(w, out)
       ELSE /\ \/ pc' = [pc EXCEPT ![w] = "gone"] /\ UNCHANGED job
               \/ /\ Op(w) = "task_done" /\ job[w].tries + 1 < MaxReports
                  /\ pc' = [pc EXCEPT ![w] = "report"]
                  /\ job' = [job EXCEPT ![w].tries = @ + 1]
            /\ UNCHANGED runs
    /\ wire' = [wire EXCEPT ![w] = GivenUp(w)]
    /\ reply_' = [reply_ EXCEPT ![w] = NoJob]
    /\ UNCHANGED <<vars, claims>>

die(w) ==
    /\ pc[w] # "gone" /\ w \notin Survivors
    /\ pc' = [pc EXCEPT ![w] = "gone"]
    /\ wire' = [wire EXCEPT ![w] = GivenUp(w)]
    /\ reply_' = [reply_ EXCEPT ![w] = NoJob]
    /\ UNCHANGED <<vars, job, claims, runs>>

----------------------------------------------------------------------------
(* The server executes the i-th request of w.                              *)

Answered(w, i, code, t) ==
    /\ wire' = [wire EXCEPT ![w] = RemoveAt(@, i)]
    /\ reply_' = [reply_ EXCEPT ![w] = IF wire[w][i].live THEN [code |-> code, task |-> t] ELSE @]
    /\ UNCHANGED <<pc, job, runs>>

TaskGet(w, i) ==
    \E ql \in QueueLists :
        /\ wire[w][i].op = "task_get"
        /\ \/ /\ get_claim(w, ql)
              /\ \E r \in Rows :
                   /\ state' = [state EXCEPT ![r] = "Running"]
                   /\ worker_id' = [worker_id EXCEPT ![r] = w]
                   /\ Answered(w, i, "OK", task_id[r])
                   /\ claims' = Append(claims, <<w, task_id[r]>>)
           \/ get_none(ql) /\ Answered(w, i, "NotFound", NoJob) /\ UNCHANGED claims

done_code(w, t) ==
    LET r == done_result(w, t) IN
    IF r \in {"OK", "Dropped"} THEN "OK"
    ELSE IF r = "NotFound" THEN r ELSE "FailedPrecondition"

TaskDone(w, i) ==
    LET j == wire[w][i].job IN
    /\ wire[w][i].op = "task_done"
    /\ \/ ~j.failed /\ done_finished(w, j.task, w)
       \/ j.failed /\ done_failed(w, j.task, w)
       \/ done_refused(w, j.task)
    /\ Answered(w, i, done_code(w, j.task), NoJob)
    /\ UNCHANGED claims

lose(w, i) ==
    /\ w \notin Survivors
    /\ wire' = [wire EXCEPT ![w] = RemoveAt(@, i)]
    /\ UNCHANGED <<vars, pc, job, reply_, claims, runs>>

----------------------------------------------------------------------------

submit ==
    /\ \/ \E t \in TaskId, pl \in ParentLists, ql \in QueueLists, p \in Priority :
            add(t, pl, ql, p)
       \/ \E t \in TaskId : cancel(t)
       \/ \E t \in TaskId, p \in Priority : next_seq < MaxSeq /\ set_priority(t, p)
    /\ UNCHANGED workers

serve(w) == \E i \in DOMAIN wire[w] : TaskGet(w, i) \/ TaskDone(w, i)

step(w) == poll(w) \/ (\E failed \in BOOLEAN : work(w, failed)) \/ report(w) \/ returns(w)

WNext ==
    \/ submit
    \/ \E w \in WorkerId :
         \/ step(w) \/ serve(w) \/ die(w)
         \/ \E status \in Failures : fails(w, status)
         \/ \E i \in DOMAIN wire[w] : lose(w, i)

WSpec == WInit /\ [][WNext]_allvars

\* A live worker goes on with its loop, the server executes what reaches it,
\* and a call without an answer ends at its deadline.
WFairSpec ==
    /\ WSpec
    /\ \A w \in WorkerId :
         /\ WF_allvars(step(w))
         /\ WF_allvars(serve(w))
         /\ WF_allvars(\E status \in Failures : fails(w, status))

----------------------------------------------------------------------------
(* Properties                                                              *)

\* The server hands no task out twice, to two workers or to one, whatever its
\* queues, its priorities and the calls that fail, and also when the reply to a
\* claim is lost or the request had been given up on (task-manager.cpp 363-378):
\* an entry left behind in a second queue or at an old priority is never claimed
\* again.  What a worker runs was handed to it.
RunOnce ==
    /\ \A i, j \in DOMAIN claims : claims[i][2] = claims[j][2] => i = j
    /\ \A e \in runs : \E i \in DOMAIN claims : claims[i] = e

\* A task that is Running is in the hands of the worker the table names: that
\* worker runs it, reports it, or has the answer on its way.  Only a worker
\* that is gone leaves a task behind; in particular one that could not tell an
\* empty queue from a lost answer would go on and never learn of its task
\* (client.py 370-373, task-manager.cpp 375-377).
NoneForgotten ==
    \A r \in Rows : state[r] = "Running" =>
        LET w == worker_id[r] IN
        \/ pc[w] = "gone"
        \/ pc[w] \in {"running", "report", "reporting"} /\ job[w].task = task_id[r]
        \/ pc[w] = "getting" /\ reply_[w] # NoJob /\ reply_[w].task = task_id[r]

\* A worker that is told TaskStateError may drop its result: it is recorded as
\* this worker reported it, by a call it had given up on.  One whose report is
\* accepted has it recorded, unless the task was canceled (task-manager.cpp
\* 401-416).
ReportSettled ==
    \A w \in WorkerId : (pc[w] = "reporting" /\ reply_[w] # NoJob) =>
        LET r == task_index[job[w].task] IN
        \/ output[r] = w /\ state[r] = (IF job[w].failed THEN "Failed" ELSE "Finished")
        \/ state[r] = "Canceled" /\ Outcome("task_done", reply(reply_[w].code)) = "OK"

Orphans == {r \in Rows : state[r] = "Running" /\ pc[worker_id[r]] = "gone"}

Settled(t) ==
    \/ state[task_index[t]] \in Final
    \/ \E r \in Orphans : task_index[t] \in Reached(r) \cup {r}

\* Every task that is added ends, unless it or a task it depends on was left
\* Running by a worker that is gone, as long as one worker survives
\* (task-manager.cpp 349-387, 433-439).
EveryTaskSettles ==
    \A t \in TaskId : (task_index[t] # NoRow) ~> (task_index[t] # NoRow /\ Settled(t))
============================================================================
