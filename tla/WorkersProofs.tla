--------------------------- MODULE WorkersProofs ---------------------------
(***************************************************************************)
(* No task is run twice, forgotten or reported in vain by the workers of   *)
(* module Workers, whichever of their calls fail or are executed late.     *)
(* The argument: a row that was claimed is never Ready again, so it is     *)
(* granted once; a request on the wire is the one its worker waits for, or *)
(* one it gave up on, and those can only repeat what it reports.           *)
(***************************************************************************)
EXTENDS Workers, TaskManagerProofs

Job == [task : TaskId, failed : BOOLEAN, tries : Nat]
Request == [op : {"task_get", "task_done"}, job : Job \cup {NoJob}, live : BOOLEAN]
Reply == [code : {"OK", "NotFound", "FailedPrecondition"}, task : TaskId \cup {NoJob}]

WorkerTypes ==
    /\ pc \in [WorkerId -> {"idle", "getting", "running", "report", "reporting", "gone"}]
    /\ job \in [WorkerId -> Job \cup {NoJob}]
    /\ wire \in [WorkerId -> Seq(Request)]
    /\ reply_ \in [WorkerId -> Reply \cup {NoJob}]
    /\ runs \in SUBSET (WorkerId \X TaskId)

\* Task t is with worker w, or was canceled there.
Holding(w, t) ==
    LET r == task_index[t] IN
    /\ r \in Rows
    /\ (state[r] = "Running" /\ worker_id[r] = w) \/ state[r] = "Canceled"

\* The table has what worker w says of its job j.
Recorded(w, j) ==
    LET r == task_index[j.task] IN
    r \in Rows /\ output[r] = w /\ state[r] = (IF j.failed THEN "Failed" ELSE "Finished")

HasJob(w) == pc[w] \in {"running", "report", "reporting"}
Granted(w) == pc[w] = "getting" /\ reply_[w] # NoJob /\ reply_[w].code = "OK"

\* What was run has been claimed, and is never Waiting or Ready again.
RunsPast ==
    \A e \in runs : task_index[e[2]] \in Rows /\ state[task_index[e[2]]] \notin {"Waiting", "Ready"}

JobsHeld ==
    \A w \in WorkerId : HasJob(w) =>
        /\ job[w] \in Job /\ <<w, job[w].task>> \in runs
        /\ Holding(w, job[w].task) \/ (pc[w] # "running" /\ Recorded(w, job[w]))

\* A task on its way to a worker was not run, and is on its way to one worker.
GrantsNew ==
    \A w \in WorkerId : Granted(w) =>
        LET t == reply_[w].task IN
        /\ t \in TaskId /\ Holding(w, t)
        /\ \A e \in runs : e[2] # t
        /\ \A v \in WorkerId : Granted(v) /\ reply_[v].task = t => v = w

RepliesFit ==
    \A w \in WorkerId : reply_[w] # NoJob =>
        /\ Calling(w)
        /\ pc[w] = "getting" /\ reply_[w].code # "OK" => reply_[w] = [code |-> "NotFound", task |-> NoJob]

\* Request m of worker w: the one it waits for or, with the worker gone or
\* reporting again, one it gave up on; a report says what its worker says.
Fits(w, m) ==
    /\ m.live => /\ Calling(w) /\ m.op = Op(w) /\ reply_[w] = NoJob
                 /\ m.op = "task_done" => m.job = job[w]
    /\ m.op = "task_get" => m.live \/ pc[w] = "gone"
    /\ m.op = "task_done" =>
         /\ m.job \in Job /\ <<w, m.job.task>> \in runs
         /\ pc[w] = "running" => m.job.task # job[w].task
         /\ pc[w] \in {"report", "reporting"} /\ m.job.task = job[w].task => m.job.failed = job[w].failed

WireOk(w) ==
    /\ \A i \in DOMAIN wire[w] : Fits(w, wire[w][i])
    /\ \A i, j \in DOMAIN wire[w] : wire[w][i].live /\ wire[w][j].live => i = j

WireFits == \A w \in WorkerId : WireOk(w)

Assigned == \A r \in Rows : state[r] = "Running" => worker_id[r] \in WorkerId

LocalInv ==
    /\ RunsPast /\ JobsHeld /\ GrantsNew /\ RepliesFit /\ WireFits /\ Assigned
    /\ NoneForgotten /\ ReportSettled

WorkersInv == GraphInv /\ WorkerTypes /\ LocalInv

----------------------------------------------------------------------------
(* Requests and errors                                                     *)

\* What is left of a wire when a request is taken from it.
LEMMA RemoveAtElements ==
    ASSUME NEW S, NEW s \in Seq(S), NEW i \in DOMAIN s
    PROVE  /\ RemoveAt(s, i) \in Seq(S)
           /\ DOMAIN RemoveAt(s, i) = 1..(Len(s) - 1)
           /\ \A j \in 1..(Len(s) - 1) :
                RemoveAt(s, i)[j] = s[IF j < i THEN j ELSE j + 1]
<1>. DEFINE a == SubSeq(s, 1, i - 1)
            b == SubSeq(s, i + 1, Len(s))
<1>1. Len(s) \in Nat /\ i \in 1..Len(s)
  OBVIOUS
<1>2. a \in Seq(S) /\ Len(a) = i - 1 /\ \A j \in 1..(i - 1) : a[j] = s[j]
  BY <1>1
<1>3. b \in Seq(S) /\ Len(b) = Len(s) - i /\ \A j \in 1..(Len(s) - i) : b[j] = s[i + j]
  BY <1>1
<1>. HIDE DEF a, b
<1>4. /\ a \o b \in Seq(S) /\ Len(a \o b) = Len(s) - 1
      /\ \A j \in 1..(Len(s) - 1) : (a \o b)[j] = IF j <= i - 1 THEN a[j] ELSE b[j - (i - 1)]
  BY <1>1, <1>2, <1>3
<1>5. ASSUME NEW j \in 1..(Len(s) - 1) PROVE (a \o b)[j] = s[IF j < i THEN j ELSE j + 1]
  <2>1. CASE j < i
    BY <1>1, <1>2, <1>4, <2>1
  <2>2. CASE ~(j < i)
    <3>1. j - (i - 1) \in 1..(Len(s) - i) /\ i + (j - (i - 1)) = j + 1 /\ ~(j <= i - 1)
      BY <1>1, <2>2
    <3>. QED
      BY <1>3, <1>4, <2>2, <3>1
  <2>. QED
    BY <2>1, <2>2
<1>6. RemoveAt(s, i) = a \o b
  BY DEF RemoveAt, a, b
<1>. QED
  BY <1>1, <1>4, <1>5, <1>6

\* A call that gRPC ends on its own is neither taken for an answer of the
\* server nor for an empty queue or a report that came too late.
LEMMA FailuresTold ==
    ASSUME NEW status \in Failures, NEW op \in {"task_get", "task_done"}
    PROVE  Outcome(op, status) \notin {"OK", "NoTaskAvailable", "TaskStateError"}
<1>1. status \in {"ALREADY_EXISTS", "INVALID_ARGUMENT", "RESOURCE_EXHAUSTED", "UNAVAILABLE",
                  "DEADLINE_EXCEEDED", "CANCELLED", "UNKNOWN", "INTERNAL"}
  BY WorkersAssumption DEF StatusCode
<1>2. from_status_code(status) \in {"AlreadyExists", "InvalidArgument", "MessageTooLarge", "Unavailable",
                                    "DeadlineExceeded", "Cancelled", "Transport"}
  BY <1>1 DEF from_status_code
<1>3. translate_error(op, from_status_code(status)) \in {"ValueError", "TimeoutError", "TransportError"}
  BY <1>2 DEF translate_error
<1>. QED
  BY <1>1, <1>3 DEF Outcome

\* What a worker makes of the codes the server answers with.
LEMMA AnswersTold ==
    /\ \A op \in {"task_get", "task_done"} : Outcome(op, reply("OK")) = "OK"
    /\ Outcome("task_get", reply("NotFound")) = "NoTaskAvailable"
    /\ Outcome("task_get", reply("FailedPrecondition")) = "TaskStateError"
    /\ Outcome("task_done", reply("NotFound")) = "KeyError"
    /\ Outcome("task_done", reply("FailedPrecondition")) = "TaskStateError"
<1>1. reply("OK") = "OK" /\ reply("NotFound") = "NOT_FOUND" /\ reply("FailedPrecondition") = "FAILED_PRECONDITION"
  BY DEF reply, to_status_code
<1>2. /\ from_status_code("NOT_FOUND") = "NotFound"
      /\ from_status_code("FAILED_PRECONDITION") = "FailedPrecondition"
  BY DEF from_status_code
<1>3. /\ translate_error("task_get", "NotFound") = "NoTaskAvailable"
      /\ translate_error("task_done", "NotFound") = "KeyError"
      /\ translate_error("task_get", "FailedPrecondition") = "TaskStateError"
      /\ translate_error("task_done", "FailedPrecondition") = "TaskStateError"
  BY DEF translate_error, not_found, failed_precondition
<1>. QED
  BY <1>1, <1>2, <1>3 DEF Outcome

----------------------------------------------------------------------------
(* The table, as workers see it                                            *)

\* A step lets row r alone, cancels it under its worker, or has not given it
\* to a worker yet.
RowMoves(r) ==
    \/ state'[r] = state[r] /\ worker_id'[r] = worker_id[r] /\ output'[r] = output[r]
    \/ state[r] = "Running" /\ state'[r] = "Canceled"
    \/ state[r] \in {"Waiting", "Ready"} /\ state'[r] # "Running"

\* A step of the table keeps its rows, and moves no row outside X but as above.
TableKept(X) ==
    /\ \A t \in TaskId : task_index[t] \in Rows => task_index'[t] = task_index[t]
    /\ \A r \in Rows : r \in Rows' /\ task_id'[r] = task_id[r]
    /\ \A r \in Rows' \ Rows : state'[r] # "Running"
    /\ \A r \in Rows \ X : RowMoves(r)

\* A step that does not touch the table, or drops dead entries only.
LEMMA StillTable ==
    ASSUME GraphInv, UNCHANGED <<columns, output, state, worker_id>>, NEW X
    PROVE  TableKept(X)
<1>1. Rows' = Rows
  BY DEF columns, Rows
<1>. QED
  BY <1>1 DEF columns, TableKept, RowMoves

\* The walk down the graph ends rows that wait: a row that was given to a worker
\* has parents that have all finished.
LEMMA ReachedWaits ==
    ASSUME GraphInv, NEW i \in Rows, state[i] \in Active, NEW r \in Reached(i)
    PROVE  state[r] = "Waiting"
<1>. USE DEF GraphInv
<1>1. r \in Rows /\ state[r] \in Active
  BY DEF Reached, Movable
<1>2. PICK p \in Reached(i) \cup {i} : r \in ChildrenOf(p)
  BY ReachedFrom
<1>3. p \in Rows /\ state[p] # "Finished"
  BY <1>2 DEF Reached, Movable, Active
<1>4. PICK reg \in children[p] : r = reg[1]
  BY <1>2 DEF ChildrenOf
<1>5. reg[2] \in DOMAIN parents[r] /\ parents[r][reg[2]] = p
  BY <1>3, <1>4 DEF ChildrenExact
<1>6. state[r] \notin {"Ready", "Running"}
  BY <1>1, <1>3, <1>5 DEF DispatchAfterParents
<1>. QED
  BY <1>1, <1>6 DEF Active

\* A row ends, and what depends on it.
LEMMA EndTable ==
    ASSUME GraphInv, NEW i \in Rows, state[i] \in Active, NEW st \in Ended, NEW out, NEW worker,
           EndWithDependents(i, st, out, worker)
    PROVE  TableKept({i}) /\ state'[i] = st /\ output'[i] = out
<1>1. Rows' = Rows /\ UNCHANGED columns
  BY DEF EndWithDependents, columns, Rows
<1>2. \A r \in Rows \ {i} : r \in Reached(i) \/ (state'[r] = state[r] /\ worker_id'[r] = worker_id[r]
                                                 /\ output'[r] = output[r])
  BY DEF EndWithDependents
<1>3. \A r \in Rows \ {i} : r \in Reached(i) => state[r] = "Waiting" /\ state'[r] = st
  BY ReachedWaits DEF EndWithDependents
<1>4. st # "Running"
  BY DEF Ended
<1>5. \A r \in Rows \ {i} : RowMoves(r)
  BY <1>2, <1>3, <1>4 DEF RowMoves
<1>. QED
  BY <1>1, <1>5 DEF TableKept, columns, EndWithDependents

\* What submitters do gives no task to a worker, and cancels at most.
LEMMA SubmitTable ==
    ASSUME GraphInv, submit
    PROVE  TableKept({})
<1>. USE DEF GraphInv
<1>1. ASSUME NEW t \in TaskId, NEW pl \in ParentLists, NEW ql \in QueueLists, NEW p \in Priority,
             add(t, pl, ql, p)
      PROVE  TableKept({})
  <2>. DEFINE n == Len(task_id)
              st == AddedState([k \in DOMAIN pl |-> task_index[pl[k]]])
  <2>1. n \in Nat /\ Rows = 1..n
    BY DEF Rows, TypeOK
  <2>2. /\ task_index[t] = NoRow /\ task_index' = [task_index EXCEPT ![t] = n + 1]
        /\ task_id' = Append(task_id, t) /\ state' = push_back(state, st)
        /\ \E out : output' = push_back(output, out)
        /\ worker_id' = push_back(worker_id, Empty)
    BY <1>1 DEF add, add_result
  <2>3. Rows' = 1..(n + 1) /\ \A r \in Rows : r \in Rows' /\ task_id'[r] = task_id[r] /\ r # n + 1
    BY <2>1, <2>2 DEF Rows, TypeOK
  <2>4. \A u \in TaskId : task_index[u] \in Rows => task_index'[u] = task_index[u]
    BY <2>1, <2>2 DEF TypeOK, NoRow
  <2>5. st # "Running"
    BY DEF AddedState
  <2>. HIDE DEF st
  <2>6. \A r \in Rows : RowMoves(r)
    BY <2>1, <2>2, <2>3 DEF RowMoves, push_back
  <2>7. \A r \in Rows' \ Rows : state'[r] # "Running"
    <3>1. \A r \in Rows' \ Rows : r = n + 1
      BY <2>1, <2>3
    <3>2. state'[n + 1] = st
      BY <2>1, <2>2 DEF push_back
    <3>. QED
      BY <2>5, <3>1, <3>2
  <2>. QED
    BY <2>3, <2>4, <2>6, <2>7 DEF TableKept
<1>2. ASSUME NEW t \in TaskId, cancel(t) PROVE TableKept({})
  <2>. DEFINE i == task_index[t]
  <2>1. i \in Rows /\ state[i] \in Active /\ "Canceled" \in Ended
    BY <1>2 DEF cancel, cancel_result, TypeOK, Ended
  <2>2. TableKept({i}) /\ state'[i] = "Canceled"
    BY <1>2, <2>1, EndTable DEF cancel
  <2>3. RowMoves(i)
    BY <2>1, <2>2 DEF RowMoves, Active
  <2>. QED
    BY <2>2, <2>3 DEF TableKept
<1>3. ASSUME NEW t \in TaskId, NEW p \in Priority, set_priority(t, p) PROVE TableKept({})
  <2>1. UNCHANGED <<task_id, task_index, state, worker_id, output>> /\ Rows' = Rows
    BY <1>3 DEF set_priority, Rows
  <2>. QED
    BY <2>1 DEF TableKept, RowMoves
<1>. QED
  BY <1>1, <1>2, <1>3 DEF submit

\* A report that is accepted finishes or fails the task of its worker.
LEMMA DoneTable ==
    ASSUME GraphInv, NEW w \in WorkerId, NEW t \in TaskId, NEW failed \in BOOLEAN,
           (~failed /\ done_finished(w, t, w)) \/ (failed /\ done_failed(w, t, w))
    PROVE  LET i == task_index[t] IN
           /\ TableKept({i}) /\ i \in Rows /\ state[i] = "Running" /\ worker_id[i] = w
           /\ output'[i] = w /\ state'[i] = (IF failed THEN "Failed" ELSE "Finished")
<1>. USE DEF GraphInv
<1>. DEFINE i == task_index[t]
<1>1. i \in Rows /\ state[i] = "Running" /\ worker_id[i] = w
  BY DEF done_finished, done_failed, done_result, TypeOK
<1>2. CASE failed /\ done_failed(w, t, w)
  <2>1. state[i] \in Active /\ "Failed" \in Ended
    BY <1>1 DEF Active, Ended
  <2>2. EndWithDependents(i, "Failed", w, worker_id[i])
    BY <1>2 DEF done_failed
  <2>3. TableKept({i}) /\ state'[i] = "Failed" /\ output'[i] = w
    BY <1>1, <2>1, <2>2, EndTable
  <2>. QED
    BY <1>1, <1>2, <2>3
<1>3. CASE ~failed /\ done_finished(w, t, w)
  <2>1. /\ UNCHANGED <<columns, worker_id>> /\ Rows' = Rows
        /\ output' = [output EXCEPT ![i] = w]
        /\ state' = [r \in Rows |-> IF r = i THEN "Finished"
                                    ELSE IF r \in Released(i) THEN "Ready" ELSE state[r]]
    BY <1>3 DEF done_finished, columns, Rows
  <2>2. \A r \in Released(i) : state[r] = "Waiting"
    BY DEF Released
  <2>3. \A r \in Rows \ {i} : RowMoves(r)
    BY <1>1, <2>1, <2>2 DEF RowMoves, TypeOK
  <2>4. TableKept({i})
    BY <2>1, <2>3 DEF TableKept, columns
  <2>. QED
    BY <1>1, <1>3, <2>1, <2>4 DEF TypeOK
<1>. QED
  BY <1>2, <1>3

\* Every step of the workers is a step of the table, or leaves it alone.
LEMMA WorkersStepTable ==
    ASSUME GraphInv, WorkerTypes, WireFits, [WNext]_allvars
    PROVE  [Next]_vars
<1>. USE WorkersAssumption
<1>1. ASSUME UNCHANGED vars PROVE [Next]_vars
  BY <1>1
<1>2. ASSUME submit PROVE Next
  BY <1>2 DEF submit, Next
<1>3. ASSUME NEW w \in WorkerId, NEW i \in DOMAIN wire[w], TaskGet(w, i) PROVE Next
  BY <1>3 DEF TaskGet, Next
<1>4. ASSUME NEW w \in WorkerId, NEW i \in DOMAIN wire[w], TaskDone(w, i) PROVE Next
  <2>1. w \in Output /\ wire[w][i].job.task \in TaskId
    BY <1>4 DEF TaskDone, WireFits, WireOk, Fits, Job
  <2>. QED
    BY <1>4, <2>1 DEF TaskDone, Next
<1>5. ASSUME NEW w \in WorkerId, step(w) \/ die(w) PROVE UNCHANGED vars
  BY <1>5 DEF step, poll, call, work, report, returns, die
<1>6. ASSUME NEW w \in WorkerId, NEW status \in Failures, fails(w, status) PROVE UNCHANGED vars
  BY <1>6 DEF fails
<1>7. ASSUME NEW w \in WorkerId, NEW i \in DOMAIN wire[w], lose(w, i) PROVE UNCHANGED vars
  BY <1>7 DEF lose
<1>. QED
  BY <1>1, <1>2, <1>3, <1>4, <1>5, <1>6, <1>7 DEF WNext, serve, allvars

----------------------------------------------------------------------------
(* Types                                                                   *)

\* The state of the workers keeps its types.
LEMMA WorkerTypesKept ==
    ASSUME GraphInv, WorkerTypes, WireFits, JobsHeld, GrantsNew, RepliesFit, [WNext]_allvars
    PROVE  WorkerTypes'
<1>. DEFINE Place == {"idle", "getting", "running", "report", "reporting", "gone"}
<1>1. ASSUME UNCHANGED workers PROVE WorkerTypes'
  BY <1>1 DEF workers, WorkerTypes
<1>2. ASSUME NEW w \in WorkerId, NEW op \in {"task_get", "task_done"}, NEW at \in Place, call(w, op, at)
      PROVE  WorkerTypes'
  <2>1. [op |-> op, job |-> job[w], live |-> TRUE] \in Request
    BY DEF Request, WorkerTypes
  <2>2. wire' \in [WorkerId -> Seq(Request)]
    BY <1>2, <2>1 DEF call, WorkerTypes
  <2>. QED
    BY <1>2, <2>2 DEF call, WorkerTypes
<1>3. ASSUME NEW w \in WorkerId, NEW failed \in BOOLEAN, work(w, failed) PROVE WorkerTypes'
  <2>1. job[w] \in Job
    BY <1>3 DEF work, JobsHeld, HasJob
  <2>2. [job[w] EXCEPT !.failed = failed] \in Job
    BY <2>1 DEF Job
  <2>. QED
    BY <1>3, <2>2 DEF work, WorkerTypes
<1>4. ASSUME NEW w \in WorkerId, returns(w) PROVE WorkerTypes'
  <2>. DEFINE out == Outcome(Op(w), reply(reply_[w].code))
              j == [task |-> reply_[w].task, failed |-> FALSE, tries |-> 0]
  <2>1. Calling(w) /\ reply_[w] # NoJob /\ ends(w, out) /\ UNCHANGED wire
        /\ reply_' = [reply_ EXCEPT ![w] = NoJob]
    BY <1>4 DEF returns
  <2>2. ASSUME Op(w) = "task_get", out = "OK" PROVE reply_[w].task \in TaskId /\ w \in WorkerId
    <3>1. pc[w] = "getting"
      BY <2>1, <2>2 DEF Op, Calling
    <3>2. reply_[w].code = "OK" \/ reply_[w] = [code |-> "NotFound", task |-> NoJob]
      BY <2>1, <3>1 DEF RepliesFit
    <3>3. reply_[w].code = "OK"
      BY <2>2, <3>2, AnswersTold
    <3>. QED
      BY <2>1, <3>1, <3>3 DEF GrantsNew, Granted
  <2>3. pc' \in [WorkerId -> Place]
    BY <2>1 DEF ends, WorkerTypes
  <2>4. job' \in [WorkerId -> Job \cup {NoJob}]
    <3>1. (Op(w) = "task_get" /\ out = "OK") => j \in Job
      BY <2>2 DEF Job
    <3>. QED
      BY <2>1, <3>1 DEF ends, WorkerTypes
  <2>5. runs' \in SUBSET (WorkerId \X TaskId)
    BY <2>1, <2>2 DEF ends, WorkerTypes
  <2>. QED
    BY <2>1, <2>3, <2>4, <2>5 DEF WorkerTypes
<1>5. ASSUME NEW w \in WorkerId PROVE GivenUp(w) \in Seq(Request)
  <2>1. wire[w] \in Seq(Request)
    BY DEF WorkerTypes
  <2>2. ASSUME NEW m \in Request PROVE [m EXCEPT !.live = FALSE] \in Request
    BY DEF Request
  <2>3. DOMAIN wire[w] = 1..Len(wire[w]) /\ Len(wire[w]) \in Nat /\ \A i \in DOMAIN wire[w] : wire[w][i] \in Request
    BY <2>1
  <2>4. GivenUp(w) \in [1..Len(wire[w]) -> Request]
    BY <2>2, <2>3 DEF GivenUp
  <2>. QED
    BY <2>3, <2>4
<1>6. ASSUME NEW w \in WorkerId, NEW status \in Failures, fails(w, status) PROVE WorkerTypes'
  <2>1. Outcome(Op(w), status) \notin {"OK", "NoTaskAvailable", "TaskStateError"}
    BY FailuresTold DEF Op
  <2>2. Calling(w) /\ wire' = [wire EXCEPT ![w] = GivenUp(w)] /\ reply_' = [reply_ EXCEPT ![w] = NoJob]
    BY <1>6 DEF fails
  <2>3. /\ \/ pc' = [pc EXCEPT ![w] = "gone"] /\ UNCHANGED job
           \/ /\ Op(w) = "task_done" /\ pc' = [pc EXCEPT ![w] = "report"]
              /\ job' = [job EXCEPT ![w].tries = @ + 1]
        /\ UNCHANGED runs
    BY <1>6, <2>1 DEF fails
  <2>4. ASSUME Op(w) = "task_done" PROVE [job[w] EXCEPT !.tries = @ + 1] \in Job
    <3>1. job[w] \in Job
      BY <2>2, <2>4 DEF JobsHeld, HasJob, Calling, Op
    <3>. QED
      BY <3>1 DEF Job
  <2>5. job' \in [WorkerId -> Job \cup {NoJob}]
    BY <2>3, <2>4 DEF WorkerTypes
  <2>. QED
    BY <1>5, <2>2, <2>3, <2>5 DEF WorkerTypes
<1>7. ASSUME NEW w \in WorkerId, die(w) PROVE WorkerTypes'
  BY <1>5, <1>7 DEF die, WorkerTypes
<1>8. ASSUME NEW w \in WorkerId, NEW i \in DOMAIN wire[w] PROVE RemoveAt(wire[w], i) \in Seq(Request)
  <2>1. wire[w] \in Seq(Request)
    BY DEF WorkerTypes
  <2>. QED
    BY <2>1, RemoveAtElements
<1>9. ASSUME NEW w \in WorkerId, NEW i \in DOMAIN wire[w], lose(w, i) PROVE WorkerTypes'
  BY <1>8, <1>9 DEF lose, WorkerTypes
<1>10. ASSUME NEW w \in WorkerId, NEW i \in DOMAIN wire[w],
              NEW code \in {"OK", "NotFound", "FailedPrecondition"}, NEW t \in TaskId \cup {NoJob},
              Answered(w, i, code, t)
       PROVE  WorkerTypes'
  <2>1. [code |-> code, task |-> t] \in Reply
    BY DEF Reply
  <2>. QED
    BY <1>8, <1>10, <2>1 DEF Answered, WorkerTypes
<1>11. ASSUME NEW w \in WorkerId, NEW i \in DOMAIN wire[w], TaskGet(w, i) PROVE WorkerTypes'
  <2>1. \A r \in Rows : task_id[r] \in TaskId
    BY DEF GraphInv, TypeOK, Rows
  <2>. QED
    BY <1>10, <1>11, <2>1 DEF TaskGet
<1>12. ASSUME NEW w \in WorkerId, NEW i \in DOMAIN wire[w], TaskDone(w, i) PROVE WorkerTypes'
  <2>1. done_code(w, wire[w][i].job.task) \in {"OK", "NotFound", "FailedPrecondition"}
    BY DEF done_code
  <2>. QED
    BY <1>10, <1>12, <2>1 DEF TaskDone
<1>13. ASSUME NEW w \in WorkerId, step(w) PROVE WorkerTypes'
  BY <1>2, <1>3, <1>4, <1>13 DEF step, poll, report
<1>. QED
  BY <1>1, <1>6, <1>7, <1>9, <1>11, <1>12, <1>13 DEF WNext, serve, submit, allvars

----------------------------------------------------------------------------
(* The steps of one worker                                                 *)

\* What holds of the table for a worker holds as long as the table stays.
LEMMA StillHeld ==
    ASSUME UNCHANGED vars
    PROVE  /\ Rows' = Rows /\ UNCHANGED <<state, worker_id, output, task_index, task_id>>
           /\ \A v, t : Holding(v, t)' <=> Holding(v, t)
           /\ \A v, j : Recorded(v, j)' <=> Recorded(v, j)
<1>1. Rows' = Rows /\ UNCHANGED <<state, worker_id, output, task_index, task_id>>
  BY DEF vars, columns, Rows
<1>. QED
  BY <1>1 DEF Holding, Recorded

\* A step of worker w that leaves the table and the other workers alone, and
\* after which w waits for no reply that is there.
LEMMA OneWorker ==
    ASSUME WorkersInv, NEW w \in WorkerId, UNCHANGED vars,
           \A v \in WorkerId \ {w} : /\ pc'[v] = pc[v] /\ job'[v] = job[v]
                                     /\ wire'[v] = wire[v] /\ reply_'[v] = reply_[v],
           reply_'[w] = NoJob,
           runs \subseteq runs',
           \A e \in runs' \ runs : Granted(w) /\ e = <<w, reply_[w].task>>,
           HasJob(w)' => /\ job'[w] \in Job /\ <<w, job'[w].task>> \in runs'
                         /\ \/ Holding(w, job'[w].task)
                            \/ pc'[w] # "running" /\ Recorded(w, job'[w]),
           WireOk(w)',
           \A r \in Rows : state[r] = "Running" /\ worker_id[r] = w =>
                pc'[w] = "gone" \/ (HasJob(w)' /\ job'[w].task = task_id[r])
    PROVE  LocalInv'
<1>. USE DEF WorkersInv, LocalInv
<1>1. /\ Rows' = Rows /\ UNCHANGED <<state, worker_id, output, task_index, task_id>>
      /\ \A v, t : Holding(v, t)' <=> Holding(v, t)
      /\ \A v, j : Recorded(v, j)' <=> Recorded(v, j)
  BY StillHeld
<1>2. ~Granted(w)'
  BY DEF Granted
<1>3. \A v \in WorkerId \ {w} : (HasJob(v)' <=> HasJob(v)) /\ (Granted(v)' <=> Granted(v))
  BY DEF HasJob, Granted
<1>4. RunsPast'
  <2>1. ASSUME NEW e \in runs' PROVE (task_index[e[2]] \in Rows /\ state[task_index[e[2]]] \notin {"Waiting", "Ready"})
    <3>1. CASE e \in runs
      BY <3>1 DEF RunsPast
    <3>2. CASE e \notin runs
      <4>1. Granted(w) /\ e[2] = reply_[w].task
        BY <3>2
      <4>2. Holding(w, reply_[w].task)
        BY <4>1 DEF GrantsNew
      <4>. QED
        BY <4>1, <4>2 DEF Holding
    <3>. QED
      BY <3>1, <3>2
  <2>. QED
    BY <1>1, <2>1 DEF RunsPast
<1>5. JobsHeld'
  <2>1. ASSUME NEW v \in WorkerId, HasJob(v)'
        PROVE  /\ job'[v] \in Job /\ <<v, job'[v].task>> \in runs'
               /\ Holding(v, job'[v].task) \/ (pc'[v] # "running" /\ Recorded(v, job'[v]))
    <3>1. CASE v = w
      BY <2>1, <3>1
    <3>2. CASE v # w
      BY <1>3, <2>1, <3>2 DEF JobsHeld
    <3>. QED
      BY <3>1, <3>2
  <2>2. \A v \in WorkerId : (Holding(v, job[v].task)' <=> Holding(v, job'[v].task))
                            /\ (Recorded(v, job[v])' <=> Recorded(v, job'[v]))
    BY <1>1 DEF Holding, Recorded
  <2>. QED
    BY <2>1, <2>2 DEF JobsHeld, Job
<1>6. GrantsNew'
  <2>1. ASSUME NEW v \in WorkerId, Granted(v)'
        PROVE  /\ reply_'[v].task \in TaskId /\ Holding(v, reply_'[v].task)
               /\ \A e \in runs' : e[2] # reply_'[v].task
               /\ \A u \in WorkerId : Granted(u)' /\ reply_'[u].task = reply_'[v].task => u = v
    <3>1. v # w /\ Granted(v) /\ reply_'[v] = reply_[v]
      BY <1>2, <1>3, <2>1
    <3>2. /\ reply_[v].task \in TaskId /\ Holding(v, reply_[v].task)
          /\ \A e \in runs : e[2] # reply_[v].task
          /\ \A u \in WorkerId : Granted(u) /\ reply_[u].task = reply_[v].task => u = v
      BY <3>1 DEF GrantsNew
    <3>3. \A e \in runs' \ runs : e[2] # reply_[v].task
      BY <3>1, <3>2
    <3>4. \A u \in WorkerId : Granted(u)' /\ reply_'[u].task = reply_[v].task => u = v
      BY <1>2, <1>3, <3>2
    <3>. QED
      BY <3>1, <3>2, <3>3, <3>4
  <2>2. \A v \in WorkerId : Holding(v, reply_[v].task)' <=> Holding(v, reply_'[v].task)
    BY <1>1 DEF Holding
  <2>. QED
    BY <2>1, <2>2 DEF GrantsNew
<1>7. RepliesFit'
  BY DEF RepliesFit, Calling
<1>8. WireFits'
  <2>1. ASSUME NEW v \in WorkerId \ {w} PROVE WireOk(v)'
    <3>1. WireOk(v)
      BY DEF WireFits
    <3>. QED
      BY <3>1 DEF WireOk, Fits, Calling, Op
  <2>. QED
    BY <2>1 DEF WireFits
<1>9. NoneForgotten'
  <2>1. ASSUME NEW r \in Rows, state[r] = "Running"
        PROVE  \/ pc'[worker_id[r]] = "gone"
               \/ /\ pc'[worker_id[r]] \in {"running", "report", "reporting"}
                  /\ job'[worker_id[r]].task = task_id[r]
               \/ /\ pc'[worker_id[r]] = "getting" /\ reply_'[worker_id[r]] # NoJob
                  /\ reply_'[worker_id[r]].task = task_id[r]
    <3>1. worker_id[r] \in WorkerId
      BY <2>1 DEF Assigned
    <3>2. CASE worker_id[r] = w
      BY <2>1, <3>2 DEF HasJob
    <3>3. CASE worker_id[r] # w
      BY <2>1, <3>1, <3>3 DEF NoneForgotten
    <3>. QED
      BY <3>2, <3>3
  <2>. QED
    BY <1>1, <2>1 DEF NoneForgotten
<1>10. ReportSettled'
  <2>1. ASSUME NEW v \in WorkerId, pc'[v] = "reporting" /\ reply_'[v] # NoJob
        PROVE  LET r == task_index[job'[v].task] IN
               \/ output[r] = v /\ state[r] = (IF job'[v].failed THEN "Failed" ELSE "Finished")
               \/ state[r] = "Canceled" /\ Outcome("task_done", reply(reply_'[v].code)) = "OK"
    <3>1. v # w
      BY <2>1
    <3>. QED
      BY <2>1, <3>1 DEF ReportSettled
  <2>. QED
    BY <1>1, <2>1 DEF ReportSettled
<1>11. Assigned'
  BY <1>1 DEF Assigned
<1>. QED
  BY <1>4, <1>5, <1>6, <1>7, <1>8, <1>9, <1>10, <1>11

\* A worker without a call has no reply and waits for no request; unless it is
\* gone it has no task_get on the wire.
LEMMA NotCalling ==
    ASSUME WorkersInv, NEW w \in WorkerId, ~Calling(w)
    PROVE  /\ reply_[w] = NoJob
           /\ \A i \in DOMAIN wire[w] : ~wire[w][i].live
           /\ pc[w] # "gone" => \A i \in DOMAIN wire[w] : wire[w][i].op = "task_done"
<1>. USE DEF WorkersInv, LocalInv
<1>1. reply_[w] = NoJob
  BY DEF RepliesFit
<1>2. \A i \in DOMAIN wire[w] : Fits(w, wire[w][i]) /\ wire[w][i] \in Request
  BY DEF WireFits, WireOk, WorkerTypes
<1>3. \A i \in DOMAIN wire[w] : ~wire[w][i].live
  BY <1>2 DEF Fits
<1>4. ASSUME pc[w] # "gone", NEW i \in DOMAIN wire[w] PROVE wire[w][i].op = "task_done"
  BY <1>2, <1>3, <1>4 DEF Fits, Request
<1>. QED
  BY <1>1, <1>3, <1>4

\* A request goes out: it is the one its worker waits for.
LEMMA CallWire ==
    ASSUME WorkersInv, NEW w \in WorkerId, NEW op \in {"task_get", "task_done"},
           NEW at \in {"getting", "reporting"}, call(w, op, at),
           \/ pc[w] = "idle" /\ op = "task_get" /\ at = "getting"
           \/ pc[w] = "report" /\ op = "task_done" /\ at = "reporting"
    PROVE  WireOk(w)'
<1>. USE DEF WorkersInv, LocalInv
<1>. DEFINE m == [op |-> op, job |-> job[w], live |-> TRUE]
<1>1. pc'[w] = at /\ wire'[w] = Append(wire[w], m) /\ UNCHANGED <<job, reply_, runs>>
  BY DEF call, WorkerTypes
<1>2. wire[w] \in Seq(Request)
  BY DEF WorkerTypes
<1>3. /\ reply_[w] = NoJob /\ \A i \in DOMAIN wire[w] : ~wire[w][i].live
      /\ \A i \in DOMAIN wire[w] : wire[w][i].op = "task_done"
  BY NotCalling DEF Calling
<1>4. ASSUME NEW i \in DOMAIN wire[w] PROVE Fits(w, wire[w][i])'
  <2>1. Fits(w, wire[w][i]) /\ wire'[w][i] = wire[w][i]
    BY <1>1, <1>2 DEF WireFits, WireOk
  <2>. QED
    BY <1>1, <1>3, <2>1 DEF Fits
<1>5. ASSUME NEW x, x = m PROVE Fits(w, x)'
  <2>1. Calling(w)' /\ Op(w)' = op
    BY <1>1 DEF Calling, Op
  <2>2. ASSUME op = "task_done" PROVE job[w] \in Job /\ <<w, job[w].task>> \in runs
    BY <2>2 DEF JobsHeld, HasJob
  <2>3. x.op = op /\ x.job = job[w] /\ x.live
    BY <1>5
  <2>. HIDE DEF m
  <2>. QED
    BY <1>1, <1>3, <2>1, <2>2, <2>3 DEF Fits
<1>6. /\ DOMAIN wire'[w] = 1..(Len(wire[w]) + 1) /\ DOMAIN wire[w] = 1..Len(wire[w]) /\ Len(wire[w]) \in Nat
      /\ \A i \in DOMAIN wire[w] : wire'[w][i] = wire[w][i]
      /\ wire'[w][Len(wire[w]) + 1] = m
  BY <1>1, <1>2
<1>. HIDE DEF m
<1>7. \A i \in DOMAIN wire'[w] : i \in DOMAIN wire[w] \/ i = Len(wire[w]) + 1
  BY <1>6
<1>8. ASSUME NEW i \in DOMAIN wire'[w] PROVE Fits(w, wire[w][i])'
  <2>1. CASE i = Len(wire[w]) + 1
    <3>1. PICK x : x = wire'[w][i]
      OBVIOUS
    <3>2. Fits(w, x)'
      BY <1>5, <1>6, <2>1, <3>1
    <3>. QED
      BY <3>1, <3>2 DEF Fits
  <2>. QED
    BY <1>4, <1>7, <2>1
<1>9. \A i \in DOMAIN wire'[w] : wire'[w][i].live => i = Len(wire[w]) + 1
  BY <1>3, <1>6, <1>7
<1>. QED
  BY <1>8, <1>9 DEF WireOk

\* A worker polls.
LEMMA PollKeeps ==
    ASSUME WorkersInv, NEW w \in WorkerId, poll(w)
    PROVE  LocalInv'
<1>1. pc[w] = "idle" /\ call(w, "task_get", "getting") /\ ~Calling(w)
  BY DEF poll, Calling
<1>2. reply_[w] = NoJob
  BY <1>1, NotCalling
<1>3. WireOk(w)'
  BY <1>1, CallWire
<1>4. /\ UNCHANGED <<vars, job, reply_, runs>> /\ pc'[w] = "getting"
      /\ \A v \in WorkerId \ {w} : pc'[v] = pc[v] /\ wire'[v] = wire[v]
  BY <1>1 DEF call, WorkersInv, WorkerTypes
<1>5. \A r \in Rows : ~(state[r] = "Running" /\ worker_id[r] = w)
  BY <1>1, <1>2 DEF WorkersInv, LocalInv, NoneForgotten
<1>. QED
  BY <1>2, <1>3, <1>4, <1>5, OneWorker DEF HasJob

\* A worker reports.
LEMMA ReportKeeps ==
    ASSUME WorkersInv, NEW w \in WorkerId, report(w)
    PROVE  LocalInv'
<1>1. pc[w] = "report" /\ call(w, "task_done", "reporting") /\ ~Calling(w)
  BY DEF report, Calling
<1>2. reply_[w] = NoJob
  BY <1>1, NotCalling
<1>3. WireOk(w)'
  BY <1>1, CallWire
<1>4. /\ UNCHANGED <<vars, job, reply_, runs>> /\ pc'[w] = "reporting"
      /\ \A v \in WorkerId \ {w} : pc'[v] = pc[v] /\ wire'[v] = wire[v]
  BY <1>1 DEF call, WorkersInv, WorkerTypes
<1>5. \A r \in Rows : (state[r] = "Running" /\ worker_id[r] = w) => job[w].task = task_id[r]
  BY <1>1, <1>2 DEF WorkersInv, LocalInv, NoneForgotten
<1>6. /\ job[w] \in Job /\ <<w, job[w].task>> \in runs
      /\ Holding(w, job[w].task) \/ Recorded(w, job[w])
  BY <1>1 DEF WorkersInv, LocalInv, JobsHeld, HasJob
<1>. QED
  BY <1>2, <1>3, <1>4, <1>5, <1>6, OneWorker DEF HasJob

\* The work ends.
LEMMA WorkKeeps ==
    ASSUME WorkersInv, NEW w \in WorkerId, NEW failed \in BOOLEAN, work(w, failed)
    PROVE  LocalInv'
<1>. USE DEF WorkersInv, LocalInv
<1>1. pc[w] = "running" /\ ~Calling(w)
  BY DEF work, Calling
<1>2. /\ job[w] \in Job /\ <<w, job[w].task>> \in runs /\ Holding(w, job[w].task)
  BY <1>1 DEF JobsHeld, HasJob
<1>3. reply_[w] = NoJob /\ \A i \in DOMAIN wire[w] : ~wire[w][i].live /\ wire[w][i].op = "task_done"
  BY <1>1, NotCalling
<1>4. /\ UNCHANGED <<vars, wire, reply_, runs>> /\ pc'[w] = "report"
      /\ job'[w] = [job[w] EXCEPT !.failed = failed]
      /\ \A v \in WorkerId \ {w} : pc'[v] = pc[v] /\ job'[v] = job[v]
  BY DEF work, WorkerTypes
<1>5. job'[w] \in Job /\ job'[w].task = job[w].task
  BY <1>2, <1>4 DEF Job
<1>6. WireOk(w)'
  <2>1. WireOk(w)
    BY DEF WireFits
  <2>2. \A i \in DOMAIN wire[w] : wire[w][i].job \in Job /\ <<w, wire[w][i].job.task>> \in runs
                                  /\ wire[w][i].job.task # job[w].task
    BY <1>1, <1>3, <2>1 DEF WireOk, Fits
  <2>. QED
    BY <1>3, <1>4, <1>5, <2>2 DEF WireOk, Fits
<1>7. \A r \in Rows : (state[r] = "Running" /\ worker_id[r] = w) => job[w].task = task_id[r]
  BY <1>1 DEF NoneForgotten
<1>. QED
  BY <1>2, <1>3, <1>4, <1>5, <1>6, <1>7, OneWorker DEF HasJob

\* A worker whose reply is there waits for no request.
LEMMA RepliedWire ==
    ASSUME WorkersInv, NEW w \in WorkerId, reply_[w] # NoJob
    PROVE  \A i \in DOMAIN wire[w] :
             /\ ~wire[w][i].live /\ wire[w][i].op = "task_done"
             /\ wire[w][i].job \in Job /\ <<w, wire[w][i].job.task>> \in runs
<1>. USE DEF WorkersInv, LocalInv
<1>1. \A i \in DOMAIN wire[w] : Fits(w, wire[w][i]) /\ wire[w][i].op \in {"task_get", "task_done"}
  <2>1. \A m \in Request : m.op \in {"task_get", "task_done"}
    BY DEF Request
  <2>2. \A i \in DOMAIN wire[w] : wire[w][i] \in Request
    BY DEF WorkerTypes
  <2>. QED
    BY <2>1, <2>2 DEF WireFits, WireOk
<1>2. pc[w] # "gone"
  BY DEF RepliesFit, Calling
<1>. QED
  BY <1>1, <1>2 DEF Fits

\* A call returns: a task that is on its way arrives, an empty queue is told
\* from it, and a report ends with the task off the worker's hands.
LEMMA ReturnsKeeps ==
    ASSUME WorkersInv, NEW w \in WorkerId, returns(w)
    PROVE  LocalInv'
<1>. USE DEF WorkersInv, LocalInv
<1>. DEFINE out == Outcome(Op(w), reply(reply_[w].code))
<1>1. /\ Calling(w) /\ reply_[w] # NoJob /\ ends(w, out) /\ UNCHANGED <<vars, wire>>
      /\ reply_' = [reply_ EXCEPT ![w] = NoJob] /\ out \in {"OK", "NoTaskAvailable", "TaskStateError"}
  BY DEF returns
<1>2. \A i \in DOMAIN wire[w] : /\ ~wire[w][i].live /\ wire[w][i].op = "task_done"
                                /\ wire[w][i].job \in Job /\ <<w, wire[w][i].job.task>> \in runs
  BY <1>1, RepliedWire
<1>3. /\ \A v \in WorkerId \ {w} : pc'[v] = pc[v] /\ job'[v] = job[v] /\ wire'[v] = wire[v] /\ reply_'[v] = reply_[v]
      /\ reply_'[w] = NoJob
  BY <1>1 DEF ends, WorkerTypes
<1>4. CASE pc[w] = "getting" /\ reply_[w].code = "OK"
  <2>. DEFINE t == reply_[w].task
              j == [task |-> t, failed |-> FALSE, tries |-> 0]
  <2>1. Granted(w) /\ Op(w) = "task_get" /\ out = "OK"
    BY <1>1, <1>4, AnswersTold DEF Granted, Op
  <2>2. t \in TaskId /\ Holding(w, t) /\ \A e \in runs : e[2] # t
    BY <2>1 DEF GrantsNew
  <2>3. pc'[w] = "running" /\ job'[w] = j /\ runs' = runs \cup {<<w, t>>}
    BY <1>1, <2>1 DEF ends, WorkerTypes
  <2>4. j \in Job /\ j.task = t
    BY <2>2 DEF Job
  <2>. HIDE DEF j, t
  <2>5. WireOk(w)'
    <3>1. \A i \in DOMAIN wire[w] : wire[w][i].job.task # t
      BY <1>2, <2>2
    <3>. QED
      BY <1>1, <1>2, <2>3, <2>4, <3>1 DEF WireOk, Fits
  <2>6. \A r \in Rows : (state[r] = "Running" /\ worker_id[r] = w) => t = task_id[r]
    BY <1>4 DEF NoneForgotten, t
  <2>7. \A e \in runs' \ runs : Granted(w) /\ e = <<w, reply_[w].task>>
    BY <2>1, <2>3 DEF t
  <2>. QED
    BY <1>1, <1>3, <2>2, <2>3, <2>4, <2>5, <2>6, <2>7, OneWorker DEF HasJob
<1>5. ASSUME pc[w] = "reporting" \/ (pc[w] = "getting" /\ reply_[w].code # "OK")
      PROVE  /\ pc'[w] = "idle" /\ runs' = runs
             /\ \A r \in Rows : ~(state[r] = "Running" /\ worker_id[r] = w)
  <2>1. CASE pc[w] = "reporting"
    <3>1. Op(w) = "task_done"
      BY <2>1 DEF Op
    <3>2. pc'[w] = "idle" /\ runs' = runs
      BY <1>1, <3>1 DEF ends, WorkerTypes
    <3>3. ASSUME NEW r \in Rows, state[r] = "Running", worker_id[r] = w PROVE FALSE
      <4>1. job[w].task = task_id[r]
        BY <2>1, <3>3 DEF NoneForgotten
      <4>2. task_index[job[w].task] = r
        BY <4>1 DEF GraphInv, IndexInverse
      <4>. QED
        BY <1>1, <2>1, <3>3, <4>2 DEF ReportSettled
    <3>. QED
      BY <3>2, <3>3
  <2>2. CASE pc[w] = "getting" /\ reply_[w].code # "OK"
    <3>1. reply_[w].code = "NotFound" /\ reply_[w].task = NoJob /\ Op(w) = "task_get"
      BY <1>1, <2>2 DEF RepliesFit, Op
    <3>2. out = "NoTaskAvailable"
      BY <3>1, AnswersTold
    <3>3. pc'[w] = "idle" /\ runs' = runs
      BY <1>1, <3>1, <3>2 DEF ends, WorkerTypes
    <3>4. ASSUME NEW r \in Rows, state[r] = "Running", worker_id[r] = w PROVE FALSE
      <4>1. NoJob = task_id[r]
        BY <2>2, <3>1, <3>4 DEF NoneForgotten
      <4>2. task_id[r] \in TaskId
        BY DEF GraphInv, TypeOK, Rows
      <4>. QED
        BY <4>1, <4>2, WorkersAssumption
    <3>. QED
      BY <3>3, <3>4
  <2>. QED
    BY <1>5, <2>1, <2>2
<1>6. CASE pc[w] = "reporting" \/ (pc[w] = "getting" /\ reply_[w].code # "OK")
  <2>1. /\ pc'[w] = "idle" /\ runs' = runs
        /\ \A r \in Rows : ~(state[r] = "Running" /\ worker_id[r] = w)
    BY <1>5, <1>6
  <2>2. WireOk(w)'
    BY <1>1, <1>2, <2>1 DEF WireOk, Fits
  <2>. QED
    BY <1>1, <1>3, <2>1, <2>2, OneWorker DEF HasJob
<1>. QED
  BY <1>1, <1>4, <1>6 DEF Calling

\* A worker that gives up on its requests and is gone, or reports again.
LEMMA GivenUpWire ==
    ASSUME WorkersInv, NEW w \in WorkerId, wire' = [wire EXCEPT ![w] = GivenUp(w)], UNCHANGED runs,
           \/ pc'[w] = "gone"
           \/ /\ pc[w] = "reporting" /\ pc'[w] = "report"
              /\ job'[w].task = job[w].task /\ job'[w].failed = job[w].failed
    PROVE  WireOk(w)'
<1>. USE DEF WorkersInv, LocalInv
<1>1. wire[w] \in Seq(Request) /\ wire'[w] = GivenUp(w) /\ WireOk(w)
  BY DEF WorkerTypes, WireFits
<1>2. DOMAIN wire'[w] = DOMAIN wire[w]
  BY <1>1 DEF GivenUp
<1>3. ASSUME NEW i \in DOMAIN wire[w]
      PROVE  ~wire'[w][i].live /\ wire'[w][i].op = wire[w][i].op /\ wire'[w][i].job = wire[w][i].job
  <2>1. wire'[w][i] = [wire[w][i] EXCEPT !.live = FALSE] /\ wire[w][i] \in Request
    <3>1. GivenUp(w)[i] = [wire[w][i] EXCEPT !.live = FALSE]
      BY Zenon DEF GivenUp
    <3>2. wire[w][i] \in Request
      BY <1>1
    <3>. QED
      BY <1>1, <3>1, <3>2
  <2>2. ASSUME NEW m \in Request, NEW x, x = [m EXCEPT !.live = FALSE]
        PROVE  ~x.live /\ x.op = m.op /\ x.job = m.job
    BY <2>2 DEF Request
  <2>. QED
    BY <2>1, <2>2
<1>4. ASSUME NEW i \in DOMAIN wire[w] PROVE Fits(w, wire[w][i])'
  <2>1. Fits(w, wire[w][i])
    BY <1>1 DEF WireOk
  <2>2. CASE pc'[w] = "gone"
    BY <1>3, <2>1, <2>2 DEF Fits
  <2>3. CASE pc[w] = "reporting" /\ pc'[w] = "report" /\ job'[w].task = job[w].task /\ job'[w].failed = job[w].failed
    <3>1. wire[w][i].op # "task_get"
      BY <2>1, <2>3 DEF Fits, Op
    <3>. QED
      BY <1>3, <2>1, <2>3, <3>1 DEF Fits
  <2>. QED
    BY <2>2, <2>3
<1>. QED
  BY <1>2, <1>3, <1>4 DEF WireOk

\* A call fails.
LEMMA FailsKeeps ==
    ASSUME WorkersInv, NEW w \in WorkerId, NEW status \in Failures, fails(w, status)
    PROVE  LocalInv'
<1>. USE DEF WorkersInv, LocalInv
<1>1. Outcome(Op(w), status) \notin {"OK", "NoTaskAvailable", "TaskStateError"}
  BY FailuresTold DEF Op
<1>2. /\ Calling(w) /\ wire' = [wire EXCEPT ![w] = GivenUp(w)] /\ reply_' = [reply_ EXCEPT ![w] = NoJob]
      /\ UNCHANGED <<vars, runs>>
      /\ \/ pc' = [pc EXCEPT ![w] = "gone"] /\ UNCHANGED job
         \/ /\ Op(w) = "task_done" /\ pc' = [pc EXCEPT ![w] = "report"]
            /\ job' = [job EXCEPT ![w].tries = @ + 1]
  BY <1>1 DEF fails
<1>3. /\ \A v \in WorkerId \ {w} : pc'[v] = pc[v] /\ job'[v] = job[v] /\ wire'[v] = wire[v] /\ reply_'[v] = reply_[v]
      /\ reply_'[w] = NoJob
  BY <1>2 DEF WorkerTypes
<1>4. CASE pc' = [pc EXCEPT ![w] = "gone"]
  <2>1. pc'[w] = "gone"
    BY <1>4 DEF WorkerTypes
  <2>2. WireOk(w)'
    BY <1>2, <2>1, GivenUpWire
  <2>. QED
    BY <1>2, <1>3, <2>1, <2>2, OneWorker DEF HasJob
<1>5. CASE Op(w) = "task_done" /\ pc' = [pc EXCEPT ![w] = "report"] /\ job' = [job EXCEPT ![w].tries = @ + 1]
  <2>1. pc[w] = "reporting" /\ pc'[w] = "report"
    BY <1>2, <1>5 DEF Calling, Op, WorkerTypes
  <2>2. /\ job[w] \in Job /\ <<w, job[w].task>> \in runs
        /\ Holding(w, job[w].task) \/ Recorded(w, job[w])
    BY <2>1 DEF JobsHeld, HasJob
  <2>3. job'[w] = [job[w] EXCEPT !.tries = @ + 1]
    BY <1>5 DEF WorkerTypes
  <2>4. job'[w] \in Job /\ job'[w].task = job[w].task /\ job'[w].failed = job[w].failed
    BY <2>2, <2>3 DEF Job
  <2>5. WireOk(w)'
    BY <1>2, <2>1, <2>4, GivenUpWire
  <2>6. \A r \in Rows : (state[r] = "Running" /\ worker_id[r] = w) => job[w].task = task_id[r]
    BY <2>1 DEF NoneForgotten
  <2>7. Holding(w, job'[w].task) \/ Recorded(w, job'[w])
    BY <2>2, <2>4 DEF Recorded
  <2>. QED
    BY <1>2, <1>3, <2>1, <2>2, <2>4, <2>5, <2>6, <2>7, OneWorker DEF HasJob
<1>. QED
  BY <1>2, <1>4, <1>5

\* A worker dies.
LEMMA DieKeeps ==
    ASSUME WorkersInv, NEW w \in WorkerId, die(w)
    PROVE  LocalInv'
<1>1. /\ UNCHANGED <<vars, job, runs>> /\ pc'[w] = "gone" /\ reply_'[w] = NoJob
      /\ wire' = [wire EXCEPT ![w] = GivenUp(w)]
      /\ \A v \in WorkerId \ {w} : pc'[v] = pc[v] /\ wire'[v] = wire[v] /\ reply_'[v] = reply_[v]
  BY DEF die, WorkersInv, WorkerTypes
<1>2. WireOk(w)'
  BY <1>1, GivenUpWire
<1>. QED
  BY <1>1, <1>2, OneWorker DEF HasJob

----------------------------------------------------------------------------
(* The steps of the server                                                 *)

\* A task that is with its worker stays there or is canceled.
LEMMA HeldKept ==
    ASSUME NEW X, TableKept(X), NEW v, NEW t \in TaskId, Holding(v, t), task_index[t] \notin X
    PROVE  Holding(v, t)'
<1>. DEFINE r == task_index[t]
<1>1. r \in Rows /\ RowMoves(r) /\ r \in Rows' /\ task_index'[t] = r
  BY DEF TableKept, Holding
<1>2. (state[r] = "Running" /\ worker_id[r] = v) \/ state[r] = "Canceled"
  BY DEF Holding
<1>3. (state'[r] = "Running" /\ worker_id'[r] = v) \/ state'[r] = "Canceled"
  BY <1>1, <1>2 DEF RowMoves
<1>. QED
  BY <1>1, <1>3 DEF Holding

\* What is recorded of a run stays recorded.
LEMMA RecordKept ==
    ASSUME NEW X, TableKept(X), NEW v, NEW j \in Job, Recorded(v, j), task_index[j.task] \notin X
    PROVE  Recorded(v, j)'
<1>. DEFINE r == task_index[j.task]
<1>1. r \in Rows /\ RowMoves(r) /\ r \in Rows' /\ task_index'[j.task] = r
  BY DEF TableKept, Recorded, Job
<1>2. output[r] = v /\ state[r] = (IF j.failed THEN "Failed" ELSE "Finished")
  BY DEF Recorded
<1>3. output'[r] = v /\ state'[r] = (IF j.failed THEN "Failed" ELSE "Finished")
  BY <1>1, <1>2 DEF RowMoves
<1>. QED
  BY <1>1, <1>3 DEF Recorded

\* A step of the server that moves the rows X, none of them finished before it,
\* and answers at most worker w.
LEMMA ServerStep ==
    ASSUME WorkersInv, NEW X \in SUBSET Rows, TableKept(X), UNCHANGED <<pc, job, runs>>, WireFits', NEW w,
           \A v \in WorkerId \ {w} : reply_'[v] = reply_[v],
           \A x \in X : state[x] \in {"Ready", "Running"} /\ state'[x] \notin {"Waiting", "Ready"},
           \A v \in WorkerId : (HasJob(v) /\ Holding(v, job[v].task) /\ task_index[job[v].task] \in X) =>
                                  pc[v] # "running" /\ Recorded(v, job[v])',
           \A v \in WorkerId : Granted(v) => task_index[reply_[v].task] \notin X,
           \A x \in X : state'[x] = "Running" =>
                /\ worker_id'[x] \in WorkerId
                /\ \/ pc[worker_id'[x]] = "gone"
                   \/ /\ pc[worker_id'[x]] = "getting" /\ reply_'[worker_id'[x]] # NoJob
                      /\ reply_'[worker_id'[x]].task = task_id[x],
           w \in WorkerId /\ reply_'[w] # reply_[w] =>
                /\ Calling(w) /\ reply_[w] = NoJob
                /\ (pc[w] = "getting" /\ reply_'[w].code # "OK") =>
                     reply_'[w] = [code |-> "NotFound", task |-> NoJob]
                /\ (pc[w] = "getting" /\ reply_'[w].code = "OK") =>
                     /\ reply_'[w].task \in TaskId /\ Holding(w, reply_[w].task)'
                     /\ \A e \in runs : e[2] # reply_'[w].task
                     /\ \A u \in WorkerId : Granted(u) => reply_[u].task # reply_'[w].task
                /\ pc[w] = "reporting" =>
                     \/ Recorded(w, job[w])'
                     \/ /\ task_index[job[w].task] \in Rows /\ state'[task_index[job[w].task]] = "Canceled"
                        /\ Outcome("task_done", reply(reply_'[w].code)) = "OK"
    PROVE  LocalInv'
<1>. USE DEF WorkersInv, LocalInv
<1>1. \A v \in WorkerId : (HasJob(v)' <=> HasJob(v)) /\ (Calling(v)' <=> Calling(v))
  BY DEF HasJob, Calling
<1>2. \A v \in WorkerId : reply_'[v] = reply_[v] \/ (v = w /\ reply_[v] = NoJob /\ reply_'[v] # reply_[v])
  OBVIOUS
<1>3. RunsPast'
  <2>1. ASSUME NEW e \in runs
        PROVE  task_index'[e[2]] \in Rows' /\ state'[task_index'[e[2]]] \notin {"Waiting", "Ready"}
    <3>. DEFINE r == task_index[e[2]]
    <3>1. e[2] \in TaskId /\ r \in Rows /\ state[r] \notin {"Waiting", "Ready"}
      BY DEF RunsPast, WorkerTypes
    <3>2. task_index'[e[2]] = r /\ r \in Rows'
      BY <3>1 DEF TableKept
    <3>3. CASE r \in X
      BY <3>2, <3>3
    <3>4. CASE r \notin X
      BY <3>1, <3>2, <3>4 DEF TableKept, RowMoves
    <3>. QED
      BY <3>3, <3>4
  <2>. QED
    BY <2>1 DEF RunsPast
<1>4. JobsHeld'
  <2>1. ASSUME NEW v \in WorkerId, HasJob(v)
        PROVE  /\ job[v] \in Job /\ <<v, job[v].task>> \in runs
               /\ Holding(v, job[v].task)' \/ (pc[v] # "running" /\ Recorded(v, job[v])')
    <3>1. /\ job[v] \in Job /\ <<v, job[v].task>> \in runs /\ job[v].task \in TaskId
          /\ Holding(v, job[v].task) \/ (pc[v] # "running" /\ Recorded(v, job[v]))
      BY <2>1 DEF JobsHeld, Job
    <3>. PICK t, j : t = job[v].task /\ j = job[v]
      OBVIOUS
    <3>2. CASE Holding(v, t) /\ task_index[t] \notin X
      <4>1. Holding(v, t)'
        BY <3>1, <3>2, HeldKept
      <4>. QED
        BY <3>1, <4>1 DEF Holding
    <3>3. CASE Holding(v, t) /\ task_index[t] \in X
      BY <2>1, <3>1, <3>3
    <3>4. CASE pc[v] # "running" /\ Recorded(v, j)
      <4>1. task_index[j.task] \notin X
        BY <3>4 DEF Recorded
      <4>2. Recorded(v, j)'
        BY <3>1, <3>4, <4>1, RecordKept
      <4>. QED
        BY <3>1, <3>4, <4>2 DEF Recorded
    <3>. QED
      BY <3>1, <3>2, <3>3, <3>4
  <2>. QED
    BY <1>1, <2>1 DEF JobsHeld
<1>5. ASSUME NEW v \in WorkerId, Granted(v)'
      PROVE  /\ reply_'[v].task \in TaskId /\ Holding(v, reply_[v].task)'
             /\ \A e \in runs : e[2] # reply_'[v].task
             /\ (Granted(v) /\ reply_'[v] = reply_[v]) \/ (v = w /\ reply_'[v] # reply_[v])
  <2>1. CASE reply_'[v] = reply_[v]
    <3>1. Granted(v)
      BY <1>5, <2>1 DEF Granted
    <3>2. PICK t : t = reply_[v].task
      OBVIOUS
    <3>3. t \in TaskId /\ Holding(v, t) /\ \A e \in runs : e[2] # t
      BY <3>1, <3>2 DEF GrantsNew
    <3>4. Holding(v, t)'
      BY <3>1, <3>2, <3>3, HeldKept
    <3>. QED
      BY <2>1, <3>1, <3>2, <3>3, <3>4 DEF Holding
  <2>2. CASE reply_'[v] # reply_[v]
    <3>1. v = w
      BY <2>2
    <3>2. pc[w] = "getting" /\ reply_'[w].code = "OK"
      BY <1>5, <3>1 DEF Granted
    <3>. QED
      BY <2>2, <3>1, <3>2
  <2>. QED
    BY <2>1, <2>2
<1>6. GrantsNew'
  <2>1. ASSUME NEW v \in WorkerId, NEW u \in WorkerId, Granted(v)', Granted(u)', reply_'[u].task = reply_'[v].task
        PROVE  u = v
    <3>1. /\ (Granted(v) /\ reply_'[v] = reply_[v]) \/ (v = w /\ reply_'[v] # reply_[v])
          /\ (Granted(u) /\ reply_'[u] = reply_[u]) \/ (u = w /\ reply_'[u] # reply_[u])
      BY <1>5, <2>1
    <3>2. \A x \in WorkerId : (x = w /\ reply_'[x] # reply_[x] /\ Granted(x)') =>
            \A y \in WorkerId : Granted(y) => reply_[y].task # reply_'[x].task
      BY DEF Granted
    <3>3. CASE Granted(v) /\ reply_'[v] = reply_[v] /\ Granted(u) /\ reply_'[u] = reply_[u]
      BY <2>1, <3>3 DEF GrantsNew
    <3>. QED
      BY <2>1, <3>1, <3>2, <3>3
  <2>. QED
    BY <1>5, <2>1 DEF GrantsNew
<1>7. RepliesFit'
  <2>1. ASSUME NEW v \in WorkerId, reply_'[v] # NoJob
        PROVE  Calling(v) /\ (pc[v] = "getting" /\ reply_'[v].code # "OK"
                                => reply_'[v] = [code |-> "NotFound", task |-> NoJob])
    <3>1. CASE reply_'[v] = reply_[v]
      BY <2>1, <3>1 DEF RepliesFit
    <3>2. CASE reply_'[v] # reply_[v]
      BY <1>2, <3>2
    <3>. QED
      BY <3>1, <3>2
  <2>. QED
    BY <1>1, <2>1 DEF RepliesFit
<1>8. ASSUME NEW r \in Rows', state'[r] = "Running"
      PROVE  /\ worker_id'[r] \in WorkerId
             /\ LET v == worker_id'[r] IN
                \/ pc[v] = "gone"
                \/ pc[v] \in {"running", "report", "reporting"} /\ job[v].task = task_id'[r]
                \/ pc[v] = "getting" /\ reply_'[v] # NoJob /\ reply_'[v].task = task_id'[r]
  <2>1. r \in Rows /\ task_id'[r] = task_id[r]
    BY <1>8 DEF TableKept
  <2>2. CASE r \in X
    BY <1>8, <2>1, <2>2
  <2>3. CASE r \notin X
    <3>1. state[r] = "Running" /\ worker_id'[r] = worker_id[r]
      BY <1>8, <2>1, <2>3 DEF TableKept, RowMoves
    <3>2. worker_id[r] \in WorkerId
      BY <2>1, <3>1 DEF Assigned
    <3>3. LET v == worker_id[r] IN
          \/ pc[v] = "gone"
          \/ pc[v] \in {"running", "report", "reporting"} /\ job[v].task = task_id[r]
          \/ pc[v] = "getting" /\ reply_[v] # NoJob /\ reply_[v].task = task_id[r]
      BY <2>1, <3>1 DEF NoneForgotten
    <3>. QED
      BY <1>2, <2>1, <3>1, <3>2, <3>3
  <2>. QED
    BY <2>2, <2>3
<1>9. NoneForgotten' /\ Assigned'
  BY <1>8 DEF NoneForgotten, Assigned
<1>10. ReportSettled'
  <2>1. ASSUME NEW v \in WorkerId, pc[v] = "reporting", reply_'[v] # NoJob
        PROVE  LET r == task_index'[job[v].task] IN
               \/ output'[r] = v /\ state'[r] = (IF job[v].failed THEN "Failed" ELSE "Finished")
               \/ state'[r] = "Canceled" /\ Outcome("task_done", reply(reply_'[v].code)) = "OK"
    <3>. DEFINE r == task_index[job[v].task]
    <3>1. job[v] \in Job /\ <<v, job[v].task>> \in runs /\ job[v].task \in TaskId
      BY <2>1 DEF JobsHeld, HasJob, Job
    <3>2. r \in Rows /\ task_index'[job[v].task] = r
      BY <3>1 DEF RunsPast, TableKept
    <3>3. CASE reply_'[v] = reply_[v]
      <4>1. \/ output[r] = v /\ state[r] = (IF job[v].failed THEN "Failed" ELSE "Finished")
            \/ state[r] = "Canceled" /\ Outcome("task_done", reply(reply_[v].code)) = "OK"
        BY <2>1, <3>3 DEF ReportSettled
      <4>2. r \notin X
        BY <4>1
      <4>3. RowMoves(r)
        BY <3>2, <4>2 DEF TableKept
      <4>. QED
        BY <3>2, <3>3, <4>1, <4>3 DEF RowMoves
    <3>4. CASE reply_'[v] # reply_[v]
      <4>1. v = w /\ (Recorded(w, job[w])' \/ (state'[r] = "Canceled" /\ Outcome("task_done", reply(reply_'[w].code)) = "OK"))
        BY <2>1, <3>4
      <4>. QED
        BY <3>2, <4>1 DEF Recorded
    <3>. QED
      BY <3>3, <3>4
  <2>. QED
    BY <2>1 DEF ReportSettled
<1>. QED
  BY <1>3, <1>4, <1>6, <1>7, <1>9, <1>10

\* A request leaves the wire, and only a worker that waited for it is answered.
LEMMA TakenWire ==
    ASSUME WorkersInv, NEW w \in WorkerId, NEW i \in DOMAIN wire[w],
           wire' = [wire EXCEPT ![w] = RemoveAt(@, i)], UNCHANGED <<pc, job, runs>>,
           \A v \in WorkerId : reply_'[v] = reply_[v] \/ (v = w /\ wire[w][i].live)
    PROVE  WireFits'
<1>. USE DEF WorkersInv, LocalInv
<1>. DEFINE from(j) == IF j < i THEN j ELSE j + 1
<1>1. wire[w] \in Seq(Request) /\ wire'[w] = RemoveAt(wire[w], i)
      /\ \A v \in WorkerId \ {w} : wire'[v] = wire[v]
  BY DEF WorkerTypes
<1>2. /\ DOMAIN wire'[w] = 1..(Len(wire[w]) - 1)
      /\ \A j \in 1..(Len(wire[w]) - 1) : wire'[w][j] = wire[w][from(j)]
  BY <1>1, RemoveAtElements
<1>3. Len(wire[w]) \in Nat /\ DOMAIN wire[w] = 1..Len(wire[w]) /\ i \in Nat
  BY <1>1
<1>4. /\ \A j \in DOMAIN wire'[w] : from(j) \in DOMAIN wire[w] /\ from(j) # i
      /\ \A j, k \in DOMAIN wire'[w] : from(j) = from(k) => j = k
  BY <1>2, <1>3
<1>. HIDE DEF from
<1>5. WireOk(w)
  BY DEF WireFits
<1>6. ASSUME NEW j \in DOMAIN wire'[w] PROVE Fits(w, wire[w][j])'
  <2>1. wire'[w][j] = wire[w][from(j)] /\ Fits(w, wire[w][from(j)])
    BY <1>2, <1>4, <1>5 DEF WireOk
  <2>2. wire[w][from(j)].live => ~wire[w][i].live
    BY <1>4, <1>5 DEF WireOk
  <2>3. wire[w][from(j)].live => reply_'[w] = reply_[w]
    BY <2>2
  <2>. QED
    BY <2>1, <2>3 DEF Fits, Calling, Op
<1>7. \A j, k \in DOMAIN wire'[w] : wire'[w][j].live /\ wire'[w][k].live => j = k
  BY <1>2, <1>4, <1>5 DEF WireOk
<1>8. WireOk(w)'
  BY <1>6, <1>7 DEF WireOk
<1>9. ASSUME NEW v \in WorkerId \ {w} PROVE WireOk(v)'
  <2>1. WireOk(v) /\ wire'[v] = wire[v] /\ reply_'[v] = reply_[v]
    BY <1>1 DEF WireFits
  <2>. QED
    BY <2>1 DEF WireOk, Fits, Calling, Op
<1>. QED
  BY <1>8, <1>9 DEF WireFits

\* A request is lost.
LEMMA LoseKeeps ==
    ASSUME WorkersInv, NEW w \in WorkerId, NEW i \in DOMAIN wire[w], lose(w, i)
    PROVE  LocalInv'
<1>1. wire' = [wire EXCEPT ![w] = RemoveAt(@, i)] /\ UNCHANGED <<vars, pc, job, reply_, runs>>
  BY DEF lose
<1>2. WireFits'
  BY <1>1, TakenWire
<1>3. TableKept({})
  BY <1>1, StillTable DEF vars, WorkersInv
<1>. QED
  BY <1>1, <1>2, <1>3, ServerStep

\* Submitters leave workers alone, and cancel what they have at most.
LEMMA SubmitKeeps ==
    ASSUME WorkersInv, submit
    PROVE  LocalInv'
<1>1. UNCHANGED <<pc, job, wire, reply_, runs>>
  BY DEF submit, workers
<1>2. WireFits'
  BY <1>1 DEF WireFits, WireOk, Fits, Calling, Op, WorkersInv, LocalInv
<1>3. TableKept({})
  BY SubmitTable DEF WorkersInv
<1>. QED
  BY <1>1, <1>2, <1>3, ServerStep

\* An answer reaches the worker that waits for it, and no other.
LEMMA AnsweredWorkers ==
    ASSUME WorkersInv, NEW w \in WorkerId, NEW i \in DOMAIN wire[w],
           NEW code \in {"OK", "NotFound", "FailedPrecondition"}, NEW t \in TaskId \cup {NoJob},
           Answered(w, i, code, t)
    PROVE  /\ UNCHANGED <<pc, job, runs>> /\ WireFits'
           /\ \A v \in WorkerId \ {w} : reply_'[v] = reply_[v]
           /\ wire[w][i].live =>
                /\ Calling(w) /\ reply_[w] = NoJob /\ wire[w][i].op = Op(w)
                /\ wire[w][i].op = "task_done" => wire[w][i].job = job[w]
                /\ reply_'[w] = [code |-> code, task |-> t] /\ reply_'[w] # NoJob
           /\ ~wire[w][i].live => reply_'[w] = reply_[w]
<1>. USE DEF WorkersInv, LocalInv
<1>1. /\ wire' = [wire EXCEPT ![w] = RemoveAt(@, i)] /\ UNCHANGED <<pc, job, runs>>
      /\ \A v \in WorkerId \ {w} : reply_'[v] = reply_[v]
      /\ reply_'[w] = IF wire[w][i].live THEN [code |-> code, task |-> t] ELSE reply_[w]
  BY DEF Answered, WorkerTypes
<1>2. WireFits'
  BY <1>1, TakenWire
<1>3. Fits(w, wire[w][i])
  BY DEF WireFits, WireOk
<1>4. [code |-> code, task |-> t] # NoJob
  BY WorkersAssumption
<1>. QED
  BY <1>1, <1>2, <1>3, <1>4 DEF Fits

\* task_get is executed, in time or late.
LEMMA TaskGetKeeps ==
    ASSUME WorkersInv, NEW w \in WorkerId, NEW i \in DOMAIN wire[w], TaskGet(w, i)
    PROVE  LocalInv'
<1>. USE DEF WorkersInv, LocalInv
<1>1. PICK ql \in QueueLists :
        /\ wire[w][i].op = "task_get"
        /\ \/ /\ get_claim(w, ql)
              /\ \E r \in Rows :
                   /\ state' = [state EXCEPT ![r] = "Running"]
                   /\ worker_id' = [worker_id EXCEPT ![r] = w]
                   /\ Answered(w, i, "OK", task_id[r])
           \/ get_none(ql) /\ Answered(w, i, "NotFound", NoJob)
  BY DEF TaskGet
<1>2. wire[w][i].live \/ pc[w] = "gone"
  BY <1>1 DEF WireFits, WireOk, Fits
<1>3. CASE get_none(ql) /\ Answered(w, i, "NotFound", NoJob)
  <2>1. /\ UNCHANGED <<pc, job, runs>> /\ WireFits'
        /\ \A v \in WorkerId \ {w} : reply_'[v] = reply_[v]
        /\ wire[w][i].live => /\ Calling(w) /\ reply_[w] = NoJob /\ wire[w][i].op = Op(w)
                              /\ reply_'[w] = [code |-> "NotFound", task |-> NoJob]
        /\ ~wire[w][i].live => reply_'[w] = reply_[w]
    BY <1>3, AnsweredWorkers
  <2>2. TableKept({})
    BY <1>3, StillTable DEF get_none
  <2>3. wire[w][i].live => pc[w] = "getting"
    BY <1>1, <2>1 DEF Op, Calling
  <2>. QED
    BY <2>1, <2>2, <2>3, ServerStep
<1>4. CASE /\ get_claim(w, ql)
           /\ \E r \in Rows : /\ state' = [state EXCEPT ![r] = "Running"]
                              /\ worker_id' = [worker_id EXCEPT ![r] = w]
                              /\ Answered(w, i, "OK", task_id[r])
  <2>1. PICK c \in Rows : /\ state[c] = "Ready"
                          /\ state' = [state EXCEPT ![c] = "Running"]
                          /\ worker_id' = [worker_id EXCEPT ![c] = w]
    BY <1>4, ClaimTakesReady
  <2>2. UNCHANGED <<columns, output>> /\ Rows' = Rows
    BY <1>4, ClaimTakesReady DEF columns, Rows
  <2>3. PICK r \in Rows : state' = [state EXCEPT ![r] = "Running"] /\ Answered(w, i, "OK", task_id[r])
    BY <1>4
  <2>4. \A s \in Rows : state[s] = "Ready" /\ state'[s] = "Running" => s = r
    BY <2>3 DEF GraphInv, TypeOK
  <2>5. r = c
    BY <2>1, <2>4 DEF GraphInv, TypeOK
  <2>. DEFINE t == task_id[c]
  <2>6. t \in TaskId /\ task_index[t] = c
    BY DEF GraphInv, TypeOK, IndexInverse, Rows
  <2>7. /\ UNCHANGED <<pc, job, runs>> /\ WireFits'
        /\ \A v \in WorkerId \ {w} : reply_'[v] = reply_[v]
        /\ wire[w][i].live => /\ Calling(w) /\ reply_[w] = NoJob /\ wire[w][i].op = Op(w)
                              /\ reply_'[w] = [code |-> "OK", task |-> t] /\ reply_'[w] # NoJob
        /\ ~wire[w][i].live => reply_'[w] = reply_[w]
    BY <2>3, <2>5, <2>6, AnsweredWorkers
  <2>8. /\ state'[c] = "Running" /\ worker_id'[c] = w
        /\ \A s \in Rows \ {c} : state'[s] = state[s] /\ worker_id'[s] = worker_id[s]
    BY <2>1 DEF GraphInv, TypeOK
  <2>9. TableKept({c})
    BY <2>2, <2>8 DEF TableKept, RowMoves, columns
  <2>10. \A v \in WorkerId : HasJob(v) => task_index[job[v].task] # c
    BY <2>1 DEF JobsHeld, RunsPast
  <2>11. \A v \in WorkerId : Granted(v) => task_index[reply_[v].task] # c
    BY <2>1 DEF GrantsNew, Holding
  <2>12. wire[w][i].live => pc[w] = "getting"
    BY <1>1, <2>7 DEF Op, Calling
  <2>13. \A e \in runs : e[2] # t
    BY <2>1, <2>6 DEF RunsPast
  <2>14. \A u \in WorkerId : Granted(u) => reply_[u].task # t
    BY <2>6, <2>11
  <2>15. wire[w][i].live => /\ reply_'[w].task = t /\ reply_'[w].code = "OK"
                            /\ Holding(w, reply_[w].task)'
    <3>1. wire[w][i].live => reply_'[w].task = t /\ reply_'[w].code = "OK"
      BY <2>7
    <3>2. task_index'[t] = c /\ c \in Rows'
      BY <2>2, <2>6 DEF columns
    <3>. QED
      BY <2>8, <3>1, <3>2 DEF Holding
  <2>. HIDE DEF t
  <2>16. {c} \in SUBSET Rows /\ t = task_id[c]
    BY DEF t
  <2>. QED
    BY <1>2, <2>1, <2>6, <2>7, <2>8, <2>9, <2>10, <2>11, <2>12, <2>13, <2>14, <2>15, <2>16, ServerStep
<1>. QED
  BY <1>1, <1>3, <1>4

\* task_done is executed, in time or late: it records what its worker reports,
\* or finds it recorded, or the task canceled.
LEMMA TaskDoneKeeps ==
    ASSUME WorkersInv, NEW w \in WorkerId, NEW i \in DOMAIN wire[w], TaskDone(w, i)
    PROVE  LocalInv'
<1>. USE DEF WorkersInv, LocalInv
<1>. PICK j : j = wire[w][i].job
  OBVIOUS
<1>. DEFINE r == task_index[j.task]
            code == done_code(w, j.task)
<1>1. wire[w][i].op = "task_done" /\ Answered(w, i, code, NoJob)
  BY DEF TaskDone
<1>2. /\ j \in Job /\ <<w, j.task>> \in runs
      /\ pc[w] = "running" => j.task # job[w].task
      /\ pc[w] \in {"report", "reporting"} /\ j.task = job[w].task => j.failed = job[w].failed
  BY <1>1 DEF WireFits, WireOk, Fits
<1>3. j.task \in TaskId /\ j.failed \in BOOLEAN
  BY <1>2 DEF Job
<1>4. r \in Rows /\ task_id[r] = j.task
  <2>1. r \in Rows
    BY <1>2 DEF RunsPast
  <2>. QED
    BY <1>3, <2>1 DEF GraphInv, IndexInverse, TypeOK, Rows, NoRow
<1>5. code \in {"OK", "NotFound", "FailedPrecondition"}
  BY DEF done_code
<1>6. /\ UNCHANGED <<pc, job, runs>> /\ WireFits'
      /\ \A v \in WorkerId \ {w} : reply_'[v] = reply_[v]
      /\ wire[w][i].live => /\ Calling(w) /\ reply_[w] = NoJob /\ wire[w][i].op = Op(w) /\ j = job[w]
                            /\ reply_'[w] = [code |-> code, task |-> NoJob]
      /\ ~wire[w][i].live => reply_'[w] = reply_[w]
  BY <1>1, <1>5, AnsweredWorkers
<1>7. wire[w][i].live => pc[w] = "reporting" /\ reply_'[w].code = code
  BY <1>1, <1>6 DEF Op, Calling
<1>8. ASSUME NEW failed \in BOOLEAN, failed = j.failed,
             (~failed /\ done_finished(w, j.task, w)) \/ (failed /\ done_failed(w, j.task, w))
      PROVE  LocalInv'
  <2>1. /\ TableKept({r}) /\ state[r] = "Running" /\ worker_id[r] = w
        /\ output'[r] = w /\ state'[r] = (IF failed THEN "Failed" ELSE "Finished")
    BY <1>3, <1>8, DoneTable
  <2>2. r \in Rows' /\ task_index'[j.task] = r
    BY <1>3, <1>4, <2>1 DEF TableKept
  <2>3. HasJob(w) /\ job[w].task = j.task => pc[w] # "running" /\ Recorded(w, job[w])'
    <3>1. HasJob(w) /\ job[w].task = j.task => pc[w] # "running" /\ job[w].failed = failed
      BY <1>2, <1>8 DEF HasJob
    <3>. QED
      BY <1>6, <2>1, <2>2, <3>1 DEF Recorded
  <2>4. ASSUME NEW v \in WorkerId, HasJob(v), Holding(v, job[v].task), task_index[job[v].task] = r
        PROVE  v = w /\ job[v].task = j.task
    <3>1. v = w
      BY <2>1, <2>4 DEF Holding
    <3>2. job[v].task \in TaskId
      BY <2>4 DEF JobsHeld, Job
    <3>3. task_id[r] = job[v].task
      BY <1>4, <2>4, <3>2 DEF GraphInv, IndexInverse, TypeOK, Rows, NoRow
    <3>. QED
      BY <1>4, <3>1, <3>3
  <2>5. ASSUME NEW v \in WorkerId, Granted(v) PROVE task_index[reply_[v].task] # r
    <3>1. reply_[v].task \in TaskId /\ reply_[v].task # j.task
      BY <1>2, <2>5 DEF GrantsNew
    <3>2. task_index[reply_[v].task] \in Rows => task_id[task_index[reply_[v].task]] = reply_[v].task
      BY <3>1 DEF GraphInv, IndexInverse, TypeOK, Rows, NoRow
    <3>. QED
      BY <1>4, <3>1, <3>2
  <2>6. wire[w][i].live => Recorded(w, job[w])'
    BY <1>6, <1>7, <2>3 DEF HasJob
  <2>7. {r} \in SUBSET Rows /\ state'[r] \notin {"Waiting", "Ready", "Running"}
    BY <1>4, <2>1
  <2>. HIDE DEF r, code
  <2>. QED
    BY <1>6, <1>7, <2>1, <2>3, <2>4, <2>5, <2>6, <2>7, ServerStep
<1>9. ASSUME done_refused(w, j.task) PROVE LocalInv'
  <2>1. UNCHANGED vars /\ done_result(w, j.task) # "OK"
    BY <1>9 DEF done_refused
  <2>2. TableKept({})
    BY <2>1, StillTable DEF vars
  <2>3. wire[w][i].live =>
          \/ Recorded(w, job[w])'
          \/ state'[r] = "Canceled" /\ Outcome("task_done", reply(code)) = "OK"
    <3>. SUFFICES ASSUME wire[w][i].live
                  PROVE  \/ Recorded(w, job[w])'
                         \/ state'[r] = "Canceled" /\ Outcome("task_done", reply(code)) = "OK"
      OBVIOUS
    <3>1. Holding(w, j.task) \/ Recorded(w, j)
      BY <1>6, <1>7 DEF JobsHeld, HasJob
    <3>2. CASE Recorded(w, j)
      BY <1>6, <2>1, <3>2 DEF vars, Recorded, Rows, columns
    <3>3. CASE Holding(w, j.task)
      <4>1. state[r] = "Canceled"
        BY <1>4, <2>1, <3>3 DEF Holding, done_result, NoRow, Rows
      <4>2. code = "OK"
        BY <1>4, <4>1 DEF done_code, done_result, NoRow, Rows
      <4>. QED
        BY <2>1, <4>1, <4>2, AnswersTold DEF vars
    <3>. QED
      BY <3>1, <3>2, <3>3
  <2>. HIDE DEF code
  <2>. QED
    BY <1>4, <1>6, <1>7, <2>2, <2>3, ServerStep
<1>. QED
  BY <1>3, <1>8, <1>9 DEF TaskDone

----------------------------------------------------------------------------
(* The theorems                                                            *)

\* At first nothing was added, claimed or asked.
LEMMA WorkersAtFirst == WInit => WorkersInv
<1>. SUFFICES ASSUME WInit PROVE WorkersInv
  OBVIOUS
<1>. USE DEF WInit
<1>1. GraphInv
  BY InitEstablishes
<1>2. Rows = {}
  BY DEF Init, Rows
<1>3. WorkerTypes
  BY DEF WorkerTypes
<1>4. \A w \in WorkerId : pc[w] = "idle" /\ reply_[w] = NoJob /\ wire[w] = <<>> /\ DOMAIN wire[w] = {}
  OBVIOUS
<1>5. RunsPast /\ JobsHeld /\ GrantsNew /\ RepliesFit
  BY <1>4 DEF RunsPast, JobsHeld, HasJob, GrantsNew, Granted, RepliesFit
<1>6. WireFits /\ Assigned /\ NoneForgotten /\ ReportSettled
  BY <1>2, <1>4 DEF WireFits, WireOk, Assigned, NoneForgotten, ReportSettled
<1>. QED
  BY <1>1, <1>3, <1>5, <1>6 DEF WorkersInv, LocalInv

\* Every step of a worker, of the server for it, or of a submitter keeps it.
LEMMA WorkersStep == WorkersInv /\ [WNext]_allvars => WorkersInv'
<1>. SUFFICES ASSUME WorkersInv, [WNext]_allvars PROVE WorkersInv'
  OBVIOUS
<1>1. GraphInv'
  BY WorkersStepTable, NextPreserves DEF WorkersInv, LocalInv
<1>2. WorkerTypes'
  BY WorkerTypesKept DEF WorkersInv, LocalInv
<1>3. ASSUME UNCHANGED allvars PROVE LocalInv'
  <2>1. UNCHANGED <<vars, pc, job, wire, reply_, runs>>
    BY <1>3 DEF allvars, workers
  <2>2. WireFits'
    BY <2>1 DEF WireFits, WireOk, Fits, Calling, Op, WorkersInv, LocalInv
  <2>3. TableKept({})
    BY <2>1, StillTable DEF vars, WorkersInv
  <2>. QED
    BY <2>1, <2>2, <2>3, ServerStep
<1>4. ASSUME submit PROVE LocalInv'
  BY <1>4, SubmitKeeps
<1>5. ASSUME NEW w \in WorkerId, step(w) PROVE LocalInv'
  BY <1>5, PollKeeps, WorkKeeps, ReportKeeps, ReturnsKeeps DEF step
<1>6. ASSUME NEW w \in WorkerId, serve(w) PROVE LocalInv'
  BY <1>6, TaskGetKeeps, TaskDoneKeeps DEF serve
<1>7. ASSUME NEW w \in WorkerId, die(w) PROVE LocalInv'
  BY <1>7, DieKeeps
<1>8. ASSUME NEW w \in WorkerId, NEW status \in Failures, fails(w, status) PROVE LocalInv'
  BY <1>8, FailsKeeps
<1>9. ASSUME NEW w \in WorkerId, NEW i \in DOMAIN wire[w], lose(w, i) PROVE LocalInv'
  BY <1>9, LoseKeeps
<1>10. LocalInv'
  BY <1>3, <1>4, <1>5, <1>6, <1>7, <1>8, <1>9 DEF WNext
<1>. QED
  BY <1>1, <1>2, <1>10 DEF WorkersInv

\* Who holds which task, what is on its way to whom and what the requests still
\* on the wire say fit the table, for any number of workers, tasks and reports,
\* whichever calls fail (write-a-worker.md, task-manager.cpp 349-416).
THEOREM WorkersInvAlways == WSpec => []WorkersInv
<1>. QED
  BY WorkersAtFirst, WorkersStep, PTL DEF WSpec

\* A task that is Running is never without a worker that runs it, reports it or
\* is about to learn of it, unless that worker is gone (client.py 370-373,
\* task-manager.cpp 375-377).
THEOREM TasksRemembered == WSpec => []NoneForgotten
<1>1. WorkersInv => NoneForgotten
  BY DEF WorkersInv, LocalInv
<1>. QED
  BY <1>1, WorkersInvAlways, PTL

\* A worker that hears back about its report has its result recorded, or the
\* task was canceled and the report is accepted all the same, also when an
\* earlier report of it was executed late (task-manager.cpp 401-416).
THEOREM ReportsRecorded == WSpec => []ReportSettled
<1>1. WorkersInv => ReportSettled
  BY DEF WorkersInv, LocalInv
<1>. QED
  BY <1>1, WorkersInvAlways, PTL

----------------------------------------------------------------------------
(* Claims.  What was handed out is never Waiting or Ready again, so that no *)
(* claim can name it a second time, whether its worker heard of it or not. *)

WasClaimed(w, t) == \E i \in DOMAIN claims : claims[i] = <<w, t>>

Past(t) == task_index[t] \in Rows /\ state[task_index[t]] \notin {"Waiting", "Ready"}

ClaimsInv ==
    /\ claims \in Seq(WorkerId \X TaskId)
    /\ \A i \in DOMAIN claims : Past(claims[i][2])
    /\ \A w \in WorkerId : Granted(w) => WasClaimed(w, reply_[w].task)
    /\ RunOnce

\* A task that was handed out stays so.
LEMMA PastStays ==
    ASSUME GraphInv, [Next]_vars, NEW t \in TaskId, Past(t)
    PROVE  Past(t)'
<1>. USE DEF GraphInv
<1>. DEFINE r == task_index[t]
<1>1. r \in Rows /\ state[r] \in Final \cup {"Running"}
  BY DEF Past, TypeOK, TaskState, Active
<1>2. state'[r] \notin {"Waiting", "Ready"}
  <2>1. RowKept(r) \/ UNCHANGED vars
    BY <1>1, StepKeepsRows
  <2>. QED
    BY <1>1, <2>1 DEF RowKept, Final, Ended, vars
<1>3. ASSUME UNCHANGED <<task_id, task_index>> PROVE r \in Rows' /\ task_index'[t] = r
  BY <1>1, <1>3 DEF Rows
<1>4. ASSUME NEW u \in TaskId, NEW pl \in ParentLists, NEW ql \in QueueLists, NEW p \in Priority,
             add(u, pl, ql, p)
      PROVE  r \in Rows' /\ task_index'[t] = r
  <2>1. /\ task_index[u] = NoRow /\ task_index' = [task_index EXCEPT ![u] = Len(task_id) + 1]
        /\ task_id' = Append(task_id, u)
    BY <1>4 DEF add, add_result
  <2>2. r # NoRow /\ Len(task_id) \in Nat /\ Rows' = 1..(Len(task_id) + 1)
    BY <1>1, <2>1 DEF Rows, NoRow, TypeOK
  <2>. QED
    BY <1>1, <2>1, <2>2 DEF Rows, TypeOK
<1>5. r \in Rows' /\ task_index'[t] = r
  <2>1. ASSUME NEW w \in WorkerId, NEW u \in TaskId, NEW out \in Output,
               done_finished(w, u, out) \/ done_failed(w, u, out)
        PROVE  UNCHANGED <<task_id, task_index>>
    BY <2>1 DEF done_finished, done_failed, EndWithDependents, columns
  <2>2. ASSUME NEW u \in TaskId, cancel(u) PROVE UNCHANGED <<task_id, task_index>>
    BY <2>2 DEF cancel, EndWithDependents, columns
  <2>3. ASSUME NEW w \in WorkerId, NEW ql \in QueueLists, get_claim(w, ql)
        PROVE  UNCHANGED <<task_id, task_index>>
    BY <2>3 DEF get_claim, columns
  <2>6. ASSUME NEW ql \in QueueLists, get_none(ql) PROVE UNCHANGED <<task_id, task_index>>
    BY <2>6 DEF get_none, columns
  <2>4. ASSUME NEW u \in TaskId, NEW p \in Priority, set_priority(u, p)
        PROVE  UNCHANGED <<task_id, task_index>>
    BY <2>4 DEF set_priority, columns
  <2>5. ASSUME UNCHANGED vars PROVE UNCHANGED <<task_id, task_index>>
    BY <2>5 DEF vars, columns
  <2>. QED
    BY <1>3, <1>4, <2>1, <2>2, <2>3, <2>4, <2>5, <2>6
       DEF Next, add_refused, cancel_refused, set_priority_refused, done_refused
<1>. QED
  BY <1>2, <1>5 DEF Past

\* A step that claims nothing, and lets no worker run or hear of anything new
\* but what was claimed.
LEMMA NothingClaimed ==
    ASSUME GraphInv, ClaimsInv, [Next]_vars, UNCHANGED claims,
           \A e \in runs' \ runs : WasClaimed(e[1], e[2]) /\ e = <<e[1], e[2]>>,
           \A w \in WorkerId : Granted(w)' => Granted(w) /\ reply_'[w].task = reply_[w].task
    PROVE  ClaimsInv'
<1>. USE DEF ClaimsInv
<1>1. \A i \in DOMAIN claims : claims[i][2] \in TaskId
  OBVIOUS
<1>2. \A i \in DOMAIN claims : Past(claims[i][2])'
  BY <1>1, PastStays
<1>3. RunOnce'
  BY DEF RunOnce, WasClaimed
<1>4. \A w \in WorkerId : Granted(w)' => WasClaimed(w, reply_[w].task)'
  BY DEF WasClaimed
<1>5. \A i \in DOMAIN claims' : Past(claims[i][2])'
  BY <1>2
<1>. QED
  BY <1>3, <1>4, <1>5

\* task_get is executed: what it claims was Ready, so nobody had claimed it.
LEMMA ClaimNew ==
    ASSUME WorkersInv, ClaimsInv, [Next]_vars, NEW w \in WorkerId, NEW i \in DOMAIN wire[w], TaskGet(w, i)
    PROVE  ClaimsInv'
<1>. USE DEF WorkersInv
<1>1. PICK ql \in QueueLists :
        \/ /\ get_claim(w, ql)
           /\ \E r \in Rows :
                /\ state' = [state EXCEPT ![r] = "Running"]
                /\ Answered(w, i, "OK", task_id[r])
                /\ claims' = Append(claims, <<w, task_id[r]>>)
        \/ Answered(w, i, "NotFound", NoJob) /\ UNCHANGED claims
  BY DEF TaskGet
<1>2. \A v \in WorkerId : v # w => reply_'[v] = reply_[v]
  BY <1>1 DEF Answered, WorkerTypes
<1>3. UNCHANGED <<pc, job, runs>>
  BY <1>1 DEF Answered
<1>4. CASE Answered(w, i, "NotFound", NoJob) /\ UNCHANGED claims
  <2>1. reply_'[w] = reply_[w] \/ reply_'[w] = [code |-> "NotFound", task |-> NoJob]
    BY <1>4 DEF Answered, WorkerTypes
  <2>2. \A v \in WorkerId : Granted(v)' => Granted(v) /\ reply_'[v].task = reply_[v].task
    BY <1>2, <1>3, <2>1 DEF Granted
  <2>. QED
    BY <1>3, <1>4, <2>2, NothingClaimed
<1>5. ASSUME get_claim(w, ql), NEW r \in Rows, state' = [state EXCEPT ![r] = "Running"],
             Answered(w, i, "OK", task_id[r]), claims' = Append(claims, <<w, task_id[r]>>)
      PROVE  ClaimsInv'
  <2>. PICK t : t = task_id[r]
    OBVIOUS
  <2>. PICK n : n = Len(claims) + 1
    OBVIOUS
  <2>1. PICK c \in Rows : state[c] = "Ready" /\ state' = [state EXCEPT ![c] = "Running"]
    BY <1>5, ClaimTakesReady
  <2>2. r = c
    BY <1>5, <2>1 DEF GraphInv, TypeOK
  <2>3. t \in TaskId /\ task_index[t] = r
    BY DEF GraphInv, TypeOK, IndexInverse, Rows
  <2>4. ~Past(t) /\ Past(t)'
    <3>1. UNCHANGED columns
      BY <1>5, ClaimTakesReady
    <3>2. Rows' = Rows /\ task_index'[t] = r
      BY <2>3, <3>1 DEF columns, Rows
    <3>3. state'[r] = "Running"
      BY <1>5 DEF GraphInv, TypeOK
    <3>. QED
      BY <2>1, <2>2, <2>3, <3>2, <3>3 DEF Past
  <2>5. <<w, t>> \in WorkerId \X TaskId /\ claims \in Seq(WorkerId \X TaskId)
    BY <2>3 DEF ClaimsInv
  <2>6. /\ claims' \in Seq(WorkerId \X TaskId) /\ DOMAIN claims = 1..(n - 1) /\ DOMAIN claims' = 1..n
        /\ n \in Nat /\ claims'[n] = <<w, t>> /\ \A k \in 1..(n - 1) : claims'[k] = claims[k]
    BY <1>5, <2>5
  <2>7. \A k \in 1..n : k = n \/ k \in 1..(n - 1)
    BY <2>6
  <2>8. \A k \in DOMAIN claims' : Past(claims[k][2])'
    <3>1. \A k \in 1..(n - 1) : claims[k][2] \in TaskId /\ Past(claims[k][2])
      <4>1. \A k \in DOMAIN claims : claims[k] \in WorkerId \X TaskId /\ Past(claims[k][2])
        BY <2>5 DEF ClaimsInv
      <4>. QED
        BY <2>6, <4>1
    <3>3. ASSUME NEW k \in 1..(n - 1) PROVE Past(claims[k][2])'
      <4>1. PICK u \in TaskId : u = claims[k][2] /\ Past(u)
        BY <3>1
      <4>2. Past(u)'
        BY <4>1, PastStays
      <4>3. claims'[k][2] = u
        BY <2>6, <4>1
      <4>. QED
        BY <4>2, <4>3
    <3>4. Past(claims[n][2])'
      <4>1. claims'[n][2] = t
        BY <2>6
      <4>. QED
        BY <2>4, <4>1
    <3>. QED
      BY <2>6, <2>7, <3>3, <3>4
  <2>9. \A k \in 1..(n - 1) : claims[k][2] # t
    BY <2>4, <2>6 DEF ClaimsInv
  <2>10. RunOnce'
    <3>1. \A a, b \in DOMAIN claims' : claims'[a][2] = claims'[b][2] => a = b
      <4>1. \A a, b \in 1..(n - 1) : claims[a][2] = claims[b][2] => a = b
        BY <2>6 DEF ClaimsInv, RunOnce
      <4>2. ASSUME NEW a \in 1..n, NEW b \in 1..n, claims'[a][2] = claims'[b][2] PROVE a = b
        <5>1. claims'[n][2] = t
          BY <2>6
        <5>2. \A k \in 1..(n - 1) : claims'[k][2] = claims[k][2]
          BY <2>6
        <5>. QED
          BY <2>7, <2>9, <4>1, <4>2, <5>1, <5>2
      <4>. QED
        BY <2>6, <4>2
    <3>2. \A e \in runs : \E k \in DOMAIN claims' : claims'[k] = e
      <4>1. \A e \in runs : \E k \in 1..(n - 1) : claims[k] = e
        BY <2>6 DEF ClaimsInv, RunOnce
      <4>2. \A k \in 1..(n - 1) : k \in 1..n
        BY <2>6
      <4>3. \A k \in 1..(n - 1) : k \in DOMAIN claims' /\ claims'[k] = claims[k]
        BY <2>6, <4>2
      <4>. QED
        BY <4>1, <4>3
    <3>. QED
      BY <1>3, <3>1, <3>2 DEF RunOnce
  <2>11. ASSUME NEW v \in WorkerId, Granted(v)' PROVE WasClaimed(v, reply_[v].task)'
    <3>1. CASE reply_'[v] = reply_[v]
      <4>1. Granted(v)
        BY <1>3, <2>11, <3>1 DEF Granted
      <4>2. PICK k \in 1..(n - 1) : claims[k] = <<v, reply_[v].task>>
        BY <2>6, <4>1 DEF ClaimsInv, WasClaimed
      <4>3. k \in DOMAIN claims' /\ claims'[k] = <<v, reply_'[v].task>>
        <5>1. k \in 1..n
          BY <2>6
        <5>2. k \in DOMAIN claims' /\ claims'[k] = claims[k]
          BY <2>6, <5>1
        <5>. QED
          BY <3>1, <4>2, <5>2
      <4>. QED
        BY <4>3 DEF WasClaimed
    <3>2. CASE reply_'[v] # reply_[v]
      <4>1. v = w /\ reply_'[w] = [code |-> "OK", task |-> t]
        BY <1>2, <1>5, <3>2 DEF Answered, WorkerTypes
      <4>2. reply_'[v].task = t /\ n \in 1..n
        BY <2>6, <4>1
      <4>3. n \in DOMAIN claims' /\ claims'[n] = <<v, reply_'[v].task>>
        BY <2>6, <4>1, <4>2
      <4>. QED
        BY <4>3 DEF WasClaimed
    <3>. QED
      BY <3>1, <3>2
  <2>. QED
    BY <2>6, <2>8, <2>10, <2>11 DEF ClaimsInv
<1>. QED
  BY <1>1, <1>4, <1>5

\* A worker that hears of its claim runs what it was handed.
LEMMA RunsClaimed ==
    ASSUME WorkersInv, ClaimsInv, NEW w \in WorkerId, returns(w)
    PROVE  ClaimsInv'
<1>. USE DEF WorkersInv, LocalInv
<1>1. /\ Calling(w) /\ reply_[w] # NoJob /\ UNCHANGED <<vars, claims>>
      /\ reply_' = [reply_ EXCEPT ![w] = NoJob]
      /\ runs' = IF Op(w) = "task_get" /\ Outcome(Op(w), reply(reply_[w].code)) = "OK"
                 THEN runs \cup {<<w, reply_[w].task>>} ELSE runs
      /\ \E out : pc' = [pc EXCEPT ![w] = out]
  BY DEF returns, ends
<1>2. ASSUME NEW e \in runs' \ runs PROVE WasClaimed(e[1], e[2]) /\ e = <<e[1], e[2]>>
  <2>1. /\ Op(w) = "task_get" /\ Outcome("task_get", reply(reply_[w].code)) = "OK"
        /\ e = <<w, reply_[w].task>>
    BY <1>1, <1>2
  <2>2. reply_[w].code \in {"OK", "NotFound", "FailedPrecondition"}
    BY <1>1 DEF WorkerTypes, Reply
  <2>3. reply_[w].code = "OK"
    BY <2>1, <2>2, AnswersTold
  <2>4. Granted(w)
    BY <1>1, <2>1, <2>3 DEF Granted, Calling, Op
  <2>. QED
    BY <2>1, <2>4 DEF ClaimsInv
<1>3. ASSUME NEW v \in WorkerId, Granted(v)' PROVE Granted(v) /\ reply_'[v].task = reply_[v].task
  <2>1. v # w
    BY <1>1, <1>3 DEF Granted, WorkerTypes
  <2>2. reply_'[v] = reply_[v] /\ pc'[v] = pc[v]
    BY <1>1, <2>1 DEF WorkerTypes
  <2>. QED
    BY <1>3, <2>2 DEF Granted
<1>. QED
  BY <1>1, <1>2, <1>3, NothingClaimed

\* Every step keeps the claims as they should be.
LEMMA ClaimsStep ==
    ASSUME WorkersInv, ClaimsInv, [WNext]_allvars
    PROVE  ClaimsInv'
<1>. USE DEF WorkersInv, LocalInv
<1>1. [Next]_vars
  BY WorkersStepTable
<1>2. ASSUME UNCHANGED <<claims, runs>>,
             \A v \in WorkerId : Granted(v)' => Granted(v) /\ reply_'[v].task = reply_[v].task
      PROVE  ClaimsInv'
  BY <1>1, <1>2, NothingClaimed
<1>3. ASSUME UNCHANGED <<pc, reply_, claims, runs>> PROVE ClaimsInv'
  BY <1>2, <1>3 DEF Granted
<1>4. UNCHANGED allvars \/ submit => UNCHANGED <<pc, reply_, claims, runs>>
  BY DEF allvars, workers, submit
<1>5. ASSUME NEW w \in WorkerId, NEW op, NEW at, call(w, op, at), reply_[w] = NoJob PROVE ClaimsInv'
  <2>1. UNCHANGED <<reply_, claims, runs>> /\ \A v \in WorkerId : v # w => pc'[v] = pc[v]
    BY <1>5 DEF call, WorkerTypes
  <2>. QED
    BY <1>2, <1>5, <2>1 DEF Granted
<1>6. ASSUME NEW w \in WorkerId, poll(w) \/ report(w) PROVE ClaimsInv'
  <2>1. reply_[w] = NoJob
    BY <1>6 DEF poll, report, RepliesFit, Calling
  <2>. QED
    BY <1>5, <1>6, <2>1 DEF poll, report
<1>7. ASSUME NEW w \in WorkerId, NEW failed \in BOOLEAN, work(w, failed) PROVE ClaimsInv'
  <2>1. /\ UNCHANGED <<reply_, claims, runs>> /\ pc'[w] = "report"
        /\ \A v \in WorkerId : v # w => pc'[v] = pc[v]
    BY <1>7 DEF work, WorkerTypes
  <2>. QED
    BY <1>2, <2>1 DEF Granted
<1>8. ASSUME NEW w \in WorkerId, returns(w) PROVE ClaimsInv'
  BY <1>8, RunsClaimed
<1>9. ASSUME NEW w \in WorkerId, NEW i \in DOMAIN wire[w], TaskGet(w, i) PROVE ClaimsInv'
  BY <1>1, <1>9, ClaimNew
<1>10. ASSUME NEW w \in WorkerId, NEW i \in DOMAIN wire[w], TaskDone(w, i) PROVE ClaimsInv'
  <2>. PICK code : Answered(w, i, code, NoJob) /\ UNCHANGED claims
    BY <1>10 DEF TaskDone
  <2>1. UNCHANGED <<pc, runs>> /\ \A v \in WorkerId : v # w => reply_'[v] = reply_[v]
    BY DEF Answered, WorkerTypes
  <2>2. wire[w][i].live => pc[w] = "reporting"
    <3>1. Fits(w, wire[w][i]) /\ wire[w][i].op = "task_done"
      BY <1>10 DEF WireFits, WireOk, TaskDone
    <3>. QED
      BY <3>1 DEF Fits, Op, Calling
  <2>3. ~wire[w][i].live => reply_'[w] = reply_[w]
    BY DEF Answered, WorkerTypes
  <2>. QED
    BY <1>2, <2>1, <2>2, <2>3 DEF Granted
<1>11. ASSUME NEW w \in WorkerId, die(w) PROVE ClaimsInv'
  <2>1. /\ UNCHANGED <<claims, runs>> /\ pc'[w] = "gone"
        /\ \A v \in WorkerId : v # w => pc'[v] = pc[v] /\ reply_'[v] = reply_[v]
    BY <1>11 DEF die, WorkerTypes
  <2>. QED
    BY <1>2, <2>1 DEF Granted
<1>12. ASSUME NEW w \in WorkerId, NEW status \in Failures, fails(w, status) PROVE ClaimsInv'
  <2>1. Op(w) \in {"task_get", "task_done"}
    BY DEF Op
  <2>2. Outcome(Op(w), status) \notin {"OK", "NoTaskAvailable", "TaskStateError"}
    BY <2>1, FailuresTold
  <2>3. UNCHANGED <<claims, runs>> /\ reply_' = [reply_ EXCEPT ![w] = NoJob] /\ \E out : pc' = [pc EXCEPT ![w] = out]
    BY <1>12, <2>2 DEF fails
  <2>4. reply_'[w] = NoJob /\ \A v \in WorkerId : v # w => pc'[v] = pc[v] /\ reply_'[v] = reply_[v]
    BY <2>3 DEF WorkerTypes
  <2>. QED
    BY <1>2, <2>3, <2>4 DEF Granted
<1>13. ASSUME NEW w \in WorkerId, NEW i \in DOMAIN wire[w], lose(w, i) PROVE ClaimsInv'
  BY <1>3, <1>13 DEF lose
<1>. QED
  BY <1>3, <1>4, <1>6, <1>7, <1>8, <1>9, <1>10, <1>11, <1>12, <1>13 DEF WNext, step, serve

\* The server hands no task out twice, to two workers or to one, also when the
\* reply to a claim is lost or its request had been given up on, and what a
\* worker runs was handed to it (task-manager.cpp 363-378).
THEOREM TasksRunOnce == WSpec => []RunOnce
<1>1. WInit => ClaimsInv
  BY DEF WInit, ClaimsInv, RunOnce, Granted
<1>2. WorkersInv /\ ClaimsInv /\ [WNext]_allvars => ClaimsInv'
  BY ClaimsStep
<1>3. ClaimsInv => RunOnce
  BY DEF ClaimsInv
<1>. QED
  BY <1>1, <1>2, <1>3, WorkersInvAlways, PTL DEF WSpec
============================================================================
