---------------------------- MODULE AsyncClient ----------------------------
(***************************************************************************)
(* DsServiceClientAsync (python/ds_service_client/client.py): coroutines   *)
(* on one event loop hand blocking calls to a pool of threads.  The        *)
(* threads are those of ClientCalls.  asyncio and ThreadPoolExecutor are   *)
(* external: a call of a coroutine is a future of the pool, which a thread *)
(* takes from the front of the queue, and which the cancellation of the    *)
(* coroutine cancels if no thread has taken it.                            *)
(***************************************************************************)
EXTENDS ClientCalls, Sequences

CONSTANTS Coroutine, NoCoroutine

ASSUME CoroutineAssumption == NoCoroutine \notin Coroutine

VARIABLES
    _closed,  \* the flag of the asynchronous client
    future,   \* future[c]: "none", "pending", "running", "cancelled", "ended"
    task,     \* the coroutine: "ready", "awaiting", "cancelled", or how it ended
    queue,    \* the work items of the pool
    item      \* item[t]: whose call thread t makes

asyncvars == <<vars, _closed, future, task, queue, item>>

AsyncInit ==
    /\ Init
    /\ _closed = FALSE
    /\ future = [c \in Coroutine |-> "none"]
    /\ task = [c \in Coroutine |-> "ready"]
    /\ queue = <<>>
    /\ item = [t \in Thread |-> NoCoroutine]

----------------------------------------------------------------------------
(* The event loop                                                          *)

\* A coroutine calls: on the pool, or at once when the client is closed.
_call(c) ==
    /\ task[c] = "ready"
    /\ IF _closed
       THEN /\ task' = [task EXCEPT ![c] = "Closed"]
            /\ UNCHANGED <<future, queue>>
       ELSE /\ task' = [task EXCEPT ![c] = "awaiting"]
            /\ future' = [future EXCEPT ![c] = "pending"]
            /\ queue' = Append(queue, c)
    /\ UNCHANGED <<vars, _closed, item>>

cancel(c) ==
    /\ task[c] = "awaiting"
    /\ task' = [task EXCEPT ![c] = "cancelled"]
    /\ future' = [future EXCEPT ![c] = IF @ = "pending" THEN "cancelled" ELSE @]
    /\ UNCHANGED <<vars, _closed, queue, item>>

\* Faulty variant: the shutdown of the pool cancels what no thread has taken
\* (cancel_futures); the coroutines that await it are told later.
async_close_CancelsQueue ==
    /\ ~_closed /\ _closed' = TRUE
    /\ close
    /\ queue' = <<>>
    /\ future' = [c \in Coroutine |-> IF future[c] = "pending" THEN "cancelled" ELSE future[c]]
    /\ UNCHANGED <<task, item>>

\* The flag is set and the client is closed; the pool goes on with its queue.
async_close ==
    /\ ~_closed /\ _closed' = TRUE
    /\ close
    /\ UNCHANGED <<future, task, queue, item>>

----------------------------------------------------------------------------
(* The pool                                                                *)

Free(t) == item[t] = NoCoroutine

\* A free thread takes the next item; one that was cancelled is dropped.
take(t) ==
    /\ Free(t) /\ queue # <<>>
    /\ queue' = Tail(queue)
    /\ LET c == Head(queue) IN
       IF future[c] = "cancelled" THEN UNCHANGED <<future, item>>
       ELSE /\ future' = [future EXCEPT ![c] = "running"]
            /\ item' = [item EXCEPT ![t] = c]
    /\ UNCHANGED <<vars, _closed, task>>

\* The call of the item ends with what invoke gave.
Deliver(t) ==
    LET c == item[t] IN
    /\ future' = [future EXCEPT ![c] = "ended"]
    /\ task' = [task EXCEPT ![c] = IF @ = "awaiting" THEN result'[t] ELSE @]
    /\ item' = [item EXCEPT ![t] = NoCoroutine]
    /\ UNCHANGED <<_closed, queue>>

ends(t) == ~Free(t) /\ (end_call(t) \/ begin_call_closed(t)) /\ Deliver(t)

InCall(t) ==
    /\ ~Free(t)
    /\ begin_call(t) \/ start(t) \/ wait_done(t)
    /\ UNCHANGED <<_closed, future, task, queue, item>>

grpc(t, s, who) == complete(t, s, who) /\ UNCHANGED <<_closed, future, task, queue, item>>

AsyncNext ==
    \/ async_close
    \/ \E c \in Coroutine : _call(c) \/ cancel(c)
    \/ \E t \in Thread :
         \/ take(t) \/ InCall(t) \/ ends(t)
         \/ \E s \in Statuses, who \in {{}, {"server"}} : grpc(t, s, who)

AsyncSpec == AsyncInit /\ [][AsyncNext]_asyncvars

\* The pool runs, and a call ends at its deadline or once it was cancelled.
AsyncFairSpec ==
    /\ AsyncSpec
    /\ \A t \in Thread :
         /\ WF_asyncvars(take(t) \/ InCall(t) \/ ends(t))
         /\ WF_asyncvars((HasDeadline \/ by[t] # {}) /\ \E s \in Statuses : grpc(t, s, {}))

----------------------------------------------------------------------------
(* Properties                                                              *)

\* Where the call of c is: its places in the queue and the threads that make it.
Making(c) == {t \in Thread : item[t] = c}
Places(c) == ({"queue"} \X {i \in DOMAIN queue : queue[i] = c}) \cup ({"thread"} \X Making(c))

\* The call a coroutine awaits is in the queue or with a thread, and no call is
\* ever at two places: it is made once and its result is not lost, although
\* coroutines are cancelled at any moment and close() comes in between
\* (client.py 604-629).
CallServedOnce ==
    \A c \in Coroutine :
        /\ \A x, y \in Places(c) : x = y
        /\ task[c] = "awaiting" => Places(c) # {}

\* "Canceling the coroutine does not cancel the call itself, which runs on until
\* it completes or its deadline passes" (client.py 587-588): every call that was
\* given to the pool is made and ends.  It is not so of a call that no thread has
\* taken yet: the cancellation of its coroutine cancels it (client.py 615-617).
CanceledCallRunsOn ==
    \A c \in Coroutine : (future[c] = "pending") ~> (future[c] = "ended")

\* The inductive invariant behind it: the future of a call says where it is, a
\* thread without an item is in no call, and the two flags of close() agree.
AsyncTypes ==
    /\ future \in [Coroutine -> {"none", "pending", "running", "cancelled", "ended"}]
    /\ task \in [Coroutine -> {"ready", "awaiting", "cancelled"} \cup Results]
    /\ queue \in Seq(Coroutine)
    /\ item \in [Thread -> Coroutine \cup {NoCoroutine}]

PoolFits == _closed = closed_ /\ \A t \in Thread : Free(t) => pc[t] = "out"

FutureFits(c) ==
    /\ task[c] = "ready" => future[c] = "none"
    /\ task[c] = "awaiting" => future[c] \in {"pending", "running"}
    /\ future[c] = "running" <=> \E t \in Thread : item[t] = c
    /\ future[c] = "pending" => \E i \in DOMAIN queue : queue[i] = c

QueueFits ==
    /\ \A i \in DOMAIN queue : future[queue[i]] \in {"pending", "cancelled"}
    /\ \A i, j \in DOMAIN queue : queue[i] = queue[j] => i = j

ItemsOnce == \A t, u \in Thread : (item[t] = item[u] /\ ~Free(t)) => t = u

AsyncInv == AsyncTypes /\ PoolFits /\ (\A c \in Coroutine : FutureFits(c)) /\ QueueFits /\ ItemsOnce

\* Once the client is closed every coroutine that awaits a call ends, the ones
\* still queued behind a full pool included, although the calls have no
\* deadline and close() waits for no thread (client.py 604-629).
AsyncCloseDrains ==
    \A c \in Coroutine : (_closed /\ task[c] = "awaiting") ~> task[c] # "awaiting"
============================================================================
