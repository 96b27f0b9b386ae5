---------------------------- MODULE MutexClients ----------------------------
(***************************************************************************)
(* Workers that take a named mutex the way the guides say: mutex_acquire,  *)
(* the exclusive section, mutex_release in a finally.  mutex_acquire is a  *)
(* loop in the client (cpp/client/client.cpp, client.py) around calls of   *)
(* mutex_try_acquire that can be slow, fail or time out; a request may be  *)
(* executed by the server after its caller has given up, or be lost.       *)
(***************************************************************************)
EXTENDS Mutexes, Integers, FiniteSets

CONSTANTS Delay,       \* the sleep between two attempts, in ticks
          Timeouts,    \* the timeouts mutex_acquire is called with
          NoTimeout,   \* timeout None: retry for ever
          RpcTimeout,  \* the deadline of one call, in ticks
          CanFail,     \* may calls fail and workers die
          MaxRequests  \* bound: requests of one worker not yet served or lost

ASSUME TimesAssumption ==
    /\ Delay \in Nat \ {0} /\ RpcTimeout \in Nat \ {0}
    /\ Timeouts \subseteq Nat \cup {NoTimeout} /\ NoTimeout \notin Nat
    /\ CanFail \in BOOLEAN /\ MaxRequests \in Nat \ {0}

VARIABLES
    pc,        \* where the worker is
    key,       \* the mutex its calls name
    left,      \* what is left of the timeout of mutex_acquire; -1: overrun
    timer,     \* what is left of its sleep, or of the deadline of its call
    call,      \* the call it made last, which tells apart its requests
    reply,     \* the answer to that call, "none" before it arrives
    requests,  \* on their way to the server, or queued there
    failed     \* history: a call of the worker failed under it

clients == <<pc, key, left, timer, call, reply, failed>>
vars == <<data, clients, requests>>

Request == [op : {"try_acquire", "release"}, worker : WorkerId, key : Key, call : 1..MaxRequests]

Init ==
    /\ MutexInit
    /\ pc = [w \in WorkerId |-> "idle"]
    /\ key \in [WorkerId -> Key]
    /\ left = [w \in WorkerId |-> NoTimeout]
    /\ timer = [w \in WorkerId |-> 0]
    /\ call = [w \in WorkerId |-> 1]
    /\ reply = [w \in WorkerId |-> "none"]
    /\ requests = {}
    /\ failed = [w \in WorkerId |-> FALSE]

-----------------------------------------------------------------------------

\* Worker w makes a call about mutex k and waits for it at location where.
Send(w, k, op, where) ==
    \E c \in 1..MaxRequests :
        /\ \A m \in requests : m.worker = w => m.call # c
        /\ \A d \in 1..(c - 1) : \E m \in requests : m.worker = w /\ m.call = d
        /\ call' = [call EXCEPT ![w] = c]
        /\ requests' = requests \cup {[op |-> op, worker |-> w, key |-> k, call |-> c]}
        /\ pc' = [pc EXCEPT ![w] = where]
        /\ reply' = [reply EXCEPT ![w] = "none"]
        /\ timer' = [timer EXCEPT ![w] = RpcTimeout]

\* Worker w moves on; t is what it sleeps.  The deadline of mutex_acquire goes
\* with the loop.
Goto(w, where, t) ==
    /\ pc' = [pc EXCEPT ![w] = where]
    /\ reply' = [reply EXCEPT ![w] = "none"]
    /\ timer' = [timer EXCEPT ![w] = t]
    /\ left' = [left EXCEPT ![w] = IF where \in {"deciding", "sleeping"} THEN @ ELSE NoTimeout]

mutex_acquire(w, k, timeout) ==
    /\ pc[w] = "idle"
    /\ key' = [key EXCEPT ![w] = k]
    /\ left' = [left EXCEPT ![w] = timeout]
    /\ Send(w, k, "try_acquire", "trying")
    /\ UNCHANGED <<data, failed>>

Expired(w) == left[w] # NoTimeout /\ left[w] <= 0

Acquiring(w) == pc[w] \in {"trying", "deciding", "sleeping"}

\* Faulty variant: the deadline is looked at before the answer.
acquired_InTime(w) == reply[w] = "true" /\ ~Expired(w)

\* The attempt that just returned acquired the mutex.
acquired(w) == reply[w] = "true"

try_returned(w) ==
    /\ pc[w] = "trying" /\ reply[w] # "none"
    /\ Goto(w, IF acquired(w) THEN "holding" ELSE "deciding", 0)
    /\ UNCHANGED <<data, key, call, requests, failed>>

\* mutex_retry_delay: raise once the deadline has passed, else sleep, and not
\* past the deadline.
give_up(w) ==
    /\ pc[w] = "deciding" /\ Expired(w)
    /\ Goto(w, "idle", 0)
    /\ UNCHANGED <<data, key, call, requests, failed>>

sleep(w) ==
    /\ pc[w] = "deciding" /\ ~Expired(w)
    /\ Goto(w, "sleeping", IF left[w] = NoTimeout \/ Delay <= left[w] THEN Delay ELSE left[w])
    /\ UNCHANGED <<data, key, call, requests, failed>>

retry(w) ==
    /\ pc[w] = "sleeping" /\ timer[w] = 0
    /\ Send(w, key[w], "try_acquire", "trying")
    /\ UNCHANGED <<data, key, left, failed>>

mutex_release(w) ==
    /\ pc[w] = "holding"
    /\ Send(w, key[w], "release", "releasing")
    /\ UNCHANGED <<data, key, left, failed>>

release_returned(w) ==
    /\ pc[w] = "releasing" /\ reply[w] # "none"
    /\ Goto(w, "idle", 0)
    /\ UNCHANGED <<data, key, call, requests, failed>>

\* The call raises: the server is unavailable, or the deadline of the call
\* passed.  The request may still be on its way.
call_fails(w) ==
    /\ CanFail /\ pc[w] \in {"trying", "releasing"}
    /\ Goto(w, "idle", 0)
    /\ failed' = [failed EXCEPT ![w] = TRUE]
    /\ UNCHANGED <<data, key, call, requests>>

die(w) ==
    /\ CanFail /\ pc[w] # "dead"
    /\ Goto(w, "dead", 0)
    /\ UNCHANGED <<data, key, call, requests, failed>>

-----------------------------------------------------------------------------

\* The answer reaches the worker if it still waits for this call.
Answer(m, answer) ==
    reply' = [reply EXCEPT ![m.worker] =
                IF pc[m.worker] \in {"trying", "releasing"} /\ call[m.worker] = m.call
                THEN answer ELSE @]

serve_try_acquire(m) ==
    /\ m.op = "try_acquire"
    /\ requests' = requests \ {m}
    /\ try_acquire(m.key, m.worker)
    /\ Answer(m, IF try_acquire_result(m.key, m.worker) THEN "true" ELSE "false")
    /\ UNCHANGED <<pc, key, left, timer, call, failed>>

serve_release(m) ==
    /\ m.op = "release"
    /\ requests' = requests \ {m}
    /\ release(m.key, m.worker)
    /\ Answer(m, release_result(m.key, m.worker))
    /\ UNCHANGED <<pc, key, left, timer, call, failed>>

lose(m) ==
    /\ CanFail
    /\ requests' = requests \ {m}
    /\ UNCHANGED <<data, clients>>

\* Threads are not delayed: time passes when no worker has a step of its own
\* to take, so that what takes long is the network and the server.
Due(w) ==
    \/ pc[w] = "deciding"
    \/ pc[w] = "sleeping" /\ timer[w] = 0
    \/ pc[w] \in {"trying", "releasing"} /\ (reply[w] # "none" \/ (CanFail /\ timer[w] = 0))

tick ==
    /\ \A w \in WorkerId : ~Due(w)
    /\ timer' = [w \in WorkerId |-> IF timer[w] > 0 THEN timer[w] - 1 ELSE 0]
    /\ left' = [w \in WorkerId |-> IF left[w] = NoTimeout \/ left[w] = -1 \/ ~Acquiring(w)
                                   THEN left[w] ELSE left[w] - 1]
    /\ UNCHANGED <<data, requests, pc, key, call, reply, failed>>

WorkerStep(w) ==
    \/ try_returned(w) \/ give_up(w) \/ sleep(w) \/ retry(w) \/ release_returned(w)

ServerStep == \E m \in requests : serve_try_acquire(m) \/ serve_release(m)

Next ==
    \/ \E w \in WorkerId :
         \/ \E k \in Key, timeout \in Timeouts : mutex_acquire(w, k, timeout)
         \/ try_returned(w) \/ give_up(w) \/ sleep(w) \/ retry(w)
         \/ mutex_release(w) \/ release_returned(w)
         \/ call_fails(w) \/ die(w)
    \/ \E m \in requests : serve_try_acquire(m) \/ serve_release(m) \/ lose(m)
    \/ tick

Spec == Init /\ [][Next]_vars

\* Threads run, the server serves what it receives or loses it, a call without
\* an answer ends at its deadline, and whoever holds a mutex releases it.  Time
\* passes whatever the workers do, so tick is strongly fair: it waits only for
\* steps that take no time.
FairSpec ==
    /\ Spec
    /\ SF_vars(tick)
    /\ \A w \in WorkerId :
         /\ WF_vars(WorkerStep(w))
         /\ WF_vars(mutex_release(w))
         /\ WF_vars(timer[w] = 0 /\ call_fails(w))
    /\ \A m \in Request : WF_vars(m \in requests /\ (serve_try_acquire(m) \/ serve_release(m)))

-----------------------------------------------------------------------------
(* Properties                                                              *)

\* The worker in the exclusive section of a mutex is the one the server names
\* as its holder, and the mutex is listed by the searches that match it.
HolderNamed ==
    \A w \in WorkerId : pc[w] = "holding" =>
        /\ get_worker_id(key[w]) = w
        /\ \A M \in SUBSET Key :
             key[w] \in search_key([ok |-> TRUE, matches |-> M]).key <=> key[w] \in M

\* No two workers are in the exclusive section of one mutex, and none that looks
\* is told that a mutex in use is free or unknown, although requests whose
\* callers gave up are executed late: a late release finds the mutex still held
\* for its worker, because nobody, that worker included, could acquire it
\* meanwhile (mutexes.cpp 13-15, 30-39, 43-75, client.cpp 168-184).
MutualExclusion ==
    /\ \A v, w \in WorkerId :
         (pc[v] = "holding" /\ pc[w] = "holding" /\ key[v] = key[w]) => v = w
    /\ HolderNamed

\* A mutex is left held for a worker that neither uses, acquires nor releases
\* it only if a call failed under that worker or it died.  In particular the
\* timeout of mutex_acquire never leaves one behind (client.cpp 168-182).
NoSilentOrphan ==
    \A w \in WorkerId :
        (\E k \in Key : data[k] = w /\ (pc[w] = "idle" \/ key[w] # k))
            => failed[w] \/ pc[w] = "dead"

\* While a worker waits for a mutex without a timeout, some worker comes to
\* hold it, unless a call fails or a worker dies: a release really frees the
\* mutex, and the poll finds it free (mutexes.cpp 13, 39, client.cpp 168-184).
\* Which worker is up to the polls: nothing keeps one from losing every race.
SomeoneAcquires ==
    \A k \in Key :
        (\E w \in WorkerId : Acquiring(w) /\ key[w] = k /\ left[w] = NoTimeout)
            ~> (\E w \in WorkerId :
                   (pc[w] = "holding" /\ key[w] = k) \/ failed[w] \/ pc[w] = "dead")

\* "The timeout bounds the whole loop, sleeps included" (client.py): a worker
\* is not left in mutex_acquire after its deadline.
TimeoutBoundsLoop == \A w \in WorkerId : Acquiring(w) => left[w] # -1
=============================================================================
