---------------------------- MODULE PythonProofs ----------------------------
(***************************************************************************)
(* Calls from Python, by the bindings (PythonCalls) and on the pool of the *)
(* asynchronous client (AsyncClient), are calls of ClientCalls: whatever   *)
(* is proved there holds of them, for any number of threads.  On top of    *)
(* it, the exception of a signal handler surfaces, and the call a          *)
(* coroutine awaits is made once and never lost.                           *)
(***************************************************************************)
EXTENDS Integers, PythonCalls, AsyncClient, ClientCallsProofs

-----------------------------------------------------------------------------
(* The bindings                                                            *)

\* A step of Python is a step of the transport or none.
LEMMA PyStepIsStep == [PyNext]_pyvars => [Next]_vars
<1>. SUFFICES ASSUME [PyNext]_pyvars PROVE [Next]_vars
  OBVIOUS
<1>1. CASE interrupt \/ handle \/ UNCHANGED pyvars
  BY <1>1 DEF interrupt, handle, pyvars
<1>2. CASE close
  BY <1>2 DEF Next
<1>3. ASSUME NEW t \in Thread, PyBegin(t) \/ PyClosed(t) \/ released(t) PROVE Next
  BY <1>3 DEF PyBegin, PyClosed, released, Next
<1>4. ASSUME NEW t \in Thread, PyInCall(t) PROVE Next
  BY <1>4 DEF PyInCall, Next
<1>5. ASSUME NEW t \in Thread, python_signal_pending(t) PROVE Next
  BY <1>5 DEF python_signal_pending, Next
<1>. QED
  BY <1>1, <1>2, <1>3, <1>4, <1>5 DEF PyNext

\* Calls made through the bindings are calls of the transport: the hook that
\* runs signal handlers, and raising in place of returning, add no step that
\* ClientCalls does not have (bindings.cpp 54-94).
THEOREM PythonCallsAreCalls == PySpec => Spec
<1>1. PyInit => Init
  BY DEF PyInit
<1>. QED
  BY <1>1, PyStepIsStep, PTL DEF PySpec, Spec

\* A step keeps pending exceptions where they belong.
LEMMA PyStep == PyInv /\ [PyNext]_pyvars => PyInv'
<1>. SUFFICES ASSUME PyInv, [PyNext]_pyvars PROVE PyInv'
  OBVIOUS
<1>0. CallsInv' /\ TypeOK
  BY PyStepIsStep, CallsStep DEF PyInv, CallsInv
<1>. USE DEF PyInv
<1>1. CASE interrupt \/ handle \/ UNCHANGED pyvars
  BY <1>0, <1>1, MainAssumption DEF interrupt, handle, pyvars, vars, PendingIsCancelled
<1>2. CASE close /\ UNCHANGED <<tripped, error, raised>>
  BY <1>0, <1>2, MainAssumption DEF close, TryCancelled, PendingIsCancelled
<1>3. ASSUME NEW t \in Thread, PyBegin(t) \/ PyClosed(t) PROVE PyInv'
  <2>1. t \notin error
    BY <1>3 DEF PyBegin, PyClosed, begin_call, begin_call_closed, PendingIsCancelled
  <2>2. PendingIsCancelled'
    BY <1>0, <1>3, <2>1 DEF PyBegin, PyClosed, begin_call, begin_call_closed, PendingIsCancelled, TypeOK
  <2>3. raised' \in [Thread -> Results \cup {"KeyboardInterrupt"}]
    BY <1>3 DEF PyBegin, PyClosed, Results
  <2>. QED
    BY <1>0, <1>3, <2>2, <2>3 DEF PyBegin, PyClosed
<1>4. ASSUME NEW t \in Thread, PyInCall(t) PROVE PyInv'
  <2>1. /\ UNCHANGED cancelled
        /\ \A u \in Thread : (pc[u] # "out" => pc'[u] # "out") /\ by[u] \subseteq by'[u]
    <3>1. CASE start(t) \/ wait_done(t) \/ ask(t)
      BY <1>0, <3>1 DEF start, wait_done, ask, TypeOK
    <3>2. ASSUME NEW s \in Statuses, NEW who \in {{}, {"server"}}, complete(t, s, who)
          PROVE  /\ UNCHANGED cancelled
                 /\ \A u \in Thread : (pc[u] # "out" => pc'[u] # "out") /\ by[u] \subseteq by'[u]
      BY <1>0, <3>2 DEF complete, TypeOK
    <3>. QED
      BY <1>4, <3>1, <3>2 DEF PyInCall
  <2>2. UNCHANGED <<tripped, error, raised>>
    BY <1>4 DEF PyInCall
  <2>3. PendingIsCancelled'
    BY <2>1, <2>2, MainAssumption DEF PendingIsCancelled
  <2>. QED
    BY <1>0, <2>2, <2>3
<1>5. ASSUME NEW t \in Thread, python_signal_pending(t) PROVE PyInv'
  <2>1. CASE t = Main /\ tripped
    <3>1. answer_yes(t) /\ tripped' = FALSE /\ error' = error \cup {t} /\ UNCHANGED raised
      BY <1>5, <2>1 DEF python_signal_pending
    <3>2. pc'[t] = "waiting" /\ t \in cancelled' /\ "hook" \in by'[t]
      BY <1>0, <3>1 DEF answer_yes, TryCancelled, TypeOK
    <3>3. \A u \in error' : u = t
      BY <2>1, <3>1 DEF PendingIsCancelled
    <3>4. PendingIsCancelled'
      BY <2>1, <3>2, <3>3 DEF PendingIsCancelled
    <3>. QED
      BY <1>0, <3>1, <3>4
  <2>2. CASE ~(t = Main /\ tripped)
    BY <1>0, <1>5, <2>2, MainAssumption
       DEF python_signal_pending, answer_no, PendingIsCancelled, TypeOK
  <2>. QED
    BY <2>1, <2>2
<1>6. ASSUME NEW t \in Thread, released(t) PROVE PyInv'
  <2>1. result'[t] \in Results
    BY <1>0, <1>6 DEF CallsInv, TypeOK
  <2>2. raised' \in [Thread -> Results \cup {"KeyboardInterrupt"}]
    BY <1>6, <2>1 DEF released, Raised
  <2>3. PendingIsCancelled'
    BY <1>0, <1>6, MainAssumption DEF released, end_call, PendingIsCancelled, TypeOK
  <2>. QED
    BY <1>0, <1>6, <2>2, <2>3 DEF released
<1>. QED
  BY <1>1, <1>2, <1>3, <1>4, <1>5, <1>6 DEF PyNext

\* In every reachable state the transport is consistent, and a pending exception
\* is the main thread's, in a call that was cancelled for it (bindings.cpp 85-94).
THEOREM PyInvAlways == PySpec => []PyInv
<1>1. PyInit => PyInv
  <2>1. PyInit => CallsInv
    BY CallsStart DEF PyInit
  <2>. QED
    BY <2>1 DEF PyInit, PyInv, PendingIsCancelled, Results
<1>. QED
  BY <1>1, PyStep, PTL DEF PySpec

\* The exception a signal handler raised inside a call is what that call raises
\* in Python, whatever gRPC made of the call (bindings.cpp 54-94, 139-143).
THEOREM InterruptRaised == PySpec => InterruptSurfaces
<1>. DEFINE Surfaces(t) == (t \in error /\ t \notin error') =>
                             t = Main /\ raised'[t] = "KeyboardInterrupt" /\ pc'[t] = "out"
<1>1. ASSUME PyInv, [PyNext]_pyvars, NEW t \in Thread PROVE Surfaces(t)
  <2>. SUFFICES ASSUME t \in error, t \notin error'
                PROVE  t = Main /\ raised'[t] = "KeyboardInterrupt" /\ pc'[t] = "out"
    OBVIOUS
  <2>1. PICK u \in Thread : released(u)
    BY <1>1 DEF PyNext, interrupt, handle, PyBegin, PyClosed, PyInCall, python_signal_pending, pyvars
  <2>2. u = t
    BY <2>1 DEF released
  <2>3. t = Main /\ pc \in [Thread -> Locations] /\ raised \in [Thread -> Results \cup {"KeyboardInterrupt"}]
    BY <1>1 DEF PyInv, PendingIsCancelled, CallsInv, TypeOK
  <2>. QED
    BY <2>1, <2>2, <2>3 DEF released, end_call, Raised
<1>2. PyInv /\ [PyNext]_pyvars => [\A t \in Thread : Surfaces(t)]_pyvars
  BY <1>1
<1>. QED
  BY <1>2, PyInvAlways, PTL DEF PySpec, InterruptSurfaces

\* What is proved of calls holds of calls from Python: none outlives the frame
\* that released the GIL for it, close() reaches them all, and Cancelled is told
\* only of a call that its hook or the server cut (bindings.cpp 63-94).
THEOREM PythonCallsSafe == PySpec => [](FrameOutlivesCall /\ CloseReachesAll /\ CancelledIsMeant)
<1>1. PyInv => FrameOutlivesCall /\ CloseReachesAll /\ CancelledIsMeant
  BY DEF PyInv, CallsInv
<1>. QED
  BY <1>1, PyInvAlways, PTL

-----------------------------------------------------------------------------
(* The pool                                                                *)

\* A step of the event loop or of the pool is a step of the transport or none.
LEMMA AsyncStepIsStep == [AsyncNext]_asyncvars => [Next]_vars
<1>. SUFFICES ASSUME [AsyncNext]_asyncvars PROVE [Next]_vars
  OBVIOUS
<1>1. CASE async_close
  BY <1>1 DEF async_close, Next
<1>2. ASSUME NEW c \in Coroutine, _call(c) \/ cancel(c) PROVE UNCHANGED vars
  BY <1>2 DEF _call, cancel
<1>3. ASSUME NEW t \in Thread, take(t) PROVE UNCHANGED vars
  BY <1>3 DEF take
<1>4. ASSUME NEW t \in Thread, InCall(t) \/ ends(t) PROVE Next
  BY <1>4 DEF InCall, ends, Next
<1>5. ASSUME NEW t \in Thread, NEW s \in Statuses, NEW who \in {{}, {"server"}}, grpc(t, s, who) PROVE Next
  BY <1>5 DEF grpc, Next
<1>6. CASE UNCHANGED asyncvars
  BY <1>6 DEF asyncvars
<1>. QED
  BY <1>1, <1>2, <1>3, <1>4, <1>5, <1>6 DEF AsyncNext

\* The calls that coroutines hand to the pool are calls of the transport, each
\* on the thread that took it (client.py 604-629).
THEOREM AsyncCallsAreCalls == AsyncSpec => Spec
<1>1. AsyncInit => Init
  BY DEF AsyncInit
<1>. QED
  BY <1>1, AsyncStepIsStep, PTL DEF AsyncSpec, Spec

\* Places of a queue that grew or lost its head.
LEMMA Joined ==
    ASSUME NEW S, NEW q \in Seq(S), NEW e \in S
    PROVE  /\ Append(q, e) \in Seq(S) /\ DOMAIN Append(q, e) = DOMAIN q \cup {Len(q) + 1}
           /\ Len(q) + 1 \notin DOMAIN q /\ Append(q, e)[Len(q) + 1] = e
           /\ \A i \in DOMAIN q : Append(q, e)[i] = q[i]
  OBVIOUS

LEMMA Left ==
    ASSUME NEW S, NEW q \in Seq(S), q # <<>>
    PROVE  /\ Tail(q) \in Seq(S) /\ 1 \in DOMAIN q /\ Head(q) = q[1]
           /\ \A i \in DOMAIN Tail(q) : i + 1 \in DOMAIN q /\ i + 1 # 1 /\ Tail(q)[i] = q[i + 1]
           /\ \A i \in DOMAIN q : i # 1 => i - 1 \in DOMAIN Tail(q) /\ Tail(q)[i - 1] = q[i]
           /\ \A i, j \in DOMAIN Tail(q) : i + 1 = j + 1 => i = j
  OBVIOUS

\* A coroutine that calls.
LEMMA CallStep ==
    ASSUME AsyncInv, NEW c \in Coroutine, _call(c)
    PROVE  AsyncInv'
<1>. USE DEF AsyncInv, AsyncTypes
<1>1. PoolFits' /\ ItemsOnce'
  BY DEF _call, vars, PoolFits, ItemsOnce, Free
<1>2. task[c] = "ready" /\ future[c] = "none" /\ UNCHANGED item
  BY DEF _call, FutureFits
<1>3. CASE _closed
  <2>1. task' = [task EXCEPT ![c] = "Closed"] /\ UNCHANGED <<future, queue>>
    BY <1>3 DEF _call
  <2>2. AsyncTypes' /\ QueueFits'
    BY <1>2, <2>1 DEF QueueFits, Results
  <2>3. ASSUME NEW d \in Coroutine PROVE FutureFits(d)'
    BY <1>2, <2>1 DEF FutureFits
  <2>. QED
    BY <1>1, <2>2, <2>3
<1>4. CASE ~_closed
  <2>1. /\ task' = [task EXCEPT ![c] = "awaiting"] /\ future' = [future EXCEPT ![c] = "pending"]
        /\ queue' = Append(queue, c)
    BY <1>4 DEF _call
  <2>. PICK last : last = Len(queue) + 1
    OBVIOUS
  <2>2. /\ queue' \in Seq(Coroutine) /\ DOMAIN queue' = DOMAIN queue \cup {last}
        /\ last \notin DOMAIN queue /\ queue'[last] = c
        /\ \A i \in DOMAIN queue : queue'[i] = queue[i]
    BY <2>1, Joined
  <2>3. AsyncTypes'
    BY <1>2, <2>1, <2>2
  <2>4. \A i \in DOMAIN queue : queue[i] \in Coroutine /\ queue[i] # c
    BY <1>2 DEF QueueFits
  <2>5. QueueFits'
    BY <2>1, <2>2, <2>4 DEF QueueFits
  <2>6. ASSUME NEW d \in Coroutine PROVE FutureFits(d)'
    <3>1. CASE d = c
      BY <1>2, <2>1, <2>2, <3>1 DEF FutureFits
    <3>2. CASE d # c
      BY <1>2, <2>1, <2>2, <3>2 DEF FutureFits
    <3>. QED
      BY <3>1, <3>2
  <2>. QED
    BY <1>1, <2>3, <2>5, <2>6
<1>. QED
  BY <1>3, <1>4

\* A coroutine that is cancelled.
LEMMA CancelStep ==
    ASSUME AsyncInv, NEW c \in Coroutine, cancel(c)
    PROVE  AsyncInv'
<1>. USE DEF AsyncInv, AsyncTypes
<1>1. PoolFits' /\ ItemsOnce' /\ UNCHANGED <<queue, item>>
  BY DEF cancel, vars, PoolFits, ItemsOnce, Free
<1>2. /\ task' = [task EXCEPT ![c] = "cancelled"]
      /\ future' = [future EXCEPT ![c] = IF @ = "pending" THEN "cancelled" ELSE @]
  BY DEF cancel
<1>3. AsyncTypes'
  BY <1>1, <1>2
<1>4. QueueFits'
  BY <1>1, <1>2 DEF QueueFits
<1>5. ASSUME NEW d \in Coroutine PROVE FutureFits(d)'
  <2>1. CASE d = c
    BY <1>1, <1>2, <2>1 DEF FutureFits
  <2>2. CASE d # c
    BY <1>1, <1>2, <2>2 DEF FutureFits
  <2>. QED
    BY <2>1, <2>2
<1>. QED
  BY <1>1, <1>3, <1>4, <1>5

\* A thread that takes the next item.
LEMMA TakeStep ==
    ASSUME AsyncInv, NEW t \in Thread, take(t)
    PROVE  AsyncInv'
<1>. USE DEF AsyncInv, AsyncTypes
<1>. PICK c, q : c = Head(queue) /\ q = Tail(queue)
  OBVIOUS
<1>1. queue \in Seq(Coroutine) /\ queue # <<>> /\ queue' = q /\ UNCHANGED <<vars, _closed, task>> /\ Free(t)
  BY DEF take
<1>2. /\ q \in Seq(Coroutine) /\ 1 \in DOMAIN queue /\ c = queue[1] /\ c \in Coroutine
      /\ \A i \in DOMAIN q : i + 1 \in DOMAIN queue /\ i + 1 # 1 /\ q[i] = queue[i + 1]
      /\ \A i \in DOMAIN queue : i # 1 => i - 1 \in DOMAIN q /\ q[i - 1] = queue[i]
      /\ \A i, j \in DOMAIN q : i + 1 = j + 1 => i = j
  BY <1>1, Left
<1>3. \A i \in DOMAIN q : q[i] \in Coroutine /\ q[i] # c /\ future[q[i]] \in {"pending", "cancelled"}
  BY <1>1, <1>2 DEF QueueFits
<1>4. \A i, j \in DOMAIN q : q[i] = q[j] => i = j
  BY <1>2 DEF QueueFits
<1>5. \A d \in Coroutine : d # c /\ future[d] = "pending" => \E i \in DOMAIN q : q[i] = d
  <2>. SUFFICES ASSUME NEW d \in Coroutine, d # c, future[d] = "pending" PROVE \E i \in DOMAIN q : q[i] = d
    OBVIOUS
  <2>1. PICK i \in DOMAIN queue : queue[i] = d
    BY DEF FutureFits
  <2>. QED
    BY <1>2, <2>1
<1>6. future[c] \in {"pending", "cancelled"}
  BY <1>2 DEF QueueFits
<1>7. CASE future[c] = "cancelled"
  <2>1. UNCHANGED <<future, item>>
    BY <1>7 DEF take
  <2>2. AsyncTypes' /\ QueueFits'
    BY <1>1, <1>2, <1>3, <1>4, <2>1 DEF QueueFits
  <2>3. PoolFits' /\ ItemsOnce'
    BY <1>1, <2>1 DEF PoolFits, ItemsOnce, Free, vars
  <2>4. ASSUME NEW d \in Coroutine PROVE FutureFits(d)'
    BY <1>1, <1>5, <1>7, <2>1 DEF FutureFits
  <2>. QED
    BY <2>2, <2>3, <2>4
<1>8. CASE future[c] = "pending"
  <2>1. future' = [future EXCEPT ![c] = "running"] /\ item' = [item EXCEPT ![t] = c]
    BY <1>8 DEF take
  <2>2. AsyncTypes'
    BY <1>1, <1>2, <2>1
  <2>3. QueueFits'
    BY <1>1, <1>2, <1>3, <1>4, <2>1 DEF QueueFits
  <2>4. c # NoCoroutine /\ \A u \in Thread : item[u] # c
    BY <1>2, <1>8, CoroutineAssumption DEF FutureFits
  <2>5. PoolFits' /\ ItemsOnce'
    BY <1>1, <2>1, <2>4 DEF PoolFits, ItemsOnce, Free, vars
  <2>6. ASSUME NEW d \in Coroutine PROVE FutureFits(d)'
    <3>1. CASE d = c
      <4>1. future'[d] = "running" /\ item'[t] = d /\ task'[d] = task[d]
        BY <1>1, <1>2, <2>1, <3>1
      <4>2. task[d] # "ready"
        BY <1>8, <3>1 DEF FutureFits
      <4>. QED
        BY <4>1, <4>2 DEF FutureFits
    <3>2. CASE d # c
      <4>1. future'[d] = future[d] /\ task'[d] = task[d]
        BY <1>1, <2>1, <3>2
      <4>2. (\E u \in Thread : item'[u] = d) <=> (\E u \in Thread : item[u] = d)
        <5>1. item[t] # d
          BY <1>1, CoroutineAssumption DEF Free
        <5>. QED
          BY <2>1, <3>2, <5>1
      <4>. QED
        BY <1>1, <1>5, <3>2, <4>1, <4>2 DEF FutureFits
    <3>. QED
      BY <3>1, <3>2
  <2>. QED
    BY <2>2, <2>3, <2>5, <2>6
<1>. QED
  BY <1>6, <1>7, <1>8

\* A thread whose call ended.
LEMMA EndsStep ==
    ASSUME AsyncInv, CallsInv, CallsInv', NEW t \in Thread, ends(t)
    PROVE  AsyncInv'
<1>. USE DEF AsyncInv, AsyncTypes
<1>. PICK c : c = item[t]
  OBVIOUS
<1>1. /\ ~Free(t) /\ future' = [future EXCEPT ![c] = "ended"]
      /\ task' = [task EXCEPT ![c] = IF @ = "awaiting" THEN result'[t] ELSE @]
      /\ item' = [item EXCEPT ![t] = NoCoroutine] /\ UNCHANGED <<_closed, queue>>
  BY DEF ends, Deliver
<1>2. c \in Coroutine /\ future[c] = "running" /\ \A u \in Thread : item[u] = c => u = t
  BY <1>1 DEF FutureFits, ItemsOnce, Free
<1>3. result'[t] \in Results /\ result'[t] \notin {"ready", "awaiting"}
  BY DEF CallsInv, TypeOK, Results
<1>4. pc' = [pc EXCEPT ![t] = "out"] /\ UNCHANGED closed_
  <2>1. pc \in [Thread -> Locations]
    BY DEF CallsInv, TypeOK
  <2>2. CASE end_call(t)
    BY <2>2 DEF end_call
  <2>3. CASE begin_call_closed(t)
    BY <2>1, <2>3 DEF begin_call_closed
  <2>. QED
    BY <2>2, <2>3 DEF ends
<1>5. AsyncTypes'
  BY <1>1, <1>2, <1>3
<1>6. PoolFits'
  BY <1>1, <1>4 DEF PoolFits, Free, CallsInv, TypeOK
<1>7. QueueFits'
  <2>1. \A i \in DOMAIN queue : queue[i] # c
    BY <1>2 DEF QueueFits
  <2>. QED
    BY <1>1, <2>1 DEF QueueFits
<1>8. ItemsOnce'
  BY <1>1 DEF ItemsOnce, Free
<1>9. ASSUME NEW d \in Coroutine PROVE FutureFits(d)'
  <2>1. CASE d = c
    <3>1. future'[d] = "ended" /\ task'[d] = IF task[d] = "awaiting" THEN result'[t] ELSE task[d]
      BY <1>1, <1>2, <2>1
    <3>2. task'[d] \notin {"ready", "awaiting"}
      BY <1>2, <1>3, <2>1, <3>1 DEF FutureFits
    <3>3. \A u \in Thread : item'[u] # d
      BY <1>1, <1>2, <2>1, CoroutineAssumption
    <3>. QED
      BY <3>1, <3>2, <3>3 DEF FutureFits
  <2>2. CASE d # c
    <3>1. future'[d] = future[d] /\ task'[d] = task[d] /\ queue' = queue
      BY <1>1, <2>2
    <3>2. (\E u \in Thread : item'[u] = d) <=> (\E u \in Thread : item[u] = d)
      BY <1>1, <2>2, CoroutineAssumption
    <3>. QED
      BY <3>1, <3>2 DEF FutureFits
  <2>. QED
    BY <2>1, <2>2
<1>. QED
  BY <1>5, <1>6, <1>7, <1>8, <1>9

\* A step of the pool or the event loop keeps every call at its place.
LEMMA AsyncStep == CallsInv /\ AsyncInv /\ [AsyncNext]_asyncvars => CallsInv' /\ AsyncInv'
<1>. SUFFICES ASSUME CallsInv, AsyncInv, [AsyncNext]_asyncvars PROVE CallsInv' /\ AsyncInv'
  OBVIOUS
<1>0. CallsInv'
  BY AsyncStepIsStep, CallsStep
<1>1. ASSUME UNCHANGED <<_closed, future, task, queue, item, closed_>>,
             \A u \in Thread : item[u] = NoCoroutine /\ pc[u] = "out" => pc'[u] = "out"
      PROVE  AsyncInv'
  <2>1. PoolFits'
    BY <1>1 DEF AsyncInv, PoolFits, Free
  <2>2. AsyncTypes' /\ QueueFits' /\ ItemsOnce'
    BY <1>1 DEF AsyncInv, AsyncTypes, QueueFits, ItemsOnce, Free
  <2>3. \A c \in Coroutine : FutureFits(c)'
    BY <1>1 DEF AsyncInv, FutureFits
  <2>. QED
    BY <2>1, <2>2, <2>3 DEF AsyncInv
<1>2. CASE async_close
  <2>1. closed_' = TRUE /\ _closed' = TRUE /\ UNCHANGED <<future, task, queue, item, pc>>
    BY <1>2 DEF async_close, close
  <2>2. PoolFits'
    BY <2>1 DEF AsyncInv, PoolFits, Free
  <2>3. AsyncTypes' /\ QueueFits' /\ ItemsOnce'
    BY <2>1 DEF AsyncInv, AsyncTypes, QueueFits, ItemsOnce, Free
  <2>4. \A c \in Coroutine : FutureFits(c)'
    BY <2>1 DEF AsyncInv, FutureFits
  <2>. QED
    BY <1>0, <2>2, <2>3, <2>4 DEF AsyncInv
<1>3. ASSUME NEW c \in Coroutine, _call(c) \/ cancel(c) PROVE AsyncInv'
  BY <1>3, CallStep, CancelStep
<1>4. ASSUME NEW t \in Thread, take(t) \/ ends(t) PROVE AsyncInv'
  BY <1>0, <1>4, TakeStep, EndsStep
<1>5. ASSUME NEW t \in Thread, InCall(t) PROVE AsyncInv'
  <2>1. UNCHANGED <<_closed, future, task, queue, item, closed_>> /\ ~Free(t)
    BY <1>5 DEF InCall, begin_call, start, wait_done
  <2>2. \A u \in Thread \ {t} : pc'[u] = pc[u]
    BY <1>5 DEF InCall, begin_call, start, wait_done, CallsInv, TypeOK
  <2>. QED
    BY <1>1, <2>1, <2>2 DEF Free
<1>6. ASSUME NEW t \in Thread, NEW s \in Statuses, NEW who \in {{}, {"server"}}, grpc(t, s, who) PROVE AsyncInv'
  <2>1. UNCHANGED <<_closed, future, task, queue, item, closed_>>
    BY <1>6 DEF grpc, complete
  <2>2. \A u \in Thread : pc[u] = "out" => pc'[u] = "out"
    BY <1>6 DEF grpc, complete, CallsInv, TypeOK
  <2>. QED
    BY <1>1, <2>1, <2>2
<1>7. CASE UNCHANGED asyncvars
  BY <1>0, <1>1, <1>7 DEF asyncvars, vars
<1>. QED
  BY <1>0, <1>2, <1>3, <1>4, <1>5, <1>6, <1>7 DEF AsyncNext

\* The invariant holds of every reachable state of the asynchronous client.
THEOREM AsyncInvAlways == AsyncSpec => [](CallsInv /\ AsyncInv)
<1>1. AsyncInit => CallsInv
  BY CallsStart DEF AsyncInit
<1>2. AsyncInit => AsyncInv
  <2>. SUFFICES ASSUME AsyncInit PROVE AsyncInv
    OBVIOUS
  <2>1. queue \in Seq(Coroutine) /\ DOMAIN queue = {}
    BY DEF AsyncInit
  <2>2. AsyncTypes /\ PoolFits
    BY <2>1 DEF AsyncInit, Init, AsyncTypes, PoolFits, Free
  <2>3. QueueFits /\ ItemsOnce
    BY <2>1 DEF AsyncInit, QueueFits, ItemsOnce, Free
  <2>4. ASSUME NEW c \in Coroutine PROVE FutureFits(c)
    BY CoroutineAssumption DEF AsyncInit, FutureFits
  <2>. QED
    BY <2>2, <2>3, <2>4 DEF AsyncInv
<1>. QED
  BY <1>1, <1>2, AsyncStep, PTL DEF AsyncSpec

\* For any pool and any number of coroutines, cancelled or not: the call that is
\* awaited is in the queue or with one thread, and no call is made twice
\* (client.py 604-629).
THEOREM AwaitedCallsServed == AsyncSpec => []CallServedOnce
<1>1. AsyncInv => CallServedOnce
  <2>. SUFFICES ASSUME AsyncInv, NEW c \in Coroutine
                PROVE  /\ \A x, y \in Places(c) : x = y
                       /\ task[c] = "awaiting" => Places(c) # {}
    BY DEF CallServedOnce
  <2>. DEFINE I == {i \in DOMAIN queue : queue[i] = c}
  <2>1. /\ \A i, j \in I : i = j
        /\ \A t, u \in Making(c) : t = u
        /\ I # {} => Making(c) = {}
    <3>1. \A i, j \in I : i = j
      BY DEF AsyncInv, QueueFits
    <3>2. \A t, u \in Making(c) : t = u
      BY CoroutineAssumption DEF AsyncInv, ItemsOnce, Making, Free
    <3>3. I # {} => Making(c) = {}
      BY DEF AsyncInv, QueueFits, FutureFits, Making
    <3>. QED
      BY <3>1, <3>2, <3>3
  <2>2. task[c] = "awaiting" => I # {} \/ Making(c) # {}
    BY DEF AsyncInv, FutureFits, Making
  <2>3. Places(c) = ({"queue"} \X I) \cup ({"thread"} \X Making(c))
    BY DEF Places
  <2>. HIDE DEF I
  <2>4. ASSUME NEW x \in Places(c), NEW y \in Places(c) PROVE x = y
    <3>1. CASE x \in {"queue"} \X I /\ y \in {"queue"} \X I
      BY <3>1, <2>1
    <3>2. CASE x \in {"thread"} \X Making(c) /\ y \in {"thread"} \X Making(c)
      BY <3>2, <2>1
    <3>. QED
      BY <3>1, <3>2, <2>1, <2>3
  <2>5. I # {} \/ Making(c) # {} => Places(c) # {}
    <3>1. ASSUME NEW i \in I PROVE <<"queue", i>> \in Places(c)
      BY <2>3
    <3>2. ASSUME NEW t \in Making(c) PROVE <<"thread", t>> \in Places(c)
      BY <2>3
    <3>. QED
      BY <3>1, <3>2
  <2>. QED
    BY <2>2, <2>4, <2>5
<1>. QED
  BY <1>1, AsyncInvAlways, PTL

\* What is proved of calls holds of the calls of the pool (client.py 604-629).
THEOREM AsyncCallsSafe == AsyncSpec => [](FrameOutlivesCall /\ CloseReachesAll /\ CancelledIsMeant)
<1>1. CallsInv => FrameOutlivesCall /\ CloseReachesAll /\ CancelledIsMeant
  BY DEF CallsInv
<1>. QED
  BY <1>1, AsyncInvAlways, PTL
=============================================================================
