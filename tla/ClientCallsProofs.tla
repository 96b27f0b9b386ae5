-------------------------- MODULE ClientCallsProofs --------------------------
(***************************************************************************)
(* For any number of threads, with or without a hook and a deadline: no    *)
(* call outlives its stack frame, close() reaches every registered call,   *)
(* and a call that close() cancelled is never reported as Cancelled.       *)
(***************************************************************************)
EXTENDS ClientCalls, TLAPS

\* A call that succeeded or failed has a result of its own, and only a status
\* CANCELLED becomes Cancelled.
LEMMA ErrorOfStatus ==
    \A s \in Statuses : /\ ErrorOf[s] \in Results \ {"none", "Closed"}
                        /\ ErrorOf[s] = "Cancelled" => s = "CANCELLED"
  BY DEF Statuses, Results, ErrorOf

\* Each step of a call or of close() keeps the invariant.
LEMMA CallsStep == CallsInv /\ [Next]_vars => CallsInv'
<1> SUFFICES ASSUME CallsInv, [Next]_vars PROVE CallsInv'
  OBVIOUS
<1> USE DEF CallsInv, TypeOK, RegisteredExactly, StatusExact, CancellersKnown,
            FrameOutlivesCall, CloseReachesAll, CancelledIsMeant,
            Locations, Statuses, Results, Cancellers, done
<1>1. CASE close
  BY <1>1 DEF close, ToCancel, TryCancelled
<1>2. ASSUME NEW t \in Thread, begin_call(t) PROVE CallsInv'
  BY <1>2 DEF begin_call
<1>3. ASSUME NEW t \in Thread, begin_call_closed(t) PROVE CallsInv'
  BY <1>3 DEF begin_call_closed
<1>4. ASSUME NEW t \in Thread, start(t) PROVE CallsInv'
  <2>1. TypeOK'
    BY <1>4 DEF start
  <2>2. RegisteredExactly' /\ StatusExact' /\ CancellersKnown'
    BY <1>4 DEF start
  <2>3. FrameOutlivesCall'
    <3> SUFFICES ASSUME NEW u \in onWire' PROVE pc'[u] \in {"waiting", "asking", "draining"}
      BY DEF FrameOutlivesCall
    <3>1. CASE u = t
      BY <1>4, <3>1 DEF start
    <3>2. CASE u # t
      BY <1>4, <3>2 DEF start
    <3> QED
      BY <3>1, <3>2
  <2>4. CloseReachesAll' /\ CancelledIsMeant'
    BY <1>4 DEF start
  <2> QED
    BY <2>1, <2>2, <2>3, <2>4
<1>5. ASSUME NEW t \in Thread, NEW s \in Statuses, NEW who \in {{}, {"server"}},
             complete(t, s, who)
      PROVE  CallsInv'
  BY <1>5 DEF complete
<1>6. ASSUME NEW t \in Thread, wait_done(t) PROVE CallsInv'
  BY <1>6 DEF wait_done
<1>7. ASSUME NEW t \in Thread, ask(t) PROVE CallsInv'
  BY <1>7 DEF ask
<1>7a. ASSUME NEW t \in Thread, answer_no(t) PROVE CallsInv'
  BY <1>7a DEF answer_no
<1>8. ASSUME NEW t \in Thread, answer_yes(t) PROVE CallsInv'
  BY <1>8 DEF answer_yes, TryCancelled
<1>9. ASSUME NEW t \in Thread, hook_throws(t) PROVE CallsInv'
  BY <1>9 DEF hook_throws, TryCancelled
<1>10. ASSUME NEW t \in Thread, drained(t) PROVE CallsInv'
  BY <1>10 DEF drained, WaitedOut
<1>11. ASSUME NEW t \in Thread, end_call(t) PROVE CallsInv'
  <2>1. status[t] \in Statuses
    BY <1>11 DEF end_call
  <2>2. result'[t] \in Results /\ (result'[t] = "Closed" => closed_)
    BY <1>11, <2>1, ErrorOfStatus DEF end_call, to_error, closed_at_end
  <2>3. ASSUME result'[t] = "Cancelled" PROVE by[t] \cap {"hook", "server"} # {}
    <3>1. t \notin failure /\ status[t] = "CANCELLED" /\ ~closed_
      BY <1>11, <2>1, <2>3, ErrorOfStatus DEF end_call, to_error, closed_at_end
    <3>2. by[t] # {} /\ "close" \notin by[t] /\ "unwinding" \notin by[t]
      BY <1>11, <3>1 DEF end_call
    <3> QED
      BY <3>2
  <2>4. TypeOK'
    BY <1>11, <2>2 DEF end_call
  <2>5. RegisteredExactly' /\ StatusExact' /\ CancellersKnown'
    BY <1>11 DEF end_call
  <2>6. FrameOutlivesCall' /\ CloseReachesAll'
    BY <1>11 DEF end_call
  <2>7. CancelledIsMeant'
    <3> SUFFICES ASSUME NEW u \in Thread
                 PROVE  /\ result'[u] = "Cancelled" => by'[u] \cap {"hook", "server"} # {}
                        /\ result'[u] = "Closed" => closed_'
      BY DEF CancelledIsMeant
    <3>1. CASE u = t
      BY <1>11, <2>2, <2>3, <3>1 DEF end_call
    <3>2. CASE u # t
      BY <1>11, <3>2 DEF end_call
    <3> QED
      BY <3>1, <3>2
  <2> QED
    BY <2>4, <2>5, <2>6, <2>7
<1>12. CASE UNCHANGED vars
  BY <1>12 DEF vars
<1> QED
  BY <1>1, <1>2, <1>3, <1>4, <1>5, <1>6, <1>7, <1>8, <1>9, <1>10, <1>11, <1>12,
     <1>7a DEF Next

\* A client that was just connected has no call (grpc-client-transport.hpp).
LEMMA CallsStart == Init => CallsInv
  BY DEF Init, CallsInv, TypeOK, RegisteredExactly, StatusExact, CancellersKnown,
         FrameOutlivesCall, CloseReachesAll, CancelledIsMeant,
         Locations, Statuses, Results, Cancellers

\* The invariant holds of every reachable state of a client.
THEOREM CallsInvariant == Spec => []CallsInv
  BY CallsStart, CallsStep, PTL DEF Spec

\* No call outlives the stack frame that holds its request and response, for
\* any number of threads (grpc-client-transport.cpp, invoke).
THEOREM NoCallOutlivesItsFrame == Spec => []FrameOutlivesCall
  BY CallsInvariant, PTL DEF CallsInv

\* Every call still registered after close() has been cancelled by it (begin_call
\* and close, both under calls_lock_).
THEOREM CloseCancelsAll == Spec => []CloseReachesAll
  BY CallsInvariant, PTL DEF CallsInv

\* Only a hook or the server makes a call throw Cancelled, and only a closed
\* client throws Closed (end_call, to_error).
THEOREM CancelledNeverMistaken == Spec => []CancelledIsMeant
  BY CallsInvariant, PTL DEF CallsInv

\* Every variable keeps its type: a caller is told one of the results the
\* transport knows, whatever status gRPC ends a call with (lines 314-321).
THEOREM CallsTypeCorrect == Spec => []TypeOK
<1>1. CallsInv => TypeOK
  BY DEF CallsInv
<1> QED
  BY <1>1, CallsInvariant, PTL
=============================================================================
