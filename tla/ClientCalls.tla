----------------------------- MODULE ClientCalls -----------------------------
(***************************************************************************)
(* Calls of one client in flight: several threads in GrpcClientTransport:: *)
(* invoke, the completion callbacks of gRPC, the should_cancel hook that a *)
(* waiting call polls, and close() from any thread                         *)
(* (cpp/grpc/client/grpc-client-transport.cpp).                            *)
(*                                                                         *)
(* calls_lock_ makes begin_call, end_call and close one step each.         *)
(* Call::lock is free while a thread waits or asks the hook, so what the   *)
(* callback does under it is one step too.  gRPC itself is external: a     *)
(* call whose context was cancelled ends, with any status.                 *)
(***************************************************************************)
EXTENDS FiniteSets

CONSTANTS Thread,       \* the threads that make calls, one at a time each
          HasHook,      \* is ClientOptions::should_cancel set
          HasDeadline   \* is the timeout below NO_DEADLINE_S

ASSUME OptionsAssumption == HasHook \in BOOLEAN /\ HasDeadline \in BOOLEAN

VARIABLES
    closed_,    \* close() has run
    calls_,     \* the threads whose call is registered
    pc,         \* where in invoke the thread is, "out" when not inside
    onWire,     \* the calls gRPC still works on: they use request and response
    status,     \* Call::status, "none" while Call::done is false
    by,         \* who called TryCancel on the context, or cut the call: history
    cancelled,  \* the calls whose hook said yes: the local of wait
    failure,    \* the calls whose hook threw
    result      \* how the last call of the thread ended

vars == <<closed_, calls_, pc, onWire, status, by, cancelled, failure, result>>

Locations == {"out", "registered", "waiting", "asking", "draining", "finishing"}
\* INTERNAL stands for every other error.
Statuses == {"OK", "CANCELLED", "DEADLINE_EXCEEDED", "UNAVAILABLE", "INTERNAL"}
Results == {"none", "response", "hook's exception", "Closed", "Cancelled",
            "DeadlineExceeded", "Unavailable", "Other"}
Cancellers == {"close", "hook", "unwinding", "server"}

TypeOK ==
    /\ closed_ \in BOOLEAN
    /\ calls_ \subseteq Thread
    /\ pc \in [Thread -> Locations]
    /\ onWire \subseteq Thread
    /\ status \in [Thread -> Statuses \cup {"none"}]
    /\ by \in [Thread -> SUBSET Cancellers]
    /\ cancelled \subseteq Thread
    /\ failure \subseteq Thread
    /\ result \in [Thread -> Results]

Init ==
    /\ closed_ = FALSE
    /\ calls_ = {}
    /\ pc = [t \in Thread |-> "out"]
    /\ onWire = {}
    /\ status = [t \in Thread |-> "none"]
    /\ by = [t \in Thread |-> {}]
    /\ cancelled = {}
    /\ failure = {}
    /\ result = [t \in Thread |-> "none"]

-----------------------------------------------------------------------------
(* begin_call, and the start of the call on the stub                       *)

begin_call(t) ==
    /\ pc[t] = "out" /\ ~closed_
    /\ calls_' = calls_ \cup {t}
    /\ pc' = [pc EXCEPT ![t] = "registered"]
    /\ status' = [status EXCEPT ![t] = "none"]
    /\ by' = [by EXCEPT ![t] = {}]
    /\ cancelled' = cancelled \ {t}
    /\ failure' = failure \ {t}
    /\ result' = [result EXCEPT ![t] = "none"]
    /\ UNCHANGED <<closed_, onWire>>

begin_call_closed(t) ==
    /\ pc[t] = "out" /\ closed_
    /\ by' = [by EXCEPT ![t] = {}]
    /\ result' = [result EXCEPT ![t] = "Closed"]
    /\ UNCHANGED <<closed_, calls_, pc, onWire, status, cancelled, failure>>

start(t) ==
    /\ pc[t] = "registered"
    /\ pc' = [pc EXCEPT ![t] = "waiting"]
    /\ onWire' = onWire \cup {t}
    /\ UNCHANGED <<closed_, calls_, status, by, cancelled, failure, result>>

-----------------------------------------------------------------------------
(* The completion callback                                                 *)

\* gRPC ends the call with status s; who is what the server did to it.
complete(t, s, who) ==
    /\ t \in onWire
    /\ s = "CANCELLED" => by[t] \cup who # {}
    /\ s = "DEADLINE_EXCEEDED" => HasDeadline
    /\ who # {} => s = "CANCELLED"
    /\ onWire' = onWire \ {t}
    /\ status' = [status EXCEPT ![t] = s]
    /\ by' = [by EXCEPT ![t] = @ \cup who]
    /\ UNCHANGED <<closed_, calls_, pc, cancelled, failure, result>>

-----------------------------------------------------------------------------
(* wait, and the catch block of invoke                                     *)

done(t) == status[t] # "none"

wait_done(t) ==
    /\ pc[t] = "waiting" /\ done(t)
    /\ pc' = [pc EXCEPT ![t] = "finishing"]
    /\ UNCHANGED <<closed_, calls_, onWire, status, by, cancelled, failure, result>>

\* CANCEL_POLL_INTERVAL has passed: unlock, and call should_cancel.
ask(t) ==
    /\ HasHook /\ pc[t] = "waiting" /\ ~done(t) /\ t \notin cancelled
    /\ pc' = [pc EXCEPT ![t] = "asking"]
    /\ UNCHANGED <<closed_, calls_, onWire, status, by, cancelled, failure, result>>

answer_no(t) ==
    /\ pc[t] = "asking"
    /\ pc' = [pc EXCEPT ![t] = "waiting"]
    /\ UNCHANGED <<closed_, calls_, onWire, status, by, cancelled, failure, result>>

\* Faulty variant: the flag is set and the context is not cancelled.
TryCancelled_Not(t, who) == by[t]

\* TryCancel of the context of a call.
TryCancelled(t, who) == by[t] \cup {who}

answer_yes(t) ==
    /\ pc[t] = "asking"
    /\ pc' = [pc EXCEPT ![t] = "waiting"]
    /\ by' = [by EXCEPT ![t] = TryCancelled(t, "hook")]
    /\ cancelled' = cancelled \cup {t}
    /\ UNCHANGED <<closed_, calls_, onWire, status, failure, result>>

hook_throws(t) ==
    /\ pc[t] = "asking"
    /\ pc' = [pc EXCEPT ![t] = "draining"]
    /\ by' = [by EXCEPT ![t] = TryCancelled(t, "unwinding")]
    /\ failure' = failure \cup {t}
    /\ UNCHANGED <<closed_, calls_, onWire, status, cancelled, result>>

\* Faulty variant: the unwinding thread does not wait the call out.
WaitedOut_Not(t) == TRUE

WaitedOut(t) == done(t)

drained(t) ==
    /\ pc[t] = "draining" /\ WaitedOut(t)
    /\ pc' = [pc EXCEPT ![t] = "finishing"]
    /\ UNCHANGED <<closed_, calls_, onWire, status, by, cancelled, failure, result>>

-----------------------------------------------------------------------------
(* end_call and what invoke returns or throws, and close                   *)

\* from_status_code, and the response of a call that succeeded.
ErrorOf ==
    [s \in Statuses |->
        CASE s = "OK" -> "response"
          [] s = "CANCELLED" -> "Cancelled"
          [] s = "DEADLINE_EXCEEDED" -> "DeadlineExceeded"
          [] s = "UNAVAILABLE" -> "Unavailable"
          [] s = "INTERNAL" -> "Other"]

\* Faulty variant: whether the client is closed is what begin_call saw.
closed_at_end_Before == FALSE

\* What end_call reports.
closed_at_end == closed_

to_error(s) == IF closed_at_end /\ s = "CANCELLED" THEN "Closed" ELSE ErrorOf[s]

end_call(t) ==
    /\ pc[t] = "finishing"
    /\ calls_' = calls_ \ {t}
    /\ pc' = [pc EXCEPT ![t] = "out"]
    /\ result' = [result EXCEPT ![t] =
                    IF t \in failure THEN "hook's exception" ELSE to_error(status[t])]
    /\ UNCHANGED <<closed_, onWire, status, by, cancelled, failure>>

\* Faulty variant: a call that has not reached the stub is not cancelled.
ToCancel_OnWire == calls_ \cap onWire

ToCancel == calls_

close ==
    /\ closed_' = TRUE
    /\ by' = [t \in Thread |-> IF t \in ToCancel THEN TryCancelled(t, "close") ELSE by[t]]
    /\ UNCHANGED <<calls_, pc, onWire, status, cancelled, failure, result>>

Next ==
    \/ close
    \/ \E t \in Thread :
         \/ begin_call(t) \/ begin_call_closed(t) \/ start(t)
         \/ \E s \in Statuses, who \in {{}, {"server"}} : complete(t, s, who)
         \/ wait_done(t) \/ ask(t) \/ answer_no(t) \/ answer_yes(t) \/ hook_throws(t)
         \/ drained(t) \/ end_call(t)

Spec == Init /\ [][Next]_vars

\* A thread inside invoke runs, the hook returns or throws, and gRPC ends every
\* call whose context was cancelled.  Nothing says that a call ends otherwise,
\* and nothing says that anyone closes the client.
FairSpec ==
    /\ Spec
    /\ \A t \in Thread :
         /\ WF_vars(start(t) \/ wait_done(t) \/ drained(t) \/ end_call(t))
         /\ WF_vars(answer_no(t) \/ answer_yes(t) \/ hook_throws(t))
         /\ WF_vars(by[t] # {} /\ \E s \in Statuses : complete(t, s, {}))

-----------------------------------------------------------------------------
(* Properties                                                              *)

\* gRPC never works on a call whose request and response, on the stack of
\* invoke, are gone: no way out of invoke, the exception of the hook included,
\* leaves a call running (lines 226-257).
FrameOutlivesCall == \A t \in onWire : pc[t] \in {"waiting", "asking", "draining"}

\* Once the client is closed, every call still registered has been cancelled:
\* none slips in between the check of closed_ and close's walk over calls_
\* (lines 201-207, 261-275).
CloseReachesAll == closed_ => \A t \in calls_ : "close" \in by[t]

\* A thread is told Cancelled only if its hook asked for it or the server cut
\* the call, and Closed only if the client is closed: a call that close()
\* cancels never passes for one its own caller cancelled (lines 201-207,
\* 249-254, 278-282, 316-321).
CancelledIsMeant ==
    \A t \in Thread :
        /\ result[t] = "Cancelled" => by[t] \cap {"hook", "server"} # {}
        /\ result[t] = "Closed" => closed_

-----------------------------------------------------------------------------
(* The inductive invariant behind the three properties above               *)

\* A call is registered from begin_call to end_call, and until the callback has
\* reported, and only then, the thread has no status.
RegisteredExactly == calls_ = {t \in Thread : pc[t] # "out"}
StatusExact ==
    \A t \in Thread :
        /\ pc[t] = "registered" => status[t] = "none" /\ t \notin onWire
        /\ pc[t] \in {"waiting", "asking", "draining"} => (t \in onWire <=> status[t] = "none")
        /\ pc[t] \in {"finishing"} => status[t] # "none"

\* Who cancelled a call left its trace where end_call looks for it.
CancellersKnown ==
    \A t \in Thread :
        /\ "close" \in by[t] => closed_
        /\ pc[t] # "out" /\ "unwinding" \in by[t] => t \in failure
        /\ pc[t] # "out" /\ status[t] = "CANCELLED" => by[t] # {}

CallsInv ==
    /\ TypeOK
    /\ RegisteredExactly
    /\ StatusExact
    /\ CancellersKnown
    /\ FrameOutlivesCall
    /\ CloseReachesAll
    /\ CancelledIsMeant

-----------------------------------------------------------------------------

\* A closed client drains: no call, whatever it was doing when close() ran and
\* although it has no deadline, stays registered for ever.
CloseDrains == closed_ ~> calls_ = {}

=============================================================================
