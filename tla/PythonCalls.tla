---------------------------- MODULE PythonCalls ----------------------------
(***************************************************************************)
(* Calls made from Python (cpp/python/bindings.cpp).  The hook of          *)
(* ClientCalls is python_signal_pending, which runs the signal handlers of *)
(* the main thread and leaves the exception of a handler pending; when the *)
(* call ends, that exception is raised in place of what the call gave.     *)
(***************************************************************************)
EXTENDS ClientCalls

CONSTANT Main   \* the main thread

ASSUME MainAssumption == Main \in Thread /\ HasHook

VARIABLES
    tripped,  \* Ctrl-C has come and no handler has run for it
    error,    \* the threads with a Python exception pending inside the call
    raised    \* what the last call of a thread gave its Python caller

pyvars == <<vars, tripped, error, raised>>

PyInit ==
    /\ Init
    /\ tripped = FALSE /\ error = {}
    /\ raised = [t \in Thread |-> "none"]

\* Ctrl-C.
interrupt ==
    /\ ~tripped /\ tripped' = TRUE
    /\ UNCHANGED <<vars, error, raised>>

\* The interpreter runs the handler itself when the main thread is not in a call.
handle ==
    /\ tripped /\ pc[Main] = "out"
    /\ tripped' = FALSE
    /\ raised' = [raised EXCEPT ![Main] = "KeyboardInterrupt"]
    /\ UNCHANGED <<vars, error>>

\* PyErr_CheckSignals runs handlers on the main thread only.
python_signal_pending(t) ==
    /\ IF t = Main /\ tripped
       THEN answer_yes(t) /\ tripped' = FALSE /\ error' = error \cup {t}
       ELSE answer_no(t) /\ UNCHANGED <<tripped, error>>
    /\ UNCHANGED raised

\* Faulty variant: a call that gave a response returns it.
Raised_Response(t) ==
    IF t \in error /\ result'[t] # "response" THEN "KeyboardInterrupt" ELSE result'[t]

\* raise_pending_error after a response, the exception translator after an error.
Raised(t) == IF t \in error THEN "KeyboardInterrupt" ELSE result'[t]

released(t) ==
    /\ end_call(t)
    /\ raised' = [raised EXCEPT ![t] = Raised(t)]
    /\ error' = error \ {t}
    /\ UNCHANGED tripped

PyBegin(t) ==
    /\ begin_call(t)
    /\ raised' = [raised EXCEPT ![t] = "none"]
    /\ UNCHANGED <<tripped, error>>

PyInCall(t) ==
    /\ \/ start(t) \/ wait_done(t) \/ ask(t)
       \/ \E s \in Statuses, who \in {{}, {"server"}} : complete(t, s, who)
    /\ UNCHANGED <<tripped, error, raised>>

PyClosed(t) ==
    /\ begin_call_closed(t)
    /\ raised' = [raised EXCEPT ![t] = "Closed"]
    /\ UNCHANGED <<tripped, error>>

PyNext ==
    \/ interrupt \/ handle
    \/ close /\ UNCHANGED <<tripped, error, raised>>
    \/ \E t \in Thread :
         PyBegin(t) \/ PyClosed(t) \/ PyInCall(t) \/ python_signal_pending(t) \/ released(t)

PySpec == PyInit /\ [][PyNext]_pyvars

\* A thread in a call runs, and polls if it goes on waiting; between two calls
\* the interpreter gets to its signals; gRPC ends a call that was cancelled, and
\* no other.
PyFairSpec ==
    /\ PySpec
    /\ SF_pyvars(handle)
    /\ \A t \in Thread :
         /\ WF_pyvars((start(t) \/ wait_done(t)) /\ UNCHANGED <<tripped, error, raised>>)
         /\ WF_pyvars(released(t))
         /\ WF_pyvars(ask(t) /\ UNCHANGED <<tripped, error, raised>>)
         /\ WF_pyvars(python_signal_pending(t))
         /\ WF_pyvars(/\ by[t] # {} /\ \E s \in Statuses : complete(t, s, {})
                      /\ UNCHANGED <<tripped, error, raised>>)

----------------------------------------------------------------------------
(* Properties                                                              *)

\* The exception a handler raised inside a call is what the call raises in
\* Python, whether gRPC answered, failed or was closed meanwhile; only the main
\* thread gets one (bindings.cpp 54-94, 139-143).
InterruptSurfaces ==
    [][\A t \in Thread : (t \in error /\ t \notin error') =>
          t = Main /\ raised'[t] = "KeyboardInterrupt" /\ pc'[t] = "out"]_pyvars

\* An exception that is pending belongs to a call of the main thread whose context
\* was cancelled for it: that call will end.  This is what makes InterruptSurfaces
\* hold of every step.
PendingIsCancelled ==
    \A t \in error : t = Main /\ pc[t] # "out" /\ t \in cancelled /\ "hook" \in by[t]

PyInv ==
    /\ CallsInv
    /\ tripped \in BOOLEAN
    /\ raised \in [Thread -> Results \cup {"KeyboardInterrupt"}]
    /\ PendingIsCancelled

\* Ctrl-C reaches the main thread, also in a call without a deadline that the
\* server never answers.
InterruptEndsCall == tripped ~> raised[Main] = "KeyboardInterrupt"
============================================================================
