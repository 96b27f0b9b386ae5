---------------------------- MODULE ServerHelper ----------------------------
(***************************************************************************)
(* DsServiceServer (python/ds_service_client/server.py): a Python program  *)
(* starts a server, waits until it accepts connections, and closes it.     *)
(* The process it starts leads a process group of its own.  That leader is *)
(* the server; or a wrapper, which starts the server in the group, may     *)
(* exit before it and takes no or all notice of SIGTERM; or the client of  *)
(* a container runtime (docker run), whose daemon starts the server        *)
(* outside the group.                                                      *)
(***************************************************************************)
EXTENDS ServerProcess

VARIABLES
    command,  \* ds_service_bin, which does not change: "server", "wrapper", "container"
    leader,   \* the started process: "running", "killed" (sent SIGKILL),
              \* "exited" (a zombie), "reaped"
    helper,   \* where the program is, "new" to "closed"
    left,     \* units left until the deadline of close()
    signaled  \* history: where the server was when the SIGTERM of close() reached
              \* it, or None

vars == <<process, command, leader, helper, left, signaled>>

Init ==
    /\ ProcessInit
    /\ command \in {"server", "wrapper", "container"}
    /\ leader = "reaped" /\ helper = "new" /\ left = 0 /\ signaled = None

TERMINATE_TIMEOUT_S == 2

\* A step of the server ends the leader if that is the server.
LeaderAfter ==
    IF command = "server" /\ main' = "exited" /\ leader \in {"running", "killed"}
    THEN "exited" ELSE leader

\* poll() and wait() reap a leader that has exited.
Reaps == leader' = IF leader = "exited" THEN "reaped" ELSE leader

Goes(from, to) == helper = from /\ helper' = to

-----------------------------------------------------------------------------
(* The constructor, and wait_until_ready                                   *)

\* _free_port or _check_port_free raises if the port is in use; then Popen.
construct ==
    /\ port = "free" /\ Goes("new", "open")
    /\ leader' = "running"
    /\ IF command = "server" THEN exec ELSE UNCHANGED process
    /\ UNCHANGED <<left, signaled, command>>

_raise_if_exited(from, to) ==
    /\ Goes(from, IF leader = "running" THEN to ELSE "raised")
    /\ Reaps
    /\ UNCHANGED <<process, left, signaled, command>>

\* A refused connection is tried again, until the timeout.
connect ==
    /\ \/ port # "free" /\ Goes("connect", "connected")
       \/ port = "free" /\ (Goes("connect", "open") \/ Goes("connect", "raised"))
    /\ UNCHANGED <<process, leader, left, signaled, command>>

wait_until_ready ==
    _raise_if_exited("open", "connect") \/ connect \/ _raise_if_exited("connected", "ready")

-----------------------------------------------------------------------------
(* close                                                                   *)

InGroup == command # "container"

\* killpg: the server and the leader, as far as they exist and are in the group.
_signal_process_group(sig) ==
    IF sig = "SIGTERM"
    THEN /\ IF InGroup THEN Terminated ELSE UNCHANGED process
         /\ leader' = LeaderAfter
    ELSE /\ IF InGroup THEN Killed ELSE UNCHANGED process
         /\ leader' = IF leader = "running" THEN "killed" ELSE leader

\* killpg(0): a zombie leader is still in the group.
_process_group_alive == leader # "reaped" \/ (InGroup /\ Exists)

close ==
    /\ \E from \in {"open", "connect", "connected", "ready", "raised"} : Goes(from, "closing")
    /\ left' = TERMINATE_TIMEOUT_S
    /\ signaled' = IF InGroup THEN main ELSE None
    /\ _signal_process_group("SIGTERM")
    /\ UNCHANGED command

\* process.wait() ends with the leader, or at the deadline.
wait_leader ==
    /\ leader \in {"exited", "reaped"} \/ left = 0
    /\ Goes("closing", "polling")
    /\ Reaps
    /\ UNCHANGED <<process, left, signaled, command>>

\* Faulty variant: the group is waited for without a deadline.
wait_group_Patient ==
    /\ ~_process_group_alive
    /\ Goes("polling", "killing")
    /\ UNCHANGED <<process, leader, left, signaled, command>>

wait_group ==
    /\ ~_process_group_alive \/ left = 0
    /\ Goes("polling", "killing")
    /\ UNCHANGED <<process, leader, left, signaled, command>>

\* Faulty variant: a group that outlives the deadline is left alone.
kill_group_Never ==
    Goes("killing", "reaping") /\ UNCHANGED <<process, leader, left, signaled, command>>

kill_group ==
    /\ Goes("killing", "reaping")
    /\ IF _process_group_alive THEN _signal_process_group("SIGKILL")
       ELSE UNCHANGED <<process, leader>>
    /\ UNCHANGED <<left, signaled, command>>

\* process.wait() ends with the leader; the rest of the group is not waited for.
reap ==
    /\ leader \in {"exited", "reaped"} /\ Goes("reaping", "closed")
    /\ Reaps
    /\ UNCHANGED <<process, left, signaled, command>>

Closing == wait_leader \/ wait_group \/ kill_group \/ reap

-----------------------------------------------------------------------------
(* The wrapper and the container runtime                                   *)

\* A wrapper that was sent SIGKILL starts nothing any more; a daemon that was
\* asked for a container starts it, whatever became of its client.
wrapper_starts ==
    /\ \/ command = "wrapper" /\ leader = "running"
       \/ command = "container" /\ helper # "new"
    /\ exec
    /\ UNCHANGED <<leader, helper, left, signaled, command>>

wrapper_exits ==
    /\ command # "server" /\ leader \in {"running", "killed"} /\ leader' = "exited"
    /\ UNCHANGED <<process, helper, left, signaled, command>>

\* The client of the runtime passes SIGTERM on to the server, which as the first
\* process of its container may be spared the default action.
forwards ==
    /\ command = "container" /\ leader = "running" /\ main # "unborn"
    /\ helper \in {"closing", "polling", "killing", "reaping"} /\ signaled = None
    /\ signaled' = main
    /\ Terminated \/ (main = "exec" /\ UNCHANGED process)
    /\ UNCHANGED <<leader, helper, left, command>>

server ==
    /\ ServerStep
    /\ leader' = LeaderAfter
    /\ UNCHANGED <<helper, left, signaled, command>>

others == foreign /\ UNCHANGED <<leader, helper, left, signaled, command>>

tick ==
    /\ ~Urgent /\ drain + left > 0
    /\ drain' = Down(drain) /\ left' = Down(left)
    /\ UNCHANGED <<main, shut, status, pending, calls, port, listened, cut, killed>>
    /\ UNCHANGED <<leader, helper, signaled, command>>

Next ==
    \/ construct \/ wait_until_ready \/ close \/ Closing
    \/ wrapper_starts \/ wrapper_exits \/ forwards \/ server \/ others \/ tick

Spec == Init /\ [][Next]_vars

\* The threads of the server and close() go on, a process that was sent SIGKILL
\* ends, and time passes.
FairSpec ==
    /\ Spec
    /\ WF_vars(Progress /\ server)
    /\ WF_vars(Closing)
    /\ WF_vars(leader = "killed" /\ wrapper_exits)
    /\ WF_vars(tick)

-----------------------------------------------------------------------------
(* Properties                                                              *)

\* A server whose main thread was waiting for the transport when SIGTERM reached
\* it is never sent SIGKILL: it gets the time its calls are given, and close()
\* waits longer than that (server.py 20-23, main.cpp 20-23).  A server that was
\* signaled while it started may be, also while it drains.
DrainNotKilled == signaled = "waiting" => ~killed

\* A server that has accepted connections ends with status 0 or by SIGKILL,
\* whenever a signal comes; and without SIGKILL a call in flight is cut off
\* only when the grace period has passed (main.cpp 45-76, 113-124).
ServedEndsGracefully ==
    (listened /\ status # None) =>
        \/ status = "SIGKILL"
        \/ status = "0" /\ (cut => drain = 0)

\* When close() has returned, the process that was started is gone.  If that was
\* the server, the server is gone.  A server that a wrapper started is gone or
\* was sent SIGKILL, also if the wrapper exited long before, and none is started
\* any more: close() waits for no process but the leader, so that this server may
\* still be there for a moment.  Of a container nothing is said: its server is
\* not in the group (server.py 209-246).
CloseLeavesNobody ==
    helper = "closed" =>
        /\ leader = "reaped"
        /\ command = "server" => main = "exited"
        /\ command = "wrapper" => main \in {"unborn", "exited"} \/ killed

\* close() returns, although a wrapper may ignore SIGTERM, and in the end no
\* server is left in the group (server.py 224-246).
CloseReturns ==
    (helper = "closing") ~> (helper = "closed" /\ (InGroup => ~Exists))

\* The SIGTERM of close() is not lost on a server that has blocked it, wherever
\* its threads are: until it exits the signal is pending, or the shutdown it
\* asks for is under way (main.cpp 66-76, 117).
SignalNotLost ==
    (signaled \in {"masked", "started", "waiting"} /\ main # "exited") =>
        pending \/ shut \in {"draining", "done"}
=============================================================================
