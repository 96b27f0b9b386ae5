--------------------------- MODULE ServerProcess ---------------------------
(***************************************************************************)
(* One ds-service process from exec to exit (cpp/server/main.cpp and the   *)
(* start, wait and shutdown of grpc-server-transport.cpp): the main        *)
(* thread, the shutdown thread that waits for a signal, the calls in       *)
(* flight, and the port, which another process may hold.                   *)
(*                                                                         *)
(* Time passes in units of five seconds, counted down by timers.  Starting *)
(* takes any time; a thread that can go on does so within the unit.        *)
(***************************************************************************)
EXTENDS Integers

CONSTANTS None, MaxCalls   \* bound: calls in flight

ASSUME ProcessAssumption ==
    /\ MaxCalls \in Nat
    /\ None \notin {"0", "1", "SIGTERM", "SIGKILL", "masked", "started", "waiting"}

VARIABLES
    main,     \* main thread: "unborn", "exec", "masked", "started", "waiting", "exited"
    shut,     \* shutdown thread: "none", "sigwait", "draining", "done"
    status,   \* None, the exit code, or the signal that killed it
    pending,  \* a SIGTERM is pending
    calls,    \* the number of calls in flight
    drain,    \* units left until the deadline of shutdown()
    port,     \* "free", "ours" or "foreign"
    listened, \* history: the server has accepted connections
    cut,      \* history: calls ended by shutdown or by a kill
    killed    \* it was sent SIGKILL

process == <<main, shut, status, pending, calls, drain, port, listened, cut, killed>>

ProcessInit ==
    /\ main = "unborn" /\ shut = "none" /\ status = None
    /\ pending = FALSE /\ calls = 0 /\ drain = 0
    /\ port \in {"free", "foreign"}
    /\ listened = FALSE /\ cut = FALSE /\ killed = FALSE

\* Faulty variant: calls are given more time than close() waits.
SHUTDOWN_GRACE_S_Long == 3

SHUTDOWN_GRACE_S == 1

Exits(code) ==
    /\ main' = "exited" /\ status' = code /\ shut' = "done"
    /\ calls' = 0 /\ cut' = (cut \/ calls > 0)
    /\ port' = IF port = "ours" THEN "free" ELSE port
    /\ pending' = FALSE
    /\ UNCHANGED <<drain, listened, killed>>

-----------------------------------------------------------------------------
(* The main thread                                                         *)

exec ==
    /\ main = "unborn" /\ main' = "exec"
    /\ UNCHANGED <<shut, status, pending, calls, drain, port, listened, cut, killed>>

\* The signals are blocked before anything else.
block_signals ==
    /\ main = "exec" /\ main' = "masked"
    /\ UNCHANGED <<shut, status, pending, calls, drain, port, listened, cut, killed>>

\* pthread_sigmask fails, or the arguments are wrong.
fails_early == main \in {"exec", "masked"} /\ Exits("1")

\* Faulty variant: the transport starts before the signals are blocked.
start_Unmasked ==
    /\ main = "exec" /\ port = "free"
    /\ main' = "exec" /\ port' = "ours" /\ listened' = TRUE
    /\ UNCHANGED <<shut, status, pending, calls, drain, cut, killed>>

\* BuildAndStart: the port is not shared.
start ==
    /\ main = "masked" /\ port = "free"
    /\ main' = "started" /\ port' = "ours" /\ listened' = TRUE
    /\ UNCHANGED <<shut, status, pending, calls, drain, cut, killed>>

start_fails == main = "masked" /\ port = "foreign" /\ Exits("1")

\* The shutdown thread is created, and main waits for the transport.
wait ==
    /\ main = "started" /\ main' = "waiting" /\ shut' = "sigwait"
    /\ UNCHANGED <<status, pending, calls, drain, port, listened, cut, killed>>

\* wait() returns, the shutdown thread is joined.
main_returns == main = "waiting" /\ shut = "done" /\ Exits("0")

-----------------------------------------------------------------------------
(* The shutdown thread                                                     *)

\* shutdown() closes the port and gives the calls until the deadline.
await_shutdown_signal ==
    /\ shut = "sigwait" /\ pending
    /\ pending' = FALSE /\ shut' = "draining" /\ drain' = SHUTDOWN_GRACE_S
    /\ port' = "free"
    /\ UNCHANGED <<main, status, calls, listened, cut, killed>>

shutdown ==
    /\ shut = "draining" /\ (calls = 0 \/ drain = 0)
    /\ shut' = "done" /\ calls' = 0 /\ cut' = (cut \/ calls > 0)
    /\ UNCHANGED <<main, status, pending, drain, port, listened, killed>>

-----------------------------------------------------------------------------
(* Calls, signals, other processes, time                                   *)

begin_call ==
    /\ port = "ours" /\ shut # "draining" /\ calls < MaxCalls
    /\ calls' = calls + 1
    /\ UNCHANGED <<main, shut, status, pending, drain, port, listened, cut, killed>>

end_call ==
    /\ calls > 0 /\ calls' = calls - 1
    /\ UNCHANGED <<main, shut, status, pending, drain, port, listened, cut, killed>>

\* Faulty variant: a signal that comes before sigwait is lost.
Terminated_Lost ==
    IF main = "exec" THEN Exits("SIGTERM")
    ELSE /\ pending' = (shut # "none")
         /\ UNCHANGED <<main, shut, status, calls, drain, port, listened, cut, killed>>

\* SIGTERM reaches the process: the default action until it is blocked.
Terminated ==
    IF main = "exec" THEN Exits("SIGTERM")
    ELSE /\ pending' = (main \notin {"unborn", "exited"})
         /\ UNCHANGED <<main, shut, status, calls, drain, port, listened, cut, killed>>

Exists == main \notin {"unborn", "exited"}

\* SIGKILL is sent to the process, which ends some time later.
Killed ==
    /\ killed' = (killed \/ Exists)
    /\ UNCHANGED <<main, shut, status, pending, calls, drain, port, listened, cut>>

dies == killed /\ Exists /\ Exits("SIGKILL")

\* Another process takes or leaves the port.
foreign ==
    /\ port' = CASE port = "free" -> "foreign" [] port = "foreign" -> "free" [] OTHER -> port
    /\ port # "ours"
    /\ UNCHANGED <<main, shut, status, pending, calls, drain, listened, cut, killed>>

\* A step that takes no noticeable time can be taken.
Urgent ==
    \/ shut = "sigwait" /\ pending
    \/ shut = "draining" /\ (calls = 0 \/ drain = 0)
    \/ main = "waiting" /\ shut = "done"

Down(timer) == IF timer > 0 THEN timer - 1 ELSE 0

\* What the server does by itself once it exists.
ServerStep ==
    block_signals \/ fails_early \/ start \/ start_fails \/ wait \/ main_returns
    \/ await_shutdown_signal \/ shutdown \/ begin_call \/ end_call \/ dies

\* The part of it that happens without a caller and without a failure.
Progress == block_signals \/ start \/ start_fails \/ wait \/ main_returns
            \/ await_shutdown_signal \/ shutdown \/ dies
=============================================================================
