------------------------ MODULE ServerHelperProofs ------------------------
(***************************************************************************)
(* close() leaves no server running that it did not kill, does not kill one *)
(* that was up and drains, and its signal is never lost, for every number  *)
(* of calls in flight.                                                     *)
(***************************************************************************)
EXTENDS ServerHelper, TLAPS

BeforeClose == {"new", "open", "connect", "connected", "ready", "raised"}
AfterClose == {"closing", "polling", "killing", "reaping", "closed"}

Flags == pending \in BOOLEAN /\ listened \in BOOLEAN /\ cut \in BOOLEAN /\ killed \in BOOLEAN

Types ==
    /\ Flags
    /\ main \in {"unborn", "exec", "masked", "started", "waiting", "exited"}
    /\ shut \in {"none", "sigwait", "draining", "done"}
    /\ status \in {None, "0", "1", "SIGTERM", "SIGKILL"}
    /\ calls \in 0..MaxCalls
    /\ drain \in 0..SHUTDOWN_GRACE_S /\ left \in 0..TERMINATE_TIMEOUT_S
    /\ port \in {"free", "ours", "foreign"}
    /\ command \in {"server", "wrapper", "container"}
    /\ leader \in {"running", "killed", "exited", "reaped"}
    /\ helper \in BeforeClose \cup AfterClose
    /\ signaled \in {None, "unborn", "exec", "masked", "started", "waiting", "exited"}

\* What the threads of the server have in common.  It serves nobody before it
\* listens; the port is its own until it drains; it ends what is left of the
\* calls only when the grace period has passed.
Threads ==
    /\ main \in {"unborn", "exec", "masked"} =>
         shut = "none" /\ calls = 0 /\ port # "ours" /\ ~listened
    /\ main \in {"unborn", "exec", "exited"} => ~pending
    /\ main = "started" => shut = "none" /\ port = "ours"
    /\ main = "waiting" => shut # "none" /\ (shut = "sigwait" <=> port = "ours")
    /\ main = "exited" => shut = "done" /\ port # "ours"
    /\ shut = "done" => calls = 0
    /\ status = None <=> main # "exited"
    /\ cut /\ status # "SIGKILL" => shut = "done" /\ drain = 0
    /\ listened /\ status # None => status \in {"0", "SIGKILL"}
    /\ status = "SIGKILL" => killed

\* Nothing but close() asks the server to stop, and it does so once.
AskedOnce ==
    helper \in BeforeClose =>
        /\ ~pending /\ signaled = None /\ ~killed
        /\ shut \in {"none", "sigwait"} \/ main = "exited"

\* A server that was up when it was asked to stop is in time: its grace period
\* ends before the deadline of close(), and close() has not come to the kill.
InTime ==
    (InGroup /\ signaled = "waiting" /\ main # "exited") =>
        /\ main = "waiting" /\ helper \in {"closing", "polling"} /\ left > 0
        /\ shut = "sigwait" => left = TERMINATE_TIMEOUT_S
        /\ shut = "draining" => left > drain

\* Behind the kill there is no server in the group but one that was sent SIGKILL,
\* and no wrapper that could start one; a server that leads the group is there as
\* long as the leader, and one outside it is never killed.
NobodyBehind ==
    /\ helper = "new" => main = "unborn" /\ leader = "reaped"
    /\ helper \in {"reaping", "closed"} =>
         leader # "running" /\ (InGroup => main \in {"unborn", "exited"} \/ killed)
    /\ helper = "closed" => leader = "reaped"
    /\ command = "server" /\ helper # "new" =>
         main # "unborn" /\ (main = "exited" <=> leader \in {"exited", "reaped"})
    /\ ~InGroup => ~killed

HelperInv ==
    Types /\ Threads /\ AskedOnce /\ InTime /\ NobodyBehind
    /\ DrainNotKilled /\ SignalNotLost

-----------------------------------------------------------------------------

\* Nothing runs before the helper is constructed.
LEMMA HelperInit == Init => HelperInv
<1>. SUFFICES ASSUME Init PROVE HelperInv
  OBVIOUS
<1>. USE ProcessAssumption DEF Init, ProcessInit
<1>0. Flags
  BY DEF Flags
<1>1. Types
  BY <1>0 DEF Types, BeforeClose, SHUTDOWN_GRACE_S, TERMINATE_TIMEOUT_S
<1>2. Threads
  BY DEF Threads
<1>3. AskedOnce /\ InTime /\ NobodyBehind /\ DrainNotKilled /\ SignalNotLost
  BY DEF AskedOnce, InTime, NobodyBehind, DrainNotKilled, SignalNotLost
<1>. QED
  BY <1>1, <1>2, <1>3 DEF HelperInv

\* The server's own steps.  No exit is a kill; the signal is taken over by the
\* shutdown, which ends before the deadline of close().
LEMMA ServerPreserves ==
    ASSUME HelperInv, server
    PROVE  HelperInv'
<1>. USE ProcessAssumption
     DEF HelperInv, SHUTDOWN_GRACE_S, TERMINATE_TIMEOUT_S
<1>0. UNCHANGED <<helper, left, signaled, command>> /\ leader' = LeaderAfter
  BY DEF server
<1>1. CASE \E code \in {"0", "1"} :
             /\ main \in {"exec", "masked"} \/ (main = "waiting" /\ shut = "done" /\ code = "0")
             /\ Exits(code)
  <2>1. PICK code \in {"0", "1"} :
          /\ main \in {"exec", "masked"} \/ (main = "waiting" /\ shut = "done" /\ code = "0")
          /\ Exits(code)
    BY <1>1
  <2>2. cut' = cut /\ calls' = 0 /\ calls = 0
    BY <2>1 DEF Exits, Types, Threads, Flags
  <2>3. Flags'
    BY <1>0, <2>1, <2>2 DEF Exits, Types, Flags
  <2>4. Types'
    BY <1>0, <2>1, <2>2, <2>3 DEF Exits, Types, LeaderAfter
  <2>5. Threads'
    BY <1>0, <2>1, <2>2 DEF Exits, Types, Threads
  <2>6. (AskedOnce /\ InTime /\ NobodyBehind /\ DrainNotKilled /\ SignalNotLost)'
    BY <1>0, <2>1 DEF Exits, Types, AskedOnce, InTime, NobodyBehind, DrainNotKilled,
                      SignalNotLost, LeaderAfter, Threads, BeforeClose, InGroup
  <2>. QED
    BY <2>4, <2>5, <2>6
<1>2. CASE block_signals \/ start \/ wait
  <2>. USE <1>0, <1>2 DEF block_signals, start, wait
  <2>0. Flags'
    BY DEF Types, Flags
  <2>1. Types'
    BY <2>0 DEF Types, LeaderAfter
  <2>2. Threads'
    BY DEF Types, Threads
  <2>3. (AskedOnce /\ InTime /\ NobodyBehind /\ DrainNotKilled /\ SignalNotLost)'
    BY DEF Types, Threads, AskedOnce, InTime, NobodyBehind, DrainNotKilled, SignalNotLost,
           LeaderAfter, InGroup
  <2>. QED
    BY <2>1, <2>2, <2>3
<1>3. CASE await_shutdown_signal
  <2>. USE <1>0, <1>3 DEF await_shutdown_signal
  <2>0. Flags'
    BY DEF Types, Flags
  <2>1. Types'
    BY <2>0 DEF Types, LeaderAfter
  <2>2. Threads'
    BY DEF Types, Threads
  <2>3. (AskedOnce /\ InTime /\ NobodyBehind /\ DrainNotKilled /\ SignalNotLost)'
    BY DEF Types, Threads, AskedOnce, InTime, NobodyBehind, DrainNotKilled, SignalNotLost,
           LeaderAfter, InGroup
  <2>. QED
    BY <2>1, <2>2, <2>3
<1>4. CASE shutdown
  <2>. USE <1>0, <1>4 DEF shutdown
  <2>0. Flags'
    BY DEF Types, Flags
  <2>1. Types'
    BY <2>0 DEF Types, LeaderAfter
  <2>2. Threads'
    BY <2>0 DEF Types, Threads, Flags
  <2>3. (AskedOnce /\ InTime /\ NobodyBehind /\ DrainNotKilled /\ SignalNotLost)'
    BY DEF Types, Threads, AskedOnce, InTime, NobodyBehind, DrainNotKilled, SignalNotLost,
           LeaderAfter, BeforeClose, InGroup
  <2>. QED
    BY <2>1, <2>2, <2>3
<1>5. CASE begin_call \/ end_call
  <2>0. /\ UNCHANGED <<main, shut, status, pending, drain, port, listened, cut, killed>>
        /\ calls' \in 0..MaxCalls
        /\ shut = "done" \/ main \in {"unborn", "exec", "masked"} => calls' = 0
    BY <1>5 DEF begin_call, end_call, Types, Threads
  <2>1. Types'
    BY <1>0, <2>0 DEF Types, Flags, LeaderAfter
  <2>2. Threads'
    BY <2>0 DEF Threads
  <2>3. (AskedOnce /\ InTime /\ NobodyBehind /\ DrainNotKilled /\ SignalNotLost)'
    BY <1>0, <2>0 DEF AskedOnce, InTime, NobodyBehind, DrainNotKilled, SignalNotLost, LeaderAfter, InGroup
  <2>. QED
    BY <2>1, <2>2, <2>3
<1>6. CASE dies
  <2>1. Exits("SIGKILL") /\ killed /\ Exists /\ killed' = killed
    BY <1>6 DEF dies, Exits
  <2>2. Flags'
    BY <1>0, <2>1 DEF Exits, Types, Flags
  <2>3. Types'
    BY <1>0, <2>1, <2>2 DEF Exits, Types, LeaderAfter
  <2>4. Threads'
    BY <1>0, <2>1 DEF Exits, Types, Threads
  <2>5. (AskedOnce /\ InTime /\ NobodyBehind /\ DrainNotKilled /\ SignalNotLost)'
    BY <1>0, <2>1 DEF Exits, Exists, Types, AskedOnce, InTime, NobodyBehind, DrainNotKilled,
                      SignalNotLost, LeaderAfter, InGroup
  <2>. QED
    BY <2>3, <2>4, <2>5
<1>7. CASE fails_early \/ start_fails \/ main_returns
  BY <1>1, <1>7 DEF fails_early, start_fails, main_returns
<1>. QED
  BY <1>2, <1>3, <1>4, <1>5, <1>6, <1>7 DEF server, ServerStep

\* The helper is constructed, looks at the process or connects: none of it is
\* after close().
LEMMA BeforeClosePreserves ==
    ASSUME HelperInv, construct \/ wait_until_ready
    PROVE  HelperInv'
<1>. USE DEF HelperInv
<1>1. CASE construct
  <2>. USE <1>1 DEF construct, Goes, exec, process
  <2>1. Types'
    BY DEF Types, Flags, BeforeClose
  <2>2. Threads'
    BY DEF Types, Flags, Threads, NobodyBehind
  <2>3. (AskedOnce /\ InTime /\ NobodyBehind /\ DrainNotKilled /\ SignalNotLost)'
    BY ProcessAssumption DEF Types, Threads, AskedOnce, InTime, NobodyBehind, DrainNotKilled,
           SignalNotLost, BeforeClose, InGroup
  <2>. QED
    BY <2>1, <2>2, <2>3
<1>2. CASE wait_until_ready
  <2>1. /\ UNCHANGED <<process, left, signaled, command>>
        /\ helper \in BeforeClose \ {"new"} /\ helper' \in BeforeClose \ {"new"}
        /\ leader' = leader \/ (leader = "exited" /\ leader' = "reaped")
    BY <1>2 DEF wait_until_ready, _raise_if_exited, connect, Goes, Reaps, BeforeClose
  <2>2. Types'
    BY <2>1 DEF Types, Flags, process
  <2>3. Threads'
    BY <2>1 DEF Threads, process
  <2>4. (AskedOnce /\ InTime /\ NobodyBehind /\ DrainNotKilled /\ SignalNotLost)'
    BY <2>1, ProcessAssumption DEF AskedOnce, InTime, NobodyBehind, DrainNotKilled,
           SignalNotLost, BeforeClose, InGroup, process
  <2>. QED
    BY <2>2, <2>3, <2>4
<1>. QED
  BY <1>1, <1>2

\* SIGTERM reaches a server, from close() or passed on by the client of a
\* container runtime: the default action ends it, or the signal is pending.
LEMMA TerminatedKeeps ==
    ASSUME Types, Threads, Terminated, UNCHANGED command
    PROVE  /\ Flags' /\ Threads' /\ UNCHANGED <<drain, listened, killed>>
           /\ \/ main = "exec" /\ main' = "exited" /\ ~pending'
              \/ main # "exec" /\ UNCHANGED <<main, shut>> /\ (pending' <=> Exists)
           /\ calls' \in 0..MaxCalls /\ port' \in {"free", "ours", "foreign"}
           /\ shut' \in {"none", "sigwait", "draining", "done"}
           /\ status' \in {None, "0", "1", "SIGTERM", "SIGKILL"}
<1>1. CASE main = "exec"
  <2>1. Exits("SIGTERM") /\ cut' = cut
    BY <1>1 DEF Terminated, Exits, Types, Flags, Threads
  <2>2. Flags'
    BY <2>1 DEF Exits, Types, Flags
  <2>3. Threads'
    BY <1>1, <2>1, ProcessAssumption DEF Exits, Types, Threads
  <2>. QED
    BY <1>1, <2>1, <2>2, <2>3, ProcessAssumption DEF Exits, Types
<1>2. CASE main # "exec"
  <2>1. /\ pending' = (main \notin {"unborn", "exited"})
        /\ UNCHANGED <<main, shut, status, calls, drain, port, listened, cut, killed>>
    BY <1>2 DEF Terminated
  <2>2. Flags'
    BY <2>1 DEF Types, Flags
  <2>3. Threads'
    BY <1>2, <2>1, <2>2 DEF Threads
  <2>. QED
    BY <1>2, <2>1, <2>2, <2>3 DEF Types, Exists
<1>. QED
  BY <1>1, <1>2

\* close() signals the group.
LEMMA ClosePreserves ==
    ASSUME HelperInv, close
    PROVE  HelperInv'
<1>. USE DEF HelperInv
<1>1. /\ helper \in BeforeClose \ {"new"} /\ helper' = "closing"
      /\ left' = TERMINATE_TIMEOUT_S /\ command' = command /\ leader' = LeaderAfter
      /\ signaled' = IF InGroup THEN main ELSE None
      /\ IF InGroup THEN Terminated ELSE UNCHANGED process
  BY DEF close, Goes, BeforeClose, _signal_process_group
<1>2. CASE InGroup
  <2>1. /\ Flags' /\ Threads' /\ UNCHANGED <<drain, listened, killed>>
        /\ \/ main = "exec" /\ main' = "exited" /\ ~pending'
           \/ main # "exec" /\ UNCHANGED <<main, shut>> /\ (pending' <=> Exists)
        /\ calls' \in 0..MaxCalls /\ port' \in {"free", "ours", "foreign"}
        /\ shut' \in {"none", "sigwait", "draining", "done"}
        /\ status' \in {None, "0", "1", "SIGTERM", "SIGKILL"}
    BY <1>1, <1>2, TerminatedKeeps
  <2>2. Types'
    BY <1>1, <1>2, <2>1 DEF Types, LeaderAfter, AfterClose, TERMINATE_TIMEOUT_S
  <2>3. (AskedOnce /\ DrainNotKilled)'
    BY <1>1, <2>1 DEF AskedOnce, DrainNotKilled, BeforeClose
  <2>4. NobodyBehind'
    BY <1>1, <1>2, <2>1 DEF Types, NobodyBehind, LeaderAfter, BeforeClose, InGroup
  <2>5. (InTime /\ SignalNotLost)'
    BY <1>1, <1>2, <2>1
       DEF Types, Threads, AskedOnce, InTime, SignalNotLost, TERMINATE_TIMEOUT_S, Exists
  <2>. QED
    BY <2>1, <2>2, <2>3, <2>4, <2>5
<1>3. CASE ~InGroup
  <2>1. UNCHANGED process /\ leader' = leader /\ signaled' = None
    BY <1>1, <1>3 DEF LeaderAfter, InGroup
  <2>2. Types'
    BY <1>1, <2>1 DEF Types, Flags, process, AfterClose, TERMINATE_TIMEOUT_S
  <2>3. Threads'
    BY <2>1 DEF Threads, process
  <2>4. (AskedOnce /\ InTime /\ NobodyBehind /\ DrainNotKilled /\ SignalNotLost)'
    BY <1>1, <1>3, <2>1, ProcessAssumption
       DEF AskedOnce, InTime, NobodyBehind, DrainNotKilled, SignalNotLost, BeforeClose, InGroup, process
  <2>. QED
    BY <2>2, <2>3, <2>4
<1>. QED
  BY <1>2, <1>3

\* The client of a container runtime passes the signal on.
LEMMA ForwardsPreserves ==
    ASSUME HelperInv, forwards
    PROVE  HelperInv'
<1>. USE DEF HelperInv
<1>1. /\ command = "container" /\ ~InGroup /\ main # "unborn" /\ signaled' = main
      /\ helper \in {"closing", "polling", "killing", "reaping"}
      /\ UNCHANGED <<leader, helper, left, command>>
  BY DEF forwards, InGroup
<1>2. CASE Terminated
  <2>1. /\ Flags' /\ Threads' /\ UNCHANGED <<drain, listened, killed>>
        /\ \/ main = "exec" /\ main' = "exited" /\ ~pending'
           \/ main # "exec" /\ UNCHANGED <<main, shut>> /\ (pending' <=> Exists)
        /\ calls' \in 0..MaxCalls /\ port' \in {"free", "ours", "foreign"}
        /\ shut' \in {"none", "sigwait", "draining", "done"}
        /\ status' \in {None, "0", "1", "SIGTERM", "SIGKILL"}
    BY <1>1, <1>2, TerminatedKeeps
  <2>2. Types'
    BY <1>1, <2>1 DEF Types
  <2>3. (AskedOnce /\ InTime /\ NobodyBehind /\ DrainNotKilled /\ SignalNotLost)'
    BY <1>1, <2>1 DEF AskedOnce, InTime, NobodyBehind, DrainNotKilled, SignalNotLost, BeforeClose,
                      InGroup, Exists
  <2>. QED
    BY <2>1, <2>2, <2>3
<1>3. CASE main = "exec" /\ UNCHANGED process
  <2>1. Types'
    BY <1>1, <1>3 DEF Types, Flags, process
  <2>2. Threads'
    BY <1>3 DEF Threads, process
  <2>3. (AskedOnce /\ InTime /\ NobodyBehind /\ DrainNotKilled /\ SignalNotLost)'
    BY <1>1, <1>3 DEF AskedOnce, InTime, NobodyBehind, DrainNotKilled, SignalNotLost, BeforeClose,
                      InGroup, process
  <2>. QED
    BY <2>1, <2>2, <2>3
<1>. QED
  BY <1>2, <1>3 DEF forwards

\* close() waits, kills what is left and reaps.  It comes to the kill while the
\* server is there only if the deadline passed, and InTime says it did not for
\* a server that was up.
LEMMA ClosingPreserves ==
    ASSUME HelperInv, Closing
    PROVE  HelperInv'
<1>. USE DEF HelperInv
<1>1. CASE wait_leader \/ wait_group \/ reap \/ (kill_group /\ ~_process_group_alive)
  <2>1. /\ UNCHANGED <<process, left, signaled, command>>
        /\ leader' = leader \/ (leader = "exited" /\ leader' = "reaped")
        /\ \/ helper = "closing" /\ helper' = "polling"
           \/ helper = "polling" /\ helper' = "killing" /\ (~_process_group_alive \/ left = 0)
           \/ helper = "killing" /\ helper' = "reaping" /\ ~_process_group_alive
           \/ helper = "reaping" /\ helper' = "closed" /\ leader' = "reaped"
    BY <1>1 DEF wait_leader, wait_group, reap, kill_group, Goes, Reaps, Types, process
  <2>2. Types'
    BY <2>1 DEF Types, Flags, process, AfterClose
  <2>3. Threads'
    BY <2>1 DEF Threads, process
  <2>4. InTime'
    BY <2>1 DEF Types, InTime, process, _process_group_alive, TERMINATE_TIMEOUT_S, InGroup, Exists
  <2>5. (AskedOnce /\ NobodyBehind /\ DrainNotKilled /\ SignalNotLost)'
    BY <2>1 DEF AskedOnce, NobodyBehind, DrainNotKilled, SignalNotLost, BeforeClose,
                process, _process_group_alive, InGroup, Exists, Types
  <2>. QED
    BY <2>2, <2>3, <2>4, <2>5
<1>2. CASE kill_group /\ _process_group_alive
  <2>1. /\ IF InGroup THEN Killed ELSE UNCHANGED process
        /\ leader' = IF leader = "running" THEN "killed" ELSE leader
        /\ helper = "killing" /\ helper' = "reaping" /\ UNCHANGED <<left, signaled, command>>
    BY <1>2 DEF kill_group, Goes, _signal_process_group
  <2>2. /\ UNCHANGED <<main, shut, status, pending, calls, drain, port, listened, cut>>
        /\ killed' \in BOOLEAN /\ (killed => killed')
        /\ InGroup /\ Exists => killed'
        /\ ~InGroup \/ ~Exists => killed' = killed
    BY <2>1 DEF Killed, process, Types, Flags
  <2>3. Types'
    BY <2>1, <2>2 DEF Types, Flags, AfterClose
  <2>4. Threads'
    BY <2>2 DEF Threads
  <2>5. NobodyBehind'
    BY <2>1, <2>2 DEF Types, NobodyBehind, InGroup, Exists
  <2>6. DrainNotKilled'
    BY <2>1, <2>2 DEF InTime, DrainNotKilled, Exists
  <2>7. (AskedOnce /\ InTime /\ SignalNotLost)'
    BY <2>1, <2>2 DEF AskedOnce, InTime, SignalNotLost, BeforeClose, InGroup
  <2>. QED
    BY <2>3, <2>4, <2>5, <2>6, <2>7
<1>. QED
  BY <1>1, <1>2 DEF Closing

\* The wrapper starts the server or exits, another process takes or leaves the
\* port, time passes.  A tick cannot overtake a shutdown that has to act.
LEMMA SurroundingsPreserve ==
    ASSUME HelperInv, wrapper_starts \/ wrapper_exits \/ others \/ tick \/ UNCHANGED vars
    PROVE  HelperInv'
<1>. USE DEF HelperInv
<1>1. CASE wrapper_starts
  <2>1. /\ main = "unborn" /\ main' = "exec" /\ (leader = "running" \/ ~InGroup)
        /\ command # "server" /\ helper # "new"
        /\ UNCHANGED <<shut, status, pending, calls, drain, port, listened, cut, killed>>
        /\ UNCHANGED <<leader, helper, left, signaled, command>>
    BY <1>1 DEF wrapper_starts, exec, InGroup, NobodyBehind
  <2>2. Types'
    BY <2>1 DEF Types, Flags
  <2>3. Threads'
    BY <2>1 DEF Threads
  <2>4. (AskedOnce /\ InTime /\ NobodyBehind /\ DrainNotKilled /\ SignalNotLost)'
    BY <2>1 DEF AskedOnce, InTime, NobodyBehind, DrainNotKilled, SignalNotLost, Threads, InGroup
  <2>. QED
    BY <2>2, <2>3, <2>4
<1>2. CASE wrapper_exits \/ others \/ UNCHANGED vars
  <2>1. /\ UNCHANGED <<main, shut, status, pending, calls, drain, listened, cut, killed>>
        /\ UNCHANGED <<helper, left, signaled, command>>
        /\ port' = port \/ (port # "ours" /\ port' \in {"free", "foreign"})
        /\ leader' = leader \/ (command # "server" /\ leader \in {"running", "killed"} /\ leader' = "exited")
    <3>1. CASE wrapper_exits
      BY <3>1 DEF wrapper_exits, process
    <3>2. CASE others
      BY <3>2 DEF others, foreign, Types
    <3>3. CASE UNCHANGED vars
      BY <3>3 DEF vars, process
    <3>. QED
      BY <1>2, <3>1, <3>2, <3>3
  <2>2. Types'
    BY <2>1 DEF Types, Flags
  <2>3. Threads'
    BY <2>1 DEF Threads
  <2>4. (AskedOnce /\ InTime /\ NobodyBehind /\ DrainNotKilled /\ SignalNotLost)'
    BY <2>1 DEF AskedOnce, InTime, NobodyBehind, DrainNotKilled, SignalNotLost, InGroup
  <2>. QED
    BY <2>2, <2>3, <2>4
<1>3. CASE tick
  <2>. USE DEF SHUTDOWN_GRACE_S, TERMINATE_TIMEOUT_S
  <2>1. /\ UNCHANGED <<main, shut, status, pending, calls, port, listened, cut, killed>>
        /\ UNCHANGED <<leader, helper, signaled, command>>
        /\ drain' = Down(drain) /\ left' = Down(left) /\ ~Urgent
    BY <1>3 DEF tick
  <2>2. /\ drain' \in 0..1 /\ left' \in 0..2
        /\ drain > 0 => drain' = drain - 1
        /\ drain = 0 => drain' = 0
        /\ left > 0 => left' = left - 1
    BY <2>1 DEF Down, Types
  <2>3. Types'
    BY <2>1, <2>2 DEF Types, Flags
  <2>4. Threads'
    BY <2>1, <2>2 DEF Threads
  <2>5. InTime'
    <3>1. SUFFICES ASSUME InGroup, signaled = "waiting", main # "exited"
                   PROVE  left' > 0 /\ shut = "draining" /\ left' > drain'
      BY <2>1 DEF InTime, InGroup
    <3>2. main = "waiting" /\ shut # "done" /\ shut # "none"
      BY <2>1, <3>1 DEF InTime, Urgent, Threads
    <3>3. shut = "draining" /\ drain # 0
      BY <2>1, <3>1, <3>2 DEF SignalNotLost, Urgent, Types
    <3>. QED
      BY <2>2, <3>1, <3>3 DEF InTime, Types
  <2>6. (AskedOnce /\ NobodyBehind /\ DrainNotKilled /\ SignalNotLost)'
    BY <2>1 DEF AskedOnce, NobodyBehind, DrainNotKilled, SignalNotLost, InGroup
  <2>. QED
    BY <2>3, <2>4, <2>5, <2>6
<1>. QED
  BY <1>1, <1>2, <1>3

\* The inductive invariant holds in every reachable state, for every bound on
\* the calls in flight.
THEOREM HelperAlways == Spec => []HelperInv
<1>1. HelperInv /\ [Next]_vars => HelperInv'
  BY BeforeClosePreserves, ClosePreserves, ForwardsPreserves, ClosingPreserves, ServerPreserves,
     SurroundingsPreserve DEF Next
<1>. QED
  BY <1>1, HelperInit, PTL DEF Spec

-----------------------------------------------------------------------------

\* close() never kills a server whose main thread was waiting when SIGTERM reached
\* it: the deadline of the calls comes first (server.py 20-23, main.cpp 20-23).
THEOREM DrainsUnharmed == Spec => []DrainNotKilled
BY HelperAlways, PTL DEF HelperInv

\* A server that has accepted connections ends with status 0 or by SIGKILL, and
\* without SIGKILL cuts a call off only after the grace period (main.cpp 45-76).
THEOREM EndsGracefully == Spec => []ServedEndsGracefully
<1>1. HelperInv => ServedEndsGracefully
  BY DEF HelperInv, Threads, ServedEndsGracefully
<1>. QED
  BY <1>1, HelperAlways, PTL

\* The SIGTERM of close() is pending or acted on until the server exits
\* (main.cpp 66-76, 117).
THEOREM SignalKept == Spec => []SignalNotLost
BY HelperAlways, PTL DEF HelperInv

\* After close() the process that was started is gone, and so is a server that it
\* was; a server that a wrapper started is gone or was sent SIGKILL, and no other
\* is started in the group (server.py 209-246).
THEOREM NobodyLeft == Spec => []CloseLeavesNobody
<1>1. HelperInv => CloseLeavesNobody
  BY DEF HelperInv, Types, NobodyBehind, CloseLeavesNobody, InGroup
<1>. QED
  BY <1>1, HelperAlways, PTL
=============================================================================
