----------------------------- MODULE ForkGuard -----------------------------
(***************************************************************************)
(* The guard that keeps a forked child from using the gRPC of its parent   *)
(* (python/ds_service_client/client.py): two flags of the module, which a  *)
(* fork copies, and a hook that every fork runs in the child.  One thread  *)
(* of a process connects clients while others may fork; the child has the  *)
(* forking thread only.                                                    *)
(***************************************************************************)
EXTENDS Naturals

CONSTANT MaxProcess   \* bound: processes

ASSUME MaxProcessAssumption == MaxProcess \in Nat \ {0}

Process == 1..MaxProcess

VARIABLES
    parent,          \* parent[p] of the processes that exist, 0 for the first
    created,         \* the processes with _client_created
    forked,          \* the processes with _forked_after_client
    connecting,      \* the processes between _ext.connect and the assignment
    grpc,            \* grpc[p]: the processes whose gRPC p has in its memory
    raced            \* history: the processes a fork in that window led to

vars == <<parent, created, forked, connecting, grpc, raced>>

Alive == DOMAIN parent

Init ==
    /\ parent = [p \in {1} |-> 0]
    /\ created = {} /\ forked = {} /\ connecting = {} /\ raced = {}
    /\ grpc = [p \in {1} |-> {}]

\* translate_error refuses every call, and connect, in a process like this.
Refused(p) == p \in forked

\* _ext.connect: the process has gRPC of its own.
connect(p) ==
    /\ ~Refused(p) /\ p \notin connecting
    /\ connecting' = connecting \cup {p}
    /\ grpc' = [grpc EXCEPT ![p] = @ \cup {p}]
    /\ UNCHANGED <<parent, created, forked, raced>>

\* _client_created = True
arm(p) ==
    /\ p \in connecting
    /\ connecting' = connecting \ {p}
    /\ created' = created \cup {p}
    /\ UNCHANGED <<parent, forked, grpc, raced>>

\* Faulty variant: the flag says what the last fork found, and starts afresh.
After_Afresh(p, child) ==
    /\ forked' = IF p \in created THEN forked \cup {child} ELSE forked
    /\ UNCHANGED created

\* Faulty variant: every child refuses.
After_Always(p, child) ==
    /\ created' = IF p \in created THEN created \cup {child} ELSE created
    /\ forked' = forked \cup {child}

\* The child has a copy of both flags, and then runs _after_fork_in_child.
After(p, child) ==
    /\ created' = IF p \in created THEN created \cup {child} ELSE created
    /\ forked' = IF p \in forked \/ p \in created THEN forked \cup {child} ELSE forked

\* A thread of p other than the connecting one forks.
fork(p, child) ==
    /\ child \notin Alive
    /\ parent' = [q \in Alive \cup {child} |-> IF q = child THEN p ELSE parent[q]]
    /\ grpc' = [q \in Alive \cup {child} |-> IF q = child THEN grpc[p] ELSE grpc[q]]
    /\ raced' = IF (p \in connecting /\ p \notin created) \/ p \in raced
                THEN raced \cup {child} ELSE raced
    /\ After(p, child)
    /\ UNCHANGED connecting

Next ==
    \E p \in Alive :
        \/ connect(p) \/ arm(p)
        \/ \E child \in Process : fork(p, child)

Spec == Init /\ [][Next]_vars

----------------------------------------------------------------------------
(* Properties                                                              *)

\* A process refuses only if it has the gRPC of an ancestor: a program that
\* forks first and connects later, in any generation, is never refused
\* (client.py 47-56).
NoFalseRefusal == \A p \in forked : grpc[p] \ {p} # {}

\* A process with the gRPC of an ancestor refuses, down to the last generation
\* of children, unless a fork on the way came before the guard was armed
\* (client.py 47-56, 84-88, 169).
GuardReachesDescendants ==
    \A p \in Alive : (grpc[p] \ {p} # {} /\ p \notin raced) => Refused(p)

\* The inductive invariant behind the two properties above: the flags and the
\* gRPC in memory belong to processes that exist, a process with gRPC of its own
\* is armed or about to be, and one that is either has some.
GuardInv ==
    /\ 1 \in Alive
    /\ created \subseteq Alive /\ forked \subseteq Alive
    /\ connecting \subseteq Alive /\ raced \subseteq Alive
    /\ grpc \in [Alive -> SUBSET Alive]
    /\ \A p \in Alive : p \in grpc[p] => p \in created \cup connecting
    /\ \A p \in created \cup connecting : grpc[p] # {}
    /\ NoFalseRefusal
    /\ GuardReachesDescendants
============================================================================
