-------------------------- MODULE ForkGuardProofs --------------------------
(* The fork guard works in a family of processes of any size.              *)
EXTENDS ForkGuard, TLAPS

\* No client is connected at first.
LEMMA GuardInit == Init => GuardInv
BY DEF Init, GuardInv, Alive, NoFalseRefusal, GuardReachesDescendants, Refused

\* A process connects.
LEMMA GuardConnect ==
    ASSUME GuardInv, NEW p \in Alive, connect(p)
    PROVE  GuardInv'
BY DEF GuardInv, connect, Alive, NoFalseRefusal, GuardReachesDescendants, Refused

\* A process installs the fork handlers.
LEMMA GuardArm ==
    ASSUME GuardInv, NEW p \in Alive, arm(p)
    PROVE  GuardInv'
BY DEF GuardInv, arm, Alive, NoFalseRefusal, GuardReachesDescendants, Refused

\* A fork: the child has the gRPC of p, none of which is its own.
LEMMA GuardFork ==
    ASSUME GuardInv, NEW p \in Alive, NEW child \in Process, fork(p, child)
    PROVE  GuardInv'
<1>1. /\ child \notin Alive /\ Alive' = Alive \cup {child}
      /\ grpc'[child] = grpc[p]
      /\ \A q \in Alive : grpc'[q] = grpc[q]
      /\ connecting' = connecting
  BY DEF fork, Alive
<1>2. grpc[p] \subseteq Alive /\ child \notin grpc[p]
  BY <1>1 DEF GuardInv
<1>3. /\ created' = IF p \in created THEN created \cup {child} ELSE created
      /\ forked' = IF p \in forked \/ p \in created THEN forked \cup {child} ELSE forked
      /\ raced' = IF (p \in connecting /\ p \notin created) \/ p \in raced
                  THEN raced \cup {child} ELSE raced
  BY DEF fork, After
<1>4. /\ 1 \in Alive'
      /\ created' \subseteq Alive' /\ forked' \subseteq Alive'
      /\ connecting' \subseteq Alive' /\ raced' \subseteq Alive'
  BY <1>1, <1>3 DEF GuardInv
<1>5. grpc' \in [Alive' -> SUBSET Alive']
  BY <1>1 DEF GuardInv, fork, Alive
<1>6. \A q \in Alive' : q \in grpc'[q] => q \in created' \cup connecting'
  BY <1>1, <1>2, <1>3 DEF GuardInv
<1>7. \A q \in created' \cup connecting' : grpc'[q] # {}
  BY <1>1, <1>2, <1>3 DEF GuardInv
<1>8. NoFalseRefusal'
  <2>1. SUFFICES ASSUME NEW q \in forked' PROVE grpc'[q] \ {q} # {}
    BY DEF NoFalseRefusal
  <2>2. CASE q = child
    <3>1. p \in forked \/ p \in created
      BY <1>1, <1>3, <2>2 DEF GuardInv
    <3>2. grpc[p] # {}
      BY <3>1 DEF GuardInv, NoFalseRefusal
    <3> QED BY <1>1, <1>2, <2>2, <3>2
  <2>3. CASE q # child
    BY <1>1, <1>3, <2>3 DEF GuardInv, NoFalseRefusal
  <2> QED BY <2>2, <2>3
<1>9. GuardReachesDescendants'
  <2>1. SUFFICES ASSUME NEW q \in Alive', grpc'[q] \ {q} # {}, q \notin raced'
                 PROVE q \in forked'
    BY DEF GuardReachesDescendants, Refused
  <2>2. CASE q = child
    <3>1. grpc[p] # {} /\ p \notin raced /\ ~(p \in connecting /\ p \notin created)
      BY <1>1, <1>3, <2>1, <2>2
    <3>2. CASE grpc[p] \ {p} # {}
      BY <1>3, <2>2, <3>1, <3>2 DEF GuardInv, GuardReachesDescendants, Refused
    <3>3. CASE p \in grpc[p]
      BY <1>3, <2>2, <3>1, <3>3 DEF GuardInv
    <3> QED BY <3>1, <3>2, <3>3
  <2>3. CASE q # child
    BY <1>1, <1>3, <2>1, <2>3 DEF GuardInv, GuardReachesDescendants, Refused
  <2> QED BY <2>2, <2>3
<1> QED BY <1>4, <1>5, <1>6, <1>7, <1>8, <1>9 DEF GuardInv

\* GuardInv holds in every state, for any number of processes.
THEOREM GuardAlways == Spec => []GuardInv
<1>1. GuardInv /\ [Next]_vars => GuardInv'
  <2>1. SUFFICES ASSUME GuardInv, [Next]_vars PROVE GuardInv'
    OBVIOUS
  <2>2. CASE Next
    BY <2>1, <2>2, GuardConnect, GuardArm, GuardFork DEF Next
  <2>3. CASE UNCHANGED vars
    BY <2>1, <2>3 DEF vars, GuardInv, Alive, NoFalseRefusal, GuardReachesDescendants, Refused
  <2> QED BY <2>1, <2>2, <2>3
<1> QED BY <1>1, GuardInit, PTL DEF Spec

\* The guard never refuses a process that has no gRPC but its own
\* (client.py 47-56).
THEOREM NeverRefusedInVain == Spec => []NoFalseRefusal
<1>1. GuardInv => NoFalseRefusal
  BY DEF GuardInv
<1> QED BY <1>1, GuardAlways, PTL

\* The guard holds in every generation, whatever the processes do, except below
\* a fork that came before it was armed (client.py 47-56, 84-88, 169).
THEOREM GuardHolds == Spec => []GuardReachesDescendants
<1>1. GuardInv => GuardReachesDescendants
  BY DEF GuardInv
<1> QED BY <1>1, GuardAlways, PTL
============================================================================
