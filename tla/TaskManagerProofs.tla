------------------------- MODULE TaskManagerProofs -------------------------
(***************************************************************************)
(* TaskManager, for any sets of ids, queues, workers and priorities and    *)
(* for graphs of any size and shape: its type invariant and the            *)
(* correctness of its dependency graph first, then what becomes of a task: *)
(* a final task stays as it is, an ending names the task that caused it,   *)
(* the queues offer exactly the tasks that are Ready, the reads agree, and *)
(* all a caller can see is what the contract of module TaskContract        *)
(* allows.                                                                 *)
(*                                                                         *)
(* TypeOK alone is not inductive: task_done subtracts from pending_parents *)
(* without a test, so that the count stays a natural number rests on       *)
(* PendingExact, which rests on ChildrenExact.  They are proved together.  *)
(***************************************************************************)
EXTENDS TaskManagerContract, FiniteSetTheorems, FunctionTheorems, WellFoundedInduction,
        NaturalsInduction, TLAPS

GraphInv ==
    /\ TypeOK
    /\ IndexInverse
    /\ ParentsPrecede
    /\ ChildrenExact
    /\ PendingExact
    /\ DispatchAfterParents
    /\ NoStrandedWaiter

----------------------------------------------------------------------------
(* Finite sets of rows and of places                                       *)

\* A set of rows, or of places of a list, is finite.
LEMMA FiniteUpTo ==
    ASSUME NEW n \in Nat, NEW R \in SUBSET (1..n)
    PROVE  IsFiniteSet(R) /\ Cardinality(R) \in Nat
<1>1. IsFiniteSet(1..n)
  BY FS_Interval
<1>2. IsFiniteSet(R)
  BY <1>1, FS_Subset
<1>. QED
  BY <1>2, FS_CardinalityType

\* The places of a list form a finite set, and so does any part of them.
LEMMA FinitePlaces ==
    ASSUME NEW S, NEW s \in Seq(S), NEW K \in SUBSET (DOMAIN s)
    PROVE  IsFiniteSet(K) /\ Cardinality(K) \in Nat
<1>1. DOMAIN s = 1..Len(s) /\ Len(s) \in Nat
  OBVIOUS
<1>. QED
  BY <1>1, FiniteUpTo

\* enqueue hands out, to each of a set R of rows, a number above next_seq and
\* no higher than the next_seq it leaves behind.
LEMMA StampRange ==
    ASSUME next_seq \in Nat, NEW n \in Nat, NEW R \in SUBSET (1..n), NEW r \in R
    PROVE  /\ Stamp(R, r) \in Nat \ {0}
           /\ Stamp(R, r) > next_seq
           /\ Stamp(R, r) <= next_seq + Cardinality(R)
<1>. DEFINE D == {d \in R : d <= r}
<1>1. IsFiniteSet(R) /\ Cardinality(R) \in Nat
  BY FiniteUpTo
<1>2. D \in SUBSET R
  OBVIOUS
<1>3. IsFiniteSet(D) /\ Cardinality(D) <= Cardinality(R)
  BY <1>1, <1>2, FS_Subset
<1>4. Cardinality(D) \in Nat
  BY <1>3, FS_CardinalityType
<1>5. D # {}
  <2>1. r \in D
    OBVIOUS
  <2>. QED
    BY <2>1
<1>6. Cardinality(D) # 0
  BY <1>3, <1>5, FS_EmptySet
<1>7. Stamp(R, r) = next_seq + Cardinality(D)
  BY DEF Stamp
<1>. QED
  BY <1>1, <1>3, <1>4, <1>6, <1>7

\* What enqueue leaves has the types of TypeOK, for a table of n rows.
EntryUpTo(n) == [priority : Priority, seq : Nat \ {0}, index : 1..n, slot : Nat \ {0}]

\* What is queued keeps the queues well typed.
LEMMA EnqueueType ==
    ASSUME next_seq \in Nat, NEW n \in Nat, NEW R \in SUBSET (1..n),
           NEW qcol \in [1..n -> QueueLists], NEW pcol \in [1..n -> Priority],
           NEW scol \in [1..n -> 0..next_seq],
           queue \in [QueueName -> SUBSET EntryUpTo(n)],
           enqueue(R, qcol, pcol, scol)
    PROVE  /\ next_seq' \in Nat
           /\ seq' \in [1..n -> 0..next_seq']
           /\ queue' \in [QueueName -> SUBSET EntryUpTo(n)]
<1>1. Cardinality(R) \in Nat
  BY FiniteUpTo
<1>2. \A r \in R : Stamp(R, r) \in Nat \ {0} /\ Stamp(R, r) <= next_seq + Cardinality(R)
  BY StampRange
<1>3. next_seq' \in Nat /\ next_seq' = next_seq + Cardinality(R)
  BY <1>1 DEF enqueue
<1>4. seq' \in [1..n -> 0..next_seq']
  <2>1. seq' = [r \in 1..n |-> IF r \in R THEN Stamp(R, r) ELSE scol[r]]
    BY DEF enqueue
  <2>2. ASSUME NEW r \in 1..n PROVE seq'[r] \in 0..next_seq'
    <3>1. CASE r \in R
      BY <1>2, <1>3, <2>1, <3>1
    <3>2. CASE r \notin R
      <4>1. scol[r] \in 0..next_seq
        OBVIOUS
      <4>. QED
        BY <1>1, <1>3, <2>1, <3>2, <4>1
    <3>. QED
      BY <3>1, <3>2
  <2>. QED
    BY <2>1, <2>2
<1>5. ASSUME NEW q \in QueueName PROVE Entries(R, q, qcol, pcol) \subseteq EntryUpTo(n)
  <2>1. SUFFICES ASSUME NEW r \in R, NEW k \in DOMAIN qcol[r]
                 PROVE  [priority |-> pcol[r], seq |-> Stamp(R, r), index |-> r, slot |-> k]
                          \in EntryUpTo(n)
    BY DEF Entries
  <2>2. k \in Nat \ {0}
    BY ConstantsAssumption
  <2>. QED
    BY <1>2, <2>2 DEF EntryUpTo
<1>6. queue' = [q \in QueueName |-> queue[q] \cup Entries(R, q, qcol, pcol)]
  BY DEF enqueue
<1>. QED
  BY <1>3, <1>4, <1>5, <1>6

----------------------------------------------------------------------------
(* What add computes                                                       *)

\* Parent rows named in a list: the count is zero exactly when all finished.
LEMMA PendingCountZero ==
    ASSUME NEW pr \in Seq(Rows)
    PROVE  /\ PendingCount(pr) \in Nat
           /\ PendingCount(pr) > 0 <=> Unfinished(pr) # {}
<1>1. Unfinished(pr) \in SUBSET (DOMAIN pr)
  BY DEF Unfinished
<1>2. IsFiniteSet(Unfinished(pr)) /\ Cardinality(Unfinished(pr)) \in Nat
  BY <1>1, FinitePlaces
<1>3. Cardinality(Unfinished(pr)) = 0 <=> Unfinished(pr) = {}
  BY <1>2, FS_EmptySet
<1>. QED
  BY <1>2, <1>3 DEF PendingCount

\* A nonempty set of numbers has a least one.
LEMMA LeastIn ==
    ASSUME NEW K \in SUBSET Nat, K # {}
    PROVE  \E k \in K : \A j \in K : k <= j
<1>. DEFINE Less == OpToRel(<, Nat)
<1>1. Less = {ss \in Nat \X Nat : ss[1] < ss[2]}
  BY Zenon DEF OpToRel
<1>2. IsWellFoundedOn(Less, Nat)
  BY Zenon, NatLessThanWellFounded
<1>. HIDE DEF Less
<1>3. PICK k \in K : \A j \in K : ~(<<j, k>> \in Less)
  BY <1>2, WFMin
<1>4. ASSUME NEW j \in K PROVE k <= j
  <2>1. ~(<<j, k>> \in {ss \in Nat \X Nat : ss[1] < ss[2]})
    BY Zenon, <1>1, <1>3
  <2>2. j \in Nat /\ k \in Nat
    OBVIOUS
  <2>. QED
    BY <2>1, <2>2
<1>. QED
  BY <1>4

\* First picks a place of a nonempty set of places.
LEMMA FirstIn ==
    ASSUME NEW K \in SUBSET Nat, K # {}
    PROVE  First(K) \in K
  BY LeastIn DEF First

\* The state a new row takes, and the parent rows that decide it.
LEMMA AddedStateCases ==
    ASSUME TypeOK, NEW pr \in Seq(Rows)
    PROVE  /\ AddedState(pr) \in {"Ready", "Waiting", "Failed", "Canceled"}
           /\ AddedState(pr) = "Ready" =>
                \A k \in DOMAIN pr : state[pr[k]] = "Finished"
           /\ AddedState(pr) = "Waiting" =>
                /\ \E k \in DOMAIN pr : state[pr[k]] \in Active
                /\ \A k \in DOMAIN pr : state[pr[k]] \notin Ended
           /\ AddedState(pr) \in Ended =>
                /\ First(PlacesIn(pr, AddedState(pr))) \in DOMAIN pr
                /\ state[pr[First(PlacesIn(pr, AddedState(pr)))]] = AddedState(pr)
<1>1. PendingCount(pr) > 0 <=> Unfinished(pr) # {}
  BY PendingCountZero
<1>2. \A k \in DOMAIN pr : state[pr[k]] \in TaskState
  BY DEF TypeOK
<1>3. \A st \in Ended : PlacesIn(pr, st) \in SUBSET Nat
  BY DEF PlacesIn
<1>4. AddedState(pr) \in {"Ready", "Waiting", "Failed", "Canceled"}
  BY DEF AddedState
<1>5. ASSUME AddedState(pr) = "Ready", NEW k \in DOMAIN pr PROVE state[pr[k]] = "Finished"
  <2>1. Unfinished(pr) = {}
    BY <1>1, <1>5 DEF AddedState
  <2>. QED
    BY <2>1 DEF Unfinished
<1>6. ASSUME AddedState(pr) = "Waiting"
      PROVE  /\ \E k \in DOMAIN pr : state[pr[k]] \in Active
             /\ \A k \in DOMAIN pr : state[pr[k]] \notin Ended
  <2>1. Unfinished(pr) # {} /\ PlacesIn(pr, "Failed") = {} /\ PlacesIn(pr, "Canceled") = {}
    BY <1>1, <1>6 DEF AddedState
  <2>2. \A k \in DOMAIN pr : state[pr[k]] \notin Ended
    BY <2>1 DEF PlacesIn, Ended
  <2>3. PICK k \in DOMAIN pr : state[pr[k]] # "Finished"
    BY <2>1 DEF Unfinished
  <2>4. state[pr[k]] \in Active
    BY <1>2, <2>2, <2>3 DEF TaskState, Final
  <2>. QED
    BY <2>2, <2>4
<1>7. ASSUME AddedState(pr) \in Ended
      PROVE  First(PlacesIn(pr, AddedState(pr))) \in PlacesIn(pr, AddedState(pr))
  <2>1. PlacesIn(pr, AddedState(pr)) # {}
    BY <1>1, <1>7 DEF AddedState, Ended
  <2>. QED
    BY <1>3, <1>7, <2>1, FirstIn
<1>. QED
  BY <1>4, <1>5, <1>6, <1>7 DEF PlacesIn

----------------------------------------------------------------------------
(* Steps that leave the graph alone                                        *)

\* A step that adds no row, and that neither finishes a task nor undoes that,
\* leaves the counts and the lists of children right.
LEMMA SameFinished ==
    ASSUME GraphInv, UNCHANGED <<task_id, parents, children, task_index, pending_parents>>,
           state' \in [Rows -> TaskState],
           \A r \in Rows : state'[r] = "Finished" <=> state[r] = "Finished"
    PROVE  IndexInverse' /\ ParentsPrecede' /\ ChildrenExact' /\ PendingExact'
<1>. USE DEF GraphInv
<1>1. Rows' = Rows
  BY DEF Rows
<1>2. \A r \in Rows : \A k \in DOMAIN parents[r] : parents[r][k] \in Rows
  BY DEF TypeOK
<1>3. IndexInverse' /\ ParentsPrecede'
  BY <1>1 DEF IndexInverse, ParentsPrecede
<1>4. ChildrenExact'
  BY <1>1 DEF ChildrenExact
<1>5. PendingExact'
  <2>1. SUFFICES ASSUME NEW r \in Rows
                 PROVE  {k \in DOMAIN parents[r] : state'[parents[r][k]] # "Finished"}
                          = {k \in DOMAIN parents[r] : state[parents[r][k]] # "Finished"}
    BY <1>1 DEF PendingExact
  <2>. QED
    BY <1>2
<1>. QED
  BY <1>3, <1>4, <1>5

\* The walk of propagate_to_children misses no row it can move.
LEMMA ReachedClosed ==
    ASSUME NEW i \in Rows, NEW p \in Reached(i) \cup {i},
           NEW c \in ChildrenOf(p) \cap Movable(i)
    PROVE  c \in Reached(i)
<1>1. SUFFICES ASSUME NEW S \in SUBSET Movable(i), Closed(S, i) PROVE c \in S
  BY DEF Reached
<1>2. p \in S \cup {i}
  BY <1>1 DEF Reached
<1>. QED
  BY <1>1, <1>2 DEF Closed

\* cancel and a failed run: the row and everything the walk reaches end.
LEMMA EndPreserves ==
    ASSUME GraphInv, NEW i \in Rows, state[i] \in Active, NEW st \in Ended,
           NEW out \in Outputs, NEW worker \in WorkerId \cup {Empty},
           EndWithDependents(i, st, out, worker)
    PROVE  GraphInv'
<1>. USE DEF GraphInv
<1>. DEFINE R == Reached(i)
<1>1. UNCHANGED <<task_id, priority, queues, children, parents, task_index,
                  seq, pending_parents, next_seq, queue>>
  BY DEF EndWithDependents, columns
<1>2. Rows' = Rows
  BY <1>1 DEF Rows
<1>3. /\ state' = [r \in Rows |-> IF r = i \/ r \in R THEN st ELSE state[r]]
      /\ worker_id' = [r \in Rows |-> IF r = i THEN worker
                                      ELSE IF r \in R THEN Empty ELSE worker_id[r]]
      /\ output' = [r \in Rows |-> IF r = i THEN out
                                   ELSE IF r \in R THEN terminal_output(st, task_id[i])
                                   ELSE output[r]]
      /\ terminal_origin' = [r \in Rows |-> IF r = i \/ r \in R THEN i ELSE terminal_origin[r]]
  BY DEF EndWithDependents
<1>4. \A r \in R : r \in Rows /\ r # i /\ state[r] \in Active
  BY DEF Reached, Movable
<1>5. st \in TaskState /\ st # "Finished"
  BY DEF Ended, Final, TaskState
<1>6. state' \in [Rows -> TaskState]
  BY <1>3, <1>5 DEF TypeOK
<1>7. \A r \in Rows : state'[r] = "Finished" <=> state[r] = "Finished"
  BY <1>3, <1>4, <1>5 DEF Active
<1>8. TypeOK'
  <2>1. terminal_output(st, task_id[i]) \in Outputs
    <3>1. task_id[i] \in TaskId
      BY DEF TypeOK, Rows
    <3>. QED
      BY <3>1 DEF terminal_output, Outputs
  <2>2. output' \in [Rows -> Outputs]
    BY <1>3, <2>1 DEF TypeOK
  <2>3. worker_id' \in [Rows -> WorkerId \cup {Empty}]
    BY <1>3 DEF TypeOK
  <2>4. terminal_origin' \in [Rows -> Rows]
    BY <1>3 DEF TypeOK
  <2>5. Entry' = Entry
    BY <1>2 DEF Entry
  <2>. QED
    BY <1>1, <1>2, <1>6, <2>2, <2>3, <2>4, <2>5 DEF TypeOK
<1>9. IndexInverse' /\ ParentsPrecede' /\ ChildrenExact' /\ PendingExact'
  BY <1>1, <1>6, <1>7, SameFinished
<1>10. DispatchAfterParents'
  <2>1. SUFFICES ASSUME NEW r \in Rows, state'[r] \in {"Ready", "Running", "Finished"},
                        NEW k \in DOMAIN parents[r]
                 PROVE  state'[parents[r][k]] = "Finished"
    BY <1>1, <1>2 DEF DispatchAfterParents
  <2>2. state'[r] = state[r]
    BY <1>3, <2>1 DEF Ended
  <2>3. parents[r][k] \in Rows /\ state[parents[r][k]] = "Finished"
    BY <2>1, <2>2 DEF DispatchAfterParents, TypeOK
  <2>. QED
    BY <1>7, <2>3
<1>11. NoStrandedWaiter'
  <2>1. SUFFICES ASSUME NEW r \in Rows, state'[r] = "Waiting"
                 PROVE  /\ \E k \in DOMAIN parents[r] : state'[parents[r][k]] \in Active
                        /\ \A k \in DOMAIN parents[r] : state'[parents[r][k]] \notin Ended
    BY <1>1, <1>2 DEF NoStrandedWaiter
  <2>2. r # i /\ r \notin R /\ state[r] = "Waiting"
    BY <1>3, <2>1 DEF Ended
  <2>3. ASSUME NEW k \in DOMAIN parents[r] PROVE state'[parents[r][k]] = state[parents[r][k]]
    <3>. DEFINE p == parents[r][k]
    <3>1. p \in Rows
      BY DEF TypeOK
    <3>2. SUFFICES ASSUME p = i \/ p \in R PROVE FALSE
      BY <1>3, <3>1
    <3>3. state[p] # "Finished"
      BY <1>4, <3>2 DEF Active
    <3>4. <<r, k>> \in children[p]
      BY <3>1, <3>3 DEF ChildrenExact
    <3>5. r \in ChildrenOf(p) \cap Movable(i)
      BY <2>2, <3>4 DEF ChildrenOf, Movable, Active
    <3>. QED
      BY <2>2, <3>2, <3>5, ReachedClosed
  <2>. QED
    BY <2>2, <2>3 DEF NoStrandedWaiter
<1>. QED
  BY <1>8, <1>9, <1>10, <1>11

\* Entries are only ever dropped from a queue by task_get.
LEMMA GetClaimPreserves ==
    ASSUME GraphInv, NEW w \in WorkerId, NEW ql \in QueueLists, get_claim(w, ql)
    PROVE  GraphInv'
<1>. USE DEF GraphInv
<1>1. PICK k \in DOMAIN ql : \E e \in Usable(ql[k]) :
        /\ state' = [state EXCEPT ![e.index] = "Running"]
        /\ worker_id' = [worker_id EXCEPT ![e.index] = w]
        /\ queue' = [q \in QueueName |-> IF q = ql[k] THEN Below(q, e)
                                         ELSE IF q \in Emptied(ql, k) THEN {}
                                         ELSE queue[q]]
  BY DEF get_claim
<1>2. UNCHANGED <<task_id, priority, queues, children, parents, task_index,
                  output, seq, pending_parents, terminal_origin, next_seq>>
  BY DEF get_claim, columns
<1>3. PICK e \in Usable(ql[k]) :
        /\ state' = [state EXCEPT ![e.index] = "Running"]
        /\ worker_id' = [worker_id EXCEPT ![e.index] = w]
        /\ queue' = [q \in QueueName |-> IF q = ql[k] THEN Below(q, e)
                                         ELSE IF q \in Emptied(ql, k) THEN {}
                                         ELSE queue[q]]
  BY <1>1
<1>4. ql[k] \in QueueName
  BY ConstantsAssumption
<1>5. e.index \in Rows /\ state[e.index] = "Ready"
  BY <1>4 DEF Usable, Live, TypeOK, Entry
<1>6. Rows' = Rows /\ Entry' = Entry
  BY <1>2 DEF Rows, Entry
<1>7. state' \in [Rows -> TaskState]
  BY <1>3, <1>5 DEF TypeOK, TaskState, Active
<1>8. TypeOK'
  <2>1. worker_id' \in [Rows -> WorkerId \cup {Empty}]
    BY <1>3, <1>5 DEF TypeOK
  <2>2. queue' \in [QueueName -> SUBSET Entry]
    BY <1>3 DEF TypeOK, Below
  <2>. QED
    BY <1>2, <1>6, <1>7, <2>1, <2>2 DEF TypeOK
<1>9. IndexInverse' /\ ParentsPrecede' /\ ChildrenExact' /\ PendingExact'
  <2>1. \A r \in Rows : state'[r] = "Finished" <=> state[r] = "Finished"
    BY <1>3, <1>5 DEF TypeOK
  <2>. QED
    BY <1>2, <1>7, <2>1, SameFinished
<1>10. \A r \in Rows : state'[r] = IF r = e.index THEN "Running" ELSE state[r]
  BY <1>3, <1>5 DEF TypeOK
<1>11. \A r \in Rows : \A j \in DOMAIN parents[r] : parents[r][j] \in Rows
  BY DEF TypeOK
<1>12. DispatchAfterParents'
  BY <1>2, <1>5, <1>6, <1>10, <1>11 DEF DispatchAfterParents
<1>13. NoStrandedWaiter'
  BY <1>2, <1>5, <1>6, <1>10, <1>11 DEF NoStrandedWaiter, Active, Ended
<1>. QED
  BY <1>8, <1>9, <1>12, <1>13

\* A poll that finds nothing.
LEMMA GetNonePreserves ==
    ASSUME GraphInv, NEW ql \in QueueLists, get_none(ql)
    PROVE  GraphInv'
<1>. USE DEF GraphInv
<1>1. UNCHANGED <<task_id, priority, queues, children, parents, task_index, output,
                  state, worker_id, seq, pending_parents, terminal_origin, next_seq>>
  BY DEF get_none, columns
<1>2. Rows' = Rows /\ Entry' = Entry
  BY <1>1 DEF Rows, Entry
<1>3. queue' \in [QueueName -> SUBSET Entry]
  BY DEF get_none, TypeOK
<1>4. TypeOK'
  BY <1>1, <1>2, <1>3 DEF TypeOK
<1>5. IndexInverse' /\ ParentsPrecede' /\ ChildrenExact' /\ PendingExact'
  BY <1>1, SameFinished DEF TypeOK
<1>. QED
  BY <1>1, <1>2, <1>4, <1>5 DEF DispatchAfterParents, NoStrandedWaiter

\* task_set_priority touches the queues and no state.
LEMMA SetPriorityPreserves ==
    ASSUME GraphInv, NEW t \in TaskId, NEW p \in Priority, set_priority(t, p)
    PROVE  GraphInv'
<1>. USE DEF GraphInv
<1>. DEFINE i == task_index[t]
<1>1. UNCHANGED <<task_id, queues, children, parents, task_index, output, state,
                  worker_id, pending_parents, terminal_origin>>
  BY DEF set_priority
<1>2. i \in Rows
  BY DEF set_priority, TypeOK
<1>3. Rows' = Rows /\ Rows = 1..Len(task_id) /\ Len(task_id) \in Nat
  BY <1>1 DEF Rows, TypeOK
<1>4. priority' \in [Rows -> Priority]
  BY <1>2 DEF set_priority, TypeOK
<1>5. Requeued(i) \in SUBSET Rows
  BY <1>2 DEF Requeued
<1>6. enqueue(Requeued(i), queues, priority', seq)
  BY DEF set_priority
<1>7. Entry = EntryUpTo(Len(task_id)) /\ Entry' = Entry
  BY <1>3 DEF Entry, EntryUpTo
<1>8. /\ next_seq' \in Nat
      /\ seq' \in [Rows -> 0..next_seq']
      /\ queue' \in [QueueName -> SUBSET Entry]
  BY <1>3, <1>4, <1>5, <1>6, <1>7, EnqueueType DEF TypeOK
<1>9. TypeOK'
  BY <1>1, <1>3, <1>4, <1>7, <1>8 DEF TypeOK
<1>10. IndexInverse' /\ ParentsPrecede' /\ ChildrenExact' /\ PendingExact'
  BY <1>1, SameFinished DEF TypeOK
<1>. QED
  BY <1>1, <1>3, <1>9, <1>10 DEF DispatchAfterParents, NoStrandedWaiter

----------------------------------------------------------------------------
(* done, of a run that succeeded                                           *)

\* Taking a part Q away from a finite set P.
LEMMA TakeAway ==
    ASSUME NEW P, IsFiniteSet(P), NEW Q \in SUBSET P
    PROVE  /\ Cardinality(P) \in Nat /\ Cardinality(Q) \in Nat
           /\ Cardinality(P \ Q) = Cardinality(P) - Cardinality(Q)
           /\ Cardinality(P \ Q) \in Nat
           /\ Cardinality(P) <= Cardinality(Q) => P = Q
<1>1. IsFiniteSet(Q) /\ Cardinality(Q) <= Cardinality(P)
      /\ (Cardinality(P) = Cardinality(Q) => P = Q)
  BY FS_Subset
<1>2. P \cap Q = Q
  OBVIOUS
<1>3. IsFiniteSet(P \ Q) /\ Cardinality(P \ Q) = Cardinality(P) - Cardinality(P \cap Q)
  BY FS_Difference
<1>4. Cardinality(P) \in Nat /\ Cardinality(Q) \in Nat /\ Cardinality(P \ Q) \in Nat
  BY <1>1, <1>3, FS_CardinalityType
<1>. QED
  BY <1>1, <1>2, <1>3, <1>4

\* The loop over the children of a row that has yet to finish meets row c as
\* often as c names that row as a parent.
LEMMA CountIsPlaces ==
    ASSUME TypeOK, ChildrenExact, NEW i \in Rows, state[i] # "Finished", NEW c \in Rows
    PROVE  Count(i, c) = Cardinality({k \in DOMAIN parents[c] : parents[c][k] = i})
<1>. DEFINE A == {reg[2] : reg \in {g \in children[i] : g[1] = c}}
            B == {k \in DOMAIN parents[c] : parents[c][k] = i}
<1>1. A \subseteq B
  BY DEF ChildrenExact
<1>2. ASSUME NEW k \in B PROVE k \in A
  <2>1. <<c, k>> \in children[i]
    BY DEF ChildrenExact
  <2>. QED
    BY <2>1
<1>3. A = B
  BY <1>1, <1>2
<1>. QED
  BY <1>3 DEF Count

\* A finished run: every count drops by the places of the finished row, and a
\* Waiting row is released exactly when none of its places is left.
LEMMA DoneFinishedPreserves ==
    ASSUME GraphInv, NEW w \in WorkerId, NEW t \in TaskId, NEW out \in Output,
           done_finished(w, t, out)
    PROVE  GraphInv'
<1>. USE DEF GraphInv
<1>. DEFINE i == task_index[t]
            P(r) == {k \in DOMAIN parents[r] : state[parents[r][k]] # "Finished"}
            Q(r) == {k \in DOMAIN parents[r] : parents[r][k] = i}
<1>1. i \in Rows /\ state[i] = "Running"
  BY DEF done_finished, done_result, TypeOK
<1>2. UNCHANGED <<task_id, priority, queues, children, parents, task_index,
                  worker_id, terminal_origin>>
  BY DEF done_finished, columns
<1>3. /\ output' = [output EXCEPT ![i] = out]
      /\ pending_parents' = [c \in Rows |-> pending_parents[c] - Count(i, c)]
      /\ state' = [r \in Rows |-> IF r = i THEN "Finished"
                                  ELSE IF r \in Released(i) THEN "Ready"
                                  ELSE state[r]]
      /\ enqueue(Released(i), queues, priority, seq)
  BY DEF done_finished
<1>4. Rows' = Rows /\ Rows = 1..Len(task_id) /\ Len(task_id) \in Nat
  BY <1>2 DEF Rows, TypeOK
<1>5. \A r \in Rows : \A k \in DOMAIN parents[r] : parents[r][k] \in Rows
  BY DEF TypeOK
<1>6. ASSUME NEW c \in Released(i)
      PROVE  c \in Rows /\ state[c] = "Waiting" /\ c \in ChildrenOf(i)
             /\ pending_parents[c] \in 1..Count(i, c)
  BY <1>1 DEF Released, ChildrenOf, TypeOK
<1>7. state' \in [Rows -> TaskState]
  BY <1>3 DEF TypeOK, TaskState, Active, Final
<1>8. \A r \in Rows : state'[r] = "Finished" <=> (state[r] = "Finished" \/ r = i)
  BY <1>3, <1>6
<1>9. ASSUME NEW r \in Rows
      PROVE  /\ Q(r) \in SUBSET P(r) /\ IsFiniteSet(P(r))
             /\ pending_parents[r] = Cardinality(P(r))
             /\ Count(i, r) = Cardinality(Q(r))
             /\ {k \in DOMAIN parents[r] : state'[parents[r][k]] # "Finished"} = P(r) \ Q(r)
  <2>1. Q(r) \in SUBSET P(r)
    BY <1>1
  <2>2. IsFiniteSet(P(r))
    <3>1. parents[r] \in Seq(Rows) /\ P(r) \in SUBSET (DOMAIN parents[r])
      BY DEF TypeOK
    <3>. QED
      BY <3>1, FinitePlaces
  <2>3. pending_parents[r] = Cardinality(P(r))
    BY DEF PendingExact
  <2>4. Count(i, r) = Cardinality(Q(r))
    BY <1>1, CountIsPlaces
  <2>5. {k \in DOMAIN parents[r] : state'[parents[r][k]] # "Finished"} = P(r) \ Q(r)
    BY <1>5, <1>8
  <2>. QED
    BY <2>1, <2>2, <2>3, <2>4, <2>5
<1>. HIDE DEF P, Q
<1>10. ASSUME NEW r \in Rows
       PROVE  /\ pending_parents'[r] = Cardinality(P(r) \ Q(r))
              /\ pending_parents'[r] \in Nat
              /\ pending_parents[r] \in Nat /\ Count(i, r) \in Nat
              /\ pending_parents[r] <= Count(i, r) => P(r) = Q(r)
  <2>1. /\ Cardinality(P(r)) \in Nat /\ Cardinality(Q(r)) \in Nat
        /\ Cardinality(P(r) \ Q(r)) = Cardinality(P(r)) - Cardinality(Q(r))
        /\ Cardinality(P(r) \ Q(r)) \in Nat
        /\ Cardinality(P(r)) <= Cardinality(Q(r)) => P(r) = Q(r)
    BY <1>9, TakeAway
  <2>2. pending_parents'[r] = pending_parents[r] - Count(i, r)
    BY <1>3
  <2>3. pending_parents[r] = Cardinality(P(r)) /\ Count(i, r) = Cardinality(Q(r))
    BY <1>9
  <2>. QED
    BY <2>1, <2>2, <2>3
<1>11. TypeOK'
  <2>1. output' \in [Rows -> Outputs]
    BY <1>3 DEF TypeOK, Outputs
  <2>2. pending_parents' \in [Rows -> Nat]
    BY <1>3, <1>10
  <2>3. Released(i) \in SUBSET Rows
    BY <1>6
  <2>4. Entry = EntryUpTo(Len(task_id)) /\ Entry' = Entry
    BY <1>4 DEF Entry, EntryUpTo
  <2>5. /\ next_seq' \in Nat
        /\ seq' \in [Rows -> 0..next_seq']
        /\ queue' \in [QueueName -> SUBSET Entry]
    BY <1>3, <1>4, <2>3, <2>4, EnqueueType DEF TypeOK
  <2>. QED
    BY <1>2, <1>4, <1>7, <2>1, <2>2, <2>4, <2>5 DEF TypeOK
<1>12. IndexInverse' /\ ParentsPrecede'
  BY <1>2, <1>4 DEF IndexInverse, ParentsPrecede
<1>13. ChildrenExact'
  BY <1>2, <1>4, <1>8 DEF ChildrenExact
<1>14. PendingExact'
  BY <1>2, <1>4, <1>9, <1>10 DEF PendingExact
<1>15. DispatchAfterParents'
  <2>1. SUFFICES ASSUME NEW r \in Rows, state'[r] \in {"Ready", "Running", "Finished"},
                        NEW k \in DOMAIN parents[r]
                 PROVE  state'[parents[r][k]] = "Finished"
    BY <1>2, <1>4 DEF DispatchAfterParents
  <2>2. CASE r \in Released(i)
    <3>1. pending_parents[r] <= Count(i, r)
      BY <1>6, <1>10, <2>2
    <3>2. P(r) = Q(r)
      BY <1>10, <3>1
    <3>. QED
      BY <1>9, <3>2
  <2>3. CASE r \notin Released(i)
    <3>1. state[r] \in {"Ready", "Running", "Finished"}
      BY <1>1, <1>3, <2>1, <2>3
    <3>2. state[parents[r][k]] = "Finished" /\ parents[r][k] \in Rows
      BY <1>5, <3>1 DEF DispatchAfterParents
    <3>. QED
      BY <1>8, <3>2
  <2>. QED
    BY <2>2, <2>3
<1>16. NoStrandedWaiter'
  <2>1. SUFFICES ASSUME NEW r \in Rows, state'[r] = "Waiting"
                 PROVE  /\ \E k \in DOMAIN parents[r] : state'[parents[r][k]] \in Active
                        /\ \A k \in DOMAIN parents[r] : state'[parents[r][k]] \notin Ended
    BY <1>2, <1>4 DEF NoStrandedWaiter
  <2>2. r # i /\ r \notin Released(i) /\ state[r] = "Waiting"
    BY <1>3, <2>1
  <2>3. ASSUME NEW k \in DOMAIN parents[r] PROVE state'[parents[r][k]] \notin Ended
    <3>1. parents[r][k] \in Rows /\ state[parents[r][k]] \notin Ended
      BY <1>5, <2>2 DEF NoStrandedWaiter
    <3>. QED
      BY <1>3, <3>1 DEF Ended
  <2>4. PICK k \in DOMAIN parents[r] : state'[parents[r][k]] # "Finished"
    <3>1. SUFFICES ASSUME P(r) \ Q(r) = {} PROVE FALSE
      BY <1>9
    <3>2. P(r) = Q(r)
      BY <1>9, <3>1
    <3>3. PICK k \in DOMAIN parents[r] : state[parents[r][k]] \in Active
      BY <2>2 DEF NoStrandedWaiter
    <3>4. k \in P(r)
      BY <3>3 DEF P, Active
    <3>5. pending_parents[r] # 0 /\ pending_parents[r] = Count(i, r)
      BY <1>9, <3>2, <3>4, FS_EmptySet
    <3>6. pending_parents[r] \in 1..Count(i, r)
      <4>1. pending_parents[r] \in Nat
        BY <1>10
      <4>. QED
        BY <3>5, <4>1
    <3>7. <<r, k>> \in children[i]
      BY <1>1, <3>2, <3>4 DEF Q, ChildrenExact
    <3>8. r \in ChildrenOf(i)
      BY <3>7 DEF ChildrenOf
    <3>. QED
      BY <2>2, <3>6, <3>8 DEF Released
  <2>5. state'[parents[r][k]] \in TaskState
    BY <1>5, <1>7
  <2>6. state'[parents[r][k]] \in Active
    BY <2>3, <2>4, <2>5 DEF TaskState, Final
  <2>. QED
    BY <2>3, <2>6
<1>. QED
  BY <1>11, <1>12, <1>13, <1>14, <1>15, <1>16

----------------------------------------------------------------------------
(* add                                                                     *)

\* A list over a set is a list over any larger set.
LEMMA LargerSeq ==
    ASSUME NEW S, NEW T, S \subseteq T, NEW s \in Seq(S)
    PROVE  s \in Seq(T)
  OBVIOUS

\* A new row: its count, its state and its registrations with its parents
\* all come from the same look at the states of those parents.
LEMMA AddPreserves ==
    ASSUME GraphInv, NEW t \in TaskId, NEW pl \in ParentLists, NEW ql \in QueueLists,
           NEW p \in Priority, add(t, pl, ql, p)
    PROVE  GraphInv'
<1>. USE DEF GraphInv
<1>. DEFINE n == Len(task_id)
            index == n + 1
            pr == [k \in DOMAIN pl |-> task_index[pl[k]]]
            st == AddedState(pr)
            origin == AddedOrigin(pr, index)
            out == IF st \in Ended THEN terminal_output(st, task_id[origin]) ELSE Empty
<1>1. /\ task_index[t] = NoRow
      /\ \A k \in DOMAIN pl : task_index[pl[k]] # NoRow
  BY DEF add, add_result
<1>2. /\ task_index' = [task_index EXCEPT ![t] = index]
      /\ task_id' = Append(task_id, t)
      /\ output' = push_back(output, out)
      /\ state' = push_back(state, st)
      /\ worker_id' = push_back(worker_id, Empty)
      /\ priority' = push_back(priority, p)
      /\ queues' = push_back(queues, ql)
      /\ pending_parents' = push_back(pending_parents, PendingCount(pr))
      /\ terminal_origin' = push_back(terminal_origin, origin)
      /\ parents' = push_back(parents, pr)
      /\ children' = [r \in 1..index |->
                        IF r = index THEN {}
                        ELSE children[r] \cup {<<index, k>> : k \in Registrations(pr, r)}]
      /\ enqueue(IF st = "Ready" THEN {index} ELSE {}, queues', priority', push_back(seq, 0))
  BY DEF add
<1>3. n \in Nat /\ Rows = 1..n /\ index \in Nat /\ index \notin Rows
  BY DEF TypeOK, Rows
<1>4. /\ task_id' \in Seq(TaskId) /\ Len(task_id') = index /\ Rows' = 1..index
      /\ task_id'[index] = t /\ \A r \in Rows : task_id'[r] = task_id[r]
  BY <1>2, <1>3 DEF TypeOK, Rows
<1>5. pr \in Seq(Rows) /\ DOMAIN pr = DOMAIN pl
  <2>1. pl \in Seq(TaskId)
    BY ConstantsAssumption
  <2>2. \A k \in DOMAIN pl : task_index[pl[k]] \in Rows
    BY <1>1, <2>1 DEF TypeOK
  <2>. QED
    BY <2>1, <2>2
<1>. HIDE DEF pr
<1>6. PendingCount(pr) \in Nat
  BY <1>5, PendingCountZero
<1>7. /\ st \in {"Ready", "Waiting", "Failed", "Canceled"}
      /\ st = "Ready" => \A k \in DOMAIN pr : state[pr[k]] = "Finished"
      /\ st = "Waiting" => /\ \E k \in DOMAIN pr : state[pr[k]] \in Active
                           /\ \A k \in DOMAIN pr : state[pr[k]] \notin Ended
      /\ st \in Ended => First(PlacesIn(pr, st)) \in DOMAIN pr
  BY <1>5, AddedStateCases
<1>. HIDE DEF st
<1>8. origin \in 1..index /\ (st \in Ended => origin \in Rows)
  <2>1. ASSUME st \in Ended PROVE origin \in Rows
    BY <1>5, <1>7, <2>1 DEF AddedOrigin, TypeOK, st
  <2>2. ASSUME st \notin Ended PROVE origin = index
    BY <2>2 DEF AddedOrigin, st
  <2>. QED
    BY <1>3, <2>1, <2>2
<1>. HIDE DEF origin
<1>9. out \in Outputs
  BY <1>3, <1>8 DEF terminal_output, Outputs, TypeOK
<1>. HIDE DEF out
<1>10. /\ state' \in [1..index -> TaskState] /\ state'[index] = st
       /\ \A r \in Rows : state'[r] = state[r]
  <2>1. st \in TaskState
    BY <1>7 DEF TaskState, Active, Final, Ended
  <2>. QED
    BY <1>2, <1>3, <2>1 DEF TypeOK, push_back
<1>11. /\ parents' \in [1..index -> Seq(1..index)] /\ parents'[index] = pr
       /\ \A r \in Rows : parents'[r] = parents[r]
  <2>1. pr \in Seq(1..index)
    BY <1>3, <1>5, LargerSeq
  <2>2. parents \in [1..n -> Seq(1..index)]
    <3>1. ASSUME NEW r \in 1..n PROVE parents[r] \in Seq(1..index)
      <4>1. parents[r] \in Seq(Rows) /\ Rows \subseteq 1..index
        BY <1>3 DEF TypeOK
      <4>. QED
        BY <4>1, LargerSeq
    <3>. QED
      BY <1>3, <3>1 DEF TypeOK
  <2>. QED
    BY <1>2, <1>3, <2>1, <2>2 DEF push_back
<1>12. /\ pending_parents' \in [1..index -> Nat]
       /\ pending_parents'[index] = PendingCount(pr)
       /\ \A r \in Rows : pending_parents'[r] = pending_parents[r]
  BY <1>2, <1>3, <1>6 DEF TypeOK, push_back
<1>13. /\ DOMAIN children' = 1..index /\ children'[index] = {}
       /\ \A r \in Rows : children'[r] = children[r] \cup {<<index, k>> : k \in Registrations(pr, r)}
  BY <1>2, <1>3
<1>14. \A r \in Rows : \A k \in DOMAIN parents[r] : parents[r][k] \in Rows
  BY DEF TypeOK
<1>15. \A k \in DOMAIN pr : pr[k] \in Rows
  BY <1>5
<1>16. \A r \in Rows' : r \in Rows \/ r = index
  BY <1>3, <1>4
<1>17. TypeOK'
  <2>1. output' \in [1..index -> Outputs]
    BY <1>2, <1>3, <1>9 DEF TypeOK, push_back
  <2>2. worker_id' \in [1..index -> WorkerId \cup {Empty}]
    BY <1>2, <1>3 DEF TypeOK, push_back
  <2>3. priority' \in [1..index -> Priority]
    BY <1>2, <1>3 DEF TypeOK, push_back
  <2>4. queues' \in [1..index -> QueueLists]
    BY <1>2, <1>3 DEF TypeOK, push_back
  <2>5. terminal_origin' \in [1..index -> 1..index]
    BY <1>2, <1>3, <1>8 DEF TypeOK, push_back
  <2>6. task_index' \in [TaskId -> 1..index \cup {NoRow}]
    BY <1>2, <1>3 DEF TypeOK
  <2>7. children' \in [1..index -> SUBSET ((1..index) \X Nat)]
    <3>1. ASSUME NEW r \in 1..index PROVE children'[r] \in SUBSET ((1..index) \X Nat)
      <4>1. Registrations(pr, r) \subseteq Nat
        BY <1>5 DEF Registrations, Unfinished
      <4>2. CASE r = index
        BY <1>13, <4>2
      <4>3. CASE r \in Rows
        BY <1>3, <1>13, <4>1, <4>3 DEF TypeOK
      <4>. QED
        BY <1>4, <1>16, <4>2, <4>3
    <3>. QED
      BY <1>2, <3>1
  <2>8. /\ next_seq' \in Nat
        /\ seq' \in [1..index -> 0..next_seq']
        /\ queue' \in [QueueName -> SUBSET EntryUpTo(index)]
    <3>1. push_back(seq, 0) \in [1..index -> 0..next_seq]
      BY <1>3 DEF TypeOK, push_back
    <3>2. queue \in [QueueName -> SUBSET EntryUpTo(index)]
      BY <1>3 DEF TypeOK, Entry, EntryUpTo
    <3>3. (IF st = "Ready" THEN {index} ELSE {}) \in SUBSET (1..index)
      BY <1>3
    <3>4. next_seq \in Nat
      BY DEF TypeOK
    <3>. QED
      BY <1>2, <1>3, <2>3, <2>4, <3>1, <3>2, <3>3, <3>4, EnqueueType
  <2>9. Entry' = EntryUpTo(index)
    BY <1>4 DEF Entry, EntryUpTo
  <2>. QED
    BY <1>4, <1>10, <1>11, <1>12, <2>1, <2>2, <2>3, <2>4, <2>5, <2>6, <2>7, <2>8, <2>9
       DEF TypeOK
<1>18. IndexInverse'
  <2>1. ASSUME NEW u \in TaskId, task_index'[u] # NoRow PROVE task_id'[task_index'[u]] = u
    <3>1. CASE u = t
      BY <1>2, <1>4, <3>1 DEF TypeOK
    <3>2. CASE u # t
      <4>1. task_index'[u] = task_index[u] /\ task_index[u] \in Rows
        BY <1>2, <2>1, <3>2 DEF TypeOK
      <4>. QED
        BY <1>4, <2>1, <4>1 DEF IndexInverse
    <3>. QED
      BY <3>1, <3>2
  <2>2. ASSUME NEW r \in Rows' PROVE task_index'[task_id'[r]] = r
    <3>1. CASE r = index
      BY <1>2, <1>4, <3>1 DEF TypeOK
    <3>2. CASE r \in Rows
      <4>1. task_id'[r] = task_id[r] /\ task_index[task_id[r]] = r
        BY <1>4, <3>2 DEF IndexInverse
      <4>2. task_id[r] # t /\ task_id[r] \in TaskId
        BY <1>1, <1>3, <3>2, <4>1 DEF NoRow, TypeOK
      <4>. QED
        BY <1>2, <4>1, <4>2 DEF TypeOK
    <3>. QED
      BY <1>16, <3>1, <3>2
  <2>. QED
    BY <2>1, <2>2 DEF IndexInverse
<1>19. ParentsPrecede'
  <2>1. \A k \in DOMAIN pr : pr[k] < index
    BY <1>3, <1>15
  <2>. QED
    BY <1>11, <1>16, <2>1 DEF ParentsPrecede
<1>20. ChildrenExact'
  <2>1. SUFFICES ASSUME NEW q \in Rows'
                 PROVE  /\ \A reg \in children'[q] : /\ reg[2] \in DOMAIN parents'[reg[1]]
                                                     /\ parents'[reg[1]][reg[2]] = q
                        /\ state'[q] # "Finished" =>
                             \A c \in Rows' : \A k \in DOMAIN parents'[c] :
                                parents'[c][k] = q => <<c, k>> \in children'[q]
    BY DEF ChildrenExact
  <2>2. CASE q = index
    <3>1. \A c \in Rows' : \A k \in DOMAIN parents'[c] : parents'[c][k] \in Rows
      BY <1>11, <1>14, <1>15, <1>16
    <3>. QED
      BY <1>3, <1>13, <2>2, <3>1
  <2>3. CASE q \in Rows
    <3>1. ASSUME NEW reg \in children'[q]
          PROVE  reg[2] \in DOMAIN parents'[reg[1]] /\ parents'[reg[1]][reg[2]] = q
      <4>1. CASE reg \in children[q]
        <5>1. reg[1] \in Rows
          BY <2>3, <4>1 DEF TypeOK
        <5>. QED
          BY <1>11, <2>3, <4>1, <5>1 DEF ChildrenExact
      <4>2. CASE reg \in {<<index, k>> : k \in Registrations(pr, q)}
        BY <1>11, <4>2 DEF Registrations, Unfinished
      <4>. QED
        BY <1>13, <2>3, <3>1, <4>1, <4>2
    <3>2. ASSUME state'[q] # "Finished", NEW c \in Rows', NEW k \in DOMAIN parents'[c],
                 parents'[c][k] = q
          PROVE  <<c, k>> \in children'[q]
      <4>1. CASE c = index
        <5>1. k \in Registrations(pr, q)
          BY <1>10, <1>11, <2>3, <3>2, <4>1 DEF Registrations, Unfinished
        <5>. QED
          BY <1>13, <2>3, <4>1, <5>1
      <4>2. CASE c \in Rows
        <5>1. <<c, k>> \in children[q]
          BY <1>10, <1>11, <2>3, <3>2, <4>2 DEF ChildrenExact
        <5>. QED
          BY <1>13, <2>3, <5>1
      <4>. QED
        BY <1>16, <4>1, <4>2
    <3>. QED
      BY <3>1, <3>2
  <2>. QED
    BY <1>16, <2>2, <2>3
<1>21. PendingExact'
  <2>1. SUFFICES ASSUME NEW r \in Rows'
                 PROVE  pending_parents'[r] =
                   Cardinality({k \in DOMAIN parents'[r] : state'[parents'[r][k]] # "Finished"})
    BY DEF PendingExact
  <2>2. CASE r = index
    <3>1. {k \in DOMAIN parents'[r] : state'[parents'[r][k]] # "Finished"} = Unfinished(pr)
      BY <1>10, <1>11, <1>15, <2>2 DEF Unfinished
    <3>. QED
      BY <1>12, <2>2, <3>1 DEF PendingCount
  <2>3. CASE r \in Rows
    <3>1. {k \in DOMAIN parents'[r] : state'[parents'[r][k]] # "Finished"}
            = {k \in DOMAIN parents[r] : state[parents[r][k]] # "Finished"}
      BY <1>10, <1>11, <1>14, <2>3
    <3>. QED
      BY <1>12, <2>3, <3>1 DEF PendingExact
  <2>. QED
    BY <1>16, <2>2, <2>3
<1>22. DispatchAfterParents'
  <2>1. \A r \in Rows' : \A k \in DOMAIN parents'[r] :
           state'[r] \in {"Ready", "Running", "Finished"} => state'[parents'[r][k]] = "Finished"
    BY <1>7, <1>10, <1>11, <1>14, <1>15, <1>16 DEF DispatchAfterParents
  <2>. QED
    BY <2>1 DEF DispatchAfterParents
<1>23. NoStrandedWaiter'
  <2>1. SUFFICES ASSUME NEW r \in Rows', state'[r] = "Waiting"
                 PROVE  /\ \E k \in DOMAIN parents'[r] : state'[parents'[r][k]] \in Active
                        /\ \A k \in DOMAIN parents'[r] : state'[parents'[r][k]] \notin Ended
    BY DEF NoStrandedWaiter, Active, Ended
  <2>2. CASE r = index
    BY <1>7, <1>10, <1>11, <1>15, <2>1, <2>2
  <2>3. CASE r \in Rows
    BY <1>10, <1>11, <1>14, <2>1, <2>3 DEF NoStrandedWaiter
  <2>. QED
    BY <1>16, <2>2, <2>3
<1>. QED
  BY <1>17, <1>18, <1>19, <1>20, <1>21, <1>22, <1>23

----------------------------------------------------------------------------
(* The theorems                                                            *)

\* The empty table.
LEMMA InitEstablishes == Init => GraphInv
<1>. SUFFICES ASSUME Init PROVE GraphInv
  OBVIOUS
<1>1. Rows = {}
  BY DEF Init, Rows
<1>2. TypeOK
  BY <1>1 DEF Init, TypeOK
<1>. QED
  BY <1>1, <1>2 DEF Init, GraphInv, IndexInverse, ParentsPrecede, ChildrenExact,
                    PendingExact, DispatchAfterParents, NoStrandedWaiter

\* One step per operation; the refused ones change nothing.
LEMMA NextPreserves == GraphInv /\ [Next]_vars => GraphInv'
<1>. SUFFICES ASSUME GraphInv, [Next]_vars PROVE GraphInv'
  OBVIOUS
<1>1. CASE UNCHANGED vars
  <2>1. /\ UNCHANGED <<task_id, priority, queues, children, parents, task_index>>
        /\ UNCHANGED <<output, state, worker_id, seq, pending_parents, terminal_origin>>
        /\ UNCHANGED <<next_seq, queue>>
        /\ Rows' = Rows
    BY <1>1 DEF vars, columns, Rows
  <2>2. TypeOK'
    BY <2>1 DEF GraphInv, TypeOK, Entry
  <2>3. IndexInverse' /\ ParentsPrecede' /\ ChildrenExact'
    BY <2>1 DEF GraphInv, IndexInverse, ParentsPrecede, ChildrenExact
  <2>4. PendingExact' /\ DispatchAfterParents' /\ NoStrandedWaiter'
    BY <2>1 DEF GraphInv, PendingExact, DispatchAfterParents, NoStrandedWaiter
  <2>. QED
    BY <2>2, <2>3, <2>4 DEF GraphInv
<1>2. ASSUME NEW t \in TaskId, NEW pl \in ParentLists, NEW ql \in QueueLists,
             NEW p \in Priority, add(t, pl, ql, p)
      PROVE  GraphInv'
  BY <1>2, AddPreserves
<1>3. ASSUME NEW t \in TaskId, cancel(t) PROVE GraphInv'
  <2>1. task_index[t] \in Rows /\ state[task_index[t]] \in Active
    BY <1>3 DEF cancel, cancel_result, GraphInv, TypeOK
  <2>2. terminal_output("Canceled", t) \in Outputs
    BY DEF terminal_output, Outputs
  <2>3. EndWithDependents(task_index[t], "Canceled", terminal_output("Canceled", t), Empty)
    BY <1>3 DEF cancel
  <2>. QED
    BY <2>1, <2>2, <2>3, EndPreserves DEF Ended
<1>4. ASSUME NEW t \in TaskId, NEW p \in Priority, set_priority(t, p) PROVE GraphInv'
  BY <1>4, SetPriorityPreserves
<1>5. ASSUME NEW w \in WorkerId, NEW ql \in QueueLists, get_claim(w, ql) PROVE GraphInv'
  BY <1>5, GetClaimPreserves
<1>6. ASSUME NEW ql \in QueueLists, get_none(ql) PROVE GraphInv'
  BY <1>6, GetNonePreserves
<1>7. ASSUME NEW w \in WorkerId, NEW t \in TaskId, NEW out \in Output, done_finished(w, t, out)
      PROVE  GraphInv'
  BY <1>7, DoneFinishedPreserves
<1>8. ASSUME NEW w \in WorkerId, NEW t \in TaskId, NEW out \in Output, done_failed(w, t, out)
      PROVE  GraphInv'
  <2>. DEFINE i == task_index[t]
  <2>1. i \in Rows /\ state[i] \in Active
    BY <1>8 DEF done_failed, done_result, GraphInv, TypeOK, Active
  <2>2. out \in Outputs /\ worker_id[i] \in WorkerId \cup {Empty}
    BY <2>1 DEF Outputs, GraphInv, TypeOK
  <2>3. EndWithDependents(i, "Failed", out, worker_id[i])
    BY <1>8 DEF done_failed
  <2>. QED
    BY <2>1, <2>2, <2>3, EndPreserves DEF Ended
<1>. QED
  BY <1>1, <1>2, <1>3, <1>4, <1>5, <1>6, <1>7, <1>8
     DEF Next, add_refused, cancel_refused, set_priority_refused, done_refused

\* The inductive invariant holds in every state of every behaviour.
THEOREM GraphAlwaysConsistent == Spec => []GraphInv
<1>1. Init => GraphInv
  BY InitEstablishes
<1>2. GraphInv /\ [Next]_vars => GraphInv'
  BY NextPreserves
<1>. QED
  BY <1>1, <1>2, PTL DEF Spec

\* Every column keeps its type; in particular pending_parents, from which
\* task_done subtracts without a test, never goes below zero
\* (task-manager.cpp 434), and every queue entry names a row of the table.
THEOREM TypeCorrect == Spec => []TypeOK
<1>1. GraphInv => TypeOK
  BY DEF GraphInv
<1>. QED
  BY <1>1, GraphAlwaysConsistent, PTL

\* The count of unfinished parents is exact in every reachable table
\* (task-manager.cpp 167-173, 433-439).
THEOREM CountsNeverDrift == Spec => []PendingExact
<1>1. GraphInv => PendingExact
  BY DEF GraphInv
<1>. QED
  BY <1>1, GraphAlwaysConsistent, PTL

\* No task is offered, run or finished before the tasks it depends on
\* (task-manager.cpp 147, 435).
THEOREM ParentsFirst == Spec => []DispatchAfterParents
<1>1. GraphInv => DispatchAfterParents
  BY DEF GraphInv
<1>. QED
  BY <1>1, GraphAlwaysConsistent, PTL

\* No task waits on one that failed or was canceled, however deep the graph
\* and wherever two paths through it meet (task-manager.cpp 53-80, 137-149).
THEOREM NobodyStranded == Spec => []NoStrandedWaiter
<1>1. GraphInv => NoStrandedWaiter
  BY DEF GraphInv
<1>. QED
  BY <1>1, GraphAlwaysConsistent, PTL

\* The index, the parent lists and the children lists agree in every reachable
\* table (task-manager.cpp 94-104, 151, 167-173).
THEOREM GraphNeverBroken == Spec => []GraphConsistent
<1>1. GraphInv => GraphConsistent
  BY DEF GraphInv, GraphConsistent
<1>. QED
  BY <1>1, GraphAlwaysConsistent, PTL

----------------------------------------------------------------------------
(* The steps, as far as the ends of tasks go                               *)

\* What a step may do to a row, whatever else it does: FinalStaysFinal says it
\* of every step.
RowKept(r) ==
    /\ state[r] \in Final =>
         <<state'[r], output'[r], terminal_origin'[r]>>
           = <<state[r], output[r], terminal_origin[r]>>
    /\ state[r] = "Running" =>
         \/ state'[r] \in Final
         \/ state'[r] = "Running" /\ worker_id'[r] = worker_id[r]

\* The walk down the graph moves rows that are not final, and ends them.
LEMMA EndKeepsRows ==
    ASSUME GraphInv, NEW i \in Rows, state[i] \in Active, NEW st \in Ended, NEW out, NEW worker,
           EndWithDependents(i, st, out, worker)
    PROVE  \A r \in Rows : RowKept(r)
<1>1. \A r \in Reached(i) : state[r] \in Active
  BY DEF Reached, Movable
<1>. QED
  BY <1>1 DEF EndWithDependents, RowKept, Active, Final, Ended

\* A claim takes a Ready row.
LEMMA ClaimTakesReady ==
    ASSUME GraphInv, NEW w \in WorkerId, NEW ql \in QueueLists, get_claim(w, ql)
    PROVE  /\ \E i \in Rows : /\ state[i] = "Ready"
                              /\ state' = [state EXCEPT ![i] = "Running"]
                              /\ worker_id' = [worker_id EXCEPT ![i] = w]
           /\ UNCHANGED <<columns, output, terminal_origin>>
<1>1. PICK k \in DOMAIN ql : \E e \in Usable(ql[k]) :
        /\ state' = [state EXCEPT ![e.index] = "Running"]
        /\ worker_id' = [worker_id EXCEPT ![e.index] = w]
  BY DEF get_claim
<1>2. ql[k] \in QueueName
  BY ConstantsAssumption
<1>3. \A e \in Usable(ql[k]) : e.index \in Rows /\ state[e.index] = "Ready"
  BY <1>2 DEF Usable, Live, GraphInv, TypeOK, Entry
<1>. QED
  BY <1>1, <1>3 DEF get_claim

\* No step changes a final row, or takes a Running one from its worker.
LEMMA StepKeepsRows ==
    ASSUME GraphInv, Next, NEW r \in Rows
    PROVE  RowKept(r) \/ UNCHANGED vars
<1>. USE DEF GraphInv
<1>1. ASSUME NEW t \in TaskId, NEW pl \in ParentLists, NEW ql \in QueueLists, NEW p \in Priority,
             add(t, pl, ql, p)
      PROVE  RowKept(r)
  <2>1. r \in 1..(Len(task_id) + 1) /\ r # Len(task_id) + 1
    BY DEF Rows, TypeOK
  <2>2. state'[r] = state[r] /\ output'[r] = output[r] /\ worker_id'[r] = worker_id[r]
        /\ terminal_origin'[r] = terminal_origin[r]
    BY <1>1, <2>1 DEF add, push_back
  <2>. QED
    BY <2>2 DEF RowKept
<1>2. ASSUME NEW t \in TaskId, cancel(t) PROVE RowKept(r)
  <2>1. task_index[t] \in Rows /\ state[task_index[t]] \in Active
    BY <1>2 DEF cancel, cancel_result, TypeOK
  <2>. QED
    BY <1>2, <2>1, EndKeepsRows DEF cancel, Ended
<1>3. ASSUME NEW t \in TaskId, NEW p \in Priority, set_priority(t, p) PROVE RowKept(r)
  BY <1>3 DEF set_priority, RowKept
<1>4. ASSUME NEW w \in WorkerId, NEW ql \in QueueLists, get_claim(w, ql) PROVE RowKept(r)
  <2>1. PICK i \in Rows : /\ state[i] = "Ready"
                          /\ state' = [state EXCEPT ![i] = "Running"]
                          /\ worker_id' = [worker_id EXCEPT ![i] = w]
                          /\ UNCHANGED <<columns, output, terminal_origin>>
    BY <1>4, ClaimTakesReady
  <2>. QED
    BY <2>1 DEF RowKept, Final, Ended, TypeOK
<1>5. ASSUME NEW ql \in QueueLists, get_none(ql) PROVE RowKept(r)
  BY <1>5 DEF get_none, RowKept
<1>6. ASSUME NEW w \in WorkerId, NEW t \in TaskId, NEW out \in Output, done_finished(w, t, out)
      PROVE  RowKept(r)
  <2>1. task_index[t] \in Rows /\ state[task_index[t]] = "Running"
    BY <1>6 DEF done_finished, done_result, TypeOK
  <2>2. \A c \in Released(task_index[t]) : state[c] = "Waiting"
    BY DEF Released
  <2>. QED
    BY <1>6, <2>1, <2>2 DEF done_finished, RowKept, Final, Ended, TypeOK
<1>7. ASSUME NEW w \in WorkerId, NEW t \in TaskId, NEW out \in Output, done_failed(w, t, out)
      PROVE  RowKept(r)
  <2>1. task_index[t] \in Rows /\ state[task_index[t]] = "Running"
    BY <1>7 DEF done_failed, done_result, TypeOK
  <2>. QED
    BY <1>7, <2>1, EndKeepsRows DEF done_failed, Active, Ended
<1>. QED
  BY <1>1, <1>2, <1>3, <1>4, <1>5, <1>6, <1>7
     DEF Next, add_refused, cancel_refused, set_priority_refused, done_refused

\* Late reports, later cancels and endings passed down from another parent
\* leave a final task alone, and nothing but its end takes a Running task from
\* its worker (task-manager.cpp 66-69, 260-263, 403-414).
THEOREM NeverUndone == Spec => FinalStaysFinal
<1>1. GraphInv /\ [Next]_vars => [\A r \in Rows : RowKept(r)]_vars
  BY StepKeepsRows
<1>. QED
  BY <1>1, GraphAlwaysConsistent, PTL DEF Spec, FinalStaysFinal, RowKept

----------------------------------------------------------------------------
(* The origin of an ending                                                 *)

\* What OriginNamesCulprit says of one row.
OriginOf(r) ==
    state[r] \in Ended =>
        LET o == terminal_origin[r] IN
        /\ state[o] = state[r] /\ terminal_origin[o] = o
        /\ r # o => /\ output[r] = terminal_output(state[r], task_id[o])
                    /\ \E k \in DOMAIN parents[r] :
                         LET p == parents[r][k] IN
                         state[p] = state[r] /\ terminal_origin[p] = o

\* The walk arrives at a row from another row it moved, or from where it began:
\* the rows it can arrive at so are closed, and it moves no more than the
\* smallest closed set.
LEMMA ReachedFrom ==
    ASSUME NEW i \in Rows, NEW r \in Reached(i)
    PROVE  \E p \in Reached(i) \cup {i} : r \in ChildrenOf(p)
<1>. DEFINE S == {s \in Reached(i) : \E p \in Reached(i) \cup {i} : s \in ChildrenOf(p)}
<1>1. S \in SUBSET Movable(i)
  BY DEF Reached
<1>2. Closed(S, i)
  <2>1. ASSUME NEW q \in S \cup {i}, NEW c \in ChildrenOf(q) \cap Movable(i) PROVE c \in S
    <3>1. q \in Reached(i) \cup {i}
      OBVIOUS
    <3>2. c \in Reached(i)
      BY <3>1, ReachedClosed
    <3>. QED
      BY <3>1, <3>2
  <2>. QED
    BY <2>1 DEF Closed
<1>3. r \in S
  BY <1>1, <1>2 DEF Reached
<1>. QED
  BY <1>3

\* The origin of a row that stays as it is stays right if the rows it is traced
\* to are left alone, as final rows are.
LEMMA OriginKept ==
    ASSUME GraphInv, NEW r \in Rows, OriginOf(r), state'[r] = state[r],
           \A s \in Rows : state[s] \in Ended =>
             /\ state'[s] = state[s] /\ terminal_origin'[s] = terminal_origin[s]
             /\ output'[s] = output[s],
           parents'[r] = parents[r],
           \A s \in Rows : task_id'[s] = task_id[s]
    PROVE  OriginOf(r)'
<1>1. SUFFICES ASSUME state[r] \in Ended PROVE OriginOf(r)'
  BY DEF OriginOf
<1>. DEFINE o == terminal_origin[r]
<1>2. o \in Rows /\ \A k \in DOMAIN parents[r] : parents[r][k] \in Rows
  BY DEF GraphInv, TypeOK
<1>3. /\ state[o] = state[r] /\ terminal_origin[o] = o
      /\ r # o => /\ output[r] = terminal_output(state[r], task_id[o])
                  /\ \E k \in DOMAIN parents[r] :
                       state[parents[r][k]] = state[r] /\ terminal_origin[parents[r][k]] = o
  BY <1>1 DEF OriginOf
<1>4. /\ terminal_origin'[r] = o /\ output'[r] = output[r]
      /\ state'[o] = state'[r] /\ terminal_origin'[o] = o
  BY <1>1, <1>2, <1>3
<1>5. ASSUME r # o
      PROVE  /\ output'[r] = terminal_output(state'[r], task_id'[o])
             /\ \E k \in DOMAIN parents'[r] :
                  state'[parents'[r][k]] = state'[r] /\ terminal_origin'[parents'[r][k]] = o
  <2>1. PICK k \in DOMAIN parents[r] :
          state[parents[r][k]] = state[r] /\ terminal_origin[parents[r][k]] = o
    BY <1>3, <1>5
  <2>2. /\ state'[parents'[r][k]] = state'[r] /\ terminal_origin'[parents'[r][k]] = o
        /\ k \in DOMAIN parents'[r]
    BY <1>1, <1>2, <2>1
  <2>. QED
    BY <1>2, <1>3, <1>4, <1>5, <2>2
<1>. QED
  BY <1>4, <1>5 DEF OriginOf, terminal_output, DependencyFailed, CanceledOutput

\* An ending: the row itself, and every row the walk moved, which has a parent
\* among the rows that end in this step.
LEMMA EndNamesOrigin ==
    ASSUME GraphInv, OriginNamesCulprit, NEW i \in Rows, state[i] \in Active, NEW st \in Ended,
           NEW out, NEW worker, EndWithDependents(i, st, out, worker)
    PROVE  OriginNamesCulprit'
<1>. DEFINE R == Reached(i)
<1>1. /\ state' = [r \in Rows |-> IF r = i \/ r \in R THEN st ELSE state[r]]
      /\ output' = [r \in Rows |-> IF r = i THEN out
                                   ELSE IF r \in R THEN terminal_output(st, task_id[i])
                                   ELSE output[r]]
      /\ terminal_origin' = [r \in Rows |-> IF r = i \/ r \in R THEN i ELSE terminal_origin[r]]
      /\ UNCHANGED <<task_id, parents>>
  BY DEF EndWithDependents, columns
<1>2. Rows' = Rows
  BY <1>1 DEF Rows
<1>3. \A r \in R : r \in Rows /\ r # i /\ state[r] \in Active
  BY DEF Reached, Movable
<1>4. ASSUME NEW r \in Rows PROVE OriginOf(r)'
  <2>1. CASE r = i
    BY <1>1, <2>1 DEF OriginOf
  <2>2. CASE r \in R
    <3>1. PICK p \in R \cup {i} : r \in ChildrenOf(p)
      BY <2>2, ReachedFrom
    <3>2. PICK reg \in children[p] : reg[1] = r
      BY <3>1 DEF ChildrenOf
    <3>. DEFINE k == reg[2]
    <3>3. k \in DOMAIN parents[r] /\ parents[r][k] = p /\ p \in Rows
      BY <1>3, <3>1, <3>2 DEF GraphInv, ChildrenExact
    <3>4. /\ state'[r] = st /\ terminal_origin'[r] = i
          /\ state'[i] = st /\ terminal_origin'[i] = i
          /\ state'[p] = st /\ terminal_origin'[p] = i
          /\ output'[r] = terminal_output(st, task_id[i])
      BY <1>1, <1>3, <2>2, <3>1, <3>3
    <3>. QED
      BY <1>1, <3>3, <3>4 DEF OriginOf, terminal_output, DependencyFailed, CanceledOutput
  <2>3. CASE r # i /\ r \notin R
    <3>1. \A s \in Rows : state[s] \in Ended =>
             /\ state'[s] = state[s] /\ terminal_origin'[s] = terminal_origin[s]
             /\ output'[s] = output[s]
      BY <1>1, <1>3 DEF Active, Ended
    <3>2. OriginOf(r) /\ state'[r] = state[r]
      BY <1>1, <2>3 DEF OriginNamesCulprit, OriginOf
    <3>. QED
      BY <1>1, <3>1, <3>2, OriginKept
  <2>. QED
    BY <2>1, <2>2, <2>3
<1>. QED
  BY <1>2, <1>4 DEF OriginNamesCulprit, OriginOf

\* task_add: a row that is added below an ended parent ends with it, and names
\* the origin of that parent.
LEMMA AddNamesOrigin ==
    ASSUME GraphInv, OriginNamesCulprit, NEW t \in TaskId, NEW pl \in ParentLists,
           NEW ql \in QueueLists, NEW p \in Priority, add(t, pl, ql, p)
    PROVE  OriginNamesCulprit'
<1>. USE DEF GraphInv
<1>. DEFINE n == Len(task_id)
            index == n + 1
            pr == [k \in DOMAIN pl |-> task_index[pl[k]]]
            st == AddedState(pr)
            origin == AddedOrigin(pr, index)
<1>1. n \in Nat /\ Rows = 1..n /\ pl \in Seq(TaskId) /\ DOMAIN task_id = 1..n
  BY ConstantsAssumption DEF Rows, TypeOK
<1>2. pr \in Seq(Rows)
  <2>1. \A k \in DOMAIN pl : pl[k] \in TaskId /\ task_index[pl[k]] \in Rows
    BY <1>1 DEF add, add_result, TypeOK
  <2>. QED
    BY <1>1, <2>1
<1>3. /\ task_id' = Append(task_id, t)
      /\ output' = push_back(output, IF st \in Ended THEN terminal_output(st, task_id[origin])
                                     ELSE Empty)
      /\ state' = push_back(state, st)
      /\ terminal_origin' = push_back(terminal_origin, origin)
      /\ parents' = push_back(parents, pr)
  BY DEF add
<1>4. Rows' = 1..index /\ \A s \in Rows : task_id'[s] = task_id[s]
  BY <1>1, <1>3 DEF Rows, TypeOK
<1>5. \A s \in Rows : /\ s # index
                      /\ state'[s] = state[s] /\ output'[s] = output[s]
                      /\ terminal_origin'[s] = terminal_origin[s] /\ parents'[s] = parents[s]
  BY <1>1, <1>3 DEF push_back
<1>6. /\ state'[index] = st /\ terminal_origin'[index] = origin /\ parents'[index] = pr
      /\ st \in Ended => output'[index] = terminal_output(st, task_id[origin])
  BY <1>1, <1>3 DEF push_back
<1>7. ASSUME NEW r \in Rows PROVE OriginOf(r)'
  <2>1. OriginOf(r)
    BY DEF OriginNamesCulprit, OriginOf
  <2>. QED
    BY <1>4, <1>5, <2>1, OriginKept
<1>8. ASSUME NEW r, r = index PROVE OriginOf(r)'
  <2>. SUFFICES ASSUME st \in Ended PROVE OriginOf(r)'
    BY <1>6, <1>8 DEF OriginOf
  <2>. DEFINE k == First(PlacesIn(pr, st))
              q == pr[k]
  <2>1. k \in DOMAIN pr /\ state[q] = st
    BY <1>2, AddedStateCases
  <2>2. q \in Rows /\ origin = terminal_origin[q] /\ origin \in Rows
    BY <1>2, <2>1 DEF AddedOrigin, TypeOK
  <2>3. state[origin] = st /\ terminal_origin[origin] = origin
    BY <2>1, <2>2 DEF OriginNamesCulprit
  <2>. HIDE DEF q, k, st, origin, pr
  <2>4. /\ state'[origin] = st /\ terminal_origin'[origin] = origin /\ task_id'[origin] = task_id[origin]
        /\ state'[pr[k]] = st /\ terminal_origin'[pr[k]] = origin
    BY <1>4, <1>5, <2>1, <2>2, <2>3 DEF q
  <2>. QED
    BY <1>6, <1>8, <2>1, <2>4 DEF OriginOf, terminal_output, DependencyFailed, CanceledOutput
<1>9. \A r \in Rows' : r \in Rows \/ r = index
  BY <1>1, <1>4
<1>. QED
  BY <1>7, <1>8, <1>9 DEF OriginNamesCulprit, OriginOf

\* The steps that end no task in failure leave ended rows and the graph alone.
LEMMA OtherNamesOrigin ==
    ASSUME GraphInv, OriginNamesCulprit, UNCHANGED <<task_id, parents, terminal_origin>>,
           \A r \in Rows : /\ state[r] \in Ended => output'[r] = output[r]
                           /\ state[r] \in Ended <=> state'[r] \in Ended
                           /\ state[r] \in Ended => state'[r] = state[r]
    PROVE  OriginNamesCulprit'
<1>1. Rows' = Rows
  BY DEF Rows
<1>2. ASSUME NEW r \in Rows PROVE OriginOf(r)'
  <2>1. CASE state[r] \in Ended
    BY <2>1, OriginKept DEF OriginNamesCulprit, OriginOf
  <2>2. CASE state[r] \notin Ended
    BY <2>2 DEF OriginOf
  <2>. QED
    BY <2>1, <2>2
<1>. QED
  BY <1>1, <1>2 DEF OriginNamesCulprit, OriginOf

\* Every step of the table keeps the origins traced.
LEMMA StepNamesOrigin ==
    ASSUME GraphInv, OriginNamesCulprit, [Next]_vars
    PROVE  OriginNamesCulprit'
<1>. USE DEF GraphInv
<1>1. ASSUME NEW t \in TaskId, cancel(t) PROVE OriginNamesCulprit'
  <2>1. task_index[t] \in Rows /\ state[task_index[t]] \in Active
    BY <1>1 DEF cancel, cancel_result, TypeOK
  <2>. QED
    BY <1>1, <2>1, EndNamesOrigin DEF cancel, Ended
<1>2. ASSUME NEW t \in TaskId, NEW p \in Priority, set_priority(t, p) PROVE OriginNamesCulprit'
  BY <1>2, OtherNamesOrigin DEF set_priority
<1>3. ASSUME NEW w \in WorkerId, NEW ql \in QueueLists, get_claim(w, ql) PROVE OriginNamesCulprit'
  <2>1. PICK i \in Rows : /\ state[i] = "Ready"
                          /\ state' = [state EXCEPT ![i] = "Running"]
                          /\ UNCHANGED <<columns, output, terminal_origin>>
    BY <1>3, ClaimTakesReady
  <2>2. \A r \in Rows : state'[r] = IF r = i THEN "Running" ELSE state[r]
    BY <2>1 DEF TypeOK
  <2>. QED
    BY <2>1, <2>2, OtherNamesOrigin DEF columns, Ended
<1>4. ASSUME NEW ql \in QueueLists, get_none(ql) PROVE OriginNamesCulprit'
  BY <1>4, OtherNamesOrigin DEF get_none, columns
<1>5. ASSUME NEW w \in WorkerId, NEW t \in TaskId, NEW out \in Output, done_finished(w, t, out)
      PROVE  OriginNamesCulprit'
  <2>. DEFINE i == task_index[t]
  <2>1. i \in Rows /\ state[i] = "Running"
    BY <1>5 DEF done_finished, done_result, TypeOK
  <2>2. \A c \in Released(i) : state[c] = "Waiting"
    BY DEF Released
  <2>3. /\ \A r \in Rows : state'[r] = IF r = i THEN "Finished"
                                       ELSE IF r \in Released(i) THEN "Ready" ELSE state[r]
        /\ \A r \in Rows : r # i => output'[r] = output[r]
        /\ UNCHANGED <<task_id, parents, terminal_origin>>
    BY <1>5, <2>1 DEF done_finished, columns, TypeOK
  <2>. QED
    BY <2>1, <2>2, <2>3, OtherNamesOrigin DEF Ended
<1>6. ASSUME NEW w \in WorkerId, NEW t \in TaskId, NEW out \in Output, done_failed(w, t, out)
      PROVE  OriginNamesCulprit'
  <2>1. task_index[t] \in Rows /\ state[task_index[t]] = "Running"
    BY <1>6 DEF done_failed, done_result, TypeOK
  <2>. QED
    BY <1>6, <2>1, EndNamesOrigin DEF done_failed, Active, Ended
<1>7. ASSUME UNCHANGED vars PROVE OriginNamesCulprit'
  BY <1>7, OtherNamesOrigin DEF vars, columns
<1>. QED
  BY <1>1, <1>2, <1>3, <1>4, <1>5, <1>6, <1>7, AddNamesOrigin
     DEF Next, add_refused, cancel_refused, set_priority_refused, done_refused

\* Whatever a task failed or was canceled for, its origin is a task that ended
\* so on its own account, and a chain of parents leads there (task-manager.cpp
\* 53-80, 137-149, data-structures.hpp 166-172).
THEOREM OriginsTraced == Spec => []OriginNamesCulprit
<1>1. Init => OriginNamesCulprit
  BY DEF Init, OriginNamesCulprit, Rows
<1>. QED
  BY <1>1, StepNamesOrigin, GraphAlwaysConsistent, PTL DEF Spec

----------------------------------------------------------------------------
(* The entries of the queues                                               *)

EntryOf(r, k) == [priority |-> priority[r], seq |-> seq[r], index |-> r, slot |-> k]

\* An entry was stamped in the past, and one that is live says of its row what
\* the table says.
EntriesTrue ==
    \A q \in QueueName : \A e \in queue[q] :
        /\ e.seq <= next_seq
        /\ Live(e) => /\ e.priority = priority[e.index]
                      /\ e.slot \in DOMAIN queues[e.index] /\ queues[e.index][e.slot] = q

\* A Ready row is in every queue of its list.
EntriesPresent ==
    \A r \in Rows : state[r] = "Ready" =>
        \A k \in DOMAIN queues[r] : EntryOf(r, k) \in queue[queues[r][k]]

\* LiveEntriesExact needs the bound on seq to be inductive: it is what makes the
\* entries of a row that is queued again die.
QueueInv == EntriesTrue /\ EntriesPresent

\* An entry of a typed queue has the fields of a queue entry.
LEMMA EntryFields ==
    ASSUME TypeOK, NEW q \in QueueName, NEW e \in queue[q]
    PROVE  /\ e.index \in Rows /\ e.seq \in Nat \ {0} /\ e.priority \in Priority
           /\ e = [priority |-> e.priority, seq |-> e.seq, index |-> e.index, slot |-> e.slot]
<1>1. e \in Entry
  BY DEF TypeOK
<1>. QED
  BY <1>1 DEF Entry

\* What the stronger invariant says of the live entries.
LEMMA QueueInvExact ==
    ASSUME TypeOK, QueueInv
    PROVE  LiveEntriesExact
<1>. DEFINE Due(q) == UNION {{EntryOf(r, k) : k \in {j \in DOMAIN queues[r] : queues[r][j] = q}}
                               : r \in {s \in Rows : state[s] = "Ready"}}
<1>1. ASSUME NEW q \in QueueName, NEW e \in Usable(q) PROVE e \in Due(q)
  <2>1. e \in queue[q] /\ Live(e)
    BY DEF Usable
  <2>2. /\ e.priority = priority[e.index] /\ e.seq = seq[e.index] /\ state[e.index] = "Ready"
        /\ e.slot \in DOMAIN queues[e.index] /\ queues[e.index][e.slot] = q
    BY <2>1 DEF QueueInv, EntriesTrue, Live
  <2>3. e.index \in Rows /\ e = EntryOf(e.index, e.slot)
    BY <2>1, <2>2, EntryFields DEF EntryOf
  <2>. QED
    BY <2>2, <2>3
<1>2. ASSUME NEW q \in QueueName, NEW e \in Due(q) PROVE e \in Usable(q)
  <2>1. PICK r \in Rows : /\ state[r] = "Ready"
                          /\ \E k \in DOMAIN queues[r] : queues[r][k] = q /\ e = EntryOf(r, k)
    OBVIOUS
  <2>2. PICK k \in DOMAIN queues[r] : queues[r][k] = q /\ e = EntryOf(r, k)
    BY <2>1
  <2>3. e \in queue[q]
    BY <2>1, <2>2 DEF QueueInv, EntriesPresent
  <2>4. Live(e)
    BY <2>1, <2>2 DEF Live, EntryOf
  <2>. QED
    BY <2>3, <2>4 DEF Usable
<1>3. \A q \in QueueName : Usable(q) = Due(q)
  BY <1>1, <1>2
<1>. QED
  BY <1>3 DEF LiveEntriesExact, EntryOf

\* A step that queues no row: entries are dropped, but none that can be used of
\* a row that stays Ready.
LEMMA DropKeepsQueues ==
    ASSUME TypeOK, QueueInv, UNCHANGED <<task_id, queues, priority, seq, next_seq>>,
           \A r \in Rows : state'[r] = "Ready" => state[r] = "Ready",
           \A q \in QueueName :
             /\ queue'[q] \subseteq queue[q]
             /\ \A e \in Usable(q) : state'[e.index] = "Ready" => e \in queue'[q]
    PROVE  QueueInv'
<1>. USE DEF QueueInv
<1>1. Rows' = Rows
  BY DEF Rows
<1>2. EntriesTrue'
  <2>1. ASSUME NEW q \in QueueName, NEW e \in queue'[q], Live(e)' PROVE Live(e)
    BY <2>1, EntryFields DEF Live
  <2>. QED
    BY <2>1 DEF EntriesTrue
<1>3. EntriesPresent'
  <2>1. ASSUME NEW r \in Rows, state'[r] = "Ready", NEW k \in DOMAIN queues[r]
        PROVE  EntryOf(r, k) \in queue'[queues[r][k]]
    <3>1. state[r] = "Ready" /\ EntryOf(r, k) \in queue[queues[r][k]]
      BY <2>1 DEF EntriesPresent
    <3>2. queues[r][k] \in QueueName
      BY ConstantsAssumption DEF TypeOK
    <3>3. EntryOf(r, k) \in Usable(queues[r][k]) /\ EntryOf(r, k).index = r
      BY <3>1 DEF Usable, Live, EntryOf
    <3>. QED
      BY <2>1, <3>2, <3>3
  <2>. QED
    BY <1>1, <2>1 DEF EntriesPresent, EntryOf
<1>. QED
  BY <1>2, <1>3

\* A step that queues the rows R: they are Ready, under numbers no entry has
\* had, and the other Ready rows were Ready before and are as they were.
LEMMA EnqueueKeepsQueues ==
    ASSUME TypeOK, QueueInv, NEW n \in Nat, Rows' = 1..n, Rows \subseteq 1..n,
           NEW R \in SUBSET (1..n), NEW qcol \in [1..n -> QueueLists],
           NEW pcol, NEW scol \in [1..n -> Nat],
           queues' = qcol, priority' = pcol, enqueue(R, qcol, pcol, scol),
           \A r \in R : state'[r] = "Ready",
           \A r \in (1..n) \ R : state'[r] = "Ready" =>
             /\ r \in Rows /\ state[r] = "Ready"
             /\ qcol[r] = queues[r] /\ pcol[r] = priority[r] /\ scol[r] = seq[r]
    PROVE  QueueInv'
<1>. USE DEF QueueInv
<1>1. next_seq \in Nat
  BY DEF TypeOK
<1>2. /\ next_seq' = next_seq + Cardinality(R)
      /\ \A r \in 1..n : seq'[r] = IF r \in R THEN Stamp(R, r) ELSE scol[r]
      /\ \A q \in QueueName : queue'[q] = queue[q] \cup Entries(R, q, qcol, pcol)
  BY DEF enqueue
<1>3. Cardinality(R) \in Nat /\ next_seq' \in Nat /\ next_seq <= next_seq'
  <2>1. Cardinality(R) \in Nat
    BY FiniteUpTo
  <2>. QED
    BY <1>1, <1>2, <2>1
<1>4. \A r \in R : Stamp(R, r) \in Nat /\ Stamp(R, r) > next_seq /\ Stamp(R, r) <= next_seq'
  BY <1>1, <1>2, StampRange
<1>5. \A r \in 1..n : \A k \in DOMAIN qcol[r] : qcol[r][k] \in QueueName
  BY ConstantsAssumption
<1>6. EntriesTrue'
  <2>1. SUFFICES ASSUME NEW q \in QueueName, NEW e \in queue'[q]
                 PROVE  /\ e.seq <= next_seq'
                        /\ Live(e)' => /\ e.priority = pcol[e.index]
                                       /\ e.slot \in DOMAIN qcol[e.index] /\ qcol[e.index][e.slot] = q
    BY DEF EntriesTrue
  <2>2. CASE e \in Entries(R, q, qcol, pcol)
    <3>1. PICK r \in R : \E k \in DOMAIN qcol[r] :
            /\ qcol[r][k] = q
            /\ e = [priority |-> pcol[r], seq |-> Stamp(R, r), index |-> r, slot |-> k]
      BY <2>2 DEF Entries
    <3>. QED
      BY <1>4, <3>1
  <2>3. CASE e \in queue[q]
    <3>1. e.index \in Rows /\ e.seq \in Nat /\ e.seq <= next_seq
      BY <2>3, EntryFields DEF EntriesTrue
    <3>2. ASSUME Live(e)'
          PROVE  e.index \notin R /\ state[e.index] = "Ready" /\ e.seq = seq[e.index]
      <4>1. state'[e.index] = "Ready" /\ e.seq = seq'[e.index]
        BY <3>2 DEF Live
      <4>2. e.index \notin R
        BY <1>1, <1>2, <1>4, <3>1, <4>1
      <4>. QED
        BY <1>2, <3>1, <4>1, <4>2
    <3>3. Live(e)' => Live(e)
      BY <3>2 DEF Live
    <3>4. Live(e)' => qcol[e.index] = queues[e.index] /\ pcol[e.index] = priority[e.index]
      BY <3>1, <3>2 DEF Live
    <3>. QED
      BY <1>1, <1>3, <2>3, <3>1, <3>3, <3>4 DEF EntriesTrue
  <2>. QED
    BY <1>2, <2>2, <2>3
<1>7. EntriesPresent'
  <2>1. ASSUME NEW r \in 1..n, state'[r] = "Ready", NEW k \in DOMAIN qcol[r]
        PROVE  [priority |-> pcol[r], seq |-> seq'[r], index |-> r, slot |-> k]
                 \in queue'[qcol[r][k]]
    <3>1. CASE r \in R
      <4>1. [priority |-> pcol[r], seq |-> Stamp(R, r), index |-> r, slot |-> k]
              \in Entries(R, qcol[r][k], qcol, pcol)
        BY <3>1 DEF Entries
      <4>. QED
        BY <1>2, <1>5, <3>1, <4>1
    <3>2. CASE r \notin R
      <4>1. /\ r \in Rows /\ state[r] = "Ready"
            /\ qcol[r] = queues[r] /\ pcol[r] = priority[r] /\ seq'[r] = seq[r]
        BY <1>2, <2>1, <3>2
      <4>2. EntryOf(r, k) \in queue[qcol[r][k]]
        BY <4>1 DEF EntriesPresent
      <4>. QED
        BY <1>2, <1>5, <4>1, <4>2 DEF EntryOf
    <3>. QED
      BY <3>1, <3>2
  <2>. QED
    BY <2>1 DEF EntriesPresent, EntryOf
<1>. QED
  BY <1>6, <1>7

\* task_get drops entries that are dead, and the one it claims.
LEMMA GetKeepsQueues ==
    ASSUME GraphInv, QueueInv, NEW w, NEW ql \in QueueLists,
           get_claim(w, ql) \/ get_none(ql)
    PROVE  QueueInv'
<1>. USE DEF GraphInv
<1>1. CASE get_none(ql)
  <2>1. /\ \A k \in DOMAIN ql : Usable(ql[k]) = {}
        /\ queue' = [q \in QueueName |-> IF q \in Emptied(ql, Len(ql) + 1) THEN {} ELSE queue[q]]
        /\ UNCHANGED <<task_id, queues, priority, seq, next_seq, state>>
    BY <1>1 DEF get_none, columns
  <2>2. ASSUME NEW q \in Emptied(ql, Len(ql) + 1) PROVE Usable(q) = {}
    <3>1. ql \in Seq(QueueName)
      BY ConstantsAssumption
    <3>. QED
      BY <2>1, <2>2, <3>1 DEF Emptied
  <2>3. \A q \in QueueName :
          /\ queue'[q] \subseteq queue[q]
          /\ \A e \in Usable(q) : e \in queue'[q]
    BY <2>1, <2>2 DEF Usable
  <2>. QED
    BY <2>1, <2>3, DropKeepsQueues
<1>2. CASE get_claim(w, ql)
  <2>1. UNCHANGED <<task_id, queues, priority, seq, next_seq>>
    BY <1>2 DEF get_claim, columns
  <2>2. PICK k \in DOMAIN ql :
          /\ \A j \in 1..(k - 1) : Usable(ql[j]) = {}
          /\ \E e \in Usable(ql[k]) :
               /\ \A f \in Usable(ql[k]) : ~EntryOrder(e, f)
               /\ state' = [state EXCEPT ![e.index] = "Running"]
               /\ queue' = [q \in QueueName |-> IF q = ql[k] THEN Below(q, e)
                                                ELSE IF q \in Emptied(ql, k) THEN {}
                                                ELSE queue[q]]
    BY <1>2 DEF get_claim
  <2>3. PICK e \in Usable(ql[k]) :
          /\ \A f \in Usable(ql[k]) : ~EntryOrder(e, f)
          /\ state' = [state EXCEPT ![e.index] = "Running"]
          /\ queue' = [q \in QueueName |-> IF q = ql[k] THEN Below(q, e)
                                           ELSE IF q \in Emptied(ql, k) THEN {}
                                           ELSE queue[q]]
    BY <2>2
  <2>4. ql[k] \in QueueName /\ e.index \in Rows
    BY ConstantsAssumption, EntryFields DEF Usable
  <2>5. \A r \in Rows : state'[r] = IF r = e.index THEN "Running" ELSE state[r]
    BY <2>3, <2>4 DEF TypeOK
  <2>6. ASSUME NEW q \in QueueName
        PROVE  /\ queue'[q] \subseteq queue[q]
               /\ \A f \in Usable(q) : state'[f.index] = "Ready" => f \in queue'[q]
    <3>1. CASE q = ql[k]
      <4>1. queue'[q] = {f \in queue[q] : f # e /\ ~EntryOrder(e, f)}
        BY <2>3, <3>1 DEF Below
      <4>2. state'[e.index] # "Ready"
        BY <2>4, <2>5
      <4>. QED
        BY <2>3, <3>1, <4>1, <4>2 DEF Usable
    <3>2. CASE q # ql[k] /\ q \in Emptied(ql, k)
      <4>1. Usable(q) = {}
        BY <2>2, <3>2 DEF Emptied
      <4>. QED
        BY <2>3, <3>2, <4>1
    <3>3. CASE q # ql[k] /\ q \notin Emptied(ql, k)
      BY <2>3, <3>3 DEF Usable
    <3>. QED
      BY <3>1, <3>2, <3>3
  <2>. QED
    BY <2>1, <2>5, <2>6, DropKeepsQueues
<1>. QED
  BY <1>1, <1>2

\* task_set_priority queues a Ready row again; nothing is queued of another.
LEMMA SetPriorityKeepsQueues ==
    ASSUME GraphInv, QueueInv, NEW t \in TaskId, NEW p \in Priority, set_priority(t, p)
    PROVE  QueueInv'
<1>. USE DEF GraphInv
<1>. DEFINE i == task_index[t]
<1>1. UNCHANGED <<task_id, queues, state>> /\ enqueue(Requeued(i), queues, priority', seq)
  BY DEF set_priority
<1>2. i \in Rows /\ priority' = [priority EXCEPT ![i] = p]
  BY DEF set_priority, TypeOK
<1>3. Len(task_id) \in Nat /\ Rows = 1..Len(task_id) /\ Rows' = Rows
  BY <1>1 DEF Rows, TypeOK
<1>4. /\ Requeued(i) \in SUBSET Rows
      /\ \A r \in Requeued(i) : state[r] = "Ready"
      /\ \A r \in Rows \ Requeued(i) : state[r] = "Ready" => priority'[r] = priority[r]
  BY <1>2 DEF Requeued, TypeOK
<1>5. queues \in [Rows -> QueueLists] /\ seq \in [Rows -> Nat]
  BY DEF TypeOK
<1>. QED
  BY <1>1, <1>3, <1>4, <1>5, EnqueueKeepsQueues

\* task_done of a run that succeeded queues the rows it releases.
LEMMA DoneKeepsQueues ==
    ASSUME GraphInv, QueueInv, NEW w \in WorkerId, NEW t \in TaskId, NEW out \in Output,
           done_finished(w, t, out)
    PROVE  QueueInv'
<1>. USE DEF GraphInv
<1>. DEFINE i == task_index[t]
            R == Released(i)
<1>1. /\ UNCHANGED <<task_id, queues, priority>> /\ enqueue(R, queues, priority, seq)
      /\ state' = [r \in Rows |-> IF r = i THEN "Finished"
                                  ELSE IF r \in R THEN "Ready" ELSE state[r]]
  BY DEF done_finished, columns
<1>2. i \in Rows /\ state[i] = "Running"
  BY DEF done_finished, done_result, TypeOK
<1>3. Len(task_id) \in Nat /\ Rows = 1..Len(task_id) /\ Rows' = Rows
  BY <1>1 DEF Rows, TypeOK
<1>4. R \in SUBSET Rows /\ \A r \in R : state[r] = "Waiting"
  BY <1>2 DEF Released, ChildrenOf, TypeOK
<1>5. queues \in [Rows -> QueueLists] /\ seq \in [Rows -> Nat]
  BY DEF TypeOK
<1>6. /\ \A r \in R : state'[r] = "Ready"
      /\ \A r \in Rows \ R : state'[r] = "Ready" => state[r] = "Ready"
  BY <1>1, <1>2, <1>4
<1>. QED
  BY <1>1, <1>3, <1>4, <1>5, <1>6, EnqueueKeepsQueues

\* task_add queues the new row if it is Ready.
LEMMA AddKeepsQueues ==
    ASSUME GraphInv, QueueInv, NEW t \in TaskId, NEW pl \in ParentLists,
           NEW ql \in QueueLists, NEW p \in Priority, add(t, pl, ql, p)
    PROVE  QueueInv'
<1>. USE DEF GraphInv
<1>. DEFINE n == Len(task_id)
            st == AddedState([k \in DOMAIN pl |-> task_index[pl[k]]])
<1>1. /\ n \in Nat /\ Rows = 1..n /\ task_id' = Append(task_id, t)
      /\ state' = push_back(state, st)
      /\ queues' = push_back(queues, ql) /\ priority' = push_back(priority, p)
      /\ enqueue(IF st = "Ready" THEN {n + 1} ELSE {}, queues', priority', push_back(seq, 0))
  BY DEF add, Rows, TypeOK
<1>. DEFINE R == IF st = "Ready" THEN {n + 1} ELSE {}
            scol == push_back(seq, 0)
<1>2. n + 1 \in Nat /\ Rows' = 1..(n + 1) /\ Rows \subseteq 1..(n + 1) /\ R \in SUBSET (1..(n + 1))
  BY <1>1 DEF Rows, TypeOK
<1>3. queues' \in [1..(n + 1) -> QueueLists] /\ scol \in [1..(n + 1) -> Nat]
  BY <1>1 DEF push_back, TypeOK
<1>4. /\ state'[n + 1] = st
      /\ \A r \in Rows : /\ r # n + 1 /\ state'[r] = state[r] /\ queues'[r] = queues[r]
                         /\ priority'[r] = priority[r] /\ scol[r] = seq[r]
  BY <1>1 DEF push_back
<1>5. \A r \in 1..(n + 1) : r \in Rows \/ r = n + 1
  BY <1>1
<1>6. /\ \A r \in R : state'[r] = "Ready"
      /\ \A r \in (1..(n + 1)) \ R : state'[r] = "Ready" => r \in Rows
  BY <1>4, <1>5
<1>7. enqueue(R, queues', priority', scol)
  BY <1>1
<1>. HIDE DEF R, scol
<1>. QED
  BY <1>2, <1>3, <1>4, <1>6, <1>7, EnqueueKeepsQueues

\* Every step of the table keeps each Ready row once in each of its queues.
LEMMA StepKeepsQueues ==
    ASSUME GraphInv, QueueInv, [Next]_vars
    PROVE  QueueInv'
<1>. USE DEF GraphInv
<1>1. ASSUME NEW i \in Rows, state[i] \in Active, NEW st \in Ended, NEW out, NEW worker,
             EndWithDependents(i, st, out, worker)
      PROVE  QueueInv'
  <2>1. UNCHANGED <<task_id, queues, priority, seq, next_seq, queue>>
    BY <1>1 DEF EndWithDependents, columns
  <2>2. \A r \in Rows : state'[r] = "Ready" => state[r] = "Ready"
    BY <1>1 DEF EndWithDependents, Ended
  <2>. QED
    BY <2>1, <2>2, DropKeepsQueues DEF Usable
<1>2. ASSUME NEW t \in TaskId, cancel(t) PROVE QueueInv'
  <2>1. task_index[t] \in Rows /\ state[task_index[t]] \in Active
    BY <1>2 DEF cancel, cancel_result, TypeOK
  <2>. QED
    BY <1>1, <1>2, <2>1 DEF cancel, Ended
<1>3. ASSUME NEW w \in WorkerId, NEW t \in TaskId, NEW out \in Output, done_failed(w, t, out)
      PROVE  QueueInv'
  <2>1. task_index[t] \in Rows /\ state[task_index[t]] = "Running"
    BY <1>3 DEF done_failed, done_result, TypeOK
  <2>. QED
    BY <1>1, <1>3, <2>1 DEF done_failed, Active, Ended
<1>4. ASSUME UNCHANGED vars PROVE QueueInv'
  BY <1>4, DropKeepsQueues DEF vars, columns, Usable
<1>5. ASSUME NEW ql \in QueueLists, get_none(ql) PROVE QueueInv'
  BY <1>5, GetKeepsQueues
<1>. QED
  BY <1>2, <1>3, <1>4, <1>5, GetKeepsQueues, SetPriorityKeepsQueues, DoneKeepsQueues, AddKeepsQueues
     DEF Next, add_refused, cancel_refused, set_priority_refused, done_refused

\* Whatever was queued, claimed, canceled or given a new priority, what task_get
\* would use of a queue is one entry for each place of the queue in the list of
\* a Ready row, at its current priority (task-manager.cpp 36-44, 303-305, 370).
THEOREM QueuesExact == Spec => []LiveEntriesExact
<1>1. Init => QueueInv
  BY DEF Init, QueueInv, EntriesTrue, EntriesPresent, Rows
<1>2. GraphInv /\ QueueInv => LiveEntriesExact
  BY QueueInvExact DEF GraphInv
<1>. QED
  BY <1>1, <1>2, StepKeepsQueues, GraphAlwaysConsistent, PTL DEF Spec

----------------------------------------------------------------------------
(* The reads                                                               *)

\* The counts over the table are the counts over the ids: task_id is one to one
\* from the rows in a state to the ids that read as being in it
\* (task-manager.cpp 151, 212-249).
THEOREM CountsRead == Spec => []CountsAgree
<1>1. GraphInv => CountsAgree
  <2>. SUFFICES ASSUME GraphInv, NEW st \in TaskState
                PROVE  Cardinality({r \in Rows : state[r] = st})
                         = Cardinality({t \in TaskId : get_status(t) = st})
    BY DEF CountsAgree, get_count_by_state
  <2>. DEFINE A == {r \in Rows : state[r] = st}
              B == {t \in TaskId : get_status(t) = st}
              f == [r \in A |-> task_id[r]]
  <2>1. IsFiniteSet(A)
    <3>1. Len(task_id) \in Nat /\ A \in SUBSET (1..Len(task_id))
      BY DEF GraphInv, TypeOK, Rows
    <3>. QED
      BY <3>1, FiniteUpTo
  <2>2. f \in [A -> B]
    <3>1. ASSUME NEW r \in A PROVE task_id[r] \in B
      <4>1. task_id[r] \in TaskId /\ task_index[task_id[r]] = r /\ r # NoRow
        BY DEF GraphInv, TypeOK, IndexInverse, Rows, NoRow
      <4>. QED
        BY <4>1 DEF get_status
    <3>. QED
      BY <3>1
  <2>3. \A a, b \in A : f[a] = f[b] => a = b
    BY DEF GraphInv, IndexInverse
  <2>4. ASSUME NEW t \in B PROVE \E r \in A : f[r] = t
    <3>1. task_index[t] # NoRow
      BY DEF get_status, TaskState, Active, Final, Ended
    <3>2. task_index[t] \in A /\ task_id[task_index[t]] = t
      BY <3>1 DEF get_status, GraphInv, TypeOK, IndexInverse
    <3>. QED
      BY <3>2
  <2>. HIDE DEF A, B, f
  <2>5. f \in Bijection(A, B)
    BY <2>2, <2>3, <2>4, Fun_IsBij
  <2>6. ExistsBijection(A, B)
    BY <2>5 DEF ExistsBijection
  <2>7. Cardinality(A) = Cardinality(B)
    BY <2>1, <2>6, FS_Bijection
  <2>. QED
    BY <2>7 DEF A, B
<1>. QED
  BY <1>1, GraphAlwaysConsistent, PTL

----------------------------------------------------------------------------
(* The loop of search_id                                                   *)

\* What holds of 0 and of the number after each that it holds of, up to n, holds
\* up to n.
LEMMA UpTo ==
    ASSUME NEW n \in Nat, NEW P, 0 \in P, \A i \in 0..n : i \in P /\ i < n => i + 1 \in P
    PROVE  \A i \in 0..n : i \in P
<1>. SUFFICES ASSUME NEW x \in 0..n, x \notin P PROVE FALSE
  OBVIOUS
<1>. DEFINE K == {i \in 0..n : i \notin P}
<1>1. K \in SUBSET Nat /\ x \in K
  OBVIOUS
<1>2. PICK k \in K : \A j \in K : k <= j
  BY <1>1, LeastIn
<1>3. k \in 0..n /\ k # 0 /\ k - 1 \in 0..n /\ k - 1 < n /\ (k - 1) + 1 = k
  OBVIOUS
<1>4. k - 1 \in P
  BY <1>2, <1>3
<1>. QED
  BY <1>2, <1>3, <1>4

\* F holds what the loop has pushed back after each of the first n places.
Loop(F, s, P, n) ==
    F = [i \in 0..n |-> IF i = 0 THEN <<>>
                        ELSE IF i \in P THEN Append(F[i - 1], s[i]) ELSE F[i - 1]]

\* There is such an F, and Keep is its last value.
LEMMA KeepLoop ==
    ASSUME NEW S, NEW s \in Seq(S), NEW P
    PROVE  \E F : Loop(F, s, P, Len(s)) /\ Keep(s, P) = F[Len(s)]
<1>. DEFINE N == {n \in 0..Len(s) : \E F : Loop(F, s, P, n)}
<1>0. Len(s) \in Nat
  OBVIOUS
<1>1. 0 \in N
  <2>1. PICK F : F = [i \in 0..0 |-> <<>>]
    OBVIOUS
  <2>2. F = [i \in 0..0 |-> IF i = 0 THEN <<>>
                            ELSE IF i \in P THEN Append(F[i - 1], s[i]) ELSE F[i - 1]]
    BY <2>1
  <2>3. Loop(F, s, P, 0)
    BY <2>2 DEF Loop
  <2>. QED
    BY <1>0, <2>3
<1>2. ASSUME NEW n \in 0..Len(s), n \in N, n < Len(s) PROVE n + 1 \in N
  <2>1. PICK F : Loop(F, s, P, n)
    BY <1>2
  <2>2. PICK last : last = IF n + 1 \in P THEN Append(F[n], s[n + 1]) ELSE F[n]
    OBVIOUS
  <2>3. PICK G : G = [i \in 0..(n + 1) |-> IF i = n + 1 THEN last ELSE F[i]]
    OBVIOUS
  <2>4. ASSUME NEW i \in 0..(n + 1)
        PROVE  G[i] = IF i = 0 THEN <<>> ELSE IF i \in P THEN Append(G[i - 1], s[i]) ELSE G[i - 1]
    <3>1. CASE i = n + 1
      <4>1. G[i] = last /\ G[i - 1] = F[n] /\ i # 0
        BY <1>0, <2>3, <3>1
      <4>. QED
        BY <2>2, <3>1, <4>1
    <3>2. CASE i # n + 1
      <4>1. i \in 0..n /\ G[i] = F[i]
        BY <1>0, <2>3, <3>2
      <4>2. F[i] = IF i = 0 THEN <<>> ELSE IF i \in P THEN Append(F[i - 1], s[i]) ELSE F[i - 1]
        BY <2>1, <4>1 DEF Loop
      <4>3. i # 0 => G[i - 1] = F[i - 1]
        BY <1>0, <2>3, <4>1
      <4>. QED
        BY <4>1, <4>2, <4>3
    <3>. QED
      BY <3>1, <3>2
  <2>5. G = [i \in 0..(n + 1) |-> G[i]]
    BY <2>3
  <2>6. G = [i \in 0..(n + 1) |-> IF i = 0 THEN <<>>
                                  ELSE IF i \in P THEN Append(G[i - 1], s[i]) ELSE G[i - 1]]
    BY <2>4, <2>5
  <2>7. Loop(G, s, P, n + 1)
    BY <2>6 DEF Loop
  <2>. QED
    BY <1>0, <1>2, <2>7
<1>. HIDE DEF N
<1>3. Len(s) \in N
  <2>1. \A i \in 0..Len(s) : i \in N /\ i < Len(s) => i + 1 \in N
    BY <1>2
  <2>2. \A i \in 0..Len(s) : i \in N
    BY <1>0, <1>1, <2>1, UpTo, Zenon
  <2>. QED
    BY <1>0, <2>2
<1>4. \E F : Loop(F, s, P, Len(s))
  BY <1>3 DEF N
<1>5. PICK F : F = CHOOSE G : Loop(G, s, P, Len(s))
  OBVIOUS
<1>6. Loop(F, s, P, Len(s))
  BY <1>4, <1>5, Zenon
<1>7. Keep(s, P) = F[Len(s)]
  BY <1>5, Zenon DEF Keep, Loop
<1>. QED
  BY <1>6, <1>7

\* The sequence t lists, in order, the elements of s at the places up to n in P.
Lists(t, s, P, n) ==
    \E q \in [1..Len(t) -> 1..n] :
        /\ \A j \in 1..Len(t) : q[j] \in P /\ t[j] = s[q[j]]
        /\ \A i, j \in 1..Len(t) : i < j => q[i] < q[j]
        /\ \A p \in 1..n : p \in P => \E j \in 1..Len(t) : q[j] = p

\* The loop keeps the elements at the places in P, each once and in their order,
\* and nothing else.
LEMMA KeepLists ==
    ASSUME NEW S, NEW s \in Seq(S), NEW P
    PROVE  Keep(s, P) \in Seq(S) /\ Lists(Keep(s, P), s, P, Len(s))
<1>0. Len(s) \in Nat
  OBVIOUS
<1>1. PICK F : Loop(F, s, P, Len(s)) /\ Keep(s, P) = F[Len(s)]
  BY KeepLoop
<1>. DEFINE N == {n \in 0..Len(s) : F[n] \in Seq(S) /\ Lists(F[n], s, P, n)}
<1>2. \A i \in 0..Len(s) : F[i] = IF i = 0 THEN <<>>
                                  ELSE IF i \in P THEN Append(F[i - 1], s[i]) ELSE F[i - 1]
  BY <1>1 DEF Loop
<1>3. 0 \in N
  <2>1. PICK t : t = F[0]
    OBVIOUS
  <2>2. t = <<>>
    BY <1>0, <1>2, <2>1
  <2>3. t \in Seq(S) /\ Len(t) = 0
    BY <2>2
  <2>4. PICK q : q = [j \in 1..Len(t) |-> j]
    OBVIOUS
  <2>5. 1..Len(t) = {} /\ 1..0 = {}
    BY <2>3
  <2>6. q \in [1..Len(t) -> 1..0]
    BY <2>4, <2>5
  <2>7. Lists(t, s, P, 0)
    BY <2>5, <2>6, Zenon DEF Lists
  <2>. QED
    BY <1>0, <2>1, <2>3, <2>7
<1>4. ASSUME NEW n \in 0..Len(s), n \in N, n < Len(s) PROVE n + 1 \in N
  <2>1. PICK t, u : t = F[n] /\ u = F[n + 1]
    OBVIOUS
  <2>2. t \in Seq(S) /\ Len(t) \in Nat /\ Lists(t, s, P, n) /\ n \in Nat
    BY <1>4, <2>1
  <2>3. u = IF n + 1 \in P THEN Append(t, s[n + 1]) ELSE t
    <3>1. n + 1 \in 0..Len(s) /\ n + 1 # 0 /\ (n + 1) - 1 = n
      BY <1>0, <1>4
    <3>. QED
      BY <1>2, <2>1, <3>1
  <2>4. PICK q \in [1..Len(t) -> 1..n] :
          /\ \A j \in 1..Len(t) : q[j] \in P /\ t[j] = s[q[j]]
          /\ \A i, j \in 1..Len(t) : i < j => q[i] < q[j]
          /\ \A p \in 1..n : p \in P => \E j \in 1..Len(t) : q[j] = p
    BY <2>2 DEF Lists
  <2>5. CASE n + 1 \notin P
    <3>1. u = t
      BY <2>3, <2>5
    <3>2. q \in [1..Len(t) -> 1..(n + 1)]
      BY <2>2, <2>4
    <3>3. \A p \in 1..(n + 1) : p \in P => \E j \in 1..Len(t) : q[j] = p
      BY <2>2, <2>4, <2>5
    <3>4. Lists(t, s, P, n + 1)
      BY <2>4, <3>2, <3>3, Zenon DEF Lists
    <3>5. u \in Seq(S) /\ Lists(u, s, P, n + 1)
      BY <2>2, <3>1, <3>4, Zenon
    <3>6. n + 1 \in 0..Len(s)
      BY <1>0, <1>4
    <3>. QED
      BY <2>1, <3>5, <3>6, Zenon
  <2>6. CASE n + 1 \in P
    <3>1. u = Append(t, s[n + 1]) /\ s[n + 1] \in S
      BY <1>0, <1>4, <2>3, <2>6
    <3>2. /\ u \in Seq(S) /\ Len(u) = Len(t) + 1 /\ u[Len(t) + 1] = s[n + 1]
          /\ \A j \in 1..Len(t) : u[j] = t[j]
      BY <2>2, <3>1
    <3>3. PICK r : r = [j \in 1..(Len(t) + 1) |-> IF j = Len(t) + 1 THEN n + 1 ELSE q[j]]
      OBVIOUS
    <3>4. r[Len(t) + 1] = n + 1 /\ \A j \in 1..Len(t) : r[j] = q[j]
      BY <2>2, <3>3
    <3>5. r \in [1..Len(u) -> 1..(n + 1)]
      BY <2>2, <2>4, <3>2, <3>3
    <3>6. ASSUME NEW j \in 1..Len(u) PROVE r[j] \in P /\ u[j] = s[r[j]]
      <4>1. CASE j = Len(t) + 1
        BY <2>6, <3>2, <3>4, <4>1
      <4>2. CASE j # Len(t) + 1
        <5>1. j \in 1..Len(t)
          BY <2>2, <3>2, <4>2
        <5>. QED
          BY <2>4, <3>2, <3>4, <5>1
      <4>. QED
        BY <4>1, <4>2
    <3>7. ASSUME NEW i \in 1..Len(u), NEW j \in 1..Len(u), i < j PROVE r[i] < r[j]
      <4>1. i \in 1..Len(t) /\ r[i] = q[i] /\ q[i] \in 1..n
        BY <2>2, <2>4, <3>2, <3>4, <3>7
      <4>2. CASE j = Len(t) + 1
        BY <2>2, <3>4, <4>1, <4>2
      <4>3. CASE j # Len(t) + 1
        <5>1. j \in 1..Len(t)
          BY <2>2, <3>2, <4>3
        <5>. QED
          BY <2>4, <3>4, <3>7, <4>1, <5>1
      <4>. QED
        BY <4>2, <4>3
    <3>8. ASSUME NEW p \in 1..(n + 1), p \in P PROVE \E j \in 1..Len(u) : r[j] = p
      <4>1. CASE p = n + 1
        <5>1. Len(t) + 1 \in 1..Len(u)
          BY <2>2, <3>2
        <5>. QED
          BY <3>4, <4>1, <5>1
      <4>2. CASE p # n + 1
        <5>1. p \in 1..n
          BY <2>2, <4>2
        <5>2. PICK j \in 1..Len(t) : q[j] = p
          BY <2>4, <3>8, <5>1
        <5>3. j \in 1..Len(u) /\ r[j] = p
          BY <2>2, <3>2, <3>4, <5>2
        <5>. QED
          BY <5>3
      <4>. QED
        BY <4>1, <4>2
    <3>9. Lists(u, s, P, n + 1)
      BY <3>5, <3>6, <3>7, <3>8 DEF Lists
    <3>. QED
      BY <1>0, <1>4, <2>1, <3>2, <3>9
  <2>. QED
    BY <2>5, <2>6
<1>. HIDE DEF N
<1>5. Len(s) \in N
  <2>1. \A i \in 0..Len(s) : i \in N /\ i < Len(s) => i + 1 \in N
    BY <1>4
  <2>2. \A i \in 0..Len(s) : i \in N
    BY <1>0, <1>3, <2>1, UpTo, Zenon
  <2>. QED
    BY <1>0, <2>2
<1>. QED
  BY <1>1, <1>5 DEF N

\* A search lists the known ids it matches, once each, in the order they were
\* added.
LEMMA SearchLists == GraphInv => SearchAgrees
<1>. SUFFICES ASSUME GraphInv, NEW pattern \in Pattern, search_id(pattern).code = "OK",
                     NEW found, found = search_id(pattern).key,
                     NEW M, M = pattern.matches
              PROVE  /\ {found[i] : i \in DOMAIN found} = {t \in M : get_status(t) # "Undefined"}
                     /\ \A i, j \in DOMAIN found : i < j => task_index[found[i]] < task_index[found[j]]
  BY DEF SearchAgrees
<1>0. M \in SUBSET TaskId /\ pattern.ok
  BY DEF Pattern, search_id
<1>. DEFINE P == {r \in Rows : task_id[r] \in M}
<1>1. /\ task_id \in Seq(TaskId) /\ Len(task_id) \in Nat
      /\ \A r \in Rows : state[r] # "Undefined" /\ r # NoRow /\ task_index[task_id[r]] = r
      /\ \A t \in TaskId : task_index[t] # NoRow => task_index[t] \in Rows /\ task_id[task_index[t]] = t
  <2>1. task_id \in Seq(TaskId) /\ Len(task_id) \in Nat
    BY DEF GraphInv, TypeOK
  <2>2. \A r \in Rows : r # NoRow /\ task_index[task_id[r]] = r
    BY <2>1 DEF GraphInv, IndexInverse, Rows, NoRow
  <2>3. \A r \in Rows : state[r] \in TaskState
    BY DEF GraphInv, TypeOK
  <2>4. "Undefined" \notin TaskState
    BY DEF TaskState, Active, Final, Ended
  <2>5. \A t \in TaskId : task_index[t] # NoRow => task_index[t] \in Rows /\ task_id[task_index[t]] = t
    BY DEF GraphInv, TypeOK, IndexInverse
  <2>. QED
    BY <2>1, <2>2, <2>3, <2>4, <2>5
<1>2. found = Keep(task_id, P)
  BY <1>0 DEF search_id
<1>3. found \in Seq(TaskId) /\ Lists(found, task_id, P, Len(task_id))
  BY <1>1, <1>2, KeepLists
<1>4. DOMAIN found = 1..Len(found)
  BY <1>3
<1>5. PICK q \in [1..Len(found) -> 1..Len(task_id)] :
        /\ \A j \in 1..Len(found) : q[j] \in P /\ found[j] = task_id[q[j]]
        /\ \A i, j \in 1..Len(found) : i < j => q[i] < q[j]
        /\ \A p \in 1..Len(task_id) : p \in P => \E j \in 1..Len(found) : q[j] = p
  BY <1>3 DEF Lists
<1>6. ASSUME NEW j \in DOMAIN found PROVE found[j] \in M /\ task_index[found[j]] = q[j] /\ q[j] \in Rows
  BY <1>1, <1>4, <1>5
<1>7. \A j \in DOMAIN found : found[j] \in M /\ get_status(found[j]) # "Undefined"
  BY <1>0, <1>1, <1>6 DEF get_status
<1>8. ASSUME NEW t \in M, get_status(t) # "Undefined" PROVE \E j \in DOMAIN found : found[j] = t
  <2>1. task_index[t] \in Rows /\ task_id[task_index[t]] = t
    BY <1>0, <1>1, <1>8 DEF get_status
  <2>2. task_index[t] \in P /\ task_index[t] \in 1..Len(task_id)
    BY <2>1 DEF Rows
  <2>3. PICK j \in 1..Len(found) : q[j] = task_index[t]
    BY <1>5, <2>2
  <2>. QED
    BY <1>4, <1>5, <2>1, <2>3
<1>9. \A i, j \in DOMAIN found : i < j => task_index[found[i]] < task_index[found[j]]
  BY <1>4, <1>5, <1>6
<1>. QED
  BY <1>7, <1>8, <1>9

\* What one id reads, what the counts say and what a search lists agree, for
\* tables of any size and any pattern (task-manager.cpp 85-89, 151, 212-249,
\* 328-345).
THEOREM ReadsConsistent == Spec => []ReadsAgree
  BY CountsRead, SearchLists, GraphAlwaysConsistent, PTL DEF ReadsAgree

----------------------------------------------------------------------------
(* The contract                                                            *)

\* A table without rows is a contract without tasks.
LEMMA ContractInit == Init => Contract!Init
<1>. SUFFICES ASSUME Init PROVE Contract!Init
  OBVIOUS
<1>1. known = {}
  BY DEF Init, known, get_status, NoRow
<1>2. \A f \in {status_of, needs_of, wants_of, prio_of, arrival_of, holder_of, result_of, culprit_of} :
        f = <<>>
  BY <1>1 DEF status_of, needs_of, wants_of, prio_of, arrival_of, holder_of, result_of, culprit_of
<1>. QED
  BY <1>2 DEF Contract!Init, Init

\* What the mapping shows of the table, row by row.
View ==
    /\ known = {t \in TaskId : task_index[t] # NoRow}
    /\ \A t \in known : task_index[t] \in Rows /\ task_id[task_index[t]] = t
    /\ \A r \in Rows : task_id[r] \in known /\ task_index[task_id[r]] = r
    /\ status_of = [t \in known |-> state[task_index[t]]]
    /\ prio_of = [t \in known |-> priority[task_index[t]]]
    /\ holder_of = [t \in known |-> IF state[task_index[t]] = "Running"
                                    THEN worker_id[task_index[t]] ELSE "NotRunning"]
    /\ result_of = [t \in known |-> output[task_index[t]]]

\* What the contract sees of a well-formed table.
LEMMA ViewOfTable == GraphInv => View
<1>. SUFFICES ASSUME GraphInv PROVE View
  OBVIOUS
<1>. USE DEF GraphInv
<1>1. known = {t \in TaskId : task_index[t] # NoRow}
  <2>1. ASSUME NEW t \in TaskId, task_index[t] # NoRow PROVE get_status(t) # "Undefined"
    <3>1. state[task_index[t]] \in TaskState
      BY <2>1 DEF TypeOK
    <3>. QED
      BY <2>1, <3>1 DEF get_status, TaskState, Active, Final, Ended
  <2>2. \A t \in TaskId : task_index[t] = NoRow => get_status(t) = "Undefined"
    BY DEF get_status
  <2>. QED
    BY <2>1, <2>2 DEF known
<1>2. /\ \A t \in known : task_index[t] \in Rows /\ task_id[task_index[t]] = t
      /\ \A r \in Rows : r # NoRow /\ task_id[r] \in TaskId /\ task_index[task_id[r]] = r
  BY <1>1 DEF TypeOK, IndexInverse, Rows, NoRow
<1>3. \A t \in known : task_index[t] # NoRow
  BY <1>1
<1>4. status_of = [t \in known |-> state[task_index[t]]]
  BY <1>3 DEF status_of, get_status
<1>5. prio_of = [t \in known |-> priority[task_index[t]]]
  BY <1>3 DEF prio_of, get_priority
<1>6. holder_of = [t \in known |-> IF state[task_index[t]] = "Running"
                                    THEN worker_id[task_index[t]] ELSE "NotRunning"]
  BY <1>3 DEF holder_of, get_worker_id
<1>7. result_of = [t \in known |-> output[task_index[t]]]
  BY <1>3 DEF result_of, get_output
<1>. QED
  BY <1>1, <1>2, <1>4, <1>5, <1>6, <1>7 DEF View

\* The same of the table after a step.
LEMMA ViewOfNext == GraphInv' => View'
BY ViewOfTable, PTL

\* A step that changes no column a caller can see is a stuttering step.
LEMMA UnseenStep ==
    ASSUME UNCHANGED <<columns, output, state, worker_id, seq, terminal_origin>>
    PROVE  UNCHANGED Contract!vars
<1>1. known' = known
  BY DEF columns, known, get_status
<1>2. UNCHANGED <<status_of, needs_of, wants_of, prio_of>>
  BY <1>1 DEF columns, status_of, get_status, needs_of, wants_of, prio_of, get_priority, Members
<1>3. UNCHANGED <<arrival_of, holder_of, result_of, culprit_of>>
  BY <1>1 DEF columns, arrival_of, holder_of, get_worker_id, result_of, get_output, culprit_of
<1>. QED
  BY <1>2, <1>3 DEF Contract!vars, columns

\* The numbers enqueue hands out grow with the rows.
LEMMA StampGrows ==
    ASSUME next_seq \in Nat, NEW n \in Nat, NEW R \in SUBSET (1..n), NEW r \in R, NEW s \in R, r < s
    PROVE  Stamp(R, r) < Stamp(R, s)
<1>. DEFINE D(x) == {d \in R : d <= x}
<1>1. D(r) \in SUBSET D(s) /\ s \in D(s) /\ s \notin D(r)
  <2>1. \A d \in R : d \in Int
    OBVIOUS
  <2>2. s <= s /\ ~(s <= r) /\ \A d \in R : d <= r => d <= s
    BY <2>1
  <2>. QED
    BY <2>2
<1>2. D(r) \in SUBSET (1..n) /\ D(s) \in SUBSET (1..n)
  OBVIOUS
<1>3. IsFiniteSet(D(s)) /\ Cardinality(D(s)) \in Nat /\ Cardinality(D(r)) \in Nat
  BY <1>2, FiniteUpTo
<1>4. Cardinality(D(r)) <= Cardinality(D(s)) /\ Cardinality(D(r)) # Cardinality(D(s))
  <2>. HIDE DEF D
  <2>1. Cardinality(D(r)) <= Cardinality(D(s)) /\ (Cardinality(D(s)) = Cardinality(D(r)) => D(s) = D(r))
    BY <1>1, <1>3, FS_Subset
  <2>. QED
    BY <1>1, <2>1
<1>5. Stamp(R, r) = next_seq + Cardinality(D(r)) /\ Stamp(R, s) = next_seq + Cardinality(D(s))
  BY DEF Stamp
<1>. HIDE DEF D
<1>. QED
  BY <1>3, <1>4, <1>5

\* A step that queues the rows R of a table that keeps its rows: their tasks
\* arrive, behind all others and in the order of the rows.
LEMMA EnqueueArrives ==
    ASSUME GraphInv, GraphInv', UNCHANGED <<task_id, task_index>>,
           NEW R \in SUBSET Rows, NEW qcol, NEW pcol, enqueue(R, qcol, pcol, seq)
    PROVE  Contract!Arrive({task_id[r] : r \in R})
<1>. USE DEF GraphInv
<1>. DEFINE T == {task_id[r] : r \in R}
<1>1. View /\ View' /\ Rows' = Rows
  BY ViewOfTable, ViewOfNext DEF Rows
<1>2. known' = known /\ DOMAIN status_of' = known
  BY <1>1 DEF View
<1>3. arrival_of = [t \in known |-> seq[task_index[t]]] /\ arrival_of' = [t \in known |-> seq'[task_index[t]]]
  BY <1>2 DEF arrival_of
<1>4. Len(task_id) \in Nat /\ Rows = 1..Len(task_id) /\ DOMAIN task_id = Rows /\ next_seq \in Nat
  BY DEF TypeOK, Rows
<1>5. \A r \in Rows : seq[r] \in Nat /\ seq[r] <= next_seq
  <2>1. seq \in [Rows -> 0..next_seq]
    BY DEF TypeOK
  <2>. QED
    BY <1>4, <2>1
<1>6. \A r \in Rows : seq'[r] = IF r \in R THEN Stamp(R, r) ELSE seq[r]
  BY DEF enqueue, TypeOK
<1>7. \A r \in R : Stamp(R, r) \in Nat /\ Stamp(R, r) > next_seq
  BY <1>4, StampRange
<1>8. \A t \in T : t \in known /\ task_index[t] \in R
  BY <1>1 DEF View
<1>9. \A t \in known \ T : task_index[t] \in Rows /\ task_index[t] \notin R
  BY <1>1 DEF View
<1>10. \A t \in known \ T : arrival_of'[t] = arrival_of[t]
  BY <1>3, <1>6, <1>9
<1>11. ASSUME NEW t \in T, NEW u \in known PROVE arrival_of'[t] > arrival_of[u]
  <2>1. task_index[u] \in Rows
    BY <1>1 DEF View
  <2>2. arrival_of'[t] = Stamp(R, task_index[t]) /\ arrival_of[u] = seq[task_index[u]]
    BY <1>3, <1>6, <1>8
  <2>3. /\ Stamp(R, task_index[t]) \in Nat /\ Stamp(R, task_index[t]) > next_seq
        /\ seq[task_index[u]] \in Nat /\ seq[task_index[u]] <= next_seq
    BY <1>5, <1>7, <1>8, <2>1
  <2>. QED
    BY <1>4, <2>2, <2>3
<1>12. ASSUME NEW t \in T, NEW u \in T, NEW i \in DOMAIN task_id, NEW j \in DOMAIN task_id,
              i < j, task_id[i] = t, task_id[j] = u
       PROVE  arrival_of'[t] < arrival_of'[u]
  <2>1. i = task_index[t] /\ j = task_index[u]
    BY <1>1, <1>4, <1>12 DEF View
  <2>2. Stamp(R, i) < Stamp(R, j)
    BY <1>4, <1>8, <1>12, <2>1, StampGrows
  <2>. QED
    BY <1>3, <1>6, <1>8, <2>1, <2>2
<1>13. DOMAIN arrival_of = known /\ DOMAIN arrival_of' = known
  BY <1>3
<1>. HIDE DEF T
<1>14. Contract!Arrive(T)
  BY <1>2, <1>10, <1>11, <1>12, <1>13 DEF Contract!Arrive, Contract!AddedEarlier
<1>. QED
  BY <1>14 DEF T

\* What a caller sees of a column that does not change, in a table that keeps
\* its rows.
LEMMA SameView ==
    ASSUME GraphInv, GraphInv', UNCHANGED <<task_id, task_index>>
    PROVE  /\ View /\ View' /\ known' = known /\ Rows' = Rows
           /\ parents' = parents => needs_of' = needs_of
           /\ queues' = queues => wants_of' = wants_of
           /\ priority' = priority => prio_of' = prio_of
           /\ seq' = seq => arrival_of' = arrival_of
           /\ output' = output => result_of' = result_of
           /\ terminal_origin' = terminal_origin => culprit_of' = culprit_of
           /\ state' = state /\ worker_id' = worker_id =>
                status_of' = status_of /\ holder_of' = holder_of
<1>1. View /\ View'
  BY ViewOfTable, ViewOfNext
<1>2. known' = known /\ Rows' = Rows
  BY <1>1 DEF View, Rows
<1>3. parents' = parents => needs_of' = needs_of
  BY <1>2 DEF needs_of, Members
<1>4. queues' = queues => wants_of' = wants_of
  BY <1>2 DEF wants_of, Members
<1>5. seq' = seq => arrival_of' = arrival_of
  BY <1>2 DEF arrival_of
<1>6. terminal_origin' = terminal_origin => culprit_of' = culprit_of
  BY <1>2 DEF culprit_of
<1>7. /\ priority' = priority => prio_of' = prio_of
      /\ output' = output => result_of' = result_of
      /\ state' = state /\ worker_id' = worker_id =>
           status_of' = status_of /\ holder_of' = holder_of
  BY <1>1, <1>2 DEF View
<1>. QED
  BY <1>1, <1>2, <1>3, <1>4, <1>5, <1>6, <1>7

\* task_set_priority.
LEMMA SetPriorityMaps ==
    ASSUME GraphInv, GraphInv', NEW t \in TaskId, NEW p \in Priority, set_priority(t, p)
    PROVE  Contract!SetPriority(t, p)
<1>. DEFINE i == task_index[t]
<1>1. /\ UNCHANGED <<task_id, queues, parents, task_index, output, state, worker_id, terminal_origin>>
      /\ i # NoRow /\ priority' = [priority EXCEPT ![i] = p]
      /\ enqueue(Requeued(i), queues, priority', seq)
  BY DEF set_priority
<1>2. /\ View /\ View' /\ known' = known
      /\ UNCHANGED <<status_of, needs_of, wants_of, holder_of, result_of, culprit_of>>
  BY <1>1, SameView
<1>3. t \in known /\ i \in Rows /\ task_id[i] = t /\ DOMAIN status_of = known
  BY <1>1, <1>2 DEF View
<1>4. prio_of' = [prio_of EXCEPT ![t] = p]
  <2>1. \A u \in known : task_index[u] \in Rows /\ (task_index[u] = i => u = t)
    BY <1>2, <1>3 DEF View
  <2>2. \A u \in known : prio_of'[u] = IF u = t THEN p ELSE prio_of[u]
    BY <1>1, <1>2, <1>3, <2>1 DEF View, GraphInv, TypeOK
  <2>. QED
    BY <1>2, <2>2 DEF View
<1>5. Contract!Arrive(IF status_of[t] = "Ready" THEN {t} ELSE {})
  <2>1. Requeued(i) \in SUBSET Rows
    BY <1>3 DEF Requeued
  <2>2. Contract!Arrive({task_id[r] : r \in Requeued(i)})
    BY <1>1, <2>1, EnqueueArrives
  <2>3. {task_id[r] : r \in Requeued(i)} = IF status_of[t] = "Ready" THEN {t} ELSE {}
    BY <1>2, <1>3 DEF Requeued, View
  <2>. QED
    BY <2>2, <2>3
<1>. QED
  BY <1>1, <1>2, <1>3, <1>4, <1>5 DEF Contract!SetPriority, Contract!Known

\* The ids a caller may be given from a queue are those of its usable entries.
LEMMA ReadyEntries ==
    ASSUME GraphInv, QueueInv, NEW q \in QueueName
    PROVE  /\ \A e \in Usable(q) :
                /\ e.index \in Rows /\ task_id[e.index] \in Contract!ReadyFor(q)
                /\ e.priority = prio_of[task_id[e.index]] /\ e.seq = arrival_of[task_id[e.index]]
           /\ \A t \in Contract!ReadyFor(q) : t \in known /\ \E e \in Usable(q) : e.index = task_index[t]
<1>. USE DEF GraphInv
<1>1. View /\ DOMAIN status_of = known
  BY ViewOfTable DEF View
<1>2. ASSUME NEW e \in Usable(q)
      PROVE  /\ e.index \in Rows /\ task_id[e.index] \in Contract!ReadyFor(q)
             /\ e.priority = prio_of[task_id[e.index]] /\ e.seq = arrival_of[task_id[e.index]]
  <2>1. e \in queue[q] /\ Live(e)
    BY DEF Usable
  <2>2. /\ e.index \in Rows /\ state[e.index] = "Ready" /\ e.seq = seq[e.index]
        /\ e.priority = priority[e.index]
        /\ e.slot \in DOMAIN queues[e.index] /\ queues[e.index][e.slot] = q
    BY <2>1, EntryFields DEF QueueInv, EntriesTrue, Live
  <2>3. task_id[e.index] \in known /\ task_index[task_id[e.index]] = e.index
    BY <1>1, <2>2 DEF View
  <2>4. q \in wants_of[task_id[e.index]]
    BY <2>2, <2>3 DEF wants_of, Members
  <2>. QED
    BY <1>1, <2>2, <2>3, <2>4 DEF View, Contract!ReadyFor, Contract!Known, arrival_of
<1>3. ASSUME NEW t \in Contract!ReadyFor(q)
      PROVE  t \in known /\ \E e \in Usable(q) : e.index = task_index[t]
  <2>. DEFINE r == task_index[t]
  <2>1. t \in known /\ status_of[t] = "Ready" /\ q \in wants_of[t]
    BY <1>1 DEF Contract!ReadyFor, Contract!Known
  <2>2. r \in Rows /\ state[r] = "Ready"
    BY <1>1, <2>1 DEF View
  <2>3. PICK k \in DOMAIN queues[r] : queues[r][k] = q
    BY <2>1 DEF wants_of, Members
  <2>4. EntryOf(r, k) \in queue[q]
    BY <2>2, <2>3 DEF QueueInv, EntriesPresent
  <2>5. EntryOf(r, k) \in Usable(q) /\ EntryOf(r, k).index = r
    BY <2>2, <2>4 DEF Usable, Live, EntryOf
  <2>. QED
    BY <2>1, <2>5
<1>. QED
  BY <1>2, <1>3

\* task_get that claims a row: the entry on top of the heap, dead ones apart, is
\* of the task that comes first by priority and then by arrival.
LEMMA ClaimMaps ==
    ASSUME GraphInv, GraphInv', QueueInv, NEW w \in WorkerId, NEW ql \in QueueLists, get_claim(w, ql)
    PROVE  Contract!Claim(w, ql)
<1>1. PICK k \in DOMAIN ql :
        /\ \A j \in 1..(k - 1) : Usable(ql[j]) = {}
        /\ \E e \in Usable(ql[k]) :
             /\ \A f \in Usable(ql[k]) : ~EntryOrder(e, f)
             /\ state' = [state EXCEPT ![e.index] = "Running"]
             /\ worker_id' = [worker_id EXCEPT ![e.index] = w]
  BY DEF get_claim
<1>2. PICK e \in Usable(ql[k]) :
        /\ \A f \in Usable(ql[k]) : ~EntryOrder(e, f)
        /\ state' = [state EXCEPT ![e.index] = "Running"]
        /\ worker_id' = [worker_id EXCEPT ![e.index] = w]
  BY <1>1
<1>3. UNCHANGED <<task_id, priority, queues, parents, task_index, output, seq, terminal_origin>>
  BY DEF get_claim, columns
<1>4. /\ View /\ View' /\ known' = known
      /\ UNCHANGED <<needs_of, wants_of, prio_of, arrival_of, result_of, culprit_of>>
  BY <1>3, SameView
<1>5. ql \in Seq(QueueName) /\ ql[k] \in QueueName /\ \A j \in 1..(k - 1) : ql[j] \in QueueName
  BY ConstantsAssumption
<1>. DEFINE t == task_id[e.index]
<1>6. /\ e.index \in Rows /\ t \in Contract!ReadyFor(ql[k])
      /\ e.priority = prio_of[t] /\ e.seq = arrival_of[t]
  BY <1>5, ReadyEntries
<1>7. \A j \in 1..(k - 1) : Contract!ReadyFor(ql[j]) = {}
  BY <1>1, <1>5, ReadyEntries
<1>8. ASSUME NEW u \in Contract!ReadyFor(ql[k]) PROVE ~Contract!Precedes(u, t)
  <2>1. PICK f \in Usable(ql[k]) : f.index = task_index[u] /\ u \in known
    BY <1>5, ReadyEntries
  <2>2. task_id[f.index] = u
    BY <1>4, <2>1 DEF View
  <2>3. f.priority = prio_of[u] /\ f.seq = arrival_of[u]
    BY <1>5, <2>1, <2>2, ReadyEntries
  <2>4. /\ e.priority \in Int /\ f.priority \in Int /\ e.seq \in Int /\ f.seq \in Int
    BY <1>5, EntryFields, ConstantsAssumption DEF Usable, GraphInv
  <2>5. ~EntryOrder(e, f)
    BY <1>2
  <2>. QED
    BY <1>6, <2>3, <2>4, <2>5 DEF EntryOrder, Contract!Precedes
<1>9. t \in known /\ task_index[t] = e.index /\ \A u \in known : task_index[u] \in Rows /\ (task_index[u] = e.index => u = t)
  BY <1>4, <1>6 DEF View
<1>10. \A r \in Rows : /\ state'[r] = IF r = e.index THEN "Running" ELSE state[r]
                       /\ worker_id'[r] = IF r = e.index THEN w ELSE worker_id[r]
  BY <1>2, <1>6 DEF GraphInv, TypeOK
<1>11. status_of' = [status_of EXCEPT ![t] = "Running"]
  <2>1. \A u \in known : status_of'[u] = IF u = t THEN "Running" ELSE status_of[u]
    BY <1>3, <1>4, <1>9, <1>10 DEF View
  <2>. QED
    BY <1>4, <2>1 DEF View
<1>12. holder_of' = [holder_of EXCEPT ![t] = w]
  <2>1. \A u \in known : holder_of'[u] = IF u = t THEN w ELSE holder_of[u]
    BY <1>3, <1>4, <1>9, <1>10 DEF View
  <2>. QED
    BY <1>4, <2>1 DEF View
<1>. HIDE DEF t
<1>. QED
  BY <1>3, <1>4, <1>6, <1>7, <1>8, <1>11, <1>12 DEF Contract!Claim

\* The rows whose count lands on zero are those that waited for row i alone.
LEMMA ReleasedWaited ==
    ASSUME GraphInv, NEW i \in Rows, state[i] \in Active, NEW c \in Rows
    PROVE  c \in Released(i) <=>
             /\ state[c] = "Waiting"
             /\ \E k \in DOMAIN parents[c] : parents[c][k] = i
             /\ \A k \in DOMAIN parents[c] : parents[c][k] # i => state[parents[c][k]] = "Finished"
<1>. USE DEF GraphInv
<1>. DEFINE P == {k \in DOMAIN parents[c] : state[parents[c][k]] # "Finished"}
            Q == {k \in DOMAIN parents[c] : parents[c][k] = i}
<1>1. state[i] # "Finished"
  BY DEF Active
<1>2. Q \in SUBSET P
  BY <1>1
<1>3. parents[c] \in Seq(Rows) /\ P \in SUBSET (DOMAIN parents[c])
  BY DEF TypeOK
<1>4. IsFiniteSet(P)
  BY <1>3, FinitePlaces
<1>5. pending_parents[c] = Cardinality(P) /\ Count(i, c) = Cardinality(Q)
  BY <1>1, CountIsPlaces DEF PendingExact
<1>. HIDE DEF P, Q
<1>6. Cardinality(P) \in Nat /\ Cardinality(Q) \in Nat /\ (Cardinality(P) <= Cardinality(Q) => P = Q)
  BY <1>2, <1>4, TakeAway
<1>7. IsFiniteSet(Q) /\ (Cardinality(P) = 0 <=> P = {})
  BY <1>2, <1>4, FS_Subset, FS_EmptySet
<1>8. pending_parents[c] \in 1..Count(i, c) <=> P = Q /\ P # {}
  BY <1>5, <1>6, <1>7
<1>9. (\E k \in DOMAIN parents[c] : parents[c][k] = i) => c \in ChildrenOf(i)
  <2>1. ASSUME NEW k \in DOMAIN parents[c], parents[c][k] = i PROVE c \in ChildrenOf(i)
    <3>1. <<c, k>> \in children[i]
      BY <1>1, <2>1 DEF ChildrenExact
    <3>. QED
      BY <3>1 DEF ChildrenOf
  <2>. QED
    BY <2>1
<1>10. P = Q <=> \A k \in DOMAIN parents[c] : parents[c][k] # i => state[parents[c][k]] = "Finished"
  BY <1>1 DEF P, Q
<1>11. Q # {} <=> \E k \in DOMAIN parents[c] : parents[c][k] = i
  BY DEF Q
<1>. QED
  BY <1>8, <1>9, <1>10, <1>11 DEF Released

\* A task needs the tasks of the rows in its parent list.
LEMMA NeedsRows ==
    ASSUME GraphInv, NEW u \in known
    PROVE  /\ needs_of[u] \in SUBSET known
           /\ \A d \in known : d \in needs_of[u] <=>
                \E k \in DOMAIN parents[task_index[u]] : parents[task_index[u]][k] = task_index[d]
<1>. DEFINE l == parents[task_index[u]]
<1>1. View
  BY ViewOfTable
<1>2. \A k \in DOMAIN l : l[k] \in Rows
  BY <1>1 DEF View, GraphInv, TypeOK
<1>3. needs_of[u] = {task_id[l[k]] : k \in DOMAIN l}
  BY DEF needs_of, Members
<1>. HIDE DEF l
<1>4. needs_of[u] \in SUBSET known
  BY <1>1, <1>2, <1>3 DEF View
<1>5. \A d \in known : d \in needs_of[u] <=> \E k \in DOMAIN l : l[k] = task_index[d]
  BY <1>1, <1>2, <1>3 DEF View
<1>. QED
  BY <1>4, <1>5 DEF l

\* task_done of a run that succeeded.
LEMMA FinishMaps ==
    ASSUME GraphInv, GraphInv', NEW w \in WorkerId, NEW t \in TaskId, NEW out \in Output,
           done_finished(w, t, out)
    PROVE  Contract!Finish(w, t, out)
<1>. DEFINE i == task_index[t]
            R == {u \in known : /\ status_of[u] = "Waiting" /\ t \in needs_of[u]
                                /\ \A d \in needs_of[u] \ {t} : status_of[d] = "Finished"}
<1>1. /\ UNCHANGED <<task_id, priority, queues, parents, task_index, worker_id, terminal_origin>>
      /\ output' = [output EXCEPT ![i] = out]
      /\ state' = [r \in Rows |-> IF r = i THEN "Finished"
                                  ELSE IF r \in Released(i) THEN "Ready" ELSE state[r]]
      /\ enqueue(Released(i), queues, priority, seq)
  BY DEF done_finished, columns
<1>2. /\ View /\ View' /\ known' = known
      /\ UNCHANGED <<needs_of, wants_of, prio_of, culprit_of>>
  BY <1>1, SameView
<1>3. i # NoRow /\ state[i] = "Running" /\ worker_id[i] = w
  BY DEF done_finished, done_result
<1>4. t \in known /\ i \in Rows /\ task_id[i] = t
      /\ \A u \in known : task_index[u] \in Rows /\ (task_index[u] = i <=> u = t)
  BY <1>2, <1>3 DEF View
<1>5. Contract!Holds(w, t) /\ DOMAIN status_of = known
  BY <1>2, <1>3, <1>4 DEF Contract!Holds, Contract!Known, View
<1>6. ASSUME NEW u \in known PROVE u \in R <=> task_index[u] \in Released(i)
  <2>. DEFINE l == parents[task_index[u]]
  <2>1. /\ needs_of[u] \in SUBSET known
        /\ \A d \in known : d \in needs_of[u] <=> \E k \in DOMAIN l : l[k] = task_index[d]
    BY NeedsRows
  <2>2. task_index[u] \in Released(i) <=>
          /\ state[task_index[u]] = "Waiting"
          /\ \E k \in DOMAIN l : l[k] = i
          /\ \A k \in DOMAIN l : l[k] # i => state[l[k]] = "Finished"
    BY <1>3, <1>4, ReleasedWaited DEF Active
  <2>3. \A k \in DOMAIN l : l[k] \in Rows
    BY <1>4 DEF GraphInv, TypeOK
  <2>. HIDE DEF l
  <2>4. t \in needs_of[u] <=> \E k \in DOMAIN l : l[k] = i
    BY <1>4, <2>1
  <2>5. ASSUME NEW k \in DOMAIN l, l[k] # i, \A d \in needs_of[u] \ {t} : status_of[d] = "Finished"
        PROVE  state[l[k]] = "Finished"
    <3>1. task_id[l[k]] \in known /\ task_index[task_id[l[k]]] = l[k]
      BY <1>2, <2>3 DEF View
    <3>2. \E j \in DOMAIN l : l[j] = task_index[task_id[l[k]]]
      BY <3>1
    <3>3. task_id[l[k]] \in needs_of[u]
      BY <2>1, <3>1, <3>2
    <3>4. task_id[l[k]] # t
      BY <2>5, <3>1
    <3>5. status_of[task_id[l[k]]] = "Finished"
      BY <2>5, <3>3, <3>4
    <3>6. status_of[task_id[l[k]]] = state[task_index[task_id[l[k]]]]
      BY <1>2, <3>1 DEF View
    <3>. QED
      BY <3>1, <3>5, <3>6
  <2>6. ASSUME NEW d \in needs_of[u] \ {t}, \A k \in DOMAIN l : l[k] # i => state[l[k]] = "Finished"
        PROVE  status_of[d] = "Finished"
    <3>1. d \in known /\ task_index[d] # i
      BY <1>4, <2>1
    <3>2. PICK k \in DOMAIN l : l[k] = task_index[d]
      BY <2>1, <3>1
    <3>. QED
      BY <1>2, <2>6, <3>1, <3>2 DEF View
  <2>7. status_of[u] = state[task_index[u]]
    BY <1>2 DEF View
  <2>. QED
    BY <2>2, <2>4, <2>5, <2>6, <2>7
<1>7. Released(i) \in SUBSET Rows /\ i \notin Released(i)
      /\ \A r \in Released(i) : state[r] = "Waiting"
  BY <1>3, <1>4 DEF Released, ChildrenOf, GraphInv, TypeOK
<1>8. {task_id[r] : r \in Released(i)} = R
  <2>. \A u \in R : u \in known
    OBVIOUS
  <2>. HIDE DEF R
  <2>1. ASSUME NEW r \in Released(i) PROVE task_id[r] \in R
    BY <1>2, <1>6, <1>7 DEF View
  <2>2. ASSUME NEW u \in R PROVE \E r \in Released(i) : task_id[r] = u
    BY <1>2, <1>6 DEF View
  <2>. QED
    BY <2>1, <2>2
<1>9. Contract!Arrive(R)
  BY <1>1, <1>7, <1>8, EnqueueArrives
<1>10. \A u \in known : state'[task_index[u]] = IF u = t THEN "Finished"
                                                ELSE IF u \in R THEN "Ready" ELSE status_of[u]
  <2>. HIDE DEF R
  <2>. QED
    BY <1>1, <1>2, <1>4, <1>6 DEF View
<1>11. status_of' = [u \in known |-> IF u = t THEN "Finished"
                                     ELSE IF u \in R THEN "Ready" ELSE status_of[u]]
  <2>. HIDE DEF R
  <2>. QED
    BY <1>1, <1>2, <1>10 DEF View
<1>12. holder_of' = [holder_of EXCEPT ![t] = "NotRunning"]
  <2>1. \A u \in R : status_of[u] = "Waiting"
    OBVIOUS
  <2>. HIDE DEF R
  <2>2. \A u \in known : holder_of'[u] = IF u = t THEN "NotRunning" ELSE holder_of[u]
    BY <1>1, <1>2, <1>10, <2>1 DEF View
  <2>. QED
    BY <1>2, <2>2 DEF View
<1>13. result_of' = [result_of EXCEPT ![t] = out]
  <2>1. \A r \in Rows : output'[r] = IF r = i THEN out ELSE output[r]
    BY <1>1, <1>4 DEF GraphInv, TypeOK
  <2>2. \A u \in known : result_of'[u] = IF u = t THEN out ELSE result_of[u]
    BY <1>1, <1>2, <1>4, <2>1 DEF View
  <2>. QED
    BY <1>2, <2>2 DEF View
<1>. QED
  BY <1>1, <1>2, <1>5, <1>9, <1>11, <1>12, <1>13 DEF Contract!Finish, Contract!Known

\* A task depends on earlier tasks only: the walk down from a row moves none
\* before it.
LEMMA ReachedAfter ==
    ASSUME GraphInv, NEW i \in Rows, NEW r \in Reached(i)
    PROVE  r > i
<1>. USE DEF GraphInv
<1>. DEFINE T == {s \in Movable(i) : s > i}
<1>1. Rows \subseteq Nat /\ Movable(i) \subseteq Rows
  BY DEF TypeOK, Rows, Movable
<1>2. ASSUME NEW p \in T \cup {i}, NEW c \in ChildrenOf(p) \cap Movable(i) PROVE c \in T
  <2>0. p \in Rows /\ c \in Rows /\ (p = i \/ p > i)
    BY <1>1
  <2>1. p \in Rows /\ c \in Rows /\ p >= i
    <3>1. p \in Nat /\ i \in Nat
      BY <1>1, <2>0
    <3>. QED
      BY <2>0, <3>1
  <2>2. PICK reg \in children[p] : c = reg[1]
    BY DEF ChildrenOf
  <2>3. reg[2] \in DOMAIN parents[c] /\ parents[c][reg[2]] = p
    BY <2>1, <2>2 DEF ChildrenExact
  <2>4. p < c
    BY <2>1, <2>3 DEF ParentsPrecede
  <2>5. p \in Nat /\ c \in Nat /\ i \in Nat
    BY <1>1, <2>1
  <2>6. c > i
    BY <2>1, <2>4, <2>5
  <2>. QED
    BY <2>6
<1>3. Closed(T, i) /\ T \in SUBSET Movable(i)
  BY <1>2 DEF Closed
<1>. HIDE DEF T
<1>4. r \in T
  BY <1>3 DEF Reached
<1>. QED
  BY <1>4 DEF T

\* What ends with row i is reached: whoever needs a row that ended has ended,
\* and whoever needs a row that is reached waits for it, after it.
LEMMA DependentReached ==
    ASSUME GraphInv, NEW i \in Rows, state[i] \in Active,
           NEW u \in Contract!Dependents(task_id[i]), status_of[u] \in Active
    PROVE  u \in known /\ task_index[u] \in Reached(i)
<1>. USE DEF GraphInv
<1>. DEFINE t == task_id[i]
            S == {v \in known : task_index[v] \in Reached(i) \/ state[task_index[v]] \in Ended}
<1>1. View /\ DOMAIN status_of = known
  BY ViewOfTable DEF View
<1>2. t \in known /\ task_index[t] = i
  BY <1>1 DEF View
<1>3. ASSUME NEW v \in known, needs_of[v] \cap (S \cup {t}) # {} PROVE v \in S
  <2>. DEFINE c == task_index[v]
  <2>1. PICK d \in needs_of[v] : d \in S \cup {t}
    BY <1>3
  <2>. DEFINE p == task_index[d]
  <2>2. d \in known /\ p \in Rows /\ c \in Rows
    BY <1>1, <1>2, <2>1 DEF View
  <2>3. PICK k \in DOMAIN parents[c] : parents[c][k] = p
    BY <2>1, <2>2, NeedsRows
  <2>4. state[p] \in Ended \/ p \in Reached(i) \cup {i}
    BY <1>2, <2>1
  <2>5. state[c] \in TaskState
    BY <2>2 DEF TypeOK
  <2>6. CASE state[p] \in Ended
    <3>1. state[c] # "Waiting"
      BY <2>2, <2>3, <2>6 DEF NoStrandedWaiter
    <3>2. state[c] \notin {"Ready", "Running", "Finished"}
      BY <2>2, <2>3, <2>6 DEF DispatchAfterParents, Ended
    <3>. QED
      BY <2>5, <3>1, <3>2 DEF TaskState, Final, Active, Ended
  <2>7. CASE p \in Reached(i) \cup {i}
    <3>1. state[p] \in Active
      BY <2>7 DEF Reached, Movable
    <3>2. state[c] \notin {"Ready", "Running", "Finished"}
      BY <2>2, <2>3, <3>1 DEF DispatchAfterParents, Active
    <3>3. state[c] \in Active \/ state[c] \in Ended
      BY <2>5, <3>2 DEF TaskState, Final, Active, Ended
    <3>4. c # i
      <4>1. p >= i /\ p \in Nat /\ i \in Nat
        <5>1. p \in Nat /\ i \in Nat
          BY <2>2 DEF Rows, TypeOK
        <5>2. p > i \/ p = i
          <6>. HIDE DEF p
          <6>. QED
            BY <2>7, ReachedAfter
        <5>. QED
          BY <5>1, <5>2
      <4>2. p < c /\ c \in Nat
        BY <2>2, <2>3 DEF ParentsPrecede, Rows, TypeOK
      <4>. QED
        BY <4>1, <4>2
    <3>5. <<c, k>> \in children[p]
      BY <2>2, <2>3, <3>1 DEF ChildrenExact, Active
    <3>6. c \in ChildrenOf(p)
      BY <3>5 DEF ChildrenOf
    <3>7. CASE state[c] \in Active
      <4>1. c \in Movable(i)
        BY <2>2, <3>4, <3>7 DEF Movable
      <4>2. c \in ChildrenOf(p) \cap Movable(i)
        BY <3>6, <4>1
      <4>3. c \in Reached(i)
        <5>. HIDE DEF c, p
        <5>. QED
          BY <2>7, <4>2, ReachedClosed
      <4>. QED
        BY <4>3
    <3>. QED
      BY <3>3, <3>7
  <2>. QED
    BY <2>4, <2>6, <2>7
<1>4. S \in SUBSET known
  OBVIOUS
<1>. HIDE DEF S
<1>5. u \in known /\ u \in S
  BY <1>1, <1>3, <1>4 DEF Contract!Dependents, Contract!Known
<1>6. state[task_index[u]] \in Active
  BY <1>1, <1>5 DEF View
<1>. QED
  BY <1>5, <1>6 DEF S, Active, Ended

\* What is reached from row i depends on its task.
LEMMA ReachedDependent ==
    ASSUME GraphInv, NEW i \in Rows, NEW r \in Reached(i)
    PROVE  task_id[r] \in Contract!Dependents(task_id[i])
<1>. USE DEF GraphInv
<1>. DEFINE t == task_id[i]
<1>1. View /\ DOMAIN status_of = known /\ Movable(i) \subseteq Rows /\ r \in Rows
  BY ViewOfTable DEF View, Movable, Reached
<1>2. ASSUME NEW S \in SUBSET known,
             \A v \in known : (needs_of[v] \cap (S \cup {t}) # {}) => v \in S
      PROVE  task_id[r] \in S
  <2>. DEFINE T == {s \in Movable(i) : task_id[s] \in S}
  <2>1. ASSUME NEW p \in T \cup {i}, NEW c \in ChildrenOf(p) \cap Movable(i) PROVE c \in T
    <3>1. p \in Rows /\ c \in Rows /\ task_id[p] \in S \cup {t}
      BY <1>1
    <3>2. PICK reg \in children[p] : c = reg[1]
      BY DEF ChildrenOf
    <3>3. reg[2] \in DOMAIN parents[c] /\ parents[c][reg[2]] = p
      BY <3>1, <3>2 DEF ChildrenExact
    <3>4. task_id[c] \in known /\ task_index[task_id[c]] = c /\ task_id[p] \in known
          /\ task_index[task_id[p]] = p
      BY <1>1, <3>1 DEF View
    <3>5. task_id[p] \in needs_of[task_id[c]]
      BY <3>3, <3>4, NeedsRows
    <3>6. task_id[c] \in S
      BY <1>2, <3>1, <3>4, <3>5
    <3>. QED
      BY <3>6
  <2>2. Closed(T, i) /\ T \in SUBSET Movable(i)
    BY <2>1 DEF Closed
  <2>. HIDE DEF T
  <2>3. r \in T
    BY <2>2 DEF Reached
  <2>. QED
    BY <2>3 DEF T
<1>3. task_id[r] \in known
  BY <1>1 DEF View
<1>. QED
  BY <1>1, <1>2, <1>3 DEF Contract!Dependents, Contract!Known

\* A task that ends takes with it what depends on it and is still active: the
\* walk over the children lists is the closure over the dependencies.
LEMMA EndMaps ==
    ASSUME GraphInv, GraphInv', NEW i \in Rows, state[i] \in Active, NEW st \in Ended,
           NEW out, NEW worker, EndWithDependents(i, st, out, worker)
    PROVE  Contract!EndAll(task_id[i], st, out)
<1>. DEFINE t == task_id[i]
            D == {u \in Contract!Dependents(t) : status_of[u] \in Active}
            R == Reached(i)
<1>1. /\ UNCHANGED <<task_id, priority, queues, parents, task_index, seq>>
      /\ state' = [r \in Rows |-> IF r = i \/ r \in R THEN st ELSE state[r]]
      /\ output' = [r \in Rows |-> IF r = i THEN out
                                   ELSE IF r \in R THEN terminal_output(st, task_id[i])
                                   ELSE output[r]]
      /\ terminal_origin' = [r \in Rows |-> IF r = i \/ r \in R THEN i ELSE terminal_origin[r]]
      /\ worker_id' = [r \in Rows |-> IF r = i THEN worker ELSE IF r \in R THEN Empty ELSE worker_id[r]]
  BY DEF EndWithDependents, columns
<1>2. /\ View /\ View' /\ known' = known /\ DOMAIN status_of = known
      /\ UNCHANGED <<needs_of, wants_of, prio_of, arrival_of>>
  BY <1>1, SameView DEF View
<1>3. t \in known /\ \A u \in known : task_index[u] \in Rows /\ (task_index[u] = i <=> u = t)
  BY <1>2 DEF View
<1>4. ASSUME NEW u \in known PROVE u \in D <=> task_index[u] \in R
  <2>1. u \in D => task_index[u] \in R
    BY DependentReached
  <2>2. ASSUME task_index[u] \in R PROVE u \in D
    <3>1. task_id[task_index[u]] = u /\ state[task_index[u]] \in Active
      BY <1>2, <2>2 DEF View, Reached, Movable
    <3>2. u \in Contract!Dependents(t)
      BY <2>2, <3>1, ReachedDependent
    <3>3. status_of[u] \in Active
      BY <1>2, <3>1 DEF View
    <3>. QED
      BY <3>2, <3>3
  <2>. QED
    BY <2>1, <2>2
<1>. HIDE DEF t, D, R
<1>5. status_of' = [u \in known |-> IF u = t \/ u \in D THEN st ELSE status_of[u]]
  <2>1. \A u \in known : status_of'[u] = IF u = t \/ u \in D THEN st ELSE status_of[u]
    BY <1>1, <1>2, <1>3, <1>4 DEF View
  <2>. QED
    BY <1>2, <2>1 DEF View
<1>6. holder_of' = [u \in known |-> IF u = t \/ u \in D THEN "NotRunning" ELSE holder_of[u]]
  <2>1. st # "Running"
    BY DEF Ended
  <2>2. \A u \in known : holder_of'[u] = IF u = t \/ u \in D THEN "NotRunning" ELSE holder_of[u]
    BY <1>1, <1>2, <1>3, <1>4, <2>1 DEF View
  <2>. QED
    BY <1>2, <2>2 DEF View
<1>7. culprit_of' = [u \in known |-> IF u = t \/ u \in D THEN t ELSE culprit_of[u]]
  BY <1>1, <1>2, <1>3, <1>4 DEF culprit_of, t
<1>8. result_of' = [u \in known |-> IF u = t THEN out
                                    ELSE IF u \notin D THEN result_of[u]
                                    ELSE IF st = "Failed" THEN DependencyFailed(t)
                                    ELSE CanceledOutput]
  <2>1. terminal_output(st, task_id[i]) = IF st = "Failed" THEN DependencyFailed(t) ELSE CanceledOutput
    BY DEF terminal_output, t
  <2>2. \A u \in known : result_of'[u] = IF u = t THEN out
                                         ELSE IF u \notin D THEN result_of[u]
                                         ELSE IF st = "Failed" THEN DependencyFailed(t)
                                         ELSE CanceledOutput
    BY <1>1, <1>2, <1>3, <1>4, <2>1 DEF View
  <2>. QED
    BY <1>2, <2>2 DEF View
<1>9. D = {u \in Contract!Dependents(t) : status_of[u] \in Contract!Active}
  BY DEF D, Active, Contract!Active
<1>10. Contract!EndAll(t, st, out)
  BY <1>1, <1>2, <1>5, <1>6, <1>7, <1>8, <1>9 DEF Contract!EndAll, Contract!Known
<1>. QED
  BY <1>10 DEF t

\* task_cancel.
LEMMA CancelMaps ==
    ASSUME GraphInv, GraphInv', NEW t \in TaskId, cancel(t)
    PROVE  Contract!Cancel(t)
<1>. DEFINE i == task_index[t]
<1>1. i # NoRow /\ state[i] \in Active
  BY DEF cancel, cancel_result
<1>2. View
  BY ViewOfTable
<1>3. t \in known /\ i \in Rows /\ task_id[i] = t /\ status_of[t] = state[i] /\ DOMAIN status_of = known
  BY <1>1, <1>2 DEF View
<1>4. EndWithDependents(i, "Canceled", CanceledOutput, Empty)
  BY DEF cancel, terminal_output
<1>5. Contract!EndAll(t, "Canceled", CanceledOutput)
  BY <1>1, <1>3, <1>4, EndMaps DEF Ended
<1>. QED
  BY <1>1, <1>3, <1>5 DEF Contract!Cancel, Contract!Known, Contract!Active, Active

\* task_done of a run that failed.
LEMMA FailMaps ==
    ASSUME GraphInv, GraphInv', NEW w \in WorkerId, NEW t \in TaskId, NEW out \in Output,
           done_failed(w, t, out)
    PROVE  Contract!Fail(w, t, out)
<1>. DEFINE i == task_index[t]
<1>1. i # NoRow /\ state[i] = "Running" /\ worker_id[i] = w
  BY DEF done_failed, done_result
<1>2. View
  BY ViewOfTable
<1>3. t \in known /\ i \in Rows /\ task_id[i] = t /\ DOMAIN status_of = known
      /\ status_of[t] = "Running" /\ holder_of[t] = w
  BY <1>1, <1>2 DEF View
<1>4. EndWithDependents(i, "Failed", out, worker_id[i])
  BY DEF done_failed
<1>5. Contract!EndAll(t, "Failed", out)
  BY <1>1, <1>3, <1>4, EndMaps DEF Ended, Active
<1>. QED
  BY <1>3, <1>5 DEF Contract!Fail, Contract!Holds, Contract!Known

\* The state task_add computes from a list of parent rows is the one the
\* contract gives a task that depends on the set of their ids.
LEMMA AddedStatus ==
    ASSUME GraphInv, NEW pl \in Seq(TaskId), \A k \in DOMAIN pl : pl[k] \in known
    PROVE  LET pr == [k \in DOMAIN pl |-> task_index[pl[k]]] IN
           /\ pr \in Seq(Rows)
           /\ \A k \in DOMAIN pl : state[pr[k]] = status_of[pl[k]] /\ task_id[pr[k]] = pl[k]
           /\ AddedState(pr) = Contract!StatusUnder(Members(pl))
<1>. DEFINE pr == [k \in DOMAIN pl |-> task_index[pl[k]]]
<1>1. View
  BY ViewOfTable
<1>2. \A k \in DOMAIN pl : task_index[pl[k]] \in Rows /\ task_id[task_index[pl[k]]] = pl[k]
  BY <1>1 DEF View
<1>3. pr \in Seq(Rows) /\ DOMAIN pr = DOMAIN pl /\ \A k \in DOMAIN pl : pr[k] = task_index[pl[k]]
  BY <1>2
<1>4. \A k \in DOMAIN pl : state[pr[k]] = status_of[pl[k]]
  BY <1>1, <1>3 DEF View
<1>. HIDE DEF pr
<1>5. \A st : PlacesIn(pr, st) # {} <=> \E d \in Members(pl) : status_of[d] = st
  BY <1>3, <1>4 DEF PlacesIn, Members
<1>6. PendingCount(pr) > 0 <=> \E d \in Members(pl) : status_of[d] # "Finished"
  <2>1. PendingCount(pr) > 0 <=> Unfinished(pr) # {}
    BY <1>3, PendingCountZero
  <2>. QED
    BY <1>3, <1>4, <2>1 DEF Unfinished, Members
<1>7. AddedState(pr) = Contract!StatusUnder(Members(pl))
  BY <1>5, <1>6 DEF AddedState, Contract!StatusUnder
<1>8. \A k \in DOMAIN pl : task_id[pr[k]] = pl[k]
  BY <1>2, <1>3
<1>. QED
  BY <1>3, <1>4, <1>7, <1>8 DEF pr

\* task_add.
LEMMA AddMaps ==
    ASSUME GraphInv, GraphInv', NEW t \in TaskId, NEW pl \in ParentLists, NEW ql \in QueueLists,
           NEW p \in Priority, add(t, pl, ql, p)
    PROVE  t \notin known /\ Members(pl) \in SUBSET known /\ Contract!Add(t, Members(pl), Members(ql), p)
<1>. DEFINE n == Len(task_id)
            pr == [k \in DOMAIN pl |-> task_index[pl[k]]]
            st == AddedState(pr)
            origin == AddedOrigin(pr, n + 1)
            out == IF st \in Ended THEN terminal_output(st, task_id[origin]) ELSE Empty
            scol == push_back(seq, 0)
<1>1. /\ task_index' = [task_index EXCEPT ![t] = n + 1] /\ task_id' = Append(task_id, t)
      /\ output' = push_back(output, out) /\ state' = push_back(state, st)
      /\ priority' = push_back(priority, p) /\ queues' = push_back(queues, ql)
      /\ worker_id' = push_back(worker_id, Empty)
      /\ terminal_origin' = push_back(terminal_origin, origin) /\ parents' = push_back(parents, pr)
      /\ enqueue(IF st = "Ready" THEN {n + 1} ELSE {}, queues', priority', scol)
  BY DEF add
<1>2. task_index[t] = NoRow /\ \A k \in DOMAIN pl : task_index[pl[k]] # NoRow
  BY DEF add, add_result
<1>3. View /\ View' /\ pl \in Seq(TaskId)
  BY ViewOfTable, ViewOfNext, ConstantsAssumption
<1>4. t \notin known /\ \A k \in DOMAIN pl : pl[k] \in known
  <2>1. known = {u \in TaskId : task_index[u] # NoRow}
    BY <1>3 DEF View
  <2>. QED
    BY <1>2, <1>3, <2>1
<1>5. /\ pr \in Seq(Rows) /\ DOMAIN pr = DOMAIN pl
      /\ \A k \in DOMAIN pl : state[pr[k]] = status_of[pl[k]] /\ task_id[pr[k]] = pl[k]
      /\ st = Contract!StatusUnder(Members(pl))
  BY <1>3, <1>4, AddedStatus
<1>6. /\ st \in {"Ready", "Waiting", "Failed", "Canceled"}
      /\ st \in Ended => /\ First(PlacesIn(pr, st)) \in DOMAIN pr
                         /\ state[pr[First(PlacesIn(pr, st))]] = st
  BY <1>5, AddedStateCases DEF GraphInv
<1>7. IF st \in Ended THEN origin = terminal_origin[pr[First(PlacesIn(pr, st))]] ELSE origin = n + 1
  BY DEF AddedOrigin
<1>. HIDE DEF pr, st, origin, out, scol
<1>8. n \in Nat /\ Rows = 1..n /\ DOMAIN task_id = Rows /\ n + 1 \notin Rows /\ n + 1 # NoRow
  BY DEF GraphInv, TypeOK, Rows, NoRow
<1>9. /\ task_id'[n + 1] = t /\ state'[n + 1] = st /\ output'[n + 1] = out /\ priority'[n + 1] = p
      /\ queues'[n + 1] = ql /\ terminal_origin'[n + 1] = origin /\ parents'[n + 1] = pr
      /\ worker_id'[n + 1] = Empty
  BY <1>1, <1>8 DEF push_back, GraphInv, TypeOK
<1>10. \A r \in Rows : /\ task_id'[r] = task_id[r] /\ state'[r] = state[r] /\ output'[r] = output[r]
                       /\ priority'[r] = priority[r] /\ queues'[r] = queues[r]
                       /\ terminal_origin'[r] = terminal_origin[r] /\ parents'[r] = parents[r]
                       /\ worker_id'[r] = worker_id[r]
  <2>1. \A r \in Rows : task_id'[r] = task_id[r]
    BY <1>1, <1>8 DEF GraphInv, TypeOK
  <2>. QED
    BY <1>1, <1>8, <2>1 DEF push_back
<1>11. /\ \A u \in known : task_index'[u] = task_index[u] /\ task_index[u] \in Rows /\ u # t
       /\ task_index'[t] = n + 1
  BY <1>1, <1>3, <1>4 DEF View, GraphInv, TypeOK
<1>12. known' = known \cup {t} /\ DOMAIN status_of = known
  <2>1. /\ known = {u \in TaskId : task_index[u] # NoRow}
        /\ known' = {u \in TaskId : task_index'[u] # NoRow}
        /\ DOMAIN status_of = known
    BY <1>3 DEF View, NoRow
  <2>2. \A u \in TaskId : task_index'[u] = IF u = t THEN n + 1 ELSE task_index[u]
    BY <1>1 DEF GraphInv, TypeOK
  <2>. QED
    BY <1>8, <2>1, <2>2
<1>13. /\ status_of' = Contract!With(status_of, t, st)
       /\ prio_of' = Contract!With(prio_of, t, p)
       /\ result_of' = Contract!With(result_of, t, out)
  <2>1. /\ \A u \in known : /\ status_of'[u] = status_of[u] /\ prio_of'[u] = prio_of[u]
                            /\ result_of'[u] = result_of[u]
        /\ status_of'[t] = st /\ prio_of'[t] = p /\ result_of'[t] = out
    BY <1>3, <1>9, <1>10, <1>11, <1>12 DEF View
  <2>2. /\ DOMAIN status_of = known /\ DOMAIN prio_of = known /\ DOMAIN result_of = known
        /\ status_of' = [u \in known' |-> status_of'[u]] /\ prio_of' = [u \in known' |-> prio_of'[u]]
        /\ result_of' = [u \in known' |-> result_of'[u]]
    BY <1>3 DEF View
  <2>. QED
    BY <1>4, <1>12, <2>1, <2>2 DEF Contract!With
<1>14. holder_of' = Contract!With(holder_of, t, "NotRunning")
  <2>1. holder_of'[t] = "NotRunning" /\ \A u \in known : holder_of'[u] = holder_of[u]
    BY <1>3, <1>6, <1>9, <1>10, <1>11, <1>12 DEF View
  <2>2. DOMAIN holder_of = known /\ holder_of' = [u \in known' |-> holder_of'[u]]
    BY <1>3 DEF View
  <2>. QED
    BY <1>4, <1>12, <2>1, <2>2 DEF Contract!With
<1>15. wants_of' = Contract!With(wants_of, t, Members(ql))
  <2>1. wants_of = [u \in known |-> Members(queues[task_index[u]])]
    BY DEF wants_of
  <2>2. wants_of' = [u \in known' |-> Members(queues'[task_index'[u]])]
    BY DEF wants_of, Members
  <2>3. \A u \in known' : wants_of'[u] = IF u = t THEN Members(ql) ELSE wants_of[u]
    BY <1>4, <1>9, <1>10, <1>11, <1>12, <2>1, <2>2
  <2>. QED
    BY <1>12, <2>1, <2>2, <2>3 DEF Contract!With
<1>16. needs_of' = Contract!With(needs_of, t, Members(pl))
  <2>1. needs_of = [u \in known |-> {task_id[r] : r \in Members(parents[task_index[u]])}]
    BY DEF needs_of
  <2>2. needs_of' = [u \in known' |-> {task_id'[r] : r \in Members(parents'[task_index'[u]])}]
    BY DEF needs_of, Members
  <2>3. ASSUME NEW u \in known PROVE needs_of'[u] = needs_of[u]
    <3>1. parents[task_index[u]] \in Seq(Rows)
      BY <1>11 DEF GraphInv, TypeOK
    <3>2. \A r \in Members(parents[task_index[u]]) : r \in Rows
      BY <3>1 DEF Members
    <3>. QED
      BY <1>10, <1>11, <1>12, <2>1, <2>2, <3>2
  <2>4. needs_of'[t] = Members(pl)
    <3>1. needs_of'[t] = {task_id'[r] : r \in Members(pr)}
      BY <1>9, <1>11, <1>12, <2>2
    <3>2. \A k \in DOMAIN pr : pr[k] \in Rows /\ task_id'[pr[k]] = pl[k]
      BY <1>5, <1>10
    <3>. QED
      BY <1>5, <3>1, <3>2 DEF Members
  <2>. QED
    BY <1>4, <1>12, <2>1, <2>2, <2>3, <2>4 DEF Contract!With
<1>. DEFINE c == IF st \in Ended THEN task_id[origin] ELSE t
<1>17. culprit_of' = Contract!With(culprit_of, t, c)
  <2>1. /\ culprit_of = [u \in known |-> task_id[terminal_origin[task_index[u]]]]
        /\ culprit_of' = [u \in known' |-> task_id'[terminal_origin'[task_index'[u]]]]
    BY DEF culprit_of
  <2>2. ASSUME NEW u \in known PROVE culprit_of'[u] = culprit_of[u]
    <3>1. terminal_origin[task_index[u]] \in Rows
      BY <1>11 DEF GraphInv, TypeOK
    <3>. QED
      BY <1>10, <1>11, <1>12, <2>1, <3>1
  <2>3. culprit_of'[t] = c
    <3>1. culprit_of'[t] = task_id'[origin]
      BY <1>9, <1>11, <1>12, <2>1
    <3>2. st \in Ended => origin \in Rows
      BY <1>5, <1>6, <1>7 DEF GraphInv, TypeOK
    <3>. QED
      BY <1>7, <1>9, <1>10, <3>1, <3>2
  <2>. QED
    BY <1>4, <1>12, <2>1, <2>2, <2>3 DEF Contract!With
<1>18. c \in IF st \in Ended THEN {culprit_of[d] : d \in {e \in Members(pl) : status_of[e] = st}} ELSE {t}
  <2>. SUFFICES ASSUME st \in Ended
                PROVE  \E e \in Members(pl) : status_of[e] = st /\ task_id[origin] = culprit_of[e]
    OBVIOUS
  <2>. DEFINE k == First(PlacesIn(pr, st))
  <2>1. k \in DOMAIN pl /\ state[pr[k]] = st /\ origin = terminal_origin[pr[k]]
    BY <1>5, <1>6, <1>7
  <2>2. pl[k] \in Members(pl) /\ status_of[pl[k]] = st /\ pl[k] \in known
    BY <1>4, <1>5, <2>1 DEF Members
  <2>3. task_index[pl[k]] = pr[k]
    BY <2>1 DEF pr
  <2>. HIDE DEF k
  <2>4. culprit_of[pl[k]] = task_id[origin]
    BY <2>1, <2>2, <2>3 DEF culprit_of
  <2>. QED
    BY <2>2, <2>4
<1>19. out = IF st = "Failed" THEN DependencyFailed(c) ELSE IF st = "Canceled" THEN CanceledOutput ELSE Empty
  BY DEF out, terminal_output, Ended
<1>20. Contract!Arrive(IF st = "Ready" THEN {t} ELSE {})
  <2>. DEFINE R == IF st = "Ready" THEN {n + 1} ELSE {}
  <2>1. /\ arrival_of = [u \in known |-> seq[task_index[u]]]
        /\ arrival_of' = [u \in known' |-> seq'[task_index'[u]]]
    BY DEF arrival_of
  <2>2. /\ \A r \in Rows : seq'[r] = seq[r]
        /\ st = "Ready" => seq'[n + 1] = Stamp(R, n + 1)
    BY <1>1, <1>8 DEF enqueue, scol, push_back
  <2>3. \A u \in known : arrival_of'[u] = arrival_of[u] /\ arrival_of[u] = seq[task_index[u]]
    BY <1>11, <1>12, <2>1, <2>2
  <2>4. ASSUME st = "Ready", NEW u \in known PROVE arrival_of'[t] > arrival_of[u]
    <3>1. seq[task_index[u]] \in Nat /\ seq[task_index[u]] <= next_seq /\ next_seq \in Nat
      <4>1. seq \in [Rows -> 0..next_seq] /\ next_seq \in Nat
        BY DEF GraphInv, TypeOK
      <4>. QED
        BY <1>11, <4>1
    <3>2. Stamp(R, n + 1) \in Nat /\ Stamp(R, n + 1) > next_seq
      <4>1. R \in SUBSET (1..(n + 1)) /\ n + 1 \in R /\ n + 1 \in Nat
        BY <1>8, <2>4
      <4>. HIDE DEF R
      <4>. QED
        BY <3>1, <4>1, StampRange
    <3>3. arrival_of'[t] = Stamp(R, n + 1)
      BY <1>11, <1>12, <2>1, <2>2, <2>4
    <3>. QED
      BY <2>3, <3>1, <3>2, <3>3
  <2>5. ~Contract!AddedEarlier(t, t)
    BY <1>3, <1>4, <1>8 DEF Contract!AddedEarlier, View
  <2>6. DOMAIN arrival_of = known /\ DOMAIN arrival_of' = known' /\ DOMAIN status_of' = known'
    BY <1>3, <2>1 DEF View
  <2>. QED
    BY <1>4, <2>3, <2>4, <2>5, <2>6 DEF Contract!Arrive
<1>21. Members(pl) \in SUBSET known
  BY <1>4 DEF Members
<1>. HIDE DEF c
<1>22. Contract!Add(t, Members(pl), Members(ql), p)
  BY <1>1, <1>4, <1>5, <1>12, <1>13, <1>14, <1>15, <1>16, <1>17, <1>18, <1>19, <1>20, <1>21
     DEF Contract!Add, Contract!Known, Contract!Ended, Ended
<1>. QED
  BY <1>4, <1>21, <1>22

\* Every step of the table is a step of the contract or shows callers nothing.
LEMMA StepMaps ==
    ASSUME GraphInv, GraphInv', QueueInv, [Next]_vars
    PROVE  [Contract!Next]_Contract!vars
<1>1. ASSUME UNCHANGED vars PROVE UNCHANGED Contract!vars
  BY <1>1, UnseenStep DEF vars
<1>2. ASSUME NEW ql \in QueueLists, get_none(ql) PROVE UNCHANGED Contract!vars
  BY <1>2, UnseenStep DEF get_none
<1>3. DOMAIN status_of = known
  BY DEF status_of
<1>4. ASSUME NEW t \in TaskId, NEW pl \in ParentLists, NEW ql \in QueueLists, NEW p \in Priority,
             add(t, pl, ql, p)
      PROVE  Contract!Next
  <2>1. t \in TaskId \ known /\ Members(pl) \in SUBSET known /\ Contract!Add(t, Members(pl), Members(ql), p)
    BY <1>4, AddMaps
  <2>2. Members(ql) \in SUBSET QueueName
    <3>1. ql \in Seq(QueueName)
      BY ConstantsAssumption
    <3>. QED
      BY <3>1 DEF Members
  <2>. QED
    BY <1>3, <2>1, <2>2 DEF Contract!Next, Contract!Known
<1>5. ASSUME NEW t \in TaskId, cancel(t) PROVE Contract!Next
  BY <1>5, CancelMaps DEF Contract!Next
<1>6. ASSUME NEW t \in TaskId, NEW p \in Priority, set_priority(t, p) PROVE Contract!Next
  BY <1>6, SetPriorityMaps DEF Contract!Next
<1>7. ASSUME NEW w \in WorkerId, NEW ql \in QueueLists, get_claim(w, ql) PROVE Contract!Next
  BY <1>7, ClaimMaps DEF Contract!Next
<1>8. ASSUME NEW w \in WorkerId, NEW t \in TaskId, NEW out \in Output,
             done_finished(w, t, out) \/ done_failed(w, t, out)
      PROVE  Contract!Next
  BY <1>8, FinishMaps, FailMaps DEF Contract!Next
<1>. QED
  BY <1>1, <1>2, <1>4, <1>5, <1>6, <1>7, <1>8
     DEF Next, add_refused, cancel_refused, set_priority_refused, done_refused

\* The task table keeps the promises of the contract: seen by task id, every
\* operation on rows, counts, children lists and heaps is the operation the
\* contract states on dependencies, for any graph, any queues and any
\* priorities (task-manager.cpp 82-180, 251-308, 347-442).
THEOREM TableKeepsContract == Spec => ImplementsContract
<1>1. Init => QueueInv
  BY DEF Init, QueueInv, EntriesTrue, EntriesPresent, Rows
<1>. QED
  BY <1>1, ContractInit, StepKeepsQueues, StepMaps, GraphAlwaysConsistent, PTL
     DEF Spec, ImplementsContract, Contract!Spec
============================================================================
