------------------------ MODULE MutexClientsProofs ------------------------
(***************************************************************************)
(* The exclusive section is exclusive, and a timeout leaves no mutex held, *)
(* for any number of workers and mutexes, however calls fail and however   *)
(* late their requests are executed.                                       *)
(***************************************************************************)
EXTENDS MutexClients, TLAPS

Locations == {"idle", "trying", "deciding", "sleeping", "holding", "releasing", "dead"}
Answers == {"none", "true", "false", "OK", "NotHeld", "NotHolder"}

Types ==
    /\ data \in [Key -> WorkerId \cup {NoKey, Free}]
    /\ pc \in [WorkerId -> Locations]
    /\ key \in [WorkerId -> Key]
    /\ call \in [WorkerId -> 1..MaxRequests]
    /\ reply \in [WorkerId -> Answers]
    /\ requests \subseteq Request
    /\ failed \in [WorkerId -> BOOLEAN]

Waits(w) == pc[w] \in {"trying", "releasing"}

\* The releases of w for mutex k that the server has yet to see.
Releases(w, k) == {m \in requests : m.op = "release" /\ m.worker = w /\ m.key = k}

\* The number of a call tells the requests of a worker apart, and the request
\* with the number a worker waits for is the one it sent.
Numbered ==
    /\ \A m, n \in requests : (m.worker = n.worker /\ m.call = n.call) => m = n
    /\ \A m \in requests : (Waits(m.worker) /\ call[m.worker] = m.call) =>
         /\ m.key = key[m.worker]
         /\ m.op = IF pc[m.worker] = "trying" THEN "try_acquire" ELSE "release"

\* Whoever was told that it has the mutex has it, and has not asked for its
\* release.
Knows(w) == pc[w] = "holding" \/ (pc[w] = "trying" /\ reply[w] = "true")

HoldersHold ==
    \A w \in WorkerId : Knows(w) => data[key[w]] = w /\ Releases(w, key[w]) = {}

\* A release on its way finds the mutex held for its worker, and is the only
\* one: until it is executed nobody can acquire the mutex again.
ReleasesDue ==
    \A m \in requests : m.op = "release" =>
        data[m.key] = m.worker /\ Releases(m.worker, m.key) = {m}

\* A worker under which no call failed has no request out but the one it waits
\* for, and holds nothing it does not know of.
Trusted(w) == ~failed[w] /\ pc[w] # "dead"

NothingBehind ==
    \A w \in WorkerId : Trusted(w) =>
        /\ \A m \in requests : m.worker = w =>
             Waits(w) /\ call[w] = m.call /\ reply[w] = "none"
        /\ \A k \in Key : data[k] = w =>
             /\ key[w] = k
             /\ Knows(w) \/ (pc[w] = "releasing" /\ reply[w] = "none")

\* MutualExclusion and NoSilentOrphan are not inductive: what a late release
\* does to them depends on what else is on its way.
MutexInv == Types /\ Numbered /\ HoldersHold /\ ReleasesDue /\ NothingBehind

-----------------------------------------------------------------------------

\* At first no mutex is held and nothing is on the wire.
LEMMA NothingAtFirst == Init => MutexInv
<1>. SUFFICES ASSUME Init PROVE MutexInv
  OBVIOUS
<1>. USE DEF Init, MutexInit
<1>1. Types
  BY TimesAssumption DEF Types, Locations, Answers
<1>2. Numbered /\ ReleasesDue
  BY DEF Numbered, ReleasesDue
<1>3. HoldersHold
  BY DEF HoldersHold, Knows
<1>4. NothingBehind
  BY MutexValues DEF NothingBehind
<1>. QED
  BY <1>1, <1>2, <1>3, <1>4 DEF MutexInv

\* Worker w goes on to where it does not wait for a call.
LEMMA MovePreserves ==
    ASSUME MutexInv, NEW w \in WorkerId, NEW where \in Locations \ {"trying", "releasing"},
           pc[w] # "dead",
           pc' = [pc EXCEPT ![w] = where],
           reply' = [reply EXCEPT ![w] = "none"],
           failed' \in {failed, [failed EXCEPT ![w] = TRUE]},
           UNCHANGED <<data, key, call, requests>>,
           where = "holding" => Knows(w),
           \/ failed'[w] \/ where = "dead"
           \/ (reply[w] # "none" \/ ~Waits(w)) /\ (Knows(w) => where = "holding")
    PROVE  MutexInv'
<1>. USE DEF MutexInv
<1>1. Types'
  BY DEF Types, Answers
<1>2. /\ \A v \in WorkerId \ {w} : pc'[v] = pc[v] /\ reply'[v] = reply[v] /\ failed'[v] = failed[v]
      /\ pc'[w] = where /\ reply'[w] = "none"
  BY DEF Types
<1>3. /\ \A v \in WorkerId : Knows(v)' => Knows(v)
      /\ \A v \in WorkerId : Waits(v)' => Waits(v) /\ v # w /\ pc'[v] = pc[v]
      /\ \A v \in WorkerId : \A k \in Key : Releases(v, k)' = Releases(v, k)
  BY <1>2 DEF Knows, Waits, Releases
<1>4. Numbered'
  <2>1. \A m \in requests : m.worker \in WorkerId
    BY DEF Types, Request
  <2>. QED
    BY <1>3, <2>1 DEF Numbered
<1>5. HoldersHold' /\ ReleasesDue'
  <2>1. \A v \in WorkerId : key[v] \in Key
    BY DEF Types
  <2>2. \A m \in requests : m.worker \in WorkerId /\ m.key \in Key
    BY DEF Types, Request
  <2>3. HoldersHold'
    BY <1>3, <2>1 DEF HoldersHold
  <2>4. ReleasesDue'
    BY <1>3, <2>2 DEF ReleasesDue
  <2>. QED
    BY <2>3, <2>4
<1>6. NothingBehind'
  <2>1. SUFFICES ASSUME NEW v \in WorkerId, Trusted(v)'
                 PROVE  /\ \A m \in requests : m.worker = v =>
                             Waits(v)' /\ call[v] = m.call /\ reply'[v] = "none"
                        /\ \A k \in Key : data[k] = v =>
                             key[v] = k /\ (Knows(v)' \/ (pc'[v] = "releasing" /\ reply'[v] = "none"))
    BY DEF NothingBehind
  <2>2. CASE v # w
    BY <1>2, <2>1, <2>2 DEF NothingBehind, Trusted, Waits, Knows
  <2>3. CASE v = w
    <3>1. ~failed'[w] /\ ~failed[w] /\ where # "dead"
      BY <1>2, <2>1, <2>3 DEF Trusted, Types
    <3>2. (reply[w] # "none" \/ ~Waits(w)) /\ (Knows(w) => where = "holding")
      BY <3>1
    <3>. QED
      BY <1>2, <2>3, <3>1, <3>2 DEF NothingBehind, Trusted, Waits, Knows
  <2>. QED
    BY <2>2, <2>3
<1>. QED
  BY <1>1, <1>4, <1>5, <1>6

\* Worker w makes a call: a release of what it knows it holds, or an attempt at
\* a mutex when it holds none it knows of.
LEMMA SendPreserves ==
    ASSUME MutexInv, NEW w \in WorkerId, NEW k \in Key, NEW op, NEW where,
           \/ op = "try_acquire" /\ where = "trying" /\ pc[w] \in {"idle", "sleeping"}
           \/ op = "release" /\ where = "releasing" /\ pc[w] = "holding" /\ k = key[w],
           key' = [key EXCEPT ![w] = k],
           Send(w, k, op, where),
           UNCHANGED <<data, failed>>
    PROVE  MutexInv'
<1>. USE DEF MutexInv
<1>1. PICK c \in 1..MaxRequests :
        /\ \A m \in requests : m.worker = w => m.call # c
        /\ call' = [call EXCEPT ![w] = c]
        /\ requests' = requests \cup {[op |-> op, worker |-> w, key |-> k, call |-> c]}
        /\ pc' = [pc EXCEPT ![w] = where]
        /\ reply' = [reply EXCEPT ![w] = "none"]
  BY DEF Send
<1>. DEFINE n == [op |-> op, worker |-> w, key |-> k, call |-> c]
<1>2. n \in Request
  BY DEF Request
<1>3. Types'
  BY <1>1, <1>2 DEF Types, Locations, Answers
<1>4. /\ \A v \in WorkerId \ {w} : /\ pc'[v] = pc[v] /\ reply'[v] = reply[v]
                                   /\ key'[v] = key[v] /\ call'[v] = call[v]
      /\ pc'[w] = where /\ reply'[w] = "none" /\ key'[w] = k /\ call'[w] = c
  BY <1>1 DEF Types
<1>5. /\ ~Knows(w)' /\ Waits(w)'
      /\ \A v \in WorkerId \ {w} : (Knows(v)' <=> Knows(v)) /\ (Waits(v)' <=> Waits(v))
  BY <1>4 DEF Knows, Waits
<1>6. \A m \in requests : m.worker \in WorkerId /\ m.key \in Key
  BY DEF Types, Request
<1>7. Numbered'
  <2>1. \A m \in requests' : m \in requests \/ m = n
    BY <1>1
  <2>2. ASSUME NEW m \in requests', NEW o \in requests', m.worker = o.worker, m.call = o.call
        PROVE  m = o
    BY <1>1, <2>1, <2>2 DEF Numbered
  <2>3. ASSUME NEW m \in requests', Waits(m.worker)', call'[m.worker] = m.call
        PROVE  /\ m.key = key'[m.worker]
               /\ m.op = IF pc'[m.worker] = "trying" THEN "try_acquire" ELSE "release"
    <3>1. CASE m = n
      BY <1>4, <3>1
    <3>2. CASE m \in requests
      <4>1. m.worker # w
        BY <1>1, <1>4, <2>3, <3>2
      <4>. QED
        BY <1>4, <1>5, <1>6, <2>3, <3>2, <4>1 DEF Numbered
    <3>. QED
      BY <2>1, <3>1, <3>2
  <2>. QED
    BY <2>2, <2>3 DEF Numbered
<1>8. \A v \in WorkerId, l \in Key :
        Releases(v, l)' = IF op = "release" /\ v = w /\ l = k THEN Releases(v, l) \cup {n}
                          ELSE Releases(v, l)
  BY <1>1 DEF Releases
<1>9. HoldersHold'
  <2>1. ASSUME NEW v \in WorkerId, Knows(v)'
        PROVE  (data[key[v]] = v /\ Releases(v, key[v]) = {})'
    <3>1. v # w /\ Knows(v) /\ key'[v] = key[v] /\ key[v] \in Key
      BY <1>4, <1>5, <2>1 DEF Types
    <3>2. data[key[v]] = v /\ Releases(v, key[v]) = {}
      BY <3>1 DEF HoldersHold
    <3>3. \A l \in Key : Releases(v, l)' = Releases(v, l)
      BY <1>8, <3>1
    <3>4. {m \in requests' : m.op = "release" /\ m.worker = v /\ m.key = key[v]} = {}
      BY <3>1, <3>2, <3>3 DEF Releases
    <3>. QED
      BY <3>1, <3>2, <3>4 DEF Releases
  <2>. QED
    BY <2>1 DEF HoldersHold
<1>10. ReleasesDue'
  <2>1. ASSUME NEW m \in requests', m.op = "release"
        PROVE  data[m.key] = m.worker /\ Releases(m.worker, m.key)' = {m}
    <3>1. op = "release" => data[k] = w /\ Releases(w, k) = {}
      BY DEF HoldersHold, Knows
    <3>2. CASE m = n
      BY <1>8, <2>1, <3>1, <3>2
    <3>3. CASE m \in requests
      <4>1. data[m.key] = m.worker /\ Releases(m.worker, m.key) = {m}
        BY <2>1, <3>3 DEF ReleasesDue
      <4>2. ~(op = "release" /\ m.worker = w /\ m.key = k)
        BY <3>1, <4>1
      <4>. QED
        BY <1>6, <1>8, <3>3, <4>1, <4>2
    <3>. QED
      BY <1>1, <3>2, <3>3
  <2>. QED
    BY <2>1 DEF ReleasesDue
<1>11. NothingBehind'
  <2>1. SUFFICES ASSUME NEW v \in WorkerId, Trusted(v)'
                 PROVE  /\ \A m \in requests' : m.worker = v =>
                             Waits(v)' /\ call'[v] = m.call /\ reply'[v] = "none"
                        /\ \A l \in Key : data[l] = v =>
                             /\ key'[v] = l
                             /\ Knows(v)' \/ (pc'[v] = "releasing" /\ reply'[v] = "none")
    BY DEF NothingBehind
  <2>2. CASE v # w
    <3>1. Trusted(v)
      BY <1>4, <2>1, <2>2 DEF Trusted
    <3>. QED
      BY <1>1, <1>4, <1>5, <2>2, <3>1 DEF NothingBehind
  <2>3. CASE v = w
    <3>1. Trusted(w) /\ ~Waits(w)
      BY <2>1, <2>3 DEF Trusted, Waits
    <3>2. /\ \A m \in requests : m.worker # w
          /\ \A l \in Key : data[l] = w => key[w] = l /\ Knows(w)
      BY <3>1 DEF NothingBehind, Waits
    <3>3. ASSUME NEW l \in Key, data[l] = w PROVE op = "release" /\ k = l
      BY <3>2, <3>3 DEF Knows
    <3>. QED
      BY <1>1, <1>4, <1>5, <2>3, <3>2, <3>3
  <2>. QED
    BY <2>2, <2>3
<1>. QED
  BY <1>3, <1>7, <1>9, <1>10, <1>11

-----------------------------------------------------------------------------

\* What holds of a request whichever way it leaves the queue: the others keep
\* their numbers, and a trusted worker has none left.
LEMMA WithoutRequest ==
    ASSUME MutexInv, NEW m \in requests, requests' = requests \ {m},
           UNCHANGED <<pc, key, call, failed>>
    PROVE  /\ m.worker \in WorkerId /\ m.key \in Key
           /\ Numbered'
           /\ \A v \in WorkerId, l \in Key : Releases(v, l)' = Releases(v, l) \ {m}
           /\ Trusted(m.worker) =>
                /\ Waits(m.worker) /\ call[m.worker] = m.call /\ reply[m.worker] = "none"
                /\ m.key = key[m.worker]
                /\ m.op = IF pc[m.worker] = "trying" THEN "try_acquire" ELSE "release"
                /\ \A r \in requests' : r.worker # m.worker
<1>. USE DEF MutexInv
<1>1. m.worker \in WorkerId /\ m.key \in Key
  BY DEF Types, Request
<1>2. Numbered'
  BY DEF Numbered, Waits
<1>3. \A v \in WorkerId, l \in Key : Releases(v, l)' = Releases(v, l) \ {m}
  BY DEF Releases
<1>4. ASSUME Trusted(m.worker)
      PROVE  /\ Waits(m.worker) /\ call[m.worker] = m.call /\ reply[m.worker] = "none"
             /\ \A r \in requests' : r.worker # m.worker
  <2>1. \A r \in requests : r.worker = m.worker =>
          Waits(m.worker) /\ call[m.worker] = r.call /\ reply[m.worker] = "none"
    BY <1>1, <1>4 DEF NothingBehind
  <2>. QED
    BY <2>1 DEF Numbered
<1>5. Trusted(m.worker) =>
        /\ m.key = key[m.worker]
        /\ m.op = IF pc[m.worker] = "trying" THEN "try_acquire" ELSE "release"
  BY <1>4 DEF Numbered
<1>. QED
  BY <1>1, <1>2, <1>3, <1>4, <1>5

\* An attempt is executed, whether its caller still waits for it or not.
LEMMA TryAcquirePreserves ==
    ASSUME MutexInv, NEW m \in requests, serve_try_acquire(m)
    PROVE  MutexInv'
<1>. USE DEF MutexInv
<1>. DEFINE w == m.worker
            k == m.key
<1>0. /\ requests' = requests \ {m} /\ m.op = "try_acquire"
      /\ UNCHANGED <<pc, key, call, failed>>
  BY DEF serve_try_acquire
<1>1. /\ w \in WorkerId /\ k \in Key
      /\ Numbered'
      /\ \A v \in WorkerId, l \in Key : Releases(v, l)' = Releases(v, l) \ {m}
      /\ Trusted(w) =>
           /\ Waits(w) /\ call[w] = m.call /\ reply[w] = "none" /\ k = key[w] /\ pc[w] = "trying"
           /\ \A r \in requests' : r.worker # w
  BY <1>0, WithoutRequest
<1>2. /\ data' = [data EXCEPT ![k] = IF data[k] \notin WorkerId THEN w ELSE @]
      /\ reply' = [reply EXCEPT ![w] =
                     IF Waits(w) /\ call[w] = m.call
                     THEN IF data[k] \notin WorkerId THEN "true" ELSE "false" ELSE @]
  BY DEF serve_try_acquire, try_acquire, try_acquire_result, Held, Answer, Waits
<1>3. /\ \A l \in Key : data'[l] = IF l = k /\ data[k] \notin WorkerId THEN w ELSE data[l]
      /\ \A v \in WorkerId \ {w} : reply'[v] = reply[v]
      /\ reply'[w] = IF Waits(w) /\ call[w] = m.call
                     THEN IF data[k] \notin WorkerId THEN "true" ELSE "false" ELSE reply[w]
  BY <1>1, <1>2 DEF Types
<1>4. Types'
  BY <1>0, <1>1, <1>2 DEF Types, Answers
<1>5. \A v \in WorkerId, l \in Key : Releases(v, l)' = Releases(v, l)
  BY <1>0, <1>1 DEF Releases
<1>6. HoldersHold'
  <2>1. ASSUME NEW v \in WorkerId, Knows(v)'
        PROVE  data'[key[v]] = v /\ Releases(v, key[v]) = {}
    <3>1. CASE Knows(v)
      BY <1>3, <3>1 DEF HoldersHold, Types
    <3>2. CASE ~Knows(v)
      <4>1. v = w /\ pc[w] = "trying" /\ call[w] = m.call /\ data[k] \notin WorkerId
        BY <1>0, <1>3, <2>1, <3>2 DEF Knows
      <4>2. k = key[w]
        BY <4>1 DEF Numbered, Waits
      <4>3. Releases(w, k) = {}
        BY <1>1, <4>1 DEF ReleasesDue, Releases
      <4>. QED
        BY <1>1, <1>3, <4>1, <4>2, <4>3
    <3>. QED
      BY <3>1, <3>2
  <2>2. \A v \in WorkerId : key[v] \in Key /\ key'[v] = key[v]
    BY <1>0 DEF Types
  <2>3. ASSUME NEW v \in WorkerId, Knows(v)'
        PROVE  (data[key[v]] = v /\ Releases(v, key[v]) = {})'
    <3>1. Releases(v, key[v]) = {} /\ requests' \subseteq requests
      BY <1>0, <2>1, <2>3
    <3>. QED
      BY <2>1, <2>2, <2>3, <3>1 DEF Releases
  <2>. QED
    BY <2>3 DEF HoldersHold
<1>7. ReleasesDue'
  <2>1. ASSUME NEW r \in requests', r.op = "release"
        PROVE  data'[r.key] = r.worker /\ Releases(r.worker, r.key)' = {r}
    <3>1. /\ r \in requests /\ r.worker \in WorkerId /\ r.key \in Key
          /\ data[r.key] = r.worker /\ Releases(r.worker, r.key) = {r}
      BY <1>0, <2>1 DEF ReleasesDue, Types, Request
    <3>. QED
      BY <1>3, <1>5, <3>1
  <2>. QED
    BY <2>1 DEF ReleasesDue
<1>8. NothingBehind'
  <2>1. SUFFICES ASSUME NEW v \in WorkerId, Trusted(v)
                 PROVE  /\ \A r \in requests' : r.worker = v =>
                             Waits(v) /\ call[v] = r.call /\ reply'[v] = "none"
                        /\ \A l \in Key : data'[l] = v =>
                             key[v] = l /\ (Knows(v)' \/ (pc[v] = "releasing" /\ reply'[v] = "none"))
    BY <1>0 DEF NothingBehind, Trusted, Waits
  <2>2. CASE v # w
    BY <1>0, <1>3, <2>1, <2>2 DEF NothingBehind, Knows
  <2>3. CASE v = w
    <3>1. ASSUME NEW l \in Key, data'[l] = w PROVE l = k /\ data[k] \notin WorkerId
      BY <1>1, <1>3, <2>1, <2>3, <3>1 DEF NothingBehind, Knows
    <3>2. (\E l \in Key : data'[l] = w) => Knows(w)'
      BY <1>0, <1>1, <1>3, <2>1, <2>3, <3>1 DEF Knows
    <3>. QED
      BY <1>1, <2>1, <2>3, <3>1, <3>2
  <2>. QED
    BY <2>2, <2>3
<1>. QED
  BY <1>1, <1>4, <1>6, <1>7, <1>8

\* A release is executed: it is the only one for its mutex, which nobody uses
\* any more.
LEMMA ReleasePreserves ==
    ASSUME MutexInv, NEW m \in requests, serve_release(m)
    PROVE  MutexInv'
<1>. USE DEF MutexInv
<1>. DEFINE w == m.worker
            k == m.key
<1>0. /\ requests' = requests \ {m} /\ m.op = "release"
      /\ UNCHANGED <<pc, key, call, failed>>
  BY DEF serve_release
<1>1. /\ w \in WorkerId /\ k \in Key
      /\ Numbered'
      /\ \A v \in WorkerId, l \in Key : Releases(v, l)' = Releases(v, l) \ {m}
      /\ Trusted(w) =>
           /\ Waits(w) /\ call[w] = m.call /\ k = key[w]
           /\ \A r \in requests' : r.worker # w
  BY <1>0, WithoutRequest
<1>2. data[k] = w /\ Releases(w, k) = {m}
  BY <1>0 DEF ReleasesDue
<1>3. /\ data' = [data EXCEPT ![k] = Free]
      /\ reply' = [reply EXCEPT ![w] = IF Waits(w) /\ call[w] = m.call THEN "OK" ELSE @]
  BY <1>1, <1>2 DEF serve_release, release, release_result, Reset, Held, Answer, Waits
<1>4. /\ \A l \in Key : data'[l] = IF l = k THEN Free ELSE data[l]
      /\ \A v \in WorkerId \ {w} : reply'[v] = reply[v]
      /\ reply'[w] = IF Waits(w) /\ call[w] = m.call THEN "OK" ELSE reply[w]
  BY <1>1, <1>3 DEF Types
<1>5. Types'
  BY <1>0, <1>1, <1>3 DEF Types, Answers
<1>6. HoldersHold'
  <2>1. ASSUME NEW v \in WorkerId, Knows(v)'
        PROVE  data'[key[v]] = v /\ Releases(v, key[v]) = {}
    <3>1. Knows(v)
      BY <1>0, <1>4, <2>1 DEF Knows
    <3>2. data[key[v]] = v /\ Releases(v, key[v]) = {}
      BY <3>1 DEF HoldersHold
    <3>3. key[v] # k
      BY <1>2, <3>2
    <3>. QED
      BY <1>4, <3>2, <3>3 DEF Types
  <2>2. ASSUME NEW v \in WorkerId, Knows(v)'
        PROVE  (data[key[v]] = v /\ Releases(v, key[v]) = {})'
    <3>1. Releases(v, key[v]) = {} /\ requests' \subseteq requests
      BY <1>0, <2>1, <2>2
    <3>. QED
      BY <1>0, <2>1, <2>2, <3>1 DEF Releases
  <2>. QED
    BY <2>2 DEF HoldersHold
<1>7. ReleasesDue'
  <2>1. ASSUME NEW r \in requests', r.op = "release"
        PROVE  data'[r.key] = r.worker /\ Releases(r.worker, r.key)' = {r}
    <3>1. /\ r \in requests /\ r # m /\ r.worker \in WorkerId /\ r.key \in Key
          /\ data[r.key] = r.worker /\ Releases(r.worker, r.key) = {r}
      BY <1>0, <2>1 DEF ReleasesDue, Types, Request
    <3>2. r.key # k
      BY <1>2, <3>1
    <3>. QED
      BY <1>1, <1>4, <3>1, <3>2
  <2>. QED
    BY <2>1 DEF ReleasesDue
<1>8. NothingBehind'
  <2>1. SUFFICES ASSUME NEW v \in WorkerId, Trusted(v)
                 PROVE  /\ \A r \in requests' : r.worker = v =>
                             Waits(v) /\ call[v] = r.call /\ reply'[v] = "none"
                        /\ \A l \in Key : data'[l] = v =>
                             key[v] = l /\ (Knows(v)' \/ (pc[v] = "releasing" /\ reply'[v] = "none"))
    BY <1>0 DEF NothingBehind, Trusted, Waits
  <2>2. \A l \in Key : data'[l] = v => l # k /\ data[l] = v
    BY <1>4, MutexValues
  <2>3. CASE v # w
    BY <1>0, <1>4, <2>1, <2>2, <2>3 DEF NothingBehind, Knows
  <2>4. CASE v = w
    <3>1. \A l \in Key : data'[l] # w
      BY <1>1, <2>1, <2>2, <2>4 DEF NothingBehind
    <3>. QED
      BY <1>1, <2>1, <2>4, <3>1
  <2>. QED
    BY <2>3, <2>4
<1>. QED
  BY <1>1, <1>5, <1>6, <1>7, <1>8

\* A request is lost.
LEMMA LosePreserves ==
    ASSUME MutexInv, NEW m \in requests, lose(m)
    PROVE  MutexInv'
<1>. USE DEF MutexInv
<1>1. requests' = requests \ {m} /\ UNCHANGED <<data, pc, key, call, reply, failed>>
  BY DEF lose, clients
<1>2. Numbered'
  BY <1>1, WithoutRequest
<1>3. Types'
  BY <1>1 DEF Types
<1>4. HoldersHold'
  BY <1>1 DEF HoldersHold, Knows, Releases
<1>5. ReleasesDue'
  BY <1>1 DEF ReleasesDue, Releases
<1>6. NothingBehind'
  BY <1>1 DEF NothingBehind, Trusted, Knows, Waits
<1>. QED
  BY <1>2, <1>3, <1>4, <1>5, <1>6

\* The invariant does not look at the clock.
LEMMA TickPreserves ==
    ASSUME MutexInv, UNCHANGED <<data, requests, pc, key, call, reply, failed>>
    PROVE  MutexInv'
<1>1. (Types /\ Numbered)'
  BY DEF MutexInv, Types, Numbered, Waits
<1>2. (HoldersHold /\ ReleasesDue)'
  BY DEF MutexInv, HoldersHold, ReleasesDue, Knows, Releases
<1>3. NothingBehind'
  BY DEF MutexInv, NothingBehind, Trusted, Knows, Waits
<1>. QED
  BY <1>1, <1>2, <1>3 DEF MutexInv

\* Every step of a worker or of the server keeps the invariant.
LEMMA StepPreserves ==
    ASSUME MutexInv, [Next]_vars
    PROVE  MutexInv'
<1>0. key = [w \in WorkerId |-> key[w]]
  BY DEF MutexInv, Types
<1>1. ASSUME NEW w \in WorkerId, NEW k \in Key, NEW timeout \in Timeouts, mutex_acquire(w, k, timeout)
      PROVE  MutexInv'
  BY <1>1, SendPreserves DEF mutex_acquire
<1>2. ASSUME NEW w \in WorkerId, retry(w) \/ mutex_release(w) PROVE MutexInv'
  <2>1. key' = [key EXCEPT ![w] = key[w]] /\ key[w] \in Key
    BY <1>0, <1>2 DEF retry, mutex_release, MutexInv, Types
  <2>2. CASE retry(w)
    BY <2>1, <2>2, SendPreserves DEF retry
  <2>3. CASE mutex_release(w)
    BY <2>1, <2>3, SendPreserves DEF mutex_release
  <2>. QED
    BY <1>2, <2>2, <2>3
<1>3. ASSUME NEW w \in WorkerId, try_returned(w) PROVE MutexInv'
  <2>. DEFINE where == IF acquired(w) THEN "holding" ELSE "deciding"
  <2>1. /\ where \in Locations \ {"trying", "releasing"}
        /\ pc[w] # "dead" /\ reply[w] # "none"
        /\ where = "holding" <=> Knows(w)
    BY <1>3 DEF try_returned, acquired, Knows, Locations
  <2>. QED
    BY <1>3, <2>1, MovePreserves DEF try_returned, Goto
<1>4. ASSUME NEW w \in WorkerId, give_up(w) \/ sleep(w) PROVE MutexInv'
  <2>1. PICK where \in {"idle", "sleeping"} :
          /\ pc' = [pc EXCEPT ![w] = where] /\ reply' = [reply EXCEPT ![w] = "none"]
          /\ pc[w] = "deciding" /\ UNCHANGED <<data, key, call, requests, failed>>
    BY <1>4 DEF give_up, sleep, Goto
  <2>2. where \in Locations \ {"trying", "releasing"} /\ ~Waits(w) /\ ~Knows(w)
    BY <2>1 DEF Locations, Waits, Knows
  <2>. QED
    BY <2>1, <2>2, MovePreserves
<1>5. ASSUME NEW w \in WorkerId, release_returned(w) PROVE MutexInv'
  <2>1. "idle" \in Locations \ {"trying", "releasing"} /\ ~Knows(w)
    BY <1>5 DEF Locations, Knows, release_returned
  <2>. QED
    BY <1>5, <2>1, MovePreserves DEF release_returned, Goto
<1>6. ASSUME NEW w \in WorkerId, call_fails(w) PROVE MutexInv'
  <2>1. "idle" \in Locations \ {"trying", "releasing"} /\ failed'[w]
    BY <1>6 DEF Locations, call_fails, MutexInv, Types
  <2>. QED
    BY <1>6, <2>1, MovePreserves DEF call_fails, Goto
<1>7. ASSUME NEW w \in WorkerId, die(w) PROVE MutexInv'
  <2>1. "dead" \in Locations \ {"trying", "releasing"}
    BY DEF Locations
  <2>. QED
    BY <1>7, <2>1, MovePreserves DEF die, Goto
<1>8. ASSUME tick \/ UNCHANGED vars PROVE MutexInv'
  BY <1>8, TickPreserves DEF tick, vars, clients
<1>. QED
  BY <1>1, <1>2, <1>3, <1>4, <1>5, <1>6, <1>7, <1>8,
     TryAcquirePreserves, ReleasePreserves, LosePreserves DEF Next

\* The inductive invariant holds in every reachable state, for every set of
\* workers and mutexes, every number of requests in flight and every timing.
THEOREM MutexInvAlways == Spec => []MutexInv
BY NothingAtFirst, StepPreserves, PTL DEF Spec

-----------------------------------------------------------------------------

\* However late the server executes requests whose callers gave up, two workers
\* are never in the exclusive section of one mutex, and the server names the
\* worker that is (mutexes.cpp 13-15, 30-39, client.cpp 168-184).
THEOREM ExclusionHolds == Spec => []MutualExclusion
<1>1. MutexInv => MutualExclusion
  <2>. SUFFICES ASSUME MutexInv PROVE MutualExclusion
    OBVIOUS
  <2>1. \A w \in WorkerId : pc[w] = "holding" => data[key[w]] = w /\ key[w] \in Key
    BY DEF MutexInv, HoldersHold, Knows, Types
  <2>. QED
    BY <2>1, MutexValues DEF MutualExclusion, HolderNamed, get_worker_id, Held, search_key
<1>. QED
  BY <1>1, MutexInvAlways, PTL

\* A mutex is held for a worker that neither uses nor asks for it only if a call
\* failed under that worker or it died: giving up at the deadline of
\* mutex_acquire leaves none behind (client.cpp 168-182).
THEOREM NobodyLeftHolding == Spec => []NoSilentOrphan
<1>1. MutexInv => NoSilentOrphan
  BY DEF MutexInv, NothingBehind, NoSilentOrphan, Trusted, Knows
<1>. QED
  BY <1>1, MutexInvAlways, PTL
=============================================================================
