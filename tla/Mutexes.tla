------------------------------ MODULE Mutexes ------------------------------
(***************************************************************************)
(* The named mutexes of the server (cpp/server/core/mutexes.cpp).  Every   *)
(* operation holds Mutexes::lock for its whole body, so each is one step.  *)
(***************************************************************************)
CONSTANTS Key,      \* the keys callers use
          WorkerId, \* the worker ids callers use
          NoKey,    \* the key is not in the map
          Free      \* MutexState{}: the key is known and nobody holds it

ASSUME MutexValues == NoKey \notin WorkerId /\ Free \notin WorkerId /\ NoKey # Free

VARIABLE data       \* NoKey, Free, or the worker_id of the holder

MutexInit == data = [k \in Key |-> NoKey]

Held(k) == data[k] \in WorkerId

\* Faulty variant: the holder asking again is told it acquired the mutex.
try_acquire_result_Reentrant(k, w) == ~Held(k) \/ data[k] = w

\* What mutex_try_acquire answers.  The lock is not reentrant.
try_acquire_result(k, w) == ~Held(k)

try_acquire(k, w) == data' = [data EXCEPT ![k] = IF try_acquire_result(k, w) THEN w ELSE @]

release_result(k, w) ==
    IF ~Held(k) THEN "NotHeld" ELSE IF data[k] # w THEN "NotHolder" ELSE "OK"

\* Faulty variant: the release succeeds and the mutex stays held.
Reset_Kept(k) == data[k]

\* What a release that succeeds leaves under the key, which stays known.
Reset(k) == Free

release(k, w) ==
    data' = [data EXCEPT ![k] = IF release_result(k, w) = "OK" THEN Reset(k) ELSE @]

get_worker_id(k) ==
    IF data[k] = NoKey THEN "NotFound" ELSE IF ~Held(k) THEN "NotHeld" ELSE data[k]

\* A pattern says whether it compiles, and which keys it then matches.
search_key(pattern) ==
    IF pattern.ok
    THEN [code |-> "OK", key |-> {k \in pattern.matches : data[k] # NoKey}]
    ELSE [code |-> "InvalidArgument", key |-> {}]
============================================================================
