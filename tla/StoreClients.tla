---------------------------- MODULE StoreClients ----------------------------
(***************************************************************************)
(* Clients of the stores over calls that can fail: a client makes one call *)
(* at a time; its request is executed once, late, or never; the reply      *)
(* reaches it only while it waits for that very call.  Everything a caller *)
(* knows came through the codec and the error tables.                      *)
(*                                                                         *)
(* What a client writes with its n-th call is the value <<c, n>>, so every *)
(* value says which call wrote it.  A client that follows a journal reads  *)
(* on from the end of its copy, in chunks.                                 *)
(***************************************************************************)
EXTENDS Stores, Errors, FiniteSets, SequencesExt

CONSTANTS Client,
          Chunks,    \* how far past its copy a follower of a journal reads
          Times,     \* the datetimes appended
          Steps,     \* the steps appended
          Bounds,    \* the bounds time_series_get is called with
          Workloads  \* what the clients are used for: the operations called, the
                     \* statuses gRPC may end a call with on its own, and the
                     \* bound on the calls of all clients together

\* What a client writes with its n-th call, and a point of a series made of it.
Entry == Client \X Nat
PointOf == [value : Entry, time : Int, step : Steps]

\* The optional fields of a TimeSeriesGetRequest.
BoundFields == {"start_time", "end_time", "start_step", "end_step"}

\* A datetime is a time, or does not parse, a step is a number, and a bound may
\* be absent; no value that is stored is None.
ASSUME ClientsAssumption ==
    /\ Chunks \subseteq Nat
    /\ Times \subseteq Int \cup {Unparsable, EmptyString}
    /\ Steps \subseteq Int
    /\ Bounds \subseteq [BoundFields -> Int \cup {None, EmptyString, Unparsable}]
    /\ \A b \in Bounds : {b.start_step, b.end_step} \subseteq Int \cup {None}
    /\ None \notin Entry \cup Seq(Entry) \cup Seq(PointOf)
    /\ \A u \in Workloads : u.calls \in Nat /\ u.failures \subseteq StatusCode

VARIABLES
    use,        \* the workload, which does not change
    n,          \* the number of calls each client has made
    call,       \* its call, None when it makes none
    reply_,     \* the Result of that call, None until it is executed
    outcome,    \* "OK", the exception, or "waiting"
    wire,       \* wire[c]: the requests of c not yet executed or lost
    \* History, for the properties:
    copy,       \* copy[c][k]: what c has read of journal k
    size,       \* size[c][k]: the largest size c was told
    since,      \* since[c][k]: from the last map_set of c executed while c waited
                \* for it, the values written to key k of the map; {} before it
    issued,     \* the sequence of <<key, value>> counters handed to callers
    floor,      \* floor[c]: how many of them were handed out when c made its call
    bumps,      \* bumps[k]: how often counter k was advanced
    acked,      \* acked[c]: the numbers of its appends c was told succeeded, in order
    written     \* the <<store, key>> some accepted write named

clients == <<use, n, call, outcome, copy, size, issued, floor, acked>>
vars == <<stores, clients, reply_, wire, since, bumps, written>>

Init ==
    /\ StoresInit
    /\ use \in Workloads
    /\ n = [c \in Client |-> 0]
    /\ call = [c \in Client |-> None]
    /\ reply_ = [c \in Client |-> None]
    /\ outcome = [c \in Client |-> "OK"]
    /\ wire = [c \in Client |-> <<>>]
    /\ copy = [c \in Client |-> [k \in Key |-> <<>>]]
    /\ size = [c \in Client |-> [k \in Key |-> 0]]
    /\ since = [c \in Client |-> [k \in Key |-> {}]]
    /\ issued = <<>>
    /\ floor = [c \in Client |-> 0]
    /\ bumps = [k \in Key |-> 0]
    /\ acked = [c \in Client |-> <<>>]
    /\ written = {}

-----------------------------------------------------------------------------
(* The client                                                              *)

Waiting(c) == outcome[c] = "waiting"

\* Faulty variant: a bound of 0 is taken for no bound.
Encoded_Truthy(b) ==
    [f \in DOMAIN b |-> IF b[f] = 0 THEN None ELSE b[f]]

\* The optional fields of a TimeSeriesGetRequest on the wire.
Encoded(b) == [f \in {g \in DOMAIN b : b[g] # None} |-> b[f]]

Decoded(m) ==
    [f \in BoundFields |->
        IF f \in DOMAIN m THEN m[f] ELSE None]

\* Client c makes a call of op about key k with argument arg.
invoke(c, op, k, arg) ==
    /\ op \in use.ops /\ ~Waiting(c)
    /\ MapThenSumSet(LAMBDA d : n[d], Client) < use.calls
    /\ n' = [n EXCEPT ![c] = @ + 1]
    /\ call' = [call EXCEPT ![c] = [op |-> op, key |-> k, arg |-> arg, id |-> n[c] + 1]]
    /\ wire' = [wire EXCEPT ![c] =
                  Append(@, [call'[c] EXCEPT !.arg =
                               IF op = "time_series_get" THEN Encoded(@) ELSE @])]
    /\ reply_' = [reply_ EXCEPT ![c] = None]
    /\ outcome' = [outcome EXCEPT ![c] = "waiting"]
    /\ floor' = [floor EXCEPT ![c] = Len(issued)]
    /\ UNCHANGED <<stores, use, copy, size, since, issued, bumps, acked, written>>

\* The methods of client.py.
Patterns == {None, Key}

call_map(c, k) ==
    \/ invoke(c, "map_set", k, None)
    \/ invoke(c, "map_get", k, None)
    \/ \E p \in Patterns : invoke(c, "map_search_key", k, p)

call_journal(c, k) ==
    \/ invoke(c, "journal_append", k, None)
    \/ invoke(c, "journal_size", k, None)
    \/ \E d \in Chunks : LET at == Len(copy[c][k]) IN invoke(c, "journal_read", k, <<at, at + d>>)
    \/ \E p \in Patterns : invoke(c, "journal_search_key", k, p)

call_time_series(c, k) ==
    \/ \E t \in Times, s \in Steps : invoke(c, "time_series_append", k, <<t, s>>)
    \/ \E b \in Bounds : invoke(c, "time_series_get", k, b)
    \/ \E p \in Patterns : invoke(c, "time_series_search_key", k, p)

call_counter(c, k) ==
    \/ invoke(c, "counter_get_next_value", k, None)
    \/ invoke(c, "counter_get_current_value", k, None)
    \/ \E p \in Patterns : invoke(c, "counter_search_key", k, p)

Forget(c) ==
    /\ call' = [call EXCEPT ![c] = None]
    /\ reply_' = [reply_ EXCEPT ![c] = None]
    /\ floor' = [floor EXCEPT ![c] = 0]

\* The call returns or raises what the reply says, and the caller makes use of it.
returns(c) ==
    LET op == call[c].op
        k == call[c].key
        v == reply_[c].value
        out == Outcome(op, reply(reply_[c].code))
    IN
    /\ Waiting(c) /\ reply_[c] # None
    /\ outcome' = [outcome EXCEPT ![c] = out]
    /\ copy' = IF op = "journal_read" /\ out = "OK"
               THEN [copy EXCEPT ![c][k] = @ \o v] ELSE copy
    /\ size' = IF op = "journal_size" /\ v > size[c][k]
               THEN [size EXCEPT ![c][k] = v] ELSE size
    /\ issued' = IF op = "counter_get_next_value" THEN Append(issued, <<k, v>>) ELSE issued
    /\ acked' = IF op \in {"journal_append", "time_series_append"} /\ out = "OK"
                THEN [acked EXCEPT ![c] = Append(@, <<op, k, n[c]>>)] ELSE acked
    /\ Forget(c)
    /\ UNCHANGED <<stores, use, n, wire, since, bumps, written>>

\* gRPC ends the call without the server's answer, which may be on its way, as
\* may the request.
fails(c, status) ==
    /\ Waiting(c)
    /\ outcome' = [outcome EXCEPT ![c] = Outcome(call[c].op, status)]
    /\ Forget(c)
    /\ UNCHANGED <<stores, use, n, wire, copy, size, since, issued, bumps, acked, written>>

-----------------------------------------------------------------------------
(* The server: one method of DsServiceImpl executes the i-th request on    *)
(* the wire of client c.                                                   *)

\* The request is gone, and result is what its caller gets if it still waits.
Answered(c, i, result) ==
    /\ wire' = [wire EXCEPT ![c] = RemoveAt(@, i)]
    /\ reply_' = [reply_ EXCEPT ![c] =
                    IF Waiting(c) /\ call[c].id = wire[c][i].id THEN result ELSE @]
    /\ UNCHANGED clients

Wrote(store, k) == written' = written \cup {<<store, k>>}

Read(c, i, op, result) ==
    /\ wire[c][i].op = op
    /\ Answered(c, i, result)
    /\ UNCHANGED <<stores, since, bumps, written>>

MapSet(c, i) ==
    LET m == wire[c][i] IN
    /\ m.op = "map_set"
    /\ map_set(m.key, <<c, m.id>>)
    /\ since' = [d \in Client |-> [since[d] EXCEPT ![m.key] =
                   IF d = c /\ Waiting(c) /\ call[c].id = m.id THEN {<<c, m.id>>}
                   ELSE IF @ = {} THEN {} ELSE @ \cup {<<c, m.id>>}]]
    /\ Wrote("map", m.key)
    /\ Answered(c, i, Ok(None))
    /\ UNCHANGED bumps

JournalAppend(c, i) ==
    LET m == wire[c][i] IN
    /\ m.op = "journal_append"
    /\ journal_append(m.key, <<c, m.id>>)
    /\ Wrote("journal", m.key)
    /\ Answered(c, i, Ok(None))
    /\ UNCHANGED <<since, bumps>>

TimeSeriesAppend(c, i) ==
    LET m == wire[c][i] IN
    /\ m.op = "time_series_append"
    /\ time_series_append(m.key, <<c, m.id>>, m.arg[1], m.arg[2])
    /\ IF time_series_append_result(m.arg[1]).code = "OK"
       THEN Wrote("series", m.key) ELSE UNCHANGED written
    /\ Answered(c, i, time_series_append_result(m.arg[1]))
    /\ UNCHANGED <<since, bumps>>

CounterGetNextValue(c, i) ==
    LET m == wire[c][i] IN
    /\ m.op = "counter_get_next_value"
    /\ counter_get_next_value(m.key)
    /\ bumps' = [bumps EXCEPT ![m.key] = @ + 1]
    /\ Wrote("counter", m.key)
    /\ Answered(c, i, Ok(Incremented(m.key)))
    /\ UNCHANGED since

CounterGetCurrentValue(c, i) ==
    LET m == wire[c][i] IN
    /\ m.op = "counter_get_current_value"
    /\ counter_get_current_value(m.key)
    /\ Answered(c, i, Ok(Count(m.key)))
    /\ UNCHANGED <<since, bumps, written>>

\* The reads: what each method answers, and nothing else changes.
MapReads(c, i) ==
    LET m == wire[c][i] IN
    \/ Read(c, i, "map_get", map_get(m.key))
    \/ Read(c, i, "map_search_key", map_search_key(m.arg))

JournalReads(c, i) ==
    LET m == wire[c][i] IN
    \/ Read(c, i, "journal_size", journal_size(m.key))
    \/ Read(c, i, "journal_read", journal_read(m.key, m.arg[1], m.arg[2]))
    \/ Read(c, i, "journal_search_key", journal_search_key(m.arg))

TimeSeriesReads(c, i) ==
    LET m == wire[c][i] IN
    \/ Read(c, i, "time_series_get", time_series_get(m.key, Decoded(m.arg)))
    \/ Read(c, i, "time_series_search_key", time_series_search_key(m.arg))

CounterReads(c, i) == Read(c, i, "counter_search_key", counter_search_key(wire[c][i].arg))

lose(c, i) ==
    /\ use.failures # {}
    /\ wire' = [wire EXCEPT ![c] = RemoveAt(@, i)]
    /\ UNCHANGED <<stores, clients, reply_, since, bumps, written>>

Next ==
    \E c \in Client :
        \/ \E k \in Key :
             call_map(c, k) \/ call_journal(c, k) \/ call_time_series(c, k) \/ call_counter(c, k)
        \/ returns(c)
        \/ \E status \in use.failures : fails(c, status)
        \/ \E i \in DOMAIN wire[c] :
             \/ MapSet(c, i) \/ JournalAppend(c, i) \/ TimeSeriesAppend(c, i)
             \/ CounterGetNextValue(c, i) \/ CounterGetCurrentValue(c, i)
             \/ MapReads(c, i) \/ JournalReads(c, i) \/ TimeSeriesReads(c, i) \/ CounterReads(c, i)
             \/ lose(c, i)

Spec == Init /\ [][Next]_vars

-----------------------------------------------------------------------------
(* Properties                                                              *)

\* The reply to a call of one of ops is there for c.
Told(c, ops) == Waiting(c) /\ reply_[c] # None /\ call[c].op \in ops

\* Following a journal in chunks, while others append and calls fail, yields a
\* prefix of it: no entry twice, none skipped, and a read that follows a size
\* is not short of what that size promised (journal-map.cpp 11-46).
TailExact ==
    \A c \in Client, k \in Key :
        /\ IsPrefix(copy[c][k], Journal(k))
        /\ (Told(c, {"journal_read"}) /\ call[c].key = k) =>
             call[c].arg[1] + Len(reply_[c].value) >= Clamp(call[c].arg[2], size[c][k])

\* What the appends of op left under key k.
Log(op, k) ==
    IF op = "journal_append" THEN Journal(k)
    ELSE [i \in DOMAIN Series(k) |-> Series(k)[i].value]

\* An append its caller was told of is there exactly once, those of one caller
\* in the order of its calls; one whose call failed is there at most once,
\* whenever it is executed (journal-map.cpp 41-46, time-series.cpp 44-59).
AckedOnce ==
    \A op \in {"journal_append", "time_series_append"}, k \in Key :
        LET log == Log(op, k) IN
        /\ \A i, j \in DOMAIN log : log[i] = log[j] => i = j
        /\ \A c \in Client :
             LET mine == {x \in DOMAIN acked[c] : acked[c][x][1] = op /\ acked[c][x][2] = k} IN
             \A x \in mine : \E i \in DOMAIN log :
                /\ log[i] = <<c, acked[c][x][3]>>
                /\ \A y \in mine : y < x => \E j \in 1..(i - 1) : log[j] = <<c, acked[c][y][3]>>

\* What the documentation of time_series_get says of a bound.
Satisfies(p, b) ==
    LET given(f) == b[f] \notin {None, EmptyString} IN
    /\ given("start_time") => p.time >= b.start_time
    /\ given("end_time") => ~(p.time >= b.end_time)
    /\ given("start_step") => p.step >= b.start_step
    /\ given("end_step") => ~(p.step >= b.end_step)

\* Of the first m points under key k, those that satisfy b.
PointsOfFirst(m, k, b) ==
    LET s == SubSeq(Series(k), 1, m) IN Keep(s, {i \in 1..m : Satisfies(s[i], b)})

\* The places under key k of the points whose append c was told of.
OwnPoints(c, k) ==
    {i \in DOMAIN Series(k) :
        /\ Series(k)[i].value[1] = c
        /\ <<"time_series_append", k, Series(k)[i].value[2]>> \in ToSet(acked[c])}

PointsExact ==
    \A c \in Client :
        Told(c, {"time_series_get"}) =>
            LET k == call[c].key
                b == call[c].arg
                v == reply_[c].value
            IN IF Unparsable \in {b.start_time, b.end_time}
               THEN reply_[c].code = "InvalidArgument"
               ELSE \E m \in 0..Len(Series(k)) :
                      /\ \A i \in OwnPoints(c, k) : i <= m
                      /\ DOMAIN v = DOMAIN PointsOfFirst(m, k, b)
                      /\ \A i \in DOMAIN v : v[i].value = PointsOfFirst(m, k, b)[i].value

DatetimeReadsBack ==
    \A k \in Key : \A i \in DOMAIN Series(k) :
        LET p == Series(k)[i]
            free == [f \in BoundFields |-> None]
            d == Point(p).datetime
        IN /\ Within(p, [free EXCEPT !.start_time = d])
           /\ ~Within(p, [free EXCEPT !.end_time = d])

\* time_series_get answers, in the order they were appended, the points of the
\* series so far that satisfy every bound its caller gave, the caller's own
\* acknowledged points among them; a step of 0 crosses the wire as the bound it
\* is.  And a caller can go on from a datetime it was given: as start_time it
\* includes its point and as end_time it excludes it, although the stored time is
\* finer than what is printed (time-series.cpp 36-42, 61-105, codec.cpp 156-172,
\* 362-376).
GetExact == PointsExact /\ DatetimeReadsBack

\* A client that reads a key it has set finds its own value or one written
\* since, never an older one and never nothing, although requests that were
\* given up on are executed late (map.cpp 9-25).
ReadYourWrites ==
    \A c \in Client :
        Told(c, {"map_get"}) =>
            LET fresh == since[c][call[c].key] IN
            fresh # {} => reply_[c].value \in fresh

Unwrapped(k) == bumps[k] < 2^Width

\* Until the counter has wrapped, callers receive distinct values, and a value
\* is greater than every one that was received before its call was made
\* (counters.cpp 9-23): ids made of it are unique and grow with time.
CounterOrdered ==
    /\ \A i, j \in DOMAIN issued : (issued[i] = issued[j] /\ Unwrapped(issued[i][1])) => i = j
    /\ \A c \in Client :
         (Told(c, {"counter_get_next_value", "counter_get_current_value"})
            /\ Unwrapped(call[c].key)) =>
            \A i \in 1..floor[c] : issued[i][1] = call[c].key =>
                IF call[c].op = "counter_get_next_value"
                THEN reply_[c].value > issued[i][2]
                ELSE reply_[c].value >= issued[i][2]

\* A key is listed exactly if some write to it was accepted: reading an absent
\* key, and an append that is refused, create nothing (counters.cpp 19-22,
\* time-series.cpp 44-53, journal-map.cpp 14-17, 26-27).
ListedIfWritten ==
    written = ({"map"} \X map_search_key(Key).value)
              \cup ({"journal"} \X journal_search_key(Key).value)
              \cup ({"series"} \X time_series_search_key(Key).value)
              \cup ({"counter"} \X counter_search_key(Key).value)
=============================================================================
