------------------------- MODULE StoreClientsProofs -------------------------
(***************************************************************************)
(* What clients of the stores can rely on, for any number of clients, keys *)
(* and calls, whichever of them fail or are executed late.  The bookkeeping *)
(* of calls comes first: a call has one request, it is executed once and   *)
(* answers only the caller that still waits for it.  The promise of each   *)
(* store then rests on that and on what its operations do.                 *)
(***************************************************************************)
EXTENDS StoreClients, TLAPS

Ends == {"OK", "NoTaskAvailable", "KeyError", "ValueError", "MutexNotHeld", "TaskStateError", "TimeoutError",
         "RuntimeError", "TransportError"}
Code == {"OK", "NotFound", "InvalidArgument"}
Arg == {None, Key} \cup (Nat \X Nat) \cup (Times \X Steps) \cup Bounds \cup {Encoded(b) : b \in Bounds}
OpName == {"map_set", "map_get", "map_search_key", "journal_append", "journal_size", "journal_read",
           "journal_search_key", "time_series_append", "time_series_get", "time_series_search_key",
           "counter_get_next_value", "counter_get_current_value", "counter_search_key"}
Appends == {"journal_append", "time_series_append"}
Call == [op : OpName, key : Key, arg : Arg, id : Nat]

StoreTypes ==
    /\ map \in [Key -> Entry \cup {None}]
    /\ journals \in [Key -> Seq(Entry) \cup {None}]
    /\ series \in [Key -> Seq(PointOf) \cup {None}]
    /\ counters \in [Key -> Nat \cup {None}]

ClientTypes ==
    /\ use \in Workloads
    /\ n \in [Client -> Nat]
    /\ call \in [Client -> Call \cup {None}]
    /\ reply_ = [c \in Client |-> reply_[c]]
    /\ outcome \in [Client -> Ends \cup {"waiting"}]
    /\ wire \in [Client -> Seq(Call)]
    /\ floor \in [Client -> Nat]

HistoryTypes ==
    /\ copy \in [Client -> [Key -> Seq(Entry)]]
    /\ size \in [Client -> [Key -> Nat]]
    /\ since \in [Client -> [Key -> SUBSET Entry]]
    /\ issued \in Seq(Key \X Nat)
    /\ bumps \in [Key -> Nat]
    /\ acked \in [Client -> Seq(Appends \X Key \X Nat)]
    /\ written \in SUBSET ({"map", "journal", "series", "counter"} \X Key)

\* The reply to the call of c is there.
Replied(c) == Waiting(c) /\ reply_[c] # None

\* A client waits for its latest call.
CallsFit ==
    \A c \in Client :
        /\ Waiting(c) => call[c] \in Call /\ call[c].id = n[c]
        /\ Replied(c) => reply_[c].code \in Code
        /\ (Waiting(c) /\ call[c].op = "time_series_get") => call[c].arg \in Bounds

\* Request m of client c is a call c made; if c waits for it, it says what c
\* called, and has not been answered.
Fits(c, m) ==
    /\ m.id \in 1..n[c]
    /\ m.op = "time_series_append" => m.arg \in Times \X Steps
    /\ (Waiting(c) /\ m.id = call[c].id) =>
         /\ m.op = call[c].op /\ m.key = call[c].key /\ reply_[c] = None
         /\ m.op # "time_series_get" => m.arg = call[c].arg
         /\ m.op = "time_series_get" => m.arg = Encoded(call[c].arg)

\* Every request on the wire is there once.
WireFits ==
    \A c \in Client :
        /\ \A i \in DOMAIN wire[c] : Fits(c, wire[c][i])
        /\ \A i, j \in DOMAIN wire[c] : wire[c][i].id = wire[c][j].id => i = j

Calls == StoreTypes /\ ClientTypes /\ CallsFit /\ WireFits

\* What was written to key k since c's own value is there; a read of c that was
\* answered found one of these.
MapInv ==
    /\ \A c \in Client, k \in Key : since[c][k] # {} => map[k] \in since[c][k]
    /\ ReadYourWrites

\* A client knows of no more entries than there are.
CopiesFit ==
    \A c \in Client, k \in Key : size[c][k] <= Len(Journal(k)) /\ IsPrefix(copy[c][k], Journal(k))

\* It reads on from the end of its copy, and what it is told extends that.
JournalCall(c) ==
    LET k == call[c].key
        at == Len(copy[c][k])
        v == reply_[c].value
    IN
    /\ (Waiting(c) /\ call[c].op = "journal_read") =>
         call[c].arg \in Nat \X Nat /\ call[c].arg[1] = at /\ call[c].arg[2] >= at
    /\ Told(c, {"journal_size"}) => v \in Nat /\ v <= Len(Journal(k))
    /\ Told(c, {"journal_read"}) =>
         /\ v \in Seq(Entry) /\ IsPrefix(copy[c][k] \o v, Journal(k))
         /\ call[c].arg[1] + Len(v) >= Clamp(call[c].arg[2], size[c][k])

JournalInv == CopiesFit /\ \A c \in Client : JournalCall(c)

\* The logs hold calls that were made and are no longer on the wire.
LogsFit ==
    \A op \in Appends, k \in Key : \A i \in DOMAIN Log(op, k) :
        LET e == Log(op, k)[i] IN
        /\ e[2] <= n[e[1]]
        /\ \A x \in DOMAIN wire[e[1]] : wire[e[1]][x].id # e[2]

\* The i-th entry of a log comes after the first z - 1 appends c was told of.
Behind(c, op, k, i, z) ==
    \A y \in DOMAIN acked[c] : (y < z /\ acked[c][y][1] = op /\ acked[c][y][2] = k) =>
        \E j \in 1..(i - 1) : Log(op, k)[j] = <<c, acked[c][y][3]>>

\* An append that was answered is behind those its caller was told of before.
AppendsFollow ==
    \A c \in Client : (Told(c, Appends) /\ reply_[c].code = "OK") =>
        LET op == call[c].op
            k == call[c].key
        IN \E i \in DOMAIN Log(op, k) :
             Log(op, k)[i] = <<c, call[c].id>> /\ Behind(c, op, k, i, Len(acked[c]) + 1)

LogInv == LogsFit /\ AppendsFollow /\ AckedOnce

\* Until a counter has wrapped it is the number of its increments, and no value
\* handed out or on its way is greater, or the same as another.
CounterInv ==
    /\ \A k \in Key : Unwrapped(k) => Count(k) = bumps[k]
    /\ \A i \in DOMAIN issued : Unwrapped(issued[i][1]) => issued[i][2] <= bumps[issued[i][1]]
    /\ \A c \in Client : floor[c] <= Len(issued)
    /\ \A c \in Client : Told(c, {"counter_get_next_value"}) => reply_[c].value \in Nat
    /\ \A c \in Client : (Told(c, {"counter_get_next_value"}) /\ Unwrapped(call[c].key)) =>
         /\ reply_[c].value <= bumps[call[c].key]
         /\ \A i \in DOMAIN issued : issued[i] # <<call[c].key, reply_[c].value>>
         /\ \A d \in Client \ {c} :
              (Told(d, {"counter_get_next_value"}) /\ call[d].key = call[c].key) =>
                 reply_[d].value # reply_[c].value
    /\ CounterOrdered

StoresInv == Calls /\ HistoryTypes /\ MapInv /\ JournalInv /\ LogInv /\ CounterInv /\ ListedIfWritten

-----------------------------------------------------------------------------
(* Sequences, errors and numbers                                           *)

\* What is left of a wire when a request is taken from it: the others, each once.
LEMMA TakenFrom ==
    ASSUME NEW S, NEW s \in Seq(S), NEW i \in DOMAIN s
    PROVE  /\ RemoveAt(s, i) \in Seq(S)
           /\ \E f \in [DOMAIN RemoveAt(s, i) -> DOMAIN s \ {i}] :
                /\ \A j \in DOMAIN RemoveAt(s, i) : RemoveAt(s, i)[j] = s[f[j]]
                /\ \A j, k \in DOMAIN RemoveAt(s, i) : f[j] = f[k] => j = k
<1>. DEFINE a == SubSeq(s, 1, i - 1)
            b == SubSeq(s, i + 1, Len(s))
<1>1. Len(s) \in Nat /\ i \in 1..Len(s)
  OBVIOUS
<1>2. a \in Seq(S) /\ Len(a) = i - 1 /\ \A j \in 1..(i - 1) : a[j] = s[j]
  BY <1>1
<1>3. b \in Seq(S) /\ Len(b) = Len(s) - i /\ \A j \in 1..(Len(s) - i) : b[j] = s[i + j]
  BY <1>1
<1>4. RemoveAt(s, i) = a \o b
  BY DEF RemoveAt
<1>. HIDE DEF a, b
<1>5. /\ a \o b \in Seq(S) /\ Len(a \o b) = Len(s) - 1
      /\ \A j \in 1..(Len(s) - 1) : (a \o b)[j] = IF j <= i - 1 THEN a[j] ELSE b[j - (i - 1)]
  BY <1>1, <1>2, <1>3
<1>. DEFINE f == [j \in 1..(Len(s) - 1) |-> IF j < i THEN j ELSE j + 1]
<1>6. ASSUME NEW j \in 1..(Len(s) - 1) PROVE (a \o b)[j] = s[f[j]]
  <2>1. CASE j < i
    <3>1. j \in 1..(i - 1) /\ f[j] = j /\ j <= i - 1
      BY <1>1, <2>1
    <3>. QED
      BY <1>2, <1>5, <3>1
  <2>2. CASE ~(j < i)
    <3>1. j - (i - 1) \in 1..(Len(s) - i) /\ i + (j - (i - 1)) = j + 1 /\ ~(j <= i - 1)
      BY <1>1, <2>2
    <3>2. f[j] = j + 1
      BY <2>2
    <3>. QED
      BY <1>3, <1>5, <3>1, <3>2
  <2>. QED
    BY <2>1, <2>2
<1>7. DOMAIN (a \o b) = 1..(Len(s) - 1)
  BY <1>5
<1>8. f \in [1..(Len(s) - 1) -> DOMAIN s \ {i}]
  <2>1. \A j \in 1..(Len(s) - 1) : f[j] \in DOMAIN s \ {i}
    BY <1>1
  <2>. QED
    BY <2>1
<1>9. \A j, k \in 1..(Len(s) - 1) : f[j] = f[k] => j = k
  BY <1>1
<1>. HIDE DEF f
<1>10. PICK t : t = a \o b
  OBVIOUS
<1>11. /\ t \in Seq(S) /\ f \in [DOMAIN t -> DOMAIN s \ {i}]
       /\ \A j \in DOMAIN t : t[j] = s[f[j]]
       /\ \A j, k \in DOMAIN t : f[j] = f[k] => j = k
  BY <1>5, <1>6, <1>7, <1>8, <1>9, <1>10
<1>12. \E g \in [DOMAIN t -> DOMAIN s \ {i}] :
         /\ \A j \in DOMAIN t : t[j] = s[g[j]]
         /\ \A j, k \in DOMAIN t : g[j] = g[k] => j = k
  BY <1>11
<1>13. RemoveAt(s, i) = t
  BY <1>4, <1>10
<1>14. t \in Seq(S)
  BY <1>11
<1>. QED
  BY <1>12, <1>13, <1>14, Zenon

\* A sequence is a prefix of one that begins with its elements.
LEMMA PrefixByElements ==
    ASSUME NEW S, NEW s \in Seq(S), NEW t \in Seq(S)
    PROVE  IsPrefix(s, t) <=> Len(s) <= Len(t) /\ \A i \in 1..Len(s) : s[i] = t[i]
<1>. DEFINE a == SubSeq(s, 1, Len(s))
            b == SubSeq(t, 1, Len(s))
<1>. SUFFICES ASSUME Len(s) <= Len(t) PROVE a = b <=> \A i \in 1..Len(s) : s[i] = t[i]
  BY DEF IsPrefix
<1>1. a \in Seq(S) /\ Len(a) = Len(s) /\ \A i \in 1..Len(s) : a[i] = s[i]
  OBVIOUS
<1>2. b \in Seq(S) /\ Len(b) = Len(s) /\ \A i \in 1..Len(s) : b[i] = t[i]
  OBVIOUS
<1>. HIDE DEF a, b
<1>. QED
  BY <1>1, <1>2

\* A call ends one way or another, and with "OK" just when the server says so.
LEMMA OutcomeEnds ==
    ASSUME NEW op
    PROVE  /\ \A status \in StatusCode : Outcome(op, status) \in Ends
           /\ \A code \in Code : /\ Outcome(op, reply(code)) \in Ends
                                 /\ Outcome(op, reply(code)) = "OK" <=> code = "OK"
<1>1. ASSUME NEW status \in StatusCode PROVE Outcome(op, status) \in Ends
  <2>1. from_status_code(status) \in ErrorCode
    BY DEF from_status_code, StatusCode, ErrorCode
  <2>2. /\ not_found(op) \in Ends
        /\ failed_precondition(op) \in Ends
    BY DEF not_found, failed_precondition, Ends
  <2>3. ASSUME NEW code \in ErrorCode PROVE translate_error(op, code) \in Ends
    <3>1. translate_error(op, code) \in {not_found(op), failed_precondition(op), "ValueError",
                                         "TimeoutError", "RuntimeError", "TransportError"}
      BY DEF translate_error, ErrorCode
    <3>. QED
      BY <2>2, <3>1 DEF Ends
  <2>4. CASE status = "OK"
    BY <2>4 DEF Outcome, Ends
  <2>5. CASE status # "OK"
    BY <2>1, <2>3, <2>5 DEF Outcome
  <2>. QED
    BY <2>4, <2>5
<1>2. reply("OK") = "OK" /\ reply("NotFound") = "NOT_FOUND" /\ reply("InvalidArgument") = "INVALID_ARGUMENT"
  BY DEF reply, to_status_code
<1>3. /\ Outcome(op, "OK") = "OK"
      /\ Outcome(op, "NOT_FOUND") = not_found(op)
      /\ Outcome(op, "INVALID_ARGUMENT") = "ValueError"
  BY DEF Outcome, translate_error, from_status_code
<1>4. not_found(op) # "OK"
  BY DEF not_found
<1>. QED
  BY <1>1, <1>2, <1>3, <1>4 DEF Code, StatusCode

\* The counters count modulo a number that is not zero.
LEMMA Modulus == 2^Width \in Nat \ {0}
  BY StoresAssumption

-----------------------------------------------------------------------------
(* Steps, by what they do to a call                                        *)

\* What the methods of client.py pass.
Sends(c, op, k, arg) ==
    /\ op \in OpName /\ k \in Key /\ arg \in Arg
    /\ op = "time_series_append" => arg \in Times \X Steps
    /\ op = "time_series_get" => arg \in Bounds /\ Encoded(arg) \in Arg
    /\ op = "journal_read" => LET at == Len(copy[c][k]) IN
                              arg \in Nat \X Nat /\ arg[1] = at /\ arg[2] >= at

\* Client c calls op.
Begins(c) == \E op, k, arg : Sends(c, op, k, arg) /\ invoke(c, op, k, arg)

\* The server executes the i-th request of c.
Serves(c, i) ==
    \/ MapSet(c, i) \/ JournalAppend(c, i) \/ TimeSeriesAppend(c, i)
    \/ CounterGetNextValue(c, i) \/ CounterGetCurrentValue(c, i)
    \/ MapReads(c, i) \/ JournalReads(c, i) \/ TimeSeriesReads(c, i) \/ CounterReads(c, i)

\* What executing request m of c with result res does to the stores.
Effect(c, m, res) ==
    /\ res.code \in Code
    /\ m.op = "map_set" =>
         /\ map' = [map EXCEPT ![m.key] = <<c, m.id>>]
         /\ since' = [d \in Client |-> [since[d] EXCEPT ![m.key] =
                        IF d = c /\ Waiting(c) /\ call[c].id = m.id THEN {<<c, m.id>>}
                        ELSE IF @ = {} THEN {} ELSE @ \cup {<<c, m.id>>}]]
         /\ Wrote("map", m.key)
    /\ m.op # "map_set" => UNCHANGED <<map, since>>
    /\ m.op = "map_get" => res = map_get(m.key)
    /\ m.op = "journal_append" =>
         journals' = [journals EXCEPT ![m.key] = Append(Journal(m.key), <<c, m.id>>)] /\ Wrote("journal", m.key)
    /\ m.op # "journal_append" => UNCHANGED journals
    /\ m.op = "journal_size" => res = journal_size(m.key)
    /\ m.op = "journal_read" => res = journal_read(m.key, m.arg[1], m.arg[2])
    /\ m.op = "time_series_append" =>
         /\ time_series_append(m.key, <<c, m.id>>, m.arg[1], m.arg[2])
         /\ res = time_series_append_result(m.arg[1])
         /\ IF res.code = "OK" THEN Wrote("series", m.key) ELSE UNCHANGED written
    /\ m.op # "time_series_append" => UNCHANGED series
    /\ m.op = "time_series_get" => res = time_series_get(m.key, Decoded(m.arg))
    /\ m.op = "counter_get_next_value" =>
         /\ counters' = [counters EXCEPT ![m.key] = Incremented(m.key)]
         /\ bumps' = [bumps EXCEPT ![m.key] = @ + 1]
         /\ Wrote("counter", m.key) /\ res = Ok(Incremented(m.key))
    /\ m.op # "counter_get_next_value" => UNCHANGED <<counters, bumps>>
    /\ m.op = "counter_get_current_value" => res = Ok(Count(m.key))
    /\ m.op \notin {"map_set", "counter_get_next_value"} \cup Appends => UNCHANGED written

\* The step is a call, the end of one, an execution or a loss.
LEMMA StepKinds ==
    ASSUME HistoryTypes, Next
    PROVE  \E c \in Client :
             \/ Begins(c) \/ returns(c) \/ (\E status \in use.failures : fails(c, status))
             \/ \E i \in DOMAIN wire[c] : Serves(c, i) \/ lose(c, i)
<1>1. ASSUME NEW c \in Client, NEW k \in Key, call_map(c, k) PROVE Begins(c)
  <2>1. \A p \in Patterns : p \in Arg
    BY DEF Patterns, Arg
  <2>2. Sends(c, "map_set", k, None) /\ Sends(c, "map_get", k, None)
    BY DEF Sends, OpName, Arg
  <2>3. \A p \in Patterns : Sends(c, "map_search_key", k, p)
    BY <2>1 DEF Sends, OpName
  <2>. QED
    BY <1>1, <2>2, <2>3 DEF call_map, Begins
<1>2. ASSUME NEW c \in Client, NEW k \in Key, call_journal(c, k) PROVE Begins(c)
  <2>1. \A p \in Patterns : p \in Arg
    BY DEF Patterns, Arg
  <2>2. Sends(c, "journal_append", k, None) /\ Sends(c, "journal_size", k, None)
    BY DEF Sends, OpName, Arg
  <2>3. \A p \in Patterns : Sends(c, "journal_search_key", k, p)
    BY <2>1 DEF Sends, OpName
  <2>4. ASSUME NEW d \in Chunks, NEW at, at = Len(copy[c][k]) PROVE Sends(c, "journal_read", k, <<at, at + d>>)
    <3>1. at \in Nat /\ d \in Nat
      BY <2>4, ClientsAssumption DEF HistoryTypes
    <3>2. <<at, at + d>> \in Nat \X Nat /\ at + d >= at
      BY <3>1
    <3>3. <<at, at + d>> \in Arg
      BY <3>2 DEF Arg
    <3>. QED
      BY <2>4, <3>2, <3>3 DEF Sends, OpName
  <2>. QED
    BY <1>2, <2>2, <2>3, <2>4 DEF call_journal, Begins
<1>3. ASSUME NEW c \in Client, NEW k \in Key, call_time_series(c, k) PROVE Begins(c)
  <2>1. \A p \in Patterns : p \in Arg
    BY DEF Patterns, Arg
  <2>2. \A t \in Times, s \in Steps : Sends(c, "time_series_append", k, <<t, s>>)
    BY DEF Sends, OpName, Arg
  <2>3. \A b \in Bounds : Sends(c, "time_series_get", k, b)
    BY DEF Sends, OpName, Arg
  <2>4. \A p \in Patterns : Sends(c, "time_series_search_key", k, p)
    BY <2>1 DEF Sends, OpName
  <2>. QED
    BY <1>3, <2>2, <2>3, <2>4 DEF call_time_series, Begins
<1>4. ASSUME NEW c \in Client, NEW k \in Key, call_counter(c, k) PROVE Begins(c)
  <2>1. \A p \in Patterns : p \in Arg
    BY DEF Patterns, Arg
  <2>2. Sends(c, "counter_get_next_value", k, None) /\ Sends(c, "counter_get_current_value", k, None)
    BY DEF Sends, OpName, Arg
  <2>3. \A p \in Patterns : Sends(c, "counter_search_key", k, p)
    BY <2>1 DEF Sends, OpName
  <2>. QED
    BY <1>4, <2>2, <2>3 DEF call_counter, Begins
<1>. QED
  BY <1>1, <1>2, <1>3, <1>4 DEF Next, Serves

\* Executing a request does what Effect says and answers it.
LEMMA ServesEffect ==
    ASSUME NEW c \in Client, NEW i, Serves(c, i)
    PROVE  \E res : Effect(c, wire[c][i], res) /\ Answered(c, i, res)
<1>. PICK m : m = wire[c][i]
  OBVIOUS
<1>0. /\ \A v : Ok(v).code \in Code
      /\ \A code \in Code : Error(code).code \in Code
  BY DEF Ok, Error, Code
<1>1. CASE MapSet(c, i)
  <2>1. m.op = "map_set" /\ Answered(c, i, Ok(None))
    BY <1>1 DEF MapSet
  <2>2. Effect(c, m, Ok(None))
    BY <1>0, <1>1, <2>1 DEF MapSet, map_set, Effect
  <2>. QED
    BY <2>1, <2>2
<1>2. CASE JournalAppend(c, i)
  <2>1. m.op = "journal_append" /\ Answered(c, i, Ok(None))
    BY <1>2 DEF JournalAppend
  <2>2. Effect(c, m, Ok(None))
    BY <1>0, <1>2, <2>1 DEF JournalAppend, journal_append, Effect, Appends
  <2>. QED
    BY <2>1, <2>2
<1>3. CASE TimeSeriesAppend(c, i)
  <2>. DEFINE res == time_series_append_result(m.arg[1])
  <2>1. m.op = "time_series_append" /\ Answered(c, i, res)
    BY <1>3 DEF TimeSeriesAppend
  <2>2. res.code \in Code
    BY <1>0 DEF time_series_append_result, Code
  <2>3. UNCHANGED <<map, journals, counters, since, bumps>>
    BY <1>3 DEF TimeSeriesAppend, time_series_append
  <2>4. /\ time_series_append(m.key, <<c, m.id>>, m.arg[1], m.arg[2])
        /\ IF res.code = "OK" THEN Wrote("series", m.key) ELSE UNCHANGED written
    BY <1>3 DEF TimeSeriesAppend
  <2>. HIDE DEF res
  <2>5. Effect(c, m, res)
    BY <2>1, <2>2, <2>3, <2>4 DEF Effect, Appends, res
  <2>. QED
    BY <2>1, <2>5
<1>4. CASE CounterGetNextValue(c, i)
  <2>1. m.op = "counter_get_next_value" /\ Answered(c, i, Ok(Incremented(m.key)))
    BY <1>4 DEF CounterGetNextValue
  <2>2. Effect(c, m, Ok(Incremented(m.key)))
    BY <1>0, <1>4, <2>1 DEF CounterGetNextValue, counter_get_next_value, Effect
  <2>. QED
    BY <2>1, <2>2
<1>5. CASE CounterGetCurrentValue(c, i)
  <2>1. m.op = "counter_get_current_value" /\ Answered(c, i, Ok(Count(m.key)))
    BY <1>5 DEF CounterGetCurrentValue
  <2>2. Effect(c, m, Ok(Count(m.key)))
    BY <1>0, <1>5, <2>1 DEF CounterGetCurrentValue, counter_get_current_value, stores, Effect
  <2>. QED
    BY <2>1, <2>2
<1>6. ASSUME NEW res, Read(c, i, m.op, res), res.code \in Code,
             m.op \notin {"map_set", "counter_get_next_value", "counter_get_current_value"} \cup Appends,
             /\ m.op = "map_get" => res = map_get(m.key)
             /\ m.op = "journal_size" => res = journal_size(m.key)
             /\ m.op = "journal_read" => res = journal_read(m.key, m.arg[1], m.arg[2])
             /\ m.op = "time_series_get" => res = time_series_get(m.key, Decoded(m.arg))
      PROVE  Effect(c, m, res) /\ Answered(c, i, res)
  BY <1>6 DEF Read, Effect, stores, Appends
<1>7. CASE MapReads(c, i)
  <2>1. map_get(m.key).code \in Code /\ map_search_key(m.arg).code \in Code
    BY <1>0 DEF map_get, map_search_key, Code
  <2>2. CASE Read(c, i, "map_get", map_get(m.key))
    <3>1. m.op = "map_get"
      BY <2>2 DEF Read
    <3>. QED
      BY <1>6, <2>1, <2>2, <3>1 DEF Appends
  <2>3. CASE Read(c, i, "map_search_key", map_search_key(m.arg))
    <3>1. m.op = "map_search_key"
      BY <2>3 DEF Read
    <3>. QED
      BY <1>6, <2>1, <2>3, <3>1 DEF Appends
  <2>. QED
    BY <1>7, <2>2, <2>3 DEF MapReads
<1>8. CASE JournalReads(c, i)
  <2>1. /\ journal_size(m.key).code \in Code /\ journal_search_key(m.arg).code \in Code
        /\ journal_read(m.key, m.arg[1], m.arg[2]).code \in Code
    BY <1>0 DEF journal_size, journal_read, journal_search_key, Code
  <2>2. CASE Read(c, i, "journal_size", journal_size(m.key))
    <3>1. m.op = "journal_size"
      BY <2>2 DEF Read
    <3>. QED
      BY <1>6, <2>1, <2>2, <3>1 DEF Appends
  <2>3. CASE Read(c, i, "journal_read", journal_read(m.key, m.arg[1], m.arg[2]))
    <3>1. m.op = "journal_read"
      BY <2>3 DEF Read
    <3>. QED
      BY <1>6, <2>1, <2>3, <3>1 DEF Appends
  <2>4. CASE Read(c, i, "journal_search_key", journal_search_key(m.arg))
    <3>1. m.op = "journal_search_key"
      BY <2>4 DEF Read
    <3>. QED
      BY <1>6, <2>1, <2>4, <3>1 DEF Appends
  <2>. QED
    BY <1>8, <2>2, <2>3, <2>4 DEF JournalReads
<1>9. CASE TimeSeriesReads(c, i)
  <2>1. time_series_get(m.key, Decoded(m.arg)).code \in Code /\ time_series_search_key(m.arg).code \in Code
    BY <1>0 DEF time_series_get, time_series_search_key, Code
  <2>2. CASE Read(c, i, "time_series_get", time_series_get(m.key, Decoded(m.arg)))
    <3>1. m.op = "time_series_get"
      BY <2>2 DEF Read
    <3>. QED
      BY <1>6, <2>1, <2>2, <3>1 DEF Appends
  <2>3. CASE Read(c, i, "time_series_search_key", time_series_search_key(m.arg))
    <3>1. m.op = "time_series_search_key"
      BY <2>3 DEF Read
    <3>. QED
      BY <1>6, <2>1, <2>3, <3>1 DEF Appends
  <2>. QED
    BY <1>9, <2>2, <2>3 DEF TimeSeriesReads
<1>10. CASE CounterReads(c, i)
  <2>1. counter_search_key(m.arg).code \in Code
    BY <1>0 DEF counter_search_key, Code
  <2>2. m.op = "counter_search_key" /\ Read(c, i, "counter_search_key", counter_search_key(m.arg))
    BY <1>10 DEF CounterReads, Read
  <2>. QED
    BY <1>6, <2>1, <2>2 DEF Appends
<1>. QED
  BY <1>1, <1>2, <1>3, <1>4, <1>5, <1>7, <1>8, <1>9, <1>10 DEF Serves

-----------------------------------------------------------------------------
(* The bookkeeping of calls                                                *)

\* Request m carries the next call of c.
RequestOf(c, m, op, k, arg) ==
    /\ m.op = op /\ m.key = k /\ m.id = n[c] + 1
    /\ op # "time_series_get" => m.arg = arg
    /\ op = "time_series_get" => m.arg = Encoded(arg)

\* A call goes out under a new number; nothing answers it yet.
LEMMA Begun ==
    ASSUME Calls, NEW c \in Client, NEW op, NEW k, NEW arg, Sends(c, op, k, arg), invoke(c, op, k, arg)
    PROVE  /\ UNCHANGED <<stores, use, copy, size, since, issued, bumps, acked, written>>
           /\ n' = [n EXCEPT ![c] = @ + 1]
           /\ call'[c] = [op |-> op, key |-> k, arg |-> arg, id |-> n[c] + 1]
           /\ wire' \in [Client -> Seq(Call)]
           /\ \E m : m \in Call /\ wire'[c] = Append(wire[c], m) /\ RequestOf(c, m, op, k, arg)
           /\ reply_'[c] = None /\ outcome'[c] = "waiting" /\ floor'[c] = Len(issued)
           /\ \A d \in Client \ {c} : /\ call'[d] = call[d] /\ reply_'[d] = reply_[d] /\ wire'[d] = wire[d]
                                      /\ outcome'[d] = outcome[d] /\ floor'[d] = floor[d]
<1>. USE DEF Calls, ClientTypes
<1>1. /\ UNCHANGED <<stores, use, copy, size, since, issued, bumps, acked, written>>
      /\ n' = [n EXCEPT ![c] = @ + 1]
      /\ call'[c] = [op |-> op, key |-> k, arg |-> arg, id |-> n[c] + 1]
      /\ reply_'[c] = None /\ outcome'[c] = "waiting" /\ floor'[c] = Len(issued)
  BY DEF invoke
<1>2. \A d \in Client \ {c} : /\ call'[d] = call[d] /\ reply_'[d] = reply_[d] /\ wire'[d] = wire[d]
                              /\ outcome'[d] = outcome[d] /\ floor'[d] = floor[d]
  BY DEF invoke
<1>. DEFINE m == [call'[c] EXCEPT !.arg = IF op = "time_series_get" THEN Encoded(@) ELSE @]
<1>3. wire' = [wire EXCEPT ![c] = Append(@, m)]
  BY DEF invoke
<1>4. op \in OpName /\ k \in Key /\ n[c] + 1 \in Nat /\ arg \in Arg /\ (op = "time_series_get" => Encoded(arg) \in Arg)
  BY DEF Sends
<1>5. /\ call'[c] \in Call /\ call'[c].op = op /\ call'[c].key = k /\ call'[c].arg = arg
      /\ call'[c].id = n[c] + 1
  BY <1>1, <1>4 DEF Call
<1>6. \A r \in Call, x \in Arg :
        LET s == [r EXCEPT !.arg = x] IN
        s \in Call /\ s.op = r.op /\ s.key = r.key /\ s.id = r.id /\ s.arg = x
  BY DEF Call
<1>7. m \in Call /\ RequestOf(c, m, op, k, arg)
  BY <1>4, <1>5, <1>6 DEF RequestOf
<1>. HIDE DEF m
<1>8. wire'[c] = Append(wire[c], m) /\ wire' \in [Client -> Seq(Call)]
  BY <1>3, <1>7
<1>. QED
  BY <1>1, <1>2, <1>7, <1>8

\* The books are in order after a call went out.
LEMMA BeginCalls ==
    ASSUME Calls, HistoryTypes, NEW c \in Client, Begins(c)
    PROVE  Calls'
<1>. USE DEF Calls
<1>0. PICK op, k, arg : Sends(c, op, k, arg) /\ invoke(c, op, k, arg)
  BY DEF Begins
<1>. USE <1>0
<1>1. /\ UNCHANGED <<stores, use>> /\ n' = [n EXCEPT ![c] = @ + 1]
      /\ call'[c] = [op |-> op, key |-> k, arg |-> arg, id |-> n[c] + 1]
      /\ reply_'[c] = None /\ outcome'[c] = "waiting" /\ wire' \in [Client -> Seq(Call)]
      /\ \A d \in Client \ {c} : /\ call'[d] = call[d] /\ reply_'[d] = reply_[d] /\ wire'[d] = wire[d]
                                 /\ outcome'[d] = outcome[d]
  BY Begun
<1>2. PICK m : m \in Call /\ wire'[c] = Append(wire[c], m) /\ RequestOf(c, m, op, k, arg)
  BY Begun
<1>. USE DEF RequestOf
<1>3. StoreTypes'
  BY <1>1 DEF StoreTypes, stores
<1>4. /\ op \in OpName /\ k \in Key /\ arg \in Arg /\ n[c] \in Nat
      /\ op = "time_series_append" => arg \in Times \X Steps
      /\ op = "time_series_get" => arg \in Bounds
  BY DEF Sends, ClientTypes
<1>5. call'[c] \in Call /\ call'[c].id = n[c] + 1 /\ call'[c].op = op /\ call'[c].key = k /\ call'[c].arg = arg
  BY <1>1, <1>4 DEF Call
<1>6. wire[c] \in Seq(Call) /\ wire'[c] = Append(wire[c], m)
  BY <1>2 DEF ClientTypes
<1>. PICK last : last = Len(wire[c]) + 1
  OBVIOUS
<1>7. /\ DOMAIN wire'[c] = DOMAIN wire[c] \cup {last}
      /\ \A x \in DOMAIN wire[c] : wire'[c][x] = wire[c][x]
      /\ wire'[c][last] = m /\ last \notin DOMAIN wire[c]
  BY <1>6
<1>8. ClientTypes'
  <2>1. call' \in [Client -> Call \cup {None}]
    BY <1>5 DEF invoke, ClientTypes
  <2>3. floor' \in [Client -> Nat]
    BY DEF invoke, ClientTypes, HistoryTypes
  <2>4. reply_' = [d \in Client |-> reply_'[d]]
    BY DEF invoke, ClientTypes
  <2>5. outcome' \in [Client -> Ends \cup {"waiting"}]
    BY DEF invoke, ClientTypes
  <2>6. n' \in [Client -> Nat]
    BY <1>1 DEF ClientTypes
  <2>. QED
    BY <1>1, <2>1, <2>3, <2>4, <2>5, <2>6 DEF ClientTypes
<1>9. n'[c] = n[c] + 1 /\ \A d \in Client \ {c} : n'[d] = n[d]
  BY <1>1 DEF ClientTypes
<1>10. CallsFit'
  <2>1. ASSUME NEW d \in Client \ {c} PROVE /\ Waiting(d)' => call'[d] \in Call /\ call'[d].id = n'[d]
                                            /\ Replied(d)' => reply_'[d].code \in Code
                                            /\ (Waiting(d)' /\ call'[d].op = "time_series_get") => call'[d].arg \in Bounds
    BY <1>1, <1>9 DEF CallsFit, Waiting, Replied
  <2>. QED
    BY <1>1, <1>4, <1>5, <1>9, <2>1 DEF CallsFit, Waiting, Replied
<1>11. WireFits'
  <2>1. ASSUME NEW d \in Client \ {c}
        PROVE  /\ \A x \in DOMAIN wire'[d] : Fits(d, wire[d][x])'
               /\ \A x, y \in DOMAIN wire'[d] : wire'[d][x].id = wire'[d][y].id => x = y
    <3>1. /\ \A x \in DOMAIN wire[d] : Fits(d, wire[d][x])
          /\ \A x, y \in DOMAIN wire[d] : wire[d][x].id = wire[d][y].id => x = y
      BY DEF WireFits
    <3>2. ASSUME NEW x \in DOMAIN wire[d] PROVE Fits(d, wire[d][x])'
      <4>1. /\ call'[d] = call[d] /\ reply_'[d] = reply_[d] /\ wire'[d] = wire[d] /\ n'[d] = n[d]
            /\ outcome'[d] = outcome[d]
        BY <1>1, <1>9
      <4>2. Fits(d, wire[d][x])
        BY <3>1
      <4>. QED
        BY <4>1, <4>2 DEF Fits, Waiting
    <3>. QED
      BY <1>1, <3>1, <3>2
  <2>2. ASSUME NEW x \in DOMAIN wire[c] PROVE Fits(c, wire[c][x])' /\ wire'[c][x].id # n[c] + 1
    <3>1. Fits(c, wire[c][x]) /\ wire[c][x].id \in 1..n[c]
      BY DEF WireFits, Fits
    <3>2. wire[c][x].id \in 1..n'[c] /\ wire[c][x].id # call'[c].id
      BY <1>4, <1>5, <1>9, <3>1
    <3>. QED
      BY <1>5, <1>7, <3>1, <3>2 DEF Fits
  <2>3. Fits(c, wire[c][last])'
    BY <1>1, <1>2, <1>4, <1>5, <1>7, <1>9 DEF Fits
  <2>4. \A x, y \in DOMAIN wire'[c] : wire'[c][x].id = wire'[c][y].id => x = y
    BY <1>2, <1>7, <2>2 DEF WireFits
  <2>. QED
    BY <1>7, <2>1, <2>2, <2>3, <2>4 DEF WireFits
<1>. QED
  BY <1>3, <1>8, <1>10, <1>11

\* A call ends: its caller waits no longer, and nobody else is concerned.
LEMMA Ended ==
    ASSUME Calls, NEW c \in Client, returns(c) \/ (\E status \in use.failures : fails(c, status))
    PROVE  /\ UNCHANGED <<stores, use, n, wire, since, bumps, written>>
           /\ ~Waiting(c)' /\ floor'[c] = 0 /\ reply_'[c] = None
           /\ \A d \in Client \ {c} : /\ call'[d] = call[d] /\ reply_'[d] = reply_[d]
                                      /\ outcome'[d] = outcome[d] /\ floor'[d] = floor[d]
           /\ ClientTypes'
<1>. USE DEF Calls, ClientTypes
<1>1. PICK out \in Ends : outcome' = [outcome EXCEPT ![c] = out]
  <2>1. CASE returns(c)
    <3>1. Replied(c) /\ outcome' = [outcome EXCEPT ![c] = Outcome(call[c].op, reply(reply_[c].code))]
      BY <2>1 DEF returns, Replied
    <3>. QED
      BY <3>1, OutcomeEnds DEF CallsFit
  <2>2. ASSUME NEW status \in use.failures, fails(c, status) PROVE \E out \in Ends : outcome' = [outcome EXCEPT ![c] = out]
    <3>1. status \in StatusCode
      BY ClientsAssumption
    <3>. QED
      BY <2>2, <3>1, OutcomeEnds DEF fails
  <2>. QED
    BY <2>1, <2>2
<1>2. UNCHANGED <<stores, use, n, wire, since, bumps, written>> /\ Forget(c)
  BY DEF returns, fails
<1>3. outcome'[c] # "waiting" /\ outcome' \in [Client -> Ends \cup {"waiting"}]
      /\ \A d \in Client \ {c} : outcome'[d] = outcome[d]
  BY <1>1 DEF Ends
<1>4. /\ floor'[c] = 0 /\ reply_'[c] = None
      /\ call' \in [Client -> Call \cup {None}] /\ floor' \in [Client -> Nat]
      /\ reply_' = [d \in Client |-> reply_'[d]]
      /\ \A d \in Client \ {c} : call'[d] = call[d] /\ reply_'[d] = reply_[d] /\ floor'[d] = floor[d]
  BY <1>2 DEF Forget
<1>. QED
  BY <1>2, <1>3, <1>4 DEF Waiting

\* The books are in order after a call ended.
LEMMA EndCalls ==
    ASSUME Calls, NEW c \in Client, returns(c) \/ (\E status \in use.failures : fails(c, status))
    PROVE  Calls'
<1>. USE DEF Calls
<1>1. /\ UNCHANGED <<stores, use, n, wire>> /\ ~Waiting(c)' /\ ClientTypes'
      /\ \A d \in Client \ {c} : call'[d] = call[d] /\ reply_'[d] = reply_[d] /\ outcome'[d] = outcome[d]
  BY Ended
<1>2. StoreTypes'
  BY <1>1 DEF StoreTypes, stores
<1>3. CallsFit'
  BY <1>1 DEF CallsFit, Waiting, Replied
<1>4. WireFits'
  BY <1>1 DEF WireFits, Fits, Waiting
<1>. QED
  BY <1>1, <1>2, <1>3, <1>4

\* The requests that are left are others than the one that was taken.
LEMMA TakenWire ==
    ASSUME Calls, NEW c \in Client, NEW i \in DOMAIN wire[c], wire' = [wire EXCEPT ![c] = RemoveAt(@, i)]
    PROVE  /\ wire' \in [Client -> Seq(Call)]
           /\ \A d \in Client \ {c} : wire'[d] = wire[d]
           /\ \A x \in DOMAIN wire'[c] : \E y \in DOMAIN wire[c] : wire'[c][x] = wire[c][y]
           /\ \A x \in DOMAIN wire'[c] : wire'[c][x].id # wire[c][i].id
           /\ \A x, y \in DOMAIN wire'[c] : wire'[c][x].id = wire'[c][y].id => x = y
<1>1. wire[c] \in Seq(Call) /\ wire'[c] = RemoveAt(wire[c], i) /\ \A d \in Client \ {c} : wire'[d] = wire[d]
  BY DEF Calls, ClientTypes
<1>2. wire'[c] \in Seq(Call)
  BY <1>1, TakenFrom
<1>3. PICK f \in [DOMAIN RemoveAt(wire[c], i) -> DOMAIN wire[c] \ {i}] :
        /\ \A j \in DOMAIN RemoveAt(wire[c], i) : RemoveAt(wire[c], i)[j] = wire[c][f[j]]
        /\ \A j, k \in DOMAIN RemoveAt(wire[c], i) : f[j] = f[k] => j = k
  BY <1>1, TakenFrom, Zenon
<1>4. /\ \A j \in DOMAIN wire'[c] : f[j] \in DOMAIN wire[c] \ {i} /\ wire'[c][j] = wire[c][f[j]]
      /\ \A j, k \in DOMAIN wire'[c] : f[j] = f[k] => j = k
  BY <1>1, <1>3
<1>5. \A x, y \in DOMAIN wire[c] : wire[c][x].id = wire[c][y].id => x = y
  BY DEF Calls, WireFits
<1>6. wire' \in [Client -> Seq(Call)]
  BY <1>1, <1>2 DEF Calls, ClientTypes
<1>. QED
  BY <1>1, <1>4, <1>5, <1>6

\* Client c gets the result of its request m, or m is not what it waits for.
Answers(c, m, res) ==
    \/ reply_'[c] = reply_[c] /\ ~(Waiting(c) /\ call[c].id = m.id)
    \/ /\ Waiting(c) /\ reply_[c] = None /\ reply_'[c] = res
       /\ m.op = call[c].op /\ m.key = call[c].key /\ call[c].id = m.id
       /\ m.op # "time_series_get" => m.arg = call[c].arg
       /\ m.op = "time_series_get" => m.arg = Encoded(call[c].arg)

\* An answer reaches the caller that waits for it, once, and nobody else.
LEMMA AnsweredWho ==
    ASSUME Calls, NEW c \in Client, NEW i \in DOMAIN wire[c], NEW res, Answered(c, i, res)
    PROVE  /\ UNCHANGED clients /\ Answers(c, wire[c][i], res)
           /\ wire' = [wire EXCEPT ![c] = RemoveAt(@, i)]
           /\ reply_' = [d \in Client |-> reply_'[d]]
           /\ \A d \in Client \ {c} : reply_'[d] = reply_[d]
<1>1. Fits(c, wire[c][i])
  BY DEF Calls, WireFits
<1>2. /\ UNCHANGED clients /\ wire' = [wire EXCEPT ![c] = RemoveAt(@, i)]
      /\ reply_' = [d \in Client |-> reply_'[d]]
      /\ \A d \in Client \ {c} : reply_'[d] = reply_[d]
      /\ reply_'[c] = IF Waiting(c) /\ call[c].id = wire[c][i].id THEN res ELSE reply_[c]
  BY DEF Answered, Calls, ClientTypes
<1>. QED
  BY <1>1, <1>2 DEF Answers, Fits

\* The books are in order after a request was executed or lost.
LEMMA TakenCalls ==
    ASSUME Calls, NEW c \in Client, NEW i \in DOMAIN wire[c], wire' = [wire EXCEPT ![c] = RemoveAt(@, i)],
           UNCHANGED clients, NEW res, res.code \in Code, Answers(c, wire[c][i], res) \/ reply_'[c] = reply_[c],
           \A d \in Client \ {c} : reply_'[d] = reply_[d], reply_' = [d \in Client |-> reply_'[d]]
    PROVE  ClientTypes' /\ CallsFit' /\ WireFits'
<1>. USE DEF Calls
<1>1. UNCHANGED <<use, n, call, outcome, floor>>
  BY DEF clients
<1>2. /\ wire' \in [Client -> Seq(Call)]
      /\ \A d \in Client \ {c} : wire'[d] = wire[d]
      /\ \A x \in DOMAIN wire'[c] : \E y \in DOMAIN wire[c] : wire'[c][x] = wire[c][y]
      /\ \A x \in DOMAIN wire'[c] : wire'[c][x].id # wire[c][i].id
      /\ \A x, y \in DOMAIN wire'[c] : wire'[c][x].id = wire'[c][y].id => x = y
  BY TakenWire
<1>3. reply_'[c] = reply_[c] \/ (reply_'[c] = res /\ Waiting(c) /\ call[c].id = wire[c][i].id)
  BY DEF Answers
<1>4. ClientTypes'
  BY <1>1, <1>2 DEF ClientTypes
<1>5. CallsFit'
  <2>1. ASSUME NEW d \in Client PROVE /\ Waiting(d)' => call'[d] \in Call /\ call'[d].id = n'[d]
                                      /\ Replied(d)' => reply_'[d].code \in Code
                                      /\ (Waiting(d)' /\ call'[d].op = "time_series_get") => call'[d].arg \in Bounds
    <3>1. reply_'[d] = reply_[d] \/ reply_'[d] = res
      BY <1>3
    <3>. QED
      BY <1>1, <3>1 DEF CallsFit, Waiting, Replied
  <2>. QED
    BY <2>1 DEF CallsFit
<1>6. WireFits'
  <2>1. ASSUME NEW d \in Client \ {c}
        PROVE  /\ \A x \in DOMAIN wire'[d] : Fits(d, wire[d][x])'
               /\ \A x, y \in DOMAIN wire'[d] : wire'[d][x].id = wire'[d][y].id => x = y
    BY <1>1, <1>2 DEF WireFits, Fits, Waiting
  <2>2. ASSUME NEW x \in DOMAIN wire'[c] PROVE Fits(c, wire[c][x])'
    <3>1. PICK y \in DOMAIN wire[c] : wire'[c][x] = wire[c][y]
      BY <1>2
    <3>2. Fits(c, wire[c][y]) /\ wire[c][y].id # wire[c][i].id
      BY <1>2, <3>1 DEF WireFits
    <3>3. Waiting(c) /\ wire[c][y].id = call[c].id => reply_'[c] = reply_[c]
      BY <1>3, <3>2
    <3>. QED
      BY <1>1, <3>1, <3>2, <3>3 DEF Fits, Waiting
  <2>. QED
    BY <1>2, <2>1, <2>2 DEF WireFits
<1>. QED
  BY <1>4, <1>5, <1>6

\* What is appended to a journal or a series.
LEMMA Longer ==
    ASSUME NEW S, NEW s \in Seq(S), NEW e \in S
    PROVE  /\ Append(s, e) \in Seq(S) /\ Len(Append(s, e)) = Len(s) + 1
           /\ \A x \in 1..Len(s) : Append(s, e)[x] = s[x]
           /\ Append(s, e)[Len(s) + 1] = e
  OBVIOUS

\* The logs are sequences, whether a key has one or not.
LEMMA LogTypes ==
    ASSUME StoreTypes
    PROVE  \A k \in Key : Journal(k) \in Seq(Entry) /\ Series(k) \in Seq(PointOf)
  BY DEF StoreTypes, Journal, Series

\* The stores keep their types.
LEMMA EffectTypes ==
    ASSUME StoreTypes, NEW c \in Client, NEW m \in Call, NEW res, Effect(c, m, res),
           m.op = "time_series_append" => m.arg \in Times \X Steps
    PROVE  StoreTypes'
<1>. USE DEF StoreTypes
<1>1. m.key \in Key /\ m.id \in Nat /\ <<c, m.id>> \in Entry
  BY DEF Call, Entry
<1>2. map' \in [Key -> Entry \cup {None}]
  BY <1>1 DEF Effect
<1>3. journals' \in [Key -> Seq(Entry) \cup {None}]
  <2>1. Append(Journal(m.key), <<c, m.id>>) \in Seq(Entry)
    BY <1>1, LogTypes, Longer
  <2>. QED
    BY <1>1, <2>1 DEF Effect
<1>4. series' \in [Key -> Seq(PointOf) \cup {None}]
  <2>1. CASE m.op = "time_series_append"
    <3>. DEFINE at == parse_iso8601_utc(m.arg[1])
                pt == [value |-> <<c, m.id>>, time |-> at, step |-> m.arg[2]]
    <3>1. m.arg[1] \in Times /\ m.arg[2] \in Steps
      BY <2>1
    <3>2. at = None \/ at \in Int
      BY <3>1, ClientsAssumption DEF parse_iso8601_utc
    <3>3. series' = [series EXCEPT ![m.key] = IF at = None THEN @ ELSE Append(Series(m.key), pt)]
      BY <2>1 DEF Effect, time_series_append
    <3>4. at # None => pt \in PointOf
      BY <1>1, <3>1, <3>2 DEF PointOf
    <3>. HIDE DEF at, pt
    <3>5. at # None => Append(Series(m.key), pt) \in Seq(PointOf)
      BY <1>1, <3>4, LogTypes, Longer
    <3>. QED
      BY <3>3, <3>5
  <2>. QED
    BY <2>1 DEF Effect
<1>5. counters' \in [Key -> Nat \cup {None}]
  <2>1. \A x \in Nat, M \in Nat \ {0} : x % M \in Nat
    OBVIOUS
  <2>2. Count(m.key) \in Nat
    BY <1>1 DEF Count
  <2>3. Incremented(m.key) \in Nat
    BY <2>1, <2>2, Modulus DEF Incremented
  <2>. QED
    BY <2>3 DEF Effect
<1>. QED
  BY <1>2, <1>3, <1>4, <1>5

\* The books are in order after every step.
LEMMA StepCalls ==
    ASSUME Calls, HistoryTypes, [Next]_vars
    PROVE  Calls'
<1>1. CASE UNCHANGED vars
  BY <1>1 DEF vars, clients, stores, Calls, StoreTypes, ClientTypes, CallsFit, WireFits, Fits, Waiting, Replied
<1>2. ASSUME NEW c \in Client, NEW i \in DOMAIN wire[c], Serves(c, i) PROVE Calls'
  <2>1. PICK res : Effect(c, wire[c][i], res) /\ Answered(c, i, res)
    BY <1>2, ServesEffect
  <2>2. /\ UNCHANGED clients /\ Answers(c, wire[c][i], res)
        /\ wire' = [wire EXCEPT ![c] = RemoveAt(@, i)]
        /\ reply_' = [d \in Client |-> reply_'[d]]
        /\ \A d \in Client \ {c} : reply_'[d] = reply_[d]
    BY <2>1, AnsweredWho
  <2>3. ClientTypes' /\ CallsFit' /\ WireFits'
    BY <2>1, <2>2, TakenCalls DEF Effect
  <2>4. wire[c][i] \in Call /\ (wire[c][i].op = "time_series_append" => wire[c][i].arg \in Times \X Steps)
    BY DEF Calls, ClientTypes, WireFits, Fits
  <2>5. StoreTypes'
    BY <2>1, <2>4, EffectTypes DEF Calls
  <2>. QED
    BY <2>3, <2>5 DEF Calls
<1>3. ASSUME NEW c \in Client, NEW i \in DOMAIN wire[c], lose(c, i) PROVE Calls'
  <2>1. wire' = [wire EXCEPT ![c] = RemoveAt(@, i)] /\ UNCHANGED <<stores, clients, reply_>>
    BY <1>3 DEF lose
  <2>2. Error("NotFound").code \in Code /\ reply_' = [d \in Client |-> reply_'[d]]
    BY <2>1 DEF Error, Code, Calls, ClientTypes
  <2>3. ClientTypes' /\ CallsFit' /\ WireFits'
    BY <2>1, <2>2, TakenCalls
  <2>4. StoreTypes'
    BY <2>1 DEF Calls, StoreTypes, stores
  <2>. QED
    BY <2>3, <2>4 DEF Calls
<1>. QED
  BY <1>1, <1>2, <1>3, StepKinds, BeginCalls, EndCalls

-----------------------------------------------------------------------------
(* What a caller is told                                                   *)

\* The call of d is where it was.
Same(d) == call'[d] = call[d] /\ reply_'[d] = reply_[d] /\ outcome'[d] = outcome[d]

\* What d was told it is still told.
LEMMA SameTold ==
    ASSUME NEW d, Same(d)
    PROVE  \A ops : Told(d, ops)' <=> Told(d, ops)
  BY DEF Same, Told, Waiting

\* A call that begins or ends leaves its caller without a reply.
LEMMA Untold ==
    ASSUME Calls, NEW c \in Client,
           Begins(c) \/ returns(c) \/ (\E status \in use.failures : fails(c, status))
    PROVE  /\ UNCHANGED <<stores, since, bumps, written>>
           /\ \A ops : ~Told(c, ops)'
           /\ \A d \in Client \ {c} : Same(d)
<1>1. CASE Begins(c)
  <2>1. PICK op, k, arg : Sends(c, op, k, arg) /\ invoke(c, op, k, arg)
    BY <1>1 DEF Begins
  <2>2. /\ UNCHANGED <<stores, since, bumps, written>> /\ reply_'[c] = None
        /\ \A d \in Client \ {c} : call'[d] = call[d] /\ reply_'[d] = reply_[d] /\ outcome'[d] = outcome[d]
    BY <2>1, Begun
  <2>. QED
    BY <2>2 DEF Told, Same
<1>2. CASE returns(c) \/ (\E status \in use.failures : fails(c, status))
  <2>1. /\ UNCHANGED <<stores, since, bumps, written>> /\ reply_'[c] = None
        /\ \A d \in Client \ {c} : call'[d] = call[d] /\ reply_'[d] = reply_[d] /\ outcome'[d] = outcome[d]
    BY <1>2, Ended
  <2>. QED
    BY <2>1 DEF Told, Same
<1>. QED
  BY <1>1, <1>2

\* When a request is executed, others are told nothing new, and its caller the
\* result if it still waits.
LEMMA Served ==
    ASSUME Calls, NEW c \in Client, NEW i \in DOMAIN wire[c], Serves(c, i)
    PROVE  \E res :
             /\ Effect(c, wire[c][i], res) /\ Answers(c, wire[c][i], res)
             /\ UNCHANGED clients /\ wire' = [wire EXCEPT ![c] = RemoveAt(@, i)]
             /\ \A d \in Client \ {c} : Same(d)
<1>1. PICK res : Effect(c, wire[c][i], res) /\ Answered(c, i, res)
  BY ServesEffect
<1>2. /\ UNCHANGED clients /\ Answers(c, wire[c][i], res)
      /\ wire' = [wire EXCEPT ![c] = RemoveAt(@, i)]
      /\ \A d \in Client \ {c} : reply_'[d] = reply_[d]
  BY <1>1, AnsweredWho
<1>. QED
  BY <1>1, <1>2 DEF Same, clients

\* The caller of a request that was executed: told what it was, or the result.
LEMMA ServedTold ==
    ASSUME NEW c, NEW m, NEW res, Answers(c, m, res), UNCHANGED clients
    PROVE  \/ Same(c)
           \/ /\ Waiting(c) /\ reply_[c] = None /\ reply_'[c] = res /\ call'[c] = call[c]
              /\ m.op = call[c].op /\ m.key = call[c].key /\ call[c].id = m.id
              /\ m.op # "time_series_get" => m.arg = call[c].arg
              /\ m.op = "time_series_get" => m.arg = Encoded(call[c].arg)
              /\ \A ops : ~Told(c, ops) /\ (Told(c, ops)' => m.op \in ops)
  BY DEF Answers, clients, Same, Told

\* A lost request and a step of nobody change nothing that a caller knows.
LEMMA Lost ==
    ASSUME (\E c \in Client : \E i \in DOMAIN wire[c] : lose(c, i)) \/ UNCHANGED vars
    PROVE  /\ UNCHANGED <<stores, clients, reply_, since, bumps, written>>
           /\ \A d \in Client : Same(d)
  BY DEF lose, vars, clients, Same

-----------------------------------------------------------------------------
(* The map                                                                 *)

\* A read that is answered finds what c wrote last, or something newer.
LEMMA StepMap ==
    ASSUME Calls, HistoryTypes, MapInv, [Next]_vars
    PROVE  MapInv'
<1>1. ASSUME UNCHANGED <<map, since>>, NEW D \in SUBSET Client, \A d \in D : Same(d),
             \A d \in Client \ D : ~Told(d, {"map_get"})'
      PROVE  MapInv'
  <2>1. ReadYourWrites'
    <3>1. ASSUME NEW d \in Client, Told(d, {"map_get"})', since'[d][call'[d].key] # {}
          PROVE  reply_'[d].value \in since'[d][call'[d].key]
      <4>1. d \in D
        BY <1>1, <3>1
      <4>2. Told(d, {"map_get"}) /\ call'[d] = call[d] /\ reply_'[d] = reply_[d]
        BY <1>1, <3>1, <4>1, SameTold DEF Same
      <4>. QED
        BY <1>1, <3>1, <4>2 DEF MapInv, ReadYourWrites
    <3>. QED
      BY <3>1 DEF ReadYourWrites
  <2>. QED
    BY <1>1, <2>1 DEF MapInv
<1>2. ASSUME NEW c \in Client, Begins(c) \/ returns(c) \/ (\E status \in use.failures : fails(c, status))
      PROVE  MapInv'
  <2>1. UNCHANGED <<map, since>> /\ ~Told(c, {"map_get"})' /\ \A d \in Client \ {c} : Same(d)
    BY <1>2, Untold DEF stores
  <2>. QED
    BY <1>1, <2>1
<1>3. ASSUME (\E c \in Client : \E i \in DOMAIN wire[c] : lose(c, i)) \/ UNCHANGED vars PROVE MapInv'
  <2>1. UNCHANGED <<map, since>> /\ \A d \in Client : Same(d)
    BY <1>3, Lost DEF stores
  <2>. QED
    BY <1>1, <2>1
<1>4. ASSUME NEW c \in Client, NEW i \in DOMAIN wire[c], Serves(c, i) PROVE MapInv'
  <2>1. PICK res : /\ Effect(c, wire[c][i], res) /\ Answers(c, wire[c][i], res)
                   /\ UNCHANGED clients /\ \A d \in Client \ {c} : Same(d)
    BY <1>4, Served
  <2>2. PICK m \in Call : m = wire[c][i]
    BY DEF Calls, ClientTypes
  <2>3. m.key \in Key /\ m.id \in Nat /\ <<c, m.id>> \in Entry /\ <<c, m.id>> # None
    BY ClientsAssumption DEF Call, Entry
  <2>4. UNCHANGED <<call, outcome>>
    BY <2>1 DEF clients
  <2>5. CASE m.op = "map_set"
    <3>1. /\ map' = [map EXCEPT ![m.key] = <<c, m.id>>]
          /\ since' = [d \in Client |-> [since[d] EXCEPT ![m.key] =
                         IF d = c /\ Waiting(c) /\ call[c].id = m.id THEN {<<c, m.id>>}
                         ELSE IF @ = {} THEN {} ELSE @ \cup {<<c, m.id>>}]]
      BY <2>1, <2>2, <2>5 DEF Effect
    <3>2. ASSUME NEW d \in Client, NEW k \in Key \ {m.key} PROVE since'[d][k] = since[d][k] /\ map'[k] = map[k]
      BY <2>3, <3>1 DEF HistoryTypes, Calls, StoreTypes
    <3>3. ASSUME NEW d \in Client
          PROVE  since'[d][m.key] = IF d = c /\ Waiting(c) /\ call[c].id = m.id THEN {<<c, m.id>>}
                                    ELSE IF since[d][m.key] = {} THEN {} ELSE since[d][m.key] \cup {<<c, m.id>>}
      BY <2>3, <3>1 DEF HistoryTypes
    <3>4. map'[m.key] = <<c, m.id>>
      BY <2>3, <3>1 DEF Calls, StoreTypes
    <3>5. ASSUME NEW d \in Client, NEW k \in Key, since'[d][k] # {} PROVE map'[k] \in since'[d][k]
      <4>1. CASE k = m.key
        <5>1. since'[d][m.key] # {} => <<c, m.id>> \in since'[d][m.key]
          BY <3>3
        <5>. QED
          BY <3>4, <3>5, <4>1, <5>1
      <4>2. CASE k # m.key
        BY <3>2, <3>5, <4>2 DEF MapInv
      <4>. QED
        BY <4>1, <4>2
    <3>6. ASSUME NEW d \in Client, Told(d, {"map_get"})', since'[d][call'[d].key] # {}
          PROVE  reply_'[d].value \in since'[d][call'[d].key]
      <4>1. Same(d)
        BY <2>1, <2>2, <2>5, <3>6, ServedTold
      <4>2. Told(d, {"map_get"}) /\ call'[d] = call[d] /\ reply_'[d] = reply_[d]
        BY <3>6, <4>1, SameTold DEF Same
      <4>3. call[d].key \in Key
        BY <4>2 DEF Calls, CallsFit, Told, Call
      <4>4. ~(d = c /\ call[c].id = m.id)
        BY <2>2, <2>5, <4>2 DEF Calls, WireFits, Fits, Told
      <4>5. since[d][call[d].key] # {} => reply_[d].value \in since[d][call[d].key]
        BY <4>2 DEF MapInv, ReadYourWrites
      <4>6. CASE call[d].key = m.key
        <5>1. since'[d][m.key] = IF since[d][m.key] = {} THEN {} ELSE since[d][m.key] \cup {<<c, m.id>>}
          BY <3>3, <4>4
        <5>. QED
          BY <3>6, <4>2, <4>5, <4>6, <5>1
      <4>7. CASE call[d].key # m.key
        BY <3>2, <3>6, <4>2, <4>3, <4>5, <4>7
      <4>. QED
        BY <4>6, <4>7
    <3>. QED
      BY <3>5, <3>6 DEF MapInv, ReadYourWrites
  <2>6. CASE m.op # "map_set"
    <3>1. UNCHANGED <<map, since>>
      BY <2>1, <2>2, <2>6 DEF Effect
    <3>2. CASE Same(c)
      BY <1>1, <2>1, <3>1, <3>2
    <3>3. CASE ~Same(c)
      <4>1. reply_'[c] = res /\ m.op = call[c].op /\ m.key = call[c].key /\ (Told(c, {"map_get"})' => m.op = "map_get")
        BY <2>1, <2>2, <3>3, ServedTold
      <4>2. ASSUME Told(c, {"map_get"})', since'[c][call'[c].key] # {}
            PROVE  reply_'[c].value \in since'[c][call'[c].key]
        <5>1. res = map_get(m.key) /\ map[m.key] \in since[c][m.key]
          BY <2>1, <2>2, <2>3, <2>4, <3>1, <4>1, <4>2 DEF Effect, MapInv
        <5>2. map[m.key] # None
          BY <2>3, <5>1, ClientsAssumption DEF HistoryTypes
        <5>3. res.value = map[m.key]
          BY <5>1, <5>2 DEF map_get, Ok
        <5>. QED
          BY <2>4, <3>1, <4>1, <5>1, <5>3
      <4>3. ASSUME NEW d \in Client \ {c}, Told(d, {"map_get"})', since'[d][call'[d].key] # {}
            PROVE  reply_'[d].value \in since'[d][call'[d].key]
        <5>1. Told(d, {"map_get"}) /\ call'[d] = call[d] /\ reply_'[d] = reply_[d]
          BY <2>1, <4>3, SameTold DEF Same
        <5>. QED
          BY <3>1, <4>3, <5>1 DEF MapInv, ReadYourWrites
      <4>. QED
        BY <3>1, <4>2, <4>3 DEF MapInv, ReadYourWrites
    <3>. QED
      BY <3>2, <3>3
  <2>. QED
    BY <2>5, <2>6
<1>. QED
  BY <1>2, <1>3, <1>4, StepKinds

-----------------------------------------------------------------------------
(* Listings                                                                *)

\* ListedIfWritten, key by key.
Listed ==
    \A k \in Key :
        /\ <<"map", k>> \in written <=> map[k] # None
        /\ <<"journal", k>> \in written <=> journals[k] # None
        /\ <<"series", k>> \in written <=> series[k] # None
        /\ <<"counter", k>> \in written <=> counters[k] # None

\* Both say the same.
LEMMA ListedByKey == HistoryTypes => (ListedIfWritten <=> Listed)
<1>. SUFFICES ASSUME HistoryTypes PROVE ListedIfWritten <=> Listed
  OBVIOUS
<1>1. /\ map_search_key(Key).value = {k \in Key : map[k] # None}
      /\ journal_search_key(Key).value = {k \in Key : journals[k] # None}
      /\ time_series_search_key(Key).value = {k \in Key : series[k] # None}
      /\ counter_search_key(Key).value = {k \in Key : counters[k] # None}
  BY StoresAssumption DEF map_search_key, journal_search_key, time_series_search_key, counter_search_key, Ok
<1>. DEFINE all == ({"map"} \X {k \in Key : map[k] # None}) \cup ({"journal"} \X {k \in Key : journals[k] # None})
                   \cup ({"series"} \X {k \in Key : series[k] # None}) \cup ({"counter"} \X {k \in Key : counters[k] # None})
<1>2. \A k \in Key : /\ <<"map", k>> \in all <=> map[k] # None
                     /\ <<"journal", k>> \in all <=> journals[k] # None
                     /\ <<"series", k>> \in all <=> series[k] # None
                     /\ <<"counter", k>> \in all <=> counters[k] # None
  OBVIOUS
<1>3. \A e \in all \cup written : \E k \in Key : e \in {<<"map", k>>, <<"journal", k>>, <<"series", k>>, <<"counter", k>>}
  BY DEF HistoryTypes
<1>4. ListedIfWritten <=> written = all
  BY <1>1 DEF ListedIfWritten
<1>. HIDE DEF all
<1>5. written = all => Listed
  BY <1>2 DEF Listed
<1>6. ASSUME Listed PROVE written = all
  <2>1. ASSUME NEW e \in all \cup written PROVE e \in written <=> e \in all
    <3>1. PICK k \in Key : e \in {<<"map", k>>, <<"journal", k>>, <<"series", k>>, <<"counter", k>>}
      BY <1>3
    <3>. QED
      BY <1>2, <1>6, <3>1 DEF Listed
  <2>. QED
    BY <2>1
<1>. QED
  BY <1>4, <1>5, <1>6

\* Only a write that is accepted creates a key, and it is listed.
LEMMA StepListed ==
    ASSUME Calls, HistoryTypes, Listed, [Next]_vars
    PROVE  Listed'
<1>1. ASSUME UNCHANGED <<stores, written>> PROVE Listed'
  BY <1>1 DEF Listed, stores
<1>2. ASSUME NEW c \in Client, NEW i \in DOMAIN wire[c], Serves(c, i) PROVE Listed'
  <2>1. PICK res : Effect(c, wire[c][i], res)
    BY <1>2, ServesEffect
  <2>2. PICK m \in Call : m = wire[c][i]
    BY DEF Calls, ClientTypes
  <2>3. m.key \in Key /\ m.id \in Nat /\ <<c, m.id>> \in Entry
    BY DEF Call, Entry
  <2>4. \A k \in Key, k2 \in Key : \A s, s2 : <<s, k>> = <<s2, k2>> <=> s = s2 /\ k = k2
    OBVIOUS
  <2>6. CASE m.op = "map_set"
    <3>1. UNCHANGED <<journals, series, counters>> /\ written' = written \cup {<<"map", m.key>>}
      BY <2>1, <2>2, <2>6 DEF Effect, Wrote
    <3>2. map'[m.key] # None /\ \A k \in Key \ {m.key} : map'[k] = map[k]
      BY <2>1, <2>2, <2>3, <2>6, ClientsAssumption DEF Effect, Calls, StoreTypes
    <3>. QED
      BY <2>3, <2>4, <3>1, <3>2 DEF Listed
  <2>7. CASE m.op = "journal_append"
    <3>1. UNCHANGED <<map, series, counters>> /\ written' = written \cup {<<"journal", m.key>>}
      BY <2>1, <2>2, <2>7 DEF Effect, Wrote
    <3>2. Append(Journal(m.key), <<c, m.id>>) \in Seq(Entry)
      BY <2>3, LogTypes, Longer DEF Calls
    <3>3. journals'[m.key] # None /\ \A k \in Key \ {m.key} : journals'[k] = journals[k]
      BY <2>1, <2>2, <2>3, <2>7, <3>2, ClientsAssumption DEF Effect, Calls, StoreTypes
    <3>. QED
      BY <2>3, <2>4, <3>1, <3>3 DEF Listed
  <2>8. CASE m.op = "time_series_append"
    <3>. DEFINE at == parse_iso8601_utc(m.arg[1])
                pt == [value |-> <<c, m.id>>, time |-> at, step |-> m.arg[2]]
    <3>1. /\ UNCHANGED <<map, journals, counters>>
          /\ series' = [series EXCEPT ![m.key] = IF at = None THEN @ ELSE Append(Series(m.key), pt)]
          /\ res = time_series_append_result(m.arg[1])
          /\ IF res.code = "OK" THEN Wrote("series", m.key) ELSE UNCHANGED written
      BY <2>1, <2>2, <2>8 DEF Effect, time_series_append
    <3>2. at # None <=> res.code = "OK"
      BY <3>1 DEF time_series_append_result, Ok, Error
    <3>3. m.arg[1] \in Times /\ m.arg[2] \in Steps
      BY <2>2, <2>8 DEF Calls, WireFits, Fits
    <3>4. at # None => pt \in PointOf
      BY <2>3, <3>3, ClientsAssumption DEF PointOf, parse_iso8601_utc
    <3>. HIDE DEF at, pt
    <3>5. at # None => Append(Series(m.key), pt) # None
      BY <2>3, <3>4, LogTypes, Longer, ClientsAssumption DEF Calls
    <3>6. CASE at = None
      <4>1. UNCHANGED <<series, written>>
        BY <3>1, <3>2, <3>6 DEF Calls, StoreTypes
      <4>. QED
        BY <1>1, <3>1, <4>1 DEF stores
    <3>7. CASE at # None
      <4>1. series'[m.key] # None /\ \A k \in Key \ {m.key} : series'[k] = series[k]
        BY <2>3, <3>1, <3>5, <3>7 DEF Calls, StoreTypes
      <4>2. written' = written \cup {<<"series", m.key>>}
        BY <3>1, <3>2, <3>7 DEF Wrote
      <4>. QED
        BY <2>3, <2>4, <3>1, <4>1, <4>2 DEF Listed
    <3>. QED
      BY <3>6, <3>7
  <2>9. CASE m.op = "counter_get_next_value"
    <3>1. /\ UNCHANGED <<map, journals, series>> /\ written' = written \cup {<<"counter", m.key>>}
          /\ counters' = [counters EXCEPT ![m.key] = Incremented(m.key)]
      BY <2>1, <2>2, <2>9 DEF Effect, Wrote
    <3>2. Incremented(m.key) \in Nat
      <4>1. Count(m.key) + 1 \in Nat
        BY <2>3 DEF Count, Calls, StoreTypes
      <4>2. \A x \in Nat, M \in Nat \ {0} : x % M \in Nat
        OBVIOUS
      <4>. QED
        BY <4>1, <4>2, Modulus DEF Incremented
    <3>3. counters'[m.key] # None /\ \A k \in Key \ {m.key} : counters'[k] = counters[k]
      BY <2>3, <3>1, <3>2, StoresAssumption DEF Calls, StoreTypes
    <3>. QED
      BY <2>3, <2>4, <3>1, <3>3 DEF Listed
  <2>10. CASE m.op \notin {"map_set", "counter_get_next_value"} \cup Appends
    BY <1>1, <2>1, <2>2, <2>10 DEF Effect, Appends, stores
  <2>. QED
    BY <2>6, <2>7, <2>8, <2>9, <2>10 DEF Appends
<1>. QED
  BY <1>1, <1>2, StepKinds, Untold, Lost

-----------------------------------------------------------------------------
(* Counters                                                                *)

CounterOps == {"counter_get_next_value", "counter_get_current_value"}

\* A step that is not about counters, except that callers in Client \ D may be
\* left without a reply.
LEMMA CountersQuiet ==
    ASSUME CounterInv, UNCHANGED <<counters, bumps, issued>>, NEW D \in SUBSET Client,
           \A d \in D : floor'[d] = floor[d] /\ (Same(d) \/ (~Told(d, CounterOps) /\ ~Told(d, CounterOps)')),
           \A d \in Client \ D : ~Told(d, CounterOps)', \A d \in Client : floor'[d] <= Len(issued)
    PROVE  CounterInv'
<1>1. \A k : Unwrapped(k)' <=> Unwrapped(k)
  BY DEF Unwrapped
<1>2. \A k : Count(k)' = Count(k)
  BY DEF Count
<1>3. ASSUME NEW d \in Client, NEW ops \in SUBSET CounterOps, Told(d, ops)'
      PROVE  Told(d, ops) /\ call'[d] = call[d] /\ reply_'[d] = reply_[d] /\ floor'[d] = floor[d]
  <2>1. Told(d, CounterOps)'
    BY <1>3 DEF Told
  <2>2. d \in D /\ Same(d)
    BY <2>1
  <2>. QED
    BY <1>3, <2>2, SameTold DEF Same
<1>4. \A d \in Client : Told(d, {"counter_get_next_value"})' =>
        Told(d, {"counter_get_next_value"}) /\ call'[d] = call[d] /\ reply_'[d] = reply_[d]
  BY <1>3 DEF CounterOps
<1>5. ASSUME NEW c \in Client, Told(c, {"counter_get_next_value"})'
      PROVE  /\ reply_'[c].value \in Nat
             /\ Unwrapped(call[c].key)' =>
                  /\ reply_'[c].value <= bumps'[call'[c].key]
                  /\ \A i \in DOMAIN issued' : issued'[i] # <<call'[c].key, reply_'[c].value>>
                  /\ \A d \in Client \ {c} :
                       (Told(d, {"counter_get_next_value"})' /\ call'[d].key = call'[c].key) =>
                          reply_'[d].value # reply_'[c].value
  BY <1>1, <1>4, <1>5 DEF CounterInv
<1>6. CounterOrdered'
  <2>1. ASSUME NEW c \in Client, Told(c, CounterOps)', Unwrapped(call[c].key)', NEW i \in 1..floor'[c],
               issued'[i][1] = call'[c].key
        PROVE  IF call'[c].op = "counter_get_next_value" THEN reply_'[c].value > issued'[i][2]
               ELSE reply_'[c].value >= issued'[i][2]
    <3>1. Told(c, CounterOps) /\ call'[c] = call[c] /\ reply_'[c] = reply_[c] /\ floor'[c] = floor[c]
      BY <1>3, <2>1
    <3>. QED
      BY <1>1, <2>1, <3>1 DEF CounterInv, CounterOrdered, CounterOps
  <2>2. \A i, j \in DOMAIN issued' : (issued'[i] = issued'[j] /\ Unwrapped(issued[i][1])') => i = j
    BY <1>1 DEF CounterInv, CounterOrdered
  <2>. QED
    BY <2>1, <2>2 DEF CounterOrdered, CounterOps
<1>. QED
  BY <1>1, <1>2, <1>5, <1>6 DEF CounterInv

\* A counter that has not wrapped is advanced by one.
LEMMA NextValue ==
    ASSUME Calls, HistoryTypes, CounterInv, NEW k \in Key,
           counters' = [counters EXCEPT ![k] = Incremented(k)], bumps' = [bumps EXCEPT ![k] = @ + 1]
    PROVE  /\ \A q \in Key : Unwrapped(q)' => Unwrapped(q) /\ Count(q)' = bumps'[q]
           /\ \A q \in Key : bumps'[q] = IF q = k THEN bumps[q] + 1 ELSE bumps[q]
           /\ Unwrapped(k)' => Incremented(k) = bumps[k] + 1
           /\ Incremented(k) \in Nat
<1>1. \A q \in Key : bumps[q] \in Nat /\ bumps'[q] = IF q = k THEN bumps[q] + 1 ELSE bumps[q]
  BY DEF HistoryTypes
<1>2. \A q \in Key : Unwrapped(q)' => Unwrapped(q)
  BY <1>1, Modulus DEF Unwrapped
<1>3. \A x \in Nat, M \in Nat \ {0} : x % M \in Nat /\ (x < M => x % M = x)
  OBVIOUS
<1>4. Count(k) + 1 \in Nat
  BY DEF Count, Calls, StoreTypes
<1>5. Incremented(k) \in Nat
  BY <1>3, <1>4, Modulus DEF Incremented
<1>6. ASSUME Unwrapped(k)' PROVE Incremented(k) = bumps[k] + 1
  <2>1. Count(k) = bumps[k] /\ bumps[k] + 1 < 2^Width
    BY <1>1, <1>2, <1>6 DEF CounterInv, Unwrapped
  <2>. QED
    BY <1>3, <1>4, <2>1, Modulus DEF Incremented
<1>7. ASSUME NEW q \in Key, Unwrapped(q)' PROVE Count(q)' = bumps'[q]
  <2>1. CASE q = k
    <3>1. counters'[k] = Incremented(k) /\ Incremented(k) # None
      BY <1>5, StoresAssumption DEF Calls, StoreTypes
    <3>. QED
      BY <1>1, <1>6, <1>7, <2>1, <3>1 DEF Count
  <2>2. CASE q # k
    <3>1. counters'[q] = counters[q] /\ Count(q) = bumps[q]
      BY <1>2, <1>7, <2>2 DEF Calls, StoreTypes, CounterInv
    <3>. QED
      BY <1>1, <2>2, <3>1 DEF Count
  <2>. QED
    BY <2>1, <2>2
<1>. QED
  BY <1>1, <1>2, <1>5, <1>6, <1>7

\* A caller receives a value, which nobody received before.
LEMMA CounterReturned ==
    ASSUME Calls, HistoryTypes, CounterInv, NEW c \in Client, returns(c), call[c].op = "counter_get_next_value"
    PROVE  CounterInv'
<1>. DEFINE k == call[c].key
            v == reply_[c].value
            e == <<k, v>>
<1>1. /\ UNCHANGED <<stores, bumps>> /\ ~Waiting(c)' /\ floor'[c] = 0
      /\ \A d \in Client \ {c} : Same(d) /\ floor'[d] = floor[d]
  BY Ended DEF Same
<1>2. Told(c, {"counter_get_next_value"}) /\ issued' = Append(issued, e)
  BY DEF returns, Told
<1>3. k \in Key /\ v \in Nat /\ e \in Key \X Nat
  BY <1>2 DEF CounterInv, Calls, CallsFit, Told, Call
<1>. HIDE DEF e
<1>4. /\ Len(issued) \in Nat /\ Len(issued') = Len(issued) + 1 /\ DOMAIN issued' = DOMAIN issued \cup {Len(issued) + 1}
      /\ DOMAIN issued = 1..Len(issued)
      /\ \A i \in DOMAIN issued : issued'[i] = issued[i]
      /\ issued'[Len(issued) + 1] = e
  <2>1. PICK S : S = Key \X Nat
    OBVIOUS
  <2>2. issued \in Seq(S) /\ e \in S
    BY <1>3, <2>1 DEF HistoryTypes
  <2>3. issued' \in Seq(S) /\ Len(issued') = Len(issued) + 1 /\ issued'[Len(issued) + 1] = e
        /\ \A i \in 1..Len(issued) : issued'[i] = issued[i]
    BY <1>2, <2>2, Longer
  <2>. QED
    BY <2>2, <2>3
<1>5. e[1] = k /\ e[2] = v /\ e = <<k, v>>
  BY DEF e
<1>. HIDE DEF k, v
<1>6. \A q : (Unwrapped(q)' <=> Unwrapped(q)) /\ Count(q)' = Count(q) /\ bumps'[q] = bumps[q]
  BY <1>1 DEF Unwrapped, Count, stores
<1>7. Unwrapped(k) => v <= bumps[k] /\ \A i \in DOMAIN issued : issued[i] # e
  BY <1>2, <1>5 DEF CounterInv, k, v
<1>8. \A d \in Client : \A ops : Told(d, ops)' =>
        d # c /\ Told(d, ops) /\ call'[d] = call[d] /\ reply_'[d] = reply_[d] /\ floor'[d] = floor[d]
  <2>1. \A ops : ~Told(c, ops)'
    BY <1>1 DEF Told
  <2>. QED
    BY <1>1, <2>1, SameTold DEF Same
<1>9. \A i \in DOMAIN issued' : Unwrapped(issued[i][1])' => issued'[i][2] <= bumps'[issued'[i][1]]
  <2>1. ASSUME NEW i \in DOMAIN issued', Unwrapped(issued[i][1])' PROVE issued'[i][2] <= bumps'[issued'[i][1]]
    <3>1. CASE i \in DOMAIN issued
      BY <1>4, <1>6, <2>1, <3>1 DEF CounterInv
    <3>2. CASE i = Len(issued) + 1
      BY <1>4, <1>5, <1>6, <1>7, <2>1, <3>2
    <3>. QED
      BY <1>4, <3>1, <3>2
  <2>. QED
    BY <2>1
<1>10. \A d \in Client : floor'[d] <= Len(issued')
  <2>1. \A d \in Client : floor[d] \in Nat /\ floor[d] <= Len(issued)
    BY DEF CounterInv, Calls, ClientTypes
  <2>2. \A d \in Client : floor'[d] = 0 \/ floor'[d] = floor[d]
    BY <1>1
  <2>. QED
    BY <1>4, <2>1, <2>2
<1>11. ASSUME NEW d \in Client, Told(d, {"counter_get_next_value"})'
       PROVE  /\ reply_'[d].value \in Nat
              /\ Unwrapped(call[d].key)' =>
                   /\ reply_'[d].value <= bumps'[call'[d].key]
                   /\ \A i \in DOMAIN issued' : issued'[i] # <<call'[d].key, reply_'[d].value>>
                   /\ \A f \in Client \ {d} :
                        (Told(f, {"counter_get_next_value"})' /\ call'[f].key = call'[d].key) =>
                           reply_'[f].value # reply_'[d].value
  <2>1. d # c /\ Told(d, {"counter_get_next_value"}) /\ call'[d] = call[d] /\ reply_'[d] = reply_[d]
    BY <1>8, <1>11
  <2>2. Unwrapped(call[d].key) => e # <<call[d].key, reply_[d].value>>
    BY <1>2, <1>5, <2>1 DEF CounterInv, k, v
  <2>3. Unwrapped(call[d].key) => \A i \in DOMAIN issued' : issued'[i] # <<call[d].key, reply_[d].value>>
    BY <1>4, <2>1, <2>2 DEF CounterInv
  <2>4. Unwrapped(call[d].key) =>
          \A f \in Client \ {d} :
             (Told(f, {"counter_get_next_value"})' /\ call'[f].key = call[d].key) => reply_'[f].value # reply_[d].value
    BY <1>8, <2>1 DEF CounterInv
  <2>5. reply_[d].value \in Nat /\ (Unwrapped(call[d].key) => reply_[d].value <= bumps[call[d].key])
    BY <2>1 DEF CounterInv
  <2>. QED
    BY <1>6, <2>1, <2>3, <2>4, <2>5
<1>12. \A i, j \in DOMAIN issued' : (issued'[i] = issued'[j] /\ Unwrapped(issued[i][1])') => i = j
  <2>1. ASSUME NEW i \in DOMAIN issued', NEW j \in DOMAIN issued', issued'[i] = issued'[j], Unwrapped(issued[i][1])'
        PROVE  i = j
    <3>1. CASE i \in DOMAIN issued /\ j \in DOMAIN issued
      BY <1>4, <1>6, <2>1, <3>1 DEF CounterInv, CounterOrdered
    <3>2. CASE i \in DOMAIN issued /\ j = Len(issued) + 1
      BY <1>4, <1>5, <1>6, <1>7, <2>1, <3>2
    <3>3. CASE j \in DOMAIN issued /\ i = Len(issued) + 1
      BY <1>4, <1>5, <1>6, <1>7, <2>1, <3>3
    <3>. QED
      BY <1>4, <3>1, <3>2, <3>3
  <2>. QED
    BY <2>1
<1>13. ASSUME NEW d \in Client, Told(d, CounterOps)', Unwrapped(call[d].key)', NEW i \in 1..floor'[d],
              issued'[i][1] = call'[d].key
       PROVE  IF call'[d].op = "counter_get_next_value" THEN reply_'[d].value > issued'[i][2]
              ELSE reply_'[d].value >= issued'[i][2]
  <2>1. Told(d, CounterOps) /\ call'[d] = call[d] /\ reply_'[d] = reply_[d] /\ floor'[d] = floor[d]
    BY <1>8, <1>13
  <2>2. i \in DOMAIN issued /\ issued'[i] = issued[i]
    BY <1>4, <2>1 DEF CounterInv, Calls, ClientTypes
  <2>. QED
    BY <1>6, <1>13, <2>1, <2>2 DEF CounterInv, CounterOrdered, CounterOps
<1>14. CounterOrdered'
  BY <1>12, <1>13 DEF CounterOrdered, CounterOps
<1>15. \A q \in Key : Unwrapped(q)' => Count(q)' = bumps'[q]
  BY <1>6 DEF CounterInv
<1>. QED
  BY <1>9, <1>10, <1>11, <1>14, <1>15 DEF CounterInv

\* A counter is advanced or read: its caller gets more than was handed out, or
\* no less.
LEMMA CounterAnswered ==
    ASSUME Calls, HistoryTypes, CounterInv, UNCHANGED clients, NEW c \in Client, NEW k \in Key, NEW op \in CounterOps,
           NEW res, NEW news \in BOOLEAN,
           \A d \in Client : Same(d) \/ (d = c /\ news),
           news => /\ reply_'[c] = res /\ call[c].key = k /\ call[c].op = op
                   /\ \A ops : ~Told(c, ops),
           \A q \in Key : bumps'[q] \in Nat /\ bumps[q] <= bumps'[q],
           \A q \in Key : Unwrapped(q)' => Unwrapped(q) /\ Count(q)' = bumps'[q],
           op = "counter_get_next_value" => res.value \in Nat /\ (Unwrapped(k)' => res.value = bumps[k] + 1 /\ bumps'[k] = bumps[k] + 1),
           op = "counter_get_current_value" => (Unwrapped(k)' => res.value = bumps[k])
    PROVE  CounterInv'
<1>1. UNCHANGED <<call, outcome, issued, floor>>
  BY DEF clients
<1>2. \A i \in DOMAIN issued : issued[i][1] \in Key /\ issued[i][2] \in Nat
  <2>1. \A i \in DOMAIN issued : issued[i] \in Key \X Nat
    BY DEF HistoryTypes
  <2>. QED
    BY <2>1
<1>3. \A q \in Key : bumps[q] \in Nat
  BY DEF HistoryTypes
<1>4. ASSUME NEW i \in DOMAIN issued, Unwrapped(issued[i][1])'
      PROVE  issued[i][2] <= bumps[issued[i][1]] /\ issued[i][2] <= bumps'[issued[i][1]]
  <2>1. Unwrapped(issued[i][1])
    BY <1>1, <1>2, <1>4
  <2>. QED
    BY <1>2, <1>3, <2>1 DEF CounterInv
<1>5. ASSUME NEW d \in Client, NEW ops, Told(d, ops)'
      PROVE  \/ Told(d, ops) /\ reply_'[d] = reply_[d]
             \/ d = c /\ news /\ op \in ops
  <2>1. CASE Same(d)
    BY <1>5, <2>1, SameTold DEF Same
  <2>2. CASE d = c /\ news
    BY <1>1, <1>5, <2>2 DEF Told
  <2>. QED
    BY <2>1, <2>2
<1>6. ASSUME NEW d \in Client, Told(d, {"counter_get_next_value"})', ~(d = c /\ news)
      PROVE  /\ Told(d, {"counter_get_next_value"}) /\ reply_'[d] = reply_[d] /\ reply_[d].value \in Nat /\ call[d].key \in Key
             /\ Unwrapped(call[d].key)' => Unwrapped(call[d].key) /\ reply_[d].value <= bumps[call[d].key]
  <2>1. Told(d, {"counter_get_next_value"}) /\ reply_'[d] = reply_[d]
    BY <1>5, <1>6
  <2>2. reply_[d].value \in Nat /\ call[d].key \in Key
    BY <2>1 DEF CounterInv, Calls, CallsFit, Told, Call
  <2>3. Unwrapped(call[d].key)' => Unwrapped(call[d].key)
    BY <1>1, <2>2
  <2>. QED
    BY <2>1, <2>2, <2>3 DEF CounterInv
<1>7. ASSUME news, Told(c, {"counter_get_next_value"})'
      PROVE  /\ reply_'[c].value \in Nat /\ call[c].key = k
             /\ Unwrapped(k)' => reply_'[c].value = bumps[k] + 1 /\ bumps'[k] = bumps[k] + 1
  <2>1. op = "counter_get_next_value"
    BY <1>1, <1>7 DEF Told
  <2>. QED
    BY <1>7, <2>1
<1>8. ASSUME NEW d \in Client, Told(d, {"counter_get_next_value"})'
      PROVE  reply_'[d].value \in Nat /\ call[d].key \in Key /\ (Unwrapped(call[d].key)' => reply_'[d].value <= bumps'[call[d].key])
  <2>1. CASE d = c /\ news
    BY <1>1, <1>3, <1>7, <1>8, <2>1
  <2>2. CASE ~(d = c /\ news)
    BY <1>1, <1>3, <1>6, <1>8, <2>2
  <2>. QED
    BY <2>1, <2>2
<1>9. ASSUME NEW d \in Client, Told(d, {"counter_get_next_value"})', Unwrapped(call[d].key)', NEW i \in DOMAIN issued
      PROVE  issued[i] # <<call[d].key, reply_'[d].value>>
  <2>1. CASE d = c /\ news
    <3>1. issued[i] = <<k, bumps[k] + 1>> => issued[i][1] = k /\ issued[i][2] = bumps[k] + 1
      OBVIOUS
    <3>2. issued[i][1] = k => issued[i][2] <= bumps[k]
      BY <1>1, <1>4, <1>7, <1>9, <2>1
    <3>. QED
      BY <1>1, <1>2, <1>3, <1>7, <1>9, <2>1, <3>1, <3>2
  <2>2. CASE ~(d = c /\ news)
    BY <1>6, <1>9, <2>2 DEF CounterInv
  <2>. QED
    BY <2>1, <2>2
<1>10. ASSUME NEW d \in Client, NEW f \in Client \ {d}, Told(d, {"counter_get_next_value"})', Unwrapped(call[d].key)',
              Told(f, {"counter_get_next_value"})', call[f].key = call[d].key
       PROVE  reply_'[f].value # reply_'[d].value
  <2>1. CASE d = c /\ news
    BY <1>1, <1>3, <1>6, <1>7, <1>10, <2>1
  <2>2. CASE f = c /\ news
    BY <1>1, <1>3, <1>6, <1>7, <1>10, <2>2
  <2>3. CASE ~(d = c /\ news) /\ ~(f = c /\ news)
    <3>1. /\ Told(d, {"counter_get_next_value"}) /\ reply_'[d] = reply_[d] /\ Unwrapped(call[d].key)
          /\ Told(f, {"counter_get_next_value"}) /\ reply_'[f] = reply_[f]
      BY <1>6, <1>10, <2>3
    <3>. QED
      BY <1>10, <3>1 DEF CounterInv
  <2>. QED
    BY <2>1, <2>2, <2>3
<1>11. ASSUME NEW d \in Client, Told(d, CounterOps)', Unwrapped(call[d].key)', NEW i \in 1..floor[d],
              issued[i][1] = call[d].key
       PROVE  IF call[d].op = "counter_get_next_value" THEN reply_'[d].value > issued[i][2]
              ELSE reply_'[d].value >= issued[i][2]
  <2>1. i \in DOMAIN issued
    BY DEF CounterInv, Calls, ClientTypes, HistoryTypes
  <2>2. issued[i][2] \in Nat /\ issued[i][2] <= bumps[call[d].key] /\ call[d].key \in Key
    BY <1>1, <1>2, <1>4, <1>11, <2>1
  <2>3. CASE d = c /\ news
    BY <1>1, <1>3, <1>11, <2>2, <2>3 DEF CounterOps
  <2>4. CASE ~(d = c /\ news)
    <3>1. Told(d, CounterOps) /\ reply_'[d] = reply_[d] /\ Unwrapped(call[d].key)
      BY <1>1, <1>5, <1>11, <2>2, <2>4
    <3>. QED
      BY <1>11, <3>1 DEF CounterInv, CounterOrdered, CounterOps
  <2>. QED
    BY <2>3, <2>4
<1>12. CounterOrdered'
  <2>1. \A i, j \in DOMAIN issued : (issued[i] = issued[j] /\ Unwrapped(issued[i][1])') => i = j
    BY <1>1, <1>2 DEF CounterInv, CounterOrdered
  <2>. QED
    BY <1>1, <1>11, <2>1 DEF CounterOrdered, CounterOps
<1>13. \A d \in Client : floor'[d] <= Len(issued')
  BY <1>1 DEF CounterInv
<1>. QED
  BY <1>1, <1>4, <1>8, <1>9, <1>10, <1>12, <1>13 DEF CounterInv

\* Every step keeps the counters in order.
LEMMA StepCounters ==
    ASSUME Calls, HistoryTypes, CounterInv, [Next]_vars
    PROVE  CounterInv'
<1>0. \A d \in Client : floor[d] <= Len(issued) /\ Len(issued) \in Nat
  BY DEF CounterInv, HistoryTypes
<1>1. ASSUME NEW c \in Client, Begins(c) PROVE CounterInv'
  <2>1. PICK op, k, arg : Sends(c, op, k, arg) /\ invoke(c, op, k, arg)
    BY <1>1 DEF Begins
  <2>2. UNCHANGED issued /\ floor'[c] = Len(issued) /\ \A d \in Client \ {c} : floor'[d] = floor[d]
    BY <2>1, Begun
  <2>3. UNCHANGED <<counters, bumps>> /\ ~Told(c, CounterOps)' /\ \A d \in Client \ {c} : Same(d)
    BY <1>1, Untold DEF stores
  <2>4. \A d \in Client : floor'[d] <= Len(issued)
    BY <1>0, <2>2
  <2>5. PICK D \in SUBSET Client : D = Client \ {c} /\ \A d \in Client \ D : d = c
    OBVIOUS
  <2>. QED
    BY <2>2, <2>3, <2>4, <2>5, CountersQuiet
<1>2. ASSUME NEW c \in Client, returns(c) \/ (\E status \in use.failures : fails(c, status)), UNCHANGED issued
      PROVE  CounterInv'
  <2>1. floor'[c] = 0 /\ \A d \in Client \ {c} : floor'[d] = floor[d]
    BY <1>2, Ended
  <2>2. UNCHANGED <<counters, bumps>> /\ ~Told(c, CounterOps)' /\ \A d \in Client \ {c} : Same(d)
    BY <1>2, Untold DEF stores
  <2>3. \A d \in Client : floor'[d] <= Len(issued)
    BY <1>0, <2>1
  <2>4. PICK D \in SUBSET Client : D = Client \ {c} /\ \A d \in Client \ D : d = c
    OBVIOUS
  <2>. QED
    BY <1>2, <2>1, <2>2, <2>3, <2>4, CountersQuiet
<1>3. ASSUME NEW c \in Client, returns(c) PROVE CounterInv'
  <2>1. call[c].op = "counter_get_next_value" \/ UNCHANGED issued
    BY <1>3 DEF returns
  <2>. QED
    BY <1>2, <1>3, <2>1, CounterReturned
<1>4. ASSUME NEW c \in Client, \E status \in use.failures : fails(c, status) PROVE CounterInv'
  BY <1>2, <1>4 DEF fails
<1>5. ASSUME (\E c \in Client : \E i \in DOMAIN wire[c] : lose(c, i)) \/ UNCHANGED vars PROVE CounterInv'
  <2>1. UNCHANGED <<counters, bumps, issued, floor>> /\ \A d \in Client : Same(d)
    BY <1>5, Lost DEF stores, clients
  <2>. QED
    BY <1>0, <2>1, CountersQuiet
<1>6. ASSUME NEW c \in Client, NEW i \in DOMAIN wire[c], Serves(c, i) PROVE CounterInv'
  <2>1. PICK res : /\ Effect(c, wire[c][i], res) /\ Answers(c, wire[c][i], res)
                   /\ UNCHANGED clients /\ \A d \in Client \ {c} : Same(d)
    BY <1>6, Served
  <2>2. PICK m \in Call : m = wire[c][i]
    BY DEF Calls, ClientTypes
  <2>3. m.key \in Key /\ UNCHANGED <<call, outcome, issued, floor>>
    BY <2>1 DEF Call, clients
  <2>4. PICK news \in BOOLEAN : news <=> ~Same(c)
    OBVIOUS
  <2>5. news => /\ reply_'[c] = res /\ call[c].key = m.key /\ call[c].op = m.op
                /\ \A ops : ~Told(c, ops) /\ (Told(c, ops)' => m.op \in ops)
    BY <2>1, <2>2, <2>4, ServedTold
  <2>6. CASE m.op \notin CounterOps
    <3>1. UNCHANGED <<counters, bumps>>
      BY <2>1, <2>2, <2>6 DEF Effect, CounterOps
    <3>2. Same(c) \/ (~Told(c, CounterOps) /\ ~Told(c, CounterOps)')
      BY <2>4, <2>5, <2>6
    <3>. QED
      BY <1>0, <2>1, <2>3, <3>1, <3>2, CountersQuiet
  <2>7. \A q \in Key : bumps[q] \in Nat
    BY DEF HistoryTypes
  <2>8. CASE m.op = "counter_get_next_value"
    <3>1. /\ counters' = [counters EXCEPT ![m.key] = Incremented(m.key)]
          /\ bumps' = [bumps EXCEPT ![m.key] = @ + 1]
          /\ res.value = Incremented(m.key)
      BY <2>1, <2>2, <2>8 DEF Effect, Ok
    <3>2. /\ \A q \in Key : Unwrapped(q)' => Unwrapped(q) /\ Count(q)' = bumps'[q]
          /\ \A q \in Key : bumps'[q] = IF q = m.key THEN bumps[q] + 1 ELSE bumps[q]
          /\ Unwrapped(m.key)' => Incremented(m.key) = bumps[m.key] + 1
          /\ Incremented(m.key) \in Nat
      BY <2>3, <3>1, NextValue
    <3>3. \A q \in Key : bumps'[q] \in Nat /\ bumps[q] <= bumps'[q]
      BY <2>7, <3>2
    <3>4. bumps'[m.key] = bumps[m.key] + 1
      BY <2>3, <3>2
    <3>. QED
      BY <2>1, <2>3, <2>4, <2>5, <2>8, <3>1, <3>2, <3>3, <3>4, CounterAnswered DEF CounterOps
  <2>9. CASE m.op = "counter_get_current_value"
    <3>1. UNCHANGED <<counters, bumps>> /\ res.value = Count(m.key)
      BY <2>1, <2>2, <2>9 DEF Effect, Ok
    <3>2. \A q \in Key : Unwrapped(q)' => Unwrapped(q) /\ Count(q)' = bumps'[q] /\ Count(q) = bumps[q]
      BY <3>1 DEF Unwrapped, Count, CounterInv
    <3>3. \A q \in Key : bumps'[q] \in Nat /\ bumps[q] <= bumps'[q]
      BY <2>7, <3>1
    <3>. QED
      BY <2>1, <2>3, <2>4, <2>5, <2>9, <3>1, <3>2, <3>3, CounterAnswered DEF CounterOps
  <2>. QED
    BY <2>6, <2>8, <2>9 DEF CounterOps
<1>. QED
  BY <1>1, <1>3, <1>4, <1>5, <1>6, StepKinds

-----------------------------------------------------------------------------
(* Journals                                                                *)

\* A prefix of a prefix.
LEMMA PrefixOfPrefix ==
    ASSUME NEW S, NEW s \in Seq(S), NEW t \in Seq(S), NEW u \in Seq(S), IsPrefix(s, t), IsPrefix(t, u)
    PROVE  IsPrefix(s, u) /\ Len(t) <= Len(u)
<1>1. Len(s) <= Len(t) /\ \A i \in 1..Len(s) : s[i] = t[i]
  BY PrefixByElements
<1>2. Len(t) <= Len(u) /\ \A i \in 1..Len(t) : t[i] = u[i]
  BY PrefixByElements
<1>3. Len(s) <= Len(u) /\ \A i \in 1..Len(s) : s[i] = u[i]
  BY <1>1, <1>2
<1>. QED
  BY <1>2, <1>3, PrefixByElements

\* No step shortens or rewrites a journal.
Grows == \A k \in Key : Journal(k)' \in Seq(Entry) /\ IsPrefix(Journal(k), Journal(k)')

\* A journal that stays as it is, or gets one more entry, grows.
LEMMA JournalsGrow ==
    ASSUME StoreTypes, \/ UNCHANGED journals
                       \/ \E k \in Key, e \in Entry : journals' = [journals EXCEPT ![k] = Append(Journal(k), e)]
    PROVE  Grows
<1>0. \A k \in Key : Journal(k) \in Seq(Entry) /\ IsPrefix(Journal(k), Journal(k))
  BY LogTypes, PrefixByElements
<1>1. CASE UNCHANGED journals
  BY <1>0, <1>1 DEF Grows, Journal
<1>2. ASSUME NEW k \in Key, NEW e \in Entry, journals' = [journals EXCEPT ![k] = Append(Journal(k), e)]
      PROVE  Grows
  <2>. PICK s, t : s = Journal(k) /\ t = Append(s, e)
    OBVIOUS
  <2>1. s \in Seq(Entry) /\ t \in Seq(Entry) /\ Len(t) = Len(s) + 1 /\ \A x \in 1..Len(s) : t[x] = s[x]
    BY <1>0, Longer
  <2>2. IsPrefix(s, t)
    <3>1. Len(s) \in Nat
      BY <2>1
    <3>2. Len(s) <= Len(t) /\ \A x \in 1..Len(s) : s[x] = t[x]
      BY <2>1, <3>1
    <3>. QED
      BY <2>1, <3>2, PrefixByElements
  <2>3. journals'[k] = t /\ t # None /\ \A q \in Key \ {k} : journals'[q] = journals[q]
    BY <1>2, <2>1, ClientsAssumption DEF StoreTypes
  <2>4. Journal(k)' = t /\ \A q \in Key \ {k} : Journal(q)' = Journal(q)
    BY <2>3 DEF Journal
  <2>. QED
    BY <1>0, <2>1, <2>2, <2>4 DEF Grows
<1>. QED
  BY <1>1, <1>2

\* What is known of a journal stays true when it grows.
LEMMA CopiesKept ==
    ASSUME Calls, HistoryTypes, CopiesFit, Grows, NEW c \in Client, NEW k \in Key
    PROVE  /\ \A x \in Nat : x <= Len(Journal(k)) => x <= Len(Journal(k)')
           /\ \A s \in Seq(Entry) : IsPrefix(s, Journal(k)) => IsPrefix(s, Journal(k)')
           /\ size[c][k] <= Len(Journal(k)') /\ IsPrefix(copy[c][k], Journal(k)')
<1>1. Journal(k) \in Seq(Entry) /\ Journal(k)' \in Seq(Entry) /\ IsPrefix(Journal(k), Journal(k)')
  BY LogTypes DEF Grows, Calls
<1>2. Len(Journal(k)) <= Len(Journal(k)') /\ Len(Journal(k)) \in Nat /\ Len(Journal(k)') \in Nat
  BY <1>1, PrefixByElements
<1>3. \A s \in Seq(Entry) : IsPrefix(s, Journal(k)) => IsPrefix(s, Journal(k)')
  BY <1>1, PrefixOfPrefix
<1>4. size[c][k] \in Nat /\ copy[c][k] \in Seq(Entry) /\ size[c][k] <= Len(Journal(k)) /\ IsPrefix(copy[c][k], Journal(k))
  BY DEF HistoryTypes, CopiesFit
<1>. QED
  BY <1>2, <1>3, <1>4

\* Nor does it make a difference to a call that is where it was.
LEMMA JournalCallKept ==
    ASSUME Calls, HistoryTypes, CopiesFit, Grows, NEW c \in Client, JournalCall(c),
           Same(c) \/ (call'[c] = call[c] /\ outcome'[c] = outcome[c] /\ \A ops \in SUBSET {"journal_size", "journal_read"} : ~Told(c, ops)'),
           copy'[c] = copy[c], size'[c] = size[c]
    PROVE  JournalCall(c)'
<1>. PICK k : k = call[c].key
  OBVIOUS
<1>1. call'[c] = call[c] /\ outcome'[c] = outcome[c] /\ (Waiting(c)' <=> Waiting(c))
  BY DEF Same, Waiting
<1>2. (Waiting(c) /\ call[c].op = "journal_read") =>
         call[c].arg \in Nat \X Nat /\ call[c].arg[1] = Len(copy[c][k]) /\ call[c].arg[2] >= Len(copy[c][k])
  BY DEF JournalCall
<1>3. ASSUME NEW ops \in {{"journal_size"}, {"journal_read"}}, Told(c, ops)'
      PROVE  Told(c, ops) /\ reply_'[c] = reply_[c] /\ k \in Key
  <2>1. Same(c)
    BY <1>3
  <2>2. Told(c, ops)
    BY <1>3, <2>1, SameTold
  <2>. QED
    BY <2>1, <2>2 DEF Same, Told, Calls, CallsFit, Call
<1>4. ASSUME Told(c, {"journal_size"})' PROVE reply_'[c].value \in Nat /\ reply_'[c].value <= Len(Journal(k)')
  <2>1. Told(c, {"journal_size"}) /\ reply_'[c] = reply_[c] /\ k \in Key
    BY <1>3, <1>4
  <2>2. reply_[c].value \in Nat /\ reply_[c].value <= Len(Journal(k))
    BY <2>1 DEF JournalCall
  <2>. QED
    BY <2>1, <2>2, CopiesKept
<1>5. ASSUME Told(c, {"journal_read"})'
      PROVE  /\ reply_'[c].value \in Seq(Entry) /\ IsPrefix(copy[c][k] \o reply_'[c].value, Journal(k)')
             /\ call[c].arg[1] + Len(reply_'[c].value) >= Clamp(call[c].arg[2], size[c][k])
  <2>1. Told(c, {"journal_read"}) /\ reply_'[c] = reply_[c] /\ k \in Key
    BY <1>3, <1>5
  <2>2. /\ reply_[c].value \in Seq(Entry) /\ IsPrefix(copy[c][k] \o reply_[c].value, Journal(k))
        /\ call[c].arg[1] + Len(reply_[c].value) >= Clamp(call[c].arg[2], size[c][k])
    BY <2>1 DEF JournalCall
  <2>3. copy[c][k] \o reply_[c].value \in Seq(Entry)
    BY <2>1, <2>2 DEF HistoryTypes
  <2>. QED
    BY <2>1, <2>2, <2>3, CopiesKept
<1>6. Journal(call[c].key)' = Journal(k)' /\ Clamp(call'[c].arg[2], size'[c][k]) = Clamp(call[c].arg[2], size[c][k])
  BY <1>1
<1>. QED
  BY <1>1, <1>2, <1>4, <1>5, <1>6 DEF JournalCall

\* Reading on from the end of a copy extends it by what comes next.
LEMMA ReadOn ==
    ASSUME NEW S, NEW s \in Seq(S), NEW log \in Seq(S), IsPrefix(s, log),
           NEW e \in Nat, Len(s) <= e, e <= Len(log)
    PROVE  LET v == SubSeq(log, Len(s) + 1, e) IN
           v \in Seq(S) /\ Len(v) = e - Len(s) /\ IsPrefix(s \o v, log)
<1>. PICK a, v : a = Len(s) /\ v = SubSeq(log, Len(s) + 1, e)
  OBVIOUS
<1>1. a \in Nat /\ a <= e /\ e <= Len(log) /\ Len(log) \in Nat /\ \A i \in 1..a : s[i] = log[i]
  BY PrefixByElements
<1>2. v \in Seq(S) /\ Len(v) = e - a /\ \A i \in 1..(e - a) : v[i] = log[a + i]
  BY <1>1
<1>3. s \o v \in Seq(S) /\ Len(s \o v) = e /\ \A i \in 1..e : (s \o v)[i] = IF i <= a THEN s[i] ELSE v[i - a]
  BY <1>1, <1>2
<1>4. ASSUME NEW i \in 1..e PROVE (s \o v)[i] = log[i]
  <2>1. CASE i <= a
    <3>1. i \in 1..a
      BY <1>1, <2>1
    <3>. QED
      BY <1>1, <1>3, <2>1, <3>1
  <2>2. CASE ~(i <= a)
    <3>1. i - a \in 1..(e - a) /\ a + (i - a) = i
      BY <1>1, <2>2
    <3>. QED
      BY <1>2, <1>3, <2>2, <3>1
  <2>. QED
    BY <2>1, <2>2
<1>5. IsPrefix(s \o v, log)
  BY <1>1, <1>3, <1>4, PrefixByElements
<1>. QED
  BY <1>2, <1>5

\* The answer to a size or a read that c waits for.
LEMMA JournalAnswered ==
    ASSUME Calls, HistoryTypes, JournalInv, NEW c \in Client, NEW m \in Call, NEW res, Effect(c, m, res),
           Waiting(c), reply_'[c] = res, m.op = call[c].op, m.key = call[c].key,
           m.op # "time_series_get" => m.arg = call[c].arg, UNCHANGED clients
    PROVE  Grows => JournalCall(c)'
<1>. SUFFICES ASSUME Grows PROVE JournalCall(c)'
  OBVIOUS
<1>. PICK k : k = m.key
  OBVIOUS
<1>. PICK log : log = Journal(k)
  OBVIOUS
<1>1. UNCHANGED <<call, outcome, copy, size>> /\ (Waiting(c)' <=> Waiting(c)) /\ k \in Key
  BY DEF clients, Waiting, Call
<1>2. /\ log \in Seq(Entry) /\ Len(log) \in Nat /\ copy[c][k] \in Seq(Entry) /\ size[c][k] \in Nat
      /\ size[c][k] <= Len(log) /\ IsPrefix(copy[c][k], log)
  BY <1>1, LogTypes DEF Calls, HistoryTypes, JournalInv, CopiesFit
<1>3. CASE m.op \notin {"journal_size", "journal_read"}
  <2>1. \A ops \in SUBSET {"journal_size", "journal_read"} : ~Told(c, ops)'
    BY <1>1, <1>3 DEF Told
  <2>. QED
    BY <1>1, <2>1, JournalCallKept DEF JournalInv
<1>4. CASE m.op = "journal_size"
  <2>1. UNCHANGED journals /\ res.value = Len(log)
    BY <1>4 DEF Effect, journal_size, Ok
  <2>2. Journal(k)' = log
    BY <2>1 DEF Journal
  <2>3. ~Told(c, {"journal_read"})' /\ call[c].op # "journal_read"
    BY <1>1, <1>4 DEF Told
  <2>. QED
    BY <1>1, <1>2, <2>1, <2>2, <2>3 DEF JournalCall
<1>5. CASE m.op = "journal_read"
  <2>. PICK at, e : at = Len(copy[c][k]) /\ e = Clamp(call[c].arg[2], Len(log))
    OBVIOUS
  <2>1. call[c].arg \in Nat \X Nat /\ call[c].arg[1] = at /\ call[c].arg[2] >= at /\ call[c].arg[2] \in Nat
    BY <1>5 DEF JournalInv, JournalCall
  <2>2. at \in Nat /\ at <= Len(log)
    BY <1>2, PrefixByElements
  <2>3. e \in Nat /\ at <= e /\ e <= Len(log) /\ e >= Clamp(call[c].arg[2], size[c][k]) /\ Clamp(at, Len(log)) = at
    BY <1>2, <2>1, <2>2 DEF Clamp
  <2>4. UNCHANGED journals /\ res.value = SubSeq(log, at + 1, e)
    <3>1. UNCHANGED journals /\ res = journal_read(m.key, m.arg[1], m.arg[2])
      BY <1>5 DEF Effect
    <3>2. m.arg[1] = at /\ m.arg[2] = call[c].arg[2]
      BY <1>5, <2>1
    <3>3. res = journal_read(k, at, call[c].arg[2])
      BY <3>1, <3>2
    <3>4. \A w : Ok(w).value = w
      BY DEF Ok
    <3>5. journal_read(k, at, call[c].arg[2]) = Ok(SubSeq(log, at + 1, e))
      BY <2>3 DEF journal_read
    <3>. QED
      BY <3>1, <3>3, <3>4, <3>5
  <2>5. res.value \in Seq(Entry) /\ Len(res.value) = e - at /\ IsPrefix(copy[c][k] \o res.value, log)
    <3>1. PICK s : s = copy[c][k]
      OBVIOUS
    <3>2. s \in Seq(Entry) /\ IsPrefix(s, log) /\ Len(s) = at /\ Len(s) <= e
      BY <1>2, <2>3, <3>1
    <3>3. LET v == SubSeq(log, Len(s) + 1, e) IN
          v \in Seq(Entry) /\ Len(v) = e - Len(s) /\ IsPrefix(s \o v, log)
      <4>1. log \in Seq(Entry) /\ e \in Nat /\ e <= Len(log)
        BY <1>2, <2>3
      <4>. QED
        BY <3>2, <4>1, ReadOn, Zenon
    <3>. QED
      BY <2>4, <3>1, <3>2, <3>3
  <2>6. Journal(k)' = log
    BY <2>4 DEF Journal
  <2>7. at + Len(res.value) >= Clamp(call[c].arg[2], size[c][k])
    BY <2>2, <2>3, <2>5
  <2>8. ~Told(c, {"journal_size"})'
    BY <1>1, <1>5 DEF Told
  <2>. QED
    BY <1>1, <2>1, <2>5, <2>6, <2>7, <2>8 DEF JournalCall
<1>. QED
  BY <1>3, <1>4, <1>5

\* Executing a request leaves the journals as they are or makes one longer.
LEMMA EffectGrows ==
    ASSUME Calls, NEW c \in Client, NEW m \in Call, NEW res, Effect(c, m, res)
    PROVE  Grows
<1>1. m.key \in Key /\ <<c, m.id>> \in Entry
  BY DEF Call, Entry
<1>2. \/ UNCHANGED journals
      \/ journals' = [journals EXCEPT ![m.key] = Append(Journal(m.key), <<c, m.id>>)]
  BY DEF Effect
<1>3. \/ UNCHANGED journals
      \/ \E k \in Key, e \in Entry : journals' = [journals EXCEPT ![k] = Append(Journal(k), e)]
  BY <1>1, <1>2, Zenon
<1>. QED
  BY <1>3, JournalsGrow DEF Calls

\* What a caller was told becomes part of what it knows.
LEMMA JournalReturned ==
    ASSUME Calls, HistoryTypes, JournalInv, NEW c \in Client, returns(c)
    PROVE  /\ \A k \in Key : /\ size'[c][k] \in Nat /\ size'[c][k] <= Len(Journal(k))
                             /\ copy'[c][k] \in Seq(Entry) /\ IsPrefix(copy'[c][k], Journal(k))
           /\ \A d \in Client \ {c} : copy'[d] = copy[d] /\ size'[d] = size[d]
           /\ copy' = [d \in Client |-> [k \in Key |-> copy'[d][k]]]
           /\ size' = [d \in Client |-> [k \in Key |-> size'[d][k]]]
<1>. PICK k, v, op : k = call[c].key /\ v = reply_[c].value /\ op = call[c].op
  OBVIOUS
<1>1. k \in Key /\ Waiting(c) /\ reply_[c] # None /\ op = call[c].op
  BY DEF returns, Calls, CallsFit, Call
<1>2. \A q \in Key : /\ copy[c][q] \in Seq(Entry) /\ IsPrefix(copy[c][q], Journal(q))
                     /\ size[c][q] \in Nat /\ size[c][q] <= Len(Journal(q))
  BY DEF HistoryTypes, JournalInv, CopiesFit
<1>3. \/ copy' = copy
      \/ op = "journal_read" /\ copy' = [copy EXCEPT ![c][k] = @ \o v]
  BY DEF returns
<1>4. \/ size' = size
      \/ op = "journal_size" /\ size' = [size EXCEPT ![c][k] = v]
  BY DEF returns
<1>5. op = "journal_read" => v \in Seq(Entry) /\ IsPrefix(copy[c][k] \o v, Journal(k))
  BY <1>1 DEF JournalInv, JournalCall, Told
<1>6. op = "journal_size" => v \in Nat /\ v <= Len(Journal(k))
  BY <1>1 DEF JournalInv, JournalCall, Told
<1>7. /\ \A q \in Key : copy'[c][q] \in Seq(Entry) /\ IsPrefix(copy'[c][q], Journal(q))
      /\ \A d \in Client \ {c} : copy'[d] = copy[d]
      /\ copy' = [d \in Client |-> [q \in Key |-> copy'[d][q]]]
  <2>1. CASE copy' = copy
    BY <1>2, <2>1 DEF HistoryTypes
  <2>2. CASE op = "journal_read" /\ copy' = [copy EXCEPT ![c][k] = @ \o v]
    <3>1. PICK w : w = copy[c][k] \o v
      OBVIOUS
    <3>2. w \in Seq(Entry) /\ IsPrefix(w, Journal(k))
      BY <1>1, <1>2, <1>5, <2>2, <3>1
    <3>3. copy' = [copy EXCEPT ![c][k] = w]
      BY <2>2, <3>1
    <3>4. copy'[c][k] = w /\ \A q \in Key \ {k} : copy'[c][q] = copy[c][q]
      BY <1>1, <3>3 DEF HistoryTypes
    <3>5. /\ \A d \in Client \ {c} : copy'[d] = copy[d]
          /\ copy' = [d \in Client |-> [q \in Key |-> copy'[d][q]]]
      BY <1>1, <3>3 DEF HistoryTypes
    <3>. QED
      BY <1>2, <3>2, <3>4, <3>5
  <2>. QED
    BY <1>3, <2>1, <2>2
<1>8. /\ \A q \in Key : size'[c][q] \in Nat /\ size'[c][q] <= Len(Journal(q))
      /\ \A d \in Client \ {c} : size'[d] = size[d]
      /\ size' = [d \in Client |-> [q \in Key |-> size'[d][q]]]
  <2>1. CASE size' = size
    BY <1>2, <2>1 DEF HistoryTypes
  <2>2. CASE op = "journal_size" /\ size' = [size EXCEPT ![c][k] = v]
    <3>1. size'[c][k] = v /\ \A q \in Key \ {k} : size'[c][q] = size[c][q]
      BY <1>1, <2>2 DEF HistoryTypes
    <3>2. /\ \A d \in Client \ {c} : size'[d] = size[d]
          /\ size' = [d \in Client |-> [q \in Key |-> size'[d][q]]]
      BY <1>1, <2>2 DEF HistoryTypes
    <3>. QED
      BY <1>2, <1>6, <2>2, <3>1, <3>2
  <2>. QED
    BY <1>4, <2>1, <2>2
<1>. QED
  BY <1>7, <1>8

\* A caller that waits for nothing has no claim on the journals.
LEMMA JournalIdle ==
    ASSUME NEW c, ~Waiting(c)'
    PROVE  JournalCall(c)'
  BY DEF JournalCall, Told

\* What clients know of the journals stays true.
LEMMA StepJournals ==
    ASSUME Calls, HistoryTypes, JournalInv, [Next]_vars
    PROVE  JournalInv'
<1>0. CopiesFit /\ \A d \in Client : JournalCall(d)
  BY DEF JournalInv
<1>1. ASSUME Grows, UNCHANGED <<copy, size>> PROVE CopiesFit'
  <2>1. ASSUME NEW d \in Client, NEW k \in Key
        PROVE  size'[d][k] <= Len(Journal(k)') /\ IsPrefix(copy'[d][k], Journal(k)')
    BY <1>0, <1>1, CopiesKept
  <2>. QED
    BY <2>1 DEF CopiesFit
<1>2. ASSUME UNCHANGED <<stores, copy, size>>, \A d \in Client : Same(d)
      PROVE  JournalInv'
  <2>1. Grows
    BY <1>2, JournalsGrow DEF stores, Calls
  <2>2. ASSUME NEW d \in Client PROVE JournalCall(d)'
    BY <1>0, <1>2, <2>1, JournalCallKept
  <2>. QED
    BY <1>1, <1>2, <2>1, <2>2 DEF JournalInv
<1>3. ASSUME NEW c \in Client, Begins(c) PROVE JournalInv'
  <2>1. PICK op, k, arg : Sends(c, op, k, arg) /\ invoke(c, op, k, arg)
    BY <1>3 DEF Begins
  <2>2. /\ UNCHANGED <<stores, copy, size>> /\ k \in Key
        /\ call'[c] = [op |-> op, key |-> k, arg |-> arg, id |-> n[c] + 1]
        /\ op = "journal_read" => LET at == Len(copy[c][k]) IN
                                  arg \in Nat \X Nat /\ arg[1] = at /\ arg[2] >= at
    BY <2>1, Begun DEF Sends
  <2>3. (\A ops : ~Told(c, ops)') /\ \A d \in Client \ {c} : Same(d)
    BY <1>3, Untold
  <2>4. Grows
    BY <2>2, JournalsGrow DEF stores, Calls
  <2>5. ASSUME NEW d \in Client \ {c} PROVE JournalCall(d)'
    BY <1>0, <2>2, <2>3, <2>4, JournalCallKept
  <2>6. JournalCall(c)'
    <3>1. call'[c].op = op /\ call'[c].key = k /\ call'[c].arg = arg
      BY <2>2
    <3>. QED
      BY <2>2, <2>3, <3>1 DEF JournalCall
  <2>7. CopiesFit'
    BY <1>1, <2>2, <2>4
  <2>. QED
    BY <2>5, <2>6, <2>7 DEF JournalInv
<1>4. ASSUME NEW c \in Client, returns(c) PROVE JournalInv'
  <2>1. UNCHANGED stores /\ ~Waiting(c)' /\ \A d \in Client \ {c} : Same(d)
    BY <1>4, Ended DEF Same
  <2>2. /\ \A k \in Key : size'[c][k] <= Len(Journal(k)) /\ IsPrefix(copy'[c][k], Journal(k))
        /\ \A d \in Client \ {c} : copy'[d] = copy[d] /\ size'[d] = size[d]
    BY <1>4, JournalReturned
  <2>3. Grows /\ \A k : Journal(k)' = Journal(k)
    BY <2>1, JournalsGrow DEF stores, Calls, Journal
  <2>4. ASSUME NEW d \in Client PROVE JournalCall(d)'
    <3>1. CASE d = c
      BY <2>1, <3>1, JournalIdle
    <3>2. CASE d # c
      BY <1>0, <2>1, <2>2, <2>3, <3>2, JournalCallKept
    <3>. QED
      BY <3>1, <3>2
  <2>5. CopiesFit'
    BY <1>0, <2>2, <2>3 DEF CopiesFit
  <2>. QED
    BY <2>4, <2>5 DEF JournalInv
<1>5. ASSUME NEW c \in Client, NEW status \in use.failures, fails(c, status) PROVE JournalInv'
  <2>1. UNCHANGED stores /\ ~Waiting(c)' /\ \A d \in Client \ {c} : Same(d)
    BY <1>5, Ended DEF Same
  <2>2. UNCHANGED <<copy, size>>
    BY <1>5 DEF fails
  <2>3. Grows
    BY <2>1, JournalsGrow DEF stores, Calls
  <2>4. ASSUME NEW d \in Client PROVE JournalCall(d)'
    <3>1. CASE d = c
      BY <2>1, <3>1, JournalIdle
    <3>2. CASE d # c
      BY <1>0, <2>1, <2>2, <2>3, <3>2, JournalCallKept
    <3>. QED
      BY <3>1, <3>2
  <2>. QED
    BY <1>1, <2>2, <2>3, <2>4 DEF JournalInv
<1>6. ASSUME NEW c \in Client, NEW i \in DOMAIN wire[c], Serves(c, i) PROVE JournalInv'
  <2>. PICK m : m = wire[c][i]
    OBVIOUS
  <2>1. PICK res :
             /\ Effect(c, m, res) /\ Answers(c, m, res)
             /\ UNCHANGED clients /\ \A d \in Client \ {c} : Same(d)
    BY <1>6, Served
  <2>2. m \in Call /\ UNCHANGED <<copy, size>>
    BY <2>1 DEF Calls, ClientTypes, clients
  <2>3. Grows
    BY <2>1, <2>2, EffectGrows
  <2>4. ASSUME NEW d \in Client, Same(d) PROVE JournalCall(d)'
    BY <1>0, <2>2, <2>3, <2>4, JournalCallKept
  <2>5. JournalCall(c)'
    <3>1. CASE Same(c)
      BY <2>4, <3>1
    <3>2. CASE ~Same(c)
      <4>1. /\ Waiting(c) /\ reply_'[c] = res /\ m.op = call[c].op /\ m.key = call[c].key
            /\ m.op # "time_series_get" => m.arg = call[c].arg
        BY <2>1, <3>2, ServedTold
      <4>. QED
        BY <2>1, <2>2, <2>3, <4>1, JournalAnswered
    <3>. QED
      BY <3>1, <3>2
  <2>. QED
    BY <1>1, <2>1, <2>2, <2>3, <2>4, <2>5 DEF JournalInv
<1>7. ASSUME (\E c \in Client : \E i \in DOMAIN wire[c] : lose(c, i)) \/ UNCHANGED vars PROVE JournalInv'
  BY <1>2, <1>7, Lost DEF clients
<1>. QED
  BY <1>3, <1>4, <1>5, <1>6, <1>7, StepKinds

-----------------------------------------------------------------------------
(* The logs                                                                *)

\* The parts of AckedOnce: no entry is there twice, and those c was told of are there, in order.
Distinct == \A op \in Appends, k \in Key : \A i, j \in DOMAIN Log(op, k) : Log(op, k)[i] = Log(op, k)[j] => i = j
Placed(c, op, k) ==
    \A x \in DOMAIN acked[c] : (acked[c][x][1] = op /\ acked[c][x][2] = k) =>
        \E i \in DOMAIN Log(op, k) : Log(op, k)[i] = <<c, acked[c][x][3]>> /\ Behind(c, op, k, i, x)

Recorded == Distinct /\ \A c \in Client, op \in Appends, k \in Key : Placed(c, op, k)

\* Together they are AckedOnce.
LEMMA AckedByCall == AckedOnce <=> Recorded
<1>. DEFINE Mine(c, op, k) == {x \in DOMAIN acked[c] : acked[c][x][1] = op /\ acked[c][x][2] = k}
            After(c, op, k, i, x) ==
                \A y \in Mine(c, op, k) : y < x => \E j \in 1..(i - 1) : Log(op, k)[j] = <<c, acked[c][y][3]>>
            InOrder(c, op, k) ==
                \A x \in Mine(c, op, k) : \E i \in DOMAIN Log(op, k) :
                    Log(op, k)[i] = <<c, acked[c][x][3]>> /\ After(c, op, k, i, x)
<1>1. ASSUME NEW c, NEW op, NEW k, NEW i, NEW x PROVE After(c, op, k, i, x) <=> Behind(c, op, k, i, x)
  <2>1. \A y : y \in Mine(c, op, k) <=> y \in DOMAIN acked[c] /\ acked[c][y][1] = op /\ acked[c][y][2] = k
    BY Zenon
  <2>. HIDE DEF Mine
  <2>. QED
    BY <2>1, Zenon DEF Behind
<1>2. ASSUME NEW c, NEW op, NEW k PROVE InOrder(c, op, k) <=> Placed(c, op, k)
  <2>1. \A y : y \in Mine(c, op, k) <=> y \in DOMAIN acked[c] /\ acked[c][y][1] = op /\ acked[c][y][2] = k
    BY Zenon
  <2>. HIDE DEF Mine, After
  <2>. QED
    BY <1>1, <2>1, Zenon DEF Placed
<1>3. ASSUME AckedOnce PROVE Distinct
  BY <1>3, Zenon DEF AckedOnce, Distinct, Appends
<1>4. ASSUME AckedOnce, NEW c \in Client, NEW op \in Appends, NEW k \in Key PROVE InOrder(c, op, k)
  <2>1. op \in {"journal_append", "time_series_append"}
    BY DEF Appends
  <2>2. \A d \in Client : InOrder(d, op, k)
    BY <1>4, <2>1, Zenon DEF AckedOnce
  <2>. QED
    BY <2>2, Zenon
<1>5. ASSUME Distinct, \A c \in Client, op \in Appends, k \in Key : InOrder(c, op, k) PROVE AckedOnce
  <2>1. ASSUME NEW op \in Appends, NEW k \in Key
        PROVE  /\ \A i, j \in DOMAIN Log(op, k) : Log(op, k)[i] = Log(op, k)[j] => i = j
               /\ \A c \in Client : InOrder(c, op, k)
    BY <1>5, Zenon DEF Distinct
  <2>. QED
    BY <2>1, Zenon DEF AckedOnce, Appends
<1>. HIDE DEF InOrder
<1>. QED
  BY <1>2, <1>3, <1>4, <1>5, Zenon DEF Recorded

\* A point holds an entry.
LEMMA PointValues == \A p \in PointOf : p.value \in Entry
  BY DEF PointOf

\* That None is no log follows from what is assumed of it.
LEMMA NoneIsNoLog == (\A s \in Seq(Entry) : s # None) /\ \A s \in Seq(PointOf) : s # None
<1>1. None \notin Seq(Entry) /\ None \notin Seq(PointOf)
  BY ClientsAssumption
<1>. QED
  BY <1>1, Zenon

\* The values of a series are its entries.
LEMMA ValuesOf ==
    ASSUME NEW s \in Seq(PointOf), NEW p \in PointOf
    PROVE  /\ [i \in DOMAIN s |-> s[i].value] \in Seq(Entry)
           /\ [i \in DOMAIN Append(s, p) |-> Append(s, p)[i].value] = Append([i \in DOMAIN s |-> s[i].value], p.value)
<1>. PICK v, t, w : /\ v = [i \in DOMAIN s |-> s[i].value]
                    /\ t = Append(s, p) /\ w = [i \in DOMAIN t |-> t[i].value]
  OBVIOUS
<1>1. Len(s) \in Nat /\ DOMAIN s = 1..Len(s)
  OBVIOUS
<1>2. \A i \in 1..Len(s) : s[i].value \in Entry
  <2>1. \A i \in 1..Len(s) : s[i] \in PointOf
    BY <1>1
  <2>. QED
    BY <2>1, PointValues
<1>3. v \in Seq(Entry) /\ Len(v) = Len(s) /\ \A i \in 1..Len(s) : v[i] = s[i].value
  BY <1>1, <1>2
<1>4. /\ t \in Seq(PointOf) /\ Len(t) = Len(s) + 1 /\ t[Len(s) + 1] = p
      /\ \A x \in 1..Len(s) : t[x] = s[x]
  BY Longer
<1>5. p.value \in Entry
  BY PointValues
<1>6. w \in Seq(Entry) /\ Len(w) = Len(s) + 1 /\ \A i \in 1..(Len(s) + 1) : w[i] = t[i].value
  <2>1. \A i \in 1..Len(t) : t[i].value \in Entry
    <3>1. \A i \in 1..Len(t) : t[i] \in PointOf
      BY <1>4
    <3>. QED
      BY <3>1, PointValues
  <2>. QED
    BY <1>4, <2>1
<1>7. PICK u : u = Append(v, p.value)
  OBVIOUS
<1>8. /\ u \in Seq(Entry) /\ Len(u) = Len(s) + 1 /\ u[Len(s) + 1] = p.value
      /\ \A x \in 1..Len(s) : u[x] = v[x]
  BY <1>3, <1>5, <1>7, Longer
<1>9. ASSUME NEW i \in 1..(Len(s) + 1) PROVE w[i] = u[i]
  <2>1. CASE i = Len(s) + 1
    BY <1>4, <1>6, <1>8, <2>1
  <2>2. CASE i # Len(s) + 1
    <3>1. i \in 1..Len(s)
      BY <1>1, <2>2
    <3>. QED
      BY <1>3, <1>4, <1>6, <1>8, <3>1
  <2>. QED
    BY <2>1, <2>2
<1>10. w = u
  BY <1>1, <1>6, <1>8, <1>9
<1>. QED
  BY <1>3, <1>7, <1>10

\* The logs are sequences of entries.
LEMMA LogsOfEntries ==
    ASSUME StoreTypes, NEW op \in Appends, NEW k \in Key
    PROVE  Log(op, k) \in Seq(Entry)
<1>1. CASE op = "journal_append"
  BY <1>1, LogTypes DEF Log
<1>2. CASE op # "journal_append"
  <2>. PICK s : s = Series(k)
    OBVIOUS
  <2>1. s \in Seq(PointOf)
    BY LogTypes
  <2>2. [i \in DOMAIN s |-> s[i].value] \in Seq(Entry)
    <3>1. \A i \in DOMAIN s : s[i].value \in Entry
      <4>1. \A i \in DOMAIN s : s[i] \in PointOf
        BY <2>1
      <4>. QED
        BY <4>1, PointValues
    <3>. QED
      BY <2>1, <3>1
  <2>. QED
    BY <1>2, <2>2 DEF Log
<1>. QED
  BY <1>1, <1>2

\* Request m adds an entry.
Adds(m, res) == m.op = "journal_append" \/ (m.op = "time_series_append" /\ res.code = "OK")

\* An append that is accepted makes its log longer by its entry; nothing else does.
LEMMA EffectLogs ==
    ASSUME StoreTypes, NEW c \in Client, NEW m \in Call, NEW res, Effect(c, m, res),
           m.op = "time_series_append" => m.arg \in Times \X Steps,
           NEW op \in Appends, NEW k \in Key
    PROVE  Log(op, k)' = IF Adds(m, res) /\ op = m.op /\ k = m.key
                         THEN Append(Log(op, k), <<c, m.id>>) ELSE Log(op, k)
<1>. USE DEF StoreTypes
<1>1. m.key \in Key /\ m.id \in Nat /\ <<c, m.id>> \in Entry
  BY DEF Call, Entry
<1>2. CASE op = "journal_append"
  <2>1. CASE m.op = "journal_append"
    <3>1. journals' = [journals EXCEPT ![m.key] = Append(Journal(m.key), <<c, m.id>>)]
      BY <2>1 DEF Effect
    <3>. PICK s : s = Append(Journal(m.key), <<c, m.id>>)
      OBVIOUS
    <3>2. s \in Seq(Entry) /\ s # None
      BY <1>1, LogTypes, Longer, NoneIsNoLog
    <3>3. Journal(m.key)' = s /\ \A q \in Key \ {m.key} : Journal(q)' = Journal(q)
      BY <1>1, <3>1, <3>2 DEF Journal
    <3>. QED
      BY <1>2, <2>1, <3>3 DEF Log, Adds
  <2>2. CASE m.op # "journal_append"
    BY <1>2, <2>2 DEF Effect, Log, Journal
  <2>. QED
    BY <2>1, <2>2
<1>3. CASE op = "time_series_append"
  <2>1. CASE m.op = "time_series_append"
    <3>. PICK t : t = parse_iso8601_utc(m.arg[1])
      OBVIOUS
    <3>1. m.arg[1] \in Times /\ m.arg[2] \in Steps
      BY <2>1
    <3>2. t # None => t \in Int
      BY <3>1, ClientsAssumption DEF parse_iso8601_utc
    <3>3. time_series_append(m.key, <<c, m.id>>, m.arg[1], m.arg[2]) /\ res = time_series_append_result(m.arg[1])
      BY <2>1 DEF Effect
    <3>4. res.code = "OK" <=> t # None
      BY <3>3 DEF time_series_append_result, Ok, Error
    <3>5. CASE t = None
      <4>1. series' = [series EXCEPT ![m.key] = @]
        BY <3>3, <3>5 DEF time_series_append
      <4>2. series' = series
        BY <4>1
      <4>. QED
        BY <1>3, <3>4, <3>5, <2>1, <4>2 DEF Log, Series, Adds
    <3>6. CASE t # None
      <4>. PICK p : p = [value |-> <<c, m.id>>, time |-> t, step |-> m.arg[2]]
        OBVIOUS
      <4>1. p \in PointOf /\ p.value = <<c, m.id>>
        BY <1>1, <3>1, <3>2, <3>6 DEF PointOf
      <4>2. series' = [series EXCEPT ![m.key] = Append(Series(m.key), p)]
        BY <3>3, <3>6 DEF time_series_append
      <4>. PICK s, u : s = Series(m.key) /\ u = Append(s, p)
        OBVIOUS
      <4>3. s \in Seq(PointOf) /\ u \in Seq(PointOf) /\ u # None
        BY <1>1, <4>1, LogTypes, Longer, NoneIsNoLog
      <4>4. Series(m.key)' = u /\ \A q \in Key \ {m.key} : Series(q)' = Series(q)
        BY <1>1, <4>2, <4>3 DEF Series
      <4>5. [i \in DOMAIN u |-> u[i].value] = Append([i \in DOMAIN s |-> s[i].value], <<c, m.id>>)
        BY <4>1, <4>3, ValuesOf
      <4>6. CASE k = m.key
        <5>1. Log(op, k) = [i \in DOMAIN s |-> s[i].value] /\ Log(op, k)' = [i \in DOMAIN u |-> u[i].value]
          BY <1>3, <4>4, <4>6 DEF Log
        <5>. QED
          BY <1>3, <2>1, <3>4, <3>6, <4>5, <4>6, <5>1 DEF Adds
      <4>7. CASE k # m.key
        <5>1. Log(op, k)' = Log(op, k)
          BY <1>3, <4>4, <4>7 DEF Log
        <5>. QED
          BY <4>7, <5>1
      <4>. QED
        BY <4>6, <4>7
    <3>. QED
      BY <3>5, <3>6
  <2>2. CASE m.op # "time_series_append"
    BY <1>3, <2>2 DEF Effect, Log, Series
  <2>. QED
    BY <2>1, <2>2
<1>. QED
  BY <1>2, <1>3 DEF Appends

\* The log keeps its entries where they are.
Extends(op, k) == \A j \in DOMAIN Log(op, k) : j \in DOMAIN (Log(op, k)') /\ (Log(op, k)')[j] = Log(op, k)[j]

\* Places in a log stay places in it when it is extended.
LEMMA BehindKept ==
    ASSUME StoreTypes, NEW op \in Appends, NEW k \in Key, Extends(op, k), NEW c, acked'[c] = acked[c],
           NEW i \in DOMAIN Log(op, k), NEW z, Behind(c, op, k, i, z)
    PROVE  Behind(c, op, k, i, z)'
<1>. PICK log, new : log = Log(op, k) /\ new = Log(op, k)'
  OBVIOUS
<1>1. log \in Seq(Entry) /\ i \in DOMAIN log
  BY LogsOfEntries
<1>2. 1..(i - 1) \subseteq DOMAIN log
  BY <1>1
<1>3. \A j \in 1..(i - 1) : new[j] = log[j]
  BY <1>2 DEF Extends
<1>4. ASSUME NEW y \in DOMAIN acked[c], y < z, acked[c][y][1] = op, acked[c][y][2] = k
      PROVE  \E j \in 1..(i - 1) : new[j] = <<c, acked[c][y][3]>>
  <2>1. PICK j \in 1..(i - 1) : log[j] = <<c, acked[c][y][3]>>
    BY <1>4 DEF Behind
  <2>. QED
    BY <1>3, <2>1
<1>. QED
  BY <1>4 DEF Behind

\* So a caller finds the appends it was told of where they were.
LEMMA PlacedKept ==
    ASSUME StoreTypes, NEW op \in Appends, NEW k \in Key, Extends(op, k), NEW c, acked'[c] = acked[c], Placed(c, op, k)
    PROVE  Placed(c, op, k)'
<1>1. ASSUME NEW x \in DOMAIN acked[c], acked[c][x][1] = op, acked[c][x][2] = k
      PROVE  \E i \in DOMAIN (Log(op, k)') : (Log(op, k)')[i] = <<c, acked[c][x][3]>> /\ Behind(c, op, k, i, x)'
  <2>1. PICK i \in DOMAIN Log(op, k) : Log(op, k)[i] = <<c, acked[c][x][3]>> /\ Behind(c, op, k, i, x)
    BY <1>1 DEF Placed
  <2>2. Behind(c, op, k, i, x)'
    BY <2>1, BehindKept
  <2>3. i \in DOMAIN (Log(op, k)') /\ (Log(op, k)')[i] = <<c, acked[c][x][3]>>
    BY <2>1 DEF Extends
  <2>. QED
    BY <2>2, <2>3
<1>. QED
  BY <1>1 DEF Placed

\* An append that was answered, as AppendsFollow says it of one caller.
Follows(c) ==
    LET op == call[c].op
        k == call[c].key
    IN \E i \in DOMAIN Log(op, k) :
         Log(op, k)[i] = <<c, call[c].id>> /\ Behind(c, op, k, i, Len(acked[c]) + 1)

\* What was answered before stays where it was.
LEMMA FollowsKept ==
    ASSUME Calls, AppendsFollow, NEW c \in Client, Same(c), acked'[c] = acked[c],
           \A op \in Appends, k \in Key : Extends(op, k), Told(c, Appends)', reply_'[c].code = "OK"
    PROVE  Follows(c)'
<1>. PICK op, k, z : op = call[c].op /\ k = call[c].key /\ z = Len(acked[c]) + 1
  OBVIOUS
<1>1. Told(c, Appends) /\ call'[c] = call[c] /\ reply_[c].code = "OK"
  BY SameTold DEF Same
<1>2. op \in Appends /\ k \in Key
  BY <1>1 DEF Told, Calls, CallsFit, Call
<1>3. PICK i \in DOMAIN Log(op, k) : Log(op, k)[i] = <<c, call[c].id>> /\ Behind(c, op, k, i, z)
  BY <1>1 DEF AppendsFollow
<1>4. Behind(c, op, k, i, z)'
  BY <1>2, <1>3, BehindKept DEF Calls
<1>5. i \in DOMAIN (Log(op, k)') /\ (Log(op, k)')[i] = <<c, call[c].id>>
  BY <1>2, <1>3 DEF Extends
<1>6. op = call'[c].op /\ k = call'[c].key /\ z = Len(acked'[c]) + 1
  BY <1>1
<1>7. Log(call[c].op, call[c].key)' = Log(op, k)' /\ (Behind(c, call[c].op, call[c].key, i, Len(acked[c]) + 1)' <=> Behind(c, op, k, i, z)')
  BY <1>6
<1>. QED
  BY <1>1, <1>4, <1>5, <1>7 DEF Follows

\* Steps that do not touch the logs, nor what callers were told of them.
LEMMA LogsQuiet ==
    ASSUME Calls, HistoryTypes, LogsFit, Distinct, AppendsFollow, UNCHANGED stores, \A d \in Client : n[d] <= n'[d] /\ n'[d] \in Nat,
           \A d \in Client : \A x \in DOMAIN wire'[d] :
              (\E y \in DOMAIN wire[d] : wire'[d][x].id = wire[d][y].id) \/ wire'[d][x].id > n[d],
           NEW D \in SUBSET Client, \A d \in D : Same(d) /\ acked'[d] = acked[d],
           \A d \in Client \ D : \A ops : ~Told(d, ops)'
    PROVE  /\ LogsFit' /\ Distinct' /\ AppendsFollow'
           /\ \A op, k : Log(op, k)' = Log(op, k)
           /\ \A op, k : Extends(op, k)
<1>1. \A op, k : Log(op, k)' = Log(op, k)
  BY DEF Log, Journal, Series, stores
<1>2. \A op, k : Extends(op, k)
  BY <1>1 DEF Extends
<1>3. ASSUME NEW op \in Appends, NEW k \in Key, NEW i \in DOMAIN Log(op, k), NEW e, e = Log(op, k)[i]
      PROVE  e[2] <= n'[e[1]] /\ \A x \in DOMAIN wire'[e[1]] : wire'[e[1]][x].id # e[2]
  <2>1. e \in Entry
    BY <1>3, LogsOfEntries DEF Calls
  <2>2. e[1] \in Client /\ e[2] \in Nat /\ n[e[1]] \in Nat
    BY <2>1 DEF Entry, Calls, ClientTypes
  <2>3. e[2] <= n[e[1]] /\ \A x \in DOMAIN wire[e[1]] : wire[e[1]][x].id # e[2]
    BY <1>3 DEF LogsFit
  <2>4. ASSUME NEW x \in DOMAIN wire'[e[1]] PROVE wire'[e[1]][x].id # e[2]
    <3>1. CASE \E y \in DOMAIN wire[e[1]] : wire'[e[1]][x].id = wire[e[1]][y].id
      BY <2>3, <3>1
    <3>2. CASE wire'[e[1]][x].id > n[e[1]]
      BY <2>2, <2>3, <3>2
    <3>. QED
      BY <2>2, <3>1, <3>2
  <2>5. e[2] <= n'[e[1]]
    BY <2>2, <2>3
  <2>. QED
    BY <2>4, <2>5
<1>4. LogsFit'
  BY <1>1, <1>3 DEF LogsFit
<1>5. Distinct'
  BY <1>1 DEF Distinct
<1>6. AppendsFollow'
  <2>1. ASSUME NEW d \in Client, Told(d, Appends)', reply_'[d].code = "OK" PROVE Follows(d)'
    <3>1. d \in D
      BY <2>1
    <3>. QED
      BY <1>2, <2>1, <3>1, FollowsKept
  <2>. QED
    BY <2>1 DEF AppendsFollow, Follows
<1>. QED
  BY <1>1, <1>2, <1>4, <1>5, <1>6

\* Executing a request adds its entry at the end of a log, or leaves the logs.
LEMMA LogsServed ==
    ASSUME Calls, HistoryTypes, LogInv, NEW c \in Client, NEW i \in DOMAIN wire[c], Serves(c, i)
    PROVE  LogInv'
<1>. PICK m : m = wire[c][i]
  OBVIOUS
<1>0. LogsFit /\ AppendsFollow /\ Distinct /\ \A d \in Client, op \in Appends, k \in Key : Placed(d, op, k)
  BY AckedByCall DEF LogInv, Recorded
<1>1. PICK res : /\ Effect(c, m, res) /\ Answers(c, m, res) /\ UNCHANGED clients
                 /\ wire' = [wire EXCEPT ![c] = RemoveAt(@, i)] /\ \A d \in Client \ {c} : Same(d)
  BY Served
<1>2. /\ m \in Call /\ UNCHANGED <<n, acked, call>>
      /\ m.op = "time_series_append" => m.arg \in Times \X Steps
      /\ m.id \in 1..n[c] /\ n[c] \in Nat /\ m.id \in Nat
  BY <1>1 DEF Calls, ClientTypes, clients, WireFits, Fits
<1>3. PICK e : e = <<c, m.id>>
  OBVIOUS
<1>4. e \in Entry /\ e[1] = c /\ e[2] = m.id
  BY <1>2, <1>3 DEF Entry
<1>5. \A op \in Appends, k \in Key :
         Log(op, k)' = IF Adds(m, res) /\ op = m.op /\ k = m.key THEN Append(Log(op, k), e) ELSE Log(op, k)
  BY <1>1, <1>2, <1>3, EffectLogs DEF Calls
<1>6. /\ \A d \in Client : \A x \in DOMAIN wire'[d] : \E y \in DOMAIN wire[d] : wire'[d][x] = wire[d][y]
      /\ \A x \in DOMAIN wire'[c] : wire'[c][x].id # m.id
  <2>1. /\ \A d \in Client \ {c} : wire'[d] = wire[d]
        /\ \A x \in DOMAIN wire'[c] : \E y \in DOMAIN wire[c] : wire'[c][x] = wire[c][y]
        /\ \A x \in DOMAIN wire'[c] : wire'[c][x].id # wire[c][i].id
    BY <1>1, TakenWire, Zenon
  <2>. QED
    BY <2>1
<1>7. ASSUME NEW op \in Appends, NEW k \in Key, NEW log, NEW new, log = Log(op, k), new = Log(op, k)'
      PROVE  /\ log \in Seq(Entry) /\ new \in Seq(Entry) /\ Len(log) \in Nat
             /\ \A x \in 1..Len(log) : new[x] = log[x]
             /\ \/ new = log
                \/ Len(new) = Len(log) + 1 /\ new[Len(log) + 1] = e
             /\ (Adds(m, res) /\ op = m.op /\ k = m.key) => Len(new) = Len(log) + 1 /\ new[Len(log) + 1] = e
  <2>1. log \in Seq(Entry) /\ Len(log) \in Nat
    BY <1>7, LogsOfEntries DEF Calls
  <2>2. CASE Adds(m, res) /\ op = m.op /\ k = m.key
    <3>1. new = Append(log, e)
      BY <1>5, <1>7, <2>2
    <3>2. new \in Seq(Entry) /\ Len(new) = Len(log) + 1 /\ new[Len(log) + 1] = e /\ \A x \in 1..Len(log) : new[x] = log[x]
      BY <1>4, <2>1, <3>1, Longer
    <3>. QED
      BY <2>1, <3>2
  <2>3. CASE ~(Adds(m, res) /\ op = m.op /\ k = m.key)
    <3>1. new = log
      BY <1>5, <1>7, <2>3
    <3>. QED
      BY <2>1, <2>3, <3>1
  <2>. QED
    BY <2>2, <2>3
<1>8. \A op \in Appends, k \in Key : Extends(op, k)
  <2>1. ASSUME NEW op \in Appends, NEW k \in Key PROVE Extends(op, k)
    <3>. PICK log, new : log = Log(op, k) /\ new = Log(op, k)'
      OBVIOUS
    <3>1. /\ log \in Seq(Entry) /\ new \in Seq(Entry) /\ Len(log) \in Nat /\ Len(log) <= Len(new)
          /\ \A x \in 1..Len(log) : new[x] = log[x]
      BY <1>7
    <3>2. \A j \in DOMAIN log : j \in DOMAIN new /\ new[j] = log[j]
      BY <3>1
    <3>. QED
      BY <3>2 DEF Extends
  <2>. QED
    BY <2>1
<1>9. ASSUME NEW op \in Appends, NEW k \in Key, NEW x \in DOMAIN Log(op, k)
      PROVE  /\ Log(op, k)[x] # e /\ Log(op, k)[x] \in Entry
             /\ Log(op, k)[x][2] <= n[Log(op, k)[x][1]]
             /\ \A y \in DOMAIN wire'[Log(op, k)[x][1]] : wire'[Log(op, k)[x][1]][y].id # Log(op, k)[x][2]
  <2>. PICK f : f = Log(op, k)[x]
    OBVIOUS
  <2>1. f \in Entry /\ f[1] \in Client
    BY LogsOfEntries DEF Calls, Entry
  <2>2. f[2] <= n[f[1]] /\ \A y \in DOMAIN wire[f[1]] : wire[f[1]][y].id # f[2]
    BY <1>0 DEF LogsFit
  <2>3. f # e
    BY <1>4, <2>2
  <2>4. \A y \in DOMAIN wire'[f[1]] : wire'[f[1]][y].id # f[2]
    BY <1>6, <2>1, <2>2
  <2>. QED
    BY <2>1, <2>2, <2>3, <2>4
<1>10. LogsFit'
  <2>1. ASSUME NEW op \in Appends, NEW k \in Key, NEW x \in DOMAIN (Log(op, k)'), NEW f, f = (Log(op, k)')[x]
        PROVE  f[2] <= n'[f[1]] /\ \A y \in DOMAIN wire'[f[1]] : wire'[f[1]][y].id # f[2]
    <3>. PICK log, new : log = Log(op, k) /\ new = Log(op, k)'
      OBVIOUS
    <3>1. /\ log \in Seq(Entry) /\ new \in Seq(Entry) /\ Len(log) \in Nat
          /\ \A y \in 1..Len(log) : new[y] = log[y]
          /\ new = log \/ (Len(new) = Len(log) + 1 /\ new[Len(log) + 1] = e)
      BY <1>7
    <3>2. (x \in DOMAIN log /\ f = log[x]) \/ f = e
      BY <2>1, <3>1
    <3>3. CASE f = e
      BY <1>2, <1>4, <1>6, <3>3
    <3>4. CASE x \in DOMAIN log /\ f = log[x]
      BY <1>2, <1>9, <3>4
    <3>. QED
      BY <3>2, <3>3, <3>4
  <2>. QED
    BY <2>1 DEF LogsFit
<1>11. Distinct'
  <2>1. ASSUME NEW op \in Appends, NEW k \in Key, NEW x \in DOMAIN (Log(op, k)'), NEW y \in DOMAIN (Log(op, k)'),
               (Log(op, k)')[x] = (Log(op, k)')[y]
        PROVE  x = y
    <3>. PICK log, new : log = Log(op, k) /\ new = Log(op, k)'
      OBVIOUS
    <3>1. /\ log \in Seq(Entry) /\ new \in Seq(Entry) /\ Len(log) \in Nat
          /\ \A z \in 1..Len(log) : new[z] = log[z]
          /\ new = log \/ (Len(new) = Len(log) + 1 /\ new[Len(log) + 1] = e)
      BY <1>7
    <3>2. ASSUME NEW z \in DOMAIN new
          PROVE  (z \in DOMAIN log /\ new[z] = log[z]) \/ (new[z] = e /\ z = Len(log) + 1)
      BY <3>1
    <3>3. /\ \A z \in DOMAIN log : log[z] # e
          /\ \A z, w \in DOMAIN log : log[z] = log[w] => z = w
      BY <1>0, <1>9 DEF Distinct
    <3>. QED
      BY <2>1, <3>2, <3>3
  <2>. QED
    BY <2>1 DEF Distinct
<1>12. ASSUME NEW d \in Client, NEW op \in Appends, NEW k \in Key PROVE Placed(d, op, k)'
  BY <1>0, <1>2, <1>8, PlacedKept DEF Calls
<1>13. AppendsFollow'
  <2>1. ASSUME NEW d \in Client, Told(d, Appends)', reply_'[d].code = "OK", Same(d) PROVE Follows(d)'
    BY <1>0, <1>2, <1>8, <2>1, FollowsKept
  <2>2. ASSUME Told(c, Appends)', reply_'[c].code = "OK", ~Same(c) PROVE Follows(c)'
    <3>1. reply_'[c] = res /\ m.op = call[c].op /\ m.key = call[c].key /\ call[c].id = m.id
      BY <1>1, <2>2, ServedTold
    <3>. PICK op, k, z : op = m.op /\ k = m.key /\ z = Len(acked[c]) + 1
      OBVIOUS
    <3>2. op \in Appends /\ k \in Key /\ Adds(m, res)
      BY <1>2, <2>2, <3>1 DEF Told, Call, Adds, Appends
    <3>. PICK log, new : log = Log(op, k) /\ new = Log(op, k)'
      OBVIOUS
    <3>3. /\ log \in Seq(Entry) /\ new \in Seq(Entry) /\ Len(log) \in Nat
          /\ \A x \in 1..Len(log) : new[x] = log[x]
          /\ Len(new) = Len(log) + 1 /\ new[Len(log) + 1] = e
      BY <1>7, <3>2
    <3>. PICK last : last = Len(log) + 1
      OBVIOUS
    <3>4. last \in DOMAIN new /\ new[last] = <<c, call[c].id>> /\ 1..(last - 1) = DOMAIN log
      BY <1>3, <3>1, <3>3
    <3>5. ASSUME NEW y \in DOMAIN acked[c], acked[c][y][1] = op, acked[c][y][2] = k
          PROVE  \E j \in 1..(last - 1) : new[j] = <<c, acked[c][y][3]>>
      <4>1. Placed(c, op, k)
        BY <1>0, <3>2
      <4>2. PICK j \in DOMAIN log : log[j] = <<c, acked[c][y][3]>>
        BY <3>5, <4>1 DEF Placed
      <4>3. j \in 1..Len(log) /\ j \in 1..(last - 1)
        BY <3>3, <3>4
      <4>. QED
        BY <3>3, <4>2, <4>3
    <3>6. Behind(c, op, k, last, z)'
      BY <1>2, <3>5 DEF Behind
    <3>7. op = call'[c].op /\ k = call'[c].key /\ z = Len(acked'[c]) + 1 /\ call'[c].id = call[c].id
      BY <1>2, <3>1
    <3>8. Log(call[c].op, call[c].key)' = new /\ (Behind(c, call[c].op, call[c].key, last, Len(acked[c]) + 1)' <=> Behind(c, op, k, last, z)')
      BY <3>7
    <3>. QED
      BY <3>4, <3>6, <3>7, <3>8 DEF Follows
  <2>3. ASSUME NEW d \in Client, Told(d, Appends)', reply_'[d].code = "OK" PROVE Follows(d)'
    BY <1>1, <2>1, <2>2, <2>3
  <2>. QED
    BY <2>3 DEF AppendsFollow, Follows
<1>14. AckedOnce'
  <2>1. Recorded'
    BY <1>11, <1>12 DEF Recorded
  <2>. QED
    BY <2>1, AckedByCall, PTL
<1>. QED
  BY <1>10, <1>13, <1>14 DEF LogInv

\* An append its caller is told of comes after those it was told of before.
LEMMA AckedReturned ==
    ASSUME Calls, HistoryTypes, LogInv, NEW c \in Client, returns(c), \A op, k : Log(op, k)' = Log(op, k),
           NEW op \in Appends, NEW k \in Key, op = call[c].op, k = call[c].key, reply_[c].code = "OK",
           NEW a, a = <<op, k, n[c]>>, acked'[c] = Append(acked[c], a),
           NEW p \in Appends, NEW q \in Key
    PROVE  Placed(c, p, q)'
<1>. PICK old, new, len : old = acked[c] /\ new = acked'[c] /\ len = Len(acked[c])
  OBVIOUS
<1>1. n[c] \in Nat /\ a \in Appends \X Key \X Nat /\ a[1] = op /\ a[2] = k /\ a[3] = n[c]
  BY DEF Calls, ClientTypes
<1>2. old \in Seq(Appends \X Key \X Nat)
  BY DEF HistoryTypes
<1>3. /\ len \in Nat /\ DOMAIN old = 1..len /\ DOMAIN new = 1..(len + 1) /\ new[len + 1] = a
      /\ \A x \in 1..len : new[x] = old[x]
  <2>1. /\ new \in Seq(Appends \X Key \X Nat) /\ Len(new) = Len(old) + 1 /\ new[Len(old) + 1] = a
        /\ \A x \in 1..Len(old) : new[x] = old[x]
    BY <1>1, <1>2, Longer
  <2>. QED
    BY <1>2, <2>1
<1>4. ASSUME NEW i, NEW z \in 1..(len + 1), Behind(c, p, q, i, z) PROVE Behind(c, p, q, i, z)'
  <2>1. ASSUME NEW y \in DOMAIN new, y < z, new[y][1] = p, new[y][2] = q
        PROVE  \E j \in 1..(i - 1) : Log(p, q)[j] = <<c, new[y][3]>>
    <3>1. y \in DOMAIN old /\ new[y] = old[y]
      BY <1>3, <2>1
    <3>. QED
      BY <1>4, <2>1, <3>1 DEF Behind
  <2>. QED
    BY <2>1 DEF Behind
<1>5. ASSUME NEW x \in DOMAIN new, new[x][1] = p, new[x][2] = q
      PROVE  \E i \in DOMAIN Log(p, q) : Log(p, q)[i] = <<c, new[x][3]>> /\ Behind(c, p, q, i, x)'
  <2>1. CASE x \in 1..len
    <3>1. Placed(c, p, q)
      BY AckedByCall DEF LogInv, Recorded
    <3>2. PICK i \in DOMAIN Log(p, q) : Log(p, q)[i] = <<c, old[x][3]>> /\ Behind(c, p, q, i, x)
      BY <1>3, <1>5, <2>1, <3>1 DEF Placed
    <3>3. Behind(c, p, q, i, x)'
      BY <1>3, <1>4, <2>1, <3>2
    <3>. QED
      BY <1>3, <2>1, <3>2, <3>3
  <2>2. CASE x = len + 1
    <3>1. p = op /\ q = k /\ new[x][3] = n[c]
      BY <1>1, <1>3, <1>5, <2>2
    <3>2. Told(c, Appends) /\ call[c].id = n[c]
      BY DEF returns, Told, Calls, CallsFit
    <3>3. PICK i \in DOMAIN Log(op, k) : Log(op, k)[i] = <<c, call[c].id>> /\ Behind(c, op, k, i, len + 1)
      BY <3>2 DEF LogInv, AppendsFollow
    <3>4. Behind(c, p, q, i, x)
      BY <2>2, <3>1, <3>3
    <3>5. Behind(c, p, q, i, x)'
      BY <1>3, <1>4, <2>2, <3>4
    <3>. QED
      BY <3>1, <3>2, <3>3, <3>5
  <2>. QED
    BY <1>3, <2>1, <2>2
<1>. QED
  BY <1>5 DEF Placed

\* The end of a call, told or not.
LEMMA LogsEnded ==
    ASSUME Calls, HistoryTypes, LogInv, NEW c \in Client, returns(c) \/ (\E status \in use.failures : fails(c, status))
    PROVE  LogInv'
<1>0. LogsFit /\ AppendsFollow /\ Distinct /\ \A d \in Client, op \in Appends, k \in Key : Placed(d, op, k)
  BY AckedByCall DEF LogInv, Recorded
<1>1. /\ UNCHANGED <<stores, n, wire>> /\ ~Waiting(c)' /\ \A d \in Client \ {c} : Same(d)
  BY Ended DEF Same
<1>2. acked \in [Client -> Seq(Appends \X Key \X Nat)]
  BY DEF HistoryTypes
<1>3. \/ UNCHANGED acked
      \/ /\ returns(c) /\ call[c].op \in Appends /\ Outcome(call[c].op, reply(reply_[c].code)) = "OK"
         /\ acked' = [acked EXCEPT ![c] = Append(@, <<call[c].op, call[c].key, n[c]>>)]
  BY DEF returns, fails, Appends
<1>4. \A d \in Client \ {c} : acked'[d] = acked[d]
  BY <1>2, <1>3
<1>5. \A ops : ~Told(c, ops)'
  BY <1>1 DEF Told
<1>6. PICK D \in SUBSET Client : D = Client \ {c}
  OBVIOUS
<1>7. /\ \A d \in Client : n[d] <= n'[d] /\ n'[d] \in Nat
      /\ \A d \in Client : \A x \in DOMAIN wire'[d] : \E y \in DOMAIN wire[d] : wire'[d][x].id = wire[d][y].id
  BY <1>1 DEF Calls, ClientTypes
<1>8. /\ LogsFit' /\ Distinct' /\ AppendsFollow'
      /\ \A op, k : Log(op, k)' = Log(op, k)
      /\ \A op, k : Extends(op, k)
  BY <1>0, <1>1, <1>4, <1>5, <1>6, <1>7, LogsQuiet
<1>9. ASSUME NEW d \in Client, NEW op \in Appends, NEW k \in Key PROVE Placed(d, op, k)'
  <2>1. CASE acked'[d] = acked[d]
    BY <1>0, <1>8, <2>1, PlacedKept DEF Calls
  <2>2. CASE acked'[d] # acked[d]
    <3>1. d = c /\ returns(c) /\ call[c].op \in Appends /\ Outcome(call[c].op, reply(reply_[c].code)) = "OK"
      BY <1>3, <1>4, <2>2
    <3>2. acked'[c] = Append(acked[c], <<call[c].op, call[c].key, n[c]>>)
      BY <1>2, <1>3, <2>2, <3>1
    <3>3. reply_[c].code \in Code /\ call[c].key \in Key
      BY <3>1 DEF returns, Calls, CallsFit, Replied, Call
    <3>4. reply_[c].code = "OK"
      BY <3>1, <3>3, OutcomeEnds
    <3>5. PICK a : a = <<call[c].op, call[c].key, n[c]>>
      OBVIOUS
    <3>6. PICK o \in Appends, q \in Key : o = call[c].op /\ q = call[c].key
      BY <3>1, <3>3
    <3>7. a = <<o, q, n[c]>> /\ acked'[c] = Append(acked[c], a)
      BY <3>2, <3>5, <3>6
    <3>8. Placed(c, op, k)'
      BY <1>8, <3>1, <3>4, <3>6, <3>7, AckedReturned
    <3>. QED
      BY <3>1, <3>8
  <2>. QED
    BY <2>1, <2>2
<1>10. AckedOnce'
  <2>1. Recorded'
    BY <1>8, <1>9 DEF Recorded
  <2>. QED
    BY <2>1, AckedByCall, PTL
<1>. QED
  BY <1>8, <1>10 DEF LogInv

\* The logs keep what callers were told.
LEMMA StepLogs ==
    ASSUME Calls, HistoryTypes, LogInv, [Next]_vars
    PROVE  LogInv'
<1>0. LogsFit /\ AppendsFollow /\ Distinct /\ \A d \in Client, op \in Appends, k \in Key : Placed(d, op, k)
  BY AckedByCall DEF LogInv, Recorded
<1>1. ASSUME UNCHANGED <<stores, acked>>, \A d \in Client : n[d] <= n'[d] /\ n'[d] \in Nat,
             \A d \in Client : \A x \in DOMAIN wire'[d] :
                (\E y \in DOMAIN wire[d] : wire'[d][x].id = wire[d][y].id) \/ wire'[d][x].id > n[d],
             NEW D \in SUBSET Client, \A d \in D : Same(d), \A d \in Client \ D : \A ops : ~Told(d, ops)'
      PROVE  LogInv'
  <2>1. LogsFit' /\ Distinct' /\ AppendsFollow' /\ \A op, k : Extends(op, k)
    BY <1>0, <1>1, LogsQuiet
  <2>2. ASSUME NEW d \in Client, NEW op \in Appends, NEW k \in Key PROVE Placed(d, op, k)'
    BY <1>0, <1>1, <2>1, PlacedKept DEF Calls
  <2>3. Recorded'
    BY <2>1, <2>2 DEF Recorded
  <2>4. AckedOnce'
    BY <2>3, AckedByCall, PTL
  <2>. QED
    BY <2>1, <2>4 DEF LogInv
<1>2. ASSUME NEW c \in Client, Begins(c) PROVE LogInv'
  <2>1. PICK op, k, arg : Sends(c, op, k, arg) /\ invoke(c, op, k, arg)
    BY <1>2 DEF Begins
  <2>2. /\ UNCHANGED <<stores, acked>> /\ n' = [n EXCEPT ![c] = @ + 1]
        /\ \E m : m \in Call /\ wire'[c] = Append(wire[c], m) /\ RequestOf(c, m, op, k, arg)
        /\ \A d \in Client \ {c} : wire'[d] = wire[d]
    BY <2>1, Begun
  <2>3. (\A ops : ~Told(c, ops)') /\ \A d \in Client \ {c} : Same(d)
    BY <1>2, Untold
  <2>4. PICK m : m \in Call /\ wire'[c] = Append(wire[c], m) /\ RequestOf(c, m, op, k, arg)
    BY <2>2
  <2>5. \A d \in Client : n[d] \in Nat /\ n[d] <= n'[d] /\ n'[d] \in Nat
    BY <2>2 DEF Calls, ClientTypes
  <2>6. m.id > n[c]
    BY <2>4, <2>5 DEF RequestOf
  <2>7. ASSUME NEW d \in Client, NEW x \in DOMAIN wire'[d]
        PROVE  (\E y \in DOMAIN wire[d] : wire'[d][x].id = wire[d][y].id) \/ wire'[d][x].id > n[d]
    <3>1. CASE d # c
      BY <2>2, <3>1
    <3>2. CASE d = c
      <4>. PICK s, t : s = wire[c] /\ t = wire'[c]
        OBVIOUS
      <4>1. s \in Seq(Call) /\ t = Append(s, m) /\ m \in Call
        BY <2>4 DEF Calls, ClientTypes
      <4>2. /\ DOMAIN s = 1..Len(s) /\ DOMAIN t = 1..(Len(s) + 1) /\ Len(s) \in Nat
            /\ t[Len(s) + 1] = m /\ \A y \in 1..Len(s) : t[y] = s[y]
        BY <4>1
      <4>3. (x \in DOMAIN s /\ t[x] = s[x]) \/ t[x] = m
        BY <3>2, <4>2
      <4>. QED
        BY <2>6, <3>2, <4>3
    <3>. QED
      BY <3>1, <3>2
  <2>8. PICK D \in SUBSET Client : D = Client \ {c}
    OBVIOUS
  <2>. QED
    BY <1>1, <2>2, <2>3, <2>5, <2>7, <2>8
<1>3. ASSUME NEW c \in Client, returns(c) \/ (\E status \in use.failures : fails(c, status)) PROVE LogInv'
  BY <1>3, LogsEnded
<1>4. ASSUME NEW c \in Client, NEW i \in DOMAIN wire[c], Serves(c, i) PROVE LogInv'
  BY <1>4, LogsServed
<1>5. ASSUME (\E c \in Client : \E i \in DOMAIN wire[c] : lose(c, i)) \/ UNCHANGED vars PROVE LogInv'
  <2>1. UNCHANGED <<stores, acked, n>> /\ \A d \in Client : Same(d)
    BY <1>5, Lost DEF clients
  <2>2. \A d \in Client : n[d] <= n'[d] /\ n'[d] \in Nat
    BY <2>1 DEF Calls, ClientTypes
  <2>3. ASSUME NEW d \in Client, NEW x \in DOMAIN wire'[d] PROVE \E y \in DOMAIN wire[d] : wire'[d][x] = wire[d][y]
    <3>1. CASE UNCHANGED vars
      BY <3>1 DEF vars
    <3>2. ASSUME NEW c \in Client, NEW i \in DOMAIN wire[c], lose(c, i)
          PROVE  \E y \in DOMAIN wire[d] : wire'[d][x] = wire[d][y]
      <4>1. wire' = [wire EXCEPT ![c] = RemoveAt(@, i)]
        BY <3>2 DEF lose
      <4>2. /\ \A e \in Client \ {c} : wire'[e] = wire[e]
            /\ \A z \in DOMAIN wire'[c] : \E y \in DOMAIN wire[c] : wire'[c][z] = wire[c][y]
        BY <4>1, TakenWire
      <4>. QED
        BY <4>2
    <3>. QED
      BY <1>5, <3>1, <3>2
  <2>4. \A d \in Client : \A x \in DOMAIN wire'[d] : \E y \in DOMAIN wire[d] : wire'[d][x].id = wire[d][y].id
    BY <2>3
  <2>5. PICK D \in SUBSET Client : D = Client
    OBVIOUS
  <2>. QED
    BY <1>1, <2>1, <2>2, <2>4, <2>5
<1>. QED
  BY <1>2, <1>3, <1>4, <1>5, StepKinds

-----------------------------------------------------------------------------
(* The invariant, and what it promises                                     *)

\* The records of what happened keep their types.
LEMMA StepHistory ==
    ASSUME Calls, HistoryTypes, JournalInv, CounterInv, [Next]_vars
    PROVE  HistoryTypes'
<1>1. ASSUME UNCHANGED <<copy, size, since, issued, bumps, acked, written>> PROVE HistoryTypes'
  BY <1>1 DEF HistoryTypes
<1>2. ASSUME NEW c \in Client, Begins(c) PROVE HistoryTypes'
  <2>1. PICK op, k, arg : Sends(c, op, k, arg) /\ invoke(c, op, k, arg)
    BY <1>2 DEF Begins
  <2>2. UNCHANGED <<copy, size, since, issued, bumps, acked, written>>
    BY <2>1, Begun
  <2>. QED
    BY <1>1, <2>2
<1>3. ASSUME NEW c \in Client, NEW status \in use.failures, fails(c, status) PROVE HistoryTypes'
  BY <1>1, <1>3 DEF fails
<1>4. ASSUME (\E c \in Client : \E i \in DOMAIN wire[c] : lose(c, i)) \/ UNCHANGED vars PROVE HistoryTypes'
  BY <1>1, <1>4, Lost DEF clients
<1>5. ASSUME NEW c \in Client, returns(c) PROVE HistoryTypes'
  <2>. PICK op, k, v : op = call[c].op /\ k = call[c].key /\ v = reply_[c].value
    OBVIOUS
  <2>1. k \in Key /\ n[c] \in Nat /\ Waiting(c) /\ reply_[c] # None
    BY <1>5 DEF returns, Calls, CallsFit, Call, ClientTypes
  <2>2. /\ \A q \in Key : size'[c][q] \in Nat /\ copy'[c][q] \in Seq(Entry)
        /\ \A d \in Client \ {c} : copy'[d] = copy[d] /\ size'[d] = size[d]
        /\ copy' = [d \in Client |-> [q \in Key |-> copy'[d][q]]]
        /\ size' = [d \in Client |-> [q \in Key |-> size'[d][q]]]
    BY <1>5, JournalReturned
  <2>3. copy' \in [Client -> [Key -> Seq(Entry)]]
    <3>1. \A d \in Client, q \in Key : copy'[d][q] \in Seq(Entry)
      BY <2>2 DEF HistoryTypes
    <3>. QED
      BY <2>2, <3>1
  <2>4. size' \in [Client -> [Key -> Nat]]
    <3>1. \A d \in Client, q \in Key : size'[d][q] \in Nat
      BY <2>2 DEF HistoryTypes
    <3>. QED
      BY <2>2, <3>1
  <2>5. issued' \in Seq(Key \X Nat)
    <3>1. issued' = issued \/ (op = "counter_get_next_value" /\ issued' = Append(issued, <<k, v>>))
      BY <1>5 DEF returns
    <3>2. op = "counter_get_next_value" => v \in Nat
      BY <2>1 DEF CounterInv, Told
    <3>3. op = "counter_get_next_value" => Append(issued, <<k, v>>) \in Seq(Key \X Nat)
      BY <2>1, <3>2, Longer DEF HistoryTypes
    <3>. QED
      BY <3>1, <3>3 DEF HistoryTypes
  <2>6. acked' \in [Client -> Seq(Appends \X Key \X Nat)]
    <3>1. \/ acked' = acked
          \/ op \in Appends /\ acked' = [acked EXCEPT ![c] = Append(@, <<op, k, n[c]>>)]
      BY <1>5 DEF returns, Appends
    <3>2. op \in Appends => Append(acked[c], <<op, k, n[c]>>) \in Seq(Appends \X Key \X Nat)
      BY <2>1, Longer DEF HistoryTypes
    <3>3. CASE acked' = acked
      BY <3>3 DEF HistoryTypes
    <3>4. CASE op \in Appends /\ acked' = [acked EXCEPT ![c] = Append(@, <<op, k, n[c]>>)]
      <4>. PICK s : s = Append(acked[c], <<op, k, n[c]>>)
        OBVIOUS
      <4>1. s \in Seq(Appends \X Key \X Nat) /\ acked' = [acked EXCEPT ![c] = s]
        BY <3>2, <3>4
      <4>. QED
        BY <4>1 DEF HistoryTypes
    <3>. QED
      BY <3>1, <3>3, <3>4
  <2>7. UNCHANGED <<since, bumps, written>>
    BY <1>5 DEF returns
  <2>. QED
    BY <2>3, <2>4, <2>5, <2>6, <2>7 DEF HistoryTypes
<1>6. ASSUME NEW c \in Client, NEW i \in DOMAIN wire[c], Serves(c, i) PROVE HistoryTypes'
  <2>. PICK m : m = wire[c][i]
    OBVIOUS
  <2>1. PICK res : Effect(c, m, res) /\ UNCHANGED clients
    BY <1>6, Served
  <2>2. m \in Call /\ m.key \in Key /\ <<c, m.id>> \in Entry /\ UNCHANGED <<copy, size, issued, acked>>
    <3>1. m \in Call /\ UNCHANGED <<copy, size, issued, acked>>
      BY <2>1 DEF Calls, ClientTypes, clients
    <3>2. m.key \in Key /\ m.id \in Nat
      BY <3>1 DEF Call
    <3>. QED
      BY <3>1, <3>2 DEF Entry
  <2>3. since' \in [Client -> [Key -> SUBSET Entry]]
    <3>1. CASE m.op # "map_set"
      BY <2>1, <3>1 DEF Effect, HistoryTypes
    <3>2. CASE m.op = "map_set"
      <4>. DEFINE now(d) == IF d = c /\ Waiting(c) /\ call[c].id = m.id THEN {<<c, m.id>>}
                            ELSE IF since[d][m.key] = {} THEN {} ELSE since[d][m.key] \cup {<<c, m.id>>}
      <4>1. since' = [d \in Client |-> [since[d] EXCEPT ![m.key] = now(d)]]
        BY <2>1, <3>2 DEF Effect
      <4>2. ASSUME NEW d \in Client PROVE now(d) \in SUBSET Entry
        <5>. PICK s, e : s = since[d][m.key] /\ e = <<c, m.id>>
          OBVIOUS
        <5>1. s \in SUBSET Entry /\ e \in Entry
          BY <2>2 DEF HistoryTypes
        <5>2. {e} \in SUBSET Entry /\ s \cup {e} \in SUBSET Entry /\ {} \in SUBSET Entry
          BY <5>1
        <5>. QED
          BY <5>2
      <4>. HIDE DEF now
      <4>. QED
        BY <4>1, <4>2 DEF HistoryTypes
    <3>. QED
      BY <3>1, <3>2
  <2>4. bumps' \in [Key -> Nat]
    <3>1. bumps' = bumps \/ bumps' = [bumps EXCEPT ![m.key] = @ + 1]
      BY <2>1 DEF Effect
    <3>2. [bumps EXCEPT ![m.key] = @ + 1] \in [Key -> Nat]
      BY <2>2 DEF HistoryTypes
    <3>. QED
      BY <3>1, <3>2 DEF HistoryTypes
  <2>5. written' \in SUBSET ({"map", "journal", "series", "counter"} \X Key)
    <3>1. written' = written \/ \E s \in {"map", "journal", "series", "counter"} : written' = written \cup {<<s, m.key>>}
      BY <2>1 DEF Effect, Wrote, Appends
    <3>. QED
      BY <2>2, <3>1 DEF HistoryTypes
  <2>. QED
    BY <2>2, <2>3, <2>4, <2>5 DEF HistoryTypes
<1>. QED
  BY <1>2, <1>3, <1>4, <1>5, <1>6, StepKinds

\* At the start nobody was told anything.
LEMMA InitStores ==
    ASSUME Init
    PROVE  StoresInv
<1>. USE DEF Init, StoresInit
<1>1. StoreTypes
  BY DEF StoreTypes
<1>2. ClientTypes
  BY DEF ClientTypes, Ends
<1>3. \A c \in Client : ~Waiting(c) /\ \A ops : ~Told(c, ops)
  BY DEF Waiting, Told
<1>4. CallsFit /\ WireFits
  BY <1>3 DEF CallsFit, WireFits, Replied
<1>5. HistoryTypes
  BY DEF HistoryTypes
<1>6. MapInv
  BY <1>3 DEF MapInv, ReadYourWrites
<1>7. \A k \in Key : Journal(k) = <<>> /\ Series(k) = <<>> /\ Count(k) = 0
  BY DEF Journal, Series, Count
<1>8. JournalInv
  <2>1. IsPrefix(<<>>, <<>>)
    BY DEF IsPrefix
  <2>2. \A c \in Client : JournalCall(c)
    BY <1>3 DEF JournalCall
  <2>. QED
    BY <1>7, <2>1, <2>2 DEF JournalInv, CopiesFit
<1>9. LogInv
  <2>1. \A op \in Appends, k \in Key : DOMAIN Log(op, k) = {}
    <3>1. DOMAIN <<>> = {}
      OBVIOUS
    <3>2. ASSUME NEW k \in Key PROVE DOMAIN [i \in DOMAIN Series(k) |-> Series(k)[i].value] = {}
      BY <1>7, <3>1
    <3>. QED
      BY <1>7, <3>1, <3>2 DEF Log
  <2>2. \A c \in Client : DOMAIN acked[c] = {}
    OBVIOUS
  <2>3. LogsFit /\ AppendsFollow
    BY <1>3, <2>1 DEF LogsFit, AppendsFollow
  <2>4. Recorded
    BY <2>1, <2>2 DEF Recorded, Distinct, Placed
  <2>. QED
    BY <2>3, <2>4, AckedByCall DEF LogInv
<1>10. CounterInv
  <2>1. DOMAIN issued = {} /\ Len(issued) = 0
    OBVIOUS
  <2>2. CounterOrdered
    BY <1>3, <2>1 DEF CounterOrdered
  <2>. QED
    BY <1>3, <1>7, <2>1, <2>2 DEF CounterInv
<1>11. ListedIfWritten
  BY <1>5, ListedByKey DEF Listed
<1>. QED
  BY <1>1, <1>2, <1>4, <1>5, <1>6, <1>8, <1>9, <1>10, <1>11 DEF StoresInv, Calls

\* A step keeps all of it.
LEMMA StepStores ==
    ASSUME StoresInv, [Next]_vars
    PROVE  StoresInv'
<1>. USE DEF StoresInv
<1>1. Calls' /\ HistoryTypes'
  BY StepCalls, StepHistory
<1>2. MapInv' /\ JournalInv' /\ LogInv' /\ CounterInv'
  BY StepMap, StepJournals, StepLogs, StepCounters
<1>3. Listed'
  BY ListedByKey, StepListed
<1>4. ListedIfWritten'
  BY <1>1, <1>3, ListedByKey, PTL
<1>. QED
  BY <1>1, <1>2, <1>4

-----------------------------------------------------------------------------
(* What time_series_get answers                                            *)

\* An absent bound is left out of the request and found absent again; all others
\* cross the wire as they are.
LEMMA BoundsCross ==
    ASSUME NEW b \in Bounds
    PROVE  Decoded(Encoded(b)) = b
<1>1. b \in [BoundFields -> Int \cup {None, EmptyString, Unparsable}]
  BY ClientsAssumption
<1>2. PICK m : m = Encoded(b)
  OBVIOUS
<1>3. DOMAIN m = {f \in BoundFields : b[f] # None} /\ \A f \in DOMAIN m : m[f] = b[f]
  BY <1>1, <1>2 DEF Encoded
<1>4. \A f \in BoundFields : (IF f \in DOMAIN m THEN m[f] ELSE None) = b[f]
  BY <1>3
<1>5. Decoded(m) = [f \in BoundFields |-> b[f]]
  BY <1>4 DEF Decoded
<1>. QED
  BY <1>1, <1>2, <1>5

\* The fields of a bound, by name.
LEMMA BoundTypes ==
    ASSUME NEW b \in Bounds
    PROVE  /\ b.start_time \in Int \cup {None, EmptyString, Unparsable}
           /\ b.end_time \in Int \cup {None, EmptyString, Unparsable}
           /\ b.start_step \in Int \cup {None} /\ b.end_step \in Int \cup {None}
<1>1. b \in [BoundFields -> Int \cup {None, EmptyString, Unparsable}]
      /\ {b.start_step, b.end_step} \subseteq Int \cup {None}
  BY ClientsAssumption
<1>. QED
  BY <1>1 DEF BoundFields

\* The request is refused for a time that does not parse, and for nothing else.
LEMMA RefusedExactly ==
    ASSUME NEW s \in Int \cup {None, EmptyString, Unparsable}
    PROVE  /\ Invalid(s) <=> s = Unparsable
           /\ s # Unparsable => (Unbounded(s) \/ (s \in Int /\ parse_iso8601_utc(s) = s))
           /\ s \in Int => s \notin {None, EmptyString}
  BY StoresAssumption DEF Invalid, Unbounded, parse_iso8601_utc

\* The tests of the loop are the documented ones.
LEMMA WithinIsSatisfies ==
    ASSUME NEW p \in PointOf, NEW b \in Bounds, Unparsable \notin {b.start_time, b.end_time}
    PROVE  Within(p, b) <=> Satisfies(p, b)
<1>1. p.time \in Int /\ p.step \in Int
  BY ClientsAssumption DEF PointOf
<1>2. PICK s, e, i, j : s = b.start_time /\ e = b.end_time /\ i = b.start_step /\ j = b.end_step
  OBVIOUS
<1>3. /\ s \in Int \cup {None, EmptyString} /\ e \in Int \cup {None, EmptyString}
      /\ i \in Int \cup {None} /\ j \in Int \cup {None}
  BY <1>2, BoundTypes
<1>4. \A x \in Int : x \notin {None, EmptyString} /\ parse_iso8601_utc(x) = x
  BY StoresAssumption DEF parse_iso8601_utc
<1>5. (Unbounded(s) \/ p.time >= parse_iso8601_utc(s)) <=> (s \notin {None, EmptyString} => p.time >= s)
  BY <1>1, <1>3, <1>4 DEF Unbounded
<1>6. (Unbounded(e) \/ p.time < parse_iso8601_utc(e)) <=> (e \notin {None, EmptyString} => ~(p.time >= e))
  BY <1>1, <1>3, <1>4 DEF Unbounded
<1>7. (i = None \/ p.step >= i) <=> (i \notin {None, EmptyString} => p.step >= i)
  BY <1>1, <1>3, <1>4
<1>8. (j = None \/ p.step < j) <=> (j \notin {None, EmptyString} => ~(p.step >= j))
  BY <1>1, <1>3, <1>4
<1>. QED
  BY <1>2, <1>5, <1>6, <1>7, <1>8 DEF Within, Satisfies

\* The answer is made of all points so far that satisfy the bounds.
LEMMA GetAnswers ==
    ASSUME StoreTypes, NEW k \in Key, NEW b \in Bounds, NEW res, res = time_series_get(k, b)
    PROVE  IF Unparsable \in {b.start_time, b.end_time} THEN res.code = "InvalidArgument"
           ELSE LET v == res.value
                    m == Len(Series(k))
                IN /\ DOMAIN v = DOMAIN PointsOfFirst(m, k, b)
                   /\ \A i \in DOMAIN v : v[i].value = PointsOfFirst(m, k, b)[i].value
<1>1. (Invalid(b.start_time) \/ Invalid(b.end_time)) <=> Unparsable \in {b.start_time, b.end_time}
  BY BoundTypes, RefusedExactly
<1>2. CASE Unparsable \in {b.start_time, b.end_time}
  BY <1>1, <1>2 DEF time_series_get, Error
<1>3. CASE Unparsable \notin {b.start_time, b.end_time}
  <2>1. PICK s, m : s = Series(k) /\ m = Len(s)
    OBVIOUS
  <2>2. s \in Seq(PointOf) /\ m \in Nat /\ DOMAIN s = 1..m
    BY <2>1, LogTypes
  <2>3. SubSeq(s, 1, m) = s
    BY <2>1, <2>2
  <2>4. \A i \in 1..m : Within(s[i], b) <=> Satisfies(s[i], b)
    <3>1. \A i \in 1..m : s[i] \in PointOf
      BY <2>2
    <3>. QED
      BY <1>3, <3>1, WithinIsSatisfies
  <2>5. {i \in DOMAIN s : Within(s[i], b)} = {i \in 1..m : Satisfies(s[i], b)}
    BY <2>2, <2>4
  <2>6. PICK kept : kept = Keep(s, {i \in 1..m : Satisfies(s[i], b)})
    OBVIOUS
  <2>7. PointsOfFirst(m, k, b) = kept
    BY <2>1, <2>3, <2>6 DEF PointsOfFirst
  <2>8. res = Ok([i \in DOMAIN kept |-> Point(kept[i])])
    BY <1>1, <1>3, <2>1, <2>5, <2>6 DEF time_series_get
  <2>9. res.value = [i \in DOMAIN kept |-> Point(kept[i])]
    BY <2>8 DEF Ok
  <2>10. \A i \in DOMAIN kept : res.value[i].value = kept[i].value
    BY <2>9 DEF Point
  <2>. QED
    BY <1>3, <2>1, <2>7, <2>9, <2>10
<1>. QED
  BY <1>2, <1>3

\* The points under key k stay where they are.
SeriesKept(k) ==
    /\ Len(Series(k)) <= Len(Series(k)')
    /\ \A i \in 1..Len(Series(k)) : Series(k)'[i] = Series(k)[i]

\* A series grows at its end.
LEMMA EffectSeries ==
    ASSUME StoreTypes, NEW c \in Client, NEW m \in Call, NEW res, Effect(c, m, res),
           m.op = "time_series_append" => m.arg \in Times \X Steps, NEW k \in Key
    PROVE  SeriesKept(k)
<1>1. Series(k) \in Seq(PointOf) /\ Len(Series(k)) \in Nat
  BY LogTypes
<1>2. CASE m.op # "time_series_append"
  <2>1. Series(k)' = Series(k)
    BY <1>2 DEF Effect, Series
  <2>. QED
    BY <1>1, <2>1 DEF SeriesKept
<1>3. CASE m.op = "time_series_append"
  <2>. PICK t : t = parse_iso8601_utc(m.arg[1])
    OBVIOUS
  <2>0. m.key \in Key /\ m.id \in Nat /\ <<c, m.id>> \in Entry
    BY DEF Call, Entry
  <2>1. m.arg[1] \in Times /\ m.arg[2] \in Steps
    BY <1>3
  <2>2. t # None => t \in Int
    BY <2>1, ClientsAssumption DEF parse_iso8601_utc
  <2>3. time_series_append(m.key, <<c, m.id>>, m.arg[1], m.arg[2])
    BY <1>3 DEF Effect
  <2>4. CASE t = None \/ k # m.key
    <3>1. series'[k] = series[k]
      BY <2>0, <2>3, <2>4 DEF time_series_append, StoreTypes
    <3>2. Series(k)' = Series(k)
      BY <3>1 DEF Series
    <3>. QED
      BY <1>1, <3>2 DEF SeriesKept
  <2>5. CASE t # None /\ k = m.key
    <3>. PICK p : p = [value |-> <<c, m.id>>, time |-> t, step |-> m.arg[2]]
      OBVIOUS
    <3>1. p \in PointOf
      BY <2>0, <2>1, <2>2, <2>5 DEF PointOf
    <3>. PICK s, u : s = Series(k) /\ u = Append(s, p)
      OBVIOUS
    <3>2. s \in Seq(PointOf) /\ u \in Seq(PointOf) /\ u # None
      BY <1>1, <3>1, Longer, NoneIsNoLog
    <3>3. series'[k] = u
      BY <2>3, <2>5, <3>2 DEF time_series_append, StoreTypes
    <3>4. Series(k)' = u
      BY <3>2, <3>3 DEF Series
    <3>. QED
      BY <1>1, <3>1, <3>2, <3>4, Longer DEF SeriesKept
  <2>. QED
    BY <2>4, <2>5
<1>. QED
  BY <1>2, <1>3

\* An answer that was exact stays so while the series grows: the points of its
\* caller were in it before, since no append is there twice.
LEMMA ExactKept ==
    ASSUME StoresInv, StoresInv', NEW d \in Client, Same(d), acked'[d] = acked[d],
           \A k \in Key : SeriesKept(k), NEW k \in Key, NEW b, NEW m \in 0..Len(Series(k)),
           \A i \in OwnPoints(d, k) : i <= m
    PROVE  /\ m \in 0..Len(Series(k)') /\ PointsOfFirst(m, k, b)' = PointsOfFirst(m, k, b)
           /\ \A i \in OwnPoints(d, k)' : i <= m
<1>1. PICK s, t : s = Series(k) /\ t = Series(k)'
  OBVIOUS
<1>2. s \in Seq(PointOf) /\ Len(s) \in Nat /\ DOMAIN s = 1..Len(s)
  BY <1>1, LogTypes DEF StoresInv, Calls
<1>3. t \in Seq(PointOf) /\ Len(t) \in Nat /\ DOMAIN t = 1..Len(t)
  <2>1. Series(k)' \in Seq(PointOf)
    BY DEF StoresInv, Calls, StoreTypes, Series
  <2>. QED
    BY <1>1, <2>1
<1>4. Len(s) <= Len(t) /\ \A i \in 1..Len(s) : t[i] = s[i]
  BY <1>1 DEF SeriesKept
<1>5. m \in Nat /\ m <= Len(s) /\ m <= Len(t)
  BY <1>1, <1>2, <1>3, <1>4
<1>6. SubSeq(t, 1, m) = SubSeq(s, 1, m)
  BY <1>2, <1>3, <1>4, <1>5
<1>7. PointsOfFirst(m, k, b)' = PointsOfFirst(m, k, b)
  BY <1>1, <1>6 DEF PointsOfFirst, Satisfies
<1>8. ASSUME NEW i \in OwnPoints(d, k)' PROVE i <= m
  <2>1. /\ i \in 1..Len(t) /\ t[i].value[1] = d
        /\ <<"time_series_append", k, t[i].value[2]>> \in ToSet(acked[d])
    BY <1>1, <1>3, <1>8 DEF OwnPoints, ToSet
  <2>2. PICK x \in DOMAIN acked[d] : acked[d][x] = <<"time_series_append", k, t[i].value[2]>>
    BY <2>1 DEF ToSet
  <2>3. /\ Placed(d, "time_series_append", k) /\ Distinct'
    <3>1. Recorded
      BY AckedByCall DEF StoresInv, LogInv
    <3>2. Recorded'
      <4>1. AckedOnce'
        BY DEF StoresInv, LogInv
      <4>. QED
        BY <4>1, AckedByCall, PTL
    <3>. QED
      BY <3>1, <3>2 DEF Recorded, Appends
  <2>4. PICK j \in DOMAIN Log("time_series_append", k) :
          Log("time_series_append", k)[j] = <<d, t[i].value[2]>>
    BY <2>2, <2>3 DEF Placed
  <2>5. j \in 1..Len(s) /\ s[j].value = <<d, t[i].value[2]>>
    BY <1>1, <1>2, <2>4 DEF Log
  <2>6. t[i].value = <<d, t[i].value[2]>>
    <3>1. t[i] \in PointOf
      BY <1>3, <2>1
    <3>2. t[i].value \in Entry
      BY <3>1, PointValues
    <3>. QED
      BY <2>1, <3>2 DEF Entry
  <2>7. t[j].value = t[i].value /\ j \in 1..Len(t)
    BY <1>2, <1>3, <1>4, <2>5, <2>6
  <2>8. \A x1, x2 \in DOMAIN t : t[x1].value = t[x2].value => x1 = x2
    <3>1. Log("time_series_append", k)' = [x1 \in DOMAIN t |-> t[x1].value]
      BY <1>1 DEF Log
    <3>2. \A x1, x2 \in DOMAIN (Log("time_series_append", k)') :
            (Log("time_series_append", k)')[x1] = (Log("time_series_append", k)')[x2] => x1 = x2
      BY <2>3 DEF Distinct, Appends
    <3>. QED
      BY <3>1, <3>2
  <2>9. i = j
    BY <1>3, <2>1, <2>7, <2>8
  <2>10. i \in OwnPoints(d, k)
    BY <1>1, <1>2, <1>4, <2>1, <2>5, <2>9 DEF OwnPoints
  <2>. QED
    BY <2>10
<1>. QED
  BY <1>1, <1>5, <1>7, <1>8

\* PointsExact for one caller.
PointsTold(c) ==
    Told(c, {"time_series_get"}) =>
        LET k == call[c].key
            b == call[c].arg
            v == reply_[c].value
        IN IF Unparsable \in {b.start_time, b.end_time}
           THEN reply_[c].code = "InvalidArgument"
           ELSE \E m \in 0..Len(Series(k)) :
                  /\ \A i \in OwnPoints(c, k) : i <= m
                  /\ DOMAIN v = DOMAIN PointsOfFirst(m, k, b)
                  /\ \A i \in DOMAIN v : v[i].value = PointsOfFirst(m, k, b)[i].value

\* A caller whose call did not move has an answer as exact as before.
LEMMA ToldKept ==
    ASSUME StoresInv, StoresInv', NEW d \in Client, Same(d), acked'[d] = acked[d],
           \A k \in Key : SeriesKept(k), PointsTold(d)
    PROVE  PointsTold(d)'
<1>. SUFFICES ASSUME Told(d, {"time_series_get"})' PROVE PointsTold(d)'
  BY DEF PointsTold
<1>. PICK k, b, v : k = call[d].key /\ b = call[d].arg /\ v = reply_[d].value
  OBVIOUS
<1>1. /\ Told(d, {"time_series_get"}) /\ call'[d].key = k /\ call'[d].arg = b
      /\ reply_'[d].value = v /\ reply_'[d].code = reply_[d].code
  BY SameTold DEF Same
<1>2. k \in Key
  BY <1>1 DEF StoresInv, Calls, CallsFit, Told, Call
<1>3. CASE Unparsable \in {b.start_time, b.end_time}
  BY <1>1, <1>3 DEF PointsTold
<1>4. CASE Unparsable \notin {b.start_time, b.end_time}
  <2>1. PICK m \in 0..Len(Series(k)) :
          /\ \A i \in OwnPoints(d, k) : i <= m
          /\ DOMAIN v = DOMAIN PointsOfFirst(m, k, b)
          /\ \A i \in DOMAIN v : v[i].value = PointsOfFirst(m, k, b)[i].value
    BY <1>1, <1>4 DEF PointsTold
  <2>2. /\ m \in 0..Len(Series(k)') /\ PointsOfFirst(m, k, b)' = PointsOfFirst(m, k, b)
        /\ \A i \in OwnPoints(d, k)' : i <= m
    BY <1>2, <2>1, ExactKept
  <2>3. PICK P, own : P = PointsOfFirst(m, k, b) /\ own = OwnPoints(d, k)'
    OBVIOUS
  <2>4. /\ (PointsOfFirst(m, call[d].key, call[d].arg))' = P /\ (OwnPoints(d, call[d].key))' = own
        /\ (Series(call[d].key))' = Series(k)'
    <3>1. /\ (PointsOfFirst(m, call[d].key, call[d].arg))' = PointsOfFirst(m, k, b)'
          /\ (OwnPoints(d, call[d].key))' = OwnPoints(d, k)'
          /\ (Series(call[d].key))' = Series(k)'
      BY <1>1 DEF PointsOfFirst, OwnPoints, Series, Satisfies
    <3>. QED
      BY <2>2, <2>3, <3>1
  <2>. QED
    BY <1>1, <1>4, <2>1, <2>2, <2>3, <2>4 DEF PointsTold
<1>. QED
  BY <1>3, <1>4

\* A step leaves every answer exact.
LEMMA StepPoints ==
    ASSUME StoresInv, StoresInv', \A d \in Client : PointsTold(d), [Next]_vars, NEW d \in Client
    PROVE  PointsTold(d)'
<1>0. Calls /\ HistoryTypes /\ StoreTypes
  BY DEF StoresInv, Calls
<1>1. ASSUME UNCHANGED series PROVE \A k \in Key : SeriesKept(k)
  <2>1. \A k \in Key : Series(k)' = Series(k) /\ Len(Series(k)) \in Nat
    BY <1>0, <1>1, LogTypes DEF Series
  <2>. QED
    BY <2>1 DEF SeriesKept
<1>2. ASSUME NEW c \in Client, Begins(c) \/ returns(c) \/ (\E status \in use.failures : fails(c, status))
      PROVE  PointsTold(d)'
  <2>1. UNCHANGED series /\ (\A ops : ~Told(c, ops)') /\ \A e \in Client \ {c} : Same(e)
    BY <1>0, <1>2, Untold DEF stores
  <2>2. \A e \in Client \ {c} : acked'[e] = acked[e]
    BY <1>0, <1>2 DEF Begins, invoke, returns, fails, HistoryTypes
  <2>3. CASE d = c
    BY <2>1, <2>3 DEF PointsTold
  <2>4. CASE d # c
    BY <1>1, <2>1, <2>2, <2>4, ToldKept
  <2>. QED
    BY <2>3, <2>4
<1>3. ASSUME (\E c \in Client : \E i \in DOMAIN wire[c] : lose(c, i)) \/ UNCHANGED vars PROVE PointsTold(d)'
  <2>1. UNCHANGED <<series, acked>> /\ Same(d)
    BY <1>3, Lost DEF stores, clients
  <2>. QED
    BY <1>1, <2>1, ToldKept
<1>4. ASSUME NEW c \in Client, NEW i \in DOMAIN wire[c], Serves(c, i) PROVE PointsTold(d)'
  <2>1. PICK res : /\ Effect(c, wire[c][i], res) /\ Answers(c, wire[c][i], res)
                   /\ UNCHANGED clients /\ \A e \in Client \ {c} : Same(e)
    BY <1>0, <1>4, Served
  <2>2. PICK m \in Call : m = wire[c][i]
    BY <1>0 DEF Calls, ClientTypes
  <2>3. m.op = "time_series_append" => m.arg \in Times \X Steps
    BY <1>0, <2>2 DEF Calls, WireFits, Fits
  <2>4. (\A k \in Key : SeriesKept(k)) /\ UNCHANGED <<call, acked>>
    BY <1>0, <2>1, <2>2, <2>3, EffectSeries DEF clients
  <2>5. CASE Same(d)
    BY <2>4, <2>5, ToldKept
  <2>6. CASE ~Same(d)
    <3>. SUFFICES ASSUME Told(d, {"time_series_get"})' PROVE PointsTold(d)'
      BY DEF PointsTold
    <3>1. d = c
      BY <2>1, <2>6
    <3>2. /\ Waiting(c) /\ reply_'[c] = res /\ m.op = "time_series_get" /\ m.op = call[c].op
          /\ m.key = call[c].key /\ m.arg = Encoded(call[c].arg)
      BY <2>1, <2>2, <2>6, <3>1, ServedTold
    <3>. PICK k, b : k = call[c].key /\ b = call[c].arg
      OBVIOUS
    <3>3. k \in Key /\ b \in Bounds /\ call'[c].key = k /\ call'[c].arg = b
      BY <1>0, <2>4, <3>2 DEF Calls, CallsFit, Call
    <3>4. UNCHANGED series /\ res = time_series_get(k, b)
      BY <2>1, <2>2, <3>2, <3>3, BoundsCross DEF Effect
    <3>5. PICK M : M = Len(Series(k))
      OBVIOUS
    <3>6. M \in Nat /\ M \in 0..Len(Series(k)) /\ \A x \in OwnPoints(c, k) : x <= M
      <4>1. Series(k) \in Seq(PointOf)
        BY <1>0, <3>3, LogTypes
      <4>. QED
        BY <3>5, <4>1 DEF OwnPoints
    <3>7. IF Unparsable \in {b.start_time, b.end_time} THEN res.code = "InvalidArgument"
          ELSE /\ DOMAIN res.value = DOMAIN PointsOfFirst(M, k, b)
               /\ \A x \in DOMAIN res.value : res.value[x].value = PointsOfFirst(M, k, b)[x].value
      BY <1>0, <3>3, <3>4, <3>5, GetAnswers
    <3>8. /\ (PointsOfFirst(M, call[c].key, call[c].arg))' = PointsOfFirst(M, k, b)
          /\ (OwnPoints(c, call[c].key))' = OwnPoints(c, k)
          /\ (Series(call[c].key))' = Series(k)
      BY <2>4, <3>3, <3>4 DEF PointsOfFirst, OwnPoints, Series, Satisfies
    <3>. QED
      BY <3>1, <3>2, <3>3, <3>6, <3>7, <3>8 DEF PointsTold
  <2>. QED
    BY <2>5, <2>6
<1>. QED
  BY <1>0, <1>2, <1>3, <1>4, StepKinds

\* In every reachable state, for any clients, keys, arguments and failures, the
\* wire, the stores, the replies on their way and what callers were told agree:
\* what map.cpp, journal-map.cpp, time-series.cpp and counters.cpp keep is what
\* the calls that were executed once left there.
THEOREM StoresInvAlways == Spec => []StoresInv
<1>1. Init => StoresInv
  BY InitStores
<1>2. StoresInv /\ [Next]_vars => StoresInv'
  BY StepStores
<1>. QED
  BY <1>1, <1>2, PTL DEF Spec

\* A read of the map never answers less than its caller's own write that was
\* executed while it waited (map.cpp 9-25).
THEOREM WritesAreRead == Spec => []ReadYourWrites
<1>1. StoresInv => ReadYourWrites
  BY DEF StoresInv, MapInv
<1>. QED
  BY <1>1, StoresInvAlways, PTL

\* A client that reads a journal in chunks has a prefix of it, and a read after
\* a size is not short of it (journal-map.cpp 11-46).
THEOREM TailsExact == Spec => []TailExact
<1>1. StoresInv => TailExact
  BY DEF StoresInv, JournalInv, CopiesFit, JournalCall, TailExact
<1>. QED
  BY <1>1, StoresInvAlways, PTL

\* An append that was acknowledged is in its log exactly once, in its caller's
\* order; no append is there twice (journal-map.cpp 41-46, time-series.cpp 44-59).
THEOREM AppendsOnce == Spec => []AckedOnce
<1>1. StoresInv => AckedOnce
  BY DEF StoresInv, LogInv
<1>. QED
  BY <1>1, StoresInvAlways, PTL

\* Until a counter has wrapped at 2^Width, the values it hands out are distinct
\* and grow from one call to the next (counters.cpp 9-23).
THEOREM CountersOrdered == Spec => []CounterOrdered
<1>1. StoresInv => CounterOrdered
  BY DEF StoresInv, CounterInv
<1>. QED
  BY <1>1, StoresInvAlways, PTL

\* A search lists the keys with an accepted write and no others: neither reads
\* nor refused appends create a key (counters.cpp 19-22, time-series.cpp 44-53).
THEOREM KeysListed == Spec => []ListedIfWritten
<1>1. StoresInv => ListedIfWritten
  BY DEF StoresInv
<1>. QED
  BY <1>1, StoresInvAlways, PTL

\* The datetime a caller is given for a point includes it as a start and
\* excludes it as an end, whatever the resolution it was cut to
\* (time-series.cpp 36-42, 61-105): the half of GetExact that is about times.
THEOREM DatetimesReadBack == Spec => []DatetimeReadsBack
<1>1. ASSUME NEW t \in Int PROVE format_iso8601_utc(t) \in Int /\ format_iso8601_utc(t) <= t
  <2>1. \A M \in Nat \ {0} : t % M \in Int /\ t % M >= 0
    OBVIOUS
  <2>2. t % Micro \in Int /\ t % Micro >= 0
    BY <2>1, StoresAssumption
  <2>. QED
    BY <2>2 DEF format_iso8601_utc
<1>2. ASSUME NEW d \in Int PROVE ~Unbounded(d) /\ parse_iso8601_utc(d) = d
  BY StoresAssumption DEF Unbounded, parse_iso8601_utc
<1>3. Unbounded(None)
  BY DEF Unbounded
<1>4. ASSUME NEW p \in PointOf, NEW d, d = Point(p).datetime, NEW free,
             free = [f \in BoundFields |-> None]
      PROVE  /\ Within(p, [free EXCEPT !.start_time = d])
             /\ ~Within(p, [free EXCEPT !.end_time = d])
  <2>1. p.time \in Int /\ d = format_iso8601_utc(p.time)
    BY <1>4 DEF PointOf, Point
  <2>2. d \in Int /\ d <= p.time /\ ~Unbounded(d) /\ parse_iso8601_utc(d) = d
    BY <1>1, <1>2, <2>1
  <2>3. PICK s, e : s = [free EXCEPT !.start_time = d] /\ e = [free EXCEPT !.end_time = d]
    OBVIOUS
  <2>4. s.start_time = d /\ s.end_time = None /\ s.start_step = None /\ s.end_step = None
    BY <1>4, <2>3 DEF BoundFields
  <2>5. e.end_time = d
    BY <1>4, <2>3 DEF BoundFields
  <2>6. Within(p, s)
    BY <1>3, <2>1, <2>2, <2>4 DEF Within
  <2>7. ~Within(p, e)
    BY <2>1, <2>2, <2>5 DEF Within
  <2>. QED
    BY <2>3, <2>6, <2>7
<1>5. StoresInv => DatetimeReadsBack
  <2>. SUFFICES ASSUME StoresInv PROVE DatetimeReadsBack
    OBVIOUS
  <2>1. \A k \in Key : \A i \in DOMAIN Series(k) : Series(k)[i] \in PointOf
    BY LogTypes DEF StoresInv, Calls
  <2>. QED
    BY <1>4, <2>1 DEF DatetimeReadsBack
<1>. QED
  BY <1>5, StoresInvAlways, PTL
\* time_series_get answers exactly the points that satisfy its bounds, of the
\* series as it was at one moment of the call, with every point its caller had
\* been told of; and the datetimes it prints can be used as bounds
\* (time-series.cpp 36-42, 61-105, codec.cpp 156-172, 362-376).  For any bounds,
\* any other clients and any number of appends while the answer is on its way.
THEOREM SeriesReadExactly == Spec => []GetExact
<1>. DEFINE PInv == StoresInv /\ \A d \in Client : PointsTold(d)
<1>1. Init => PInv
  <2>1. Init => \A d \in Client : PointsTold(d)
    BY DEF Init, PointsTold, Told, Waiting
  <2>. QED
    BY <2>1, InitStores
<1>2. PInv /\ [Next]_vars => PInv'
  <2>. SUFFICES ASSUME PInv, [Next]_vars PROVE PInv'
    OBVIOUS
  <2>1. StoresInv'
    BY StepStores
  <2>2. \A d \in Client : PointsTold(d)'
    BY <2>1, StepPoints
  <2>. QED
    BY <2>1, <2>2
<1>3. PInv => PointsExact
  BY DEF PointsExact, PointsTold
<1>4. Spec => []PointsExact
  BY <1>1, <1>2, <1>3, PTL DEF Spec
<1>. QED
  BY <1>4, DatetimesReadBack, PTL DEF GetExact
=============================================================================
