------------------------------- MODULE Stores -------------------------------
(***************************************************************************)
(* The map, the journals, the time series and the counters of the server   *)
(* (cpp/server/core/map.cpp, journal-map.cpp, time-series.cpp,             *)
(* counters.cpp).  Every operation holds the lock of its structure while   *)
(* it touches data, so each is one step.  Here a read is an operator that  *)
(* says what it answers, a write an action next to what it answers.        *)
(*                                                                         *)
(* A datetime string that denotes a time is that time, an integer with     *)
(* Micro units to the microsecond.                                         *)
(***************************************************************************)
EXTENDS Integers, Sequences, Filter

CONSTANTS Key,         \* the keys callers use
          None,        \* no value, no bound: std::nullopt, or a key not in the map
          EmptyString, \* "" as a datetime
          Unparsable,  \* a datetime that no accepted format matches
          Micro,       \* the resolution of format_iso8601_utc
          Width        \* the width of a counter, 64 in the code

\* None, "" and what does not parse are no numbers, and the set of all keys is
\* a pattern.  That a power of two is positive is said here for the proofs.
ASSUME StoresAssumption ==
    /\ Micro \in Nat \ {0} /\ Width \in Nat \ {0} /\ 2^Width > 0
    /\ {None, EmptyString, Unparsable} \cap Int = {} /\ Unparsable \notin {None, EmptyString}
    /\ Key # None

VARIABLES map, journals, series, counters

stores == <<map, journals, series, counters>>

StoresInit ==
    /\ map = [k \in Key |-> None]
    /\ journals = [k \in Key |-> None]
    /\ series = [k \in Key |-> None]
    /\ counters = [k \in Key |-> None]

\* A Result: the value, or an error code.
Ok(v) == [code |-> "OK", value |-> v]
Error(code) == [code |-> code, value |-> None]

-----------------------------------------------------------------------------
(* Map                                                                     *)

\* Faulty variant: emplace, which keeps a value already there.
map_set_Emplace(k, v) ==
    /\ map' = [map EXCEPT ![k] = IF @ = None THEN v ELSE @]
    /\ UNCHANGED <<journals, series, counters>>

map_set(k, v) ==
    /\ map' = [map EXCEPT ![k] = v]
    /\ UNCHANGED <<journals, series, counters>>

map_get(k) == IF map[k] = None THEN Error("NotFound") ELSE Ok(map[k])

\* pattern is the set of keys it matches, or None if it does not compile.
map_search_key(pattern) ==
    IF pattern = None THEN Error("InvalidArgument") ELSE Ok({k \in pattern : map[k] # None})

-----------------------------------------------------------------------------
(* Journals                                                                *)

Journal(k) == IF journals[k] = None THEN <<>> ELSE journals[k]

journal_size(k) == Ok(Len(Journal(k)))

Clamp(x, size) == IF x < size THEN x ELSE size

\* Faulty variant: the entry at start is left out.
journal_read_Past(k, start, end) ==
    LET size == Len(Journal(k)) IN
    Ok(SubSeq(Journal(k), Clamp(start, size) + 2, Clamp(end, size)))

\* The entries at start <= index < end, counted from 0.
journal_read(k, start, end) ==
    LET size == Len(Journal(k)) IN
    Ok(SubSeq(Journal(k), Clamp(start, size) + 1, Clamp(end, size)))

\* Faulty variant: the newest entry is put first.
journal_append_Front(k, v) ==
    /\ journals' = [journals EXCEPT ![k] = <<v>> \o Journal(k)]
    /\ UNCHANGED <<map, series, counters>>

journal_append(k, v) ==
    /\ journals' = [journals EXCEPT ![k] = Append(Journal(k), v)]
    /\ UNCHANGED <<map, series, counters>>

journal_search_key(pattern) ==
    IF pattern = None THEN Error("InvalidArgument") ELSE Ok({k \in pattern : journals[k] # None})

-----------------------------------------------------------------------------
(* Time series                                                             *)

parse_iso8601_utc(s) == IF s \in {Unparsable, EmptyString} THEN None ELSE s

\* Truncated to the microsecond, which leaves a whole second as it is.
format_iso8601_utc(tp) == tp - (tp % Micro)

Series(k) == IF series[k] = None THEN <<>> ELSE series[k]

time_series_append_result(datetime) ==
    IF parse_iso8601_utc(datetime) = None THEN Error("InvalidArgument") ELSE Ok(None)

time_series_append(k, v, datetime, step) ==
    /\ series' = [series EXCEPT ![k] =
                    IF parse_iso8601_utc(datetime) = None THEN @
                    ELSE Append(Series(k), [value |-> v, time |-> parse_iso8601_utc(datetime),
                                            step |-> step])]
    /\ UNCHANGED <<map, journals, counters>>

\* A bound on time is none when it is absent and when it is empty.
Unbounded(s) == s \in {None, EmptyString}
Invalid(s) == ~Unbounded(s) /\ parse_iso8601_utc(s) = None

Within(p, b) ==
    /\ Unbounded(b.start_time) \/ p.time >= parse_iso8601_utc(b.start_time)
    /\ Unbounded(b.end_time) \/ p.time < parse_iso8601_utc(b.end_time)
    /\ b.start_step = None \/ p.step >= b.start_step
    /\ b.end_step = None \/ p.step < b.end_step

\* A TimeSeriesDataPoint of the response.
Point(p) == [value |-> p.value, datetime |-> format_iso8601_utc(p.time), step |-> p.step]

time_series_get(k, b) ==
    IF Invalid(b.start_time) \/ Invalid(b.end_time) THEN Error("InvalidArgument")
    ELSE LET kept == Keep(Series(k), {i \in DOMAIN Series(k) : Within(Series(k)[i], b)})
         IN Ok([i \in DOMAIN kept |-> Point(kept[i])])

time_series_search_key(pattern) ==
    IF pattern = None THEN Error("InvalidArgument") ELSE Ok({k \in pattern : series[k] # None})

-----------------------------------------------------------------------------
(* Counters                                                                *)

\* What a read sees under a key, 0 when there is none.
Count(k) == IF counters[k] = None THEN 0 ELSE counters[k]

\* Faulty variant: the increment is made on a copy.
Incremented_Copy(k) == 1

Incremented(k) == (Count(k) + 1) % (2^Width)

counter_get_next_value(k) ==
    /\ counters' = [counters EXCEPT ![k] = Incremented(k)]
    /\ UNCHANGED <<map, journals, series>>

\* Faulty variant: operator[] instead of find, which creates the counter.
counter_get_current_value_Create(k) ==
    /\ counters' = [counters EXCEPT ![k] = Count(k)]
    /\ UNCHANGED <<map, journals, series>>

\* Reading a counter does not create it.
counter_get_current_value(k) == UNCHANGED stores

counter_search_key(pattern) ==
    IF pattern = None THEN Error("InvalidArgument") ELSE Ok({k \in pattern : counters[k] # None})
=============================================================================
