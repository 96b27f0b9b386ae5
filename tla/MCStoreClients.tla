--------------------------- MODULE MCStoreClients ---------------------------
(* Small instances of StoreClients.                                        *)
EXTENDS StoreClients

Free == [f \in BoundFields |-> None]

\* Times on and off a microsecond, and one that does not parse.
SomeTimes == {2, 3, Unparsable}

\* No bound, a bound of each kind, 0 and "" as bounds, two at once, a bad one.
SomeBounds ==
    {Free, [Free EXCEPT !.start_time = 3], [Free EXCEPT !.end_time = 3],
     [Free EXCEPT !.start_time = EmptyString, !.end_step = 0],
     [Free EXCEPT !.start_step = 1, !.end_time = Unparsable]}

Load(ops, failures, calls) == [ops |-> ops, failures |-> failures, calls |-> calls]

Down == {"UNAVAILABLE"}

\* Followers of a journal; a series read with bounds; a counter of two bits past
\* its wrap; a key of the map, with failures of every kind; everything at once.
SomeWorkloads ==
    {Load({"journal_append", "journal_size", "journal_read"}, Down, 5),
     Load({"time_series_append", "time_series_get"}, Down, 3),
     Load({"counter_get_next_value", "counter_get_current_value"}, Down, 6),
     Load({"map_set", "map_get"},
          {"UNAVAILABLE", "DEADLINE_EXCEEDED", "CANCELLED", "INTERNAL"}, 5),
     Load({"map_set", "map_get", "map_search_key", "journal_append", "journal_size",
           "journal_read", "journal_search_key", "time_series_append", "time_series_get",
           "time_series_search_key", "counter_get_next_value", "counter_get_current_value",
           "counter_search_key"}, Down, 2)}

Permuted == Permutations(Client)
=============================================================================
