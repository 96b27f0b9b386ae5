# A verification project for ds-service

ds-service is a data structure server: one process keeps a map, journals, time
series, named mutexes, counters and a task queue with dependencies in memory;
workers and submitters reach it over gRPC through a C++ client or the Python
clients built on it. This directory holds TLA+ models of the parts where
correctness is hard to test, the TLC runs that check them on small instances,
and proofs checked by TLAPS that hold for every instance.

## Inventory

| Component | Source | State | Operations |
|---|---|---|---|
| Task manager | `cpp/server/core/task-manager.cpp`, `data-structures.hpp` | the table (one vector per column), the index of ids, the heaps of queue entries, `next_seq` | `task_add`, `_get`, `_done`, `_cancel`, `_set_priority` and six reads |
| Named mutexes | `cpp/server/core/mutexes.cpp` | key to holder | `try_acquire`, `release`, two reads |
| `mutex_acquire` | `cpp/client/client.cpp`, `client.py` | a deadline, a sleep, a call in flight | a loop around `mutex_try_acquire` |
| gRPC client transport | `cpp/grpc/client/grpc-client-transport.cpp` | `closed_`, `calls_`, one `Call` per call in flight | `invoke`, `close`, the completion callback, the `should_cancel` hook |
| Map, journals, time series, counters | `cpp/server/core/*.cpp` | key to value, list, two indexed lists, 64-bit count | set/get, append/read/size, append/get, next/current, and a search each |
| gRPC server transport, codec | `cpp/grpc/server`, `cpp/grpc/codec.*` | none | decode, one operation, encode |
| Server main | `cpp/server/main.cpp` | signal mask, shutdown thread | start, wait, shut down with a grace period |
| Python clients, bindings | `client.py`, `errors.py`, `cpp/python/bindings.cpp` | a C++ client, the fork guard, a thread pool (async) | one method per operation |
| Server helper | `server.py` | a process group, a port, `_closed` | start, `wait_until_ready`, `close` |

How they interact. A client method fills a request, `GrpcClientTransport::invoke`
sends it and waits; a server thread decodes it, runs one operation of one data
structure under that structure's own lock, and encodes the answer. No operation
touches two data structures, so the server's concurrency is the interleaving of
whole operations. What is hard lies elsewhere:

* *long sequences of legal operations* on the task table: counts of unfinished
  parents, endings passed down a graph, dead entries in heaps;
* *the network*: an operation may be executed although its caller was told that
  it failed, or long after its caller gave up;
* *threads in the client*: callbacks, a polled hook and `close()` meeting a call;
* *processes*: signals at startup and shutdown, forks, servers that exit.

What makes each component correct:

* task manager: a task runs only after all it depends on has finished; no task
  waits on one that ended; counts never drift; what a task reports names the task
  to blame; what is final stays; the best Ready task is dispatched; every task ends;
* mutexes: the exclusive section is exclusive whatever calls fail; a timeout
  leaves nothing held; a mutex that is wanted is taken;
* client transport: no call outlives its stack frame; `close()` reaches every
  call, and a closed client drains; an error names the right cause;
* stores: reads between appends are consistent prefixes; what was acknowledged is
  there once, in order; bounds mean what they say; a counter hands out no value
  twice below its width; rejected appends and reads create nothing;
* workers: no task is handed out twice; no failed or late call leaves a task with a worker
  that is alive and knows nothing of it; a repeated report contradicts nothing;
* lifecycle and helper: no signal is lost at startup; a drain is not cut short by
  the helper; `close()` returns, and no server of its process group is left
  but one that SIGKILL is on its way to;
* Python: Ctrl-C ends a call and surfaces; a closed client drains its coroutines; a
  forked child refuses exactly if it has its parent's gRPC in memory.

`PROJECT.json` lists the hazards behind these, each at its line, and the
properties that would catch it.

## Modules

| Module | What it is |
|---|---|
| `TaskManager` | the task manager; its properties |
| `TaskContract` | what the task operations promise, in terms of task ids only |
| `TaskManagerContract` | the mapping from the table to the contract |
| `TaskManagerProofs` | theorems about `TaskManager`: the graph of dependencies, endings, queues, reads, and the contract |
| `Filter` | the loop that picks elements out of a vector, as `search_id` and `time_series_get` have it |
| `Mutexes` | the server's mutexes |
| `MutexClients` | workers in `mutex_acquire` / `mutex_release` over unreliable calls, composed with `Mutexes` |
| `MutexClientsProofs` | theorems about it |
| `Errors` | the outcome of an operation on its way from the server core to a Python exception |
| `Stores` | map, journals, time series and counters of the server |
| `StoreClients` | clients of the stores over unreliable calls, composed with `Stores` and `Errors` |
| `StoreClientsProofs` | theorems about it |
| `Workers` | the claim-work-report loop over unreliable calls, composed with `TaskManager` and `Errors` |
| `WorkersProofs` | theorems about it, on top of `TaskManagerProofs` |
| `ClientCalls` | threads in `GrpcClientTransport::invoke`, gRPC, the hook, `close()` |
| `ClientCallsProofs` | theorems about `ClientCalls` |
| `PythonCalls` | the bindings: `ClientCalls` with the hook that runs signal handlers |
| `AsyncClient` | the asynchronous client: coroutines and a pool over `ClientCalls` |
| `PythonProofs` | theorems about these two, on top of `ClientCallsProofs` |
| `ForkGuard`, `ForkGuardProofs` | the fork guard of `client.py`, and theorems about it |
| `ServerProcess` | one server process from exec to exit |
| `ServerHelper` | `DsServiceServer` of `server.py`, composed with `ServerProcess` |
| `ServerHelperProofs` | theorems about it |
| `MC...` | small instances of each |

Operators with a suffix after an underscore, introduced as *faulty variant*
(`Released_First`, `EntryOrder_Lifo`, ...), are plausible bugs of the operator
defined next to them. They are used nowhere; `PROJECT.json` pairs each with the
property that finds it when it takes the operator's place.

### TaskManager

Every operation holds `TaskManager::lock` from its first line to its last, so
each is one action. A column of `TaskTable` is a function on `Rows`, counted from
1; `NoRow` stands for an id the index does not have. Requests that are refused
are actions of their own that change nothing (`add_refused`, `cancel_refused`,
`set_priority_refused`, `done_refused`), with the code's order of tests in
`add_result`, `cancel_result` and `done_result`.

* `children[p]` is a vector with repetitions in the code. Here it is the set of
  pairs `<<c, k>>`, one for each place `k` at which row `c` names `p`, which
  keeps the repetitions apart. Its order is that of the rows, since `add` appends.
* `propagate_to_children` walks down a worklist. `Reached(i)` is what the walk
  reaches, as the least set closed under "an active child of a row reached".
* `done` decrements child by child. `Count(i, c)` is how often child `c` is met,
  and `Released(i)` are those whose count lands on zero in the loop.
* A heap is the set of its entries. `get` pops entries from the top until one is
  live, so a poll empties every queue it passes and drops what lies above the
  entry it takes (`Emptied`, `Below`). Entries equal in priority and seq belong
  to one row whose list names the queue twice; `slot` keeps them apart.
* Outputs are tokens: what a worker reports, `CanceledOutput`, and
  `DependencyFailed(id)`, which keeps the id that the real text quotes.
* `parents` is a history variable: the code forgets the list once it is resolved.
* A pattern of `search_id` says whether RE2 compiles it and which ids it matches; one
  that does not compile is refused (`InvalidArgument`). `Keep` of `Filter` is its loop,
  as a recursive function over the places of the vector, which proofs can unfold.
  `MCTaskManager` lets TLC compare it with `SelectSeq`.
* Left out: `function` and `input`, which only the reply of `task_get` reads;
  NaN among the priorities.

`TaskContract` says the same of ids: a task has a set of tasks it needs and a set
of queues it wants, an ending reaches all active dependents, and a poll takes the
highest priority, earliest arrival. It knows no counts, lists of children,
rows or dead entries. `ImplementsContract` is that specification under the mapping
of `TaskManagerContract`, which reads the table through the read operations, one
operator for each variable of the contract (`status_of`, `needs_of`, ...).

### Mutexes and MutexClients

`Mutexes` is the server's map: `NoKey`, `Free` (a `MutexState{}` left by a
release) or the holder. Patterns are as in `TaskManager`. `MutexClients` puts workers around it that do what the
guides show: `mutex_acquire`, the exclusive section, `mutex_release` in a
`finally`. A call is a request in `requests` and an answer in `reply`. A call may
raise while its request is still on its way (`call_fails`), a request may be
served whenever, or never (`lose`), and a worker may die. The calls one worker has
outstanding are told apart by numbers; `MaxRequests` bounds them. Time passes in
ticks, and only when no worker has a step of its own to take, so that what takes
time is sleeping, the network and the server. `left` counts the timeout of
`mutex_acquire` down to 0 and -1 records that it was overrun. The jitter of the
delay is left out. The workers do not retry a release.

### ClientCalls

`calls_lock_` makes `begin_call`, `end_call` and `close` one step each; between
them a thread is `registered` (not yet on the stub), `waiting`, `asking` the hook
with the lock released, `draining` after the hook threw, or `finishing`. The
callback is `complete`. gRPC is external: it ends a call with any status, with
`CANCELLED` only if someone cancelled the context or the server cut the call, and
with `DEADLINE_EXCEEDED` only if there is a deadline. `by` records who cancelled.

### Errors, Stores and StoreClients

`Errors` has the tables of `codec.hpp` and `translate_error`: `ErrorCode` to gRPC
status, back, and to an exception or an answer. `Outcome` is what a Python caller
of an operation sees; a status no code has becomes `Transport`.

`Stores` has the operations of the four structures, each under its lock and so one
step. A read is an operator that says what it answers; a write is an action next to
what it answers. Keys and patterns are as elsewhere: a pattern is the set of keys it
matches, or does not compile. A journal is a sequence, a series a sequence of points
(the three columns of `TimeSeries` grow and are read together under the lock). A
datetime is the time it denotes, in units of which `Micro` make a microsecond;
`format_iso8601_utc` truncates to it, `parse_iso8601_utc` fails on `Unparsable` and
on the empty string. A counter has `Width` bits and wraps.

`StoreClients` makes calls one at a time per client. A request stays in `wire` until
it is executed or lost, whether or not its caller still waits, and a reply reaches
the caller only while it waits for that very call. The optional bounds of
`time_series_get` cross the codec in `Encoded` and `Decoded`, where absent, 0 and
`""` are three things. A follower of a journal asks for its size and reads on from the
end of its copy in chunks. Values name the call that wrote them, which is what
lets the properties speak of "exactly once". `use`, chosen at the start from
`Workloads`, says which operations, failures and how many calls a behaviour has.

### Workers

The loop of `docs/how-to-guides/write-a-worker.md`: poll, run, report, against the
actions of `TaskManager` itself, while submitters add and cancel. The request and the
answer of a call are two steps; in between the call may fail under its worker, and
the request it leaves behind is executed later or lost. A worker whose poll fails
ends, as the guide's does; one whose report fails may report again, up to
`MaxReports` times. A worker may also die at any point. The history `claims` is the
sequence of hand-outs, each a worker and a task, appended to when the server executes a `task_get`,
whether or not its reply arrives; `runs` is what workers have learned of. `Survivors` are the workers
that do not, and whose calls do not fail.

### ServerProcess and ServerHelper

`ServerProcess` follows `main`: signals blocked first, `start` (which may fail to
bind), the shutdown thread in `sigwait`, the drain with its deadline, the join. A
SIGTERM before the mask kills; after it, it is pending until the thread takes it.
`ServerHelper` has the constructor, `wait_until_ready`, and `close` with its
terminate-wait-kill-reap sequence on the process group. `command`, chosen at the start,
says what `ds_service_bin` is. The leader of the group is the server itself; or a
wrapper that starts the server in the group and may exit early or take no notice of
SIGTERM; or the client of a container runtime (`docker run`, as in
`server-helper.md:43`), whose daemon starts the server outside the group and which may
pass SIGTERM on (`forwards`). `killpg(SIGKILL)` only sends (`killed`, and `"killed"` of
the leader): a process that was sent it ends in a later step (`dies`, `wrapper_exits`)
and a wrapper that was sent it starts nothing any more. `close()` waits for the leader
alone. Another process may take the port. Time is counted in fives of seconds; it passes
only when no thread that can go on is left behind, except that starting takes any
time.

### PythonCalls, AsyncClient and ForkGuard

`PythonCalls` puts `python_signal_pending` in the place of the hook: signals trip a
flag, the main thread runs their handlers when it is in Python code or in the hook,
and an exception from a handler stays pending until `released` raises it instead of
what the call gave. `AsyncClient` gives every thread of `ClientCalls` to a pool that
takes futures from a queue; a coroutine may be canceled at any time, which cancels
its future if no thread has taken it (asyncio and `ThreadPoolExecutor`, external).
`ForkGuard` has processes that fork and connect. A fork copies the two flags and the
gRPC in memory, and runs the hook; `connecting` is the window between `_ext.connect`
and the assignment that arms the guard, and `raced` remembers forks in it.

## Runs

| Run | Instance | Shows |
|---|---|---|
| `graph` | 4 tasks, parent lists of up to 2 (repetitions included), 1 queue, 1 worker | counts, child lists, endings, origins, reads and finality over every graph |
| `contract` | 3 tasks with queue list `<q1,q2,q2>` and parents none, `<t1,t2>` or `<t1,t1>`, 2 priorities, one change of priority | the usable entries are exact; the table and its heaps implement the contract, best task first; every task ends |
| `mutex` | 2 workers, 1 mutex, timeout 3 or none, delay 2, call deadline 4, 2 outstanding requests each | exclusion with holders named truly, nothing left held by a timeout, a wanted mutex is acquired |
| `mutex_timeout` | as `mutex` | **violation**: the timeout does not bound the loop |
| `calls` | 2 threads, hook, deadline | frames, `close()`, causes; `close()` ends every call |
| `stores` | 2 clients, 1 key, five workloads of 2 to 6 calls, a 2-bit counter, chunks of 1 and 3 | followers, acknowledged appends, bounds, counters, own writes, listed keys |
| `workers` | 2 workers, one of which survives, 2 tasks in both queues, 2 reports | no task is handed out twice, none is forgotten, reports settle, every task ends |
| `server` | a server alone, behind a wrapper or in a container, up to 2 calls in flight | signals, drain, kill, who is left, `close()` returns |
| `python` | the main thread and one other | Ctrl-C ends the call and surfaces |
| `async` | 3 coroutines, 2 threads, no deadline | an awaited call is at one place, lost by nobody and made once; a closed client drains its coroutines |
| `async_cancel` | 2 coroutines, 1 thread, deadlines | **violation**: the call of a canceled coroutine does not always run on |
| `fork` | 4 processes | who refuses calls |

Why the bounds are enough. Four tasks hold a diamond, a chain of three with a
shortcut, and a task added under an ended parent with a task below it; two parents
are enough for a repeated parent and for endings that meet. Three tasks in two
queues, one named twice, hold an entry that is dead in each of the two ways above and
below a live one, and a task released by the last of its parents, or by one parent
named twice. In `contract` every list names both queues and a priority changes at most
once (`MaxSeq`); lists that leave a queue out, a priority changed and changed back, and
every other graph are covered by `QueuesExact` and `TableKeepsContract`, which bound
none of these. `graph` has one worker: that a task stays with its worker when two of
them report is exercised by `workers`, and shown for any number by `NeverUndone`. Two workers and two outstanding requests give a request served after its
caller gave up, next to a newer one of the same worker. Each workload of `stores`
has one thing in view: two appenders and a follower, a read with bounds, a counter
past its wrap, a key of the map under every kind of failure, all thirteen operations
at once. Two workers and two tasks, the second of which may depend on the first, hold
a claim whose answer is lost, a report executed late, and two queues that both
have an entry of one task. Four processes have a grandchild with siblings. The ids
of tasks, workers
and threads are interchangeable in the runs that use symmetry; the runs of liveness
properties use none. `MaxSeq` bounds the changes of priority only; adds and
releases are bounded by the number of tasks.

Fairness. The server starts nothing by itself, so `EveryTaskEnds` assumes what
workers do: somebody keeps polling a list with every queue, and the worker that
holds a task reports. It is stated for tasks added to at least one queue; a task
with an empty list stays Ready, as in the code. `SomeoneAcquires` assumes that
threads run, that the server serves, that holders release, and that time passes
(strong fairness of `tick`, which waits for steps that take no time). It says *some*
worker acquires: nothing in the code keeps one worker from losing every race. It
says nothing once a call has failed or a worker died, since a mutex may then stay
held. `CloseDrains` assumes that threads run, the hook returns, and gRPC ends calls that were cancelled, not that it
ends any other. `InterruptEndsCall` assumes the same, and that
a main thread that is again and again in Python code runs its pending handlers
(strong fairness of `handle`). `AsyncCloseDrains` assumes that the threads of the pool
run and that gRPC ends calls that were cancelled. `EveryTaskSettles` assumes that a
worker takes its next step, that a request is executed, lost or fails, and that one
worker survives; it allows for a task left Running by a worker that is gone, because
the server keeps no lease. `CloseReturns` assumes that the threads of the server and
`close()` go on, that a process that was sent SIGKILL ends and that time passes, and
nothing else of the wrapper.

### The findings

`mutex_acquire` checks its deadline only after an attempt has returned, and an
attempt is a call with the client's own deadline (300 s by default). Its docstring
says "The timeout bounds the whole loop, sleeps included"; the run `mutex_timeout`
shows a worker that is still in the loop after its deadline.

The asynchronous client awaits `run_in_executor`, so the cancellation of a coroutine
cancels the pool's future, and a call that no thread has taken yet is dropped.
`client.py:587-588` says "Canceling the coroutine does not cancel the call itself, which
runs on until it completes or its deadline passes" (and `python-client.md:125-126` the
same); the run `async_cancel` shows a call that was given to the pool and is never made,
under a fair pool and calls with deadlines. The sentence holds of calls that a thread
has taken.

### What the properties leave open

* `SomeoneAcquires` does not exclude a worker that loses every race.
* `CounterOrdered` is about values received below the wrap, not about gaps between them.
* `ReadYourWrites` counts a late write of the caller's own among those made since.
* `TailExact` meets reads whose end is beyond the journal; a follower never starts
  beyond it.
* `GetExact` cannot tell an empty datetime from an absent one: the server takes both
  for no bound (`time-series.cpp:63`, `70`).
* `GuardReachesDescendants` exempts what a fork in the window led to.
* A joinable thread after a failed start of the server is not modelled.

### Seen while modelling

These are behaviours of the models that a reader of the docs may not expect. The
properties above are stated so that they hold with them.

* A `counter_get_next_value` that fails after the server executed it uses up a value
  nobody receives; `client.py:549`, `write-a-worker.md:177` and
  `data-structure.md:311` call the values gap-free.
* `wait_until_ready` returns when the port accepts connections, also those of another
  process that took the port while the server it started is on its way to a failing
  bind (`server.py:188-192`).
* A fork by another thread between `_ext.connect` and the assignment that arms the
  guard (`client.py:169`) leaves a child that does not refuse: the exception in
  `GuardReachesDescendants`.
* When `close()` of the helper returns, a server that a wrapper left behind may still
  exist, and hold its port, for the moment that SIGKILL takes. A server that a container
  runtime started is outside the process group: if the runtime's client exits without
  stopping it, it outlives `close()`.
* A server that is signaled while it starts may be killed while it drains, if starting
  took so long that `close()` has less time left than the grace period;
  `server.py:20-22` says that `close()` never kills a server that is still draining.
  `DrainNotKilled` is about servers whose main thread was waiting.
* Nothing rejects a NaN priority, with which `TaskQueueEntryOrder`
  (`task-manager.cpp:25`) is no strict weak order.

## Proofs

`TaskManagerProofs`, from `ConstantsAssumption` alone (priorities are integers,
lists are sequences), for graphs of any size and shape:

* `GraphAlwaysConsistent`: the invariant `GraphInv` holds of every reachable state;
* from it `TypeCorrect`, `CountsNeverDrift`, `ParentsFirst`, `NobodyStranded` and
  `GraphNeverBroken`.

The type invariant is not inductive by itself: `task_done` subtracts from
`pending_parents` without a test. That the difference is a natural number needs
`PendingExact`; that finishing row `i` takes exactly `Count(i, c)` places from
what `c` waits for needs `ChildrenExact`, which says the child list of an unfinished
row holds exactly the places that name it; and `ChildrenExact` survives a `task_add`
because parents precede their children and the index is the inverse of the table.
`GraphInv` is their conjunction, with `DispatchAfterParents` and `NoStrandedWaiter`.
For an ending passed down, `ReachedClosed` shows that `Reached` is closed under
active children, so that no Waiting row keeps a parent that ended. There is one
lemma per operation and `NextPreserves` combines them.

`ClientCallsProofs`, for any number of threads: `CallsInv` is inductive, and from it
`CallsTypeCorrect`, `NoCallOutlivesItsFrame`, `CloseCancelsAll` and
`CancelledNeverMistaken`. The
strengthening records that a call is registered exactly while its thread is inside
`invoke`, that it has a status exactly when gRPC has let go of it, and that
whoever cancelled it left a trace that `end_call` consults: `closed_` for `close()`,
`failure` for a hook that threw.

`PythonProofs`, for any number of threads and coroutines. `PythonCallsAreCalls` and
`AsyncCallsAreCalls`: what the bindings and the pool add to `ClientCalls` is none of its
variables' business, every step being one of its steps or none; so `PythonCallsSafe` and
`AsyncCallsSafe`, its three safety properties, hold of calls from Python. On top of that:

* `InterruptRaised` (`InterruptSurfaces`, an action property): `PyInv` adds that a pending
  exception belongs to the main thread, in a call that its hook cancelled, so the
  thread is still inside `released` and the only way out raises it;
* `AwaitedCallsServed` (`CallServedOnce`): `AsyncInv` says that the state of a future tells
  where its call is (pending in the queue, running with a thread), that no call is
  in the queue twice or with two threads, and that a thread without an item is in no call,
  which is what makes its next call a new one.

`ForkGuardProofs`, for any number of processes: `GuardAlways` (`GuardInv` is
inductive), and from it `NeverRefusedInVain` and `GuardHolds`. Neither property is
inductive by itself: a fork must know that a process with gRPC of its own is armed
or in the window, and that one that is armed has some. `GuardInv` adds just that,
and that flags and memory belong to processes that exist.

`TaskManagerProofs` goes on, on top of `GraphInv`, for any tasks, queues and priorities:

* `NeverUndone` (`FinalStaysFinal`, an action property): every action leaves a final
  row alone, and the walk of an ending moves active rows only;
* `OriginsTraced` (`OriginNamesCulprit`): an ending is passed to rows that were active,
  so no origin that was recorded is overwritten, and a row added below an ended
  parent takes over that parent's origin;
* `QueuesExact` (`LiveEntriesExact`), from the inductive `QueueInv`: an entry is live
  if it has the seq of its row and the row is Ready, and no entry has a seq above
  `next_seq`, so a row that is queued again gets one that no old entry has;
  a live entry has the priority of its row and lies in a queue of its list, and a
  Ready row has one in each;
* `ReadsConsistent` (`ReadsAgree`): the counts are those of the table (`CountsRead`), and a
  search lists exactly the known ids that its pattern matches, in the order they were
  added. `KeepLists` says what the loop of the search computes: as many elements as
  places were kept, in the order of the places. It is an induction over the vector, made
  through the least place at which the claim would fail (`LeastIn`), so that it needs no
  induction theorem with an operator for a parameter;
* `TableKeepsContract` (`ImplementsContract`): the first state maps to the contract's
  first state, and every action of the table to a step of the contract or to none.
  The two steps that are not a rewriting are an ending and a poll. For an ending, the
  rows the walk reaches are mapped to the least set of tasks closed under "needs one
  of these and is active", in both directions (`EndMaps`). For a poll, the entry at
  the top is mapped to the best Ready task by `QueuesExact`.

`MutexClientsProofs`, for any number of workers and mutexes: `MutexInvAlways`, and
from it `ExclusionHolds` (`MutualExclusion`) and `NobodyLeftHolding`
(`NoSilentOrphan`). What a late release does depends on what else is on its way, so
neither is inductive. `MutexInv` adds that a release on its way finds the mutex held
for its worker and is the only one, that whoever was told it has the mutex has it and
has not asked for its release, and that the requests of a worker are told apart by
their numbers.

`StoreClientsProofs`, for any clients, keys, chunks, times, bounds and failures, and
counters of any width: `StoresInvAlways`, and from it `WritesAreRead`
(`ReadYourWrites`), `TailsExact`, `AppendsOnce` (`AckedOnce`), `CountersOrdered`,
`KeysListed` (`ListedIfWritten`) and `SeriesReadExactly` (`GetExact`). `StoresInv` starts with the calls: every request on a wire is there once,
was made by its client, and if its client waits for it says what was called and has
not been answered. Each store then adds what its answers on their way rely on: for a
journal, that a read on its way extends the copy it was asked from; for appends,
that an entry in a log has no request on the wire any more (so none is executed
twice), and that one whose answer is on its way comes after all its caller was told of;
for a counter, that it equals the number of its increments until it wraps and that no
value on its way was handed out. The steps are sorted by what they do to a call
(`StepKinds`), and `Effect` says once what the execution of a request does, so each
store has one lemma per kind of step.

`SeriesReadExactly` has four parts. The bounds cross the codec unchanged
(`BoundsCross`), absent ones and the empty string included; the server refuses them
exactly if a datetime among them does not parse (`RefusedExactly`); its loop keeps the
points that satisfy them as their caller means them (`WithinIsSatisfies`, `GetAnswers`;
what keeping means is `KeepLists` of `TaskManagerProofs`); and a series only grows, so an answer on its way is what the
series held when the request was executed, and holds every point its caller had been
told of when it called (`ExactKept`, `ToldKept`). `DatetimesReadBack` is its part
about datetimes as bounds.

`WorkersProofs`, for any workers, tasks and reports: `WorkersInvAlways`, and from it
`TasksRemembered` (`NoneForgotten`), `ReportsRecorded` (`ReportSettled`) and
`TasksRunOnce` (`RunOnce`). `WorkersInv` contains `GraphInv`, and adds that what was run
is never Waiting or Ready again, that a claim on its way names a task nobody ran and
goes to one worker, and that a report a worker gave up on says the same as the one it
repeats. `RunOnce` says that no task is twice in `claims` and that every run is a claim.
It is not inductive: `ClaimsInv` adds that a task that was claimed is past Ready, which
no step undoes (`PastStays`), so that a `task_get` can only claim one that is not in
`claims` (`ClaimNew`); and that the replies on their way are claims (`RunsClaimed`).

`ServerHelperProofs`, for any number of calls in flight: `HelperAlways`, and from it
`DrainsUnharmed` (`DrainNotKilled`), `EndsGracefully` (`ServedEndsGracefully`),
`SignalKept` (`SignalNotLost`) and `NobodyLeft` (`CloseLeavesNobody`). `HelperInv`
adds the race of the two clocks (while a server that was up drains, `close()` has
more time left than the drain) and that behind the kill there is in the group no server
but one that was sent SIGKILL, and no wrapper that could start one.

The assumptions. `ConstantsAssumption`, `TimesAssumption`, `OptionsAssumption` and
`MaxProcessAssumption` give constants their types; `MutexValues` tells `NoKey`, `Free` and
workers apart. `ProcessAssumption`, `WorkersAssumption`, `StoresAssumption` and
`ClientsAssumption` also say that the value that stands for nothing (`None`, `NoJob`)
is none of the values it is told apart from: it is `std::nullopt` or Python's `None` in
the code. So do `CoroutineAssumption` of a thread that has no work and
`StoresAssumption` of a text that is no datetime. `ClientsAssumption` gives steps and the
four bounds of `time_series_get` their types. `MainAssumption` says that the main
thread is one of the threads and that the bindings install the hook. `StoresAssumption` states that `2^Width` is positive because the provers do
not compute powers. `WorkersAssumption` says that gRPC by itself ends no call with one
of the two statuses that carry an answer of the server (`NOT_FOUND`,
`FAILED_PRECONDITION`). TLC evaluates all of them in the runs.

Only model-checked: liveness, for fairness is out of the prover's reach.
`EveryTaskEnds`, `EveryTaskSettles`, `SomeoneAcquires`, `CloseDrains`, `CloseReturns`,
`AsyncCloseDrains` and `InterruptEndsCall` hold on the instances of their runs. Every
invariant and every other action property that a passing run checks is also a theorem.

## Not modelled, and the plan

Left for later:

1. The worklist of `propagate_to_children` and the loop of `task_done` step by step
   against `Reached` and `Released`, for TLC only.
2. A worker that retries a `mutex_release`; neither the code nor the guides do.

Left out for good: the syntax of addresses, datetimes and patterns (RE2 is external; a
pattern is whether it compiles and the set of what it matches), logging, message texts, the one-to-one copying
of fields in the codec, the argument conversions of the clients, keepalive settings,
the lookup of interfaces and of the server binary, the array behind a heap and NaN
among priorities, allocation failures, reuse of process ids, the difference between
the system and the monotonic clock during a shutdown, the build and packaging.
