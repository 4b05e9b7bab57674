# TLA+ models of pyddd

pyddd is a Python library for domain-driven design: commands and events, modules of
handlers, an application that dispatches messages to them, event sourced aggregates
with event stores, units of work, and consumers and publishers over Redis. It exists
twice, for threads (`sync`) and for asyncio; the models cover both where both exist.

What makes the code hard is seldom a single function. It is what happens between two
of them: a check of a version and the insertion it allows, an `await` between a test of
`is_stopped` and the assignment of `is_running`, a reply that gets lost after Redis has
counted it as delivered, a handler that waits for handlers in its own thread pool.

## 1. Inventory

| component | state | operations | interacts with |
|---|---|---|---|
| aggregates (`domain/event_sourcing.py`, `entity.py`) | version, fields, raised events | `_create`, `trigger_event`, `mutate`, `collect_events`, `snapshot`, `from_snapshot` | saved to and rebuilt from the store by a repository of the application |
| event stores (`persistence/event_store`) | events by stream and version, snapshots | `append_to_stream`, `get_stream`, `add_snapshot`, `get_last_snapshot` | called by all handlers, in threads or tasks |
| retry strategies (`application/retry`) | attempts | run the handler again | wrap handlers |
| stream group consumer (`transport/*/redis/stream_group`, `transport/*/domain`) | tracker, loop, tasks; in Redis: topic, last delivered id, pending entries | `bind`, `consume`, `_long_pull`, `read`, `process`, `_ask`, `stop_consume` | signals of the application, Redis, `Application.handle` |
| pub/sub consumer (`transport/*/redis/pubsub`) | subscription, loop | `bind`, `consume`, `_long_pull`, `stop_consume` | the same |
| publishers (`transport/*/publisher.py`, `core/publisher.py`) | topics | `register`, `_before_run`, `_publish` | an event handler like any other, in a module of its own |
| lifecycle (`application/application.py`, `signal_manager.py`) | `_is_running`, `_is_stopped`, `_lifespan`, listeners | `run`, `stop`, `run_async`, `stop_async`, `notify` | calls consumers and publishers back |
| dispatch (`application.py`, `module.py`, `handler.py`, `condition.py`, `executor.py`) | handlers, pool, futures | `handle`, `resolve`, `process_handler(s)` | handlers call `handle` again |
| units of work (`persistence/uow.py`) | `_in_context`, `_lock`, `_uow` | enter, `apply`, exit | locker and repository of the application |
| Postgres datastore (`event_store/postgres.py`) | connection pool, open `get_stream` generators | `get_connection`, `cursor`, `transaction`, `close` | the stores of all handlers, in threads or blocking the event loop |
| messages and their registry (`domain/message.py`) | classes by topic and alias | `register`, `get_class`, `upcast`, `load` | stores and consumers load what another release may have written |
| JsonDict (`domain/types.py`) | items, cached JSON and hash | construct, set, `setdefault`, `update`, the parser | fields of messages, which many handlers share |
| event factories, trackers | position of a tracker | build an event, advance | the consumers |

What makes each one correct:

* **aggregates and stores**: a saved event is there for ever, was decided on exactly the
  events before it, and rehydrating, from whatever snapshot, gives the same aggregate;
* **stream group**: at least once, no entry forgotten, none dispatched twice by one
  process or worked on by two consumers;
* **pub/sub**: order (asyncio), delivery as long as the connection is there, and an end;
* **lifecycle**: running only inside the lifespan, stopped for good, stops that stop;
* **dispatch**: every fitting handler runs and its result comes back, and no deadlock;
* **units of work**: exclusion, no lost change, no lock that outlives its unit;
* **datastore**: no connection lost, and nobody waits for one without a reason;
* **messages**: what one release wrote the others read as what it was, or refuse;
* **JsonDict**: its own copy at every depth, a frozen one constant, a hash of its content.

## 2. Modules

| module | models | composed with |
|---|---|---|
| `EventLog` | what an event stream promises: a log without gaps, each event decided on all before it (`Record`), or, where appends do not exclude each other, on a state of its length (`Race`) | the abstract specification of `EventStore` |
| `EventStore`, `MCEventStore` | aggregates, a repository, both event stores and the retry strategy, on one stream | `INSTANCE EventLog WITH log <- stream, exclusive <- ~Threaded` |
| `Datastore` | the connection pool of `PostgresDatastore`, open generators, and the loading of rows by other releases | |
| `Queue` | an at-least-once queue: entries are given out in order and settled only after they were handled | the abstract specification of `StreamGroup` |
| `StreamGroup` | Redis, the group's consumers, their queue, tracker and ask policy, on one topic | `INSTANCE Queue WITH entries <- topic, given <- delivered, settled <-` what is delivered and no longer pending |
| `PubSub` | the pub/sub queue of one process and its connection | |
| `Lifecycle` | concurrent `run` and `stop` calls, the lifespan, the signals | |
| `SerialUnits` | units that change what is stored one after the other | the abstract specification of `UnitOfWork` |
| `UnitOfWork` | `UnitOfWorkCtxMgr` and `UnitOfWorkBuilder` with locker and repository | `INSTANCE SerialUnits` |
| `Dispatch`, `MCDispatch` | `Application.handle`, resolution, both executors; the call tree for TLC | |
| `JsonDict` | `JsonDict` and `FrozenJsonDict` over a heap of objects | |
| `EventStoreProofs`, `DatastoreProofs`, `StreamGroupProofs`, `PubSubProofs`, `LifecycleProofs`, `UnitOfWorkProofs`, `DispatchProofs`, `JsonDictProofs` | theorems and their proofs | each extends the module it is about |

Each module names the definitions after the methods they stand for. Definitions whose
comment begins with "Defect" are not part of a specification: they are plausible bugs
of the definition after them, with which the properties must fail.

### EventStore

A command is a handler of one aggregate. `pc` tells where it is: `ReadSnapshot`,
`ReadStream` and one `Mutate` for each event rehydrate it (`Create` makes it anew),
`TriggerEvent` raises events, `Save` begins `append_to_stream`, which is one `Insert`
per event or a `Conflict`. What follows is `_capture_snapshot` of the repository in
`tests/unit/examples/test_example_8.py`, which is where the library shows how to load and
save: for each event whose class version (not the aggregate's) divides by the interval
(`captures`) it rehydrates once more into `copy`, by the same actions, from the store's last
snapshot and up to that version, and adds what comes out (`AddSnapshot`). That may be a
version of which there is a snapshot already; the table of Postgres refuses it, and the
command fails with its events stored (`clashed`). `Finish` ends it, and a failed command
may `Retry` from the start. An aggregate's data is the sequence of commands whose events it applied,
an event records the state it was decided on (`basis`), so a stale decision can be told
from a sound one.

The stores differ in what may come between two steps. `"loop"`: InMemoryStore on the
event loop, an append runs as a whole. `"threads"`: InMemoryStore in SyncExecutor's
pool, where a thread switch may fall between the test of a version (`Test`) and the
insertion. `"postgres"`: one implicit transaction per `executemany` (pipeline mode);
`"rows"`: autocommit, each INSERT by itself. `ScanSorted` says whether the SELECT
without ORDER BY gives the order of the primary key.

### Datastore

`free`, `queue` and `closed` are the pool of psycopg_pool, which serves in order of
arrival. A handler is `running`, `waiting` for a connection, `using` one for a statement,
or (on the loop) `suspended` in an await; `held` are the calls of it that have a
connection. `get_stream` is a generator: `Select` fetches, `Load` makes one event of one
row when the loop over it asks, `Exhaust` gives the connection back. What raises out of the
generator or outside of any loop over one leaves the `with` blocks, which give back all the
handler has (`End`). What raises in the body of the loop does not leave the one of the
generator (`EndInBody`): the traceback of the exception keeps the frame that has the suspended
generator, and executors hand the exception on, so its connection stays out until the
exception is collected (`Collect`), which nothing makes happen in time. On the loop a call
that waits blocks everybody (`CanRun`).

A row has the release that wrote it (`by`), its `form` (the version of the class whose
fields it has) and its `mark` (`class_version`, 0 if its maker did not set it). `Upcast`
is the validator `upcast`, with one upcaster per step, which spoils values of any other
form than its own; `Registered` and `Topic` are the registry with the alias of a renamed
class. `Restart` puts any release, older ones included, in place of the one that runs.

### JsonDict

`heap` is the sequence of objects with their identity; `made` are those that the
program made itself, so the others belong to some JsonDict. A conversion (`Conversions`) has
the objects that it made, its markers, which it only ever adds to, and the values it made so
far. `ParseValue` is the parser, given the parser of what is inside a container; `Parse`
applies it as often as there are objects, which is as deep as it can go before it meets a
marker. `Convert` is one call of it for one value, `ParseObject` one for each item of a
mapping with the markers of the whole. `Shape` says what is made of a container: lists and
tuples become tuples, mappings frozen dicts, and an empty tuple is the interpreter's only
one. `Update` takes items one by one, as the code does, so those before a failure stay.
`json` is what each frozen dict remembers: `Built` fixes it when the dict is complete; a dict
nested in it that was empty when its JSON was taken keeps that one.

Two things get past the conversion, in the code as in the model. `CONVERTERS` takes the value
of an Enum member as it is (`Atomic`): `Day` is a member whose value is an atom that JSON has
not, `Kind` one whose value is a list or dict that all parts of the program share
(`ValueOfKind`). And `d |= m` is the operator of `dict`, which `FrozenJsonDict` does not
override either (`IOr`; `merged` remembers to which dicts it was applied). A frozen dict whose
JSON cannot be written, because of such a value, is not made (`Dumpable`).

### StreamGroup

Redis is `topic`, `start`, `delivered` and `owner`, the pending entries. Each consumer
process has an application state, a tracker (`cursor`), a loop (`poll`, `reply`) and a
task or thread per entry (`tasks`). A read is `SendRead`, then `ServeHistory` or
`ServeNew` in Redis, then `Receive`: a stop, a crash or a lost connection may come
between any two. `Handle`, `Finish`, `HandlersFail`, `Ack` and `AckFails` are the ask
policy. `lost` and `handled` are history. With `"sync"` the policy's `len(results)`
raises (`Answered`), as it does in the code; see the findings.

### Lifecycle

`pc` of each call stops at every `await`. A lifespan is a generator of its own for each
run; `Anext` says what advancing it does in each of its states (the one of a lifespan
context that cannot be entered twice included), `Collect` that a generator nobody refers to any
more is closed. `sync` calls run one after the other (`Turn`). The consumer is `consuming`,
the flag of its queue, and one `puller` for each run that started it: `Consume` (AFTER_RUN)
sets the flag and starts it, `StopConsume` (BEFORE_STOP) clears the flag, which on asyncio
cancels the task too. A thread goes on with the batch it is reading (`GetBatch`) and looks at
the flag after that (`TestFlag`); `overtime` are those that got one from a stopped application.

### UnitOfWork

`Enter`, `Lock`, `Build`, `Load`, `Apply`, `Exit`, `Release` for each `with` block, of
tasks or of threads (`mode`). A task tests and sets `_in_context` at once; a thread may be
interrupted between the two (`Enter`, `SetContext`), so two of them can be let into a manager
that they share. Lock, builder and release may raise. `Exit` and `Release` are two steps, for
`__aexit__` clears `_in_context` before it awaits the locker. What is stored is the sequence of units it
comes from.

### PubSub

`buffer` is what the connection has got, `Unsubscribed` the confirmation among it. The
loop is `"listening"`, `"calling"` while it awaits a callback, `"broken"` when it is
outside of `listen`. A lost connection empties the buffer; the redis client either
connects again by itself and subscribes to all it has no confirmation for, or raises.
Both happen with the versions that `pyproject.toml` allows.

### Dispatch

Callers are the main program and the bodies of handlers. `fate` says what a handler is
to its message: `Passes` stands for its condition, `Loads` for the making of its
command. Commands run inline (sync) or in a task, events in the pool or in tasks that
are gathered. A caller in `waits` reads its results; one that is not goes on. `Init` lets
fewer handlers of the pool wait for the results of an event than the pool has threads:
with as many, the code does deadlock, for all of them may wait for handlers that no thread
is left to run. Whoever waits for a command needs no such bound, which `NoDeadlock` shows.

## 3. Runs

| run | bounds | shows |
|---|---|---|
| `event_store` | 3 commands (1 creates, 2 capture snapshots), 2 events per save, all four stores; on the event loop 3 attempts, elsewhere 1 | `NoUpdateLost`, `SnapshotsAreHistory`, `RehydrateSucceeds`, `EffectOnce`, the refinement `LogSpec`, `UpdatesSucceed` |
| `event_store_lost_update` | 2 commands, 1 event | violated: `SavedIsStored` in threads |
| `event_store_unsorted` | 2 commands, 2 events, unsorted scans | violated: `RehydrateSucceeds` |
| `datastore` | 3 handlers, a pool of 2, 2 rows, 3 releases (renamed in the second), 1 deployment | `TypeOK` (no connection is lost), `NoStall`, `ReadsWhatWasWritten` |
| `stream_group` | 2 consumers, 2 entries, batches of 2, 1 restart, 1 fault | `NothingForgotten`, `NotShared`, `DispatchedOnce`, the refinement `QueueSpec`, `EveryEntryDelivered` |
| `stream_group_sync_ack` | 1 entry, no fault | violated: `SuccessIsAcked` with SyncExecutor |
| `pubsub` | 3 messages, 2 lost connections, both transports | `InOrder`, `DeliveredWhileUp`, `LoopEnds` |
| `lifecycle` | 2 runs, 2 stops, 2 faults, both modes | `RunningInLifespan`, `StopReleases`, `PullsWhileRunning`, `StoppedOnceForGood`, `AcceptedStopStops` |
| `lifecycle_run_during_stop` | 2 runs, 1 stop, no fault | violated: `StoppedForGood` |
| `unit_of_work` | 3 units, tasks or threads, 2 managers, 2 faults | `ManagerIsMine`, `LocksComeBack`, the refinement `SerialSpec`, `UnitsEnd` |
| `dispatch` | 4 handlers three calls deep, 2 threads, 2 misfits, 1 cancellation | `NoDeadlock`, `AnswersAreTrue`, `EveryFitHandlerEnds` |
| `json_dict` | containers of 2 items (tuples of the caller 1), 3 objects made, 5 calls | `ItemsAreParsed`, `HashIsOfContent`, `AcceptedIffTree`, `FrozenForGood` |

Each passing run checks its module's `TypeOK` too.

Why the bounds are enough to be worth something: three commands are the least with
which a loser of one race meets the winner of another, and two events per save the least
with a middle of a batch. Two of the commands capture a snapshot for each of their events, one
up to version 2 and the other up to the end of the stream, so each rehydrates from snapshots
of the other that are older, newer or as new as it wants. Retries are checked on the event
loop, where three commands need three attempts; in the other stores each attempt meets every
interleaving of the others' steps, and a second one would repeat them at a cost of hours: what
`EffectOnce` says of retries there is proved and not run. Two consumers are
the least that can share an entry; two entries in batches of two give a full, a partial
and an empty batch, of the history and of new entries. Three handlers on two
connections give one that waits for the two others; three releases the least with a
step of an upcast chain to skip, and a class with an old and a new name. Two runs
and two stops give every pair of overlapping calls. Three units on two managers give a
shared manager and a stranger at the same lock. The call tree of `dispatch` is the least
in which a thread of the pool is blocked through an inline command, with one thread
left. Three objects are the least with a container in a container that a third one
shares; with the value of the Enum and the empty tuple there are five before any conversion. `MaxRestarts`, `MaxFaults` and the like bound how often something happens, not
when: it may be at any point. Most of the safety properties are proved for all
values of these bounds (section 4).
Deadlock is not checked in runs of systems that come to a rest: commands are done,
applications stopped, programs have made their calls.

### Fairness

`WF` stands for a scheduler that runs every ready task or thread and for listeners,
handlers and locks that come to an end. The only strong fairness is that of the lock in
`UnitOfWork`: a waiter gets it if it is free again and again, which the locker of the
application has to provide. Publishing, stopping, crashing, restarting and all faults are
never fair, except that a supervisor starts a consumer process that ended
(`StreamGroup!Life`). `Datastore` and `JsonDict` assume no fairness: a handler may hold
a connection for as long as it likes, and `NoStall` is the safety property that says who
keeps whom waiting. Where the code justifies no more, a property says what it does not
promise: `EveryEntryDelivered` lets an entry be lost with a reply until the restart,
`LoopEnds` excepts a loop whose client has subscribed again, `EveryFitHandlerEnds` a tree
in which a command was cancelled, `UnitsEnd` those behind a unit that was not built or whose
locker failed, `UpdatesSucceed` what comes after a refused snapshot.

### Findings

* `event_store_lost_update`: `InMemoryStore` in SyncExecutor's threads loses updates
  without an `OptimisticConcurrencyError` (`in_memory.py:26`).
* `event_store_unsorted`: `SELECT_EVENTS` has no `ORDER BY`, the docstring of
  `IEventStore.get_stream` promises one (`postgres.py:350`).
* `stream_group_sync_ack`: the sync `DefaultAskPolicy` takes `len` of a generator, so
  nothing is ever acknowledged (`ask_policy.py:36`).
* `lifecycle_run_during_stop`: `run_async` during `stop_async` leaves an application that
  is stopped and runs (`application.py:64`).

### What the code does not keep

Where no line of the repository promises otherwise, the model has what the code does, and the
properties say how far they reach:

* A save may fail on its snapshot after its events were stored (`postgres.py:217`), and its
  retry then records its effect again: `EffectOnce` excepts the commands in `clashed`.
* An exception that leaves the body of a loop over `get_stream` keeps a connection of the pool
  for as long as somebody has it; a reader that wants a second connection, or awaits on the
  event loop, keeps one too. When that is all of them, those who wait stall until a
  `PoolTimeout`: the third case of `NoStall`. One such reader does not stall a pool of two.
* An asyncio consumer whose application is stopped while `run_async` is in its AFTER_RUN
  listeners is started after it was stopped, and pulls on: `PullsWhileRunning` is about runs
  and stops that do not overlap.
* Two threads may pass the test of `_in_context` of one manager: `ManagerIsMine` then rests on
  the lock, and says of tasks alone that the second is refused. A builder that raises leaves
  lock and manager taken: `LocksComeBack` and `UnitsEnd` name that unit.
* `|=` and the mutable value of an Enum member change a frozen dict in place, and its hash
  stays: `ItemsAreParsed`, `FrozenForGood` and `HashIsOfContent` are about all others (`Sealed`).
* An unmarked message of a later release is upcast again at each load: excepted in
  `ReadsWhatWasWritten`.
* As many handlers that wait for events as the pool has threads do deadlock, and the caller
  of a cancelled command waits for ever: `NoDeadlock` and `EveryFitHandlerEnds` are about the
  rest.

## 4. Proofs

Eight modules prove, for every value of the constants that the named assumptions of the
models allow:

| module | theorems (property) |
|---|---|
| `EventStoreProofs` | `TypeCorrect`, `NoLostUpdate` (`NoUpdateLost`), `SnapshotsSound` (`SnapshotsAreHistory`), `ImplementsLog` (`LogSpec`), `RehydratingIsSafe` (`RehydrateSucceeds`), `SavesTakeEffectOnce` (`EffectOnce`) |
| `DatastoreProofs` | `NoConnectionIsLost` (`TypeOK`), `WaitingHasAReason` (`NoStall`), `ReleasesReadEachOther` (`ReadsWhatWasWritten`) |
| `DispatchProofs` | `DispatchTyped`, `NeverDeadlocked` (`NoDeadlock`), `AnswersStayTrue` (`AnswersAreTrue`) |
| `JsonDictProofs` | `JsonTyped`, `ItemsParsed` (`ItemsAreParsed`), `FrozenIsForGood` (`FrozenForGood`), `HashOfContent` (`HashIsOfContent`), `AcceptedTrees` (`AcceptedIffTree`) |
| `StreamGroupProofs` | `GroupTyped`, `NothingIsForgotten` (`NothingForgotten`), `WorkIsNotShared` (`NotShared`), `DispatchedAtMostOnce` (`DispatchedOnce`), `ImplementsQueue` (`QueueSpec`) |
| `PubSubProofs` | `PubSubTyped`, `HandledInOrder` (`InOrder`) |
| `LifecycleProofs` | `LifecycleTyped`, `PullsSafely` (`PullsWhileRunning`), `RunsInLifespan` (`RunningInLifespan`), `StopsRelease` (`StopReleases`), `StopsForGood` (`StoppedOnceForGood`) |
| `UnitOfWorkProofs` | `UnitsTyped`, `ManagersSound` (`ManagerIsMine`), `LocksReturned` (`LocksComeBack`), `ImplementsSerial` (`SerialSpec`) |

The only hypothesis beyond the models' assumptions is that of `RehydratingIsSafe`:
`ScanSorted`, or no Postgres store. Without it the run `event_store_unsorted` refutes the
property. None of the properties is inductive; what each proof adds is as follows.

**EventStore.** That a saved aggregate is in the stream says nothing of one in the middle
of a batch, or of one that still reads. For every store but threads `IInv` joins the types
and that a command which appends has an event to append (`TInv`), `DecidedOnHistory`,
`SnapshotsAgree`, and for each command `Held` (its state without its own unsaved events is
a prefix of the stream, and those events continue it), `Copied` (what it rehydrates, to load
or for a snapshot, is a prefix of it), `Clean` and `Current` (the rows it still has to apply
are events of the stream). The stream only grows, so what agrees
with a prefix goes on to do so; an insertion finds the first version of its batch free,
versions are dense, so that version is the length plus one and the basis is all of the
stream. In threads the test and the insertion are two steps and that argument fails, as
`event_store_lost_update` shows. What is left for every store is `LInv`: versions are dense
(`Dense`), each aggregate, copy and snapshot is `Behind` them, and the rows to apply are those
after the copy (`Ahead`). That is enough for
`Race` of the abstract log and for rehydrating never to meet a version out of turn.

**EffectOnce.** `EInv` says what a command has in the stream at each point: nothing before
its append, or else one interval which is the end of the stream while it appends (`Begun`)
and stays whole after it (`Complete`), through all that the command does for its snapshots. So
a conflict in the middle of a batch is impossible: the next version is the length plus one,
which nothing has. Of a command whose snapshot was refused nothing is claimed, and it cannot
spoil the claim of another, whose events it never replaces.

**Datastore.** `IInv` counts: as long as the pool is open, free connections and those of
the handlers are `PoolSize`, and a queue means that none is free (`Pooled`); `Holds` says
what a handler has at each point, between its calls and after it raised at most that of a
generator. Giving
back replaces those of the handler by those of the ones served (`Replaced`, `GivenBack`). Who
waits thus finds somebody with a connection, and that one works, or all of them are with generators
that are stuck (`Stuck`).

`ReadsWhatWasWritten` is about chains of upcasters of any length, so it takes induction:
`StepsUpgrade` shows by induction over the steps that a chain which begins at the form its
values have ends at the form of the release and spoils nothing (`Upgraded`), and that no chain
changes who wrote an event or its mark. `RowsStored` is the invariant: all rows are `Stored`,
of the form they say if they say one. That a mark is 0 or the release that wrote the row,
and never greater, is why a later release is refused by an earlier one.

**Dispatch.** `HandlersOfAssumption` says that a handler is one invocation, made by one call,
and `DepthAssumption` that the calls are a tree: a handler that calls `handle` makes new
invocations, so none is below itself (recursion of a handler into itself is two of them). It
bounds the depth by the number of handlers, which are finitely many (`HandlersAssumption`).
`IInv` says what each caller did (`Called`: only who called has tasks, which are handlers of its
message; only who wants results waits for events) and was told (`Told`), that a handler is
started by its caller and the main program by nobody (`Begun`), and that those who wait for a
thread are in the pool's queue, once each (`Pool`). `NoDeadlock` then follows in each state by
counting. Suppose that nobody can go on and someone waits. On asyncio the deepest of those that
wait (`Deepest`) waits for handlers of which none waits, so one of them can go on. In the pool, all who
wait are split in two ways: into those that wait for an event and those that wait for a command;
and into those on threads of the pool, those that are not, and the main program. The handler
of a command that is waited for is outside the pool and waits itself, and no two callers have the
same (`OneCaller`), so there are at least as many waiting handlers outside the pool as waiters for
commands, and thus no more waiting handlers in the pool than handlers that wait for an event,
which `Init` keeps below the number of threads: a thread is free (`ThreadIsFree`). Then
the first of the queue can start, or, if the queue is empty, the deepest of those that wait can go on.

Induction over data is had without its theorem: `Least` gives each set of numbers a least one,
from the well-foundedness of the subsets of a finite set in the library, and so a least
counterexample to what is claimed of all; `StepByStep` shows that a function which is defined by
its first value and a step exists, which is what a recursive definition needs to mean anything.
Recursive functions of `Datastore`, `Dispatch` and `JsonDict` are written so that these lemmas
apply, and the three modules about them begin with the same lemmas.

**JsonDict.** What a conversion does is shown by induction on its levels (`ParseSound`), and at
each level by induction on the items (`EachSound`): whatever it is given, its values are
text, the values of Enum members, the empty tuple or objects that it made, each object that it made is of a type it makes
and holds only older ones of these (`Sound`), and it leaves the heap as it was
(`GrownHeap`). `IInv` says of the heap that no dict has an object of the caller (`Clean`), and
that the frozen dicts are among objects that only `|=` can change and that hold, where it did
not, only such objects which are older, and the values of Enums (`Solid`): that a frozen dict
has no object of the caller is not enough, for an item of its items might be a list. If it
leads to no value of an Enum and to nothing that `|=` changed, all it leads to is `Pure`: it
cannot change at all. Steps keep these objects (`Grows`), so by induction on their age their
JSON is the same in both heaps (`DumpsSame`), and the one that was remembered is the one of the
content (`Remembered`), and with it the hash.

That a mapping is accepted exactly if it is a tree (`AcceptedTrees`) is shown in two
directions, each by the same two inductions. What an accepted conversion has marked is a tree
with its value as the root (`Tree`): each container is marked when it is entered, is in none of
the trees before it, and these hold only what is in them (`EachTrees`, `ParseTree`). All
that the mapping leads to is in that tree, so it has its one place there (`TreePlaced`). In
the other direction every marker but the first was found at a place that has been followed
(`Followed`), so what is found at a place that was not followed yet has no marker as long as
each object has one place (`EachFull`, `ParseFull`); and there are never more markers than
objects, so as many levels as there are objects are enough (`Enough`), which is what makes
the bounded recursion of the model that of the code.

**StreamGroup.** `IInv` is the types, `Delivered`, `NotShared` and for each consumer
`Unbegun`, `Fresh` (a reply is pending, its own, and later than all tasks), `Gapless` (a reply
of the history leaves nothing out between the tracker and its last entry), `Owned` (whose
task, whose entry; settled only after handling) and `Remembered`. The lemmas on batches say
that the smallest n ids of a set come before the others, so a tracker that moves to the last
of them passes nobody. A step of one consumer leaves what the others own alone (`Kept`,
`Left`, `OthersSound`). The refinement maps settled entries to those that are delivered and
not pending.

**PubSub.** `IInv` adds that what is buffered is later than what was handled, in order
(`Ordered`, `Ahead`), that an asyncio loop has one task open only while it awaits it
(`Awaited`), and `Unbegun`.

**Lifecycle.** `IInv` adds whose generator is whose (`Bookkeeping`), what one thread may
assume (`OneThread`: a thread that got a batch overtime is not in read again until the next
run), and what a run that is the only one knows of its lifespan
(`OnlyRun`), the part that breaks when a second run comes in.

**UnitOfWork.** `IInv` adds that a unit from building to releasing holds the lock
(`HoldersLock`), marks its manager if it is a task (`ManagersMarked`), finds itself in it (`HandsOutMine`), and
that what it read is still what is stored (`ReadsCurrent`), from which each change maps to
one `Change` of `SerialUnits`.

Only model-checked, out of the provers' reach: liveness under fairness (`UpdatesSucceed`,
`EveryEntryDelivered`, `AcceptedStopStops`, `UnitsEnd`,
`DeliveredWhileUp`, `LoopEnds`, `EveryFitHandlerEnds`) and anything with
ENABLED.

## 5. Not modelled

* The mutators that `JsonDict` inherits from `dict` except `|=` (`pop`, `popitem`, `del`,
  `clear`), and the simple value types of `types.py`.
* Ids, timestamps and pydantic's validation of a message's fields; whether the mark of a
  message survives when it is serialised anew by another release.
* Registration of handlers and modules, `include`, `set_defaults`: done before `run`; what a
  condition or converter computes, beyond whether the handler fits.
* The first creation of the dict of a stream by two threads (`in_memory.py:46`), the
  unique index on `created_at` (`postgres.py:320`), the conversion of single columns.
* An entry of Redis that cannot be decoded (`consumer.py:109`).
* Publishers as modules of the application, with their random `domain`.
* Delays of retries and which exceptions they are for.
* Interfaces (`abstractions.py`), logging, configuration, examples.

## 6. Plan

1. Done: all modules of section 2 with their runs; proofs of all safety properties that a
   passing run checks.
2. Composition of `Lifecycle` with the queue of `StreamGroup`: consumers started by a run
   whose application was stopped meanwhile.
3. Conditions (`condition.py`) as a recursive function for `Dispatch!Passes`; `include` and
   `set_defaults` before and during `run`.
4. The creation of a stream in `InMemoryStore`, and its refinement of `EventLog`, as a
   second stream variable in `EventStore`.
