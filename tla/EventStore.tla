----------------------------- MODULE EventStore -----------------------------
(***************************************************************************)
(* Event sourced aggregates (pyddd.domain.event_sourcing) over an event    *)
(* and snapshot store (pyddd.infrastructure.persistence.event_store).      *)
(*                                                                         *)
(* Several commands run against ONE stream.  Each rehydrates the aggregate *)
(* (last snapshot, then the events after it), raises events on it, appends *)
(* them with their versions as the optimistic lock, and then captures a    *)
(* snapshot for some of them: it rehydrates once more, up to a version,    *)
(* and adds what comes out.  A command that fails is run again from the    *)
(* start while its retry strategy allows it.  Streams of different names   *)
(* share nothing.                                                          *)
(*                                                                         *)
(* The data of an aggregate is the sequence of commands whose events it    *)
(* has applied: two states are equal when they come from the same events.  *)
(***************************************************************************)
EXTENDS Naturals, Sequences, FiniteSets

CONSTANTS Commands,     \* commands, each handled by a task or thread of its own
          Creators,     \* those that create the aggregate instead of loading it
          Stores,       \* the stores the application may be configured with
          MaxBatch,     \* BOUND: events one command raises before it saves
          MaxTries,     \* attempts of the retry strategy (1 when there is none),
                        \* by the store of the application
          ClassVersions, \* by command, the versions of the classes of its events
          Interval,     \* the snapshot interval of the repository
          ScanSorted    \* does the table scan of Postgres follow the primary key?

ASSUME CommandsAssumption == IsFiniteSet(Commands) /\ Creators \subseteq Commands

ASSUME BoundsAssumption == /\ MaxBatch \in Nat \ {0}
                           /\ MaxTries \in [Stores -> Nat \ {0}]
                           /\ ClassVersions \in [Commands -> SUBSET (Nat \ {0})]
                           /\ Interval \in Nat \ {0}
                           /\ ScanSorted \in BOOLEAN

\* "loop"     InMemoryStore called from one thread (AsyncExecutor): no other
\*            code runs while append_to_stream runs.
\* "threads"  InMemoryStore called from the pool of SyncExecutor: a thread
\*            switch may fall between the test of a version and its insertion.
\* "postgres" PostgresEventStore whose executemany is one implicit transaction
\*            (pipeline mode).
\* "rows"     PostgresEventStore without pipeline mode: the connection is in
\*            autocommit mode, so each INSERT commits by itself.
ASSUME StoresAssumption == Stores \subseteq {"loop", "threads", "postgres", "rows"}

VARIABLES store,        \* the store in use; never changes
          stream,       \* the events of the stream in insertion order
          snapshots,    \* its snapshots in insertion order
          pc,           \* where each command is
          entity,       \* the aggregate each command holds
          copy,         \* the aggregate each command is rehydrating
          rows,         \* events read and not yet applied: position -> event
          events,       \* events raised and not yet in the stream
          captures,     \* the versions up to which it has yet to take a snapshot
          tries,        \* attempts begun
          clashed       \* history: commands whose snapshot was refused

vars == <<store, stream, snapshots, pc, entity, copy, rows, events, captures,
          tries, clashed>>

\* Only the threads of SyncExecutor's pool get between a test and an insertion.
Threaded == store = "threads"

Log == INSTANCE EventLog WITH log <- stream, exclusive <- ~Threaded

Version == Log!Version
Event == Log!Event
History(s, n) == Log!History(s, n)

Aggregate == [version : Nat, state : Seq(Commands)]

\* Account(__reference__=...) before any event: version 0, nothing applied.
Blank == [version |-> 0, state |-> <<>>]

PCs == {"idle", "found", "replaying", "live", "appending", "tested", "saved",
        "done", "failed", "corrupt"}

TypeOK ==
  /\ store \in Stores
  /\ stream \in Seq(Event)
  /\ snapshots \in Seq(Aggregate)
  /\ pc \in [Commands -> PCs]
  /\ entity \in [Commands -> Aggregate]
  /\ copy \in [Commands -> Aggregate]
  /\ DOMAIN rows = Commands
  /\ \A c \in Commands : \A i \in DOMAIN rows[c] : rows[c][i] \in Event
  /\ events \in [Commands -> Seq(Event)]
  /\ captures \in [Commands -> Seq(Nat)]
  /\ tries \in [Commands -> 1..MaxTries[store]]
  /\ clashed \subseteq Commands

Init ==
  /\ store \in Stores
  /\ stream = <<>>
  /\ snapshots = <<>>
  /\ pc = [c \in Commands |-> "idle"]
  /\ entity = [c \in Commands |-> Blank]
  /\ copy = [c \in Commands |-> Blank]
  /\ rows = [c \in Commands |-> <<>>]
  /\ events = [c \in Commands |-> <<>>]
  /\ captures = [c \in Commands |-> <<>>]
  /\ tries = [c \in Commands |-> 1]
  /\ clashed = {}

-----------------------------------------------------------------------------
(* The store.                                                              *)

Postgres == store \in {"postgres", "rows"}

\* Nobody else runs between the events of one append in these stores.
AppendsWhole == store \in {"loop", "postgres"}

\* Defect: an append gives way between two of its events.
TurnAlways(c) == TRUE

Turn(c) ==
  AppendsWhole => \A d \in Commands \ {c} : pc[d] \notin {"appending", "tested"}

\* Defect: the version is compared with the last event only.
StoredLast(v) == stream # <<>> /\ stream[Len(stream)].version = v

Stored(v) == \E i \in DOMAIN stream : stream[i].version = v

\* SELECT ... ORDER BY version DESC LIMIT 1, or the end of the Python list.
IsLast(i) ==
  IF Postgres
    THEN \A j \in DOMAIN snapshots : snapshots[j].version <= snapshots[i].version
    ELSE i = Len(snapshots)

LastSnapshots ==
  IF snapshots = <<>> THEN {Blank}
  ELSE {snapshots[i] : i \in {j \in DOMAIN snapshots : IsLast(j)}}

\* A save whose events are stored and which is not done with its snapshots.  The
\* first of the captures is the one it is rehydrating for, or has failed in.
Capturing(c) == pc[c] \in {"found", "replaying", "corrupt"} /\ captures[c] # <<>>

\* get_stream(name, from_version, to_version), up to sys.maxsize to load and up to
\* the version of the capture otherwise: the list of events is taken now, whatever
\* is done to the stream afterwards.
EventsFrom(c, from) ==
  LET Within(e) == /\ e.version >= from
                   /\ Capturing(c) => e.version <= Head(captures[c])
  IN  [i \in {j \in DOMAIN stream : Within(stream[j])} |-> stream[i]]

\* The order in which get_stream hands the events out.  The SELECT of the
\* Postgres store has no ORDER BY.
IsNextRow(i, R) == (~Postgres \/ ScanSorted) => \A j \in DOMAIN R : i <= j

\* Defect: the stream is a list instead of a dict keyed by version.
PutAtEnd(e) == stream' = Append(stream, e)

\* stream[version] = event: a new key goes to the end of the dict, an old one
\* keeps its place and loses its value.
Put(e) ==
  stream' = IF Stored(e.version)
              THEN [i \in DOMAIN stream |->
                      IF stream[i].version = e.version THEN e ELSE stream[i]]
              ELSE Append(stream, e)

-----------------------------------------------------------------------------
(* The aggregate and its repository.                                       *)

\* DomainEvent.mutate: the assertion on the version, apply, increment_version.
Follows(e, a) == e.version = a.version + 1
Mutated(a, e) == [version |-> a.version + 1, state |-> Append(a.state, e.command)]

\* save will capture a snapshot for an event if the version of the event's class,
\* not of the aggregate, divides by the interval: up to that version.
Captured(s, k) == IF k % Interval = 0 THEN Append(s, k) ELSE s

\* RootEntity._create: the creation event has version 1, whatever is stored.
Create(c) ==
  /\ Turn(c)
  /\ pc[c] = "idle" /\ c \in Creators
  /\ LET created == [version |-> 1, command |-> c, basis |-> <<>>] IN
       /\ entity' = [entity EXCEPT ![c] = Mutated(Blank, created)]
       /\ events' = [events EXCEPT ![c] = <<created>>]
  /\ \E k \in ClassVersions[c] : captures' = [captures EXCEPT ![c] = Captured(<<>>, k)]
  /\ pc' = [pc EXCEPT ![c] = "live"]
  /\ UNCHANGED <<store, stream, snapshots, copy, rows, tries, clashed>>

\* _rehydrate begins, in find_by or, after the append, for a snapshot.
ReadSnapshot(c) ==
  /\ Turn(c)
  /\ \/ pc[c] = "idle" /\ c \notin Creators
     \/ pc[c] = "saved" /\ captures[c] # <<>>
  /\ \E snapshot \in LastSnapshots : copy' = [copy EXCEPT ![c] = snapshot]
  /\ pc' = [pc EXCEPT ![c] = "found"]
  /\ UNCHANGED <<store, stream, snapshots, entity, rows, events, captures, tries, clashed>>

\* Defect: rehydrating rereads the event that the snapshot already holds.
ReadStreamAgain(c) ==
  /\ Turn(c)
  /\ pc[c] = "found"
  /\ rows' = [rows EXCEPT ![c] = EventsFrom(c, copy[c].version)]
  /\ pc' = [pc EXCEPT ![c] = "replaying"]
  /\ UNCHANGED <<store, stream, snapshots, entity, copy, events, captures, tries, clashed>>

ReadStream(c) ==
  /\ Turn(c)
  /\ pc[c] = "found"
  /\ rows' = [rows EXCEPT ![c] = EventsFrom(c, copy[c].version + 1)]
  /\ pc' = [pc EXCEPT ![c] = "replaying"]
  /\ UNCHANGED <<store, stream, snapshots, entity, copy, events, captures, tries, clashed>>

\* Another thread inserts while get_stream iterates over stream.items():
\* RuntimeError, dictionary changed size during iteration.
ReadStreamBroken(c) ==
  /\ Threaded
  /\ pc[c] = "found"
  /\ \E d \in Commands \ {c} : pc[d] \in {"appending", "tested"}
  /\ pc' = [pc EXCEPT ![c] = "failed"]
  /\ UNCHANGED <<store, stream, snapshots, entity, copy, rows, events, captures, tries, clashed>>

\* One turn of: for event in events: entity = event.mutate(entity).
Mutate(c) ==
  /\ Turn(c)
  /\ pc[c] = "replaying" /\ DOMAIN rows[c] # {}
  /\ \E i \in DOMAIN rows[c] :
       /\ IsNextRow(i, rows[c])
       /\ IF Follows(rows[c][i], copy[c])
            THEN /\ copy' = [copy EXCEPT ![c] = Mutated(@, rows[c][i])]
                 /\ rows' = [rows EXCEPT ![c] = [j \in DOMAIN @ \ {i} |-> @[j]]]
                 /\ UNCHANGED pc
            ELSE /\ pc' = [pc EXCEPT ![c] = "corrupt"]     \* AssertionError
                 /\ UNCHANGED <<copy, rows>>
  /\ UNCHANGED <<store, stream, snapshots, entity, events, captures, tries, clashed>>

\* find_by returns the aggregate to the handler.
Rehydrated(c) ==
  /\ Turn(c)
  /\ pc[c] = "replaying" /\ DOMAIN rows[c] = {} /\ captures[c] = <<>>
  /\ entity' = [entity EXCEPT ![c] = copy[c]]
  /\ pc' = [pc EXCEPT ![c] = "live"]
  /\ UNCHANGED <<store, stream, snapshots, copy, rows, events, captures, tries, clashed>>

\* RootEntity.trigger_event: build the event, mutate the entity, register it.
TriggerEvent(c) ==
  /\ Turn(c)
  /\ pc[c] = "live" /\ Len(events[c]) < MaxBatch
  /\ LET event == [version |-> entity[c].version + 1,
                   command |-> c,
                   basis   |-> entity[c].state] IN
       /\ entity' = [entity EXCEPT ![c] = Mutated(@, event)]
       /\ events' = [events EXCEPT ![c] = Append(@, event)]
  /\ \E k \in ClassVersions[c] : captures' = [captures EXCEPT ![c] = Captured(@, k)]
  /\ UNCHANGED <<store, stream, snapshots, pc, copy, rows, tries, clashed>>

\* repository.save: collect_events, then append_to_stream begins.
Save(c) ==
  /\ Turn(c)
  /\ pc[c] = "live" /\ events[c] # <<>>
  /\ pc' = [pc EXCEPT ![c] = "appending"]
  /\ UNCHANGED <<store, stream, snapshots, entity, copy, rows, events, captures, tries, clashed>>

\* The version of the next event is in the stream: OptimisticConcurrencyError.
\* The events already inserted stay, the others are lost with the entity.
Conflict(c) ==
  /\ Turn(c)
  /\ pc[c] = "appending" /\ Stored(Head(events[c]).version)
  /\ pc' = [pc EXCEPT ![c] = "failed"]
  /\ UNCHANGED <<store, stream, snapshots, entity, copy, rows, events, captures, tries, clashed>>

\* The test of one event and its insertion: one step of the loop of
\* append_to_stream, or one INSERT that the primary key checks.
Insert(c) ==
  /\ Turn(c)
  /\ pc[c] = IF Threaded THEN "tested" ELSE "appending"
  /\ Threaded \/ ~Stored(Head(events[c]).version)
  /\ Put(Head(events[c]))
  /\ events' = [events EXCEPT ![c] = Tail(@)]
  /\ pc' = [pc EXCEPT ![c] = IF Len(events[c]) = 1 THEN "saved" ELSE "appending"]
  /\ UNCHANGED <<store, snapshots, entity, copy, rows, captures, tries, clashed>>

\* A thread that found its version free and is switched out before it inserts.
Test(c) ==
  /\ Threaded
  /\ pc[c] = "appending" /\ ~Stored(Head(events[c]).version)
  /\ pc' = [pc EXCEPT ![c] = "tested"]
  /\ UNCHANGED <<store, stream, snapshots, entity, copy, rows, events, captures, tries, clashed>>

\* Defect: the snapshot has the version that it was to be taken of.
AddSnapshotAsked(c) ==
  /\ Turn(c)
  /\ pc[c] = "replaying" /\ DOMAIN rows[c] = {} /\ captures[c] # <<>>
  /\ snapshots' = Append(snapshots, [copy[c] EXCEPT !.version = Head(captures[c])])
  /\ captures' = [captures EXCEPT ![c] = Tail(@)]
  /\ pc' = [pc EXCEPT ![c] = "saved"]
  /\ UNCHANGED <<store, stream, entity, copy, rows, events, tries, clashed>>

\* add_snapshot of the aggregate that was rehydrated for it.  The key of the table
\* of Postgres is (stream_id, version): a second snapshot of a version is refused
\* with UniqueViolation, though the events of the save are stored.
AddSnapshot(c) ==
  /\ Turn(c)
  /\ pc[c] = "replaying" /\ DOMAIN rows[c] = {} /\ captures[c] # <<>>
  /\ IF Postgres /\ \E i \in DOMAIN snapshots : snapshots[i].version = copy[c].version
       THEN /\ pc' = [pc EXCEPT ![c] = "failed"]
            /\ clashed' = clashed \cup {c}
            /\ UNCHANGED <<snapshots, captures>>
       ELSE /\ snapshots' = Append(snapshots, copy[c])
            /\ captures' = [captures EXCEPT ![c] = Tail(@)]
            /\ pc' = [pc EXCEPT ![c] = "saved"]
            /\ UNCHANGED clashed
  /\ UNCHANGED <<store, stream, entity, copy, rows, events, tries>>

\* No event is left to capture a snapshot for: save returns.
Finish(c) ==
  /\ Turn(c)
  /\ pc[c] = "saved" /\ captures[c] = <<>>
  /\ pc' = [pc EXCEPT ![c] = "done"]
  /\ UNCHANGED <<store, stream, snapshots, entity, copy, rows, events, captures, tries, clashed>>

\* What the retry strategy runs again starts without anything of its last attempt.
Anew(c) ==
  /\ entity' = [entity EXCEPT ![c] = Blank]
  /\ copy' = [copy EXCEPT ![c] = Blank]
  /\ rows' = [rows EXCEPT ![c] = <<>>]
  /\ events' = [events EXCEPT ![c] = <<>>]
  /\ captures' = [captures EXCEPT ![c] = <<>>]
  /\ UNCHANGED <<store, stream, snapshots, clashed>>

\* Defects: the attempts are not bounded; only the save is tried again.
RetryUnbounded(c) ==
  /\ pc[c] = "failed"
  /\ tries' = [tries EXCEPT ![c] = @ + 1]
  /\ pc' = [pc EXCEPT ![c] = "idle"]
  /\ Anew(c)
RetrySaveOnly(c) ==
  /\ pc[c] = "failed" /\ events[c] # <<>> /\ tries[c] < MaxTries[store]
  /\ tries' = [tries EXCEPT ![c] = @ + 1]
  /\ pc' = [pc EXCEPT ![c] = "appending"]
  /\ UNCHANGED <<store, stream, snapshots, entity, copy, rows, events, captures, clashed>>

\* The retry strategy runs the handler again: it loads the aggregate anew.
Retry(c) ==
  /\ pc[c] = "failed" /\ tries[c] < MaxTries[store]
  /\ tries' = [tries EXCEPT ![c] = @ + 1]
  /\ pc' = [pc EXCEPT ![c] = "idle"]
  /\ Anew(c)

Step(c) ==
  \/ Create(c) \/ ReadSnapshot(c) \/ ReadStream(c) \/ ReadStreamBroken(c)
  \/ Mutate(c) \/ Rehydrated(c) \/ TriggerEvent(c) \/ Save(c)
  \/ Conflict(c) \/ Test(c) \/ Insert(c)
  \/ AddSnapshot(c) \/ Finish(c) \/ Retry(c)

Next == \E c \in Commands : Step(c)

Spec == Init /\ [][Next]_vars

\* Every command is run by a task or thread that the scheduler keeps running.
FairSpec == Spec /\ \A c \in Commands : WF_vars(Step(c))

-----------------------------------------------------------------------------
(* Properties.                                                             *)

EventsOf(c) == {i \in DOMAIN stream : stream[i].command = c}

\* Its append returned, and nothing has failed since.
Appended(c) == pc[c] \in {"saved", "done"} \/ Capturing(c)

\* The version of an event is the optimistic lock of the aggregate: the n-th
\* event of the stream has version n and was decided on exactly the n - 1 events
\* before it (append_to_stream, trigger_event).
DecidedOnHistory ==
  \A i \in DOMAIN stream :
    /\ stream[i].version = i
    /\ stream[i].basis = History(stream, i - 1)

\* An aggregate whose append returned is what its stream rehydrates to, now and for
\* ever: everything the command decided is there, on top of everything it saw, and
\* no other save has come in between or replaced it (save, append_to_stream,
\* OptimisticConcurrencyError).
SavedIsStored ==
  \A c \in Commands :
    Appended(c) =>
      /\ entity[c].version <= Len(stream)
      /\ entity[c].state = History(stream, entity[c].version)

\* No lost update in any store but the in-memory one under threads.
NoUpdateLost == ~Threaded => SavedIsStored

\* Whatever others append and snapshot while a saver rehydrates for its snapshot, and
\* in whatever order snapshots are added, each is what the first events of the stream
\* make of the aggregate, so rehydrating from any of them gives the same aggregate
\* (_capture_snapshot, _rehydrate, snapshot, add_snapshot, from_snapshot).
SnapshotsAreHistory ==
  ~Threaded =>
    \A i \in DOMAIN snapshots :
      /\ snapshots[i].version <= Len(stream)
      /\ snapshots[i].state = History(stream, snapshots[i].version)

\* Rehydrating never meets an event whose version is not the next one: the
\* assertion of DomainEvent.mutate holds, although snapshot and events are read
\* in two calls that others' appends and snapshots come between, and although
\* threads overwrite each other's events.
RehydrateSucceeds == \A c \in Commands : pc[c] # "corrupt"

\* Where an append is not interleaved with others, a save is all or nothing though
\* append_to_stream undoes nothing: a command that did not save has no event in
\* the stream, and one that saved, at whatever attempt, has one batch there.  The
\* one exception is a command whose snapshot was refused after its append.
EffectOnce ==
  AppendsWhole =>
    \A c \in Commands \ clashed :
      CASE Appended(c) -> Cardinality(EventsOf(c)) \in 1..MaxBatch
        [] pc[c] \in {"appending", "tested"} -> TRUE
        [] OTHER -> EventsOf(c) = {}

\* Every store implements the abstract event log: the stream only grows, each event
\* decided on all before it, and under threads, where events may replace each
\* other, its versions still have no gap.
LogSpec == Log!Spec

\* As long as no snapshot is refused, a conflict means that another command saved.
\* So where an append is not interleaved with others, as many attempts as there are
\* commands are enough for every command that loads the aggregate.
UpdatesSucceed ==
  (AppendsWhole /\ MaxTries[store] >= Cardinality(Commands)) =>
    \A c \in Commands \ Creators : <>(pc[c] = "done" \/ clashed # {})

=============================================================================
