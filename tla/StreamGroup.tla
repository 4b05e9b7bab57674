----------------------------- MODULE StreamGroup -----------------------------
(***************************************************************************)
(* The Redis stream group consumer                                         *)
(* (pyddd.infrastructure.transport.{sync,asyncio}.redis.stream_group) with *)
(* its queue, message consumer and ask policy, on one topic.               *)
(*                                                                         *)
(* Redis keeps the entries of the topic, the last one delivered to the     *)
(* group and, for each delivered and not acknowledged entry, the consumer  *)
(* that owns it.  Each consumer is a process: it binds the topic, polls it *)
(* and runs one task or thread per message, which builds the event, has    *)
(* the application handle it and acknowledges the entry.  A process may be *)
(* stopped or crash, and is started again under the same consumer name.    *)
(* Replies, acknowledgements and handlers may fail.                        *)
(***************************************************************************)
EXTENDS Naturals, Sequences, FiniteSets

CONSTANTS Consumers,     \* consumer names of the group
          Transports,    \* "async", "sync": which package the application uses
          MaxMessages,   \* BOUND: entries ever added to the topic
          BatchSize,     \* batch_size of the queue: entries per read
          MaxFaults,     \* BOUND: lost replies, failed acknowledgements and handlers
          MaxRestarts,   \* BOUND: stops and crashes
          New,           \* the id ">" of XREADGROUP
          Nobody         \* the owner of an entry that is not pending

ASSUME TransportsAssumption == Transports \subseteq {"async", "sync"}
ASSUME BoundsAssumption == /\ MaxMessages \in Nat /\ BatchSize \in Nat \ {0}
                           /\ MaxFaults \in Nat /\ MaxRestarts \in Nat
ASSUME ConstantsAssumption == New \notin Nat /\ Nobody \notin Consumers

VARIABLES
  \* Redis
  topic,        \* the entries: what will become of each when it is handled
  start,        \* id of the last entry when the group was created
  delivered,    \* id of the last entry delivered to the group
  owner,        \* pending entries: id -> consumer
  \* the processes
  transport,    \* never changes
  app,          \* the application of each consumer
  cursor,       \* its tracker: the last id it was given, or New
  poll,         \* its long pull loop
  reply,        \* ids in the reply it has not processed yet
  tasks,        \* what each consumer does with each entry since it was started
  \* history and budgets
  lost,         \* new entries whose reply got lost since the consumer started
  handled,      \* entries that some handler handled without an exception
  faults, restarts

redis == <<topic, start, delivered, owner>>
vars == <<topic, start, delivered, owner, transport, app, cursor, poll, reply,
          tasks, lost, handled, faults, restarts>>

Ids == 1..MaxMessages

\* "good"        some module has a handler for it
\* "unhandled"   no handler, or every condition rejects it
\* "unbuildable" the event factory raises on it
Kinds == {"good", "unhandled", "unbuildable"}

NoGroup == MaxMessages + 1
\* "over": the task has ended, be its entry acknowledged or left pending.
Phases == {"none", "called", "handling", "acking", "over"}

Added == Len(topic)
Grouped == start # NoGroup
Pending(k) == {i \in Ids : owner[i] = k}

TypeOK ==
  /\ topic \in Seq(Kinds) /\ Added <= MaxMessages
  /\ start \in 0..NoGroup
  /\ delivered \in 0..Added
  /\ owner \in [Ids -> Consumers \cup {Nobody}]
  /\ transport \in Transports
  /\ app \in [Consumers -> {"down", "bound", "running", "stopping", "stopped"}]
  /\ cursor \in [Consumers -> 0..MaxMessages \cup {New}]
  /\ poll \in [Consumers -> {"idle", "waiting", "replied"}]
  /\ reply \in [Consumers -> SUBSET Ids]
  /\ tasks \in [Consumers -> [Ids -> Phases]]
  /\ lost \in [Consumers -> SUBSET Ids]
  /\ handled \in SUBSET Ids
  /\ faults \in 0..MaxFaults
  /\ restarts \in 0..MaxRestarts

NoTasks == [i \in Ids |-> "none"]

Init ==
  /\ topic = <<>>
  /\ start = NoGroup
  /\ delivered = 0
  /\ owner = [i \in Ids |-> Nobody]
  /\ transport \in Transports
  /\ app = [k \in Consumers |-> "down"]
  /\ cursor = [k \in Consumers |-> 0]
  /\ poll = [k \in Consumers |-> "idle"]
  /\ reply = [k \in Consumers |-> {}]
  /\ tasks = [k \in Consumers |-> NoTasks]
  /\ lost = [k \in Consumers |-> {}]
  /\ handled = {}
  /\ faults = 0
  /\ restarts = 0

-----------------------------------------------------------------------------
(* The publisher and the life of a consumer process.                       *)

\* XADD by some publisher.
Publish ==
  /\ Added < MaxMessages
  /\ \E kind \in Kinds : topic' = Append(topic, kind)
  /\ UNCHANGED <<start, delivered, owner, transport, app, cursor, poll, reply,
                 tasks, lost, handled, faults, restarts>>

\* Defects: the tracker starts at ">"; every start creates the group anew.
BindAtNew(k) ==
  /\ app[k] = "down"
  /\ app' = [app EXCEPT ![k] = "bound"]
  /\ cursor' = [cursor EXCEPT ![k] = New]
  /\ IF Grouped THEN UNCHANGED <<start, delivered>>
                ELSE start' = Added /\ delivered' = Added
  /\ UNCHANGED <<topic, owner, transport, poll, reply, tasks, lost, handled,
                 faults, restarts>>
BindFresh(k) ==
  /\ app[k] = "down"
  /\ app' = [app EXCEPT ![k] = "bound"]
  /\ cursor' = [cursor EXCEPT ![k] = 0]
  /\ start' = 0 /\ delivered' = 0
  /\ UNCHANGED <<topic, owner, transport, poll, reply, tasks, lost, handled,
                 faults, restarts>>

\* BEFORE_RUN: a tracker at "0", and XGROUP CREATE from the end of the topic,
\* which fails quietly when the group exists.
Bind(k) ==
  /\ app[k] = "down"
  /\ app' = [app EXCEPT ![k] = "bound"]
  /\ cursor' = [cursor EXCEPT ![k] = 0]
  /\ IF Grouped THEN UNCHANGED <<start, delivered>>
                ELSE start' = Added /\ delivered' = Added
  /\ UNCHANGED <<topic, owner, transport, poll, reply, tasks, lost, handled,
                 faults, restarts>>

\* The application is running; AFTER_RUN starts the long pull loop.
Run(k) ==
  /\ app[k] = "bound"
  /\ app' = [app EXCEPT ![k] = "running"]
  /\ UNCHANGED <<redis, transport, cursor, poll, reply, tasks, lost, handled,
                 faults, restarts>>

\* BEFORE_STOP: the loop is told to end.  The asyncio queue cancels it, with the
\* reply it may be waiting for; a thread is left to itself.
BeginStop(k) ==
  /\ app[k] = "running" /\ restarts < MaxRestarts
  /\ app' = [app EXCEPT ![k] = "stopping"]
  /\ restarts' = restarts + 1
  /\ IF transport = "async"
       THEN /\ poll' = [poll EXCEPT ![k] = "idle"]
            /\ reply' = [reply EXCEPT ![k] = {}]
            /\ lost' = [lost EXCEPT ![k] = @ \cup reply[k]]
       ELSE UNCHANGED <<poll, reply, lost>>
  /\ UNCHANGED <<redis, transport, cursor, tasks, handled, faults>>

EndStop(k) ==
  /\ app[k] = "stopping"
  /\ app' = [app EXCEPT ![k] = "stopped"]
  /\ UNCHANGED <<redis, transport, cursor, poll, reply, tasks, lost, handled,
                 faults, restarts>>

\* Nothing in memory outlives the process; threads are daemons.
Forget(k) ==
  /\ app' = [app EXCEPT ![k] = "down"]
  /\ poll' = [poll EXCEPT ![k] = "idle"]
  /\ reply' = [reply EXCEPT ![k] = {}]
  /\ tasks' = [tasks EXCEPT ![k] = NoTasks]
  /\ lost' = [lost EXCEPT ![k] = {}]
  /\ UNCHANGED <<redis, transport, cursor, handled, faults>>

Exit(k) ==
  /\ app[k] = "stopped"
  /\ Forget(k)
  /\ UNCHANGED restarts

Crash(k) ==
  /\ app[k] \in {"bound", "running", "stopping"} /\ restarts < MaxRestarts
  /\ Forget(k)
  /\ restarts' = restarts + 1

-----------------------------------------------------------------------------
(* The long pull loop.                                                     *)

SendRead(k) ==
  /\ app[k] = "running" /\ poll[k] = "idle"
  /\ poll' = [poll EXCEPT ![k] = "waiting"]
  /\ UNCHANGED <<redis, transport, app, cursor, reply, tasks, lost, handled,
                 faults, restarts>>

\* The n smallest ids of a set.
Smallest(n, S) == {i \in S : Cardinality({j \in S : j < i}) < n}

\* XREADGROUP at an id: the consumer's own pending entries after it, at once.
ServeHistory(k) ==
  /\ poll[k] = "waiting" /\ cursor[k] # New
  /\ reply' = [reply EXCEPT ![k] =
                 Smallest(BatchSize, {i \in Pending(k) : i > cursor[k]})]
  /\ poll' = [poll EXCEPT ![k] = "replied"]
  /\ UNCHANGED <<redis, transport, app, cursor, tasks, lost, handled, faults,
                 restarts>>

\* XREADGROUP at ">": entries nobody was given, which become pending; it blocks
\* until there are any (block_ms = 0).
ServeNew(k) ==
  /\ poll[k] = "waiting" /\ cursor[k] = New /\ delivered < Added
  /\ LET batch == Smallest(BatchSize, (delivered + 1)..Added) IN
       /\ reply' = [reply EXCEPT ![k] = batch]
       /\ owner' = [i \in Ids |-> IF i \in batch THEN k ELSE owner[i]]
       /\ delivered' = delivered + Cardinality(batch)
  /\ poll' = [poll EXCEPT ![k] = "replied"]
  /\ UNCHANGED <<topic, start, transport, app, cursor, tasks, lost, handled,
                 faults, restarts>>

\* Defects: an empty batch starts over; the id after the last one is kept; the
\* first id of the batch is kept.
TrackedFromStart(batch) ==
  IF batch = {} THEN 0 ELSE CHOOSE i \in batch : \A j \in batch : j <= i
TrackedNext(batch) ==
  IF batch = {} THEN New ELSE 1 + CHOOSE i \in batch : \A j \in batch : j <= i
TrackedFirst(batch) ==
  IF batch = {} THEN New ELSE CHOOSE i \in batch : \A j \in batch : i <= j

\* track_most_recent_message: the last id of the batch, or ">" after an empty one.
Tracked(batch) == IF batch = {} THEN New ELSE CHOOSE i \in batch : \A j \in batch : j <= i

\* The rest of read, and a task or thread for each message of the batch.  A
\* thread does this even when the queue was stopped in the meantime.
Receive(k) ==
  /\ poll[k] = "replied"
  /\ cursor' = [cursor EXCEPT ![k] = Tracked(reply[k])]
  /\ tasks' = [tasks EXCEPT ![k] =
                 [i \in Ids |-> IF i \in reply[k] THEN "called" ELSE @[i]]]
  /\ reply' = [reply EXCEPT ![k] = {}]
  /\ poll' = [poll EXCEPT ![k] = "idle"]
  /\ UNCHANGED <<redis, transport, app, lost, handled, faults, restarts>>

\* A connection error while waiting for the reply: logged, and read again from
\* the same cursor.
LoseReply(k) ==
  /\ poll[k] \in {"waiting", "replied"} /\ faults < MaxFaults
  /\ lost' = [lost EXCEPT ![k] = IF cursor[k] = New THEN @ \cup reply[k] ELSE @]
  /\ reply' = [reply EXCEPT ![k] = {}]
  /\ poll' = [poll EXCEPT ![k] = "idle"]
  /\ faults' = faults + 1
  /\ UNCHANGED <<redis, transport, app, cursor, tasks, handled, restarts>>

-----------------------------------------------------------------------------
(* The ask policy, in a task or thread of its own for each message.        *)

IsRunning(k) == app[k] \in {"running", "stopping"}

Phase(k, i, phase) == tasks' = [tasks EXCEPT ![k][i] = phase]

\* Build the event and hand it to the application.  An event that can't be built
\* is rejected without requeue; an application that is not running raises.
Handle(k, i) ==
  /\ tasks[k][i] = "called"
  /\ Phase(k, i, CASE topic[i] = "unbuildable" -> "acking"
                   [] topic[i] # "unbuildable" /\ IsRunning(k) -> "handling"
                   [] OTHER -> "over")
  /\ UNCHANGED <<redis, transport, app, cursor, poll, reply, lost, handled,
                 faults, restarts>>

\* What the ask policy does with results of which some, or none at all, came from
\* a handler that returned.  The results of the SyncExecutor are a generator: its
\* len raises, and the policy only logs the exception; the handlers run to their
\* end in the pool of the executor.
Answered == IF transport = "sync" THEN "over" ELSE "acking"

Finish(k, i) ==
  /\ tasks[k][i] = "handling"
  /\ handled' = IF topic[i] = "good" THEN handled \cup {i} ELSE handled
  /\ Phase(k, i, Answered)
  /\ UNCHANGED <<redis, transport, app, cursor, poll, reply, lost, faults, restarts>>

\* Defect: a message all of whose handlers raised is acknowledged.
HandlersFailAcked(k, i) ==
  /\ tasks[k][i] = "handling" /\ topic[i] = "good" /\ faults < MaxFaults
  /\ Phase(k, i, "acking")
  /\ faults' = faults + 1
  /\ UNCHANGED <<redis, transport, app, cursor, poll, reply, lost, handled, restarts>>

\* Every handler raised: reject(requeue=True), which sends nothing to Redis.
HandlersFail(k, i) ==
  /\ tasks[k][i] = "handling" /\ topic[i] = "good" /\ faults < MaxFaults
  /\ Phase(k, i, "over")
  /\ faults' = faults + 1
  /\ UNCHANGED <<redis, transport, app, cursor, poll, reply, lost, handled, restarts>>

\* XACK, of ack() and of reject(requeue=False).
Ack(k, i) ==
  /\ tasks[k][i] = "acking"
  /\ owner' = [owner EXCEPT ![i] = Nobody]
  /\ Phase(k, i, "over")
  /\ UNCHANGED <<topic, start, delivered, transport, app, cursor, poll, reply,
                 lost, handled, faults, restarts>>

\* The connection breaks before or after Redis gets the XACK: logged.
AckFails(k, i) ==
  /\ tasks[k][i] = "acking" /\ faults < MaxFaults
  /\ \/ UNCHANGED owner
     \/ owner' = [owner EXCEPT ![i] = Nobody]
  /\ Phase(k, i, "over")
  /\ faults' = faults + 1
  /\ UNCHANGED <<topic, start, delivered, transport, app, cursor, poll, reply,
                 lost, handled, restarts>>

-----------------------------------------------------------------------------
Loop(k) == SendRead(k) \/ ServeHistory(k) \/ ServeNew(k) \/ Receive(k)
Task(k, i) == Handle(k, i) \/ Finish(k, i) \/ Ack(k, i)
Life(k) == Bind(k) \/ Run(k) \/ EndStop(k) \/ Exit(k)
Fault(k, i) == HandlersFail(k, i) \/ AckFails(k, i)

Next ==
  \/ Publish
  \/ \E k \in Consumers : \/ Life(k) \/ BeginStop(k) \/ Crash(k)
                          \/ Loop(k) \/ LoseReply(k)
  \/ \E k \in Consumers, i \in Ids : Task(k, i) \/ Fault(k, i)

Spec == Init /\ [][Next]_vars

\* The event loop, or the scheduler of the threads, keeps each process going and
\* runs its tasks while there are any; Redis answers; a supervisor starts a process
\* that has ended again.  Nothing makes publishers publish, processes stop or
\* faults happen.
Fairness ==
  \A k \in Consumers : /\ WF_vars(Loop(k) \/ Life(k))
                       /\ WF_vars(\E i \in Ids : Task(k, i))

FairSpec == Spec /\ Fairness

-----------------------------------------------------------------------------
(* Properties.                                                             *)

\* At least once: no crash, lost reply, failed handler or stop, and no two consumers
\* together, let an entry leave the pending entries before a handler handled it,
\* unless no handler wants it or it can't be built; and none is handled again after
\* that (DefaultAskPolicy, _ask, XREADGROUP from the tracker).
Abstract ==
  INSTANCE Queue WITH
    Wanted <- {"good"},
    entries <- topic,
    open <- Grouped,
    given <- delivered,
    settled <- {i \in 1..delivered : owner[i] = Nobody}

QueueSpec == Abstract!Spec

\* Every pending entry of a consumer that is up has been given to a task, is in a
\* reply, was lost with one, or is still ahead of the tracker, which moves to ">"
\* only when nothing is (GroupStreamHandler.read, RedisStreamTrackerStrategy).
NothingForgotten ==
  \A k \in Consumers : app[k] # "down" =>
    \A i \in Pending(k) :
      \/ tasks[k][i] # "none"
      \/ i \in reply[k] \cup lost[k]
      \/ cursor[k] # New /\ i > cursor[k]

\* One process never runs a message twice: history reads after a batch of new
\* entries don't hand out what tasks are still working on (read, _long_pull).
DispatchedOnce ==
  [][\A k \in Consumers, i \in Ids :
       tasks[k][i] # "none" => tasks'[k][i] # "called" \/ tasks[k][i] = "called"]_vars

\* Two consumers of the group never work on the same entry, even when one of them
\* is started again under its name while the other goes on (bind, _read_message).
NotShared ==
  \A i \in Ids : \A k, l \in Consumers :
    tasks[k][i] # "none" /\ tasks[l][i] # "none" => k = l

\* A message whose handlers succeeded is acknowledged when its task is over
\* (where acknowledging does not fail).
SuccessIsAcked ==
  \A k \in Consumers, i \in Ids :
    tasks[k][i] = "over" /\ i \in handled => owner[i] # k

Settled(i) == i <= delivered /\ owner[i] = Nobody

\* Every entry added since the group exists is settled, or its task ended without
\* acknowledging it, or it was lost with a reply: neither backlog nor new entries
\* wait for ever, whatever restarts there were.
EveryEntryDelivered ==
  \A i \in Ids :
    (Grouped /\ i > start /\ i <= Added) ~>
      \/ Settled(i)
      \/ \E k \in Consumers : tasks[k][i] = "over" \/ i \in lost[k]

=============================================================================
