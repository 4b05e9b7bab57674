----------------------------- MODULE Datastore -----------------------------
(***************************************************************************)
(* Handlers that share one PostgresDatastore                               *)
(* (pyddd.infrastructure.persistence.event_store.postgres), and the        *)
(* messages in its table as later releases of their class load them        *)
(* (pyddd.domain.message).                                                 *)
(*                                                                         *)
(* Every call of a store takes a connection of the pool for as long as it  *)
(* lasts; get_stream is a generator, which lasts until it is through,      *)
(* fails or is dropped with the handler that reads it.  An exception that  *)
(* leaves the handler in the middle of a stream keeps the generator, by    *)
(* the frames of its traceback, until it is itself collected: executors    *)
(* hand it on to the caller, as a result or raised again.  The pool        *)
(* (psycopg_pool) serves those who wait in the order they came in, and     *)
(* raises PoolTimeout when one waited for too long.  Handlers run in       *)
(* threads of their own, or as the tasks of one event loop, which a call   *)
(* that waits for a connection blocks.                                     *)
(***************************************************************************)
EXTENDS Naturals, Sequences, FiniteSets, SequencesExt

CONSTANTS Handlers,
          Modes,          \* "threads", "loop"
          PoolSize,       \* pool_size + max_overflow
          Latest,         \* releases of the message class; that of version v is release v
          Renamed,        \* the first of them in which the class has its present name
          MaxRows,        \* BOUND: events written
          MaxRestarts     \* BOUND: deployments

ASSUME HandlersAssumption == IsFiniteSet(Handlers)
ASSUME ModesAssumption == Modes \subseteq {"threads", "loop"}
ASSUME BoundsAssumption ==
  /\ {PoolSize, Latest, Renamed} \subseteq Nat \ {0}
  /\ {MaxRows, MaxRestarts} \subseteq Nat

VARIABLES mode,       \* never changes
          release,    \* of the class in the process that runs
          rows,       \* the events of the table
          free,       \* connections in the pool
          queue,      \* handlers that wait for one
          closed,     \* is the pool closed?
          status,     \* of each handler
          call,       \* the call that it waits with, or that uses its connection
          held,       \* its calls that have a connection; of a handler that
                      \* raised, the call that its exception keeps
          todo,       \* rows that its generator did not load yet
          restarts

vars == <<mode, release, rows, free, queue, closed, status, call, held, todo, restarts>>
pool == <<free, queue, status, held>>
unchanging == <<mode, release, rows, closed, restarts>>

Releases == 1..Latest
Calls == {"stream", "statement"}
Active == {"running", "waiting", "using"}
Ended == {"returned", "raised"}

-----------------------------------------------------------------------------
(* Messages: the form is the version of the class whose fields the values     *)
(* have; the mark is their class_version, 0 if there is none; an upcaster that *)
(* gets another form than its own spoils the values.                          *)

\* upcast_v<k>_v<k+1> of the class
Step(values, k) ==
  [values EXCEPT !.form = k + 1, !.spoiled = @ \/ values.form # k]

\* The upcasters from version first up to r, one after the other.
Steps(values, first, r) ==
  LET after[n \in 0..(r - first)] ==
        IF n = 0 THEN values ELSE Step(after[n - 1], first + n - 1)
  IN after[r - first]

\* Defect: the mark is taken for the last step that was done.
UpcastAgain(values, r) ==
  LET first == IF values.mark \in {0, 1} THEN 1 ELSE values.mark - 1
  IN IF first > r THEN {} ELSE {Steps(values, first, r)}

\* The validator upcast in release r: what the values become, or nothing if it raises.
\* A class has the upcasters from all of its earlier versions, and none from later ones.
Upcast(values, r) ==
  LET first == IF values.mark = 0 THEN 1 ELSE values.mark
  IN IF first > r THEN {} ELSE {Steps(values, first, r)}

\* A new event is validated like a stored one.  Its maker may tell its version or not;
\* the class has a field for it, or it would not be in the JSON.
NewEvents ==
  UNION {Upcast([by |-> release, form |-> release, mark |-> mark, spoiled |-> FALSE], release) :
         mark \in {0, release}}

Topic(r) == IF r < Renamed THEN "old" ELSE "new"

\* The topics of the registry: that of the class, and the alias that a release which
\* renames the class gives it.
Registered(r) == {Topic(n) : n \in 1..r}

\* The event that a row becomes in release r, or nothing if that raises.
Loaded(row, r) == IF Topic(row.by) \in Registered(r) THEN Upcast(row, r) ELSE {}

-----------------------------------------------------------------------------
(* The pool *)

Init ==
  /\ mode \in Modes
  /\ release \in Releases
  /\ rows = <<>>
  /\ free = PoolSize
  /\ queue = <<>>
  /\ closed = FALSE
  /\ status = [h \in Handlers |-> "idle"]
  /\ call = [h \in Handlers |-> "none"]
  /\ held = [h \in Handlers |-> {}]
  /\ todo = [h \in Handlers |-> <<>>]
  /\ restarts = 0

\* Defect: what the handler has is not given back to those who wait.
GiveBackUnseen(h, done, waiting, becomes) ==
  /\ free' = free + Cardinality(done)
  /\ queue' = waiting
  /\ held' = [held EXCEPT ![h] = @ \ done]
  /\ status' = [status EXCEPT ![h] = becomes]

\* h gives the connections of some of its calls back, to the first in the queue if there
\* are any, and goes on as the status says.  A closed pool takes none.
GiveBack(h, done, waiting, becomes) ==
  LET n == Cardinality(done)
      k == IF closed THEN 0 ELSE IF n <= Len(waiting) THEN n ELSE Len(waiting)
      served == {waiting[i] : i \in 1..k}
  IN /\ free' = IF closed THEN free ELSE free + n - k
     /\ queue' = SubSeq(waiting, k + 1, Len(waiting))
     /\ held' = [g \in Handlers |-> IF g \in served THEN held[g] \cup {call[g]}
                                    ELSE IF g = h THEN held[g] \ done ELSE held[g]]
     /\ status' = [g \in Handlers |-> IF g \in served THEN "using"
                                      ELSE IF g = h THEN becomes ELSE status[g]]

\* The handler is over.  What is kept of its calls keeps its connection, every other
\* call of it leaves its with blocks.
Over(h, kept, waiting, becomes) ==
  /\ GiveBack(h, held[h] \ kept, waiting, becomes)
  /\ todo' = [todo EXCEPT ![h] = <<>>]
  /\ call' = [call EXCEPT ![h] = "none"]

\* It returned, and its frame was dropped; or the exception came out of its only call.
End(h, waiting, becomes) == Over(h, {}, waiting, becomes)

\* An exception in the body of its loop over a stream, if it reads one, keeps the
\* frame that has the suspended generator.
EndInBody(h, waiting) == Over(h, {"stream"}, waiting, "raised")

-----------------------------------------------------------------------------
(* What handlers do *)

\* The loop runs one task at a time.
CanRun(h) == mode = "loop" => \A g \in Handlers : status[g] \notin Active

Run(h) ==
  /\ status[h] \in {"idle", "suspended"}
  /\ CanRun(h)
  /\ status' = [status EXCEPT ![h] = "running"]
  /\ UNCHANGED <<unchanging, free, queue, held, call, todo>>

\* An await, in the body of a loop over a stream too.
Suspend(h) ==
  /\ mode = "loop"
  /\ status[h] = "running"
  /\ status' = [status EXCEPT ![h] = "suspended"]
  /\ UNCHANGED <<unchanging, free, queue, held, call, todo>>

\* get_connection for a generator or for the one statement of another call.
Connect(h, what) ==
  /\ status[h] = "running"
  /\ what \notin held[h]
  /\ \/ /\ closed                 \* open raises
        /\ EndInBody(h, queue)
     \/ /\ ~closed
        /\ call' = [call EXCEPT ![h] = what]
        /\ UNCHANGED todo
        /\ \/ /\ free > 0
              /\ free' = free - 1
              /\ held' = [held EXCEPT ![h] = @ \cup {what}]
              /\ status' = [status EXCEPT ![h] = "using"]
              /\ UNCHANGED queue
           \/ /\ free = 0
              /\ queue' = Append(queue, h)
              /\ status' = [status EXCEPT ![h] = "waiting"]
              /\ UNCHANGED <<free, held>>
  /\ UNCHANGED unchanging

\* PoolTimeout
Timeout(h) ==
  /\ status[h] = "waiting"
  /\ \E i \in DOMAIN queue : queue[i] = h /\ EndInBody(h, RemoveAt(queue, i))
  /\ UNCHANGED unchanging

\* The SELECT of get_stream: the client has all its rows.
Select(h) ==
  /\ status[h] = "using"
  /\ call[h] = "stream"
  /\ todo' = [todo EXCEPT ![h] = rows]
  /\ call' = [call EXCEPT ![h] = "none"]
  /\ status' = [status EXCEPT ![h] = "running"]
  /\ UNCHANGED <<unchanging, free, queue, held>>

\* append_to_stream writes an event; the other calls leave the table as it is.
Execute(h) ==
  /\ status[h] = "using"
  /\ call[h] = "statement"
  /\ \/ UNCHANGED rows
     \/ /\ Len(rows) < MaxRows
        /\ \E event \in NewEvents : rows' = Append(rows, event)
  /\ GiveBack(h, {"statement"}, queue, "running")
  /\ call' = [call EXCEPT ![h] = "none"]
  /\ UNCHANGED <<mode, release, closed, restarts, todo>>

\* Defect: nobody gives the connection of a statement that fails back.
FailLosing(h) ==
  /\ status[h] = "using"
  /\ held' = [held EXCEPT ![h] = @ \ {call[h]}]
  /\ status' = [status EXCEPT ![h] = "raised"]
  /\ todo' = [todo EXCEPT ![h] = <<>>]
  /\ call' = [call EXCEPT ![h] = "none"]
  /\ UNCHANGED <<unchanging, free, queue>>

\* A statement fails: a lost connection, or a conflict.  The SELECT of a stream is one
\* of the generator itself.
Fail(h) ==
  /\ status[h] = "using"
  /\ IF call[h] = "stream" THEN End(h, queue, "raised") ELSE EndInBody(h, queue)
  /\ UNCHANGED unchanging

\* The loop over the stream asks for the next event, which the generator makes now:
\* what raises then leaves the generator.
Load(h) ==
  /\ status[h] = "running"
  /\ todo[h] # <<>>
  /\ IF Loaded(Head(todo[h]), release) = {}
     THEN End(h, queue, "raised")
     ELSE /\ todo' = [todo EXCEPT ![h] = Tail(@)]
          /\ UNCHANGED <<pool, call>>
  /\ UNCHANGED unchanging

\* The generator is through.
Exhaust(h) ==
  /\ status[h] = "running"
  /\ "stream" \in held[h]
  /\ todo[h] = <<>>
  /\ GiveBack(h, {"stream"}, queue, "running")
  /\ UNCHANGED <<unchanging, call, todo>>

\* The handler is through, or its own code raised, in the middle of a stream perhaps.
Finish(h) ==
  /\ status[h] = "running"
  /\ End(h, queue, "returned") \/ EndInBody(h, queue)
  /\ UNCHANGED unchanging

\* The exception of the handler is collected, at any time after nobody has it any more.
Collect(h) ==
  /\ status[h] = "raised"
  /\ held[h] # {}
  /\ GiveBack(h, held[h], queue, "raised")
  /\ UNCHANGED <<unchanging, call, todo>>

\* close: those who wait get PoolClosed, in the body of a loop over a stream perhaps.
Close ==
  /\ ~closed
  /\ closed' = TRUE
  /\ free' = 0
  /\ queue' = <<>>
  /\ status' = [h \in Handlers |-> IF status[h] = "waiting" THEN "raised" ELSE status[h]]
  /\ todo' = [h \in Handlers |-> IF status[h] = "waiting" THEN <<>> ELSE todo[h]]
  /\ call' = [h \in Handlers |-> IF status[h] = "waiting" THEN "none" ELSE call[h]]
  /\ UNCHANGED <<mode, release, rows, held, restarts>>

\* The process ends, at any time, and that of another release, or of the same, begins.
Restart ==
  /\ restarts < MaxRestarts
  /\ restarts' = restarts + 1
  /\ release' \in Releases
  /\ free' = PoolSize
  /\ queue' = <<>>
  /\ closed' = FALSE
  /\ status' = [h \in Handlers |-> "idle"]
  /\ held' = [h \in Handlers |-> {}]
  /\ todo' = [h \in Handlers |-> <<>>]
  /\ call' = [h \in Handlers |-> "none"]
  /\ UNCHANGED <<mode, rows>>

HandlerStep(h) ==
  \/ Run(h) \/ Suspend(h) \/ \E what \in Calls : Connect(h, what)
  \/ Timeout(h) \/ Select(h) \/ Execute(h) \/ Fail(h) \/ Load(h) \/ Exhaust(h) \/ Finish(h)
  \/ Collect(h)

Next == Close \/ Restart \/ \E h \in Handlers : HandlerStep(h)

Spec == Init /\ [][Next]_vars

-----------------------------------------------------------------------------
(* Properties *)

Waiting == {h \in Handlers : status[h] = "waiting"}

\* The connections that are out, each with the call that has it.
InUse == {use \in Handlers \X Calls : use[2] \in held[use[1]]}

\* Every connection is in the pool, or with a handler that is not over, or with the
\* generator that the exception of a handler keeps: no other is lost, whatever raises
\* and wherever.
TypeOK ==
  /\ mode \in Modes
  /\ release \in Releases
  /\ Len(rows) <= MaxRows
  /\ free \in 0..PoolSize
  /\ closed \in BOOLEAN
  /\ Range(queue) = Waiting /\ IsInjective(queue)
  /\ status \in [Handlers -> {"idle", "suspended"} \cup Active \cup Ended]
  /\ call \in [Handlers -> Calls \cup {"none"}]
  /\ held \in [Handlers -> SUBSET Calls]
  /\ \A h \in Handlers : /\ status[h] \in {"idle", "returned"} => held[h] = {}
                         /\ status[h] = "raised" => held[h] \subseteq {"stream"}
                         /\ todo[h] # <<>> => "stream" \in held[h]
                         /\ call[h] # "none" <=> status[h] \in {"waiting", "using"}
  /\ ~closed => free + Cardinality(InUse) = PoolSize

\* A generator that keeps its connection though nobody reads on: its reader wants a
\* second connection, or awaits in the body of its loop, or has raised there.
Stuck(h) ==
  /\ held[h] = {"stream"}
  /\ \/ status[h] \in {"waiting", "raised"}
     \/ status[h] = "suspended" /\ mode = "loop"

\* Handlers that wait for a connection wait for one that works with it, as long as
\* not every connection of the pool is with a generator that is stuck: one stuck
\* generator does not stall a pool of two.
NoStall ==
  \/ Waiting = {}
  \/ \E h \in Handlers : held[h] # {} /\ status[h] \in {"running", "using"}
  \/ free = 0 /\ \A h \in Handlers : held[h] # {} => Stuck(h)

\* Every event of release 1, and every event that its maker told the version of, is
\* loaded by each release as what it was, brought to that release, under whatever name
\* it was stored; a release that is too old for it refuses it.
ReadsWhatWasWritten ==
  \A i \in DOMAIN rows, r \in Releases :
    LET row == rows[i]
        read == Loaded(row, r)
    IN row.by = 1 \/ row.mark # 0 =>
         IF row.by <= r
         THEN \E event \in read : event.form = r /\ ~event.spoiled
         ELSE read = {}

=============================================================================
