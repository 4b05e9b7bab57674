-------------------------------- MODULE PubSub --------------------------------
(***************************************************************************)
(* The Redis pub/sub consumer                                              *)
(* (pyddd.infrastructure.transport.{sync,asyncio}.redis.pubsub): one       *)
(* process, from its start to its stop.                                    *)
(*                                                                         *)
(* Redis sends a message to the connections that are subscribed when it is *)
(* published, and keeps nothing.  The process listens to its connection in *)
(* one loop.  The asyncio loop awaits the callback of each message before  *)
(* it takes the next; the sync loop starts a thread for each.  stop        *)
(* unsubscribes, and cancels the asyncio loop; the sync loop ends when it  *)
(* gets the confirmation that nothing is subscribed any more.  The redis   *)
(* client that meets a lost connection either connects again by itself,    *)
(* subscribing to what it has no confirmation for, or lets listen raise.   *)
(***************************************************************************)
EXTENDS Naturals, Sequences, FiniteSets

CONSTANTS Transports,    \* "async", "sync"
          MaxMessages,   \* BOUND: messages ever published
          MaxFaults,     \* BOUND: connections lost
          Unsubscribed   \* the confirmation of UNSUBSCRIBE

ASSUME TransportsAssumption == Transports \subseteq {"async", "sync"}
ASSUME BoundsAssumption == MaxMessages \in Nat /\ MaxFaults \in Nat
ASSUME UnsubscribedAssumption == Unsubscribed \notin 1..MaxMessages

VARIABLES transport,     \* never changes
          published,     \* what becomes of each message: "unsent", "good" or "garbled" JSON
          channel,       \* the connection is subscribed
          buffer,        \* what the connection has got and the loop has not
          app,           \* the application
          running,       \* _running of the queue
          loop,          \* the loop: "calling" while it awaits a callback
          tasks,         \* the callback of each message
          faults

vars == <<transport, published, channel, buffer, app, running, loop, tasks, faults>>

Ids == 1..MaxMessages

TypeOK ==
  /\ transport \in Transports
  /\ published \in Seq({"unsent", "good", "garbled"}) /\ Len(published) <= MaxMessages
  /\ channel \in BOOLEAN
  /\ buffer \in Seq(Ids \cup {Unsubscribed})
  /\ app \in {"down", "bound", "running", "stopping", "stopped"}
  /\ running \in BOOLEAN
  /\ loop \in {"none", "listening", "calling", "broken", "ended"}
  /\ tasks \in [Ids -> {"none", "called", "handling", "handled", "dropped"}]
  /\ faults \in 0..MaxFaults

Init ==
  /\ transport \in Transports
  /\ published = <<>>
  /\ channel = FALSE
  /\ buffer = <<>>
  /\ app = "down"
  /\ running = FALSE
  /\ loop = "none"
  /\ tasks = [i \in Ids |-> "none"]
  /\ faults = 0

-----------------------------------------------------------------------------
(* Redis and the connection.                                               *)

\* PUBLISH by some publisher.
Publish ==
  /\ Len(published) < MaxMessages
  /\ \E kind \in {"good", "garbled"} : published' = Append(published, kind)
  /\ buffer' = IF channel THEN Append(buffer, Len(published) + 1) ELSE buffer
  /\ UNCHANGED <<transport, channel, app, running, loop, tasks, faults>>

\* A publisher that cannot send its message logs that, and goes on.
PublishFails ==
  /\ Len(published) < MaxMessages
  /\ published' = Append(published, "unsent")
  /\ UNCHANGED <<transport, channel, buffer, app, running, loop, tasks, faults>>

\* What was under way is lost, a confirmation too.
LoseConnection ==
  /\ loop \in {"listening", "calling"} /\ faults < MaxFaults
  /\ faults' = faults + 1
  /\ channel' = FALSE
  /\ buffer' = <<>>
  /\ UNCHANGED <<transport, published, app, running, loop, tasks>>

\* The loop finds the connection lost, and the client connects again.
ClientReconnects ==
  /\ loop = "listening" /\ ~channel /\ buffer = <<>>
  /\ channel' = TRUE
  /\ UNCHANGED <<transport, published, buffer, app, running, loop, tasks, faults>>

-----------------------------------------------------------------------------
(* The life of the application.                                            *)

\* BEFORE_RUN subscribes.
Bind ==
  /\ app = "down"
  /\ app' = "bound"
  /\ channel' = TRUE
  /\ UNCHANGED <<transport, published, buffer, running, loop, tasks, faults>>

\* AFTER_RUN starts the loop.
Consume ==
  /\ app = "bound"
  /\ app' = "running"
  /\ running' = TRUE
  /\ loop' = "listening"
  /\ UNCHANGED <<transport, published, channel, buffer, tasks, faults>>

\* BEFORE_STOP: the loop is told to end, and the channels are unsubscribed, on a new
\* connection when the old one was lost.
Unsubscribe ==
  /\ app = "running"
  /\ app' = "stopping"
  /\ running' = FALSE
  /\ channel' = FALSE
  /\ buffer' = Append(buffer, Unsubscribed)
  /\ UNCHANGED <<transport, published, loop, tasks, faults>>

\* Defect: the asyncio loop is not cancelled.
StopUncancelled ==
  /\ app = "stopping"
  /\ app' = "stopped"
  /\ UNCHANGED <<transport, published, channel, buffer, running, loop, tasks, faults>>

\* Defect: the handlers are cancelled with the loop.
StopHandlers ==
  /\ app = "stopping"
  /\ app' = "stopped"
  /\ loop' = IF transport = "async" THEN "ended" ELSE loop
  /\ tasks' = [i \in Ids |-> IF transport = "async" /\ tasks[i] = "handling"
                             THEN "cancelled" ELSE tasks[i]]
  /\ UNCHANGED <<transport, published, channel, buffer, running, faults>>

\* The asyncio loop is cancelled, and with it the future the callback awaits, but
\* not the tasks of the handlers; then the application stops.  shutdown(wait=False)
\* does nothing to the thread of the sync loop.
Stop ==
  /\ app = "stopping"
  /\ app' = "stopped"
  /\ loop' = IF transport = "async" THEN "ended" ELSE loop
  /\ UNCHANGED <<transport, published, channel, buffer, running, tasks, faults>>

-----------------------------------------------------------------------------
(* The loop, and the callbacks.                                            *)

\* The application handles while it runs, and until stop is over.
Accepts == app \in {"running", "stopping"}

\* The next of the buffer is a message with this text.
NextIs(kind) ==
  /\ loop = "listening"
  /\ buffer # <<>>
  /\ Head(buffer) \in Ids
  /\ published[Head(buffer)] = kind
  /\ buffer' = Tail(buffer)

\* Defect: the asyncio loop starts the callback and does not await it.
CallUnawaited ==
  /\ NextIs("good")
  /\ tasks' = [tasks EXCEPT ![Head(buffer)] = IF transport = "sync" THEN "called"
                                              ELSE IF Accepts THEN "handling" ELSE "dropped"]
  /\ UNCHANGED <<transport, published, channel, app, running, loop, faults>>

\* The callback is called: in a thread of its own, or awaited by the loop.
Call ==
  /\ NextIs("good")
  /\ \/ /\ transport = "sync"
        /\ tasks' = [tasks EXCEPT ![Head(buffer)] = "called"]
        /\ UNCHANGED loop
     \/ /\ transport = "async" /\ Accepts
        /\ tasks' = [tasks EXCEPT ![Head(buffer)] = "handling"]
        /\ loop' = "calling"
  /\ UNCHANGED <<transport, published, channel, app, running, faults>>

\* The thread of a callback calls Application.handle, which refuses when it is over.
Begin(i) ==
  /\ tasks[i] = "called"
  /\ tasks' = [tasks EXCEPT ![i] = IF Accepts THEN "handling" ELSE "dropped"]
  /\ UNCHANGED <<transport, published, channel, buffer, app, running, loop, faults>>

\* The handlers of a message end; the asyncio loop that awaits them goes on.
Handled(i) ==
  /\ tasks[i] = "handling"
  /\ tasks' = [tasks EXCEPT ![i] = "handled"]
  /\ loop' = IF loop = "calling" THEN "listening" ELSE loop
  /\ UNCHANGED <<transport, published, channel, buffer, app, running, faults>>

\* Defect: the error of a garbled message ends the loop.
GarbledEnds ==
  /\ NextIs("garbled")
  /\ loop' = "ended"
  /\ UNCHANGED <<transport, published, channel, app, running, tasks, faults>>

\* json.loads raises, and leaves the iteration over listen.
Garbled ==
  /\ NextIs("garbled")
  /\ loop' = "broken"
  /\ UNCHANGED <<transport, published, channel, app, running, tasks, faults>>

\* The client gives the lost connection up, and listen raises.
ListenRaises ==
  /\ loop = "listening" /\ ~channel /\ buffer = <<>>
  /\ loop' = "broken"
  /\ UNCHANGED <<transport, published, channel, buffer, app, running, tasks, faults>>

\* The confirmation: nothing is subscribed, and listen returns.
ListenReturns ==
  /\ loop = "listening"
  /\ buffer # <<>>
  /\ Head(buffer) = Unsubscribed
  /\ buffer' = Tail(buffer)
  /\ loop' = "broken"
  /\ UNCHANGED <<transport, published, channel, app, running, tasks, faults>>

\* The loop looks at _running: it listens again, on a new connection when the old
\* one was lost, or ends.
Again ==
  /\ loop = "broken"
  /\ loop' = IF running THEN "listening" ELSE "ended"
  /\ channel' = (channel \/ running)
  /\ UNCHANGED <<transport, published, buffer, app, running, tasks, faults>>

Next ==
  \/ Publish \/ PublishFails \/ LoseConnection \/ ClientReconnects
  \/ Bind \/ Consume \/ Unsubscribe \/ Stop
  \/ Call \/ Garbled \/ ListenRaises \/ ListenReturns \/ Again
  \/ \E i \in Ids : Begin(i) \/ Handled(i)

Spec == Init /\ [][Next]_vars

(***************************************************************************)
(* FAIRNESS.  The event loop runs its tasks and the system its threads; a  *)
(* handler ends; a stop that began goes on.  Nobody has to publish, to     *)
(* stop the application or to lose a connection.                           *)
(***************************************************************************)
Fairness ==
  /\ WF_vars(Bind) /\ WF_vars(Consume) /\ WF_vars(Stop)
  /\ WF_vars(Call \/ Garbled \/ ListenReturns \/ Again)
  /\ WF_vars(ClientReconnects \/ ListenRaises)
  /\ \A i \in Ids : WF_vars(Begin(i)) /\ WF_vars(Handled(i))

FairSpec == Spec /\ Fairness

-----------------------------------------------------------------------------
(* Properties.                                                             *)

\* The asyncio loop handles the messages one at a time, in the order in which they
\* were published: when the handlers of one have begun, those of the earlier ones
\* are over.  (With threads neither holds.)
InOrder ==
  transport = "async" =>
    \A i, j \in Ids : (i < j /\ tasks[j] # "none") => tasks[i] # "handling"

\* A message that has reached the connection is handled, whatever garbled message
\* arrived before it, unless the connection is lost or the application stopped.
DeliveredWhileUp ==
  \A i \in Ids :
    (i \in {buffer[n] : n \in DOMAIN buffer} /\ published[i] = "good")
      ~> (tasks[i] = "handled" \/ faults > 0 \/ ~running)

\* The loop of a stopped application ends, for the thread of the sync loop keeps the
\* process alive: unless the confirmation was lost and the client, which connected
\* again by itself, still listens to the channels.
LoopEnds ==
  app = "stopped" ~> (loop = "ended" \/ (transport = "sync" /\ channel))

=============================================================================
