------------------------------ MODULE Lifecycle ------------------------------
(***************************************************************************)
(* The life of an Application (pyddd.application.application): concurrent  *)
(* calls of run and stop, the lifespan context they open and close, the    *)
(* signals they send and the consumer loop that listens to the signals.    *)
(*                                                                         *)
(* run_async and stop_async are coroutines: other calls run wherever one   *)
(* awaits a listener or the lifespan.  run and stop are called by one      *)
(* thread, one after the other.                                            *)
(*                                                                         *)
(* Each run wraps the lifespan context in a new generator and keeps it in  *)
(* self._lifespan.  Advancing the generator enters the context the first   *)
(* time and leaves it the second time; a generator that nothing refers to  *)
(* any more is closed by the garbage collector, which leaves the context.  *)
(*                                                                         *)
(* The consumer's queue pulls messages in a thread or task of its own:     *)
(* AFTER_RUN starts it, BEFORE_STOP clears its flag.  A task is cancelled  *)
(* with that; a thread that is in read gets its batch all the same.        *)
(***************************************************************************)
EXTENDS Naturals, FiniteSets

CONSTANTS Runs, Stops,   \* the calls of run and of stop
          Modes,         \* "async", "sync": which pair of methods is used
          MaxFaults,     \* BOUND: listeners and lifespans that raise
          None           \* no generator

ASSUME CallsAssumption == IsFiniteSet(Runs) /\ IsFiniteSet(Stops) /\ Runs \cap Stops = {}
ASSUME ModesAssumption == Modes \subseteq {"async", "sync"}
ASSUME BoundsAssumption == MaxFaults \in Nat /\ None \notin Runs

VARIABLES mode,          \* never changes
          reusable,      \* can the lifespan context be entered twice?  Never changes
          running,       \* _is_running
          stopped,       \* _is_stopped
          current,       \* _lifespan: the run whose generator it is
          lifespan,      \* the generator of each run
          pc,            \* where each call is
          awaits,        \* the generator a call has advanced and waits for
          consuming,     \* the queue's _is_running (sync), _running (asyncio)
          puller,        \* the thread or task of _long_pull that each run has started
          overtime,      \* threads that got a batch while the application does not run,
                         \* since the queue last began to pull
          faults

consumer == <<consuming, puller, overtime>>
vars == <<mode, reusable, running, stopped, current, lifespan, pc, awaits,
          consuming, puller, overtime, faults>>

Calls == Runs \cup Stops
Ended == {"done", "raised"}

TypeOK ==
  /\ mode \in Modes /\ reusable \in BOOLEAN
  /\ running \in BOOLEAN /\ stopped \in BOOLEAN /\ consuming \in BOOLEAN
  /\ current \in Runs \cup {None}
  /\ lifespan \in [Runs -> {"none", "new", "entering", "open", "exiting", "closed"}]
  /\ pc \in [Calls -> Ended \cup {"idle", "notifying", "awaiting", "notified"}]
  /\ awaits \in [Calls -> Runs \cup {None}]
  /\ \A c \in Calls :
       IF pc[c] = "awaiting"
         THEN awaits[c] # None /\ lifespan[awaits[c]] \in {"entering", "exiting"}
         ELSE awaits[c] = None
  /\ puller \in [Runs -> {"none", "testing", "reading", "over"}]
  /\ overtime \in SUBSET Runs
  /\ faults \in 0..MaxFaults

Init ==
  /\ mode \in Modes /\ reusable \in BOOLEAN
  /\ running = FALSE /\ stopped = FALSE /\ consuming = FALSE
  /\ current = None
  /\ lifespan = [r \in Runs |-> "none"]
  /\ pc = [c \in Calls |-> "idle"]
  /\ awaits = [c \in Calls |-> None]
  /\ puller = [r \in Runs |-> "none"]
  /\ overtime = {}
  /\ faults = 0

-----------------------------------------------------------------------------
Orphan(r) == r # current /\ lifespan[r] = "open"

\* The thread runs one call at a time, and collects garbage at once.
Turn(c) ==
  mode = "sync" => /\ \A d \in Calls \ {c} : pc[d] \in Ended \cup {"idle"}
                   /\ \A r \in Runs : ~Orphan(r)

Goto(c, place) == pc' = [pc EXCEPT ![c] = place]

Fault == faults < MaxFaults /\ faults' = faults + 1

\* The garbage collector closes a generator: GeneratorExit leaves the context.
Collect(r) ==
  /\ Orphan(r)
  /\ lifespan' = [lifespan EXCEPT ![r] = "closed"]
  /\ UNCHANGED <<mode, reusable, running, stopped, current, pc, awaits, consumer, faults>>

\* consume: the flag, and a thread or task for the topic.
Consume(r) ==
  /\ consuming' = TRUE
  /\ puller' = [puller EXCEPT ![r] = "testing"]
  /\ overtime' = {}

\* The calls of the listeners of a signal, up to one that raises; of AFTER_RUN the
\* consumer's may have been called before.
ListenerRaises(c) ==
  /\ Turn(c)
  /\ pc[c] \in {"notifying", "notified"}
  /\ Fault
  /\ Goto(c, "raised")
  /\ \/ UNCHANGED consumer
     \/ c \in Runs /\ pc[c] = "notified" /\ Consume(c)
  /\ UNCHANGED <<mode, reusable, running, stopped, current, lifespan, awaits>>

\* The lifespan context was entered through another generator: entering one made
\* with contextlib.contextmanager again raises.
Used(r) == ~reusable /\ \E q \in Runs \ {r} : lifespan[q] \notin {"none", "new"}

\* The call has advanced the generator and waits for the context.
Await(c, r, phase) ==
  /\ lifespan' = [lifespan EXCEPT ![r] = phase]
  /\ awaits' = [awaits EXCEPT ![c] = r]
  /\ Goto(c, "awaiting")

Leave(c, place) == Goto(c, place) /\ UNCHANGED <<lifespan, awaits>>

\* StopAsyncIteration ends a run; a stop suppresses it and goes on.
Over(c) == IF c \in Runs THEN "raised" ELSE "notified"

\* Defects: a generator that is being advanced is advanced again; it counts as over.
AnextReentrant(c) ==
  LET r == current IN
  \/ lifespan[r] \in {"new", "entering"} /\ Await(c, r, "entering")
  \/ lifespan[r] \in {"open", "exiting"} /\ Await(c, r, "exiting")
  \/ lifespan[r] = "closed" /\ Leave(c, Over(c))
AnextSuppressed(c) ==
  LET r == current IN
  \/ lifespan[r] = "new" /\ Await(c, r, "entering")
  \/ lifespan[r] = "open" /\ Await(c, r, "exiting")
  \/ lifespan[r] \in {"entering", "exiting", "closed"} /\ Leave(c, Over(c))

\* anext(self._lifespan), whatever generator is there now.  Advancing one that is
\* being advanced raises RuntimeError.
Anext(c) ==
  LET r == current IN
  \/ /\ lifespan[r] = "new" /\ ~Used(r)
     /\ Await(c, r, "entering")
  \/ /\ lifespan[r] = "new" /\ Used(r)
     /\ lifespan' = [lifespan EXCEPT ![r] = "closed"]
     /\ Goto(c, "raised") /\ UNCHANGED awaits
  \/ /\ lifespan[r] = "open"
     /\ Await(c, r, "exiting")
  \/ /\ lifespan[r] \in {"entering", "exiting"}
     /\ Leave(c, "raised")
  \/ /\ lifespan[r] = "closed"
     /\ Leave(c, Over(c))

\* The context could not be entered or left: the generator is over.
LifespanRaises(c) ==
  /\ Turn(c)
  /\ pc[c] = "awaiting"
  /\ Fault
  /\ lifespan' = [lifespan EXCEPT ![awaits[c]] = "closed"]
  /\ awaits' = [awaits EXCEPT ![c] = None]
  /\ Goto(c, "raised")
  /\ UNCHANGED <<mode, reusable, running, stopped, current, consumer>>

\* The context has been entered, or left, by the generator c waits for.
Resume(c) ==
  /\ lifespan' = [lifespan EXCEPT ![awaits[c]] =
                    IF @ = "entering" THEN "open" ELSE "closed"]
  /\ awaits' = [awaits EXCEPT ![c] = None]

-----------------------------------------------------------------------------
(* run_async and run.                                                      *)

\* The test of is_stopped, a new generator, and BEFORE_RUN: the consumer binds
\* its topics.
BeginRun(r) ==
  /\ Turn(r)
  /\ pc[r] = "idle"
  /\ IF stopped
       THEN Goto(r, "raised") /\ UNCHANGED <<current, lifespan>>
       ELSE /\ Goto(r, "notifying")
            /\ current' = r
            /\ lifespan' = [lifespan EXCEPT ![r] = "new"]
  /\ UNCHANGED <<mode, reusable, running, stopped, awaits, consumer, faults>>

\* Defect: the application runs before its lifespan, as in the sync run.
EnterLifespanRunning(r) ==
  /\ Turn(r)
  /\ pc[r] = "notifying"
  /\ running' = TRUE
  /\ Anext(r)
  /\ UNCHANGED <<mode, reusable, stopped, current, consumer, faults>>

EnterLifespan(r) ==
  /\ Turn(r)
  /\ pc[r] = "notifying"
  /\ running' = (running \/ mode = "sync")
  /\ Anext(r)
  /\ UNCHANGED <<mode, reusable, stopped, current, consumer, faults>>

\* The application is running, unless the generator turned out to be another
\* run's and is over; AFTER_RUN.
LifespanEntered(r) ==
  /\ Turn(r)
  /\ pc[r] = "awaiting"
  /\ Resume(r)
  /\ IF lifespan[awaits[r]] = "entering"
       THEN running' = TRUE /\ Goto(r, "notified")
       ELSE Goto(r, "raised") /\ UNCHANGED running
  /\ UNCHANGED <<mode, reusable, stopped, current, consumer, faults>>

\* Defect: the application is marked as running at the end of run.
EndRunRunning(r) ==
  /\ Turn(r)
  /\ pc[r] = "notified"
  /\ running' = TRUE
  /\ Consume(r)
  /\ Goto(r, "done")
  /\ UNCHANGED <<mode, reusable, stopped, current, lifespan, awaits, faults>>

\* The listeners of AFTER_RUN return: the queue has begun to pull.
EndRun(r) ==
  /\ Turn(r)
  /\ pc[r] = "notified"
  /\ Consume(r)
  /\ Goto(r, "done")
  /\ UNCHANGED <<mode, reusable, running, stopped, current, lifespan, awaits, faults>>

-----------------------------------------------------------------------------
(* stop_async and stop.                                                    *)

\* stop_consume clears the flag.  The asyncio queue cancels its tasks; the sync one
\* joins each thread for delay_ms and leaves it to itself.
StopConsume ==
  /\ consuming' = FALSE
  /\ puller' = IF mode = "async"
                 THEN [r \in Runs |-> IF puller[r] = "none" THEN "none" ELSE "over"]
                 ELSE puller
  /\ UNCHANGED overtime

\* The test of is_running, and BEFORE_STOP; another listener may raise before the
\* consumer's is called.
BeginStop(s) ==
  /\ Turn(s)
  /\ pc[s] = "idle"
  /\ \/ running /\ Goto(s, "notifying") /\ StopConsume /\ UNCHANGED faults
     \/ running /\ Goto(s, "raised") /\ Fault /\ UNCHANGED consumer
     \/ ~running /\ Goto(s, "raised") /\ UNCHANGED <<consumer, faults>>
  /\ UNCHANGED <<mode, reusable, running, stopped, current, lifespan, awaits>>

\* Defect: the application is not marked as not running.
ExitLifespanRunning(s) ==
  /\ Turn(s)
  /\ pc[s] = "notifying"
  /\ Anext(s)
  /\ stopped' = (stopped \/ pc'[s] = "notified")
  /\ UNCHANGED <<mode, reusable, running, current, consumer, faults>>

ExitLifespan(s) ==
  /\ Turn(s)
  /\ pc[s] = "notifying"
  /\ running' = FALSE
  /\ Anext(s)
  /\ stopped' = (stopped \/ pc'[s] = "notified")
  /\ UNCHANGED <<mode, reusable, current, consumer, faults>>

LifespanExited(s) ==
  /\ Turn(s)
  /\ pc[s] = "awaiting"
  /\ Resume(s)
  /\ stopped' = TRUE
  /\ Goto(s, "notified")
  /\ UNCHANGED <<mode, reusable, running, current, consumer, faults>>

\* The listeners of AFTER_STOP return.
EndStop(s) ==
  /\ Turn(s)
  /\ pc[s] = "notified"
  /\ Goto(s, "done")
  /\ UNCHANGED <<mode, reusable, running, stopped, current, lifespan, awaits,
                 consumer, faults>>

-----------------------------------------------------------------------------
(* _long_pull, in a thread or task of its own.                             *)

\* Defect: the flag is not looked at again.
TestFlagOnce(r) ==
  /\ puller[r] = "testing"
  /\ puller' = [puller EXCEPT ![r] = "reading"]
  /\ UNCHANGED <<mode, reusable, running, stopped, current, lifespan, pc, awaits,
                 consuming, overtime, faults>>

\* The head of the loop.
TestFlag(r) ==
  /\ puller[r] = "testing"
  /\ puller' = [puller EXCEPT ![r] = IF consuming THEN "reading" ELSE "over"]
  /\ UNCHANGED <<mode, reusable, running, stopped, current, lifespan, pc, awaits,
                 consuming, overtime, faults>>

\* read returns and the callback gets each message, whatever happened to the flag in
\* the meantime; an application that does not run refuses them.
GetBatch(r) ==
  /\ puller[r] = "reading"
  /\ puller' = [puller EXCEPT ![r] = "testing"]
  /\ overtime' = IF running THEN overtime ELSE overtime \cup {r}
  /\ UNCHANGED <<mode, reusable, running, stopped, current, lifespan, pc, awaits,
                 consuming, faults>>

-----------------------------------------------------------------------------
RunStep(r) == EnterLifespan(r) \/ LifespanEntered(r) \/ EndRun(r)
StopStep(s) == ExitLifespan(s) \/ LifespanExited(s) \/ EndStop(s)

Next ==
  \/ \E r \in Runs : BeginRun(r) \/ RunStep(r) \/ Collect(r)
                      \/ TestFlag(r) \/ GetBatch(r)
  \/ \E s \in Stops : BeginStop(s) \/ StopStep(s)
  \/ \E c \in Calls : ListenerRaises(c) \/ LifespanRaises(c)

Spec == Init /\ [][Next]_vars

\* The event loop, or the calling thread, carries on every call that has begun:
\* listeners and lifespan return or raise.  Nobody has to call run or stop, and no
\* read has to return.
FairSpec ==
  /\ Spec
  /\ \A r \in Runs : WF_vars(RunStep(r)) /\ WF_vars(Collect(r))
  /\ \A s \in Stops : WF_vars(StopStep(s))

-----------------------------------------------------------------------------
(* Properties.                                                             *)

OneRun == \A q, r \in Runs : pc[q] # "idle" /\ pc[r] # "idle" => q = r

\* An application that has been stopped never runs again, whoever calls run while
\* a stop is in progress ("Can not run. Application was stopped.").
StoppedForGood == [][stopped => ~running']_vars

\* The same where run is called only once, or calls do not overlap: a run still in
\* its AFTER_RUN listeners when it is stopped does not mark the application as
\* running again, nor does a second stop.
StoppedOnceForGood == [][(OneRun' \/ mode = "sync") /\ stopped => ~running']_vars

\* run_async: messages are handled only while the lifespan context is open,
\* through failures of listeners and concurrent stops (run_async, stop_async).
RunningInLifespan ==
  mode = "async" /\ OneRun /\ running => lifespan[current] = "open"

\* Where run and stop don't overlap, the queue's flag is set only while the application
\* takes messages, though stops and runs may break off at any point; a thread that was
\* in read when the application stopped takes the one batch it gets there, which is
\* refused, and none after it (consume, stop_consume, _long_pull).
PullsWhileRunning ==
  mode = "sync" =>
    /\ consuming => running
    /\ \A r \in overtime : puller[r] # "reading"

\* When a stop returns without an exception the lifespan context has been left and
\* the application does not run, even if another stop did part of the work.
StopReleases ==
  \A s \in Stops :
    OneRun /\ pc[s] = "done" => lifespan[current] = "closed" /\ ~running

\* A stop that passed its test of is_running, and meets no listener or lifespan
\* that raises, ends the application, though it may itself raise because another
\* stop is faster.
AcceptedStopStops ==
  [](OneRun /\ faults = 0) =>
    \A s \in Stops :
      pc[s] = "notifying" ~> (stopped /\ ~running /\ lifespan[current] = "closed")

=============================================================================
