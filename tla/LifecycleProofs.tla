--------------------------- MODULE LifecycleProofs ---------------------------
(***************************************************************************)
(* Proofs about Lifecycle, for any number of calls of run and of stop and  *)
(* however many listeners and lifespans raise.                             *)
(***************************************************************************)
EXTENDS Lifecycle, TLAPS

Busy == {"notifying", "awaiting", "notified"}
\* Where a stop is that passed its test of is_running and did not raise.
Accepted == Busy \cup {"done"}
\* A generator that was entered.
Late == {"open", "exiting", "closed"}

\* A call waits for a generator that is being advanced.
Waits == \A c \in Calls :
  IF pc[c] = "awaiting" THEN awaits[c] \in Runs /\ lifespan[awaits[c]] \in {"entering", "exiting"}
                        ELSE awaits[c] = None
\* The rest of TypeOK.
Types ==
  /\ mode \in Modes /\ reusable \in BOOLEAN
  /\ running \in BOOLEAN /\ stopped \in BOOLEAN /\ consuming \in BOOLEAN
  /\ current \in Runs \cup {None}
  /\ lifespan \in [Runs -> {"none", "new", "entering", "open", "exiting", "closed"}]
  /\ pc \in [Calls -> Ended \cup {"idle", "notifying", "awaiting", "notified"}]
  /\ awaits \in [Calls -> Runs \cup {None}]
  /\ puller \in [Runs -> {"none", "testing", "reading", "over"}]
  /\ overtime \in SUBSET Runs
  /\ faults \in 0..MaxFaults

\* Which generators there are, and who waits for which.
Bookkeeping ==
  /\ current = None =>
       /\ ~running /\ ~stopped
       /\ \A r \in Runs : pc[r] = "idle"
       /\ \A s \in Stops : pc[s] \in {"idle", "raised"}
  /\ current \in Runs => pc[current] # "idle"
  /\ \A r \in Runs : pc[r] = "idle" => lifespan[r] = "none"
  /\ \A c, d \in Calls :
       c # d /\ pc[c] = "awaiting" /\ pc[d] = "awaiting" => awaits[c] # awaits[d]

\* run and stop: one thread calls one after the other.
OneThread ==
  mode = "sync" =>
    /\ \A c, d \in Calls : pc[c] \in Busy /\ pc[d] \in Busy => c = d
    /\ \A r \in Runs : pc[r] \in {"awaiting", "notified"} => running
    /\ \A s \in Stops : pc[s] \in Busy => ~consuming
    /\ \A s \in Stops : pc[s] \in {"awaiting", "notified"} => ~running
    /\ consuming => running
    /\ \A r \in overtime : ~consuming /\ puller[r] # "reading"
    /\ stopped => ~running /\ \A r \in Runs : pc[r] \notin {"notifying", "awaiting"}

\* r is the only call of run so far.
Alone(r) == pc[r] # "idle" /\ \A q \in Runs \ {r} : pc[q] = "idle"

\* What holds of the only run: no stop is accepted before its lifespan was entered, and
\* once one is, the way of the lifespan is to its end.
OnlyRun(r) ==
  /\ pc[r] = "notifying" => lifespan[r] = "new" /\ ~running
  /\ pc[r] = "awaiting" => lifespan[r] = "entering" /\ (running => mode = "sync")
  /\ pc[r] \in {"notifying", "awaiting"} => ~stopped /\ \A s \in Stops : pc[s] \notin Accepted
  /\ running /\ pc[r] \in Ended \cup {"notified"} => lifespan[r] \in Late
  /\ running /\ mode = "async" => lifespan[r] = "open"
  /\ \A s \in Stops : pc[s] \in Accepted => lifespan[r] \in Late
  /\ \A s \in Stops : pc[s] \in Accepted \ {"notifying"} => ~running
  /\ \A s \in Stops : pc[s] \in {"notified", "done"} => lifespan[r] = "closed"
  /\ stopped => ~running

IInv ==
  /\ TypeOK
  /\ Bookkeeping
  /\ OneThread
  /\ \A r \in Runs : Alone(r) => OnlyRun(r)

\* The two parts of TypeOK.
LEMMA TypeParts == TypeOK <=> Types /\ Waits
BY CallsAssumption, BoundsAssumption DEF TypeOK, Types, Waits, Calls

\* The same of the next state.
LEMMA TypePartsNext == TypeOK' <=> Types' /\ Waits'
BY CallsAssumption, BoundsAssumption DEF TypeOK, Types, Waits, Calls

\* Each step keeps the types (run_async, stop_async, run, stop).
LEMMA TypesKept ==
  ASSUME Types, Waits, Bookkeeping, [Next]_vars PROVE Types'
<1> USE CallsAssumption, BoundsAssumption DEF Types, Waits, Bookkeeping, Calls, Ended, Goto, Fault, consumer
<1>1. ASSUME NEW r \in Runs, BeginRun(r) PROVE Types'
  BY <1>1 DEF BeginRun
<1>2. ASSUME NEW r \in Runs, EnterLifespan(r) PROVE Types'
  BY <1>2 DEF EnterLifespan, Anext, Await, Leave, Over
<1>3. ASSUME NEW r \in Runs, LifespanEntered(r) PROVE Types'
  BY <1>3 DEF LifespanEntered, Resume
<1>4. ASSUME NEW r \in Runs, EndRun(r) PROVE Types'
  BY <1>4 DEF EndRun, Consume
<1>5. ASSUME NEW r \in Runs, Collect(r) PROVE Types'
  BY <1>5 DEF Collect, Orphan
<1>6. ASSUME NEW s \in Stops, BeginStop(s) PROVE Types'
  <2>1. pc' \in [Calls -> Ended \cup {"idle", "notifying", "awaiting", "notified"}]
    BY <1>6 DEF BeginStop, StopConsume
  <2>2. consuming' \in BOOLEAN
    BY <1>6 DEF BeginStop, StopConsume
  <2> QED
    BY <1>6, <2>1, <2>2 DEF BeginStop, StopConsume
<1>7. ASSUME NEW s \in Stops, ExitLifespan(s) PROVE Types'
  <2>1. stopped' \in BOOLEAN /\ running' \in BOOLEAN
    BY <1>7 DEF ExitLifespan
  <2>2. pc' \in [Calls -> Ended \cup {"idle", "notifying", "awaiting", "notified"}]
    BY <1>7 DEF ExitLifespan, Anext, Await, Leave, Over
  <2>3. /\ awaits' \in [Calls -> Runs \cup {None}]
        /\ lifespan' \in [Runs -> {"none", "new", "entering", "open", "exiting", "closed"}]
    BY <1>7 DEF ExitLifespan, Anext, Await, Leave, Over
  <2> QED
    BY <1>7, <2>1, <2>2, <2>3 DEF ExitLifespan
<1>8. ASSUME NEW s \in Stops, LifespanExited(s) PROVE Types'
  BY <1>8 DEF LifespanExited, Resume
<1>9. ASSUME NEW s \in Stops, EndStop(s) PROVE Types'
  BY <1>9 DEF EndStop
<1>10. ASSUME NEW c \in Calls, ListenerRaises(c) PROVE Types'
  <2>1. UNCHANGED <<mode, reusable, running, stopped, current, lifespan, awaits>>
    BY <1>10 DEF ListenerRaises
  <2>2. /\ pc' \in [Calls -> Ended \cup {"idle", "notifying", "awaiting", "notified"}]
        /\ faults' \in 0..MaxFaults
    BY <1>10 DEF ListenerRaises
  <2>3. /\ consuming' \in BOOLEAN /\ overtime' \in SUBSET Runs
        /\ puller' \in [Runs -> {"none", "testing", "reading", "over"}]
    <3>1. CASE UNCHANGED consumer
      BY <3>1
    <3>2. CASE c \in Runs /\ Consume(c)
      BY <3>2 DEF Consume
    <3> QED
      BY <1>10, <3>1, <3>2 DEF ListenerRaises
  <2> QED
    BY <2>1, <2>2, <2>3
<1>11. ASSUME NEW c \in Calls, LifespanRaises(c) PROVE Types'
  BY <1>11 DEF LifespanRaises
<1>13. ASSUME NEW r \in Runs, TestFlag(r) PROVE Types'
  BY <1>13 DEF TestFlag
<1>14. ASSUME NEW r \in Runs, GetBatch(r) PROVE Types'
  BY <1>14 DEF GetBatch
<1>12. CASE UNCHANGED vars
  BY <1>12 DEF vars
<1> QED
  BY <1>1, <1>2, <1>3, <1>4, <1>5, <1>6, <1>7, <1>8, <1>9, <1>10, <1>11, <1>12, <1>13, <1>14
  DEF Next, RunStep, StopStep, Calls

\* Who advances a generator is the only one that waits for it.
LEMMA WaitsKept ==
  ASSUME Types, Waits, Bookkeeping, [Next]_vars PROVE Waits'
<1> USE CallsAssumption, BoundsAssumption DEF Types, Waits, Bookkeeping, Calls, Ended, Goto, Fault, consumer
<1>1. ASSUME NEW r \in Runs, BeginRun(r) PROVE Waits'
  BY <1>1 DEF BeginRun
<1>2. ASSUME NEW r \in Runs, EnterLifespan(r) PROVE Waits'
  BY <1>2 DEF EnterLifespan, Anext, Await, Leave, Over
<1>3. ASSUME NEW r \in Runs, LifespanEntered(r) PROVE Waits'
  BY <1>3 DEF LifespanEntered, Resume
<1>4. ASSUME NEW r \in Runs, EndRun(r) PROVE Waits'
  BY <1>4 DEF EndRun, Consume
<1>5. ASSUME NEW r \in Runs, Collect(r) PROVE Waits'
  BY <1>5 DEF Collect, Orphan
<1>6. ASSUME NEW s \in Stops, BeginStop(s) PROVE Waits'
  BY <1>6 DEF BeginStop, StopConsume
<1>7. ASSUME NEW s \in Stops, ExitLifespan(s) PROVE Waits'
  BY <1>7 DEF ExitLifespan, Anext, Await, Leave, Over
<1>8. ASSUME NEW s \in Stops, LifespanExited(s) PROVE Waits'
  BY <1>8 DEF LifespanExited, Resume
<1>9. ASSUME NEW s \in Stops, EndStop(s) PROVE Waits'
  BY <1>9 DEF EndStop
<1>10. ASSUME NEW c \in Calls, ListenerRaises(c) PROVE Waits'
  BY <1>10 DEF ListenerRaises, Consume
<1>11. ASSUME NEW c \in Calls, LifespanRaises(c) PROVE Waits'
  BY <1>11 DEF LifespanRaises
<1>13. ASSUME NEW r \in Runs, TestFlag(r) PROVE Waits'
  BY <1>13 DEF TestFlag
<1>14. ASSUME NEW r \in Runs, GetBatch(r) PROVE Waits'
  BY <1>14 DEF GetBatch
<1>12. CASE UNCHANGED vars
  BY <1>12 DEF vars
<1> QED
  BY <1>1, <1>2, <1>3, <1>4, <1>5, <1>6, <1>7, <1>8, <1>9, <1>10, <1>11, <1>12, <1>13, <1>14
  DEF Next, RunStep, StopStep, Calls

\* A generator is made when its run begins, and only then; the last one stays current.
LEMMA BookkeepingKept ==
  ASSUME Types, Waits, Bookkeeping, [Next]_vars PROVE Bookkeeping'
<1> USE CallsAssumption, BoundsAssumption
    DEF Types, Waits, Bookkeeping, Calls, Ended, Goto, Fault, Used, consumer
<1>1. ASSUME NEW r \in Runs, BeginRun(r) PROVE Bookkeeping'
  BY <1>1 DEF BeginRun
<1>2. ASSUME NEW r \in Runs, EnterLifespan(r) PROVE Bookkeeping'
  BY <1>2 DEF EnterLifespan, Anext, Await, Leave, Over
<1>3. ASSUME NEW r \in Runs, LifespanEntered(r) PROVE Bookkeeping'
  BY <1>3 DEF LifespanEntered, Resume
<1>4. ASSUME NEW r \in Runs, EndRun(r) PROVE Bookkeeping'
  BY <1>4 DEF EndRun, Consume
<1>5. ASSUME NEW r \in Runs, Collect(r) PROVE Bookkeeping'
  BY <1>5 DEF Collect, Orphan
<1>6. ASSUME NEW s \in Stops, BeginStop(s) PROVE Bookkeeping'
  BY <1>6 DEF BeginStop, StopConsume
<1>7. ASSUME NEW s \in Stops, ExitLifespan(s) PROVE Bookkeeping'
  BY <1>7 DEF ExitLifespan, Anext, Await, Leave, Over
<1>8. ASSUME NEW s \in Stops, LifespanExited(s) PROVE Bookkeeping'
  BY <1>8 DEF LifespanExited, Resume
<1>9. ASSUME NEW s \in Stops, EndStop(s) PROVE Bookkeeping'
  BY <1>9 DEF EndStop
<1>10. ASSUME NEW c \in Calls, ListenerRaises(c) PROVE Bookkeeping'
  BY <1>10 DEF ListenerRaises, Consume
<1>11. ASSUME NEW c \in Calls, LifespanRaises(c) PROVE Bookkeeping'
  BY <1>11 DEF LifespanRaises
<1>13. ASSUME NEW r \in Runs, TestFlag(r) PROVE Bookkeeping'
  BY <1>13 DEF TestFlag
<1>14. ASSUME NEW r \in Runs, GetBatch(r) PROVE Bookkeeping'
  BY <1>14 DEF GetBatch
<1>12. CASE UNCHANGED vars
  BY <1>12 DEF vars
<1> QED
  BY <1>1, <1>2, <1>3, <1>4, <1>5, <1>6, <1>7, <1>8, <1>9, <1>10, <1>11, <1>12, <1>13, <1>14
  DEF Next, RunStep, StopStep, Calls

\* In one thread the calls of run and stop see each other's work whole.
LEMMA OneThreadKept ==
  ASSUME Types, Waits, Bookkeeping, OneThread, [Next]_vars PROVE OneThread'
<1> USE CallsAssumption, BoundsAssumption
    DEF Types, Waits, Bookkeeping, OneThread, Calls, Ended, Busy, Goto, Fault, Turn, consumer
<1>1. ASSUME NEW r \in Runs, BeginRun(r) PROVE OneThread'
  BY <1>1 DEF BeginRun
<1>2. ASSUME NEW r \in Runs, EnterLifespan(r) PROVE OneThread'
  <2> SUFFICES ASSUME mode = "sync" PROVE OneThread'
    BY <1>2 DEF EnterLifespan
  <2>1. /\ running' /\ pc[r] = "notifying" /\ ~stopped
        /\ \A c \in Calls \ {r} : pc'[c] = pc[c] /\ pc[c] \notin Busy
        /\ UNCHANGED <<mode, stopped, consuming, puller, overtime>>
    BY <1>2 DEF EnterLifespan, Anext, Await, Leave, Over
  <2>2. pc'[r] \in {"awaiting", "raised"}
    BY <1>2 DEF EnterLifespan, Anext, Await, Leave, Over
  <2> QED
    BY <2>1, <2>2
<1>3. ASSUME NEW r \in Runs, LifespanEntered(r) PROVE OneThread'
  BY <1>3 DEF LifespanEntered, Resume
<1>4. ASSUME NEW r \in Runs, EndRun(r) PROVE OneThread'
  BY <1>4 DEF EndRun, Consume
<1>5. ASSUME NEW r \in Runs, Collect(r) PROVE OneThread'
  BY <1>5 DEF Collect, Orphan
<1>6. ASSUME NEW s \in Stops, BeginStop(s) PROVE OneThread'
  BY <1>6 DEF BeginStop, StopConsume
<1>7. ASSUME NEW s \in Stops, ExitLifespan(s) PROVE OneThread'
  BY <1>7 DEF ExitLifespan, Anext, Await, Leave, Over
<1>8. ASSUME NEW s \in Stops, LifespanExited(s) PROVE OneThread'
  BY <1>8 DEF LifespanExited, Resume
<1>9. ASSUME NEW s \in Stops, EndStop(s) PROVE OneThread'
  BY <1>9 DEF EndStop
<1>10. ASSUME NEW c \in Calls, ListenerRaises(c) PROVE OneThread'
  BY <1>10 DEF ListenerRaises, Consume
<1>11. ASSUME NEW c \in Calls, LifespanRaises(c) PROVE OneThread'
  BY <1>11 DEF LifespanRaises
<1>13. ASSUME NEW r \in Runs, TestFlag(r) PROVE OneThread'
  BY <1>13 DEF TestFlag
<1>14. ASSUME NEW r \in Runs, GetBatch(r) PROVE OneThread'
  BY <1>14 DEF GetBatch
<1>12. CASE UNCHANGED vars
  BY <1>12 DEF vars
<1> QED
  BY <1>1, <1>2, <1>3, <1>4, <1>5, <1>6, <1>7, <1>8, <1>9, <1>10, <1>11, <1>12, <1>13, <1>14
  DEF Next, RunStep, StopStep, Calls

\* The way of the only run and of its lifespan, with any number of stops.
LEMMA OnlyRunKept ==
  ASSUME Types, Waits, Bookkeeping, OneThread, \A r \in Runs : Alone(r) => OnlyRun(r),
         [Next]_vars, NEW q \in Runs, Alone(q)'
  PROVE  OnlyRun(q)'
<1> USE CallsAssumption, BoundsAssumption
    DEF Types, Waits, Bookkeeping, OneThread, Alone, OnlyRun, Calls, Ended, Busy, Accepted, Late,
        Goto, Fault, Turn, consumer
<1>1. ASSUME NEW r \in Runs, BeginRun(r) PROVE OnlyRun(q)'
  BY <1>1 DEF BeginRun
<1>2. ASSUME NEW r \in Runs, EnterLifespan(r) PROVE OnlyRun(q)'
  BY <1>2 DEF EnterLifespan, Anext, Await, Leave, Over
<1>3. ASSUME NEW r \in Runs, LifespanEntered(r) PROVE OnlyRun(q)'
  <2>1. q = r /\ Alone(r)
    BY <1>3 DEF LifespanEntered
  <2>2. awaits[r] = r
    BY <1>3, <2>1 DEF LifespanEntered
  <2>3. /\ lifespan[r] = "entering" /\ ~stopped
        /\ \A s \in Stops : pc[s] \notin Accepted
    BY <1>3, <2>1 DEF LifespanEntered
  <2>4. /\ lifespan'[r] = "open" /\ pc'[r] = "notified" /\ running' = TRUE
        /\ \A s \in Stops : pc'[s] = pc[s]
        /\ UNCHANGED <<mode, stopped>>
    BY <1>3, <2>2, <2>3 DEF LifespanEntered, Resume
  <2> QED
    BY <2>1, <2>3, <2>4
<1>4. ASSUME NEW r \in Runs, EndRun(r) PROVE OnlyRun(q)'
  BY <1>4 DEF EndRun, Consume
<1>5. ASSUME NEW r \in Runs, Collect(r) PROVE OnlyRun(q)'
  BY <1>5 DEF Collect, Orphan
<1>6. ASSUME NEW s \in Stops, BeginStop(s) PROVE OnlyRun(q)'
  BY <1>6 DEF BeginStop, StopConsume
<1>7. ASSUME NEW s \in Stops, ExitLifespan(s) PROVE OnlyRun(q)'
  BY <1>7 DEF ExitLifespan, Anext, Await, Leave, Over
<1>8. ASSUME NEW s \in Stops, LifespanExited(s) PROVE OnlyRun(q)'
  <2>1. Alone(q)
    BY <1>8 DEF LifespanExited
  <2>2. awaits[s] = q
    BY <1>8, <2>1 DEF LifespanExited
  <2>3. lifespan[q] = "exiting" /\ ~running /\ pc[q] \notin {"notifying", "awaiting"}
    BY <1>8, <2>1, <2>2 DEF LifespanExited
  <2>4. /\ lifespan'[q] = "closed" /\ pc'[q] = pc[q]
        /\ UNCHANGED <<mode, running>>
    BY <1>8, <2>2, <2>3 DEF LifespanExited, Resume
  <2> QED
    BY <2>3, <2>4
<1>9. ASSUME NEW s \in Stops, EndStop(s) PROVE OnlyRun(q)'
  BY <1>9 DEF EndStop
<1>10. ASSUME NEW c \in Calls, ListenerRaises(c) PROVE OnlyRun(q)'
  BY <1>10 DEF ListenerRaises, Consume
<1>11. ASSUME NEW c \in Calls, LifespanRaises(c) PROVE OnlyRun(q)'
  <2>1. Alone(q) /\ awaits[c] = q
    BY <1>11 DEF LifespanRaises
  <2>2. /\ lifespan'[q] = "closed" /\ pc' = [pc EXCEPT ![c] = "raised"]
        /\ UNCHANGED <<mode, running, stopped>>
    BY <1>11, <2>1 DEF LifespanRaises
  <2>3. CASE c = q
    BY <1>11, <2>1, <2>2, <2>3 DEF LifespanRaises
  <2>4. CASE c \in Stops
    <3>1. ~running /\ pc[q] \notin {"notifying", "awaiting"}
      BY <1>11, <2>1, <2>4 DEF LifespanRaises
    <3> QED
      BY <2>1, <2>2, <2>4, <3>1
  <2>5. c = q \/ c \in Stops
    BY <1>11, <2>1 DEF LifespanRaises
  <2> QED
    BY <2>3, <2>4, <2>5
<1>13. ASSUME NEW r \in Runs, TestFlag(r) PROVE OnlyRun(q)'
  BY <1>13 DEF TestFlag
<1>14. ASSUME NEW r \in Runs, GetBatch(r) PROVE OnlyRun(q)'
  BY <1>14 DEF GetBatch
<1>12. CASE UNCHANGED vars
  BY <1>12 DEF vars
<1> QED
  BY <1>1, <1>2, <1>3, <1>4, <1>5, <1>6, <1>7, <1>8, <1>9, <1>10, <1>11, <1>12, <1>13, <1>14
  DEF Next, RunStep, StopStep, Calls

\* An application that was just made has no generator (Application.__init__).
LEMMA InitInv == Init => IInv
<1> SUFFICES ASSUME Init PROVE IInv
  OBVIOUS
<1>1. Types
  <2>1. /\ lifespan \in [Runs -> {"none", "new", "entering", "open", "exiting", "closed"}]
        /\ pc \in [Calls -> Ended \cup {"idle", "notifying", "awaiting", "notified"}]
        /\ awaits \in [Calls -> Runs \cup {None}]
    BY DEF Init
  <2>2. faults \in 0..MaxFaults
    BY BoundsAssumption DEF Init
  <2> QED
    BY <2>1, <2>2 DEF Init, Types
<1>4. Waits
  BY DEF Init, Waits
<1>2. Bookkeeping
  BY CallsAssumption, BoundsAssumption DEF Init, Bookkeeping, Calls
<1>3. OneThread
  BY DEF Init, OneThread, Calls, Busy
<1> QED
  BY <1>1, <1>4, <1>2, <1>3, TypeParts DEF Init, IInv, Alone, Calls

\* The strengthened invariant holds in every state.
LEMMA IInvHolds == Spec => []IInv
<1>1. IInv /\ [Next]_vars => IInv'
  <2> SUFFICES ASSUME IInv, [Next]_vars PROVE IInv'
    OBVIOUS
  <2>1. Types /\ Waits /\ Bookkeeping /\ OneThread /\ \A r \in Runs : Alone(r) => OnlyRun(r)
    BY TypeParts DEF IInv
  <2>2. Types' /\ Waits'
    BY <2>1, TypesKept, WaitsKept
  <2>3. Bookkeeping' /\ OneThread'
    BY <2>1, BookkeepingKept, OneThreadKept
  <2>4. \A r \in Runs : Alone(r)' => OnlyRun(r)'
    BY <2>1, OnlyRunKept
  <2> QED
    BY <2>2, <2>3, <2>4, TypePartsNext DEF IInv
<1> QED
  BY <1>1, InitInv, PTL DEF Spec

\* Every state has the types of TypeOK, and a call that waits for a generator is the one
\* that advances it (Application, _wrap_async_ctx_manager).
THEOREM LifecycleTyped == Spec => []TypeOK
<1>1. IInv => TypeOK
  BY DEF IInv
<1> QED
  BY <1>1, IInvHolds, PTL

\* run and stop: the queue's flag is set only while the application runs, and a
\* thread that is in read gets at most one batch after the stop.
THEOREM PullsSafely == Spec => []PullsWhileRunning
<1>1. IInv => PullsWhileRunning
  BY DEF IInv, OneThread, PullsWhileRunning
<1> QED
  BY <1>1, IInvHolds, PTL

\* Where run was called once, the run of the current generator is the only one.
LEMMA CurrentAlone ==
  ASSUME IInv, OneRun, current # None PROVE current \in Runs /\ Alone(current) /\ OnlyRun(current)
<1>1. current \in Runs /\ pc[current] # "idle"
  BY DEF IInv, TypeOK, Bookkeeping
<1>2. Alone(current)
  BY <1>1 DEF OneRun, Alone
<1> QED
  BY <1>1, <1>2 DEF IInv

\* run_async: the application runs only inside its lifespan (run_async, stop_async).
THEOREM RunsInLifespan == Spec => []RunningInLifespan
<1>1. IInv => RunningInLifespan
  <2> SUFFICES ASSUME IInv, mode = "async", OneRun, running PROVE lifespan[current] = "open"
    BY DEF RunningInLifespan
  <2>1. current # None
    BY DEF IInv, Bookkeeping
  <2> QED
    BY <2>1, CurrentAlone DEF OnlyRun
<1> QED
  BY <1>1, IInvHolds, PTL

\* A stop that returns has left the lifespan, and nothing runs (stop_async, stop).
THEOREM StopsRelease == Spec => []StopReleases
<1>1. IInv => StopReleases
  <2> SUFFICES ASSUME IInv, NEW s \in Stops, OneRun, pc[s] = "done"
               PROVE  lifespan[current] = "closed" /\ ~running
    BY DEF StopReleases
  <2>1. current # None
    BY DEF IInv, Bookkeeping
  <2> QED
    BY <2>1, CurrentAlone DEF OnlyRun, Accepted, Busy
<1> QED
  BY <1>1, IInvHolds, PTL

\* An application that was run once, or by one thread, and was stopped stays so.
THEOREM StopsForGood == Spec => StoppedOnceForGood
<1>1. ASSUME IInv', [Next]_vars PROVE (OneRun' \/ mode = "sync") /\ stopped => ~running'
  <2> SUFFICES ASSUME OneRun' \/ mode = "sync", stopped PROVE ~running'
    OBVIOUS
  <2>1. stopped' /\ mode' = mode
    BY <1>1 DEF Next, RunStep, StopStep, BeginRun, EnterLifespan, LifespanEntered, EndRun, Collect,
       BeginStop, ExitLifespan, LifespanExited, EndStop, ListenerRaises, LifespanRaises,
       TestFlag, GetBatch, vars
  <2>2. CASE mode = "sync"
    BY <1>1, <2>1, <2>2 DEF IInv, OneThread
  <2>3. CASE OneRun'
    <3>1. (current # None)'
      BY <1>1, <2>1 DEF IInv, Bookkeeping
    <3>2. PICK r \in Runs : r = current' /\ pc'[r] # "idle"
      BY <1>1, <3>1 DEF IInv, TypeOK, Bookkeeping
    <3>3. Alone(r)'
      BY <2>3, <3>2 DEF OneRun, Alone
    <3>4. OnlyRun(r)'
      BY <1>1, <3>3 DEF IInv
    <3> QED
      BY <2>1, <3>4 DEF OnlyRun
  <2> QED
    BY <2>2, <2>3
<1> QED
  BY <1>1, IInvHolds, PTL DEF Spec, StoppedOnceForGood

=============================================================================
