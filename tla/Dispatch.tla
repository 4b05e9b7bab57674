------------------------------- MODULE Dispatch -------------------------------
(***************************************************************************)
(* How Application.handle gets messages to handlers                        *)
(* (pyddd.application: application, module, handler, executor).            *)
(*                                                                         *)
(* A caller, the main program or the body of a handler, handles one        *)
(* command or one event.  The modules resolve its handlers, the executor   *)
(* runs them.  SyncExecutor runs the handler of a command in the caller's  *)
(* own thread, and those of an event in a pool of Workers threads with a   *)
(* FIFO queue; the caller may read their results or leave them unread.     *)
(* AsyncExecutor makes a task of each handler, and gives a future that the *)
(* caller may await.  The calls form a tree: each handler is the one       *)
(* invocation that its caller's message makes.                             *)
(***************************************************************************)
EXTENDS Naturals, Sequences, FiniteSets, SequencesExt

CONSTANTS Executors,    \* "sync", "async"
          Handlers,     \* the invocations of handlers
          Main,         \* the caller that is no handler
          Commands,     \* the callers whose message is a command
          HandlersOf,   \* the handlers of each caller's message, in the modules' order
          Workers,      \* threads of the pool
          MaxMisfits,   \* BOUND: handlers that cannot be resolved or called
          MaxFaults     \* BOUND: tasks cancelled

Callers == Handlers \cup {Main}

ASSUME ExecutorsAssumption == Executors \subseteq {"sync", "async"}
ASSUME MainAssumption == Main \notin Handlers /\ Commands \subseteq Callers
ASSUME HandlersAssumption == IsFiniteSet(Handlers)
ASSUME HandlersOfAssumption ==
  /\ HandlersOf \in [Callers -> Seq(Handlers)]
  /\ \A c \in Commands : Len(HandlersOf[c]) = 1
  /\ \A c, d \in Callers : \A i \in DOMAIN HandlersOf[c], j \in DOMAIN HandlersOf[d] :
       HandlersOf[c][i] = HandlersOf[d][j] => <<c, i>> = <<d, j>>

\* A tree: no handler is below itself.
ASSUME DepthAssumption ==
  \E depth \in [Callers -> 0..Cardinality(Handlers)] :
    \A c \in Callers : \A h \in Range(HandlersOf[c]) : depth[c] < depth[h]

ASSUME BoundsAssumption == Workers \in Nat \ {0} /\ {MaxMisfits, MaxFaults} \subseteq Nat

VARIABLES executor,   \* never changes
          fate,       \* what its handler is to the message; never changes
          waits,      \* the callers that want their results; never changes
          running,    \* _is_running of the application
          status,     \* of each caller: "after" its call it goes on
          tasks,      \* what the executor started for each caller
          queue,      \* of the pool
          answer,     \* the results a caller got
          faults

vars == <<executor, fate, waits, running, status, tasks, queue, answer, faults>>

\* "rejected"    the condition of its subscription fails
\* "unloadable"  its command cannot be made of the message
\* "unbound"     a dependency is missing when it is called
Fates == {"fits", "rejected", "unloadable", "unbound"}
Ended == {"returned", "raised", "cancelled"}
Events == {c \in Callers \ Commands : HandlersOf[c] # <<>>}

\* Defect: the handler of a command takes a thread too.
PooledCommands == {h \in Handlers : \E c \in Callers : h \in Range(HandlersOf[c])}

\* The handlers in the pool, on the threads of which they stay till they end.
Pooled == {h \in Handlers : \E c \in Events : h \in Range(HandlersOf[c])}
Busy == {h \in Pooled : status[h] \in {"running", "waiting", "after"}}

TypeOK ==
  /\ executor \in Executors
  /\ fate \in [Handlers -> Fates]
  /\ waits \subseteq Callers
  /\ running \in BOOLEAN
  /\ status \in [Callers -> {"none", "queued", "running", "waiting", "after"} \cup Ended]
  /\ tasks \in [Callers -> Seq(Handlers)]
  /\ queue \in Seq(Pooled)
  /\ executor = "sync" => /\ Range(queue) = {h \in Handlers : status[h] = "queued"}
                          /\ Cardinality(Busy) <= Workers
  /\ answer \in [Callers -> Seq(Ended)]
  /\ faults \in 0..MaxFaults

\* Fewer handlers of the pool wait for an event's results than the pool has threads:
\* with as many, all of them may wait for handlers that no thread is left to run.
Init ==
  /\ executor \in Executors
  /\ fate \in {f \in [Handlers -> Fates] :
                Cardinality({h \in Handlers : f[h] # "fits"}) <= MaxMisfits}
  /\ waits \in {W \in SUBSET (Events \cup Commands) :
                 Cardinality((W \cap Events) \ {Main}) < Workers}
  /\ running = TRUE
  /\ status = [c \in Callers |-> IF c = Main THEN "running" ELSE "none"]
  /\ tasks = [c \in Callers |-> <<>>]
  /\ queue = <<>>
  /\ answer = [c \in Callers |-> <<>>]
  /\ faults = 0

-----------------------------------------------------------------------------
(* Application.handle.                                                     *)

\* ICondition.check, of a subscription to an event.
Passes(h) == fate[h] # "rejected"

\* The command type of the handler can be made of the message.
Loads(h) == fate[h] # "unloadable"

\* Defect: the first handler that cannot be resolved ends the search.
ResolvedUntil(c) ==
  LET fits(i) == \A j \in 1..i : LET h == HandlersOf[c][j]
                                IN  (c \in Commands \/ Passes(h)) /\ Loads(h)
  IN  SubSeq(HandlersOf[c], 1, Cardinality({i \in DOMAIN HandlersOf[c] : fits(i)}))

\* The handlers of a message; one of an event whose condition fails, or that raises
\* when it is resolved, is left out.
Resolved(c) ==
  LET found[n \in 0..Len(HandlersOf[c])] ==
        IF n = 0 THEN <<>>
        ELSE LET h == HandlersOf[c][n]
             IN  IF (c \in Commands \/ Passes(h)) /\ Loads(h)
                 THEN Append(found[n - 1], h)
                 ELSE found[n - 1]
  IN  found[Len(HandlersOf[c])]

\* What AsyncExecutor starts before it calls a handler that cannot be called.
Callable(hs) ==
  LET bound == {n \in 0..Len(hs) : \A i \in 1..n : fate[hs[i]] # "unbound"}
  IN  SubSeq(hs, 1, Cardinality(bound) - 1)

\* The application refuses, no module has a handler for the command, or the command
\* cannot be loaded: the caller gets an error.
HandleRaises(c) ==
  /\ status[c] = "running" /\ HandlersOf[c] # <<>>
  /\ \/ ~running
     \/ c \in Commands /\ Resolved(c) = <<>>
  /\ status' = [status EXCEPT ![c] = "after"]
  /\ UNCHANGED <<executor, fate, waits, running, tasks, queue, answer, faults>>

\* SyncExecutor.process_handler: the caller's thread runs the handler.
HandleInline(c) ==
  /\ status[c] = "running" /\ running
  /\ executor = "sync" /\ c \in Commands /\ Resolved(c) # <<>>
  /\ tasks' = [tasks EXCEPT ![c] = Resolved(c)]
  /\ status' = [status EXCEPT ![c] = "waiting", ![HandlersOf[c][1]] = "running"]
  /\ UNCHANGED <<executor, fate, waits, running, queue, answer, faults>>

\* Handlers hs are to run, and caller c reads their results or goes on.
Started(c, hs) ==
  /\ tasks' = [tasks EXCEPT ![c] = hs]
  /\ status' = [x \in Callers |->
                  IF x \in Range(hs) THEN "queued"
                  ELSE IF x # c THEN status[x]
                  ELSE IF c \in waits THEN "waiting" ELSE "after"]

\* SyncExecutor.process_handlers.
HandlePooled(c) ==
  /\ status[c] = "running" /\ running
  /\ executor = "sync" /\ c \in Events
  /\ Started(c, Resolved(c))
  /\ queue' = queue \o Resolved(c)
  /\ UNCHANGED <<executor, fate, waits, running, answer, faults>>

\* AsyncExecutor, when every handler can be called.
HandleTasks(c) ==
  /\ status[c] = "running" /\ running
  /\ executor = "async"
  /\ c \in Events \/ (c \in Commands /\ Resolved(c) # <<>>)
  /\ Callable(Resolved(c)) = Resolved(c)
  /\ Started(c, Resolved(c))
  /\ UNCHANGED <<executor, fate, waits, running, queue, answer, faults>>

\* The call of one raises, the ones before it have their tasks: the caller gets the
\* error, and the results nobody.
HandleTasksRaises(c) ==
  LET hs == Callable(Resolved(c))
  IN  /\ status[c] = "running" /\ running
      /\ executor = "async"
      /\ hs # Resolved(c)
      /\ tasks' = [tasks EXCEPT ![c] = hs]
      /\ status' = [x \in Callers |-> IF x \in Range(hs) THEN "queued"
                                      ELSE IF x = c THEN "after" ELSE status[x]]
      /\ UNCHANGED <<executor, fate, waits, running, queue, answer, faults>>

-----------------------------------------------------------------------------
(* The executors.                                                          *)

\* Defect: the handler stays in the queue.
StartUnpopped(h) ==
  /\ status[h] = "queued"
  /\ status' = [status EXCEPT ![h] = "running"]
  /\ executor = "sync" => h = Head(queue) /\ Cardinality(Busy) < Workers
  /\ UNCHANGED <<executor, fate, waits, running, tasks, queue, answer, faults>>

\* A thread of the pool takes the first of the queue; the event loop any task.
Start(h) ==
  /\ status[h] = "queued"
  /\ status' = [status EXCEPT ![h] = "running"]
  /\ IF executor = "sync" THEN /\ h = Head(queue) /\ Cardinality(Busy) < Workers
                               /\ queue' = Tail(queue)
                          ELSE UNCHANGED queue
  /\ UNCHANGED <<executor, fate, waits, running, tasks, answer, faults>>

\* The body ends, before its call or after it.  An exception is the result; so is the
\* TypeError of a dependency that is missing.
Finish(c) ==
  /\ status[c] \in {"running", "after"}
  /\ \E end \in {"returned", "raised"} :
        /\ c \in Handlers /\ fate[c] = "unbound" => end = "raised"
        /\ status' = [status EXCEPT ![c] = end]
  /\ UNCHANGED <<executor, fate, waits, running, tasks, queue, answer, faults>>

\* A task ends with CancelledError.
Cancel(h) ==
  /\ executor = "async" /\ faults < MaxFaults
  /\ status[h] \in {"queued", "running", "waiting", "after"}
  /\ faults' = faults + 1
  /\ status' = [status EXCEPT ![h] = "cancelled"]
  /\ UNCHANGED <<executor, fate, waits, running, tasks, queue, answer>>

\* Defect: gather without return_exceptions is over at the first exception.
AnsweredEarly(c) ==
  LET ends == {status[h] : h \in Range(tasks[c])}
  IN  IF executor = "async" THEN "raised" \in ends \/ ends \subseteq {"returned"}
                            ELSE ends \subseteq Ended

\* All that the caller waits for has ended.  The done callback of a command's task
\* raises when that was cancelled, and leaves the future as it is.
Answered(c) ==
  {status[h] : h \in Range(tasks[c])} \subseteq
    IF executor = "async" /\ c \in Commands THEN {"returned", "raised"} ELSE Ended

\* The caller gets its results, in the order of the handlers.
Resume(c) ==
  /\ status[c] = "waiting" /\ Answered(c)
  /\ status' = [status EXCEPT ![c] = "after"]
  /\ answer' = [answer EXCEPT ![c] = [i \in DOMAIN tasks[c] |-> status[tasks[c][i]]]]
  /\ UNCHANGED <<executor, fate, waits, running, tasks, queue, faults>>

StopApplication ==
  /\ running
  /\ running' = FALSE
  /\ UNCHANGED <<executor, fate, waits, status, tasks, queue, answer, faults>>

-----------------------------------------------------------------------------
Handle(c) ==
  \/ HandleRaises(c) \/ HandleInline(c) \/ HandlePooled(c)
  \/ HandleTasks(c) \/ HandleTasksRaises(c)

Next ==
  \/ StopApplication
  \/ \E c \in Callers : Handle(c) \/ Finish(c) \/ Resume(c)
  \/ \E h \in Handlers : Start(h) \/ Cancel(h)

Spec == Init /\ [][Next]_vars

(***************************************************************************)
(* FAIRNESS.  The threads and the event loop go on, and the body of a      *)
(* handler ends; no task has to be cancelled.                              *)
(***************************************************************************)
FairSpec ==
  /\ Spec
  /\ \A c \in Callers : WF_vars(Finish(c)) /\ WF_vars(Resume(c))
  /\ \A h \in Handlers : WF_vars(Start(h))

-----------------------------------------------------------------------------
(* Properties.                                                             *)

\* The handler of a command was cancelled: the future of its caller stays pending.
CommandCancelled ==
  executor = "async" /\ \E c \in Commands : \E h \in Range(tasks[c]) : status[h] = "cancelled"

\* What an executor could do next for c: run its body, give it its results, or give it
\* a thread.
CanGoOn(c) ==
  \/ status[c] \in {"running", "after"}
  \/ status[c] = "waiting" /\ Answered(c)
  \/ status[c] = "queued" /\ (executor = "sync" => c = Head(queue) /\ Cardinality(Busy) < Workers)

\* c waits for the command whose handler was cancelled, and will for ever.
Abandoned(c) ==
  /\ executor = "async" /\ c \in Commands /\ status[c] = "waiting"
  /\ \E h \in Range(tasks[c]) : status[h] = "cancelled"

\* As long as anybody waits, for results or for a thread, somebody can go on: callers and
\* handlers never all wait for each other, in whatever tree of calls, as fewer handlers
\* wait for the results of an event than the pool has threads, and those that wait for
\* a command run its handler themselves; but for the one whom a cancellation abandoned.
NoDeadlock ==
  \/ \A c \in Callers : status[c] \notin {"waiting", "queued"}
  \/ \E c \in Callers : CanGoOn(c) \/ Abandoned(c)

\* What a caller was told of its handlers stays true: each of them ran once, for this
\* caller, and ended as the answer says, at its place.
AnswersAreTrue ==
  \A c \in Callers : answer[c] # <<>> =>
    /\ DOMAIN answer[c] = DOMAIN tasks[c]
    /\ \A i \in DOMAIN tasks[c] : answer[c][i] = status[tasks[c][i]]

\* An event reaches every handler that fits it, and each of them comes to its end,
\* whatever becomes of the others: one that is not resolved takes none with it, nor
\* does, in the pool, one whose call raises, and handlers that wait for handlers never
\* use up the threads of the pool, as long as fewer wait than there are threads.  (A
\* task that cannot be made keeps AsyncExecutor from making the next.)
EveryFitHandlerEnds ==
  \A c \in Events : \A h \in Range(HandlersOf[c]) :
    (running /\ status[c] \in {"waiting", "after"} /\ Passes(h) /\ Loads(h))
      ~> \/ status[h] \in Ended \/ CommandCancelled
         \/ executor = "async" /\ \E x \in Range(HandlersOf[c]) : fate[x] = "unbound"

=============================================================================
