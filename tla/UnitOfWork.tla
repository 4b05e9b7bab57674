------------------------------ MODULE UnitOfWork ------------------------------
(***************************************************************************)
(* Units of work (pyddd.infrastructure.persistence.uow): context managers  *)
(* that take a lock, build a repository, let a handler change and apply    *)
(* it, and give the lock back.                                             *)
(*                                                                         *)
(* Each unit is one `with uow_builder(key) as uow:` of some task (async    *)
(* with) or thread.  The units use context managers of one lock key;       *)
(* several may share a manager object.  Tasks take turns at their awaits,  *)
(* threads anywhere: they come between the test of _in_context and its     *)
(* assignment.  The locker is the application's own, and excludes others   *)
(* while a unit holds it.  A handler reads what is stored, changes it and  *)
(* applies the result; what is stored is kept as the sequence of the units *)
(* it comes from.                                                          *)
(***************************************************************************)
EXTENDS Naturals, Sequences, FiniteSets

CONSTANTS Units,        \* uses of a context manager
          Managers,     \* the context managers of one lock key
          Modes,        \* "async", "sync": tasks, or threads
          MaxFaults,    \* BOUND: locks and builders that fail
          Nobody        \* the holder of a free lock

ASSUME UnitsAssumption == Nobody \notin Units
ASSUME ModesAssumption == Modes \subseteq {"async", "sync"}
ASSUME BoundsAssumption == MaxFaults \in Nat

VARIABLES mode,         \* never changes
          manager,      \* the manager of each unit; never changes
          inContext,    \* _in_context of each manager
          uow,          \* _uow: the unit a manager last built a repository for
          holder,       \* the unit that holds the lock
          pc,           \* where each unit is
          read,         \* what its repository read
          stored,       \* what is stored
          faults

vars == <<mode, manager, inContext, uow, holder, pc, read, stored, faults>>

Ended == {"refused", "unlocked", "unbuilt", "exited", "unreleased"}
Inside == {"entered", "loaded", "applied"}

TypeOK ==
  /\ mode \in Modes
  /\ manager \in [Units -> Managers]
  /\ inContext \in [Managers -> BOOLEAN]
  /\ uow \in [Managers -> Units \cup {Nobody}]
  /\ holder \in Units \cup {Nobody}
  /\ pc \in [Units -> {"idle", "tested", "locking", "building", "releasing"} \cup Inside \cup Ended]
  /\ read \in [Units -> Seq(Units)]
  /\ stored \in Seq(Units)
  /\ faults \in 0..MaxFaults

Init ==
  /\ mode \in Modes
  /\ manager \in [Units -> Managers]
  /\ inContext = [m \in Managers |-> FALSE]
  /\ uow = [m \in Managers |-> Nobody]
  /\ holder = Nobody
  /\ pc = [u \in Units |-> "idle"]
  /\ read = [u \in Units |-> <<>>]
  /\ stored = <<>>
  /\ faults = 0

Goto(u, place) == pc' = [pc EXCEPT ![u] = place]
Fault == faults < MaxFaults /\ faults' = faults + 1

-----------------------------------------------------------------------------
(* __enter__ and __aenter__.                                               *)

\* Defect: a manager may be entered while another unit is in its context.
EnterAlways(u) ==
  /\ pc[u] = "idle"
  /\ Goto(u, "locking")
  /\ inContext' = [inContext EXCEPT ![manager[u]] = TRUE]
  /\ UNCHANGED <<mode, manager, uow, holder, read, stored, faults>>

\* The test of _in_context: RuntimeError, already enter to context.  A task goes on
\* to the assignment at once, a thread may be interrupted there.
Enter(u) ==
  /\ pc[u] = "idle"
  /\ \/ inContext[manager[u]] /\ Goto(u, "refused") /\ UNCHANGED inContext
     \/ /\ ~inContext[manager[u]] /\ mode = "async"
        /\ Goto(u, "locking")
        /\ inContext' = [inContext EXCEPT ![manager[u]] = TRUE]
     \/ /\ ~inContext[manager[u]] /\ mode = "sync"
        /\ Goto(u, "tested") /\ UNCHANGED inContext
  /\ UNCHANGED <<mode, manager, uow, holder, read, stored, faults>>

\* The assignment of _in_context by a thread.
SetContext(u) ==
  /\ pc[u] = "tested"
  /\ Goto(u, "locking")
  /\ inContext' = [inContext EXCEPT ![manager[u]] = TRUE]
  /\ UNCHANGED <<mode, manager, uow, holder, read, stored, faults>>

\* Defect: the builder ignores its locker and uses the NullLocker.
LockNull(u) ==
  /\ pc[u] = "locking"
  /\ holder' = u
  /\ Goto(u, "building")
  /\ UNCHANGED <<mode, manager, inContext, uow, read, stored, faults>>

Lock(u) ==
  /\ pc[u] = "locking" /\ holder = Nobody
  /\ holder' = u
  /\ Goto(u, "building")
  /\ UNCHANGED <<mode, manager, inContext, uow, read, stored, faults>>

\* The locker raises, or the task is cancelled while it waits: the exception
\* leaves the manager in its context for ever.
LockRaises(u) ==
  /\ pc[u] = "locking" /\ Fault
  /\ Goto(u, "unlocked")
  /\ UNCHANGED <<mode, manager, inContext, uow, holder, read, stored>>

\* Defect: the manager hands itself out.
BuildSelf(u) ==
  /\ pc[u] = "building"
  /\ uow' = [uow EXCEPT ![manager[u]] = manager[u]]
  /\ Goto(u, "entered")
  /\ UNCHANGED <<mode, manager, inContext, holder, read, stored, faults>>

\* The repository builder is called, and its result passes the test of its type.
Build(u) ==
  /\ pc[u] = "building"
  /\ uow' = [uow EXCEPT ![manager[u]] = u]
  /\ Goto(u, "entered")
  /\ UNCHANGED <<mode, manager, inContext, holder, read, stored, faults>>

\* The builder raises, or what it returns is no repository (TypeError): nobody
\* calls __exit__, and the lock stays taken.
BuildRaises(u) ==
  /\ pc[u] = "building" /\ Fault
  /\ Goto(u, "unbuilt")
  /\ UNCHANGED <<mode, manager, inContext, uow, holder, read, stored>>

-----------------------------------------------------------------------------
(* The handler's body, and __exit__ and __aexit__.                         *)

\* The repository reads what is stored; the handler changes it in memory.
Load(u) ==
  /\ pc[u] = "entered"
  /\ read' = [read EXCEPT ![u] = stored]
  /\ Goto(u, "loaded")
  /\ UNCHANGED <<mode, manager, inContext, uow, holder, stored, faults>>

\* uow.apply(): the repository commits.
Apply(u) ==
  /\ pc[u] = "loaded"
  /\ stored' = Append(read[u], u)
  /\ Goto(u, "applied")
  /\ UNCHANGED <<mode, manager, inContext, uow, holder, read, faults>>

\* Defect: the lock is given back only after the changes were applied.
ExitUnreleased(u) ==
  /\ pc[u] \in Inside
  /\ inContext' = [inContext EXCEPT ![manager[u]] = FALSE]
  /\ Goto(u, IF pc[u] = "applied" THEN "releasing" ELSE "exited")
  /\ UNCHANGED <<mode, manager, uow, holder, read, stored, faults>>

\* The body is over, or raised, whether it applied its changes or not: the manager
\* leaves its context before the locker is left.
Exit(u) ==
  /\ pc[u] \in Inside
  /\ inContext' = [inContext EXCEPT ![manager[u]] = FALSE]
  /\ Goto(u, "releasing")
  /\ UNCHANGED <<mode, manager, uow, holder, read, stored, faults>>

Release(u) ==
  /\ pc[u] = "releasing"
  /\ holder' = Nobody
  /\ Goto(u, "exited")
  /\ UNCHANGED <<mode, manager, inContext, uow, read, stored, faults>>

\* The locker raises when it is left, or the task is cancelled there, before or after
\* the lock was free.
ReleaseRaises(u) ==
  /\ pc[u] = "releasing" /\ Fault
  /\ holder' \in {u, Nobody}
  /\ Goto(u, "unreleased")
  /\ UNCHANGED <<mode, manager, inContext, uow, read, stored>>

-----------------------------------------------------------------------------
Step(u) ==
  \/ Enter(u) \/ SetContext(u) \/ Lock(u) \/ Build(u) \/ Load(u) \/ Apply(u) \/ Exit(u) \/ Release(u)

Next == \E u \in Units : Step(u) \/ LockRaises(u) \/ BuildRaises(u) \/ ReleaseRaises(u)

Spec == Init /\ [][Next]_vars

\* A task or thread that can go on does, and the locker is fair to those that
\* wait for it: whenever the lock is free again and again, a waiter gets it.
FairSpec == Spec /\ \A u \in Units : WF_vars(Step(u)) /\ SF_vars(Lock(u))

-----------------------------------------------------------------------------
(* Properties.                                                             *)

\* The units change what is stored one after the other, each on top of all that were
\* before it, although the manager leaves its context before it gives the lock back and
\* failed units leave locks and managers behind (__enter__, __exit__).
Serial == INSTANCE SerialUnits

SerialSpec == Serial!Spec

\* What the body of a unit finds in its manager is its own: _uow is the one that was
\* built for it, and no other body is in the manager, even after two threads passed the
\* test of _in_context together.  Tasks don't: as long as one is inside, the manager
\* lets no other in, not even to wait for the lock (__enter__, __aenter__, __exit__).
ManagerIsMine ==
  \A u \in Units : pc[u] \in Inside =>
    /\ uow[manager[u]] = u
    /\ \A v \in Units \ {u} : manager[v] = manager[u] => pc[v] \notin Inside
    /\ mode = "async" =>
         /\ inContext[manager[u]]
         /\ \A v \in Units \ {u} :
              manager[v] = manager[u] => pc[v] \notin {"locking", "building"}

\* A lock outlives its unit only when the unit's repository could not be built, or
\* the locker itself failed to give it back.
LocksComeBack ==
  holder # Nobody =>
    pc[holder] \in Inside \cup {"building", "releasing", "unbuilt", "unreleased"}

\* As long as no builder that raises and no locker that fails leaves the lock behind,
\* each unit that starts comes to its end.
UnitsEnd ==
  [](\A u \in Units : pc[u] \in {"unbuilt", "unreleased"} => holder # u) =>
    \A u \in Units : pc[u] # "idle" ~> pc[u] \in Ended

=============================================================================
