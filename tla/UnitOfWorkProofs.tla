--------------------------- MODULE UnitOfWorkProofs ---------------------------
(***************************************************************************)
(* Proofs about UnitOfWork, for every number of units and of managers that *)
(* they share, and however many locks and builders fail.                   *)
(***************************************************************************)
EXTENDS UnitOfWork, TLAPS

\* The places from which a unit has its manager: it was let in and did not leave.
Within == {"locking", "building", "unlocked", "unbuilt"} \cup Inside
\* The places at which a unit has the lock.
Locking == {"building", "releasing", "unbuilt"} \cup Inside

\* Whoever is where only the lock lets it be holds the lock: there is one such unit.
HoldersLock == \A u \in Units : pc[u] \in Locking => holder = u

\* A manager with a task in its context is marked, and has no other task there.
ManagersMarked ==
  mode = "async" =>
    /\ \A u \in Units : pc[u] # "tested"
    /\ \A u \in Units : pc[u] \in Within =>
         /\ inContext[manager[u]]
         /\ \A v \in Units \ {u} : manager[v] = manager[u] => pc[v] \notin Within

\* What a manager hands out was built for the unit inside.
HandsOutMine == \A u \in Units : pc[u] \in Inside => uow[manager[u]] = u

\* Between its read and its change nobody changes what the unit read.
ReadsCurrent == \A u \in Units : pc[u] = "loaded" => read[u] = stored

IInv ==
  /\ TypeOK
  /\ HoldersLock
  /\ LocksComeBack
  /\ ManagersMarked
  /\ HandsOutMine
  /\ ReadsCurrent

\* Init, and each step, keep the types (UnitOfWorkCtxMgr).
LEMMA TypesKept == /\ Init => TypeOK
                   /\ TypeOK /\ [Next]_vars => TypeOK'
<1>1. Init => TypeOK
  BY BoundsAssumption DEF Init, TypeOK
<1>2. ASSUME TypeOK, [Next]_vars PROVE TypeOK'
  <2> USE <1>2 DEF TypeOK, Inside, Ended, Goto
  <2>1. ASSUME NEW u \in Units, Enter(u) PROVE TypeOK'
    BY <2>1 DEF Enter
  <2>2. ASSUME NEW u \in Units, Lock(u) PROVE TypeOK'
    BY <2>2 DEF Lock
  <2>3. ASSUME NEW u \in Units, Build(u) PROVE TypeOK'
    BY <2>3 DEF Build
  <2>4. ASSUME NEW u \in Units, Load(u) PROVE TypeOK'
    BY <2>4 DEF Load
  <2>5. ASSUME NEW u \in Units, Apply(u) PROVE TypeOK'
    BY <2>5 DEF Apply
  <2>6. ASSUME NEW u \in Units, Exit(u) PROVE TypeOK'
    BY <2>6 DEF Exit
  <2>7. ASSUME NEW u \in Units, Release(u) PROVE TypeOK'
    BY <2>7 DEF Release
  <2>8. ASSUME NEW u \in Units, LockRaises(u) PROVE TypeOK'
    BY <2>8, BoundsAssumption DEF LockRaises, Fault
  <2>9. ASSUME NEW u \in Units, BuildRaises(u) PROVE TypeOK'
    BY <2>9, BoundsAssumption DEF BuildRaises, Fault
  <2>10. ASSUME NEW u \in Units, SetContext(u) PROVE TypeOK'
    BY <2>10 DEF SetContext
  <2>11. ASSUME NEW u \in Units, ReleaseRaises(u) PROVE TypeOK'
    BY <2>11, BoundsAssumption DEF ReleaseRaises, Fault
  <2>12. CASE UNCHANGED vars
    BY <2>12 DEF vars
  <2> QED
    BY <2>1, <2>2, <2>3, <2>4, <2>5, <2>6, <2>7, <2>8, <2>9, <2>10, <2>11, <2>12
    DEF Next, Step
<1> QED
  BY <1>1, <1>2

\* Nothing is held before the units start (UnitOfWorkCtxMgr.__init__).
LEMMA InitInv == Init => IInv
<1> SUFFICES ASSUME Init PROVE IInv
  OBVIOUS
<1>1. TypeOK
  BY TypesKept
<1>2. \A u \in Units : pc[u] = "idle"
  BY DEF Init
<1> QED
  BY <1>1, <1>2 DEF IInv, Init, HoldersLock, LocksComeBack, ManagersMarked, HandsOutMine,
     ReadsCurrent, Within, Locking, Inside

\* Each step of a unit keeps the lock and the managers with one unit each.
LEMMA NextInv == IInv /\ [Next]_vars => IInv'
<1> SUFFICES ASSUME IInv, [Next]_vars PROVE IInv'
  OBVIOUS
<1>0. TypeOK'
  BY TypesKept DEF IInv
<1> USE UnitsAssumption, <1>0 DEF IInv, Goto, Inside, Within, Locking
<1>1. ASSUME NEW u \in Units, Enter(u) PROVE IInv'
  <2>1. (HoldersLock /\ LocksComeBack /\ HandsOutMine /\ ReadsCurrent)'
    BY <1>1 DEF Enter, TypeOK, HoldersLock, LocksComeBack, HandsOutMine, ReadsCurrent
  <2>2. CASE inContext[manager[u]] \/ mode = "sync"
    BY <1>1, <2>1, <2>2 DEF Enter, TypeOK, ManagersMarked
  <2>3. CASE ~inContext[manager[u]] /\ mode = "async"
    <3>1. /\ inContext' = [inContext EXCEPT ![manager[u]] = TRUE]
          /\ pc' = [pc EXCEPT ![u] = "locking"]
          /\ pc[u] = "idle"
          /\ UNCHANGED <<mode, manager, uow, holder, read, stored, faults>>
      BY <1>1, <2>3 DEF Enter
    <3>2. \A v \in Units : manager[v] = manager[u] => pc[v] \notin Within
      BY <2>3 DEF ManagersMarked
    <3>3. ManagersMarked'
      BY <3>1, <3>2 DEF TypeOK, ManagersMarked
    <3> QED
      BY <2>1, <3>3
  <2> QED
    BY <1>1, <2>2, <2>3 DEF Enter
<1>2. ASSUME NEW u \in Units, Lock(u) PROVE IInv'
  <2>1. \A v \in Units : pc[v] \notin Locking
    BY <1>2 DEF Lock, HoldersLock
  <2>2. (HoldersLock /\ LocksComeBack)'
    BY <1>2, <2>1 DEF Lock, TypeOK, HoldersLock, LocksComeBack
  <2>3. (ManagersMarked /\ HandsOutMine /\ ReadsCurrent)'
    BY <1>2 DEF Lock, TypeOK, ManagersMarked, HandsOutMine, ReadsCurrent
  <2> QED
    BY <2>2, <2>3
<1>3. ASSUME NEW u \in Units, Build(u) PROVE IInv'
  <2>1. (HoldersLock /\ LocksComeBack /\ ManagersMarked /\ ReadsCurrent)'
    BY <1>3 DEF Build, TypeOK, HoldersLock, LocksComeBack, ManagersMarked, ReadsCurrent
  <2>2. \A v \in Units \ {u} : pc[v] \notin Inside
    BY <1>3 DEF Build, HoldersLock
  <2>3. HandsOutMine'
    BY <1>3, <2>2 DEF Build, TypeOK, HandsOutMine
  <2> QED
    BY <2>1, <2>3
<1>4. ASSUME NEW u \in Units, Load(u) PROVE IInv'
  BY <1>4 DEF Load, TypeOK, HoldersLock, LocksComeBack, ManagersMarked, HandsOutMine,
     ReadsCurrent
<1>5. ASSUME NEW u \in Units, Apply(u) PROVE IInv'
  <2>1. \A v \in Units \ {u} : pc[v] # "loaded"
    BY <1>5 DEF Apply, HoldersLock
  <2>2. ReadsCurrent'
    BY <1>5, <2>1 DEF Apply, TypeOK, ReadsCurrent
  <2>3. (HoldersLock /\ LocksComeBack /\ ManagersMarked /\ HandsOutMine)'
    BY <1>5 DEF Apply, TypeOK, HoldersLock, LocksComeBack, ManagersMarked, HandsOutMine
  <2> QED
    BY <2>2, <2>3
<1>6. ASSUME NEW u \in Units, Exit(u) PROVE IInv'
  <2>1. mode = "async" =>
          \A v \in Units \ {u} : manager[v] = manager[u] => pc[v] \notin Within
    BY <1>6 DEF Exit, ManagersMarked
  <2>2. ManagersMarked'
    BY <1>6, <2>1 DEF Exit, TypeOK, ManagersMarked
  <2>3. (HoldersLock /\ LocksComeBack /\ HandsOutMine /\ ReadsCurrent)'
    BY <1>6 DEF Exit, TypeOK, HoldersLock, LocksComeBack, HandsOutMine, ReadsCurrent
  <2> QED
    BY <2>2, <2>3
<1>7. ASSUME NEW u \in Units, Release(u) PROVE IInv'
  <2>1. \A v \in Units \ {u} : pc[v] \notin Locking
    BY <1>7 DEF Release, HoldersLock
  <2>2. (HoldersLock /\ LocksComeBack)'
    BY <1>7, <2>1 DEF Release, TypeOK, HoldersLock, LocksComeBack, Ended
  <2>3. (ManagersMarked /\ HandsOutMine /\ ReadsCurrent)'
    BY <1>7 DEF Release, TypeOK, ManagersMarked, HandsOutMine, ReadsCurrent
  <2> QED
    BY <2>2, <2>3
<1>8. ASSUME NEW u \in Units, LockRaises(u) PROVE IInv'
  BY <1>8 DEF LockRaises, TypeOK, HoldersLock, LocksComeBack, ManagersMarked, HandsOutMine,
     ReadsCurrent
<1>9. ASSUME NEW u \in Units, BuildRaises(u) PROVE IInv'
  BY <1>9 DEF BuildRaises, TypeOK, HoldersLock, LocksComeBack, ManagersMarked,
     HandsOutMine, ReadsCurrent
<1>10. ASSUME NEW u \in Units, SetContext(u) PROVE IInv'
  BY <1>10 DEF SetContext, TypeOK, HoldersLock, LocksComeBack, ManagersMarked, HandsOutMine,
     ReadsCurrent
<1>11. ASSUME NEW u \in Units, ReleaseRaises(u) PROVE IInv'
  <2>1. \A v \in Units \ {u} : pc[v] \notin Locking
    BY <1>11 DEF ReleaseRaises, HoldersLock
  <2>2. (HoldersLock /\ LocksComeBack)'
    BY <1>11, <2>1 DEF ReleaseRaises, TypeOK, HoldersLock, LocksComeBack, Ended
  <2>3. (ManagersMarked /\ HandsOutMine /\ ReadsCurrent)'
    BY <1>11 DEF ReleaseRaises, TypeOK, ManagersMarked, HandsOutMine, ReadsCurrent
  <2> QED
    BY <2>2, <2>3
<1>12. CASE UNCHANGED vars
  BY <1>12 DEF vars, TypeOK, HoldersLock, LocksComeBack, ManagersMarked, HandsOutMine,
     ReadsCurrent
<1> QED
  BY <1>1, <1>2, <1>3, <1>4, <1>5, <1>6, <1>7, <1>8, <1>9, <1>10, <1>11, <1>12 DEF Next, Step

\* The strengthened invariant holds in every state.
LEMMA IInvHolds == Spec => []IInv
  BY InitInv, NextInv, PTL DEF Spec

\* Every state has the types of TypeOK (UnitOfWorkCtxMgr).
THEOREM UnitsTyped == Spec => []TypeOK
<1>1. IInv => TypeOK
  BY DEF IInv
<1> QED
  BY <1>1, IInvHolds, PTL

\* What the body of a unit finds in its manager is its own, in threads by the lock, in
\* tasks by the manager's mark too (__enter__, __aenter__, _in_context).
THEOREM ManagersSound == Spec => []ManagerIsMine
<1>1. IInv => ManagerIsMine
  <2> SUFFICES ASSUME IInv, NEW u \in Units, pc[u] \in Inside
               PROVE  /\ uow[manager[u]] = u
                      /\ \A v \in Units \ {u} : manager[v] = manager[u] => pc[v] \notin Inside
                      /\ mode = "async" =>
                           /\ inContext[manager[u]]
                           /\ \A v \in Units \ {u} :
                                manager[v] = manager[u] => pc[v] \notin {"locking", "building"}
    BY DEF ManagerIsMine
  <2>1. uow[manager[u]] = u
    BY DEF IInv, HandsOutMine
  <2>2. \A v \in Units \ {u} : pc[v] \notin Inside
    BY DEF IInv, HoldersLock, Locking
  <2>3. mode = "async" =>
          /\ inContext[manager[u]]
          /\ \A v \in Units \ {u} :
               manager[v] = manager[u] => pc[v] \notin {"locking", "building"}
    BY DEF IInv, ManagersMarked, Within
  <2> QED
    BY <2>1, <2>2, <2>3
<1> QED
  BY <1>1, IInvHolds, PTL

\* A lock outlives its unit only when its repository could not be built or the locker
\* failed (__enter__, __exit__).
THEOREM LocksReturned == Spec => []LocksComeBack
<1>1. IInv => LocksComeBack
  BY DEF IInv
<1> QED
  BY <1>1, IInvHolds, PTL

\* A step changes what is stored as the next unit of the abstract specification does, or
\* not at all: Apply is the only one that does, on what the unit read, which is current.
LEMMA StepSimulation == IInv /\ [Next]_vars => [Serial!Next]_stored
<1> SUFFICES ASSUME IInv, [Next]_vars PROVE [Serial!Next]_stored
  OBVIOUS
<1>1. ASSUME NEW u \in Units, Apply(u) PROVE Serial!Next
  <2>1. stored' = Append(stored, u)
    BY <1>1 DEF Apply, IInv, ReadsCurrent
  <2> QED
    BY <2>1 DEF Serial!Next, Serial!Change
<1>2. ASSUME NEW u \in Units,
             Enter(u) \/ SetContext(u) \/ Lock(u) \/ Build(u) \/ Load(u) \/ Exit(u)
               \/ Release(u) \/ LockRaises(u) \/ BuildRaises(u) \/ ReleaseRaises(u)
      PROVE UNCHANGED stored
  BY <1>2 DEF Enter, SetContext, Lock, Build, Load, Exit, Release, LockRaises, BuildRaises,
     ReleaseRaises
<1>3. CASE UNCHANGED vars
  BY <1>3 DEF vars
<1> QED
  BY <1>1, <1>2, <1>3 DEF Next, Step

\* The units change what is stored one after the other: UnitOfWork implements SerialUnits.
THEOREM ImplementsSerial == Spec => SerialSpec
<1>1. Init => Serial!Init
  BY DEF Init, Serial!Init
<1> QED
  BY <1>1, IInvHolds, StepSimulation, PTL DEF Spec, SerialSpec, Serial!Spec

=============================================================================
