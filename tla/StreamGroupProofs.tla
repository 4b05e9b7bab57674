--------------------------- MODULE StreamGroupProofs ---------------------------
(***************************************************************************)
(* Proofs about StreamGroup, for any number of consumers and entries, any  *)
(* size of batches, and however many crashes, stops and faults.            *)
(***************************************************************************)
EXTENDS StreamGroup, FiniteSetTheorems, WellFoundedInduction, SequenceTheorems, TLAPS

Busy == {"called", "handling", "acking"}

\* Redis knows no pending entry that it did not deliver.
Delivered ==
  /\ ~Grouped => delivered = 0
  /\ \A i \in Ids : owner[i] # Nobody => i <= delivered

\* A process that is up has made the group; one that does not run yet has done nothing
\* else, and one that does not hold a reply has none.
Unbegun(k) ==
  /\ app[k] # "down" => Grouped
  /\ app[k] \in {"down", "bound"} =>
       poll[k] = "idle" /\ \A i \in Ids : tasks[k][i] = "none"
  /\ poll[k] # "replied" => reply[k] = {}

\* What a consumer has in a reply is pending, its own, and later than all its tasks.
Fresh(k) ==
  \A i \in reply[k] :
    /\ owner[i] = k
    /\ tasks[k][i] = "none" /\ \A j \in Ids : tasks[k][j] # "none" => j < i
    /\ cursor[k] # New => i > cursor[k]

\* A reply from the backlog leaves nothing out between the tracker and its last entry.
Gapless(k) ==
  poll[k] = "replied" /\ cursor[k] # New =>
    \A i \in Ids : owner[i] = k /\ i > cursor[k] /\ i \notin reply[k] =>
      reply[k] # {} /\ \A j \in reply[k] : j < i

\* Who has a task for an entry has the entry, until it is settled; the tracker is
\* past it, and it is settled only after it was handled.
Owned(k) ==
  \A i \in Ids :
    /\ tasks[k][i] # "none" =>
         i <= delivered /\ owner[i] \in {k, Nobody} /\ (cursor[k] # New => i <= cursor[k])
    /\ tasks[k][i] \in Busy => owner[i] = k
    /\ tasks[k][i] = "acking" /\ topic[i] = "good" => i \in handled

\* NothingForgotten of one consumer.
Remembered(k) ==
  app[k] # "down" =>
    \A i \in Ids : owner[i] = k =>
      \/ tasks[k][i] # "none"
      \/ i \in reply[k] \cup lost[k]
      \/ cursor[k] # New /\ i > cursor[k]

Sound(k) == Unbegun(k) /\ Fresh(k) /\ Gapless(k) /\ Owned(k) /\ Remembered(k)

IInv == TypeOK /\ Delivered /\ NotShared /\ \A k \in Consumers : Sound(k)

-----------------------------------------------------------------------------
(* Batches of ids.                                                         *)

\* Some ids have a first one.
LEMMA First ==
  ASSUME NEW N \in Nat, NEW S \in SUBSET (1..N), S # {}
  PROVE  \E m \in S : \A i \in S : m <= i
<1> DEFINE Below == {1..i : i \in S}
<1>1. Below \subseteq FiniteSubsetsOf(Nat) /\ Below # {}
  <2>1. ASSUME NEW i \in S PROVE 1..i \in FiniteSubsetsOf(Nat)
    <3>1. i \in Int /\ 1..i \subseteq Nat
      OBVIOUS
    <3> QED
      BY <3>1, FS_Interval DEF FiniteSubsetsOf
  <2> QED
    BY <2>1
<1>2. PICK b \in Below : \A c \in Below : <<c, b>> \notin StrictSubsetOrdering(Nat)
  BY <1>1, FS_StrictSubsetOrderingWellFounded, WFMin
<1>3. PICK m \in S : b = 1..m
  BY <1>2
<1>4. ASSUME NEW i \in S, i < m PROVE FALSE
  <2>1. 1..i \subseteq 1..m /\ m \in 1..m /\ m \notin 1..i /\ 1..m \subseteq Nat
    BY <1>4
  <2>2. <<1..i, b>> \in StrictSubsetOrdering(Nat)
    BY <1>3, <2>1 DEF StrictSubsetOrdering
  <2> QED
    BY <1>2, <2>2
<1> QED
  BY <1>4

\* And a last one.
LEMMA Last ==
  ASSUME NEW N \in Nat, NEW S \in SUBSET (1..N), S # {}
  PROVE  \E m \in S : \A i \in S : i <= m
<1> DEFINE T == {N + 1 - i : i \in S}
<1>1. T \in SUBSET (1..N) /\ T # {}
  <2>1. \A i \in S : i \in 1..N /\ N + 1 - i \in 1..N
    OBVIOUS
  <2>2. PICK i \in S : TRUE
    OBVIOUS
  <2> QED
    BY <2>1, <2>2
<1>2. PICK t \in T : \A u \in T : t <= u
  BY <1>1, First
<1>3. PICK m \in S : t = N + 1 - m
  BY <1>2
<1>4. \A i \in S : N + 1 - i \in T
  OBVIOUS
<1>5. \A i \in S : i <= m
  BY <1>2, <1>3, <1>4
<1> QED
  BY <1>5

\* The smallest n of some ids come before the others, and there are some.
LEMMA SmallestFirst ==
  ASSUME NEW N \in Nat, NEW S \in SUBSET (1..N), NEW n \in Nat \ {0}
  PROVE  /\ Smallest(n, S) \subseteq S
         /\ \A i \in S \ Smallest(n, S) :
              Smallest(n, S) # {} /\ \A j \in Smallest(n, S) : j < i
<1> DEFINE Before(i) == {j \in S : j < i}
<1>1. IsFiniteSet(S)
  <2>1. IsFiniteSet(1..N)
    BY FS_Interval
  <2> QED
    BY <2>1, FS_Subset
<1>2. \A i \in S : IsFiniteSet(Before(i)) /\ Cardinality(Before(i)) \in Nat
  BY <1>1, FS_Subset, FS_CardinalityType
<1>3. ASSUME NEW i \in S \ Smallest(n, S), NEW j \in Smallest(n, S) PROVE j < i
  <2>1. i \in S /\ j \in S /\ Cardinality(Before(j)) < n /\ ~(Cardinality(Before(i)) < n)
    BY <1>3 DEF Smallest
  <2>2. SUFFICES ASSUME i <= j PROVE FALSE
    BY <2>1
  <2>3. Before(i) \in SUBSET Before(j)
    <3>1. \A h \in S : h \in 1..N
      OBVIOUS
    <3>2. \A h \in S : h < i => h < j
      BY <2>1, <2>2, <3>1
    <3> QED
      BY <3>2
  <2>4. Cardinality(Before(i)) <= Cardinality(Before(j))
    BY <1>2, <2>1, <2>3, FS_Subset
  <2> HIDE DEF Before
  <2> QED
    BY <1>2, <2>1, <2>4
<1>4. ASSUME S # {} PROVE Smallest(n, S) # {}
  <2>1. PICK m \in S : \A i \in S : m <= i
    BY <1>4, First
  <2>2. Before(m) = {}
    <3>1. \A i \in S : i \in 1..N
      OBVIOUS
    <3>2. ASSUME NEW j \in S, j < m PROVE FALSE
      BY <2>1, <3>1, <3>2
    <3> QED
      BY <3>2
  <2>3. Cardinality(Before(m)) < n
    BY <2>2, FS_EmptySet
  <2> QED
    BY <2>1, <2>3 DEF Smallest
<1>5. Smallest(n, S) \subseteq S
  BY DEF Smallest
<1> QED
  BY <1>3, <1>4, <1>5

\* The smallest n of the ids from a + 1 are the first of them.
LEMMA NewBatch ==
  ASSUME NEW a \in Nat, NEW b \in Nat, a < b, NEW n \in Nat \ {0}
  PROVE  \E m \in (a + 1)..b : /\ Smallest(n, (a + 1)..b) = (a + 1)..m
                               /\ a + Cardinality(Smallest(n, (a + 1)..b)) = m
<1> DEFINE S == (a + 1)..b
           m == IF a + n < b THEN a + n ELSE b
<1>1. ASSUME NEW i \in S PROVE Cardinality({j \in S : j < i}) = i - 1 - a
  <2>1. {j \in S : j < i} = (a + 1)..(i - 1)
    OBVIOUS
  <2>2. Cardinality((a + 1)..(i - 1)) = i - 1 - a
    BY FS_Interval
  <2> QED
    BY <2>1, <2>2
<1>2. Smallest(n, S) = {i \in S : i - 1 - a < n}
  BY <1>1 DEF Smallest
<1>3. {i \in S : i - 1 - a < n} = (a + 1)..m
  OBVIOUS
<1>4. m \in S /\ Cardinality((a + 1)..m) = m - a
  BY FS_Interval
<1>5. Smallest(n, S) = (a + 1)..m
  BY <1>2, <1>3
<1> HIDE DEF m, S
<1>6. m \in Int
  BY <1>4 DEF S
<1> QED
  BY <1>4, <1>5, <1>6 DEF S

\* The tracker moves to the last id of a batch, and to ">" after an empty one.
LEMMA TrackedLast ==
  ASSUME NEW N \in Nat, NEW S \in SUBSET (1..N)
  PROVE  /\ S = {} => Tracked(S) = New
         /\ S # {} => Tracked(S) \in S /\ \A i \in S : i <= Tracked(S)
BY Last DEF Tracked

-----------------------------------------------------------------------------
(* The invariant.                                                          *)

\* Each step keeps the types (both packages).
LEMMA TypesKept == ASSUME TypeOK, [Next]_vars PROVE TypeOK'
<1> USE BoundsAssumption, ConstantsAssumption DEF TypeOK, Ids
<1>1. CASE Publish
  <2>1. topic' \in Seq(Kinds) /\ Len(topic') = Len(topic) + 1 /\ Len(topic) \in Nat
    BY <1>1, AppendProperties, LenProperties DEF Publish
  <2> QED
    BY <1>1, <2>1 DEF Publish, Added
<1>2. Added \in Nat
  BY LenProperties DEF Added
<1>3. ASSUME NEW k \in Consumers, Life(k) \/ BeginStop(k) \/ Crash(k) PROVE TypeOK'
  <2>1. CASE Bind(k)
    BY <1>2, <2>1 DEF Bind, Added, NoGroup
  <2>2. CASE Run(k) \/ EndStop(k)
    BY <2>2 DEF Run, EndStop, redis, Added
  <2>3. CASE BeginStop(k)
    <3>1. CASE transport = "async"
      <4>1. /\ reply' \in [Consumers -> SUBSET Ids] /\ lost' \in [Consumers -> SUBSET Ids]
            /\ poll' \in [Consumers -> {"idle", "waiting", "replied"}]
        <5>1. reply[k] \in SUBSET Ids /\ lost[k] \in SUBSET Ids
          OBVIOUS
        <5>2. lost' = [lost EXCEPT ![k] = lost[k] \cup reply[k]]
          BY <2>3, <3>1 DEF BeginStop
        <5>3. lost' \in [Consumers -> SUBSET Ids]
          BY <5>1, <5>2
        <5> QED
          BY <2>3, <3>1, <5>3 DEF BeginStop
      <4>2. restarts' \in 0..MaxRestarts
        BY <2>3 DEF BeginStop
      <4> QED
        BY <2>3, <4>1, <4>2 DEF BeginStop, redis, Added
    <3>2. CASE transport # "async"
      BY <2>3, <3>2 DEF BeginStop, redis, Added
    <3> QED
      BY <3>1, <3>2
  <2>4. CASE Exit(k) \/ Crash(k)
    <3>1. NoTasks \in [Ids -> Phases]
      BY DEF NoTasks, Phases
    <3>2. restarts' \in 0..MaxRestarts
      BY <2>4 DEF Exit, Crash
    <3>3. Forget(k)
      BY <2>4 DEF Exit, Crash
    <3>4. tasks' \in [Consumers -> [Ids -> Phases]]
      BY <3>1, <3>3 DEF Forget
    <3>5. /\ reply' \in [Consumers -> SUBSET Ids] /\ lost' \in [Consumers -> SUBSET Ids]
          /\ poll' \in [Consumers -> {"idle", "waiting", "replied"}]
      BY <3>3 DEF Forget
    <3> QED
      BY <3>2, <3>3, <3>4, <3>5 DEF Forget, redis, Added
  <2> QED
    BY <1>3, <2>1, <2>2, <2>3, <2>4 DEF Life
<1>4. ASSUME NEW k \in Consumers, SendRead(k) \/ LoseReply(k) PROVE TypeOK'
  <2>1. CASE SendRead(k)
    BY <2>1 DEF SendRead, redis, Added
  <2>2. CASE LoseReply(k)
    <3>1. lost' \in [Consumers -> SUBSET Ids] /\ faults' \in 0..MaxFaults
      BY <2>2 DEF LoseReply
    <3> QED
      BY <2>2, <3>1 DEF LoseReply, redis, Added
  <2> QED
    BY <1>4, <2>1, <2>2
<1>5. ASSUME NEW k \in Consumers, ServeHistory(k) PROVE TypeOK'
  <2>1. reply' \in [Consumers -> SUBSET Ids]
    BY <1>5 DEF ServeHistory, Smallest, Pending
  <2> QED
    BY <1>5, <2>1 DEF ServeHistory, redis, Added
<1>6. ASSUME NEW k \in Consumers, ServeNew(k) PROVE TypeOK'
  <2> DEFINE batch == Smallest(BatchSize, (delivered + 1)..Added)
  <2>1. PICK m \in (delivered + 1)..Added :
          batch = (delivered + 1)..m /\ delivered + Cardinality(batch) = m
    BY <1>2, <1>6, NewBatch DEF ServeNew
  <2>2. batch \in SUBSET Ids
    BY <1>2, <2>1 DEF Added
  <2> QED
    BY <1>2, <1>6, <2>1, <2>2 DEF ServeNew, Added
<1>7. ASSUME NEW k \in Consumers, Receive(k) PROVE TypeOK'
  <2>1. Tracked(reply[k]) \in 0..MaxMessages \cup {New}
    <3>1. reply[k] \in SUBSET (1..MaxMessages) /\ MaxMessages \in Nat
      OBVIOUS
    <3>2. reply[k] # {} => Tracked(reply[k]) \in reply[k]
      BY <3>1, TrackedLast
    <3>3. reply[k] = {} => Tracked(reply[k]) = New
      BY DEF Tracked
    <3> QED
      BY <3>1, <3>2, <3>3
  <2>2. tasks' \in [Consumers -> [Ids -> Phases]]
    BY <1>7 DEF Receive, Phases
  <2> QED
    BY <1>7, <2>1, <2>2 DEF Receive, redis, Added
<1>8. ASSUME NEW k \in Consumers, NEW i \in Ids, Task(k, i) \/ Fault(k, i) PROVE TypeOK'
  <2>1. \A phase \in Phases : Phase(k, i, phase) => tasks' \in [Consumers -> [Ids -> Phases]]
    BY DEF Phase
  <2>2. {"acking", "handling", "over"} \subseteq Phases /\ Answered \in Phases
    BY DEF Phases, Answered
  <2>3. CASE Handle(k, i)
    BY <2>1, <2>2, <2>3 DEF Handle, redis, Added
  <2>4. CASE Finish(k, i)
    BY <2>1, <2>2, <2>4 DEF Finish, redis, Added
  <2>5. CASE Ack(k, i)
    BY <2>1, <2>2, <2>5 DEF Ack, Added
  <2>6. CASE HandlersFail(k, i)
    BY <2>1, <2>2, <2>6 DEF HandlersFail, redis, Added
  <2>7. CASE AckFails(k, i)
    <3>1. owner' \in [Ids -> Consumers \cup {Nobody}] /\ faults' \in 0..MaxFaults
      BY <2>7 DEF AckFails
    <3> QED
      BY <2>1, <2>2, <2>7, <3>1 DEF AckFails, Added
  <2> QED
    BY <1>8, <2>3, <2>4, <2>5, <2>6, <2>7 DEF Task, Fault
<1>9. CASE UNCHANGED vars
  BY <1>9 DEF vars, Added
<1> QED
  BY <1>1, <1>3, <1>4, <1>5, <1>6, <1>7, <1>8, <1>9 DEF Next, Loop

\* What a step of k leaves to another consumer l: its process, its pending entries, and
\* what is settled.
Left(l) ==
  /\ app'[l] = app[l] /\ cursor'[l] = cursor[l] /\ poll'[l] = poll[l]
  /\ reply'[l] = reply[l] /\ tasks'[l] = tasks[l] /\ lost'[l] = lost[l]

Kept(k) ==
  /\ Grouped => Grouped'
  /\ delivered <= delivered'
  /\ handled \subseteq handled'
  /\ \A i \in Ids : i <= delivered => topic'[i] = topic[i]
  /\ \A i \in Ids : owner[i] = Nobody /\ i <= delivered => owner'[i] = Nobody
  /\ \A i \in Ids, l \in Consumers \ {k} : owner'[i] = l <=> owner[i] = l
  /\ \A l \in Consumers \ {k} : Left(l)

\* Then the other consumer is as sound as it was.
LEMMA OthersSound ==
  ASSUME TypeOK, TypeOK', NEW k, Kept(k), NEW l \in Consumers \ {k}, Sound(l)
  PROVE  Sound(l)'
<1> USE ConstantsAssumption DEF Sound
<1>1. Left(l) /\ \A i \in Ids : owner'[i] = l <=> owner[i] = l
  BY DEF Kept
<1>2. reply[l] \subseteq Ids /\ delivered \in Nat /\ delivered' \in Nat
  BY LenProperties DEF TypeOK, Added
<1>3. Unbegun(l)'
  BY <1>1 DEF Left, Unbegun, Kept
<1>4. Fresh(l)'
  BY <1>1, <1>2 DEF Left, Fresh
<1>5. Gapless(l)'
  BY <1>1 DEF Left, Gapless
<1>6. Owned(l)'
  <2> SUFFICES ASSUME NEW i \in Ids
               PROVE  /\ tasks'[l][i] # "none" =>
                           /\ i <= delivered' /\ owner'[i] \in {l, Nobody}
                           /\ cursor'[l] # New => i <= cursor'[l]
                      /\ tasks'[l][i] \in Busy => owner'[i] = l
                      /\ tasks'[l][i] = "acking" /\ topic'[i] = "good" => i \in handled'
    BY DEF Owned
  <2>1. i \in Nat
    BY BoundsAssumption DEF Ids
  <2>2. tasks'[l] = tasks[l] /\ cursor'[l] = cursor[l] /\ owner'[i] = l <=> owner[i] = l
    BY <1>1 DEF Left
  <2>3. CASE tasks[l][i] = "none"
    BY <1>1, <2>3 DEF Left, Busy
  <2>4. CASE tasks[l][i] # "none"
    <3>1. i <= delivered /\ owner[i] \in {l, Nobody} /\ (cursor[l] # New => i <= cursor[l])
      BY <2>4 DEF Owned
    <3>2. i <= delivered' /\ topic'[i] = topic[i] /\ handled \subseteq handled'
          /\ (owner[i] = Nobody => owner'[i] = Nobody)
      BY <1>2, <2>1, <3>1 DEF Kept
    <3> QED
      BY <1>1, <3>1, <3>2 DEF Left, Owned
  <2> QED
    BY <2>3, <2>4
<1>7. Remembered(l)'
  BY <1>1 DEF Left, Remembered
<1> QED
  BY <1>3, <1>4, <1>5, <1>6, <1>7

\* The start of a process, its stop and its end, planned or not.
LEMMA LifeKept ==
  ASSUME IInv, TypeOK', NEW k \in Consumers, Life(k) \/ BeginStop(k) \/ Crash(k)
  PROVE  Delivered' /\ Kept(k) /\ Sound(k)' /\ tasks'[k] \in {tasks[k], NoTasks}
<1> USE ConstantsAssumption, BoundsAssumption DEF Kept, Left
<1>1. /\ Sound(k) /\ Delivered /\ TypeOK /\ Added \in Nat
      /\ delivered \in Nat /\ reply[k] \subseteq Ids /\ Ids \subseteq Nat \ {0}
  BY LenProperties DEF IInv, TypeOK, Added, Ids
<1>2. CASE Bind(k)
  <2>1. /\ app[k] = "down" /\ app'[k] = "bound" /\ cursor'[k] = 0
        /\ UNCHANGED <<topic, owner, poll, reply, tasks, lost, handled>>
    BY <1>1, <1>2 DEF Bind, TypeOK
  <2>2. Delivered' /\ Kept(k) /\ Grouped'
    <3>1. CASE Grouped
      BY <1>1, <1>2, <3>1 DEF Bind, Delivered, TypeOK, Grouped
    <3>2. CASE ~Grouped
      <4>1. delivered' = Added /\ start' = Added /\ start' # NoGroup
        BY <1>1, <1>2, <3>2 DEF Bind, TypeOK, NoGroup
      <4>2. delivered = 0 /\ \A i \in Ids : owner[i] = Nobody
        BY <1>1, <3>2 DEF Delivered
      <4> QED
        BY <1>1, <1>2, <4>1, <4>2 DEF Bind, Delivered, TypeOK, Grouped
    <3> QED
      BY <3>1, <3>2
  <2>3. Unbegun(k)' /\ reply'[k] = {} /\ \A i \in Ids : tasks'[k][i] = "none"
    BY <1>1, <2>1, <2>2 DEF Sound, Unbegun
  <2>4. poll'[k] = "idle"
    BY <1>1, <2>1 DEF Sound, Unbegun
  <2>5. cursor'[k] # New /\ \A i \in Ids : i > cursor'[k]
    <3> HIDE DEF Kept
    <3>1. 0 # New /\ \A i \in Ids : i > 0
      BY <1>1
    <3> QED
      BY <2>1, <3>1
  <2>6. Fresh(k)' /\ Gapless(k)'
    BY <2>3, <2>4 DEF Fresh, Gapless
  <2>7. Owned(k)'
    BY <2>3 DEF Owned, Busy
  <2>8. Remembered(k)'
    BY <2>5 DEF Remembered
  <2> QED
    BY <2>1, <2>2, <2>3, <2>6, <2>7, <2>8 DEF Sound
<1>3. CASE Run(k) \/ EndStop(k)
  <2>1. /\ app[k] \notin {"down", "stopped"} /\ app'[k] \notin {"down", "bound"}
        /\ UNCHANGED <<redis, cursor, poll, reply, tasks, lost, handled>>
    BY <1>1, <1>3 DEF Run, EndStop, TypeOK
  <2>2. Delivered' /\ Kept(k)
    BY <1>1, <1>3 DEF Run, EndStop, redis, Delivered, Grouped, TypeOK
  <2>3. Sound(k)'
    BY <1>1, <2>1 DEF Sound, Unbegun, Fresh, Gapless, Owned, Remembered, Busy, redis, Grouped
  <2> QED
    BY <2>1, <2>2, <2>3
<1>4. CASE BeginStop(k)
  <2>1. /\ app[k] = "running" /\ app'[k] = "stopping"
        /\ UNCHANGED <<redis, cursor, tasks, handled>>
    BY <1>1, <1>4 DEF BeginStop, TypeOK
  <2>2. Delivered' /\ Kept(k)
    BY <1>1, <1>4 DEF BeginStop, redis, Delivered, Grouped, TypeOK
  <2>3. CASE transport = "async"
    <3>1. poll'[k] = "idle" /\ reply'[k] = {} /\ lost'[k] = lost[k] \cup reply[k]
      BY <1>1, <1>4, <2>3 DEF BeginStop, TypeOK
    <3> QED
      BY <1>1, <2>1, <2>2, <3>1
      DEF Sound, Unbegun, Fresh, Gapless, Owned, Remembered, Busy, redis, Grouped
  <2>4. CASE transport # "async"
    <3>1. UNCHANGED <<poll, reply, lost>>
      BY <1>4, <2>4 DEF BeginStop
    <3> QED
      BY <1>1, <2>1, <2>2, <3>1
      DEF Sound, Unbegun, Fresh, Gapless, Owned, Remembered, Busy, redis, Grouped
  <2> QED
    BY <2>3, <2>4
<1>5. CASE Exit(k) \/ Crash(k)
  <2>1. Forget(k)
    BY <1>5 DEF Exit, Crash
  <2>2. /\ app'[k] = "down" /\ poll'[k] = "idle" /\ reply'[k] = {} /\ tasks'[k] = NoTasks
        /\ UNCHANGED <<redis, cursor, handled>>
    BY <1>1, <2>1 DEF Forget, TypeOK
  <2>3. Delivered' /\ Kept(k)
    BY <1>1, <2>1 DEF Forget, redis, Delivered, Grouped, TypeOK
  <2>4. Sound(k)'
    BY <2>2 DEF Sound, Unbegun, Fresh, Gapless, Owned, Remembered, Busy, NoTasks
  <2> QED
    BY <2>2, <2>3, <2>4
<1> QED
  BY <1>2, <1>3, <1>4, <1>5 DEF Life

\* Sending a read, and losing its reply.
LEMMA ReadKept ==
  ASSUME IInv, TypeOK', NEW k \in Consumers, SendRead(k) \/ LoseReply(k)
  PROVE  Delivered' /\ Kept(k) /\ Sound(k)' /\ tasks'[k] = tasks[k]
<1> USE ConstantsAssumption, BoundsAssumption DEF Kept, Left
<1>1. /\ Sound(k) /\ Delivered /\ TypeOK
      /\ delivered \in Nat /\ reply[k] \subseteq Ids /\ Ids \subseteq Nat \ {0}
  BY LenProperties DEF IInv, TypeOK, Added, Ids
<1>2. Delivered' /\ Kept(k)
  BY <1>1 DEF SendRead, LoseReply, redis, Delivered, Grouped, TypeOK
<1>3. CASE SendRead(k)
  <2>1. /\ app[k] = "running" /\ poll[k] = "idle" /\ poll'[k] = "waiting"
        /\ UNCHANGED <<redis, app, cursor, reply, tasks, lost, handled>>
    BY <1>1, <1>3 DEF SendRead, TypeOK
  <2>2. Sound(k)'
    BY <1>1, <2>1 DEF Sound, Unbegun, Fresh, Gapless, Owned, Remembered, Busy, redis, Grouped
  <2> QED
    BY <1>2, <2>1, <2>2
<1>4. CASE LoseReply(k)
  <2>1. /\ poll'[k] = "idle" /\ reply'[k] = {}
        /\ lost'[k] = IF cursor[k] = New THEN lost[k] \cup reply[k] ELSE lost[k]
        /\ UNCHANGED <<redis, app, cursor, tasks, handled>>
    BY <1>1, <1>4 DEF LoseReply, TypeOK
  <2>2. Sound(k)'
    BY <1>1, <2>1 DEF Sound, Unbegun, Fresh, Gapless, Owned, Remembered, Busy, redis, Grouped
  <2> QED
    BY <1>2, <2>1, <2>2
<1> QED
  BY <1>3, <1>4

\* Redis answers with some of the consumer's own backlog, the first of it.
LEMMA HistoryKept ==
  ASSUME IInv, TypeOK', NEW k \in Consumers, ServeHistory(k)
  PROVE  Delivered' /\ Kept(k) /\ Sound(k)' /\ tasks'[k] = tasks[k]
<1> USE ConstantsAssumption, BoundsAssumption DEF Kept, Left
<1>1. /\ Sound(k) /\ Delivered /\ TypeOK
      /\ delivered \in Nat /\ Ids \subseteq Nat \ {0}
  BY LenProperties DEF IInv, TypeOK, Added, Ids
<1> DEFINE backlog == {i \in Pending(k) : i > cursor[k]}
<1>2. Delivered' /\ Kept(k)
  BY <1>1 DEF ServeHistory, redis, Delivered, Grouped, TypeOK
<1>3. /\ poll[k] = "waiting" /\ cursor[k] # New
      /\ poll'[k] = "replied" /\ reply'[k] = Smallest(BatchSize, backlog)
      /\ UNCHANGED <<redis, app, cursor, tasks, lost, handled>>
  BY <1>1 DEF ServeHistory, TypeOK
<1>4. backlog \in SUBSET (1..MaxMessages)
  BY DEF Pending, Ids
<1>5. /\ reply'[k] \subseteq backlog
      /\ \A i \in backlog \ reply'[k] : reply'[k] # {} /\ \A j \in reply'[k] : j < i
  <2>1. MaxMessages \in Nat /\ BatchSize \in Nat \ {0}
    OBVIOUS
  <2> HIDE DEF backlog, Kept
  <2>2. /\ Smallest(BatchSize, backlog) \subseteq backlog
        /\ \A i \in backlog \ Smallest(BatchSize, backlog) :
             /\ Smallest(BatchSize, backlog) # {}
             /\ \A j \in Smallest(BatchSize, backlog) : j < i
    BY <1>4, <2>1, SmallestFirst
  <2> QED
    BY <1>3, <2>2
<1>6. \A i \in Ids : tasks[k][i] # "none" => i <= cursor[k]
  BY <1>1, <1>3 DEF Sound, Owned
<1>7. \A i \in backlog :
        /\ i \in Ids /\ owner[i] = k /\ i > cursor[k] /\ tasks[k][i] = "none"
        /\ \A j \in Ids : tasks[k][j] # "none" => j < i
  <2> SUFFICES ASSUME NEW i \in backlog
               PROVE  /\ i \in Ids /\ owner[i] = k /\ i > cursor[k] /\ tasks[k][i] = "none"
                      /\ \A j \in Ids : tasks[k][j] # "none" => j < i
    OBVIOUS
  <2>1. i \in Ids /\ owner[i] = k /\ i > cursor[k]
    BY DEF Pending
  <2>2. i \in Nat /\ cursor[k] \in Nat
    BY <1>1, <1>3, <2>1 DEF TypeOK
  <2>3. ASSUME NEW j \in Ids, tasks[k][j] # "none" PROVE j < i
    <3>1. j \in Nat /\ j <= cursor[k]
      BY <1>1, <1>6, <2>3
    <3> QED
      BY <2>1, <2>2, <3>1
  <2>4. tasks[k][i] = "none"
    BY <1>6, <2>1, <2>2
  <2> QED
    BY <2>1, <2>3, <2>4
<1>8. \A i \in Ids : owner[i] = k /\ i > cursor[k] => i \in backlog
  BY DEF Pending
<1>9. Unbegun(k)' /\ Owned(k)'
  BY <1>1, <1>3 DEF Sound, Unbegun, Owned, redis, Grouped
<1>10. Fresh(k)'
  BY <1>3, <1>5, <1>7 DEF Fresh, redis
<1>11. Gapless(k)'
  BY <1>3, <1>5, <1>8 DEF Gapless, redis
<1>12. Remembered(k)'
  <2>1. reply[k] = {}
    BY <1>1, <1>3 DEF Sound, Unbegun
  <2> QED
    BY <1>1, <1>3, <2>1 DEF Sound, Remembered, redis
<1> QED
  BY <1>2, <1>3, <1>9, <1>10, <1>11, <1>12 DEF Sound

\* Redis gives a consumer the next entries, without a gap.
LEMMA NewEntries ==
  ASSUME TypeOK, NEW k \in Consumers, ServeNew(k)
  PROVE  \E m \in (delivered + 1)..Added :
           /\ delivered' = m
           /\ reply' = [reply EXCEPT ![k] = (delivered + 1)..m]
           /\ owner' = [i \in Ids |-> IF i \in (delivered + 1)..m THEN k ELSE owner[i]]
<1> DEFINE batch == Smallest(BatchSize, (delivered + 1)..Added)
<1>1. delivered < Added /\ delivered \in Nat /\ Added \in Nat /\ BatchSize \in Nat \ {0}
  BY LenProperties, BoundsAssumption DEF ServeNew, TypeOK, Added
<1>2. PICK m \in (delivered + 1)..Added :
        batch = (delivered + 1)..m /\ delivered + Cardinality(batch) = m
  BY <1>1, NewBatch
<1> QED
  BY <1>2 DEF ServeNew

\* Redis gives the consumer entries that nobody was given.
LEMMA NewKept ==
  ASSUME IInv, TypeOK', NEW k \in Consumers, ServeNew(k)
  PROVE  Delivered' /\ Kept(k) /\ Sound(k)' /\ tasks'[k] = tasks[k]
<1> USE ConstantsAssumption, BoundsAssumption DEF Kept, Left
<1>1. /\ Sound(k) /\ Delivered /\ TypeOK
      /\ delivered \in Nat /\ Added \in Nat /\ Ids \subseteq Nat \ {0}
  BY LenProperties DEF IInv, TypeOK, Added, Ids
<1>2. PICK m \in (delivered + 1)..Added :
        /\ delivered' = m
        /\ reply' = [reply EXCEPT ![k] = (delivered + 1)..m]
        /\ owner' = [i \in Ids |-> IF i \in (delivered + 1)..m THEN k ELSE owner[i]]
  BY <1>1, NewEntries
<1>3. /\ poll[k] = "waiting" /\ cursor[k] = New
      /\ poll'[k] = "replied" /\ reply'[k] = (delivered + 1)..m
      /\ \A l \in Consumers \ {k} : poll'[l] = poll[l] /\ reply'[l] = reply[l]
      /\ UNCHANGED <<topic, start, app, cursor, tasks, lost, handled>>
  BY <1>1, <1>2 DEF ServeNew, TypeOK
<1>4. m \in Nat /\ delivered < m
      /\ \A i \in Ids : i \in (delivered + 1)..m <=> delivered < i /\ i <= m
  BY <1>1, <1>2
<1>5. \A i \in Ids : IF delivered < i /\ i <= m THEN owner[i] = Nobody /\ owner'[i] = k
                                               ELSE owner'[i] = owner[i]
  BY <1>1, <1>2, <1>4 DEF Delivered
<1>6. \A i \in Ids : owner[i] # Nobody => i <= delivered
  BY <1>1 DEF Delivered
<1>7. (delivered + 1)..m \subseteq Ids /\ reply[k] = {} /\ app[k] \notin {"down", "bound"}
  <2>1. Added <= MaxMessages
    BY <1>1 DEF TypeOK
  <2> QED
    BY <1>1, <1>2, <1>3, <2>1 DEF Sound, Unbegun, Ids
<1>8. Delivered'
  <2>1. Grouped
    BY <1>1, <1>7 DEF Sound, Unbegun
  <2> QED
    BY <1>1, <1>2, <1>3, <1>4, <1>5, <1>6, <2>1 DEF Delivered, Grouped
<1>9. Kept(k)
  BY <1>1, <1>2, <1>3, <1>4, <1>5, <1>6 DEF Grouped
<1>10. Unbegun(k)' /\ Gapless(k)'
  BY <1>1, <1>3, <1>7 DEF Sound, Unbegun, Gapless, Grouped
<1>11. \A i \in Ids : tasks[k][i] # "none" => i <= delivered
  BY <1>1 DEF Sound, Owned
<1>12. Fresh(k)'
  BY <1>1, <1>3, <1>4, <1>5, <1>7, <1>11 DEF Fresh
<1>13. Owned(k)'
  BY <1>1, <1>2, <1>3, <1>4, <1>5, <1>11 DEF Sound, Owned, Busy
<1>14. Remembered(k)'
  BY <1>1, <1>3, <1>4, <1>5, <1>7 DEF Sound, Remembered
<1> QED
  BY <1>3, <1>8, <1>9, <1>10, <1>12, <1>13, <1>14 DEF Sound

\* The tracker moves, and each entry of the reply gets a task.
LEMMA ReceiveKept ==
  ASSUME IInv, TypeOK', NEW k \in Consumers, Receive(k)
  PROVE  /\ Delivered' /\ Kept(k) /\ Sound(k)'
         /\ \A i \in Ids : tasks'[k][i] # tasks[k][i] => tasks[k][i] = "none" /\ owner[i] = k
<1> USE ConstantsAssumption, BoundsAssumption
<1>1. /\ Sound(k) /\ Delivered /\ TypeOK
      /\ delivered \in Nat /\ reply[k] \in SUBSET Ids /\ Ids \subseteq Nat \ {0}
  BY LenProperties DEF IInv, TypeOK, Added, Ids
<1>2. Delivered' /\ Kept(k)
  BY <1>1 DEF Receive, redis, Delivered, Grouped, TypeOK, Kept, Left
<1>3. /\ poll[k] = "replied" /\ poll'[k] = "idle" /\ reply'[k] = {}
      /\ cursor'[k] = Tracked(reply[k])
      /\ \A i \in Ids : tasks'[k][i] = IF i \in reply[k] THEN "called" ELSE tasks[k][i]
      /\ UNCHANGED <<redis, app, lost, handled>>
  BY <1>1 DEF Receive, TypeOK
<1>4. /\ reply[k] = {} => cursor'[k] = New
      /\ reply[k] # {} => cursor'[k] \in reply[k] /\ \A i \in reply[k] : i <= cursor'[k]
  <2>1. reply[k] \in SUBSET (1..MaxMessages)
    BY <1>1 DEF Ids
  <2>2. /\ reply[k] = {} => Tracked(reply[k]) = New
        /\ reply[k] # {} =>
             Tracked(reply[k]) \in reply[k] /\ \A i \in reply[k] : i <= Tracked(reply[k])
    BY <2>1, TrackedLast
  <2> QED
    BY <1>3, <2>2
<1>5. \A i \in reply[k] :
        /\ owner[i] = k /\ tasks[k][i] = "none" /\ (cursor[k] # New => i > cursor[k])
        /\ \A j \in Ids : tasks[k][j] # "none" => j < i
  BY <1>1 DEF Sound, Fresh
<1>6. Unbegun(k)' /\ Fresh(k)' /\ Gapless(k)'
  BY <1>1, <1>3 DEF Sound, Unbegun, Fresh, Gapless, redis, Grouped
<1>7. Owned(k)'
  <2> SUFFICES ASSUME NEW i \in Ids
               PROVE  /\ tasks'[k][i] # "none" =>
                           /\ i <= delivered /\ owner[i] \in {k, Nobody}
                           /\ cursor'[k] # New => i <= cursor'[k]
                      /\ tasks'[k][i] \in Busy => owner[i] = k
                      /\ tasks'[k][i] = "acking" /\ topic[i] = "good" => i \in handled
    BY <1>3 DEF Owned, redis
  <2>1. CASE i \in reply[k]
    BY <1>1, <1>3, <1>4, <1>5, <2>1 DEF Delivered
  <2>2. CASE i \notin reply[k]
    <3>1. tasks'[k][i] = tasks[k][i]
      BY <1>3, <2>2
    <3>2. ASSUME tasks[k][i] # "none", cursor'[k] # New PROVE i <= cursor'[k]
      <4>1. cursor'[k] \in Ids /\ cursor'[k] \in reply[k]
        BY <1>1, <1>4, <3>2
      <4>2. i < cursor'[k]
        BY <1>5, <3>2, <4>1
      <4>3. i \in Nat /\ cursor'[k] \in Nat
        BY <1>1, <4>1
      <4> QED
        BY <4>2, <4>3
    <3> QED
      BY <1>1, <3>1, <3>2 DEF Sound, Owned
  <2> QED
    BY <2>1, <2>2
<1>8. Remembered(k)'
  <2> SUFFICES ASSUME app[k] # "down", NEW i \in Ids, owner[i] = k, tasks'[k][i] = "none",
                      i \notin lost[k]
               PROVE  cursor'[k] # New /\ i > cursor'[k]
    BY <1>3 DEF Remembered, redis
  <2>1. tasks[k][i] = "none" /\ i \notin reply[k]
    BY <1>3
  <2>2. cursor[k] # New /\ i > cursor[k]
    BY <1>1, <2>1 DEF Sound, Remembered
  <2>3. reply[k] # {} /\ \A j \in reply[k] : j < i
    BY <1>1, <1>3, <2>1, <2>2 DEF Sound, Gapless
  <2>4. cursor'[k] \in reply[k]
    BY <1>4, <2>3
  <2>5. cursor'[k] \in Nat /\ cursor'[k] < i /\ i \in Nat
    BY <1>1, <2>3, <2>4
  <2> QED
    BY <2>5
<1>9. \A i \in Ids : tasks'[k][i] # tasks[k][i] => tasks[k][i] = "none" /\ owner[i] = k
  BY <1>3, <1>5
<1> QED
  BY <1>2, <1>6, <1>7, <1>8, <1>9 DEF Sound

\* A task or thread goes on, by itself or with a fault, and may settle its own entry.
LEMMA TaskKept ==
  ASSUME IInv, TypeOK', NEW k \in Consumers, NEW i \in Ids, Task(k, i) \/ Fault(k, i)
  PROVE  /\ Delivered' /\ Kept(k) /\ Sound(k)'
         /\ \A j \in Ids : tasks'[k][j] # "none" => tasks[k][j] # "none"
<1> USE ConstantsAssumption, BoundsAssumption
<1>1. /\ Sound(k) /\ Delivered /\ TypeOK
      /\ delivered \in Nat /\ reply[k] \in SUBSET Ids /\ Ids \subseteq Nat \ {0}
  BY LenProperties DEF IInv, TypeOK, Added, Ids
<1>2. /\ tasks[k][i] \in Busy /\ tasks'[k][i] \in {"handling", "acking", "over"}
      /\ \A j \in Ids \ {i} : tasks'[k][j] = tasks[k][j]
      /\ \A l \in Consumers \ {k} : tasks'[l] = tasks[l]
      /\ UNCHANGED <<topic, start, delivered, app, cursor, poll, reply, lost>>
  <2>1. \A phase : Phase(k, i, phase) =>
          /\ tasks'[k][i] = phase
          /\ \A j \in Ids \ {i} : tasks'[k][j] = tasks[k][j]
          /\ \A l \in Consumers \ {k} : tasks'[l] = tasks[l]
    BY <1>1 DEF Phase, TypeOK
  <2>2. CASE Handle(k, i)
    BY <2>1, <2>2 DEF Handle, Busy, redis
  <2>3. CASE Finish(k, i)
    BY <2>1, <2>3 DEF Finish, Answered, Busy, redis
  <2>4. CASE HandlersFail(k, i)
    BY <2>1, <2>4 DEF HandlersFail, Busy, redis
  <2>5. CASE Ack(k, i)
    BY <2>1, <2>5 DEF Ack, Busy
  <2>6. CASE AckFails(k, i)
    BY <2>1, <2>6 DEF AckFails, Busy
  <2> QED
    BY <2>2, <2>3, <2>4, <2>5, <2>6 DEF Task, Fault
<1>3. /\ owner'[i] \in {owner[i], Nobody} /\ (owner'[i] # owner[i] => tasks'[k][i] = "over")
      /\ \A j \in Ids \ {i} : owner'[j] = owner[j]
      /\ handled \subseteq handled'
      /\ tasks'[k][i] = "acking" /\ topic[i] = "good" => i \in handled'
  <2>1. CASE Handle(k, i)
    BY <1>1, <2>1 DEF Handle, Phase, TypeOK, redis
  <2>2. CASE Finish(k, i)
    BY <1>1, <2>2 DEF Finish, redis
  <2>3. CASE HandlersFail(k, i)
    BY <1>1, <2>3 DEF HandlersFail, Phase, TypeOK, redis
  <2>4. CASE Ack(k, i)
    BY <1>1, <2>4 DEF Ack, Phase, TypeOK
  <2>5. CASE AckFails(k, i)
    BY <1>1, <2>5 DEF AckFails, Phase, TypeOK
  <2> QED
    BY <2>1, <2>2, <2>3, <2>4, <2>5 DEF Task, Fault
<1>4. owner[i] = k /\ k # Nobody
  BY <1>1, <1>2 DEF Sound, Owned
<1>5. Delivered' /\ Kept(k)
  <2>1. Delivered'
    BY <1>1, <1>2, <1>3 DEF Delivered, Grouped
  <2>2. Kept(k)
    BY <1>1, <1>2, <1>3, <1>4 DEF Kept, Left, Grouped
  <2> QED
    BY <2>1, <2>2
<1>6. i \notin reply[k]
  BY <1>1, <1>2 DEF Sound, Fresh, Busy
<1>7. \A j \in Ids : tasks'[k][j] # "none" <=> tasks[k][j] # "none"
  BY <1>2 DEF Busy
<1>8. Unbegun(k)' /\ Fresh(k)'
  BY <1>1, <1>2, <1>3, <1>6, <1>7 DEF Sound, Unbegun, Fresh, Grouped
<1>9. Gapless(k)'
  BY <1>1, <1>2, <1>3, <1>4 DEF Sound, Gapless
<1>10. Owned(k)'
  <2>1. \A j \in Ids \ {i} :
          /\ tasks'[k][j] = tasks[k][j] /\ owner'[j] = owner[j]
          /\ tasks[k][j] = "acking" /\ topic[j] = "good" => j \in handled'
    BY <1>1, <1>2, <1>3 DEF Sound, Owned
  <2>2. /\ i <= delivered /\ owner'[i] \in {k, Nobody} /\ (cursor[k] # New => i <= cursor[k])
        /\ tasks'[k][i] \in Busy => owner'[i] = k
    BY <1>1, <1>2, <1>3, <1>4 DEF Sound, Owned, Busy
  <2> QED
    BY <1>1, <1>2, <1>3, <2>1, <2>2 DEF Sound, Owned
<1>11. Remembered(k)'
  BY <1>1, <1>2, <1>3, <1>4, <1>7 DEF Sound, Remembered
<1> QED
  BY <1>5, <1>7, <1>8, <1>9, <1>10, <1>11 DEF Sound

\* A new entry disturbs no consumer; here Nobody takes the step.
LEMMA PublishKept ==
  ASSUME IInv, TypeOK', Publish
  PROVE  Delivered' /\ Kept(Nobody) /\ UNCHANGED tasks
<1>1. /\ Len(topic) \in Nat /\ delivered \in 0..Len(topic)
      /\ \A i \in 1..Len(topic) : topic'[i] = topic[i]
  BY AppendProperties, LenProperties DEF IInv, TypeOK, Publish, Added
<1>2. Ids \subseteq Nat \ {0}
  BY BoundsAssumption DEF Ids
<1>3. \A i \in Ids : i <= delivered => topic'[i] = topic[i]
  BY <1>1, <1>2
<1>4. UNCHANGED <<start, delivered, owner, app, cursor, poll, reply, tasks, lost, handled>>
  BY DEF Publish
<1> QED
  BY <1>1, <1>3, <1>4 DEF IInv, Delivered, Kept, Left, Grouped

\* One consumer takes each step; it begins only entries that it has.
LEMMA StepKept ==
  ASSUME IInv, TypeOK', Next
  PROVE  \E k \in Consumers \cup {Nobody} :
           /\ Delivered' /\ Kept(k)
           /\ k \in Consumers =>
                /\ Sound(k)'
                /\ \A i \in Ids : tasks'[k][i] # "none" => tasks[k][i] # "none" \/ owner[i] = k
<1> USE ConstantsAssumption
<1>1. CASE Publish
  BY <1>1, PublishKept
<1>2. ASSUME NEW k \in Consumers, Life(k) \/ BeginStop(k) \/ Crash(k)
      PROVE  /\ Delivered' /\ Kept(k) /\ Sound(k)'
             /\ \A i \in Ids : tasks'[k][i] # "none" => tasks[k][i] # "none" \/ owner[i] = k
  BY <1>2, LifeKept DEF NoTasks
<1>3. ASSUME NEW k \in Consumers, Loop(k) \/ LoseReply(k)
      PROVE  /\ Delivered' /\ Kept(k) /\ Sound(k)'
             /\ \A i \in Ids : tasks'[k][i] # "none" => tasks[k][i] # "none" \/ owner[i] = k
  BY <1>3, ReadKept, HistoryKept, NewKept, ReceiveKept DEF Loop
<1>4. ASSUME NEW k \in Consumers, NEW i \in Ids, Task(k, i) \/ Fault(k, i)
      PROVE  /\ Delivered' /\ Kept(k) /\ Sound(k)'
             /\ \A j \in Ids : tasks'[k][j] # "none" => tasks[k][j] # "none" \/ owner[j] = k
  BY <1>4, TaskKept
<1> QED
  BY <1>1, <1>2, <1>3, <1>4 DEF Next

\* No two consumers have a task for one entry: it is pending for one of them.
LEMMA SharedKept ==
  ASSUME IInv, NEW k \in Consumers \cup {Nobody}, Kept(k),
         k \in Consumers =>
           \A i \in Ids : tasks'[k][i] # "none" => tasks[k][i] # "none" \/ owner[i] = k
  PROVE  NotShared'
<1> SUFFICES ASSUME NEW i \in Ids, NEW a \in Consumers, NEW b \in Consumers, a # b,
                    tasks'[a][i] # "none", tasks'[b][i] # "none"
             PROVE  FALSE
  BY DEF NotShared
<1>1. \A l \in Consumers \ {k} : tasks'[l] = tasks[l]
  BY DEF Kept, Left
<1>2. \A l \in Consumers : tasks[l][i] # "none" => owner[i] \in {l, Nobody}
  BY DEF IInv, Sound, Owned
<1>3. ~(tasks[a][i] # "none" /\ tasks[b][i] # "none")
  BY DEF IInv, NotShared
<1>4. CASE k = a
  BY <1>1, <1>2, <1>3, <1>4, ConstantsAssumption
<1>5. CASE k = b
  BY <1>1, <1>2, <1>3, <1>5, ConstantsAssumption
<1>6. CASE k \notin {a, b}
  BY <1>1, <1>3, <1>6
<1> QED
  BY <1>4, <1>5, <1>6

\* At the start there is neither a group nor a process.
LEMMA InitInv == Init => IInv
<1> SUFFICES ASSUME Init PROVE IInv
  OBVIOUS
<1> USE BoundsAssumption, ConstantsAssumption
<1>1. topic = <<>> /\ topic \in Seq(Kinds) /\ Len(topic) = 0
  BY EmptySeq DEF Init
<1>2. NoTasks \in [Ids -> Phases] /\ start \in 0..NoGroup /\ ~Grouped
  BY DEF Init, NoTasks, Phases, NoGroup, Grouped
<1>3. TypeOK
  BY <1>1, <1>2 DEF Init, TypeOK, Added
<1>4. Delivered /\ NotShared
  BY DEF Init, Delivered, NotShared, NoTasks
<1>5. ASSUME NEW k \in Consumers PROVE Sound(k)
  BY <1>2 DEF Init, Sound, Unbegun, Fresh, Gapless, Owned, Remembered, NoTasks, Busy
<1> QED
  BY <1>3, <1>4, <1>5 DEF IInv

\* The strengthened invariant holds in every state.
LEMMA IInvHolds == Spec => []IInv
<1>1. ASSUME IInv, [Next]_vars PROVE IInv'
  <2>1. TypeOK'
    BY <1>1, TypesKept DEF IInv
  <2>2. CASE Next
    <3>1. PICK k \in Consumers \cup {Nobody} :
            /\ Delivered' /\ Kept(k)
            /\ k \in Consumers =>
                 /\ Sound(k)'
                 /\ \A i \in Ids : tasks'[k][i] # "none" => tasks[k][i] # "none" \/ owner[i] = k
      BY <1>1, <2>1, <2>2, StepKept
    <3>2. \A l \in Consumers \ {k} : Sound(l)'
      BY <1>1, <2>1, <3>1, OthersSound DEF IInv
    <3>3. NotShared'
      BY <1>1, <3>1, SharedKept
    <3> QED
      BY <2>1, <3>1, <3>2, <3>3 DEF IInv
  <2>3. CASE UNCHANGED vars
    BY <1>1, <2>1, <2>3
    DEF vars, IInv, Delivered, NotShared, Sound, Unbegun, Fresh, Gapless, Owned, Remembered, Grouped
  <2> QED
    BY <1>1, <2>2, <2>3
<1> QED
  BY <1>1, InitInv, PTL DEF Spec

-----------------------------------------------------------------------------
(* What it gives.                                                          *)

\* Every state has the types of TypeOK (both packages).
THEOREM GroupTyped == Spec => []TypeOK
<1>1. IInv => TypeOK
  BY DEF IInv
<1> QED
  BY <1>1, IInvHolds, PTL

\* No pending entry of a consumer that is up is overlooked: it has a task, is in a reply,
\* was lost with one, or is ahead of the tracker (GroupStreamHandler.read).
THEOREM NothingIsForgotten == Spec => []NothingForgotten
<1>1. IInv => NothingForgotten
  BY DEF IInv, TypeOK, Sound, Remembered, NothingForgotten, Pending
<1> QED
  BY <1>1, IInvHolds, PTL

\* No two consumers work on one entry, however often they start again (bind).
THEOREM WorkIsNotShared == Spec => []NotShared
<1>1. IInv => NotShared
  BY DEF IInv
<1> QED
  BY <1>1, IInvHolds, PTL

\* One process never takes an entry twice (read, _long_pull).
THEOREM DispatchedAtMostOnce == Spec => DispatchedOnce
<1>1. IInv /\ [Next]_vars =>
        [\A k \in Consumers, i \in Ids :
           tasks[k][i] # "none" => tasks'[k][i] # "called" \/ tasks[k][i] = "called"]_vars
  <2> SUFFICES ASSUME IInv, Next, NEW k \in Consumers, NEW i \in Ids,
                      tasks[k][i] \notin {"none", "called"}
               PROVE  tasks'[k][i] # "called"
    OBVIOUS
  <2>1. TypeOK /\ tasks \in [Consumers -> [Ids -> Phases]]
    BY DEF IInv, TypeOK
  <2>2. ASSUME NEW l \in Consumers, Receive(l) PROVE tasks'[k][i] # "called"
    <3>1. i \in reply[k] => tasks[k][i] = "none"
      BY DEF IInv, Sound, Fresh
    <3> QED
      BY <2>1, <2>2, <3>1 DEF Receive
  <2>3. ASSUME NEW l \in Consumers, NEW j \in Ids, Task(l, j) \/ Fault(l, j)
        PROVE  tasks'[k][i] # "called"
    <3>1. PICK phase \in {"handling", "acking", "over"} : Phase(l, j, phase)
      BY <2>3 DEF Task, Fault, Handle, Finish, Answered, HandlersFail, Ack, AckFails
    <3> QED
      BY <2>1, <3>1 DEF Phase
  <2>4. ASSUME NEW l \in Consumers, Exit(l) \/ Crash(l) PROVE tasks'[k][i] # "called"
    BY <2>1, <2>4 DEF Exit, Crash, Forget, NoTasks
  <2>5. ASSUME NEW l \in Consumers,
               \/ Bind(l) \/ Run(l) \/ EndStop(l) \/ BeginStop(l)
               \/ SendRead(l) \/ ServeHistory(l) \/ ServeNew(l) \/ LoseReply(l)
        PROVE  UNCHANGED tasks
    BY <2>5 DEF Bind, Run, EndStop, BeginStop, SendRead, ServeHistory, ServeNew, LoseReply
  <2>6. CASE Publish
    BY <2>6 DEF Publish
  <2> QED
    BY <2>2, <2>3, <2>4, <2>5, <2>6 DEF Next, Life, Loop
<1> QED
  BY <1>1, IInvHolds, PTL DEF Spec, DispatchedOnce

-----------------------------------------------------------------------------
(* The group implements the abstract queue.                                *)

\* What the abstract queue calls settled.
Through == {i \in 1..delivered : owner[i] = Nobody}

\* Steps that the queue does not see.
LEMMA Unseen ==
  ASSUME UNCHANGED <<topic, start, delivered, owner, handled>>
  PROVE  UNCHANGED Abstract!vars
BY DEF Abstract!vars, Grouped

\* Creating the group opens the queue.
LEMMA BindOpens ==
  ASSUME IInv, NEW k \in Consumers, Bind(k)
  PROVE  [Abstract!Next]_(Abstract!vars)
<1>1. CASE Grouped
  BY <1>1, Unseen DEF Bind
<1>2. CASE ~Grouped
  <2>1. Added \in Nat /\ Added <= MaxMessages /\ MaxMessages \in Nat
    BY LenProperties, BoundsAssumption DEF IInv, TypeOK, Added
  <2>2. delivered' = Added /\ Grouped' /\ UNCHANGED <<topic, owner, handled>>
    BY <1>2, <2>1 DEF Bind, Grouped, NoGroup
  <2>3. 1..Added \subseteq Ids /\ \A i \in Ids : owner[i] = Nobody
    BY <1>2, <2>1 DEF IInv, Delivered, Ids
  <2>4. Through' = 1..Added
    BY <2>2, <2>3 DEF Through
  <2>5. Abstract!Open
    BY <1>2, <2>2, <2>4 DEF Abstract!Open, Through, Added
  <2> QED
    BY <2>5 DEF Abstract!Next
<1> QED
  BY <1>1, <1>2

\* A read at ">" gives the next entries out.
LEMMA ServeGives ==
  ASSUME IInv, NEW k \in Consumers, ServeNew(k)
  PROVE  Abstract!Give
<1>1. TypeOK /\ Grouped
  BY DEF IInv, Sound, Unbegun, ServeNew
<1>2. PICK m \in (delivered + 1)..Added :
        /\ delivered' = m
        /\ owner' = [i \in Ids |-> IF i \in (delivered + 1)..m THEN k ELSE owner[i]]
  BY <1>1, NewEntries
<1>3. delivered \in Nat /\ Added \in Nat /\ Added <= MaxMessages /\ MaxMessages \in Nat
  BY <1>1, LenProperties, BoundsAssumption DEF TypeOK, Added
<1>4. Through' = Through
  BY <1>2, <1>3, ConstantsAssumption DEF Through, Ids
<1>5. UNCHANGED <<topic, start, handled>>
  BY DEF ServeNew
<1> QED
  BY <1>1, <1>2, <1>4, <1>5 DEF Abstract!Give, Through, Grouped, Added

\* A handler that ends has handled an outstanding entry, if it wanted it.
LEMMA FinishHandles ==
  ASSUME IInv, NEW k \in Consumers, NEW i \in Ids, Finish(k, i)
  PROVE  [Abstract!Next]_(Abstract!vars)
<1>1. owner[i] = k /\ i <= delivered
  BY DEF IInv, Sound, Owned, Busy, Finish
<1>2. i \in (1..delivered) \ Through
  BY <1>1, ConstantsAssumption, BoundsAssumption DEF Through, Ids, IInv, TypeOK
<1>3. CASE topic[i] = "good"
  <2>1. Abstract!Handle
    BY <1>2, <1>3 DEF Finish, redis, Abstract!Handle, Abstract!Outstanding, Through, Grouped
  <2> QED
    BY <2>1 DEF Abstract!Next
<1>4. CASE topic[i] # "good"
  BY <1>4, Unseen DEF Finish, redis
<1> QED
  BY <1>3, <1>4

\* An acknowledged entry is settled, and was handled if it was wanted.
LEMMA AckSettles ==
  ASSUME IInv, NEW k \in Consumers, NEW i \in Ids, tasks[k][i] = "acking",
         owner' = [owner EXCEPT ![i] = Nobody],
         UNCHANGED <<topic, start, delivered, handled>>
  PROVE  Abstract!Settle
<1>1. owner[i] = k /\ i <= delivered /\ (topic[i] = "good" => i \in handled)
  BY DEF IInv, Sound, Owned, Busy
<1>2. owner \in [Ids -> Consumers \cup {Nobody}]
  BY DEF IInv, TypeOK
<1>3. i \in (1..delivered) \ Through /\ delivered \in Nat /\ delivered <= MaxMessages
  BY <1>1, ConstantsAssumption, BoundsAssumption, LenProperties
  DEF Through, Ids, IInv, TypeOK, Added
<1>4. Through' = Through \cup {i}
  BY <1>2, <1>3, BoundsAssumption DEF Through, Ids
<1> QED
  BY <1>1, <1>3, <1>4 DEF Abstract!Settle, Abstract!Outstanding, Through, Grouped

\* Whatever crashes, gets lost or fails, the consumers of a group are together an
\* at-least-once queue (GroupStreamHandler, DefaultAskPolicy).
THEOREM ImplementsQueue == Spec => QueueSpec
<1>1. Init => Abstract!Init
  BY BoundsAssumption DEF Init, Abstract!Init, Grouped, NoGroup
<1>2. IInv /\ [Next]_vars => [Abstract!Next]_(Abstract!vars)
  <2> SUFFICES ASSUME IInv, [Next]_vars PROVE [Abstract!Next]_(Abstract!vars)
    OBVIOUS
  <2>1. CASE Publish
    <3>1. Abstract!Publish
      BY <2>1 DEF Publish, Abstract!Publish, Grouped
    <3> QED
      BY <3>1 DEF Abstract!Next
  <2>2. ASSUME NEW k \in Consumers, Life(k) \/ BeginStop(k) \/ Crash(k)
        PROVE  [Abstract!Next]_(Abstract!vars)
    <3>1. CASE Bind(k)
      BY <3>1, BindOpens
    <3>2. CASE ~Bind(k)
      <4>1. UNCHANGED <<topic, start, delivered, owner, handled>>
        BY <2>2, <3>2 DEF Life, Run, EndStop, Exit, BeginStop, Crash, Forget, redis
      <4> QED
        BY <4>1, Unseen
    <3> QED
      BY <3>1, <3>2
  <2>3. ASSUME NEW k \in Consumers, Loop(k) \/ LoseReply(k)
        PROVE  [Abstract!Next]_(Abstract!vars)
    <3>1. CASE ServeNew(k)
      BY <3>1, ServeGives DEF Abstract!Next
    <3>2. CASE ~ServeNew(k)
      <4>1. UNCHANGED <<topic, start, delivered, owner, handled>>
        BY <2>3, <3>2 DEF Loop, SendRead, ServeHistory, Receive, LoseReply, redis
      <4> QED
        BY <4>1, Unseen
    <3> QED
      BY <3>1, <3>2
  <2>4. ASSUME NEW k \in Consumers, NEW i \in Ids, Task(k, i) \/ Fault(k, i)
        PROVE  [Abstract!Next]_(Abstract!vars)
    <3>1. CASE Finish(k, i)
      BY <3>1, FinishHandles
    <3>2. CASE Handle(k, i) \/ HandlersFail(k, i)
      <4>1. UNCHANGED <<topic, start, delivered, owner, handled>>
        BY <3>2 DEF Handle, HandlersFail, redis
      <4> QED
        BY <4>1, Unseen
    <3>3. CASE Ack(k, i) \/ AckFails(k, i)
      <4>1. tasks[k][i] = "acking" /\ UNCHANGED <<topic, start, delivered, handled>>
            /\ (UNCHANGED owner \/ owner' = [owner EXCEPT ![i] = Nobody])
        BY <3>3 DEF Ack, AckFails
      <4> QED
        BY <4>1, AckSettles, Unseen DEF Abstract!Next
    <3> QED
      BY <2>4, <3>1, <3>2, <3>3 DEF Task, Fault
  <2>5. CASE UNCHANGED vars
    BY <2>5, Unseen DEF vars
  <2> QED
    BY <2>1, <2>2, <2>3, <2>4, <2>5 DEF Next
<1> QED
  BY <1>1, <1>2, IInvHolds, PTL DEF Spec, QueueSpec, Abstract!Spec

=============================================================================
