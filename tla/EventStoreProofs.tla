--------------------------- MODULE EventStoreProofs ---------------------------
(***************************************************************************)
(* Proofs about EventStore for every set of commands, every bound and      *)
(* every store; what threads may break is stated of the other stores.      *)
(***************************************************************************)
EXTENDS EventStore, FiniteSetTheorems, SequenceTheorems, TLAPS

-----------------------------------------------------------------------------
(* Type correctness, for every store.                                      *)

\* Inserting an event keeps the stream a sequence of events, whether it is
\* appended or replaces one of its version.
LEMMA PutType ==
  ASSUME stream \in Seq(Event), NEW e \in Event, Put(e)
  PROVE  stream' \in Seq(Event)
<1>1. CASE Stored(e.version)
  <2>1. stream' = [i \in DOMAIN stream |->
                     IF stream[i].version = e.version THEN e ELSE stream[i]]
    BY <1>1 DEF Put
  <2>2. DOMAIN stream = 1..Len(stream) /\ Len(stream) \in Nat
    BY LenProperties
  <2>3. \A i \in 1..Len(stream) : stream[i] \in Event
    BY ElementOfSeq
  <2>. QED  BY <2>1, <2>2, <2>3, SeqDef
<1>2. CASE ~Stored(e.version)
  BY <1>2, AppendProperties DEF Put
<1>. QED  BY <1>1, <1>2

\* Mutating an aggregate with an event gives an aggregate.
LEMMA MutatedType ==
  ASSUME NEW a \in Aggregate, NEW e \in Event
  PROVE  Mutated(a, e) \in Aggregate
<1>1. e.command \in Commands
  BY DEF Event, Log!Event
<1>2. Append(a.state, e.command) \in Seq(Commands)
  BY <1>1, AppendProperties DEF Aggregate
<1>. QED  BY <1>2 DEF Mutated, Aggregate

\* A capture more or none keeps the captures a sequence of versions.
LEMMA CapturedType ==
  ASSUME NEW s \in Seq(Nat), NEW k \in Nat PROVE Captured(s, k) \in Seq(Nat)
BY AppendProperties DEF Captured

LEMMA BlankType == Blank \in Aggregate
BY EmptySeq DEF Blank, Aggregate

\* A command in the middle of an append still has an event to insert.
Appending(c) == pc[c] \in {"appending", "tested"} => events[c] # <<>>

TInv == TypeOK /\ \A c \in Commands : Appending(c)

\* The inductive form of type correctness: append_to_stream is never past the end
\* of its batch.
LEMMA TInvHolds == Spec => []TInv
<1>1. Init => TInv
  BY BlankType, EmptySeq, BoundsAssumption DEF Init, TInv, TypeOK, Appending, PCs
<1>2. TInv /\ [Next]_vars => TInv'
  <2> SUFFICES ASSUME TInv, [Next]_vars PROVE TInv'
    OBVIOUS
  <2> USE DEF TInv, TypeOK, Appending
  <2>1. ASSUME NEW c \in Commands, Create(c) PROVE TInv'
    <3> DEFINE created == [version |-> 1, command |-> c, basis |-> <<>>]
    <3>1. created \in Event
      BY EmptySeq DEF Event, Log!Event, Log!Version
    <3>2. Mutated(Blank, created) \in Aggregate
      BY <3>1, BlankType, MutatedType
    <3>3. <<created>> \in Seq(Event)
      BY <3>1
    <3>4. PICK k \in ClassVersions[c] : captures' = [captures EXCEPT ![c] = Captured(<<>>, k)]
      BY <2>1 DEF Create
    <3>5. captures' \in [Commands -> Seq(Nat)]
      <4>1. k \in Nat /\ <<>> \in Seq(Nat)
        BY BoundsAssumption, EmptySeq
      <4>. QED  BY <3>4, <4>1, CapturedType
    <3> HIDE DEF created
    <3>. QED  BY <2>1, <3>2, <3>3, <3>5 DEF Create, PCs, created
  <2>2. ASSUME NEW c \in Commands, ReadSnapshot(c) PROVE TInv'
    <3>1. PICK a \in LastSnapshots : copy' = [copy EXCEPT ![c] = a]
      BY <2>2 DEF ReadSnapshot
    <3>2. a \in Aggregate
      BY BlankType, ElementOfSeq DEF LastSnapshots
    <3>. QED  BY <2>2, <3>1, <3>2 DEF ReadSnapshot, PCs
  <2>3. ASSUME NEW c \in Commands, ReadStream(c) PROVE TInv'
    <3>1. \A i \in DOMAIN EventsFrom(c, copy[c].version + 1) :
             EventsFrom(c, copy[c].version + 1)[i] \in Event
      BY ElementOfSeq DEF EventsFrom
    <3>. QED  BY <2>3, <3>1 DEF ReadStream, PCs
  <2>4. ASSUME NEW c \in Commands, ReadStreamBroken(c) PROVE TInv'
    BY <2>4 DEF ReadStreamBroken, PCs
  <2>5. ASSUME NEW c \in Commands, Mutate(c) PROVE TInv'
    <3>1. PICK i \in DOMAIN rows[c] :
            IF Follows(rows[c][i], copy[c])
              THEN /\ copy' = [copy EXCEPT ![c] = Mutated(@, rows[c][i])]
                   /\ rows' = [rows EXCEPT ![c] = [j \in DOMAIN @ \ {i} |-> @[j]]]
                   /\ UNCHANGED pc
              ELSE /\ pc' = [pc EXCEPT ![c] = "corrupt"]
                   /\ UNCHANGED <<copy, rows>>
      BY <2>5 DEF Mutate
    <3>2. UNCHANGED <<store, stream, snapshots, entity, events, captures, tries, clashed>>
      BY <2>5 DEF Mutate
    <3>3. CASE Follows(rows[c][i], copy[c])
      <4>1. Mutated(copy[c], rows[c][i]) \in Aggregate
        BY MutatedType
      <4>2. copy' \in [Commands -> Aggregate]
        BY <3>1, <3>3, <4>1
      <4>3. DOMAIN rows' = Commands
        BY <3>1, <3>3
      <4>4. ASSUME NEW d \in Commands, NEW k \in DOMAIN rows'[d]
            PROVE  rows'[d][k] \in Event
        <5>1. CASE d = c
          <6>1. rows'[d] = [j \in DOMAIN rows[c] \ {i} |-> rows[c][j]]
            BY <3>1, <3>3, <5>1
          <6>. QED  BY <4>4, <6>1
        <5>2. CASE d # c
          BY <3>1, <3>3, <4>4, <5>2
        <5>. QED  BY <5>1, <5>2
      <4>. QED  BY <3>1, <3>2, <3>3, <4>2, <4>3, <4>4
    <3>4. CASE ~Follows(rows[c][i], copy[c])
      BY <3>1, <3>2, <3>4 DEF PCs
    <3>. QED  BY <3>3, <3>4
  <2>6. ASSUME NEW c \in Commands, Rehydrated(c) PROVE TInv'
    BY <2>6 DEF Rehydrated, PCs
  <2>7. ASSUME NEW c \in Commands, TriggerEvent(c) PROVE TInv'
    <3> DEFINE event == [version |-> entity[c].version + 1,
                         command |-> c,
                         basis   |-> entity[c].state]
    <3>1. event \in Event
      BY DEF Event, Log!Event, Log!Version, Aggregate
    <3>2. Mutated(entity[c], event) \in Aggregate
      BY <3>1, MutatedType
    <3>3. Append(events[c], event) \in Seq(Event)
      BY <3>1, AppendProperties
    <3>4. /\ entity' = [entity EXCEPT ![c] = Mutated(entity[c], event)]
          /\ events' = [events EXCEPT ![c] = Append(events[c], event)]
          /\ pc[c] = "live"
          /\ UNCHANGED <<store, stream, snapshots, pc, copy, rows, tries, clashed>>
      BY <2>7 DEF TriggerEvent
    <3> HIDE DEF event
    <3>5. entity' \in [Commands -> Aggregate] /\ events' \in [Commands -> Seq(Event)]
      BY <3>2, <3>3, <3>4
    <3>6. PICK k \in ClassVersions[c] : captures' = [captures EXCEPT ![c] = Captured(captures[c], k)]
      BY <2>7 DEF TriggerEvent
    <3>7. captures' \in [Commands -> Seq(Nat)]
      <4>1. k \in Nat
        BY BoundsAssumption
      <4>. QED  BY <3>6, <4>1, CapturedType
    <3>. QED  BY <3>4, <3>5, <3>7
  <2>8. ASSUME NEW c \in Commands, Save(c) PROVE TInv'
    BY <2>8 DEF Save, PCs
  <2>9. ASSUME NEW c \in Commands, Conflict(c) PROVE TInv'
    BY <2>9 DEF Conflict, PCs
  <2>10. ASSUME NEW c \in Commands, Test(c) PROVE TInv'
    BY <2>10 DEF Test, PCs
  <2>11. ASSUME NEW c \in Commands, Insert(c) PROVE TInv'
    <3>1. events[c] # <<>>
      BY <2>11 DEF Insert
    <3>2. /\ Head(events[c]) \in Event
          /\ Tail(events[c]) \in Seq(Event)
          /\ Len(Tail(events[c])) = Len(events[c]) - 1
      BY <3>1, HeadTailProperties
    <3>3. stream' \in Seq(Event)
      BY <2>11, <3>2, PutType DEF Insert
    <3>4. events' \in [Commands -> Seq(Event)]
      BY <2>11, <3>2 DEF Insert
    <3>5. pc' \in [Commands -> PCs]
      BY <2>11 DEF Insert, PCs
    <3>6. ASSUME NEW d \in Commands PROVE Appending(d)'
      <4>1. CASE d = c
        <5>1. Len(events[c]) # 1 => Tail(events[c]) # <<>>
          <6>1. events[c] \in Seq(Event) /\ Tail(events[c]) \in Seq(Event)
            BY <3>2
          <6>2. Len(events[c]) \in Nat
            BY <6>1, LenProperties
          <6>3. Tail(events[c]) = <<>> => Len(Tail(events[c])) = 0
            BY EmptySeq
          <6>. QED  BY <3>2, <6>2, <6>3
        <5>. QED  BY <2>11, <4>1, <5>1 DEF Insert
      <4>2. CASE d # c
        BY <2>11, <4>2 DEF Insert
      <4>. QED  BY <4>1, <4>2
    <3>. QED  BY <2>11, <3>3, <3>4, <3>5, <3>6 DEF Insert
  <2>12. ASSUME NEW c \in Commands, AddSnapshot(c) PROVE TInv'
    <3>1. Append(snapshots, copy[c]) \in Seq(Aggregate)
      BY AppendProperties
    <3>2. snapshots' \in Seq(Aggregate)
      BY <2>12, <3>1 DEF AddSnapshot
    <3>3. /\ pc' \in [Commands -> PCs]
          /\ \A d \in Commands : pc'[d] \in {"appending", "tested"} => pc'[d] = pc[d]
      BY <2>12 DEF AddSnapshot, PCs
    <3>4. captures' \in [Commands -> Seq(Nat)] /\ clashed' \subseteq Commands
      <4>1. captures[c] # <<>>
        BY <2>12 DEF AddSnapshot
      <4>2. Tail(captures[c]) \in Seq(Nat)
        BY <4>1, HeadTailProperties
      <4>. QED  BY <2>12, <4>2 DEF AddSnapshot
    <3>. QED  BY <2>12, <3>2, <3>3, <3>4 DEF AddSnapshot
  <2>13. ASSUME NEW c \in Commands, Finish(c) PROVE TInv'
    BY <2>13 DEF Finish, PCs
  <2>14. ASSUME NEW c \in Commands, Retry(c) PROVE TInv'
    <3>1. tries' \in [Commands -> 1..MaxTries[store]]
      BY <2>14, BoundsAssumption DEF Retry, Anew
    <3>2. \A d \in Commands : \A i \in DOMAIN rows'[d] : rows'[d][i] \in Event
      <4>1. rows'[c] = <<>> /\ \A d \in Commands \ {c} : rows'[d] = rows[d]
        BY <2>14 DEF Retry, Anew
      <4>2. DOMAIN <<>> = {}
        OBVIOUS
      <4>3. ASSUME NEW d \in Commands \ {c}
            PROVE  \A i \in DOMAIN rows'[d] : rows'[d][i] \in Event
        <5>1. rows'[d] = rows[d]
          BY <4>1
        <5>. QED  BY <5>1
      <4>. QED  BY <4>1, <4>2, <4>3
    <3>. QED  BY <2>14, <3>1, <3>2, BlankType, EmptySeq DEF Retry, Anew, PCs
  <2>15. CASE UNCHANGED vars
    BY <2>15 DEF vars
  <2>. QED
    BY <2>1, <2>2, <2>3, <2>4, <2>5, <2>6, <2>7, <2>8, <2>9, <2>10, <2>11,
       <2>12, <2>13, <2>14, <2>15 DEF Next, Step
<1>. QED  BY <1>1, <1>2, PTL DEF Spec

\* Every variable keeps its type under every operation of the store and the
\* aggregate, whatever the store and the interleaving.
THEOREM TypeCorrect == Spec => []TypeOK
<1>1. TInv => TypeOK
  BY DEF TInv
<1>. QED  BY <1>1, TInvHolds, PTL

-----------------------------------------------------------------------------
(* The inductive invariant, for every store but "threads".                 *)

\* The first n commands that aggregate a has applied are the first of the stream.
Agrees(a, n) ==
  /\ n \in 0..Len(stream)
  /\ \A k \in 1..n : a.state[k] = stream[k].command

\* An aggregate is its stream up to some version, plus the events it has raised
\* and not yet stored, in order and each decided on the state before it.
Held(c) ==
  LET a == entity[c]
      q == events[c]
      b == Len(a.state) - Len(q)
  IN  /\ a.version = Len(a.state)
      /\ Agrees(a, b)
      /\ \A k \in 1..Len(q) : /\ q[k].version = b + k
                              /\ q[k].command = c
                              /\ a.state[b + k] = c
                              /\ q[k].basis = [j \in 1..(b + k - 1) |-> a.state[j]]

\* Nothing is pending outside of a command's own turn of raising and saving.
Clean(c) ==
  pc[c] \in {"idle", "found", "replaying", "corrupt", "saved", "done"} => events[c] = <<>>

\* The rows a command has read are still those of the stream.
Current(c) == \A i \in DOMAIN rows[c] : i \in DOMAIN stream /\ rows[c][i] = stream[i]

\* What a command is rehydrating agrees with the stream up to its version.
Copied(c) == copy[c].version = Len(copy[c].state) /\ Agrees(copy[c], copy[c].version)

\* Every snapshot agrees with the stream up to its version.
SnapshotsAgree ==
  \A i \in DOMAIN snapshots :
    /\ snapshots[i].version = Len(snapshots[i].state)
    /\ Agrees(snapshots[i], snapshots[i].version)

IInv ==
  /\ TInv
  /\ store # "threads"
  /\ DecidedOnHistory
  /\ SnapshotsAgree
  /\ \A c \in Commands : /\ Held(c)
                         /\ Copied(c)
                         /\ Clean(c)
                         /\ Current(c)
                         /\ pc[c] # "tested"

\* The stream only grows.
Extends ==
  /\ Len(stream) <= Len(stream')
  /\ \A k \in 1..Len(stream) : stream'[k] = stream[k]

LEMMA AgreesStable ==
  ASSUME stream \in Seq(Event), stream' \in Seq(Event), Extends,
         NEW a \in Aggregate, NEW n, Agrees(a, n)
  PROVE  /\ n \in 0..Len(stream')
         /\ \A k \in 1..n : a.state[k] = stream'[k].command
<1>1. Len(stream) \in Nat /\ Len(stream') \in Nat
  BY LenProperties
<1>. QED  BY <1>1 DEF Agrees, Extends

LEMMA HeldStable ==
  ASSUME TypeOK, TypeOK', Extends, NEW c \in Commands, Held(c),
         entity'[c] = entity[c], events'[c] = events[c]
  PROVE  Held(c)'
<1> DEFINE b == Len(entity[c].state) - Len(events[c])
<1>1. Agrees(entity[c], b)
  BY DEF Held
<1>2. /\ b \in 0..Len(stream')
      /\ \A k \in 1..b : entity[c].state[k] = stream'[k].command
  BY <1>1, AgreesStable DEF TypeOK
<1>3. b' = b
  OBVIOUS
<1>4. Agrees(entity[c], b)'
  BY <1>2, <1>3 DEF Agrees
<1>5. \A k \in 1..Len(events[c]) :
        /\ events[c][k].version = b + k
        /\ events[c][k].command = c
        /\ entity[c].state[b + k] = c
        /\ events[c][k].basis = [j \in 1..(b + k - 1) |-> entity[c].state[j]]
  BY DEF Held
<1>6. (entity[c].version = Len(entity[c].state))'
  BY DEF Held
<1>. HIDE DEF b
<1>7. (\A k \in 1..Len(events[c]) :
        /\ events[c][k].version = b + k
        /\ events[c][k].command = c
        /\ entity[c].state[b + k] = c
        /\ events[c][k].basis = [j \in 1..(b + k - 1) |-> entity[c].state[j]])'
  BY <1>3, <1>5
<1>. QED  BY <1>4, <1>6, <1>7 DEF Held, b

LEMMA CopiedStable ==
  ASSUME TypeOK, TypeOK', Extends, NEW c \in Commands, Copied(c), copy'[c] = copy[c]
  PROVE  Copied(c)'
<1>1. copy[c] \in Aggregate /\ Agrees(copy[c], copy[c].version)
  BY DEF Copied, TypeOK
<1>2. /\ copy[c].version \in 0..Len(stream')
      /\ \A k \in 1..copy[c].version : copy[c].state[k] = stream'[k].command
  BY <1>1, AgreesStable DEF TypeOK
<1>. QED  BY <1>2 DEF Copied, Agrees

LEMMA CurrentStable ==
  ASSUME TypeOK, TypeOK', Extends, NEW c \in Commands, Current(c), rows'[c] = rows[c]
  PROVE  Current(c)'
<1>1. /\ DOMAIN stream = 1..Len(stream) /\ Len(stream) \in Nat
      /\ DOMAIN stream' = 1..Len(stream') /\ Len(stream') \in Nat
  BY LenProperties DEF TypeOK
<1>. QED  BY <1>1 DEF Current, Extends

LEMMA SnapshotsStable ==
  ASSUME TypeOK, TypeOK', Extends, SnapshotsAgree, UNCHANGED snapshots
  PROVE  SnapshotsAgree'
<1>1. ASSUME NEW i \in DOMAIN snapshots
      PROVE  /\ snapshots[i].version \in 0..Len(stream')
             /\ \A k \in 1..snapshots[i].version :
                  snapshots[i].state[k] = stream'[k].command
  <2>1. snapshots[i] \in Aggregate
    BY ElementOfSeq, LenProperties DEF TypeOK
  <2>2. Agrees(snapshots[i], snapshots[i].version)
    BY DEF SnapshotsAgree
  <2>. QED  BY <2>1, <2>2, AgreesStable DEF TypeOK
<1>. QED  BY <1>1 DEF SnapshotsAgree, Agrees

\* Mutating an aggregate adds the command of the event to what it had applied.
LEMMA MutatedState ==
  ASSUME NEW a \in Aggregate, NEW e \in Event
  PROVE  /\ Mutated(a, e).version = a.version + 1
         /\ Len(Mutated(a, e).state) = Len(a.state) + 1
         /\ \A k \in 1..Len(a.state) : Mutated(a, e).state[k] = a.state[k]
         /\ Mutated(a, e).state[Len(a.state) + 1] = e.command
<1>1. e.command \in Commands /\ a.state \in Seq(Commands)
  BY DEF Event, Log!Event, Aggregate
<1>. QED  BY <1>1, AppendProperties DEF Mutated

\* What a step of c leaves to prove: the stream only grows, the others keep
\* what they hold, and c itself.
Framed(c) ==
  /\ Extends
  /\ UNCHANGED store
  /\ \A d \in Commands \ {c} : /\ entity'[d] = entity[d] /\ copy'[d] = copy[d]
                               /\ events'[d] = events[d]
                               /\ rows'[d] = rows[d] /\ pc'[d] = pc[d]

LEMMA FrameRule ==
  ASSUME IInv, TInv', NEW c \in Commands, Framed(c),
         DecidedOnHistory', SnapshotsAgree',
         Held(c)', Copied(c)', Clean(c)', Current(c)', pc'[c] # "tested"
  PROVE  IInv'
<1>1. ASSUME NEW d \in Commands \ {c}
      PROVE  Held(d)' /\ Copied(d)' /\ Clean(d)' /\ Current(d)' /\ pc'[d] # "tested"
  <2>1. Held(d)'
    BY HeldStable DEF IInv, TInv, Framed
  <2>2. Current(d)'
    BY CurrentStable DEF IInv, TInv, Framed
  <2>3. Clean(d)' /\ pc'[d] # "tested"
    BY DEF IInv, Clean, Framed
  <2>4. Copied(d)'
    BY CopiedStable DEF IInv, TInv, Framed
  <2>. QED  BY <2>1, <2>2, <2>3, <2>4
<1>. QED  BY <1>1 DEF IInv, Framed

\* A step that leaves the stream and the snapshots alone.
LEMMA QuietRule ==
  ASSUME IInv, TInv', NEW c \in Commands, UNCHANGED <<store, stream, snapshots>>,
         \A d \in Commands \ {c} : /\ entity'[d] = entity[d] /\ copy'[d] = copy[d]
                                   /\ events'[d] = events[d]
                                   /\ rows'[d] = rows[d] /\ pc'[d] = pc[d],
         Held(c)', Copied(c)', Clean(c)', Current(c)', pc'[c] # "tested"
  PROVE  IInv'
<1>1. Extends
  BY LenProperties DEF Extends, IInv, TInv, TypeOK
<1>2. DecidedOnHistory'
  BY DEF IInv, DecidedOnHistory, History, Log!History
<1>3. SnapshotsAgree'
  BY DEF IInv, SnapshotsAgree, Agrees
<1>. QED  BY <1>1, <1>2, <1>3, FrameRule DEF Framed

\* What c holds is still of the stream if neither has changed.
LEMMA QuietHeld ==
  ASSUME IInv, TInv', NEW c \in Commands, UNCHANGED stream
  PROVE  /\ entity'[c] = entity[c] /\ events'[c] = events[c] => Held(c)'
         /\ copy'[c] = copy[c] => Copied(c)'
         /\ rows'[c] = rows[c] => Current(c)'
<1>1. Extends
  BY LenProperties DEF Extends, IInv, TInv, TypeOK
<1>2. TypeOK /\ TypeOK' /\ Held(c) /\ Copied(c) /\ Current(c)
  BY DEF IInv, TInv
<1>. QED  BY <1>1, <1>2, HeldStable, CopiedStable, CurrentStable

\* A step of c that only moves its pc.
LEMMA MoveRule ==
  ASSUME IInv, TInv', NEW c \in Commands, NEW to \in PCs \ {"tested"},
         pc' = [pc EXCEPT ![c] = to],
         UNCHANGED <<store, stream, snapshots, entity, copy, rows, events>>, Clean(c)'
  PROVE  IInv'
<1>1. Held(c)' /\ Copied(c)' /\ Current(c)'
  BY QuietHeld
<1>2. pc'[c] # "tested" /\ \A d \in Commands \ {c} : pc'[d] = pc[d]
  BY DEF IInv, TInv, TypeOK
<1>. QED  BY <1>1, <1>2, QuietRule

\* An aggregate that agrees with the stream and holds no pending event.
LEMMA FreshHeld ==
  ASSUME NEW c \in Commands, TypeOK', events'[c] = <<>>,
         entity'[c].version = Len(entity'[c].state),
         Agrees(entity[c], entity[c].version)'
  PROVE  Held(c)'
<1>1. Len(events'[c]) = 0
  BY EmptySeq
<1>2. Len(entity'[c].state) \in Nat
  BY LenProperties DEF TypeOK, Aggregate
<1>. QED  BY <1>1, <1>2 DEF Held, Agrees

LEMMA InitIInv == ASSUME Init, ~Threaded PROVE IInv
<1>1. TInv
  BY BlankType, EmptySeq, BoundsAssumption DEF Init, TInv, TypeOK, Appending, PCs
<1>2. Len(<<>>) = 0 /\ DOMAIN <<>> = {}
  BY EmptySeq
<1>3. ASSUME NEW c \in Commands PROVE Held(c)
  <2>1. entity[c].version = 0 /\ entity[c].state = <<>> /\ events[c] = <<>>
    BY DEF Init, Blank
  <2>2. Len(entity[c].state) - Len(events[c]) = 0 /\ Len(events[c]) = 0
    BY <1>2, <2>1
  <2>3. Len(stream) = 0
    BY <1>2 DEF Init
  <2>. QED  BY <1>2, <2>1, <2>2, <2>3 DEF Held, Agrees
<1>4. ASSUME NEW c \in Commands
      PROVE  Copied(c) /\ Clean(c) /\ Current(c) /\ pc[c] # "tested"
  <2>1. Copied(c)
    <3>1. copy[c].version = 0 /\ copy[c].state = <<>> /\ Len(stream) = 0
      BY <1>2 DEF Init, Blank
    <3>. QED  BY <1>2, <3>1 DEF Copied, Agrees
  <2>. QED  BY <1>2, <2>1 DEF Init, Clean, Current
<1>5. DecidedOnHistory /\ SnapshotsAgree
  BY <1>2 DEF Init, DecidedOnHistory, SnapshotsAgree
<1>6. store # "threads"
  BY DEF Threaded
<1>. QED  BY <1>1, <1>3, <1>4, <1>5, <1>6 DEF IInv

-----------------------------------------------------------------------------
(* Every operation preserves the invariant.                                *)

LEMMA CreateStep ==
  ASSUME IInv, TInv', NEW c \in Commands, Create(c) PROVE IInv'
<1> DEFINE created == [version |-> 1, command |-> c, basis |-> <<>>]
<1>1. /\ entity'[c] = Mutated(Blank, created) /\ events'[c] = <<created>>
      /\ copy'[c] = copy[c] /\ rows'[c] = rows[c] /\ pc'[c] = "live"
      /\ \A d \in Commands \ {c} : /\ entity'[d] = entity[d] /\ copy'[d] = copy[d]
                                   /\ events'[d] = events[d]
                                   /\ rows'[d] = rows[d] /\ pc'[d] = pc[d]
      /\ UNCHANGED <<store, stream, snapshots>>
  BY DEF Create, IInv, TInv, TypeOK
<1>2. created \in Event
  BY EmptySeq DEF Event, Log!Event, Log!Version
<1>3. /\ entity'[c].version = 1 /\ Len(entity'[c].state) = 1
      /\ entity'[c].state[1] = c
  <2>1. /\ Blank.version = 0 /\ Len(Blank.state) = 0 /\ created.command = c
    BY EmptySeq DEF Blank
  <2> HIDE DEF created
  <2>2. /\ Mutated(Blank, created).version = Blank.version + 1
        /\ Len(Mutated(Blank, created).state) = Len(Blank.state) + 1
        /\ Mutated(Blank, created).state[Len(Blank.state) + 1] = created.command
    BY <1>2, BlankType, MutatedState
  <2>3. entity'[c] = Mutated(Blank, created)
    BY <1>1
  <2>. QED  BY <2>1, <2>2, <2>3
<1>4. Len(events'[c]) = 1 /\ events'[c][1] = created
  BY <1>1
<1>5. <<>> = [j \in 1..0 |-> entity'[c].state[j]]
  OBVIOUS
<1>6. Held(c)'
  <2>1. Len(stream') \in Nat
    BY LenProperties DEF TInv, TypeOK
  <2>2. Agrees(entity[c], 0)'
    BY <2>1 DEF Agrees
  <2> HIDE DEF created
  <2>3. /\ created.version = 1 /\ created.command = c /\ created.basis = <<>>
    BY DEF created
  <2>. QED  BY <1>3, <1>4, <1>5, <2>2, <2>3 DEF Held
<1>7. Copied(c)' /\ Clean(c)' /\ Current(c)' /\ pc'[c] # "tested"
  BY <1>1, QuietHeld DEF Clean
<1>. QED  BY <1>1, <1>6, <1>7, QuietRule

LEMMA ReadSnapshotStep ==
  ASSUME IInv, TInv', NEW c \in Commands, ReadSnapshot(c) PROVE IInv'
<1>1. PICK a \in LastSnapshots : copy' = [copy EXCEPT ![c] = a]
  BY DEF ReadSnapshot
<1>2. /\ copy'[c] = a /\ entity'[c] = entity[c] /\ events'[c] = events[c]
      /\ rows'[c] = rows[c] /\ pc'[c] = "found"
      /\ \A d \in Commands \ {c} : /\ entity'[d] = entity[d] /\ copy'[d] = copy[d]
                                   /\ events'[d] = events[d]
                                   /\ rows'[d] = rows[d] /\ pc'[d] = pc[d]
      /\ UNCHANGED <<store, stream, snapshots>>
  BY <1>1 DEF ReadSnapshot, IInv, TInv, TypeOK
<1>3. events'[c] = <<>>
  BY <1>2 DEF ReadSnapshot, IInv, Clean
<1>4. a.version = Len(a.state) /\ Agrees(a, a.version)
  <2>1. CASE snapshots = <<>>
    <3>1. a.version = 0 /\ a.state = <<>>
      BY <2>1 DEF LastSnapshots, Blank
    <3>2. Len(stream) \in Nat
      BY LenProperties DEF IInv, TInv, TypeOK
    <3>. QED  BY <3>1, <3>2, EmptySeq DEF Agrees
  <2>2. CASE snapshots # <<>>
    BY <2>2 DEF LastSnapshots, IInv, SnapshotsAgree
  <2>. QED  BY <2>1, <2>2
<1>5. Copied(c)'
  BY <1>2, <1>4 DEF Copied, Agrees
<1>6. Held(c)' /\ Clean(c)' /\ Current(c)' /\ pc'[c] # "tested"
  BY <1>2, <1>3, QuietHeld DEF Clean
<1>. QED  BY <1>2, <1>5, <1>6, QuietRule

LEMMA ReadStreamStep ==
  ASSUME IInv, TInv', NEW c \in Commands, ReadStream(c) PROVE IInv'
<1>1. /\ entity'[c] = entity[c] /\ copy'[c] = copy[c] /\ events'[c] = events[c]
      /\ rows'[c] = EventsFrom(c, copy[c].version + 1) /\ pc'[c] = "replaying"
      /\ \A d \in Commands \ {c} : /\ entity'[d] = entity[d] /\ copy'[d] = copy[d]
                                   /\ events'[d] = events[d]
                                   /\ rows'[d] = rows[d] /\ pc'[d] = pc[d]
      /\ UNCHANGED <<store, stream, snapshots>>
  BY DEF ReadStream, IInv, TInv, TypeOK
<1>2. Held(c)' /\ Copied(c)'
  BY <1>1, QuietHeld
<1>3. Current(c)'
  BY <1>1 DEF Current, EventsFrom
<1>4. Clean(c)' /\ pc'[c] # "tested"
  BY <1>1 DEF ReadStream, IInv, Clean
<1>. QED  BY <1>1, <1>2, <1>3, <1>4, QuietRule

LEMMA MutateStep ==
  ASSUME IInv, TInv', NEW c \in Commands, Mutate(c) PROVE IInv'
<1>1. PICK i \in DOMAIN rows[c] :
        IF Follows(rows[c][i], copy[c])
          THEN /\ copy' = [copy EXCEPT ![c] = Mutated(@, rows[c][i])]
               /\ rows' = [rows EXCEPT ![c] = [j \in DOMAIN @ \ {i} |-> @[j]]]
               /\ UNCHANGED pc
          ELSE /\ pc' = [pc EXCEPT ![c] = "corrupt"]
               /\ UNCHANGED <<copy, rows>>
  BY DEF Mutate
<1>2. UNCHANGED <<store, stream, snapshots, entity, events>> /\ pc[c] = "replaying"
  BY DEF Mutate
<1>3. CASE ~Follows(rows[c][i], copy[c])
  <2>1. Clean(c)'
    BY <1>1, <1>2, <1>3 DEF Clean, IInv, TInv, TypeOK
  <2>. QED  BY <1>1, <1>2, <1>3, <2>1, MoveRule DEF PCs
<1>4. CASE Follows(rows[c][i], copy[c])
  <2>1. /\ copy'[c] = Mutated(copy[c], rows[c][i])
        /\ rows'[c] = [j \in DOMAIN rows[c] \ {i} |-> rows[c][j]]
        /\ \A d \in Commands \ {c} : copy'[d] = copy[d] /\ rows'[d] = rows[d]
    BY <1>1, <1>4 DEF IInv, TInv, TypeOK
  <2>2. events[c] = <<>>
    BY <1>2 DEF IInv, Clean
  <2>3. /\ copy[c].version = Len(copy[c].state)
        /\ Agrees(copy[c], copy[c].version)
    BY DEF IInv, Copied
  <2>4. /\ i \in 1..Len(stream) /\ rows[c][i] = stream[i]
        /\ stream[i].version = i /\ Len(stream) \in Nat
    BY LenProperties DEF IInv, TInv, TypeOK, Current, DecidedOnHistory
  <2>5. i = copy[c].version + 1
    BY <1>4, <2>4 DEF Follows
  <2>6. copy[c] \in Aggregate /\ rows[c][i] \in Event
    BY DEF IInv, TInv, TypeOK
  <2>7. /\ copy'[c].version = Len(copy'[c].state)
        /\ \A k \in 1..copy'[c].version : copy'[c].state[k] = stream[k].command
        /\ copy'[c].version = i
    <3>1. /\ copy'[c].version = copy[c].version + 1
          /\ Len(copy'[c].state) = Len(copy[c].state) + 1
          /\ \A k \in 1..Len(copy[c].state) : copy'[c].state[k] = copy[c].state[k]
          /\ copy'[c].state[Len(copy[c].state) + 1] = stream[i].command
      <4>1. /\ Mutated(copy[c], rows[c][i]).version = copy[c].version + 1
            /\ Len(Mutated(copy[c], rows[c][i]).state) = Len(copy[c].state) + 1
            /\ \A k \in 1..Len(copy[c].state) :
                 Mutated(copy[c], rows[c][i]).state[k] = copy[c].state[k]
            /\ Mutated(copy[c], rows[c][i]).state[Len(copy[c].state) + 1]
                 = rows[c][i].command
        BY <2>6, MutatedState
      <4>2. rows[c][i].command = stream[i].command
        BY <2>4
      <4>. QED  BY <2>1, <4>1, <4>2
    <3>2. \A k \in 1..(i - 1) : copy[c].state[k] = stream[k].command
      BY <2>3, <2>5, <2>6 DEF Agrees, Aggregate
    <3>3. Len(copy[c].state) = i - 1
      BY <2>3, <2>5, <2>6 DEF Aggregate
    <3>4. i - 1 + 1 = i /\ i \in Nat
      BY <2>4
    <3>5. ASSUME NEW k \in 1..i PROVE copy'[c].state[k] = stream[k].command
      <4>1. CASE k = i
        BY <3>1, <3>3, <3>4, <4>1
      <4>2. CASE k \in 1..(i - 1)
        BY <3>1, <3>2, <3>3, <4>2
      <4>. QED  BY <3>4, <4>1, <4>2
    <3>. QED  BY <2>3, <2>5, <3>1, <3>3, <3>4, <3>5
  <2>8. Copied(c)'
    BY <1>2, <2>4, <2>7 DEF Copied, Agrees
  <2>9. Held(c)' /\ Clean(c)' /\ Current(c)' /\ pc'[c] # "tested"
    BY <1>1, <1>2, <1>4, <2>1, <2>2, QuietHeld DEF IInv, Clean, Current
  <2>. QED  BY <1>1, <1>2, <1>4, <2>1, <2>8, <2>9, QuietRule
<1>. QED  BY <1>3, <1>4

\* What find_by returns agrees with the stream, for the copy does.
LEMMA RehydratedStep ==
  ASSUME IInv, TInv', NEW c \in Commands, Rehydrated(c) PROVE IInv'
<1>1. /\ entity'[c] = copy[c] /\ copy'[c] = copy[c] /\ events'[c] = events[c]
      /\ rows'[c] = rows[c] /\ pc[c] = "replaying" /\ pc'[c] = "live"
      /\ \A d \in Commands \ {c} : /\ entity'[d] = entity[d] /\ copy'[d] = copy[d]
                                   /\ events'[d] = events[d]
                                   /\ rows'[d] = rows[d] /\ pc'[d] = pc[d]
      /\ UNCHANGED <<store, stream, snapshots>>
  BY DEF Rehydrated, IInv, TInv, TypeOK
<1>2. events'[c] = <<>>
  BY <1>1 DEF IInv, Clean
<1>3. Held(c)'
  <2>1. /\ entity'[c].version = Len(entity'[c].state)
        /\ Agrees(entity[c], entity[c].version)'
    BY <1>1 DEF IInv, Copied, Agrees
  <2>. QED  BY <1>2, <2>1, FreshHeld DEF TInv
<1>4. Copied(c)' /\ Clean(c)' /\ Current(c)' /\ pc'[c] # "tested"
  BY <1>1, QuietHeld DEF Clean
<1>. QED  BY <1>1, <1>3, <1>4, QuietRule

LEMMA TriggerEventStep ==
  ASSUME IInv, TInv', NEW c \in Commands, TriggerEvent(c) PROVE IInv'
<1> DEFINE event == [version |-> entity[c].version + 1,
                     command |-> c,
                     basis   |-> entity[c].state]
           n == Len(entity[c].state)
           m == Len(events[c])
<1>1. /\ entity'[c] = Mutated(entity[c], event)
      /\ events'[c] = Append(events[c], event)
      /\ copy'[c] = copy[c] /\ rows'[c] = rows[c]
      /\ pc[c] = "live" /\ pc'[c] = "live"
      /\ \A d \in Commands \ {c} : /\ entity'[d] = entity[d] /\ copy'[d] = copy[d]
                                   /\ events'[d] = events[d]
                                   /\ rows'[d] = rows[d] /\ pc'[d] = pc[d]
      /\ UNCHANGED <<store, stream, snapshots>>
  BY DEF TriggerEvent, IInv, TInv, TypeOK
<1>2. /\ entity[c] \in Aggregate /\ events[c] \in Seq(Event)
      /\ entity[c].state \in Seq(Commands)
      /\ n \in Nat /\ m \in Nat
  BY LenProperties DEF IInv, TInv, TypeOK, Aggregate
<1>3. event \in Event
  BY <1>2 DEF Event, Log!Event, Log!Version, Aggregate
<1>4. /\ Len(entity'[c].state) = n + 1
      /\ entity'[c].version = entity[c].version + 1
      /\ \A k \in 1..n : entity'[c].state[k] = entity[c].state[k]
      /\ entity'[c].state[n + 1] = c
  <2>1. event.command = c
    OBVIOUS
  <2> HIDE DEF event
  <2>. QED  BY <1>1, <1>2, <1>3, <2>1, MutatedState DEF n
<1>5. /\ Len(events'[c]) = m + 1
      /\ \A k \in 1..m : events'[c][k] = events[c][k]
      /\ events'[c][m + 1] = event
  <2> HIDE DEF event
  <2>. QED  BY <1>1, <1>2, <1>3, AppendProperties
<1>6. /\ entity[c].version = n
      /\ Agrees(entity[c], n - m)
      /\ \A k \in 1..m : /\ events[c][k].version = n - m + k
                         /\ events[c][k].command = c
                         /\ entity[c].state[n - m + k] = c
                         /\ events[c][k].basis =
                              [j \in 1..(n - m + k - 1) |-> entity[c].state[j]]
  BY DEF IInv, Held
<1>a. event.version = n + 1 /\ event.command = c /\ event.basis = entity[c].state
  BY <1>6
<1> HIDE DEF event, n, m
<1>7. n - m \in Nat /\ (n + 1) - (m + 1) = n - m
  BY <1>2, <1>6, LenProperties DEF Agrees, IInv, TInv, TypeOK
<1>8. /\ n - m \in 0..Len(stream')
      /\ \A k \in 1..(n - m) : entity'[c].state[k] = stream'[k].command
  <2>1. /\ n - m \in 0..Len(stream)
        /\ \A k \in 1..(n - m) : entity[c].state[k] = stream[k].command
    BY <1>6 DEF Agrees
  <2>2. \A k \in 1..(n - m) : k \in 1..n
    BY <1>2, <1>7
  <2>3. \A k \in 1..(n - m) : entity'[c].state[k] = stream[k].command
    BY <1>4, <2>1, <2>2
  <2>. QED  BY <1>1, <2>1, <2>3
<1>9. ASSUME NEW k \in 1..(m + 1)
      PROVE  /\ events'[c][k].version = n - m + k
             /\ events'[c][k].command = c
             /\ entity'[c].state[n - m + k] = c
             /\ events'[c][k].basis = [j \in 1..(n - m + k - 1) |-> entity'[c].state[j]]
  <2>1. CASE k \in 1..m
    <3>1. n - m + k \in 1..n /\ (n - m + k - 1) \in 0..n
      BY <1>2, <1>7, <2>1
    <3>2. [j \in 1..(n - m + k - 1) |-> entity[c].state[j]]
            = [j \in 1..(n - m + k - 1) |-> entity'[c].state[j]]
      <4>1. \A j \in 1..(n - m + k - 1) : j \in 1..n
        BY <1>2, <3>1
      <4>. QED  BY <1>4, <4>1
    <3>. QED  BY <1>4, <1>5, <1>6, <2>1, <3>1, <3>2
  <2>2. CASE k = m + 1
    <3>1. n - m + k = n + 1 /\ n - m + k - 1 = n
      BY <1>2, <2>2
    <3>2. entity[c].state = [j \in 1..n |-> entity[c].state[j]]
      BY <1>2, LenProperties DEF n
    <3>3. entity[c].state = [j \in 1..n |-> entity'[c].state[j]]
      BY <1>2, <1>4, <3>2
    <3>. QED  BY <1>a, <1>4, <1>5, <2>2, <3>1, <3>3
  <2>. QED  BY <1>2, <2>1, <2>2
<1>10. Held(c)'
  <2>1. entity'[c].version = Len(entity'[c].state)
    BY <1>4, <1>6
  <2>2. Len(entity'[c].state) - Len(events'[c]) = n - m
    BY <1>4, <1>5, <1>7
  <2>. QED  BY <1>5, <1>8, <1>9, <2>1, <2>2 DEF Held, Agrees
<1>11. Copied(c)' /\ Clean(c)' /\ Current(c)' /\ pc'[c] # "tested"
  BY <1>1, QuietHeld DEF Clean
<1>. QED  BY <1>1, <1>10, <1>11, QuietRule

\* What an insertion does to the stream: the event is the next one, decided on
\* the whole stream as it is.
LEMMA InsertIsNext ==
  ASSUME IInv, NEW c \in Commands, Insert(c)
  PROVE  /\ stream' = Append(stream, Head(events[c]))
         /\ Head(events[c]) = [version |-> Len(stream) + 1,
                               command |-> c,
                               basis   |-> History(stream, Len(stream))]
         /\ Len(entity[c].state) - Len(events[c]) = Len(stream)
<1> DEFINE e == Head(events[c])
           n == Len(entity[c].state)
           m == Len(events[c])
<1>1. /\ stream \in Seq(Event) /\ events[c] \in Seq(Event)
      /\ entity[c].state \in Seq(Commands) /\ entity[c] \in Aggregate
  BY DEF IInv, TInv, TypeOK, Aggregate
<1>2. Len(stream) \in Nat /\ DOMAIN stream = 1..Len(stream) /\ n \in Nat /\ m \in Nat
  BY <1>1, LenProperties
<1>3. pc[c] = "appending" /\ ~Stored(e.version)
  BY DEF Insert, IInv, Threaded
<1>4. events[c] # <<>>
  BY <1>3 DEF IInv, TInv, Appending
<1>5. e = events[c][1] /\ m >= 1 /\ e \in Event
  BY <1>1, <1>4, HeadTailProperties, EmptySeq
<1>6. /\ Agrees(entity[c], n - m)
      /\ e.version = n - m + 1
      /\ e.command = c
      /\ e.basis = [j \in 1..(n - m) |-> entity[c].state[j]]
  <2>1. Held(c) /\ 1 \in 1..m
    BY <1>2, <1>5 DEF IInv
  <2>2. n - m + 1 - 1 = n - m
    BY <1>2
  <2>. QED  BY <1>5, <2>1, <2>2 DEF Held
<1> HIDE DEF e, n, m
<1>7. n - m = Len(stream)
  <2>1. n - m \in 0..Len(stream)
    BY <1>6 DEF Agrees
  <2>2. SUFFICES ASSUME n - m < Len(stream) PROVE FALSE
    BY <1>2, <2>1
  <2>3. n - m + 1 \in DOMAIN stream
    BY <1>2, <2>1, <2>2
  <2>4. stream[n - m + 1].version = n - m + 1
    BY <2>3 DEF IInv, DecidedOnHistory
  <2>. QED  BY <1>3, <1>6, <2>3, <2>4 DEF Stored
<1>8. e.basis = History(stream, Len(stream))
  <2>1. \A j \in 1..Len(stream) : entity[c].state[j] = stream[j].command
    BY <1>6, <1>7 DEF Agrees
  <2>. QED  BY <1>6, <1>7, <2>1 DEF History, Log!History
<1>9. stream' = Append(stream, e)
  BY <1>3 DEF Insert, Put, e
<1>10. e = [version |-> Len(stream) + 1, command |-> c,
            basis |-> History(stream, Len(stream))]
  <2>1. e = [version |-> e.version, command |-> e.command, basis |-> e.basis]
    BY <1>5 DEF Event, Log!Event
  <2>. QED  BY <1>6, <1>7, <1>8, <2>1
<1>. QED  BY <1>7, <1>9, <1>10 DEF e, n, m

LEMMA InsertStep ==
  ASSUME IInv, TInv', NEW c \in Commands, Insert(c) PROVE IInv'
<1> DEFINE e == Head(events[c])
           n == Len(entity[c].state)
           m == Len(events[c])
           L == Len(stream)
<1>1. /\ stream \in Seq(Event) /\ events[c] \in Seq(Event)
      /\ entity[c].state \in Seq(Commands) /\ events[c] # <<>>
  BY DEF IInv, TInv, TypeOK, Aggregate, Appending, Insert
<1>2. L \in Nat /\ n \in Nat /\ m \in Nat \ {0} /\ DOMAIN stream = 1..L
  BY <1>1, LenProperties, EmptySeq
<1>3. /\ stream' = Append(stream, e)
      /\ e = [version |-> L + 1, command |-> c, basis |-> History(stream, L)]
      /\ n - m = L
  BY InsertIsNext
<1>4. e \in Event
  BY <1>1, HeadTailProperties
<1>5. /\ entity'[c] = entity[c] /\ copy'[c] = copy[c] /\ rows'[c] = rows[c]
      /\ events'[c] = Tail(events[c])
      /\ pc'[c] = IF m = 1 THEN "saved" ELSE "appending"
      /\ \A d \in Commands \ {c} : /\ entity'[d] = entity[d] /\ copy'[d] = copy[d]
                                   /\ events'[d] = events[d]
                                   /\ rows'[d] = rows[d] /\ pc'[d] = pc[d]
      /\ UNCHANGED <<store, snapshots>>
  BY DEF Insert, IInv, TInv, TypeOK
<1>6. /\ Len(events'[c]) = m - 1
      /\ \A k \in 1..(m - 1) : events'[c][k] = events[c][k + 1]
  BY <1>1, <1>5, HeadTailProperties
<1> HIDE DEF e, n, m, L
<1>7. /\ Len(stream') = L + 1
      /\ \A k \in 1..L : stream'[k] = stream[k]
      /\ stream'[L + 1] = e
      /\ DOMAIN stream' = 1..(L + 1)
  <2>1. /\ Append(stream, e) \in Seq(Event)
        /\ Len(Append(stream, e)) = L + 1
        /\ \A k \in 1..L : Append(stream, e)[k] = stream[k]
        /\ Append(stream, e)[L + 1] = e
    BY <1>1, <1>4, AppendProperties DEF L
  <2>. QED  BY <1>3, <2>1, LenProperties
<1>8. Extends
  BY <1>2, <1>7 DEF Extends, L
<1>9. DecidedOnHistory'
  <2>1. ASSUME NEW i \in 1..(L + 1)
        PROVE  /\ stream'[i].version = i
               /\ stream'[i].basis = [j \in 1..(i - 1) |-> stream'[j].command]
    <3>1. \A j \in 1..(i - 1) : stream'[j] = stream[j]
      BY <1>2, <1>7
    <3>2. CASE i \in 1..L
      <4>1. stream[i].version = i /\ stream[i].basis = [j \in 1..(i - 1) |-> stream[j].command]
        BY <1>2, <3>2 DEF IInv, DecidedOnHistory, History, Log!History
      <4>. QED  BY <1>7, <3>1, <3>2, <4>1
    <3>3. CASE i = L + 1
      <4>1. e.version = L + 1 /\ e.basis = [j \in 1..L |-> stream[j].command]
        BY <1>3 DEF History, Log!History
      <4>2. i - 1 = L
        BY <1>2, <3>3
      <4>. QED  BY <1>7, <3>1, <3>3, <4>1, <4>2
    <3>. QED  BY <1>2, <3>2, <3>3
  <2>. QED  BY <1>7, <2>1 DEF DecidedOnHistory, History, Log!History
<1>10. SnapshotsAgree'
  BY <1>5, <1>8, SnapshotsStable DEF IInv, TInv
<1>11. /\ entity[c].version = n
       /\ \A k \in 1..L : entity[c].state[k] = stream[k].command
       /\ \A k \in 1..m : /\ events[c][k].version = L + k
                          /\ events[c][k].command = c
                          /\ entity[c].state[L + k] = c
                          /\ events[c][k].basis =
                               [j \in 1..(L + k - 1) |-> entity[c].state[j]]
  <2>1. Held(c)
    BY DEF IInv
  <2>. QED  BY <1>3, <2>1 DEF Held, Agrees, n, m
<1>12. Held(c)'
  <2>1. Len(entity'[c].state) - Len(events'[c]) = L + 1
    <3>1. Len(entity'[c].state) = n
      BY <1>5 DEF n
    <3>. QED  BY <1>2, <1>3, <1>6, <3>1
  <2>2. /\ L + 1 \in 0..Len(stream')
        /\ \A k \in 1..(L + 1) : entity'[c].state[k] = stream'[k].command
    <3>1. ASSUME NEW k \in 1..(L + 1) PROVE entity'[c].state[k] = stream'[k].command
      <4>1. CASE k \in 1..L
        BY <1>5, <1>7, <1>11, <4>1
      <4>2. CASE k = L + 1
        <5>0. 1 \in 1..m
          BY <1>2
        <5>1. entity[c].state[L + 1] = c
          BY <1>11, <5>0
        <5>2. e.command = c
          BY <1>3
        <5>. QED  BY <1>5, <1>7, <4>2, <5>1, <5>2
      <4>. QED  BY <1>2, <4>1, <4>2
    <3>. QED  BY <1>2, <1>7, <3>1
  <2>3. ASSUME NEW k \in 1..(m - 1)
        PROVE  /\ events'[c][k].version = L + 1 + k
               /\ events'[c][k].command = c
               /\ entity'[c].state[L + 1 + k] = c
               /\ events'[c][k].basis = [j \in 1..(L + 1 + k - 1) |-> entity'[c].state[j]]
    <3>1. k + 1 \in 1..m /\ L + (k + 1) = L + 1 + k /\ L + (k + 1) - 1 = L + 1 + k - 1
      BY <1>2
    <3>. QED  BY <1>5, <1>6, <1>11, <3>1
  <2>4. entity'[c].version = Len(entity'[c].state)
    BY <1>5, <1>11 DEF n
  <2>. QED  BY <1>6, <2>1, <2>2, <2>3, <2>4 DEF Held, Agrees
<1>13. Clean(c)' /\ pc'[c] # "tested"
  <2>1. m = 1 => events'[c] = <<>>
    <3>1. events'[c] \in Seq(Event)
      BY <1>1, <1>5, HeadTailProperties
    <3>. QED  BY <1>6, <3>1, EmptySeq
  <2>. QED  BY <1>5, <2>1 DEF Clean
<1>14. Copied(c)' /\ Current(c)'
  BY <1>5, <1>8, CopiedStable, CurrentStable DEF IInv, TInv
<1>. QED  BY <1>5, <1>8, <1>9, <1>10, <1>12, <1>13, <1>14, FrameRule DEF Framed

LEMMA AddSnapshotStep ==
  ASSUME IInv, TInv', NEW c \in Commands, AddSnapshot(c) PROVE IInv'
<1>1. /\ entity'[c] = entity[c] /\ copy'[c] = copy[c] /\ events'[c] = events[c]
      /\ rows'[c] = rows[c] /\ pc[c] = "replaying" /\ pc'[c] \in {"failed", "saved"}
      /\ \A d \in Commands \ {c} : /\ entity'[d] = entity[d] /\ copy'[d] = copy[d]
                                   /\ events'[d] = events[d]
                                   /\ rows'[d] = rows[d] /\ pc'[d] = pc[d]
      /\ UNCHANGED <<store, stream>>
      /\ UNCHANGED snapshots \/ snapshots' = Append(snapshots, copy[c])
  BY DEF AddSnapshot, IInv, TInv, TypeOK
<1>2. events[c] = <<>>
  BY <1>1 DEF IInv, Clean
<1>3. Extends
  BY <1>1, LenProperties DEF Extends, IInv, TInv, TypeOK
<1>4. copy[c].version = Len(copy[c].state) /\ Agrees(copy[c], copy[c].version)
  BY DEF IInv, Copied
<1>5. SnapshotsAgree'
  <2>1. CASE UNCHANGED snapshots
    BY <1>3, <2>1, SnapshotsStable DEF IInv, TInv
  <2>2. CASE snapshots' = Append(snapshots, copy[c])
    <3>1. snapshots \in Seq(Aggregate) /\ copy[c] \in Aggregate
      BY DEF IInv, TInv, TypeOK
    <3>2. ASSUME NEW i \in DOMAIN snapshots'
          PROVE  snapshots'[i] = copy[c] \/
                 (i \in DOMAIN snapshots /\ snapshots'[i] = snapshots[i])
      BY <2>2, <3>1, AppendProperties, LenProperties
    <3>. QED  BY <1>1, <1>4, <3>2 DEF SnapshotsAgree, Agrees, IInv
  <2>. QED  BY <1>1, <2>1, <2>2
<1>6. Held(c)' /\ Copied(c)' /\ Current(c)'
  BY <1>1, QuietHeld
<1>7. Clean(c)' /\ pc'[c] # "tested"
  BY <1>1, <1>2 DEF Clean
<1>8. DecidedOnHistory'
  BY <1>1 DEF IInv, DecidedOnHistory, History, Log!History
<1>. QED  BY <1>1, <1>3, <1>5, <1>6, <1>7, <1>8, FrameRule DEF Framed

LEMMA RetryStep ==
  ASSUME IInv, TInv', NEW c \in Commands, Retry(c) PROVE IInv'
<1>1. /\ entity'[c] = Blank /\ copy'[c] = Blank /\ events'[c] = <<>>
      /\ rows'[c] = <<>> /\ pc'[c] = "idle"
      /\ \A d \in Commands \ {c} : /\ entity'[d] = entity[d] /\ copy'[d] = copy[d]
                                   /\ events'[d] = events[d]
                                   /\ rows'[d] = rows[d] /\ pc'[d] = pc[d]
      /\ UNCHANGED <<store, stream, snapshots>>
  BY DEF Retry, Anew, IInv, TInv, TypeOK
<1>2. Held(c)' /\ Copied(c)'
  <2>1. entity'[c].version = 0 /\ entity'[c].state = <<>> /\ Len(<<>>) = 0
    BY <1>1, EmptySeq DEF Blank
  <2>2. Len(stream') \in Nat
    BY LenProperties DEF TInv, TypeOK
  <2>3. Agrees(entity[c], entity[c].version)'
    BY <2>1, <2>2 DEF Agrees
  <2>. QED  BY <1>1, <2>1, <2>3, FreshHeld DEF TInv, Copied
<1>3. Clean(c)' /\ Current(c)' /\ pc'[c] # "tested"
  BY <1>1, EmptySeq DEF Clean, Current
<1>. QED  BY <1>1, <1>2, <1>3, QuietRule

\* The invariant holds in every state of every behaviour of these stores.
LEMMA IInvHolds == Spec => [](Threaded \/ IInv)
<1>1. Init => Threaded \/ IInv
  BY InitIInv
<1>2. (Threaded \/ IInv) /\ TInv' /\ [Next]_vars => (Threaded \/ IInv)'
  <2> SUFFICES ASSUME Threaded \/ IInv, TInv', [Next]_vars, ~Threaded' PROVE IInv'
    OBVIOUS
  <2>0. IInv
    <3>1. store' = store
      BY DEF Next, Step, vars, Create, ReadSnapshot, ReadStream, ReadStreamBroken,
             Mutate, Rehydrated, TriggerEvent, Save, Conflict, Insert, Test,
             AddSnapshot, Finish, Retry, Anew
    <3>. QED  BY <3>1 DEF Threaded
  <2>1. ASSUME NEW c \in Commands, ReadStreamBroken(c) PROVE IInv'
    BY <2>0, <2>1 DEF ReadStreamBroken, Threaded, IInv
  <2>2. ASSUME NEW c \in Commands, Test(c) PROVE IInv'
    BY <2>0, <2>2 DEF Test, Threaded, IInv
  <2>3. ASSUME NEW c \in Commands, Save(c) PROVE IInv'
    <3>1. pc' = [pc EXCEPT ![c] = "appending"] /\ Clean(c)'
      BY <2>0, <2>3 DEF Save, Clean, IInv, TInv, TypeOK
    <3>. QED  BY <2>0, <2>3, <3>1, MoveRule DEF Save, PCs
  <2>4. ASSUME NEW c \in Commands, Conflict(c) PROVE IInv'
    <3>1. pc' = [pc EXCEPT ![c] = "failed"] /\ Clean(c)'
      BY <2>0, <2>4 DEF Conflict, Clean, IInv, TInv, TypeOK
    <3>. QED  BY <2>0, <2>4, <3>1, MoveRule DEF Conflict, PCs
  <2>5. ASSUME NEW c \in Commands, Finish(c) PROVE IInv'
    <3>1. pc' = [pc EXCEPT ![c] = "done"] /\ Clean(c)'
      BY <2>0, <2>5 DEF Finish, Clean, IInv, TInv, TypeOK
    <3>. QED  BY <2>0, <2>5, <3>1, MoveRule DEF Finish, PCs
  <2>6. CASE UNCHANGED vars
    <3>1. \A d \in Commands : Held(d)' /\ Copied(d)' /\ Current(d)'
      BY <2>0, <2>6, QuietHeld DEF vars
    <3>. QED
      BY <2>0, <2>6, <3>1 DEF vars, IInv, DecidedOnHistory, History, Log!History,
                        SnapshotsAgree, Agrees, Clean
  <2>. QED
    BY <2>0, <2>1, <2>2, <2>3, <2>4, <2>5, <2>6, CreateStep, ReadSnapshotStep,
       ReadStreamStep, MutateStep, RehydratedStep, TriggerEventStep, InsertStep, AddSnapshotStep,
       RetryStep DEF Next, Step
<1>. QED  BY <1>1, <1>2, TInvHolds, PTL DEF Spec

-----------------------------------------------------------------------------
(* What holds in every store, under threads too: versions have no gap, the  *)
(* events of a batch have consecutive versions that begin no later than     *)
(* after the last event, and the rows a command still has to apply are the  *)
(* ones after its version.                                                  *)

Dense == \A i \in DOMAIN stream : stream[i].version = i

Behind(c) ==
  LET b == Len(entity[c].state) - Len(events[c])
  IN  /\ entity[c].version = Len(entity[c].state)
      /\ b \in 0..Len(stream)
      /\ \A k \in 1..Len(events[c]) : /\ events[c][k].version = b + k
                                      /\ events[c][k].command = c
                                      /\ Len(events[c][k].basis) = b + k - 1

CopyBehind(c) ==
  copy[c].version = Len(copy[c].state) /\ copy[c].version <= Len(stream)

Ahead(c) ==
  pc[c] = "replaying" =>
    /\ \A i \in DOMAIN rows[c] : rows[c][i].version = i
    /\ \E top \in 0..Len(stream) : DOMAIN rows[c] = (copy[c].version + 1)..top

SnapshotsBehind ==
  \A i \in DOMAIN snapshots :
    /\ snapshots[i].version = Len(snapshots[i].state)
    /\ snapshots[i].version <= Len(stream)

LInv ==
  /\ TInv
  /\ Dense
  /\ SnapshotsBehind
  /\ \A c \in Commands : Behind(c) /\ CopyBehind(c) /\ Ahead(c) /\ Clean(c)

LEMMA BehindStable ==
  ASSUME TypeOK, TypeOK', Len(stream) <= Len(stream'), NEW c \in Commands, Behind(c),
         entity'[c] = entity[c], events'[c] = events[c]
  PROVE  Behind(c)'
<1> DEFINE b == Len(entity[c].state) - Len(events[c])
<1>1. b \in 0..Len(stream')
  <2>1. Len(stream) \in Nat /\ Len(stream') \in Nat
    BY LenProperties DEF TypeOK
  <2>. QED  BY <2>1 DEF Behind
<1>2. /\ b' = b
      /\ (entity[c].version = Len(entity[c].state))'
  BY DEF Behind
<1>3. \A k \in 1..Len(events[c]) : /\ events[c][k].version = b + k
                                    /\ events[c][k].command = c
                                    /\ Len(events[c][k].basis) = b + k - 1
  BY DEF Behind
<1> HIDE DEF b
<1>4. (\A k \in 1..Len(events[c]) : /\ events[c][k].version = b + k
                                     /\ events[c][k].command = c
                                     /\ Len(events[c][k].basis) = b + k - 1)'
  BY <1>2, <1>3
<1>. QED  BY <1>1, <1>2, <1>4 DEF Behind, b

LEMMA CopyBehindStable ==
  ASSUME TypeOK, TypeOK', Len(stream) <= Len(stream'), NEW c \in Commands, CopyBehind(c),
         copy'[c] = copy[c]
  PROVE  CopyBehind(c)'
<1>1. Len(stream) \in Nat /\ Len(stream') \in Nat /\ copy[c].version \in Nat
  BY LenProperties DEF TypeOK, Aggregate
<1>. QED  BY <1>1 DEF CopyBehind

\* What a step of c leaves to prove when the stream does not get shorter.
LEMMA LFrameRule ==
  ASSUME LInv, TInv', NEW c \in Commands, Len(stream) <= Len(stream'),
         \A d \in Commands \ {c} : /\ entity'[d] = entity[d] /\ events'[d] = events[d]
                                   /\ rows'[d] = rows[d] /\ pc'[d] = pc[d]
                                   /\ copy'[d] = copy[d],
         Dense', SnapshotsBehind', Behind(c)', CopyBehind(c)', Ahead(c)', Clean(c)'
  PROVE  LInv'
<1>1. Len(stream) \in Nat /\ Len(stream') \in Nat
  BY LenProperties DEF LInv, TInv, TypeOK
<1>2. ASSUME NEW d \in Commands \ {c}
      PROVE  Behind(d)' /\ CopyBehind(d)' /\ Ahead(d)' /\ Clean(d)'
  <2>1. /\ entity'[d] = entity[d] /\ events'[d] = events[d] /\ copy'[d] = copy[d]
        /\ rows'[d] = rows[d] /\ pc'[d] = pc[d]
    OBVIOUS
  <2>2. Behind(d) /\ CopyBehind(d) /\ Ahead(d) /\ Clean(d)
    BY DEF LInv
  <2>3. Behind(d)' /\ CopyBehind(d)'
    BY <2>1, <2>2, BehindStable, CopyBehindStable DEF LInv, TInv
  <2>4. Ahead(d)'
    BY <1>1, <2>1, <2>2 DEF Ahead
  <2>. QED  BY <2>1, <2>2, <2>3, <2>4 DEF Clean
<1>. QED  BY <1>2 DEF LInv

\* A step that leaves the stream and the snapshots alone.
LEMMA LQuietRule ==
  ASSUME LInv, TInv', NEW c \in Commands, UNCHANGED <<stream, snapshots>>,
         \A d \in Commands \ {c} : /\ entity'[d] = entity[d] /\ events'[d] = events[d]
                                   /\ rows'[d] = rows[d] /\ pc'[d] = pc[d]
                                   /\ copy'[d] = copy[d],
         \/ Behind(c)'
         \/ entity'[c] = entity[c] /\ events'[c] = events[c],
         CopyBehind(c)' \/ copy'[c] = copy[c],
         Ahead(c)', Clean(c)'
  PROVE  LInv'
<1>1. Len(stream) <= Len(stream')
  BY LenProperties DEF LInv, TInv, TypeOK
<1>2. Dense' /\ SnapshotsBehind'
  BY DEF LInv, Dense, SnapshotsBehind
<1>3. Behind(c)' /\ CopyBehind(c)'
  BY <1>1, BehindStable, CopyBehindStable DEF LInv, TInv
<1>. QED  BY <1>1, <1>2, <1>3, LFrameRule

\* A step of c that only moves its pc.
LEMMA LMoveRule ==
  ASSUME LInv, TInv', NEW c \in Commands, NEW to \in PCs \ {"replaying"},
         pc' = [pc EXCEPT ![c] = to],
         UNCHANGED <<stream, snapshots, entity, copy, rows, events>>, Clean(c)'
  PROVE  LInv'
<1>1. pc'[c] # "replaying" /\ \A d \in Commands \ {c} : pc'[d] = pc[d]
  BY DEF LInv, TInv, TypeOK
<1>2. Ahead(c)'
  BY <1>1 DEF Ahead
<1>. QED  BY <1>1, <1>2, LQuietRule

\* An aggregate without pending events whose version is no later than the stream.
LEMMA FreshBehind ==
  ASSUME NEW c \in Commands, TypeOK', events'[c] = <<>>,
         entity'[c].version = Len(entity'[c].state),
         entity'[c].version <= Len(stream')
  PROVE  Behind(c)'
<1>1. Len(events'[c]) = 0
  BY EmptySeq
<1>2. Len(entity'[c].state) \in Nat /\ Len(stream') \in Nat
  BY LenProperties DEF TypeOK, Aggregate
<1>. QED  BY <1>1, <1>2 DEF Behind

LEMMA CreateLoose ==
  ASSUME LInv, TInv', NEW c \in Commands, Create(c) PROVE LInv'
<1> DEFINE created == [version |-> 1, command |-> c, basis |-> <<>>]
<1>1. /\ entity'[c] = Mutated(Blank, created) /\ events'[c] = <<created>>
      /\ rows'[c] = rows[c] /\ pc'[c] = "live" /\ copy'[c] = copy[c]
      /\ \A d \in Commands \ {c} : /\ entity'[d] = entity[d] /\ events'[d] = events[d]
                                   /\ rows'[d] = rows[d] /\ pc'[d] = pc[d]
                                   /\ copy'[d] = copy[d]
      /\ UNCHANGED <<stream, snapshots>>
  BY DEF Create, LInv, TInv, TypeOK
<1>2. created \in Event
  BY EmptySeq DEF Event, Log!Event, Log!Version
<1>3. Len(events'[c]) = 1 /\ events'[c][1] = created
  BY <1>1
<1>4. created.version = 1 /\ created.command = c /\ Len(created.basis) = 0
  BY EmptySeq
<1> HIDE DEF created
<1>5. entity'[c].version = 1 /\ Len(entity'[c].state) = 1
  <2>1. Blank.version = 0 /\ Len(Blank.state) = 0
    BY EmptySeq DEF Blank
  <2>2. /\ Mutated(Blank, created).version = Blank.version + 1
        /\ Len(Mutated(Blank, created).state) = Len(Blank.state) + 1
    BY <1>2, BlankType, MutatedState
  <2>. QED  BY <1>1, <2>1, <2>2
<1>6. Behind(c)'
  <2>1. Len(stream') \in Nat
    BY LenProperties DEF TInv, TypeOK
  <2>. QED  BY <1>3, <1>4, <1>5, <2>1 DEF Behind
<1>. QED  BY <1>1, <1>6, LQuietRule DEF Ahead, Clean

LEMMA ReadSnapshotLoose ==
  ASSUME LInv, TInv', NEW c \in Commands, ReadSnapshot(c) PROVE LInv'
<1>1. PICK a \in LastSnapshots : copy' = [copy EXCEPT ![c] = a]
  BY DEF ReadSnapshot
<1>2. /\ copy'[c] = a /\ entity'[c] = entity[c] /\ events'[c] = events[c]
      /\ pc[c] \in {"idle", "saved"} /\ pc'[c] = "found"
      /\ \A d \in Commands \ {c} : /\ entity'[d] = entity[d] /\ events'[d] = events[d]
                                   /\ rows'[d] = rows[d] /\ pc'[d] = pc[d]
                                   /\ copy'[d] = copy[d]
      /\ UNCHANGED <<stream, snapshots>>
  BY <1>1 DEF ReadSnapshot, LInv, TInv, TypeOK
<1>3. Clean(c)'
  BY <1>2 DEF LInv, Clean
<1>4. a.version = Len(a.state) /\ a.version <= Len(stream)
  <2>1. CASE snapshots = <<>>
    <3>1. a.version = 0 /\ a.state = <<>>
      BY <2>1 DEF LastSnapshots, Blank
    <3>2. Len(stream) \in Nat
      BY LenProperties DEF LInv, TInv, TypeOK
    <3>. QED  BY <3>1, <3>2, EmptySeq
  <2>2. CASE snapshots # <<>>
    BY <2>2 DEF LastSnapshots, LInv, SnapshotsBehind
  <2>. QED  BY <2>1, <2>2
<1>5. CopyBehind(c)' /\ Ahead(c)'
  BY <1>2, <1>4 DEF CopyBehind, Ahead
<1>. QED  BY <1>2, <1>3, <1>5, LQuietRule

LEMMA ReadStreamLoose ==
  ASSUME LInv, TInv', NEW c \in Commands, ReadStream(c) PROVE LInv'
<1>1. /\ entity'[c] = entity[c] /\ events'[c] = events[c] /\ copy'[c] = copy[c]
      /\ rows'[c] = EventsFrom(c, copy[c].version + 1)
      /\ pc[c] = "found" /\ pc'[c] = "replaying"
      /\ \A d \in Commands \ {c} : /\ entity'[d] = entity[d] /\ events'[d] = events[d]
                                   /\ rows'[d] = rows[d] /\ pc'[d] = pc[d]
                                   /\ copy'[d] = copy[d]
      /\ UNCHANGED <<stream, snapshots>>
  BY DEF ReadStream, LInv, TInv, TypeOK
<1>2. Clean(c)'
  BY <1>1 DEF LInv, Clean
<1>3. /\ DOMAIN stream = 1..Len(stream) /\ Len(stream) \in Nat
      /\ copy[c].version \in Nat
  BY LenProperties DEF LInv, TInv, TypeOK, Aggregate
<1>4. \A i \in DOMAIN rows'[c] : i \in DOMAIN stream /\ rows'[c][i] = stream[i]
  BY <1>1 DEF EventsFrom
<1>5. \E top \in 0..Len(stream) : DOMAIN rows'[c] = (copy[c].version + 1)..top
  <2>1. DOMAIN rows'[c] =
          {j \in DOMAIN stream : /\ stream[j].version >= copy[c].version + 1
                                 /\ Capturing(c) => stream[j].version <= Head(captures[c])}
    BY <1>1 DEF EventsFrom
  <2>2. \A j \in DOMAIN stream : stream[j].version = j
    BY DEF LInv, Dense
  <2>3. CASE Capturing(c)
    <3>1. Head(captures[c]) \in Nat
      BY <2>3, HeadTailProperties DEF Capturing, LInv, TInv, TypeOK
    <3>2. CASE Head(captures[c]) <= Len(stream)
      <4>1. DOMAIN rows'[c] = (copy[c].version + 1)..Head(captures[c])
        BY <1>3, <2>1, <2>2, <2>3, <3>1, <3>2
      <4>. QED  BY <1>3, <3>1, <3>2, <4>1
    <3>3. CASE ~(Head(captures[c]) <= Len(stream))
      <4>1. DOMAIN rows'[c] = (copy[c].version + 1)..Len(stream)
        BY <1>3, <2>1, <2>2, <2>3, <3>1, <3>3
      <4>. QED  BY <1>3, <4>1
    <3>. QED  BY <3>2, <3>3
  <2>4. CASE ~Capturing(c)
    <3>1. DOMAIN rows'[c] = (copy[c].version + 1)..Len(stream)
      BY <1>3, <2>1, <2>2, <2>4
    <3>. QED  BY <1>3, <3>1
  <2>. QED  BY <2>3, <2>4
<1>6. Ahead(c)'
  <2>1. \A i \in DOMAIN rows'[c] : rows'[c][i].version = i
    BY <1>4 DEF LInv, Dense
  <2>. QED  BY <1>1, <1>5, <2>1 DEF Ahead
<1>. QED  BY <1>1, <1>2, <1>6, LQuietRule

LEMMA MutateLoose ==
  ASSUME LInv, TInv', NEW c \in Commands, Mutate(c) PROVE LInv'
<1>1. PICK i \in DOMAIN rows[c] :
        IF Follows(rows[c][i], copy[c])
          THEN /\ copy' = [copy EXCEPT ![c] = Mutated(@, rows[c][i])]
               /\ rows' = [rows EXCEPT ![c] = [j \in DOMAIN @ \ {i} |-> @[j]]]
               /\ UNCHANGED pc
          ELSE /\ pc' = [pc EXCEPT ![c] = "corrupt"]
               /\ UNCHANGED <<copy, rows>>
  BY DEF Mutate
<1>2. UNCHANGED <<stream, snapshots, entity, events>> /\ pc[c] = "replaying"
  BY DEF Mutate
<1>3. CASE ~Follows(rows[c][i], copy[c])
  <2>1. Clean(c)'
    BY <1>1, <1>2, <1>3 DEF Clean, LInv, TInv, TypeOK
  <2>. QED  BY <1>1, <1>2, <1>3, <2>1, LMoveRule DEF PCs
<1>4. CASE Follows(rows[c][i], copy[c])
  <2>1. /\ copy'[c] = Mutated(copy[c], rows[c][i])
        /\ rows'[c] = [j \in DOMAIN rows[c] \ {i} |-> rows[c][j]]
        /\ \A d \in Commands \ {c} : copy'[d] = copy[d] /\ rows'[d] = rows[d]
    BY <1>1, <1>4 DEF LInv, TInv, TypeOK
  <2>3. /\ copy[c].version = Len(copy[c].state)
        /\ copy[c] \in Aggregate /\ rows[c][i] \in Event
        /\ copy[c].version \in Nat /\ Len(stream) \in Nat
    BY LenProperties DEF LInv, TInv, TypeOK, Aggregate, CopyBehind
  <2>4. PICK top \in 0..Len(stream) : DOMAIN rows[c] = (copy[c].version + 1)..top
    BY <1>2 DEF LInv, Ahead
  <2>5. i = copy[c].version + 1
    <3>1. rows[c][i].version = i
      BY <1>2 DEF LInv, Ahead
    <3>. QED  BY <1>4, <3>1 DEF Follows
  <2>6. copy'[c].version = i /\ copy'[c].version = Len(copy'[c].state)
    <3>1. /\ Mutated(copy[c], rows[c][i]).version = copy[c].version + 1
          /\ Len(Mutated(copy[c], rows[c][i]).state) = Len(copy[c].state) + 1
      BY <2>3, MutatedState
    <3>. QED  BY <2>1, <2>3, <2>5, <3>1
  <2>7. CopyBehind(c)'
    <3>1. i <= Len(stream)
      BY <2>3, <2>4
    <3>. QED  BY <1>2, <2>6, <3>1 DEF CopyBehind
  <2>8. Ahead(c)'
    <3>1. DOMAIN rows'[c] = (i + 1)..top
      <4>1. DOMAIN rows'[c] = DOMAIN rows[c] \ {i}
        BY <2>1
      <4>. QED  BY <2>3, <2>4, <2>5, <4>1
    <3>2. \A j \in DOMAIN rows'[c] : rows'[c][j].version = j
      BY <1>2, <2>1 DEF LInv, Ahead
    <3>. QED  BY <1>2, <2>4, <2>6, <3>1, <3>2 DEF Ahead
  <2>9. Clean(c)'
    BY <1>1, <1>2, <1>4 DEF Clean, LInv
  <2>. QED  BY <1>1, <1>2, <1>4, <2>1, <2>7, <2>8, <2>9, LQuietRule
<1>. QED  BY <1>3, <1>4

LEMMA RehydratedLoose ==
  ASSUME LInv, TInv', NEW c \in Commands, Rehydrated(c) PROVE LInv'
<1>1. /\ pc[c] = "replaying" /\ pc'[c] = "live"
      /\ entity'[c] = copy[c] /\ events'[c] = events[c] /\ copy'[c] = copy[c]
      /\ \A d \in Commands \ {c} : /\ entity'[d] = entity[d] /\ events'[d] = events[d]
                                   /\ rows'[d] = rows[d] /\ pc'[d] = pc[d]
                                   /\ copy'[d] = copy[d]
      /\ UNCHANGED <<stream, snapshots>>
  BY DEF Rehydrated, LInv, TInv, TypeOK
<1>2. events'[c] = <<>>
  BY <1>1 DEF LInv, Clean
<1>3. Behind(c)'
  BY <1>1, <1>2, FreshBehind DEF LInv, CopyBehind, TInv
<1>4. Ahead(c)' /\ Clean(c)'
  BY <1>1 DEF Ahead, Clean
<1>. QED  BY <1>1, <1>3, <1>4, LQuietRule

LEMMA TriggerEventLoose ==
  ASSUME LInv, TInv', NEW c \in Commands, TriggerEvent(c) PROVE LInv'
<1> DEFINE event == [version |-> entity[c].version + 1,
                     command |-> c,
                     basis   |-> entity[c].state]
           n == Len(entity[c].state)
           m == Len(events[c])
<1>1. /\ entity'[c] = Mutated(entity[c], event)
      /\ events'[c] = Append(events[c], event)
      /\ rows'[c] = rows[c] /\ pc'[c] = "live" /\ copy'[c] = copy[c]
      /\ \A d \in Commands \ {c} : /\ entity'[d] = entity[d] /\ events'[d] = events[d]
                                   /\ rows'[d] = rows[d] /\ pc'[d] = pc[d]
                                   /\ copy'[d] = copy[d]
      /\ UNCHANGED <<stream, snapshots>>
  BY DEF TriggerEvent, LInv, TInv, TypeOK
<1>2. /\ entity[c] \in Aggregate /\ events[c] \in Seq(Event)
      /\ n \in Nat /\ m \in Nat /\ Len(stream) \in Nat
  BY LenProperties DEF LInv, TInv, TypeOK, Aggregate
<1>3. event \in Event
  BY <1>2 DEF Event, Log!Event, Log!Version, Aggregate
<1>4. /\ entity[c].version = n /\ n - m \in 0..Len(stream)
      /\ \A k \in 1..m : /\ events[c][k].version = n - m + k
                         /\ events[c][k].command = c
                         /\ Len(events[c][k].basis) = n - m + k - 1
  BY DEF LInv, Behind
<1>5. event.version = n + 1 /\ event.command = c /\ Len(event.basis) = n
  BY <1>4
<1> HIDE DEF event, n, m
<1>6. /\ entity'[c].version = n + 1 /\ Len(entity'[c].state) = n + 1
  <2>1. /\ Mutated(entity[c], event).version = entity[c].version + 1
        /\ Len(Mutated(entity[c], event).state) = Len(entity[c].state) + 1
    BY <1>2, <1>3, MutatedState
  <2>. QED  BY <1>1, <1>4, <2>1 DEF n
<1>7. /\ Len(events'[c]) = m + 1 /\ events'[c][m + 1] = event
      /\ \A k \in 1..m : events'[c][k] = events[c][k]
  BY <1>1, <1>2, <1>3, AppendProperties DEF m
<1>8. ASSUME NEW k \in 1..(m + 1)
      PROVE  /\ events'[c][k].version = n - m + k
             /\ events'[c][k].command = c
             /\ Len(events'[c][k].basis) = n - m + k - 1
  <2>1. CASE k \in 1..m
    BY <1>4, <1>7, <2>1
  <2>2. CASE k = m + 1
    <3>1. n - m + (m + 1) = n + 1 /\ n - m + (m + 1) - 1 = n
      BY <1>2
    <3>. QED  BY <1>5, <1>7, <2>2, <3>1
  <2>. QED  BY <1>2, <2>1, <2>2
<1>9. Behind(c)'
  <2>1. Len(entity'[c].state) - Len(events'[c]) = n - m
    BY <1>2, <1>6, <1>7
  <2>. QED  BY <1>1, <1>4, <1>6, <1>7, <1>8, <2>1 DEF Behind
<1>. QED  BY <1>1, <1>9, LQuietRule DEF Ahead, Clean

\* What an insertion does to a stream without gaps: the event takes the place of its
\* version, which is at most the one after the last.
LEMMA InsertRaces ==
  ASSUME LInv, NEW c \in Commands, Insert(c)
  PROVE  \E e \in Event, v \in 1..(Len(stream) + 1) :
           /\ e = Head(events[c]) /\ v = e.version
           /\ v = Len(entity[c].state) - Len(events[c]) + 1
           /\ e.command = c /\ Len(e.basis) = v - 1
           /\ Len(stream') = IF v <= Len(stream) THEN Len(stream) ELSE v
           /\ \A k \in 1..Len(stream') : k # v => stream'[k] = stream[k]
           /\ stream'[v] = e
           /\ stream' \in Seq(Event)
<1> DEFINE L == Len(stream)
           e == Head(events[c])
           v == e.version
<1>0. e = Head(events[c]) /\ v = e.version
  OBVIOUS
<1> HIDE DEF e, v
<1>1. /\ stream \in Seq(Event) /\ events[c] \in Seq(Event) /\ events[c] # <<>>
      /\ Len(entity[c].state) \in Nat /\ Len(events[c]) \in Nat
      /\ L \in Nat /\ DOMAIN stream = 1..L
  BY LenProperties DEF LInv, TInv, TypeOK, Aggregate, Appending, Insert
<1>2. e = events[c][1] /\ Len(events[c]) >= 1 /\ e \in Event
  BY <1>0, <1>1, HeadTailProperties, EmptySeq
<1>3. /\ v = Len(entity[c].state) - Len(events[c]) + 1
      /\ v \in 1..(L + 1) /\ e.command = c /\ Len(e.basis) = v - 1
  <2> DEFINE b == Len(entity[c].state) - Len(events[c])
  <2>1. Behind(c) /\ 1 \in 1..Len(events[c])
    BY <1>1, <1>2 DEF LInv
  <2>2. /\ b \in 0..L
        /\ events[c][1].version = b + 1 /\ events[c][1].command = c
        /\ Len(events[c][1].basis) = b + 1 - 1
    BY <2>1 DEF Behind
  <2> HIDE DEF b
  <2>3. e.version = b + 1 /\ e.command = c /\ Len(e.basis) = b + 1 - 1
    BY <1>2, <2>2
  <2>4. v = b + 1
    BY <1>0, <2>3
  <2>5. v \in 1..(L + 1) /\ v - 1 = b /\ b + 1 - 1 = b
    BY <1>1, <2>2, <2>4
  <2>6. b = Len(entity[c].state) - Len(events[c])
    BY DEF b
  <2> HIDE DEF L
  <2>. QED  BY <2>3, <2>4, <2>5, <2>6
<1>4. Put(e)
  BY <1>0 DEF Insert
<1>5. stream' \in Seq(Event)
  BY <1>1, <1>2, <1>4, PutType
<1> HIDE DEF L
<1>6. \A i \in 1..L : stream[i].version = i
  BY <1>1 DEF LInv, Dense
<1>7. e.version = v
  BY <1>0
<1> DEFINE Raced == /\ Len(stream') = IF v <= L THEN L ELSE v
                    /\ \A k \in 1..Len(stream') : k # v => stream'[k] = stream[k]
                    /\ stream'[v] = e
<1>8. ASSUME v <= L PROVE Raced
  <2>1. v \in 1..L
    BY <1>1, <1>3, <1>8
  <2>2. Stored(e.version)
    BY <1>1, <1>6, <1>7, <2>1 DEF Stored
  <2>3. stream' = [i \in 1..L |-> IF stream[i].version = v THEN e ELSE stream[i]]
    BY <1>1, <1>4, <1>7, <2>2 DEF Put
  <2>4. Len(stream') = L
    BY <1>1, <1>5, <2>3, LenProperties
  <2>5. \A k \in 1..L : stream'[k] = IF k = v THEN e ELSE stream[k]
    BY <1>6, <2>3
  <2>. QED  BY <1>1, <1>8, <2>1, <2>4, <2>5
<1>9. ASSUME v = L + 1 PROVE Raced
  <2>1. ~Stored(e.version)
    <3>1. \A i \in 1..L : stream[i].version # v
      BY <1>1, <1>6, <1>9
    <3>. QED  BY <1>1, <1>7, <3>1 DEF Stored
  <2>2. stream' = Append(stream, e)
    BY <1>4, <2>1 DEF Put
  <2>3. /\ Len(stream') = L + 1 /\ stream'[L + 1] = e
        /\ \A k \in 1..L : stream'[k] = stream[k]
    BY <1>1, <1>2, <2>2, AppendProperties DEF L
  <2>4. \A k \in 1..Len(stream') : k # v => stream'[k] = stream[k]
    BY <1>1, <1>9, <2>3
  <2>. QED  BY <1>1, <1>9, <2>3, <2>4
<1> HIDE DEF Raced
<1>10. Raced
  <2>0. v \in 1..(L + 1) /\ L \in Nat
    BY <1>1, <1>3
  <2>1. v <= L \/ v = L + 1
    BY <2>0
  <2>. QED  BY <1>8, <1>9, <2>1
<1>11. /\ Len(stream') = IF v <= Len(stream) THEN Len(stream) ELSE v
       /\ \A k \in 1..Len(stream') : k # v => stream'[k] = stream[k]
       /\ stream'[v] = e
  BY <1>10 DEF L, Raced
<1>12. v \in 1..(Len(stream) + 1) /\ e \in Event
  BY <1>2, <1>3 DEF L
<1>13. /\ e = Head(events[c]) /\ v = e.version
       /\ v = Len(entity[c].state) - Len(events[c]) + 1
       /\ e.command = c /\ Len(e.basis) = v - 1
       /\ stream' \in Seq(Event)
  BY <1>0, <1>3, <1>5
<1>. QED  BY <1>11, <1>12, <1>13, Zenon

LEMMA InsertLoose ==
  ASSUME LInv, TInv', NEW c \in Commands, Insert(c) PROVE LInv'
<1>0. PICK e \in Event, v \in 1..(Len(stream) + 1) :
        /\ e = Head(events[c]) /\ v = e.version
        /\ v = Len(entity[c].state) - Len(events[c]) + 1
        /\ e.command = c /\ Len(e.basis) = v - 1
        /\ Len(stream') = IF v <= Len(stream) THEN Len(stream) ELSE v
        /\ \A k \in 1..Len(stream') : k # v => stream'[k] = stream[k]
        /\ stream'[v] = e
        /\ stream' \in Seq(Event)
  BY InsertRaces, Zenon
<1> DEFINE n == Len(entity[c].state)
           m == Len(events[c])
           L == Len(stream)
<1>1. /\ v = n - m + 1 /\ v \in 1..(L + 1)
      /\ Len(stream') = IF v <= L THEN L ELSE v
      /\ \A k \in 1..Len(stream') : k # v => stream'[k] = stream[k]
      /\ stream'[v] = e
  BY <1>0
<1>2. /\ stream \in Seq(Event) /\ stream' \in Seq(Event) /\ events[c] \in Seq(Event)
      /\ n \in Nat /\ m \in Nat /\ L \in Nat /\ events[c] # <<>>
      /\ DOMAIN stream = 1..L /\ DOMAIN stream' = 1..Len(stream')
  BY LenProperties DEF LInv, TInv, TypeOK, Aggregate, Appending, Insert
<1>3. /\ entity'[c] = entity[c] /\ rows'[c] = rows[c] /\ copy'[c] = copy[c]
      /\ events'[c] = Tail(events[c])
      /\ pc'[c] = IF m = 1 THEN "saved" ELSE "appending"
      /\ \A d \in Commands \ {c} : /\ entity'[d] = entity[d] /\ events'[d] = events[d]
                                   /\ rows'[d] = rows[d] /\ pc'[d] = pc[d]
                                   /\ copy'[d] = copy[d]
      /\ UNCHANGED snapshots
  BY DEF Insert, LInv, TInv, TypeOK
<1>4. /\ Len(events'[c]) = m - 1 /\ m >= 1
      /\ \A k \in 1..(m - 1) : events'[c][k] = events[c][k + 1]
  BY <1>2, <1>3, HeadTailProperties, EmptySeq
<1>5. /\ entity[c].version = n
      /\ \A k \in 1..m : /\ events[c][k].version = n - m + k
                         /\ events[c][k].command = c
                         /\ Len(events[c][k].basis) = n - m + k - 1
  BY DEF LInv, Behind
<1>6. e.version = v
  BY <1>0
<1> HIDE DEF n, m, L
<1>7. L <= Len(stream') /\ Len(stream') \in Nat /\ v <= Len(stream')
  BY <1>1, <1>2
<1>8. Dense'
  <2>1. ASSUME NEW i \in 1..Len(stream') PROVE stream'[i].version = i
    <3>1. CASE i = v
      BY <1>1, <1>6, <3>1
    <3>2. CASE i # v
      <4>1. i \in 1..L
        BY <1>1, <1>2, <3>2
      <4>. QED  BY <1>1, <1>2, <3>2, <4>1 DEF LInv, Dense
    <3>. QED  BY <3>1, <3>2
  <2>. QED  BY <1>2, <2>1 DEF Dense
<1>9. SnapshotsBehind'
  <2>1. ASSUME NEW i \in DOMAIN snapshots PROVE snapshots[i].version <= Len(stream')
    <3>0. snapshots[i] \in Aggregate
      BY ElementOfSeq, LenProperties DEF LInv, TInv, TypeOK
    <3>1. snapshots[i].version <= L /\ snapshots[i].version \in Nat
      BY <3>0 DEF LInv, SnapshotsBehind, Aggregate, L
    <3>. QED  BY <1>2, <1>7, <3>1
  <2>. QED  BY <1>3, <2>1 DEF LInv, SnapshotsBehind
<1>10. Behind(c)'
  <2>1. Len(entity'[c].state) = n /\ entity'[c].version = n
    BY <1>3, <1>5 DEF n
  <2>2. n - (m - 1) = v /\ v \in 0..Len(stream')
    BY <1>1, <1>2, <1>7
  <2>3. ASSUME NEW k \in 1..(m - 1)
        PROVE  /\ events'[c][k].version = v + k
               /\ events'[c][k].command = c
               /\ Len(events'[c][k].basis) = v + k - 1
    <3>0. v = n - m + 1 /\ n \in Nat /\ m \in Nat
      BY <1>1, <1>2
    <3>1. k + 1 \in 1..m /\ n - m + (k + 1) = v + k /\ n - m + (k + 1) - 1 = v + k - 1
      BY <3>0
    <3>. QED  BY <1>4, <1>5, <3>1
  <2>. QED  BY <1>4, <2>1, <2>2, <2>3 DEF Behind
<1>11. Clean(c)'
  <2>1. m = 1 => events'[c] = <<>>
    <3>1. events'[c] \in Seq(Event)
      BY <1>2, <1>3, HeadTailProperties
    <3>. QED  BY <1>4, <3>1, EmptySeq
  <2>. QED  BY <1>3, <2>1 DEF Clean
<1>12. Ahead(c)' /\ Len(stream) <= Len(stream')
  BY <1>3, <1>7 DEF Ahead, L
<1>13. CopyBehind(c)'
  BY <1>3, <1>12, CopyBehindStable DEF LInv, TInv
<1>. QED  BY <1>3, <1>8, <1>9, <1>10, <1>11, <1>12, <1>13, LFrameRule

LEMMA AddSnapshotLoose ==
  ASSUME LInv, TInv', NEW c \in Commands, AddSnapshot(c) PROVE LInv'
<1>1. /\ entity'[c] = entity[c] /\ events'[c] = events[c] /\ copy'[c] = copy[c]
      /\ pc[c] = "replaying" /\ pc'[c] \in {"failed", "saved"}
      /\ \A d \in Commands \ {c} : /\ entity'[d] = entity[d] /\ events'[d] = events[d]
                                   /\ rows'[d] = rows[d] /\ pc'[d] = pc[d]
                                   /\ copy'[d] = copy[d]
      /\ UNCHANGED stream
      /\ UNCHANGED snapshots \/ snapshots' = Append(snapshots, copy[c])
  BY DEF AddSnapshot, LInv, TInv, TypeOK
<1>2. events[c] = <<>> /\ CopyBehind(c) /\ Behind(c)
  BY <1>1 DEF LInv, Clean
<1>4. SnapshotsBehind'
  <2>1. CASE UNCHANGED snapshots
    BY <1>1, <2>1 DEF LInv, SnapshotsBehind
  <2>2. CASE snapshots' = Append(snapshots, copy[c])
    <3>1. snapshots \in Seq(Aggregate) /\ copy[c] \in Aggregate
      BY DEF LInv, TInv, TypeOK
    <3>2. ASSUME NEW i \in DOMAIN snapshots'
          PROVE  snapshots'[i] = copy[c] \/
                 (i \in DOMAIN snapshots /\ snapshots'[i] = snapshots[i])
      BY <2>2, <3>1, AppendProperties, LenProperties
    <3>. QED  BY <1>1, <1>2, <3>2 DEF LInv, SnapshotsBehind, CopyBehind
  <2>. QED  BY <1>1, <2>1, <2>2
<1>5. Behind(c)' /\ CopyBehind(c)' /\ Ahead(c)' /\ Clean(c)'
  BY <1>1, <1>2 DEF Behind, CopyBehind, Ahead, Clean
<1>6. Dense' /\ Len(stream) <= Len(stream')
  BY <1>1, LenProperties DEF LInv, Dense, TInv, TypeOK
<1>. QED  BY <1>1, <1>4, <1>5, <1>6, LFrameRule

LEMMA RetryLoose ==
  ASSUME LInv, TInv', NEW c \in Commands, Retry(c) PROVE LInv'
<1>1. /\ entity'[c] = Blank /\ events'[c] = <<>> /\ pc'[c] = "idle" /\ copy'[c] = Blank
      /\ \A d \in Commands \ {c} : /\ entity'[d] = entity[d] /\ events'[d] = events[d]
                                   /\ rows'[d] = rows[d] /\ pc'[d] = pc[d]
                                   /\ copy'[d] = copy[d]
      /\ UNCHANGED <<stream, snapshots>>
  BY DEF Retry, Anew, LInv, TInv, TypeOK
<1>2. /\ Blank.version = 0 /\ Blank.state = <<>> /\ Len(<<>>) = 0
      /\ Len(stream') \in Nat
  BY EmptySeq, LenProperties DEF Blank, TInv, TypeOK
<1>3. Behind(c)'
  BY <1>1, <1>2, FreshBehind DEF TInv
<1>4. CopyBehind(c)' /\ Ahead(c)' /\ Clean(c)'
  BY <1>1, <1>2 DEF CopyBehind, Ahead, Clean
<1>. QED  BY <1>1, <1>3, <1>4, LQuietRule

\* The loose invariant holds in every state of every behaviour of every store.
LEMMA LInvHolds == Spec => []LInv
<1>1. Init => LInv
  <2> SUFFICES ASSUME Init PROVE LInv
    OBVIOUS
  <2>1. TInv
    BY BlankType, EmptySeq, BoundsAssumption DEF Init, TInv, TypeOK, Appending, PCs
  <2>2. Len(<<>>) = 0 /\ DOMAIN <<>> = {}
    BY EmptySeq
  <2>3. ASSUME NEW c \in Commands
        PROVE  Behind(c) /\ CopyBehind(c) /\ Ahead(c) /\ Clean(c)
    <3>1. /\ entity[c].version = 0 /\ entity[c].state = <<>> /\ events[c] = <<>>
          /\ copy[c].version = 0 /\ copy[c].state = <<>>
          /\ pc[c] = "idle" /\ stream = <<>>
      BY DEF Init, Blank
    <3>. QED  BY <2>2, <3>1 DEF Behind, CopyBehind, Ahead, Clean
  <2>4. Dense /\ SnapshotsBehind
    BY <2>2 DEF Init, Dense, SnapshotsBehind
  <2>. QED  BY <2>1, <2>3, <2>4 DEF LInv
<1>2. LInv /\ TInv' /\ [Next]_vars => LInv'
  <2> SUFFICES ASSUME LInv, TInv', [Next]_vars PROVE LInv'
    OBVIOUS
  <2>2. ASSUME NEW c \in Commands, ReadStreamBroken(c) PROVE LInv'
    <3>1. pc' = [pc EXCEPT ![c] = "failed"] /\ Clean(c)'
      BY <2>2 DEF ReadStreamBroken, Clean, LInv, TInv, TypeOK
    <3>. QED  BY <2>2, <3>1, LMoveRule DEF ReadStreamBroken, PCs
  <2>3. ASSUME NEW c \in Commands, Test(c) PROVE LInv'
    <3>1. pc' = [pc EXCEPT ![c] = "tested"] /\ Clean(c)'
      BY <2>3 DEF Test, Clean, LInv, TInv, TypeOK
    <3>. QED  BY <2>3, <3>1, LMoveRule DEF Test, PCs
  <2>5. ASSUME NEW c \in Commands, Save(c) PROVE LInv'
    <3>1. pc' = [pc EXCEPT ![c] = "appending"] /\ Clean(c)'
      BY <2>5 DEF Save, Clean, LInv, TInv, TypeOK
    <3>. QED  BY <2>5, <3>1, LMoveRule DEF Save, PCs
  <2>6. ASSUME NEW c \in Commands, Conflict(c) PROVE LInv'
    <3>1. pc' = [pc EXCEPT ![c] = "failed"] /\ Clean(c)'
      BY <2>6 DEF Conflict, Clean, LInv, TInv, TypeOK
    <3>. QED  BY <2>6, <3>1, LMoveRule DEF Conflict, PCs
  <2>7. ASSUME NEW c \in Commands, Finish(c) PROVE LInv'
    <3>1. pc' = [pc EXCEPT ![c] = "done"] /\ Clean(c)'
      BY <2>7 DEF Finish, Clean, LInv, TInv, TypeOK
    <3>. QED  BY <2>7, <3>1, LMoveRule DEF Finish, PCs
  <2>8. CASE UNCHANGED vars
    <3>1. Len(stream) <= Len(stream') /\ TypeOK /\ TypeOK'
      BY <2>8, LenProperties DEF vars, LInv, TInv, TypeOK
    <3>2. \A d \in Commands : Behind(d)' /\ CopyBehind(d)'
      BY <2>8, <3>1, BehindStable, CopyBehindStable DEF vars, LInv
    <3>. QED  BY <2>8, <3>2 DEF vars, LInv, Dense, SnapshotsBehind, Ahead, Clean
  <2>. QED
    BY <2>2, <2>3, <2>5, <2>6, <2>7, <2>8, CreateLoose, ReadSnapshotLoose,
       ReadStreamLoose, MutateLoose, RehydratedLoose, TriggerEventLoose, InsertLoose,
       AddSnapshotLoose, RetryLoose DEF Next, Step
<1>. QED  BY <1>1, <1>2, TInvHolds, PTL DEF Spec

-----------------------------------------------------------------------------
(* What follows.                                                           *)

\* An aggregate that agrees with the stream up to its version is what the stream
\* rehydrates to.
LEMMA AgreeingIsHistory ==
  ASSUME NEW a \in Aggregate, a.version = Len(a.state), Agrees(a, a.version)
  PROVE  a.state = History(stream, a.version)
<1>1. a.state = [k \in 1..Len(a.state) |-> a.state[k]]
  BY LenProperties DEF Aggregate
<1>. QED  BY <1>1 DEF Agrees, History, Log!History

\* No lost update: what a save reported as stored stays what the stream says, for
\* any number of concurrent commands, any batch and any retry strategy, in the
\* in-memory store on one thread and in both modes of the Postgres store.
THEOREM NoLostUpdate == Spec => []NoUpdateLost
<1>1. IInv => SavedIsStored
  <2> SUFFICES ASSUME IInv, NEW c \in Commands, Appended(c)
               PROVE  /\ entity[c].version <= Len(stream)
                      /\ entity[c].state = History(stream, entity[c].version)
    BY DEF SavedIsStored
  <2>1. Len(events[c]) = 0
    BY EmptySeq DEF IInv, Clean, Appended, Capturing
  <2>2. /\ entity[c] \in Aggregate /\ Len(entity[c].state) \in Nat
        /\ Len(stream) \in Nat
    BY LenProperties DEF IInv, TInv, TypeOK, Aggregate
  <2>3. Held(c)
    BY DEF IInv
  <2>4. entity[c].version = Len(entity[c].state) /\ Agrees(entity[c], entity[c].version)
    BY <2>1, <2>2, <2>3 DEF Held
  <2>. QED  BY <2>2, <2>4, AgreeingIsHistory DEF Agrees
<1>2. Threaded \/ IInv => NoUpdateLost
  BY <1>1 DEF NoUpdateLost
<1>. QED  BY <1>2, IInvHolds, PTL

\* Every snapshot is a state the stream really went through.
THEOREM SnapshotsSound == Spec => []SnapshotsAreHistory
<1>1. Threaded \/ IInv => SnapshotsAreHistory
  <2> SUFFICES ASSUME IInv, NEW i \in DOMAIN snapshots
               PROVE  /\ snapshots[i].version <= Len(stream)
                      /\ snapshots[i].state = History(stream, snapshots[i].version)
    BY DEF SnapshotsAreHistory
  <2>1. snapshots[i] \in Aggregate /\ Len(stream) \in Nat
    BY ElementOfSeq, LenProperties DEF IInv, TInv, TypeOK
  <2>2. /\ snapshots[i].version = Len(snapshots[i].state)
        /\ Agrees(snapshots[i], snapshots[i].version)
    BY DEF IInv, SnapshotsAgree
  <2>. QED  BY <2>1, <2>2, AgreeingIsHistory DEF Agrees
<1>. QED  BY <1>1, IInvHolds, PTL

\* Every store and its clients implement the abstract event log: every step adds the
\* next event, decided on the whole log, or, under threads, puts one event where no
\* gap comes from it, or leaves the log alone.
THEOREM ImplementsLog == Spec => LogSpec
<1>1. Init => Log!Init
  BY DEF Init, Log!Init, Threaded
<1>2. LInv /\ (Threaded \/ IInv) /\ [Next]_vars
        => [Log!Next]_<<stream, ~Threaded>>
  <2> SUFFICES ASSUME LInv, Threaded \/ IInv, [Next]_vars PROVE [Log!Next]_<<stream, ~Threaded>>
    OBVIOUS
  <2>1. UNCHANGED ~Threaded
    BY DEF Next, Step, vars, Create, ReadSnapshot, ReadStream, ReadStreamBroken,
           Mutate, Rehydrated, TriggerEvent, Save, Conflict, Insert, Test,
           AddSnapshot, Finish, Retry, Anew, Threaded
  <2>2. SUFFICES ASSUME stream' # stream PROVE Log!Next
    BY <2>1
  <2>3. PICK c \in Commands : Insert(c)
    BY <2>2 DEF Next, Step, vars, Create, ReadSnapshot, ReadStream, ReadStreamBroken,
           Mutate, Rehydrated, TriggerEvent, Save, Conflict, Test, AddSnapshot,
           Finish, Retry, Anew
  <2>4. CASE Threaded
    <3>1. Log!Race(c)
      <4>1. PICK e \in Event, v \in 1..(Len(stream) + 1) :
              /\ v = e.version
              /\ e.command = c /\ Len(e.basis) = v - 1
              /\ Len(stream') = IF v <= Len(stream) THEN Len(stream) ELSE v
              /\ \A k \in 1..Len(stream') : k # v => stream'[k] = stream[k]
              /\ stream'[v] = e
              /\ stream' \in Seq(Event)
        BY <2>3, InsertRaces
      <4>. QED  BY <2>1, <2>4, <4>1 DEF Log!Race, Event
    <3>. QED  BY <3>1 DEF Log!Next
  <2>5. CASE ~Threaded
    <3>1. Log!Record(c)
      BY <2>1, <2>3, <2>5, InsertIsNext DEF Log!Record, History
    <3>. QED  BY <3>1 DEF Log!Next
  <2>. QED  BY <2>4, <2>5
<1>. QED  BY <1>1, <1>2, IInvHolds, LInvHolds, PTL DEF Spec, LogSpec, Log!Spec

\* Rehydrating succeeds whatever other commands append and snapshot meanwhile, even
\* under threads, if the rows come in the order of their versions.
THEOREM RehydratingIsSafe ==
  ASSUME ScanSorted \/ Stores \cap {"postgres", "rows"} = {}
  PROVE  Spec => []RehydrateSucceeds
<1>1. Init => RehydrateSucceeds
  BY DEF Init, RehydrateSucceeds
<1>2. LInv /\ RehydrateSucceeds /\ [Next]_vars => RehydrateSucceeds'
  <2> SUFFICES ASSUME LInv, RehydrateSucceeds, [Next]_vars PROVE RehydrateSucceeds'
    OBVIOUS
  <2> USE DEF RehydrateSucceeds
  <2>1. ASSUME NEW c \in Commands, Mutate(c) PROVE UNCHANGED pc
    <3>1. PICK i \in DOMAIN rows[c] :
            /\ IsNextRow(i, rows[c])
            /\ Follows(rows[c][i], copy[c]) \/ UNCHANGED rows
            /\ Follows(rows[c][i], copy[c]) => UNCHANGED pc
      BY <2>1 DEF Mutate
    <3>2. PICK top \in 0..Len(stream) : DOMAIN rows[c] = (copy[c].version + 1)..top
      BY <2>1 DEF Mutate, LInv, Ahead
    <3>3. /\ \A j \in DOMAIN rows[c] : i <= j
          /\ rows[c][i].version = i
      BY <2>1, <3>1, BoundsAssumption
      DEF Mutate, LInv, Ahead, IsNextRow, Postgres, TInv, TypeOK
    <3>4. copy[c].version \in Nat /\ Len(stream) \in Nat
      BY LenProperties DEF LInv, TInv, TypeOK, Aggregate
    <3>5. i = copy[c].version + 1
      <4>1. i \in (copy[c].version + 1)..top
        BY <3>2
      <4>2. copy[c].version + 1 \in DOMAIN rows[c]
        BY <3>2, <3>4, <4>1
      <4>. QED  BY <3>3, <3>4, <4>1, <4>2
    <3>. QED  BY <3>1, <3>3, <3>5 DEF Follows
  <2>. QED
    BY <2>1 DEF Next, Step, vars, Create, ReadSnapshot, ReadStream, ReadStreamBroken,
           Rehydrated, TriggerEvent, Save, Conflict, Insert, Test, AddSnapshot,
           Finish, Retry, LInv, TInv, TypeOK
<1>. QED  BY <1>1, <1>2, LInvHolds, PTL DEF Spec

-----------------------------------------------------------------------------
(* A save takes effect as a whole or not at all, though append_to_stream    *)
(* undoes nothing: the inductive invariant.                                *)

\* A command in the middle of its append: its events are the last of the stream,
\* and those it has left are to follow them.
Begun(c) ==
  \E s \in 0..Len(stream) :
    /\ s < Len(stream)
    /\ EventsOf(c) = (s + 1)..Len(stream)
    /\ Len(stream) - s + Len(events[c]) <= MaxBatch
    /\ Len(entity[c].state) - Len(events[c]) = Len(stream)

\* A command whose append returned: its batch is in the stream in one piece.
Complete(c) ==
  \E s, t \in 0..Len(stream) :
    /\ s < t /\ t - s <= MaxBatch
    /\ EventsOf(c) = (s + 1)..t

\* A command that has stored nothing yet in its attempt.
Unbegun(c) ==
  \/ pc[c] \in {"idle", "live", "failed"}
  \/ pc[c] \in {"found", "replaying", "corrupt"} /\ captures[c] = <<>>

\* What each command has in the stream.
Whole(c) ==
  /\ pc[c] = "idle" => captures[c] = <<>>
  /\ Unbegun(c) => EventsOf(c) = {}
  /\ pc[c] \in {"live", "appending"} => Len(events[c]) <= MaxBatch
  /\ pc[c] = "appending" => EventsOf(c) = {} \/ Begun(c)
  /\ Appended(c) => Complete(c)

\* Of a command whose snapshot was refused nothing is said: it may store twice.
EInv == \A c \in Commands \ clashed : Whole(c)

\* The command that took a step is the only one to look at, if the stream is what it
\* was; and not even that one, if a snapshot of it was refused.
LEMMA EffectFrame ==
  ASSUME EInv, NEW c \in Commands,
         UNCHANGED stream, clashed \subseteq clashed',
         \A d \in Commands \ {c} : /\ pc'[d] = pc[d] /\ entity'[d] = entity[d]
                                   /\ events'[d] = events[d]
                                   /\ captures'[d] = captures[d],
         c \notin clashed' => Whole(c)'
  PROVE  EInv'
<1>1. \A d \in Commands : EventsOf(d)' = EventsOf(d)
  BY DEF EventsOf
<1>2. ASSUME NEW d \in Commands \ {c}, d \notin clashed' PROVE Whole(d)'
  <2>1. Whole(d)
    BY <1>2 DEF EInv
  <2>. QED
    BY <1>1, <2>1 DEF Whole, Begun, Complete, Unbegun, Appended, Capturing
<1>. QED  BY <1>2 DEF EInv

\* The next event a command has to insert follows on those its aggregate holds.
LEMMA HeadFollows ==
  ASSUME IInv, NEW c \in Commands, events[c] # <<>>
  PROVE  Head(events[c]).version = Len(entity[c].state) - Len(events[c]) + 1
<1>1. events[c] \in Seq(Event)
  BY DEF IInv, TInv, TypeOK
<1>2. Len(events[c]) \in Nat /\ Len(events[c]) # 0
  BY <1>1, LenProperties, EmptySeq
<1>3. Head(events[c]) = events[c][1]
  BY <1>1, HeadTailProperties
<1>4. 1 \in 1..Len(events[c])
  BY <1>2
<1> DEFINE b == Len(entity[c].state) - Len(events[c])
<1>5. \A k \in 1..Len(events[c]) : events[c][k].version = b + k
  BY DEF IInv, Held
<1> HIDE DEF b
<1>6. events[c][1].version = b + 1
  BY <1>4, <1>5
<1>. QED  BY <1>3, <1>6 DEF b

-----------------------------------------------------------------------------
(* One lemma for each action that does more than read.                     *)

LEMMA InsertWhole ==
  ASSUME IInv, EInv, AppendsWhole, TInv', NEW c \in Commands, Insert(c)
  PROVE  EInv'
<1> DEFINE n == Len(stream)
           m == Len(events[c])
           e == Head(events[c])
<1>1. /\ stream' = Append(stream, e)
      /\ e = [version |-> n + 1, command |-> c, basis |-> History(stream, n)]
      /\ Len(entity[c].state) - m = n
  BY InsertIsNext
<1>2. /\ pc[c] = "appending" /\ events[c] # <<>>
      /\ events'[c] = Tail(events[c])
      /\ pc'[c] = IF m = 1 THEN "saved" ELSE "appending"
      /\ \A d \in Commands \ {c} : /\ pc'[d] = pc[d] /\ events'[d] = events[d]
                                   /\ pc[d] # "appending"
      /\ UNCHANGED <<store, snapshots, entity, captures, clashed>>
  BY DEF Insert, Turn, AppendsWhole, Threaded, IInv, TInv, TypeOK, Appending
<1>3. /\ stream \in Seq(Event) /\ events[c] \in Seq(Event) /\ e \in Event
      /\ n \in Nat /\ m \in Nat /\ m # 0
      /\ DOMAIN stream = 1..n
      /\ Len(entity[c].state) \in Nat
  <2>1. /\ stream \in Seq(Event) /\ events[c] \in Seq(Event)
        /\ entity[c].state \in Seq(Commands)
    BY DEF IInv, TInv, TypeOK, Aggregate
  <2>. QED  BY <1>2, <2>1, LenProperties, EmptySeq, HeadTailProperties
<1>4. /\ Len(stream') = n + 1 /\ DOMAIN stream' = 1..(n + 1)
      /\ \A i \in 1..n : stream'[i] = stream[i]
      /\ stream'[n + 1] = e
  BY <1>1, <1>3, AppendProperties
<1>5. Len(events'[c]) = m - 1
  BY <1>2, <1>3, HeadTailProperties
<1> HIDE DEF n, m, e
<1>6. ASSUME NEW d \in Commands \ {c} PROVE EventsOf(d)' = EventsOf(d)
  <2>1. stream'[n + 1].command # d
    BY <1>1, <1>4
  <2>. QED  BY <1>3, <1>4, <2>1 DEF EventsOf
<1>7. EventsOf(c)' = EventsOf(c) \cup {n + 1}
  <2>1. stream'[n + 1].command = c
    BY <1>1, <1>4
  <2>. QED  BY <1>3, <1>4, <2>1 DEF EventsOf
<1>8. ASSUME NEW d \in Commands \ {c}, d \notin clashed PROVE Whole(d)'
  <2>1. Complete(d) => Complete(d)'
    BY <1>2, <1>3, <1>4, <1>6 DEF Complete, n
  <2>2. Whole(d)
    BY <1>8 DEF EInv
  <2>. QED  BY <1>2, <1>6, <2>1, <2>2 DEF Whole, Unbegun, Appended, Capturing
<1>. SUFFICES ASSUME c \notin clashed PROVE Whole(c)'
  BY <1>2, <1>8 DEF EInv
<1>9. \E s \in 0..n : /\ EventsOf(c)' = (s + 1)..(n + 1)
                      /\ n - s + m <= MaxBatch
  <2>1. m <= MaxBatch /\ (EventsOf(c) = {} \/ Begun(c))
    BY <1>2 DEF EInv, Whole, m
  <2>2. CASE EventsOf(c) = {}
    <3>1. EventsOf(c)' = (n + 1)..(n + 1)
      BY <1>3, <1>7, <2>2
    <3>. QED  BY <1>3, <2>1, <3>1
  <2>3. CASE Begun(c)
    <3>1. PICK s \in 0..n : /\ s < n /\ EventsOf(c) = (s + 1)..n
                            /\ n - s + m <= MaxBatch
      BY <2>3 DEF Begun, n, m
    <3>2. EventsOf(c)' = (s + 1)..(n + 1)
      BY <1>3, <1>7, <3>1
    <3>. QED  BY <3>1, <3>2
  <2>. QED  BY <2>1, <2>2, <2>3
<1>10. PICK s \in 0..n : /\ EventsOf(c)' = (s + 1)..(n + 1)
                         /\ n - s + m <= MaxBatch
  BY <1>9
<1>11. Whole(c)'
  <2>1. CASE m = 1
    <3>2. Complete(c)'
      <4>1. s \in 0..Len(stream') /\ n + 1 \in 0..Len(stream')
        BY <1>3, <1>4
      <4>2. s < n + 1 /\ (n + 1) - s <= MaxBatch
        BY <1>3, <1>10, <2>1, BoundsAssumption
      <4>. QED  BY <1>10, <4>1, <4>2 DEF Complete
    <3>3. pc'[c] = "saved"
      BY <1>2, <2>1
    <3>. QED  BY <3>2, <3>3 DEF Whole, Unbegun
  <2>2. CASE m # 1
    <3>1. Begun(c)'
      <4>1. s \in 0..Len(stream') /\ s < Len(stream')
        BY <1>3, <1>4
      <4>2. /\ Len(stream') - s + Len(events'[c]) <= MaxBatch
            /\ Len(entity[c].state) - Len(events'[c]) = Len(stream')
        <5> DEFINE l == Len(entity[c].state)
        <5>1. l \in Nat /\ l - m = n
          BY <1>1, <1>3
        <5> HIDE DEF l
        <5>2. l - (m - 1) = n + 1 /\ n + 1 - s + (m - 1) <= MaxBatch
          BY <1>3, <1>10, <5>1, BoundsAssumption
        <5>3. Len(stream') = n + 1 /\ Len(events'[c]) = m - 1
          BY <1>4, <1>5
        <5>4. Len(stream') - s + Len(events'[c]) = n + 1 - s + (m - 1)
          BY <1>3, <5>3
        <5>5. Len(entity[c].state) - Len(events'[c]) = l - (m - 1)
          BY <5>3 DEF l
        <5>. QED  BY <5>2, <5>3, <5>4, <5>5
      <4>. QED  BY <1>2, <1>4, <1>10, <4>1, <4>2 DEF Begun
    <3>2. Len(events'[c]) <= MaxBatch
      BY <1>3, <1>5, <1>10, BoundsAssumption
    <3>3. pc'[c] = "appending"
      BY <1>2, <2>2
    <3>. QED  BY <3>1, <3>2, <3>3 DEF Whole, Unbegun, Appended, Capturing
  <2>. QED  BY <2>1, <2>2
<1>. QED  BY <1>11

\* A conflict comes before the first insertion or not at all.
LEMMA ConflictWhole ==
  ASSUME IInv, EInv, NEW c \in Commands, Conflict(c)
  PROVE  EInv'
<1>1. /\ pc[c] = "appending" /\ Stored(Head(events[c]).version)
      /\ pc' = [pc EXCEPT ![c] = "failed"]
      /\ UNCHANGED <<store, stream, snapshots, entity, events, captures, clashed>>
  BY DEF Conflict
<1>2. events[c] # <<>>
  BY <1>1 DEF IInv, TInv, Appending
<1>3. ~Begun(c)
  <2>1. SUFFICES ASSUME Begun(c) PROVE FALSE
    OBVIOUS
  <2>2. Head(events[c]).version = Len(stream) + 1
    BY <1>2, <2>1, HeadFollows DEF Begun
  <2>3. PICK i \in DOMAIN stream : stream[i].version = Len(stream) + 1
    BY <1>1, <2>2 DEF Stored
  <2>4. stream[i].version = i
    BY DEF IInv, DecidedOnHistory
  <2>5. DOMAIN stream = 1..Len(stream) /\ Len(stream) \in Nat
    BY LenProperties DEF IInv, TInv, TypeOK
  <2>. QED  BY <2>3, <2>4, <2>5
<1>4. c \notin clashed => EventsOf(c) = {}
  BY <1>1, <1>3 DEF EInv, Whole
<1>5. pc'[c] = "failed" /\ \A d \in Commands \ {c} : pc'[d] = pc[d]
  BY <1>1 DEF IInv, TInv, TypeOK
<1>6. c \notin clashed => Whole(c)'
  BY <1>1, <1>4, <1>5 DEF Whole, EventsOf, Unbegun, Appended, Capturing
<1>. QED  BY <1>1, <1>5, <1>6, EffectFrame

\* A snapshot that is added leaves what the command stored in one piece; one that is
\* refused ends what is said of the command.
LEMMA AddSnapshotWhole ==
  ASSUME IInv, EInv, NEW c \in Commands, AddSnapshot(c)
  PROVE  EInv'
<1>1. /\ pc[c] = "replaying" /\ captures[c] # <<>>
      /\ UNCHANGED <<stream, entity, events>> /\ clashed \subseteq clashed'
      /\ pc'[c] = "saved" \/ c \in clashed'
      /\ \A d \in Commands \ {c} : pc'[d] = pc[d] /\ captures'[d] = captures[d]
  BY DEF AddSnapshot, IInv, TInv, TypeOK
<1>2. ASSUME c \notin clashed' PROVE Whole(c)'
  <2>1. Appended(c) /\ Whole(c)
    BY <1>1, <1>2 DEF Appended, Capturing, EInv
  <2>2. Complete(c)' /\ pc'[c] = "saved"
    BY <1>1, <1>2, <2>1 DEF Whole, Complete, EventsOf
  <2>. QED  BY <2>2 DEF Whole, Unbegun
<1>. QED  BY <1>1, <1>2, EffectFrame

\* A command that finishes keeps what it stored.
LEMMA FinishWhole ==
  ASSUME IInv, EInv, NEW c \in Commands, Finish(c)
  PROVE  EInv'
<1>1. /\ pc[c] = "saved"
      /\ UNCHANGED <<stream, snapshots, entity, events, captures, clashed>>
      /\ pc'[c] = "done" /\ \A d \in Commands \ {c} : pc'[d] = pc[d]
  BY DEF Finish, IInv, TInv, TypeOK
<1>2. c \notin clashed => Whole(c)'
  BY <1>1 DEF EInv, Whole, Complete, EventsOf, Appended, Unbegun
<1>. QED  BY <1>1, <1>2, EffectFrame

\* Rehydrating, to load the aggregate or for a snapshot, stores nothing.
LEMMA RehydrateWhole ==
  ASSUME IInv, EInv, NEW c \in Commands,
         ReadSnapshot(c) \/ ReadStream(c) \/ Mutate(c)
  PROVE  EInv'
<1>1. /\ pc[c] \in {"idle", "saved", "found", "replaying"}
      /\ pc[c] = "saved" => captures[c] # <<>>
      /\ pc'[c] \in {"found", "replaying", "corrupt"}
      /\ UNCHANGED <<stream, snapshots, entity, events, captures, clashed>>
      /\ \A d \in Commands \ {c} : pc'[d] = pc[d]
  BY DEF ReadSnapshot, ReadStream, Mutate, IInv, TInv, TypeOK
<1>2. ASSUME c \notin clashed PROVE Whole(c)'
  <2>1. Whole(c)
    BY <1>2 DEF EInv
  <2>2. CASE captures[c] = <<>>
    <3>1. Unbegun(c)
      BY <1>1, <2>2 DEF Unbegun
    <3>. QED
      BY <1>1, <2>1, <2>2, <3>1 DEF Whole, Unbegun, Appended, Capturing, EventsOf
  <2>3. CASE captures[c] # <<>>
    <3>1. Appended(c)
      BY <1>1, <2>1, <2>3 DEF Appended, Capturing, Whole
    <3>2. Complete(c)'
      BY <1>1, <2>1, <3>1 DEF Whole, Complete, EventsOf
    <3>. QED  BY <1>1, <2>3, <3>2 DEF Whole, Unbegun
  <2>. QED  BY <2>2, <2>3
<1>. QED  BY <1>1, <1>2, EffectFrame

\* As long as a command has stored nothing, no step of it but an insertion changes
\* that.
LEMMA EarlyWhole ==
  ASSUME IInv, EInv, NEW c \in Commands,
         Create(c) \/ Rehydrated(c) \/ TriggerEvent(c) \/ Save(c) \/ Retry(c)
  PROVE  EInv'
<1>1. /\ Unbegun(c)
      /\ UNCHANGED <<stream, snapshots, clashed>>
      /\ \A d \in Commands \ {c} : /\ pc'[d] = pc[d] /\ entity'[d] = entity[d]
                                   /\ events'[d] = events[d]
                                   /\ captures'[d] = captures[d]
  BY DEF Create, Rehydrated, TriggerEvent, Save, Retry, Anew, Unbegun, IInv, TInv, TypeOK
<1>2. ASSUME c \notin clashed PROVE Whole(c)'
  <2>0. Whole(c) /\ EventsOf(c) = {} /\ EventsOf(c)' = {}
    BY <1>1, <1>2 DEF EInv, Whole, EventsOf
  <2>1. CASE Create(c)
    <3>1. pc'[c] = "live" /\ Len(events'[c]) = 1
      BY <2>1 DEF Create, IInv, TInv, TypeOK
    <3>. QED  BY <2>0, <3>1, BoundsAssumption DEF Whole, Appended, Capturing
  <2>2. CASE Rehydrated(c)
    <3>1. events[c] = <<>> /\ events'[c] = events[c] /\ pc'[c] = "live"
      BY <2>2 DEF Rehydrated, IInv, Clean, TInv, TypeOK
    <3>2. Len(events'[c]) = 0
      BY <3>1, EmptySeq
    <3>. QED  BY <2>0, <3>1, <3>2, BoundsAssumption DEF Whole, Appended, Capturing
  <2>3. CASE TriggerEvent(c)
    <3>1. events[c] \in Seq(Event) /\ Len(events[c]) \in Nat
      BY LenProperties DEF IInv, TInv, TypeOK
    <3>2. pc[c] = "live" /\ pc' = pc /\ Len(events[c]) < MaxBatch
      BY <2>3 DEF TriggerEvent
    <3>3. Len(events'[c]) = Len(events[c]) + 1
      BY <2>3, <3>1, AppendProperties DEF TriggerEvent, IInv, TInv, TypeOK
    <3>4. Len(events'[c]) <= MaxBatch
      BY <3>1, <3>2, <3>3, BoundsAssumption
    <3>. QED  BY <2>0, <3>2, <3>4 DEF Whole, Appended, Capturing
  <2>4. CASE Save(c)
    <3>1. pc[c] = "live" /\ pc'[c] = "appending" /\ events'[c] = events[c]
      BY <2>4 DEF Save, IInv, TInv, TypeOK
    <3>. QED  BY <2>0, <3>1 DEF Whole, Unbegun, Appended, Capturing
  <2>5. CASE Retry(c)
    <3>1. pc'[c] = "idle" /\ captures'[c] = <<>>
      BY <2>5 DEF Retry, Anew, IInv, TInv, TypeOK
    <3>. QED  BY <2>0, <3>1 DEF Whole, Appended, Capturing
  <2>. QED  BY <2>1, <2>2, <2>3, <2>4, <2>5
<1>. QED  BY <1>1, <1>2, EffectFrame

-----------------------------------------------------------------------------
(* The theorem.                                                            *)

\* In a store whose appends are not interleaved, a save is all or nothing, whatever
\* was tried before: a command that failed has left no event behind, and one whose
\* append returned has exactly one batch in the stream.  The one exception is a
\* command whose append returned and whose snapshot was then refused.
THEOREM SavesTakeEffectOnce == Spec => []EffectOnce
<1>1. Init => EInv
  <2>1. ASSUME Init PROVE DOMAIN stream = {}
    BY <2>1 DEF Init
  <2>. QED  BY <2>1 DEF Init, EInv, Whole, EventsOf, Appended, Capturing
<1>2. (AppendsWhole => EInv) /\ (Threaded \/ IInv) /\ TInv' /\ [Next]_vars
        => (AppendsWhole => EInv)'
  <2> SUFFICES ASSUME AppendsWhole => EInv, Threaded \/ IInv, TInv', [Next]_vars,
                      AppendsWhole'
               PROVE  EInv'
    OBVIOUS
  <2>1. store' = store
    BY DEF Next, Step, vars, Create, ReadSnapshot, ReadStream, ReadStreamBroken,
           Mutate, Rehydrated, TriggerEvent, Save, Conflict, Insert, Test,
           AddSnapshot, Finish, Retry, Anew
  <2>2. AppendsWhole /\ ~Threaded /\ EInv /\ IInv
    BY <2>1 DEF AppendsWhole, Threaded
  <2>3. CASE UNCHANGED vars
    <3>1. \A d \in Commands : EventsOf(d)' = EventsOf(d)
      BY <2>3 DEF vars, EventsOf
    <3>. QED
      BY <2>2, <2>3, <3>1 DEF vars, EInv, Whole, Begun, Complete, Unbegun, Appended,
         Capturing
  <2>4. ASSUME NEW c \in Commands, Step(c) PROVE EInv'
    <3>1. ~ReadStreamBroken(c) /\ ~Test(c)
      BY <2>2 DEF ReadStreamBroken, Test
    <3>. QED
      BY <2>2, <2>4, <3>1, EarlyWhole, RehydrateWhole, InsertWhole, ConflictWhole,
         AddSnapshotWhole, FinishWhole DEF Step
  <2>. QED  BY <2>3, <2>4 DEF Next
<1>3. (AppendsWhole => EInv) /\ (Threaded \/ IInv) => EffectOnce
  <2>1. SUFFICES ASSUME AppendsWhole, EInv, IInv, NEW c \in Commands \ clashed
                 PROVE  CASE Appended(c) -> Cardinality(EventsOf(c)) \in 1..MaxBatch
                          [] pc[c] \in {"appending", "tested"} -> TRUE
                          [] OTHER -> EventsOf(c) = {}
    BY DEF EffectOnce, AppendsWhole, Threaded
  <2>2. pc[c] \in PCs /\ Whole(c)
    BY <2>1 DEF IInv, TInv, TypeOK, EInv
  <2>3. CASE Appended(c)
    <3>1. PICK s \in 0..Len(stream), t \in 0..Len(stream) :
            s < t /\ t - s <= MaxBatch /\ EventsOf(c) = (s + 1)..t
      BY <2>2, <2>3 DEF Whole, Complete
    <3>2. Len(stream) \in Nat
      BY <2>1, LenProperties DEF IInv, TInv, TypeOK
    <3>3. Cardinality(EventsOf(c)) = t - s
      <4>1. s + 1 \in Int /\ t \in Int /\ ~(s + 1 > t)
        BY <3>1, <3>2
      <4>2. Cardinality((s + 1)..t) = t - (s + 1) + 1
        BY <4>1, FS_Interval
      <4>. QED  BY <3>1, <3>2, <4>2
    <3>4. Cardinality(EventsOf(c)) \in 1..MaxBatch
      BY <3>1, <3>2, <3>3, BoundsAssumption
    <3>5. pc[c] \notin {"appending", "tested"}
      BY <2>3 DEF Appended, Capturing
    <3>. QED  BY <2>3, <3>4, <3>5
  <2>4. CASE ~Appended(c) /\ pc[c] \notin {"appending", "tested"}
    <3>1. Unbegun(c)
      BY <2>2, <2>4 DEF Unbegun, Appended, Capturing, PCs
    <3>. QED  BY <2>2, <2>4, <3>1 DEF Whole
  <2>5. CASE ~Appended(c) /\ pc[c] \in {"appending", "tested"}
    BY <2>5
  <2>. QED  BY <2>3, <2>4, <2>5
<1>. QED  BY <1>1, <1>2, <1>3, IInvHolds, TInvHolds, PTL DEF Spec

=============================================================================
