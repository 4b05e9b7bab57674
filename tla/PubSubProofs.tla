----------------------------- MODULE PubSubProofs -----------------------------
(***************************************************************************)
(* Proofs about PubSub, for any number of messages and of lost connections.*)
(***************************************************************************)
EXTENDS PubSub, SequenceTheorems, TLAPS

\* The messages of the connection come in the order they were published in.
Ordered ==
  /\ \A n \in DOMAIN buffer : buffer[n] \in Ids => buffer[n] <= Len(published)
  /\ \A m, n \in DOMAIN buffer :
       m < n /\ buffer[m] \in Ids /\ buffer[n] \in Ids => buffer[m] < buffer[n]

\* Those that the connection has got are later than those that the loop has taken.
Ahead ==
  \A i \in Ids : tasks[i] # "none" =>
    /\ i <= Len(published)
    /\ \A n \in DOMAIN buffer : buffer[n] \in Ids => i < buffer[n]

\* The asyncio loop goes on only when the handlers of its message are over.
Awaited ==
  transport = "async" =>
    \A i \in Ids : tasks[i] # "called" /\ (tasks[i] = "handling" => loop \in {"calling", "ended"})

\* Nothing is handled before the loop starts.
Unbegun == app \in {"down", "bound"} => loop = "none" /\ \A i \in Ids : tasks[i] = "none"

IInv == TypeOK /\ Ordered /\ Ahead /\ Awaited /\ Unbegun /\ InOrder

\* The connection with one more message or confirmation.
LEMMA Longer ==
  ASSUME NEW S, NEW s \in Seq(S), NEW x \in S
  PROVE  /\ Append(s, x) \in Seq(S)
         /\ DOMAIN s = 1..Len(s) /\ Len(s) \in Nat
         /\ DOMAIN Append(s, x) = 1..(Len(s) + 1)
         /\ Append(s, x)[Len(s) + 1] = x
         /\ \A n \in 1..Len(s) : Append(s, x)[n] = s[n]
BY AppendProperties, LenProperties

\* The connection without its first message.
LEMMA Shorter ==
  ASSUME NEW S, NEW s \in Seq(S), s # <<>>
  PROVE  /\ Tail(s) \in Seq(S) /\ Head(s) = s[1]
         /\ Len(s) \in Nat \ {0}
         /\ DOMAIN s = 1..Len(s)
         /\ DOMAIN Tail(s) = 1..(Len(s) - 1)
         /\ \A n \in 1..(Len(s) - 1) : Tail(s)[n] = s[n + 1]
BY HeadTailProperties, LenProperties, EmptySeq

\* Nothing was published before (PubSubNotificationQueue.__init__).
LEMMA InitInv == Init => IInv
<1> SUFFICES ASSUME Init PROVE IInv
  OBVIOUS
<1>1. <<>> \in Seq({"unsent", "good", "garbled"}) /\ <<>> \in Seq(Ids \cup {Unsubscribed})
      /\ Len(<<>>) = 0 /\ DOMAIN <<>> = {}
  BY EmptySeq
<1>2. TypeOK
  <2>1. published \in Seq({"unsent", "good", "garbled"}) /\ Len(published) <= MaxMessages
    BY <1>1, BoundsAssumption DEF Init
  <2>2. buffer \in Seq(Ids \cup {Unsubscribed})
    BY <1>1 DEF Init
  <2>3. faults \in 0..MaxFaults
    BY BoundsAssumption DEF Init
  <2> QED
    BY <2>1, <2>2, <2>3 DEF Init, TypeOK
<1>3. Ordered /\ Ahead
  BY <1>1 DEF Init, Ordered, Ahead
<1> QED
  BY <1>2, <1>3 DEF Init, IInv, Awaited, Unbegun, InOrder

\* Each step keeps the types (PubSubNotificationQueue, both).
LEMMA TypesKept == ASSUME IInv, [Next]_vars PROVE TypeOK'
<1> USE BoundsAssumption, UnsubscribedAssumption DEF IInv, TypeOK, Ids
<1> DEFINE Kinds == {"unsent", "good", "garbled"}
           Got == Ids \cup {Unsubscribed}
<1>1. CASE Publish
  <2>1. /\ Len(published) + 1 \in Ids
        /\ published' \in Seq(Kinds) /\ Len(published') = Len(published) + 1
    BY <1>1, AppendProperties, LenProperties DEF Publish
  <2>2. buffer' \in Seq(Got)
    BY <1>1, <2>1, AppendProperties DEF Publish
  <2> QED
    BY <1>1, <2>1, <2>2 DEF Publish
<1>2. CASE PublishFails
  <2>1. published' \in Seq(Kinds) /\ Len(published') = Len(published) + 1
    BY <1>2, AppendProperties DEF PublishFails
  <2> QED
    BY <1>2, <2>1, LenProperties DEF PublishFails
<1>3. CASE LoseConnection
  <2>1. buffer' \in Seq(Got)
    BY <1>3, EmptySeq DEF LoseConnection
  <2>2. faults' \in 0..MaxFaults
    BY <1>3 DEF LoseConnection
  <2> QED
    BY <1>3, <2>1, <2>2 DEF LoseConnection
<1>4. CASE Unsubscribe
  <2>1. buffer' \in Seq(Got)
    BY <1>4, AppendProperties DEF Unsubscribe
  <2> QED
    BY <1>4, <2>1 DEF Unsubscribe
<1>5. ASSUME buffer # <<>> PROVE Tail(buffer) \in Seq(Got)
  BY <1>5, HeadTailProperties
<1>6. CASE Call
  BY <1>5, <1>6 DEF Call, NextIs
<1>7. CASE Garbled
  BY <1>5, <1>7 DEF Garbled, NextIs
<1>8. CASE ListenReturns
  BY <1>5, <1>8 DEF ListenReturns
<1>9. CASE ClientReconnects \/ Bind \/ Consume \/ Stop \/ ListenRaises \/ Again
  BY <1>9 DEF ClientReconnects, Bind, Consume, Stop, ListenRaises, Again
<1>10. ASSUME NEW i \in Ids, Begin(i) \/ Handled(i) PROVE TypeOK'
  BY <1>10 DEF Begin, Handled
<1>11. CASE UNCHANGED vars
  BY <1>11 DEF vars
<1> QED
  BY <1>1, <1>2, <1>3, <1>4, <1>6, <1>7, <1>8, <1>9, <1>10, <1>11 DEF Next

\* What is left of the connection is in order, and behind what was taken.
LEMMA TakenInOrder ==
  ASSUME TypeOK, Ordered, buffer # <<>>, buffer' = Tail(buffer), published' = published
  PROVE  /\ Ordered'
         /\ \A n \in DOMAIN buffer' : \E m \in DOMAIN buffer : buffer'[n] = buffer[m]
         /\ Head(buffer) \in Ids =>
              /\ Head(buffer) <= Len(published)
              /\ \A n \in DOMAIN buffer' : buffer'[n] \in Ids => Head(buffer) < buffer'[n]
<1> DEFINE last == Len(buffer)
<1>1. /\ Head(buffer) = buffer[1] /\ last \in Nat \ {0}
      /\ DOMAIN buffer = 1..last /\ DOMAIN buffer' = 1..(last - 1)
      /\ \A n \in 1..(last - 1) : buffer'[n] = buffer[n + 1]
  BY Shorter DEF TypeOK
<1> HIDE DEF last
<1>2. \A n \in 1..(last - 1) : n + 1 \in 1..last /\ 1 < n + 1
  BY <1>1
<1>3. 1 \in 1..last
  BY <1>1
<1>4. \A n \in DOMAIN buffer' : buffer'[n] \in Ids => buffer'[n] <= Len(published')
  BY <1>1, <1>2 DEF Ordered
<1>5. ASSUME NEW m \in DOMAIN buffer', NEW n \in DOMAIN buffer', m < n,
             buffer'[m] \in Ids, buffer'[n] \in Ids
      PROVE  buffer'[m] < buffer'[n]
  <2>1. m + 1 \in DOMAIN buffer /\ n + 1 \in DOMAIN buffer /\ m + 1 < n + 1
    BY <1>1, <1>2, <1>5
  <2>2. buffer'[m] = buffer[m + 1] /\ buffer'[n] = buffer[n + 1]
    BY <1>1
  <2> QED
    BY <1>5, <2>1, <2>2 DEF Ordered
<1>6. Ordered'
  BY <1>4, <1>5 DEF Ordered
<1>7. \A n \in DOMAIN buffer' : \E m \in DOMAIN buffer : buffer'[n] = buffer[m]
  BY <1>1, <1>2
<1>8. ASSUME Head(buffer) \in Ids
      PROVE  /\ Head(buffer) <= Len(published)
             /\ \A n \in DOMAIN buffer' : buffer'[n] \in Ids => Head(buffer) < buffer'[n]
  BY <1>1, <1>2, <1>3, <1>8 DEF Ordered
<1> QED
  BY <1>6, <1>7, <1>8

\* What happens to the connection keeps its order, and what is behind it behind.
LEMMA ConnectionKept == ASSUME IInv, [Next]_vars PROVE Ordered' /\ Ahead'
<1> USE BoundsAssumption, UnsubscribedAssumption DEF IInv, TypeOK, Ordered, Ahead, Ids
<1> DEFINE Got == Ids \cup {Unsubscribed}
<1>1. CASE Publish
  <2>1. /\ Len(published) + 1 \in Ids /\ Len(published') = Len(published) + 1
        /\ Len(published) \in Nat
    BY <1>1, AppendProperties, LenProperties DEF Publish
  <2>2. CASE channel
    BY <1>1, <2>1, <2>2, Longer DEF Publish
  <2>3. CASE ~channel
    BY <1>1, <2>1, <2>3 DEF Publish
  <2> QED
    BY <2>2, <2>3
<1>2. CASE PublishFails
  <2>1. Len(published') = Len(published) + 1 /\ Len(published) \in Nat
    BY <1>2, AppendProperties, LenProperties DEF PublishFails
  <2> QED
    BY <1>2, <2>1 DEF PublishFails
<1>3. CASE LoseConnection
  <2>1. DOMAIN buffer' = {}
    BY <1>3 DEF LoseConnection
  <2> QED
    BY <1>3, <2>1 DEF LoseConnection
<1>4. CASE Unsubscribe
  BY <1>4, Longer DEF Unsubscribe
<1>6. CASE Call \/ Garbled \/ ListenReturns
  <2> HIDE DEF TypeOK, Ordered, Ahead
  <2>1. /\ buffer # <<>> /\ buffer' = Tail(buffer) /\ published' = published
        /\ \A i \in Ids : tasks'[i] # "none" => tasks[i] # "none" \/ i = Head(buffer)
    BY <1>6 DEF Call, NextIs, Garbled, ListenReturns, TypeOK
  <2>2. Ordered'
    BY <2>1, TakenInOrder
  <2>3. ASSUME NEW i \in Ids, tasks'[i] # "none"
        PROVE  /\ i <= Len(published')
               /\ \A n \in DOMAIN buffer' : buffer'[n] \in Ids => i < buffer'[n]
    <3>1. CASE tasks[i] # "none"
      <4>1. /\ i <= Len(published)
            /\ \A m \in DOMAIN buffer : buffer[m] \in Ids => i < buffer[m]
        BY <3>1 DEF Ahead
      <4>2. \A n \in DOMAIN buffer' : \E m \in DOMAIN buffer : buffer'[n] = buffer[m]
        BY <2>1, TakenInOrder
      <4> QED
        BY <2>1, <4>1, <4>2
    <3>2. CASE i = Head(buffer)
      BY <2>1, <3>2, TakenInOrder
    <3> QED
      BY <2>1, <2>3, <3>1, <3>2
  <2> QED
    BY <2>2, <2>3 DEF Ahead
<1>8. CASE ClientReconnects \/ Bind \/ Consume \/ Stop \/ ListenRaises \/ Again
  BY <1>8 DEF ClientReconnects, Bind, Consume, Stop, ListenRaises, Again
<1>9. ASSUME NEW i \in Ids, Begin(i) \/ Handled(i) PROVE Ordered' /\ Ahead'
  BY <1>9 DEF Begin, Handled
<1>10. CASE UNCHANGED vars
  BY <1>10 DEF vars
<1> QED
  BY <1>1, <1>2, <1>3, <1>4, <1>6, <1>8, <1>9, <1>10 DEF Next

\* The loop takes the next message when the handlers of the one before are over.
LEMMA OrderKept == ASSUME IInv, [Next]_vars PROVE (Awaited /\ Unbegun /\ InOrder)'
<1> USE DEF IInv, TypeOK, Awaited, Unbegun, InOrder, Ids
<1>1. CASE Call
  <2>1. PICK k \in Ids : k = Head(buffer)
    BY <1>1 DEF Call, NextIs
  <2>2. \A i \in Ids : tasks[i] # "none" => i < k
    BY <1>1, <2>1, Shorter DEF Call, NextIs, Ahead
  <2>3. CASE transport = "sync"
    <3>1. /\ tasks' = [tasks EXCEPT ![k] = "called"]
          /\ UNCHANGED <<app, loop, transport>> /\ loop = "listening"
      BY <1>1, <2>1, <2>3 DEF Call, NextIs
    <3> QED
      BY <2>3, <3>1
  <2>4. CASE transport = "async"
    <3>1. \A i \in Ids : tasks[i] # "handling"
      BY <1>1, <2>4 DEF Call, NextIs
    <3>2. /\ tasks' = [tasks EXCEPT ![k] = "handling"] /\ loop' = "calling"
          /\ app \in {"running", "stopping"} /\ UNCHANGED <<app, transport>>
      BY <1>1, <2>1, <2>4 DEF Call, Accepts
    <3> QED
      BY <2>2, <2>4, <3>1, <3>2, BoundsAssumption
  <2> QED
    BY <1>1, <2>3, <2>4 DEF Call
<1>2. ASSUME NEW i \in Ids, Begin(i) PROVE (Awaited /\ Unbegun /\ InOrder)'
  BY <1>2 DEF Begin, Accepts
<1>3. ASSUME NEW i \in Ids, Handled(i) PROVE (Awaited /\ Unbegun /\ InOrder)'
  <2>1. transport = "async" => \A j \in Ids : tasks[j] = "handling" => j = i
    BY <1>3, BoundsAssumption DEF Handled
  <2> QED
    BY <1>3, <2>1 DEF Handled
<1>4. CASE Consume
  BY <1>4 DEF Consume
<1>5. CASE Garbled \/ ListenReturns \/ ListenRaises \/ Again
  BY <1>5 DEF Garbled, NextIs, ListenReturns, ListenRaises, Again
<1>6. CASE Publish \/ PublishFails \/ LoseConnection \/ ClientReconnects
  BY <1>6 DEF Publish, PublishFails, LoseConnection, ClientReconnects
<1>7. CASE Bind \/ Unsubscribe \/ Stop
  BY <1>7 DEF Bind, Unsubscribe, Stop
<1>8. CASE UNCHANGED vars
  BY <1>8 DEF vars
<1> QED
  BY <1>1, <1>2, <1>3, <1>4, <1>5, <1>6, <1>7, <1>8 DEF Next

\* The strengthened invariant holds in every state.
LEMMA IInvHolds == Spec => []IInv
<1>1. IInv /\ [Next]_vars => IInv'
  BY TypesKept, ConnectionKept, OrderKept DEF IInv
<1> QED
  BY <1>1, InitInv, PTL DEF Spec

\* Every state has the types of TypeOK (PubSubNotificationQueue, both).
THEOREM PubSubTyped == Spec => []TypeOK
<1>1. IInv => TypeOK
  BY DEF IInv
<1> QED
  BY <1>1, IInvHolds, PTL

\* With asyncio, messages are handled one at a time and in order, over any number of
\* lost connections, garbled messages and failed publications (_long_pull).
THEOREM HandledInOrder == Spec => []InOrder
<1>1. IInv => InOrder
  BY DEF IInv
<1> QED
  BY <1>1, IInvHolds, PTL

=============================================================================
