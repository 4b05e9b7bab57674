--------------------------- MODULE DatastoreProofs ---------------------------
(***************************************************************************)
(* Proofs about Datastore for any number of handlers, any size of the pool *)
(* and any number of releases and deployments: where each connection is,   *)
(* that nobody waits without a reason, and that each release reads what    *)
(* those before it wrote.                                                  *)
(***************************************************************************)
EXTENDS Datastore, FiniteSetTheorems, SequenceTheorems, TLAPS

-----------------------------------------------------------------------------
(* Least numbers, and functions that are defined step by step from the     *)
(* value before: what the proofs about recursive functions rest on.  The   *)
(* step of a definition is a function of its place and of the value        *)
(* before, so that the lemmas hold for any of them.                        *)

\* Some numbers have a least one.
LEMMA Least ==
  ASSUME NEW S \in SUBSET Nat, S # {}
  PROVE  \E m \in S : \A i \in S : m <= i
<1> DEFINE Below == {1..i : i \in S}
<1>1. Below \subseteq FiniteSubsetsOf(Nat) /\ Below # {}
  <2>1. ASSUME NEW i \in S PROVE 1..i \in FiniteSubsetsOf(Nat)
    <3>1. i \in Int /\ 1..i \subseteq Nat
      OBVIOUS
    <3> QED
      BY <3>1, FS_Interval DEF FiniteSubsetsOf
  <2> QED
    BY <2>1
<1>2. PICK b \in Below : \A c \in Below : <<c, b>> \notin StrictSubsetOrdering(Nat)
  BY <1>1, FS_StrictSubsetOrderingWellFounded, WFMin
<1>3. PICK m \in S : b = 1..m
  BY <1>2
<1>4. ASSUME NEW i \in S, i < m PROVE FALSE
  <2>1. 1..i \subseteq 1..m /\ m \in 1..m /\ m \notin 1..i /\ 1..m \subseteq Nat
    BY <1>4
  <2>2. <<1..i, b>> \in StrictSubsetOrdering(Nat)
    BY <1>3, <2>1 DEF StrictSubsetOrdering
  <2> QED
    BY <1>2, <2>2
<1> QED
  BY <1>4

\* The principle of induction up to L, for a set of numbers.
LEMMA Upwards ==
  ASSUME NEW L \in Nat, NEW S, 0 \in S,
         \A n \in 1..L : n - 1 \in S => n \in S
  PROVE  0..L \subseteq S
<1> SUFFICES ASSUME (0..L) \ S # {} PROVE FALSE
  OBVIOUS
<1>1. (0..L) \ S \in SUBSET Nat
  OBVIOUS
<1>2. PICK m \in (0..L) \ S : \A i \in (0..L) \ S : m <= i
  BY <1>1, Least
<1>3. m \in 1..L /\ m - 1 \in 0..L /\ ~(m <= m - 1)
  BY <1>2
<1> QED
  BY <1>2, <1>3

\* f is given by its first value and the step from each value to the next, up to L.
Stepwise(L, base, step, f) == f[0] = base /\ \A n \in 1..L : f[n] = step[n][f[n - 1]]

\* There is such a function.
LEMMA StepByStep ==
  ASSUME NEW L \in Nat, NEW T, NEW base \in T, NEW step \in [1..L -> [T -> T]]
  PROVE  \E f \in [0..L -> T] : Stepwise(L, base, step, f)
<1> DEFINE Upto(m, f) == f[0] = base /\ \A n \in 1..m : f[n] = step[n][f[n - 1]]
           S == {m \in 0..L : \E f \in [0..m -> T] : Upto(m, f)}
<1>1. 0 \in S
  <2> DEFINE g == [n \in 0..0 |-> base]
  <2>1. g \in [0..0 -> T] /\ g[0] = base
    OBVIOUS
  <2>2. \A n \in 1..0 : g[n] = step[n][g[n - 1]]
    OBVIOUS
  <2> HIDE DEF g
  <2>3. 0 \in 0..L /\ \E f \in [0..0 -> T] : Upto(0, f)
    BY <2>1, <2>2
  <2> QED
    BY <2>3, Zenon
<1>2. ASSUME NEW m \in 1..L, m - 1 \in S PROVE m \in S
  <2>1. PICK f \in [0..(m - 1) -> T] : Upto(m - 1, f)
    BY <1>2
  <2> DEFINE g == [n \in 0..m |-> IF n = m THEN step[m][f[m - 1]] ELSE f[n]]
  <2>2. f[m - 1] \in T /\ step[m][f[m - 1]] \in T
    OBVIOUS
  <2>3. g \in [0..m -> T]
    BY <2>2
  <2>4. g[0] = base
    BY <2>1
  <2>5. ASSUME NEW n \in 1..m PROVE g[n] = step[n][g[n - 1]]
    <3>1. CASE n = m
      BY <3>1
    <3>2. CASE n # m
      <4>1. n \in 1..(m - 1) /\ n - 1 \in 0..m /\ n - 1 # m /\ n \in 0..m
        BY <3>2
      <4> QED
        BY <2>1, <3>2, <4>1
    <3> QED
      BY <3>1, <3>2
  <2> HIDE DEF g
  <2>6. m \in 0..L
    OBVIOUS
  <2> QED
    BY <2>3, <2>4, <2>5, <2>6
<1> HIDE DEF S
<1>3. 0..L \subseteq S
  BY <1>1, <1>2, Upwards
<1>4. L \in S
  BY <1>3
<1> QED
  BY <1>4 DEF S, Stepwise

-----------------------------------------------------------------------------
(* The inductive invariant.                                                *)

Statuses == {"idle", "suspended"} \cup Active \cup Ended

\* The types of the variables.
Types ==
  /\ mode \in Modes
  /\ release \in Releases
  /\ rows \in Seq(Range(rows)) /\ Len(rows) <= MaxRows
  /\ free \in Nat
  /\ closed \in BOOLEAN
  /\ queue \in Seq(Handlers)
  /\ status \in [Handlers -> Statuses]
  /\ call \in [Handlers -> Calls \cup {"none"}]
  /\ held \in [Handlers -> SUBSET Calls]
  /\ DOMAIN todo = Handlers

\* What a handler has at each point: between its calls at most the connection of a
\* generator, one that waits not the one that it waits for.
Holds(h) ==
  /\ status[h] \in {"idle", "returned"} => held[h] = {}
  /\ status[h] = "raised" => held[h] \subseteq {"stream"} /\ todo[h] = <<>>
  /\ status[h] \in {"running", "suspended", "waiting"} => held[h] \subseteq {"stream"}
  /\ status[h] = "waiting" => call[h] \in Calls \ held[h]
  /\ status[h] = "using" => call[h] \in held[h] /\ held[h] \subseteq {"stream", call[h]}
  /\ status[h] = "suspended" => mode = "loop"
  /\ todo[h] # <<>> => "stream" \in held[h]
  /\ call[h] # "none" <=> status[h] \in {"waiting", "using"}

\* The pool: those who wait are in the queue, once each, and there is a queue only
\* if there is no free connection.
Pooled ==
  /\ Range(queue) = Waiting /\ IsInjective(queue)
  /\ closed => free = 0 /\ queue = <<>>
  /\ ~closed => /\ free + Cardinality(InUse) = PoolSize
                /\ queue # <<>> => free = 0

IInv == /\ Types
        /\ Pooled
        /\ \A h \in Handlers : Holds(h)

-----------------------------------------------------------------------------
(* Sets and sequences.                                                     *)

LEMMA InUseFinite ==
  ASSUME Types
  PROVE  IsFiniteSet(InUse) /\ Cardinality(InUse) \in Nat
<1>1. IsFiniteSet(Calls)
  <2>1. IsFiniteSet({"stream"} \cup {"statement"})
    BY FS_Singleton, FS_Union
  <2>2. {"stream"} \cup {"statement"} = Calls
    BY DEF Calls
  <2>. QED  BY <2>1, <2>2
<1>2. IsFiniteSet(Handlers \X Calls)
  BY <1>1, FS_Product, HandlersAssumption
<1>. QED  BY <1>2, FS_Subset, FS_CardinalityType DEF InUse

\* Taking D out of a finite set and putting the new elements of P in.
LEMMA Replaced ==
  ASSUME NEW A, NEW D, NEW P, NEW B, B = (A \ D) \cup P,
         IsFiniteSet(A), IsFiniteSet(P), D \subseteq A, P \cap A = {}
  PROVE  /\ Cardinality(B) = Cardinality(A) - Cardinality(D) + Cardinality(P)
         /\ Cardinality(A) \in Nat /\ Cardinality(D) \in Nat /\ Cardinality(P) \in Nat
<1>1. IsFiniteSet(D) /\ IsFiniteSet(A \ D)
  BY FS_Subset
<1>2. Cardinality({}) = 0 /\ (A \ D) \cap D = {} /\ (A \ D) \cap P = {}
  BY FS_EmptySet
<1>3. Cardinality(A) = Cardinality(A \ D) + Cardinality(D)
  <2>1. A = (A \ D) \cup D
    OBVIOUS
  <2>2. Cardinality((A \ D) \cup D) = Cardinality(A \ D) + Cardinality(D) - 0
    BY <1>1, <1>2, FS_Union
  <2>3. Cardinality(A) = Cardinality((A \ D) \cup D)
    BY <2>1, Zenon
  <2>4. Cardinality(A \ D) \in Nat /\ Cardinality(D) \in Nat
    BY <1>1, FS_CardinalityType
  <2>. QED  BY <2>2, <2>3, <2>4
<1>4. Cardinality(B) = Cardinality(A \ D) + Cardinality(P) - 0
  BY <1>1, <1>2, FS_Union
<1>5. /\ Cardinality(A) \in Nat /\ Cardinality(D) \in Nat /\ Cardinality(P) \in Nat
      /\ Cardinality(A \ D) \in Nat
  BY <1>1, FS_CardinalityType
<1>. QED  BY <1>3, <1>4, <1>5

-----------------------------------------------------------------------------
(* Connections that are given back.                                        *)

\* What a handler gives back goes to the first of those who wait, and to the pool
\* what nobody waits for.  The queue may be without the handler itself.
LEMMA GivenBack ==
  ASSUME Types, \A g \in Handlers : Holds(g), NEW h \in Handlers, NEW done \in SUBSET held[h],
         NEW waiting \in Seq(Handlers), IsInjective(waiting),
         Range(waiting) = Waiting \ {h},
         NEW becomes \in Statuses \ {"waiting"},
         closed => free = 0 /\ waiting = <<>>,
         ~closed => free + Cardinality(InUse) = PoolSize,
         ~closed /\ waiting # <<>> => free = 0,
         UNCHANGED closed,
         GiveBack(h, done, waiting, becomes)
  PROVE  /\ Pooled'
         /\ free' \in Nat
         /\ queue' \in Seq(Handlers)
         /\ status' \in [Handlers -> Statuses]
         /\ held' \in [Handlers -> SUBSET Calls]
         /\ status'[h] = becomes /\ held'[h] = held[h] \ done
         /\ \A g \in Handlers \ {h} :
              \/ status'[g] = status[g] /\ held'[g] = held[g]
              \/ /\ status[g] = "waiting" /\ status'[g] = "using"
                 /\ held'[g] = held[g] \cup {call[g]}
<1> DEFINE n == Cardinality(done)
           l == Len(waiting)
           k == IF closed THEN 0 ELSE IF n <= l THEN n ELSE l
           served == {waiting[i] : i \in 1..k}
<1>1. /\ free' = IF closed THEN free ELSE free + n - k
      /\ queue' = SubSeq(waiting, k + 1, l)
      /\ held' = [g \in Handlers |-> IF g \in served THEN held[g] \cup {call[g]}
                                     ELSE IF g = h THEN held[g] \ done ELSE held[g]]
      /\ status' = [g \in Handlers |-> IF g \in served THEN "using"
                                       ELSE IF g = h THEN becomes ELSE status[g]]
  BY DEF GiveBack
<1>2. l \in Nat /\ DOMAIN waiting = 1..l /\ \A i \in 1..l : waiting[i] \in Handlers
  BY LenProperties, ElementOfSeq
<1>3. IsFiniteSet(done) /\ n \in Nat
  <2>1. done \in SUBSET Calls
    BY DEF Types
  <2>2. IsFiniteSet({"stream"} \cup {"statement"})
    BY FS_Singleton, FS_Union
  <2>3. done \subseteq {"stream"} \cup {"statement"}
    BY <2>1 DEF Calls
  <2>. QED  BY <2>2, <2>3, FS_Subset, FS_CardinalityType
<1>4. k \in Nat /\ k <= n /\ k <= l
  BY <1>2, <1>3
<1>5. served \subseteq Waiting \ {h}
  BY <1>2, <1>4 DEF Range
<1> HIDE DEF n, l, k
<1>6. free' \in Nat /\ (closed => free' = 0)
  BY <1>1, <1>3, <1>4 DEF Types
<1>7. /\ status' \in [Handlers -> Statuses]
      /\ held' \in [Handlers -> SUBSET Calls]
      /\ status'[h] = becomes /\ held'[h] = held[h] \ done
      /\ \A g \in served : /\ status[g] = "waiting" /\ status'[g] = "using"
                            /\ held'[g] = held[g] \cup {call[g]}
      /\ \A g \in Handlers \ {h} :
           g \notin served => status'[g] = status[g] /\ held'[g] = held[g]
  <2>1. \A g \in served : g \in Handlers /\ status[g] = "waiting" /\ call[g] \in Calls
    BY <1>5 DEF Waiting, Holds
  <2>2. "using" \in Statuses
    BY DEF Statuses, Active
  <2>. HIDE DEF served
  <2>3. status' \in [Handlers -> Statuses]
    BY <1>1, <2>2 DEF Types
  <2>4. held' \in [Handlers -> SUBSET Calls]
    BY <1>1, <2>1 DEF Types
  <2>5. h \notin served
    BY <1>5 DEF served
  <2>. QED  BY <1>1, <2>1, <2>3, <2>4, <2>5
<1>8. /\ queue' \in Seq(Handlers)
      /\ Len(queue') = l - k
      /\ \A i \in 1..(l - k) : queue'[i] = waiting[k + i]
  <2>1. k + 1 \in Int /\ l \in Int /\ \A i \in (k + 1)..l : waiting[i] \in Handlers
    BY <1>2, <1>4
  <2>2. /\ SubSeq(waiting, k + 1, l) \in Seq(Handlers)
        /\ Len(SubSeq(waiting, k + 1, l)) = IF k + 1 <= l THEN l - (k + 1) + 1 ELSE 0
        /\ \A i \in 1..(l - (k + 1) + 1) : SubSeq(waiting, k + 1, l)[i] = waiting[k + 1 + i - 1]
    BY <2>1, SubSeqProperties
  <2>3. Len(queue') = l - k /\ l - (k + 1) + 1 = l - k
    BY <1>1, <1>2, <1>4, <2>2
  <2>4. \A i \in 1..(l - k) : k + 1 + i - 1 = k + i
    BY <1>2, <1>4
  <2>. QED  BY <1>1, <2>2, <2>3, <2>4
<1>9. DOMAIN queue' = 1..(l - k)
  BY <1>8, LenProperties
<1>10. IsInjective(queue')
  <2>1. ASSUME NEW i \in 1..(l - k), NEW j \in 1..(l - k), queue'[i] = queue'[j]
        PROVE  i = j
    <3>1. k + i \in 1..l /\ k + j \in 1..l
      BY <1>2, <1>4
    <3>2. waiting[k + i] = waiting[k + j]
      BY <1>8, <2>1
    <3>3. k + i = k + j
      BY <1>2, <3>1, <3>2 DEF IsInjective
    <3>. QED  BY <1>2, <1>4, <3>3
  <2>. QED  BY <1>9, <2>1 DEF IsInjective
<1>11. Range(queue') = Waiting'
  <2>1. ASSUME NEW g \in Range(queue') PROVE g \in Waiting'
    <3>1. PICK i \in 1..(l - k) : g = queue'[i]
      BY <1>9, <2>1 DEF Range
    <3>2. g = waiting[k + i] /\ k + i \in 1..l /\ k + i \notin 1..k
      BY <1>2, <1>4, <1>8, <3>1
    <3>3. g \in Waiting \ {h}
      BY <1>2, <3>2 DEF Range
    <3>4. g \notin served
      BY <1>2, <1>4, <3>2 DEF IsInjective
    <3>. QED  BY <1>7, <3>3, <3>4 DEF Waiting
  <2>2. ASSUME NEW g \in Waiting' PROVE g \in Range(queue')
    <3>1. g \in Handlers /\ status'[g] = "waiting"
      BY <2>2 DEF Waiting
    <3>2. g # h /\ g \notin served
      BY <1>7, <3>1
    <3>3. g \in Waiting \ {h}
      BY <1>7, <3>1, <3>2 DEF Waiting
    <3>4. PICK i \in 1..l : g = waiting[i]
      BY <1>2, <3>3 DEF Range
    <3>5. i \notin 1..k
      BY <3>2, <3>4
    <3>6. i - k \in 1..(l - k) /\ k + (i - k) = i
      BY <1>2, <1>4, <3>5
    <3>7. queue'[i - k] = g
      BY <1>8, <3>4, <3>6
    <3>. QED  BY <1>9, <3>6, <3>7 DEF Range
  <2>. QED  BY <2>1, <2>2
<1>12. closed => queue' = <<>>
  <2>1. closed => l = 0 /\ k = 0
    BY EmptySeq DEF l, k
  <2>. QED  BY <1>8, <2>1, EmptySeq
<1>13. ~closed /\ queue' # <<>> => free' = 0
  <2>1. SUFFICES ASSUME ~closed, queue' # <<>> PROVE free' = 0
    OBVIOUS
  <2>2. l - k # 0
    BY <1>8, <2>1, EmptySeq
  <2>3. k = n
    BY <1>2, <1>3, <2>1, <2>2 DEF k
  <2>4. free = 0
    <3>1. l # 0
      BY <1>2, <1>4, <2>2
    <3>2. waiting # <<>>
      BY <3>1, EmptySeq DEF l
    <3>. QED  BY <2>1, <3>2
  <2>. QED  BY <1>1, <1>3, <2>1, <2>3, <2>4
<1>14. ~closed => free' + Cardinality(InUse') = PoolSize
  <2>1. SUFFICES ASSUME ~closed PROVE free' + Cardinality(InUse') = PoolSize
    OBVIOUS
  <2> DEFINE back == {<<h, c>> : c \in done}
             taken == {<<waiting[i], call[waiting[i]]>> : i \in 1..k}
  <2>2. IsFiniteSet(back) /\ Cardinality(back) = n
    <3> DEFINE f == [c \in done |-> <<h, c>>]
    <3>1. f \in Bijection(done, back)
      BY DEF Bijection, Injection, Surjection, IsInjective
    <3>. QED  BY <1>3, <3>1, FS_Bijection DEF ExistsBijection, n
  <2>3. IsFiniteSet(taken) /\ Cardinality(taken) = k
    <3> DEFINE f == [i \in 1..k |-> <<waiting[i], call[waiting[i]]>>]
    <3>1. \A i, j \in 1..k : waiting[i] = waiting[j] => i = j
      BY <1>2, <1>4 DEF IsInjective
    <3>2. f \in Bijection(1..k, taken)
      BY <3>1 DEF Bijection, Injection, Surjection, IsInjective
    <3>3. IsFiniteSet(1..k) /\ Cardinality(1..k) = k
      BY <1>4, FS_Interval
    <3>. QED  BY <3>2, <3>3, FS_Bijection DEF ExistsBijection
  <2>4. back \subseteq InUse
    BY DEF InUse, Types
  <2>5. taken \cap InUse = {}
    <3>1. ASSUME NEW i \in 1..k PROVE <<waiting[i], call[waiting[i]]>> \notin InUse
      <4>1. waiting[i] \in Handlers /\ status[waiting[i]] = "waiting"
        BY <1>7, <1>5 DEF Waiting
      <4>. QED  BY <4>1 DEF InUse, Holds
    <3>. QED  BY <3>1
  <2>6. InUse' = (InUse \ back) \cup taken
    <3>1. ASSUME NEW g \in Handlers, NEW c \in Calls
          PROVE  <<g, c>> \in InUse' <=> <<g, c>> \in (InUse \ back) \cup taken
      <4>1. /\ <<g, c>> \in InUse <=> c \in held[g]
            /\ <<g, c>> \in InUse' <=> c \in held'[g]
        BY DEF InUse
      <4>2. <<g, c>> \in back <=> g = h /\ c \in done
        OBVIOUS
      <4>3. <<g, c>> \in taken <=> g \in served /\ c = call[g]
        OBVIOUS
      <4>4. h \notin served
        BY <1>5
      <4>. HIDE DEF back, taken, served
      <4>5. CASE g \in served
        <5>1. held'[g] = held[g] \cup {call[g]} /\ g # h
          BY <1>7, <4>4, <4>5
        <5>. QED  BY <4>1, <4>2, <4>3, <4>5, <5>1
      <4>6. CASE g \notin served
        BY <1>7, <4>1, <4>2, <4>3, <4>6
      <4>. QED  BY <4>5, <4>6
    <3>2. InUse' \subseteq Handlers \X Calls /\ InUse \subseteq Handlers \X Calls
      BY DEF InUse
    <3>3. taken \subseteq Handlers \X Calls
      <4>1. ASSUME NEW i \in 1..k PROVE <<waiting[i], call[waiting[i]]>> \in Handlers \X Calls
        <5>1. waiting[i] \in Handlers /\ status[waiting[i]] = "waiting"
          BY <1>5 DEF Waiting
        <5>. QED  BY <5>1 DEF Holds
      <4>. QED  BY <4>1
    <3>. HIDE DEF back, taken
    <3>4. \A p \in Handlers \X Calls : p \in InUse' <=> p \in (InUse \ back) \cup taken
      BY <3>1
    <3>. QED  BY <3>2, <3>3, <3>4
  <2>. HIDE DEF back, taken
  <2>7. IsFiniteSet(InUse)
    BY InUseFinite
  <2>8. /\ Cardinality(InUse') = Cardinality(InUse) - Cardinality(back) + Cardinality(taken)
        /\ Cardinality(InUse) \in Nat
    BY <2>2, <2>3, <2>4, <2>5, <2>6, <2>7, Replaced
  <2>9. free' = free + n - k /\ free + Cardinality(InUse) = PoolSize /\ free \in Nat
    BY <1>1, <2>1 DEF Types
  <2>. QED  BY <1>3, <1>4, <2>2, <2>3, <2>8, <2>9
<1>15. Pooled'
  BY <1>6, <1>10, <1>11, <1>12, <1>13, <1>14 DEF Pooled
<1>. QED  BY <1>6, <1>7, <1>8, <1>15

-----------------------------------------------------------------------------
(* The invariant is kept: giving back.                                     *)

\* After a handler gave connections back only the handler itself is to look at.
LEMMA GaveBack ==
  ASSUME IInv, NEW h \in Handlers, NEW done \in SUBSET held[h],
         NEW waiting \in Seq(Handlers), IsInjective(waiting),
         Range(waiting) = Waiting \ {h}, queue = <<>> => waiting = <<>>,
         NEW becomes \in Statuses \ {"waiting"},
         GiveBack(h, done, waiting, becomes),
         UNCHANGED <<mode, release, closed>>,
         rows' \in Seq(Range(rows')), Len(rows') <= MaxRows,
         call' \in [Handlers -> Calls \cup {"none"}], DOMAIN todo' = Handlers,
         \A g \in Handlers \ {h} : call'[g] = call[g] /\ todo'[g] = todo[g]
  PROVE  /\ status'[h] = becomes /\ held'[h] = held[h] \ done
         /\ Holds(h)' => IInv'
<1>1. /\ closed => free = 0 /\ waiting = <<>>
      /\ ~closed => free + Cardinality(InUse) = PoolSize
      /\ ~closed /\ waiting # <<>> => free = 0
  BY DEF IInv, Pooled
<1>2. /\ Pooled'
      /\ free' \in Nat
      /\ queue' \in Seq(Handlers)
      /\ status' \in [Handlers -> Statuses]
      /\ held' \in [Handlers -> SUBSET Calls]
      /\ status'[h] = becomes /\ held'[h] = held[h] \ done
      /\ \A g \in Handlers \ {h} :
           \/ status'[g] = status[g] /\ held'[g] = held[g]
           \/ /\ status[g] = "waiting" /\ status'[g] = "using"
              /\ held'[g] = held[g] \cup {call[g]}
  BY <1>1, GivenBack DEF IInv
<1>3. Types'
  BY <1>2 DEF Types, IInv
<1>4. ASSUME NEW g \in Handlers \ {h} PROVE Holds(g)'
  <2>1. Holds(g) /\ call'[g] = call[g] /\ todo'[g] = todo[g] /\ mode' = mode
    BY DEF IInv
  <2>2. CASE status'[g] = status[g] /\ held'[g] = held[g]
    BY <2>1, <2>2 DEF Holds
  <2>3. CASE /\ status[g] = "waiting" /\ status'[g] = "using"
             /\ held'[g] = held[g] \cup {call[g]}
    BY <2>1, <2>3 DEF Holds, Ended
  <2>. QED  BY <1>2, <2>2, <2>3
<1>. QED  BY <1>2, <1>3, <1>4 DEF IInv

\* The queue is a queue of all who wait but of a handler that does not.
LEMMA QueueIsWaiting ==
  ASSUME IInv, NEW h \in Handlers, status[h] # "waiting"
  PROVE  /\ queue \in Seq(Handlers) /\ IsInjective(queue)
         /\ Range(queue) = Waiting \ {h}
BY DEF IInv, Types, Pooled, Waiting

\* A handler that is over keeps at most the connection of a generator, and that only
\* if it raised.
LEMMA OverKept ==
  ASSUME IInv, NEW h \in Handlers, NEW kept \in SUBSET {"stream"},
         NEW waiting \in Seq(Handlers), IsInjective(waiting),
         Range(waiting) = Waiting \ {h}, queue = <<>> => waiting = <<>>,
         NEW becomes \in Ended, kept = {} \/ becomes = "raised",
         Over(h, kept, waiting, becomes), UNCHANGED unchanging
  PROVE  IInv'
<1>1. /\ GiveBack(h, held[h] \ kept, waiting, becomes)
      /\ todo' = [todo EXCEPT ![h] = <<>>]
      /\ call' = [call EXCEPT ![h] = "none"]
      /\ UNCHANGED <<mode, release, closed, rows>>
  BY DEF Over, unchanging
<1>2. /\ becomes \in Statuses \ {"waiting"} /\ held[h] \ kept \in SUBSET held[h]
      /\ becomes \notin {"idle", "running", "suspended", "waiting", "using"}
  BY DEF Statuses, Ended
<1>3. /\ rows' \in Seq(Range(rows')) /\ Len(rows') <= MaxRows
      /\ call' \in [Handlers -> Calls \cup {"none"}] /\ DOMAIN todo' = Handlers
      /\ \A g \in Handlers \ {h} : call'[g] = call[g] /\ todo'[g] = todo[g]
      /\ call'[h] = "none" /\ todo'[h] = <<>>
  BY <1>1 DEF IInv, Types, Range
<1>4. /\ status'[h] = becomes /\ held'[h] = held[h] \ (held[h] \ kept)
      /\ Holds(h)' => IInv'
  BY <1>1, <1>2, <1>3, GaveBack
<1>5. held'[h] \subseteq kept /\ (becomes = "returned" => kept = {})
  BY <1>4
<1>6. Holds(h)'
  BY <1>2, <1>3, <1>4, <1>5 DEF Holds
<1>. QED  BY <1>4, <1>6

\* A handler that does not wait is over.
LEMMA OutsideEnds ==
  ASSUME IInv, NEW h \in Handlers, status[h] # "waiting", UNCHANGED unchanging,
         \/ \E becomes \in Ended : End(h, queue, becomes)
         \/ EndInBody(h, queue)
  PROVE  IInv'
BY QueueIsWaiting, OverKept DEF End, EndInBody, Ended

\* The exception of a handler that is over is collected.
LEMMA CollectKept ==
  ASSUME IInv, NEW h \in Handlers, Collect(h)
  PROVE  IInv'
<1>1. /\ status[h] = "raised" /\ GiveBack(h, held[h], queue, "raised")
      /\ UNCHANGED <<mode, release, rows, closed, call, todo>>
  BY DEF Collect, unchanging
<1>2. Holds(h) /\ Types
  BY DEF IInv
<1>3. /\ rows' \in Seq(Range(rows')) /\ Len(rows') <= MaxRows
      /\ call' \in [Handlers -> Calls \cup {"none"}] /\ DOMAIN todo' = Handlers
      /\ \A g \in Handlers \ {h} : call'[g] = call[g] /\ todo'[g] = todo[g]
      /\ call'[h] = call[h] /\ todo'[h] = todo[h]
  BY <1>1, <1>2 DEF Types, Range
<1>4. "raised" \in Statuses \ {"waiting"} /\ held[h] \in SUBSET held[h]
  BY DEF Statuses, Ended
<1>5. /\ status'[h] = "raised" /\ held'[h] = held[h] \ held[h]
      /\ Holds(h)' => IInv'
  BY <1>1, <1>3, <1>4, QueueIsWaiting, GaveBack
<1>6. Holds(h)'
  BY <1>1, <1>2, <1>3, <1>5 DEF Holds
<1>. QED  BY <1>5, <1>6

LEMMA TimeoutKept ==
  ASSUME IInv, NEW h \in Handlers, Timeout(h)
  PROVE  IInv'
<1>1. /\ status[h] = "waiting" /\ UNCHANGED unchanging
      /\ queue \in Seq(Handlers) /\ IsInjective(queue) /\ Range(queue) = Waiting
  BY DEF Timeout, IInv, Types, Pooled
<1>2. PICK i \in DOMAIN queue : queue[i] = h /\ EndInBody(h, RemoveAt(queue, i))
  BY DEF Timeout
<1> DEFINE l == Len(queue)
           before == SubSeq(queue, 1, i - 1)
           after == SubSeq(queue, i + 1, l)
           waiting == RemoveAt(queue, i)
<1>3. /\ DOMAIN queue = 1..l /\ l \in Nat /\ i \in 1..l
      /\ \A j \in 1..l : queue[j] \in Handlers
  BY <1>1, <1>2, LenProperties, ElementOfSeq
<1>4. /\ before \in Seq(Handlers) /\ Len(before) = i - 1
      /\ \A j \in 1..(i - 1) : before[j] = queue[j]
  <2>1. \A j \in 1..(i - 1) : queue[j] \in Handlers
    BY <1>3
  <2>2. /\ before \in Seq(Handlers)
        /\ Len(before) = IF 1 <= i - 1 THEN i - 1 - 1 + 1 ELSE 0
        /\ \A j \in 1..(i - 1 - 1 + 1) : before[j] = queue[1 + j - 1]
    BY <1>3, <2>1, SubSeqProperties
  <2>. QED  BY <1>3, <2>2
<1>5. /\ after \in Seq(Handlers) /\ Len(after) = l - i
      /\ \A j \in 1..(l - i) : after[j] = queue[i + j]
  <2>1. \A j \in (i + 1)..l : queue[j] \in Handlers
    BY <1>3
  <2>2. /\ after \in Seq(Handlers)
        /\ Len(after) = IF i + 1 <= l THEN l - (i + 1) + 1 ELSE 0
        /\ \A j \in 1..(l - (i + 1) + 1) : after[j] = queue[i + 1 + j - 1]
    BY <1>3, <2>1, SubSeqProperties
  <2>3. Len(after) = l - i
    BY <1>3, <2>2
  <2>4. ASSUME NEW j \in 1..(l - i) PROVE after[j] = queue[i + j]
    <3>1. j \in 1..(l - (i + 1) + 1) /\ i + 1 + j - 1 = i + j
      BY <1>3
    <3>. QED  BY <2>2, <3>1
  <2>. QED  BY <2>2, <2>3, <2>4
<1>6. waiting = before \o after
  BY DEF RemoveAt
<1> HIDE DEF before, after, waiting
<1>7. /\ waiting \in Seq(Handlers) /\ Len(waiting) = l - 1 /\ DOMAIN waiting = 1..(l - 1)
      /\ \A j \in 1..(l - 1) : waiting[j] = IF j < i THEN queue[j] ELSE queue[j + 1]
  <2>1. /\ waiting \in Seq(Handlers)
        /\ Len(waiting) = (i - 1) + (l - i)
        /\ \A j \in 1..((i - 1) + (l - i)) :
             waiting[j] = IF j <= i - 1 THEN before[j] ELSE after[j - (i - 1)]
    <3>1. /\ waiting \in Seq(Handlers)
          /\ Len(waiting) = Len(before) + Len(after)
          /\ \A j \in 1..(Len(before) + Len(after)) :
               waiting[j] = IF j <= Len(before) THEN before[j] ELSE after[j - Len(before)]
      BY <1>4, <1>5, <1>6, ConcatProperties
    <3>. QED  BY <1>4, <1>5, <3>1
  <2>2. (i - 1) + (l - i) = l - 1
    BY <1>3
  <2>3. ASSUME NEW j \in 1..(l - 1)
        PROVE  waiting[j] = IF j < i THEN queue[j] ELSE queue[j + 1]
    <3>1. CASE j < i
      BY <1>3, <1>4, <2>1, <2>2, <3>1
    <3>2. CASE ~(j < i)
      <4>1. j - (i - 1) \in 1..(l - i) /\ i + (j - (i - 1)) = j + 1 /\ ~(j <= i - 1)
        BY <1>3, <3>2
      <4>2. after[j - (i - 1)] = queue[j + 1]
        BY <1>5, <4>1
      <4>. QED  BY <2>1, <2>2, <3>2, <4>1, <4>2
    <3>. QED  BY <3>1, <3>2
  <2>. QED  BY <2>1, <2>2, <2>3, LenProperties
<1>8. IsInjective(waiting)
  <2>1. ASSUME NEW j \in 1..(l - 1), NEW m \in 1..(l - 1), waiting[j] = waiting[m]
        PROVE  j = m
    <3> DEFINE at(x) == IF x < i THEN x ELSE x + 1
    <3>1. at(j) \in 1..l /\ at(m) \in 1..l
      BY <1>3
    <3>2. queue[at(j)] = queue[at(m)]
      BY <1>7, <2>1
    <3>3. at(j) = at(m)
      BY <1>1, <1>3, <3>1, <3>2 DEF IsInjective
    <3>. QED  BY <1>3, <3>3
  <2>. QED  BY <1>7, <2>1 DEF IsInjective
<1>9. Range(waiting) = Waiting \ {h}
  <2>1. ASSUME NEW g \in Range(waiting) PROVE g \in Waiting \ {h}
    <3>1. PICK j \in 1..(l - 1) : g = waiting[j]
      BY <1>7, <2>1 DEF Range
    <3> DEFINE x == IF j < i THEN j ELSE j + 1
    <3>2. x \in 1..l /\ x # i /\ g = queue[x]
      BY <1>3, <1>7, <3>1
    <3> HIDE DEF x
    <3>3. g \in Waiting
      BY <1>1, <1>3, <3>2 DEF Range
    <3>4. g # h
      BY <1>1, <1>2, <1>3, <3>2 DEF IsInjective
    <3>. QED  BY <3>3, <3>4
  <2>2. ASSUME NEW g \in Waiting \ {h} PROVE g \in Range(waiting)
    <3>1. PICK x \in 1..l : g = queue[x]
      BY <1>1, <1>3, <2>2 DEF Range
    <3>2. x # i
      BY <1>2, <2>2, <3>1
    <3> DEFINE j == IF x < i THEN x ELSE x - 1
    <3>3. j \in 1..(l - 1) /\ waiting[j] = queue[x]
      BY <1>3, <1>7, <3>2
    <3>. QED  BY <1>7, <3>1, <3>3 DEF Range
  <2>. QED  BY <2>1, <2>2
<1>10. queue # <<>>
  BY <1>3, EmptySeq
<1>11. Over(h, {"stream"}, waiting, "raised") /\ "raised" \in Ended
  BY <1>2 DEF waiting, Ended, EndInBody
<1>. QED  BY <1>1, <1>7, <1>8, <1>9, <1>10, <1>11, OverKept

LEMMA ExecuteKept ==
  ASSUME IInv, NEW h \in Handlers, Execute(h)
  PROVE  IInv'
<1>1. /\ status[h] = "using" /\ call[h] = "statement"
      /\ GiveBack(h, {"statement"}, queue, "running")
      /\ call' = [call EXCEPT ![h] = "none"]
      /\ UNCHANGED <<mode, release, closed, todo>>
  BY DEF Execute
<1>2. Holds(h) /\ Types /\ "statement" \in held[h]
  BY <1>1 DEF IInv, Holds
<1>3. rows' \in Seq(Range(rows')) /\ Len(rows') <= MaxRows
  <2>1. CASE UNCHANGED rows
    BY <1>2, <2>1 DEF Types, Range
  <2>2. CASE Len(rows) < MaxRows /\ \E event \in NewEvents : rows' = Append(rows, event)
    <3>1. PICK event : rows' = Append(rows, event)
      BY <2>2
    <3> DEFINE S == Range(rows) \cup {event}
    <3>2. rows \in Seq(S) /\ Len(rows) \in Nat
      <4>1. rows \in Seq(Range(rows)) /\ Range(rows) \subseteq S
        BY <1>2 DEF Types
      <4>. QED  BY <4>1, LenProperties
    <3>3. event \in S
      OBVIOUS
    <3> HIDE DEF S
    <3>4. rows' \in Seq(S) /\ Len(rows') = Len(rows) + 1
      BY <3>1, <3>2, <3>3, AppendProperties
    <3>5. rows' \in Seq(Range(rows'))
      <4>1. Len(rows') \in Nat /\ DOMAIN rows' = 1..Len(rows') /\ rows' \in [1..Len(rows') -> S]
        BY <3>4, LenProperties
      <4>2. rows' \in [1..Len(rows') -> Range(rows')]
        BY <4>1 DEF Range
      <4>. QED  BY <4>1, <4>2, SeqDef
    <3>. QED  BY <2>2, <3>2, <3>4, <3>5, BoundsAssumption
  <2>. QED  BY <2>1, <2>2 DEF Execute
<1>4. /\ call' \in [Handlers -> Calls \cup {"none"}] /\ DOMAIN todo' = Handlers
      /\ \A g \in Handlers \ {h} : call'[g] = call[g] /\ todo'[g] = todo[g]
      /\ call'[h] = "none" /\ todo'[h] = todo[h]
  BY <1>1, <1>2 DEF Types
<1>5. "running" \in Statuses \ {"waiting"} /\ {"statement"} \in SUBSET held[h]
  BY <1>2 DEF Statuses, Active
<1>6. /\ status'[h] = "running" /\ held'[h] = held[h] \ {"statement"}
      /\ Holds(h)' => IInv'
  BY <1>1, <1>3, <1>4, <1>5, QueueIsWaiting, GaveBack
<1>7. Holds(h)'
  BY <1>1, <1>2, <1>4, <1>6 DEF Holds, Ended
<1>. QED  BY <1>6, <1>7

LEMMA ExhaustKept ==
  ASSUME IInv, NEW h \in Handlers, Exhaust(h)
  PROVE  IInv'
<1>1. /\ status[h] = "running" /\ "stream" \in held[h] /\ todo[h] = <<>>
      /\ GiveBack(h, {"stream"}, queue, "running")
      /\ UNCHANGED <<mode, release, rows, closed, call, todo>>
  BY DEF Exhaust, unchanging
<1>2. Holds(h) /\ Types
  BY DEF IInv
<1>3. /\ rows' \in Seq(Range(rows')) /\ Len(rows') <= MaxRows
      /\ call' \in [Handlers -> Calls \cup {"none"}] /\ DOMAIN todo' = Handlers
      /\ \A g \in Handlers \ {h} : call'[g] = call[g] /\ todo'[g] = todo[g]
      /\ call'[h] = call[h] /\ todo'[h] = <<>>
  BY <1>1, <1>2 DEF Types, Range
<1>4. "running" \in Statuses \ {"waiting"} /\ {"stream"} \in SUBSET held[h]
  BY <1>1 DEF Statuses, Active
<1>5. /\ status'[h] = "running" /\ held'[h] = held[h] \ {"stream"}
      /\ Holds(h)' => IInv'
  BY <1>1, <1>3, <1>4, QueueIsWaiting, GaveBack
<1>6. Holds(h)'
  BY <1>1, <1>2, <1>3, <1>5 DEF Holds, Ended
<1>. QED  BY <1>5, <1>6

-----------------------------------------------------------------------------
(* The invariant is kept: the other steps.                                 *)

\* A step of a handler that touches neither the pool nor those who wait.
LEMMA QuietKept ==
  ASSUME IInv, NEW h \in Handlers,
         UNCHANGED <<unchanging, free, queue, held>>,
         status[h] # "waiting",
         NEW becomes \in Statuses \ {"waiting"}, status' = [status EXCEPT ![h] = becomes],
         NEW what \in Calls \cup {"none"}, call' = [call EXCEPT ![h] = what],
         DOMAIN todo' = Handlers, \A g \in Handlers \ {h} : todo'[g] = todo[g],
         Holds(h)'
  PROVE  IInv'
<1>1. UNCHANGED <<mode, release, rows, closed, restarts, free, queue, held>>
  BY DEF unchanging
<1>2. Waiting' = Waiting /\ InUse' = InUse
  BY <1>1 DEF Waiting, InUse, IInv, Types
<1>3. Types'
  BY <1>1 DEF IInv, Types, Range
<1>4. Pooled'
  BY <1>1, <1>2 DEF IInv, Pooled, Range, IsInjective
<1>5. ASSUME NEW g \in Handlers \ {h} PROVE Holds(g)'
  BY <1>1 DEF IInv, Types, Holds
<1>. QED  BY <1>3, <1>4, <1>5 DEF IInv

LEMMA RunKept ==
  ASSUME IInv, NEW h \in Handlers, Run(h)
  PROVE  IInv'
<1>1. /\ status[h] \in {"idle", "suspended"}
      /\ UNCHANGED <<unchanging, free, queue, held, call, todo>>
      /\ status' = [status EXCEPT ![h] = "running"]
  BY DEF Run
<1>2. Types /\ Holds(h)
  BY DEF IInv
<1>3. /\ "running" \in Statuses \ {"waiting"}
      /\ call[h] \in Calls \cup {"none"} /\ call' = [call EXCEPT ![h] = call[h]]
      /\ DOMAIN todo' = Handlers /\ \A g \in Handlers \ {h} : todo'[g] = todo[g]
  BY <1>1, <1>2 DEF Statuses, Active, Types
<1>4. Holds(h)'
  BY <1>1, <1>2 DEF Holds, Types, Ended
<1>. QED  BY <1>1, <1>3, <1>4, QuietKept

LEMMA SuspendKept ==
  ASSUME IInv, NEW h \in Handlers, Suspend(h)
  PROVE  IInv'
<1>1. /\ status[h] = "running" /\ mode = "loop"
      /\ UNCHANGED <<unchanging, free, queue, held, call, todo>>
      /\ status' = [status EXCEPT ![h] = "suspended"]
  BY DEF Suspend
<1>2. Types /\ Holds(h)
  BY DEF IInv
<1>3. /\ "suspended" \in Statuses \ {"waiting"}
      /\ call[h] \in Calls \cup {"none"} /\ call' = [call EXCEPT ![h] = call[h]]
      /\ DOMAIN todo' = Handlers /\ \A g \in Handlers \ {h} : todo'[g] = todo[g]
  BY <1>1, <1>2 DEF Statuses, Types
<1>4. Holds(h)'
  BY <1>1, <1>2 DEF Holds, Types, Ended, unchanging
<1>. QED  BY <1>1, <1>3, <1>4, QuietKept

LEMMA SelectKept ==
  ASSUME IInv, NEW h \in Handlers, Select(h)
  PROVE  IInv'
<1>1. /\ status[h] = "using" /\ call[h] = "stream"
      /\ UNCHANGED <<unchanging, free, queue, held>>
      /\ status' = [status EXCEPT ![h] = "running"]
      /\ call' = [call EXCEPT ![h] = "none"]
      /\ todo' = [todo EXCEPT ![h] = rows]
  BY DEF Select
<1>2. Types /\ Holds(h)
  BY DEF IInv
<1>3. /\ "running" \in Statuses \ {"waiting"} /\ "none" \in Calls \cup {"none"}
      /\ DOMAIN todo' = Handlers /\ \A g \in Handlers \ {h} : todo'[g] = todo[g]
  BY <1>1, <1>2 DEF Statuses, Active, Types
<1>4. Holds(h)'
  BY <1>1, <1>2 DEF Holds, Types, Ended
<1>. QED  BY <1>1, <1>3, <1>4, QuietKept

LEMMA LoadKept ==
  ASSUME IInv, NEW h \in Handlers, Load(h)
  PROVE  IInv'
<1>1. status[h] = "running" /\ todo[h] # <<>> /\ UNCHANGED unchanging
  BY DEF Load
<1>2. Types /\ Holds(h)
  BY DEF IInv
<1>3. CASE End(h, queue, "raised")
  BY <1>1, <1>3, OutsideEnds DEF Ended
<1>4. CASE todo' = [todo EXCEPT ![h] = Tail(@)] /\ UNCHANGED <<pool, call>>
  <2>1. UNCHANGED <<free, queue, status, held, call>>
    BY <1>4 DEF pool
  <2>2. /\ "running" \in Statuses \ {"waiting"}
        /\ status' = [status EXCEPT ![h] = "running"]
        /\ call[h] \in Calls \cup {"none"} /\ call' = [call EXCEPT ![h] = call[h]]
        /\ DOMAIN todo' = Handlers /\ \A g \in Handlers \ {h} : todo'[g] = todo[g]
    BY <1>1, <1>2, <1>4, <2>1 DEF Statuses, Active, Types
  <2>3. Holds(h)'
    BY <1>1, <1>2, <2>1 DEF Holds, Ended
  <2>. QED  BY <1>1, <2>1, <2>2, <2>3, QuietKept
<1>. QED  BY <1>3, <1>4 DEF Load

\* A handler gets a connection, or comes to the end of the queue.
LEMMA ConnectKept ==
  ASSUME IInv, NEW h \in Handlers, NEW what \in Calls, Connect(h, what)
  PROVE  IInv'
<1>1. /\ status[h] = "running" /\ what \notin held[h] /\ UNCHANGED unchanging
      /\ UNCHANGED <<mode, release, rows, closed, restarts>>
  BY DEF Connect, unchanging
<1>2. Types /\ Pooled /\ Holds(h) /\ held[h] \subseteq {"stream"}
  BY <1>1 DEF IInv, Holds
<1>3. CASE closed /\ EndInBody(h, queue)
  BY <1>1, <1>3, OutsideEnds
<1>4. CASE /\ ~closed
           /\ call' = [call EXCEPT ![h] = what]
           /\ UNCHANGED todo
           /\ free > 0
           /\ free' = free - 1
           /\ held' = [held EXCEPT ![h] = @ \cup {what}]
           /\ status' = [status EXCEPT ![h] = "using"]
           /\ UNCHANGED queue
  <2>1. /\ status'[h] = "using" /\ call'[h] = what /\ held'[h] = held[h] \cup {what}
        /\ \A g \in Handlers \ {h} : /\ status'[g] = status[g] /\ call'[g] = call[g]
                                     /\ held'[g] = held[g]
    BY <1>2, <1>4 DEF Types
  <2>2. Types'
    BY <1>1, <1>2, <1>4 DEF Types, Statuses, Active, Range
  <2>3. Waiting' = Waiting
    BY <1>1, <2>1 DEF Waiting
  <2>4. Cardinality(InUse') = Cardinality(InUse) + 1 /\ Cardinality(InUse) \in Nat
    <3>1. InUse' = InUse \cup {<<h, what>>}
      BY <2>1 DEF InUse
    <3>2. <<h, what>> \notin InUse
      BY <1>1 DEF InUse
    <3>. QED  BY <1>2, <3>1, <3>2, InUseFinite, FS_AddElement
  <2>5. Pooled'
    <3>1. free \in Nat /\ PoolSize \in Nat
      BY <1>2, BoundsAssumption DEF Types
    <3>2. free' + Cardinality(InUse') = PoolSize
      BY <1>2, <1>4, <2>4, <3>1 DEF Pooled
    <3>. QED  BY <1>1, <1>2, <1>4, <2>3, <3>1, <3>2 DEF Pooled, Range, IsInjective
  <2>6. Holds(h)'
    BY <1>1, <1>2, <1>4, <2>1 DEF Holds, Ended, Calls
  <2>7. ASSUME NEW g \in Handlers \ {h} PROVE Holds(g)'
    BY <1>1, <1>4, <2>1 DEF IInv, Holds
  <2>. QED  BY <2>2, <2>5, <2>6, <2>7 DEF IInv
<1>5. CASE /\ ~closed
           /\ call' = [call EXCEPT ![h] = what]
           /\ UNCHANGED todo
           /\ free = 0
           /\ queue' = Append(queue, h)
           /\ status' = [status EXCEPT ![h] = "waiting"]
           /\ UNCHANGED <<free, held>>
  <2>1. /\ status'[h] = "waiting" /\ call'[h] = what
        /\ \A g \in Handlers \ {h} : status'[g] = status[g] /\ call'[g] = call[g]
    BY <1>2, <1>5 DEF Types
  <2> DEFINE l == Len(queue)
  <2>2. /\ queue \in Seq(Handlers) /\ l \in Nat /\ DOMAIN queue = 1..l
        /\ queue' \in Seq(Handlers) /\ DOMAIN queue' = 1..(l + 1)
        /\ \A i \in 1..l : queue'[i] = queue[i]
        /\ queue'[l + 1] = h
    <3>1. queue \in Seq(Handlers)
      BY <1>2 DEF Types
    <3>. QED  BY <1>5, <3>1, LenProperties, AppendProperties
  <2> HIDE DEF l
  <2>3. Types'
    BY <1>1, <1>2, <1>5, <2>2 DEF Types, Statuses, Active, Range
  <2>4. Waiting' = Waiting \cup {h} /\ h \notin Waiting
    BY <1>1, <2>1 DEF Waiting
  <2>5. \A i \in 1..l : queue[i] # h
    <3>1. h \notin Range(queue)
      BY <1>2, <2>4 DEF Pooled
    <3>. QED  BY <2>2, <3>1 DEF Range
  <2>6. Range(queue') = Waiting'
    <3>1. Range(queue) = Waiting
      BY <1>2 DEF Pooled
    <3>2. Range(queue') = Range(queue) \cup {h}
      BY <2>2 DEF Range
    <3>. QED  BY <2>4, <3>1, <3>2
  <2>7. IsInjective(queue')
    <3>1. \A i, j \in 1..l : queue[i] = queue[j] => i = j
      BY <1>2, <2>2 DEF Pooled, IsInjective
    <3>2. ASSUME NEW i \in 1..(l + 1), NEW j \in 1..(l + 1), queue'[i] = queue'[j]
          PROVE  i = j
      BY <2>2, <2>5, <3>1, <3>2
    <3>. QED  BY <2>2, <3>2 DEF IsInjective
  <2>8. InUse' = InUse
    BY <1>5 DEF InUse
  <2>9. Pooled'
    BY <1>1, <1>2, <1>5, <2>6, <2>7, <2>8 DEF Pooled
  <2>10. Holds(h)'
    BY <1>1, <1>2, <1>5, <2>1 DEF Holds, Ended, Calls
  <2>11. ASSUME NEW g \in Handlers \ {h} PROVE Holds(g)'
    BY <1>1, <1>5, <2>1 DEF IInv, Holds
  <2>. QED  BY <2>3, <2>9, <2>10, <2>11 DEF IInv
<1>. QED  BY <1>3, <1>4, <1>5 DEF Connect

LEMMA HandlerKept ==
  ASSUME IInv, NEW h \in Handlers, HandlerStep(h)
  PROVE  IInv'
<1>1. CASE Fail(h)
  BY <1>1, OutsideEnds DEF Fail, Ended
<1>2. CASE Finish(h)
  BY <1>2, OutsideEnds DEF Finish, Ended
<1>. QED
  BY <1>1, <1>2, RunKept, SuspendKept, ConnectKept, TimeoutKept, SelectKept, ExecuteKept,
     LoadKept, ExhaustKept, CollectKept DEF HandlerStep

LEMMA CloseKept ==
  ASSUME IInv, Close
  PROVE  IInv'
<1>1. /\ closed' = TRUE /\ free' = 0 /\ queue' = <<>>
      /\ UNCHANGED <<mode, release, rows, held>>
      /\ status' = [h \in Handlers |-> IF status[h] = "waiting" THEN "raised" ELSE status[h]]
      /\ todo' = [h \in Handlers |-> IF status[h] = "waiting" THEN <<>> ELSE todo[h]]
      /\ call' = [h \in Handlers |-> IF status[h] = "waiting" THEN "none" ELSE call[h]]
  BY DEF Close
<1>2. Types'
  <2>1. queue' \in Seq(Handlers)
    BY <1>1, EmptySeq
  <2>2. /\ status' \in [Handlers -> Statuses]
        /\ held' \in [Handlers -> SUBSET Calls]
        /\ call' \in [Handlers -> Calls \cup {"none"}]
    BY <1>1 DEF IInv, Types, Statuses, Ended
  <2>. QED  BY <1>1, <2>1, <2>2 DEF IInv, Types, Range
<1>3. Pooled'
  <2>1. Waiting' = {}
    BY <1>1 DEF Waiting
  <2>2. DOMAIN queue' = {}
    BY <1>1
  <2>. QED  BY <1>1, <2>1, <2>2 DEF Pooled, Range, IsInjective
<1>4. ASSUME NEW h \in Handlers PROVE Holds(h)'
  <2>1. /\ Holds(h) /\ held'[h] = held[h] /\ mode' = mode
        /\ status'[h] = IF status[h] = "waiting" THEN "raised" ELSE status[h]
        /\ todo'[h] = IF status[h] = "waiting" THEN <<>> ELSE todo[h]
        /\ call'[h] = IF status[h] = "waiting" THEN "none" ELSE call[h]
    BY <1>1 DEF IInv
  <2>2. CASE status[h] = "waiting"
    BY <2>1, <2>2 DEF Holds
  <2>3. CASE status[h] # "waiting"
    BY <2>1, <2>3 DEF Holds
  <2>. QED  BY <2>2, <2>3
<1>. QED  BY <1>2, <1>3, <1>4 DEF IInv

\* A process that begins has all of its connections in the pool.
LEMMA Fresh ==
  ASSUME mode' \in Modes, release' \in Releases, rows' \in Seq(Range(rows')),
         Len(rows') <= MaxRows, free' = PoolSize, queue' = <<>>, closed' = FALSE,
         status' = [h \in Handlers |-> "idle"], held' = [h \in Handlers |-> {}],
         todo' = [h \in Handlers |-> <<>>], call' = [h \in Handlers |-> "none"]
  PROVE  IInv'
<1>1. Types'
  <2>1. queue' \in Seq(Handlers)
    BY EmptySeq
  <2>. QED  BY <2>1, BoundsAssumption DEF Types, Statuses
<1>2. Pooled'
  <2>1. Waiting' = {} /\ InUse' = {} /\ DOMAIN queue' = {}
    BY DEF Waiting, InUse
  <2>2. free' + Cardinality(InUse') = PoolSize
    BY <2>1, FS_EmptySet, BoundsAssumption
  <2>. QED  BY <2>1, <2>2 DEF Pooled, Range, IsInjective
<1>3. \A h \in Handlers : Holds(h)'
  BY DEF Holds
<1>. QED  BY <1>1, <1>2, <1>3 DEF IInv

LEMMA RestartKept ==
  ASSUME IInv, Restart
  PROVE  IInv'
<1>1. mode' \in Modes /\ rows' \in Seq(Range(rows')) /\ Len(rows') <= MaxRows
  BY DEF Restart, IInv, Types, Range
<1>. QED  BY <1>1, Fresh DEF Restart

LEMMA InitIInv == Init => IInv
<1> SUFFICES ASSUME Init PROVE IInv
  OBVIOUS
<1>1. rows = <<>> /\ queue = <<>> /\ DOMAIN rows = {} /\ DOMAIN queue = {}
  BY DEF Init
<1>2. Types
  <2>1. rows \in Seq(Range(rows)) /\ Len(rows) = 0 /\ queue \in Seq(Handlers)
    BY <1>1, EmptySeq
  <2>2. /\ status \in [Handlers -> Statuses] /\ held \in [Handlers -> SUBSET Calls]
        /\ call \in [Handlers -> Calls \cup {"none"}] /\ DOMAIN todo = Handlers
    BY DEF Init, Statuses
  <2>3. free \in Nat /\ Len(rows) <= MaxRows
    BY <2>1, BoundsAssumption DEF Init
  <2>. QED  BY <2>1, <2>2, <2>3 DEF Init, Types
<1>3. Pooled
  <2>1. Waiting = {} /\ InUse = {}
    BY DEF Init, Waiting, InUse
  <2>2. free + Cardinality(InUse) = PoolSize
    BY <2>1, FS_EmptySet, BoundsAssumption DEF Init
  <2>. QED  BY <1>1, <2>1, <2>2 DEF Init, Pooled, Range, IsInjective
<1>4. \A h \in Handlers : Holds(h)
  BY DEF Init, Holds
<1>. QED  BY <1>2, <1>3, <1>4 DEF IInv

LEMMA IInvHolds == Spec => []IInv
<1>1. IInv /\ [Next]_vars => IInv'
  <2> SUFFICES ASSUME IInv, [Next]_vars PROVE IInv'
    OBVIOUS
  <2>1. CASE UNCHANGED vars
    <3>1. Waiting' = Waiting /\ InUse' = InUse
      BY <2>1 DEF vars, Waiting, InUse
    <3>. QED  BY <2>1, <3>1 DEF vars, IInv, Types, Pooled, Holds, Range, IsInjective
  <2>. QED  BY <2>1, HandlerKept, CloseKept, RestartKept DEF Next
<1>. QED  BY <1>1, InitIInv, PTL DEF Spec

-----------------------------------------------------------------------------
(* Messages through the releases.                                          *)

Message == [by : Releases, form : Nat, mark : Nat, spoiled : BOOLEAN]

\* A stored event: if its maker told its version, or there was but one, it has the
\* form that it says.
Stored ==
  {event \in Message :
     /\ event.mark \in {0, event.by}
     /\ event.by = 1 \/ event.mark # 0 => event.form = event.by /\ ~event.spoiled}

\* values after n upcasters, of versions first and later.
Upgraded(values, first, n, new) ==
  /\ new \in Message
  /\ new.by = values.by /\ new.mark = values.mark
  /\ n = 0 => new = values
  /\ values.form = first => new.form = first + n /\ new.spoiled = values.spoiled

With(m, f, b) == [m EXCEPT !.form = f, !.spoiled = b]

LEMMA TwoFields ==
  ASSUME NEW m \in Message, NEW f \in Nat, NEW b \in BOOLEAN
  PROVE  /\ With(m, f, b) \in Message
         /\ With(m, f, b).by = m.by /\ With(m, f, b).mark = m.mark
         /\ With(m, f, b).form = f /\ With(m, f, b).spoiled = b
<1>1. With(m, f, b) \in Message
  BY DEF Message, With
<1>2. /\ With(m, f, b).by = m.by /\ With(m, f, b).mark = m.mark
      /\ With(m, f, b).form = f
  BY DEF Message, With
<1>3. With(m, f, b).spoiled = b
  BY DEF Message, With
<1> QED
  BY <1>1, <1>2, <1>3, Zenon

LEMMA StepOf ==
  ASSUME NEW m \in Message, NEW k \in Nat
  PROVE  /\ Step(m, k) \in Message
         /\ Step(m, k).by = m.by /\ Step(m, k).mark = m.mark
         /\ Step(m, k).form = k + 1
         /\ Step(m, k).spoiled = (m.spoiled \/ m.form # k)
<1> DEFINE b == m.spoiled \/ m.form # k
           f == k + 1
<1>1. f \in Nat /\ b \in BOOLEAN
  OBVIOUS
<1>2. Step(m, k) = With(m, f, b)
  BY DEF Step, With
<1> HIDE DEF b, f
<1>3. /\ Step(m, k) \in Message /\ Step(m, k).by = m.by /\ Step(m, k).mark = m.mark
      /\ Step(m, k).form = f /\ Step(m, k).spoiled = b
  <2>1. /\ With(m, f, b) \in Message
        /\ With(m, f, b).by = m.by /\ With(m, f, b).mark = m.mark
        /\ With(m, f, b).form = f /\ With(m, f, b).spoiled = b
    BY ONLY <1>1, TwoFields, m \in Message
  <2> QED
    BY <1>2, <2>1
<1> QED
  BY <1>3, Zenon DEF b, f

LEMMA OneStep ==
  ASSUME NEW values \in Message, NEW first \in Nat, NEW n \in Nat \ {0},
         NEW old, Upgraded(values, first, n - 1, old)
  PROVE  Upgraded(values, first, n, Step(old, first + n - 1))
<1> DEFINE new == Step(old, first + n - 1)
<1>1. old \in Message
  BY DEF Upgraded
<1>2. /\ new.by = old.by /\ new.mark = old.mark
      /\ new.form = first + n
      /\ new.spoiled = (old.spoiled \/ old.form # first + n - 1)
      /\ new \in Message
  <2>1. first + n - 1 \in Nat /\ (first + n - 1) + 1 = first + n
    OBVIOUS
  <2> DEFINE k == first + n - 1
  <2> HIDE DEF k
  <2>2. k \in Nat /\ k + 1 = first + n
    BY <2>1 DEF k
  <2>3. new = Step(old, k)
    BY DEF k
  <2> HIDE DEF new
  <2>4. /\ new \in Message /\ new.by = old.by /\ new.mark = old.mark
        /\ new.form = k + 1 /\ new.spoiled = (old.spoiled \/ old.form # k)
    BY <1>1, <2>2, <2>3, StepOf, Zenon
  <2> QED
    BY <2>2, <2>4, Zenon DEF k
<1> HIDE DEF new
<1>3. ASSUME values.form = first PROVE new.form = first + n /\ new.spoiled = values.spoiled
  <2>1. old.form = first + (n - 1) /\ old.spoiled = values.spoiled /\ old.spoiled \in BOOLEAN
    BY <1>1, <1>3 DEF Upgraded, Message
  <2>2. old.form = first + n - 1
    BY <2>1
  <2> QED
    BY <1>2, <2>1, <2>2
<1>4. Upgraded(values, first, n, new)
  BY <1>2, <1>3 DEF Upgraded
<1> QED
  BY <1>4 DEF new

\* The upcasters of one version after the other take a message from its form to that
\* of the release, and never spoil one that is of the form it starts with.
LEMMA StepsUpgrade ==
  ASSUME NEW values \in Message, NEW first \in Nat, NEW r \in Nat, first <= r
  PROVE  Upgraded(values, first, r - first, Steps(values, first, r))
<1> DEFINE L == r - first
           step == [n \in 1..L |-> [m \in Message |-> Step(m, first + n - 1)]]
           def(f) == [n \in 0..L |-> IF n = 0 THEN values ELSE Step(f[n - 1], first + n - 1)]
           F == CHOOSE f : f = def(f)
<1>1. L \in Nat
  OBVIOUS
<1>2. step \in [1..L -> [Message -> Message]]
  <2>1. ASSUME NEW n \in 1..L, NEW m \in Message PROVE Step(m, first + n - 1) \in Message
    <3>1. first + n - 1 \in Nat
      OBVIOUS
    <3> QED
      BY <3>1, StepOf
  <2> QED
    BY <2>1
<1>3. PICK f \in [0..L -> Message] : Stepwise(L, values, step, f)
  <2> HIDE DEF step, L
  <2> QED
    BY <1>1, <1>2, StepByStep
<1>4. f = def(f)
  <2>1. ASSUME NEW n \in 1..L PROVE f[n] = Step(f[n - 1], first + n - 1)
    <3>1. f[n - 1] \in Message /\ f[n] = step[n][f[n - 1]]
      BY <1>1, <1>3 DEF Stepwise
    <3> QED
      BY <3>1
  <2>2. f[0] = values
    BY <1>3 DEF Stepwise
  <2>3. ASSUME NEW n \in 0..L PROVE f[n] = def(f)[n]
    BY <1>1, <2>1, <2>2
  <2>4. f = [n \in 0..L |-> f[n]] /\ def(f) = [n \in 0..L |-> def(f)[n]]
    OBVIOUS
  <2> HIDE DEF def
  <2> QED
    BY <2>3, <2>4
<1>5. F = def(F)
  <2> HIDE DEF def
  <2> QED
    BY <1>4
<1>6. Steps(values, first, r) = F[L]
  BY DEF Steps
<1>7. F[0] = values /\ \A n \in 1..L : F[n] = Step(F[n - 1], first + n - 1)
  <2>1. def(F)[0] = values /\ \A n \in 1..L : def(F)[n] = Step(F[n - 1], first + n - 1)
    <3> HIDE DEF F
    <3> QED
      BY <1>1
  <2> HIDE DEF def, F
  <2> QED
    BY <1>5, <2>1
<1> HIDE DEF F
<1> DEFINE S == {n \in 0..L : Upgraded(values, first, n, F[n])}
<1>8. 0 \in S
  <2>1. Upgraded(values, first, 0, values)
    BY DEF Upgraded
  <2> QED
    BY <1>1, <1>7, <2>1
<1>9. ASSUME NEW n \in 1..L, n - 1 \in S PROVE n \in S
  <2>1. n \in Nat \ {0} /\ n \in 0..L
    BY <1>1
  <2>2. Upgraded(values, first, n, Step(F[n - 1], first + n - 1))
    BY <1>9, <2>1, OneStep
  <2> QED
    BY <1>7, <2>1, <2>2
<1> HIDE DEF S
<1>10. 0..L \subseteq S
  BY <1>1, <1>8, <1>9, Upwards
<1>11. L \in S
  BY <1>1, <1>10
<1> QED
  BY <1>6, <1>11 DEF S

\* What the validator lets through is stored as Stored says.
LEMMA NewAreStored ==
  ASSUME release \in Releases
  PROVE  NewEvents \subseteq Stored
<1> SUFFICES ASSUME NEW mark \in {0, release},
                    NEW event \in Upcast([by |-> release, form |-> release, mark |-> mark,
                                          spoiled |-> FALSE], release)
             PROVE  event \in Stored
  BY DEF NewEvents
<1> DEFINE values == [by |-> release, form |-> release, mark |-> mark, spoiled |-> FALSE]
           first == IF mark = 0 THEN 1 ELSE mark
<1>1. release \in Nat \ {0} /\ first \in Nat /\ values \in Message /\ first <= release
  BY BoundsAssumption DEF Releases, Message
<1>2. event = Steps(values, first, release)
  BY <1>1 DEF Upcast
<1>3. Upgraded(values, first, release - first, event)
  <2> HIDE DEF values, first
  <2> QED
    BY <1>1, <1>2, StepsUpgrade
<1>4. event \in Message /\ event.by = release /\ event.mark = mark
  BY <1>3 DEF Upgraded
<1>5. ASSUME release = 1 \/ mark # 0 PROVE event = values
  <2>1. release - first = 0
    BY <1>1, <1>5
  <2> QED
    BY <1>3, <2>1 DEF Upgraded
<1>6. release = 1 \/ mark # 0 => event.form = release /\ ~event.spoiled
  BY <1>5
<1> HIDE DEF values, first
<1> QED
  BY <1>4, <1>6 DEF Stored

RowsStored == \A i \in DOMAIN rows : rows[i] \in Stored

\* Only append_to_stream writes to the table, and only new events.
LEMMA RowsGrow ==
  ASSUME IInv, [Next]_vars
  PROVE  UNCHANGED rows \/ \E event \in NewEvents : rows' = Append(rows, event)
<1>1. ASSUME NEW h \in Handlers, HandlerStep(h)
      PROVE  UNCHANGED rows \/ \E event \in NewEvents : rows' = Append(rows, event)
  BY <1>1 DEF HandlerStep, Run, Suspend, Connect, Timeout, Select, Execute, Fail, Load,
              Exhaust, Finish, Collect, unchanging
<1> QED
  BY <1>1 DEF Next, Close, Restart, vars

LEMMA RowsStoredHolds == Spec => []RowsStored
<1>1. Init => RowsStored
  BY DEF Init, RowsStored
<1>2. IInv /\ RowsStored /\ [Next]_vars => RowsStored'
  <2> SUFFICES ASSUME IInv, RowsStored, [Next]_vars PROVE RowsStored'
    OBVIOUS
  <2>1. CASE UNCHANGED rows
    BY <2>1 DEF RowsStored
  <2>2. ASSUME NEW event \in NewEvents, rows' = Append(rows, event) PROVE RowsStored'
    <3>1. event \in Stored
      BY NewAreStored DEF IInv, Types
    <3>2. rows \in Seq(Range(rows))
      BY DEF IInv, Types
    <3>3. ASSUME NEW i \in DOMAIN rows' PROVE rows'[i] = event \/ (i \in DOMAIN rows /\ rows'[i] = rows[i])
      BY <2>2, <3>2
    <3> QED
      BY <3>1, <3>3 DEF RowsStored
  <2> QED
    BY <2>1, <2>2, RowsGrow
<1> QED
  BY <1>1, <1>2, IInvHolds, PTL DEF Spec

-----------------------------------------------------------------------------
(* The theorems.                                                           *)

\* Whatever raises and wherever, in threads and on the event loop, each connection is in
\* the pool, or with a handler that is not over, or with the generator that the
\* exception of a handler keeps.
THEOREM NoConnectionIsLost == Spec => []TypeOK
<1>1. IInv => TypeOK
  <2> SUFFICES ASSUME IInv PROVE TypeOK
    OBVIOUS
  <2>1. free \in 0..PoolSize
    BY InUseFinite, BoundsAssumption DEF IInv, Types, Pooled
  <2>. QED  BY <2>1 DEF IInv, Types, Pooled, Holds, TypeOK, Statuses, Active
<1>. QED  BY <1>1, IInvHolds, PTL

\* Who waits for a connection does so because another handler works with one, or
\* because every connection of the pool is with a generator that nobody reads on:
\* handlers that take one connection at a time, do not await with it and do not raise
\* with it never stall the others, and to stall them takes as many as the pool is large.
THEOREM WaitingHasAReason == Spec => []NoStall
<1>1. IInv => NoStall
  <2> SUFFICES ASSUME IInv, Waiting # {},
                      ~ \E h \in Handlers : /\ held[h] # {}
                                            /\ status[h] \in {"running", "using"}
               PROVE  free = 0 /\ \A h \in Handlers : held[h] # {} => Stuck(h)
    BY DEF NoStall
  <2>1. queue # <<>>
    <3>1. PICK i \in DOMAIN queue : TRUE
      BY DEF IInv, Pooled, Range
    <3>. QED  BY <3>1
  <2>2. free = 0
    BY <2>1 DEF IInv, Pooled
  <2>3. ASSUME NEW h \in Handlers, held[h] # {} PROVE Stuck(h)
    <3>1. /\ status[h] \in Statuses /\ Holds(h) /\ held[h] \in SUBSET Calls
          /\ status[h] \notin {"running", "using"}
      BY <2>3 DEF IInv, Types
    <3>2. status[h] \in {"waiting", "raised", "suspended"}
      BY <2>3, <3>1 DEF Holds, Statuses, Active, Ended
    <3>3. held[h] = {"stream"}
      BY <2>3, <3>1, <3>2 DEF Holds
    <3>. QED  BY <3>1, <3>2, <3>3 DEF Stuck, Holds
  <2>. QED  BY <2>2, <2>3
<1>. QED  BY <1>1, IInvHolds, PTL

\* Whatever release wrote an event, and however many came since, each release that is
\* not older loads it brought to its own version by upcast, and not twice; an older
\* one refuses it.  The exception is an event that does not tell its version.
THEOREM ReleasesReadEachOther == Spec => []ReadsWhatWasWritten
<1>1. RowsStored => ReadsWhatWasWritten
  <2> SUFFICES ASSUME RowsStored, NEW i \in DOMAIN rows, NEW r \in Releases,
                      rows[i].by = 1 \/ rows[i].mark # 0
               PROVE  IF rows[i].by <= r
                      THEN \E event \in Loaded(rows[i], r) : event.form = r /\ ~event.spoiled
                      ELSE Loaded(rows[i], r) = {}
    BY DEF ReadsWhatWasWritten
  <2> DEFINE row == rows[i]
             first == IF row.mark = 0 THEN 1 ELSE row.mark
  <2>1. /\ row \in Message /\ row.by \in Releases
        /\ row.form = row.by /\ ~row.spoiled /\ first = row.by
    BY DEF RowsStored, Stored, Message
  <2>2. r \in Nat /\ row.by \in Nat
    BY <2>1, BoundsAssumption DEF Releases
  <2> HIDE DEF row
  <2>3. CASE row.by <= r
    <3> DEFINE event == Steps(row, first, r)
    <3>1. Upgraded(row, row.by, r - row.by, event)
      BY <2>1, <2>2, <2>3, StepsUpgrade
    <3>2. event.form = r /\ ~event.spoiled
      <4>1. event.form = row.by + (r - row.by) /\ event.spoiled = row.spoiled
        BY <2>1, <3>1 DEF Upgraded
      <4> HIDE DEF event
      <4> QED
        BY <2>1, <2>2, <4>1
    <3>3. Topic(row.by) \in Registered(r)
      <4>1. row.by \in 1..r
        BY <2>1, <2>2, <2>3, BoundsAssumption DEF Releases
      <4> QED
        BY <4>1 DEF Registered
    <3>4. Upcast(row, r) = {event}
      BY <2>1, <2>2, <2>3 DEF Upcast
    <3> HIDE DEF event
    <3>5. event \in Loaded(row, r)
      BY <3>3, <3>4 DEF Loaded
    <3> QED
      BY <2>3, <3>2, <3>5 DEF row
  <2>4. CASE ~(row.by <= r)
    <3>1. Upcast(row, r) = {}
      BY <2>1, <2>2, <2>4 DEF Upcast
    <3> QED
      BY <2>4, <3>1 DEF Loaded, row
  <2> QED
    BY <2>3, <2>4
<1> QED
  BY <1>1, RowsStoredHolds, PTL

=============================================================================
