---------------------------- MODULE DispatchProofs ----------------------------
(***************************************************************************)
(* Proofs about Dispatch, for every tree of calls, any number of threads   *)
(* and however many misfits and cancellations: the pool never runs out of  *)
(* threads that could go on, and what callers are told is true.            *)
(***************************************************************************)
EXTENDS Dispatch, FiniteSetTheorems, SequenceTheorems, TLAPS

-----------------------------------------------------------------------------
(* Least numbers, and functions that are defined step by step from the     *)
(* value before: what the proofs about recursive functions rest on.  The   *)
(* step of a definition is a function of its place and of the value        *)
(* before, so that the lemmas hold for any of them.                        *)

\* Some numbers have a least one.
LEMMA Least ==
  ASSUME NEW S \in SUBSET Nat, S # {}
  PROVE  \E m \in S : \A i \in S : m <= i
<1> DEFINE Below == {1..i : i \in S}
<1>1. Below \subseteq FiniteSubsetsOf(Nat) /\ Below # {}
  <2>1. ASSUME NEW i \in S PROVE 1..i \in FiniteSubsetsOf(Nat)
    <3>1. i \in Int /\ 1..i \subseteq Nat
      OBVIOUS
    <3> QED
      BY <3>1, FS_Interval DEF FiniteSubsetsOf
  <2> QED
    BY <2>1
<1>2. PICK b \in Below : \A c \in Below : <<c, b>> \notin StrictSubsetOrdering(Nat)
  BY <1>1, FS_StrictSubsetOrderingWellFounded, WFMin
<1>3. PICK m \in S : b = 1..m
  BY <1>2
<1>4. ASSUME NEW i \in S, i < m PROVE FALSE
  <2>1. 1..i \subseteq 1..m /\ m \in 1..m /\ m \notin 1..i /\ 1..m \subseteq Nat
    BY <1>4
  <2>2. <<1..i, b>> \in StrictSubsetOrdering(Nat)
    BY <1>3, <2>1 DEF StrictSubsetOrdering
  <2> QED
    BY <1>2, <2>2
<1> QED
  BY <1>4

\* The principle of induction up to L, for a set of numbers.
LEMMA Upwards ==
  ASSUME NEW L \in Nat, NEW S, 0 \in S,
         \A n \in 1..L : n - 1 \in S => n \in S
  PROVE  0..L \subseteq S
<1> SUFFICES ASSUME (0..L) \ S # {} PROVE FALSE
  OBVIOUS
<1>1. (0..L) \ S \in SUBSET Nat
  OBVIOUS
<1>2. PICK m \in (0..L) \ S : \A i \in (0..L) \ S : m <= i
  BY <1>1, Least
<1>3. m \in 1..L /\ m - 1 \in 0..L /\ ~(m <= m - 1)
  BY <1>2
<1> QED
  BY <1>2, <1>3

\* f is given by its first value and the step from each value to the next, up to L.
Stepwise(L, base, step, f) == f[0] = base /\ \A n \in 1..L : f[n] = step[n][f[n - 1]]

\* There is such a function.
LEMMA StepByStep ==
  ASSUME NEW L \in Nat, NEW T, NEW base \in T, NEW step \in [1..L -> [T -> T]]
  PROVE  \E f \in [0..L -> T] : Stepwise(L, base, step, f)
<1> DEFINE Upto(m, f) == f[0] = base /\ \A n \in 1..m : f[n] = step[n][f[n - 1]]
           S == {m \in 0..L : \E f \in [0..m -> T] : Upto(m, f)}
<1>1. 0 \in S
  <2> DEFINE g == [n \in 0..0 |-> base]
  <2>1. g \in [0..0 -> T] /\ g[0] = base
    OBVIOUS
  <2>2. \A n \in 1..0 : g[n] = step[n][g[n - 1]]
    OBVIOUS
  <2> HIDE DEF g
  <2>3. 0 \in 0..L /\ \E f \in [0..0 -> T] : Upto(0, f)
    BY <2>1, <2>2
  <2> QED
    BY <2>3, Zenon
<1>2. ASSUME NEW m \in 1..L, m - 1 \in S PROVE m \in S
  <2>1. PICK f \in [0..(m - 1) -> T] : Upto(m - 1, f)
    BY <1>2
  <2> DEFINE g == [n \in 0..m |-> IF n = m THEN step[m][f[m - 1]] ELSE f[n]]
  <2>2. f[m - 1] \in T /\ step[m][f[m - 1]] \in T
    OBVIOUS
  <2>3. g \in [0..m -> T]
    BY <2>2
  <2>4. g[0] = base
    BY <2>1
  <2>5. ASSUME NEW n \in 1..m PROVE g[n] = step[n][g[n - 1]]
    <3>1. CASE n = m
      BY <3>1
    <3>2. CASE n # m
      <4>1. n \in 1..(m - 1) /\ n - 1 \in 0..m /\ n - 1 # m /\ n \in 0..m
        BY <3>2
      <4> QED
        BY <2>1, <3>2, <4>1
    <3> QED
      BY <3>1, <3>2
  <2> HIDE DEF g
  <2>6. m \in 0..L
    OBVIOUS
  <2> QED
    BY <2>3, <2>4, <2>5, <2>6
<1> HIDE DEF S
<1>3. 0..L \subseteq S
  BY <1>1, <1>2, Upwards
<1>4. L \in S
  BY <1>3
<1> QED
  BY <1>4 DEF S, Stepwise

-----------------------------------------------------------------------------
(* The inductive invariant.                                                *)

Statuses == {"none", "queued", "running", "waiting", "after"} \cup Ended

\* The types of the variables, and what never changes.
Types ==
  /\ executor \in Executors
  /\ fate \in [Handlers -> Fates]
  /\ waits \subseteq Events \cup Commands
  /\ Cardinality((waits \cap Events) \ {Main}) < Workers
  /\ running \in BOOLEAN
  /\ status \in [Callers -> Statuses]
  /\ tasks \in [Callers -> Seq(Handlers)]
  /\ queue \in Seq(Pooled)
  /\ answer \in [Callers -> Seq(Ended)]
  /\ faults \in 0..MaxFaults

\* What a caller did: only one that called has tasks, which are handlers of its message,
\* and one that waits wants to, or runs the handler of its command itself.
Called(c) ==
  /\ status[c] \in {"none", "queued", "running"} => tasks[c] = <<>>
  /\ Range(tasks[c]) \subseteq Range(HandlersOf[c])
  /\ status[c] = "waiting" => /\ c \in waits \/ (executor = "sync" /\ c \in Commands)
                              /\ c \in Commands => tasks[c] # <<>>
  /\ executor = "sync" /\ c \in Commands => \A h \in Range(tasks[c]) : status[h] # "queued"

\* What it was told: nothing before its handlers ended.
Told(c) ==
  answer[c] # <<>> =>
    /\ status[c] \in {"after"} \cup Ended
    /\ DOMAIN answer[c] = DOMAIN tasks[c]
    /\ \A i \in DOMAIN tasks[c] :
         status[tasks[c][i]] \in Ended /\ answer[c][i] = status[tasks[c][i]]

\* A handler is started by its caller, and the main program by nobody.
Begun ==
  /\ \A h \in Handlers : status[h] # "none" <=> \E c \in Callers : h \in Range(tasks[c])
  /\ status[Main] \notin {"none", "queued", "cancelled"}

\* The pool: those that wait for a thread are in its queue, once each, and there are as
\* many threads as there are.
Pool ==
  executor = "sync" =>
    /\ IsInjective(queue)
    /\ Range(queue) = {h \in Handlers : status[h] = "queued"}
    /\ Cardinality(Busy) <= Workers

IInv ==
  /\ Types
  /\ \A c \in Callers : Called(c) /\ Told(c)
  /\ Begun
  /\ Pool

-----------------------------------------------------------------------------
(* The handlers that are resolved.                                         *)

\* Up to a place, the handlers of c that fit, in their order.
Found(c, n, hs) ==
  /\ hs \in Seq(Handlers)
  /\ IsInjective(hs)
  /\ \A i \in DOMAIN hs : \E j \in 1..n : hs[i] = HandlersOf[c][j]

LEMMA OnHandlers ==
  ASSUME NEW c \in Callers
  PROVE  /\ HandlersOf[c] \in Seq(Handlers)
         /\ Len(HandlersOf[c]) \in Nat
         /\ DOMAIN HandlersOf[c] = 1..Len(HandlersOf[c])
         /\ \A i \in 1..Len(HandlersOf[c]) : HandlersOf[c][i] \in Handlers
         /\ \A i, j \in 1..Len(HandlersOf[c]) : HandlersOf[c][i] = HandlersOf[c][j] => i = j
<1>1. HandlersOf[c] \in Seq(Handlers)
  BY HandlersOfAssumption
<1>2. Len(HandlersOf[c]) \in Nat /\ DOMAIN HandlersOf[c] = 1..Len(HandlersOf[c])
  BY <1>1
<1>3. ASSUME NEW i \in 1..Len(HandlersOf[c]), NEW j \in 1..Len(HandlersOf[c]),
             HandlersOf[c][i] = HandlersOf[c][j]
      PROVE  i = j
  <2>1. <<c, i>> = <<c, j>>
    BY <1>2, <1>3, HandlersOfAssumption
  <2> QED
    BY <2>1
<1> QED
  BY <1>1, <1>2, <1>3

\* A handler is in the call of one caller only.
LEMMA OneCaller ==
  ASSUME NEW c \in Callers, NEW d \in Callers, NEW h,
         h \in Range(HandlersOf[c]), h \in Range(HandlersOf[d])
  PROVE  c = d
<1>1. PICK i \in DOMAIN HandlersOf[c], j \in DOMAIN HandlersOf[d] :
        HandlersOf[c][i] = HandlersOf[d][j]
  BY DEF Range
<1>2. <<c, i>> = <<d, j>>
  BY <1>1, HandlersOfAssumption
<1> QED
  BY <1>2

LEMMA FoundOneMore ==
  ASSUME NEW c \in Callers, NEW n \in 1..Len(HandlersOf[c]), NEW hs, Found(c, n - 1, hs)
  PROVE  Found(c, n, hs) /\ Found(c, n, Append(hs, HandlersOf[c][n]))
<1> DEFINE h == HandlersOf[c][n]
           more == Append(hs, h)
<1>1. h \in Handlers /\ hs \in Seq(Handlers) /\ Len(HandlersOf[c]) \in Nat
  BY OnHandlers DEF Found
<1>2. Found(c, n, hs)
  <2>1. 1..(n - 1) \subseteq 1..n
    BY <1>1
  <2> QED
    BY <2>1 DEF Found
<1>3. more \in Seq(Handlers) /\ DOMAIN more = 1..(Len(hs) + 1) /\ DOMAIN hs = 1..Len(hs)
      /\ more[Len(hs) + 1] = h /\ \A i \in 1..Len(hs) : more[i] = hs[i]
  BY <1>1
<1>4. \A i \in 1..Len(hs) : hs[i] # h
  <2> SUFFICES ASSUME NEW i \in 1..Len(hs), hs[i] = h PROVE FALSE
    OBVIOUS
  <2>1. PICK j \in 1..(n - 1) : hs[i] = HandlersOf[c][j]
    BY <1>3 DEF Found
  <2>2. j \in 1..Len(HandlersOf[c]) /\ j # n
    BY <1>1
  <2> QED
    BY <2>1, <2>2, OnHandlers
<1>5. IsInjective(more)
  <2> SUFFICES ASSUME NEW a \in 1..(Len(hs) + 1), NEW b \in 1..(Len(hs) + 1), more[a] = more[b]
               PROVE  a = b
    BY <1>3 DEF IsInjective
  <2>1. Len(hs) \in Nat
    BY <1>1
  <2>2. CASE a \in 1..Len(hs) /\ b \in 1..Len(hs)
    BY <1>3, <2>2 DEF Found, IsInjective
  <2>3. CASE a = Len(hs) + 1 /\ b = Len(hs) + 1
    BY <2>3
  <2>4. CASE a = Len(hs) + 1 /\ b \in 1..Len(hs)
    BY <1>3, <1>4, <2>4
  <2>5. CASE b = Len(hs) + 1 /\ a \in 1..Len(hs)
    BY <1>3, <1>4, <2>5
  <2> QED
    BY <2>1, <2>2, <2>3, <2>4, <2>5
<1>6. ASSUME NEW i \in DOMAIN more PROVE \E j \in 1..n : more[i] = HandlersOf[c][j]
  <2>1. CASE i \in 1..Len(hs)
    <3>1. PICK j \in 1..(n - 1) : hs[i] = HandlersOf[c][j]
      BY <1>3, <2>1 DEF Found
    <3>2. j \in 1..n
      BY <1>1
    <3> QED
      BY <1>3, <2>1, <3>1, <3>2
  <2>2. CASE i = Len(hs) + 1
    <3>1. n \in 1..n
      BY <1>1
    <3> QED
      BY <1>3, <2>2, <3>1
  <2>3. Len(hs) \in Nat
    BY <1>1
  <2> QED
    BY <1>3, <2>1, <2>2, <2>3
<1> HIDE DEF more
<1>7. Found(c, n, more)
  BY <1>3, <1>5, <1>6 DEF Found
<1> QED
  BY <1>2, <1>7 DEF more

\* Those that are resolved are handlers of the message, each once.
LEMMA ResolvedFound ==
  ASSUME NEW c \in Callers
  PROVE  Found(c, Len(HandlersOf[c]), Resolved(c))
<1> DEFINE L == Len(HandlersOf[c])
           fits(h) == (c \in Commands \/ Passes(h)) /\ Loads(h)
           next(n, hs) == IF fits(HandlersOf[c][n]) THEN Append(hs, HandlersOf[c][n]) ELSE hs
           step == [n \in 1..L |-> [hs \in Seq(Handlers) |-> next(n, hs)]]
           def(f) == [n \in 0..L |->
                        IF n = 0 THEN <<>>
                        ELSE LET h == HandlersOf[c][n]
                             IN  IF (c \in Commands \/ Passes(h)) /\ Loads(h)
                                 THEN Append(f[n - 1], h)
                                 ELSE f[n - 1]]
           F == CHOOSE f : f = def(f)
<1>1. L \in Nat /\ \A n \in 1..L : HandlersOf[c][n] \in Handlers
  BY OnHandlers
<1>2. step \in [1..L -> [Seq(Handlers) -> Seq(Handlers)]]
  <2>1. \A n \in 1..L, hs \in Seq(Handlers) : next(n, hs) \in Seq(Handlers)
    <3> SUFFICES ASSUME NEW n \in 1..L, NEW hs \in Seq(Handlers)
                 PROVE  next(n, hs) \in Seq(Handlers)
      OBVIOUS
    <3>1. Append(hs, HandlersOf[c][n]) \in Seq(Handlers)
      BY <1>1
    <3> QED
      BY <3>1
  <2> HIDE DEF next
  <2> QED
    BY <2>1
<1>3. PICK f \in [0..L -> Seq(Handlers)] :
        f[0] = <<>> /\ \A n \in 1..L : f[n] = step[n][f[n - 1]]
  <2> DEFINE T == Seq(Handlers)
             base == <<>>
  <2>1. L \in Nat /\ base \in T /\ step \in [1..L -> [T -> T]]
    BY <1>1, <1>2
  <2> HIDE DEF step, L, T, base
  <2>2. \E f \in [0..L -> T] : Stepwise(L, base, step, f)
    BY <2>1, StepByStep
  <2> QED
    BY <2>2 DEF T, base, Stepwise
<1>4. f = def(f)
  <2>1. ASSUME NEW n \in 1..L PROVE f[n] = next(n, f[n - 1])
    <3>1. n - 1 \in 0..L
      BY <1>1
    <3>2. f[n - 1] \in Seq(Handlers)
      BY <3>1
    <3> HIDE DEF next
    <3> QED
      BY <1>3, <3>2
  <2>2. ASSUME NEW n \in 0..L PROVE f[n] = def(f)[n]
    BY <1>1, <1>3, <2>1
  <2>3. DOMAIN def(f) = 0..L /\ DOMAIN f = 0..L
    OBVIOUS
  <2> HIDE DEF def
  <2>4. f = [n \in 0..L |-> f[n]]
    OBVIOUS
  <2>5. def(f) = [n \in 0..L |-> def(f)[n]]
    BY DEF def
  <2> QED
    BY <2>2, <2>4, <2>5
<1>5. F = def(F)
  <2> HIDE DEF def
  <2> QED
    BY <1>4
<1>6. Resolved(c) = F[L]
  BY DEF Resolved
<1> DEFINE S == {n \in 0..L : Found(c, n, F[n])}
<1>7. 0 \in S
  <2>1. F[0] = <<>>
    <3>1. 0 \in 0..L
      BY <1>1
    <3>2. def(F)[0] = <<>>
      BY <3>1
    <3> QED
      BY <1>5, <3>2
  <2>2. Found(c, 0, <<>>)
    BY DEF Found, IsInjective
  <2> QED
    BY <1>1, <2>1, <2>2
<1>8. ASSUME NEW n \in 1..L, n - 1 \in S PROVE n \in S
  <2>1. F[n] = next(n, F[n - 1])
    <3>1. n \in 0..L /\ n # 0
      BY <1>1
    <3>2. def(F)[n] = next(n, F[n - 1])
      BY <3>1
    <3> HIDE DEF def, next
    <3> QED
      BY <1>5, <3>2
  <2>2. Found(c, n - 1, F[n - 1])
    BY <1>8
  <2> HIDE DEF F
  <2>3. Found(c, n, F[n - 1]) /\ Found(c, n, Append(F[n - 1], HandlersOf[c][n]))
    BY <2>2, FoundOneMore
  <2>4. Found(c, n, F[n])
    BY <2>1, <2>3
  <2>5. n \in 0..L
    BY <1>1
  <2> QED
    BY <2>4, <2>5
<1> HIDE DEF S
<1>9. 0..L \subseteq S
  BY <1>1, <1>7, <1>8, Upwards
<1>10. L \in S
  BY <1>1, <1>9
<1> QED
  BY <1>6, <1>10 DEF S

\* What a message of c may start.
Runs(c, hs) == hs \in Seq(Handlers) /\ IsInjective(hs) /\ Range(hs) \subseteq Range(HandlersOf[c])

LEMMA ResolvedRuns ==
  ASSUME NEW c \in Callers
  PROVE  Runs(c, Resolved(c))
<1> DEFINE hs == Resolved(c)
<1>1. Found(c, Len(HandlersOf[c]), hs)
  BY ResolvedFound
<1>2. DOMAIN HandlersOf[c] = 1..Len(HandlersOf[c])
  BY OnHandlers
<1> HIDE DEF hs
<1>3. Range(hs) \subseteq Range(HandlersOf[c])
  BY <1>1, <1>2 DEF Found, Range
<1> QED
  BY <1>1, <1>3 DEF Found, Runs, hs

\* Those before the one that cannot be called are some of them.
LEMMA CallableRuns ==
  ASSUME NEW c \in Callers, NEW hs, Runs(c, hs)
  PROVE  Runs(c, Callable(hs))
<1> DEFINE bound == {n \in 0..Len(hs) : \A i \in 1..n : fate[hs[i]] # "unbound"}
           k == Cardinality(bound) - 1
<1>1. hs \in Seq(Handlers) /\ Len(hs) \in Nat /\ DOMAIN hs = 1..Len(hs)
  BY DEF Runs
<1>2. k \in 0..Len(hs)
  <2>1. IsFiniteSet(0..Len(hs)) /\ Cardinality(0..Len(hs)) = Len(hs) + 1
    BY <1>1, FS_Interval
  <2>2. IsFiniteSet(bound) /\ Cardinality(bound) <= Len(hs) + 1
    BY <2>1, FS_Subset
  <2>3. bound # {}
    <3>1. 0 \in bound
      BY <1>1
    <3> QED
      BY <3>1
  <2>4. Cardinality(bound) \in Nat /\ Cardinality(bound) # 0
    BY <2>2, <2>3, FS_CardinalityType, FS_EmptySet
  <2> HIDE DEF bound
  <2> QED
    BY <1>1, <2>2, <2>4
<1>3. Callable(hs) = SubSeq(hs, 1, k)
  BY DEF Callable
<1> HIDE DEF k
<1> DEFINE some == SubSeq(hs, 1, k)
<1>4. /\ some \in Seq(Handlers) /\ DOMAIN some = 1..k
      /\ \A i \in 1..k : i \in DOMAIN hs /\ some[i] = hs[i]
  BY <1>1, <1>2
<1> HIDE DEF some
<1>5. IsInjective(some) /\ Range(some) \subseteq Range(hs)
  BY <1>4 DEF Runs, IsInjective, Range
<1> QED
  BY <1>3, <1>4, <1>5 DEF Runs, some

-----------------------------------------------------------------------------
(* Calls, and the steps of one handler.                                    *)

\* The handlers that c can start were not started before.
LEMMA NotBegun ==
  ASSUME IInv, NEW c \in Callers, status[c] = "running"
  PROVE  /\ tasks[c] = <<>>
         /\ \A h \in Range(HandlersOf[c]) : h \in Handlers /\ status[h] = "none" /\ h # c
<1>1. tasks[c] = <<>>
  BY DEF IInv, Called
<1>2. ASSUME NEW h \in Range(HandlersOf[c])
      PROVE  h \in Handlers /\ status[h] = "none" /\ h # c
  <2>1. h \in Handlers
    BY OnHandlers DEF Range
  <2>2. ASSUME NEW d \in Callers, h \in Range(tasks[d]) PROVE FALSE
    <3>1. h \in Range(HandlersOf[d])
      BY <2>2 DEF IInv, Called
    <3>2. d = c
      BY <3>1, OneCaller
    <3>3. Range(<<>>) = {}
      BY DEF Range
    <3> QED
      BY <1>1, <2>2, <3>2, <3>3
  <2>3. status[h] = "none"
    BY <2>1, <2>2 DEF IInv, Begun
  <2> QED
    BY <2>1, <2>3
<1> QED
  BY <1>1, <1>2

\* c starts hs and goes on as then says.
LEMMA CallKept ==
  ASSUME IInv, NEW c \in Callers, status[c] = "running",
         NEW hs, Runs(c, hs),
         NEW first \in {"queued", "running"}, NEW then \in {"waiting", "after"},
         executor = "sync" /\ c \in Commands => first = "running",
         then = "waiting" => /\ c \in waits \/ (executor = "sync" /\ c \in Commands)
                             /\ c \in Commands => hs # <<>>,
         tasks' = [tasks EXCEPT ![c] = hs],
         status' = [x \in Callers |-> IF x \in Range(hs) THEN first
                                      ELSE IF x = c THEN then ELSE status[x]],
         UNCHANGED <<executor, fate, waits, running, answer, faults>>
  PROVE  /\ status' \in [Callers -> Statuses] /\ tasks' \in [Callers -> Seq(Handlers)]
         /\ \A d \in Callers : Called(d)' /\ Told(d)'
         /\ Begun'
<1>1. /\ status \in [Callers -> Statuses] /\ tasks \in [Callers -> Seq(Handlers)]
      /\ answer \in [Callers -> Seq(Ended)]
  BY DEF IInv, Types
<1>2. /\ tasks[c] = <<>>
      /\ \A h \in Range(hs) : h \in Handlers /\ status[h] = "none" /\ h # c
  BY NotBegun DEF Runs
<1>3. status' \in [Callers -> Statuses] /\ tasks' \in [Callers -> Seq(Handlers)]
  BY <1>1 DEF Statuses, Runs
<1>4. /\ status'[c] = then /\ tasks'[c] = hs
      /\ \A d \in Callers \ {c} : tasks'[d] = tasks[d]
      /\ \A h \in Range(hs) : h \in Callers /\ status'[h] = first
      /\ \A x \in Callers : x # c /\ x \notin Range(hs) => status'[x] = status[x]
  BY <1>1, <1>2 DEF Callers
<1>5. Range(<<>>) = {}
  BY DEF Range
<1>6. ASSUME NEW d \in Callers PROVE Called(d)'
  <2>1. Called(d)
    BY DEF IInv
  <2>2. CASE d = c
    <3>1. \A h \in Range(hs) : status'[h] = first
      BY <1>4
    <3> QED
      BY <1>4, <2>2, <3>1 DEF Called, Runs
  <2>3. CASE d # c /\ d \in Range(hs)
    <3>1. tasks'[d] = <<>> /\ status'[d] = first
      BY <1>2, <1>4, <2>1, <2>3 DEF Called
    <3> QED
      BY <1>5, <3>1 DEF Called
  <2>4. CASE d # c /\ d \notin Range(hs)
    <3>1. tasks'[d] = tasks[d] /\ status'[d] = status[d]
      BY <1>4, <2>4
    <3>2. ASSUME executor = "sync", d \in Commands, NEW h \in Range(tasks[d])
          PROVE  status'[h] # "queued"
      <4>1. h \in Callers
        <5>1. h \in Range(HandlersOf[d])
          BY <2>1 DEF Called
        <5> QED
          BY <5>1, OnHandlers DEF Range, Callers
      <4>2. status[h] # "queued" /\ status[h] # "none"
        <5>1. h \in Handlers
          BY <1>1 DEF Range
        <5> QED
          BY <2>1, <3>2, <5>1 DEF Called, IInv, Begun
      <4>3. h \notin Range(hs)
        BY <1>2, <4>2
      <4> QED
        BY <1>4, <4>1, <4>2, <4>3
    <3> QED
      BY <2>1, <3>1, <3>2 DEF Called
  <2> QED
    BY <2>2, <2>3, <2>4
<1>7. ASSUME NEW d \in Callers PROVE Told(d)'
  <2>1. Told(d) /\ answer'[d] = answer[d]
    BY DEF IInv
  <2>2. CASE answer[d] = <<>>
    BY <2>1, <2>2 DEF Told
  <2>3. CASE answer[d] # <<>>
    <3>1. status[d] \in {"after"} \cup Ended
      BY <2>1, <2>3 DEF Told
    <3>2. d # c /\ d \notin Range(hs)
      BY <1>2, <3>1 DEF Ended
    <3>3. tasks'[d] = tasks[d] /\ status'[d] = status[d]
      BY <1>4, <3>2
    <3>4. ASSUME NEW i \in DOMAIN tasks[d] PROVE status'[tasks[d][i]] = status[tasks[d][i]]
      <4>1. status[tasks[d][i]] \in Ended
        BY <2>1, <2>3 DEF Told
      <4>2. tasks[d][i] \in Callers
        BY <1>1 DEF Callers
      <4>3. tasks[d][i] # c /\ tasks[d][i] \notin Range(hs)
        BY <1>2, <4>1 DEF Ended
      <4> QED
        BY <1>4, <4>2, <4>3
    <3> QED
      BY <2>1, <2>3, <3>1, <3>3, <3>4 DEF Told
  <2> QED
    BY <2>2, <2>3
<1>8. Begun'
  <2>1. ASSUME NEW h \in Handlers
        PROVE  status'[h] # "none" <=> \E d \in Callers : h \in Range(tasks'[d])
    <3>1. status[h] # "none" <=> \E d \in Callers : h \in Range(tasks[d])
      BY DEF IInv, Begun
    <3>2. h \in Callers
      BY DEF Callers
    <3>3. CASE h \in Range(hs)
      BY <1>4, <3>3
    <3>4. CASE h = c
      <4>1. status'[h] # "none" /\ status[h] # "none"
        BY <1>4, <3>4
      <4>2. PICK d \in Callers : h \in Range(tasks[d])
        BY <3>1, <4>1
      <4>3. d # c
        BY <1>2, <1>5, <4>2
      <4> QED
        BY <1>4, <4>1, <4>2, <4>3
    <3>5. CASE h \notin Range(hs) /\ h # c
      <4>1. status'[h] = status[h]
        BY <1>4, <3>2, <3>5
      <4>2. ASSUME NEW d \in Callers PROVE h \in Range(tasks'[d]) <=> h \in Range(tasks[d])
        BY <1>2, <1>4, <1>5, <3>5
      <4> QED
        BY <3>1, <4>1, <4>2
    <3> QED
      BY <3>3, <3>4, <3>5
  <2>2. status'[Main] \notin {"none", "queued", "cancelled"}
    <3>1. Main \in Callers /\ Main \notin Range(hs)
      BY <1>2, MainAssumption DEF Callers
    <3> QED
      BY <1>4, <3>1 DEF IInv, Begun
  <2> QED
    BY <2>1, <2>2 DEF Begun
<1> QED
  BY <1>3, <1>6, <1>7, <1>8

\* c, which is at work, becomes something else; not how its handlers are.
LEMMA MoveKept ==
  ASSUME IInv, NEW c \in Callers, status[c] \notin Ended \cup {"none"},
         NEW s \in {"running", "after"} \cup Ended,
         s = "running" => status[c] = "queued",
         s = "cancelled" => c # Main,
         status' = [status EXCEPT ![c] = s],
         UNCHANGED <<executor, waits, tasks>>
  PROVE  /\ status' \in [Callers -> Statuses]
         /\ \A d \in Callers : Called(d)' /\ (answer'[d] = answer[d] => Told(d)')
         /\ Begun'
<1>1. status \in [Callers -> Statuses] /\ tasks \in [Callers -> Seq(Handlers)]
  BY DEF IInv, Types
<1>2. /\ status' \in [Callers -> Statuses]
      /\ status'[c] = s
      /\ \A x \in Callers : x # c => status'[x] = status[x]
  BY <1>1 DEF Statuses, Ended
<1>3. ASSUME NEW d \in Callers, NEW i \in DOMAIN tasks[d]
      PROVE  tasks[d][i] \in Callers /\ tasks[d][i] \in Handlers /\ tasks[d][i] \in Range(tasks[d])
  BY <1>1 DEF Callers, Range
<1>4. ASSUME NEW d \in Callers PROVE Called(d)'
  <2>1. Called(d)
    BY DEF IInv
  <2>2. status'[d] \in {"none", "queued", "running"} => status[d] \in {"none", "queued", "running"}
    BY <1>2 DEF Ended
  <2>3. status'[d] = "waiting" => status[d] = "waiting"
    BY <1>2 DEF Ended
  <2>4. ASSUME NEW h \in Range(tasks[d]), status[h] # "queued" PROVE status'[h] # "queued"
    BY <1>2, <1>3, <2>4 DEF Range, Ended
  <2> QED
    BY <2>1, <2>2, <2>3, <2>4 DEF Called
<1>5. ASSUME NEW d \in Callers, answer'[d] = answer[d] PROVE Told(d)'
  <2>1. Told(d)
    BY DEF IInv
  <2>2. ASSUME answer[d] # <<>>
        PROVE  /\ status'[d] \in {"after"} \cup Ended
               /\ \A i \in DOMAIN tasks[d] : status'[tasks[d][i]] = status[tasks[d][i]]
    <3>1. status[d] \in {"after"} \cup Ended
      BY <2>1, <2>2 DEF Told
    <3>2. status'[d] \in {"after"} \cup Ended
      BY <1>2, <3>1 DEF Ended
    <3>3. ASSUME NEW i \in DOMAIN tasks[d] PROVE status'[tasks[d][i]] = status[tasks[d][i]]
      <4>1. status[tasks[d][i]] \in Ended
        BY <2>1, <2>2 DEF Told
      <4>2. tasks[d][i] # c
        BY <4>1
      <4> QED
        BY <1>2, <1>3, <4>2
    <3> QED
      BY <3>2, <3>3
  <2> QED
    BY <1>5, <2>1, <2>2 DEF Told
<1>6. Begun'
  <2>1. \A h \in Handlers : status'[h] # "none" <=> status[h] # "none"
    BY <1>2 DEF Callers, Ended
  <2>2. status'[Main] \notin {"none", "queued", "cancelled"}
    <3>1. Main \in Callers
      BY DEF Callers
    <3>2. CASE Main = c
      <4>1. s # "running"
        BY <3>2 DEF IInv, Begun
      <4> QED
        BY <1>2, <3>2, <4>1 DEF Ended
    <3>3. CASE Main # c
      BY <1>2, <3>1, <3>3 DEF IInv, Begun
    <3> QED
      BY <3>2, <3>3
  <2> QED
    BY <2>1, <2>2 DEF IInv, Begun
<1> QED
  BY <1>2, <1>4, <1>5, <1>6

-----------------------------------------------------------------------------
(* The pool.                                                               *)

BusyStatuses == {"running", "waiting", "after"}

LEMMA BusyFinite ==
  /\ IsFiniteSet(Callers) /\ IsFiniteSet(Pooled)
  /\ \A S \in SUBSET Pooled : IsFiniteSet(S) /\ Cardinality(S) \in Nat
  /\ Busy \in SUBSET Pooled /\ Pooled \in SUBSET Handlers
<1>1. IsFiniteSet(Handlers) /\ Pooled \in SUBSET Handlers /\ Busy \in SUBSET Pooled
  BY HandlersAssumption DEF Pooled, Busy
<1>2. IsFiniteSet(Callers)
  BY <1>1, FS_AddElement DEF Callers
<1>3. IsFiniteSet(Pooled)
  BY <1>1, FS_Subset
<1>4. \A S \in SUBSET Pooled : IsFiniteSet(S) /\ Cardinality(S) \in Nat
  BY <1>3, FS_Subset, FS_CardinalityType
<1> QED
  BY <1>1, <1>2, <1>3, <1>4

\* The handlers of a command never get into the pool.
LEMMA CommandsNotPooled ==
  ASSUME NEW c \in Commands, NEW h \in Range(HandlersOf[c])
  PROVE  h \notin Pooled
<1> SUFFICES ASSUME h \in Pooled PROVE FALSE
  OBVIOUS
<1>1. PICK d \in Events : h \in Range(HandlersOf[d])
  BY DEF Pooled
<1>2. d \in Callers \ Commands /\ c \in Callers
  BY MainAssumption DEF Events
<1> QED
  BY <1>1, <1>2, OneCaller

\* Who gets no thread and gives none back leaves the pool as it is.
LEMMA PoolQuiet ==
  ASSUME Pool, UNCHANGED <<executor, queue>>,
         \A h \in Handlers : status'[h] = "queued" <=> status[h] = "queued",
         \A h \in Pooled : status'[h] \in BusyStatuses => status[h] \in BusyStatuses
  PROVE  Pool'
<1>1. Busy' \in SUBSET Busy /\ IsFiniteSet(Busy)
  BY BusyFinite DEF Busy, BusyStatuses, Pooled
<1>2. Cardinality(Busy') <= Cardinality(Busy)
  BY <1>1, FS_Subset
<1>3. Cardinality(Busy') \in Nat /\ Cardinality(Busy) \in Nat /\ Workers \in Nat
  BY <1>1, FS_Subset, FS_CardinalityType, BoundsAssumption
<1>4. {h \in Handlers : status'[h] = "queued"} = {h \in Handlers : status[h] = "queued"}
  OBVIOUS
<1> QED
  BY <1>2, <1>3, <1>4 DEF Pool

-----------------------------------------------------------------------------
(* The actions.                                                            *)

\* A caller that calls waits only for what it started.
LEMMA HandleRaisesKept ==
  ASSUME IInv, NEW c \in Callers, HandleRaises(c)
  PROVE  IInv'
<1>1. /\ status[c] = "running"
      /\ status' = [status EXCEPT ![c] = "after"]
      /\ UNCHANGED <<executor, fate, waits, running, tasks, queue, answer, faults>>
  BY DEF HandleRaises
<1>2. /\ status' \in [Callers -> Statuses]
      /\ \A d \in Callers : Called(d)' /\ Told(d)'
      /\ Begun'
  BY <1>1, MoveKept DEF Ended
<1>3. Pool'
  <2>1. status \in [Callers -> Statuses] /\ Pool
    BY DEF IInv, Types
  <2>2. Handlers \subseteq Callers /\ Pooled \subseteq Callers
    BY DEF Callers, Pooled
  <2> QED
    BY <1>1, <2>1, <2>2, PoolQuiet DEF BusyStatuses
<1>4. Types'
  BY <1>1, <1>2 DEF IInv, Types
<1> QED
  BY <1>2, <1>3, <1>4 DEF IInv

LEMMA HandleInlineKept ==
  ASSUME IInv, NEW c \in Callers, HandleInline(c)
  PROVE  IInv'
<1> DEFINE hs == Resolved(c)
           h1 == HandlersOf[c][1]
<1>1. /\ status[c] = "running" /\ executor = "sync" /\ c \in Commands /\ hs # <<>>
      /\ tasks' = [tasks EXCEPT ![c] = hs]
      /\ status' = [status EXCEPT ![c] = "waiting", ![h1] = "running"]
      /\ UNCHANGED <<executor, fate, waits, running, queue, answer, faults>>
  BY DEF HandleInline
<1>2. Runs(c, hs)
  BY ResolvedRuns
<1>3. status \in [Callers -> Statuses]
  BY DEF IInv, Types
<1>4. Range(HandlersOf[c]) = {h1}
  <2>1. Len(HandlersOf[c]) = 1 /\ DOMAIN HandlersOf[c] = 1..1
    BY <1>1, OnHandlers, HandlersOfAssumption
  <2> QED
    BY <2>1 DEF Range
<1> HIDE DEF hs, h1
<1>5. Range(hs) = {h1}
  <2>1. hs[1] \in Range(hs)
    BY <1>1, <1>2 DEF Runs, Range
  <2> QED
    BY <1>2, <1>4, <2>1 DEF Runs
<1>6. h1 \in Handlers /\ status[h1] = "none" /\ h1 # c /\ h1 \in Callers
  BY <1>1, <1>4, NotBegun DEF Callers
<1>7. status' = [x \in Callers |-> IF x \in Range(hs) THEN "running"
                                  ELSE IF x = c THEN "waiting" ELSE status[x]]
  BY <1>1, <1>3, <1>5, <1>6
<1>8. /\ status' \in [Callers -> Statuses] /\ tasks' \in [Callers -> Seq(Handlers)]
      /\ \A d \in Callers : Called(d)' /\ Told(d)'
      /\ Begun'
  BY <1>1, <1>2, <1>7, CallKept
<1>9. Pool'
  <2>1. h1 \notin Pooled
    BY <1>1, <1>4, CommandsNotPooled
  <2>2. \A h \in Handlers : status'[h] = "queued" <=> status[h] = "queued"
    BY <1>1, <1>3, <1>6 DEF Callers
  <2>3. \A h \in Pooled : status'[h] \in BusyStatuses => status[h] \in BusyStatuses
    <3>1. Pooled \subseteq Callers
      BY DEF Callers, Pooled
    <3> QED
      BY <1>1, <1>3, <1>6, <2>1, <3>1 DEF BusyStatuses
  <2> QED
    BY <1>1, <2>2, <2>3, PoolQuiet DEF IInv
<1>10. Types'
  BY <1>1, <1>8 DEF IInv, Types
<1> QED
  BY <1>8, <1>9, <1>10 DEF IInv

\* Of the handlers of an event, all get into the queue.
LEMMA Queued ==
  ASSUME IInv, executor = "sync", NEW c \in Events, NEW hs, Runs(c, hs),
         \A h \in Range(hs) : status[h] = "none",
         queue' = queue \o hs
  PROVE  /\ queue' \in Seq(Pooled)
         /\ IsInjective(queue')
         /\ Range(queue') = Range(queue) \cup Range(hs)
<1>1. Range(HandlersOf[c]) \subseteq Pooled
  <2>1. c \in Callers
    BY DEF Events
  <2>2. Range(HandlersOf[c]) \subseteq Handlers
    BY <2>1, OnHandlers DEF Range
  <2> QED
    BY <2>2 DEF Pooled
<1>2. queue \in Seq(Pooled) /\ hs \in Seq(Pooled)
  <2>1. hs \in Seq(Handlers) /\ \A i \in DOMAIN hs : hs[i] \in Pooled
    BY <1>1 DEF Runs, Range
  <2>2. hs \in Seq(Pooled)
    BY <2>1
  <2> QED
    BY <2>2 DEF IInv, Types
<1>3. /\ queue' \in Seq(Pooled)
      /\ DOMAIN queue = 1..Len(queue) /\ DOMAIN hs = 1..Len(hs)
      /\ DOMAIN queue' = 1..(Len(queue) + Len(hs))
      /\ Len(queue) \in Nat /\ Len(hs) \in Nat
      /\ \A i \in 1..Len(queue) : queue'[i] = queue[i]
      /\ \A i \in (Len(queue) + 1)..(Len(queue) + Len(hs)) : queue'[i] = hs[i - Len(queue)]
  BY <1>2
<1>4. Range(queue') = Range(queue) \cup Range(hs)
  <2>1. \A x \in Range(queue') : x \in Range(queue) \cup Range(hs)
    <3> SUFFICES ASSUME NEW i \in DOMAIN queue' PROVE queue'[i] \in Range(queue) \cup Range(hs)
      BY DEF Range
    <3>1. CASE i \in 1..Len(queue)
      BY <1>3, <3>1 DEF Range
    <3>2. CASE i \in (Len(queue) + 1)..(Len(queue) + Len(hs))
      <4>1. i - Len(queue) \in DOMAIN hs
        BY <1>3, <3>2
      <4> QED
        BY <1>3, <3>2, <4>1 DEF Range
    <3> QED
      BY <1>3, <3>1, <3>2
  <2>2. \A i \in DOMAIN queue : queue[i] \in Range(queue')
    <3> SUFFICES ASSUME NEW i \in DOMAIN queue PROVE queue[i] \in Range(queue')
      OBVIOUS
    <3>1. i \in DOMAIN queue' /\ queue'[i] = queue[i]
      BY <1>3
    <3> QED
      BY <3>1 DEF Range
  <2>3. \A i \in DOMAIN hs : hs[i] \in Range(queue')
    <3> SUFFICES ASSUME NEW i \in DOMAIN hs PROVE hs[i] \in Range(queue')
      OBVIOUS
    <3>1. Len(queue) + i \in DOMAIN queue' /\ queue'[Len(queue) + i] = hs[i]
      BY <1>3
    <3> QED
      BY <3>1 DEF Range
  <2> QED
    BY <2>1, <2>2, <2>3 DEF Range
<1>5. IsInjective(queue')
  <2> SUFFICES ASSUME NEW a \in DOMAIN queue', NEW b \in DOMAIN queue', queue'[a] = queue'[b]
               PROVE  a = b
    BY DEF IsInjective
  <2>1. IsInjective(queue) /\ IsInjective(hs)
    BY DEF IInv, Pool, Runs
  <2>2. Range(queue) \cap Range(hs) = {}
    BY DEF IInv, Pool
  <2>3. CASE a \in 1..Len(queue) /\ b \in 1..Len(queue)
    BY <1>3, <2>1, <2>3 DEF IsInjective
  <2>4. CASE a \notin 1..Len(queue) /\ b \notin 1..Len(queue)
    <3>1. a - Len(queue) \in DOMAIN hs /\ b - Len(queue) \in DOMAIN hs
      BY <1>3, <2>4
    <3>2. hs[a - Len(queue)] = hs[b - Len(queue)]
      BY <1>3, <2>4
    <3>3. a - Len(queue) = b - Len(queue)
      BY <2>1, <3>1, <3>2 DEF IsInjective
    <3> QED
      BY <1>3, <3>3
  <2>5. ASSUME NEW i \in 1..Len(queue), NEW j \in DOMAIN queue', j \notin 1..Len(queue)
        PROVE  queue'[i] # queue'[j]
    <3>1. j - Len(queue) \in DOMAIN hs /\ queue'[j] = hs[j - Len(queue)]
      BY <1>3, <2>5
    <3>2. queue'[i] \in Range(queue) /\ queue'[j] \in Range(hs)
      BY <1>3, <3>1 DEF Range
    <3> QED
      BY <2>2, <3>2
  <2> QED
    BY <2>3, <2>4, <2>5
<1> QED
  BY <1>3, <1>4, <1>5

LEMMA HandlePooledKept ==
  ASSUME IInv, NEW c \in Callers, HandlePooled(c)
  PROVE  IInv'
<1> DEFINE hs == Resolved(c)
           then == IF c \in waits THEN "waiting" ELSE "after"
<1>1. /\ status[c] = "running" /\ executor = "sync" /\ c \in Events
      /\ tasks' = [tasks EXCEPT ![c] = hs]
      /\ status' = [x \in Callers |-> IF x \in Range(hs) THEN "queued"
                                      ELSE IF x = c THEN then ELSE status[x]]
      /\ queue' = queue \o hs
      /\ UNCHANGED <<executor, fate, waits, running, answer, faults>>
  BY DEF HandlePooled, Started
<1>2. Runs(c, hs)
  BY ResolvedRuns
<1>3. c \notin Commands
  BY <1>1 DEF Events
<1>4. then \in {"waiting", "after"} /\ (then = "waiting" => c \in waits)
  OBVIOUS
<1> HIDE DEF hs, then
<1>5. /\ status' \in [Callers -> Statuses] /\ tasks' \in [Callers -> Seq(Handlers)]
      /\ \A d \in Callers : Called(d)' /\ Told(d)'
      /\ Begun'
  BY <1>1, <1>2, <1>3, <1>4, CallKept
<1>6. \A h \in Range(hs) : h \in Handlers /\ status[h] = "none" /\ h # c
  BY <1>1, <1>2, NotBegun DEF Runs
<1>7. /\ queue' \in Seq(Pooled)
      /\ IsInjective(queue')
      /\ Range(queue') = Range(queue) \cup Range(hs)
  BY <1>1, <1>2, <1>6, Queued
<1>8. Pool'
  <2>1. Range(queue) = {h \in Handlers : status[h] = "queued"}
    BY <1>1 DEF IInv, Pool
  <2>2. \A h \in Handlers : status'[h] = IF h \in Range(hs) THEN "queued"
                                         ELSE IF h = c THEN then ELSE status[h]
    BY <1>1 DEF Callers
  <2>3. Range(queue') = {h \in Handlers : status'[h] = "queued"}
    BY <1>1, <1>4, <1>6, <1>7, <2>1, <2>2
  <2>4. Busy' \in SUBSET Busy
    BY <1>1, <1>4, <2>2 DEF Busy, Pooled
  <2>5. IsFiniteSet(Busy) /\ Cardinality(Busy) <= Workers
    BY <1>1, BusyFinite DEF IInv, Pool
  <2>6. Cardinality(Busy') <= Cardinality(Busy)
    BY <2>4, <2>5, FS_Subset
  <2>7. Cardinality(Busy') \in Nat /\ Cardinality(Busy) \in Nat /\ Workers \in Nat
    BY <2>4, <2>5, FS_Subset, FS_CardinalityType, BoundsAssumption
  <2> QED
    BY <1>7, <2>3, <2>5, <2>6, <2>7 DEF Pool
<1>9. Types'
  BY <1>1, <1>5, <1>7 DEF IInv, Types
<1> QED
  BY <1>5, <1>8, <1>9 DEF IInv

\* With tasks there is no pool.
LEMMA TasksKept ==
  ASSUME IInv, NEW c \in Callers, HandleTasks(c) \/ HandleTasksRaises(c)
  PROVE  IInv'
<1>1. /\ status[c] = "running" /\ executor = "async"
      /\ UNCHANGED <<executor, fate, waits, running, queue, answer, faults>>
  BY DEF HandleTasks, HandleTasksRaises
<1>2. /\ status' \in [Callers -> Statuses] /\ tasks' \in [Callers -> Seq(Handlers)]
      /\ \A d \in Callers : Called(d)' /\ Told(d)'
      /\ Begun'
  <2>1. CASE HandleTasks(c)
    <3> DEFINE hs == Resolved(c)
               then == IF c \in waits THEN "waiting" ELSE "after"
    <3>1. /\ tasks' = [tasks EXCEPT ![c] = hs]
          /\ status' = [x \in Callers |-> IF x \in Range(hs) THEN "queued"
                                          ELSE IF x = c THEN then ELSE status[x]]
      BY <2>1 DEF HandleTasks, Started
    <3>2. c \in Commands => hs # <<>>
      BY <2>1 DEF HandleTasks, Events
    <3>3. Runs(c, hs)
      BY ResolvedRuns
    <3>4. then \in {"waiting", "after"} /\ (then = "waiting" => c \in waits)
      OBVIOUS
    <3> HIDE DEF hs, then
    <3> QED
      BY <1>1, <3>1, <3>2, <3>3, <3>4, CallKept
  <2>2. CASE HandleTasksRaises(c)
    <3> DEFINE hs == Callable(Resolved(c))
    <3>1. /\ tasks' = [tasks EXCEPT ![c] = hs]
          /\ status' = [x \in Callers |-> IF x \in Range(hs) THEN "queued"
                                          ELSE IF x = c THEN "after" ELSE status[x]]
      BY <2>2 DEF HandleTasksRaises
    <3>2. Runs(c, hs)
      BY ResolvedRuns, CallableRuns
    <3> HIDE DEF hs
    <3> QED
      BY <1>1, <3>1, <3>2, CallKept
  <2> QED
    BY <2>1, <2>2
<1>3. Types' /\ Pool'
  BY <1>1, <1>2 DEF IInv, Types, Pool
<1> QED
  BY <1>2, <1>3 DEF IInv

LEMMA StartKept ==
  ASSUME IInv, NEW h \in Handlers, Start(h)
  PROVE  IInv'
<1>1. /\ status[h] = "queued"
      /\ status' = [status EXCEPT ![h] = "running"]
      /\ UNCHANGED <<executor, fate, waits, running, tasks, answer, faults>>
      /\ h \in Callers
  BY DEF Start, Callers
<1>2. /\ status' \in [Callers -> Statuses]
      /\ \A d \in Callers : Called(d)' /\ Told(d)'
      /\ Begun'
  BY <1>1, MoveKept DEF Ended
<1>3. status \in [Callers -> Statuses] /\ queue \in Seq(Pooled)
  BY DEF IInv, Types
<1>4. CASE executor = "async"
  <2>1. UNCHANGED queue
    BY <1>4 DEF Start
  <2>2. Types' /\ Pool'
    BY <1>1, <1>2, <1>4, <2>1 DEF IInv, Types, Pool
  <2> QED
    BY <1>2, <2>2 DEF IInv
<1>5. CASE executor = "sync"
  <2>1. h = Head(queue) /\ Cardinality(Busy) < Workers /\ queue' = Tail(queue)
    BY <1>5 DEF Start
  <2>2. /\ IsInjective(queue)
        /\ Range(queue) = {g \in Handlers : status[g] = "queued"}
    BY <1>5 DEF IInv, Pool
  <2>3. queue # <<>> /\ Len(queue) \in Nat /\ Len(queue) # 0 /\ DOMAIN queue = 1..Len(queue)
    <3>1. h \in Range(queue)
      BY <1>1, <2>2
    <3>2. Range(<<>>) = {}
      BY DEF Range
    <3> QED
      BY <1>3, <3>1, <3>2
  <2>4. /\ queue' \in Seq(Pooled) /\ DOMAIN queue' = 1..(Len(queue) - 1) /\ h = queue[1]
        /\ \A i \in 1..(Len(queue) - 1) : queue'[i] = queue[i + 1] /\ i + 1 \in DOMAIN queue
    BY <1>3, <2>1, <2>3
  <2>5. IsInjective(queue')
    BY <2>2, <2>3, <2>4 DEF IsInjective
  <2>6. Range(queue') = Range(queue) \ {h}
    <3>1. \A i \in DOMAIN queue' : queue'[i] \in Range(queue) /\ queue'[i] # h
      <4> SUFFICES ASSUME NEW i \in DOMAIN queue' PROVE queue'[i] \in Range(queue) /\ queue'[i] # h
        OBVIOUS
      <4>1. queue'[i] = queue[i + 1] /\ i + 1 \in DOMAIN queue /\ i + 1 # 1 /\ 1 \in DOMAIN queue
        BY <2>3, <2>4
      <4> QED
        BY <2>2, <2>4, <4>1 DEF IsInjective, Range
    <3>2. \A i \in DOMAIN queue : queue[i] # h => queue[i] \in Range(queue')
      <4> SUFFICES ASSUME NEW i \in DOMAIN queue, queue[i] # h PROVE queue[i] \in Range(queue')
        OBVIOUS
      <4>1. i # 1
        BY <2>4
      <4>2. i - 1 \in DOMAIN queue' /\ queue'[i - 1] = queue[i]
        BY <2>3, <2>4, <4>1
      <4> QED
        BY <4>2 DEF Range
    <3> QED
      BY <3>1, <3>2 DEF Range
  <2>7. Range(queue') = {g \in Handlers : status'[g] = "queued"}
    BY <1>1, <1>3, <2>2, <2>6 DEF Callers
  <2>8. Cardinality(Busy') <= Workers
    <3>1. Busy' \in SUBSET (Busy \cup {h})
      BY <1>1, <1>3 DEF Busy, Callers, Pooled
    <3>2. IsFiniteSet(Busy) /\ Cardinality(Busy) \in Nat
      BY BusyFinite
    <3>3. IsFiniteSet(Busy \cup {h}) /\ Cardinality(Busy \cup {h}) = Cardinality(Busy) + 1
      <4>1. h \notin Busy
        BY <1>1 DEF Busy
      <4> QED
        BY <3>2, <4>1, FS_AddElement
    <3>4. Cardinality(Busy') <= Cardinality(Busy \cup {h})
      BY <3>1, <3>3, FS_Subset
    <3>5. /\ Cardinality(Busy') \in Nat /\ Cardinality(Busy \cup {h}) \in Nat
          /\ Workers \in Nat
      BY <3>1, <3>3, FS_Subset, FS_CardinalityType, BoundsAssumption
    <3> QED
      BY <2>1, <3>2, <3>3, <3>4, <3>5
  <2>9. Pool' /\ Types'
    BY <1>1, <1>2, <2>4, <2>5, <2>7, <2>8 DEF IInv, Pool, Types
  <2> QED
    BY <1>2, <2>9 DEF IInv
<1>6. executor \in {"sync", "async"}
  BY ExecutorsAssumption DEF IInv, Types
<1> QED
  BY <1>4, <1>5, <1>6

\* Who goes on to its end, or after its results, is not in the queue, and no other is.
LEMMA OnwardKept ==
  ASSUME IInv, NEW c \in Callers, status[c] \in BusyStatuses,
         NEW s \in {"after"} \cup Ended, s = "cancelled" => c # Main,
         status' = [status EXCEPT ![c] = s],
         UNCHANGED <<executor, fate, waits, running, tasks, queue>>,
         answer' \in [Callers -> Seq(Ended)], faults' \in 0..MaxFaults,
         \A d \in Callers : answer'[d] = answer[d] \/ Told(d)'
  PROVE  IInv'
<1>1. /\ status' \in [Callers -> Statuses]
      /\ \A d \in Callers : Called(d)' /\ Told(d)'
      /\ Begun'
  BY MoveKept DEF BusyStatuses, Ended
<1>2. Pool'
  <2>1. status \in [Callers -> Statuses] /\ Pool
    BY DEF IInv, Types
  <2>2. Handlers \subseteq Callers /\ Pooled \subseteq Callers
    BY DEF Callers, Pooled
  <2> QED
    BY <2>1, <2>2, PoolQuiet DEF BusyStatuses, Ended
<1>3. Types'
  BY <1>1 DEF IInv, Types
<1> QED
  BY <1>1, <1>2, <1>3 DEF IInv

LEMMA FinishKept ==
  ASSUME IInv, NEW c \in Callers, Finish(c)
  PROVE  IInv'
<1>1. PICK s \in {"returned", "raised"} : status' = [status EXCEPT ![c] = s]
  BY DEF Finish
<1>2. status[c] \in BusyStatuses /\ UNCHANGED <<executor, fate, waits, running, tasks, queue, answer, faults>>
  BY DEF Finish, BusyStatuses
<1>3. answer' \in [Callers -> Seq(Ended)] /\ faults' \in 0..MaxFaults
  BY <1>2 DEF IInv, Types
<1> QED
  BY <1>1, <1>2, <1>3, OnwardKept DEF Ended

\* A cancelled task may be one that did not start yet: with tasks there is no pool.
LEMMA CancelKept ==
  ASSUME IInv, NEW h \in Handlers, Cancel(h)
  PROVE  IInv'
<1>1. /\ executor = "async" /\ status[h] \in {"queued"} \cup BusyStatuses
      /\ status' = [status EXCEPT ![h] = "cancelled"]
      /\ faults < MaxFaults /\ faults' = faults + 1
      /\ UNCHANGED <<executor, fate, waits, running, tasks, queue, answer>>
      /\ h \in Callers /\ h # Main
  BY MainAssumption DEF Cancel, BusyStatuses, Callers
<1>2. /\ status' \in [Callers -> Statuses]
      /\ \A d \in Callers : Called(d)' /\ Told(d)'
      /\ Begun'
  BY <1>1, MoveKept DEF BusyStatuses, Ended
<1>3. faults' \in 0..MaxFaults
  BY <1>1, BoundsAssumption DEF IInv, Types
<1>4. Types' /\ Pool'
  BY <1>1, <1>2, <1>3 DEF IInv, Types, Pool
<1> QED
  BY <1>2, <1>4 DEF IInv

LEMMA ResumeKept ==
  ASSUME IInv, NEW c \in Callers, Resume(c)
  PROVE  IInv'
<1> DEFINE told == [i \in DOMAIN tasks[c] |-> status[tasks[c][i]]]
<1>1. /\ status[c] = "waiting" /\ Answered(c)
      /\ status' = [status EXCEPT ![c] = "after"]
      /\ answer' = [answer EXCEPT ![c] = told]
      /\ UNCHANGED <<executor, fate, waits, running, tasks, queue, faults>>
  BY DEF Resume
<1>2. /\ status \in [Callers -> Statuses] /\ tasks[c] \in Seq(Handlers)
      /\ answer \in [Callers -> Seq(Ended)]
  BY DEF IInv, Types
<1>3. \A i \in DOMAIN tasks[c] : tasks[c][i] \in Handlers /\ status[tasks[c][i]] \in Ended
  <2> SUFFICES ASSUME NEW i \in DOMAIN tasks[c]
               PROVE  tasks[c][i] \in Handlers /\ status[tasks[c][i]] \in Ended
    OBVIOUS
  <2>1. tasks[c][i] \in Range(tasks[c])
    BY DEF Range
  <2>2. status[tasks[c][i]] \in {status[h] : h \in Range(tasks[c])}
    BY <2>1
  <2>3. {status[h] : h \in Range(tasks[c])} \subseteq Ended
    BY <1>1 DEF Answered, Ended
  <2>4. tasks[c][i] \in Handlers
    BY <1>2
  <2> QED
    BY <2>2, <2>3, <2>4
<1>4. told \in Seq(Ended) /\ DOMAIN told = DOMAIN tasks[c]
  BY <1>2, <1>3
<1>5. answer' \in [Callers -> Seq(Ended)] /\ answer'[c] = told
      /\ \A d \in Callers : d # c => answer'[d] = answer[d]
  BY <1>1, <1>2, <1>4
<1>6. Told(c)'
  <2>1. \A i \in DOMAIN tasks[c] : tasks[c][i] # c
    BY <1>1, <1>3 DEF Ended
  <2>2. \A i \in DOMAIN tasks[c] : status'[tasks[c][i]] = status[tasks[c][i]]
    BY <1>1, <1>2, <1>3, <2>1 DEF Callers
  <2>3. status'[c] = "after"
    BY <1>1, <1>2
  <2> QED
    BY <1>1, <1>3, <1>5, <2>2, <2>3 DEF Told
<1>7. \A d \in Callers : answer'[d] = answer[d] \/ Told(d)'
  BY <1>5, <1>6
<1>8. faults' \in 0..MaxFaults
  BY <1>1 DEF IInv, Types
<1> HIDE DEF told
<1> QED
  BY <1>1, <1>5, <1>7, <1>8, OnwardKept DEF BusyStatuses

LEMMA StopKept ==
  ASSUME IInv, StopApplication
  PROVE  IInv'
<1>1. /\ running' = FALSE
      /\ UNCHANGED <<executor, fate, waits, status, tasks, queue, answer, faults>>
  BY DEF StopApplication
<1>2. Types' /\ Begun' /\ Pool' /\ \A c \in Callers : Called(c)' /\ Told(c)'
  BY <1>1 DEF IInv, Types, Begun, Pool, Called, Told, Busy
<1> QED
  BY <1>2 DEF IInv

LEMMA InitIInv == Init => IInv
<1> SUFFICES ASSUME Init PROVE IInv
  OBVIOUS
<1>1. /\ \A c \in Callers : tasks[c] = <<>> /\ answer[c] = <<>>
      /\ \A c \in Callers : status[c] = IF c = Main THEN "running" ELSE "none"
      /\ queue = <<>> /\ Main \in Callers
  BY DEF Init, Callers
<1>2. Range(<<>>) = {}
  BY DEF Range
<1>3. Types
  <2>1. waits \subseteq Events \cup Commands /\ Cardinality((waits \cap Events) \ {Main}) < Workers
    BY DEF Init
  <2>2. status \in [Callers -> Statuses]
    BY DEF Init, Statuses
  <2>3. tasks \in [Callers -> Seq(Handlers)] /\ answer \in [Callers -> Seq(Ended)]
        /\ queue \in Seq(Pooled)
    BY DEF Init
  <2>4. faults \in 0..MaxFaults
    BY BoundsAssumption DEF Init
  <2> QED
    BY <2>1, <2>2, <2>3, <2>4 DEF Init, Types
<1>4. \A c \in Callers : Called(c) /\ Told(c)
  BY <1>1, <1>2 DEF Called, Told
<1>5. Begun
  <2>1. \A h \in Handlers : status[h] = "none"
    BY <1>1, MainAssumption DEF Callers
  <2> QED
    BY <1>1, <1>2, <2>1 DEF Begun
<1>6. Pool
  <2>1. {h \in Handlers : status[h] = "queued"} = {}
    BY <1>1 DEF Callers
  <2>2. Busy = {}
    BY <1>1, MainAssumption DEF Busy, Pooled, Callers
  <2>3. Cardinality(Busy) <= Workers
    BY <2>2, FS_EmptySet, BoundsAssumption
  <2>4. IsInjective(<<>>)
    BY DEF IsInjective
  <2> QED
    BY <1>1, <1>2, <2>1, <2>3, <2>4 DEF Pool
<1> QED
  BY <1>3, <1>4, <1>5, <1>6 DEF IInv

LEMMA NextIInv == IInv /\ [Next]_vars => IInv'
<1> SUFFICES ASSUME IInv, [Next]_vars PROVE IInv'
  OBVIOUS
<1>1. CASE StopApplication
  BY <1>1, StopKept
<1>2. ASSUME NEW c \in Callers, Handle(c) \/ Finish(c) \/ Resume(c) PROVE IInv'
  BY <1>2, HandleRaisesKept, HandleInlineKept, HandlePooledKept, TasksKept, FinishKept,
     ResumeKept DEF Handle
<1>3. ASSUME NEW h \in Handlers, Start(h) \/ Cancel(h) PROVE IInv'
  BY <1>3, StartKept, CancelKept
<1>4. CASE UNCHANGED vars
  <2>1. Types' /\ Begun' /\ Pool' /\ \A c \in Callers : Called(c)' /\ Told(c)'
    BY <1>4 DEF vars, IInv, Types, Begun, Pool, Called, Told, Busy
  <2> QED
    BY <2>1 DEF IInv
<1> QED
  BY <1>1, <1>2, <1>3, <1>4 DEF Next

LEMMA IInvHolds == Spec => []IInv
  BY InitIInv, NextIInv, PTL DEF Spec

-----------------------------------------------------------------------------
(* Who waits, and for whom.                                                *)

\* Of some callers, one is the deepest in the tree.
LEMMA Deepest ==
  ASSUME NEW W \in SUBSET Callers, W # {}
  PROVE  \E c \in W : \A h \in Range(HandlersOf[c]) : h \notin W
<1>1. PICK depth \in [Callers -> 0..Cardinality(Handlers)] :
        \A c \in Callers : \A h \in Range(HandlersOf[c]) : depth[c] < depth[h]
  BY DepthAssumption
<1> DEFINE N == Cardinality(Handlers)
           S == {N - depth[c] : c \in W}
<1>2. N \in Nat
  BY HandlersAssumption, FS_CardinalityType
<1>3. \A c \in W : depth[c] \in 0..N /\ N - depth[c] \in Nat
  BY <1>2
<1>4. S \in SUBSET Nat /\ S # {}
  BY <1>3
<1>5. PICK m \in S : \A i \in S : m <= i
  BY <1>4, Least
<1>6. PICK c \in W : m = N - depth[c]
  BY <1>5
<1>7. ASSUME NEW h \in Range(HandlersOf[c]), h \in W PROVE FALSE
  <2>1. depth[c] < depth[h]
    BY <1>1
  <2>2. N - depth[c] <= N - depth[h]
    BY <1>5, <1>6, <1>7
  <2> QED
    BY <1>2, <1>3, <1>7, <2>1, <2>2
<1> QED
  BY <1>7

\* A set that two others make up, which have nothing in common.
LEMMA Apart ==
  ASSUME NEW S, NEW T, IsFiniteSet(S), IsFiniteSet(T), S \cap T = {}
  PROVE  /\ Cardinality(S \cup T) = Cardinality(S) + Cardinality(T)
         /\ IsFiniteSet(S \cup T)
         /\ Cardinality(S) \in Nat /\ Cardinality(T) \in Nat
<1>1. Cardinality(S \cup T) = Cardinality(S) + Cardinality(T) - Cardinality(S \cap T)
      /\ IsFiniteSet(S \cup T)
  BY FS_Union
<1>2. Cardinality(S) \in Nat /\ Cardinality(T) \in Nat
  BY FS_CardinalityType
<1>3. Cardinality(S \cap T) = 0
  BY FS_EmptySet
<1> QED
  BY <1>1, <1>2, <1>3

\* If every thread's handler waits, a thread is free all the same: those that wait for a
\* command wait for as many handlers outside the pool, which wait too, so that there are
\* no more waiting handlers in the pool than callers that wait for an event.
LEMMA ThreadIsFree ==
  ASSUME IInv, executor = "sync",
         \A c \in Callers : status[c] \notin {"running", "after"},
         \A c \in Callers : status[c] = "waiting" => ~Answered(c)
  PROVE  Cardinality(Busy) < Workers
<1> DEFINE W == {c \in Callers : status[c] = "waiting"}
           E == W \cap Events
           C == W \cap Commands
           P == W \cap Pooled
           N == W \ (Pooled \cup {Main})
           M == W \cap {Main}
<1>1. Types /\ Begun /\ Pool /\ \A c \in Callers : Called(c)
  BY DEF IInv
<1>2. Busy = P
  <2>1. Pooled \subseteq Callers
    BY DEF Pooled, Callers
  <2> QED
    BY <2>1 DEF Busy
<1>3. IsFiniteSet(Callers) /\ W \subseteq Callers
  BY BusyFinite
<1>4. /\ IsFiniteSet(W) /\ IsFiniteSet(E) /\ IsFiniteSet(C) /\ IsFiniteSet(P)
      /\ IsFiniteSet(N) /\ IsFiniteSet(M) /\ IsFiniteSet(E \ {Main})
  <2>1. \A S \in SUBSET W : S \in SUBSET Callers
    BY <1>3
  <2>2. \A S \in SUBSET W : IsFiniteSet(S)
    BY <1>3, <2>1, FS_Subset
  <2> HIDE DEF W
  <2> QED
    BY <2>2
<1>5. \A c \in C : HandlersOf[c][1] \in N
  <2> SUFFICES ASSUME NEW c \in C PROVE HandlersOf[c][1] \in N
    OBVIOUS
  <2> DEFINE h == HandlersOf[c][1]
  <2>1. c \in Callers /\ c \in Commands /\ status[c] = "waiting"
    OBVIOUS
  <2>2. Len(HandlersOf[c]) = 1 /\ DOMAIN HandlersOf[c] = 1..1 /\ h \in Handlers
    BY <2>1, OnHandlers, HandlersOfAssumption
  <2>3. Range(HandlersOf[c]) = {h}
    BY <2>2 DEF Range
  <2>4. tasks[c] \in Seq(Handlers) /\ tasks[c] # <<>> /\ Range(tasks[c]) \subseteq {h}
    BY <1>1, <2>1, <2>3 DEF Types, Called
  <2>5. Range(tasks[c]) = {h}
    <3>1. tasks[c][1] \in Range(tasks[c])
      BY <2>4 DEF Range
    <3> QED
      BY <2>4, <3>1
  <2>6. h \notin Pooled
    BY <2>1, <2>3, CommandsNotPooled
  <2>7. h # Main /\ h \in Callers
    BY <2>2, MainAssumption DEF Callers
  <2>8. status[h] = "waiting"
    <3>1. status[h] \notin Ended
      BY <2>1, <2>5 DEF Answered
    <3>2. status[h] # "none"
      BY <1>1, <2>1, <2>2, <2>5 DEF Begun
    <3>3. status[h] # "queued"
      BY <1>1, <2>1, <2>5 DEF Called
    <3>4. status[h] \in Statuses
      BY <1>1, <2>7 DEF Types
    <3> QED
      BY <2>7, <3>1, <3>2, <3>3, <3>4 DEF Statuses
  <2> QED
    BY <2>6, <2>7, <2>8
<1>6. Cardinality(C) <= Cardinality(N)
  <2> DEFINE g == [c \in C |-> HandlersOf[c][1]]
  <2>1. g \in [C -> N]
    BY <1>5
  <2>2. ASSUME NEW a \in C, NEW b \in C, g[a] = g[b] PROVE a = b
    <3>1. a \in Callers /\ b \in Callers /\ a \in Commands /\ b \in Commands
      OBVIOUS
    <3>2. 1 \in DOMAIN HandlersOf[a] /\ 1 \in DOMAIN HandlersOf[b]
      BY <3>1, OnHandlers, HandlersOfAssumption
    <3>3. HandlersOf[a][1] = HandlersOf[b][1]
      BY <2>2
    <3> QED
      BY <3>1, <3>2, <3>3, OneCaller DEF Range
  <2> HIDE DEF g, C, N
  <2>3. g \in Injection(C, N)
    BY <2>1, <2>2 DEF Injection, IsInjective
  <2> QED
    BY <1>4, <2>3, FS_Injection
<1>7. W = E \cup C /\ E \cap C = {}
  <2>1. \A c \in W : c \in Events \cup Commands
    BY <1>1 DEF Types, Called
  <2> QED
    BY <2>1 DEF Events
<1>8. W = (P \cup N) \cup M /\ P \cap N = {} /\ (P \cup N) \cap M = {}
  <2>1. Main \notin Pooled
    BY MainAssumption DEF Pooled
  <2> QED
    BY <2>1
<1>9. Cardinality(E \ {Main}) < Workers
  <2>1. E \ {Main} \in SUBSET ((waits \cap Events) \ {Main})
    <3>1. \A c \in E : c \in waits
      BY <1>1 DEF Called, Events
    <3> QED
      BY <3>1
  <2>2. IsFiniteSet((waits \cap Events) \ {Main})
    <3>1. (waits \cap Events) \ {Main} \in SUBSET Callers
      BY DEF Events
    <3> QED
      BY <1>3, <3>1, FS_Subset
  <2>3. Cardinality(E \ {Main}) <= Cardinality((waits \cap Events) \ {Main})
    BY <2>1, <2>2, FS_Subset
  <2>4. Cardinality(E \ {Main}) \in Nat /\ Cardinality((waits \cap Events) \ {Main}) \in Nat
    BY <1>4, <2>2, FS_CardinalityType
  <2> QED
    BY <1>1, <2>3, <2>4, BoundsAssumption DEF Types
<1>10. Cardinality(E) <= Cardinality(E \ {Main}) + Cardinality(M)
  <2>1. E = (E \ {Main}) \cup (E \cap {Main}) /\ (E \ {Main}) \cap (E \cap {Main}) = {}
    OBVIOUS
  <2>2. E \cap {Main} \in SUBSET M
    OBVIOUS
  <2>3. IsFiniteSet(E \cap {Main}) /\ Cardinality(E \cap {Main}) <= Cardinality(M)
    BY <1>4, <2>2, FS_Subset
  <2>4. /\ Cardinality((E \ {Main}) \cup (E \cap {Main}))
             = Cardinality(E \ {Main}) + Cardinality(E \cap {Main})
        /\ Cardinality(E \ {Main}) \in Nat /\ Cardinality(E \cap {Main}) \in Nat
    BY <1>4, <2>1, <2>3, Apart
  <2>5. Cardinality(M) \in Nat
    BY <1>4, FS_CardinalityType
  <2>6. Cardinality(E) = Cardinality((E \ {Main}) \cup (E \cap {Main}))
    BY <2>1
  <2> HIDE DEF E, M
  <2> QED
    BY <2>3, <2>4, <2>5, <2>6
<1> HIDE DEF W, E, C, P, N, M
<1>11. Cardinality(W) = Cardinality(E) + Cardinality(C)
       /\ Cardinality(E) \in Nat /\ Cardinality(C) \in Nat
  BY <1>4, <1>7, Apart
<1>12. Cardinality(W) = Cardinality(P) + Cardinality(N) + Cardinality(M)
       /\ Cardinality(P) \in Nat /\ Cardinality(N) \in Nat /\ Cardinality(M) \in Nat
  <2>1. /\ Cardinality(P \cup N) = Cardinality(P) + Cardinality(N)
        /\ IsFiniteSet(P \cup N)
        /\ Cardinality(P) \in Nat /\ Cardinality(N) \in Nat
    BY <1>4, <1>8, Apart
  <2>2. Cardinality((P \cup N) \cup M) = Cardinality(P \cup N) + Cardinality(M)
        /\ Cardinality(M) \in Nat
    BY <1>4, <1>8, <2>1, Apart
  <2> QED
    BY <1>8, <2>1, <2>2
<1>13. Cardinality(E \ {Main}) \in Nat
  BY <1>4, FS_CardinalityType
<1> QED
  BY <1>2, <1>6, <1>9, <1>10, <1>11, <1>12, <1>13, BoundsAssumption

LEMMA IInvNoDeadlock == IInv => NoDeadlock
<1> SUFFICES ASSUME IInv,
                    \A c \in Callers : ~CanGoOn(c) /\ ~Abandoned(c),
                    NEW d \in Callers, status[d] \in {"waiting", "queued"}
             PROVE  FALSE
  BY DEF NoDeadlock
<1> DEFINE W == {c \in Callers : status[c] = "waiting"}
<1>1. Types /\ Begun /\ Pool /\ \A c \in Callers : Called(c)
  BY DEF IInv
<1>2. \A c \in Callers : status[c] \notin {"running", "after"}
  BY DEF CanGoOn
<1>3. \A c \in W : ~Answered(c)
  BY DEF CanGoOn
<1>4. \A h \in Handlers : status[h] # "queued"
  <2>1. CASE executor = "async"
    BY <2>1 DEF CanGoOn, Callers
  <2>2. CASE executor = "sync"
    <3> SUFFICES ASSUME NEW h \in Handlers, status[h] = "queued" PROVE FALSE
      OBVIOUS
    <3>1. Range(queue) = {g \in Handlers : status[g] = "queued"}
      BY <1>1, <2>2 DEF Pool
    <3>2. queue \in Seq(Pooled) /\ queue # <<>>
      <4>1. Range(<<>>) = {}
        BY DEF Range
      <4> QED
        BY <1>1, <3>1, <4>1 DEF Types
    <3>3. Head(queue) \in Range(queue)
      BY <3>2 DEF Range
    <3>4. Head(queue) \in Callers /\ status[Head(queue)] = "queued"
      BY <3>1, <3>3 DEF Callers
    <3>5. Cardinality(Busy) < Workers
      BY <1>2, <1>3, <2>2, ThreadIsFree
    <3> QED
      BY <3>4, <3>5 DEF CanGoOn
  <2> QED
    BY <1>1, <2>1, <2>2, ExecutorsAssumption DEF Types
<1>5. d \in W
  <2>1. status[Main] # "queued"
    BY <1>1 DEF Begun
  <2> QED
    BY <1>4, <2>1 DEF Callers
<1>6. PICK c \in W : \A h \in Range(HandlersOf[c]) : h \notin W
  <2>1. W \in SUBSET Callers /\ W # {}
    BY <1>5
  <2> HIDE DEF W
  <2> QED
    BY <2>1, Deepest
<1>7. tasks[c] \in Seq(Handlers) /\ Range(tasks[c]) \subseteq Range(HandlersOf[c])
  BY <1>1 DEF Types, Called
<1>8. ASSUME NEW h \in Range(tasks[c]) PROVE status[h] \in Ended
  <2>1. h \in Handlers /\ h \in Callers
    BY <1>7 DEF Range, Callers
  <2>2. status[h] # "none"
    BY <1>1, <2>1 DEF Begun
  <2>3. status[h] # "waiting"
    BY <1>6, <1>7, <2>1
  <2>4. status[h] \in Statuses
    BY <1>1, <2>1 DEF Types
  <2> QED
    BY <1>2, <1>4, <2>1, <2>2, <2>3, <2>4 DEF Statuses
<1>9. \A h \in Range(tasks[c]) : executor = "async" /\ c \in Commands => status[h] # "cancelled"
  BY DEF Abandoned
<1>10. Answered(c)
  BY <1>8, <1>9 DEF Answered, Ended
<1> QED
  BY <1>3, <1>10

LEMMA IInvTypeOK == IInv => TypeOK
<1> SUFFICES ASSUME IInv PROVE TypeOK
  OBVIOUS
<1>1. waits \subseteq Callers
  BY MainAssumption DEF IInv, Types, Events
<1>2. status \in [Callers -> {"none", "queued", "running", "waiting", "after"} \cup Ended]
  BY DEF IInv, Types, Statuses
<1> QED
  BY <1>1, <1>2 DEF IInv, Types, Pool, TypeOK

-----------------------------------------------------------------------------
(* The theorems.                                                           *)

\* The variables keep their types, those that wait for a thread of the ThreadPoolExecutor
\* are in its queue, and no more handlers are on its threads than it has.
THEOREM DispatchTyped == Spec => []TypeOK
<1>1. IInv => TypeOK
  BY IInvTypeOK
<1> QED
  BY <1>1, IInvHolds, PTL

\* The executors never come to a point where everybody waits for somebody: in whatever
\* tree of calls, with however many threads, as long as fewer handlers wait for results
\* of events than there are threads, and but for a command whose task was cancelled.
THEOREM NeverDeadlocked == Spec => []NoDeadlock
<1>1. IInv => NoDeadlock
  BY IInvNoDeadlock
<1> QED
  BY <1>1, IInvHolds, PTL

\* What process_handler and process_handlers gave a caller as its results is how each
\* of its handlers ended, and no handler runs again to end in another way.
THEOREM AnswersStayTrue == Spec => []AnswersAreTrue
<1>1. IInv => AnswersAreTrue
  BY DEF IInv, Told, AnswersAreTrue
<1> QED
  BY <1>1, IInvHolds, PTL

=============================================================================
