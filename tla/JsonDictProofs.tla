---------------------------- MODULE JsonDictProofs ----------------------------
(***************************************************************************)
(* Proofs about JsonDict, for heaps of any number of objects of any depth: *)
(* what a conversion makes and what it leaves alone, by induction on its   *)
(* levels, and the invariant of what the program does with the dicts.      *)
(***************************************************************************)
EXTENDS JsonDict, FiniteSetTheorems, SequenceTheorems, TLAPS

-----------------------------------------------------------------------------
(* Least numbers, and functions that are defined step by step from the     *)
(* value before: what the proofs about recursive functions rest on.  The   *)
(* step of a definition is a function of its place and of the value        *)
(* before, so that the lemmas hold for any of them.                        *)

\* Some numbers have a least one.
LEMMA Least ==
  ASSUME NEW S \in SUBSET Nat, S # {}
  PROVE  \E m \in S : \A i \in S : m <= i
<1> DEFINE Below == {1..i : i \in S}
<1>1. Below \subseteq FiniteSubsetsOf(Nat) /\ Below # {}
  <2>1. ASSUME NEW i \in S PROVE 1..i \in FiniteSubsetsOf(Nat)
    <3>1. i \in Int /\ 1..i \subseteq Nat
      OBVIOUS
    <3> QED
      BY <3>1, FS_Interval DEF FiniteSubsetsOf
  <2> QED
    BY <2>1
<1>2. PICK b \in Below : \A c \in Below : <<c, b>> \notin StrictSubsetOrdering(Nat)
  BY <1>1, FS_StrictSubsetOrderingWellFounded, WFMin
<1>3. PICK m \in S : b = 1..m
  BY <1>2
<1>4. ASSUME NEW i \in S, i < m PROVE FALSE
  <2>1. 1..i \subseteq 1..m /\ m \in 1..m /\ m \notin 1..i /\ 1..m \subseteq Nat
    BY <1>4
  <2>2. <<1..i, b>> \in StrictSubsetOrdering(Nat)
    BY <1>3, <2>1 DEF StrictSubsetOrdering
  <2> QED
    BY <1>2, <2>2
<1> QED
  BY <1>4

\* The principle of induction up to L, for a set of numbers.
LEMMA Upwards ==
  ASSUME NEW L \in Nat, NEW S, 0 \in S,
         \A n \in 1..L : n - 1 \in S => n \in S
  PROVE  0..L \subseteq S
<1> SUFFICES ASSUME (0..L) \ S # {} PROVE FALSE
  OBVIOUS
<1>1. (0..L) \ S \in SUBSET Nat
  OBVIOUS
<1>2. PICK m \in (0..L) \ S : \A i \in (0..L) \ S : m <= i
  BY <1>1, Least
<1>3. m \in 1..L /\ m - 1 \in 0..L /\ ~(m <= m - 1)
  BY <1>2
<1> QED
  BY <1>2, <1>3

\* f is given by its first value and the step from each value to the next, up to L.
Stepwise(L, base, step, f) == f[0] = base /\ \A n \in 1..L : f[n] = step[n][f[n - 1]]

\* There is such a function.
LEMMA StepByStep ==
  ASSUME NEW L \in Nat, NEW T, NEW base \in T, NEW step \in [1..L -> [T -> T]]
  PROVE  \E f \in [0..L -> T] : Stepwise(L, base, step, f)
<1> DEFINE Upto(m, f) == f[0] = base /\ \A n \in 1..m : f[n] = step[n][f[n - 1]]
           S == {m \in 0..L : \E f \in [0..m -> T] : Upto(m, f)}
<1>1. 0 \in S
  <2> DEFINE g == [n \in 0..0 |-> base]
  <2>1. g \in [0..0 -> T] /\ g[0] = base
    OBVIOUS
  <2>2. \A n \in 1..0 : g[n] = step[n][g[n - 1]]
    OBVIOUS
  <2> HIDE DEF g
  <2>3. 0 \in 0..L /\ \E f \in [0..0 -> T] : Upto(0, f)
    BY <2>1, <2>2
  <2> QED
    BY <2>3, Zenon
<1>2. ASSUME NEW m \in 1..L, m - 1 \in S PROVE m \in S
  <2>1. PICK f \in [0..(m - 1) -> T] : Upto(m - 1, f)
    BY <1>2
  <2> DEFINE g == [n \in 0..m |-> IF n = m THEN step[m][f[m - 1]] ELSE f[n]]
  <2>2. f[m - 1] \in T /\ step[m][f[m - 1]] \in T
    OBVIOUS
  <2>3. g \in [0..m -> T]
    BY <2>2
  <2>4. g[0] = base
    BY <2>1
  <2>5. ASSUME NEW n \in 1..m PROVE g[n] = step[n][g[n - 1]]
    <3>1. CASE n = m
      BY <3>1
    <3>2. CASE n # m
      <4>1. n \in 1..(m - 1) /\ n - 1 \in 0..m /\ n - 1 # m /\ n \in 0..m
        BY <3>2
      <4> QED
        BY <2>1, <3>2, <4>1
    <3> QED
      BY <3>1, <3>2
  <2> HIDE DEF g
  <2>6. m \in 0..L
    OBVIOUS
  <2> QED
    BY <2>3, <2>4, <2>5, <2>6
<1> HIDE DEF S
<1>3. 0..L \subseteq S
  BY <1>1, <1>2, Upwards
<1>4. L \in S
  BY <1>3
<1> QED
  BY <1>4 DEF S, Stepwise

-----------------------------------------------------------------------------
(* Recursion: what the recursive functions of the conversion are.          *)

Objects == [type : Types, items : Seq(Atoms \cup Nat)]

\* A heap: objects that hold atoms and objects of it, one empty tuple and one value of
\* the Enum.
Heap(h) ==
  /\ h \in Seq(Objects)
  /\ Empty \in DOMAIN h
  /\ ValueOfKind \in DOMAIN h /\ h[ValueOfKind].type \in {"list", "dict"}
  /\ \A o \in DOMAIN h :
       /\ Len(h[o].items) <= MaxItems
       /\ Range(h[o].items) \subseteq ValuesIn(h)
       /\ h[o] = Object("tuple", <<>>) <=> o = Empty

\* What can convert any value of a heap.
Parsers(h) == [ValuesIn(h) -> [Conversions(h) -> Conversions(h)]]

\* f is what becomes of conv as parse converts one item after the other.
EachBy(h, conv, items, parse, f) ==
  /\ f \in [0..Len(items) -> Conversions(h)]
  /\ f[0] = conv
  /\ \A i \in 1..Len(items) : f[i] = parse[items[i]][f[i - 1]]
  /\ Each(conv, items, parse) = f[Len(items)]

LEMMA EachSteps ==
  ASSUME NEW h, NEW conv \in Conversions(h), NEW items \in Seq(ValuesIn(h)),
         NEW parse \in Parsers(h)
  PROVE  \E f : EachBy(h, conv, items, parse, f)
<1> DEFINE L == Len(items)
           T == Conversions(h)
           step == [i \in 1..L |-> parse[items[i]]]
           def(f) == [i \in 0..L |-> IF i = 0 THEN conv ELSE parse[items[i]][f[i - 1]]]
           F == CHOOSE f : f = def(f)
<1>1. L \in Nat /\ \A i \in 1..L : items[i] \in ValuesIn(h)
  BY LenProperties, ElementOfSeq
<1>2. step \in [1..L -> [T -> T]]
  BY <1>1 DEF Parsers
<1>3. PICK f \in [0..L -> T] : f[0] = conv /\ \A i \in 1..L : f[i] = step[i][f[i - 1]]
  <2> HIDE DEF step, L, T
  <2>1. conv \in T
    BY DEF T
  <2>2. \E f \in [0..L -> T] : Stepwise(L, conv, step, f)
    BY <1>1, <1>2, <2>1, StepByStep
  <2> QED
    BY <2>2 DEF Stepwise
<1>4. \A i \in 1..L : f[i] = parse[items[i]][f[i - 1]]
  BY <1>3
<1>5. f = def(f)
  <2>1. ASSUME NEW i \in 0..L PROVE f[i] = def(f)[i]
    BY <1>1, <1>3, <1>4
  <2>2. f = [i \in 0..L |-> f[i]] /\ def(f) = [i \in 0..L |-> def(f)[i]]
    OBVIOUS
  <2> HIDE DEF def
  <2> QED
    BY <2>1, <2>2
<1>6. F = def(F)
  <2> HIDE DEF def
  <2> QED
    BY <1>5
<1>7. F[0] = conv /\ \A i \in 1..L : F[i] = parse[items[i]][F[i - 1]]
  <2>1. def(F)[0] = conv /\ \A i \in 1..L : def(F)[i] = parse[items[i]][F[i - 1]]
    <3> HIDE DEF F
    <3> QED
      BY <1>1
  <2> HIDE DEF def, F
  <2> QED
    BY <1>6, <2>1
<1>8. DOMAIN F = 0..L
  <2> HIDE DEF F
  <2> QED
    BY <1>6
<1>9. Each(conv, items, parse) = F[L]
  BY DEF Each
<1> HIDE DEF F
<1> DEFINE S == {i \in 0..L : F[i] \in T}
<1>10. 0 \in S
  BY <1>1, <1>7
<1>11. ASSUME NEW i \in 1..L, i - 1 \in S PROVE i \in S
  <2>1. parse[items[i]] \in [T -> T]
    BY <1>1 DEF Parsers
  <2>2. F[i - 1] \in T
    BY <1>11
  <2> HIDE DEF T
  <2>3. F[i] \in T
    BY <1>7, <2>1, <2>2
  <2> QED
    BY <1>1, <2>3
<1> HIDE DEF S
<1>12. 0..L \subseteq S
  BY <1>1, <1>10, <1>11, Upwards
<1>13. F \in [0..L -> T]
  <2>1. \A i \in 0..L : F[i] \in T
    BY <1>12 DEF S
  <2>2. F = [i \in 0..L |-> F[i]]
    BY <1>6, <1>8
  <2> HIDE DEF T
  <2> QED
    BY <2>1, <2>2
<1> QED
  BY <1>7, <1>9, <1>13 DEF EachBy

-----------------------------------------------------------------------------
(* The steps of a conversion, field by field.                              *)

LEMMA WithFields ==
  ASSUME NEW h, NEW conv \in Conversions(h), NEW values \in Seq(Atoms \cup Nat)
  PROVE  /\ With(conv, values) \in Conversions(h)
         /\ With(conv, values).new = conv.new
         /\ With(conv, values).values = values
         /\ With(conv, values).ok = conv.ok
  BY DEF With, Conversions

LEMMA GivenFields ==
  ASSUME NEW h, NEW conv \in Conversions(h), NEW v \in Atoms \cup Nat
  PROVE  /\ Given(conv, v) \in Conversions(h)
         /\ Given(conv, v).new = conv.new
         /\ Given(conv, v).values = Append(conv.values, v)
         /\ Given(conv, v).ok = conv.ok
<1>1. Append(conv.values, v) \in Seq(Atoms \cup Nat)
  BY AppendProperties DEF Conversions
<1> QED
  BY <1>1, WithFields, Zenon DEF Given

LEMMA FailedFields ==
  ASSUME NEW h, NEW conv \in Conversions(h)
  PROVE  /\ Failed(conv) \in Conversions(h)
         /\ Failed(conv).new = conv.new
         /\ Failed(conv).values = conv.values
         /\ Failed(conv).ok = FALSE
  BY DEF Failed, Conversions

LEMMA EnteredFields ==
  ASSUME NEW h, NEW conv \in Conversions(h), NEW o \in DOMAIN h
  PROVE  /\ Entered(conv, o) \in Conversions(h)
         /\ Entered(conv, o).new = conv.new
         /\ Entered(conv, o).values = <<>>
         /\ Entered(conv, o).ok = conv.ok
<1>1. <<>> \in Seq(Atoms \cup Nat) /\ conv.markers \cup {o} \in SUBSET DOMAIN h
  BY EmptySeq DEF Conversions
<1>2. Entered(conv, o) \in Conversions(h)
  BY <1>1 DEF Entered, Conversions
<1>3. /\ Entered(conv, o).new = conv.new /\ Entered(conv, o).values = <<>>
      /\ Entered(conv, o).ok = conv.ok
  BY DEF Entered, Conversions
<1> QED
  BY <1>2, <1>3

LEMMA PlaceFields ==
  ASSUME NEW h, Len(h) \in Nat, NEW conv \in Conversions(h), NEW object \in Objects
  PROVE  LET placed == Place(h, conv, object)
         IN /\ placed \in Conversions(h)
            /\ placed.ok = conv.ok
            /\ IF object = Object("tuple", <<>>)
               THEN placed.new = conv.new /\ placed.values = Append(conv.values, Empty)
               ELSE /\ placed.new = Append(conv.new, object)
                    /\ placed.values = Append(conv.values, Len(h) + Len(conv.new) + 1)
<1>1. CASE object = Object("tuple", <<>>)
  BY <1>1, GivenFields DEF Place, Empty
<1>2. CASE object # Object("tuple", <<>>)
  <2> DEFINE given == Given(conv, Len(h) + Len(conv.new) + 1)
  <2>1. conv.new \in Seq(Objects) /\ Len(conv.new) \in Nat
    BY LenProperties DEF Conversions, Objects
  <2>2. /\ given \in Conversions(h) /\ given.new = conv.new /\ given.ok = conv.ok
        /\ given.values = Append(conv.values, Len(h) + Len(conv.new) + 1)
    BY <2>1, GivenFields
  <2>3. Place(h, conv, object) = [given EXCEPT !.new = Append(@, object)]
    BY <1>2 DEF Place
  <2>4. Append(conv.new, object) \in Seq(Objects)
    BY <2>1, AppendProperties
  <2> HIDE DEF given
  <2>5. Place(h, conv, object) \in Conversions(h)
    BY <2>2, <2>3, <2>4 DEF Conversions, Objects
  <2>6. /\ Place(h, conv, object).new = Append(conv.new, object)
        /\ Place(h, conv, object).values = given.values
        /\ Place(h, conv, object).ok = given.ok
    BY <2>2, <2>3 DEF Conversions
  <2> QED
    BY <1>2, <2>2, <2>5, <2>6
<1> QED
  BY <1>1, <1>2

LEMMA ShapeFields ==
  ASSUME NEW type \in Types, NEW cls \in Classes, NEW items \in Seq(Atoms \cup Nat)
  PROVE  /\ Shape(type, cls, items) \in Objects
         /\ Shape(type, cls, items).items = items
         /\ \/ Shape(type, cls, items).type \in {cls, "tuple"}
            \/ cls = "JsonDict" /\ Shape(type, cls, items).type = "list"
  BY DEF Shape, Object, Objects, Types, Mappings, Classes

LEMMA ValueSeq ==
  ASSUME NEW h, Heap(h), NEW o \in DOMAIN h
  PROVE  /\ h[o].type \in Types
         /\ h[o].items \in Seq(ValuesIn(h)) /\ h[o].items \in Seq(Atoms \cup Nat)
         /\ Len(h[o].items) \in Nat /\ DOMAIN h[o].items = 1..Len(h[o].items)
         /\ Len(h) \in Nat /\ DOMAIN h = 1..Len(h)
<1>1. Len(h) \in Nat /\ DOMAIN h = 1..Len(h) /\ h[o] \in Objects
  BY LenProperties, ElementOfSeq DEF Heap
<1> DEFINE items == h[o].items
<1>2. items \in Seq(Atoms \cup Nat) /\ h[o].type \in Types
  BY <1>1 DEF Objects
<1>3. Len(items) \in Nat /\ DOMAIN items = 1..Len(items) /\ items \in [1..Len(items) -> Atoms \cup Nat]
  BY <1>2, LenProperties
<1>4. \A i \in 1..Len(items) : items[i] \in ValuesIn(h)
  BY <1>3 DEF Heap, Range
<1>5. items \in Seq(ValuesIn(h))
  <2> HIDE DEF items
  <2>1. items \in [1..Len(items) -> ValuesIn(h)]
    BY <1>3, <1>4
  <2> QED
    BY <1>3, <2>1, SeqDef
<1> QED
  BY <1>1, <1>2, <1>3, <1>5

LEMMA ContainerTyped ==
  ASSUME NEW h, Heap(h), NEW cls \in Classes, NEW parse \in Parsers(h),
         NEW conv \in Conversions(h), NEW o \in DOMAIN h
  PROVE  ParseContainer(h, cls, conv, o, parse) \in Conversions(h)
<1> DEFINE entered == Entered(conv, o)
           inner == Each(entered, h[o].items, parse)
           left == With(inner, conv.values)
           object == Shape(h[o].type, cls, inner.values)
<1>1. entered \in Conversions(h)
  BY EnteredFields
<1>2. inner \in Conversions(h)
  <2>1. h[o].items \in Seq(ValuesIn(h))
    BY ValueSeq
  <2> HIDE DEF entered
  <2>2. PICK f : EachBy(h, entered, h[o].items, parse, f)
    BY <1>1, <2>1, EachSteps
  <2>3. Len(h[o].items) \in 0..Len(h[o].items)
    BY ValueSeq
  <2> QED
    BY <2>2, <2>3 DEF EachBy
<1> HIDE DEF inner
<1>3. left \in Conversions(h)
  BY <1>2, WithFields DEF Conversions
<1>4. object \in Objects
  BY <1>2, ValueSeq, ShapeFields DEF Conversions
<1> HIDE DEF left, object
<1>5. Place(h, left, object) \in Conversions(h)
  BY <1>3, <1>4, ValueSeq, PlaceFields
<1>6. ParseContainer(h, cls, conv, o, parse) = IF inner.ok THEN Place(h, left, object) ELSE inner
  BY DEF ParseContainer, inner, left, object
<1> QED
  BY <1>2, <1>5, <1>6

LEMMA ParseValueTyped ==
  ASSUME NEW h, Heap(h), NEW cls \in Classes, NEW parse \in Parsers(h)
  PROVE  ParseValue(h, cls, parse) \in Parsers(h)
<1> SUFFICES ASSUME NEW v \in ValuesIn(h), NEW conv \in Conversions(h)
             PROVE  ParseValue(h, cls, parse)[v][conv] \in Conversions(h)
  BY DEF Parsers, ParseValue
<1>1. Atomic(v) \in Atoms \cup Nat
  BY DEF Atoms, Atomic, ValueOfKind
<1>2. Given(conv, Atomic(v)) \in Conversions(h) /\ Failed(conv) \in Conversions(h)
  BY <1>1, GivenFields, FailedFields
<1>3. v \notin Atoms => ParseContainer(h, cls, conv, v, parse) \in Conversions(h)
  BY ContainerTyped DEF ValuesIn
<1> QED
  BY <1>2, <1>3 DEF ParseValue

\* P are the parsers of each number of levels.
ParseBy(h, cls, P) ==
  /\ P \in [0..Len(h) -> Parsers(h)]
  /\ \A v \in ValuesIn(h), conv \in Conversions(h) : P[0][v][conv] = Failed(conv)
  /\ \A n \in 1..Len(h) : P[n] = ParseValue(h, cls, P[n - 1])
  /\ Parse(h, cls) = P[Len(h)]

LEMMA ParseSteps ==
  ASSUME NEW h, Heap(h), NEW cls \in Classes
  PROVE  \E P : ParseBy(h, cls, P)
<1> DEFINE L == Len(h)
           T == Parsers(h)
           base == [v \in ValuesIn(h) |-> [conv \in Conversions(h) |-> Failed(conv)]]
           step == [n \in 1..L |-> [parse \in T |-> ParseValue(h, cls, parse)]]
           def(f) == [n \in 0..L |-> IF n = 0 THEN base ELSE ParseValue(h, cls, f[n - 1])]
           F == CHOOSE f : f = def(f)
<1>1. L \in Nat
  BY LenProperties DEF Heap
<1>2. base \in T
  BY FailedFields DEF Parsers
<1>3. step \in [1..L -> [T -> T]]
  BY ParseValueTyped
<1>4. PICK f \in [0..L -> T] : f[0] = base /\ \A n \in 1..L : f[n] = step[n][f[n - 1]]
  <2> HIDE DEF step, L, T, base
  <2>1. \E f \in [0..L -> T] : Stepwise(L, base, step, f)
    BY <1>1, <1>2, <1>3, StepByStep
  <2> QED
    BY <2>1 DEF Stepwise
<1>5. \A n \in 1..L : f[n] = ParseValue(h, cls, f[n - 1])
  <2> HIDE DEF T, base, L
  <2> SUFFICES ASSUME NEW n \in 1..L PROVE f[n] = ParseValue(h, cls, f[n - 1])
    OBVIOUS
  <2>1. n - 1 \in 0..L /\ f[n - 1] \in T
    BY <1>1, <1>4
  <2>2. step[n][f[n - 1]] = ParseValue(h, cls, f[n - 1])
    BY <2>1
  <2> QED
    BY <1>4, <2>2
<1> HIDE DEF base
<1>6. f = def(f)
  <2>1. ASSUME NEW n \in 0..L PROVE f[n] = def(f)[n]
    BY <1>1, <1>4, <1>5
  <2>2. f = [n \in 0..L |-> f[n]] /\ def(f) = [n \in 0..L |-> def(f)[n]]
    OBVIOUS
  <2> HIDE DEF def
  <2> QED
    BY <2>1, <2>2
<1>7. F = def(F)
  <2> HIDE DEF def
  <2> QED
    BY <1>6
<1>8. F[0] = base /\ \A n \in 1..L : F[n] = ParseValue(h, cls, F[n - 1])
  <2>1. def(F)[0] = base /\ \A n \in 1..L : def(F)[n] = ParseValue(h, cls, F[n - 1])
    <3> HIDE DEF F
    <3> QED
      BY <1>1
  <2> HIDE DEF def, F
  <2> QED
    BY <1>7, <2>1
<1>9. DOMAIN F = 0..L
  <2> HIDE DEF F
  <2> QED
    BY <1>7
<1>10. Parse(h, cls) = F[L]
  BY DEF Parse, base
<1> HIDE DEF F
<1> DEFINE S == {n \in 0..L : F[n] \in T}
<1>11. 0 \in S
  BY <1>1, <1>2, <1>8
<1>12. ASSUME NEW n \in 1..L, n - 1 \in S PROVE n \in S
  <2>1. F[n - 1] \in T
    BY <1>12
  <2>2. F[n] \in T
    BY <1>8, <2>1, ParseValueTyped
  <2> QED
    BY <1>1, <2>2
<1> HIDE DEF S
<1>13. 0..L \subseteq S
  BY <1>1, <1>11, <1>12, Upwards
<1>14. F \in [0..L -> T]
  <2>1. \A n \in 0..L : F[n] \in T
    BY <1>13 DEF S
  <2>2. F = [n \in 0..L |-> F[n]]
    BY <1>7, <1>9
  <2> HIDE DEF T
  <2> QED
    BY <2>1, <2>2
<1>15. \A v \in ValuesIn(h), conv \in Conversions(h) : F[0][v][conv] = Failed(conv)
  BY <1>8 DEF base
<1> QED
  BY <1>8, <1>10, <1>14, <1>15 DEF ParseBy

-----------------------------------------------------------------------------
(* What a conversion makes.                                                *)

\* What it may give for a value when it made n objects.
Fresh(h, n) == {Text, Dated, Empty, ValueOfKind} \cup (Len(h) + 1)..(Len(h) + n)

\* An object of a dict of class cls, which holds what was made before it.
OwnObject(h, cls, n, object) ==
  /\ object \in Objects
  /\ object.type \in {cls, "tuple"} \/ (cls = "JsonDict" /\ object.type = "list")
  /\ object # Object("tuple", <<>>)
  /\ Len(object.items) <= MaxItems
  /\ Range(object.items) \subseteq Fresh(h, n)

Sound(h, cls, conv) ==
  /\ conv \in Conversions(h)
  /\ Range(conv.values) \subseteq Fresh(h, Len(conv.new))
  /\ \A i \in DOMAIN conv.new : OwnObject(h, cls, i - 1, conv.new[i])

\* next is conv with k values more, and what had to be made for them.
Onward(conv, k, next) ==
  /\ Len(conv.new) <= Len(next.new)
  /\ next.ok => conv.ok /\ Len(next.values) = Len(conv.values) + k

SoundParser(h, cls, parse) ==
  /\ parse \in Parsers(h)
  /\ \A v \in ValuesIn(h), conv \in Conversions(h) : Sound(h, cls, conv) =>
       /\ Sound(h, cls, parse[v][conv])
       /\ Onward(conv, 1, parse[v][conv])

\* Items one after the other are as many values.
LEMMA EachSound ==
  ASSUME NEW h, NEW cls, NEW conv, Sound(h, cls, conv), NEW items \in Seq(ValuesIn(h)),
         NEW parse, SoundParser(h, cls, parse)
  PROVE  /\ Sound(h, cls, Each(conv, items, parse))
         /\ Onward(conv, Len(items), Each(conv, items, parse))
<1> DEFINE L == Len(items)
<1>1. L \in Nat /\ \A i \in 1..L : items[i] \in ValuesIn(h)
  BY LenProperties, ElementOfSeq
<1>2. PICK f : EachBy(h, conv, items, parse, f)
  BY EachSteps DEF Sound, SoundParser
<1> DEFINE S == {i \in 0..L : Sound(h, cls, f[i]) /\ Onward(conv, i, f[i])}
<1>3. \A c \in Conversions(h) : Len(c.new) \in Nat /\ Len(c.values) \in Nat
  BY LenProperties DEF Conversions
<1>4. conv \in Conversions(h)
  BY DEF Sound
<1>5. 0 \in S
  <2>1. Onward(conv, 0, conv)
    BY <1>3, <1>4 DEF Onward
  <2> QED
    BY <1>1, <1>2, <2>1 DEF EachBy
<1>6. ASSUME NEW i \in 1..L, i - 1 \in S PROVE i \in S
  <2>1. Sound(h, cls, f[i - 1]) /\ Onward(conv, i - 1, f[i - 1])
    BY <1>6
  <2>2. f[i] = parse[items[i]][f[i - 1]] /\ f[i - 1] \in Conversions(h)
    BY <1>2, <2>1 DEF EachBy, Sound
  <2>3. Sound(h, cls, f[i]) /\ Onward(f[i - 1], 1, f[i])
    BY <1>1, <2>1, <2>2 DEF SoundParser
  <2>4. f[i] \in Conversions(h)
    BY <2>3 DEF Sound
  <2>5. Onward(conv, i, f[i])
    <3> DEFINE a == f[i - 1]
               b == f[i]
    <3>1. /\ Len(conv.new) \in Nat /\ Len(a.new) \in Nat /\ Len(b.new) \in Nat
          /\ Len(conv.values) \in Nat /\ Len(a.values) \in Nat /\ Len(b.values) \in Nat
      BY <1>3, <1>4, <2>2, <2>4
    <3>2. Len(conv.new) <= Len(a.new) /\ Len(a.new) <= Len(b.new)
      BY <2>1, <2>3 DEF Onward
    <3>3. ASSUME b.ok PROVE conv.ok
      BY <2>1, <2>3, <3>3 DEF Onward
    <3>4. ASSUME b.ok
          PROVE  /\ Len(b.values) = Len(a.values) + 1
                 /\ Len(a.values) = Len(conv.values) + (i - 1)
      BY <2>1, <2>3, <3>4 DEF Onward
    <3> HIDE DEF a, b
    <3>5. ASSUME b.ok PROVE Len(b.values) = Len(conv.values) + i
      BY <1>1, <3>1, <3>4, <3>5
    <3>6. Onward(conv, i, b)
      BY <3>1, <3>2, <3>3, <3>5 DEF Onward
    <3> QED
      BY <3>6 DEF b
  <2> QED
    BY <1>1, <2>3, <2>5
<1> HIDE DEF S
<1>7. 0..L \subseteq S
  BY <1>1, <1>5, <1>6, Upwards
<1>8. L \in S
  BY <1>1, <1>7
<1> QED
  BY <1>2, <1>8 DEF S, EachBy

LEMMA FreshGrows ==
  ASSUME NEW h, Len(h) \in Nat, NEW n \in Nat, NEW m \in Nat, n <= m
  PROVE  Fresh(h, n) \subseteq Fresh(h, m)
  BY DEF Fresh

LEMMA Lengths ==
  ASSUME NEW h, NEW conv \in Conversions(h)
  PROVE  /\ Len(conv.new) \in Nat /\ DOMAIN conv.new = 1..Len(conv.new)
         /\ conv.new \in Seq(Objects)
         /\ Len(conv.values) \in Nat /\ DOMAIN conv.values = 1..Len(conv.values)
         /\ conv.values \in Seq(Atoms \cup Nat)
  BY LenProperties DEF Conversions, Objects

\* The values may be others, and the new objects more.
LEMMA SoundWith ==
  ASSUME NEW h, Len(h) \in Nat, NEW cls, NEW conv \in Conversions(h), NEW before, Sound(h, cls, before),
         conv.new = before.new, Range(conv.values) \subseteq Fresh(h, Len(conv.new))
  PROVE  Sound(h, cls, conv)
  BY DEF Sound

\* The range of a sequence with one more element.
LEMMA AppendRange ==
  ASSUME NEW S, NEW seq \in Seq(S), NEW e \in S, NEW T, Range(seq) \subseteq T, e \in T
  PROVE  Range(Append(seq, e)) \subseteq T
<1>1. Append(seq, e) \in Seq(S) /\ Len(Append(seq, e)) = Len(seq) + 1 /\ Len(seq) \in Nat
      /\ DOMAIN Append(seq, e) = 1..(Len(seq) + 1) /\ DOMAIN seq = 1..Len(seq)
  BY AppendProperties, LenProperties
<1>2. ASSUME NEW i \in 1..(Len(seq) + 1) PROVE Append(seq, e)[i] \in T
  <2>1. CASE i = Len(seq) + 1
    BY <2>1, AppendProperties
  <2>2. CASE i # Len(seq) + 1
    <3>1. i \in 1..Len(seq)
      BY <1>1, <2>2
    <3>2. Append(seq, e)[i] = seq[i]
      BY <3>1, AppendProperties
    <3> QED
      BY <1>1, <3>1, <3>2 DEF Range
  <2> QED
    BY <2>1, <2>2
<1> QED
  BY <1>1, <1>2 DEF Range

LEMMA GivenSound ==
  ASSUME NEW h, Heap(h), NEW cls, NEW conv, Sound(h, cls, conv),
         NEW v \in Fresh(h, Len(conv.new))
  PROVE  Sound(h, cls, Given(conv, v)) /\ Onward(conv, 1, Given(conv, v))
<1>1. conv \in Conversions(h) /\ Len(h) \in Nat
  BY LenProperties DEF Sound, Heap
<1>2. v \in Atoms \cup Nat
  BY <1>1, Lengths DEF Fresh, Atoms, Empty, ValueOfKind
<1> DEFINE given == Given(conv, v)
<1>3. /\ given \in Conversions(h) /\ given.new = conv.new /\ given.ok = conv.ok
      /\ given.values = Append(conv.values, v)
  BY <1>1, <1>2, GivenFields
<1>4. Range(given.values) \subseteq Fresh(h, Len(given.new))
  BY <1>1, <1>2, <1>3, Lengths, AppendRange DEF Sound
<1>5. Sound(h, cls, given)
  BY <1>1, <1>3, <1>4, SoundWith
<1>6. Len(given.values) = Len(conv.values) + 1
  BY <1>1, <1>2, <1>3, Lengths, AppendProperties
<1>7. Len(conv.new) <= Len(given.new)
  BY <1>1, <1>3, Lengths
<1> QED
  BY <1>3, <1>5, <1>6, <1>7 DEF Onward

LEMMA PlaceSound ==
  ASSUME NEW h, Heap(h), NEW cls, NEW conv, Sound(h, cls, conv), NEW object \in Objects,
         object = Object("tuple", <<>>) \/ OwnObject(h, cls, Len(conv.new), object)
  PROVE  Sound(h, cls, Place(h, conv, object)) /\ Onward(conv, 1, Place(h, conv, object))
<1> DEFINE placed == Place(h, conv, object)
           n == Len(conv.new)
<1>1. conv \in Conversions(h) /\ Len(h) \in Nat
  BY LenProperties DEF Sound, Heap
<1>2. CASE object = Object("tuple", <<>>)
  <2>1. placed = Given(conv, Empty)
    BY <1>2 DEF Place
  <2>2. Empty \in Fresh(h, n)
    BY DEF Fresh
  <2> QED
    BY <2>1, <2>2, GivenSound
<1>3. CASE object # Object("tuple", <<>>)
  <2>1. OwnObject(h, cls, n, object)
    BY <1>3
  <2>2. /\ placed \in Conversions(h) /\ placed.ok = conv.ok
        /\ placed.new = Append(conv.new, object)
        /\ placed.values = Append(conv.values, Len(h) + n + 1)
    BY <1>1, <1>3, PlaceFields
  <2>3. n \in Nat /\ Len(placed.new) = n + 1 /\ DOMAIN placed.new = 1..(n + 1)
    BY <1>1, <2>2, Lengths, AppendProperties
  <2>4. Fresh(h, n) \subseteq Fresh(h, n + 1)
    BY <1>1, <2>3, FreshGrows
  <2>5. ASSUME NEW i \in 1..(n + 1) PROVE OwnObject(h, cls, i - 1, placed.new[i])
    <3>1. CASE i = n + 1
      <4>1. placed.new[i] = object /\ i - 1 = n
        BY <1>1, <2>2, <2>3, <3>1, Lengths, AppendProperties
      <4> QED
        BY <2>1, <4>1
    <3>2. CASE i # n + 1
      <4>1. i \in 1..n
        BY <2>3, <3>2
      <4>2. placed.new[i] = conv.new[i]
        BY <1>1, <2>2, <4>1, Lengths, AppendProperties
      <4>3. i \in DOMAIN conv.new
        BY <1>1, <4>1, Lengths
      <4> QED
        BY <4>2, <4>3 DEF Sound
    <3> QED
      BY <3>1, <3>2
  <2>6. Range(placed.values) \subseteq Fresh(h, n + 1)
    <3>1. Len(h) + n + 1 \in Fresh(h, n + 1) /\ Len(h) + n + 1 \in Atoms \cup Nat
      BY <1>1, <2>3 DEF Fresh
    <3>2. Range(conv.values) \subseteq Fresh(h, n + 1)
      BY <2>4 DEF Sound
    <3> QED
      BY <1>1, <2>2, <3>1, <3>2, Lengths, AppendRange
  <2>7. Sound(h, cls, placed)
    BY <2>2, <2>3, <2>5, <2>6 DEF Sound
  <2>8. Len(placed.values) = Len(conv.values) + 1
    <3>1. Len(h) + n + 1 \in Atoms \cup Nat
      BY <1>1, <2>3
    <3> QED
      BY <1>1, <2>2, <3>1, Lengths, AppendProperties
  <2>9. Len(conv.new) <= Len(placed.new)
    BY <2>3
  <2> QED
    BY <2>2, <2>7, <2>8, <2>9 DEF Onward
<1> QED
  BY <1>2, <1>3

LEMMA ContainerSound ==
  ASSUME NEW h, Heap(h), NEW cls \in Classes, NEW parse, SoundParser(h, cls, parse),
         NEW conv, Sound(h, cls, conv), NEW o \in DOMAIN h
  PROVE  /\ Sound(h, cls, ParseContainer(h, cls, conv, o, parse))
         /\ Onward(conv, 1, ParseContainer(h, cls, conv, o, parse))
<1> DEFINE entered == Entered(conv, o)
           items == h[o].items
           inner == Each(entered, items, parse)
           left == With(inner, conv.values)
           object == Shape(h[o].type, cls, inner.values)
           result == ParseContainer(h, cls, conv, o, parse)
<1> SUFFICES Sound(h, cls, result) /\ Onward(conv, 1, result)
  OBVIOUS
<1>1. conv \in Conversions(h) /\ Len(h) \in Nat
  BY LenProperties DEF Sound, Heap
<1>2. /\ entered \in Conversions(h) /\ entered.new = conv.new
      /\ entered.values = <<>> /\ entered.ok = conv.ok
  BY <1>1, EnteredFields
<1>3. result = IF inner.ok THEN Place(h, left, object) ELSE inner
  BY DEF ParseContainer
<1>4. items \in Seq(ValuesIn(h)) /\ Len(items) \in Nat /\ Len(items) <= MaxItems
  BY ValueSeq DEF Heap
<1> HIDE DEF entered, items
<1>5. Sound(h, cls, entered)
  <2>1. Range(entered.values) = {}
    BY <1>2 DEF Range
  <2> QED
    BY <1>1, <1>2, <2>1, SoundWith
<1>6. Sound(h, cls, inner) /\ Onward(entered, Len(items), inner)
  BY <1>4, <1>5, EachSound
<1> HIDE DEF inner, result
<1>7. inner \in Conversions(h)
  BY <1>6 DEF Sound
<1>8. Len(conv.new) <= Len(inner.new)
  BY <1>2, <1>6 DEF Onward
<1>9. CASE ~inner.ok
  BY <1>3, <1>6, <1>8, <1>9 DEF Onward
<1>10. CASE inner.ok
  <2>1. conv.ok /\ Len(inner.values) = Len(items)
    <3>1. entered.ok /\ Len(inner.values) = Len(entered.values) + Len(items)
      BY <1>6, <1>10 DEF Onward
    <3>2. Len(entered.values) = 0
      BY <1>2, EmptySeq
    <3> QED
      BY <1>2, <1>4, <3>1, <3>2
  <2>2. /\ left \in Conversions(h) /\ left.new = inner.new
        /\ left.values = conv.values /\ left.ok = inner.ok
    BY <1>1, <1>7, Lengths, WithFields
  <2>3. Sound(h, cls, left)
    <3>1. Range(conv.values) \subseteq Fresh(h, Len(inner.new))
      BY <1>1, <1>7, <1>8, FreshGrows, Lengths DEF Sound
    <3> HIDE DEF left
    <3> QED
      BY <1>1, <1>6, <2>2, <3>1, SoundWith
  <2>4. /\ object \in Objects /\ object.items = inner.values
        /\ object.type \in {cls, "tuple"} \/ (cls = "JsonDict" /\ object.type = "list")
    BY <1>7, ValueSeq, Lengths, ShapeFields
  <2>5. Range(inner.values) \subseteq Fresh(h, Len(inner.new))
    BY <1>6 DEF Sound
  <2> HIDE DEF left, object
  <2>6. object = Object("tuple", <<>>) \/ OwnObject(h, cls, Len(left.new), object)
    BY <1>4, <2>1, <2>2, <2>4, <2>5 DEF OwnObject
  <2>7. Sound(h, cls, Place(h, left, object)) /\ Onward(left, 1, Place(h, left, object))
    BY <2>3, <2>4, <2>6, PlaceSound
  <2>8. result = Place(h, left, object)
    BY <1>3, <1>10
  <2>9. result \in Conversions(h) /\ Len(left.new) <= Len(result.new)
        /\ (result.ok => Len(result.values) = Len(conv.values) + 1)
    BY <2>2, <2>7, <2>8 DEF Sound, Onward
  <2>10. Len(conv.new) <= Len(result.new)
    BY <1>1, <1>7, <1>8, <2>2, <2>9, Lengths
  <2> QED
    BY <2>1, <2>7, <2>8, <2>9, <2>10 DEF Onward
<1> QED
  BY <1>9, <1>10

LEMMA FailedSound ==
  ASSUME NEW h, NEW cls, NEW conv, Sound(h, cls, conv)
  PROVE  Sound(h, cls, Failed(conv)) /\ Onward(conv, 1, Failed(conv))
<1>1. /\ conv \in Conversions(h) /\ Failed(conv) \in Conversions(h) /\ Failed(conv).ok = FALSE
      /\ Failed(conv).new = conv.new /\ Failed(conv).values = conv.values
  BY FailedFields DEF Sound
<1>2. Len(conv.new) <= Len(conv.new)
  BY <1>1, Lengths
<1> QED
  BY <1>1, <1>2 DEF Sound, Onward

LEMMA ParseValueSound ==
  ASSUME NEW h, Heap(h), NEW cls \in Classes, NEW parse, SoundParser(h, cls, parse)
  PROVE  SoundParser(h, cls, ParseValue(h, cls, parse))
<1>1. ParseValue(h, cls, parse) \in Parsers(h)
  BY ParseValueTyped DEF SoundParser
<1>2. ASSUME NEW v \in ValuesIn(h), NEW conv \in Conversions(h), Sound(h, cls, conv)
      PROVE  LET next == ParseValue(h, cls, parse)[v][conv]
             IN Sound(h, cls, next) /\ Onward(conv, 1, next)
  <2> DEFINE next == ParseValue(h, cls, parse)[v][conv]
  <2>1. CASE ~conv.ok
    <3>1. next = conv
      BY <2>1 DEF ParseValue
    <3>2. Onward(conv, 1, conv)
      BY <2>1, Lengths DEF Onward
    <3> QED
      BY <1>2, <3>1, <3>2
  <2>2. CASE conv.ok /\ v \in Atoms
    <3>1. next = Given(conv, Atomic(v))
      BY <2>2 DEF ParseValue
    <3>2. Atomic(v) \in Fresh(h, Len(conv.new))
      BY DEF Fresh, Atomic
    <3> QED
      BY <1>2, <3>1, <3>2, GivenSound
  <2>3. CASE conv.ok /\ v \notin Atoms /\ v \in conv.markers
    <3>1. next = Failed(conv)
      BY <2>3 DEF ParseValue
    <3> QED
      BY <1>2, <3>1, FailedSound
  <2>4. CASE conv.ok /\ v \notin Atoms /\ v \notin conv.markers
    <3>1. next = ParseContainer(h, cls, conv, v, parse)
      BY <2>4 DEF ParseValue
    <3>2. v \in DOMAIN h
      BY <2>4 DEF ValuesIn
    <3> QED
      BY <1>2, <3>1, <3>2, ContainerSound
  <2> QED
    BY <2>1, <2>2, <2>3, <2>4
<1> QED
  BY <1>1, <1>2 DEF SoundParser

LEMMA ParseSound ==
  ASSUME NEW h, Heap(h), NEW cls \in Classes
  PROVE  SoundParser(h, cls, Parse(h, cls))
<1>1. Len(h) \in Nat
  BY LenProperties DEF Heap
<1>2. PICK P : ParseBy(h, cls, P)
  BY ParseSteps
<1> DEFINE S == {n \in 0..Len(h) : SoundParser(h, cls, P[n])}
<1>3. 0 \in S
  <2>1. P[0] \in Parsers(h)
    BY <1>1, <1>2 DEF ParseBy
  <2>2. \A v \in ValuesIn(h), conv \in Conversions(h) : P[0][v][conv] = Failed(conv)
    BY <1>2 DEF ParseBy
  <2>3. SoundParser(h, cls, P[0])
    BY <2>1, <2>2, FailedSound DEF SoundParser
  <2> QED
    BY <1>1, <2>3
<1>4. ASSUME NEW n \in 1..Len(h), n - 1 \in S PROVE n \in S
  <2>1. P[n] = ParseValue(h, cls, P[n - 1])
    BY <1>2 DEF ParseBy
  <2>2. SoundParser(h, cls, P[n])
    BY <1>4, <2>1, ParseValueSound
  <2> QED
    BY <1>1, <2>2
<1> HIDE DEF S
<1>5. 0..Len(h) \subseteq S
  BY <1>1, <1>3, <1>4, Upwards
<1>6. Len(h) \in S
  BY <1>1, <1>5
<1> QED
  BY <1>2, <1>6 DEF S, ParseBy

LEMMA StartSound ==
  ASSUME NEW h, NEW cls, NEW o \in DOMAIN h
  PROVE  Sound(h, cls, Start(o)) /\ Start(o).new = <<>> /\ Start(o).values = <<>>
<1>1. Start(o) \in Conversions(h)
  BY EmptySeq DEF Start, Conversions
<1>2. Start(o).new = <<>> /\ Start(o).values = <<>> /\ Range(<<>>) = {} /\ DOMAIN <<>> = {}
  BY DEF Start, Range
<1> QED
  BY <1>1, <1>2 DEF Sound

\* What __setitem__ gets for a value: at most one, which is what an atom becomes, the
\* empty tuple or an object that was not there before.
LEMMA ConvertSound ==
  ASSUME NEW h, Heap(h), NEW d \in DOMAIN h, NEW v \in ValuesIn(h), NEW cls \in Classes
  PROVE  LET conv == Convert(h, d, v, cls)
         IN /\ Sound(h, cls, conv)
            /\ conv.ok => conv.values[1] \in Fresh(h, Len(conv.new))
<1> DEFINE conv == Convert(h, d, v, cls)
<1>1. Sound(h, cls, Start(d)) /\ Start(d).values = <<>> /\ Start(d) \in Conversions(h)
  BY StartSound DEF Sound
<1>2. Sound(h, cls, conv) /\ Onward(Start(d), 1, conv)
  BY <1>1, ParseSound DEF Convert, SoundParser
<1>3. ASSUME conv.ok PROVE conv.values[1] \in Fresh(h, Len(conv.new))
  <2> HIDE DEF conv
  <2>1. Len(conv.values) = Len(Start(d).values) + 1
    BY <1>2, <1>3 DEF Onward
  <2>2. conv \in Conversions(h) /\ DOMAIN conv.values = 1..1
    BY <1>1, <1>2, <2>1, EmptySeq, Lengths DEF Sound
  <2>3. conv.values[1] \in Range(conv.values)
    BY <2>2 DEF Range
  <2> QED
    BY <1>2, <2>3 DEF Sound
<1> QED
  BY <1>2, <1>3

\* The items of a mapping become as many.
LEMMA ParseObjectSound ==
  ASSUME NEW h, Heap(h), NEW o \in DOMAIN h, NEW cls \in Classes
  PROVE  LET conv == ParseObject(h, o, cls)
         IN /\ Sound(h, cls, conv)
            /\ conv.ok => Len(conv.values) <= MaxItems
<1> DEFINE conv == ParseObject(h, o, cls)
<1>1. Sound(h, cls, Start(o)) /\ Start(o).values = <<>>
  BY StartSound
<1>2. h[o].items \in Seq(ValuesIn(h)) /\ Len(h[o].items) \in Nat /\ Len(h[o].items) <= MaxItems
  BY ValueSeq DEF Heap
<1>3. Sound(h, cls, conv) /\ Onward(Start(o), Len(h[o].items), conv)
  BY <1>1, <1>2, ParseSound, EachSound DEF ParseObject
<1>4. ASSUME conv.ok PROVE Len(conv.values) <= MaxItems
  <2> HIDE DEF conv
  <2>1. Len(conv.values) = Len(Start(o).values) + Len(h[o].items)
    BY <1>3, <1>4 DEF Onward
  <2> QED
    BY <1>1, <1>2, <2>1, EmptySeq
<1> QED
  BY <1>3, <1>4

-----------------------------------------------------------------------------
(* The heap: what a step may do to it.                                     *)

\* What a conversion gives for an atom, but for the object that is the value of an Enum.
Plain == {Text, Dated}

\* No object of the caller is an item of a dict that converts its items, for the
\* objects own that are the caller's and the dicts M that others were merged into.
Clean(h, own, M) ==
  \A d \in InstancesIn(h, Classes) \ M :
    Range(h[d].items) \subseteq Plain \cup (DOMAIN h \ own)

\* Objects that only |= can change, and that hold only such objects that are older,
\* where it did not.
Unchanging == {"tuple", "FrozenJsonDict"}
Solid(h, S, M) ==
  /\ S \subseteq InstancesIn(h, Unchanging)
  /\ \A o \in S \ M :
       Range(h[o].items) \subseteq Plain \cup {ValueOfKind} \cup {p \in S : p < o}

Frozen(h) == InstancesIn(h, {"FrozenJsonDict"})

Kept(h, own, M) ==
  /\ Heap(h)
  /\ own \subseteq DOMAIN h \ {Empty, ValueOfKind}
  /\ M \subseteq InstancesIn(h, Classes)
  /\ Clean(h, own, M)
  /\ \E S : Solid(h, S, M) /\ Frozen(h) \subseteq S

\* Objects stay what they are, and those that cannot change have the same items.
Grows(h, g) ==
  /\ DOMAIN h \subseteq DOMAIN g
  /\ \A o \in DOMAIN h :
       /\ g[o].type = h[o].type
       /\ h[o].type \in Unchanging => g[o] = h[o]
       /\ Len(h[o].items) <= Len(g[o].items)

LEMMA GrowsTransitive ==
  ASSUME NEW f, Heap(f), NEW g, Heap(g), NEW h, Heap(h), Grows(f, g), Grows(g, h)
  PROVE  Grows(f, h)
<1>1. \A o \in DOMAIN f : Len(f[o].items) \in Nat
  BY ValueSeq
<1>2. \A o \in DOMAIN g : Len(g[o].items) \in Nat
  BY ValueSeq
<1>3. \A o \in DOMAIN h : Len(h[o].items) \in Nat
  BY ValueSeq
<1>4. ASSUME NEW o \in DOMAIN f PROVE Len(f[o].items) <= Len(h[o].items)
  <2>1. o \in DOMAIN g /\ o \in DOMAIN h
    BY DEF Grows
  <2>2. Len(f[o].items) <= Len(g[o].items) /\ Len(g[o].items) <= Len(h[o].items)
    BY <2>1 DEF Grows
  <2> QED
    BY <1>1, <1>2, <1>3, <2>1, <2>2
<1> QED
  BY <1>4 DEF Grows

LEMMA SolidStays ==
  ASSUME NEW h, NEW g, Grows(h, g), NEW S, NEW M, Solid(h, S, M)
  PROVE  Solid(g, S, M) /\ \A o \in S : g[o] = h[o]
  BY DEF Solid, Grows, InstancesIn

\* The heap with an object more.
LEMMA AppendedHeap ==
  ASSUME NEW h, Heap(h), NEW object \in Objects, object # Object("tuple", <<>>),
         Len(object.items) <= MaxItems, Range(object.items) \subseteq ValuesIn(h)
  PROVE  LET g == Append(h, object)
         IN /\ Heap(g) /\ Grows(h, g)
            /\ DOMAIN g = DOMAIN h \cup {Len(h) + 1} /\ Len(h) + 1 \notin DOMAIN h
            /\ \A o \in DOMAIN h : g[o] = h[o]
            /\ g[Len(h) + 1] = object
<1> DEFINE g == Append(h, object)
<1>1. h \in Seq(Objects) /\ Len(h) \in Nat /\ DOMAIN h = 1..Len(h)
  BY LenProperties DEF Heap
<1>2. /\ g \in Seq(Objects) /\ Len(g) = Len(h) + 1 /\ DOMAIN g = 1..(Len(h) + 1)
      /\ g[Len(h) + 1] = object /\ \A o \in 1..Len(h) : g[o] = h[o]
  BY <1>1, AppendProperties, LenProperties
<1> HIDE DEF g
<1>3. DOMAIN g = DOMAIN h \cup {Len(h) + 1} /\ Len(h) + 1 \notin DOMAIN h
  BY <1>1, <1>2
<1>4. \A o \in DOMAIN h : g[o] = h[o]
  BY <1>1, <1>2
<1>5. Empty \in DOMAIN h /\ Empty # Len(h) + 1
  BY <1>3 DEF Heap
<1>6. ASSUME NEW o \in DOMAIN g
      PROVE  /\ Len(g[o].items) <= MaxItems
             /\ Range(g[o].items) \subseteq ValuesIn(g)
             /\ g[o] = Object("tuple", <<>>) <=> o = Empty
  <2>1. CASE o \in DOMAIN h
    BY <1>3, <1>4, <2>1 DEF Heap, ValuesIn
  <2>2. CASE o = Len(h) + 1
    BY <1>2, <1>3, <1>5, <2>2 DEF ValuesIn
  <2> QED
    BY <1>3, <2>1, <2>2
<1>7. Heap(g)
  BY <1>2, <1>3, <1>5, <1>6 DEF Heap
<1>8. \A o \in DOMAIN h : Len(h[o].items) <= Len(h[o].items)
  BY ValueSeq
<1>9. Grows(h, g)
  BY <1>3, <1>4, <1>8 DEF Grows
<1> QED
  BY <1>2, <1>3, <1>4, <1>7, <1>9 DEF g

\* The heap with other items in one that can change.
LEMMA ReplacedHeap ==
  ASSUME NEW h, Heap(h), NEW d \in DOMAIN h, h[d].type \notin Unchanging,
         NEW items \in Seq(Atoms \cup Nat), Len(items) <= MaxItems,
         Len(h[d].items) <= Len(items), Range(items) \subseteq ValuesIn(h)
  PROVE  LET g == [h EXCEPT ![d].items = items]
         IN /\ Heap(g) /\ Grows(h, g) /\ DOMAIN g = DOMAIN h
            /\ \A o \in DOMAIN h \ {d} : g[o] = h[o]
            /\ g[d].type = h[d].type /\ g[d].items = items
<1> DEFINE g == [h EXCEPT ![d].items = items]
<1>1. h \in Seq(Objects) /\ Len(h) \in Nat /\ DOMAIN h = 1..Len(h) /\ h \in [1..Len(h) -> Objects]
  BY LenProperties DEF Heap
<1>2. DOMAIN g = DOMAIN h /\ \A o \in DOMAIN h \ {d} : g[o] = h[o]
  OBVIOUS
<1>3. g[d].type = h[d].type /\ g[d].items = items /\ g[d] \in Objects
  BY <1>1 DEF Objects
<1>4. g \in Seq(Objects)
  <2>1. \A o \in 1..Len(h) : g[o] \in Objects
    BY <1>1, <1>2, <1>3
  <2>2. g \in [1..Len(h) -> Objects]
    BY <1>1, <2>1
  <2> QED
    BY <1>1, <2>2, SeqDef
<1> HIDE DEF g
<1>5. g[d] # Object("tuple", <<>>) /\ h[d] # Object("tuple", <<>>)
  BY <1>3 DEF Object, Unchanging
<1>6. ASSUME NEW o \in DOMAIN g
      PROVE  /\ Len(g[o].items) <= MaxItems
             /\ Range(g[o].items) \subseteq ValuesIn(g)
             /\ g[o] = Object("tuple", <<>>) <=> o = Empty
  <2>1. CASE o # d
    BY <1>2, <2>1 DEF Heap, ValuesIn
  <2>2. CASE o = d
    BY <1>2, <1>3, <1>5, <2>2 DEF Heap, ValuesIn
  <2> QED
    BY <2>1, <2>2
<1>7. Heap(g)
  <2>1. ValueOfKind \in DOMAIN g /\ g[ValueOfKind].type \in {"list", "dict"}
    BY <1>2, <1>3 DEF Heap
  <2> QED
    BY <1>2, <1>4, <1>6, <2>1 DEF Heap
<1>8. \A o \in DOMAIN h : Len(h[o].items) <= Len(h[o].items)
  BY ValueSeq
<1>9. Grows(h, g)
  BY <1>2, <1>3, <1>8 DEF Grows
<1> QED
  BY <1>2, <1>3, <1>7, <1>9 DEF g

\* The heap with what a conversion made.
LEMMA GrownHeap ==
  ASSUME NEW h, Heap(h), NEW cls, NEW conv, Sound(h, cls, conv)
  PROVE  LET g == h \o conv.new
         IN /\ Heap(g) /\ Grows(h, g)
            /\ Len(g) = Len(h) + Len(conv.new)
            /\ \A o \in DOMAIN h : g[o] = h[o]
            /\ \A o \in DOMAIN g \ DOMAIN h : OwnObject(h, cls, o - Len(h) - 1, g[o])
            /\ DOMAIN g = DOMAIN h \cup (Len(h) + 1)..(Len(h) + Len(conv.new))
            /\ DOMAIN h \cap (Len(h) + 1)..(Len(h) + Len(conv.new)) = {}
            /\ Fresh(h, Len(conv.new)) \subseteq Plain \cup DOMAIN g
<1> DEFINE n == Len(conv.new)
           g == h \o conv.new
<1>1. h \in Seq(Objects) /\ Len(h) \in Nat /\ DOMAIN h = 1..Len(h)
  BY LenProperties DEF Heap
<1>2. conv.new \in Seq(Objects) /\ n \in Nat /\ DOMAIN conv.new = 1..n
  BY Lengths DEF Sound
<1>3. g \in Seq(Objects) /\ Len(g) = Len(h) + n /\ DOMAIN g = 1..(Len(h) + n)
  BY <1>1, <1>2, ConcatProperties, LenProperties
<1>4. \A o \in 1..Len(h) : g[o] = h[o]
  BY <1>1, <1>2, ConcatProperties
<1>5. ASSUME NEW o \in (Len(h) + 1)..(Len(h) + n) PROVE OwnObject(h, cls, o - Len(h) - 1, g[o])
  <2>1. o - Len(h) \in 1..n /\ o \in 1..(Len(h) + n) /\ ~(o <= Len(h))
    BY <1>1, <1>2
  <2>2. g[o] = conv.new[o - Len(h)]
    BY <1>1, <1>2, <2>1, ConcatProperties
  <2> QED
    BY <1>2, <2>1, <2>2 DEF Sound
<1> HIDE DEF g, n
<1>6. /\ DOMAIN g = DOMAIN h \cup (Len(h) + 1)..(Len(h) + n)
      /\ DOMAIN h \cap (Len(h) + 1)..(Len(h) + n) = {}
  BY <1>1, <1>2, <1>3
<1>7. Empty \in DOMAIN h /\ ValueOfKind \in DOMAIN h
  BY DEF Heap
<1>8. Fresh(h, n) \subseteq Plain \cup DOMAIN g
  BY <1>6, <1>7 DEF Fresh, Plain
<1>9. ASSUME NEW o \in DOMAIN g
      PROVE  /\ Len(g[o].items) <= MaxItems
             /\ Range(g[o].items) \subseteq ValuesIn(g)
             /\ g[o] = Object("tuple", <<>>) <=> o = Empty
  <2>1. CASE o \in DOMAIN h
    BY <1>1, <1>4, <1>6, <2>1 DEF Heap, ValuesIn
  <2>2. CASE o \notin DOMAIN h
    <3> DEFINE before == o - Len(h) - 1
    <3>1. OwnObject(h, cls, before, g[o]) /\ before \in Nat /\ before <= n
      BY <1>1, <1>2, <1>5, <1>6, <2>2
    <3> HIDE DEF before
    <3>2. Fresh(h, before) \subseteq Fresh(h, n)
      BY <1>1, <1>2, <3>1, FreshGrows
    <3> QED
      BY <1>7, <1>8, <2>2, <3>1, <3>2 DEF OwnObject, ValuesIn, Atoms, Plain
  <2> QED
    BY <2>1, <2>2
<1>10. Heap(g)
  <2>1. g[ValueOfKind].type \in {"list", "dict"}
    BY <1>1, <1>4, <1>7 DEF Heap
  <2> QED
    BY <1>3, <1>6, <1>7, <1>9, <2>1 DEF Heap
<1>11. \A o \in DOMAIN h : Len(h[o].items) <= Len(h[o].items)
  BY ValueSeq
<1>12. Grows(h, g)
  BY <1>1, <1>4, <1>6, <1>11 DEF Grows
<1>13. \A o \in DOMAIN g \ DOMAIN h : OwnObject(h, cls, o - Len(h) - 1, g[o])
  BY <1>5, <1>6
<1> QED
  BY <1>1, <1>3, <1>4, <1>6, <1>8, <1>10, <1>12, <1>13 DEF g, n

\* The conversion leaves what is there alone, and makes nothing that is the caller's;
\* what it makes for a frozen dict cannot change.
LEMMA GrownKept ==
  ASSUME NEW h, NEW own, NEW M, Kept(h, own, M), NEW cls \in Classes, NEW conv, Sound(h, cls, conv)
  PROVE  LET g == h \o conv.new
         IN /\ Kept(g, own, M)
            /\ cls = "JsonDict" => Frozen(g) = Frozen(h)
            /\ \E S : /\ Solid(g, S, M) /\ Frozen(g) \subseteq S
                      /\ cls = "FrozenJsonDict" => Fresh(h, Len(conv.new)) \subseteq Plain \cup {ValueOfKind} \cup S
<1> DEFINE n == Len(conv.new)
           New == (Len(h) + 1)..(Len(h) + n)
           g == h \o conv.new
<1> SUFFICES
      /\ Kept(g, own, M)
      /\ cls = "JsonDict" => Frozen(g) = Frozen(h)
      /\ \E S : /\ Solid(g, S, M) /\ Frozen(g) \subseteq S
                /\ cls = "FrozenJsonDict" => Fresh(h, n) \subseteq Plain \cup {ValueOfKind} \cup S
  OBVIOUS
<1>1. /\ Heap(g) /\ Grows(h, g) /\ DOMAIN g = DOMAIN h \cup New /\ DOMAIN h \cap New = {}
      /\ Fresh(h, n) \subseteq Plain \cup DOMAIN g
      /\ \A o \in DOMAIN h : g[o] = h[o]
      /\ \A o \in New : OwnObject(h, cls, o - Len(h) - 1, g[o])
  BY GrownHeap DEF Kept
<1>2. Fresh(h, n) = Plain \cup {Empty, ValueOfKind} \cup New
  BY DEF Fresh, Plain
<1>2a. ASSUME NEW o \in New
      PROVE  /\ OwnObject(h, cls, o - Len(h) - 1, g[o])
             /\ Range(g[o].items) \subseteq Plain \cup {Empty, ValueOfKind} \cup {p \in New : p < o}
             /\ Empty < o
  <2>1. /\ n \in Nat /\ Len(h) \in Nat /\ DOMAIN h = 1..Len(h) /\ Empty \in DOMAIN h
    BY LenProperties, Lengths DEF Sound, Kept, Heap
  <2>2. Fresh(h, o - Len(h) - 1) \subseteq Plain \cup {Empty, ValueOfKind} \cup {p \in New : p < o}
    BY <2>1 DEF Fresh, Plain
  <2> HIDE DEF g
  <2> QED
    BY <1>1, <2>1, <2>2 DEF OwnObject
<1> HIDE DEF g, New
<1>3. Clean(g, own, M)
  <2> SUFFICES ASSUME NEW d \in DOMAIN g, g[d].type \in Classes, d \notin M
               PROVE  Range(g[d].items) \subseteq Plain \cup (DOMAIN g \ own)
    BY DEF Clean, InstancesIn
  <2>1. CASE d \in DOMAIN h
    BY <1>1, <2>1 DEF Kept, Clean, InstancesIn
  <2>2. CASE d \notin DOMAIN h
    <3>1. Range(g[d].items) \subseteq Plain \cup {Empty, ValueOfKind} \cup New
      BY <1>2a, <1>1, <2>2
    <3>2. {Empty, ValueOfKind} \cup New \subseteq DOMAIN g \ own
      BY <1>1 DEF Kept, Heap
    <3> QED
      BY <3>1, <3>2
  <2> QED
    BY <2>1, <2>2
<1>4. own \subseteq DOMAIN g \ {Empty, ValueOfKind} /\ M \subseteq InstancesIn(g, Classes)
  BY <1>1 DEF Kept, InstancesIn, Grows
<1>5. PICK S : Solid(h, S, M) /\ Frozen(h) \subseteq S
  BY DEF Kept
<1>6. Solid(g, S, M)
  BY <1>1, <1>5, SolidStays
<1>7. CASE cls = "JsonDict"
  <2>1. Frozen(g) = Frozen(h)
    BY <1>2a, <1>1, <1>7 DEF Frozen, InstancesIn, OwnObject
  <2>2. Solid(g, S, M) /\ Frozen(g) \subseteq S
    BY <1>5, <1>6, <2>1
  <2>3. Kept(g, own, M)
    BY <1>1, <1>3, <1>4, <2>2 DEF Kept
  <2> QED
    BY <1>7, <2>1, <2>2, <2>3
<1>8. CASE cls = "FrozenJsonDict"
  <2> DEFINE T == S \cup {Empty} \cup New
  <2>1. Empty \in DOMAIN g /\ g[Empty] = Object("tuple", <<>>)
    BY <1>1 DEF Heap
  <2>2. g[Empty].type = "tuple" /\ Range(g[Empty].items) = {}
    BY <2>1 DEF Object, Range
  <2>3. \A o \in New : /\ g[o].type \in Unchanging
                        /\ Range(g[o].items) \subseteq Plain \cup {ValueOfKind} \cup {p \in T : p < o}
    BY <1>2a, <1>8 DEF OwnObject, Unchanging
  <2>4. Solid(g, T, M)
    BY <1>1, <1>6, <2>1, <2>2, <2>3 DEF Solid, InstancesIn, Unchanging
  <2>5. Frozen(g) \subseteq T
    BY <1>1, <1>5 DEF Frozen, InstancesIn
  <2>6. Fresh(h, n) \subseteq Plain \cup {ValueOfKind} \cup T
    BY <1>2
  <2> HIDE DEF T
  <2>7. Kept(g, own, M)
    BY <1>1, <1>3, <1>4, <2>4, <2>5 DEF Kept
  <2> QED
    BY <1>8, <2>4, <2>5, <2>6, <2>7
<1> QED
  BY <1>7, <1>8 DEF Classes

\* One object more, which is no dict.
LEMMA MadeKept ==
  ASSUME NEW h, NEW own, NEW M, Kept(h, own, M), NEW object \in Objects, object.type \notin Classes,
         object # Object("tuple", <<>>), Len(object.items) <= MaxItems,
         Range(object.items) \subseteq ValuesIn(h)
  PROVE  LET g == Append(h, object)
         IN Kept(g, own \cup {Len(h) + 1}, M) /\ Grows(h, g) /\ Frozen(g) = Frozen(h)
<1> DEFINE new == Len(h) + 1
           g == Append(h, object)
<1>1. /\ Heap(g) /\ Grows(h, g) /\ DOMAIN g = DOMAIN h \cup {new} /\ new \notin DOMAIN h
      /\ (\A o \in DOMAIN h : g[o] = h[o]) /\ g[new] = object
  BY AppendedHeap DEF Kept
<1> HIDE DEF g, new
<1>2. Clean(g, own \cup {new}, M)
  BY <1>1 DEF Clean, InstancesIn, Kept
<1>3. Empty \in DOMAIN h /\ ValueOfKind \in DOMAIN h
  BY DEF Kept, Heap
<1>4. /\ own \cup {new} \subseteq DOMAIN g \ {Empty, ValueOfKind}
      /\ M \subseteq InstancesIn(g, Classes)
  BY <1>1, <1>3 DEF Kept, InstancesIn, Grows
<1>5. Frozen(g) = Frozen(h)
  BY <1>1 DEF Frozen, InstancesIn, Classes
<1>6. PICK S : Solid(h, S, M) /\ Frozen(h) \subseteq S
  BY DEF Kept
<1>7. Solid(g, S, M)
  BY <1>1, <1>6, SolidStays
<1>8. Kept(g, own \cup {new}, M)
  BY <1>1, <1>2, <1>4, <1>5, <1>6, <1>7 DEF Kept
<1> QED
  BY <1>1, <1>5, <1>8 DEF g, new

\* The items may be those of d from now on, which can change.
Replaceable(h, own, M, d, items) ==
  /\ d \in DOMAIN h /\ h[d].type \notin Unchanging
  /\ items \in Seq(Atoms \cup Nat)
  /\ Len(items) <= MaxItems /\ Len(h[d].items) <= Len(items)
  /\ Range(items) \subseteq ValuesIn(h)
  /\ h[d].type \in Classes /\ d \notin M => Range(items) \subseteq Plain \cup (DOMAIN h \ own)

Replaced(h, d, items) == [h EXCEPT ![d].items = items]

LEMMA ReplacedKept ==
  ASSUME NEW h, NEW own, NEW M, Kept(h, own, M), NEW d, NEW items, Replaceable(h, own, M, d, items),
         NEW g, g = Replaced(h, d, items)
  PROVE  Kept(g, own, M) /\ Grows(h, g) /\ DOMAIN g = DOMAIN h /\ Frozen(g) = Frozen(h)
<1>1. /\ Heap(g) /\ Grows(h, g) /\ DOMAIN g = DOMAIN h
      /\ \A o \in DOMAIN h \ {d} : g[o] = h[o]
      /\ g[d].type = h[d].type /\ g[d].items = items
  BY ReplacedHeap DEF Kept, Replaceable, Replaced
<1>2. Clean(g, own, M)
  <2> SUFFICES ASSUME NEW o \in DOMAIN g, g[o].type \in Classes, o \notin M
               PROVE  Range(g[o].items) \subseteq Plain \cup (DOMAIN g \ own)
    BY DEF Clean, InstancesIn
  <2>1. CASE o = d
    BY <1>1, <2>1 DEF Replaceable
  <2>2. CASE o # d
    BY <1>1, <2>2 DEF Clean, InstancesIn, Kept
  <2> QED
    BY <2>1, <2>2
<1>3. Frozen(g) = Frozen(h)
  BY <1>1 DEF Frozen, InstancesIn, Replaceable
<1>4. PICK S : Solid(h, S, M) /\ Frozen(h) \subseteq S
  BY DEF Kept
<1>5. Solid(g, S, M)
  BY <1>1, <1>4, SolidStays
<1>6. Kept(g, own, M)
  <2>1. M \subseteq InstancesIn(g, Classes)
    BY <1>1 DEF Kept, InstancesIn, Grows
  <2> QED
    BY <1>1, <1>2, <1>3, <1>4, <1>5, <2>1 DEF Kept
<1> QED
  BY <1>1, <1>3, <1>6

\* One item more or another one in its place.
LEMMA PutItems ==
  ASSUME NEW T, NEW items \in Seq(T), Len(items) <= MaxItems, NEW key \in 1..MaxItems, NEW v \in T
  PROVE  /\ Put(items, key, v) \in Seq(T)
         /\ Len(Put(items, key, v)) <= MaxItems
         /\ Len(items) <= Len(Put(items, key, v))
         /\ \A V : Range(items) \cup {v} \subseteq V => Range(Put(items, key, v)) \subseteq V
<1>1. Len(items) \in Nat /\ DOMAIN items = 1..Len(items) /\ items \in [1..Len(items) -> T]
  BY LenProperties
<1>2. MaxItems \in Nat
  BY BoundsAssumption
<1>3. CASE key \in DOMAIN items
  <2> DEFINE put == [items EXCEPT ![key] = v]
  <2>1. put \in [1..Len(items) -> T] /\ \A i \in DOMAIN items : put[i] = v \/ put[i] = items[i]
    BY <1>1
  <2>2. put \in Seq(T) /\ Len(put) = Len(items) /\ DOMAIN put = 1..Len(items)
    BY <1>1, <2>1, SeqDef, LenProperties
  <2>3. Put(items, key, v) = put
    BY <1>3 DEF Put
  <2> HIDE DEF put
  <2>4. Range(put) \subseteq Range(items) \cup {v}
    BY <1>1, <2>1, <2>2 DEF Range
  <2> QED
    BY <1>1, <1>2, <2>2, <2>3, <2>4
<1>4. CASE key \notin DOMAIN items
  <2>1. Put(items, key, v) = Append(items, v)
    BY <1>4 DEF Put
  <2>2. Append(items, v) \in Seq(T) /\ Len(Append(items, v)) = Len(items) + 1
    BY AppendProperties
  <2>3. Len(items) + 1 <= MaxItems
    BY <1>1, <1>2, <1>4
  <2>4. \A V : Range(items) \cup {v} \subseteq V => Range(Append(items, v)) \subseteq V
    BY AppendRange
  <2> QED
    BY <1>1, <1>2, <2>1, <2>2, <2>3, <2>4
<1> QED
  BY <1>3, <1>4

\* __setitem__ of a value, whatever it is and whether it raises.
LEMMA WithItemKept ==
  ASSUME NEW h, NEW own, NEW M, Kept(h, own, M), NEW d \in InstancesIn(h, Settable),
         NEW key \in 1..MaxItems, NEW v \in ValuesIn(h)
  PROVE  LET g == WithItem(h, d, key, v)
         IN Kept(g, own, M) /\ Grows(h, g) /\ Frozen(g) = Frozen(h)
<1> DEFINE conv == Convert(h, d, v, "JsonDict")
           w == conv.values[1]
           f == h \o conv.new
           items == Put(f[d].items, key, w)
           g == [f EXCEPT ![d].items = Put(@, key, w)]
<1>1. Heap(h) /\ d \in DOMAIN h /\ h[d].type = "JsonDict" /\ "JsonDict" \in Classes
  BY DEF Kept, InstancesIn, Settable, Classes
<1>2. Sound(h, "JsonDict", conv) /\ (conv.ok => w \in Fresh(h, Len(conv.new)))
  BY <1>1, ConvertSound
<1>3. WithItem(h, d, key, v) = IF conv.ok THEN g ELSE h
  BY DEF WithItem
<1> HIDE DEF conv
<1>4. CASE ~conv.ok
  <2>1. \A o \in DOMAIN h : Len(h[o].items) <= Len(h[o].items)
    BY <1>1, ValueSeq
  <2> QED
    BY <1>3, <1>4, <2>1 DEF Grows
<1>5. CASE conv.ok
  <2>1. Kept(f, own, M) /\ Frozen(f) = Frozen(h)
    BY <1>1, <1>2, GrownKept
  <2>2. /\ Grows(h, f) /\ f[d] = h[d] /\ d \in DOMAIN f
        /\ w \in Plain \cup DOMAIN f
        /\ Fresh(h, Len(conv.new)) \cap own = {}
    <3> DEFINE New == (Len(h) + 1)..(Len(h) + Len(conv.new))
    <3>1. /\ Grows(h, f) /\ (\A o \in DOMAIN h : f[o] = h[o]) /\ DOMAIN f = DOMAIN h \cup New
          /\ DOMAIN h \cap New = {} /\ Fresh(h, Len(conv.new)) \subseteq Plain \cup DOMAIN f
      BY <1>1, <1>2, GrownHeap
    <3>2. Fresh(h, Len(conv.new)) = Plain \cup {Empty, ValueOfKind} \cup New
      BY DEF Fresh, Plain
    <3> HIDE DEF New
    <3>3. Plain \cap DOMAIN h = {}
      <4>1. DOMAIN h = 1..Len(h) /\ Len(h) \in Nat
        BY <1>1, ValueSeq
      <4> QED
        BY <4>1, AtomsAssumption DEF Plain, Atoms
    <3>4. Fresh(h, Len(conv.new)) \cap own = {}
      BY <3>1, <3>2, <3>3 DEF Kept
    <3> QED
      BY <1>1, <1>2, <1>5, <3>1, <3>4
  <2> HIDE DEF f, w
  <2>3. Heap(f)
    BY <2>1 DEF Kept
  <2>4. /\ f[d].items \in Seq(ValuesIn(f)) /\ Len(f[d].items) <= MaxItems
        /\ w \in ValuesIn(f) /\ ValuesIn(f) \subseteq Atoms \cup Nat
    <3>1. /\ DOMAIN f = 1..Len(f) /\ Len(f) \in Nat
          /\ f[d].items \in Seq(ValuesIn(f))
      BY <2>2, <2>3, ValueSeq
    <3>2. Len(f[d].items) <= MaxItems
      BY <2>2, <2>3 DEF Heap
    <3>3. w \in ValuesIn(f)
      BY <2>2 DEF ValuesIn, Atoms, Plain
    <3>4. ValuesIn(f) \subseteq Atoms \cup Nat
      BY <3>1 DEF ValuesIn
    <3> QED
      BY <3>1, <3>2, <3>3, <3>4
  <2>5. /\ items \in Seq(ValuesIn(f)) /\ Len(items) <= MaxItems /\ Len(f[d].items) <= Len(items)
        /\ \A V : Range(f[d].items) \cup {w} \subseteq V => Range(items) \subseteq V
    BY <2>4, PutItems
  <2>6. d \notin M => Range(f[d].items) \subseteq Plain \cup (DOMAIN f \ own)
    BY <1>1, <2>1, <2>2 DEF Kept, Clean, InstancesIn
  <2>7. w \in Plain \cup (DOMAIN f \ own)
    BY <1>2, <1>5, <2>2
  <2>8. d \notin M => Range(items) \subseteq Plain \cup (DOMAIN f \ own)
    BY <2>5, <2>6, <2>7
  <2>9. Range(items) \subseteq ValuesIn(f)
    <3>1. Range(f[d].items) \subseteq ValuesIn(f)
      BY <2>2, <2>3 DEF Heap
    <3> QED
      BY <2>4, <2>5, <3>1
  <2>10. items \in Seq(Atoms \cup Nat)
    <3> HIDE DEF items
    <3>1. Len(items) \in Nat /\ items \in [1..Len(items) -> ValuesIn(f)]
      BY <2>5, LenProperties
    <3>2. items \in [1..Len(items) -> Atoms \cup Nat]
      BY <2>4, <3>1
    <3> QED
      BY <3>1, <3>2, SeqDef
  <2>11. g = Replaced(f, d, items)
    BY DEF Replaced
  <2>12. f[d].type \notin Unchanging
    BY <1>1, <2>2 DEF Unchanging
  <2> HIDE DEF g, items
  <2>13. Kept(g, own, M) /\ Grows(f, g) /\ Frozen(g) = Frozen(f)
    <3>1. Len(items) <= MaxItems /\ Len(f[d].items) <= Len(items)
      BY <2>5
    <3>2. Kept(f, own, M) /\ d \in DOMAIN f
      BY <2>1, <2>2
    <3>3. Replaceable(f, own, M, d, items)
      BY <2>8, <2>9, <2>10, <2>12, <3>1, <3>2 DEF Replaceable
    <3> QED
      BY <2>11, <3>2, <3>3, ReplacedKept
  <2>14. Grows(h, g)
    BY <1>1, <2>2, <2>3, <2>13, GrowsTransitive DEF Kept
  <2> QED
    BY <1>3, <1>5, <2>1, <2>13, <2>14
<1> QED
  BY <1>4, <1>5

\* update keeps what each of its items does.
LEMMA UpdatedKept ==
  ASSUME NEW h, NEW own, NEW M, Kept(h, own, M), NEW d \in InstancesIn(h, Settable), NEW m \in DOMAIN h
  PROVE  LET g == Updated(h, d, m)
         IN Kept(g, own, M) /\ Grows(h, g) /\ Frozen(g) = Frozen(h)
<1> DEFINE L == Len(h[m].items)
           Fits(g) == Kept(g, own, M) /\ Grows(h, g) /\ Frozen(g) = Frozen(h)
           T == {c \in [heap : Seq(Objects), ok : BOOLEAN] : Fits(c.heap)}
           base == [heap |-> h, ok |-> TRUE]
           item(c, n) == UpdateItem(c.heap, c.ok, d, n, c.heap[m].items[n])
           step == [n \in 1..L |-> [c \in T |-> item(c, n)]]
           def(f) == [n \in 0..L |-> IF n = 0 THEN base ELSE item(f[n - 1], n)]
           F == CHOOSE f : f = def(f)
<1>1. /\ Heap(h) /\ L \in Nat /\ L <= MaxItems /\ MaxItems \in Nat
      /\ \A o \in DOMAIN h : Len(h[o].items) <= Len(h[o].items)
  BY ValueSeq, BoundsAssumption DEF Kept, Heap
<1>2. base \in T
  <2>1. Fits(h)
    BY <1>1 DEF Grows
  <2> QED
    BY <1>1, <2>1 DEF Heap
<1>3. ASSUME NEW n \in 1..L, NEW c \in T PROVE item(c, n) \in T
  <2> DEFINE g == c.heap
             v == g[m].items[n]
  <2>1. g \in Seq(Objects) /\ c.ok \in BOOLEAN /\ Kept(g, own, M) /\ Grows(h, g) /\ Frozen(g) = Frozen(h)
    OBVIOUS
  <2> HIDE DEF g
  <2>2. Heap(g) /\ m \in DOMAIN g /\ d \in InstancesIn(g, Settable) /\ n \in 1..MaxItems
    BY <1>1, <2>1 DEF Kept, Grows, InstancesIn
  <2>3. v \in ValuesIn(g)
    <3>1. L <= Len(g[m].items) /\ Len(g[m].items) \in Nat /\ g[m].items \in Seq(ValuesIn(g))
      BY <2>1, <2>2, ValueSeq DEF Grows
    <3>2. n \in 1..Len(g[m].items)
      BY <1>1, <3>1
    <3> QED
      BY <3>1, <3>2, ElementOfSeq
  <2> HIDE DEF v
  <2> DEFINE w == WithItem(g, d, n, v)
  <2>4. Kept(w, own, M) /\ Grows(g, w) /\ Frozen(w) = Frozen(g)
    BY <2>1, <2>2, <2>3, WithItemKept
  <2> HIDE DEF w
  <2>5. Heap(w) /\ Grows(h, w) /\ Frozen(w) = Frozen(h)
    BY <1>1, <2>1, <2>2, <2>4, GrowsTransitive DEF Kept
  <2>6. [heap |-> w, ok |-> TRUE] \in T
    BY <2>4, <2>5 DEF Heap
  <2>7. [heap |-> g, ok |-> FALSE] \in T
    BY <2>1
  <2>8. item(c, n) = UpdateItem(g, c.ok, d, n, v)
    BY DEF g, v
  <2> HIDE DEF item, T
  <2> QED
    BY <2>6, <2>7, <2>8 DEF UpdateItem, w
<1>4. step \in [1..L -> [T -> T]]
  <2> HIDE DEF item, T
  <2> QED
    BY <1>3
<1>5. PICK f \in [0..L -> T] : f[0] = base /\ \A n \in 1..L : f[n] = step[n][f[n - 1]]
  <2> HIDE DEF step, L, T, base
  <2>1. \E f \in [0..L -> T] : Stepwise(L, base, step, f)
    BY <1>1, <1>2, <1>4, StepByStep
  <2> QED
    BY <2>1 DEF Stepwise
<1>6. \A n \in 1..L : f[n] = item(f[n - 1], n)
  <2> HIDE DEF T, base, L, item
  <2> SUFFICES ASSUME NEW n \in 1..L PROVE f[n] = item(f[n - 1], n)
    OBVIOUS
  <2>1. n - 1 \in 0..L /\ f[n - 1] \in T
    BY <1>1, <1>5
  <2>2. step[n][f[n - 1]] = item(f[n - 1], n)
    BY <2>1
  <2> QED
    BY <1>5, <2>2
<1> HIDE DEF base, item, T
<1>7. f = def(f)
  <2>1. ASSUME NEW n \in 0..L PROVE f[n] = def(f)[n]
    BY <1>1, <1>5, <1>6
  <2>2. f = [n \in 0..L |-> f[n]] /\ def(f) = [n \in 0..L |-> def(f)[n]]
    BY <1>5
  <2> HIDE DEF def
  <2> QED
    BY <2>1, <2>2
<1>8. F = def(F)
  <2> HIDE DEF def
  <2> QED
    BY <1>7
<1>9. F[0] = base /\ \A n \in 1..L : F[n] = item(F[n - 1], n)
  <2>1. def(F)[0] = base /\ \A n \in 1..L : def(F)[n] = item(F[n - 1], n)
    <3> HIDE DEF F
    <3> QED
      BY <1>1
  <2> HIDE DEF def, F
  <2> QED
    BY <1>8, <2>1
<1>10. Updated(h, d, m) = F[L].heap
  BY DEF Updated, base, item
<1> HIDE DEF F
<1> DEFINE S == {n \in 0..L : F[n] \in T}
<1>11. 0 \in S
  BY <1>1, <1>2, <1>9
<1>12. ASSUME NEW n \in 1..L, n - 1 \in S PROVE n \in S
  BY <1>1, <1>3, <1>9, <1>12
<1> HIDE DEF S
<1>13. 0..L \subseteq S
  BY <1>1, <1>11, <1>12, Upwards
<1>14. F[L] \in T
  BY <1>1, <1>13 DEF S
<1> QED
  BY <1>10, <1>14 DEF T

-----------------------------------------------------------------------------
(* The JSON of what cannot change.                                         *)

Outermost(h) == [v \in ValuesIn(h) |-> IF v \in Atoms THEN v ELSE Written(h, v, <<>>)]

\* F is the JSON of the values of h, level by level.
LevelsBy(h, F) ==
  /\ F[0] = Outermost(h)
  /\ \A n \in 1..Len(h) : F[n] = Level(h, F[n - 1])
  /\ \A d \in DOMAIN h : Dumps(h, d) = F[Len(h)][d]

LEMMA Levels ==
  ASSUME NEW h, Heap(h)
  PROVE  \E F : LevelsBy(h, F)
<1> DEFINE L == Len(h)
           base == Outermost(h)
           def(m, f) == [n \in 0..m |-> IF n = 0 THEN base ELSE Level(h, f[n - 1])]
           S == {m \in 0..L : \E f : f = def(m, f)}
           F == CHOOSE f : f = def(L, f)
<1>1. L \in Nat
  BY LenProperties DEF Heap
<1>2. 0 \in S
  <2> DEFINE f == [n \in 0..0 |-> base]
  <2>1. f = def(0, f)
    OBVIOUS
  <2> HIDE DEF f, def
  <2> QED
    BY <1>1, <2>1
<1>3. ASSUME NEW m \in 1..L, m - 1 \in S PROVE m \in S
  <2>1. PICK f : f = def(m - 1, f)
    BY <1>3
  <2> DEFINE g == [n \in 0..m |-> IF n = m THEN Level(h, f[m - 1]) ELSE f[n]]
  <2>2. /\ \A n \in 0..(m - 1) : def(m - 1, f)[n] = IF n = 0 THEN base ELSE Level(h, f[n - 1])
        /\ \A n \in 0..m : def(m, g)[n] = IF n = 0 THEN base ELSE Level(h, g[n - 1])
    <3> HIDE DEF base, g
    <3> QED
      OBVIOUS
  <2>3. g = [n \in 0..m |-> g[n]] /\ def(m, g) = [n \in 0..m |-> def(m, g)[n]]
    OBVIOUS
  <2> HIDE DEF base, def
  <2>4. ASSUME NEW n \in 0..m PROVE g[n] = def(m, g)[n]
    <3>1. CASE n = m
      <4>1. n # 0 /\ n - 1 \in 0..m /\ n - 1 # m
        BY <3>1
      <4>2. g[n] = Level(h, f[n - 1]) /\ g[n - 1] = f[n - 1]
        BY <3>1, <4>1
      <4> QED
        BY <2>2, <4>1, <4>2
    <3>2. CASE n # m
      <4>1. n \in 0..(m - 1) /\ g[n] = f[n]
        BY <3>2
      <4>2. f[n] = IF n = 0 THEN base ELSE Level(h, f[n - 1])
        BY <2>1, <2>2, <4>1
      <4>3. n # 0 => g[n - 1] = f[n - 1]
        BY <4>1
      <4> QED
        BY <2>2, <4>1, <4>2, <4>3
    <3> QED
      BY <3>1, <3>2
  <2> HIDE DEF g
  <2>5. g = def(m, g)
    BY <2>3, <2>4
  <2> QED
    BY <1>1, <2>5
<1> HIDE DEF S
<1>4. 0..L \subseteq S
  BY <1>1, <1>2, <1>3, Upwards
<1>5. L \in S
  BY <1>1, <1>4
<1>6. F = def(L, F)
  <2>1. \E f : f = def(L, f)
    BY <1>5 DEF S
  <2> HIDE DEF def
  <2> QED
    BY <2>1
<1>7. F[0] = base /\ \A n \in 1..L : F[n] = Level(h, F[n - 1])
  <2>1. def(L, F)[0] = base /\ \A n \in 1..L : def(L, F)[n] = Level(h, F[n - 1])
    <3> HIDE DEF F, base
    <3> QED
      BY <1>1
  <2> HIDE DEF def, F, base
  <2> QED
    BY <1>6, <2>1
<1>8. \A d \in DOMAIN h : Dumps(h, d) = F[L][d]
  BY DEF Dumps, Outermost
<1> HIDE DEF F
<1> QED
  BY <1>7, <1>8 DEF LevelsBy

\* Objects that hold only such objects that are older.
Deep(h, S) ==
  /\ S \subseteq DOMAIN h
  /\ \A o \in S : Range(h[o].items) \subseteq Atoms \cup {p \in S : p < o}

\* What two heaps have in common has the same JSON in both.
LEMMA DumpsSame ==
  ASSUME NEW h, Heap(h), NEW g, Heap(g), NEW S, Deep(h, S), Deep(g, S),
         \A o \in S : g[o] = h[o], NEW d \in S
  PROVE  Dumps(g, d) = Dumps(h, d)
<1>1. PICK F : LevelsBy(h, F)
  BY Levels
<1>2. PICK G : LevelsBy(g, G)
  BY Levels
<1>3. /\ S \subseteq DOMAIN h /\ S \subseteq DOMAIN g
      /\ DOMAIN h = 1..Len(h) /\ Len(h) \in Nat /\ DOMAIN g = 1..Len(g) /\ Len(g) \in Nat
  <2>1. S \subseteq DOMAIN h /\ S \subseteq DOMAIN g
    BY DEF Deep
  <2> QED
    BY <2>1, ValueSeq
<1>4. /\ \A o \in S : o \notin Atoms /\ o \in ValuesIn(h) /\ o \in ValuesIn(g)
      /\ \A a \in Atoms : a \in ValuesIn(h) /\ a \in ValuesIn(g)
  BY <1>3, AtomsAssumption DEF Atoms, ValuesIn
<1> DEFINE Same == {k \in 0..d : \A v \in S : v <= k =>
                      \A n \in v..Len(h), m \in v..Len(g) : F[n][v] = G[m][v]}
<1>5. d \in Nat /\ d <= Len(h) /\ d <= Len(g)
  BY <1>3
<1>6. 0 \in Same
  BY <1>3, <1>5
<1>7. ASSUME NEW n \in 0..Len(h), NEW a \in Atoms PROVE F[n][a] = a
  <2>1. CASE n = 0
    BY <1>1, <1>4, <2>1 DEF LevelsBy, Outermost
  <2>2. CASE n # 0
    <3>1. n \in 1..Len(h)
      BY <1>3, <2>2
    <3> QED
      BY <1>1, <1>4, <3>1 DEF LevelsBy, Level
  <2> QED
    BY <2>1, <2>2
<1>8. ASSUME NEW n \in 0..Len(g), NEW a \in Atoms PROVE G[n][a] = a
  <2>1. CASE n = 0
    BY <1>2, <1>4, <2>1 DEF LevelsBy, Outermost
  <2>2. CASE n # 0
    <3>1. n \in 1..Len(g)
      BY <1>3, <2>2
    <3> QED
      BY <1>2, <1>4, <3>1 DEF LevelsBy, Level
  <2> QED
    BY <2>1, <2>2
<1>9. ASSUME NEW k \in 1..d, k - 1 \in Same PROVE k \in Same
  <2>1. ASSUME NEW n \in k..Len(h), NEW m \in k..Len(g), k \in S PROVE F[n][k] = G[m][k]
    <3> DEFINE below(e, E) == [i \in DOMAIN e[k].items |-> E[e[k].items[i]]]
    <3>1. n \in 1..Len(h) /\ m \in 1..Len(g)
      BY <1>3
    <3>2. F[n][k] = Written(h, k, below(h, F[n - 1]))
      BY <1>1, <1>4, <2>1, <3>1 DEF LevelsBy, Level
    <3>3. G[m][k] = Written(g, k, below(g, G[m - 1]))
      BY <1>2, <1>4, <2>1, <3>1 DEF LevelsBy, Level
    <3>4. ASSUME NEW u \in Atoms \cup {p \in S : p < k} PROVE F[n - 1][u] = G[m - 1][u]
      <4>1. n - 1 \in 0..Len(h) /\ m - 1 \in 0..Len(g)
        BY <1>3, <3>1
      <4>2. CASE u \in Atoms
        BY <1>7, <1>8, <4>1, <4>2
      <4>3. CASE u \in S /\ u < k
        <5>1. u \in Nat
          BY <1>3, <4>3
        <5>2. u <= k - 1 /\ n - 1 \in u..Len(h) /\ m - 1 \in u..Len(g)
          BY <1>3, <3>1, <4>3, <5>1
        <5> QED
          BY <1>9, <4>3, <5>2
      <4> QED
        BY <4>2, <4>3
    <3>5. \A i \in DOMAIN h[k].items : h[k].items[i] \in Atoms \cup {p \in S : p < k}
      BY <2>1 DEF Deep, Range
    <3>6. g[k] = h[k]
      BY <2>1
    <3>7. below(h, F[n - 1]) = below(g, G[m - 1])
      BY <3>4, <3>5, <3>6
    <3> HIDE DEF below
    <3> QED
      BY <3>2, <3>3, <3>6, <3>7 DEF Written
  <2>2. \A v \in S : v <= k => v <= k - 1 \/ v = k
    BY <1>3
  <2> QED
    BY <1>5, <1>9, <2>1, <2>2
<1> HIDE DEF Same
<1>10. 0..d \subseteq Same
  BY <1>5, <1>6, <1>9, Upwards
<1>11. Len(h) \in d..Len(h) /\ Len(g) \in d..Len(g)
  BY <1>3, <1>5
<1>12. F[Len(h)][d] = G[Len(g)][d]
  BY <1>5, <1>10, <1>11 DEF Same
<1> QED
  BY <1>1, <1>2, <1>3, <1>12 DEF LevelsBy

-----------------------------------------------------------------------------
(* The steps of the program.                                               *)

\* Objects that can change no more, all that they hold included.
Pure(h, T, M) == Deep(h, T) /\ T \subseteq InstancesIn(h, Unchanging) \ M

\* A frozen dict that the caller made has the JSON of its content, if that cannot change.
Remembered ==
  \A d \in made \cap Frozen(heap) : \A T :
    Pure(heap, T, merged) /\ d \in T => json[d] = Dumps(heap, d)

IInv ==
  /\ Kept(heap, made, merged)
  /\ DOMAIN json = Frozen(heap)
  /\ Remembered

LEMMA InitIInv == Init => IInv
<1> SUFFICES ASSUME Init PROVE IInv
  OBVIOUS
<1>1. PICK type \in {"list", "dict"} : heap = <<Object("tuple", <<>>), Object(type, <<>>)>>
  BY DEF Init
<1> DEFINE empty == Object("tuple", <<>>)
           value == Object(type, <<>>)
<1>2. /\ empty \in Objects /\ empty.type = "tuple" /\ empty.items = <<>>
      /\ value \in Objects /\ value.type = type /\ value.items = <<>> /\ value # empty
  BY EmptySeq DEF Object, Objects, Types, Mappings
<1>3. heap = <<empty, value>> /\ json = <<>> /\ made = {} /\ merged = {}
  BY <1>1 DEF Init
<1> HIDE DEF empty, value
<1>4. heap \in Seq(Objects) /\ DOMAIN heap = {1, 2} /\ heap[1] = empty /\ heap[2] = value
  BY <1>2, <1>3
<1>5. Len(<<>>) = 0 /\ 0 <= MaxItems /\ Range(<<>>) = {}
  BY BoundsAssumption, EmptySeq DEF Range
<1>6. Heap(heap)
  BY <1>2, <1>4, <1>5 DEF Heap, Empty, ValueOfKind, empty
<1>7. Frozen(heap) = {} /\ Clean(heap, made, merged)
  BY <1>2, <1>4 DEF Frozen, InstancesIn, Clean, Classes
<1>8. Solid(heap, {}, merged)
  BY DEF Solid
<1>9. Kept(heap, made, merged)
  BY <1>3, <1>6, <1>7, <1>8 DEF Kept
<1>10. Remembered
  BY <1>3 DEF Remembered
<1> QED
  BY <1>3, <1>7, <1>9, <1>10 DEF IInv

\* Objects stay what they are, and those that only |= can change are as they were, but
\* for those of M.
Goes(h, g, M) ==
  /\ DOMAIN h \subseteq DOMAIN g
  /\ \A o \in DOMAIN h :
       /\ g[o].type = h[o].type
       /\ h[o].type \in Unchanging /\ o \notin M => g[o] = h[o]

\* A step keeps what is there, and a frozen dict that the caller has remembers what it
\* did, or what it holds if it is new.
Continues ==
  /\ Kept(heap', made', merged')
  /\ merged \subseteq merged'
  /\ Goes(heap, heap', merged')
  /\ DOMAIN json' = Frozen(heap')
  /\ \A d \in made' \cap Frozen(heap') :
       \/ d \in made \cap Frozen(heap) /\ json'[d] = json[d]
       \/ json'[d] = Dumps(heap', d)

LEMMA MakeContinues ==
  ASSUME IInv, Make
  PROVE  Continues
<1> DEFINE new == Len(heap) + 1
<1>1. Heap(heap) /\ made' = made \cup {new} /\ json' = json /\ merged' = merged
  BY DEF IInv, Kept, Make
<1>2. PICK object \in Objects :
        /\ heap' = Append(heap, object)
        /\ object.type \notin Classes /\ object # Object("tuple", <<>>)
        /\ Len(object.items) <= MaxItems
        /\ Range(object.items) \subseteq ValuesIn(heap)
  <2>1. ASSUME NEW type \in {"dict", "list"}, heap' = Append(heap, Object(type, <<>>))
        PROVE  \E object \in Objects :
                 /\ heap' = Append(heap, object)
                 /\ object.type \notin Classes /\ object # Object("tuple", <<>>)
                 /\ Len(object.items) <= MaxItems
                 /\ Range(object.items) \subseteq ValuesIn(heap)
    <3> DEFINE object == Object(type, <<>>)
    <3>1. object \in Objects /\ object.type = type /\ object.items = <<>>
      BY EmptySeq DEF Object, Objects, Types, Mappings
    <3>2. object # Object("tuple", <<>>) /\ type \notin Classes
      BY DEF Object, Classes
    <3>3. Len(<<>>) <= MaxItems /\ Range(<<>>) = {}
      BY EmptySeq, BoundsAssumption DEF Range
    <3>4. heap' = Append(heap, object)
      BY <2>1
    <3> HIDE DEF object
    <3> QED
      BY <3>1, <3>2, <3>3, <3>4
  <2>2. ASSUME NEW n \in 1..MaxTuple, NEW items \in [1..n -> Raw],
               heap' = Append(heap, Object("tuple", items))
        PROVE  \E object \in Objects :
                 /\ heap' = Append(heap, object)
                 /\ object.type \notin Classes /\ object # Object("tuple", <<>>)
                 /\ Len(object.items) <= MaxItems
                 /\ Range(object.items) \subseteq ValuesIn(heap)
    <3> DEFINE object == Object("tuple", items)
    <3>1. n \in Nat /\ n # 0 /\ n <= MaxItems
      BY BoundsAssumption, TupleAssumption
    <3>2. Raw \subseteq ValuesIn(heap) /\ Raw \subseteq Atoms \cup Nat
      <4>1. DOMAIN heap = 1..Len(heap) /\ Len(heap) \in Nat
        BY <1>1, LenProperties DEF Heap
      <4> QED
        BY <4>1 DEF Raw, Values, ValuesIn
    <3>3. items \in [1..n -> Atoms \cup Nat]
      BY <3>2
    <3>4. items \in Seq(Atoms \cup Nat) /\ Len(items) = n
      BY <3>1, <3>3, SeqDef, LenProperties
    <3>5. object \in Objects /\ object.type = "tuple" /\ object.items = items
      BY <3>4 DEF Object, Objects, Types
    <3>6. items # <<>>
      BY <3>1, <3>4, EmptySeq
    <3>7. object # Object("tuple", <<>>)
      BY <3>6 DEF Object
    <3>8. Range(items) \subseteq ValuesIn(heap)
      BY <3>2 DEF Range
    <3>9. heap' = Append(heap, object)
      BY <2>2
    <3> HIDE DEF object
    <3> QED
      BY <3>1, <3>4, <3>5, <3>7, <3>8, <3>9 DEF Classes
  <2> QED
    BY <2>1, <2>2 DEF Make
<1>3. Kept(heap', made \cup {new}, merged) /\ Grows(heap, heap') /\ Frozen(heap') = Frozen(heap)
  BY <1>2, MadeKept DEF IInv
<1>4. new \notin Frozen(heap)
  <2>1. DOMAIN heap = 1..Len(heap) /\ Len(heap) \in Nat
    BY <1>1, LenProperties DEF Heap
  <2> QED
    BY <2>1 DEF Frozen, InstancesIn
<1> HIDE DEF new
<1> QED
  BY <1>1, <1>3, <1>4 DEF Continues, IInv, Grows, Goes

LEMMA AssignContinues ==
  ASSUME IInv, NEW o \in DOMAIN heap, Assign(o)
  PROVE  Continues
<1>1. Heap(heap) /\ o \in DOMAIN heap /\ heap[o].type \in {"dict", "list"}
  BY DEF IInv, Kept, Assign, OfTypes, InstancesIn
<1>2. PICK key \in Keys(o), v \in Raw : heap' = [heap EXCEPT ![o].items = Put(@, key, v)]
  BY DEF Assign
<1> DEFINE items == Put(heap[o].items, key, v)
<1>3. /\ heap[o].items \in Seq(ValuesIn(heap)) /\ Len(heap[o].items) <= MaxItems
      /\ Len(heap[o].items) \in Nat
  BY <1>1, ValueSeq DEF Heap
<1>4. MaxItems \in Nat \ {0}
  BY BoundsAssumption
<1>5. key \in 1..MaxItems
  <2>1. Keys(o) \subseteq 1..MaxItems
    BY <1>3, <1>4 DEF Keys
  <2> QED
    BY <2>1
<1>6. v \in ValuesIn(heap)
  BY DEF Raw, Values
<1>7. /\ items \in Seq(ValuesIn(heap)) /\ Len(items) <= MaxItems
      /\ Len(heap[o].items) <= Len(items)
  BY <1>3, <1>5, <1>6, PutItems
<1>8. heap' = Replaced(heap, o, items)
  BY <1>2 DEF Replaced
<1> HIDE DEF items
<1>9. Range(items) \subseteq ValuesIn(heap) /\ items \in Seq(Atoms \cup Nat)
  <2>1. Len(items) \in Nat /\ DOMAIN items = 1..Len(items) /\ items \in [1..Len(items) -> ValuesIn(heap)]
    BY <1>7, LenProperties
  <2>2. ValuesIn(heap) \subseteq Atoms \cup Nat
    <3>1. DOMAIN heap = 1..Len(heap) /\ Len(heap) \in Nat
      BY <1>1, LenProperties DEF Heap
    <3> QED
      BY <3>1 DEF ValuesIn
  <2>3. items \in [1..Len(items) -> Atoms \cup Nat]
    BY <2>1, <2>2
  <2> QED
    BY <2>1, <2>3, SeqDef DEF Range
<1>10. Replaceable(heap, made, merged, o, items)
  BY <1>1, <1>7, <1>9 DEF Replaceable, Unchanging, Classes
<1>11. Kept(heap', made, merged) /\ Grows(heap, heap') /\ Frozen(heap') = Frozen(heap)
  BY <1>8, <1>10, ReplacedKept DEF IInv
<1> QED
  BY <1>11 DEF Continues, IInv, Grows, Goes, Assign

LEMMA SetItemContinues ==
  ASSUME IInv, NEW d \in DOMAIN heap, SetItem(d)
  PROVE  Continues
<1>1. Heap(heap) /\ d \in InstancesIn(heap, Settable)
  BY DEF IInv, Kept, SetItem, OfTypes
<1>2. PICK key \in Keys(d), v \in Raw : heap' = WithItem(heap, d, key, v)
  BY DEF SetItem
<1>3. key \in 1..MaxItems
  <2>1. Len(heap[d].items) \in Nat /\ Len(heap[d].items) <= MaxItems
    BY <1>1, ValueSeq DEF Heap, InstancesIn
  <2>2. MaxItems \in Nat \ {0}
    BY BoundsAssumption
  <2>3. Keys(d) \subseteq 1..MaxItems
    BY <2>1, <2>2 DEF Keys
  <2> QED
    BY <2>3
<1>4. v \in ValuesIn(heap)
  BY DEF Raw, Values
<1>5. Kept(heap', made, merged) /\ Grows(heap, heap') /\ Frozen(heap') = Frozen(heap)
  BY <1>1, <1>2, <1>3, <1>4, WithItemKept DEF IInv
<1> QED
  BY <1>5 DEF Continues, IInv, Grows, Goes, SetItem

LEMMA UpdateContinues ==
  ASSUME IInv, NEW d \in DOMAIN heap, NEW m \in DOMAIN heap, Update(d, m)
  PROVE  Continues
<1>1. d \in InstancesIn(heap, Settable) /\ heap' = Updated(heap, d, m)
  BY DEF Update, OfTypes
<1>2. Kept(heap', made, merged) /\ Grows(heap, heap') /\ Frozen(heap') = Frozen(heap)
  BY <1>1, UpdatedKept DEF IInv
<1> QED
  BY <1>2 DEF Continues, IInv, Grows, Goes, Update

LEMMA ConstructContinues ==
  ASSUME IInv, NEW cls \in Classes, NEW o \in DOMAIN heap, Construct(cls, o)
  PROVE  Continues
<1> DEFINE conv == ParseObject(heap, o, cls)
           n == Len(conv.new)
           new == Len(heap) + n + 1
           g == heap \o conv.new
           object == Object(cls, conv.values)
           json1 == [d \in InstancesIn(heap', {"FrozenJsonDict"}) |->
                       IF d \in DOMAIN heap THEN json[d]
                       ELSE IF d = new THEN Built(heap', d) ELSE EmptyJson]
<1>1. /\ conv.ok /\ heap' = heap \o conv.new \o <<object>>
      /\ json' = json1 /\ made' = made \cup {new} /\ merged' = merged
  BY DEF Construct
<1>2. Heap(heap)
  BY DEF IInv, Kept
<1>3. Sound(heap, cls, conv) /\ Len(conv.values) <= MaxItems
  BY <1>1, <1>2, ParseObjectSound
<1>4. /\ conv.new \in Seq(Objects) /\ n \in Nat /\ conv.values \in Seq(Atoms \cup Nat)
      /\ heap \in Seq(Objects) /\ Len(heap) \in Nat /\ DOMAIN heap = 1..Len(heap)
      /\ Range(conv.values) \subseteq Fresh(heap, n)
  BY <1>2, <1>3, Lengths, LenProperties DEF Sound, Heap
<1> HIDE DEF conv
<1>5. object \in Objects /\ object.type = cls /\ object.items = conv.values
  BY <1>4 DEF Object, Objects, Types, Mappings
<1> HIDE DEF object
<1>6. /\ Heap(g) /\ Grows(heap, g) /\ Len(g) = Len(heap) + n
      /\ (\A d \in DOMAIN heap : g[d] = heap[d])
      /\ Fresh(heap, n) \subseteq Plain \cup DOMAIN g
      /\ DOMAIN heap \subseteq DOMAIN g
  BY <1>2, <1>3, GrownHeap DEF Grows
<1>7. PICK S : /\ Kept(g, made, merged) /\ Solid(g, S, merged) /\ Frozen(g) \subseteq S
               /\ cls = "JsonDict" => Frozen(g) = Frozen(heap)
               /\ cls = "FrozenJsonDict" => Fresh(heap, n) \subseteq Plain \cup {ValueOfKind} \cup S
  BY <1>3, GrownKept DEF IInv
<1>8. heap' = Append(g, object)
  <2>1. g \in Seq(Objects)
    BY <1>6 DEF Heap
  <2> HIDE DEF g
  <2>2. g \o <<object>> = Append(g, object)
    BY <1>5, <2>1
  <2> QED
    BY <1>1, <2>2 DEF g
<1> HIDE DEF g
<1>9. object # Object("tuple", <<>>)
  BY <1>5 DEF Object, Classes
<1>10. Range(object.items) \subseteq Plain \cup DOMAIN g /\ Range(object.items) \subseteq ValuesIn(g)
  BY <1>4, <1>5, <1>6 DEF ValuesIn, Atoms, Plain
<1>11. /\ Heap(heap') /\ Grows(g, heap') /\ DOMAIN heap' = DOMAIN g \cup {new}
       /\ new \notin DOMAIN g /\ (\A d \in DOMAIN g : heap'[d] = g[d]) /\ heap'[new] = object
  BY <1>3, <1>5, <1>6, <1>8, <1>9, <1>10, AppendedHeap
<1>12. Grows(heap, heap')
  BY <1>2, <1>6, <1>11, GrowsTransitive
<1>13. Fresh(heap, n) \cap made = {}
  <2>1. Fresh(heap, n) = Plain \cup {Empty, ValueOfKind} \cup (Len(heap) + 1)..(Len(heap) + n)
    BY DEF Fresh, Plain
  <2>2. made \subseteq DOMAIN heap \ {Empty, ValueOfKind}
    BY DEF IInv, Kept
  <2>3. /\ Plain \cap DOMAIN heap = {}
        /\ DOMAIN heap \cap (Len(heap) + 1)..(Len(heap) + n) = {}
    BY <1>4, AtomsAssumption DEF Plain, Atoms
  <2> QED
    BY <2>1, <2>2, <2>3
<1>14. Clean(heap', made', merged')
  <2> SUFFICES ASSUME NEW d \in DOMAIN heap', heap'[d].type \in Classes, d \notin merged
               PROVE  Range(heap'[d].items) \subseteq Plain \cup (DOMAIN heap' \ made')
    BY <1>1 DEF Clean, InstancesIn
  <2>1. CASE d = new
    BY <1>1, <1>4, <1>5, <1>6, <1>11, <1>13, <2>1
  <2>2. CASE d # new
    <3>1. d \in DOMAIN g /\ heap'[d] = g[d]
      BY <1>11, <2>2
    <3>2. Range(g[d].items) \subseteq Plain \cup (DOMAIN g \ made)
      BY <1>7, <3>1 DEF Kept, Clean, InstancesIn
    <3> QED
      BY <1>1, <1>11, <3>1, <3>2
  <2> QED
    BY <2>1, <2>2
<1>15. /\ made' \subseteq DOMAIN heap' \ {Empty, ValueOfKind}
       /\ merged' \subseteq InstancesIn(heap', Classes)
  <2>1. {Empty, ValueOfKind} \subseteq DOMAIN g /\ made \subseteq DOMAIN g \ {Empty, ValueOfKind}
    BY <1>7 DEF Kept, Heap
  <2>2. merged \subseteq InstancesIn(g, Classes)
    BY <1>7 DEF Kept
  <2> QED
    BY <1>1, <1>11, <2>1, <2>2 DEF InstancesIn
<1>16. \E T : Solid(heap', T, merged') /\ Frozen(heap') \subseteq T
  <2>1. Solid(heap', S, merged')
    BY <1>1, <1>7, <1>11, SolidStays
  <2>2. CASE cls = "JsonDict"
    <3>1. Frozen(heap') \subseteq S
      BY <1>5, <1>7, <1>11, <2>2 DEF Frozen, InstancesIn
    <3> QED
      BY <2>1, <3>1
  <2>3. CASE cls = "FrozenJsonDict"
    <3> DEFINE T == S \cup {new}
    <3>1. Frozen(heap') \subseteq T
      BY <1>7, <1>11 DEF Frozen, InstancesIn
    <3>2. \A p \in S : p < new
      <4>1. S \subseteq DOMAIN g /\ DOMAIN g = 1..(Len(heap) + n)
        BY <1>4, <1>6, <1>7, LenProperties DEF Solid, InstancesIn, Heap
      <4> QED
        BY <1>4, <4>1
    <3>4. Range(heap'[new].items) \subseteq Plain \cup {ValueOfKind} \cup {p \in T : p < new}
      BY <1>4, <1>5, <1>7, <1>11, <2>3, <3>2
    <3>3. Solid(heap', T, merged')
      BY <1>5, <1>11, <2>1, <2>3, <3>4 DEF Solid, InstancesIn, Unchanging
    <3> HIDE DEF T
    <3> QED
      BY <3>1, <3>3
  <2> QED
    BY <2>2, <2>3 DEF Classes
<1>17. Kept(heap', made', merged')
  BY <1>11, <1>14, <1>15, <1>16 DEF Kept
<1>18. DOMAIN json' = Frozen(heap')
  BY <1>1 DEF Frozen
<1>19. ASSUME NEW d \in made' \cap Frozen(heap')
       PROVE  \/ d \in made \cap Frozen(heap) /\ json'[d] = json[d]
              \/ json'[d] = Dumps(heap', d)
  <2>1. json'[d] = IF d \in DOMAIN heap THEN json[d]
                   ELSE IF d = new THEN Built(heap', d) ELSE EmptyJson
    BY <1>1 DEF Frozen
  <2>2. CASE d = new
    BY <1>6, <1>11, <2>1, <2>2 DEF Built
  <2>3. CASE d # new
    <3>1. d \in made /\ d \in DOMAIN heap
      BY <1>1, <2>3 DEF IInv, Kept
    <3>2. heap[d].type = "FrozenJsonDict"
      BY <1>12, <3>1 DEF Grows, Frozen, InstancesIn
    <3> QED
      BY <2>1, <3>1, <3>2 DEF Frozen, InstancesIn
  <2> QED
    BY <2>2, <2>3
<1> QED
  BY <1>1, <1>12, <1>17, <1>18, <1>19 DEF Continues, Grows, Goes

\* The items of m in the place of those of d.
LEMMA MergedItems ==
  ASSUME NEW T, NEW ours \in Seq(T), NEW theirs \in Seq(T),
         Len(ours) <= MaxItems, Len(theirs) <= MaxItems
  PROVE  LET items == theirs \o SubSeq(ours, Len(theirs) + 1, Len(ours))
         IN items \in Seq(T) /\ Len(items) <= MaxItems
<1>1. Len(ours) \in Nat /\ Len(theirs) \in Nat /\ MaxItems \in Nat
  BY LenProperties, BoundsAssumption
<1> DEFINE rest == SubSeq(ours, Len(theirs) + 1, Len(ours))
<1>2. \A i \in (Len(theirs) + 1)..Len(ours) : ours[i] \in T
  BY <1>1, ElementOfSeq
<1>3. /\ rest \in Seq(T)
      /\ Len(rest) = IF Len(theirs) + 1 <= Len(ours) THEN Len(ours) - (Len(theirs) + 1) + 1 ELSE 0
  BY <1>1, <1>2, SubSeqProperties
<1> HIDE DEF rest
<1>4. theirs \o rest \in Seq(T) /\ Len(theirs \o rest) = Len(theirs) + Len(rest)
  BY <1>3, ConcatProperties
<1> QED
  BY <1>1, <1>3, <1>4 DEF rest

LEMMA IOrContinues ==
  ASSUME IInv, NEW d \in DOMAIN heap, NEW m \in DOMAIN heap, IOr(d, m)
  PROVE  Continues
<1> DEFINE items == heap[m].items \o SubSeq(heap[d].items, Len(heap[m].items) + 1, Len(heap[d].items))
<1>1. /\ heap' = [heap EXCEPT ![d].items = items] /\ merged' = merged \cup {d}
      /\ made' = made /\ json' = json /\ heap[d].type \in Classes
  BY DEF IOr, OfTypes, InstancesIn
<1>2. /\ Heap(heap) /\ heap \in Seq(Objects) /\ DOMAIN heap = 1..Len(heap) /\ Len(heap) \in Nat
      /\ heap \in [1..Len(heap) -> Objects]
  BY LenProperties DEF IInv, Kept, Heap
<1>3. items \in Seq(ValuesIn(heap)) /\ Len(items) <= MaxItems
  <2>1. /\ heap[m].items \in Seq(ValuesIn(heap)) /\ Len(heap[m].items) <= MaxItems
        /\ heap[d].items \in Seq(ValuesIn(heap)) /\ Len(heap[d].items) <= MaxItems
    BY <1>2, ValueSeq DEF Heap
  <2> QED
    BY <2>1, MergedItems
<1> HIDE DEF items
<1>4. Range(items) \subseteq ValuesIn(heap) /\ items \in Seq(Atoms \cup Nat)
  <2>1. Len(items) \in Nat /\ DOMAIN items = 1..Len(items) /\ items \in [1..Len(items) -> ValuesIn(heap)]
    BY <1>3, LenProperties
  <2>2. items \in [1..Len(items) -> Atoms \cup Nat]
    BY <1>2, <2>1 DEF ValuesIn
  <2> QED
    BY <2>1, <2>2, SeqDef DEF Range
<1>5. /\ DOMAIN heap' = DOMAIN heap
      /\ \A o \in DOMAIN heap \ {d} : heap'[o] = heap[o]
      /\ heap'[d].type = heap[d].type /\ heap'[d].items = items /\ heap'[d] \in Objects
  BY <1>1, <1>2, <1>4 DEF Objects
<1>6. heap' \in Seq(Objects)
  <2>1. heap' \in [1..Len(heap) -> Objects]
    BY <1>1, <1>2, <1>5
  <2> QED
    BY <1>2, <2>1, SeqDef
<1>7. \A o \in DOMAIN heap : heap'[o].type = heap[o].type
  BY <1>5
<1>8. d # Empty /\ d # ValueOfKind /\ heap'[d] # Object("tuple", <<>>)
  BY <1>1, <1>2, <1>5 DEF Heap, Object, Classes
<1>9. Heap(heap')
  <2>1. ASSUME NEW o \in DOMAIN heap'
        PROVE  /\ Len(heap'[o].items) <= MaxItems
               /\ Range(heap'[o].items) \subseteq ValuesIn(heap')
               /\ heap'[o] = Object("tuple", <<>>) <=> o = Empty
    <3>1. CASE o = d
      BY <1>3, <1>4, <1>5, <1>8, <3>1 DEF ValuesIn
    <3>2. CASE o # d
      BY <1>2, <1>5, <3>2 DEF ValuesIn, Heap
    <3> QED
      BY <3>1, <3>2
  <2>2. /\ Empty \in DOMAIN heap' /\ ValueOfKind \in DOMAIN heap'
        /\ heap'[ValueOfKind].type \in {"list", "dict"}
    BY <1>2, <1>5, <1>7 DEF Heap
  <2> QED
    BY <1>6, <2>1, <2>2 DEF Heap
<1>10. \A types : InstancesIn(heap', types) = InstancesIn(heap, types)
  BY <1>5, <1>7 DEF InstancesIn
<1>11. Clean(heap', made', merged')
  BY <1>1, <1>5, <1>10 DEF Clean, InstancesIn, IInv, Kept
<1>12. PICK S : Solid(heap, S, merged) /\ Frozen(heap) \subseteq S
  BY DEF IInv, Kept
<1>13. Solid(heap', S, merged') /\ Frozen(heap') \subseteq S
  BY <1>1, <1>5, <1>10, <1>12 DEF Solid, InstancesIn, Frozen
<1>14. /\ made' \subseteq DOMAIN heap' \ {Empty, ValueOfKind}
       /\ merged' \subseteq InstancesIn(heap', Classes)
  BY <1>1, <1>5, <1>10 DEF IInv, Kept, InstancesIn
<1>15. Kept(heap', made', merged')
  BY <1>9, <1>11, <1>13, <1>14 DEF Kept
<1>16. Goes(heap, heap', merged')
  BY <1>1, <1>5, <1>7 DEF Goes
<1> QED
  BY <1>1, <1>10, <1>15, <1>16 DEF Continues, IInv, Frozen

LEMMA StepContinues ==
  ASSUME IInv, [Next]_vars
  PROVE  Continues
<1>1. CASE Make
  BY <1>1, MakeContinues
<1>2. ASSUME NEW o \in DOMAIN heap, Assign(o) PROVE Continues
  BY <1>2, AssignContinues
<1>3. ASSUME NEW o \in DOMAIN heap, NEW cls \in Classes, Construct(cls, o) PROVE Continues
  BY <1>3, ConstructContinues
<1>4. ASSUME NEW o \in DOMAIN heap, SetItem(o) PROVE Continues
  BY <1>4, SetItemContinues
<1>5. ASSUME NEW o \in DOMAIN heap, NEW m \in DOMAIN heap, Update(o, m) PROVE Continues
  BY <1>5, UpdateContinues
<1>6. ASSUME NEW o \in DOMAIN heap, NEW m \in DOMAIN heap, IOr(o, m) PROVE Continues
  BY <1>6, IOrContinues
<1>7. CASE UNCHANGED vars
  BY <1>7 DEF vars, IInv, Continues, Goes
<1> QED
  BY <1>1, <1>2, <1>3, <1>4, <1>5, <1>6, <1>7 DEF Next

\* What can change no more has the same JSON after the step.
LEMMA PureContinue ==
  ASSUME IInv, Continues, NEW T, Pure(heap, T, merged'), NEW d \in T
  PROVE  Dumps(heap', d) = Dumps(heap, d)
<1>1. Heap(heap) /\ Heap(heap') /\ Goes(heap, heap', merged')
  BY DEF IInv, Kept, Continues
<1>2. T \subseteq DOMAIN heap' /\ \A o \in T : heap'[o] = heap[o]
  BY <1>1 DEF Pure, Goes, InstancesIn
<1>3. Deep(heap, T) /\ Deep(heap', T)
  BY <1>2 DEF Pure, Deep
<1> QED
  BY <1>1, <1>2, <1>3, DumpsSame

\* Of what can change no more after the step, what was there could not before it.
LEMMA PureBefore ==
  ASSUME IInv, Continues, NEW T, Pure(heap', T, merged')
  PROVE  Pure(heap, T \cap DOMAIN heap, merged')
<1> DEFINE R == T \cap DOMAIN heap
<1>1. Heap(heap) /\ Goes(heap, heap', merged')
  BY DEF IInv, Kept, Continues
<1>2. \A o \in R : heap'[o] = heap[o] /\ heap[o].type \in Unchanging /\ o \notin merged'
  BY <1>1 DEF Pure, Goes, InstancesIn
<1>3. ASSUME NEW o \in R PROVE Range(heap[o].items) \subseteq Atoms \cup {p \in R : p < o}
  <2>1. Range(heap[o].items) \subseteq Atoms \cup {p \in T : p < o}
    BY <1>2 DEF Pure, Deep
  <2>2. Range(heap[o].items) \subseteq Atoms \cup DOMAIN heap
    BY <1>1 DEF Heap, ValuesIn
  <2> QED
    BY <2>1, <2>2
<1> QED
  BY <1>2, <1>3 DEF Pure, Deep, InstancesIn

LEMMA NextIInv == IInv /\ [Next]_vars => IInv'
<1> SUFFICES ASSUME IInv, [Next]_vars PROVE IInv'
  OBVIOUS
<1>1. Continues
  BY StepContinues
<1>2. ASSUME NEW d \in made' \cap Frozen(heap'), NEW T, Pure(heap', T, merged'), d \in T
      PROVE  json'[d] = Dumps(heap', d)
  <2>1. CASE d \in made \cap Frozen(heap) /\ json'[d] = json[d]
    <3> DEFINE R == T \cap DOMAIN heap
    <3>1. Pure(heap, R, merged') /\ d \in R
      BY <1>1, <1>2, <2>1, PureBefore DEF Frozen, InstancesIn
    <3> HIDE DEF R
    <3>2. Pure(heap, R, merged)
      BY <1>1, <3>1 DEF Pure, Continues
    <3>3. json[d] = Dumps(heap, d)
      BY <2>1, <3>1, <3>2 DEF IInv, Remembered
    <3>4. Dumps(heap', d) = Dumps(heap, d)
      BY <1>1, <3>1, PureContinue
    <3> QED
      BY <2>1, <3>3, <3>4
  <2> QED
    BY <1>1, <2>1 DEF Continues
<1>3. Remembered'
  BY <1>2 DEF Remembered
<1> QED
  BY <1>1, <1>3 DEF IInv, Continues

LEMMA Invariant == Spec => []IInv
<1>1. Init => IInv
  BY InitIInv
<1>2. IInv /\ [Next]_vars => IInv'
  BY NextIInv
<1> QED
  BY <1>1, <1>2, PTL DEF Spec

-----------------------------------------------------------------------------
(* What a conversion marks: that which it accepts is a tree.               *)

\* Only the entry of a container marks anything.
LEMMA MarkersOfSteps ==
  ASSUME NEW h, NEW conv \in Conversions(h)
  PROVE  /\ \A v : Given(conv, v).markers = conv.markers /\ Given(conv, v).ok = conv.ok
         /\ \A values : /\ With(conv, values).markers = conv.markers
                        /\ With(conv, values).ok = conv.ok
         /\ \A o : /\ Entered(conv, o).markers = conv.markers \cup {o}
                   /\ Entered(conv, o).ok = conv.ok
         /\ \A object : /\ Place(h, conv, object).markers = conv.markers
                        /\ Place(h, conv, object).ok = conv.ok
<1>1. \A vs : With(conv, vs).markers = conv.markers /\ With(conv, vs).ok = conv.ok
  BY DEF With, Conversions
<1>2. \A w : Given(conv, w).markers = conv.markers /\ Given(conv, w).ok = conv.ok
  BY <1>1, Zenon DEF Given
<1>3. \A o : /\ Entered(conv, o).markers = conv.markers \cup {o}
            /\ Entered(conv, o).ok = conv.ok
  BY DEF Entered, Conversions
<1>4. ASSUME NEW object
      PROVE  /\ Place(h, conv, object).markers = conv.markers
             /\ Place(h, conv, object).ok = conv.ok
  <2> DEFINE given == Given(conv, Len(h) + Len(conv.new) + 1)
  <2>1. CASE object = Object("tuple", <<>>)
    BY <1>2, <2>1 DEF Place
  <2>2. CASE object # Object("tuple", <<>>)
    <3>1. Place(h, conv, object) = [given EXCEPT !.new = Append(@, object)]
      BY <2>2 DEF Place
    <3>2. /\ [given EXCEPT !.new = Append(@, object)].markers = given.markers
          /\ [given EXCEPT !.new = Append(@, object)].ok = given.ok
      BY DEF Given, With, Conversions
    <3> HIDE DEF given
    <3> QED
      BY <1>2, <3>1, <3>2 DEF given
  <2> QED
    BY <2>1, <2>2
<1> QED
  BY <1>1, <1>2, <1>3, <1>4

\* The object p has x at place i.
Holds(h, p, i, x) == i \in DOMAIN h[p].items /\ h[p].items[i] = x

\* What the objects of R hold is in R.
Closed(h, R) == \A p \in R : Range(h[p].items) \subseteq Atoms \cup R

\* R is a tree with the root v: nothing in it holds v, and one place each of the others.
Tree(h, v, R) ==
  /\ R \subseteq DOMAIN h /\ v \in R
  /\ Closed(h, R)
  /\ \A p \in R, i \in 1..MaxItems : ~Holds(h, p, i, v)
  /\ \A x \in R \ {v} : \E p \in R, i \in 1..MaxItems :
       /\ Holds(h, p, i, x)
       /\ \A q \in R, j \in 1..MaxItems : Holds(h, q, j, x) => q = p /\ j = i

\* There is one place of x in R and the first n items of p.
OnePlace(h, p, n, R, x) ==
  \E q \in R \cup {p}, i \in 1..MaxItems :
    /\ Holds(h, q, i, x) /\ (q = p => i <= n)
    /\ \A s \in R \cup {p}, j \in 1..MaxItems :
         Holds(h, s, j, x) /\ (s = p => j <= n) => s = q /\ j = i

\* R is the trees of the first n items of p.
Trees(h, p, n, R) ==
  /\ R \subseteq DOMAIN h \ {p}
  /\ Closed(h, R)
  /\ \A i \in 1..n : h[p].items[i] \in Atoms \cup R
  /\ \A x \in R : OnePlace(h, p, n, R, x)

Marked(conv, next) == next.markers \ conv.markers

TreeParser(h, parse) ==
  /\ parse \in Parsers(h)
  /\ \A v \in ValuesIn(h), conv \in Conversions(h) :
       LET next == parse[v][conv]
       IN next.ok => /\ conv.ok
                     /\ conv.markers \subseteq next.markers
                     /\ IF v \in Atoms THEN next.markers = conv.markers
                        ELSE Tree(h, v, Marked(conv, next))

\* What is marked while the items of p are converted is the trees of them.
LEMMA EachTrees ==
  ASSUME NEW h, Heap(h), NEW p \in DOMAIN h, NEW conv \in Conversions(h), p \in conv.markers,
         NEW parse, TreeParser(h, parse), NEW f, EachBy(h, conv, h[p].items, parse, f)
  PROVE  \A n \in 0..Len(h[p].items) : f[n].ok =>
           /\ conv.ok /\ conv.markers \subseteq f[n].markers
           /\ Trees(h, p, n, Marked(conv, f[n]))
           /\ \A i \in 1..n : f[i - 1].ok
<1> DEFINE L == Len(h[p].items)
           P(n) == f[n].ok =>
                     /\ conv.ok /\ conv.markers \subseteq f[n].markers
                     /\ Trees(h, p, n, Marked(conv, f[n]))
                     /\ \A i \in 1..n : f[i - 1].ok
           S == {n \in 0..L : P(n)}
           items == h[p].items
<1>1. /\ L \in Nat /\ L <= MaxItems /\ MaxItems \in Nat /\ DOMAIN items = 1..L
      /\ items \in Seq(ValuesIn(h)) /\ \A i \in 1..L : items[i] \in ValuesIn(h)
      /\ DOMAIN h = 1..Len(h) /\ Len(h) \in Nat
  BY ValueSeq, ElementOfSeq, BoundsAssumption DEF Heap
<1>2. f[0] = conv /\ \A i \in 0..L : f[i] \in Conversions(h)
  BY DEF EachBy
<1>3. 0 \in S
  <2>1. Marked(conv, f[0]) = {}
    BY <1>2 DEF Marked
  <2>2. Trees(h, p, 0, {})
    BY DEF Trees, Closed
  <2>3. P(0)
    BY <1>2, <2>1, <2>2
  <2> HIDE DEF P
  <2> QED
    BY <1>1, <2>3
<1>4. ASSUME NEW n \in 1..L, n - 1 \in S PROVE n \in S
  <2> SUFFICES ASSUME f[n].ok PROVE P(n)
    BY <1>1
  <2> DEFINE before == f[n - 1]
             v == items[n]
             R == Marked(conv, before)
             Q == Marked(before, f[n])
  <2>1. /\ f[n] = parse[v][before] /\ before \in Conversions(h) /\ v \in ValuesIn(h)
        /\ f[n] \in Conversions(h)
    BY <1>1, <1>2 DEF EachBy
  <2>2. /\ before.ok /\ before.markers \subseteq f[n].markers
        /\ IF v \in Atoms THEN f[n].markers = before.markers ELSE Tree(h, v, Q)
    BY <2>1 DEF TreeParser
  <2>3. /\ conv.ok /\ conv.markers \subseteq before.markers
        /\ Trees(h, p, n - 1, R) /\ \A i \in 1..(n - 1) : f[i - 1].ok
    BY <1>4, <2>2
  <2>4. \A i \in 1..n : f[i - 1].ok
    BY <2>2, <2>3
  <2>5. Marked(conv, f[n]) = R \cup Q /\ R \cap Q = {} /\ p \notin R /\ p \notin Q
    BY <2>2, <2>3 DEF Marked
  <2>6. Trees(h, p, n, R \cup Q)
    <3> HIDE DEF R, Q, before
    <3>1. CASE v \in Atoms
      <4>1. Q = {}
        BY <2>2, <3>1 DEF Q, Marked, before
      <4>2. \A x \in R : ~Holds(h, p, n, x)
        <5>1. R \cap Atoms = {}
          BY <1>1, <2>3, AtomsAssumption DEF Trees, Atoms
        <5> QED
          BY <3>1, <5>1 DEF Holds
      <4>3. \A i \in 1..n : i \in 1..(n - 1) \/ i = n
        OBVIOUS
      <4>4. \A x, q, i : Holds(h, q, i, x) /\ x \in R /\ i \in 1..MaxItems /\ (q = p => i <= n)
              => (q = p => i <= n - 1)
        BY <1>1, <4>2, <4>3
      <4>5. \A q, i : (q = p => i <= n - 1) /\ i \in 1..MaxItems => (q = p => i <= n)
        BY <1>1
      <4> QED
        BY <2>3, <3>1, <4>1, <4>3, <4>4, <4>5 DEF Trees, OnePlace
    <3>2. CASE v \notin Atoms
      <4>1. Tree(h, v, Q) /\ v \in Q /\ v \notin R
        BY <2>2, <2>5, <3>2 DEF Tree
      <4>2. R \cap Atoms = {} /\ Q \cap Atoms = {}
        BY <1>1, <2>3, <4>1, AtomsAssumption DEF Trees, Tree, Atoms
      <4>3. Closed(h, R \cup Q) /\ Closed(h, R) /\ Closed(h, Q)
        BY <2>3, <4>1 DEF Trees, Tree, Closed
      <4>4. \A i \in 1..n : items[i] \in Atoms \cup (R \cup Q)
        <5>1. \A i \in 1..n : i \in 1..(n - 1) \/ i = n
          OBVIOUS
        <5> QED
          BY <2>3, <4>1, <5>1 DEF Trees
      \* Each of R has its place in R or among the first items, and nothing in Q holds it.
      <4>5. ASSUME NEW x \in R PROVE OnePlace(h, p, n, R \cup Q, x)
        <5>1. PICK q \in R \cup {p}, i \in 1..MaxItems :
                /\ Holds(h, q, i, x) /\ (q = p => i <= n - 1)
                /\ \A s \in R \cup {p}, j \in 1..MaxItems :
                     Holds(h, s, j, x) /\ (s = p => j <= n - 1) => s = q /\ j = i
          BY <2>3 DEF Trees, OnePlace
        <5>2. ASSUME NEW s \in (R \cup Q) \cup {p}, NEW j \in 1..MaxItems,
                     Holds(h, s, j, x), s = p => j <= n
              PROVE  s = q /\ j = i
          <6>1. s \notin Q
            BY <2>5, <4>2, <4>3, <5>2 DEF Closed, Holds, Range
          <6>2. s = p => j # n
            BY <4>1, <5>2 DEF Holds
          <6>3. s = p => j <= n - 1
            BY <1>1, <5>2, <6>2
          <6> QED
            BY <5>1, <5>2, <6>1, <6>3
        <5>3. (q = p => i <= n) /\ q \in (R \cup Q) \cup {p}
          BY <1>1, <5>1
        <5> QED
          BY <5>1, <5>2, <5>3 DEF OnePlace
      \* v has the place n.
      <4>6. OnePlace(h, p, n, R \cup Q, v)
        <5>1. Holds(h, p, n, v) /\ n \in 1..MaxItems /\ n <= n
          BY <1>1 DEF Holds
        <5>2. ASSUME NEW s \in (R \cup Q) \cup {p}, NEW j \in 1..MaxItems,
                     Holds(h, s, j, v), s = p => j <= n
              PROVE  s = p /\ j = n
          <6>1. s \notin Q
            BY <4>1, <5>2 DEF Tree
          <6>2. s \notin R
            BY <4>1, <4>2, <4>3, <5>2 DEF Closed, Holds, Range
          <6>3. ASSUME j # n PROVE FALSE
            <7>1. j \in 1..(n - 1)
              BY <1>1, <5>2, <6>1, <6>2, <6>3
            <7> QED
              BY <2>3, <3>2, <4>1, <5>2, <6>1, <6>2, <7>1 DEF Trees, Holds
          <6> QED
            BY <6>1, <6>2, <6>3
        <5> QED
          BY <5>1, <5>2 DEF OnePlace
      \* Each other of Q has its place in Q.
      <4>7. ASSUME NEW x \in Q \ {v} PROVE OnePlace(h, p, n, R \cup Q, x)
        <5>1. PICK q \in Q, i \in 1..MaxItems :
                /\ Holds(h, q, i, x)
                /\ \A s \in Q, j \in 1..MaxItems : Holds(h, s, j, x) => s = q /\ j = i
          BY <4>1 DEF Tree
        <5>2. ASSUME NEW s \in (R \cup Q) \cup {p}, NEW j \in 1..MaxItems,
                     Holds(h, s, j, x), s = p => j <= n
              PROVE  s = q /\ j = i
          <6>1. s \notin R
            BY <2>5, <4>2, <4>3, <5>2 DEF Closed, Holds, Range
          <6>2. s # p
            <7> SUFFICES ASSUME s = p PROVE FALSE
              OBVIOUS
            <7>1. j # n
              BY <4>7, <5>2 DEF Holds
            <7>2. j \in 1..(n - 1)
              BY <1>1, <5>2, <7>1
            <7> QED
              BY <2>3, <2>5, <4>2, <5>2, <7>2 DEF Trees, Holds
          <6> QED
            BY <5>1, <5>2, <6>1, <6>2
        <5>3. q # p /\ q \in (R \cup Q) \cup {p}
          BY <2>5
        <5> QED
          BY <5>1, <5>2, <5>3 DEF OnePlace
      <4>8. R \cup Q \subseteq DOMAIN h \ {p}
        BY <2>3, <2>5, <4>1 DEF Trees, Tree
      <4> QED
        BY <4>3, <4>4, <4>5, <4>6, <4>7, <4>8 DEF Trees
    <3> QED
      BY <3>1, <3>2
  <2> QED
    BY <2>2, <2>3, <2>4, <2>5, <2>6
<1> HIDE DEF S
<1>5. 0..L \subseteq S
  BY <1>1, <1>3, <1>4, Upwards
<1> QED
  BY <1>5 DEF S

\* The trees of all the items of o are the tree of o.
LEMMA TreesTogether ==
  ASSUME NEW h, Heap(h), NEW o \in DOMAIN h, NEW R, Trees(h, o, Len(h[o].items), R)
  PROVE  Tree(h, o, R \cup {o})
<1> DEFINE items == h[o].items
           L == Len(items)
<1>1. /\ L \in Nat /\ L <= MaxItems /\ DOMAIN items = 1..L /\ MaxItems \in Nat
      /\ DOMAIN h = 1..Len(h)
  BY ValueSeq, BoundsAssumption DEF Heap
<1>2. R \cap Atoms = {} /\ o \notin Atoms /\ o \notin R
  <2>1. R \subseteq Nat /\ o \in Nat
    BY <1>1 DEF Trees
  <2> QED
    BY <2>1, AtomsAssumption DEF Atoms, Trees
<1>3. Range(items) \subseteq Atoms \cup R
  BY <1>1 DEF Trees, Range
<1>4. Closed(h, R \cup {o})
  BY <1>3 DEF Trees, Closed
<1>5. \A p \in R \cup {o}, i \in 1..MaxItems : ~Holds(h, p, i, o)
  BY <1>2, <1>3 DEF Trees, Closed, Holds, Range
<1>6. ASSUME NEW x \in R
      PROVE  \E p \in R \cup {o}, i \in 1..MaxItems :
               /\ Holds(h, p, i, x)
               /\ \A q \in R \cup {o}, j \in 1..MaxItems : Holds(h, q, j, x) => q = p /\ j = i
  <2>1. OnePlace(h, o, L, R, x)
    BY DEF Trees
  <2>2. \A q, j : Holds(h, q, j, x) => (q = o => j <= L)
    BY <1>1 DEF Holds
  <2> HIDE DEF L
  <2>3. PICK p \in R \cup {o}, i \in 1..MaxItems :
          /\ Holds(h, p, i, x)
          /\ \A q \in R \cup {o}, j \in 1..MaxItems :
               Holds(h, q, j, x) /\ (q = o => j <= L) => q = p /\ j = i
    BY <2>1 DEF OnePlace
  <2> QED
    BY <2>2, <2>3
<1> QED
  BY <1>4, <1>5, <1>6 DEF Tree, Trees

\* A container that is accepted is a tree, and all of it is marked.
LEMMA ContainerTree ==
  ASSUME NEW h, Heap(h), NEW cls \in Classes, NEW parse, TreeParser(h, parse),
         NEW conv \in Conversions(h), NEW o \in DOMAIN h \ conv.markers,
         ParseContainer(h, cls, conv, o, parse).ok
  PROVE  LET next == ParseContainer(h, cls, conv, o, parse)
         IN /\ conv.ok /\ conv.markers \subseteq next.markers
            /\ Tree(h, o, Marked(conv, next))
<1> DEFINE entered == Entered(conv, o)
           items == h[o].items
           inner == Each(entered, items, parse)
           left == With(inner, conv.values)
           object == Shape(h[o].type, cls, inner.values)
           next == ParseContainer(h, cls, conv, o, parse)
           L == Len(items)
           R == Marked(entered, inner)
<1>1. /\ entered \in Conversions(h) /\ entered.ok = conv.ok
      /\ entered.markers = conv.markers \cup {o}
  BY EnteredFields, MarkersOfSteps
<1>2. next = IF inner.ok THEN Place(h, left, object) ELSE inner
  BY DEF ParseContainer
<1>3. /\ items \in Seq(ValuesIn(h)) /\ L \in Nat /\ L <= MaxItems /\ DOMAIN items = 1..L
      /\ DOMAIN h = 1..Len(h) /\ MaxItems \in Nat
  BY ValueSeq, BoundsAssumption DEF Heap
<1> HIDE DEF entered, items
<1>4. PICK f : EachBy(h, entered, items, parse, f)
  BY <1>1, <1>3, EachSteps DEF TreeParser
<1>5. inner = f[L] /\ inner \in Conversions(h) /\ L \in 0..L
  BY <1>3, <1>4 DEF EachBy
<1> HIDE DEF inner, next
<1>6. inner.ok
  BY <1>2 DEF next
<1>7. conv.ok /\ entered.markers \subseteq inner.markers /\ Trees(h, o, L, R)
  <2>1. o \in entered.markers
    BY <1>1
  <2>2. \A n \in 0..L : f[n].ok =>
          /\ entered.ok /\ entered.markers \subseteq f[n].markers
          /\ Trees(h, o, n, Marked(entered, f[n]))
    BY <1>1, <1>4, <2>1, EachTrees DEF items
  <2> QED
    BY <1>1, <1>5, <1>6, <2>2
<1>8. next.markers = inner.markers
  <2>1. left \in Conversions(h) /\ left.markers = inner.markers
    BY <1>5, WithFields, MarkersOfSteps, Lengths
  <2> HIDE DEF left
  <2> QED
    BY <1>2, <1>6, <2>1, MarkersOfSteps
<1>9. Marked(conv, next) = R \cup {o} /\ o \notin R
  BY <1>1, <1>7, <1>8 DEF Marked
<1>10. Tree(h, o, R \cup {o})
  BY <1>7, TreesTogether DEF items
<1>11. conv.markers \subseteq next.markers
  BY <1>1, <1>7, <1>8
<1> QED
  BY <1>7, <1>9, <1>10, <1>11 DEF next

LEMMA ParseValueTree ==
  ASSUME NEW h, Heap(h), NEW cls \in Classes, NEW parse, TreeParser(h, parse)
  PROVE  TreeParser(h, ParseValue(h, cls, parse))
<1>1. ParseValue(h, cls, parse) \in Parsers(h)
  BY ParseValueTyped DEF TreeParser
<1>2. ASSUME NEW v \in ValuesIn(h), NEW conv \in Conversions(h),
             ParseValue(h, cls, parse)[v][conv].ok
      PROVE  LET next == ParseValue(h, cls, parse)[v][conv]
             IN /\ conv.ok
                /\ conv.markers \subseteq next.markers
                /\ IF v \in Atoms THEN next.markers = conv.markers
                   ELSE Tree(h, v, Marked(conv, next))
  <2> DEFINE next == ParseValue(h, cls, parse)[v][conv]
  <2>1. next = IF ~conv.ok THEN conv
               ELSE IF v \in Atoms THEN Given(conv, Atomic(v))
               ELSE IF v \in conv.markers THEN Failed(conv)
               ELSE ParseContainer(h, cls, conv, v, parse)
    BY DEF ParseValue
  <2> HIDE DEF next
  <2>2. conv.ok
    BY <1>2, <2>1 DEF next
  <2>3. CASE v \in Atoms
    <3>1. next.markers = conv.markers
      BY <2>1, <2>2, <2>3, MarkersOfSteps
    <3> QED
      BY <2>2, <2>3, <3>1 DEF next
  <2>4. CASE v \notin Atoms
    <3>1. next.ok /\ Failed(conv).ok = FALSE
      BY <1>2, FailedFields DEF next
    <3>2. v \in DOMAIN h \ conv.markers
      BY <2>1, <2>2, <2>4, <3>1 DEF ValuesIn
    <3>3. next = ParseContainer(h, cls, conv, v, parse)
      BY <2>1, <2>2, <2>4, <3>2
    <3> QED
      BY <2>4, <3>1, <3>2, <3>3, ContainerTree DEF next
  <2> QED
    BY <2>3, <2>4
<1> QED
  BY <1>1, <1>2 DEF TreeParser

\* By induction on the levels.
LEMMA ParseTree ==
  ASSUME NEW h, Heap(h), NEW cls \in Classes, NEW P, ParseBy(h, cls, P)
  PROVE  \A n \in 0..Len(h) : TreeParser(h, P[n])
<1>1. Len(h) \in Nat
  BY LenProperties DEF Heap
<1> DEFINE S == {n \in 0..Len(h) : TreeParser(h, P[n])}
<1>2. 0 \in S
  <2>1. P[0] \in Parsers(h)
    BY <1>1 DEF ParseBy
  <2>2. \A v \in ValuesIn(h), conv \in Conversions(h) : ~P[0][v][conv].ok
    BY FailedFields DEF ParseBy
  <2>3. TreeParser(h, P[0])
    BY <2>1, <2>2 DEF TreeParser
  <2> QED
    BY <1>1, <2>3
<1>3. ASSUME NEW n \in 1..Len(h), n - 1 \in S PROVE n \in S
  <2>1. P[n] = ParseValue(h, cls, P[n - 1])
    BY DEF ParseBy
  <2>2. TreeParser(h, P[n])
    BY <1>3, <2>1, ParseValueTree
  <2> QED
    BY <1>1, <2>2
<1> HIDE DEF S
<1>4. 0..Len(h) \subseteq S
  BY <1>1, <1>2, <1>3, Upwards
<1> QED
  BY <1>4 DEF S

-----------------------------------------------------------------------------
(* A tree is accepted.                                                     *)

\* W is what o leads to, in as many steps.
ReachedBy(h, o, W) ==
  /\ W \in [0..Len(h) -> SUBSET DOMAIN h]
  /\ W[0] = {o}
  /\ \A n \in 1..Len(h) : W[n] = W[n - 1] \cup UNION {Children(h, p) : p \in W[n - 1]}

\* What is reached is held by something that is.
LEMMA Reaches ==
  ASSUME NEW h, Heap(h), NEW o \in DOMAIN h, NEW W, ReachedBy(h, o, W)
  PROVE  /\ \A n \in 0..Len(h) : W[n] \subseteq W[Len(h)]
         /\ o \in W[Len(h)]
         /\ \A n \in 1..Len(h) : \A p \in W[n - 1], i \in 1..MaxItems, x \in ValuesIn(h) \ Atoms :
              Holds(h, p, i, x) => x \in W[n]
         /\ \A x \in W[Len(h)] \ {o} : \E p \in W[Len(h)], i \in 1..MaxItems : Holds(h, p, i, x)
<1> DEFINE L == Len(h)
<1>1. L \in Nat /\ MaxItems \in Nat
  BY LenProperties, BoundsAssumption DEF Heap
<1>2. \A n \in 1..L : W[n - 1] \subseteq W[n]
  BY DEF ReachedBy
<1> DEFINE S == {k \in 0..L : W[L - k] \subseteq W[L]}
<1>3. 0..L \subseteq S
  <2>1. 0 \in S
    BY <1>1
  <2>2. ASSUME NEW k \in 1..L, k - 1 \in S PROVE k \in S
    <3>1. W[L - (k - 1)] \subseteq W[L] /\ L - k + 1 = L - (k - 1) /\ L - k + 1 \in 1..L
      BY <1>1, <2>2
    <3>2. L - k + 1 - 1 = L - k
      BY <1>1
    <3>3. W[L - k] \subseteq W[L - k + 1]
      BY <1>2, <3>1, <3>2
    <3> QED
      BY <3>1, <3>3
  <2> HIDE DEF S
  <2> QED
    BY <1>1, <2>1, <2>2, Upwards
<1>4. ASSUME NEW n \in 0..L PROVE W[n] \subseteq W[L]
  <2>1. L - n \in 0..L /\ L - (L - n) = n
    BY <1>1
  <2> QED
    BY <1>3, <2>1
<1> HIDE DEF S
<1>5. o \in W[L]
  BY <1>1, <1>4 DEF ReachedBy
<1>6. ASSUME NEW n \in 1..L, NEW p \in W[n - 1], NEW i \in 1..MaxItems,
             NEW x \in ValuesIn(h) \ Atoms, Holds(h, p, i, x)
      PROVE  x \in W[n]
  <2>1. x \in Children(h, p)
    BY <1>6 DEF Children, Items, Range, Holds
  <2> QED
    BY <2>1 DEF ReachedBy
<1> DEFINE Held(x) == \E p \in W[L], i \in 1..MaxItems : Holds(h, p, i, x)
           T == {n \in 0..L : \A x \in W[n] \ {o} : Held(x)}
<1>7. 0..L \subseteq T
  <2>1. 0 \in T
    BY <1>1 DEF ReachedBy
  <2>2. ASSUME NEW n \in 1..L, n - 1 \in T PROVE n \in T
    <3>1. ASSUME NEW x \in W[n] \ {o} PROVE Held(x)
      <4>1. CASE x \in W[n - 1]
        BY <2>2, <4>1
      <4>2. CASE x \notin W[n - 1]
        <5>1. PICK p \in W[n - 1] : x \in Children(h, p)
          BY <4>2 DEF ReachedBy
        <5>2. n - 1 \in 0..L
          BY <1>1
        <5>3. p \in W[L] /\ p \in DOMAIN h
          BY <1>4, <5>2 DEF ReachedBy
        <5>4. PICK i \in DOMAIN h[p].items : h[p].items[i] = x
          BY <5>1 DEF Children, Items, Range
        <5>5. i \in 1..MaxItems
          <6>1. /\ DOMAIN h[p].items = 1..Len(h[p].items) /\ Len(h[p].items) \in Nat
                /\ Len(h[p].items) <= MaxItems
            BY <5>3, ValueSeq DEF Heap
          <6> QED
            BY <1>1, <6>1
        <5> QED
          BY <5>3, <5>4, <5>5 DEF Holds
      <4> QED
        BY <4>1, <4>2
    <3> HIDE DEF Held
    <3> QED
      BY <1>1, <3>1
  <2> HIDE DEF T
  <2> QED
    BY <1>1, <2>1, <2>2, Upwards
<1>8. \A x \in W[L] \ {o} : Held(x)
  BY <1>1, <1>7
<1> QED
  BY <1>4, <1>5, <1>6, <1>8

\* In the objects of R, o has no place and the others at most one.
Once(h, o, R) ==
  \A p, q \in R, i, j \in 1..MaxItems, x \in R :
    Holds(h, p, i, x) /\ Holds(h, q, j, x) => x # o /\ p = q /\ i = j

\* The markers were found at the places P, in the objects of R.
Followed(h, o, R, conv, P) ==
  /\ o \in conv.markers
  /\ P \subseteq (conv.markers \cap R) \X (1..MaxItems)
  /\ \A x \in conv.markers \ {o} : \E p \in R, i \in 1..MaxItems :
       <<p, i>> \in P /\ Holds(h, p, i, x)

\* n levels are enough, for each of them has a marker.
Enough(h, conv, n) == Cardinality(conv.markers) + n > Len(h)

\* v is found at a place that was not followed before.
Ready(h, o, W, n, conv, P, q, j, v) ==
  /\ conv.ok /\ Enough(h, conv, n)
  /\ Followed(h, o, W[Len(h)], conv, P)
  /\ q \in conv.markers \cap W[Len(h) - n] /\ j \in 1..MaxItems
  /\ Holds(h, q, j, v) /\ <<q, j>> \notin P

\* Of what is a tree, parse accepts any value that is up to n levels deep.
FullParser(h, o, W, n, parse) ==
  \A v \in ValuesIn(h), conv \in Conversions(h) : \A P, q, j :
    Ready(h, o, W, n, conv, P, q, j, v) =>
      /\ parse[v][conv].ok
      /\ Marked(conv, parse[v][conv]) \subseteq W[Len(h)]

\* A marker more is a level less, and there are no more markers than objects.
LEMMA MoreMarkers ==
  ASSUME NEW h, Heap(h), NEW conv \in Conversions(h), NEW next \in Conversions(h), NEW n \in Nat
  PROVE  /\ Cardinality(conv.markers) \in Nat /\ Cardinality(conv.markers) <= Len(h)
         /\ conv.markers \subseteq next.markers /\ Enough(h, conv, n) => Enough(h, next, n)
         /\ \A v \in DOMAIN h \ conv.markers :
              next.markers = conv.markers \cup {v} /\ Enough(h, conv, n) => Enough(h, next, n - 1)
<1>1. Len(h) \in Nat /\ DOMAIN h = 1..Len(h)
  BY LenProperties DEF Heap
<1>2. IsFiniteSet(DOMAIN h) /\ Cardinality(DOMAIN h) = Len(h)
  <2>1. 1 \in Int /\ Len(h) \in Int
    BY <1>1
  <2>2. IsFiniteSet(1..Len(h)) /\ Cardinality(1..Len(h)) = IF 1 > Len(h) THEN 0 ELSE Len(h) - 1 + 1
    BY <2>1, FS_Interval
  <2> QED
    BY <1>1, <2>2
<1>3. conv.markers \subseteq DOMAIN h /\ next.markers \subseteq DOMAIN h
  BY DEF Conversions
<1>4. /\ IsFiniteSet(conv.markers) /\ IsFiniteSet(next.markers)
      /\ Cardinality(conv.markers) \in Nat /\ Cardinality(next.markers) \in Nat
      /\ Cardinality(conv.markers) <= Len(h)
  BY <1>2, <1>3, FS_Subset, FS_CardinalityType
<1>5. conv.markers \subseteq next.markers => Cardinality(conv.markers) <= Cardinality(next.markers)
  BY <1>4, FS_Subset
<1>6. \A v \in DOMAIN h \ conv.markers :
        Cardinality(conv.markers \cup {v}) = Cardinality(conv.markers) + 1
  BY <1>4, FS_AddElement
<1> QED
  BY <1>1, <1>4, <1>5, <1>6 DEF Enough

\* The items of a container, one after the other.
LEMMA EachFull ==
  ASSUME NEW h, Heap(h), NEW o \in DOMAIN h, NEW W, ReachedBy(h, o, W), Once(h, o, W[Len(h)]),
         NEW n \in 0..Len(h), NEW p \in DOMAIN h, p \in W[Len(h) - n],
         NEW conv \in Conversions(h), conv.ok, p \in conv.markers, Enough(h, conv, n),
         NEW P, Followed(h, o, W[Len(h)], conv, P), \A j : <<p, j>> \notin P,
         NEW parse, TreeParser(h, parse), FullParser(h, o, W, n, parse)
  PROVE  LET next == Each(conv, h[p].items, parse)
         IN next.ok /\ conv.markers \subseteq next.markers /\ Marked(conv, next) \subseteq W[Len(h)]
<1> DEFINE items == h[p].items
           L == Len(items)
           R == W[Len(h)]
<1>1. /\ L \in Nat /\ L <= MaxItems /\ MaxItems \in Nat /\ DOMAIN items = 1..L
      /\ items \in Seq(ValuesIn(h)) /\ \A i \in 1..L : items[i] \in ValuesIn(h)
      /\ DOMAIN h = 1..Len(h) /\ Len(h) \in Nat
  BY ValueSeq, ElementOfSeq, BoundsAssumption DEF Heap
<1>2. PICK f : EachBy(h, conv, items, parse, f)
  BY <1>1, EachSteps DEF TreeParser
<1> DEFINE Places(k) == (P \cup {p} \X (1..k)) \cup (Marked(conv, f[k]) \X (1..MaxItems))
           Fine(k) == f[k].ok /\ Marked(conv, f[k]) \subseteq R /\ Followed(h, o, R, f[k], Places(k))
           S == {k \in 0..L : Fine(k)}
<1>3. f[0] = conv /\ \A k \in 0..L : f[k] \in Conversions(h)
  BY <1>2 DEF EachBy
<1>4. \A k \in 0..L : f[k].ok => conv.markers \subseteq f[k].markers
  BY <1>2, EachTrees
<1>5. p \in R /\ R \subseteq DOMAIN h
  <2>1. Len(h) - n \in 0..Len(h) /\ Len(h) \in 0..Len(h)
    BY <1>1
  <2>2. R \subseteq DOMAIN h
    BY <2>1 DEF ReachedBy
  <2> QED
    BY <2>1, <2>2, Reaches
<1> HIDE DEF R
<1>6. 0 \in S
  <2>1. Marked(conv, f[0]) = {}
    BY <1>3 DEF Marked
  <2>2. {p} \X (1..0) = {} /\ {} \X (1..MaxItems) = {}
    OBVIOUS
  <2>3. Places(0) = P
    BY <2>1, <2>2
  <2> HIDE DEF Places
  <2>4. Fine(0)
    BY <1>3, <2>1, <2>3 DEF R
  <2> HIDE DEF Fine
  <2> QED
    BY <1>1, <2>4
<1>7. ASSUME NEW k \in 1..L, k - 1 \in S PROVE k \in S
  <2> DEFINE before == f[k - 1]
             v == items[k]
             Q == Marked(before, f[k])
  <2>1. /\ f[k] = parse[v][before] /\ before \in Conversions(h) /\ f[k] \in Conversions(h)
        /\ v \in ValuesIn(h) /\ k - 1 \in 0..L /\ k \in 1..MaxItems
    BY <1>1, <1>2, <1>3 DEF EachBy
  <2>2. before.ok /\ Marked(conv, before) \subseteq R /\ Followed(h, o, R, before, Places(k - 1))
    BY <1>7
  <2>3. conv.markers \subseteq before.markers
    BY <1>4, <2>1, <2>2
  <2>4. <<p, k>> \notin Places(k - 1)
    <3>1. p \notin Marked(conv, before)
      BY DEF Marked
    <3>2. k \notin 1..(k - 1)
      BY <1>1
    <3> HIDE DEF before
    <3>3. <<p, k>> \notin {p} \X (1..(k - 1)) /\ <<p, k>> \notin Marked(conv, before) \X (1..MaxItems)
      BY <3>1, <3>2
    <3> QED
      BY <3>3 DEF before
  <2>5. Ready(h, o, W, n, before, Places(k - 1), p, k, v)
    <3>1. Enough(h, before, n)
      BY <2>1, <2>3, MoreMarkers
    <3>2. Holds(h, p, k, v)
      BY <1>1 DEF Holds
    <3> HIDE DEF Places, before, v
    <3> QED
      BY <2>1, <2>2, <2>3, <2>4, <3>1, <3>2 DEF Ready, R
  <2>6. f[k].ok /\ Q \subseteq R
    BY <2>1, <2>5 DEF FullParser, R
  <2>7. /\ before.markers \subseteq f[k].markers
        /\ IF v \in Atoms THEN f[k].markers = before.markers ELSE Tree(h, v, Q)
    BY <2>1, <2>6 DEF TreeParser
  <2>8. Marked(conv, f[k]) = Marked(conv, before) \cup Q
    BY <2>3, <2>7 DEF Marked
  <2>9. /\ Places(k - 1) \subseteq Places(k) /\ <<p, k>> \in Places(k)
        /\ Q \X (1..MaxItems) \subseteq Places(k)
    <3>1. {p} \X (1..(k - 1)) \subseteq {p} \X (1..k) /\ <<p, k>> \in {p} \X (1..k)
      BY <1>1
    <3>2. Marked(conv, before) \X (1..MaxItems) \subseteq Marked(conv, f[k]) \X (1..MaxItems)
      BY <2>8
    <3>3. Q \X (1..MaxItems) \subseteq Marked(conv, f[k]) \X (1..MaxItems)
      BY <2>8
    <3> QED
      BY <3>1, <3>2, <3>3
  <2>10. Places(k) \subseteq (f[k].markers \cap R) \X (1..MaxItems)
    <3>1. P \subseteq (f[k].markers \cap R) \X (1..MaxItems)
      BY <2>3, <2>7 DEF Followed, R
    <3>2. {p} \X (1..k) \subseteq (f[k].markers \cap R) \X (1..MaxItems)
      <4>1. 1..k \subseteq 1..MaxItems
        BY <1>1
      <4>2. p \in f[k].markers \cap R
        BY <1>5, <2>3, <2>7
      <4> QED
        BY <4>1, <4>2
    <3>3. Marked(conv, f[k]) \subseteq f[k].markers \cap R
      BY <2>2, <2>6, <2>8 DEF Marked
    <3>4. Marked(conv, f[k]) \X (1..MaxItems) \subseteq (f[k].markers \cap R) \X (1..MaxItems)
      BY <3>3
    <3> QED
      BY <3>1, <3>2, <3>4
  <2>11. ASSUME NEW x \in f[k].markers \ {o}
         PROVE  \E q \in R, i \in 1..MaxItems : <<q, i>> \in Places(k) /\ Holds(h, q, i, x)
    <3> HIDE DEF Places
    <3>1. CASE x \in before.markers
      BY <2>2, <2>9, <3>1 DEF Followed
    <3>2. CASE x \notin before.markers
      <4>1. x \in Q /\ Tree(h, v, Q)
        BY <2>7, <3>2 DEF Marked
      <4>2. CASE x = v
        <5>1. Holds(h, p, k, x)
          BY <1>1, <4>2 DEF Holds
        <5> QED
          BY <1>5, <2>1, <2>9, <5>1
      <4>3. CASE x # v
        <5>1. PICK q \in Q, i \in 1..MaxItems : Holds(h, q, i, x)
          BY <4>1, <4>3 DEF Tree
        <5>2. <<q, i>> \in Q \X (1..MaxItems)
          OBVIOUS
        <5> QED
          BY <2>6, <2>9, <5>1, <5>2
      <4> QED
        BY <4>2, <4>3
    <3> QED
      BY <3>1, <3>2
  <2>12. o \in f[k].markers
    BY <2>2, <2>7 DEF Followed
  <2>13. Followed(h, o, R, f[k], Places(k))
    <3> HIDE DEF Places
    <3> QED
      BY <2>10, <2>11, <2>12 DEF Followed
  <2>14. Fine(k)
    BY <2>2, <2>6, <2>8, <2>13
  <2> HIDE DEF Fine
  <2> QED
    BY <1>1, <2>14
<1> HIDE DEF S
<1>8. 0..L \subseteq S
  BY <1>1, <1>6, <1>7, Upwards
<1>9. L \in 0..L
  BY <1>1
<1>10. Fine(L)
  BY <1>8, <1>9 DEF S
<1>11. Each(conv, items, parse) = f[L]
  BY <1>2 DEF EachBy
<1> HIDE DEF L, items
<1> QED
  BY <1>4, <1>9, <1>10, <1>11 DEF R, items

LEMMA ParseValueFull ==
  ASSUME NEW h, Heap(h), NEW cls \in Classes, NEW o \in DOMAIN h, NEW W, ReachedBy(h, o, W),
         Once(h, o, W[Len(h)]), NEW n \in 1..Len(h),
         NEW parse, TreeParser(h, parse), FullParser(h, o, W, n - 1, parse)
  PROVE  FullParser(h, o, W, n, ParseValue(h, cls, parse))
<1> DEFINE R == W[Len(h)]
<1> SUFFICES ASSUME NEW v \in ValuesIn(h), NEW conv \in Conversions(h), NEW P, NEW q, NEW j,
                    Ready(h, o, W, n, conv, P, q, j, v)
             PROVE  /\ ParseValue(h, cls, parse)[v][conv].ok
                    /\ Marked(conv, ParseValue(h, cls, parse)[v][conv]) \subseteq R
  BY DEF FullParser
<1> DEFINE next == ParseValue(h, cls, parse)[v][conv]
<1>1. /\ conv.ok /\ Enough(h, conv, n) /\ Followed(h, o, R, conv, P)
      /\ q \in conv.markers /\ q \in W[Len(h) - n] /\ j \in 1..MaxItems
      /\ Holds(h, q, j, v) /\ <<q, j>> \notin P
  BY DEF Ready
<1>2. next = IF ~conv.ok THEN conv
             ELSE IF v \in Atoms THEN Given(conv, Atomic(v))
             ELSE IF v \in conv.markers THEN Failed(conv)
             ELSE ParseContainer(h, cls, conv, v, parse)
  BY DEF ParseValue
<1>3. /\ Len(h) \in Nat /\ Len(h) - n \in 0..Len(h) /\ n - 1 \in 0..Len(h)
      /\ Len(h) - (n - 1) \in 1..Len(h) /\ Len(h) - (n - 1) - 1 = Len(h) - n
      /\ Len(h) - (n - 1) \in 0..Len(h)
  BY LenProperties DEF Heap
<1>4. q \in R
  BY <1>1, <1>3, Reaches
<1> HIDE DEF next
<1>5. CASE v \in Atoms
  <2>1. next.ok /\ next.markers = conv.markers
    BY <1>1, <1>2, <1>5, MarkersOfSteps
  <2> QED
    BY <2>1 DEF Marked, next
<1>6. CASE v \notin Atoms
  <2>1. v \in W[Len(h) - (n - 1)]
    BY <1>1, <1>3, <1>6, Reaches
  <2>2. v \in R /\ v \in DOMAIN h
    BY <1>3, <1>6, <2>1, Reaches DEF ValuesIn
  <2> HIDE DEF R
  <2>3. v # o /\ v \notin conv.markers
    <3>1. v # o
      BY <1>1, <1>4, <2>2 DEF Once, R
    <3>2. ASSUME v \in conv.markers PROVE FALSE
      <4>1. PICK p \in R, i \in 1..MaxItems : <<p, i>> \in P /\ Holds(h, p, i, v)
        BY <1>1, <3>1, <3>2 DEF Followed
      <4>2. p = q /\ i = j
        BY <1>1, <1>4, <2>2, <4>1 DEF Once, R
      <4> QED
        BY <1>1, <4>1, <4>2
    <3> QED
      BY <3>1, <3>2
  <2> DEFINE entered == Entered(conv, v)
             Q == P \cup {<<q, j>>}
             inner == Each(entered, h[v].items, parse)
             object == Shape(h[v].type, cls, inner.values)
             left == With(inner, conv.values)
  <2>4. /\ entered \in Conversions(h) /\ entered.ok /\ entered.markers = conv.markers \cup {v}
    BY <1>1, <2>2, EnteredFields, MarkersOfSteps
  <2>5. Enough(h, entered, n - 1)
    <3> HIDE DEF entered
    <3> QED
      BY <1>1, <2>2, <2>3, <2>4, MoreMarkers
  <2>6. Followed(h, o, R, entered, Q)
    <3> HIDE DEF entered
    <3>1. Q \subseteq (entered.markers \cap R) \X (1..MaxItems)
      BY <1>1, <1>4, <2>4 DEF Followed
    <3>2. \A x \in entered.markers \ {o} : \E p \in R, i \in 1..MaxItems :
            <<p, i>> \in Q /\ Holds(h, p, i, x)
      BY <1>1, <1>4, <2>4 DEF Followed
    <3> HIDE DEF Q
    <3> QED
      BY <1>1, <2>4, <3>1, <3>2 DEF Followed
  <2>7. ASSUME NEW i PROVE <<v, i>> \notin Q
    <3>1. v # q
      BY <1>1, <2>3
    <3>2. <<v, i>> \notin P
      BY <1>1, <2>3 DEF Followed
    <3> QED
      BY <3>1, <3>2
  <2>8. v \in entered.markers
    BY <2>4
  <2> HIDE DEF entered, Q
  <2>9. inner.ok /\ entered.markers \subseteq inner.markers /\ Marked(entered, inner) \subseteq R
    BY <1>3, <2>1, <2>2, <2>4, <2>5, <2>6, <2>7, <2>8, EachFull DEF R
  <2>10. inner \in Conversions(h)
    <3>1. h[v].items \in Seq(ValuesIn(h)) /\ Len(h[v].items) \in 0..Len(h[v].items)
      BY <2>2, ValueSeq
    <3>2. PICK f : EachBy(h, entered, h[v].items, parse, f)
      BY <2>4, <3>1, EachSteps DEF TreeParser
    <3> QED
      BY <3>1, <3>2 DEF EachBy
  <2>11. next = Place(h, left, object)
    <3>1. next = ParseContainer(h, cls, conv, v, parse)
      BY <1>1, <1>2, <1>6, <2>3
    <3> QED
      BY <2>9, <3>1 DEF ParseContainer, entered
  <2> HIDE DEF inner
  <2>12. left \in Conversions(h) /\ left.ok /\ left.markers = inner.markers
    BY <2>9, <2>10, WithFields, MarkersOfSteps, Lengths
  <2> HIDE DEF left
  <2>13. next.ok /\ next.markers = inner.markers
    BY <2>11, <2>12, MarkersOfSteps
  <2>14. Marked(conv, next) \subseteq R
    BY <2>2, <2>4, <2>9, <2>13 DEF Marked
  <2> QED
    BY <2>13, <2>14 DEF next, R
<1> QED
  BY <1>5, <1>6

\* As many levels as there are objects are enough for all that o leads to.
LEMMA ParseFull ==
  ASSUME NEW h, Heap(h), NEW cls \in Classes, NEW P, ParseBy(h, cls, P),
         NEW o \in DOMAIN h, NEW W, ReachedBy(h, o, W), Once(h, o, W[Len(h)])
  PROVE  FullParser(h, o, W, Len(h), P[Len(h)])
<1>1. Len(h) \in Nat
  BY LenProperties DEF Heap
<1>2. \A n \in 0..Len(h) : TreeParser(h, P[n])
  BY ParseTree
<1> DEFINE S == {n \in 0..Len(h) : FullParser(h, o, W, n, P[n])}
<1>3. 0 \in S
  <2>1. \A conv \in Conversions(h) : ~Enough(h, conv, 0)
    BY <1>1, MoreMarkers DEF Enough
  <2> QED
    BY <1>1, <2>1 DEF FullParser, Ready
<1>4. ASSUME NEW n \in 1..Len(h), n - 1 \in S PROVE n \in S
  <2>1. P[n] = ParseValue(h, cls, P[n - 1])
    BY DEF ParseBy
  <2>2. FullParser(h, o, W, n, P[n])
    BY <1>2, <1>4, <2>1, ParseValueFull
  <2> QED
    BY <1>1, <2>2
<1> HIDE DEF S
<1>5. 0..Len(h) \subseteq S
  BY <1>1, <1>3, <1>4, Upwards
<1> QED
  BY <1>1, <1>5 DEF S

\* Reached is such a W, up to its last.
LEMMA ReachedSteps ==
  ASSUME NEW h, Heap(h), NEW o \in DOMAIN h
  PROVE  \E W : ReachedBy(h, o, W) /\ Reached(h, o) = W[Len(h)]
<1> DEFINE L == Len(h)
           T == SUBSET DOMAIN h
           more(before) == before \cup UNION {Children(h, p) : p \in before}
           step == [n \in 1..L |-> [before \in T |-> more(before)]]
           def(f) == [n \in 0..L |-> IF n = 0 THEN {o} ELSE more(f[n - 1])]
           F == CHOOSE f : f = def(f)
<1>1. L \in Nat
  BY LenProperties DEF Heap
<1>2. \A before \in T : more(before) \in T
  BY DEF Heap, Children, Items, ValuesIn
<1> HIDE DEF more, T
<1>3. step \in [1..L -> [T -> T]]
  BY <1>2
<1>4. PICK f \in [0..L -> T] : f[0] = {o} /\ \A n \in 1..L : f[n] = step[n][f[n - 1]]
  <2> HIDE DEF step, L
  <2>1. {o} \in T
    BY DEF T
  <2>2. \E f \in [0..L -> T] : Stepwise(L, {o}, step, f)
    BY <1>1, <1>3, <2>1, StepByStep
  <2> QED
    BY <2>2 DEF Stepwise
<1>5. \A n \in 1..L : f[n] = more(f[n - 1])
  <2> HIDE DEF L
  <2> SUFFICES ASSUME NEW n \in 1..L PROVE f[n] = more(f[n - 1])
    OBVIOUS
  <2>1. n - 1 \in 0..L /\ f[n - 1] \in T
    BY <1>1, <1>4
  <2>2. step[n][f[n - 1]] = more(f[n - 1])
    BY <2>1
  <2> QED
    BY <1>4, <2>2
<1>6. f = def(f)
  <2>1. ASSUME NEW n \in 0..L PROVE f[n] = def(f)[n]
    BY <1>1, <1>4, <1>5
  <2>2. f = [n \in 0..L |-> f[n]] /\ def(f) = [n \in 0..L |-> def(f)[n]]
    OBVIOUS
  <2> HIDE DEF def
  <2> QED
    BY <2>1, <2>2
<1>7. F = def(F)
  <2> HIDE DEF def
  <2> QED
    BY <1>6
<1>8. F[0] = {o} /\ \A n \in 1..L : F[n] = more(F[n - 1])
  <2>1. def(F)[0] = {o} /\ \A n \in 1..L : def(F)[n] = more(F[n - 1])
    <3> HIDE DEF F
    <3> QED
      BY <1>1
  <2> HIDE DEF def, F
  <2> QED
    BY <1>7, <2>1
<1>9. DOMAIN F = 0..L
  <2> HIDE DEF F
  <2> QED
    BY <1>7
<1>10. Reached(h, o) = F[L]
  BY DEF Reached, more
<1> HIDE DEF F
<1> DEFINE S == {n \in 0..L : F[n] \in T}
<1>11. 0 \in S
  BY <1>1, <1>8 DEF T
<1>12. ASSUME NEW n \in 1..L, n - 1 \in S PROVE n \in S
  <2>1. F[n - 1] \in T
    BY <1>12
  <2>2. F[n] \in T
    BY <1>2, <1>8, <2>1
  <2> QED
    BY <1>1, <2>2
<1> HIDE DEF S
<1>13. 0..L \subseteq S
  BY <1>1, <1>11, <1>12, Upwards
<1>14. F \in [0..L -> T]
  <2>1. \A n \in 0..L : F[n] \in T
    BY <1>13 DEF S
  <2>2. F = [n \in 0..L |-> F[n]]
    BY <1>7, <1>9
  <2> QED
    BY <2>1, <2>2
<1> QED
  BY <1>8, <1>10, <1>14 DEF ReachedBy, T, more

\* Where each object has one place and o none, all of it is converted.
LEMMA TreeAccepted ==
  ASSUME NEW h, Heap(h), NEW cls \in Classes, NEW o \in DOMAIN h,
         NEW W, ReachedBy(h, o, W), Once(h, o, W[Len(h)])
  PROVE  ParseObject(h, o, cls).ok
<1> DEFINE conv == Start(o)
<1>1. Len(h) \in Nat /\ Len(h) \in 0..Len(h) /\ W[Len(h) - Len(h)] = {o} /\ o \in W[Len(h)]
  <2>1. Len(h) \in Nat
    BY LenProperties DEF Heap
  <2>2. Len(h) - Len(h) = 0
    BY <2>1
  <2> QED
    BY <2>1, <2>2, Reaches DEF ReachedBy
<1>2. PICK P : ParseBy(h, cls, P)
  BY ParseSteps
<1>3. /\ conv \in Conversions(h) /\ conv.ok /\ conv.markers = {o}
  BY EmptySeq DEF Start, Conversions
<1> HIDE DEF conv
<1>4. Enough(h, conv, Len(h))
  <2>1. Cardinality(conv.markers) = 1
    BY <1>3, FS_Singleton
  <2> QED
    BY <1>1, <2>1 DEF Enough
<1> DEFINE None == {}
<1>5. Followed(h, o, W[Len(h)], conv, None) /\ \A j : <<o, j>> \notin None
  BY <1>3 DEF Followed
<1> HIDE DEF None
<1>6. TreeParser(h, P[Len(h)]) /\ FullParser(h, o, W, Len(h), P[Len(h)])
  BY <1>1, <1>2, ParseTree, ParseFull
<1>7. o \in W[Len(h) - Len(h)] /\ o \in conv.markers
  BY <1>1, <1>3
<1>8. Each(conv, h[o].items, P[Len(h)]).ok
  BY <1>1, <1>3, <1>4, <1>5, <1>6, <1>7, EachFull
<1> QED
  BY <1>2, <1>8 DEF ParseObject, ParseBy, conv

\* What is converted is a tree.
LEMMA AcceptedTree ==
  ASSUME NEW h, Heap(h), NEW cls \in Classes, NEW o \in DOMAIN h, ParseObject(h, o, cls).ok
  PROVE  \E R : Tree(h, o, R)
<1> DEFINE conv == Start(o)
           items == h[o].items
<1>1. Len(h) \in 0..Len(h) /\ Len(items) \in 0..Len(items) /\ items \in Seq(ValuesIn(h))
  BY ValueSeq
<1>2. PICK P : ParseBy(h, cls, P)
  BY ParseSteps
<1>3. TreeParser(h, P[Len(h)])
  BY <1>1, <1>2, ParseTree
<1>4. conv \in Conversions(h) /\ o \in conv.markers
  BY EmptySeq DEF Start, Conversions
<1> HIDE DEF conv, items
<1>5. PICK f : EachBy(h, conv, items, P[Len(h)], f)
  BY <1>1, <1>3, <1>4, EachSteps DEF TreeParser
<1>6. f[Len(items)].ok
  BY <1>2, <1>5 DEF EachBy, ParseBy, ParseObject, conv, items
<1>7. \A n \in 0..Len(items) : f[n].ok => Trees(h, o, n, Marked(conv, f[n]))
  BY <1>3, <1>4, <1>5, EachTrees DEF items
<1>8. Trees(h, o, Len(items), Marked(conv, f[Len(items)]))
  BY <1>1, <1>6, <1>7
<1> QED
  BY <1>8, TreesTogether DEF items

\* In the objects of R, o has no place and each of the others has one.
Placed(h, o, R) ==
  /\ \A p \in R, i \in 1..MaxItems : ~Holds(h, p, i, o)
  /\ \A x \in R \ {o} : \E p \in R, i \in 1..MaxItems :
       /\ Holds(h, p, i, x)
       /\ \A q \in R, j \in 1..MaxItems : Holds(h, q, j, x) => q = p /\ j = i

\* What o leads to is in every tree of o, and so all of it has its one place there.
LEMMA TreePlaced ==
  ASSUME NEW h, Heap(h), NEW o \in DOMAIN h, NEW W, ReachedBy(h, o, W),
         NEW R, Tree(h, o, R)
  PROVE  Placed(h, o, W[Len(h)])
<1> DEFINE S == {n \in 0..Len(h) : W[n] \subseteq R}
<1>1. Len(h) \in Nat /\ DOMAIN h = 1..Len(h)
  BY LenProperties DEF Heap
<1>2. 0 \in S
  BY <1>1 DEF ReachedBy, Tree
<1>3. ASSUME NEW n \in 1..Len(h), n - 1 \in S PROVE n \in S
  <2>1. \A p \in W[n - 1] : Children(h, p) \subseteq R
    BY <1>3 DEF Tree, Closed, Children, Items
  <2>2. W[n] \subseteq R
    BY <1>3, <2>1 DEF ReachedBy
  <2> QED
    BY <1>1, <2>2
<1> HIDE DEF S
<1>4. 0..Len(h) \subseteq S
  BY <1>1, <1>2, <1>3, Upwards
<1>5. W[Len(h)] \subseteq R
  BY <1>1, <1>4 DEF S
<1>6. ASSUME NEW x \in W[Len(h)] \ {o}
      PROVE  \E p \in W[Len(h)], i \in 1..MaxItems :
               /\ Holds(h, p, i, x)
               /\ \A q \in W[Len(h)], j \in 1..MaxItems : Holds(h, q, j, x) => q = p /\ j = i
  <2>1. PICK p \in W[Len(h)], i \in 1..MaxItems : Holds(h, p, i, x)
    BY Reaches
  <2>2. ASSUME NEW q \in R, NEW j \in 1..MaxItems, Holds(h, q, j, x) PROVE q = p /\ j = i
    BY <1>5, <2>1, <2>2 DEF Tree
  <2> QED
    BY <1>5, <2>1, <2>2
<1> QED
  BY <1>5, <1>6 DEF Placed, Tree

\* The places are counted.
LEMMA HoldersCounted ==
  ASSUME Heap(heap), NEW o, NEW R \in SUBSET DOMAIN heap
  PROVE  Placed(heap, o, R) /\ o \in R <=>
           o \in R /\ \A x \in R : Cardinality(Holders(R, x)) = IF x = o THEN 0 ELSE 1
<1>1. IsFiniteSet(R \X (1..MaxItems))
  <2>1. Len(heap) \in Nat /\ DOMAIN heap = 1..Len(heap) /\ MaxItems \in Nat
    BY LenProperties, BoundsAssumption DEF Heap
  <2>2. IsFiniteSet(1..Len(heap)) /\ IsFiniteSet(1..MaxItems)
    <3>1. 1 \in Int /\ Len(heap) \in Int /\ MaxItems \in Int
      BY <2>1
    <3> QED
      BY <3>1, FS_Interval
  <2>3. IsFiniteSet(R)
    BY <2>1, <2>2, FS_Subset
  <2> QED
    BY <2>2, <2>3, FS_Product
<1>2. ASSUME NEW x
      PROVE  /\ IsFiniteSet(Holders(R, x))
             /\ \A p \in R, i \in 1..MaxItems : <<p, i>> \in Holders(R, x) <=> Holds(heap, p, i, x)
             /\ \A at \in Holders(R, x) : \E p \in R, i \in 1..MaxItems : at = <<p, i>>
  <2>1. Holders(R, x) \in SUBSET (R \X (1..MaxItems))
    BY DEF Holders
  <2>2. IsFiniteSet(Holders(R, x))
    BY <1>1, <2>1, FS_Subset
  <2>3. \A p \in R, i \in 1..MaxItems : <<p, i>> \in Holders(R, x) <=> Holds(heap, p, i, x)
    BY DEF Holders, Holds
  <2>4. \A at \in R \X (1..MaxItems) : \E p \in R, i \in 1..MaxItems : at = <<p, i>>
    OBVIOUS
  <2> QED
    BY <2>1, <2>2, <2>3, <2>4
<1>3. ASSUME NEW x
      PROVE  Cardinality(Holders(R, x)) = 0
               <=> \A p \in R, i \in 1..MaxItems : ~Holds(heap, p, i, x)
  <2>1. Cardinality(Holders(R, x)) = 0 <=> Holders(R, x) = {}
    BY <1>2, FS_EmptySet
  <2>2. Holders(R, x) = {} <=> \A p \in R, i \in 1..MaxItems : <<p, i>> \notin Holders(R, x)
    BY <1>2
  <2> QED
    BY <1>2, <2>1, <2>2
<1>4. ASSUME NEW x
      PROVE  Cardinality(Holders(R, x)) = 1
               <=> \E p \in R, i \in 1..MaxItems :
                     /\ Holds(heap, p, i, x)
                     /\ \A q \in R, j \in 1..MaxItems : Holds(heap, q, j, x) => q = p /\ j = i
  <2> DEFINE H == Holders(R, x)
  <2>1. Cardinality(H) = 1 <=> \E at : H = {at}
    BY <1>2, FS_Singleton
  <2>2. ASSUME NEW at, H = {at}
        PROVE  \E p \in R, i \in 1..MaxItems :
                 /\ Holds(heap, p, i, x)
                 /\ \A q \in R, j \in 1..MaxItems : Holds(heap, q, j, x) => q = p /\ j = i
    <3>1. PICK p \in R, i \in 1..MaxItems : at = <<p, i>>
      BY <1>2, <2>2
    <3>2. Holds(heap, p, i, x)
      BY <1>2, <2>2, <3>1
    <3>3. ASSUME NEW q \in R, NEW j \in 1..MaxItems, Holds(heap, q, j, x) PROVE q = p /\ j = i
      <4>1. <<q, j>> \in H
        BY <1>2, <3>3
      <4>2. <<q, j>> = <<p, i>>
        BY <2>2, <3>1, <4>1
      <4> QED
        BY <4>2
    <3> QED
      BY <3>2, <3>3
  <2>3. ASSUME NEW p \in R, NEW i \in 1..MaxItems, Holds(heap, p, i, x),
               \A q \in R, j \in 1..MaxItems : Holds(heap, q, j, x) => q = p /\ j = i
        PROVE  H = {<<p, i>>}
    <3>1. <<p, i>> \in H
      BY <1>2, <2>3
    <3>2. ASSUME NEW at \in H PROVE at = <<p, i>>
      <4>1. PICK q \in R, j \in 1..MaxItems : at = <<q, j>>
        BY <1>2
      <4>2. Holds(heap, q, j, x)
        BY <1>2, <4>1
      <4> QED
        BY <2>3, <4>1, <4>2
    <3> HIDE DEF H
    <3> QED
      BY <3>1, <3>2
  <2> HIDE DEF H
  <2> QED
    BY <2>1, <2>2, <2>3 DEF H
<1>5. Placed(heap, o, R) <=>
        /\ Cardinality(Holders(R, o)) = 0
        /\ \A x \in R \ {o} : Cardinality(Holders(R, x)) = 1
  BY <1>3, <1>4 DEF Placed
<1> QED
  BY <1>5

-----------------------------------------------------------------------------
(* What a frozen dict leads to.                                            *)

\* If nothing that a frozen dict leads to is in M or is the value of an Enum, it is one of
\* objects that can change no more.  Each of them is older than the one that holds it, so
\* that d leads to it in less steps than d is old.
LEMMA SealedPure ==
  ASSUME IInv, NEW d \in Frozen(heap), NEW M, merged \subseteq M, Sealed(heap, d, M)
  PROVE  \E T : Pure(heap, T, M) /\ d \in T
<1>1. Heap(heap) /\ d \in DOMAIN heap /\ DOMAIN heap = 1..Len(heap) /\ Len(heap) \in Nat
  BY LenProperties DEF IInv, Kept, Heap, Frozen, InstancesIn
<1>2. PICK S : Solid(heap, S, merged) /\ Frozen(heap) \subseteq S
  BY DEF IInv, Kept
<1>3. PICK W : ReachedBy(heap, d, W) /\ Reached(heap, d) = W[Len(heap)]
  BY <1>1, ReachedSteps
<1>4. \A n \in 0..Len(heap) : W[n] \cap (M \cup {ValueOfKind}) = {}
  <2>1. W[Len(heap)] \cap (M \cup {ValueOfKind}) = {}
    BY <1>3 DEF Sealed
  <2>2. \A n \in 0..Len(heap) : W[n] \subseteq W[Len(heap)]
    BY <1>1, <1>3, Reaches
  <2> QED
    BY <2>1, <2>2
<1> DEFINE T == {o \in S : \E n \in 0..d : o \in W[n] /\ o + n <= d}
<1>5. d \in T
  BY <1>1, <1>2, <1>3 DEF ReachedBy
<1>6. S \subseteq DOMAIN heap
  BY <1>2 DEF Solid, InstancesIn
<1>7. ASSUME NEW o \in T
      PROVE  o \notin M /\ Range(heap[o].items) \subseteq Atoms \cup {p \in T : p < o}
  <2>1. PICK n \in 0..d : o \in W[n] /\ o + n <= d
    OBVIOUS
  <2>2. o \in DOMAIN heap /\ o \notin M /\ o \in S
    BY <1>1, <1>4, <1>6, <2>1
  <2>3. n + 1 \in 1..Len(heap) /\ n + 1 \in 0..Len(heap) /\ n + 1 \in 0..d /\ n + 1 - 1 = n
    BY <1>1, <2>1, <2>2
  <2>4. W[n + 1] = W[n] \cup UNION {Children(heap, p) : p \in W[n]}
    BY <1>3, <2>3 DEF ReachedBy
  <2>5. Children(heap, o) \subseteq W[n + 1]
    BY <2>1, <2>4
  <2>6. ASSUME NEW p \in Range(heap[o].items), p \notin Atoms PROVE p \in T /\ p < o
    <3>1. p \in W[n + 1]
      BY <2>5, <2>6 DEF Children, Items
    <3>2. p # ValueOfKind
      BY <1>4, <2>3, <3>1
    <3>3. p \in S /\ p < o
      BY <1>2, <2>2, <2>6, <3>2 DEF Solid, Plain, Atoms
    <3>4. p + (n + 1) <= d
      BY <1>1, <1>6, <2>1, <2>2, <3>3
    <3> QED
      BY <2>3, <3>1, <3>3, <3>4
  <2> QED
    BY <2>2, <2>6
<1>8. T \subseteq S
  OBVIOUS
<1> HIDE DEF T
<1>9. Pure(heap, T, M)
  BY <1>2, <1>6, <1>7, <1>8 DEF Pure, Deep, Solid
<1> QED
  BY <1>5, <1>9

-----------------------------------------------------------------------------
(* The theorems.                                                           *)

\* However many objects there are and whatever they hold, the items of each are atoms
\* and objects that are there, and there is one empty tuple.
THEOREM JsonTyped == Spec => []TypeOK
<1>1. IInv => TypeOK
  <2> SUFFICES ASSUME IInv PROVE TypeOK
    OBVIOUS
  <2>1. Heap(heap) /\ made \cup merged \subseteq DOMAIN heap /\ DOMAIN json = Frozen(heap)
    BY DEF IInv, Kept, InstancesIn
  <2>2. \A o \in DOMAIN heap : heap[o].type \in Types
    BY <2>1, ValueSeq
  <2> QED
    BY <2>1, <2>2 DEF TypeOK, Heap, Frozen, OfTypes, Items, Values
<1> QED
  BY <1>1, Invariant, PTL

\* A JsonDict of any depth that |= was not applied to holds what JSON has, the values of
\* Enum members and no object of the caller: not through its constructor, nor by
\* __setitem__, setdefault or update, whatever they are given.
THEOREM ItemsParsed == Spec => []ItemsAreParsed
<1>1. IInv => ItemsAreParsed
  BY DEF IInv, Kept, Clean, Plain, ItemsAreParsed, OfTypes, Items
<1> QED
  BY <1>1, Invariant, PTL

\* The content of a frozen dict, at any depth, is the same after each step, if it leads to
\* nothing that |= was applied to and to no value of an Enum.
THEOREM FrozenIsForGood == Spec => FrozenForGood
<1>1. IInv /\ [Next]_vars =>
        [\A d \in OfTypes({"FrozenJsonDict"}) :
           Sealed(heap, d, merged') => Dumps(heap', d) = Dumps(heap, d)]_vars
  <2> SUFFICES ASSUME IInv, [Next]_vars, NEW d \in OfTypes({"FrozenJsonDict"}),
                      Sealed(heap, d, merged')
               PROVE  Dumps(heap', d) = Dumps(heap, d)
    OBVIOUS
  <2>1. Continues
    BY StepContinues
  <2>2. \E T : Pure(heap, T, merged') /\ d \in T
    BY <2>1, SealedPure DEF Continues, Frozen, OfTypes
  <2> QED
    BY <2>1, <2>2, PureContinue
<1> QED
  BY <1>1, Invariant, PTL DEF Spec, FrozenForGood

\* The hash of a frozen dict of the caller is the one of what it holds, as long as it
\* is there and leads to nothing that |= was applied to and to no value of an Enum.
THEOREM HashOfContent == Spec => []HashIsOfContent
<1>1. IInv => HashIsOfContent
  <2> SUFFICES ASSUME IInv, NEW d \in made \cap Frozen(heap), Sealed(heap, d, merged)
               PROVE  json[d] = Dumps(heap, d)
    BY DEF HashIsOfContent, Frozen, OfTypes
  <2>1. \E T : Pure(heap, T, merged) /\ d \in T
    BY SealedPure
  <2> QED
    BY <2>1 DEF IInv, Remembered
<1> QED
  BY <1>1, Invariant, PTL

\* Of every mapping, however deep: what o leads to is converted if each object of it has
\* one place and o has none, and if not, the marker of one that is found again ends it.
THEOREM AcceptedTrees == Spec => []AcceptedIffTree
<1>1. IInv => AcceptedIffTree
  <2> SUFFICES ASSUME IInv, NEW o \in OfTypes(Mappings)
               PROVE  LET reached == Reached(heap, o)
                      IN ParseObject(heap, o, "JsonDict").ok <=>
                           \A x \in reached :
                             Cardinality(Holders(reached, x)) = IF x = o THEN 0 ELSE 1
    BY DEF AcceptedIffTree
  <2>1. Heap(heap) /\ o \in DOMAIN heap /\ "JsonDict" \in Classes
    BY DEF IInv, Kept, OfTypes, InstancesIn, Classes
  <2>2. PICK W : ReachedBy(heap, o, W) /\ Reached(heap, o) = W[Len(heap)]
    BY <2>1, ReachedSteps
  <2> DEFINE R == W[Len(heap)]
  <2>3. R \in SUBSET DOMAIN heap /\ o \in R
    <3>1. Len(heap) \in 0..Len(heap)
      BY <2>1, ValueSeq
    <3> QED
      BY <2>1, <2>2, <3>1, Reaches DEF ReachedBy
  <2>4. ASSUME ParseObject(heap, o, "JsonDict").ok PROVE Placed(heap, o, R)
    BY <2>1, <2>2, <2>4, AcceptedTree, TreePlaced
  <2>5. ASSUME Placed(heap, o, R) PROVE ParseObject(heap, o, "JsonDict").ok
    <3>1. Once(heap, o, R)
      <4> HIDE DEF R
      <4> QED
        BY <2>5 DEF Placed, Once
    <3> QED
      BY <2>1, <2>2, <3>1, TreeAccepted
  <2> HIDE DEF R
  <2>6. Placed(heap, o, R) <=>
          \A x \in R : Cardinality(Holders(R, x)) = IF x = o THEN 0 ELSE 1
    BY <2>1, <2>3, HoldersCounted
  <2> QED
    BY <2>2, <2>4, <2>5, <2>6 DEF R
<1> QED
  BY <1>1, Invariant, PTL

=============================================================================
