------------------------------ MODULE JsonDict ------------------------------
(***************************************************************************)
(* JsonDict and FrozenJsonDict (pyddd.domain.types): dicts that copy what  *)
(* is put into them, converted to what JSON has.  They are part of         *)
(* commands and events, so what one handler does to a value it was given   *)
(* must not reach the message of another.  Two things get past the         *)
(* conversion: the value of a member of an Enum, which is taken as it is,  *)
(* and the items that |= brings, which is the operator of dict.            *)
(*                                                                         *)
(* The heap is explicit: an object is an address, containers hold atoms    *)
(* and addresses, and two containers may hold the same one.  The key of an *)
(* item is its position.                                                   *)
(***************************************************************************)
EXTENDS Naturals, Sequences, FiniteSets, SequencesExt

CONSTANTS Text,         \* an atom that JSON has
          Date,         \* one that it has not, of which the converters make Text
          Day,          \* a member of an Enum, whose value is
          Dated,        \* an atom that JSON has not
          Kind,         \* a member of an Enum, whose value is a list or a dict
          MaxItems,     \* BOUND: items of a container
          MaxTuple,     \* BOUND: of a tuple that the caller makes
          MaxMade,      \* BOUND: objects the caller makes
          MaxCalls      \* BOUND: what the program does

Atoms == {Text, Date, Day, Dated, Kind}

ASSUME AtomsAssumption == Cardinality(Atoms) = 5 /\ Atoms \cap Nat = {}
ASSUME BoundsAssumption == {MaxItems, MaxTuple, MaxMade, MaxCalls} \subseteq Nat \ {0}
ASSUME TupleAssumption == MaxTuple <= MaxItems

VARIABLES heap,   \* the objects, in the order they were made in
          json,   \* what each FrozenJsonDict remembers as its JSON
          made,   \* those that the caller made; the others were made by the conversion
          merged, \* the dicts that |= was applied to
          calls   \* how much the program did

vars == <<heap, json, made, merged, calls>>

Classes == {"JsonDict", "FrozenJsonDict"}
Mappings == Classes \cup {"dict"}
Types == Mappings \cup {"list", "tuple"}

\* The classes whose __setitem__ and update do not raise.
Settable == Classes \ {"FrozenJsonDict"}

Object(type, items) == [type |-> type, items |-> items]
ValuesIn(h) == Atoms \cup DOMAIN h
Values == ValuesIn(heap)
Raw == Values \ {Text, Dated}    \* what the caller has; what Text becomes shows with Date
InstancesIn(h, types) == {o \in DOMAIN h : h[o].type \in types}
OfTypes(types) == InstancesIn(heap, types)
Items(h, o) == Range(h[o].items)
Children(h, o) == Items(h, o) \ Atoms

\* The interpreter has one empty tuple, that every part of the program shares, and the
\* member of an Enum one value.
Empty == 1
ValueOfKind == 2
Init ==
  /\ \E type \in {"list", "dict"} :
       heap = <<Object("tuple", <<>>), Object(type, <<>>)>>
  /\ json = <<>>
  /\ made = {}
  /\ merged = {}
  /\ calls = 0

-----------------------------------------------------------------------------
(* The JSON of a value *)

\* That of a container, with the JSON of its items.
Written(h, o, of) == [mapping |-> h[o].type \in Mappings, of |-> of]

\* That of an empty dict.
EmptyJson == [mapping |-> TRUE, of |-> <<>>]

\* The JSON of each value but of what is deeper in it than the level.
Level(h, below) ==
  [v \in ValuesIn(h) |->
     IF v \in Atoms THEN v
     ELSE Written(h, v, [i \in DOMAIN h[v].items |-> below[h[v].items[i]]])]

\* JSON_CONVERTER.dumps of a JsonDict, which has fewer levels than there are objects: what
\* is in itself is not written (Dumpable).
Dumps(h, d) ==
  LET level[n \in 0..Len(h)] ==
        IF n = 0 THEN [v \in ValuesIn(h) |-> IF v \in Atoms THEN v ELSE Written(h, v, <<>>)]
        ELSE Level(h, level[n - 1])
  IN level[Len(h)][d]

-----------------------------------------------------------------------------
(* The conversion.  It has the objects that it made, the markers, the values it   *)
(* made of those it was given so far, and whether it goes on; a marker is never   *)
(* taken out.                                                                     *)

Conversions(h) ==
  [new : Seq([type : Types, items : Seq(Atoms \cup Nat)]), markers : SUBSET DOMAIN h,
   values : Seq(Atoms \cup Nat), ok : BOOLEAN]

Start(o) == [new |-> <<>>, markers |-> {o}, values |-> <<>>, ok |-> TRUE]

\* Defect: what is in any dict is frozen
ShapeFrozen(type, cls, items) ==
  Object(IF type \in Mappings THEN "FrozenJsonDict" ELSE "tuple", items)

\* Defect: FrozenJsonDict without its DEFAULT_ITERABLE_CONVERTER
ShapeList(type, cls, items) ==
  IF type \in Mappings THEN Object(cls, items) ELSE Object(type, items)

\* What a container becomes in a dict of class cls.
Shape(type, cls, items) ==
  Object(IF type \in Mappings THEN cls
         ELSE IF type = "tuple" \/ cls = "FrozenJsonDict" THEN "tuple"
         ELSE "list", items)

With(conv, values) == [conv EXCEPT !.values = values]
Given(conv, value) == With(conv, Append(conv.values, value))
Entered(conv, o) == [conv EXCEPT !.markers = @ \cup {o}, !.values = <<>>]
Failed(conv) == [conv EXCEPT !.ok = FALSE]

\* One more object, and the value that it is.
Place(h, conv, object) ==
  IF object = Object("tuple", <<>>) THEN Given(conv, Empty)
  ELSE [Given(conv, Len(h) + Len(conv.new) + 1) EXCEPT !.new = Append(@, object)]

\* _parse_other: the value of a member of an Enum is taken as it is.
Atomic(v) == IF v = Kind THEN ValueOfKind ELSE IF v = Day THEN Dated ELSE Text

\* One value after the other, as parse does it.
Each(conv, items, parse) ==
  LET after[i \in 0..Len(items)] ==
        IF i = 0 THEN conv ELSE parse[items[i]][after[i - 1]]
  IN after[Len(items)]

\* _parse_mapping and _parse_iterable of a container
ParseContainer(h, cls, conv, o, parse) ==
  LET inner == Each(Entered(conv, o), h[o].items, parse)
  IN IF inner.ok
     THEN Place(h, With(inner, conv.values), Shape(h[o].type, cls, inner.values))
     ELSE inner

\* _parse_value, where parse does the items of a container
ParseValue(h, cls, parse) ==
  [v \in ValuesIn(h) |-> [conv \in Conversions(h) |->
     IF ~conv.ok THEN conv
     ELSE IF v \in Atoms THEN Given(conv, Atomic(v))
     ELSE IF v \in conv.markers THEN Failed(conv)    \* "Circular reference detected"
     ELSE ParseContainer(h, cls, conv, v, parse)]]

\* The same, however deep: as each container that is entered has a marker, there are
\* fewer levels than objects.
Parse(h, cls) ==
  LET parse[n \in 0..Len(h)] ==
        IF n = 0 THEN [v \in ValuesIn(h) |-> [conv \in Conversions(h) |-> Failed(conv)]]
        ELSE ParseValue(h, cls, parse[n - 1])
  IN parse[Len(h)]

\* Defect: a dict of the class is taken for converted, and kept as it is
ConvertKeep(h, o, v, cls) ==
  IF v \notin Atoms /\ h[v].type = cls THEN Given(Start(o), v)
  ELSE Parse(h, cls)[v][Start(o)]

\* One value for the dict o.
Convert(h, o, v, cls) == Parse(h, cls)[v][Start(o)]

\* Defect: each item is converted with markers of its own
ParseObjectEach(h, o, cls) ==
  Each(Start(o), h[o].items,
       [v \in ValuesIn(h) |-> [conv \in Conversions(h) |->
          Parse(h, cls)[v][[conv EXCEPT !.markers = {o}]]]])

\* _parse_object: one set of markers for all the items of the object
ParseObject(h, o, cls) == Each(Start(o), h[o].items, Parse(h, cls))

-----------------------------------------------------------------------------
(* What the program does to the objects it made or can reach *)

\* A dict or a list of the caller, or a tuple, which gets its items when it is made.
Make ==
  /\ Cardinality(made) < MaxMade
  /\ \/ \E type \in {"dict", "list"} : heap' = Append(heap, Object(type, <<>>))
     \/ \E n \in 1..MaxTuple : \E items \in [1..n -> Raw] :
          heap' = Append(heap, Object("tuple", items))
  /\ made' = made \cup {Len(heap) + 1}
  /\ UNCHANGED <<json, merged>>

Put(items, key, v) ==
  IF key \in DOMAIN items THEN [items EXCEPT ![key] = v] ELSE Append(items, v)

Keys(o) == 1..(IF Len(heap[o].items) < MaxItems THEN Len(heap[o].items) + 1 ELSE MaxItems)

\* Plain dicts and lists take what they get; the lists in a JsonDict are plain too.
Assign(o) ==
  /\ o \in OfTypes({"dict", "list"})
  /\ \E key \in Keys(o), v \in Raw :
       heap' = [heap EXCEPT ![o].items = Put(@, key, v)]
  /\ UNCHANGED <<json, made, merged>>

\* The objects that o leads to.
Reached(h, o) ==
  LET within[n \in 0..Len(h)] ==
        IF n = 0 THEN {o}
        ELSE LET before == within[n - 1]
             IN before \cup UNION {Children(h, p) : p \in before}
  IN within[Len(h)]

\* json.dumps raises where it comes to a value that JSON has not or to an object again
\* that it is in, as the value of an Enum may have.
Dumpable(h, d) ==
  \A o \in Reached(h, d) :
    /\ Items(h, o) \cap Atoms \subseteq {Text}
    /\ \A p \in Children(h, o) : o \notin Reached(h, p)

\* Defect: the hash is taken before the items are there
BuiltEarly(h, d) == EmptyJson

\* When __init__ is through with it, a FrozenJsonDict remembers the JSON of its items,
\* and with it its hash.
Built(h, d) == Dumps(h, d)

\* __init__ of a mapping.  One that raises leaves nothing behind: the conversion, or the
\* JSON that a frozen one makes.  A dict in the items is made empty, which is when a
\* frozen one remembers its JSON, and filled after that.
Construct(cls, o) ==
  /\ o \in OfTypes(Mappings)
  /\ Cardinality(made) < MaxMade
  /\ LET conv == ParseObject(heap, o, cls)
         new == Len(heap) + Len(conv.new) + 1
     IN /\ conv.ok
        /\ heap' = heap \o conv.new \o <<Object(cls, conv.values)>>
        /\ json' = [d \in InstancesIn(heap', {"FrozenJsonDict"}) |->
                      IF d \in DOMAIN heap THEN json[d]
                      ELSE IF d = new THEN Built(heap', d) ELSE EmptyJson]
        /\ cls = "FrozenJsonDict" => Dumpable(heap', new)
        /\ made' = made \cup {new}
  /\ UNCHANGED merged

\* d[key] = v, converted: the heap with the item, or the heap as it was if that raises.
WithItem(h, d, key, v) ==
  LET conv == Convert(h, d, v, "JsonDict")
  IN IF conv.ok THEN [h \o conv.new EXCEPT ![d].items = Put(@, key, conv.values[1])]
     ELSE h

\* __setitem__, and setdefault of a key that is not there
SetItem(d) ==
  /\ d \in OfTypes(Settable)
  /\ \E key \in Keys(d), v \in Raw : heap' = WithItem(heap, d, key, v)
  /\ UNCHANGED <<json, made, merged>>

\* One item of update: the one that raises ends it.
UpdateItem(h, ok, d, key, v) ==
  IF ok /\ Convert(h, d, v, "JsonDict").ok
  THEN [heap |-> WithItem(h, d, key, v), ok |-> TRUE]
  ELSE [heap |-> h, ok |-> FALSE]

\* update of d with the items of m: those before the one that raises stay, and those
\* after it are left out.
Updated(h, d, m) ==
  LET after[n \in 0..Len(h[m].items)] ==
        IF n = 0 THEN [heap |-> h, ok |-> TRUE]
        ELSE UpdateItem(after[n - 1].heap, after[n - 1].ok, d, n, after[n - 1].heap[m].items[n])
  IN after[Len(h[m].items)].heap

Update(d, m) ==
  /\ d \in OfTypes(Settable)
  /\ m \in OfTypes(Mappings)
  /\ heap' = Updated(heap, d, m)
  /\ UNCHANGED <<json, made, merged>>

\* d |= m, which is dict's own: the items of m as they are, and of a frozen d too.
IOr(d, m) ==
  /\ d \in OfTypes(Classes)
  /\ m \in OfTypes(Mappings)
  /\ LET ours == heap[d].items
         theirs == heap[m].items
     IN heap' = [heap EXCEPT ![d].items = theirs \o SubSeq(ours, Len(theirs) + 1, Len(ours))]
  /\ merged' = merged \cup {d}
  /\ UNCHANGED <<json, made>>

Next ==
  /\ calls < MaxCalls
  /\ calls' = calls + 1
  /\ \/ Make
     \/ \E o \in DOMAIN heap :
          \/ Assign(o)
          \/ \E cls \in Classes : Construct(cls, o)
          \/ SetItem(o)
          \/ \E m \in DOMAIN heap : Update(o, m) \/ IOr(o, m)

Spec == Init /\ [][Next]_vars

-----------------------------------------------------------------------------
(* Properties *)

TypeOK ==
  /\ made \cup merged \subseteq DOMAIN heap
  /\ DOMAIN json = OfTypes({"FrozenJsonDict"})
  /\ \A o \in DOMAIN heap :
       /\ heap[o].type \in Types
       /\ Len(heap[o].items) <= MaxItems
       /\ Items(heap, o) \subseteq Values
       /\ heap[o] = Object("tuple", <<>>) <=> o = Empty

\* Whatever is put into a JsonDict, except by |=: its items are JSON's and the dict's own,
\* and no object that the caller made is ever one of them.  The values of Enum members
\* get in, and nothing else does.
ItemsAreParsed ==
  \A d \in OfTypes(Classes) \ merged :
    Items(heap, d) \subseteq {Text, Dated} \cup (DOMAIN heap \ made)

\* d leads to nothing that |= was applied to, and to no value of an Enum.
Sealed(h, d, changed) == Reached(h, d) \cap (changed \cup {ValueOfKind}) = {}

\* What the program does later to what it made, or to what it reads from the items,
\* never reaches the content of a frozen dict, except by |= and through the value of an
\* Enum.
FrozenForGood ==
  [][\A d \in OfTypes({"FrozenJsonDict"}) :
       Sealed(heap, d, merged') => Dumps(heap', d) = Dumps(heap, d)]_vars

\* A frozen dict that the caller made has the string and the hash of its content, with the
\* same exceptions.  (One that is an item of another has those of the empty dict.)
HashIsOfContent ==
  \A d \in made \cap OfTypes({"FrozenJsonDict"}) :
    Sealed(heap, d, merged) => json[d] = Dumps(heap, d)

\* The places where the objects of a set hold the object x.
Holders(objects, x) ==
  {at \in objects \X (1..MaxItems) :
     at[2] \in DOMAIN heap[at[1]].items /\ heap[at[1]].items[at[2]] = x}

\* A mapping is accepted exactly if it is a tree: every circular reference is found, and
\* nothing is found twice in what is accepted, an object that is merely shared included,
\* the empty tuple too.
AcceptedIffTree ==
  \A o \in OfTypes(Mappings) :
    LET reached == Reached(heap, o)
    IN ParseObject(heap, o, "JsonDict").ok <=>
         \A x \in reached : Cardinality(Holders(reached, x)) = IF x = o THEN 0 ELSE 1

=============================================================================
