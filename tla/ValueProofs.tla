------------------------------ MODULE ValueProofs ------------------------------
(***************************************************************************)
(* What a handler reads from the object that Validate returned is what the *)
(* request has there, for every set of schemas, every document and every   *)
(* path; and the numbers among it are exact, for every width of Go's types.*)
(*                                                                         *)
(* Get walks a path through the heap, PlaceOf walks it through the         *)
(* document.  At every part of the path the two stand at the same thing    *)
(* (Reads), because each object they pass is Faithful.                     *)
(*                                                                         *)
(* At the end: the object that Bind takes a flat schema to give is the one *)
(* that Validate returns.                                                  *)
(***************************************************************************)
EXTENDS ValueObjects, VerdictProofs, WellFoundedInduction

(* The call returned the object that was built from its own arguments. *)
Returned ==
  result.ok => IsObjectOf(Object(result.vo), call.schema, call.node, call.maps)

NestedField(f) == f \in Field /\ (f.kind \in {"object", "objects"} => f.embedded \in Schemas)

GoodPlace(p) ==
  /\ p.at \in {"root", "field", "element", "parameter", "text", "nothing", "wrong"}
  /\ p.at \in {"field", "element", "parameter"} => NestedField(p.field)
  /\ p.at \in {"field", "element"} => p.node \in Nodes
  /\ p.at = "parameter" => p.node \in Texts
  /\ p.at = "element" => p.field.kind \in {"array", "objects"}

(* What Get has found is what stands at the place p of the request. *)
Reads(got, p) ==
  /\ GoodPlace(p)
  /\ p.at = "nothing" => got = None
  /\ p.at = "wrong" => got = Panics
  /\ p.at \notin {"nothing", "wrong"} => got = Found(got.value) /\ IsAt(got.value, p)

-----------------------------------------------------------------------------
(* Induction over the natural numbers, for a set of them. *)
LEMMA LeastNumber ==
  ASSUME NEW T, T \subseteq Nat, T # {}
  PROVE  \E n \in T : \A m \in T : n <= m
<1> DEFINE R == OpToRel(<, Nat)
<1>1. IsWellFoundedOn(R, Nat)
  BY NatLessThanWellFounded
<1> HIDE DEF R
<1>2. PICK n \in T : \A m \in T : ~ (<<m, n>> \in R)
  BY <1>1, WFMin
<1>3. ASSUME NEW m \in T PROVE n <= m
  <2>1. n \in Nat /\ m \in Nat /\ ~ (<<m, n>> \in R)
    BY <1>2
  <2>2. m < n => <<m, n>> \in R
    BY <2>1 DEF R, OpToRel
  <2>3. QED
    BY <2>1, <2>2
<1>4. QED
  BY <1>3

LEMMA SetInduction ==
  ASSUME NEW T, 0 \in T, \A n \in Nat : n \in T => n + 1 \in T
  PROVE  \A n \in Nat : n \in T
<1> SUFFICES ASSUME Nat \ T # {} PROVE FALSE
  OBVIOUS
<1>1. PICK n \in Nat \ T : \A m \in Nat \ T : n <= m
  <2>1. Nat \ T \subseteq Nat
    OBVIOUS
  <2>2. QED
    BY <2>1, LeastNumber
<1>2. n # 0 /\ n - 1 \in Nat /\ n = (n - 1) + 1
  BY <1>1
<1>3. n - 1 \in T
  BY <1>1, <1>2
<1>4. QED
  BY <1>1, <1>2, <1>3

(* The recursive functions by which Get and PlaceOf walk a path exist.     *)
LEMMA GetWalk ==
  ASSUME NEW id, NEW path, Len(path) \in Nat
  PROVE  \E at : /\ at[0] = Found(Object(id))
                 /\ \A i \in 1..Len(path) : at[i] = Into(at[i - 1], path[i])
                 /\ Get(id, path) = at[Len(path)]
<1> DEFINE Solves(g, n) ==
      g = [i \in 0..n |-> IF i = 0 THEN Found(Object(id)) ELSE Into(g[i - 1], path[i])]
           T == {n \in Nat : \E g : Solves(g, n)}
<1>1. 0 \in T
  <2>1. Solves([i \in 0..0 |-> Found(Object(id))], 0)
    OBVIOUS
  <2>2. QED
    BY <2>1
<1>2. ASSUME NEW n \in Nat, n \in T PROVE n + 1 \in T
  <2>1. PICK g : Solves(g, n)
    BY <1>2
  <2> DEFINE h == [i \in 0..(n + 1) |-> IF i = n + 1 THEN Into(g[n], path[n + 1]) ELSE g[i]]
  <2>2. ASSUME NEW i \in 0..(n + 1)
        PROVE  h[i] = IF i = 0 THEN Found(Object(id)) ELSE Into(h[i - 1], path[i])
    <3>1. CASE i = n + 1
      <4>1. i # 0 /\ i - 1 = n /\ i - 1 \in 0..(n + 1) /\ i - 1 # n + 1
        BY <3>1
      <4>2. h[i - 1] = g[n] /\ h[i] = Into(g[n], path[n + 1])
        BY <3>1, <4>1
      <4>3. QED
        BY <3>1, <4>1, <4>2
    <3>2. CASE i # n + 1
      <4>1. i \in 0..n /\ h[i] = g[i]
        BY <3>2
      <4>2. g[i] = IF i = 0 THEN Found(Object(id)) ELSE Into(g[i - 1], path[i])
        BY <2>1, <4>1
      <4>3. i # 0 => i - 1 \in 0..(n + 1) /\ i - 1 # n + 1 /\ h[i - 1] = g[i - 1]
        BY <4>1
      <4>4. QED
        BY <4>1, <4>2, <4>3
    <3>3. QED
      BY <3>1, <3>2
  <2>3. h = [i \in 0..(n + 1) |-> h[i]]
    OBVIOUS
  <2> HIDE DEF h
  <2>4. Solves(h, n + 1)
    BY <2>2, <2>3
  <2>5. QED
    BY <2>4
<1>3. \A n \in Nat : n \in T
  <2> HIDE DEF T
  <2> QED
    BY <1>1, <1>2, SetInduction
<1>4. PICK g : Solves(g, Len(path))
  BY <1>3
<1> DEFINE at == CHOOSE at : Solves(at, Len(path))
<1>5. Solves(at, Len(path))
  BY <1>4
<1>6. Get(id, path) = at[Len(path)]
  BY DEF Get
<1> HIDE DEF at
<1>7. at[0] = Found(Object(id))
  BY <1>5
<1>8. ASSUME NEW i \in 1..Len(path) PROVE at[i] = Into(at[i - 1], path[i])
  <2>1. i \in 0..Len(path) /\ i # 0
    OBVIOUS
  <2>2. QED
    BY <1>5, <2>1
<1>9. QED
  BY <1>6, <1>7, <1>8

LEMMA PlaceWalk ==
  ASSUME NEW path, Len(path) \in Nat
  PROVE  \E at : /\ at[0] = Root
                 /\ \A i \in 1..Len(path) : at[i] = Below(at[i - 1], path[i])
                 /\ PlaceOf(path) = at[Len(path)]
<1> DEFINE Solves(g, n) ==
      g = [i \in 0..n |-> IF i = 0 THEN Root ELSE Below(g[i - 1], path[i])]
           T == {n \in Nat : \E g : Solves(g, n)}
<1>1. 0 \in T
  <2>1. Solves([i \in 0..0 |-> Root], 0)
    OBVIOUS
  <2>2. QED
    BY <2>1
<1>2. ASSUME NEW n \in Nat, n \in T PROVE n + 1 \in T
  <2>1. PICK g : Solves(g, n)
    BY <1>2
  <2> DEFINE h == [i \in 0..(n + 1) |-> IF i = n + 1 THEN Below(g[n], path[n + 1]) ELSE g[i]]
  <2>2. ASSUME NEW i \in 0..(n + 1)
        PROVE  h[i] = IF i = 0 THEN Root ELSE Below(h[i - 1], path[i])
    <3>1. CASE i = n + 1
      <4>1. i # 0 /\ i - 1 = n /\ i - 1 \in 0..(n + 1) /\ i - 1 # n + 1
        BY <3>1
      <4>2. h[i - 1] = g[n] /\ h[i] = Below(g[n], path[n + 1])
        BY <3>1, <4>1
      <4>3. QED
        BY <3>1, <4>1, <4>2
    <3>2. CASE i # n + 1
      <4>1. i \in 0..n /\ h[i] = g[i]
        BY <3>2
      <4>2. g[i] = IF i = 0 THEN Root ELSE Below(g[i - 1], path[i])
        BY <2>1, <4>1
      <4>3. i # 0 => i - 1 \in 0..(n + 1) /\ i - 1 # n + 1 /\ h[i - 1] = g[i - 1]
        BY <4>1
      <4>4. QED
        BY <4>1, <4>2, <4>3
    <3>3. QED
      BY <3>1, <3>2
  <2>3. h = [i \in 0..(n + 1) |-> h[i]]
    OBVIOUS
  <2> HIDE DEF h
  <2>4. Solves(h, n + 1)
    BY <2>2, <2>3
  <2>5. QED
    BY <2>4
<1>3. \A n \in Nat : n \in T
  <2> HIDE DEF T
  <2> QED
    BY <1>1, <1>2, SetInduction
<1>4. PICK g : Solves(g, Len(path))
  BY <1>3
<1> DEFINE at == CHOOSE at : Solves(at, Len(path))
<1>5. Solves(at, Len(path))
  BY <1>4
<1>6. PlaceOf(path) = at[Len(path)]
  BY DEF PlaceOf
<1> HIDE DEF at
<1>7. at[0] = Root
  BY <1>5
<1>8. ASSUME NEW i \in 1..Len(path) PROVE at[i] = Below(at[i - 1], path[i])
  <2>1. i \in 0..Len(path) /\ i # 0
    OBVIOUS
  <2>2. QED
    BY <1>5, <2>1
<1>9. QED
  BY <1>6, <1>7, <1>8
-----------------------------------------------------------------------------
(* Into and Below, side by side. *)
LEMMA FieldNamed ==
  ASSUME NEW s \in Schemas, NEW k \in Names(s),
         NEW f, f = CHOOSE g \in {FieldsOf[s][i] : i \in DOMAIN FieldsOf[s]} : g.name = k
  PROVE  NestedField(f) /\ f.name = k /\ \E i \in DOMAIN FieldsOf[s] : f = FieldsOf[s][i]
<1> DEFINE S == {FieldsOf[s][i] : i \in DOMAIN FieldsOf[s]}
<1>1. \E g \in S : g.name = k
  BY DEF Names
<1>2. f \in S /\ f.name = k
  BY <1>1
<1>3. PICK i \in DOMAIN FieldsOf[s] : f = FieldsOf[s][i]
  BY <1>2
<1>4. FieldsOf[s][i] \in Field
  BY SchemaAssumption
<1>5. f.kind \in {"object", "objects"} => f.embedded \in Schemas
  BY <1>3, SchemaAssumption
<1>6. QED
  BY <1>2, <1>3, <1>4, <1>5 DEF NestedField

LEMMA ScalarOf == ASSUME NEW v PROVE Scalar(v).of[1] = v
  BY DEF Scalar

LEMMA ParameterIsText ==
  ASSUME NEW maps, MapsType(maps), NEW k \in UrlKeys(maps)
  PROVE  UrlPair(maps)[k] \in Texts
  BY DEF UrlPair, UrlKeys, MapsType, PartialMap

(* A place that is there and what Get has found at it. *)
LEMMA PlaceFields ==
  ASSUME NEW at, NEW f, NEW m
  PROVE  Place(at, f, m).at = at /\ Place(at, f, m).field = f /\ Place(at, f, m).node = m
  BY DEF Place

LEMMA ReadsFound ==
  ASSUME NEW x, NEW p, GoodPlace(p), p.at \notin {"nothing", "wrong"}, IsAt(x, p)
  PROVE  Reads(Found(x), p)
<1>1. Found(x).value = x
  BY DEF Found
<1>2. QED
  BY <1>1 DEF Reads

LEMMA ReadsObject ==
  ASSUME Inv, NEW s \in Schemas, NEW n \in Nodes, NEW maps, MapsType(maps),
         NEW x, IsObjectOf(x, s, n, maps), NEW k
  PROVE  Reads(Into(Found(x), k), InObject(s, n, maps, k))
<1> DEFINE o == heap[x.of[1]]
           f == CHOOSE f \in {FieldsOf[s][i] : i \in DOMAIN FieldsOf[s]} : f.name = k
           got == Into(Found(x), k)
           p == InObject(s, n, maps, k)
<1>1. x.kind = "object" /\ o.schema = s /\ o.node = n /\ o.maps = maps
      /\ FaithfulObject(heap, o)
  BY DEF IsObjectOf, Inv, Faithful
<1>2. got = IF k \in DOMAIN o.data THEN Found(o.data[k]) ELSE None
  BY <1>1 DEF Into, Found
<1>3. Found(o.data[k]).value = o.data[k]
  BY DEF Found
<1>4. CASE k \in Names(s)
  <2>1. NestedField(f) /\ f.name = k /\ Holds(heap, o.data, f, n, maps)
    <3>1. NestedField(f) /\ f.name = k /\ \E i \in DOMAIN FieldsOf[s] : f = FieldsOf[s][i]
      BY <1>4, FieldNamed
    <3>2. QED
      BY <1>1, <3>1 DEF FaithfulObject
  <2>2. p = IF k \in DOMAIN Member[n] THEN Place("field", f, Member[n][k])
            ELSE IF k \notin UrlKeys(maps) THEN Nothing
            ELSE Place("parameter", f, UrlPair(maps)[k])
    BY <1>4 DEF InObject
  <2> SUFFICES Reads(got, p)
    OBVIOUS
  <2> HIDE DEF f, o, got, p
  <2>3. CASE k \in DOMAIN Member[n]
    <3>1. /\ k \in DOMAIN Member[n]
          /\ k \in DOMAIN o.data /\ Represents(heap, o.data[k], f, Member[n][k])
      BY <2>1, <2>3 DEF Holds
    <3>2. Member[n][k] \in Nodes
      BY <2>3, DocumentAssumption DEF PartialMap
    <3>3. p.at = "field" /\ p.field = f /\ p.node = Member[n][k]
      BY <2>2, <3>1, PlaceFields
    <3>4. GoodPlace(p)
      BY <2>1, <3>2, <3>3 DEF GoodPlace
    <3>5. IsAt(o.data[k], p)
      BY <3>1, <3>3 DEF IsAt
    <3>6. QED
      BY <1>2, <3>1, <3>3, <3>4, <3>5, ReadsFound
  <2>4. CASE k \notin DOMAIN Member[n] /\ k \in UrlKeys(maps)
    <3>1. /\ k \notin DOMAIN Member[n] /\ k \in UrlKeys(maps)
          /\ k \in DOMAIN o.data /\ Accepted(o.data[k], f, TextValue[f.type][UrlPair(maps)[k]])
      <4> DEFINE v == TextValue[f.type][UrlPair(maps)[k]]
      <4>1. k \in DOMAIN o.data /\ o.data[k] = Scalar(v) /\ o.data[k].of[1] \in f.accepts
        BY <2>1, <2>4 DEF Holds
      <4>2. o.data[k].of[1] = v
        BY <4>1, ScalarOf
      <4>3. QED
        BY <2>4, <4>1, <4>2 DEF Accepted
    <3>2. UrlPair(maps)[k] \in Texts
      BY <2>4, ParameterIsText
    <3>3. p.at = "parameter" /\ p.field = f /\ p.node = UrlPair(maps)[k]
      BY <2>2, <3>1, PlaceFields
    <3>4. GoodPlace(p)
      BY <2>1, <3>2, <3>3 DEF GoodPlace
    <3>5. IsAt(o.data[k], p)
      BY <3>1, <3>3 DEF IsAt
    <3>6. QED
      BY <1>2, <3>1, <3>3, <3>4, <3>5, ReadsFound
  <2>5. CASE k \notin DOMAIN Member[n] /\ k \notin UrlKeys(maps)
    <3>1. p = Nothing /\ k \notin DOMAIN o.data
      BY <2>1, <2>2, <2>5 DEF Holds
    <3>2. QED
      BY <1>2, <3>1 DEF Reads, GoodPlace, Nothing
  <2>6. QED
    BY <2>3, <2>4, <2>5
<1>5. CASE k \notin Names(s) /\ k \in UrlKeys(maps) /\ s \in Lenient
  <2>1. p = [at |-> "text", text |-> UrlPair(maps)[k]]
    BY <1>5 DEF InObject
  <2>2. k \in DOMAIN o.data /\ o.data[k] = Text(UrlPair(maps)[k])
    BY <1>1, <1>5 DEF FaithfulObject
  <2>3. QED
    BY <1>2, <1>3, <2>1, <2>2 DEF Reads, GoodPlace, IsAt
<1>6. CASE k \notin Names(s) /\ (k \notin UrlKeys(maps) \/ s \notin Lenient)
  <2>1. p = Nothing
    BY <1>6 DEF InObject
  <2>2. k \notin DOMAIN o.data
    BY <1>1, <1>6 DEF FaithfulObject
  <2>3. QED
    BY <1>2, <2>1, <2>2 DEF Reads, GoodPlace, Nothing
<1>7. QED
  BY <1>4, <1>5, <1>6

LEMMA ReadsArray ==
  ASSUME NEW f, NestedField(f), f.kind \in {"array", "objects"}, NEW m \in Nodes,
         NEW x, Represents(heap, x, f, m), NEW k
  PROVE  Reads(Into(Found(x), k), InArray(f, m, k))
<1> DEFINE got == Into(Found(x), k)
<1>1. x.kind = f.kind /\ Len(x.of) = Len(Elements[m])
  BY DEF Represents
<1>2. got = IF k \in DOMAIN IndexOf /\ IndexOf[k] < Len(x.of)
            THEN Found(Element(x, IndexOf[k] + 1)) ELSE Panics
  BY <1>1 DEF Into, Found
<1>3. CASE k \in DOMAIN IndexOf /\ IndexOf[k] < Len(Elements[m])
  <2> DEFINE i == IndexOf[k] + 1
             e == Elements[m][i]
  <2>1. i \in DOMAIN Elements[m] /\ e \in Nodes
    BY <1>3, ReadAssumption, DocumentAssumption
  <2>2. got = Found(Element(x, i)) /\ InArray(f, m, k) = Place("element", f, e)
    BY <1>1, <1>2, <1>3 DEF InArray
  <2>3. IsAt(Element(x, i), Place("element", f, e))
    <3>1. CASE f.kind = "array"
      <4>1. Element(x, i) = Scalar(x.of[i])
        BY <1>1, <3>1 DEF Element
      <4>2. x.of[i] = JsonValue[f.type][e] /\ x.of[i] \in f.accepts
        BY <2>1, <3>1 DEF Represents
      <4>3. QED
        BY <3>1, <4>1, <4>2 DEF IsAt, Place, Accepted
    <3>2. CASE f.kind = "objects"
      <4>1. Element(x, i) = Object(x.of[i])
        BY <1>1, <3>2 DEF Element
      <4>2. BuiltFrom(heap, x.of[i], f, e)
        BY <2>1, <3>2 DEF Represents
      <4>3. IsObjectOf(Element(x, i), f.embedded, e, <<>>)
        BY <4>1, <4>2 DEF BuiltFrom, IsObjectOf, Object
      <4>4. QED
        BY <3>2, <4>3 DEF IsAt, Place
    <3>3. QED
      BY <3>1, <3>2
  <2> HIDE DEF i, e
  <2>4. QED
    BY <2>1, <2>2, <2>3 DEF Reads, GoodPlace, Place, Found
<1>4. CASE ~ (k \in DOMAIN IndexOf /\ IndexOf[k] < Len(Elements[m]))
  <2>1. got = Panics /\ InArray(f, m, k) = Wrong
    BY <1>1, <1>2, <1>4 DEF InArray
  <2>2. QED
    BY <2>1 DEF Reads, GoodPlace, Wrong
<1>5. QED
  BY <1>3, <1>4

(* One part of the path further, Get stands where the request does. *)
LEMMA ReadsOn ==
  ASSUME Inv, NEW got, NEW p, Reads(got, p), NEW k
  PROVE  Reads(Into(got, k), Below(p, k))
<1> DEFINE x == got.value
<1>1. CASE p.at = "root"
  <2>1. Below(p, k) = InObject(call.schema, call.node, call.maps, k)
    BY <1>1 DEF Below, IsObject
  <2>2. got = Found(x) /\ IsObjectOf(x, call.schema, call.node, call.maps)
    BY <1>1 DEF Reads, IsAt
  <2>3. CallType(call)
    BY DEF Inv, TypeOK
  <2> HIDE DEF x
  <2>4. QED
    BY <2>1, <2>2, <2>3, ReadsObject DEF CallType
<1>2. CASE p.at = "field" /\ p.field.kind \in {"array", "objects"}
  <2>1. Below(p, k) = InArray(p.field, p.node, k)
    BY <1>2 DEF Below, IsObject
  <2>2. got = Found(x) /\ Represents(heap, x, p.field, p.node)
    BY <1>2 DEF Reads, IsAt
  <2>3. NestedField(p.field) /\ p.node \in Nodes
    BY <1>2 DEF Reads, GoodPlace
  <2> HIDE DEF x
  <2>4. QED
    BY <1>2, <2>1, <2>2, <2>3, ReadsArray
<1>3. CASE IsObject(p)
  <2>1. Below(p, k) = InObject(p.field.embedded, p.node, <<>>, k)
    BY <1>3 DEF Below, IsObject
  <2>2. got = Found(x) /\ IsObjectOf(x, p.field.embedded, p.node, <<>>)
    BY <1>3 DEF Reads, IsAt, IsObject, IsObjectOf, Represents, BuiltFrom
  <2>3. p.field.embedded \in Schemas /\ p.node \in Nodes
    BY <1>3 DEF Reads, GoodPlace, NestedField, IsObject
  <2>4. MapsType(<<>>)
    BY DEF MapsType, IsSequence
  <2> HIDE DEF x
  <2>5. QED
    BY <2>1, <2>2, <2>3, <2>4, ReadsObject
<1>4. CASE p.at = "wrong"
  <2>1. got = Panics /\ Below(p, k) = Wrong
    BY <1>4 DEF Reads, Below, IsObject
  <2>2. Into(got, k) = Panics
    BY <2>1 DEF Into, Panics
  <2>3. QED
    BY <2>1, <2>2 DEF Reads, GoodPlace, Wrong
<1>5. CASE /\ p.at \notin {"root", "wrong"} /\ ~ IsObject(p)
           /\ ~ (p.at = "field" /\ p.field.kind \in {"array", "objects"})
  <2>1. Below(p, k) = Nothing
    BY <1>5 DEF Below
  <2>2. Into(got, k) = None
    <3>1. CASE p.at = "nothing"
      BY <3>1 DEF Reads, Into, None
    <3>2. CASE p.at # "nothing"
      <4>1. got = Found(x) /\ IsAt(x, p) /\ GoodPlace(p)
        BY <1>5, <3>2 DEF Reads
      <4>2. x.kind \in {"scalar", "text"}
        <5>1. CASE p.at = "field"
          BY <1>5, <4>1, <5>1
             DEF IsAt, GoodPlace, NestedField, Field, Kinds, Represents, IsObject
        <5>2. CASE p.at = "element"
          BY <1>5, <4>1, <5>2 DEF IsAt, GoodPlace, Accepted, Scalar, IsObject
        <5>3. CASE p.at = "parameter"
          BY <4>1, <5>3 DEF IsAt, Accepted, Scalar
        <5>4. CASE p.at = "text"
          BY <4>1, <5>4 DEF IsAt, Text
        <5>5. p.at \in {"field", "element", "parameter", "text"}
          BY <1>5, <3>2, <4>1 DEF GoodPlace
        <5>6. QED
          BY <5>1, <5>2, <5>3, <5>4, <5>5
      <4> HIDE DEF x
      <4>3. QED
        BY <4>1, <4>2 DEF Into, Found
    <3>3. QED
      BY <3>1, <3>2
  <2>3. QED
    BY <2>1, <2>2 DEF Reads, GoodPlace, Nothing
<1>6. QED
  BY <1>1, <1>2, <1>3, <1>4, <1>5

(* Along a whole path. *)
LEMMA ReadsPath ==
  ASSUME Inv, Returned, result.ok, NEW path \in Paths
  PROVE  Reads(Get(result.vo, path), PlaceOf(path))
<1>1. Len(path) \in Nat
  BY ReadAssumption, SequenceDomain
<1>2. PICK got : /\ got[0] = Found(Object(result.vo))
                 /\ \A i \in 1..Len(path) : got[i] = Into(got[i - 1], path[i])
                 /\ Get(result.vo, path) = got[Len(path)]
  BY <1>1, GetWalk
<1>3. PICK p : /\ p[0] = Root
               /\ \A i \in 1..Len(path) : p[i] = Below(p[i - 1], path[i])
               /\ PlaceOf(path) = p[Len(path)]
  BY <1>1, PlaceWalk
<1> DEFINE T == {n \in Nat : n <= Len(path) => Reads(got[n], p[n])}
<1>4. 0 \in T
  <2>1. got[0] = Found(got[0].value) /\ got[0].value = Object(result.vo)
    BY <1>2 DEF Found
  <2>2. IsAt(got[0].value, p[0]) /\ p[0].at = "root"
    BY <1>3, <2>1 DEF Returned, IsAt, Root
  <2>3. QED
    BY <2>1, <2>2 DEF Reads, GoodPlace
<1>5. ASSUME NEW n \in Nat, n \in T PROVE n + 1 \in T
  <2>1. CASE n + 1 <= Len(path)
    <3>1. n + 1 \in 1..Len(path) /\ (n + 1) - 1 = n /\ n <= Len(path)
      BY <1>1, <2>1
    <3>2. got[n + 1] = Into(got[n], path[n + 1]) /\ p[n + 1] = Below(p[n], path[n + 1])
      BY <1>2, <1>3, <3>1
    <3>3. Reads(got[n], p[n])
      BY <1>5, <3>1
    <3>4. QED
      BY <3>2, <3>3, ReadsOn
  <2>2. QED
    BY <2>1
<1>6. \A n \in Nat : n \in T
  <2> HIDE DEF T
  <2>1. QED
    BY <1>4, <1>5, SetInduction
<1>7. QED
  BY <1>1, <1>2, <1>3, <1>6

(* A typed getter fits what is found exactly where it suits the place.     *)
LEMMA SuitsFits ==
  ASSUME NEW got, NEW p, Reads(got, p), got.tag = "some", NEW t \in Types
  PROVE  \/ got.value.kind = "text" /\ t = "string"
         \/ got.value.kind = "scalar" /\ TypeOf[got.value.of[1]] = t
         <=> Suits(p, t)
<1> DEFINE x == got.value
           fits == \/ x.kind = "text" /\ t = "string"
                   \/ x.kind = "scalar" /\ TypeOf[x.of[1]] = t
<1>1. p.at \notin {"nothing", "wrong"} /\ GoodPlace(p) /\ IsAt(x, p)
  BY DEF Reads, None, Panics
<1> HIDE DEF x
<1>2. ASSUME NEW f, NestedField(f), NEW v, x = Scalar(v), v \in f.accepts,
             \/ \E n \in Nodes : v = JsonValue[f.type][n]
             \/ \E y \in Texts : v = TextValue[f.type][y]
      PROVE  fits <=> t = f.type
  <2>1. f.type \in Types /\ v \in Values /\ v # Bad
    BY <1>2, ConversionAssumption DEF NestedField, Field
  <2>2. TypeOf[v] = f.type
    BY <1>2, <2>1, ConversionAssumption
  <2>3. x.kind = "scalar" /\ x.of[1] = v
    BY <1>2 DEF Scalar
  <2>4. QED
    BY <2>2, <2>3
<1>3. CASE p.at = "text"
  BY <1>1, <1>3 DEF IsAt, Text, Suits, x
<1>4. CASE p.at = "parameter"
  BY <1>1, <1>2, <1>4 DEF IsAt, Accepted, GoodPlace, Suits, x
<1>5. CASE p.at = "element" /\ p.field.kind = "array"
  BY <1>1, <1>2, <1>5 DEF IsAt, Accepted, GoodPlace, Suits, x
<1>6. CASE p.at = "field" /\ p.field.kind = "scalar"
  <2>1. x = Scalar(JsonValue[p.field.type][p.node]) /\ x.of[1] \in p.field.accepts
    BY <1>1, <1>6 DEF IsAt, Represents
  <2>2. x.of[1] = JsonValue[p.field.type][p.node]
    BY <2>1 DEF Scalar
  <2>3. fits <=> t = p.field.type
    BY <1>1, <1>2, <1>6, <2>1, <2>2 DEF GoodPlace
  <2>4. QED
    BY <1>6, <2>3 DEF x, Suits
<1>7. CASE \/ p.at = "root"
           \/ p.at = "field" /\ p.field.kind # "scalar"
           \/ p.at = "element" /\ p.field.kind # "array"
  <2>1. x.kind \in {"object", "array", "objects"}
    BY <1>1, <1>7 DEF IsAt, IsObjectOf, Represents, GoodPlace, NestedField, Field, Kinds
  <2>2. ~ Suits(p, t)
    BY <1>7 DEF Suits
  <2>3. QED
    BY <2>1, <2>2 DEF x
<1>8. QED
  BY <1>1, <1>3, <1>4, <1>5, <1>6, <1>7 DEF GoodPlace

LEMMA ReadsBack == Inv /\ Returned => ReadBack
<1> SUFFICES ASSUME Inv, Returned, result.ok, NEW path \in Paths
             PROVE  LET p   == PlaceOf(path)
                        got == Get(result.vo, path)
                    IN  /\ got.tag = "none" <=> p.at = "nothing"
                        /\ got.tag = "panic" <=> p.at = "wrong"
                        /\ got.tag = "some" => IsAt(got.value, p)
                        /\ \A t \in Types :
                             LET right == got.tag = "some" /\ Suits(p, t)
                             IN  /\ GetAs(t, result.vo, path) =
                                      IF right \/ got = None THEN got ELSE Panics
                                 /\ MstAs(t, result.vo, path) = IF right THEN got ELSE Panics
  BY DEF ReadBack
<1> DEFINE p   == PlaceOf(path)
           got == Get(result.vo, path)
<1>1. Reads(got, p)
  BY ReadsPath
<1>2. /\ None.tag = "none" /\ Panics.tag = "panic"
      /\ \A x : Found(x).tag = "some"
  BY DEF None, Panics, Found
<1>3. /\ got.tag = "none" <=> p.at = "nothing"
      /\ got.tag = "panic" <=> p.at = "wrong"
      /\ got.tag = "some" => IsAt(got.value, p)
  <2> HIDE DEF p, got
  <2>1. QED
    BY <1>1, <1>2 DEF Reads
<1>4. ASSUME NEW t \in Types
      PROVE  LET right == got.tag = "some" /\ Suits(p, t)
             IN  /\ GetAs(t, result.vo, path) = IF right \/ got = None THEN got ELSE Panics
                 /\ MstAs(t, result.vo, path) = IF right THEN got ELSE Panics
  <2> DEFINE fits == \/ got.value.kind = "text" /\ t = "string"
                     \/ got.value.kind = "scalar" /\ TypeOf[got.value.of[1]] = t
  <2>1. GetAs(t, result.vo, path) = IF got.tag = "some" /\ ~ fits THEN Panics ELSE got
    BY DEF GetAs
  <2>2. MstAs(t, result.vo, path) =
          IF GetAs(t, result.vo, path) = None THEN Panics ELSE GetAs(t, result.vo, path)
    BY DEF MstAs
  <2>3. got.tag = "some" => (fits <=> Suits(p, t))
    BY <1>1, SuitsFits
  <2>4. got = None \/ got = Panics \/ got.tag = "some"
    BY <1>1, <1>2 DEF Reads
  <2> HIDE DEF p, got, fits
  <2>5. QED
    BY <1>2, <2>1, <2>2, <2>3, <2>4
<1>5. QED
  BY <1>3, <1>4

-----------------------------------------------------------------------------
(* The object that is returned is the one of the call. *)
LEMMA ReturnedKept ==
  ASSUME Returned, Grows(heap, heap'), call' = call, result' = result \/ ~ result'.ok
  PROVE  Returned'
  BY DEF Returned, IsObjectOf, Object, Grows

LEMMA ReturnedStep == Inv /\ Judging /\ Returned /\ [Next]_vars => Returned'
<1> SUFFICES ASSUME Inv, Judging, Returned, [Next]_vars PROVE Returned'
  OBVIOUS
<1>1. ASSUME UNCHANGED <<call, heap, result>> PROVE Returned'
  <2>1. Grows(heap, heap') /\ call' = call /\ result' = result
    BY <1>1 DEF Grows
  <2>2. QED
    BY <2>1, ReturnedKept
<1>2. ASSUME NEW errs, Return(FALSE, 0, errs), UNCHANGED <<call, heap>> PROVE Returned'
  <2>1. Grows(heap, heap') /\ call' = call
    BY <1>2 DEF Grows
  <2>2. CASE Len(stack) = 1
    <3>1. result' = [done |-> TRUE, ok |-> FALSE, vo |-> 0, errs |-> errs]
      BY <1>2, <2>2 DEF Return
    <3>2. result'.ok = FALSE
      BY <3>1
    <3>3. QED
      BY <2>1, <3>2, ReturnedKept
  <2>3. CASE Len(stack) # 1
    <3>1. result' = result
      BY <1>2, <2>3 DEF Return
    <3>2. QED
      BY <2>1, <3>1, ReturnedKept
  <2>4. QED
    BY <2>2, <2>3
<1>3. CASE Finish
  <2>1. stack # <<>> /\ call' = call
    BY <1>3 DEF Finish
  <2>2. CASE DOMAIN Top.errs # {}
    BY <1>2, <1>3, <2>2 DEF Finish
  <2>3. CASE DOMAIN Top.errs = {}
    <3> DEFINE url   == UrlPair(Top.maps)
               extra == [k \in (IF Top.schema \in Lenient THEN DOMAIN url ELSE {}) |-> Text(url[k])]
               o     == [schema |-> Top.schema, node |-> Top.node, maps |-> Top.maps,
                         data |-> Over(Top.data, extra)]
    <3>1. /\ heap' = Append(heap, o) /\ Return(TRUE, Len(heap) + 1, EmptyMap)
          /\ o.schema = Top.schema /\ o.node = Top.node /\ o.maps = Top.maps
      BY <1>3, <2>3 DEF Finish
    <3> HIDE DEF o
    <3>2. IsSequence(heap) /\ Len(heap) \in Nat /\ DOMAIN heap = 1..Len(heap)
      BY SequenceDomain DEF Inv, TypeOK
    <3>3. /\ DOMAIN heap' = DOMAIN heap \cup {Len(heap) + 1}
          /\ heap'[Len(heap) + 1] = o
          /\ \A i \in DOMAIN heap : heap'[i] = heap[i]
      BY <3>1, <3>2, SequencePush
    <3>4. Grows(heap, heap')
      BY <3>3 DEF Grows
    <3>5. CASE Len(stack) = 1
      <4>1. result'.vo = Len(heap) + 1
        BY <3>1, <3>5 DEF Return
      <4>2. o.schema = call.schema /\ o.node = call.node /\ o.maps = call.maps
        BY <2>1, <3>1, <3>5 DEF Top, Judging, ServesCall
      <4>3. QED
        BY <2>1, <3>3, <4>1, <4>2 DEF Returned, IsObjectOf, Object
    <3>6. CASE Len(stack) # 1
      <4>1. result' = result
        BY <3>1, <3>6 DEF Return
      <4>2. QED
        BY <2>1, <3>4, <4>1, ReturnedKept
    <3>7. QED
      BY <3>5, <3>6
  <2>4. QED
    BY <2>2, <2>3
<1>4. CASE InvalidJson
  BY <1>2, <1>4 DEF InvalidJson
<1>5. CASE FailFirst
  BY <1>2, <1>5 DEF FailFirst
<1>6. CASE UNCHANGED vars
  BY <1>1, <1>6 DEF vars
<1>7. CASE \/ Begin \/ Missing \/ FromUrl \/ FromScalar \/ FromArray
           \/ EnterObject \/ NotAnArray \/ EnterElement \/ EndArray
  BY <1>1, <1>7 DEF Begin, Missing, FromUrl, FromScalar, FromArray,
                    EnterObject, NotAnArray, EnterElement, EndArray
<1>8. QED
  BY <1>3, <1>4, <1>5, <1>6, <1>7 DEF Next

(* Validate never hands out the object of one of its nested calls.         *)
THEOREM AlwaysReturned == Spec => []Returned
<1>1. Init => Returned
  BY DEF Init, Returned
<1>2. QED
  BY <1>1, ReturnedStep, Invariance, AlwaysJudged, PTL DEF Spec

(* Whatever object Validate returned and whatever path a handler asks for, *)
(* the getters answer what the document and the URL have there: nothing is *)
(* missing, nothing is of another type, and they panic only at an element  *)
(* that is not there or where the type asked for is not the field's.       *)
THEOREM GettersReadBack == Spec => []ReadBack
<1>1. Inv /\ Returned => ReadBack
  BY ReadsBack
<1>2. QED
  BY <1>1, Invariance, AlwaysReturned, PTL

-----------------------------------------------------------------------------
(* Numbers. *)
LEMMA RangedExact ==
  ASSUME NEW type, NEW i, IntOrRefused(type, i) # Refused
  PROVE  IntOrRefused(type, i).half = 2 * i
  BY DEF IntOrRefused, Value

(* A JSON number that is not refused under an integer type is stored as it *)
(* is written, whatever gjson read: the text is compared.                  *)
LEMMA JsonExact ==
  ASSUME NEW type \in Signed \cup Unsigned, NEW node, TypedJson(type, node) # Refused
  PROVE  TypedJson(type, node).half = Amount(node.number)
<1>1. /\ TypedJson(type, node) = JsonInt(type, node.number)
  BY DEF TypedJson, Signed, Unsigned, Floats
<1>2. /\ Formats(GjsonInt(type, node.number), node.number)
      /\ JsonInt(type, node.number) = IntOrRefused(type, GjsonInt(type, node.number))
  BY <1>1 DEF JsonInt
<1>3. QED
  BY <1>1, <1>2, RangedExact DEF Formats

(* A text without fraction is stored as it is written. *)
LEMMA TextExact ==
  ASSUME NEW type \in Signed \cup Unsigned, NEW t, t.number.half \in Nat,
         t.number.written \in {"plain", "padded", "plus"} => t.number.half % 2 = 0,
         ParseStringTo(type, t) # Refused
  PROVE  ParseStringTo(type, t).half = Amount(t.number)
<1> DEFINE n == t.number
<1>1. ParseStringTo(type, t) = ParseInt(type, t)
  BY DEF ParseStringTo, Signed, Unsigned, Floats
<1>2. /\ n.written \in {"plain", "padded", "plus"}
      /\ ParseInt(type, t) = IntOrRefused(type, Whole(Amount(n)))
  BY <1>1 DEF ParseInt
<1>3. n.half \in Nat /\ n.half % 2 = 0
  BY <1>2
<1>4. 2 * Whole(Amount(n)) = Amount(n)
  <2>1. 2 * (n.half \div 2) = n.half
    BY <1>3
  <2>2. CASE n.negative /\ n.half # 0
    <3>1. Amount(n) = 0 - n.half /\ Amount(n) < 0 /\ 0 - Amount(n) = n.half
      BY <1>3, <2>2 DEF Amount
    <3>2. QED
      BY <1>3, <2>1, <3>1 DEF Whole
  <2>3. CASE ~ n.negative \/ n.half = 0
    <3>1. Amount(n) = n.half /\ ~ (Amount(n) < 0)
      BY <1>3, <2>3 DEF Amount
    <3>2. QED
      BY <2>1, <3>1 DEF Whole
  <2>4. QED
    BY <2>2, <2>3
<1>5. QED
  BY <1>1, <1>2, <1>4, RangedExact

(* ExactOrRefused, for what is stored under one field. *)
IsExact(v, f, n, maps) ==
  LET Is(value, number) == value.half = Amount(number)
  IN  IF f.name \notin DOMAIN Member[n]
      THEN Is(v.of[1], Spelling[UrlPair(maps)[f.name]].number)
      ELSE /\ f.kind = "scalar" => Is(v.of[1], Token[Member[n][f.name]].number)
           /\ f.kind = "array" =>
                /\ Len(v.of) = Len(Elements[Member[n][f.name]])
                /\ \A j \in DOMAIN v.of : Is(v.of[j], Token[Elements[Member[n][f.name]][j]].number)

LEMMA Accepts ==
  ASSUME NEW f \in Field
  PROVE  f.type \in Types /\ f.accepts \subseteq Values /\ Refused \notin f.accepts
<1>1. f.type \in Types /\ f.accepts \subseteq Values
  BY DEF Field
<1>2. Refused \notin Values
  BY ConversionAssumption, TableAssumption
<1>3. QED
  BY <1>1, <1>2

LEMMA TextIsExact ==
  ASSUME NEW f \in Field, f.type \in Signed \cup Unsigned, NEW x \in Texts,
         TextValue[f.type][x] \in f.accepts
  PROVE  TextValue[f.type][x].half = Amount(Spelling[x].number)
<1>1. /\ TextValue[f.type][x] = ParseStringTo(f.type, Spelling[x])
      /\ Spelling[x].number.half \in Nat
      /\ Spelling[x].number.written \in {"plain", "padded", "plus"} =>
           Spelling[x].number.half % 2 = 0
  BY Accepts, TableAssumption
<1>2. ParseStringTo(f.type, Spelling[x]) # Refused
  BY <1>1, Accepts
<1>3. QED
  BY <1>1, <1>2, TextExact

LEMMA NodeIsExact ==
  ASSUME NEW f \in Field, f.type \in Signed \cup Unsigned, NEW e \in Nodes,
         JsonValue[f.type][e] \in f.accepts
  PROVE  JsonValue[f.type][e].half = Amount(Token[e].number)
<1>1. JsonValue[f.type][e] = TypedJson(f.type, Token[e])
  BY Accepts, TableAssumption
<1>2. TypedJson(f.type, Token[e]) # Refused
  BY <1>1, Accepts
<1>3. QED
  BY <1>1, <1>2, JsonExact

LEMMA ArrayIsExact ==
  ASSUME NEW f \in Field, f.type \in Signed \cup Unsigned, f.kind = "array",
         NEW m \in Nodes, NEW v \in Stored, Represents(heap, v, f, m)
  PROVE  /\ Len(v.of) = Len(Elements[m])
         /\ \A j \in DOMAIN v.of : v.of[j].half = Amount(Token[Elements[m][j]].number)
<1>1. /\ Len(v.of) = Len(Elements[m])
      /\ \A j \in DOMAIN Elements[m] :
           v.of[j] = JsonValue[f.type][Elements[m][j]] /\ v.of[j] \in f.accepts
  BY DEF Represents
<1>2. Elements[m] \in Seq(Nodes)
  BY DocumentAssumption
<1>3. DOMAIN v.of = DOMAIN Elements[m]
  <2>1. v.of \in Seq(Values) \/ v.of \in Seq(Nat) \/ v.of \in Seq(Texts)
    BY DEF Stored
  <2>2. IsSequence(v.of) /\ IsSequence(Elements[m])
    BY <1>2, <2>1, SequenceOf
  <2>3. DOMAIN v.of = 1..Len(v.of) /\ DOMAIN Elements[m] = 1..Len(Elements[m])
    BY <2>2, SequenceDomain
  <2>4. QED
    BY <1>1, <2>3
<1>4. \A j \in DOMAIN Elements[m] : Elements[m][j] \in Nodes
  BY <1>2
<1>5. QED
  BY <1>1, <1>3, <1>4, NodeIsExact

LEMMA HeldIsExact ==
  ASSUME NEW f \in Field, f.type \in Signed \cup Unsigned, NEW n \in Nodes,
         NEW maps, MapsType(maps), NEW data, f.name \in DOMAIN data,
         data[f.name] \in Stored, Holds(heap, data, f, n, maps)
  PROVE  IsExact(data[f.name], f, n, maps)
<1>1. CASE f.name \notin DOMAIN Member[n]
  <2> DEFINE x == UrlPair(maps)[f.name]
  <2>1. f.name \in UrlKeys(maps)
    BY <1>1 DEF Holds
  <2>2. x \in Texts
    BY <2>1, ParameterIsText
  <2>3. data[f.name] = Scalar(TextValue[f.type][x]) /\ data[f.name].of[1] \in f.accepts
    BY <1>1, <2>1 DEF Holds
  <2>4. data[f.name].of[1] = TextValue[f.type][x]
    BY <2>3, ScalarOf
  <2>5. data[f.name].of[1].half = Amount(Spelling[x].number)
    BY <2>2, <2>3, <2>4, TextIsExact
  <2>6. QED
    BY <1>1, <2>5 DEF IsExact
<1>2. CASE f.name \in DOMAIN Member[n]
  <2> DEFINE m == Member[n][f.name]
             v == data[f.name]
  <2>1. Represents(heap, v, f, m)
    BY <1>2 DEF Holds
  <2>2. m \in Nodes
    BY <1>2, DocumentAssumption DEF PartialMap
  <2> HIDE DEF m, v
  <2>3. ASSUME f.kind = "scalar" PROVE v.of[1].half = Amount(Token[m].number)
    <3>1. v = Scalar(JsonValue[f.type][m]) /\ v.of[1] \in f.accepts
      BY <2>1, <2>3 DEF Represents
    <3>2. v.of[1] = JsonValue[f.type][m]
      BY <3>1, ScalarOf
    <3>3. QED
      BY <2>2, <3>1, <3>2, NodeIsExact
  <2>4. ASSUME f.kind = "array"
        PROVE  /\ Len(v.of) = Len(Elements[m])
               /\ \A j \in DOMAIN v.of : v.of[j].half = Amount(Token[Elements[m][j]].number)
    <3>1. v \in Stored
      BY DEF v
    <3>2. QED
      BY <2>1, <2>2, <2>4, <3>1, ArrayIsExact
  <2>5. QED
    BY <1>2, <2>3, <2>4 DEF IsExact, m, v
<1>3. QED
  BY <1>1, <1>2

(* What the invariant says of one field of one object. *)
LEMMA FieldHeld ==
  ASSUME Inv, NEW o \in DOMAIN heap, NEW i \in DOMAIN FieldsOf[heap[o].schema],
         NEW f, f = FieldsOf[heap[o].schema][i]
  PROVE  /\ f \in Field /\ heap[o].schema \in Schemas
         /\ heap[o].node \in Nodes /\ MapsType(heap[o].maps)
         /\ f.name \in DOMAIN heap[o].data => heap[o].data[f.name] \in Stored
         /\ Holds(heap, heap[o].data, f, heap[o].node, heap[o].maps)
<1>1. heap[o].node \in Nodes /\ heap[o].schema \in Schemas /\ MapsType(heap[o].maps)
  BY DEF Inv, TypeOK, ObjectType, CallType
<1>2. Holds(heap, heap[o].data, f, heap[o].node, heap[o].maps)
  BY DEF Inv, Faithful, FaithfulObject
<1>3. f \in Field
  BY <1>1, SchemaAssumption
<1>4. f.name \in DOMAIN heap[o].data => heap[o].data[f.name] \in Stored
  BY DEF Inv, TypeOK, ObjectType, PartialMap
<1>5. QED
  BY <1>1, <1>2, <1>3, <1>4

LEMMA FaithfulIsExact == Inv => ExactOrRefused
<1> SUFFICES ASSUME Inv PROVE ExactOrRefused
  OBVIOUS
<1>1. ASSUME NEW o \in DOMAIN heap, NEW i \in DOMAIN FieldsOf[heap[o].schema],
             NEW f, f = FieldsOf[heap[o].schema][i],
             f.type \in Signed \cup Unsigned, f.name \in DOMAIN heap[o].data
      PROVE  IsExact(heap[o].data[f.name], f, heap[o].node, heap[o].maps)
  BY <1>1, FieldHeld, HeldIsExact
<1>2. \A o \in DOMAIN heap : \A i \in DOMAIN FieldsOf[heap[o].schema] :
        LET f == FieldsOf[heap[o].schema][i]
        IN  f.type \in Signed \cup Unsigned /\ f.name \in DOMAIN heap[o].data =>
              IsExact(heap[o].data[f.name], f, heap[o].node, heap[o].maps)
  BY <1>1
<1>3. QED
  BY ONLY <1>2, Zenon DEF ExactOrRefused, IsExact

(* A value stored under an integer field is the number that is written in  *)
(* the request, for every width of Go's types and every schema.            *)
THEOREM IntegersAreExact == Spec => []ExactOrRefused
  BY FaithfulIsExact, Invariance, PTL

-----------------------------------------------------------------------------
(* Ranges. *)
Least(f) == Value(f.type, "number", Limits[f.name].least, NoText)
Most(f)  == Value(f.type, "number", Limits[f.name].most, NoText)

(* The fields with limits are float fields with the validator Between.     *)
LimitsEnforced ==
  \A s \in Schemas : \A i \in DOMAIN FieldsOf[s] :
    LET f == FieldsOf[s][i]
    IN  f.name \in DOMAIN Limits =>
          /\ f.kind = "scalar" /\ f.type \in Floats
          /\ Limits[f.name].least \in Int /\ Limits[f.name].most \in Int
          /\ \A v \in f.accepts : Between(v, Least(f), Most(f))

(* Bounded, with the one exception it has in the code: what is stored under *)
(* a field with Between is in the range or a NaN, and never an infinity.    *)
BoundedUnlessNaN ==
  \A o \in DOMAIN heap : \A i \in DOMAIN FieldsOf[heap[o].schema] :
    LET f == FieldsOf[heap[o].schema][i]
        v == heap[o].data[f.name].of[1]
    IN  f.name \in DOMAIN Limits \cap DOMAIN heap[o].data =>
          \/ v.class = "nan"
          \/ v.class = "number" /\ Limits[f.name].least <= v.half /\ v.half <= Limits[f.name].most

LEMMA BetweenBounds ==
  ASSUME NEW v, v.half \in Int, v.class \in {"number", "nan", "infinity", "negative infinity"},
         NEW type, NEW least \in Int, NEW most \in Int,
         Between(v, Value(type, "number", least, NoText), Value(type, "number", most, NoText))
  PROVE  v.class = "nan" \/ (v.class = "number" /\ least <= v.half /\ v.half <= most)
<1> DEFINE low  == Value(type, "number", least, NoText)
           high == Value(type, "number", most, NoText)
<1>1. /\ low.class = "number" /\ low.half = least
      /\ high.class = "number" /\ high.half = most
  BY DEF Value
<1>2. ~ IsLessThan(v, low) /\ ~ IsLessThan(high, v)
  BY DEF Between, IsGreaterThan
<1> HIDE DEF low, high
<1>3. CASE v.class = "number"
  <2>1. least <= v.half
    BY <1>1, <1>2, <1>3 DEF IsLessThan
  <2>2. v.half <= most
    BY <1>1, <1>2, <1>3 DEF IsLessThan
  <2>3. QED
    BY <1>3, <2>1, <2>2
<1>4. CASE v.class = "infinity"
  <2>1. IsLessThan(high, v)
    BY <1>1, <1>4 DEF IsLessThan
  <2>2. QED
    BY <1>2, <2>1
<1>5. CASE v.class = "negative infinity"
  <2>1. IsLessThan(v, low)
    BY <1>1, <1>5 DEF IsLessThan
  <2>2. QED
    BY <1>2, <2>1
<1>6. QED
  BY <1>3, <1>4, <1>5

(* A conversion to a float yields a number, an infinity or a NaN.          *)
LEMMA FloatClasses ==
  ASSUME NEW type \in Floats
  PROVE  /\ \A t : ParseStringTo(type, t) # Refused =>
              ParseStringTo(type, t).class \in {"number", "nan", "infinity", "negative infinity"}
         /\ \A node : TypedJson(type, node) # Refused =>
              TypedJson(type, node).class \in {"number", "nan", "infinity", "negative infinity"}
<1> DEFINE Classes == {"number", "nan", "infinity", "negative infinity"}
<1>1. ASSUME NEW negative PROVE Infinite(type, negative).class \in Classes
  BY DEF Infinite, Value
<1>2. ASSUME NEW i, FloatOrRefused(type, i) # Refused
      PROVE  FloatOrRefused(type, i).class \in Classes
  BY <1>2 DEF FloatOrRefused, Value
<1>3. Value(type, "nan", 0, NoText).class \in Classes
  BY DEF Value
<1> HIDE DEF Classes
<1>4. ASSUME NEW t, ParseFloat(type, t) # Refused
      PROVE  ParseFloat(type, t).class \in Classes
  BY <1>1, <1>2, <1>3, <1>4 DEF ParseFloat
<1>5. \A t : ParseStringTo(type, t) = ParseFloat(type, t)
  BY DEF ParseStringTo, Floats, Signed, Unsigned
<1>6. ASSUME NEW node, TypedJson(type, node) # Refused
      PROVE  TypedJson(type, node).class \in Classes
  <2>1. CASE node.json = "number"
    <3>1. TypedJson(type, node) =
            IF Beyond(node.number) THEN Infinite(type, node.number.negative)
            ELSE FloatOrRefused(type, Rounded(Amount(node.number), DoubleBits))
      BY <2>1 DEF TypedJson, Floats, Signed, Unsigned
    <3>2. QED
      BY <1>1, <1>2, <1>6, <3>1
  <2>2. CASE node.json = "string"
    <3>1. TypedJson(type, node) = ParseFloat(type, node.text)
      BY <2>2 DEF TypedJson, Floats, Signed, Unsigned
    <3>2. QED
      BY <1>4, <1>6, <3>1
  <2>3. CASE node.json \notin {"number", "string"}
    <3>1. TypedJson(type, node) = Refused
      BY <2>3 DEF TypedJson, Floats, Signed, Unsigned
    <3>2. QED
      BY <1>6, <3>1
  <2>4. QED
    BY <2>1, <2>2, <2>3
<1>7. QED
  BY <1>4, <1>5, <1>6 DEF Classes

(* What is stored under a plain field is a conversion that it accepts. *)
LEMMA HeldIsConverted ==
  ASSUME NEW f \in Field, f.kind = "scalar", NEW n \in Nodes, NEW maps, MapsType(maps),
         NEW data, f.name \in DOMAIN data, Holds(heap, data, f, n, maps)
  PROVE  \E v \in f.accepts : /\ data[f.name].of[1] = v
                              /\ \/ \E m \in Nodes : v = JsonValue[f.type][m]
                                 \/ \E x \in Texts : v = TextValue[f.type][x]
<1>1. CASE f.name \in DOMAIN Member[n]
  <2> DEFINE v == JsonValue[f.type][Member[n][f.name]]
  <2>1. Member[n][f.name] \in Nodes
    BY <1>1, DocumentAssumption DEF PartialMap
  <2>2. Represents(heap, data[f.name], f, Member[n][f.name])
    BY <1>1 DEF Holds
  <2>3. data[f.name] = Scalar(v) /\ data[f.name].of[1] \in f.accepts
    BY <2>2 DEF Represents
  <2>4. data[f.name].of[1] = v
    BY <2>3, ScalarOf
  <2>5. QED
    BY <2>1, <2>3, <2>4
<1>2. CASE f.name \notin DOMAIN Member[n]
  <2> DEFINE v == TextValue[f.type][UrlPair(maps)[f.name]]
  <2>1. f.name \in UrlKeys(maps)
    BY <1>2 DEF Holds
  <2>2. UrlPair(maps)[f.name] \in Texts
    BY <2>1, ParameterIsText
  <2>3. data[f.name] = Scalar(v) /\ data[f.name].of[1] \in f.accepts
    BY <1>2, <2>1 DEF Holds
  <2>4. data[f.name].of[1] = v
    BY <2>3, ScalarOf
  <2>5. QED
    BY <2>2, <2>3, <2>4
<1>3. QED
  BY <1>1, <1>2

LEMMA ConvertedIsBounded ==
  ASSUME NEW f \in Field, f.type \in Floats, NEW v \in f.accepts,
         Limits[f.name].least \in Int, Limits[f.name].most \in Int,
         Between(v, Least(f), Most(f)),
         \/ \E m \in Nodes : v = JsonValue[f.type][m]
         \/ \E x \in Texts : v = TextValue[f.type][x]
  PROVE  \/ v.class = "nan"
         \/ /\ v.class = "number"
            /\ Limits[f.name].least <= v.half /\ v.half <= Limits[f.name].most
<1>1. v # Refused /\ v.half \in Int
  BY Accepts, TableAssumption
<1>2. v.class \in {"number", "nan", "infinity", "negative infinity"}
  <2>1. ASSUME NEW m \in Nodes, v = JsonValue[f.type][m]
        PROVE  v.class \in {"number", "nan", "infinity", "negative infinity"}
    <3>1. v = TypedJson(f.type, Token[m])
      BY <2>1, Accepts, TableAssumption
    <3>2. QED
      BY <1>1, <3>1, FloatClasses
  <2>2. ASSUME NEW x \in Texts, v = TextValue[f.type][x]
        PROVE  v.class \in {"number", "nan", "infinity", "negative infinity"}
    <3>1. v = ParseStringTo(f.type, Spelling[x])
      BY <2>2, Accepts, TableAssumption
    <3>2. QED
      BY <1>1, <3>1, FloatClasses
  <2>3. QED
    BY <2>1, <2>2
<1>3. QED
  BY <1>1, <1>2, BetweenBounds DEF Least, Most

LEMMA FaithfulIsBounded == LimitsEnforced /\ Inv => BoundedUnlessNaN
<1> SUFFICES ASSUME LimitsEnforced, Inv,
                    NEW o \in DOMAIN heap, NEW i \in DOMAIN FieldsOf[heap[o].schema],
                    NEW f, f = FieldsOf[heap[o].schema][i],
                    f.name \in DOMAIN Limits, f.name \in DOMAIN heap[o].data
             PROVE  LET v == heap[o].data[f.name].of[1]
                    IN  \/ v.class = "nan"
                        \/ /\ v.class = "number"
                           /\ Limits[f.name].least <= v.half /\ v.half <= Limits[f.name].most
  BY ZenonT(30) DEF BoundedUnlessNaN
<1>1. /\ f \in Field /\ heap[o].schema \in Schemas
      /\ heap[o].node \in Nodes /\ MapsType(heap[o].maps)
      /\ Holds(heap, heap[o].data, f, heap[o].node, heap[o].maps)
  BY FieldHeld
<1>2. /\ f.kind = "scalar" /\ f.type \in Floats
      /\ Limits[f.name].least \in Int /\ Limits[f.name].most \in Int
      /\ \A v \in f.accepts : Between(v, Least(f), Most(f))
  BY <1>1 DEF LimitsEnforced
<1>3. PICK v \in f.accepts : /\ heap[o].data[f.name].of[1] = v
                            /\ \/ \E m \in Nodes : v = JsonValue[f.type][m]
                               \/ \E x \in Texts : v = TextValue[f.type][x]
  <2>1. PICK d, n, maps : d = heap[o].data /\ n = heap[o].node /\ maps = heap[o].maps
    OBVIOUS
  <2>2. /\ n \in Nodes /\ MapsType(maps) /\ f \in Field /\ f.kind = "scalar"
        /\ Holds(heap, d, f, n, maps) /\ f.name \in DOMAIN d
    BY <1>1, <1>2, <2>1
  <2>3. \E v \in f.accepts : /\ d[f.name].of[1] = v
                            /\ \/ \E m \in Nodes : v = JsonValue[f.type][m]
                               \/ \E x \in Texts : v = TextValue[f.type][x]
    BY <2>2, HeldIsConverted, SMTT(30)
  <2>4. QED
    BY <2>1, <2>3, Zenon
<1>4. Between(v, Least(f), Most(f))
  BY <1>2
<1>5. QED
  BY <1>1, <1>2, <1>3, <1>4, ConvertedIsBounded, ZenonT(30)

(* Where Between guards a float field, only a NaN gets past it.            *)
THEOREM OnlyNaNEscapes ==
  ASSUME LimitsEnforced
  PROVE  Spec => []BoundedUnlessNaN
<1>1. Inv => BoundedUnlessNaN
  BY FaithfulIsBounded
<1>2. QED
  BY <1>1, Invariance, PTL

-----------------------------------------------------------------------------
(* The object of a flat schema that Bind takes Validate to return.  Where  *)
(* Bind says "body" there is the converted member of the document, where   *)
(* it says "url" the parameter: converted if it is for a field, else as it *)
(* is.                                                                     *)
AsBindSays(data, s, n, maps, q) ==
  LET from == Route(s)!Validated(q)
      url  == maps[1]
  IN  /\ DOMAIN data = DOMAIN from
      /\ \A i \in DOMAIN FieldsOf[s] :
           LET f == FieldsOf[s][i]
           IN  f.name \in DOMAIN data =>
                 data[f.name] = Scalar(IF from[f.name] = "body"
                                       THEN JsonValue[f.type][Member[n][f.name]]
                                       ELSE TextValue[f.type][url[f.name]])
      /\ \A k \in DOMAIN data \ Names(s) : from[k] = "url" /\ data[k] = Text(url[k])

ReturnedAsBindSays ==
  result.done /\ result.ok => \A s \in Schemas, q \in Requests :
    s = call.schema /\ MadeFor(s, call.node, call.maps, q) =>
      AsBindSays(heap[result.vo].data, s, call.node, call.maps, q)

LEMMA FlatObject ==
  ASSUME NEW s \in Schemas, NEW n \in Nodes, NEW maps, MapsType(maps), NEW q \in Requests,
         MadeFor(s, n, maps, q), Route(s)!Valid(q),
         NEW h, NEW vo, FaithfulObject(h, vo), vo.schema = s, vo.node = n, vo.maps = maps
  PROVE  AsBindSays(vo.data, s, n, maps, q)
<1> DEFINE from   == Route(s)!Validated(q)
           url    == maps[1]
           params == q.path \cup q.query
           data   == vo.data
<1>1. q.read = "ok" /\ Route(s)!Conflicts(q) = {}
  BY DEF Route!Valid
<1>2. /\ maps = <<url>> /\ DOMAIN url = params
      /\ DOMAIN Member[n] = q.body
      /\ \A i \in DOMAIN FieldsOf[s] : FieldsOf[s][i].kind = "scalar"
  BY <1>1 DEF MadeFor
<1>3. UrlKeys(maps) = params /\ \A k \in params : UrlPair(maps)[k] = url[k]
  BY <1>2, OneMap
<1>4. params \cap q.body = {}
  BY <1>1 DEF Route!Conflicts, Route!Params
<1>5. /\ DOMAIN from = (Names(s) \cap (q.body \cup params)) \cup (IF s \in Lenient THEN params ELSE {})
      /\ \A k \in DOMAIN from : from[k] = IF k \in q.body THEN "body" ELSE "url"
  BY DEF Route!Validated, Route!Params
<1>6. /\ \A i \in DOMAIN FieldsOf[s] : Holds(h, data, FieldsOf[s][i], n, maps)
      /\ DOMAIN data \subseteq Names(s) \cup (IF s \in Lenient THEN params ELSE {})
      /\ s \in Lenient => \A k \in params \ Names(s) : k \in DOMAIN data /\ data[k] = Text(url[k])
  BY <1>3 DEF FaithfulObject
<1> HIDE DEF from, url, params, data
<1>7. ASSUME NEW i \in DOMAIN FieldsOf[s]
      PROVE  LET f == FieldsOf[s][i]
             IN  /\ f.name \in DOMAIN data <=> f.name \in q.body \cup params
                 /\ f.name \in q.body => data[f.name] = Scalar(JsonValue[f.type][Member[n][f.name]])
                 /\ f.name \in params \ q.body => data[f.name] = Scalar(TextValue[f.type][url[f.name]])
  <2> DEFINE f == FieldsOf[s][i]
  <2>1. Holds(h, data, f, n, maps) /\ f.kind = "scalar"
    BY <1>2, <1>6
  <2> HIDE DEF f
  <2>2. /\ f.name \in DOMAIN data <=> f.name \in q.body \cup params
        /\ f.name \in q.body => data[f.name] = Scalar(JsonValue[f.type][Member[n][f.name]])
        /\ f.name \in params \ q.body => data[f.name] = Scalar(TextValue[f.type][url[f.name]])
    BY <1>2, <1>3, <2>1 DEF Holds, Represents
  <2> QED
    BY <2>2 DEF f
<1>8. \A k \in Names(s) : k \in DOMAIN data <=> k \in q.body \cup params
  BY <1>7 DEF Names
<1>9. DOMAIN data = DOMAIN from
  BY <1>5, <1>6, <1>8
<1>10. ASSUME NEW i \in DOMAIN FieldsOf[s], FieldsOf[s][i].name \in DOMAIN data
       PROVE  LET f == FieldsOf[s][i]
              IN  data[f.name] = Scalar(IF from[f.name] = "body"
                                        THEN JsonValue[f.type][Member[n][f.name]]
                                        ELSE TextValue[f.type][url[f.name]])
  <2> DEFINE f == FieldsOf[s][i]
  <2>1. f.name \in DOMAIN data /\ f.name \in DOMAIN from
    BY <1>9, <1>10
  <2>2. /\ f.name \in q.body \cup params
        /\ f.name \in q.body => data[f.name] = Scalar(JsonValue[f.type][Member[n][f.name]])
        /\ f.name \in params \ q.body => data[f.name] = Scalar(TextValue[f.type][url[f.name]])
    BY <1>7, <1>10
  <2>3. from[f.name] = IF f.name \in q.body THEN "body" ELSE "url"
    BY <1>5, <2>1
  <2> HIDE DEF f
  <2>4. data[f.name] = Scalar(IF from[f.name] = "body"
                              THEN JsonValue[f.type][Member[n][f.name]]
                              ELSE TextValue[f.type][url[f.name]])
    BY <2>2, <2>3
  <2> QED
    BY <2>4 DEF f
<1>11. ASSUME NEW k \in DOMAIN data \ Names(s)
       PROVE  from[k] = "url" /\ data[k] = Text(url[k])
  <2>1. s \in Lenient /\ k \in params
    BY <1>6, <1>11
  <2> QED
    BY <1>4, <1>5, <1>6, <1>9, <1>11, <2>1
<1> QED
  BY <1>9, <1>10, <1>11 DEF from, url, data, AsBindSays

(* A handler behind Bind finds the object that Bind says it finds: the     *)
(* same names, each from the place it is said to be from, converted.       *)
THEOREM BindHasTheObject == Spec => []ReturnedAsBindSays
<1>1. ASSUME Inv, Returned, AnsweredAsBindSays, result.done, result.ok,
             NEW s \in Schemas, NEW q \in Requests,
             s = call.schema, MadeFor(s, call.node, call.maps, q)
      PROVE  AsBindSays(heap[result.vo].data, s, call.node, call.maps, q)
  <2>1. call.node \in Nodes /\ MapsType(call.maps)
    BY <1>1 DEF Inv, TypeOK, CallType
  <2>2. Route(s)!Valid(q)
    BY <1>1 DEF AnsweredAsBindSays
  <2>3. /\ result.vo \in DOMAIN heap
        /\ heap[result.vo].schema = s /\ heap[result.vo].node = call.node
        /\ heap[result.vo].maps = call.maps
    BY <1>1 DEF Returned, IsObjectOf, Object
  <2>4. FaithfulObject(heap, heap[result.vo])
    BY <1>1, <2>3 DEF Inv, Faithful
  <2> QED
    BY <1>1, <2>1, <2>2, <2>3, <2>4, FlatObject
<1>2. Inv /\ Returned /\ AnsweredAsBindSays => ReturnedAsBindSays
  BY <1>1, Zenon DEF ReturnedAsBindSays
<1> QED
  BY <1>2, Invariance, AlwaysReturned, BindHasTheVerdict, PTL

=============================================================================
