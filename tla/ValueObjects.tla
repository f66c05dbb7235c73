----------------------------- MODULE ValueObjects -----------------------------
(***************************************************************************)
(* What a handler reads from the object that Validate returned: Get along  *)
(* a dotted path and the typed getters (internal/object.go), against the   *)
(* document itself.  The conversions are those of TypedValues.             *)
(***************************************************************************)
EXTENDS ValidationReference, TypedValues

CONSTANTS
  Token,     \* node -> the JSON token of a node that is no array or object
  Spelling,  \* text of a URL parameter -> what it spells
  IndexOf,   \* the parts of paths that are indices -> index
  Paths,     \* the paths that handlers ask for
  Limits     \* names of fields -> the least and the greatest value they accept

\* A path is the parts that strings.Split returns, and an index is no negative number.
ASSUME ReadAssumption ==
  /\ \A path \in Paths : IsSequence(path)
  /\ \A k \in DOMAIN IndexOf : IndexOf[k] \in Nat

\* The tables of Validation are the conversions of TypedValues; a number
\* written without a fraction is whole.
ASSUME TableAssumption ==
  /\ Refused = Bad
  /\ \A v \in Values : v.half \in Int
  /\ \A t \in Types : \A n \in Nodes : JsonValue[t][n] = TypedJson(t, Token[n])
  /\ \A t \in Types : \A x \in Texts : TextValue[t][x] = ParseStringTo(t, Spelling[x])
  /\ \A x \in Texts :
       LET n == Spelling[x].number
       IN  n.half \in Nat /\ (n.written \in {"plain", "padded", "plus"} => n.half % 2 = 0)

-----------------------------------------------------------------------------
(* Get.  A value of an object is what Validation stores. *)

Found(x) == [tag |-> "some", value |-> x]
None     == [tag |-> "none", value |-> <<>>]
Panics   == [tag |-> "panic", value |-> <<>>]

Element(x, i) == IF x.kind = "array" THEN Scalar(x.of[i]) ELSE Object(x.of[i])

\* Mutant: the end of the slice is not left out.
IntoPastEnd(at, part) ==
  LET x == at.value
  IN  IF at.tag # "some" THEN at
      ELSE CASE x.kind = "object" -> LET data == heap[x.of[1]].data
                                     IN  IF part \in DOMAIN data THEN Found(data[part]) ELSE None
             [] x.kind \in {"array", "objects"} ->
                  IF x.of # <<>> /\ part \in DOMAIN IndexOf /\ IndexOf[part] <= Len(x.of)
                  THEN Found(Element(x, (IndexOf[part] % Len(x.of)) + 1)) ELSE Panics
             [] OTHER -> None

\* One part of the path.
Into(at, part) ==
  LET x == at.value
  IN  IF at.tag # "some" THEN at
      ELSE CASE x.kind = "object" -> LET data == heap[x.of[1]].data
                                     IN  IF part \in DOMAIN data THEN Found(data[part]) ELSE None
             [] x.kind \in {"array", "objects"} ->
                  IF part \in DOMAIN IndexOf /\ IndexOf[part] < Len(x.of)
                  THEN Found(Element(x, IndexOf[part] + 1)) ELSE Panics
             [] OTHER -> None

Get(id, path) ==
  LET at[i \in 0..Len(path)] == IF i = 0 THEN Found(Object(id)) ELSE Into(at[i - 1], path[i])
  IN  at[Len(path)]

\* A getter for plain values of a type.
GetAs(type, id, path) ==
  LET at == Get(id, path)
      fits == \/ at.value.kind = "text" /\ type = "string"
              \/ at.value.kind = "scalar" /\ TypeOf[at.value.of[1]] = type
  IN  IF at.tag = "some" /\ ~fits THEN Panics ELSE at

\* A getter whose name begins with Mst.
MstAs(type, id, path) ==
  LET at == GetAs(type, id, path) IN IF at = None THEN Panics ELSE at

-----------------------------------------------------------------------------
(* What a document has at a path: a field with its node or URL parameter,  *)
(* an element of an array, a parameter that a lenient schema takes over,   *)
(* or nothing; an element that is not there is an error.                   *)

Place(at, f, m) == [at |-> at, field |-> f, node |-> m]
Root    == [at |-> "root"]
Nothing == [at |-> "nothing"]
Wrong   == [at |-> "wrong"]

InObject(s, n, maps, k) ==
  LET f == CHOOSE f \in {FieldsOf[s][i] : i \in DOMAIN FieldsOf[s]} : f.name = k
  IN  IF k \in Names(s) /\ k \in DOMAIN Member[n] THEN Place("field", f, Member[n][k])
      ELSE IF k \notin UrlKeys(maps) THEN Nothing
      ELSE IF k \in Names(s) THEN Place("parameter", f, UrlPair(maps)[k])
      ELSE IF s \in Lenient THEN [at |-> "text", text |-> UrlPair(maps)[k]]
      ELSE Nothing

InArray(f, m, k) ==
  IF k \in DOMAIN IndexOf /\ IndexOf[k] < Len(Elements[m])
  THEN Place("element", f, Elements[m][IndexOf[k] + 1]) ELSE Wrong

IsObject(p) == \/ p.at = "field" /\ p.field.kind = "object"
               \/ p.at = "element" /\ p.field.kind = "objects"

Below(p, k) ==
  CASE p.at = "root"  -> InObject(call.schema, call.node, call.maps, k)
    [] p.at = "field" /\ p.field.kind \in {"array", "objects"} -> InArray(p.field, p.node, k)
    [] IsObject(p)    -> InObject(p.field.embedded, p.node, <<>>, k)
    [] p.at = "wrong" -> Wrong
    [] OTHER          -> Nothing

PlaceOf(path) ==
  LET at[i \in 0..Len(path)] == IF i = 0 THEN Root ELSE Below(at[i - 1], path[i])
  IN  at[Len(path)]

IsObjectOf(x, s, n, maps) ==
  /\ x.kind = "object"
  /\ x.of[1] \in DOMAIN heap
  /\ heap[x.of[1]].schema = s /\ heap[x.of[1]].node = n /\ heap[x.of[1]].maps = maps

Accepted(x, f, v) == x = Scalar(v) /\ v \in f.accepts

IsAt(x, p) ==
  /\ p.at = "root"      => IsObjectOf(x, call.schema, call.node, call.maps)
  /\ p.at = "field"     => Represents(heap, x, p.field, p.node)
  /\ p.at = "element"   => IF p.field.kind = "array"
                           THEN Accepted(x, p.field, JsonValue[p.field.type][p.node])
                           ELSE IsObjectOf(x, p.field.embedded, p.node, <<>>)
  /\ p.at = "parameter" => Accepted(x, p.field, TextValue[p.field.type][p.node])
  /\ p.at = "text"      => x = Text(p.text)

\* The type of the getter that suits what is at a place, if there is one.
Suits(p, type) ==
  \/ p.at = "text" /\ type = "string"
  \/ /\ \/ p.at = "parameter"
        \/ p.at = "field" /\ p.field.kind = "scalar"
        \/ p.at = "element" /\ p.field.kind = "array"
     /\ type = p.field.type

(* Whatever object Validate returned and whatever path is asked for, Get    *)
(* finds what the document and the URL have there, converted; it answers    *)
(* none where they have nothing, and panics only at an element that is not  *)
(* there; a typed getter finds it exactly with the type of the field.       *)
ReadBack ==
  result.done /\ result.ok =>
    \A path \in Paths :
      LET p   == PlaceOf(path)
          got == Get(result.vo, path)
      IN  /\ got.tag = "none" <=> p.at = "nothing"
          /\ got.tag = "panic" <=> p.at = "wrong"
          /\ got.tag = "some" => IsAt(got.value, p)
          /\ \A t \in Types :
               LET right == got.tag = "some" /\ Suits(p, t)
               IN  /\ GetAs(t, result.vo, path) = IF right \/ got = None THEN got ELSE Panics
                   /\ MstAs(t, result.vo, path) = IF right THEN got ELSE Panics

-----------------------------------------------------------------------------
(* A value stored under an integer field is the number that is written in   *)
(* the request, however near to the limits of its type: nothing is          *)
(* rounded, cut off or wrapped around.                                      *)
ExactOrRefused ==
  \A o \in DOMAIN heap : \A i \in DOMAIN FieldsOf[heap[o].schema] :
    LET f    == FieldsOf[heap[o].schema][i]
        n    == heap[o].node
        v    == heap[o].data[f.name]
        m    == Member[n][f.name]
        Is(value, number) == value.half = Amount(number)
    IN  f.type \in Signed \cup Unsigned /\ f.name \in DOMAIN heap[o].data =>
          IF f.name \notin DOMAIN Member[n]
          THEN Is(v.of[1], Spelling[UrlPair(heap[o].maps)[f.name]].number)
          ELSE /\ f.kind = "scalar" => Is(v.of[1], Token[m].number)
               /\ f.kind = "array" =>
                    /\ Len(v.of) = Len(Elements[m])
                    /\ \A j \in DOMAIN v.of : Is(v.of[j], Token[Elements[m][j]].number)

(* validator.go on Between: a value is within a given range (inclusive of   *)
(* min and max).                                                            *)
Bounded ==
  \A o \in DOMAIN heap : \A k \in DOMAIN heap[o].data \cap DOMAIN Limits :
    LET v == heap[o].data[k].of[1]
    IN  v.class = "number" /\ Limits[k].least <= v.half /\ v.half <= Limits[k].most

(* README, on what validation produces: "a trusted ValueObject that your    *)
(* service layer can safely consume".  What is stored under a field has the *)
(* field's kind, and is in the range that its validator was given.          *)
Trusted == TypeSafe /\ Bounded

=============================================================================
