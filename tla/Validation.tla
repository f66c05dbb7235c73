------------------------------ MODULE Validation ------------------------------
(***************************************************************************)
(* view.Schema.Validate (view/vo.go): one call of Validate on a JSON       *)
(* document and its URL parameters, with the recursive calls it makes for  *)
(* embedded objects and arrays of objects.                                 *)
(*                                                                         *)
(* The Go recursion is an explicit stack of frames; the ValueObjects that  *)
(* the calls build live in `heap' and refer to one another by index, so    *)
(* that what a nested call promised is still visible when its caller       *)
(* stores the result.  A document is a node of a table (Shape, Member,     *)
(* Elements); typedJson, typedString and the validators are the tables     *)
(* JsonValue, TextValue and the field's `accepts'.                         *)
(***************************************************************************)
EXTENDS Naturals, Sequences

CONSTANTS
  Schemas,    \* Schema pointers
  FieldsOf,   \* schema -> its fields, in declaration order
  Lenient,    \* the schemas with allowUnknownFields
  Keys,       \* JSON keys, URL parameter names, field names
  NullKey,    \* the key gjson's @keys reports for what is not an object: ""
  Nodes,      \* JSON nodes
  Shape,      \* node -> "none" (no body), "invalid", "scalar", "array" or "object"
  Member,     \* node -> key -> node, for objects
  Elements,   \* node -> sequence of nodes, for arrays
  Types,      \* the Go types of validator.FieldType
  Values,     \* Go values of these types
  TypeOf,     \* value -> type
  Texts,      \* values of URL parameters
  Bad,        \* a failed conversion
  JsonValue,  \* type -> node -> value or Bad: typedJson
  TextValue,  \* type -> text -> value or Bad: typedString
  NoSchema,   \* the nil *Schema
  Calls       \* the calls of Validate that are explored

Kinds == {"scalar", "array", "object", "objects"}

Field == [name : Keys \ {NullKey}, kind : Kinds, required : BOOLEAN, type : Types,
          accepts : SUBSET Values, embedded : Schemas \cup {NoSchema}]

Names(s) == {FieldsOf[s][i].name : i \in DOMAIN FieldsOf[s]}

PlainNames(s) ==
  {FieldsOf[s][i].name : i \in {j \in DOMAIN FieldsOf[s] : FieldsOf[s][j].kind = "scalar"}}

PartialMap(f, D, R) == DOMAIN f \subseteq D /\ f \in [DOMAIN f -> R]

EmptyMap == [x \in {} |-> x]

Single(k, v) == [x \in {k} |-> v]

\* The map g laid over the map f: TLC's g @@ f, in a form the provers take.
Over(g, f) == [x \in DOMAIN g \cup DOMAIN f |-> IF x \in DOMAIN g THEN g[x] ELSE f[x]]

\* What WithFields and the field constructors guarantee of every schema.
ASSUME SchemaAssumption ==
  /\ FieldsOf \in [Schemas -> Seq(Field)]
  /\ \A s \in Schemas : \A i, j \in DOMAIN FieldsOf[s] :
       FieldsOf[s][i].name = FieldsOf[s][j].name => i = j
  /\ \A s \in Schemas : \A i \in DOMAIN FieldsOf[s] :
       FieldsOf[s][i].kind \in {"object", "objects"} => FieldsOf[s][i].embedded \in Schemas

\* The node tables describe JSON documents.
ASSUME DocumentAssumption ==
  /\ NullKey \in Keys
  /\ Shape \in [Nodes -> {"none", "invalid", "scalar", "array", "object"}]
  /\ Elements \in [Nodes -> Seq(Nodes)]
  /\ \A n \in Nodes :
       /\ PartialMap(Member[n], Keys, Nodes)
       /\ \A k \in DOMAIN Member[n] : Shape[Member[n][k]] # "invalid"
       /\ \A i \in DOMAIN Elements[n] : Shape[Elements[n][i]] # "invalid"

\* The conversions return a value of the type they were asked for, or fail.
ASSUME ConversionAssumption ==
  /\ Bad \notin Values
  /\ TypeOf \in [Values -> Types]
  /\ JsonValue \in [Types -> [Nodes -> Values \cup {Bad}]]
  /\ TextValue \in [Types -> [Texts -> Values \cup {Bad}]]
  /\ \A t \in Types : \A v \in {JsonValue[t][n] : n \in Nodes} \ {Bad} : TypeOf[v] = t
  /\ \A t \in Types : \A v \in {TextValue[t][x] : x \in Texts} \ {Bad} : TypeOf[v] = t

IsSequence(s) == s \in Seq({s[i] : i \in DOMAIN s})

MapsType(maps) == IsSequence(maps) /\ \A i \in DOMAIN maps : PartialMap(maps[i], Keys, Texts)

CallType(c) == c.schema \in Schemas /\ c.node \in Nodes /\ MapsType(c.maps)

ASSUME CallAssumption == \A c \in Calls : CallType(c)

-----------------------------------------------------------------------------
VARIABLES
  call,    \* the arguments of the outermost call
  stack,   \* the active calls of Validate, the outermost first
  heap,    \* the ValueObjects built so far
  result   \* what the outermost call returned

vars == <<call, stack, heap, result>>

(* What a ValueObject holds under a name. *)
Scalar(v)    == [kind |-> "scalar", of |-> <<v>>]
Array(vs)    == [kind |-> "array", of |-> vs]
Object(id)   == [kind |-> "object", of |-> <<id>>]
Objects(ids) == [kind |-> "objects", of |-> ids]
Text(x)      == [kind |-> "text", of |-> <<x>>]

Stored == [kind : {"scalar", "array"}, of : Seq(Values)]
          \cup [kind : {"object", "objects"}, of : Seq(Nat)]
          \cup [kind : {"text"}, of : Seq(Texts)]

(* The URL parameters of a call, merged.  A key in two of the maps fails    *)
(* the call before its value is looked at, so which map wins is not seen.  *)
UrlKeys(maps) == UNION {DOMAIN maps[i] : i \in DOMAIN maps}

UrlPair(maps) ==
  [k \in UrlKeys(maps) |-> maps[CHOOSE i \in DOMAIN maps : k \in DOMAIN maps[i]][k]]

(* gjson's @keys: a document that is not an object has the key "" for      *)
(* itself, or for each of its elements.                                    *)
JsonKeys(n) ==
  CASE Shape[n] = "object" -> DOMAIN Member[n]
    [] Shape[n] = "scalar" -> {NullKey}
    [] Shape[n] = "array"  -> IF Elements[n] = <<>> THEN {} ELSE {NullKey}
    [] OTHER               -> {}

(* The keys that fail the call before any field is looked at. *)

\* Mutant: a parameter in both the URL and the document is let through.
ConflictsWithinUrl(s, n, maps) ==
  {k \in UrlKeys(maps) : \E i, j \in DOMAIN maps :
     i # j /\ k \in DOMAIN maps[i] /\ k \in DOMAIN maps[j]}
  \cup (IF s \in Lenient
        THEN {}
        ELSE (UrlKeys(maps) \ PlainNames(s)) \cup (JsonKeys(n) \ Names(s)))

Conflicts(s, n, maps) ==
  {k \in UrlKeys(maps) : \E i, j \in DOMAIN maps :
     i # j /\ k \in DOMAIN maps[i] /\ k \in DOMAIN maps[j]}
  \cup (UrlKeys(maps) \cap JsonKeys(n))
  \cup (IF s \in Lenient
        THEN {}
        ELSE (UrlKeys(maps) \ PlainNames(s)) \cup (JsonKeys(n) \ Names(s)))

(* A frame.  next = 0 before the key checks, then the index of the field   *)
(* being validated; elem, made and elemErrs belong to the loop over an     *)
(* array of objects.  An error map gives each key of validationError the   *)
(* call the error arose in, identified by its path: a history the code     *)
(* does not keep.  A key is <<name>> or <<name, index>>.                   *)
Frame(s, n, maps, path) ==
  [schema |-> s, node |-> n, maps |-> maps, path |-> path, next |-> 0,
   data |-> EmptyMap, errs |-> EmptyMap,
   elem |-> 0, made |-> <<>>, elemErrs |-> EmptyMap]

Top     == stack[Len(stack)]
Current == FieldsOf[Top.schema][Top.next]
Here    == Member[Top.node][Current.name]

Exists     == Current.name \in DOMAIN Member[Top.node]
ValidatesField(kind) ==
  /\ stack # <<>>
  /\ Top.next \in DOMAIN FieldsOf[Top.schema]
  /\ Exists
  /\ Current.kind = kind

SetTop(f) == stack' = [stack EXCEPT ![Len(stack)] = f]

Store(v)   == SetTop([Top EXCEPT !.data = Over(Single(Current.name, v), @), !.next = @ + 1])
ErrorAt(k) == Single(k, Top.path)

\* Mutant: validation stops at the first field that fails.
RejectAndStop(e) ==
  SetTop([Top EXCEPT !.errs = Over(e, @), !.next = Len(FieldsOf[Top.schema]) + 1])

Reject(e)  == SetTop([Top EXCEPT !.errs = Over(e, @), !.next = @ + 1])

\* Mutant: the result of the conversion is stored without a look at its error.
StoreUnchecked(v) == Store(Scalar(v))

StoreScalar(v) == IF v \in Current.accepts THEN Store(Scalar(v))
                                           ELSE Reject(ErrorAt(<<Current.name>>))

(* What the caller's frame becomes when the nested call it made returns:   *)
(* the error map of an embedded object is merged into the caller's map as  *)
(* it is; a failed element of an array leaves one error, and the values    *)
(* are collected only while no element has failed.                         *)

\* Mutant: the loop over an array does not move past an element that fails.
DeliveredStuck(c, ok, id, errs) ==
  LET f   == FieldsOf[c.schema][c.next]
      key == <<f.name, c.elem>>
  IN  IF f.kind = "object"
      THEN IF ok THEN [c EXCEPT !.data = Over(Single(f.name, Object(id)), @), !.next = @ + 1]
                 ELSE [c EXCEPT !.errs = Over(errs, @), !.next = @ + 1]
      ELSE IF ok THEN [c EXCEPT !.made = Append(@, id), !.elem = @ + 1]
                 ELSE [c EXCEPT !.elemErrs = Over(Single(key, Append(c.path, key)), @)]

Delivered(c, ok, id, errs) ==
  LET f   == FieldsOf[c.schema][c.next]
      key == <<f.name, c.elem>>
  IN  IF f.kind = "object"
      THEN IF ok THEN [c EXCEPT !.data = Over(Single(f.name, Object(id)), @), !.next = @ + 1]
                 ELSE [c EXCEPT !.errs = Over(errs, @), !.next = @ + 1]
      ELSE IF ok THEN [c EXCEPT !.made = IF DOMAIN c.elemErrs = {} THEN Append(@, id) ELSE @,
                                !.elem = @ + 1]
                 ELSE [c EXCEPT !.elemErrs = Over(Single(key, Append(c.path, key)), @), !.elem = @ + 1]

Return(ok, id, errs) ==
  IF Len(stack) = 1
  THEN /\ stack' = <<>>
       /\ result' = [done |-> TRUE, ok |-> ok, vo |-> id, errs |-> errs]
  ELSE /\ stack' = [i \in 1..(Len(stack) - 1) |->
                      IF i = Len(stack) - 1 THEN Delivered(stack[i], ok, id, errs)
                                            ELSE stack[i]]
       /\ result' = result

-----------------------------------------------------------------------------
Init ==
  /\ call \in Calls
  /\ stack = <<Frame(call.schema, call.node, call.maps, <<>>)>>
  /\ heap = <<>>
  /\ result = [done |-> FALSE, ok |-> FALSE, vo |-> 0, errs |-> EmptyMap]

InvalidJson ==
  /\ stack # <<>>
  /\ Top.next = 0
  /\ Shape[Top.node] = "invalid"
  /\ Return(FALSE, 0, EmptyMap)
  /\ UNCHANGED <<call, heap>>

(* Unknown, duplicated and conflicting keys end the call at once. *)
FailFirst ==
  /\ stack # <<>>
  /\ Top.next = 0
  /\ Shape[Top.node] # "invalid"
  /\ LET keys == Conflicts(Top.schema, Top.node, Top.maps)
     IN  /\ keys # {}
         /\ Return(FALSE, 0, [k \in {<<x>> : x \in keys} |-> Top.path])
  /\ UNCHANGED <<call, heap>>

Begin ==
  /\ stack # <<>>
  /\ Top.next = 0
  /\ Shape[Top.node] # "invalid"
  /\ Conflicts(Top.schema, Top.node, Top.maps) = {}
  /\ SetTop([Top EXCEPT !.next = 1])
  /\ UNCHANGED <<call, heap, result>>

(* The field is in neither the document nor the URL. *)
Missing ==
  /\ stack # <<>>
  /\ Top.next \in DOMAIN FieldsOf[Top.schema]
  /\ ~ Exists
  /\ Current.name \notin UrlKeys(Top.maps)
  /\ IF Current.required THEN Reject(ErrorAt(<<Current.name>>))
                         ELSE SetTop([Top EXCEPT !.next = @ + 1])
  /\ UNCHANGED <<call, heap, result>>

(* validateRaw: the field's kind is not looked at. *)
FromUrl ==
  /\ stack # <<>>
  /\ Top.next \in DOMAIN FieldsOf[Top.schema]
  /\ ~ Exists
  /\ Current.name \in UrlKeys(Top.maps)
  /\ StoreScalar(TextValue[Current.type][UrlPair(Top.maps)[Current.name]])
  /\ UNCHANGED <<call, heap, result>>

(* validate, for a plain field. *)
FromScalar ==
  /\ ValidatesField("scalar")
  /\ StoreScalar(JsonValue[Current.type][Here])
  /\ UNCHANGED <<call, heap, result>>

(* validate, for an array of primitives: every element is tried. *)
ElementError(f, i) == <<f.name, i - 1>>

FromArray ==
  /\ ValidatesField("array")
  /\ LET value == [i \in 1..Len(Elements[Here]) |-> JsonValue[Current.type][Elements[Here][i]]]
         wrong == {i \in 1..Len(Elements[Here]) : value[i] \notin Current.accepts}
     IN  IF Shape[Here] # "array" THEN Reject(ErrorAt(<<Current.name>>))
         ELSE IF wrong = {}       THEN Store(Array(value))
         ELSE Reject([k \in {ElementError(Current, i) : i \in wrong} |-> Top.path])
  /\ UNCHANGED <<call, heap, result>>

(* validate, for an embedded object: Validate is called on whatever node   *)
(* is there, with no URL parameters.                                       *)
EnterObject ==
  /\ ValidatesField("object")
  /\ stack' = Append(stack, Frame(Current.embedded, Here, <<>>, Append(Top.path, <<Current.name>>)))
  /\ UNCHANGED <<call, heap, result>>

(* validate, for an array of objects, one element at a time. *)
NotAnArray ==
  /\ ValidatesField("objects")
  /\ Shape[Here] # "array"
  /\ Reject(ErrorAt(<<Current.name>>))
  /\ UNCHANGED <<call, heap, result>>

EnterElement ==
  /\ ValidatesField("objects")
  /\ Shape[Here] = "array"
  /\ Top.elem < Len(Elements[Here])
  /\ LET element == Elements[Here][Top.elem + 1]
         key     == <<Current.name, Top.elem>>
     IN  IF Shape[element] = "object"
         THEN stack' = Append(stack, Frame(Current.embedded, element, <<>>, Append(Top.path, key)))
         ELSE SetTop([Top EXCEPT !.elemErrs = Over(ErrorAt(key), @), !.elem = @ + 1])
  /\ UNCHANGED <<call, heap, result>>

\* Mutant: the values collected for this array are still there for the next one.
AfterArrayKept == [Top EXCEPT !.next = @ + 1, !.elem = 0, !.elemErrs = EmptyMap]

AfterArray == [Top EXCEPT !.next = @ + 1, !.elem = 0, !.made = <<>>, !.elemErrs = EmptyMap]

EndArray ==
  /\ ValidatesField("objects")
  /\ Shape[Here] = "array"
  /\ Top.elem = Len(Elements[Here])
  /\ IF DOMAIN Top.elemErrs = {}
     THEN SetTop([AfterArray EXCEPT !.data = Over(Single(Current.name, Objects(Top.made)), @)])
     ELSE SetTop([AfterArray EXCEPT !.errs = Over(Top.elemErrs, @)])
  /\ UNCHANGED <<call, heap, result>>

(* All fields are done.  A lenient schema adds the URL parameters that are *)
(* not yet in the object; unknown JSON keys are dropped.                   *)
Finish ==
  /\ stack # <<>>
  /\ Top.next = Len(FieldsOf[Top.schema]) + 1
  /\ LET url   == UrlPair(Top.maps)
         extra == [k \in (IF Top.schema \in Lenient THEN DOMAIN url ELSE {}) |-> Text(url[k])]
     IN  IF DOMAIN Top.errs = {}
         THEN /\ heap' = Append(heap, [schema |-> Top.schema, node |-> Top.node,
                                       maps |-> Top.maps, data |-> Over(Top.data, extra)])
              /\ Return(TRUE, Len(heap) + 1, EmptyMap)
         ELSE /\ heap' = heap
              /\ Return(FALSE, 0, Top.errs)
  /\ UNCHANGED call

Next ==
  \/ InvalidJson \/ FailFirst \/ Begin
  \/ Missing \/ FromUrl \/ FromScalar \/ FromArray
  \/ EnterObject \/ NotAnArray \/ EnterElement \/ EndArray
  \/ Finish

Spec == Init /\ [][Next]_vars

(* The goroutine that runs the handler is scheduled. *)
FairSpec == Spec /\ WF_vars(Next)

-----------------------------------------------------------------------------
(* Type correctness of the four variables. *)
ErrorKeys == {<<k>> : k \in Keys} \cup (Keys \X Nat)

ErrorMap(e) == PartialMap(e, ErrorKeys, Seq(ErrorKeys))

IsFrame(f) ==
  f = [schema |-> f.schema, node |-> f.node, maps |-> f.maps, path |-> f.path,
       next |-> f.next, data |-> f.data, errs |-> f.errs,
       elem |-> f.elem, made |-> f.made, elemErrs |-> f.elemErrs]

FrameType(f) ==
  /\ IsFrame(f)
  /\ CallType(f)
  /\ f.path \in Seq(ErrorKeys)
  /\ f.next \in 0..(Len(FieldsOf[f.schema]) + 1)
  /\ PartialMap(f.data, Names(f.schema), Stored)
  /\ ErrorMap(f.errs)
  /\ f.elem \in Nat /\ f.made \in Seq(Nat)
  /\ ErrorMap(f.elemErrs)

ObjectType(o) ==
  /\ o = [schema |-> o.schema, node |-> o.node, maps |-> o.maps, data |-> o.data]
  /\ CallType(o)
  /\ PartialMap(o.data, Keys, Stored)

TypeOK ==
  /\ CallType(call)
  /\ IsSequence(stack) /\ \A i \in DOMAIN stack : FrameType(stack[i])
  /\ IsSequence(heap) /\ \A i \in DOMAIN heap : ObjectType(heap[i])
  /\ result.done \in BOOLEAN /\ result.ok \in BOOLEAN /\ result.vo \in Nat
  /\ ErrorMap(result.errs)

(* v is what the node m of the document stands for in the field f: the    *)
(* converted and accepted scalar, one value for each element of the array  *)
(* in its order, or the object of the heap h built from this very node by  *)
(* the field's own schema.                                                 *)
BuiltFrom(h, id, f, m) ==
  /\ id \in DOMAIN h
  /\ h[id].schema = f.embedded
  /\ h[id].node = m
  /\ h[id].maps = <<>>

Represents(h, v, f, m) ==
  /\ v.kind = f.kind
  /\ f.kind \in {"array", "objects"} => Shape[m] = "array" /\ Len(v.of) = Len(Elements[m])
  /\ f.kind = "scalar" => v = Scalar(JsonValue[f.type][m]) /\ v.of[1] \in f.accepts
  /\ f.kind = "array" => \A i \in DOMAIN Elements[m] :
       v.of[i] = JsonValue[f.type][Elements[m][i]] /\ v.of[i] \in f.accepts
  /\ f.kind = "object" => Len(v.of) = 1 /\ BuiltFrom(h, v.of[1], f, m)
  /\ f.kind = "objects" => \A i \in DOMAIN Elements[m] : BuiltFrom(h, v.of[i], f, Elements[m][i])

(* What data holds for the field f of a call on node n with these maps:    *)
(* the document comes first, then the URL, and a required field is there.  *)
Holds(h, data, f, n, maps) ==
  /\ f.name \in DOMAIN data => f.name \in DOMAIN Member[n] \cup UrlKeys(maps)
  /\ f.name \in DOMAIN Member[n] =>
       f.name \in DOMAIN data /\ Represents(h, data[f.name], f, Member[n][f.name])
  /\ f.name \in UrlKeys(maps) \ DOMAIN Member[n] =>
       /\ f.name \in DOMAIN data
       /\ data[f.name] = Scalar(TextValue[f.type][UrlPair(maps)[f.name]])
       /\ data[f.name].of[1] \in f.accepts
  /\ f.required => f.name \in DOMAIN data

FaithfulObject(h, vo) ==
  /\ \A i \in DOMAIN FieldsOf[vo.schema] :
       Holds(h, vo.data, FieldsOf[vo.schema][i], vo.node, vo.maps)
  /\ DOMAIN vo.data \subseteq Names(vo.schema)
                            \cup (IF vo.schema \in Lenient THEN UrlKeys(vo.maps) ELSE {})
  /\ vo.schema \in Lenient => \A k \in UrlKeys(vo.maps) \ Names(vo.schema) :
       k \in DOMAIN vo.data /\ vo.data[k] = Text(UrlPair(vo.maps)[k])

(* Every ValueObject that a call has returned holds exactly what its node  *)
(* of the document and the call's URL parameters say: every field present  *)
(* in them, converted and accepted, at every depth; no required field is   *)
(* missing; nothing unknown gets in except, for a lenient schema, the URL  *)
(* parameters, all of them and as they are.                                *)
Faithful == \A o \in DOMAIN heap : FaithfulObject(heap, heap[o])

(* README, "Type-Safe Access": what is stored under a field has the        *)
(* field's kind.                                                           *)
TypeSafe ==
  \A o \in DOMAIN heap : \A i \in DOMAIN FieldsOf[heap[o].schema] :
    LET f == FieldsOf[heap[o].schema][i]
    IN  f.name \in DOMAIN heap[o].data => heap[o].data[f.name].kind = f.kind

(* vo.go:370, "Each field in the embeddedObject Schema will be prefixed    *)
(* with the object's name": so no error can take the place of another, and *)
(* one that a call has recorded stays in its map, with the place it arose  *)
(* in, until the call returns.                                             *)
ErrorsKept ==
  [][\A i \in DOMAIN stack \cap DOMAIN stack' : \A k \in DOMAIN stack[i].errs :
       k \in DOMAIN stack'[i].errs /\ stack'[i].errs[k] = stack[i].errs[k]]_vars

(* The call returns: the recursion over the document and the loops over    *)
(* fields and elements end.                                                *)
Termination == <>(result.done)

=============================================================================
