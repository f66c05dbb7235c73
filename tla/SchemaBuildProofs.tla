-------------------------- MODULE SchemaBuildProofs --------------------------
(***************************************************************************)
(* Proofs about the construction of schemas for any names, documents and   *)
(* bounds and any number of callers.                                       *)
(***************************************************************************)
EXTENDS SchemaBuild, TLAPS

(* What no step takes back: pointers stay valid, names stay, and fields    *)
(* and schemas only come to ask for less.                                  *)
Grows ==
  /\ DOMAIN fields \subseteq DOMAIN fields'
  /\ \A f \in DOMAIN fields :
       /\ fields'[f].name = fields[f].name /\ fields'[f].object = fields[f].object
       /\ fields'[f].embedded = fields[f].embedded
       /\ fields'[f].required => fields[f].required
  /\ DOMAIN schemas \subseteq DOMAIN schemas'
  /\ \A s \in DOMAIN schemas :
       /\ schemas'[s].fields = schemas[s].fields /\ schemas'[s].extends = schemas[s].extends
       /\ schemas[s].lenient => schemas'[s].lenient

(* The fields of an extension are those of its two parts, in their order.  *)
Extensions ==
  \A x \in DOMAIN schemas : schemas[x].extends # <<>> =>
    /\ schemas[x].extends[1] \in DOMAIN schemas /\ schemas[x].extends[2] \in DOMAIN schemas
    /\ schemas[x].fields
         = schemas[schemas[x].extends[1]].fields \o schemas[schemas[x].extends[2]].fields

Given(r) == r.document.json \cup r.document.url

(* What a call has seen of its schema so far.                              *)
Progress(r) ==
  /\ Required(r.schema) \subseteq r.began.required
  /\ r.began.lenient => schemas[r.schema].lenient
  /\ r.failed => ~Accepts(r.began, r.schema, r.document)
  /\ ~r.failed =>
       /\ \A k \in r.document.url \ r.url :
            schemas[r.schema].lenient \/ k \in FieldNames(r.schema) \ ObjectNames(r.schema)
       /\ \A k \in r.document.json \ r.json :
            k \notin r.document.url /\ (schemas[r.schema].lenient \/ k \in FieldNames(r.schema))
       /\ \A i \in DOMAIN schemas[r.schema].fields :
            i < r.next /\ fields[schemas[r.schema].fields[i]].required
            => NameOf(schemas[r.schema].fields[i]) \in Given(r)
  /\ r.pc = "keys" => r.next = 1
  /\ r.pc = "fields" => r.url = {} /\ r.json = {}

Answer(r) ==
  /\ r.pc = "refused"  => ~Accepts(r.began, r.schema, r.document)
  /\ r.pc = "accepted" =>
       /\ Accepts(Says(r.schema), r.schema, r.document)
       /\ r.extra = r.document.url \ FieldNames(r.schema)

CallInv(r) == CallType(r) /\ (r.pc \in Running => Progress(r)) /\ Answer(r)

BuildInv ==
  /\ fields \in Seq(Field)
  /\ schemas \in Seq(Schema)
  /\ \A s \in DOMAIN schemas :
       /\ \A i \in DOMAIN schemas[s].fields : schemas[s].fields[i] \in DOMAIN fields
       /\ NoDuplicates(schemas[s].fields)
  /\ \A f \in DOMAIN fields : fields[f].object => fields[f].embedded \in DOMAIN schemas
  /\ Extensions

CallsInv == DOMAIN calls = Callers /\ \A c \in Callers : CallInv(calls[c])

Inv == BuildInv /\ CallsInv

-----------------------------------------------------------------------------
(* What grows keeps. *)

LEMMA SameNames ==
  ASSUME BuildInv, Grows, NEW s \in DOMAIN schemas
  PROVE  /\ FieldNames(s)' = FieldNames(s)
         /\ ObjectNames(s)' = ObjectNames(s)
         /\ Required(s)' \subseteq Required(s)
         /\ schemas[s].fields \in Seq(Nat)
         /\ schemas'[s].fields = schemas[s].fields
<1>1. /\ schemas'[s].fields = schemas[s].fields
      /\ \A i \in DOMAIN schemas[s].fields : schemas[s].fields[i] \in DOMAIN fields
  BY DEF BuildInv, Grows
<1>2. \A i \in DOMAIN schemas[s].fields :
        /\ fields'[schemas[s].fields[i]].name = fields[schemas[s].fields[i]].name
        /\ fields'[schemas[s].fields[i]].object = fields[schemas[s].fields[i]].object
        /\ fields'[schemas[s].fields[i]].required => fields[schemas[s].fields[i]].required
  BY <1>1 DEF Grows
<1>3. FieldNames(s)' = FieldNames(s)
  BY <1>1, <1>2 DEF FieldNames, NamesOf, NameOf
<1>4. ObjectNames(s)' = ObjectNames(s)
  BY <1>1, <1>2 DEF ObjectNames, NameOf
<1>5. Required(s)' \subseteq Required(s)
  BY <1>1, <1>2 DEF Required, NameOf
<1>6. schemas[s].fields \in Seq(Nat)
  <2>1. schemas[s] \in Schema
    BY DEF BuildInv
  <2> QED
    BY <2>1 DEF Schema
<1> QED
  BY <1>1, <1>3, <1>4, <1>5, <1>6

LEMMA SameAccepts ==
  ASSUME BuildInv, Grows, NEW s \in DOMAIN schemas, NEW says, NEW d
  PROVE  Accepts(says, s, d)' <=> Accepts(says, s, d)
BY SameNames DEF Accepts

(* A call that does not move keeps its part of the invariant. *)
LEMMA CallKept ==
  ASSUME BuildInv, Grows, NEW r, CallInv(r)
  PROVE  CallInv(r)'
<1>1. CASE r.pc = "idle"
  BY <1>1 DEF CallInv, CallType, Running, Answer
<1>2. CASE r.pc # "idle"
  <2>1. r.schema \in DOMAIN schemas /\ r.schema \in DOMAIN schemas'
    BY <1>2 DEF CallInv, CallType, Grows
  <2>2. CallType(r)'
    BY <1>2, <2>1, SameNames DEF CallInv, CallType
  <2>3. \A i \in DOMAIN schemas[r.schema].fields :
          LET f == schemas[r.schema].fields[i]
          IN  fields'[f].name = fields[f].name /\ (fields'[f].required => fields[f].required)
    BY <2>1 DEF BuildInv, Grows
  <2>4. ASSUME r.pc \in Running PROVE Progress(r)'
    <3>1. Progress(r)
      BY <2>4 DEF CallInv
    <3>2. schemas[r.schema].lenient => schemas'[r.schema].lenient
      BY <2>1 DEF Grows
    <3>3. r.failed => ~Accepts(r.began, r.schema, r.document)'
      BY <2>1, <3>1, SameAccepts DEF Progress
    <3> QED
      BY <2>1, <2>3, <3>1, <3>2, <3>3, SameNames DEF Progress, NameOf, Given
  <2>5. Answer(r)'
    <3>1. Says(r.schema)'.required \subseteq Says(r.schema).required
      BY <2>1, SameNames DEF Says
    <3>2. Says(r.schema).lenient => Says(r.schema)'.lenient
      BY <2>1 DEF Says, Grows
    <3>3. Accepts(Says(r.schema), r.schema, r.document)
            => Accepts(Says(r.schema), r.schema, r.document)'
      BY <2>1, <3>1, <3>2, SameNames DEF Accepts
    <3> QED
      BY <2>1, <3>3, SameNames, SameAccepts DEF CallInv, Answer
  <2> QED
    BY <2>2, <2>4, <2>5 DEF CallInv
<1> QED
  BY <1>1, <1>2

LEMMA CallsKept ==
  ASSUME Inv, Grows, UNCHANGED calls
  PROVE  CallsInv'
BY CallKept DEF Inv, CallsInv

-----------------------------------------------------------------------------
(* Construction keeps the invariant, and only grows. *)

LEMMA InitInv == Init => Inv
<1> SUFFICES ASSUME Init PROVE Inv
  OBVIOUS
<1>1. BuildInv
  BY DEF Init, BuildInv, Extensions
<1>2. CallsInv
  BY DEF Init, CallsInv, CallInv, CallType, Answer, Running
<1> QED
  BY <1>1, <1>2 DEF Inv

(* No change of a schema or a field at all. *)
LEMMA NothingBuilt ==
  ASSUME BuildInv, UNCHANGED <<fields, schemas>>
  PROVE  BuildInv' /\ Grows
<1>1. Grows
  BY DEF Grows
<1>2. BuildInv'
  BY DEF BuildInv, Extensions, NoDuplicates, NameOf
<1> QED
  BY <1>1, <1>2

LEMMA FieldBuilt ==
  ASSUME BuildInv, NEW g \in Field, g.object => g.embedded \in DOMAIN schemas,
         fields' = Append(fields, g), UNCHANGED schemas
  PROVE  BuildInv' /\ Grows
<1>1. /\ fields' \in Seq(Field) /\ DOMAIN fields \subseteq DOMAIN fields'
      /\ \A f \in DOMAIN fields : fields'[f] = fields[f]
      /\ \A f \in DOMAIN fields' \ DOMAIN fields : fields'[f] = g
  BY DEF BuildInv
<1>2. Grows
  BY <1>1 DEF Grows
<1>3. \A s \in DOMAIN schemas' : NoDuplicates(schemas[s].fields)'
  BY <1>1 DEF BuildInv, NoDuplicates, NameOf
<1>4. \A f \in DOMAIN fields' : fields'[f].object => fields'[f].embedded \in DOMAIN schemas'
  BY <1>1 DEF BuildInv
<1> QED
  BY <1>1, <1>2, <1>3, <1>4 DEF BuildInv, Extensions

LEMMA SchemaBuilt ==
  ASSUME BuildInv, NEW list \in Seq(DOMAIN fields), NEW lenient \in BOOLEAN, NEW extends \in Seq(Nat),
         NoDuplicates(list), NewSchema(list, lenient, extends), UNCHANGED fields,
         extends # <<>> =>
           /\ extends[1] \in DOMAIN schemas /\ extends[2] \in DOMAIN schemas
           /\ list = schemas[extends[1]].fields \o schemas[extends[2]].fields
  PROVE  BuildInv' /\ Grows
<1> DEFINE new == [fields |-> list, lenient |-> lenient, extends |-> extends]
<1>1. fields \in Seq(Field) /\ DOMAIN fields \subseteq Nat
  BY DEF BuildInv
<1>2. list \in Seq(Nat)
  BY <1>1
<1>3. new \in Schema
  BY <1>2 DEF Schema
<1>4. schemas' = Append(schemas, new) /\ schemas \in Seq(Schema)
  BY DEF NewSchema, BuildInv
<1>5. new.fields = list /\ new.extends = extends
  OBVIOUS
<1> HIDE DEF new
<1>6. /\ schemas' \in Seq(Schema) /\ DOMAIN schemas \subseteq DOMAIN schemas'
      /\ \A s \in DOMAIN schemas : schemas'[s] = schemas[s]
      /\ \A s \in DOMAIN schemas' \ DOMAIN schemas : schemas'[s] = new
  BY <1>3, <1>4
<1>7. Grows
  BY <1>6 DEF Grows
<1>8. \A s \in DOMAIN schemas' :
        /\ \A i \in DOMAIN schemas'[s].fields : schemas'[s].fields[i] \in DOMAIN fields'
        /\ NoDuplicates(schemas'[s].fields)
  <2> SUFFICES ASSUME NEW s \in DOMAIN schemas'
               PROVE  /\ \A i \in DOMAIN schemas'[s].fields : schemas'[s].fields[i] \in DOMAIN fields'
                      /\ NoDuplicates(schemas'[s].fields)
    OBVIOUS
  <2>1. CASE s \in DOMAIN schemas
    BY <1>6, <2>1 DEF BuildInv
  <2>2. CASE s \notin DOMAIN schemas
    BY <1>5, <1>6, <2>2
  <2> QED
    BY <2>1, <2>2
<1>9. Extensions'
  <2> SUFFICES ASSUME NEW x \in DOMAIN schemas', schemas'[x].extends # <<>>
               PROVE  /\ schemas'[x].extends[1] \in DOMAIN schemas'
                      /\ schemas'[x].extends[2] \in DOMAIN schemas'
                      /\ schemas'[x].fields = schemas'[schemas'[x].extends[1]].fields
                                                \o schemas'[schemas'[x].extends[2]].fields
    BY DEF Extensions
  <2>1. CASE x \in DOMAIN schemas
    <3>1. schemas'[x] = schemas[x]
      BY <1>6, <2>1
    <3>2. /\ schemas[x].extends[1] \in DOMAIN schemas /\ schemas[x].extends[2] \in DOMAIN schemas
          /\ schemas[x].fields = schemas[schemas[x].extends[1]].fields
                                   \o schemas[schemas[x].extends[2]].fields
      BY <2>1, <3>1 DEF BuildInv, Extensions
    <3>3. /\ schemas'[schemas[x].extends[1]] = schemas[schemas[x].extends[1]]
          /\ schemas'[schemas[x].extends[2]] = schemas[schemas[x].extends[2]]
      BY <1>6, <3>2
    <3>4. schemas[x].extends[1] \in DOMAIN schemas' /\ schemas[x].extends[2] \in DOMAIN schemas'
      BY <1>6, <3>2
    <3> QED
      BY <3>1, <3>2, <3>3, <3>4
  <2>2. CASE x \notin DOMAIN schemas
    BY <1>5, <1>6, <2>2
  <2> QED
    BY <2>1, <2>2
<1>10. \A s \in DOMAIN schemas' : NoDuplicates(schemas[s].fields)'
  BY <1>8 DEF NoDuplicates, NameOf
<1> QED
  BY <1>1, <1>6, <1>7, <1>8, <1>9, <1>10 DEF BuildInv

LEMMA TraitInv ==
  ASSUME BuildInv, NEW n \in Names, NEW o \in BOOLEAN, NEW e \in Nat, NEW v,
         o => e \in DOMAIN schemas, Trait(n, o, e, v)
  PROVE  BuildInv' /\ Grows
<1> DEFINE g == [name |-> n, required |-> TRUE, object |-> o, embedded |-> e]
<1>1. CASE n \in Malformed \/ ~IsInjective(v)
  BY <1>1, NothingBuilt DEF Trait, Panic, vars
<1>2. CASE ~(n \in Malformed \/ ~IsInjective(v))
  <2>1. g \in Field /\ (g.object => g.embedded \in DOMAIN schemas)
    BY <1>2 DEF Field
  <2>2. fields' = Append(fields, g) /\ UNCHANGED schemas
    BY <1>2 DEF Trait
  <2> HIDE DEF g
  <2> QED
    BY <2>1, <2>2, FieldBuilt
<1> QED
  BY <1>1, <1>2

LEMMA WithFieldsInv ==
  ASSUME BuildInv, NEW list \in Seq(DOMAIN fields), WithFields(list)
  PROVE  BuildInv' /\ Grows
<1>1. CASE NoDuplicates(list)
  <2>1. NewSchema(list, FALSE, <<>>) /\ UNCHANGED fields
    BY <1>1 DEF WithFields
  <2>2. <<>> \in Seq(Nat)
    OBVIOUS
  <2> QED
    BY <1>1, <2>1, <2>2, SchemaBuilt
<1>2. CASE ~NoDuplicates(list)
  BY <1>2, NothingBuilt DEF WithFields, Panic, vars
<1> QED
  BY <1>1, <1>2

LEMMA SeqInto ==
  ASSUME NEW S, NEW q \in Seq(Nat), \A i \in DOMAIN q : q[i] \in S
  PROVE  q \in Seq(S)
OBVIOUS

LEMMA ExtendInv ==
  ASSUME BuildInv, NEW s \in DOMAIN schemas, NEW t \in DOMAIN schemas, Extend(s, t)
  PROVE  BuildInv' /\ Grows
<1> DEFINE list == schemas[s].fields \o schemas[t].fields
           l    == schemas[s].lenient \/ schemas[t].lenient
<1>1. schemas[s] \in Schema /\ schemas[t] \in Schema /\ s \in Nat /\ t \in Nat
  BY DEF BuildInv
<1>2. schemas[s].fields \in Seq(DOMAIN fields) /\ schemas[t].fields \in Seq(DOMAIN fields)
  <2>1. schemas[s].fields \in Seq(Nat) /\ schemas[t].fields \in Seq(Nat)
    BY <1>1 DEF Schema
  <2>2. /\ \A i \in DOMAIN schemas[s].fields : schemas[s].fields[i] \in DOMAIN fields
        /\ \A i \in DOMAIN schemas[t].fields : schemas[t].fields[i] \in DOMAIN fields
    BY DEF BuildInv
  <2> QED
    BY <2>1, <2>2, SeqInto
<1>3. list \in Seq(DOMAIN fields) /\ l \in BOOLEAN /\ <<s, t>> \in Seq(Nat)
  BY <1>1, <1>2 DEF Schema
<1>4. CASE NoDuplicates(list)
  <2>1. NewSchema(list, l, <<s, t>>) /\ UNCHANGED fields
    BY <1>4 DEF Extend
  <2>2. <<s, t>>[1] = s /\ <<s, t>>[2] = t
    OBVIOUS
  <2>3. /\ <<s, t>>[1] \in DOMAIN schemas /\ <<s, t>>[2] \in DOMAIN schemas
        /\ list = schemas[<<s, t>>[1]].fields \o schemas[<<s, t>>[2]].fields
    BY <2>2
  <2> HIDE DEF list, l
  <2> QED
    BY <1>3, <1>4, <2>1, <2>3, SchemaBuilt
<1>5. CASE ~NoDuplicates(list)
  BY <1>5, NothingBuilt DEF Extend, Panic, vars
<1> QED
  BY <1>4, <1>5

LEMMA OptionalInv ==
  ASSUME BuildInv, NEW f \in DOMAIN fields, Optional(f)
  PROVE  BuildInv' /\ Grows
<1>1. fields \in Seq(Field) /\ fields[f] \in Field
  BY DEF BuildInv
<1> DEFINE new == [fields[f] EXCEPT !.required = FALSE]
<1>a. /\ new \in Field /\ new.name = fields[f].name /\ new.object = fields[f].object
      /\ new.embedded = fields[f].embedded /\ new.required = FALSE
  BY <1>1 DEF Field
<1>b. fields' = [fields EXCEPT ![f] = new]
  BY DEF Optional
<1> HIDE DEF new
<1>2. /\ fields' \in Seq(Field) /\ DOMAIN fields' = DOMAIN fields
      /\ \A g \in DOMAIN fields :
           /\ fields'[g].name = fields[g].name /\ fields'[g].object = fields[g].object
           /\ fields'[g].embedded = fields[g].embedded
           /\ fields'[g].required => fields[g].required
  BY <1>1, <1>a, <1>b
<1>3. Grows
  BY <1>2 DEF Optional, Grows
<1>4. \A s \in DOMAIN schemas : NoDuplicates(schemas[s].fields)'
  BY <1>2 DEF Optional, BuildInv, NoDuplicates, NameOf
<1> QED
  BY <1>2, <1>3, <1>4 DEF Optional, BuildInv, Extensions

LEMMA AllowUnknownFieldsInv ==
  ASSUME BuildInv, NEW s \in DOMAIN schemas, AllowUnknownFields(s)
  PROVE  BuildInv' /\ Grows
<1>1. schemas \in Seq(Schema) /\ schemas[s] \in Schema
  BY DEF BuildInv
<1> DEFINE new == [schemas[s] EXCEPT !.lenient = TRUE]
<1>a. /\ new \in Schema /\ new.fields = schemas[s].fields
      /\ new.extends = schemas[s].extends /\ new.lenient = TRUE
  BY <1>1 DEF Schema
<1>b. schemas' = [schemas EXCEPT ![s] = new]
  BY DEF AllowUnknownFields
<1> HIDE DEF new
<1>2. /\ schemas' \in Seq(Schema) /\ DOMAIN schemas' = DOMAIN schemas
      /\ \A t \in DOMAIN schemas :
           /\ schemas'[t].fields = schemas[t].fields /\ schemas'[t].extends = schemas[t].extends
           /\ schemas[t].lenient => schemas'[t].lenient
  BY <1>1, <1>a, <1>b
<1>3. Grows
  BY <1>2 DEF AllowUnknownFields, Grows
<1>4. \A t \in DOMAIN schemas' : NoDuplicates(schemas[t].fields)'
  BY <1>2 DEF AllowUnknownFields, BuildInv, NoDuplicates, NameOf
<1>5. Extensions'
  <2> SUFFICES ASSUME NEW x \in DOMAIN schemas', schemas'[x].extends # <<>>
               PROVE  /\ schemas'[x].extends[1] \in DOMAIN schemas'
                      /\ schemas'[x].extends[2] \in DOMAIN schemas'
                      /\ schemas'[x].fields = schemas'[schemas'[x].extends[1]].fields
                                                \o schemas'[schemas'[x].extends[2]].fields
    BY DEF Extensions
  <2>1. schemas'[x].fields = schemas[x].fields /\ schemas'[x].extends = schemas[x].extends
    BY <1>2
  <2>2. /\ schemas[x].extends[1] \in DOMAIN schemas /\ schemas[x].extends[2] \in DOMAIN schemas
        /\ schemas[x].fields = schemas[schemas[x].extends[1]].fields
                                 \o schemas[schemas[x].extends[2]].fields
    BY <1>2, <2>1 DEF BuildInv, Extensions
  <2>3. /\ schemas'[schemas[x].extends[1]].fields = schemas[schemas[x].extends[1]].fields
        /\ schemas'[schemas[x].extends[2]].fields = schemas[schemas[x].extends[2]].fields
    BY <1>2, <2>2
  <2> QED
    BY <1>2, <2>1, <2>2, <2>3
<1> QED
  BY <1>2, <1>3, <1>4, <1>5 DEF AllowUnknownFields, BuildInv

LEMMA ConstructInv ==
  ASSUME BuildInv, Construct
  PROVE  BuildInv' /\ Grows /\ UNCHANGED calls
<1>1. CASE \E n \in Names, vfs \in Arguments : NewField(n, vfs)
  <2> PICK n \in Names, vfs \in Arguments : NewField(n, vfs)
    BY <1>1
  <2>1. Trait(n, FALSE, NoSchema, vfs) /\ NoSchema \in Nat
    BY DEF NewField, NoSchema
  <2>2. UNCHANGED calls
    BY <2>1 DEF Trait, Panic, vars
  <2> QED
    BY <2>1, <2>2, TraitInv
<1>2. CASE \E n \in Names, s \in {NoSchema} \cup DOMAIN schemas : ObjectField(n, s)
  <2> PICK n \in Names, s \in {NoSchema} \cup DOMAIN schemas : ObjectField(n, s)
    BY <1>2
  <2>1. CASE s = NoSchema
    BY <2>1, NothingBuilt DEF ObjectField, Panic, vars
  <2>2. CASE s # NoSchema
    <3>1. s \in DOMAIN schemas /\ s \in Nat
      BY <2>2 DEF BuildInv
    <3>2. Trait(n, TRUE, s, <<>>)
      BY <2>2 DEF ObjectField
    <3>3. UNCHANGED calls
      BY <3>2 DEF Trait, Panic, vars
    <3> QED
      BY <3>1, <3>2, <3>3, TraitInv
  <2> QED
    BY <2>1, <2>2
<1>3. CASE \E list \in SeqOf(DOMAIN fields, MaxList) : WithFields(list)
  <2> PICK list \in SeqOf(DOMAIN fields, MaxList) : WithFields(list)
    BY <1>3
  <2>1. list \in Seq(DOMAIN fields)
    BY BuildAssumption DEF SeqOf
  <2>2. UNCHANGED calls
    BY DEF WithFields, Panic, vars
  <2> QED
    BY <2>1, <2>2, WithFieldsInv
<1>4. CASE \E s, t \in DOMAIN schemas : Extend(s, t)
  <2> PICK s \in DOMAIN schemas, t \in DOMAIN schemas : Extend(s, t)
    BY <1>4
  <2>1. UNCHANGED calls
    BY DEF Extend, Panic, vars
  <2> QED
    BY <2>1, ExtendInv
<1> QED
  BY <1>1, <1>2, <1>3, <1>4 DEF Construct

LEMMA RelaxInv ==
  ASSUME BuildInv, Relax
  PROVE  BuildInv' /\ Grows /\ UNCHANGED calls
<1>1. CASE \E f \in DOMAIN fields : Optional(f)
  BY <1>1, OptionalInv DEF Optional
<1>2. CASE \E s \in DOMAIN schemas : AllowUnknownFields(s)
  BY <1>2, AllowUnknownFieldsInv DEF AllowUnknownFields
<1> QED
  BY <1>1, <1>2 DEF Relax

-----------------------------------------------------------------------------
(* The steps of a call. *)

LEMMA OwnStep ==
  ASSUME Inv, NEW c \in Callers, NEW r, CallInv(r), SetCall(c, r)
  PROVE  Inv'
<1>1. BuildInv' /\ Grows
  BY NothingBuilt DEF SetCall, Inv, BuildInv
<1>2. CallsInv'
  <2>1. DOMAIN calls' = Callers /\ \A d \in Callers : calls'[d] = IF d = c THEN r ELSE calls[d]
    BY DEF SetCall, Inv, CallsInv
  <2>2. \A d \in Callers : CallInv(calls[d])
    BY DEF Inv, CallsInv
  <2>3. \A d \in Callers : CallInv(calls'[d])
    BY <2>1, <2>2
  <2>4. ASSUME NEW d \in Callers, NEW q, q = calls'[d] PROVE CallInv(q)'
    BY <1>1, <2>3, <2>4, CallKept DEF Inv
  <2> QED
    BY <2>1, <2>4 DEF CallsInv
<1> QED
  BY <1>1, <1>2 DEF Inv

LEMMA ValidateInv ==
  ASSUME Inv, NEW c \in Callers, NEW s \in DOMAIN schemas, NEW d \in Documents, Validate(c, s, d)
  PROVE  Inv'
<1> DEFINE q == [pc |-> "keys", schema |-> s, document |-> d, url |-> d.url, json |-> d.json,
                 next |-> 1, failed |-> FALSE, extra |-> {}, began |-> Says(s)]
<1>1. SetCall(c, q)
  BY DEF Validate
<1>2. /\ IsCall(q) /\ q.pc = "keys" /\ q.schema = s /\ q.document = d /\ q.url = d.url
      /\ q.json = d.json /\ q.next = 1 /\ q.failed = FALSE /\ q.began = Says(s)
  BY DEF IsCall
<1> HIDE DEF q
<1>3. schemas[s].fields \in Seq(Nat)
  <2>1. schemas[s] \in Schema
    BY DEF Inv, BuildInv
  <2> QED
    BY <2>1 DEF Schema
<1>4. CallType(q)
  <2>1. 1 \in 1..Len(schemas[s].fields) + 1
    BY <1>3
  <2> QED
    BY <1>2, <2>1 DEF CallType, Running
<1>5. Progress(q)
  BY <1>2, <1>3 DEF Progress, Says
<1>6. Answer(q)
  BY <1>2 DEF Answer
<1> QED
  BY <1>1, <1>4, <1>5, <1>6, OwnStep DEF CallInv

(* The one record with these values. *)
One(pc, schema, document, url, json, next, failed, extra, began) ==
  [pc : {pc}, schema : {schema}, document : {document}, url : {url}, json : {json},
   next : {next}, failed : {failed}, extra : {extra}, began : {began}]

LEMMA AsOne ==
  ASSUME NEW r, IsCall(r)
  PROVE  r \in One(r.pc, r.schema, r.document, r.url, r.json, r.next, r.failed, r.extra, r.began)
BY DEF IsCall, One

LEMMA OfOne ==
  ASSUME NEW pc, NEW schema, NEW document, NEW url, NEW json, NEW next, NEW failed, NEW extra,
         NEW began, NEW q \in One(pc, schema, document, url, json, next, failed, extra, began)
  PROVE  /\ IsCall(q) /\ q.pc = pc /\ q.schema = schema /\ q.document = document
         /\ q.url = url /\ q.json = json /\ q.next = next /\ q.failed = failed
         /\ q.extra = extra /\ q.began = began
<1>1. /\ q.pc = pc /\ q.schema = schema /\ q.document = document /\ q.url = url
      /\ q.json = json /\ q.next = next /\ q.failed = failed /\ q.extra = extra
      /\ q.began = began
  BY DEF One
<1>2. IsCall(q)
  BY DEF IsCall, One
<1> QED
  BY <1>1, <1>2

LEMMA UrlKeyInv ==
  ASSUME Inv, NEW c \in Callers, NEW k \in Names, UrlKey(c, k)
  PROVE  Inv'
<1> DEFINE r == calls[c]
           wrong == /\ ~schemas[r.schema].lenient
                    /\ k \notin FieldNames(r.schema) \ ObjectNames(r.schema)
           failed == r.failed \/ wrong
           q == [r EXCEPT !.url = @ \ {k}, !.failed = failed]
<1>1. SetCall(c, q) /\ r.pc = "keys" /\ k \in r.url
  BY DEF UrlKey
<1>2. CallType(r) /\ Progress(r)
  BY <1>1 DEF Inv, CallsInv, CallInv, Running
<1>3. IsCall(r) /\ k \in r.document.url
  BY <1>1, <1>2 DEF CallType
<1>4. wrong => ~Accepts(r.began, r.schema, r.document)
  BY <1>2, <1>3 DEF Progress, Accepts
<1>5. wrong \in BOOLEAN /\ (~wrong => \/ schemas[r.schema].lenient
                                      \/ k \in FieldNames(r.schema) \ ObjectNames(r.schema))
  OBVIOUS
<1>6. failed \in BOOLEAN /\ (failed <=> r.failed \/ wrong)
  BY <1>2 DEF CallType
<1> HIDE DEF r, wrong, failed
<1>7. q \in One(r.pc, r.schema, r.document, r.url \ {k}, r.json, r.next, failed, r.extra, r.began)
  BY <1>3, AsOne DEF One
<1> HIDE DEF q
<1>8. /\ IsCall(q) /\ q.pc = "keys" /\ q.schema = r.schema /\ q.document = r.document
      /\ q.url = r.url \ {k} /\ q.json = r.json /\ q.next = r.next
      /\ q.failed = failed /\ q.began = r.began
  BY <1>1, <1>7, OfOne
<1>9. CallType(q)
  BY <1>1, <1>2, <1>6, <1>8 DEF CallType, Running
<1>10. Progress(q)
  BY <1>1, <1>2, <1>4, <1>5, <1>6, <1>8 DEF Progress, Given
<1>11. Answer(q)
  BY <1>8 DEF Answer
<1> QED
  BY <1>1, <1>9, <1>10, <1>11, OwnStep DEF CallInv

LEMMA JsonKeyInv ==
  ASSUME Inv, NEW c \in Callers, NEW k \in Names, JsonKey(c, k)
  PROVE  Inv'
<1> DEFINE r == calls[c]
           wrong == \/ k \in r.document.url
                    \/ ~schemas[r.schema].lenient /\ k \notin FieldNames(r.schema)
           failed == r.failed \/ wrong
           q == [r EXCEPT !.json = @ \ {k}, !.failed = failed]
<1>1. SetCall(c, q) /\ r.pc = "keys" /\ k \in r.json
  BY DEF JsonKey
<1>2. CallType(r) /\ Progress(r)
  BY <1>1 DEF Inv, CallsInv, CallInv, Running
<1>3. IsCall(r) /\ k \in r.document.json
  BY <1>1, <1>2 DEF CallType
<1>4. wrong => ~Accepts(r.began, r.schema, r.document)
  BY <1>2, <1>3 DEF Progress, Accepts
<1>5. ~wrong => /\ k \notin r.document.url
                /\ schemas[r.schema].lenient \/ k \in FieldNames(r.schema)
  OBVIOUS
<1>6. failed \in BOOLEAN /\ (failed <=> r.failed \/ wrong)
  BY <1>2 DEF CallType
<1> HIDE DEF r, wrong, failed
<1>7. q \in One(r.pc, r.schema, r.document, r.url, r.json \ {k}, r.next, failed, r.extra, r.began)
  BY <1>3, AsOne DEF One
<1> HIDE DEF q
<1>8. /\ IsCall(q) /\ q.pc = "keys" /\ q.schema = r.schema /\ q.document = r.document
      /\ q.url = r.url /\ q.json = r.json \ {k} /\ q.next = r.next
      /\ q.failed = failed /\ q.began = r.began
  BY <1>1, <1>7, OfOne
<1>9. CallType(q)
  BY <1>1, <1>2, <1>6, <1>8 DEF CallType, Running
<1>10. Progress(q)
  BY <1>1, <1>2, <1>4, <1>5, <1>6, <1>8 DEF Progress, Given
<1>11. Answer(q)
  BY <1>8 DEF Answer
<1> QED
  BY <1>1, <1>9, <1>10, <1>11, OwnStep DEF CallInv

LEMMA EndKeysInv ==
  ASSUME Inv, NEW c \in Callers, EndKeys(c)
  PROVE  Inv'
<1> DEFINE r == calls[c]
           pc == IF r.failed THEN "refused" ELSE "fields"
           q == [r EXCEPT !.pc = pc]
<1>1. SetCall(c, q) /\ r.pc = "keys" /\ r.url = {} /\ r.json = {}
  BY DEF EndKeys
<1>2. CallType(r) /\ Progress(r)
  BY <1>1 DEF Inv, CallsInv, CallInv, Running
<1>3. IsCall(r)
  BY <1>1, <1>2 DEF CallType
<1>4. (r.failed => pc = "refused") /\ (~r.failed => pc = "fields")
  OBVIOUS
<1> HIDE DEF r, pc
<1>5. q \in One(pc, r.schema, r.document, r.url, r.json, r.next, r.failed, r.extra, r.began)
  BY <1>3, AsOne DEF One
<1> HIDE DEF q
<1>6. /\ IsCall(q) /\ q.pc = pc /\ q.schema = r.schema /\ q.document = r.document
      /\ q.url = {} /\ q.json = {} /\ q.next = r.next /\ q.failed = r.failed
      /\ q.began = r.began
  BY <1>1, <1>5, OfOne
<1>7. CallType(q)
  BY <1>1, <1>2, <1>4, <1>6 DEF CallType, Running, Returned
<1>8. q.pc \in Running => Progress(q)
  BY <1>1, <1>2, <1>4, <1>6 DEF Progress, Given, Running
<1>9. Answer(q)
  BY <1>2, <1>4, <1>6 DEF Answer, Progress
<1> QED
  BY <1>1, <1>7, <1>8, <1>9, OwnStep DEF CallInv

LEMMA ValidateFieldInv ==
  ASSUME Inv, NEW c \in Callers, ValidateField(c)
  PROVE  Inv'
<1> DEFINE r == calls[c]
           list == schemas[r.schema].fields
           f == fields[list[r.next]]
           missing == f.required /\ f.name \notin Given(r)
           failed == r.failed \/ missing
           q == [r EXCEPT !.next = @ + 1, !.failed = failed]
<1>1. SetCall(c, q) /\ r.pc = "fields" /\ r.next \in DOMAIN list
  BY DEF ValidateField, Given
<1>2. CallType(r) /\ Progress(r)
  BY <1>1 DEF Inv, CallsInv, CallInv, Running
<1>3. IsCall(r) /\ r.schema \in DOMAIN schemas
  BY <1>1, <1>2 DEF CallType
<1>4. missing => ~Accepts(r.began, r.schema, r.document)
  <2>1. f.required => f.name \in Required(r.schema)
    BY <1>1 DEF Required, NameOf
  <2> QED
    BY <1>2, <2>1 DEF Progress, Accepts, Given
<1>5. ~missing => (fields[list[r.next]].required => NameOf(list[r.next]) \in Given(r))
  BY DEF NameOf
<1>6. failed \in BOOLEAN /\ (failed <=> r.failed \/ missing)
  BY <1>2 DEF CallType
<1>7. list \in Seq(Nat)
  <2>1. schemas[r.schema] \in Schema
    BY <1>3 DEF Inv, BuildInv
  <2> QED
    BY <2>1 DEF Schema
<1>8. list = schemas[r.schema].fields
  OBVIOUS
<1> HIDE DEF r, missing, failed, f, list
<1>9. r.next \in 1..Len(list) /\ r.next + 1 \in 1..Len(list) + 1
  BY <1>1, <1>7
<1>10. q \in One(r.pc, r.schema, r.document, r.url, r.json, r.next + 1, failed, r.extra, r.began)
  BY <1>3, AsOne DEF One
<1> HIDE DEF q
<1>11. /\ IsCall(q) /\ q.pc = "fields" /\ q.schema = r.schema /\ q.document = r.document
       /\ q.url = r.url /\ q.json = r.json /\ q.next = r.next + 1
       /\ q.failed = failed /\ q.began = r.began
  BY <1>1, <1>10, OfOne
<1>12. CallType(q)
  BY <1>1, <1>2, <1>6, <1>8, <1>9, <1>11 DEF CallType, Running
<1>13. Progress(q)
  <2>1. \A i \in DOMAIN list : i < r.next + 1 => i < r.next \/ i = r.next
    BY <1>7, <1>9
  <2>2. ASSUME ~failed, NEW i \in DOMAIN list, i < r.next + 1, fields[list[i]].required
        PROVE  NameOf(list[i]) \in Given(r)
    BY <1>2, <1>5, <1>6, <1>8, <2>1, <2>2 DEF Progress
  <2>3. Given(q) = Given(r)
    BY <1>11 DEF Given
  <2> QED
    BY <1>1, <1>2, <1>4, <1>6, <1>8, <1>11, <2>2, <2>3 DEF Progress
<1>14. Answer(q)
  BY <1>11 DEF Answer
<1> QED
  BY <1>1, <1>12, <1>13, <1>14, OwnStep DEF CallInv

LEMMA FinishInv ==
  ASSUME Inv, NEW c \in Callers, Finish(c)
  PROVE  Inv'
<1> DEFINE r == calls[c]
           s == r.schema
           list == schemas[s].fields
           extra == IF schemas[s].lenient THEN r.document.url \ FieldNames(s) ELSE {}
<1>1. /\ r.pc = "fields" /\ r.next \notin DOMAIN list
      /\ r.failed => SetCall(c, [r EXCEPT !.pc = "refused"])
      /\ ~r.failed => SetCall(c, [r EXCEPT !.pc = "accepted", !.extra = extra])
  BY DEF Finish
<1>2. CallType(r) /\ Progress(r)
  BY <1>1 DEF Inv, CallsInv, CallInv, Running
<1>3. IsCall(r) /\ s \in DOMAIN schemas
  BY <1>1, <1>2 DEF CallType
<1>4. CASE r.failed
  <2> DEFINE q == [r EXCEPT !.pc = "refused"]
  <2>1. SetCall(c, q)
    BY <1>1, <1>4
  <2> HIDE DEF r
  <2>2. q \in One("refused", s, r.document, r.url, r.json, r.next, r.failed, r.extra, r.began)
    BY <1>3, AsOne DEF One
  <2> HIDE DEF q
  <2>3. /\ IsCall(q) /\ q.pc = "refused" /\ q.schema = s /\ q.document = r.document
        /\ q.url = r.url /\ q.json = r.json /\ q.next = r.next /\ q.failed = r.failed
        /\ q.began = r.began
    BY <2>2, OfOne
  <2>4. CallType(q) /\ q.pc \notin Running
    BY <1>1, <1>2, <2>3 DEF CallType, Running, Returned
  <2>5. Answer(q)
    BY <1>2, <1>4, <2>3 DEF Answer, Progress
  <2> QED
    BY <2>1, <2>4, <2>5, OwnStep DEF CallInv
<1>5. CASE ~r.failed
  <2> DEFINE q == [r EXCEPT !.pc = "accepted", !.extra = extra]
  <2>1. SetCall(c, q)
    BY <1>1, <1>5
  <2>2. Accepts(Says(s), s, r.document)
    <3>1. r.url = {} /\ r.json = {}
      BY <1>1, <1>2 DEF Progress
    <3>2. Required(s) \subseteq Given(r)
      <4>1. list \in Seq(Nat) /\ r.next \in 1..Len(list) + 1
        <5>1. schemas[s] \in Schema
          BY <1>3 DEF Inv, BuildInv
        <5> QED
          BY <1>1, <1>2, <5>1 DEF Schema, CallType
      <4>2. \A i \in DOMAIN list : i < r.next
        BY <1>1, <4>1
      <4>3. \A i \in DOMAIN list : fields[list[i]].required => NameOf(list[i]) \in Given(r)
        BY <1>2, <1>5, <4>2 DEF Progress
      <4> QED
        BY <4>3 DEF Required
    <3>3. ~schemas[s].lenient => /\ r.document.url \subseteq FieldNames(s) \ ObjectNames(s)
                                 /\ r.document.json \subseteq FieldNames(s)
      BY <1>2, <1>5, <3>1 DEF Progress
    <3>4. r.document.url \cap r.document.json = {}
      BY <1>2, <1>5, <3>1 DEF Progress
    <3> QED
      BY <3>2, <3>3, <3>4 DEF Accepts, Says, Given
  <2>3. extra = r.document.url \ FieldNames(s)
    BY <2>2 DEF Accepts, Says
  <2> HIDE DEF r, extra
  <2>4. q \in One("accepted", s, r.document, r.url, r.json, r.next, r.failed, extra, r.began)
    BY <1>3, AsOne DEF One
  <2> HIDE DEF q
  <2>5. /\ IsCall(q) /\ q.pc = "accepted" /\ q.schema = s /\ q.document = r.document
        /\ q.url = r.url /\ q.json = r.json /\ q.next = r.next /\ q.failed = r.failed
        /\ q.extra = extra
    BY <2>4, OfOne
  <2>6. CallType(q) /\ q.pc \notin Running
    BY <1>1, <1>2, <2>5 DEF CallType, Running, Returned
  <2>7. Answer(q)
    BY <2>2, <2>3, <2>5 DEF Answer
  <2> QED
    BY <2>1, <2>6, <2>7, OwnStep DEF CallInv
<1> QED
  BY <1>4, <1>5

LEMMA StepInv ==
  ASSUME Inv, NEW c \in Callers, Step(c)
  PROVE  Inv'
BY ValidateInv, UrlKeyInv, JsonKeyInv, EndKeysInv, ValidateFieldInv, FinishInv DEF Step

LEMMA NextInv ==
  ASSUME Inv, [Next]_vars
  PROVE  Inv'
<1>1. CASE Construct \/ Relax
  BY <1>1, ConstructInv, RelaxInv, CallsKept DEF Inv
<1>2. CASE \E c \in Callers : Step(c)
  BY <1>2, StepInv
<1>3. CASE UNCHANGED vars
  BY <1>3, NothingBuilt, CallsKept DEF vars, Inv, BuildInv
<1> QED
  BY <1>1, <1>2, <1>3 DEF Next

-----------------------------------------------------------------------------
(* The theorems. *)

THEOREM Invariance == Spec => []Inv
BY InitInv, NextInv, PTL DEF Spec

(* Whatever is built, extended and relaxed in whatever order: every schema  *)
(* is one Validation may assume.                                            *)
THEOREM AlwaysWellformed == Spec => []Wellformed
<1>1. Inv => Wellformed
  BY DEF Inv, BuildInv, CallsInv, CallInv, Wellformed
<1> QED
  BY <1>1, Invariance, PTL

LEMMA NamesOfConcatenation ==
  ASSUME NEW p \in Seq(Nat), NEW q \in Seq(Nat)
  PROVE  /\ NamesOf(p \o q) = NamesOf(p) \cup NamesOf(q)
         /\ {NameOf((p \o q)[i]) : i \in {j \in DOMAIN (p \o q) : fields[(p \o q)[j]].required}}
              = {NameOf(p[i]) : i \in {j \in DOMAIN p : fields[p[j]].required}}
                  \cup {NameOf(q[i]) : i \in {j \in DOMAIN q : fields[q[j]].required}}
<1>1. \A i \in DOMAIN p : i \in DOMAIN (p \o q) /\ (p \o q)[i] = p[i]
  OBVIOUS
<1>2. \A i \in DOMAIN q : Len(p) + i \in DOMAIN (p \o q) /\ (p \o q)[Len(p) + i] = q[i]
  OBVIOUS
<1>3. \A i \in DOMAIN (p \o q) :
        (\E j \in DOMAIN p : (p \o q)[i] = p[j]) \/ (\E j \in DOMAIN q : (p \o q)[i] = q[j])
  <2> SUFFICES ASSUME NEW i \in DOMAIN (p \o q), i \notin DOMAIN p
               PROVE  \E j \in DOMAIN q : (p \o q)[i] = q[j]
    BY <1>1
  <2>1. i - Len(p) \in DOMAIN q /\ (p \o q)[i] = q[i - Len(p)]
    OBVIOUS
  <2> QED
    BY <2>1
<1> DEFINE w == p \o q
<1> HIDE DEF w
<1>4. /\ \A i \in DOMAIN p : i \in DOMAIN w /\ w[i] = p[i]
      /\ \A i \in DOMAIN q : Len(p) + i \in DOMAIN w /\ w[Len(p) + i] = q[i]
      /\ \A i \in DOMAIN w : (\E j \in DOMAIN p : w[i] = p[j]) \/ (\E j \in DOMAIN q : w[i] = q[j])
  BY <1>1, <1>2, <1>3 DEF w
<1>5. NamesOf(w) = NamesOf(p) \cup NamesOf(q)
  BY <1>4 DEF NamesOf
<1>6. {NameOf(w[i]) : i \in {j \in DOMAIN w : fields[w[j]].required}}
        = {NameOf(p[i]) : i \in {j \in DOMAIN p : fields[p[j]].required}}
            \cup {NameOf(q[i]) : i \in {j \in DOMAIN q : fields[q[j]].required}}
  BY <1>4
<1> QED
  BY <1>5, <1>6 DEF w

(* An extension asks for the same as its two parts together, at any time.   *)
THEOREM AlwaysInherits == Spec => []Inherits
<1>1. Inv => Inherits
  <2> SUFFICES ASSUME Inv, NEW x \in DOMAIN schemas, schemas[x].extends # <<>>
               PROVE  LET s == schemas[x].extends[1]
                          t == schemas[x].extends[2]
                      IN  /\ FieldNames(x) = FieldNames(s) \cup FieldNames(t)
                          /\ Required(x) = Required(s) \cup Required(t)
    BY DEF Inherits
  <2> DEFINE s == schemas[x].extends[1]
             t == schemas[x].extends[2]
  <2>1. /\ s \in DOMAIN schemas /\ t \in DOMAIN schemas
        /\ schemas[x].fields = schemas[s].fields \o schemas[t].fields
    BY DEF Inv, BuildInv, Extensions
  <2>2. schemas[s] \in Schema /\ schemas[t] \in Schema
    BY <2>1 DEF Inv, BuildInv
  <2>3. schemas[s].fields \in Seq(Nat) /\ schemas[t].fields \in Seq(Nat)
    BY <2>2 DEF Schema
  <2> HIDE DEF s, t
  <2>4. /\ FieldNames(x) = FieldNames(s) \cup FieldNames(t)
        /\ Required(x) = Required(s) \cup Required(t)
    <3> DEFINE p == schemas[s].fields
               q == schemas[t].fields
    <3>1. FieldNames(x) = NamesOf(p \o q)
      BY <2>1 DEF FieldNames
    <3>2. Required(x) = {NameOf((p \o q)[i]) :
                           i \in {j \in DOMAIN (p \o q) : fields[(p \o q)[j]].required}}
      BY <2>1 DEF Required
    <3>3. Required(s) = {NameOf(p[i]) : i \in {j \in DOMAIN p : fields[p[j]].required}}
      BY DEF Required
    <3>4. Required(t) = {NameOf(q[i]) : i \in {j \in DOMAIN q : fields[q[j]].required}}
      BY DEF Required
    <3>5. FieldNames(s) = NamesOf(p) /\ FieldNames(t) = NamesOf(q)
      BY DEF FieldNames
    <3>6. p \in Seq(Nat) /\ q \in Seq(Nat)
      BY <2>3
    <3> HIDE DEF p, q
    <3>7. /\ NamesOf(p \o q) = NamesOf(p) \cup NamesOf(q)
          /\ {NameOf((p \o q)[i]) : i \in {j \in DOMAIN (p \o q) : fields[(p \o q)[j]].required}}
               = {NameOf(p[i]) : i \in {j \in DOMAIN p : fields[p[j]].required}}
                   \cup {NameOf(q[i]) : i \in {j \in DOMAIN q : fields[q[j]].required}}
      BY <3>6, NamesOfConcatenation, Zenon
    <3>8. FieldNames(x) = FieldNames(s) \cup FieldNames(t)
      BY <3>1, <3>5, <3>7, Zenon
    <3>9. Required(x) = Required(s) \cup Required(t)
      BY <3>2, <3>3, <3>4, <3>7, Zenon
    <3> QED
      BY <3>8, <3>9
  <2> QED
    BY <2>4 DEF s, t
<1> QED
  BY <1>1, Invariance, PTL

(* A call beside which its schema is relaxed answers as one of the schemas  *)
(* it has been.                                                             *)
THEOREM AnswersBetween == Spec => []Between
<1>1. Inv => Between
  BY DEF Inv, CallsInv, CallInv, Answer, Between
<1> QED
  BY <1>1, Invariance, PTL

=============================================================================
