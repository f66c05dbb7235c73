----------------------------- MODULE SchemaBuild -----------------------------
(***************************************************************************)
(* How schemas are built (view/vo.go): fields and schemas are pointers,    *)
(* WithFields and Extend make new schemas of the same field pointers, and  *)
(* Optional and AllowUnknownFields change in place what others may share.  *)
(* Calls of Validate run meanwhile and read what is changed key by key and *)
(* field by field.  Here every value converts; a nested call is a call of  *)
(* its own.  Validation has what a single call does in full.               *)
(***************************************************************************)
EXTENDS Naturals, Sequences, SequencesExt

CONSTANTS
  Names,       \* names of fields, JSON keys and URL parameters
  Malformed,   \* the names with a '.' or a '#'
  Validators,  \* names of validators
  Arguments,   \* the sequences of validators given to Field and ArrayField
  Documents,   \* [json, url]: the names in a document and in its URL parameters
  Callers,     \* goroutines that call Validate
  MaxFields,   \* bound: fields
  MaxSchemas,  \* bound: schemas
  MaxList      \* bound: fields given to WithFields

ASSUME BuildAssumption ==
  /\ Malformed \subseteq Names
  /\ Arguments \subseteq Seq(Validators)
  /\ \A d \in Documents : d.json \subseteq Names /\ d.url \subseteq Names
  /\ MaxFields \in Nat /\ MaxSchemas \in Nat /\ MaxList \in Nat

VARIABLES
  fields,   \* the fields made, by pointer
  schemas,  \* the schemas made, by pointer
  calls     \* caller -> its call of Validate

vars == <<fields, schemas, calls>>

NoSchema == 0

Field  == [name : Names \ Malformed, required : BOOLEAN, object : BOOLEAN, embedded : Nat]

\* extends: a history, the two schemas it was made from by Extend.
Schema == [fields : Seq(Nat), lenient : BOOLEAN, extends : Seq(Nat)]

NameOf(f)      == fields[f].name
NamesOf(list)  == {NameOf(list[i]) : i \in DOMAIN list}
FieldNames(s)  == NamesOf(schemas[s].fields)

Required(s) ==
  {NameOf(schemas[s].fields[i]) :
     i \in {j \in DOMAIN schemas[s].fields : fields[schemas[s].fields[j]].required}}

\* The fields that are embedded objects.
ObjectNames(s) ==
  {NameOf(schemas[s].fields[i]) :
     i \in {j \in DOMAIN schemas[s].fields : fields[schemas[s].fields[j]].object}}

NoDuplicates(list) ==
  \A i, j \in DOMAIN list : NameOf(list[i]) = NameOf(list[j]) => i = j

\* A constructor that panics has made nothing.
Panic == UNCHANGED vars

-----------------------------------------------------------------------------
(* Construction. *)

Init ==
  /\ fields = <<>>
  /\ schemas = <<>>
  /\ calls = [c \in Callers |-> [pc |-> "idle"]]

\* trait: a name is looked at before the validators.
Trait(name, object, nested, vfs) ==
  /\ Len(fields) < MaxFields
  /\ IF name \in Malformed \/ ~IsInjective(vfs)
     THEN Panic
     ELSE /\ fields' = Append(fields, [name |-> name, required |-> TRUE,
                                       object |-> object, embedded |-> nested])
          /\ UNCHANGED <<schemas, calls>>

NewField(name, vfs) == Trait(name, FALSE, NoSchema, vfs)

\* Mutant: a nil schema is not asked for.
ObjectFieldUnasserted(name, nested) == Trait(name, TRUE, nested, <<>>)

ObjectField(name, nested) ==
  IF nested = NoSchema
  THEN Len(fields) < MaxFields /\ Panic
  ELSE Trait(name, TRUE, nested, <<>>)

NewSchema(list, lenient, extends) ==
  schemas' = Append(schemas, [fields |-> list, lenient |-> lenient, extends |-> extends])

WithFields(list) ==
  /\ Len(schemas) < MaxSchemas
  /\ IF NoDuplicates(list)
     THEN NewSchema(list, FALSE, <<>>) /\ UNCHANGED <<fields, calls>>
     ELSE Panic

\* Mutant: the fields of the second schema are copied.
ExtendCopying(s, t) ==
  /\ Len(schemas) < MaxSchemas
  /\ LET copies == [i \in DOMAIN schemas[t].fields |-> fields[schemas[t].fields[i]]]
         list   == schemas[s].fields \o [i \in DOMAIN copies |-> Len(fields) + i]
     IN  IF FieldNames(s) \cap FieldNames(t) = {}
         THEN /\ NewSchema(list, schemas[s].lenient \/ schemas[t].lenient, <<s, t>>)
              /\ fields' = fields \o copies
              /\ UNCHANGED calls
         ELSE Panic

\* The new schema shares the fields, not the flag.
Extend(s, t) ==
  /\ Len(schemas) < MaxSchemas
  /\ LET list == schemas[s].fields \o schemas[t].fields
     IN  IF NoDuplicates(list)
         THEN /\ NewSchema(list, schemas[s].lenient \/ schemas[t].lenient, <<s, t>>)
              /\ UNCHANGED <<fields, calls>>
         ELSE Panic

Optional(f) ==
  /\ fields' = [fields EXCEPT ![f].required = FALSE]
  /\ UNCHANGED <<schemas, calls>>

AllowUnknownFields(s) ==
  /\ schemas' = [schemas EXCEPT ![s].lenient = TRUE]
  /\ UNCHANGED <<fields, calls>>

-----------------------------------------------------------------------------
(* Calls of Validate.  url and json are the keys still to be looked at;    *)
(* began is a history of what the schema said when the call began.         *)

Says(s) == [lenient |-> schemas[s].lenient, required |-> Required(s)]

SetCall(c, r) == calls' = [calls EXCEPT ![c] = r] /\ UNCHANGED <<fields, schemas>>

Validate(c, s, d) ==
  /\ calls[c].pc = "idle"
  /\ SetCall(c, [pc |-> "keys", schema |-> s, document |-> d, url |-> d.url, json |-> d.json,
                 next |-> 1, failed |-> FALSE, extra |-> {}, began |-> Says(s)])

UrlKey(c, k) ==
  /\ calls[c].pc = "keys" /\ k \in calls[c].url
  /\ LET s     == calls[c].schema
         wrong == ~schemas[s].lenient /\ k \notin FieldNames(s) \ ObjectNames(s)
     IN  SetCall(c, [calls[c] EXCEPT !.url = @ \ {k}, !.failed = @ \/ wrong])

JsonKey(c, k) ==
  /\ calls[c].pc = "keys" /\ calls[c].url = {} /\ k \in calls[c].json
  /\ LET s     == calls[c].schema
         wrong == \/ k \in calls[c].document.url
                  \/ ~schemas[s].lenient /\ k \notin FieldNames(s)
     IN  SetCall(c, [calls[c] EXCEPT !.json = @ \ {k}, !.failed = @ \/ wrong])

\* Conflicts and unknown keys end the call before any field.
EndKeys(c) ==
  /\ calls[c].pc = "keys" /\ calls[c].url = {} /\ calls[c].json = {}
  /\ SetCall(c, [calls[c] EXCEPT !.pc = IF calls[c].failed THEN "refused" ELSE "fields"])

ValidateField(c) ==
  /\ calls[c].pc = "fields"
  /\ calls[c].next \in DOMAIN schemas[calls[c].schema].fields
  /\ LET f       == fields[schemas[calls[c].schema].fields[calls[c].next]]
         given   == calls[c].document.json \cup calls[c].document.url
         missing == f.required /\ f.name \notin given
     IN  SetCall(c, [calls[c] EXCEPT !.next = @ + 1, !.failed = @ \/ missing])

\* Mutant: the flag that was read first decides.
FinishAsBegun(c) ==
  /\ calls[c].pc = "fields"
  /\ calls[c].next \notin DOMAIN schemas[calls[c].schema].fields
  /\ LET s     == calls[c].schema
         extra == IF calls[c].began.lenient THEN calls[c].document.url \ FieldNames(s) ELSE {}
     IN  SetCall(c, IF calls[c].failed
                    THEN [calls[c] EXCEPT !.pc = "refused"]
                    ELSE [calls[c] EXCEPT !.pc = "accepted", !.extra = extra])

\* A lenient schema adds the URL parameters that are no fields.
Finish(c) ==
  /\ calls[c].pc = "fields"
  /\ calls[c].next \notin DOMAIN schemas[calls[c].schema].fields
  /\ LET s     == calls[c].schema
         extra == IF schemas[s].lenient THEN calls[c].document.url \ FieldNames(s) ELSE {}
     IN  SetCall(c, IF calls[c].failed
                    THEN [calls[c] EXCEPT !.pc = "refused"]
                    ELSE [calls[c] EXCEPT !.pc = "accepted", !.extra = extra])

-----------------------------------------------------------------------------
Construct ==
  \/ \E n \in Names, vfs \in Arguments : NewField(n, vfs)
  \/ \E n \in Names, s \in {NoSchema} \cup DOMAIN schemas : ObjectField(n, s)
  \/ \E list \in SeqOf(DOMAIN fields, MaxList) : WithFields(list)
  \/ \E s, t \in DOMAIN schemas : Extend(s, t)

Relax ==
  \/ \E f \in DOMAIN fields : Optional(f)
  \/ \E s \in DOMAIN schemas : AllowUnknownFields(s)

Step(c) ==
  \/ \E s \in DOMAIN schemas, d \in Documents : Validate(c, s, d)
  \/ \E k \in Names : UrlKey(c, k) \/ JsonKey(c, k)
  \/ EndKeys(c) \/ ValidateField(c) \/ Finish(c)

Next == Construct \/ Relax \/ \E c \in Callers : Step(c)

Spec == Init /\ [][Next]_vars

-----------------------------------------------------------------------------
(* Properties *)

Running  == {"keys", "fields"}
Returned == {"accepted", "refused"}

IsCall(r) ==
  r = [pc |-> r.pc, schema |-> r.schema, document |-> r.document, url |-> r.url,
       json |-> r.json, next |-> r.next, failed |-> r.failed, extra |-> r.extra,
       began |-> r.began]

CallType(r) ==
  /\ r.pc \in {"idle"} \cup Running \cup Returned
  /\ r.pc # "idle" =>
       /\ IsCall(r)
       /\ r.schema \in DOMAIN schemas
       /\ r.document \in Documents
       /\ r.url \subseteq r.document.url /\ r.json \subseteq r.document.json
       /\ r.next \in 1..Len(schemas[r.schema].fields) + 1
       /\ r.failed \in BOOLEAN

(* Whatever is built, extended and changed in whatever order, a schema is   *)
(* what Validation assumes of it: its fields are fields, no two of them     *)
(* have one name, none has a name that is a path, and an embedded object    *)
(* has its schema.                                                          *)
Wellformed ==
  /\ fields \in Seq(Field)
  /\ schemas \in Seq(Schema)
  /\ DOMAIN calls = Callers /\ \A c \in Callers : CallType(calls[c])
  /\ \A s \in DOMAIN schemas :
       /\ \A i \in DOMAIN schemas[s].fields : schemas[s].fields[i] \in DOMAIN fields
       /\ NoDuplicates(schemas[s].fields)
  /\ \A f \in DOMAIN fields : fields[f].object => fields[f].embedded \in DOMAIN schemas

(* An extension asks for what its two parts ask for, at any later time: a   *)
(* field made optional through one schema is optional in all that share it. *)
Inherits ==
  \A x \in DOMAIN schemas : schemas[x].extends # <<>> =>
    LET s == schemas[x].extends[1]
        t == schemas[x].extends[2]
    IN  /\ FieldNames(x) = FieldNames(s) \cup FieldNames(t)
        /\ Required(x) = Required(s) \cup Required(t)

(* A schema that says this about the schema s accepts the document. *)
Accepts(says, s, d) ==
  /\ d.url \cap d.json = {}
  /\ ~says.lenient => d.url \subseteq FieldNames(s) \ ObjectNames(s) /\ d.json \subseteq FieldNames(s)
  /\ says.required \subseteq d.url \cup d.json

(* A call during which a schema is changed answers as one of the schemas it *)
(* has been: it refuses only what was refused when it began, accepts only   *)
(* what is accepted when it returns, and then leaves out no parameter.      *)
Between ==
  \A c \in Callers :
    LET r == calls[c]
    IN  /\ r.pc = "refused"  => ~Accepts(r.began, r.schema, r.document)
        /\ r.pc = "accepted" =>
             /\ Accepts(Says(r.schema), r.schema, r.document)
             /\ r.extra = r.document.url \ FieldNames(r.schema)

=============================================================================
