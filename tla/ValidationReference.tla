-------------------------- MODULE ValidationReference --------------------------
(***************************************************************************)
(* What a call of Schema.Validate has to answer, said without its control  *)
(* flow: whether a document conforms to a schema, and which keys the error *)
(* has to name.  Recursive over the document: an embedded object and an    *)
(* element of an array of objects is a document of its own, judged without *)
(* URL parameters.                                                         *)
(***************************************************************************)
EXTENDS Validation, FiniteSets

\* The places a key comes from: each of the parameter maps, and the document.
Sources(k, n, maps) ==
  {i \in DOMAIN maps : k \in DOMAIN maps[i]} \cup (IF k \in JsonKeys(n) THEN {0} ELSE {})

\* The keys that come from two places, or that a strict schema does not know.
WrongKeys(s, n, maps) ==
  {k \in UrlKeys(maps) : Cardinality(Sources(k, n, maps)) > 1}
  \cup (IF s \in Lenient
        THEN {}
        ELSE (UrlKeys(maps) \ PlainNames(s)) \cup (JsonKeys(n) \ Names(s)))

\* Does a document conform, where C says which nested documents do?
ElementConforms(C, f, e) ==
  \/ f.kind = "array" /\ JsonValue[f.type][e] \in f.accepts
  \/ f.kind = "objects" /\ Shape[e] = "object" /\ C[<<f.embedded, e>>]

NodeConforms(C, f, m) ==
  \/ f.kind = "scalar" /\ JsonValue[f.type][m] \in f.accepts
  \/ f.kind = "object" /\ C[<<f.embedded, m>>]
  \/ /\ f.kind \in {"array", "objects"}
     /\ Shape[m] = "array"
     /\ \A i \in DOMAIN Elements[m] : ElementConforms(C, f, Elements[m][i])

FieldConforms(C, f, n, maps) ==
  IF f.name \in DOMAIN Member[n]   THEN NodeConforms(C, f, Member[n][f.name])
  ELSE IF f.name \in UrlKeys(maps) THEN TextValue[f.type][UrlPair(maps)[f.name]] \in f.accepts
  ELSE ~ f.required

ConformsGiven(C, s, n, maps) ==
  /\ Shape[n] # "invalid"
  /\ WrongKeys(s, n, maps) = {}
  /\ \A i \in DOMAIN FieldsOf[s] : FieldConforms(C, FieldsOf[s][i], n, maps)

Conforming[p \in Schemas \X Nodes] == ConformsGiven(Conforming, p[1], p[2], <<>>)

Conforms(s, n, maps) == ConformsGiven(Conforming, s, n, maps)

\* The keys a field is reported under, where B says those of nested documents.
FieldBlames(B, f, n, maps) ==
  LET m == Member[n][f.name]
  IN  IF f.name \in DOMAIN Member[n] /\ f.kind = "object" THEN B[<<f.embedded, m>>]
      ELSE IF FieldConforms(Conforming, f, n, maps) THEN {}
      ELSE IF /\ f.name \in DOMAIN Member[n]
              /\ f.kind \in {"array", "objects"}
              /\ Shape[m] = "array"
      THEN {<<f.name, i - 1>> : i \in {j \in DOMAIN Elements[m] :
                                         ~ ElementConforms(Conforming, f, Elements[m][j])}}
      ELSE {<<f.name>>}

BlamesGiven(B, s, n, maps) ==
  IF Shape[n] = "invalid" THEN {}
  ELSE IF WrongKeys(s, n, maps) # {} THEN {<<k>> : k \in WrongKeys(s, n, maps)}
  ELSE UNION {FieldBlames(B, FieldsOf[s][i], n, maps) : i \in DOMAIN FieldsOf[s]}

Blamed[p \in Schemas \X Nodes] == BlamesGiven(Blamed, p[1], p[2], <<>>)

Blames(s, n, maps) == BlamesGiven(Blamed, s, n, maps)

(* Validate answers Ok exactly for the documents that conform to the       *)
(* schema, whatever the order of the fields and the depth of the nesting.  *)
Verdict == result.done => (result.ok <=> Conforms(call.schema, call.node, call.maps))

(* A failed call names every field that failed, at every depth, and no     *)
(* other: the errors do not stop at the first field, and a key conflict is *)
(* reported alone.                                                         *)
AllReported == result.done => DOMAIN result.errs = Blames(call.schema, call.node, call.maps)

=============================================================================
