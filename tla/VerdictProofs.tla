----------------------------- MODULE VerdictProofs -----------------------------
(***************************************************************************)
(* Schema.Validate answers what ValidationReference says, for every set of *)
(* schemas, every document and every depth of nesting.                     *)
(*                                                                         *)
(* Conforming and Blamed are recursive over the document; all the proof    *)
(* needs of them is that they solve their equations, which they do because *)
(* these are monotone.  The rest is an invariant of the stack: what a      *)
(* frame has recorded of the fields it has passed is what the reference    *)
(* says of them (Judged).                                                  *)
(*                                                                         *)
(* At the end: what Bind takes for the verdict of a flat schema is this    *)
(* one.                                                                    *)
(***************************************************************************)
EXTENDS ValidationReference, ValidationProofs, FiniteSetTheorems

(* What the reference says of the field j of the frame's schema. *)
Conformed(fr, j) == FieldConforms(Conforming, FieldsOf[fr.schema][j], fr.node, fr.maps)

BlamesFor(fr, j) == FieldBlames(Blamed, FieldsOf[fr.schema][j], fr.node, fr.maps)

PassedFields(fr) == {j \in DOMAIN FieldsOf[fr.schema] : j < fr.next}

ElementAt(fr, i) == Elements[Member[fr.node][FieldAt(fr).name]][i]

(* The elements that the frame's loop has passed and that do not conform.  *)
BadElements(fr) ==
  {i \in 1..fr.elem : ~ ElementConforms(Conforming, FieldAt(fr), ElementAt(fr, i))}

(* The frame has recorded what the reference says of the fields and the    *)
(* elements it has passed.                                                 *)
Judged(fr) ==
  /\ fr.next > 0 => Shape[fr.node] # "invalid" /\ WrongKeys(fr.schema, fr.node, fr.maps) = {}
  /\ DOMAIN fr.errs = UNION {BlamesFor(fr, j) : j \in PassedFields(fr)}
  /\ \A j \in PassedFields(fr) : BlamesFor(fr, j) = {} <=> Conformed(fr, j)
  /\ DOMAIN fr.elemErrs = {<<FieldAt(fr).name, i - 1>> : i \in BadElements(fr)}

(* The outermost frame works on the arguments of the call. *)
ServesCall ==
  stack # <<>> =>
    stack[1].schema = call.schema /\ stack[1].node = call.node /\ stack[1].maps = call.maps

(* The keys of a call that has returned an object were those of its schema. *)
Admitted ==
  \A o \in DOMAIN heap : WrongKeys(heap[o].schema, heap[o].node, heap[o].maps) = {}

Judging ==
  /\ ServesCall
  /\ \A i \in DOMAIN stack : Judged(stack[i])
  /\ Verdict /\ AllReported
  /\ Admitted

-----------------------------------------------------------------------------
(* A monotone function on the subsets of a set has a fixed point: the      *)
(* intersection of all sets that it does not enlarge.                      *)
LEMMA FixedPoint ==
  ASSUME NEW D, NEW F \in [SUBSET D -> SUBSET D],
         \A P, Q \in SUBSET D : P \subseteq Q => F[P] \subseteq F[Q]
  PROVE  \E L \in SUBSET D : F[L] = L
<1> DEFINE L == {x \in D : \A P \in SUBSET D : F[P] \subseteq P => x \in P}
<1>1. L \in SUBSET D
  OBVIOUS
<1>2. ASSUME NEW P \in SUBSET D, F[P] \subseteq P PROVE L \subseteq P
  BY <1>2
<1>3. F[L] \subseteq L
  <2> SUFFICES ASSUME NEW x \in F[L] PROVE x \in L
    OBVIOUS
  <2>1. x \in D
    BY <1>1
  <2>2. ASSUME NEW P \in SUBSET D, F[P] \subseteq P PROVE x \in P
    <3>1. L \subseteq P
      BY <2>2, <1>2
    <3> HIDE DEF L
    <3>2. F[L] \subseteq F[P]
      BY <1>1, <3>1
    <3>3. QED
      BY <2>2, <3>2
  <2>3. QED
    BY <2>1, <2>2
<1>4. F[F[L]] \subseteq F[L]
  <2> HIDE DEF L
  <2>1. QED
    BY <1>1, <1>3
<1>5. L \subseteq F[L]
  <2>1. F[L] \in SUBSET D
    BY <1>1
  <2> HIDE DEF L
  <2>2. QED
    BY <2>1, <1>4, <1>2
<1>6. QED
  BY <1>1, <1>3, <1>5

LEMMA SameTruth ==
  ASSUME NEW a \in BOOLEAN, NEW b \in BOOLEAN, a <=> b
  PROVE  a = b
  OBVIOUS

Documents == Schemas \X Nodes

(* Fewer nested documents that conform, fewer documents that do. *)
LEMMA ConformsMonotone ==
  ASSUME NEW C, NEW E, \A p \in Documents : C[p] => E[p],
         NEW s \in Schemas, NEW n \in Nodes, NEW maps, ConformsGiven(C, s, n, maps)
  PROVE  ConformsGiven(E, s, n, maps)
<1> SUFFICES ASSUME NEW i \in DOMAIN FieldsOf[s]
             PROVE  FieldConforms(E, FieldsOf[s][i], n, maps)
  BY DEF ConformsGiven
<1> DEFINE f == FieldsOf[s][i]
           m == Member[n][f.name]
<1>1. FieldConforms(C, f, n, maps)
  BY DEF ConformsGiven
<1>2. f.kind \in {"object", "objects"} => f.embedded \in Schemas
  BY SchemaAssumption
<1> HIDE DEF f
<1>3. CASE f.name \notin DOMAIN Member[n]
  BY <1>1, <1>3 DEF FieldConforms, f
<1>4. CASE f.name \in DOMAIN Member[n]
  <2>1. m \in Nodes
    BY <1>4, DocumentAssumption DEF PartialMap
  <2>2. Elements[m] \in Seq(Nodes)
    BY <2>1, DocumentAssumption
  <2>3. NodeConforms(C, f, m)
    BY <1>1, <1>4 DEF FieldConforms
  <2> HIDE DEF m
  <2>4. NodeConforms(E, f, m)
    <3>1. CASE f.kind = "scalar" /\ JsonValue[f.type][m] \in f.accepts
      BY <3>1 DEF NodeConforms
    <3>2. CASE f.kind = "object" /\ C[<<f.embedded, m>>]
      <4>1. <<f.embedded, m>> \in Documents
        BY <1>2, <2>1, <3>2 DEF Documents
      <4>2. E[<<f.embedded, m>>]
        BY <3>2, <4>1
      <4>3. QED
        BY <3>2, <4>2 DEF NodeConforms
    <3>3. CASE /\ f.kind \in {"array", "objects"} /\ Shape[m] = "array"
               /\ \A j \in DOMAIN Elements[m] : ElementConforms(C, f, Elements[m][j])
      <4>1. ASSUME NEW j \in DOMAIN Elements[m] PROVE ElementConforms(E, f, Elements[m][j])
        <5>1. ElementConforms(C, f, Elements[m][j]) /\ Elements[m][j] \in Nodes
          BY <2>2, <3>3
        <5>2. f.kind = "objects" => <<f.embedded, Elements[m][j]>> \in Documents
          BY <1>2, <5>1 DEF Documents
        <5>3. QED
          BY <5>1, <5>2 DEF ElementConforms
      <4>2. QED
        BY <3>3, <4>1 DEF NodeConforms
    <3>4. QED
      BY <2>3, <3>1, <3>2, <3>3 DEF NodeConforms
  <2>5. FieldConforms(E, f, n, maps)
    BY <1>4, <2>4 DEF FieldConforms, m
  <2>6. QED
    BY <2>5 DEF f
<1>5. QED
  BY <1>3, <1>4

LEMMA ConformingEquation ==
  Conforming = [p \in Documents |-> ConformsGiven(Conforming, p[1], p[2], <<>>)]
<1> DEFINE D == Documents
           G(P) == [q \in D |-> q \in P]
           F == [P \in SUBSET D |-> {p \in D : ConformsGiven(G(P), p[1], p[2], <<>>)}]
<1>1. F \in [SUBSET D -> SUBSET D]
  OBVIOUS
<1>2. ASSUME NEW P \in SUBSET D, NEW Q \in SUBSET D, P \subseteq Q PROVE F[P] \subseteq F[Q]
  <2>1. ASSUME NEW p \in D, ConformsGiven(G(P), p[1], p[2], <<>>)
        PROVE  ConformsGiven(G(Q), p[1], p[2], <<>>)
    <3>1. p[1] \in Schemas /\ p[2] \in Nodes
      BY DEF Documents
    <3>2. \A q \in Documents : G(P)[q] => G(Q)[q]
      BY <1>2
    <3>3. QED
      BY <2>1, <3>1, <3>2, ConformsMonotone
  <2>2. QED
    BY <2>1
<1>3. PICK L \in SUBSET D : F[L] = L
  <2> HIDE DEF F, D
  <2>1. QED
    BY <1>1, <1>2, FixedPoint
<1>4. ASSUME NEW p \in D PROVE G(L)[p] = ConformsGiven(G(L), p[1], p[2], <<>>)
  <2>1. p \in F[L] <=> ConformsGiven(G(L), p[1], p[2], <<>>)
    OBVIOUS
  <2>2. p \in L <=> ConformsGiven(G(L), p[1], p[2], <<>>)
    BY <2>1, <1>3
  <2>3. G(L)[p] = (p \in L)
    OBVIOUS
  <2> HIDE DEF G
  <2>4. (p \in L) = ConformsGiven(G(L), p[1], p[2], <<>>)
    <3>1. (p \in L) \in BOOLEAN
      OBVIOUS
    <3>2. ConformsGiven(G(L), p[1], p[2], <<>>) \in BOOLEAN
      BY DEF ConformsGiven
    <3>3. QED
      BY <2>2, <3>1, <3>2, SameTruth
  <2>5. QED
    BY <2>3, <2>4
<1>5. G(L) = [p \in D |-> ConformsGiven(G(L), p[1], p[2], <<>>)]
  BY <1>4
<1>6. \E g : g = [p \in D |-> ConformsGiven(g, p[1], p[2], <<>>)]
  <2> HIDE DEF G
  <2>1. QED
    BY <1>5
<1>7. QED
  BY <1>6 DEF Conforming, Documents

LEMMA ConformingIs ==
  ASSUME NEW s \in Schemas, NEW n \in Nodes
  PROVE  Conforming[<<s, n>>] <=> Conforms(s, n, <<>>)
<1> DEFINE p == <<s, n>>
<1>1. p \in Documents /\ p[1] = s /\ p[2] = n
  BY DEF Documents
<1> HIDE DEF p
<1>2. Conforming[p] <=> ConformsGiven(Conforming, p[1], p[2], <<>>)
  BY <1>1, ConformingEquation
<1>3. QED
  BY <1>1, <1>2 DEF Conforms, p

(* Fewer keys of nested documents, fewer keys of a document. *)
LEMMA BlamesMonotone ==
  ASSUME NEW B, NEW E, \A p \in Documents : B[p] \subseteq E[p],
         NEW s \in Schemas, NEW n \in Nodes, NEW maps
  PROVE  BlamesGiven(B, s, n, maps) \subseteq BlamesGiven(E, s, n, maps)
<1>1. ASSUME NEW i \in DOMAIN FieldsOf[s]
      PROVE  FieldBlames(B, FieldsOf[s][i], n, maps) \subseteq FieldBlames(E, FieldsOf[s][i], n, maps)
  <2> DEFINE f == FieldsOf[s][i]
             m == Member[n][f.name]
  <2>1. CASE f.name \in DOMAIN Member[n] /\ f.kind = "object"
    <3>1. m \in Nodes
      BY <2>1, DocumentAssumption DEF PartialMap
    <3>2. f.embedded \in Schemas
      BY <2>1, SchemaAssumption
    <3>3. <<f.embedded, m>> \in Documents
      BY <3>1, <3>2 DEF Documents
    <3>4. B[<<f.embedded, m>>] \subseteq E[<<f.embedded, m>>]
      BY <3>3
    <3>5. QED
      BY <2>1, <3>4 DEF FieldBlames
  <2>2. CASE ~ (f.name \in DOMAIN Member[n] /\ f.kind = "object")
    BY <2>2 DEF FieldBlames
  <2>3. QED
    BY <2>1, <2>2
<1>2. QED
  BY <1>1 DEF BlamesGiven

-----------------------------------------------------------------------------
(* Keys.  A key has two sources where it is in two of the maps, or in one  *)
(* of them and the document.                                               *)
LEMMA UrlKeysKnown ==
  ASSUME NEW maps, MapsType(maps)
  PROVE  UrlKeys(maps) \subseteq Keys
  BY DEF MapsType, PartialMap, UrlKeys

LEMMA JsonKeysKnown ==
  ASSUME NEW n \in Nodes
  PROVE  JsonKeys(n) \subseteq Keys
  BY DocumentAssumption DEF JsonKeys, PartialMap

LEMMA ManySources ==
  ASSUME NEW maps, MapsType(maps), NEW n \in Nodes, NEW k \in UrlKeys(maps)
  PROVE  Cardinality(Sources(k, n, maps)) > 1 <=>
           \/ \E i, j \in DOMAIN maps : i # j /\ k \in DOMAIN maps[i] /\ k \in DOMAIN maps[j]
           \/ k \in JsonKeys(n)
<1> DEFINE S == Sources(k, n, maps)
<1>1. Len(maps) \in Nat /\ DOMAIN maps = 1..Len(maps)
  BY SequenceDomain DEF MapsType
<1>2. PICK i \in DOMAIN maps : k \in DOMAIN maps[i]
  BY DEF UrlKeys
<1>3. i \in S /\ S \subseteq 0..Len(maps)
  BY <1>1, <1>2 DEF Sources
<1>4. IsFiniteSet(S)
  <2>1. IsFiniteSet(0..Len(maps))
    BY <1>1, FS_Interval
  <2> HIDE DEF S
  <2>2. QED
    BY <1>3, <2>1, FS_Subset
<1>5. Cardinality(S) \in Nat /\ Cardinality(S) # 0
  BY <1>3, <1>4, FS_CardinalityType, FS_EmptySet
<1>6. Cardinality(S) = 1 <=> \E x : S = {x}
  BY <1>4, FS_Singleton
<1>7. (\E x : S = {x}) <=> \A j \in S : j = i
  BY <1>3
<1>8. (\E j \in S : j # i) <=>
        \/ \E a, b \in DOMAIN maps : a # b /\ k \in DOMAIN maps[a] /\ k \in DOMAIN maps[b]
        \/ k \in JsonKeys(n)
  BY <1>1, <1>2 DEF Sources
<1> HIDE DEF S
<1>9. Cardinality(S) > 1 <=> \E j \in S : j # i
  <2>1. Cardinality(S) > 1 <=> Cardinality(S) # 1
    BY <1>5
  <2>2. QED
    BY <2>1, <1>6, <1>7
<1>10. QED
  BY <1>8, <1>9 DEF S

LEMMA WrongAreConflicts ==
  ASSUME NEW s \in Schemas, NEW n \in Nodes, NEW maps, MapsType(maps)
  PROVE  WrongKeys(s, n, maps) = Conflicts(s, n, maps)
  BY ManySources DEF WrongKeys, Conflicts

LEMMA ConflictKeys ==
  ASSUME NEW s \in Schemas, NEW n \in Nodes, NEW maps, MapsType(maps)
  PROVE  WrongKeys(s, n, maps) \subseteq Keys
  BY UrlKeysKnown, JsonKeysKnown DEF WrongKeys

-----------------------------------------------------------------------------
(* What can be blamed. *)
LEMMA BlamesType ==
  ASSUME NEW B, \A p \in Documents : B[p] \subseteq ErrorKeys,
         NEW s \in Schemas, NEW n \in Nodes, NEW maps, MapsType(maps)
  PROVE  BlamesGiven(B, s, n, maps) \subseteq ErrorKeys
<1>1. ASSUME NEW i \in DOMAIN FieldsOf[s]
      PROVE  FieldBlames(B, FieldsOf[s][i], n, maps) \subseteq ErrorKeys
  <2> DEFINE f == FieldsOf[s][i]
             m == Member[n][f.name]
  <2>1. f \in Field /\ f.name \in Keys
    <3>1. f \in Field
      BY FieldTypes
    <3> HIDE DEF f
    <3>2. QED
      BY <3>1 DEF Field
  <2>2. f.name \in DOMAIN Member[n] => m \in Nodes
    BY DocumentAssumption DEF PartialMap
  <2>3. f.kind = "object" => f.embedded \in Schemas
    BY SchemaAssumption
  <2> HIDE DEF f
  <2>4. FieldBlames(B, f, n, maps) \subseteq ErrorKeys
    <3>1. CASE f.name \in DOMAIN Member[n] /\ f.kind = "object"
      <4>1. <<f.embedded, m>> \in Documents
        BY <2>2, <2>3, <3>1 DEF Documents
      <4>2. QED
        BY <3>1, <4>1 DEF FieldBlames
    <3>2. CASE f.name \in DOMAIN Member[n]
      <4>1. \A j \in DOMAIN Elements[m] : j - 1 \in Nat
        BY <2>2, <3>2, DocumentAssumption
      <4>2. \A j \in DOMAIN Elements[m] : <<f.name, j - 1>> \in ErrorKeys
        BY <2>1, <4>1 DEF ErrorKeys
      <4>3. <<f.name>> \in ErrorKeys
        BY <2>1 DEF ErrorKeys
      <4>4. QED
        BY <3>1, <3>2, <4>2, <4>3 DEF FieldBlames
    <3>3. CASE f.name \notin DOMAIN Member[n]
      <4>1. <<f.name>> \in ErrorKeys
        BY <2>1 DEF ErrorKeys
      <4>2. QED
        BY <3>3, <4>1 DEF FieldBlames
    <3>4. QED
      BY <3>2, <3>3
  <2>5. QED
    BY <2>4 DEF f
<1>2. WrongKeys(s, n, maps) \subseteq Keys
  BY ConflictKeys
<1>3. QED
  BY <1>1, <1>2 DEF BlamesGiven, ErrorKeys

LEMMA BlamedEquation ==
  Blamed = [p \in Documents |-> BlamesGiven(Blamed, p[1], p[2], <<>>)]
<1> DEFINE D == Documents \X ErrorKeys
           G(P) == [q \in Documents |-> {k \in ErrorKeys : <<q, k>> \in P}]
           F == [P \in SUBSET D |-> {x \in D : x[2] \in BlamesGiven(G(P), x[1][1], x[1][2], <<>>)}]
<1>1. F \in [SUBSET D -> SUBSET D]
  OBVIOUS
<1>2. ASSUME NEW P \in SUBSET D, NEW Q \in SUBSET D, P \subseteq Q PROVE F[P] \subseteq F[Q]
  <2>1. ASSUME NEW p \in Documents
        PROVE  BlamesGiven(G(P), p[1], p[2], <<>>) \subseteq BlamesGiven(G(Q), p[1], p[2], <<>>)
    <3>1. p[1] \in Schemas /\ p[2] \in Nodes
      BY DEF Documents
    <3>2. \A q \in Documents : G(P)[q] \subseteq G(Q)[q]
      BY <1>2
    <3> HIDE DEF G
    <3>3. QED
      BY <3>1, <3>2, BlamesMonotone
  <2> HIDE DEF G
  <2>2. QED
    BY <2>1
<1>3. PICK L \in SUBSET D : F[L] = L
  <2> HIDE DEF F, D
  <2>1. QED
    BY <1>1, <1>2, FixedPoint
<1>4. ASSUME NEW p \in Documents PROVE G(L)[p] = BlamesGiven(G(L), p[1], p[2], <<>>)
  <2>1. BlamesGiven(G(L), p[1], p[2], <<>>) \subseteq ErrorKeys
    <3>1. p[1] \in Schemas /\ p[2] \in Nodes
      BY DEF Documents
    <3>2. MapsType(<<>>)
      BY DEF MapsType, IsSequence
    <3>3. \A q \in Documents : G(L)[q] \subseteq ErrorKeys
      OBVIOUS
    <3> HIDE DEF G
    <3>4. QED
      BY <3>1, <3>2, <3>3, BlamesType
  <2>2. ASSUME NEW k \in ErrorKeys
        PROVE  k \in G(L)[p] <=> k \in BlamesGiven(G(L), p[1], p[2], <<>>)
    <3>1. k \in G(L)[p] <=> <<p, k>> \in L
      OBVIOUS
    <3> HIDE DEF G
    <3>2. <<p, k>> \in F[L] <=> k \in BlamesGiven(G(L), p[1], p[2], <<>>)
      OBVIOUS
    <3>3. QED
      BY <3>1, <3>2, <1>3
  <2>3. G(L)[p] \subseteq ErrorKeys
    OBVIOUS
  <2> HIDE DEF G
  <2>4. QED
    BY <2>1, <2>2, <2>3
<1>5. G(L) = [p \in Documents |-> BlamesGiven(G(L), p[1], p[2], <<>>)]
  BY <1>4
<1>6. \E g : g = [p \in Documents |-> BlamesGiven(g, p[1], p[2], <<>>)]
  <2> HIDE DEF G
  <2>1. QED
    BY <1>5
<1>7. QED
  BY <1>6 DEF Blamed, Documents

LEMMA BlamedIs ==
  ASSUME NEW s \in Schemas, NEW n \in Nodes
  PROVE  Blamed[<<s, n>>] = Blames(s, n, <<>>)
<1> DEFINE p == <<s, n>>
<1>1. p \in Documents /\ p[1] = s /\ p[2] = n
  BY DEF Documents
<1> HIDE DEF p
<1>2. Blamed[p] = BlamesGiven(Blamed, p[1], p[2], <<>>)
  BY <1>1, BlamedEquation
<1>3. QED
  BY <1>1, <1>2 DEF Blames, p

-----------------------------------------------------------------------------
(* Frames.  A frame steps past its current field with what the reference   *)
(* says of it.                                                             *)
LEMMA JudgedPast ==
  ASSUME NEW fr, FrameType(fr), Judged(fr), fr.next \in DOMAIN FieldsOf[fr.schema],
         NEW g, SameCall(fr, g), g.next = fr.next + 1,
         DOMAIN g.errs = DOMAIN fr.errs \cup BlamesFor(fr, fr.next),
         BlamesFor(fr, fr.next) = {} <=> Conformed(fr, fr.next),
         g.elem = 0, DOMAIN g.elemErrs = {}
  PROVE  Judged(g)
<1>1. fr.next \in Nat /\ DOMAIN FieldsOf[fr.schema] = 1..Len(FieldsOf[fr.schema])
  BY NextField, FieldTypes DEF FrameType, CallType
<1>2. PassedFields(g) = PassedFields(fr) \cup {fr.next}
  BY <1>1 DEF PassedFields, SameCall
<1>3. \A j : BlamesFor(g, j) = BlamesFor(fr, j) /\ (Conformed(g, j) <=> Conformed(fr, j))
  BY DEF BlamesFor, Conformed, SameCall
<1>4. DOMAIN g.errs = UNION {BlamesFor(g, j) : j \in PassedFields(g)}
  BY <1>2, <1>3 DEF Judged
<1>5. \A j \in PassedFields(g) : BlamesFor(g, j) = {} <=> Conformed(g, j)
  BY <1>2, <1>3 DEF Judged
<1>6. BadElements(g) = {}
  BY DEF BadElements
<1>7. Shape[g.node] # "invalid" /\ WrongKeys(g.schema, g.node, g.maps) = {}
  BY <1>1 DEF Judged, SameCall
<1>8. QED
  BY <1>4, <1>5, <1>6, <1>7 DEF Judged

(* A frame outside the loop over an array of objects has no failed elements. *)
LEMMA NoElements ==
  ASSUME NEW h, NEW fr, Collected(h, fr), FrameType(fr), Judged(fr), ~ InLoop(fr)
  PROVE  fr.elem = 0 /\ DOMAIN fr.elemErrs = {}
<1>1. fr.elem = 0
  BY DEF Collected, FrameType
<1>2. BadElements(fr) = {}
  BY <1>1 DEF BadElements
<1>3. QED
  BY <1>1, <1>2 DEF Judged

(* The loop moves past one element. *)
LEMMA JudgedElement ==
  ASSUME NEW fr, FrameType(fr), Judged(fr),
         NEW g, SameCall(fr, g), g.next = fr.next, g.errs = fr.errs, g.elem = fr.elem + 1,
         DOMAIN g.elemErrs = DOMAIN fr.elemErrs \cup
           (IF ElementConforms(Conforming, FieldAt(fr), ElementAt(fr, fr.elem + 1))
            THEN {} ELSE {<<FieldAt(fr).name, fr.elem>>})
  PROVE  Judged(g)
<1>1. fr.elem \in Nat
  BY DEF FrameType
<1>2. FieldAt(g) = FieldAt(fr) /\ \A i : ElementAt(g, i) = ElementAt(fr, i)
  BY DEF FieldAt, ElementAt, SameCall
<1>3. BadElements(g) = BadElements(fr) \cup
        (IF ElementConforms(Conforming, FieldAt(fr), ElementAt(fr, fr.elem + 1))
         THEN {} ELSE {fr.elem + 1})
  BY <1>1, <1>2 DEF BadElements
<1>4. (fr.elem + 1) - 1 = fr.elem
  BY <1>1
<1>5. DOMAIN g.elemErrs = {<<FieldAt(g).name, i - 1>> : i \in BadElements(g)}
  BY <1>2, <1>3, <1>4 DEF Judged
<1>6. PassedFields(g) = PassedFields(fr)
  BY DEF PassedFields, SameCall
<1>7. \A j : BlamesFor(g, j) = BlamesFor(fr, j) /\ (Conformed(g, j) <=> Conformed(fr, j))
  BY DEF BlamesFor, Conformed, SameCall
<1>8. QED
  BY <1>5, <1>6, <1>7 DEF Judged, SameCall

(* The frame of a call that has just been made. *)
LEMMA JudgedNew ==
  ASSUME NEW s \in Schemas, NEW n, NEW maps, NEW path, NEW g, g = Frame(s, n, maps, path)
  PROVE  Judged(g)
<1>1. g.schema = s /\ g.next = 0 /\ DOMAIN g.errs = {} /\ g.elem = 0 /\ DOMAIN g.elemErrs = {}
  BY DEF Frame, EmptyMap
<1>2. DOMAIN FieldsOf[s] = 1..Len(FieldsOf[s]) /\ Len(FieldsOf[s]) \in Nat
  BY SchemaAssumption
<1>3. PassedFields(g) = {} /\ BadElements(g) = {}
  BY <1>1, <1>2 DEF PassedFields, BadElements
<1>4. QED
  BY <1>1, <1>3 DEF Judged

(* A field that is not a nested document is blamed exactly if it does not  *)
(* conform.                                                                *)
LEMMA PlainBlames ==
  ASSUME NEW f, NEW n, NEW maps, ~ (f.name \in DOMAIN Member[n] /\ f.kind = "object"),
         f.name \notin DOMAIN Member[n] \/ f.kind \in Kinds
  PROVE  FieldBlames(Blamed, f, n, maps) = {} <=> FieldConforms(Conforming, f, n, maps)
<1>1. CASE FieldConforms(Conforming, f, n, maps)
  BY <1>1 DEF FieldBlames
<1>2. CASE ~ FieldConforms(Conforming, f, n, maps)
  <2> DEFINE m == Member[n][f.name]
  <2>1. CASE f.name \in DOMAIN Member[n] /\ f.kind \in {"array", "objects"} /\ Shape[m] = "array"
    <3>1. ~ NodeConforms(Conforming, f, m)
      BY <1>2, <2>1 DEF FieldConforms
    <3>2. PICK j \in DOMAIN Elements[m] : ~ ElementConforms(Conforming, f, Elements[m][j])
      BY <3>1, <2>1 DEF NodeConforms
    <3>3. <<f.name, j - 1>> \in FieldBlames(Blamed, f, n, maps)
      BY <1>2, <2>1, <3>2 DEF FieldBlames
    <3>4. QED
      BY <1>2, <3>3
  <2>2. CASE ~ (f.name \in DOMAIN Member[n] /\ f.kind \in {"array", "objects"} /\ Shape[m] = "array")
    BY <1>2, <2>2 DEF FieldBlames
  <2>3. QED
    BY <2>1, <2>2
<1>3. QED
  BY <1>1, <1>2

-----------------------------------------------------------------------------
(* Steps of the innermost call.                                            *)
JInv == Inv /\ Judging

LEMMA JudgedTop ==
  ASSUME JInv, stack # <<>>
  PROVE  Judged(Top) /\ FrameType(Top) /\ Collected(heap, Top)
  BY TopFacts DEF JInv, Judging, Top

LEMMA JudgeTop ==
  ASSUME JInv, stack # <<>>, NEW g, SetTop(g), UNCHANGED <<call, heap, result>>,
         SameCall(Top, g), Judged(g)
  PROVE  Judging'
<1>1. IsSequence(stack) /\ stack' = [stack EXCEPT ![Len(stack)] = g]
  BY DEF JInv, Inv, Chain, SetTop
<1>2. /\ IsSequence(stack') /\ DOMAIN stack' = DOMAIN stack /\ Len(stack) \in DOMAIN stack
      /\ stack'[Len(stack)] = g
  BY <1>1, SequenceTop
<1>3. \A i \in DOMAIN stack : i # Len(stack) => stack'[i] = stack[i]
  BY <1>1, SequenceTop
<1> HIDE <1>1
<1>4. \A i \in DOMAIN stack' : Judged(stack'[i])
  BY <1>2, <1>3 DEF JInv, Judging
<1>5. ServesCall'
  <2>1. 1 \in DOMAIN stack
    BY SequenceDomain, <1>2, <1>1
  <2>2. stack'[1].schema = stack[1].schema /\ stack'[1].node = stack[1].node
        /\ stack'[1].maps = stack[1].maps
    BY <1>2, <1>3, <2>1 DEF SameCall, Top
  <2>3. QED
    BY <2>2 DEF JInv, Judging, ServesCall
<1>6. Verdict' /\ AllReported' /\ Admitted'
  BY DEF JInv, Judging, Verdict, AllReported, Admitted
<1>7. (\A i \in DOMAIN stack : Judged(stack[i]))'
  BY <1>4 DEF Judged
<1>8. QED
  BY <1>5, <1>6, <1>7 DEF Judging

LEMMA JudgePush ==
  ASSUME JInv, stack # <<>>, NEW g, Judged(g), stack' = Append(stack, g),
         UNCHANGED <<call, heap, result>>
  PROVE  Judging'
<1>1. IsSequence(stack)
  BY DEF JInv, Inv, Chain
<1>2. /\ DOMAIN stack' = DOMAIN stack \cup {Len(stack) + 1} /\ stack'[Len(stack) + 1] = g
      /\ 1 \in DOMAIN stack
  BY <1>1, SequencePush, SequenceDomain
<1>3. \A i \in DOMAIN stack : stack'[i] = stack[i]
  BY <1>1, SequencePush
<1>4. \A i \in DOMAIN stack' : Judged(stack'[i])
  BY <1>2, <1>3 DEF JInv, Judging
<1>5. ServesCall'
  BY <1>2, <1>3 DEF JInv, Judging, ServesCall
<1>6. Verdict' /\ AllReported' /\ Admitted'
  BY DEF JInv, Judging, Verdict, AllReported, Admitted
<1>7. (\A i \in DOMAIN stack : Judged(stack[i]))'
  BY <1>4 DEF Judged
<1>8. QED
  BY <1>5, <1>6, <1>7 DEF Judging

(* The current field fails, and the reference blames it for the same keys. *)
LEMMA JudgeReject ==
  ASSUME JInv, stack # <<>>, Top.next \in DOMAIN FieldsOf[Top.schema], ~ InLoop(Top),
         NEW e, Reject(e), UNCHANGED <<call, heap, result>>,
         DOMAIN e = FieldBlames(Blamed, Current, Top.node, Top.maps),
         DOMAIN e = {} <=> FieldConforms(Conforming, Current, Top.node, Top.maps)
  PROVE  Judging'
<1> DEFINE g == [Top EXCEPT !.errs = Over(e, @), !.next = @ + 1]
<1>1. SetTop(g)
  BY DEF Reject
<1>2. g = [Top EXCEPT !.errs = Over(e, @), !.next = @ + 1]
  OBVIOUS
<1> HIDE DEF g
<1>3. Judged(Top) /\ FrameType(Top) /\ Collected(heap, Top)
  BY JudgedTop
<1>4. /\ SameCall(Top, g) /\ g.elem = Top.elem /\ g.elemErrs = Top.elemErrs
      /\ g.errs = Over(e, Top.errs) /\ g.next = Top.next + 1
  BY <1>2, <1>3 DEF FrameType, IsFrame, SameCall
<1>5. DOMAIN g.errs = DOMAIN Top.errs \cup DOMAIN e
  BY <1>4 DEF Over
<1>6. g.elem = 0 /\ DOMAIN g.elemErrs = {}
  BY <1>3, <1>4, NoElements
<1>7. /\ BlamesFor(Top, Top.next) = DOMAIN e
      /\ Conformed(Top, Top.next) <=> FieldConforms(Conforming, Current, Top.node, Top.maps)
  BY DEF BlamesFor, Conformed, Current
<1>8. Judged(g)
  BY <1>3, <1>4, <1>5, <1>6, <1>7, JudgedPast
<1>9. QED
  BY <1>1, <1>4, <1>8, JudgeTop

(* The current field conforms: the frame goes on with no more errors.      *)
LEMMA JudgePass ==
  ASSUME JInv, stack # <<>>, Top.next \in DOMAIN FieldsOf[Top.schema], ~ InLoop(Top),
         NEW g, SetTop(g), UNCHANGED <<call, heap, result>>,
         SameCall(Top, g), g.next = Top.next + 1, g.errs = Top.errs,
         g.elem = Top.elem, g.elemErrs = Top.elemErrs,
         FieldBlames(Blamed, Current, Top.node, Top.maps) = {},
         FieldConforms(Conforming, Current, Top.node, Top.maps)
  PROVE  Judging'
<1>1. Judged(Top) /\ FrameType(Top) /\ Collected(heap, Top)
  BY JudgedTop
<1>2. g.elem = 0 /\ DOMAIN g.elemErrs = {}
  BY <1>1, NoElements
<1>3. BlamesFor(Top, Top.next) = {} /\ Conformed(Top, Top.next)
  BY DEF BlamesFor, Conformed, Current
<1>4. Judged(g)
  BY <1>1, <1>2, <1>3, JudgedPast
<1>5. QED
  BY <1>4, JudgeTop

LEMMA JudgeStore ==
  ASSUME JInv, stack # <<>>, Top.next \in DOMAIN FieldsOf[Top.schema], ~ InLoop(Top),
         NEW v, Store(v), UNCHANGED <<call, heap, result>>,
         FieldBlames(Blamed, Current, Top.node, Top.maps) = {},
         FieldConforms(Conforming, Current, Top.node, Top.maps)
  PROVE  Judging'
<1> DEFINE g == [Top EXCEPT !.data = Over(Single(Current.name, v), @), !.next = @ + 1]
<1>1. SetTop(g)
  BY DEF Store
<1>2. g = [Top EXCEPT !.data = Over(Single(Current.name, v), @), !.next = @ + 1]
  OBVIOUS
<1> HIDE DEF g
<1>3. FrameType(Top)
  BY JudgedTop
<1>4. /\ SameCall(Top, g) /\ g.elem = Top.elem /\ g.elemErrs = Top.elemErrs
      /\ g.errs = Top.errs /\ g.next = Top.next + 1
  BY <1>2, <1>3 DEF FrameType, IsFrame, SameCall
<1>5. QED
  BY <1>1, <1>4, JudgePass

(* StoreScalar: a value is accepted exactly if the field conforms. *)
LEMMA JudgeScalar ==
  ASSUME JInv, stack # <<>>, Top.next \in DOMAIN FieldsOf[Top.schema], ~ InLoop(Top),
         NEW v, StoreScalar(v), UNCHANGED <<call, heap, result>>,
         v \in Current.accepts <=> FieldConforms(Conforming, Current, Top.node, Top.maps),
         FieldBlames(Blamed, Current, Top.node, Top.maps) =
           IF FieldConforms(Conforming, Current, Top.node, Top.maps) THEN {} ELSE {<<Current.name>>}
  PROVE  Judging'
<1>1. CASE v \in Current.accepts
  <2>1. Store(Scalar(v))
    BY <1>1 DEF StoreScalar
  <2>2. QED
    BY <1>1, <2>1, JudgeStore
<1>2. CASE v \notin Current.accepts
  <2>1. Reject(ErrorAt(<<Current.name>>))
    BY <1>2 DEF StoreScalar
  <2>2. DOMAIN ErrorAt(<<Current.name>>) = {<<Current.name>>}
    BY DEF ErrorAt, Single
  <2>3. QED
    BY <1>2, <2>1, <2>2, JudgeReject
<1>3. QED
  BY <1>1, <1>2

-----------------------------------------------------------------------------
(* The actions, one by one.                                                *)
LEMMA JudgeBegin ==
  ASSUME JInv, Begin
  PROVE  Judging'
<1> DEFINE g == [Top EXCEPT !.next = 1]
<1>1. /\ stack # <<>> /\ Top.next = 0 /\ SetTop(g) /\ UNCHANGED <<call, heap, result>>
      /\ Shape[Top.node] # "invalid" /\ Conflicts(Top.schema, Top.node, Top.maps) = {}
  BY DEF Begin
<1>2. g = [Top EXCEPT !.next = 1]
  OBVIOUS
<1> HIDE DEF g
<1>3. Judged(Top) /\ FrameType(Top) /\ Collected(heap, Top)
  BY <1>1, JudgedTop
<1>4. /\ SameCall(Top, g) /\ g.elem = Top.elem /\ g.elemErrs = Top.elemErrs
      /\ g.errs = Top.errs /\ g.next = 1
  BY <1>2, <1>3 DEF FrameType, IsFrame, SameCall
<1>5. /\ DOMAIN FieldsOf[Top.schema] = 1..Len(FieldsOf[Top.schema])
      /\ Len(FieldsOf[Top.schema]) \in Nat
      /\ Top.schema \in Schemas /\ Top.node \in Nodes /\ MapsType(Top.maps)
  BY <1>3, SchemaAssumption DEF FrameType, CallType
<1>6. WrongKeys(g.schema, g.node, g.maps) = {} /\ Shape[g.node] # "invalid"
  BY <1>1, <1>4, <1>5, WrongAreConflicts DEF SameCall
<1>7. PassedFields(g) = {} /\ PassedFields(Top) = {}
  BY <1>1, <1>4, <1>5 DEF PassedFields, SameCall
<1>8. ~ InLoop(Top)
  BY <1>1, <1>5 DEF InLoop
<1>9. g.elem = 0 /\ DOMAIN g.elemErrs = {}
  BY <1>3, <1>4, <1>8, NoElements
<1>10. BadElements(g) = {}
  BY <1>9 DEF BadElements
<1>11. DOMAIN g.errs = {}
  BY <1>3, <1>4, <1>7 DEF Judged
<1>12. Judged(g)
  BY <1>6, <1>7, <1>9, <1>10, <1>11 DEF Judged
<1>13. QED
  BY <1>1, <1>4, <1>12, JudgeTop

LEMMA JudgeMissing ==
  ASSUME JInv, Missing
  PROVE  Judging'
<1>1. /\ stack # <<>> /\ Top.next \in DOMAIN FieldsOf[Top.schema] /\ ~ Exists
      /\ Current.name \notin UrlKeys(Top.maps)
      /\ UNCHANGED <<call, heap, result>>
  BY DEF Missing
<1>2. ~ InLoop(Top)
  BY <1>1 DEF InLoop, Exists, Current, FieldAt
<1>3. FieldConforms(Conforming, Current, Top.node, Top.maps) <=> ~ Current.required
  BY <1>1 DEF FieldConforms, Exists
<1>4. FieldBlames(Blamed, Current, Top.node, Top.maps) =
        IF Current.required THEN {<<Current.name>>} ELSE {}
  BY <1>1, <1>3 DEF FieldBlames, Exists
<1>5. CASE Current.required
  <2>1. Reject(ErrorAt(<<Current.name>>))
    BY <1>5 DEF Missing
  <2>2. DOMAIN ErrorAt(<<Current.name>>) = {<<Current.name>>}
    BY DEF ErrorAt, Single
  <2>3. QED
    BY <1>1, <1>2, <1>3, <1>4, <1>5, <2>1, <2>2, JudgeReject
<1>6. CASE ~ Current.required
  <2> DEFINE g == [Top EXCEPT !.next = @ + 1]
  <2>1. SetTop(g)
    BY <1>6 DEF Missing
  <2>2. g = [Top EXCEPT !.next = @ + 1]
    OBVIOUS
  <2> HIDE DEF g
  <2>3. FrameType(Top)
    BY <1>1, JudgedTop
  <2>4. /\ SameCall(Top, g) /\ g.elem = Top.elem /\ g.elemErrs = Top.elemErrs
        /\ g.errs = Top.errs /\ g.next = Top.next + 1
    BY <2>2, <2>3 DEF FrameType, IsFrame, SameCall
  <2>5. QED
    BY <1>1, <1>2, <1>3, <1>4, <1>6, <2>1, <2>4, JudgePass
<1>7. QED
  BY <1>5, <1>6

LEMMA JudgeFromUrl ==
  ASSUME JInv, FromUrl
  PROVE  Judging'
<1> DEFINE v == TextValue[Current.type][UrlPair(Top.maps)[Current.name]]
<1>1. /\ stack # <<>> /\ Top.next \in DOMAIN FieldsOf[Top.schema] /\ ~ Exists
      /\ Current.name \in UrlKeys(Top.maps)
      /\ StoreScalar(v)
      /\ UNCHANGED <<call, heap, result>>
  BY DEF FromUrl
<1>2. ~ InLoop(Top)
  BY <1>1 DEF InLoop, Exists, Current, FieldAt
<1>3. FieldConforms(Conforming, Current, Top.node, Top.maps) <=> v \in Current.accepts
  BY <1>1 DEF FieldConforms, Exists
<1>4. FieldBlames(Blamed, Current, Top.node, Top.maps) =
        IF FieldConforms(Conforming, Current, Top.node, Top.maps) THEN {} ELSE {<<Current.name>>}
  BY <1>1 DEF FieldBlames, Exists
<1>5. QED
  BY <1>1, <1>2, <1>3, <1>4, JudgeScalar

LEMMA JudgeFromScalar ==
  ASSUME JInv, FromScalar
  PROVE  Judging'
<1> DEFINE v == JsonValue[Current.type][Here]
<1>1. /\ stack # <<>> /\ Top.next \in DOMAIN FieldsOf[Top.schema] /\ Exists
      /\ Current.kind = "scalar"
      /\ StoreScalar(v)
      /\ UNCHANGED <<call, heap, result>>
  BY DEF FromScalar, ValidatesField
<1>2. ~ InLoop(Top)
  BY <1>1 DEF InLoop, Current, FieldAt
<1>3. FieldConforms(Conforming, Current, Top.node, Top.maps) <=> v \in Current.accepts
  BY <1>1 DEF FieldConforms, NodeConforms, Exists, Here
<1>4. FieldBlames(Blamed, Current, Top.node, Top.maps) =
        IF FieldConforms(Conforming, Current, Top.node, Top.maps) THEN {} ELSE {<<Current.name>>}
  BY <1>1 DEF FieldBlames, Exists
<1>5. QED
  BY <1>1, <1>2, <1>3, <1>4, JudgeScalar

LEMMA JudgeFromArray ==
  ASSUME JInv, FromArray
  PROVE  Judging'
<1> DEFINE N == Len(Elements[Here])
           value == [i \in 1..N |-> JsonValue[Current.type][Elements[Here][i]]]
           wrong == {i \in 1..N : value[i] \notin Current.accepts}
           f == Current
<1>1. /\ stack # <<>> /\ Top.next \in DOMAIN FieldsOf[Top.schema] /\ Exists
      /\ Current.kind = "array"
      /\ UNCHANGED <<call, heap, result>>
  BY DEF FromArray, ValidatesField
<1>2. ~ InLoop(Top)
  BY <1>1 DEF InLoop, Current, FieldAt
<1>3. Current.name \in DOMAIN Member[Top.node] /\ Here = Member[Top.node][Current.name]
  BY <1>1 DEF Exists, Here
<1>4. FrameType(Top)
  BY <1>1, JudgedTop
<1>5. Here \in Nodes
  BY <1>3, <1>4, DocumentAssumption DEF FrameType, CallType, PartialMap
<1>6. N \in Nat /\ DOMAIN Elements[Here] = 1..N
  BY <1>5, DocumentAssumption
<1>7. FieldConforms(Conforming, f, Top.node, Top.maps) <=> NodeConforms(Conforming, f, Here)
  BY <1>3 DEF FieldConforms
<1>8. NodeConforms(Conforming, f, Here) <=> Shape[Here] = "array" /\ wrong = {}
  BY <1>1, <1>6 DEF NodeConforms, ElementConforms
<1>9. \A i \in 1..N : ElementConforms(Conforming, f, Elements[Here][i]) <=> i \notin wrong
  BY <1>1 DEF ElementConforms
<1>10. CASE Shape[Here] # "array"
  <2>1. Reject(ErrorAt(<<Current.name>>))
    BY <1>10 DEF FromArray
  <2>2. DOMAIN ErrorAt(<<Current.name>>) = {<<Current.name>>}
    BY DEF ErrorAt, Single
  <2>3. FieldBlames(Blamed, f, Top.node, Top.maps) = {<<Current.name>>}
    BY <1>1, <1>3, <1>7, <1>8, <1>10 DEF FieldBlames
  <2>4. QED
    BY <1>1, <1>2, <1>7, <1>8, <1>10, <2>1, <2>2, <2>3, JudgeReject
<1>11. CASE Shape[Here] = "array" /\ wrong = {}
  <2>1. Store(Array(value))
    BY <1>11 DEF FromArray
  <2>2. FieldConforms(Conforming, f, Top.node, Top.maps)
    BY <1>7, <1>8, <1>11
  <2>3. FieldBlames(Blamed, f, Top.node, Top.maps) = {}
    BY <1>1, <2>2 DEF FieldBlames
  <2>4. QED
    BY <1>1, <1>2, <2>1, <2>2, <2>3, JudgeStore
<1>12. CASE Shape[Here] = "array" /\ wrong # {}
  <2> DEFINE e == [k \in {ElementError(Current, i) : i \in wrong} |-> Top.path]
  <2>1. Reject(e)
    BY <1>12 DEF FromArray
  <2>2. DOMAIN e = {<<f.name, i - 1>> : i \in wrong}
    BY DEF ElementError
  <2> HIDE DEF e
  <2>3. ~ FieldConforms(Conforming, f, Top.node, Top.maps)
    BY <1>7, <1>8, <1>12
  <2>4. {j \in DOMAIN Elements[Here] : ~ ElementConforms(Conforming, f, Elements[Here][j])} = wrong
    BY <1>6, <1>9
  <2> HIDE DEF wrong
  <2>5. FieldBlames(Blamed, f, Top.node, Top.maps) = {<<f.name, i - 1>> : i \in wrong}
    BY <1>1, <1>3, <1>12, <2>3, <2>4 DEF FieldBlames
  <2>6. DOMAIN e # {}
    BY <1>12, <2>2
  <2>7. QED
    BY <1>1, <1>2, <2>1, <2>2, <2>3, <2>5, <2>6, JudgeReject
<1>13. QED
  BY <1>10, <1>11, <1>12

LEMMA JudgeEnterObject ==
  ASSUME JInv, EnterObject
  PROVE  Judging'
<1> DEFINE path == Append(Top.path, <<Current.name>>)
           g == Frame(Current.embedded, Here, <<>>, path)
<1>1. ValidatesField("object") /\ stack' = Append(stack, g) /\ UNCHANGED <<call, heap, result>>
  BY DEF EnterObject
<1>2. stack # <<>> /\ Current.embedded \in Schemas
  BY <1>1, NestedFacts DEF JInv
<1>3. Judged(g)
  BY <1>2, JudgedNew
<1> HIDE DEF g
<1>4. QED
  BY <1>1, <1>2, <1>3, JudgePush

LEMMA JudgeNotAnArray ==
  ASSUME JInv, NotAnArray
  PROVE  Judging'
<1>1. /\ ValidatesField("objects") /\ Shape[Here] # "array"
      /\ Reject(ErrorAt(<<Current.name>>)) /\ UNCHANGED <<call, heap, result>>
  BY DEF NotAnArray
<1>2. /\ stack # <<>> /\ Top.next \in DOMAIN FieldsOf[Top.schema] /\ Current.kind = "objects"
      /\ Current.name \in DOMAIN Member[Top.node]
      /\ Current = FieldAt(Top) /\ Here = Member[Top.node][Current.name]
  BY <1>1, NestedFacts DEF JInv
<1>3. ~ InLoop(Top)
  BY <1>1, <1>2 DEF InLoop
<1>4. ~ FieldConforms(Conforming, Current, Top.node, Top.maps)
  BY <1>1, <1>2 DEF FieldConforms, NodeConforms
<1>5. FieldBlames(Blamed, Current, Top.node, Top.maps) = {<<Current.name>>}
  BY <1>1, <1>2, <1>4 DEF FieldBlames
<1>6. DOMAIN ErrorAt(<<Current.name>>) = {<<Current.name>>}
  BY DEF ErrorAt, Single
<1>7. QED
  BY <1>1, <1>2, <1>3, <1>4, <1>5, <1>6, JudgeReject

LEMMA JudgeEnterElement ==
  ASSUME JInv, EnterElement
  PROVE  Judging'
<1> DEFINE element == Elements[Here][Top.elem + 1]
           key == <<Current.name, Top.elem>>
<1>1. ValidatesField("objects") /\ UNCHANGED <<call, heap, result>>
  BY DEF EnterElement
<1>2. /\ stack # <<>> /\ Current = FieldAt(Top) /\ Current.kind = "objects"
      /\ Current.embedded \in Schemas /\ Here = Member[Top.node][Current.name]
  BY <1>1, NestedFacts DEF JInv
<1>3. CASE Shape[element] = "object"
  <2> DEFINE g == Frame(Current.embedded, element, <<>>, Append(Top.path, key))
  <2>1. stack' = Append(stack, g)
    BY <1>3 DEF EnterElement
  <2>2. Judged(g)
    BY <1>2, JudgedNew
  <2> HIDE DEF g
  <2>3. QED
    BY <1>1, <1>2, <2>1, <2>2, JudgePush
<1>4. CASE Shape[element] # "object"
  <2> DEFINE g == [Top EXCEPT !.elemErrs = Over(ErrorAt(key), @), !.elem = @ + 1]
  <2>1. SetTop(g)
    BY <1>4 DEF EnterElement
  <2>2. g = [Top EXCEPT !.elemErrs = Over(ErrorAt(key), @), !.elem = @ + 1]
    OBVIOUS
  <2> HIDE DEF g
  <2>3. Judged(Top) /\ FrameType(Top)
    BY <1>2, JudgedTop
  <2>4. /\ SameCall(Top, g) /\ g.next = Top.next /\ g.errs = Top.errs
        /\ g.elem = Top.elem + 1 /\ g.elemErrs = Over(ErrorAt(key), Top.elemErrs)
    BY <2>2, <2>3 DEF FrameType, IsFrame, SameCall
  <2>5. DOMAIN g.elemErrs = DOMAIN Top.elemErrs \cup {key}
    BY <2>4 DEF Over, ErrorAt, Single
  <2>6. ~ ElementConforms(Conforming, FieldAt(Top), ElementAt(Top, Top.elem + 1))
    BY <1>2, <1>4 DEF ElementConforms, ElementAt
  <2>7. Judged(g)
    BY <1>2, <2>3, <2>4, <2>5, <2>6, JudgedElement
  <2>8. QED
    BY <1>1, <1>2, <2>1, <2>4, <2>7, JudgeTop
<1>5. QED
  BY <1>3, <1>4

LEMMA JudgeEndArray ==
  ASSUME JInv, EndArray
  PROVE  Judging'
<1> DEFINE f == Current
           bad == {j \in DOMAIN Elements[Here] : ~ ElementConforms(Conforming, f, Elements[Here][j])}
<1>1. /\ ValidatesField("objects") /\ Shape[Here] = "array" /\ Top.elem = Len(Elements[Here])
      /\ UNCHANGED <<call, heap, result>>
  BY DEF EndArray
<1>2. /\ stack # <<>> /\ Top.next \in DOMAIN FieldsOf[Top.schema]
      /\ Current = FieldAt(Top) /\ Current.kind = "objects"
      /\ Current.name \in DOMAIN Member[Top.node] /\ Here = Member[Top.node][Current.name]
      /\ Elements[Here] \in Seq(Nodes)
  BY <1>1, NestedFacts DEF JInv
<1>3. Judged(Top) /\ FrameType(Top)
  BY <1>2, JudgedTop
<1>4. BadElements(Top) = bad
  BY <1>1, <1>2 DEF BadElements, ElementAt
<1>5. FieldConforms(Conforming, f, Top.node, Top.maps) <=> bad = {}
  BY <1>1, <1>2 DEF FieldConforms, NodeConforms
<1>6. FieldBlames(Blamed, f, Top.node, Top.maps) = {<<f.name, i - 1>> : i \in bad}
  <2>1. bad = {} => {<<f.name, i - 1>> : i \in bad} = {}
    OBVIOUS
  <2> HIDE DEF bad
  <2>2. CASE bad = {}
    BY <1>2, <1>5, <2>1, <2>2 DEF FieldBlames
  <2>3. CASE bad # {}
    BY <1>1, <1>2, <1>5, <2>3 DEF FieldBlames, bad
  <2>4. QED
    BY <2>2, <2>3
<1>7. DOMAIN Top.elemErrs = {<<f.name, i - 1>> : i \in bad}
  <2> HIDE DEF bad
  <2>1. QED
    BY <1>2, <1>3, <1>4 DEF Judged
<1>8. \E g : /\ SetTop(g) /\ SameCall(Top, g) /\ g.next = Top.next + 1
             /\ g.elem = 0 /\ DOMAIN g.elemErrs = {}
             /\ DOMAIN g.errs = DOMAIN Top.errs \cup DOMAIN Top.elemErrs
             /\ g.errs = Top.errs \/ g.errs = Over(Top.elemErrs, Top.errs)
  <2>1. CASE DOMAIN Top.elemErrs = {}
    <3> DEFINE g == [AfterArray EXCEPT !.data = Over(Single(Current.name, Objects(Top.made)), @)]
    <3>1. SetTop(g)
      BY <2>1 DEF EndArray
    <3>2. g = [AfterArray EXCEPT !.data = Over(Single(Current.name, Objects(Top.made)), @)]
      OBVIOUS
    <3> HIDE DEF g
    <3>3. /\ SameCall(Top, g) /\ g.next = Top.next + 1 /\ g.errs = Top.errs
          /\ g.elem = 0 /\ DOMAIN g.elemErrs = {}
      BY <3>2, <1>3 DEF FrameType, IsFrame, SameCall, AfterArray, EmptyMap
    <3>4. QED
      BY <2>1, <3>1, <3>3
  <2>2. CASE DOMAIN Top.elemErrs # {}
    <3> DEFINE g == [AfterArray EXCEPT !.errs = Over(Top.elemErrs, @)]
    <3>1. SetTop(g)
      BY <2>2 DEF EndArray
    <3>2. g = [AfterArray EXCEPT !.errs = Over(Top.elemErrs, @)]
      OBVIOUS
    <3> HIDE DEF g
    <3>3. /\ SameCall(Top, g) /\ g.next = Top.next + 1
          /\ g.errs = Over(Top.elemErrs, Top.errs)
          /\ g.elem = 0 /\ DOMAIN g.elemErrs = {}
      BY <3>2, <1>3 DEF FrameType, IsFrame, SameCall, AfterArray, EmptyMap
    <3>4. DOMAIN g.errs = DOMAIN Top.errs \cup DOMAIN Top.elemErrs
      BY <3>3 DEF Over
    <3>5. QED
      BY <3>1, <3>3, <3>4
  <2>3. QED
    BY <2>1, <2>2
<1>9. PICK g : /\ SetTop(g) /\ SameCall(Top, g) /\ g.next = Top.next + 1
               /\ g.elem = 0 /\ DOMAIN g.elemErrs = {}
               /\ DOMAIN g.errs = DOMAIN Top.errs \cup DOMAIN Top.elemErrs
               /\ g.errs = Top.errs \/ g.errs = Over(Top.elemErrs, Top.errs)
  BY <1>8
<1>10. BlamesFor(Top, Top.next) = DOMAIN Top.elemErrs
  <2> HIDE DEF bad
  <2>1. QED
    BY <1>6, <1>7 DEF BlamesFor, Current
<1>11. BlamesFor(Top, Top.next) = {} <=> Conformed(Top, Top.next)
  <2>1. bad = {} <=> {<<f.name, i - 1>> : i \in bad} = {}
    OBVIOUS
  <2> HIDE DEF bad
  <2>2. QED
    BY <1>5, <1>7, <1>10, <2>1 DEF Conformed, Current
<1>12. Judged(g)
  BY <1>2, <1>3, <1>9, <1>10, <1>11, JudgedPast
<1>13. QED
  BY <1>1, <1>2, <1>9, <1>12, JudgeTop

-----------------------------------------------------------------------------
(* Returning what the reference says of the frame's schema and node.       *)
Answers(ok, errs, fr) ==
  /\ ok <=> Conforms(fr.schema, fr.node, fr.maps)
  /\ DOMAIN errs = Blames(fr.schema, fr.node, fr.maps)

LEMMA DeliveredJudged ==
  ASSUME NEW h, NEW c, FrameType(c), Collected(h, c), Judged(c),
         NEW fr, FrameType(fr), Awaits(c, fr),
         NEW ok \in BOOLEAN, NEW id, NEW errs, Answers(ok, errs, fr), ok <=> DOMAIN errs = {},
         NEW g, g = Delivered(c, ok, id, errs)
  PROVE  Judged(g)
<1> DEFINE f == FieldAt(c)
           m == Member[c.node][f.name]
           key == <<f.name, c.elem>>
<1>1. IsFrame(c) /\ c.next \in DOMAIN FieldsOf[c.schema]
  BY DEF FrameType, Awaits
<1>2. /\ f.name \in DOMAIN Member[c.node] /\ f.kind \in {"object", "objects"}
      /\ fr.schema = f.embedded /\ fr.maps = <<>>
  BY DEF Awaits
<1>3. fr.schema \in Schemas /\ fr.node \in Nodes
  BY DEF FrameType, CallType
<1>4. /\ Conforming[<<fr.schema, fr.node>>] <=> ok
      /\ Blamed[<<fr.schema, fr.node>>] = DOMAIN errs
  BY <1>2, <1>3, ConformingIs, BlamedIs DEF Answers
<1>5. CASE f.kind = "object"
  <2>1. fr.node = m /\ ~ InLoop(c)
    BY <1>5 DEF Awaits, InLoop
  <2>2. c.elem = 0 /\ DOMAIN c.elemErrs = {}
    BY <2>1, NoElements
  <2>3. BlamesFor(c, c.next) = DOMAIN errs
    BY <1>2, <1>4, <1>5, <2>1 DEF BlamesFor, FieldBlames, FieldAt
  <2>4. Conformed(c, c.next) <=> ok
    BY <1>2, <1>4, <1>5, <2>1 DEF Conformed, FieldConforms, NodeConforms, FieldAt
  <2>5. /\ SameCall(c, g) /\ g.next = c.next + 1 /\ g.elem = c.elem /\ g.elemErrs = c.elemErrs
        /\ g.errs = IF ok THEN c.errs ELSE Over(errs, c.errs)
    BY <1>1, <1>5 DEF Delivered, FieldAt, IsFrame, SameCall
  <2> HIDE DEF f, m, key
  <2>6. DOMAIN g.errs = DOMAIN c.errs \cup DOMAIN errs
    BY <2>5 DEF Over
  <2>7. QED
    BY <1>1, <2>2, <2>3, <2>4, <2>5, <2>6, JudgedPast
<1>6. CASE f.kind = "objects"
  <2>1. fr.node = ElementAt(c, c.elem + 1) /\ Shape[fr.node] = "object"
    BY <1>6 DEF Awaits, ElementAt
  <2>2. ElementConforms(Conforming, f, ElementAt(c, c.elem + 1)) <=> ok
    BY <1>2, <1>4, <1>6, <2>1 DEF ElementConforms
  <2>3. /\ SameCall(c, g) /\ g.next = c.next /\ g.errs = c.errs /\ g.elem = c.elem + 1
        /\ g.elemErrs = IF ok THEN c.elemErrs
                              ELSE Over(Single(key, Append(c.path, key)), c.elemErrs)
    BY <1>1, <1>6 DEF Delivered, FieldAt, IsFrame, SameCall
  <2>4. DOMAIN g.elemErrs = DOMAIN c.elemErrs \cup (IF ok THEN {} ELSE {key})
    BY <2>3 DEF Over, Single
  <2>5. QED
    BY <2>2, <2>3, <2>4, JudgedElement
<1>7. QED
  BY <1>2, <1>5, <1>6

(* The innermost call returns. *)
LEMMA JudgeReturn ==
  ASSUME JInv, stack # <<>>, NEW ok \in BOOLEAN, NEW id, NEW errs,
         Return(ok, id, errs), UNCHANGED call, Admitted',
         Answers(ok, errs, Top), Len(stack) > 1 => (ok <=> DOMAIN errs = {})
  PROVE  Judging'
<1>1. IsSequence(stack) /\ Len(stack) \in Nat /\ Len(stack) \in DOMAIN stack /\ DOMAIN stack = 1..Len(stack)
  BY TopFacts, SequenceDomain DEF JInv, Inv, Chain
<1>2. CASE Len(stack) = 1
  <2>1. stack' = <<>> /\ result' = [done |-> TRUE, ok |-> ok, vo |-> id, errs |-> errs]
    BY <1>2 DEF Return
  <2>2. Top.schema = call.schema /\ Top.node = call.node /\ Top.maps = call.maps
    BY <1>2 DEF JInv, Judging, ServesCall, Top
  <2>3. Verdict' /\ AllReported'
    BY <2>1, <2>2 DEF Verdict, AllReported, Answers
  <2>4. ServesCall' /\ DOMAIN stack' = {}
    BY <2>1 DEF ServesCall
  <2>5. QED
    BY <2>3, <2>4 DEF Judging
<1>3. CASE Len(stack) > 1
  <2> DEFINE n == Len(stack) - 1
             g == Delivered(stack[n], ok, id, errs)
  <2>1. /\ stack' = [i \in 1..n |-> IF i = n THEN Delivered(stack[i], ok, id, errs) ELSE stack[i]]
        /\ result' = result
    <3>1. Len(stack) # 1
      BY <1>1, <1>3
    <3>2. QED
      BY <3>1, Zenon DEF Return
  <2>2. stack' = [i \in 1..n |-> IF i = n THEN g ELSE stack[i]]
    BY <2>1
  <2>3. g = Delivered(stack[n], ok, id, errs)
    OBVIOUS
  <2> HIDE DEF g
  <2>4. n \in 1..(Len(stack) - 1) /\ n \in 1..Len(stack) /\ n + 1 = Len(stack) /\ 1 \in 1..n
    BY <1>1, <1>3
  <2>5. /\ FrameType(stack[n]) /\ Sound(heap, stack[n]) /\ Judged(stack[n])
        /\ FrameType(Top)
    BY <1>1, <2>4, TopFacts DEF JInv, Inv, Chain, Judging
  <2>6. Awaits(stack[n], Top)
    BY <2>4 DEF JInv, Inv, Chain, Top
  <2>7. Judged(g)
    BY <1>3, <2>3, <2>5, <2>6, DeliveredJudged DEF Sound
  <2>8. g.schema = stack[n].schema /\ g.node = stack[n].node /\ g.maps = stack[n].maps
    <3>1. IsFrame(stack[n])
      BY <2>5 DEF FrameType
    <3>2. QED
      BY <2>3, <3>1 DEF Delivered, IsFrame
  <2>9. DOMAIN stack' = 1..n /\ \A i \in 1..n : stack'[i] = IF i = n THEN g ELSE stack[i]
    BY <2>2
  <2>10. (\A i \in DOMAIN stack : Judged(stack[i]))'
    <3>1. \A i \in 1..n : i \in DOMAIN stack
      BY <1>1
    <3>2. \A i \in DOMAIN stack' : Judged(stack'[i])
      BY <2>7, <2>9, <3>1 DEF JInv, Judging
    <3>3. QED
      BY <3>2 DEF Judged
  <2>11. ServesCall'
    <3>1. /\ stack'[1].schema = stack[1].schema /\ stack'[1].node = stack[1].node
          /\ stack'[1].maps = stack[1].maps
      BY <2>4, <2>8, <2>9
    <3>2. QED
      BY <3>1 DEF JInv, Judging, ServesCall
  <2>12. Verdict' /\ AllReported'
    BY <2>1 DEF JInv, Judging, Verdict, AllReported
  <2>13. QED
    BY <2>10, <2>11, <2>12 DEF Judging
<1>4. QED
  BY <1>1, <1>2, <1>3

LEMMA JudgeInvalidJson ==
  ASSUME JInv, InvalidJson
  PROVE  Judging'
<1>1. stack # <<>> /\ Shape[Top.node] = "invalid" /\ Return(FALSE, 0, EmptyMap) /\ UNCHANGED call
  BY DEF InvalidJson
<1>2. Len(stack) > 1 => FALSE
  BY <1>1, NestedValid DEF JInv
<1>3. DOMAIN EmptyMap = {}
  BY DEF EmptyMap
<1>4. Answers(FALSE, EmptyMap, Top)
  BY <1>1, <1>3 DEF Answers, Conforms, ConformsGiven, Blames, BlamesGiven
<1>5. Admitted'
  BY DEF JInv, Judging, Admitted, InvalidJson
<1>6. QED
  BY <1>1, <1>2, <1>4, <1>5, JudgeReturn

LEMMA JudgeFailFirst ==
  ASSUME JInv, FailFirst
  PROVE  Judging'
<1> DEFINE keys == Conflicts(Top.schema, Top.node, Top.maps)
           errs == [k \in {<<x>> : x \in keys} |-> Top.path]
<1>1. /\ stack # <<>> /\ keys # {} /\ Return(FALSE, 0, errs) /\ UNCHANGED call
      /\ Shape[Top.node] # "invalid"
  BY DEF FailFirst
<1>2. Top.schema \in Schemas /\ Top.node \in Nodes /\ MapsType(Top.maps)
  BY <1>1, JudgedTop DEF FrameType, CallType
<1>3. WrongKeys(Top.schema, Top.node, Top.maps) = keys
  BY <1>2, WrongAreConflicts
<1>4. DOMAIN errs = {<<x>> : x \in keys}
  OBVIOUS
<1> HIDE DEF keys, errs
<1>5. Answers(FALSE, errs, Top)
  BY <1>1, <1>3, <1>4 DEF Answers, Conforms, ConformsGiven, Blames, BlamesGiven
<1>6. DOMAIN errs # {}
  BY <1>1, <1>4
<1>7. Admitted'
  BY DEF JInv, Judging, Admitted, FailFirst
<1>8. QED
  BY <1>1, <1>5, <1>6, <1>7, JudgeReturn

LEMMA JudgeFinish ==
  ASSUME JInv, Finish
  PROVE  Judging'
<1>1. stack # <<>> /\ Top.next = Len(FieldsOf[Top.schema]) + 1 /\ UNCHANGED call
  BY DEF Finish
<1>2. Judged(Top) /\ FrameType(Top)
  BY <1>1, JudgedTop
<1>3. DOMAIN FieldsOf[Top.schema] = 1..Len(FieldsOf[Top.schema]) /\ Len(FieldsOf[Top.schema]) \in Nat
  BY <1>2, SchemaAssumption DEF FrameType, CallType
<1>4. PassedFields(Top) = DOMAIN FieldsOf[Top.schema]
  BY <1>1, <1>3 DEF PassedFields
<1>5. Shape[Top.node] # "invalid" /\ WrongKeys(Top.schema, Top.node, Top.maps) = {}
  BY <1>1, <1>2, <1>3 DEF Judged
<1>6. DOMAIN Top.errs = Blames(Top.schema, Top.node, Top.maps)
  BY <1>2, <1>4, <1>5 DEF Judged, BlamesFor, Blames, BlamesGiven
<1>7. DOMAIN Top.errs = {} <=> Conforms(Top.schema, Top.node, Top.maps)
  <2>1. DOMAIN Top.errs = {} <=> \A j \in DOMAIN FieldsOf[Top.schema] : BlamesFor(Top, j) = {}
    BY <1>2, <1>4 DEF Judged
  <2>2. \A j \in DOMAIN FieldsOf[Top.schema] : BlamesFor(Top, j) = {} <=> Conformed(Top, j)
    BY <1>2, <1>4 DEF Judged
  <2>3. QED
    BY <1>5, <2>1, <2>2 DEF Conforms, ConformsGiven, Conformed
<1>8. DOMAIN EmptyMap = {}
  BY DEF EmptyMap
<1>9. CASE DOMAIN Top.errs = {}
  <2>1. Return(TRUE, Len(heap) + 1, EmptyMap)
    BY <1>9 DEF Finish
  <2>2. Answers(TRUE, EmptyMap, Top)
    BY <1>6, <1>7, <1>8, <1>9 DEF Answers
  <2>3. Admitted'
    <3>1. PICK o : /\ heap' = Append(heap, o)
                   /\ o.schema = Top.schema /\ o.node = Top.node /\ o.maps = Top.maps
      BY <1>9 DEF Finish
    <3>2. IsSequence(heap)
      BY DEF JInv, Inv, TypeOK
    <3>3. DOMAIN heap' = DOMAIN heap \cup {Len(heap) + 1} /\ heap'[Len(heap) + 1] = o
      BY <3>1, <3>2, SequencePush
    <3>4. \A i \in DOMAIN heap : heap'[i] = heap[i]
      BY <3>1, <3>2, SequencePush
    <3>5. QED
      BY <1>5, <3>1, <3>3, <3>4 DEF JInv, Judging, Admitted
  <2>4. QED
    BY <1>1, <1>8, <2>1, <2>2, <2>3, JudgeReturn
<1>10. CASE DOMAIN Top.errs # {}
  <2>1. Return(FALSE, 0, Top.errs)
    BY <1>10 DEF Finish
  <2>2. Answers(FALSE, Top.errs, Top)
    BY <1>6, <1>7, <1>10 DEF Answers
  <2>3. Admitted'
    BY <1>10 DEF Finish, JInv, Judging, Admitted
  <2>4. QED
    BY <1>1, <1>10, <2>1, <2>2, <2>3, JudgeReturn
<1>11. QED
  BY <1>9, <1>10

-----------------------------------------------------------------------------
LEMMA JudgingInit == Init => Judging
<1> SUFFICES ASSUME Init PROVE Judging
  OBVIOUS
<1> DEFINE g == Frame(call.schema, call.node, call.maps, <<>>)
<1>1. stack = <<g>> /\ heap = <<>> /\ call.schema \in Schemas /\ ~ result.done
  BY CallAssumption DEF Init, CallType
<1>2. g.schema = call.schema /\ g.node = call.node /\ g.maps = call.maps
  BY DEF Frame
<1>3. Judged(g)
  BY <1>1, JudgedNew
<1> HIDE DEF g
<1>4. DOMAIN stack = {1} /\ stack[1] = g
  BY <1>1
<1>5. QED
  BY <1>1, <1>2, <1>3, <1>4 DEF Judging, ServesCall, Verdict, AllReported, Admitted

LEMMA JudgingNext == Inv /\ Judging /\ [Next]_vars => Judging'
<1> SUFFICES ASSUME JInv, [Next]_vars PROVE Judging'
  BY DEF JInv
<1>1. CASE UNCHANGED vars
  <2>1. (\A i \in DOMAIN stack : Judged(stack[i]))'
    BY <1>1 DEF vars, JInv, Judging, Judged
  <2>2. ServesCall' /\ Verdict' /\ AllReported' /\ Admitted'
    BY <1>1 DEF vars, JInv, Judging, ServesCall, Verdict, AllReported, Admitted
  <2>3. QED
    BY <1>1, <2>1, <2>2 DEF Judging
<1>2. CASE Next
  BY <1>2, JudgeInvalidJson, JudgeFailFirst, JudgeBegin, JudgeMissing, JudgeFromUrl,
     JudgeFromScalar, JudgeFromArray, JudgeEnterObject, JudgeNotAnArray, JudgeEnterElement,
     JudgeEndArray, JudgeFinish DEF Next
<1>3. QED
  BY <1>1, <1>2

(* What each active call has found out is what the reference says. *)
THEOREM AlwaysJudged == Spec => []Judging
  BY JudgingInit, JudgingNext, Invariance, PTL DEF Spec

(* Whatever the schemas, the document and the depth of nesting: Validate   *)
(* answers Ok exactly for what conforms.                                   *)
THEOREM VerdictIsRight == Spec => []Verdict
<1>1. Judging => Verdict
  BY DEF Judging
<1>2. QED
  BY <1>1, AlwaysJudged, PTL

(* A call that fails names every field that failed, at any depth, and no   *)
(* other.                                                                  *)
THEOREM AllErrorsReported == Spec => []AllReported
<1>1. Judging => AllReported
  BY DEF Judging
<1>2. QED
  BY <1>1, AlwaysJudged, PTL

(* README, "Type-Safe Access", as far as it goes: what is stored under a   *)
(* field has another kind only where a lenient schema took a URL parameter *)
(* with the name of a nested field that the document does not have.        *)
SafeUnlessUrl ==
  \A o \in DOMAIN heap : \A i \in DOMAIN FieldsOf[heap[o].schema] :
    LET f == FieldsOf[heap[o].schema][i]
    IN  f.name \in DOMAIN heap[o].data /\ heap[o].data[f.name].kind # f.kind =>
          /\ heap[o].schema \in Lenient /\ f.kind # "scalar"
          /\ f.name \in UrlKeys(heap[o].maps) \ DOMAIN Member[heap[o].node]

LEMMA OtherKindFromUrl ==
  ASSUME NEW h, NEW data, NEW f, NEW n, NEW maps, Holds(h, data, f, n, maps),
         f.name \in DOMAIN data, data[f.name].kind # f.kind
  PROVE  f.kind # "scalar" /\ f.name \in UrlKeys(maps) \ DOMAIN Member[n]
<1>1. f.name \in UrlKeys(maps) \ DOMAIN Member[n]
  BY DEF Holds, Represents
<1>2. data[f.name] = Scalar(TextValue[f.type][UrlPair(maps)[f.name]])
  BY <1>1 DEF Holds
<1>3. QED
  BY <1>1, <1>2 DEF Scalar

LEMMA OnlyUrlIsUnsafe == Inv /\ Admitted => SafeUnlessUrl
<1> SUFFICES ASSUME Inv, Admitted, NEW o \in DOMAIN heap,
                    NEW i \in DOMAIN FieldsOf[heap[o].schema],
                    NEW f, f = FieldsOf[heap[o].schema][i],
                    f.name \in DOMAIN heap[o].data, heap[o].data[f.name].kind # f.kind
             PROVE  /\ heap[o].schema \in Lenient /\ f.kind # "scalar"
                    /\ f.name \in UrlKeys(heap[o].maps) \ DOMAIN Member[heap[o].node]
  BY DEF SafeUnlessUrl
<1>1. Holds(heap, heap[o].data, f, heap[o].node, heap[o].maps)
  BY DEF Inv, Faithful, FaithfulObject
<1>2. heap[o].schema \in Schemas
  BY DEF Inv, TypeOK, ObjectType, CallType
<1>3. f.kind # "scalar" /\ f.name \in UrlKeys(heap[o].maps) \ DOMAIN Member[heap[o].node]
  BY <1>1, OtherKindFromUrl
<1>4. f.name \notin PlainNames(heap[o].schema)
  BY <1>2, <1>3, SchemaAssumption DEF PlainNames
<1>5. heap[o].schema \in Lenient
  BY <1>3, <1>4 DEF Admitted, WrongKeys
<1>6. QED
  BY <1>3, <1>5

(* A stored value has another kind than its field only where it is from a  *)
(* URL parameter of a lenient schema (view/vo.go:648).                     *)
THEOREM UnsafeOnlyFromUrl == Spec => []SafeUnlessUrl
<1>1. Judging => Admitted
  BY DEF Judging
<1>2. QED
  BY <1>1, OnlyUrlIsUnsafe, Invariance, AlwaysJudged, PTL

(* Without lenient schemas every stored value has the kind of its field.   *)
THEOREM StrictIsTypeSafe ==
  ASSUME Lenient = {}
  PROVE  Spec => []TypeSafe
<1>1. SafeUnlessUrl => TypeSafe
  BY DEF SafeUnlessUrl, TypeSafe
<1>2. QED
  BY <1>1, UnsafeOnlyFromUrl, PTL

-----------------------------------------------------------------------------
(* Bind has the verdict of a flat schema as operators on what it says of a *)
(* request.  They are the verdict of the call its middleware makes.        *)
Route(s) == INSTANCE Bind WITH
  R <- {}, S <- {}, Dotted <- {}, Fields <- Names(s),
  Required <- {FieldsOf[s][i].name : i \in {j \in DOMAIN FieldsOf[s] : FieldsOf[s][j].required}},
  Lenient <- (s \in Lenient), Enrichers <- {}, NoEnricher <- <<>>, Adds <- <<>>, Inputs <- {},
  once <- "idle", enrich <- <<>>, set <- <<>>, arg <- <<>>, pc <- <<>>, req <- <<>>,
  data <- <<>>, todo <- <<>>, context <- <<>>, since <- <<>>

Requests ==
  [read : {"ok", "malformed"}, body : SUBSET Keys, path : SUBSET Keys, query : SUBSET Keys,
   twice : SUBSET Keys, bad : SUBSET Keys]

(* A call with these arguments is made for the request q: one map of the   *)
(* parameters, a flat schema, and `bad' has the names whose value the      *)
(* field refuses.                                                          *)
MadeFor(s, n, maps, q) ==
  LET url == maps[1]
  IN  /\ maps = <<url>> /\ DOMAIN url = q.path \cup q.query
      /\ Shape[n] = IF q.read = "malformed" THEN "invalid" ELSE "object"
      /\ q.read = "ok" => DOMAIN Member[n] = q.body
      /\ \A i \in DOMAIN FieldsOf[s] :
           LET f == FieldsOf[s][i]
           IN  /\ f.kind = "scalar"
               /\ f.name \in q.body /\ q.read = "ok" =>
                    (f.name \in q.bad <=> JsonValue[f.type][Member[n][f.name]] \notin f.accepts)
               /\ f.name \in DOMAIN url \ q.body =>
                    (f.name \in q.bad <=> TextValue[f.type][url[f.name]] \notin f.accepts)

(* The call answers what Bind takes it to answer, and a failed one names   *)
(* the parameters and keys in conflict or else the fields that failed.     *)
AnsweredAsBindSays ==
  result.done => \A s \in Schemas, q \in Requests :
    s = call.schema /\ MadeFor(s, call.node, call.maps, q) =>
    /\ result.ok <=> Route(s)!Valid(q)
    /\ DOMAIN result.errs =
         IF q.read = "malformed" THEN {}
         ELSE IF Route(s)!Conflicts(q) # {}
         THEN {<<k>> : k \in Route(s)!Conflicts(q)}
         ELSE {<<k>> : k \in Route(s)!Failed(q)}

LEMMA OneMap ==
  ASSUME NEW maps, NEW url, maps = <<url>>
  PROVE  /\ UrlKeys(maps) = DOMAIN url
         /\ \A k \in DOMAIN url : UrlPair(maps)[k] = url[k]
<1>1. DOMAIN maps = {1} /\ maps[1] = url
  OBVIOUS
<1>2. UrlKeys(maps) = DOMAIN url
  BY <1>1 DEF UrlKeys
<1>3. QED
  BY <1>1, <1>2 DEF UrlPair

LEMMA FlatConflicts ==
  ASSUME NEW s \in Schemas, NEW n \in Nodes, NEW maps, MapsType(maps),
         NEW q \in Requests, MadeFor(s, n, maps, q), q.read = "ok"
  PROVE  WrongKeys(s, n, maps) = Route(s)!Conflicts(q)
<1> DEFINE url == maps[1]
<1>1. maps = <<url>> /\ DOMAIN url = q.path \cup q.query
  BY DEF MadeFor
<1>2. JsonKeys(n) = q.body
  BY DEF MadeFor, JsonKeys
<1>3. PlainNames(s) = Names(s)
  BY DEF MadeFor, PlainNames, Names
<1>4. UrlKeys(maps) = q.path \cup q.query
  BY <1>1, OneMap
<1>5. DOMAIN maps = {1}
  BY <1>1
<1>6. WrongKeys(s, n, maps) = Conflicts(s, n, maps)
  BY WrongAreConflicts
<1> QED
  BY <1>2, <1>3, <1>4, <1>5, <1>6 DEF Conflicts, Route!Conflicts, Route!Params

LEMMA FlatField ==
  ASSUME NEW s \in Schemas, NEW n \in Nodes, NEW maps, MapsType(maps),
         NEW q \in Requests, MadeFor(s, n, maps, q), q.read = "ok",
         NEW i \in DOMAIN FieldsOf[s]
  PROVE  LET f == FieldsOf[s][i]
         IN  /\ FieldConforms(Conforming, f, n, maps) <=> f.name \notin Route(s)!Failed(q)
             /\ FieldBlames(Blamed, f, n, maps) =
                  IF f.name \in Route(s)!Failed(q) THEN {<<f.name>>} ELSE {}
<1> DEFINE f == FieldsOf[s][i]
           url == maps[1]
<1>1. maps = <<url>> /\ DOMAIN url = q.path \cup q.query
  BY DEF MadeFor
<1>2. /\ UrlKeys(maps) = q.path \cup q.query
      /\ \A k \in q.path \cup q.query : UrlPair(maps)[k] = url[k]
  BY <1>1, OneMap
<1>3. /\ DOMAIN Member[n] = q.body
      /\ f.kind = "scalar"
      /\ f.name \in q.body =>
           (f.name \in q.bad <=> JsonValue[f.type][Member[n][f.name]] \notin f.accepts)
      /\ f.name \in DOMAIN url \ q.body =>
           (f.name \in q.bad <=> TextValue[f.type][url[f.name]] \notin f.accepts)
  BY DEF MadeFor
<1>4. f.name \in Names(s)
  BY DEF Names
<1>5. f.name \in {FieldsOf[s][k].name :
                    k \in {j \in DOMAIN FieldsOf[s] : FieldsOf[s][j].required}}
      <=> f.required
  BY SchemaAssumption
<1> DEFINE given == q.body \cup (q.path \cup q.query)
<1>6. f.name \in Route(s)!Failed(q) <=>
        IF f.name \in given THEN f.name \in q.bad ELSE f.required
  BY <1>4, <1>5 DEF Route!Failed, Route!Params
<1>7. FieldConforms(Conforming, f, n, maps) <=>
        IF f.name \in given THEN f.name \notin q.bad ELSE ~ f.required
  <2> HIDE DEF f, url
  <2> QED
    BY <1>1, <1>2, <1>3 DEF FieldConforms, NodeConforms
<1>8. FieldConforms(Conforming, f, n, maps) <=> f.name \notin Route(s)!Failed(q)
  <2>1. f.required \in BOOLEAN
    BY FieldTypes DEF Field
  <2> HIDE DEF f, given
  <2> QED
    BY <1>6, <1>7, <2>1
<1>9. FieldBlames(Blamed, f, n, maps) =
        IF FieldConforms(Conforming, f, n, maps) THEN {} ELSE {<<f.name>>}
  <2> HIDE DEF f
  <2> QED
    BY <1>3 DEF FieldBlames
<1> HIDE DEF f
<1>10. QED
  BY <1>8, <1>9 DEF f

LEMMA FlatVerdict ==
  ASSUME NEW s \in Schemas, NEW n \in Nodes, NEW maps, MapsType(maps),
         NEW q \in Requests, MadeFor(s, n, maps, q)
  PROVE  /\ Conforms(s, n, maps) <=> Route(s)!Valid(q)
         /\ Blames(s, n, maps) =
              IF q.read = "malformed" THEN {}
              ELSE IF Route(s)!Conflicts(q) # {}
              THEN {<<k>> : k \in Route(s)!Conflicts(q)}
              ELSE {<<k>> : k \in Route(s)!Failed(q)}
<1>1. CASE q.read = "malformed"
  <2>1. Shape[n] = "invalid"
    BY <1>1 DEF MadeFor
  <2> QED
    BY <1>1, <2>1 DEF Conforms, ConformsGiven, Blames, BlamesGiven, Route!Valid
<1>2. CASE q.read = "ok"
  <2>1. Shape[n] # "invalid"
    BY <1>2 DEF MadeFor
  <2>2. WrongKeys(s, n, maps) = Route(s)!Conflicts(q)
    BY <1>2, FlatConflicts
  <2> DEFINE F == Route(s)!Failed(q)
             f(i) == FieldsOf[s][i]
  <2>3. \A i \in DOMAIN FieldsOf[s] :
          /\ FieldConforms(Conforming, f(i), n, maps) <=> f(i).name \notin F
          /\ FieldBlames(Blamed, f(i), n, maps) = IF f(i).name \in F THEN {<<f(i).name>>} ELSE {}
    BY <1>2, FlatField
  <2>4. F \subseteq Names(s)
    BY DEF Route!Failed
  <2> HIDE DEF F
  <2>5. F = {} <=> \A i \in DOMAIN FieldsOf[s] : f(i).name \notin F
    BY <2>4 DEF Names
  <2>6. UNION {FieldBlames(Blamed, f(i), n, maps) : i \in DOMAIN FieldsOf[s]}
        = {<<k>> : k \in F}
    <3> DEFINE G(i) == FieldBlames(Blamed, f(i), n, maps)
    <3>1. \A i \in DOMAIN FieldsOf[s] : G(i) = IF f(i).name \in F THEN {<<f(i).name>>} ELSE {}
      BY <2>3
    <3>2. \A k \in F : \E i \in DOMAIN FieldsOf[s] : f(i).name = k
      BY <2>4 DEF Names
    <3> HIDE DEF G, f
    <3>3. UNION {G(i) : i \in DOMAIN FieldsOf[s]} = {<<k>> : k \in F}
      BY <3>1, <3>2
    <3> QED
      BY <3>3 DEF G
  <2>7. Conforms(s, n, maps) <=> Route(s)!Conflicts(q) = {} /\ F = {}
    BY <2>1, <2>2, <2>3, <2>5 DEF Conforms, ConformsGiven
  <2>8. Blames(s, n, maps) =
          IF Route(s)!Conflicts(q) # {}
          THEN {<<k>> : k \in Route(s)!Conflicts(q)} ELSE {<<k>> : k \in F}
    BY <2>1, <2>2, <2>6 DEF Blames, BlamesGiven
  <2> QED
    BY <1>2, <2>7, <2>8 DEF F, Route!Valid
<1> QED
  BY <1>1, <1>2 DEF Requests

(* What Bind takes for the verdict of a flat schema is the one Validate    *)
(* reaches, field by field (view/gin/vom/gin_middleware.go:56).            *)
THEOREM BindHasTheVerdict == Spec => []AnsweredAsBindSays
<1>1. ASSUME Inv, Judging, result.done, NEW s \in Schemas, NEW q \in Requests,
             s = call.schema, MadeFor(s, call.node, call.maps, q)
      PROVE  /\ result.ok <=> Route(s)!Valid(q)
             /\ DOMAIN result.errs =
                  IF q.read = "malformed" THEN {}
                  ELSE IF Route(s)!Conflicts(q) # {}
                  THEN {<<k>> : k \in Route(s)!Conflicts(q)}
                  ELSE {<<k>> : k \in Route(s)!Failed(q)}
  <2>1. call.node \in Nodes /\ MapsType(call.maps)
    BY <1>1 DEF Inv, TypeOK, CallType
  <2>2. /\ result.ok <=> Conforms(s, call.node, call.maps)
        /\ DOMAIN result.errs = Blames(s, call.node, call.maps)
    BY <1>1 DEF Judging, Verdict, AllReported
  <2> QED
    BY <1>1, <2>1, <2>2, FlatVerdict
<1>2. Inv /\ Judging => AnsweredAsBindSays
  BY <1>1, Zenon DEF AnsweredAsBindSays
<1> QED
  BY <1>2, Invariance, AlwaysJudged, PTL

=============================================================================
