--------------------------- MODULE GeneratorProofs ---------------------------
(***************************************************************************)
(* Proofs about the generator for any entities, projects and adapters and  *)
(* any number of runs and edits.  The first part is about the files: what  *)
(* is derived from an entity and what a file contains is not looked into   *)
(* there.  The second is about the columns derived from a struct: each     *)
(* step of the walk and of the sort is shown to place the members it has   *)
(* seen, one at each column, and the walk ends because Go's structs do not *)
(* contain themselves.                                                     *)
(***************************************************************************)
EXTENDS EntityReference, FiniteSetTheorems, SequenceTheorems, NaturalsInduction, TLAPS

Active == pc \in {"fields", "schemas"} \/ outcome = "ok"

Detected == adapters \in SetToSeqs(Registered(project)) /\ Registered(project) # {}

Derived == [i \in Asked |-> Meta(current, EntityOrder[i])]

(* Where a run has got to: until there is metadata nothing is written, and *)
(* the places that are done come before those that are left.               *)
Stage ==
  /\ pc = "meta" \/ Active => current # NoProject /\ Detected
  /\ pc \in {"started", "meta"} => files = before /\ DOMAIN metas = {} /\ turn = 0
  /\ pc = "fields" => turn = 0
  /\ pc = "schemas" => turn \in 1..Len(adapters)
  /\ Active => metas = Derived
  /\ outcome = "ok" => turn = Len(adapters) /\ left = {}
  /\ outcome = "running" <=> pc # "idle"
  /\ Active => \A i \in DOMAIN metas \ left, j \in left : i < j

(* The file of place i in turn t is there, or a later place has its path.  *)
Settled(t, i) ==
  \/ /\ Path(adapters, t, metas[i]) \in DOMAIN files
     /\ files[Path(adapters, t, metas[i])] = Content(adapters, t, metas[i])
  \/ \E j \in DOMAIN metas : j > i /\ Path(adapters, t, metas[i]) = Path(adapters, t, metas[j])

Done ==
  Active => \A t \in 0..turn : \A i \in DOMAIN metas : t < turn \/ i \notin left => Settled(t, i)

Inv == TypeOK /\ Stage /\ Done /\ LeftBehind /\ RefusedUntouched

-----------------------------------------------------------------------------
(* Lemmas about what is derived and about paths. *)

(* The adapters of a project, in whatever order, are each there once. *)
LEMMA DetectedForm ==
  ASSUME Detected
  PROVE  /\ adapters \in Seq(Adapters)
         /\ Len(adapters) = Cardinality(Registered(project))
         /\ Len(adapters) \in Nat \ {0}
         /\ \A t, u \in 1..Len(adapters) : t # u => adapters[t] # adapters[u]
<1>1. IsFiniteSet(Registered(project)) /\ Registered(project) \subseteq Adapters
  BY GeneratorAssumption, FS_Subset DEF Registered
<1>2. Cardinality(Registered(project)) \in Nat \ {0}
  BY <1>1, FS_CardinalityType, FS_EmptySet DEF Detected
<1>3. /\ adapters \in [1..Cardinality(Registered(project)) -> Registered(project)]
      /\ \A i, j \in 1..Cardinality(Registered(project)) : i # j => adapters[i] # adapters[j]
  BY DEF Detected, SetToSeqs
<1>4. adapters \in Seq(Adapters) /\ Len(adapters) = Cardinality(Registered(project))
  BY <1>1, <1>2, <1>3
<1> QED
  BY <1>2, <1>3, <1>4

(* Directories of schemas tell adapters apart. *)
LEMMA SchemaPathForm ==
  ASSUME NEW m, NEW n, NEW a, NEW b
  PROVE  /\ SchemaPath(m, a) = SchemaPath(n, b) => a = b
         /\ a \in Adapters /\ m.entity \in Entities => SchemaPath(m, a) \in Paths
<1>1. SchemaPath(m, a) = SchemaPath(n, b) => a = b
  BY DEF SchemaPath
<1>2. ASSUME a \in Adapters, m.entity \in Entities PROVE SchemaPath(m, a) \in Paths
  BY <1>2 DEF SchemaPath, Paths
<1> QED
  BY <1>1, <1>2

(* Files of different turns are different files. *)
LEMMA PathTurn ==
  ASSUME NEW ads, NEW m, NEW n, NEW t \in 0..Len(ads), NEW u \in 0..Len(ads),
         Len(ads) \in Nat, \A i, j \in 1..Len(ads) : i # j => ads[i] # ads[j],
         Path(ads, t, m) = Path(ads, u, n)
  PROVE  t = u
<1>1. CASE t = 0 /\ u # 0
  BY <1>1 DEF Path, FieldPath, SchemaPath
<1>2. CASE t # 0 /\ u = 0
  BY <1>2 DEF Path, FieldPath, SchemaPath
<1>3. CASE t # 0 /\ u # 0
  <2>1. SchemaPath(m, ads[t]) = SchemaPath(n, ads[u])
    BY <1>3 DEF Path
  <2>2. ads[t] = ads[u]
    BY <2>1, SchemaPathForm
  <2>3. t \in 1..Len(ads) /\ u \in 1..Len(ads)
    BY <1>3
  <2> QED
    BY <2>2, <2>3
<1> QED
  BY <1>1, <1>2, <1>3

(* A path of an entity of the metadata is a path of a generated file. *)
LEMMA PathForm ==
  ASSUME NEW ads \in Seq(Adapters), NEW t \in 0..Len(ads), NEW m, m.entity \in Entities
  PROVE  Path(ads, t, m) \in Paths
<1>1. CASE t = 0
  BY <1>1 DEF Path, FieldPath, Paths
<1>2. CASE t # 0
  <2>1. Len(ads) \in Nat /\ ads \in [1..Len(ads) -> Adapters]
    OBVIOUS
  <2>2. ads[t] \in Adapters
    BY <1>2, <2>1
  <2>3. SchemaPath(m, ads[t]) \in Paths
    BY <2>2, SchemaPathForm
  <2> QED
    BY <1>2, <2>3 DEF Path
<1> QED
  BY <1>1, <1>2

(* The metadata of an entity is about that entity. *)
LEMMA MetaForm ==
  ASSUME NEW src \in Sources, NEW e \in Entities, src[e] # Gone
  PROVE  Meta(src, e).entity = e
<1>1. src[e] \in Decls[e]
  BY DEF Sources
<1> QED
  BY <1>1 DEF Meta, MetaOf

(* What is asked for are places of entities that are there. *)
LEMMA AskedForm ==
  /\ Asked \subseteq DOMAIN EntityOrder
  /\ \A i \in Asked : EntityOrder[i] \in Entities /\ current[EntityOrder[i]] # Gone
BY GeneratorAssumption DEF Asked, Selected, StructsImplementEntity, Implements

(* The earliest place is the only one. *)
LEMMA EarliestOnly ==
  ASSUME DOMAIN metas \subseteq DOMAIN EntityOrder, left \subseteq DOMAIN metas,
         NEW k, NEW l, Earliest(k), Earliest(l)
  PROVE  k = l
<1>1. k \in Nat /\ l \in Nat
  BY GeneratorAssumption DEF Earliest
<1> QED
  BY <1>1 DEF Earliest

-----------------------------------------------------------------------------
(* Steps that leave the files alone. *)

(* Neither what is written nor what is said about it looks at the source. *)
LEMMA SettledSame ==
  ASSUME NEW t, NEW i, Settled(t, i), UNCHANGED <<files, adapters, metas>>
  PROVE  Settled(t, i)'
BY DEF Settled, Path, Content

LEMMA SoundSame ==
  ASSUME NEW p, Sound(p), UNCHANGED <<files, before, adapters, metas>>
  PROVE  Sound(p)'
BY DEF Sound, Path, Content

LEMMA LeftBehindSame ==
  ASSUME LeftBehind, UNCHANGED <<files, before, adapters, metas, turn, left, open>>
  PROVE  LeftBehind'
BY SoundSame DEF LeftBehind, Earliest, Path

LEMMA DoneSame ==
  ASSUME Done, Active' => Active, UNCHANGED <<files, adapters, metas, turn, left>>
  PROVE  Done'
BY SettledSame DEF Done

(* While every file is as it was before the run, nothing is broken. *)
LEMMA UntouchedLeftBehind ==
  ASSUME files' = before'
  PROVE  LeftBehind'
BY DEF LeftBehind, Sound

-----------------------------------------------------------------------------
(* The actions keep the invariant. *)

LEMMA InitInv == Init => Inv
<1> SUFFICES ASSUME Init PROVE Inv
  OBVIOUS
<1>1. TypeOK
  <2>1. adapters \in Seq(Adapters) /\ turn \in 0..Len(adapters)
    BY DEF Init
  <2>2. DOMAIN metas = {} /\ DOMAIN files = {} /\ DOMAIN before = {}
    BY DEF Init
  <2>3. source \in Sources /\ runs \in 0..MaxRuns /\ edits \in 0..MaxEdits
    BY GeneratorAssumption DEF Init
  <2> QED
    BY <2>1, <2>2, <2>3 DEF Init, TypeOK
<1>2. Stage /\ Done
  BY DEF Init, Stage, Done, Active
<1>3. LeftBehind /\ RefusedUntouched
  BY DEF Init, LeftBehind, RefusedUntouched
<1> QED
  BY <1>1, <1>2, <1>3 DEF Inv

LEMMA EditInv == ASSUME Inv, NEW e \in Entities, Edit(e) PROVE Inv'
<1> USE DEF Inv
<1>1. TypeOK'
  <2>1. source' \in Sources
    <3>1. PICK d \in Edited[e] : source' = [source EXCEPT ![e] = d]
      BY DEF Edit
    <3>2. d \in Decls[e] \cup {Gone}
      BY <3>1, GeneratorAssumption
    <3>3. source \in [Entities -> (UNION {Decls[f] : f \in Entities}) \cup {Gone}]
      BY DEF TypeOK, Sources
    <3>4. \A f \in Entities : source'[f] \in Decls[f] \cup {Gone}
      BY <3>1, <3>2, <3>3 DEF TypeOK, Sources
    <3>5. source' \in [Entities -> (UNION {Decls[f] : f \in Entities}) \cup {Gone}]
      BY <3>1, <3>2, <3>3
    <3> QED
      BY <3>4, <3>5 DEF Sources
  <2>2. edits' \in 0..MaxEdits
    BY GeneratorAssumption DEF Edit, TypeOK
  <2> QED
    BY <2>1, <2>2 DEF Edit, TypeOK, progress
<1>2. Stage'
  BY DEF Edit, Stage, Active, Detected, Derived, Asked, progress
<1>3. Done'
  BY DoneSame DEF Edit, Active, progress
<1>4. LeftBehind' /\ RefusedUntouched'
  BY LeftBehindSame DEF Edit, RefusedUntouched, progress
<1> QED
  BY <1>1, <1>2, <1>3, <1>4

LEMMA StartInv == ASSUME Inv, NEW names \in Selections, Start(names) PROVE Inv'
<1> USE DEF Inv
<1>1. TypeOK'
  <2>1. adapters' \in Seq(Adapters) /\ turn' \in 0..Len(adapters')
    BY DEF Start
  <2>2. runs' \in 0..MaxRuns
    BY GeneratorAssumption DEF Start, TypeOK
  <2>3. DOMAIN metas' = {}
    BY DEF Start
  <2> QED
    BY <2>1, <2>2, <2>3 DEF Start, TypeOK
<1>2. Stage' /\ Done'
  BY DEF Start, Stage, Done, Active
<1>3. LeftBehind' /\ RefusedUntouched'
  BY UntouchedLeftBehind DEF Start, RefusedUntouched
<1> QED
  BY <1>1, <1>2, <1>3

LEMMA PreRunInv == ASSUME Inv, PreRun PROVE Inv'
<1> USE DEF Inv
<1>0. files' = before' /\ turn' = 0 /\ DOMAIN metas' = {} /\ left' = {}
  BY DEF PreRun, Stage, TypeOK, progress
<1>1. CASE outcome' = "refused" /\ pc' = "idle" /\ UNCHANGED adapters
  <2>1. TypeOK'
    BY <1>1 DEF PreRun, TypeOK, progress
  <2>2. Stage' /\ Done'
    BY <1>1 DEF Stage, Done, Active
  <2> QED
    BY <1>0, <2>1, <2>2, UntouchedLeftBehind DEF RefusedUntouched
<1>2. CASE /\ current # NoProject /\ Registered(project) # {}
           /\ pc' = "meta" /\ adapters' \in SetToSeqs(Registered(project)) /\ UNCHANGED outcome
  <2>1. Detected' /\ current' # NoProject
    BY <1>2 DEF PreRun, Detected, Registered
  <2>2. adapters' \in Seq(Adapters) /\ Len(adapters') \in Nat
    <3>1. IsFiniteSet(Registered(project)) /\ Registered(project) \subseteq Adapters
      BY GeneratorAssumption, FS_Subset DEF Registered
    <3>2. Cardinality(Registered(project)) \in Nat
      BY <3>1, FS_CardinalityType
    <3>3. adapters' \in [1..Cardinality(Registered(project)) -> Registered(project)]
      BY <1>2 DEF SetToSeqs
    <3> QED
      BY <3>1, <3>2, <3>3
  <2>3. TypeOK'
    BY <1>0, <1>2, <2>2 DEF PreRun, TypeOK, progress
  <2>4. outcome' = "running"
    BY <1>2 DEF PreRun, Stage
  <2>5. Stage' /\ Done'
    BY <1>0, <1>2, <2>1, <2>4 DEF Stage, Done, Active
  <2> QED
    BY <1>0, <2>3, <2>4, <2>5, UntouchedLeftBehind DEF RefusedUntouched
<1> QED
  BY <1>1, <1>2 DEF PreRun, End

LEMMA GenerateMetaInv == ASSUME Inv, GenerateMeta PROVE Inv'
<1> USE DEF Inv
<1>0. files' = before' /\ turn' = 0
  BY DEF GenerateMeta, Stage
<1>1. CASE outcome' = "refused" /\ pc' = "idle" /\ UNCHANGED <<metas, left>>
  <2>1. TypeOK'
    BY <1>1 DEF GenerateMeta, TypeOK
  <2>2. Stage' /\ Done'
    BY <1>1 DEF Stage, Done, Active
  <2> QED
    BY <1>0, <2>1, <2>2, UntouchedLeftBehind DEF RefusedUntouched
<1>2. CASE /\ pc' = "fields" /\ metas' = Derived /\ left' = Asked /\ UNCHANGED outcome
  <2>1. current \in Sources /\ current # NoProject /\ outcome' = "running" /\ Detected
    BY <1>2 DEF GenerateMeta, Stage, TypeOK
  <2>2. DOMAIN metas' = Asked /\ \A i \in DOMAIN metas' : metas'[i].entity \in Entities
    BY <1>2, <2>1, AskedForm, MetaForm DEF Derived
  <2>3. TypeOK'
    BY <1>2, <2>1, <2>2, AskedForm DEF GenerateMeta, TypeOK
  <2>4. Derived' = Derived /\ Detected'
    BY <2>1 DEF GenerateMeta, Derived, Asked, Detected, Registered
  <2>5. Stage'
    BY <1>0, <1>2, <2>1, <2>2, <2>4 DEF GenerateMeta, Stage, Active
  <2>6. Done'
    BY <1>0, <1>2, <2>2 DEF Done
  <2> QED
    BY <1>0, <2>1, <2>3, <2>5, <2>6, UntouchedLeftBehind DEF RefusedUntouched
<1> QED
  BY <1>1, <1>2 DEF GenerateMeta, End, Derived, Asked

(* What holds of the place that is written. *)
LEMMA WritingForm ==
  ASSUME Inv, Writing, NEW k, Earliest(k)
  PROVE  /\ k \in DOMAIN metas /\ k \in Nat /\ DOMAIN metas \subseteq Nat
         /\ turn \in 0..Len(adapters) /\ adapters \in Seq(Adapters) /\ Len(adapters) \in Nat
         /\ \A t, u \in 1..Len(adapters) : t # u => adapters[t] # adapters[u]
         /\ Path(adapters, turn, metas[k]) \in Paths
         /\ outcome = "running" /\ Active
         /\ \A i \in DOMAIN metas \ left : i < k
<1>1. Detected /\ Active /\ outcome = "running"
  BY DEF Inv, Stage, Active, Writing
<1>2. k \in DOMAIN metas /\ DOMAIN metas \subseteq Nat
  BY GeneratorAssumption DEF Inv, TypeOK, Earliest
<1>3. turn \in 0..Len(adapters) /\ adapters \in Seq(Adapters) /\ metas[k].entity \in Entities
  BY <1>2 DEF Inv, TypeOK
<1>4. Path(adapters, turn, metas[k]) \in Paths
  BY <1>3, PathForm
<1>5. \A i \in DOMAIN metas \ left : i < k
  BY <1>1 DEF Inv, Stage, Earliest
<1> QED
  BY <1>1, <1>2, <1>3, <1>4, <1>5, DetectedForm

(* Writing the file of place k settles no earlier file's matter anew.      *)
LEMMA SettledWritten ==
  ASSUME Inv, Writing, NEW k, Earliest(k), NEW c,
         files' = Written(Path(adapters, turn, metas[k]), c), UNCHANGED <<adapters, metas>>,
         NEW t \in 0..turn, NEW i \in DOMAIN metas, t < turn \/ i \notin left, Settled(t, i)
  PROVE  Settled(t, i)'
<1> DEFINE p == Path(adapters, turn, metas[k])
           q == Path(adapters, t, metas[i])
<1>1. CASE q = p
  <2>1. t \in 0..Len(adapters)
    BY WritingForm
  <2>2. t = turn
    BY <1>1, <2>1, WritingForm, PathTurn
  <2>3. i < k /\ k \in DOMAIN metas /\ k \in Nat /\ i \in Nat
    BY <2>2, WritingForm
  <2> QED
    BY <1>1, <2>2, <2>3 DEF Settled, Path
<1>2. CASE q # p
  <2>1. q \in DOMAIN files => q \in DOMAIN files' /\ files'[q] = files[q]
    BY <1>2 DEF Written
  <2> QED
    BY <2>1 DEF Settled, Path, Content
<1> QED
  BY <1>1, <1>2

LEMMA TruncateInv == ASSUME Inv, NEW k, Truncate(k) PROVE Inv'
<1> DEFINE p == Path(adapters, turn, metas[k])
<1>0. /\ Writing /\ Earliest(k) /\ ~open /\ files' = Written(p, Torn) /\ open' = TRUE
      /\ UNCHANGED <<project, source, pc, current, selection, adapters, metas, turn, left,
                     outcome, before, runs, edits>>
  BY DEF Truncate
<1>w. /\ DOMAIN files' = DOMAIN files \cup {p} /\ files'[p] = Torn
      /\ \A q \in DOMAIN files : q # p => files'[q] = files[q]
  <2>1. files' = Written(p, Torn)
    BY <1>0
  <2> HIDE DEF p
  <2> QED
    BY <2>1 DEF Written
<1>p. p \in Paths
  BY <1>0, WritingForm
<1>1. TypeOK'
  <2>1. DOMAIN files' \subseteq Paths
    BY <1>w, <1>p DEF Inv, TypeOK
  <2> HIDE DEF p
  <2> QED
    BY <1>0, <2>1 DEF Inv, TypeOK
<1>2. Stage'
  BY <1>0 DEF Inv, Stage, Active, Writing, Detected, Derived, Asked
<1>3. Done'
  BY <1>0, WritingForm, SettledWritten DEF Inv, Done
<1>4. LeftBehind'
  <2>1. DOMAIN before' \subseteq DOMAIN files'
    BY <1>0, <1>w DEF Inv, LeftBehind
  <2>2. ASSUME NEW q \in DOMAIN files', q # p PROVE Sound(q)'
    <3>1. q \in DOMAIN files /\ files'[q] = files[q]
      <4> HIDE DEF p
      <4> QED
        BY <1>w, <2>2
    <3>2. Sound(q)
      BY <1>0, <3>1 DEF Inv, LeftBehind
    <3> QED
      BY <1>0, <3>1, <3>2 DEF Sound, Path, Content
  <2>3. Earliest(k)' /\ k \in left' /\ p = Path(adapters, turn, metas[k])'
    BY <1>0 DEF Earliest, Path
  <2> QED
    BY <1>0, <2>1, <2>2, <2>3 DEF LeftBehind
<1>5. RefusedUntouched'
  BY <1>0, WritingForm DEF RefusedUntouched
<1> QED
  BY <1>1, <1>2, <1>3, <1>4, <1>5 DEF Inv

LEMMA FillInv == ASSUME Inv, NEW k, Fill(k) PROVE Inv'
<1> DEFINE p == Path(adapters, turn, metas[k])
           c == Content(adapters, turn, metas[k])
<1>0. /\ Writing /\ Earliest(k) /\ open /\ files' = Written(p, c) /\ open' = FALSE
      /\ left' = left \ {k}
      /\ UNCHANGED <<project, source, pc, current, selection, adapters, metas, turn,
                     outcome, before, runs, edits>>
  BY DEF Fill, TypeOK
<1>w. /\ DOMAIN files' = DOMAIN files \cup {p} /\ files'[p] = c
      /\ \A q \in DOMAIN files : q # p => files'[q] = files[q]
  <2>1. files' = Written(p, c)
    BY <1>0
  <2> HIDE DEF p, c
  <2> QED
    BY <2>1 DEF Written
<1>p. p \in Paths
  BY <1>0, WritingForm
<1>1. TypeOK'
  <2>1. DOMAIN files' \subseteq Paths
    BY <1>w, <1>p DEF Inv, TypeOK
  <2> HIDE DEF p, c
  <2> QED
    BY <1>0, <2>1 DEF Inv, TypeOK
<1>2. Stage'
  <2>1. Active' => \A i \in DOMAIN metas' \ left', j \in left' : i < j
    BY <1>0, WritingForm DEF Earliest, Inv, TypeOK, Stage
  <2> QED
    BY <1>0, <2>1, WritingForm DEF Inv, Stage, Active, Writing, Detected, Derived, Asked
<1>3. Done'
  <2> SUFFICES ASSUME NEW t \in 0..turn, NEW i \in DOMAIN metas, t < turn \/ i \notin left'
               PROVE  Settled(t, i)'
    BY <1>0 DEF Done
  <2>1. CASE t < turn \/ i \notin left
    <3>1. Settled(t, i)
      BY <1>0, <2>1, WritingForm DEF Inv, Done
    <3> QED
      BY <1>0, <2>1, <3>1, SettledWritten
  <2>2. CASE t = turn /\ i = k
    <3>1. p \in DOMAIN files' /\ files'[p] = c
      BY <1>w
    <3>2. UNCHANGED <<adapters, metas>>
      BY <1>0
    <3> QED
      BY <2>2, <3>1, <3>2 DEF Settled, Path, Content
  <2> QED
    BY <1>0, <2>1, <2>2, WritingForm
<1>4. LeftBehind'
  <2>1. DOMAIN before' \subseteq DOMAIN files'
    BY <1>0, <1>w DEF Inv, LeftBehind
  <2>2. ASSUME NEW q \in DOMAIN files', q # p PROVE Sound(q)'
    <3>1. q \in DOMAIN files /\ files'[q] = files[q]
      <4> HIDE DEF p
      <4> QED
        BY <1>w, <2>2
    <3>2. Sound(q)
      BY <1>0, <2>2, <3>1, EarliestOnly DEF Inv, TypeOK, LeftBehind
    <3> QED
      BY <1>0, <3>1, <3>2 DEF Sound, Path, Content
  <2>3. ASSUME NEW q, q = p PROVE Sound(q)'
    <3>1. /\ q = Path(adapters, turn, metas[k])'
          /\ files'[q] = Content(adapters, turn, metas[k])'
      BY <1>0, <1>w, <2>3 DEF Path, Content
    <3>2. turn' \in 0..Len(adapters') /\ k \in DOMAIN metas'
      BY <1>0, WritingForm
    <3> QED
      BY <3>1, <3>2 DEF Sound
  <2> QED
    BY <1>0, <2>1, <2>2, <2>3 DEF LeftBehind
<1>5. RefusedUntouched'
  BY <1>0, WritingForm DEF RefusedUntouched
<1> QED
  BY <1>1, <1>2, <1>3, <1>4, <1>5 DEF Inv

LEMMA WriteFailsInv == ASSUME Inv, NEW k, WriteFails(k) PROVE Inv'
<1>0. /\ pc' = "idle" /\ outcome' = "failed"
      /\ UNCHANGED <<project, source, files, current, selection, adapters, metas, turn, left,
                     open, before, runs, edits>>
  BY DEF WriteFails, End, progress
<1>1. TypeOK'
  BY <1>0 DEF Inv, TypeOK
<1>2. Stage' /\ Done'
  BY <1>0 DEF Stage, Done, Active
<1>3. LeftBehind' /\ RefusedUntouched'
  BY <1>0, LeftBehindSame DEF Inv, RefusedUntouched
<1> QED
  BY <1>1, <1>2, <1>3 DEF Inv

LEMMA KillInv == ASSUME Inv, Kill PROVE Inv'
<1>0. /\ pc' = "idle" /\ outcome' = "failed"
      /\ UNCHANGED <<project, source, files, current, selection, adapters, metas, turn, left,
                     open, before, runs, edits>>
  BY DEF Kill, End, progress
<1>1. TypeOK'
  BY <1>0 DEF Inv, TypeOK
<1>2. Stage' /\ Done'
  BY <1>0 DEF Stage, Done, Active
<1>3. LeftBehind' /\ RefusedUntouched'
  BY <1>0, LeftBehindSame DEF Inv, RefusedUntouched
<1> QED
  BY <1>1, <1>2, <1>3 DEF Inv

(* When no place is left and the turn goes on, what is written stays so.   *)
LEMMA NoneLeftBehind ==
  ASSUME LeftBehind, left = {}, UNCHANGED <<files, before, adapters, metas>>
  PROVE  LeftBehind'
BY SoundSame DEF LeftBehind

(* When no place is left, every file up to this turn is settled.           *)
LEMMA TurnDone ==
  ASSUME Inv, Active, left = {}, UNCHANGED <<files, adapters, metas>>,
         NEW t \in 0..turn, NEW i \in DOMAIN metas
  PROVE  Settled(t, i)'
<1>1. Settled(t, i)
  BY DEF Inv, Done
<1> QED
  BY <1>1, SettledSame

LEMMA EndFieldsInv == ASSUME Inv, EndFields PROVE Inv'
<1>1. Detected /\ Active /\ outcome = "running" /\ left = {} /\ turn = 0 /\ current # NoProject
  BY DEF EndFields, Inv, Stage, Active
<1>2. adapters # <<>> /\ Len(adapters) \in Nat \ {0}
  BY <1>1, DetectedForm
<1>3. /\ pc' = "schemas" /\ turn' = 1 /\ left' = DOMAIN metas
      /\ UNCHANGED <<project, source, files, current, selection, adapters, metas, open,
                     outcome, before, runs, edits>>
  BY <1>2 DEF EndFields
<1>4. TypeOK'
  BY <1>2, <1>3 DEF Inv, TypeOK
<1>5. Stage'
  BY <1>1, <1>2, <1>3 DEF EndFields, Inv, Stage, Active, Detected, Derived, Asked
<1>6. Done'
  BY <1>1, <1>3, TurnDone DEF Done
<1>7. LeftBehind' /\ RefusedUntouched'
  BY <1>1, <1>3, NoneLeftBehind DEF Inv, RefusedUntouched
<1> QED
  BY <1>4, <1>5, <1>6, <1>7 DEF Inv

LEMMA EndAdapterInv == ASSUME Inv, EndAdapter PROVE Inv'
<1>1. /\ Detected /\ Active /\ outcome = "running" /\ left = {} /\ turn \in 1..Len(adapters)
      /\ current # NoProject /\ metas = Derived
  BY DEF EndAdapter, Inv, Stage, Active
<1>2. Len(adapters) \in Nat \ {0}
  BY <1>1, DetectedForm
<1>3. UNCHANGED <<project, source, files, current, selection, adapters, metas, open,
                  before, runs, edits>>
  BY DEF EndAdapter
<1>4. CASE turn = Len(adapters)
  <2>1. pc' = "idle" /\ outcome' = "ok" /\ UNCHANGED <<turn, left>>
    BY <1>4 DEF EndAdapter, End
  <2>2. TypeOK'
    BY <1>3, <2>1 DEF Inv, TypeOK
  <2>3. Stage'
    BY <1>1, <1>3, <1>4, <2>1 DEF Stage, Active, Detected, Derived, Asked
  <2>4. Done'
    BY <1>1, <1>3, <2>1, TurnDone DEF Done
  <2>5. LeftBehind' /\ RefusedUntouched'
    BY <1>1, <1>3, <2>1, NoneLeftBehind DEF Inv, RefusedUntouched
  <2> QED
    BY <2>2, <2>3, <2>4, <2>5 DEF Inv
<1>5. CASE turn # Len(adapters)
  <2>1. turn' = turn + 1 /\ left' = DOMAIN metas /\ UNCHANGED <<pc, outcome>>
    BY <1>5 DEF EndAdapter
  <2>2. turn' \in 1..Len(adapters)
    BY <1>1, <1>2, <1>5, <2>1
  <2>3. TypeOK'
    BY <1>3, <2>1, <2>2 DEF Inv, TypeOK
  <2>4. Stage'
    BY <1>1, <1>3, <2>1, <2>2 DEF EndAdapter, Inv, Stage, Active, Detected, Derived, Asked
  <2>5. Done'
    <3> SUFFICES ASSUME NEW t \in 0..turn', NEW i \in DOMAIN metas, t < turn'
                 PROVE  Settled(t, i)'
      BY <1>3, <2>1 DEF Done
    <3>1. t \in 0..turn
      BY <1>1, <1>2, <2>1
    <3> QED
      BY <1>1, <1>3, <3>1, TurnDone
  <2>6. LeftBehind' /\ RefusedUntouched'
    BY <1>1, <1>3, <2>1, NoneLeftBehind DEF Inv, RefusedUntouched
  <2> QED
    BY <2>3, <2>4, <2>5, <2>6 DEF Inv
<1> QED
  BY <1>4, <1>5

LEMMA NextInv == Inv /\ [Next]_vars => Inv'
<1> SUFFICES ASSUME Inv, [Next]_vars PROVE Inv'
  OBVIOUS
<1>1. CASE UNCHANGED vars
  <2>1. /\ UNCHANGED <<project, source, files, pc, current, selection, adapters, metas>>
        /\ UNCHANGED <<turn, left, open, outcome, before, runs, edits>>
    BY <1>1 DEF vars, progress
  <2>2. TypeOK'
    BY <2>1 DEF Inv, TypeOK
  <2>3. Stage'
    BY <2>1 DEF Inv, Stage, Active, Detected, Derived, Asked
  <2>4. Done' /\ LeftBehind' /\ RefusedUntouched'
    BY <2>1, DoneSame, LeftBehindSame DEF Inv, Active, RefusedUntouched
  <2> QED
    BY <2>2, <2>3, <2>4 DEF Inv
<1>2. ASSUME NEW e \in Entities, Edit(e) PROVE Inv'
  BY <1>2, EditInv
<1>3. ASSUME NEW names \in Selections, Start(names) PROVE Inv'
  BY <1>3, StartInv
<1>4. CASE Run
  BY <1>4, PreRunInv, GenerateMetaInv, EndFieldsInv, EndAdapterInv, TruncateInv, FillInv,
     WriteFailsInv DEF Run, WriteOne
<1>5. CASE Kill
  BY <1>5, KillInv
<1> QED
  BY <1>1, <1>2, <1>3, <1>4, <1>5 DEF Next

-----------------------------------------------------------------------------
(* Sequences: where concatenation and FlattenSeq put what they join. *)

(* Induction over the natural numbers, for a set of them. *)
LEMMA CountingUp ==
  ASSUME NEW T, 0 \in T, \A n \in Nat : n \in T => n + 1 \in T
  PROVE  \A n \in Nat : n \in T
<1> DEFINE R == OpToRel(<, Nat)
<1> SUFFICES ASSUME Nat \ T # {} PROVE FALSE
  OBVIOUS
<1>1. IsWellFoundedOn(R, Nat)
  BY NatLessThanWellFounded
<1> HIDE DEF R
<1>2. PICK n \in Nat \ T : \A m \in Nat \ T : ~ (<<m, n>> \in R)
  <2>1. Nat \ T \subseteq Nat
    OBVIOUS
  <2> QED
    BY <1>1, <2>1, WFMin
<1>3. n # 0 /\ n - 1 \in Nat /\ n = (n - 1) + 1 /\ n - 1 < n
  BY <1>2
<1>4. n - 1 \notin T
  BY <1>2, <1>3
<1>5. <<n - 1, n>> \in R
  BY <1>3 DEF R, OpToRel
<1> QED
  BY <1>2, <1>3, <1>4, <1>5

IsSeq(q) == q \in Seq(Range(q))

LEMMA SeqForm ==
  ASSUME NEW q, IsSeq(q)
  PROVE  Len(q) \in Nat /\ DOMAIN q = 1..Len(q)
BY DEF IsSeq

LEMMA SeqOfAny ==
  ASSUME NEW S, NEW q \in Seq(S)
  PROVE  IsSeq(q)
BY SeqOfRange, RangeOfSeq DEF IsSeq

LEMMA ConcatForm ==
  ASSUME NEW p, NEW q, IsSeq(p), IsSeq(q)
  PROVE  /\ IsSeq(p \o q)
         /\ Len(p \o q) = Len(p) + Len(q)
         /\ \A i \in DOMAIN p : (p \o q)[i] = p[i]
         /\ \A i \in DOMAIN q : (p \o q)[Len(p) + i] = q[i]
<1> DEFINE S == Range(p) \cup Range(q)
<1>1. p \in Seq(S) /\ q \in Seq(S)
  BY SeqMonotonic DEF IsSeq
<1> HIDE DEF S
<1>2. p \o q \in Seq(S) /\ Len(p \o q) = Len(p) + Len(q)
  BY <1>1
<1>3. IsSeq(p \o q)
  BY <1>2, SeqOfAny
<1>4. /\ \A i \in 1..Len(p) : (p \o q)[i] = p[i]
      /\ \A i \in 1..Len(q) : (p \o q)[Len(p) + i] = q[i]
  BY <1>1
<1>5. DOMAIN p = 1..Len(p) /\ DOMAIN q = 1..Len(q)
  BY SeqForm
<1> QED
  BY <1>2, <1>3, <1>4, <1>5

(* b places the members of A in the sequence q, one at each index. *)
Places(b, A, q) ==
  /\ b \in [A -> DOMAIN q]
  /\ \A x, y \in A : b[x] = b[y] => x = y
  /\ \A k \in DOMAIN q : \E x \in A : b[x] = k

(* c places what a places in p and, behind it, what b places in q.         *)
Joins(c, a, A, p, b, B, q) ==
  /\ Places(c, A \cup B, p \o q)
  /\ \A x \in A : c[x] = a[x] /\ c[x] <= Len(p) /\ (p \o q)[c[x]] = p[a[x]]
  /\ \A x \in B : c[x] = Len(p) + b[x] /\ c[x] > Len(p) /\ (p \o q)[c[x]] = q[b[x]]

LEMMA PlacesJoined ==
  ASSUME NEW p, NEW q, IsSeq(p), IsSeq(q), NEW A, NEW B, A \cap B = {},
         NEW a, NEW b, Places(a, A, p), Places(b, B, q)
  PROVE  \E c : Joins(c, a, A, p, b, B, q)
<1> DEFINE c == [x \in A \cup B |-> IF x \in A THEN a[x] ELSE Len(p) + b[x]]
<1>1. /\ Len(p) \in Nat /\ Len(q) \in Nat /\ DOMAIN p = 1..Len(p) /\ DOMAIN q = 1..Len(q)
      /\ DOMAIN (p \o q) = 1..(Len(p) + Len(q))
  BY SeqForm, ConcatForm
<1>2. /\ \A x \in A : c[x] = a[x] /\ a[x] \in 1..Len(p)
      /\ \A x \in B : c[x] = Len(p) + b[x] /\ b[x] \in 1..Len(q)
  BY <1>1 DEF Places
<1>3. c = [x \in A \cup B |-> c[x]]
  OBVIOUS
<1> HIDE DEF c
<1>4. \A x \in A \cup B : c[x] \in 1..(Len(p) + Len(q))
  BY <1>1, <1>2
<1>5. c \in [A \cup B -> DOMAIN (p \o q)]
  BY <1>1, <1>3, <1>4
<1>6. ASSUME NEW x \in A \cup B, NEW y \in A \cup B, c[x] = c[y] PROVE x = y
  <2>1. CASE x \in A /\ y \in A
    BY <2>1, <1>2, <1>6 DEF Places
  <2>2. CASE x \in B /\ y \in B
    <3>1. b[x] = b[y]
      BY <2>2, <1>1, <1>2, <1>6
    <3> QED
      BY <3>1, <2>2 DEF Places
  <2>3. CASE x \in A /\ y \in B
    BY <2>3, <1>1, <1>2, <1>6
  <2>4. CASE x \in B /\ y \in A
    BY <2>4, <1>1, <1>2, <1>6
  <2> QED
    BY <2>1, <2>2, <2>3, <2>4
<1>7. ASSUME NEW k \in DOMAIN (p \o q) PROVE \E x \in A \cup B : c[x] = k
  <2>1. CASE k <= Len(p)
    <3>1. k \in DOMAIN p
      BY <2>1, <1>1
    <3> QED
      BY <3>1, <1>2 DEF Places
  <2>2. CASE k > Len(p)
    <3>1. k - Len(p) \in DOMAIN q
      BY <2>2, <1>1
    <3>2. PICK x \in B : b[x] = k - Len(p)
      BY <3>1 DEF Places
    <3>3. c[x] = k
      BY <3>2, <1>1, <1>2
    <3> QED
      BY <3>3
  <2> QED
    BY <2>1, <2>2, <1>1
<1>8. Places(c, A \cup B, p \o q)
  BY <1>5, <1>6, <1>7 DEF Places
<1>9. \A x \in A : c[x] <= Len(p) /\ (p \o q)[c[x]] = p[a[x]]
  BY <1>1, <1>2, ConcatForm
<1>10. \A x \in B : c[x] > Len(p) /\ (p \o q)[c[x]] = q[b[x]]
  <2> SUFFICES ASSUME NEW x \in B PROVE c[x] > Len(p) /\ (p \o q)[c[x]] = q[b[x]]
    OBVIOUS
  <2>1. c[x] = Len(p) + b[x] /\ b[x] \in DOMAIN q /\ c[x] > Len(p)
    BY <1>1, <1>2
  <2>2. \A i \in DOMAIN q : (p \o q)[Len(p) + i] = q[i]
    BY ConcatForm
  <2>3. (p \o q)[Len(p) + b[x]] = q[b[x]]
    BY <2>1, <2>2
  <2> QED
    BY <2>1, <2>3
<1> QED
  BY <1>2, <1>8, <1>9, <1>10 DEF Joins

LEMMA EmptyForm ==
  /\ IsSeq(<< >>)
  /\ DOMAIN << >> = {}
  /\ \A q : IsSeq(q) => << >> \o q = q
<1>1. IsSeq(<< >>)
  <2>1. << >> \in Seq({})
    BY EmptySeq
  <2> QED
    BY <2>1, SeqOfAny
<1>2. ASSUME NEW q, IsSeq(q) PROVE << >> \o q = q
  BY <1>2, ConcatEmptySeq DEF IsSeq
<1> QED
  BY <1>1, <1>2

LEMMA OneForm ==
  ASSUME NEW x
  PROVE  IsSeq(<<x>>) /\ DOMAIN <<x>> = {1} /\ Len(<<x>>) = 1 /\ <<x>>[1] = x
<1>1. <<x>> \in Seq({x}) /\ Len(<<x>>) = 1 /\ <<x>>[1] = x
  OBVIOUS
<1>2. IsSeq(<<x>>)
  BY <1>1, SeqOfAny
<1>3. DOMAIN <<x>> = 1..1
  BY <1>1, <1>2, SeqForm
<1> QED
  BY <1>1, <1>2, <1>3

(* A sequence of sequences is flattened one after the other. *)
LEMMA FlattenedStepwise ==
  ASSUME NEW pieces, IsSeq(pieces), \A i \in DOMAIN pieces : IsSeq(pieces[i])
  PROVE  \E at : /\ at[0] = << >>
                 /\ \A i \in DOMAIN pieces : at[i] = at[i - 1] \o pieces[i]
                 /\ FlattenSeq(pieces) = at[Len(pieces)]
<1> DEFINE Solves(g, n) == g = [i \in 1..n |-> IF i = 1 THEN pieces[i] ELSE g[i - 1] \o pieces[i]]
           T == {n \in Nat : \E g : Solves(g, n)}
<1>1. 0 \in T
  <2>1. Solves([i \in 1..0 |-> << >>], 0)
    OBVIOUS
  <2> QED
    BY <2>1
<1>2. ASSUME NEW n \in Nat, n \in T PROVE n + 1 \in T
  <2>1. PICK g : Solves(g, n)
    BY <1>2
  <2> DEFINE h == [i \in 1..(n + 1) |->
                     IF i # n + 1 THEN g[i] ELSE IF i = 1 THEN pieces[i] ELSE g[n] \o pieces[i]]
  <2>2. ASSUME NEW i \in 1..(n + 1)
        PROVE  h[i] = IF i = 1 THEN pieces[i] ELSE h[i - 1] \o pieces[i]
    <3>1. i # 1 => i - 1 \in 1..(n + 1) /\ i - 1 \in 1..n /\ i - 1 # n + 1 /\ h[i - 1] = g[i - 1]
      OBVIOUS
    <3>2. CASE i = n + 1
      <4>1. i # 1 => i - 1 = n
        BY <3>2
      <4>2. h[i] = IF i = 1 THEN pieces[i] ELSE g[n] \o pieces[i]
        BY <3>2
      <4> QED
        BY <3>1, <4>1, <4>2
    <3>3. CASE i # n + 1
      <4>1. i \in 1..n /\ h[i] = g[i]
        BY <3>3
      <4>2. g[i] = IF i = 1 THEN pieces[i] ELSE g[i - 1] \o pieces[i]
        BY <2>1, <4>1
      <4> QED
        BY <3>1, <4>1, <4>2
    <3> QED
      BY <3>2, <3>3
  <2>3. h = [i \in 1..(n + 1) |-> h[i]]
    OBVIOUS
  <2> HIDE DEF h
  <2>4. Solves(h, n + 1)
    BY <2>2, <2>3
  <2> HIDE DEF Solves
  <2>5. n + 1 \in Nat /\ \E f : Solves(f, n + 1)
    BY <2>4
  <2> QED
    BY <2>5
<1>3. \A n \in Nat : n \in T
  <2> HIDE DEF T
  <2> QED
    BY <1>1, <1>2, CountingUp
<1>4. Len(pieces) \in Nat /\ DOMAIN pieces = 1..Len(pieces)
  BY SeqForm
<1>5. PICK g : Solves(g, Len(pieces))
  BY <1>3, <1>4
<1> DEFINE F == CHOOSE F : Solves(F, Len(pieces))
           at == [i \in 0..Len(pieces) |-> IF i = 0 THEN << >> ELSE F[i]]
<1>6. Solves(F, Len(pieces))
  BY <1>5, Zenon
<1>7. Len(pieces) # 0 => FlattenSeq(pieces) = F[Len(pieces)]
  BY DEF FlattenSeq
<1>8. Len(pieces) = 0 => FlattenSeq(pieces) = << >>
  <2>1. pieces \in Seq(Range(pieces))
    BY DEF IsSeq
  <2>2. Len(pieces) = 0 => pieces = << >>
    BY <2>1, EmptySeq
  <2> QED
    BY <2>2 DEF FlattenSeq
<1> HIDE DEF F
<1>9. FlattenSeq(pieces) = at[Len(pieces)]
  BY <1>4, <1>7, <1>8
<1>10. ASSUME NEW i \in DOMAIN pieces PROVE at[i] = at[i - 1] \o pieces[i]
  <2>1. i \in 1..Len(pieces) /\ i - 1 \in 0..Len(pieces) /\ at[i] = F[i]
    BY <1>4
  <2>2. F[i] = IF i = 1 THEN pieces[i] ELSE F[i - 1] \o pieces[i]
    BY <1>6, <2>1
  <2>3. i = 1 => at[i - 1] = << >>
    BY <2>1
  <2>4. i # 1 => at[i - 1] = F[i - 1]
    BY <2>1
  <2>5. << >> \o pieces[i] = pieces[i]
    BY EmptyForm
  <2> QED
    BY <2>1, <2>2, <2>3, <2>4, <2>5
<1>11. at[0] = << >>
  BY <1>4
<1> HIDE DEF at
<1> QED
  BY <1>9, <1>10, <1>11

(* b places the members of K at their elements of q, in their order. *)
Kept(b, K, raw, q) ==
  /\ Places(b, K, q)
  /\ \A k \in K : q[b[k]] = raw[k]
  /\ \A j, k \in K : j < k => b[j] < b[k]

LEMMA KeptForm ==
  ASSUME NEW raw, IsSeq(raw), NEW K, K \subseteq DOMAIN raw
  PROVE  LET q == FlattenSeq([i \in DOMAIN raw |-> IF i \in K THEN <<raw[i]>> ELSE << >>])
         IN  IsSeq(q) /\ \E b : Kept(b, K, raw, q)
<1> DEFINE pieces == [i \in DOMAIN raw |-> IF i \in K THEN <<raw[i]>> ELSE << >>]
<1>1. Len(raw) \in Nat /\ DOMAIN raw = 1..Len(raw)
  BY SeqForm
<1>2. /\ DOMAIN pieces = DOMAIN raw
      /\ \A i \in DOMAIN raw : pieces[i] = IF i \in K THEN <<raw[i]>> ELSE << >>
  OBVIOUS
<1>3. pieces \in Seq(Range(pieces)) /\ Len(pieces) = Len(raw)
  <2>1. pieces \in [1..Len(raw) -> Range(pieces)]
    BY <1>1 DEF Range
  <2> HIDE DEF pieces
  <2>2. pieces \in Seq(Range(pieces))
    BY <1>1, <2>1
  <2>3. DOMAIN pieces = 1..Len(pieces) /\ Len(pieces) \in Nat
    BY <2>2, LenProperties
  <2> QED
    BY <1>1, <1>2, <2>2, <2>3
<1> HIDE DEF pieces
<1>4. \A i \in DOMAIN raw : IsSeq(pieces[i])
  BY <1>2, EmptyForm, OneForm
<1>5. PICK at : /\ at[0] = << >>
                /\ \A i \in DOMAIN raw : at[i] = at[i - 1] \o pieces[i]
                /\ FlattenSeq(pieces) = at[Len(raw)]
  BY <1>2, <1>3, <1>4, FlattenedStepwise DEF IsSeq
<1> DEFINE P(n) == IsSeq(at[n]) /\ \E b : Kept(b, K \cap 1..n, raw, at[n])
           T == {n \in Nat : n <= Len(raw) => P(n)}
<1>6. 0 \in T
  <2>1. K \cap 1..0 = {}
    OBVIOUS
  <2>2. Kept([x \in {} |-> x], {}, raw, << >>)
    BY EmptyForm DEF Kept, Places
  <2> QED
    BY <1>5, <2>1, <2>2, EmptyForm
<1>7. ASSUME NEW n \in Nat, n \in T PROVE n + 1 \in T
  <2> HIDE DEF P
  <2> SUFFICES ASSUME n + 1 <= Len(raw) PROVE P(n + 1)
    OBVIOUS
  <2>0. P(n)
    BY <1>1, <1>7
  <2> USE DEF P
  <2>1. IsSeq(at[n])
    BY <2>0
  <2>2. PICK a : Kept(a, K \cap 1..n, raw, at[n])
    BY <2>0
  <2>3. n + 1 \in DOMAIN raw /\ (n + 1) - 1 = n
    BY <1>1
  <2>4. at[n + 1] = at[n] \o pieces[n + 1]
    BY <1>5, <2>3
  <2>5. CASE n + 1 \in K
    <3>1. pieces[n + 1] = <<raw[n + 1]>> /\ IsSeq(<<raw[n + 1]>>)
      BY <1>2, <2>3, <2>5, OneForm
    <3> DEFINE b == [x \in {n + 1} |-> 1]
    <3>2. Places(b, {n + 1}, <<raw[n + 1]>>)
      BY OneForm DEF Places
    <3> HIDE DEF b
    <3>3. (K \cap 1..n) \cap {n + 1} = {} /\ K \cap 1..(n + 1) = (K \cap 1..n) \cup {n + 1}
      BY <2>5
    <3> DEFINE L    == K \cap 1..n
               last == <<raw[n + 1]>>
    <3>a. Places(a, L, at[n])
      BY <2>2 DEF Kept
    <3>b. L \cap {n + 1} = {}
      BY <3>3
    <3> HIDE DEF L, last
    <3>c. PICK c : Joins(c, a, L, at[n], b, {n + 1}, last)
      <4>1. IsSeq(last) /\ Places(b, {n + 1}, last)
        BY <3>1, <3>2 DEF last
      <4> QED
        BY <2>1, <3>a, <3>b, <4>1, PlacesJoined
    <3>4. /\ Places(c, L \cup {n + 1}, at[n + 1])
          /\ \A x \in L : c[x] = a[x] /\ c[x] <= Len(at[n]) /\ at[n + 1][c[x]] = at[n][a[x]]
          /\ \A x \in {n + 1} : c[x] > Len(at[n]) /\ at[n + 1][c[x]] = last[b[x]]
      BY <2>4, <3>1, <3>c DEF last, Joins
    <3> USE DEF L, last
    <3>5. <<raw[n + 1]>>[b[n + 1]] = raw[n + 1]
      BY OneForm DEF b
    <3>6. \A x \in (K \cap 1..n) \cup {n + 1} : at[n + 1][c[x]] = raw[x]
      BY <2>2, <3>4, <3>5 DEF Kept
    <3>7. ASSUME NEW j \in (K \cap 1..n) \cup {n + 1}, NEW k \in (K \cap 1..n) \cup {n + 1}, j < k
          PROVE  c[j] < c[k]
      <4>1. j \in K \cap 1..n
        BY <3>7
      <4>2. CASE k \in K \cap 1..n
        BY <4>1, <4>2, <3>4, <3>7, <2>2 DEF Kept
      <4>3. CASE k = n + 1
        <5>1. c[j] <= Len(at[n]) /\ c[k] > Len(at[n])
          BY <3>4, <4>1, <4>3
        <5>2. c[j] \in Int /\ c[k] \in Int /\ Len(at[n]) \in Int
          <6>1. DOMAIN at[n + 1] \subseteq Int
            BY <2>1, <2>4, <3>1, ConcatForm, SeqForm
          <6> QED
            BY <6>1, <2>1, <3>4, SeqForm DEF Places
        <5> QED
          BY <5>1, <5>2
      <4> QED
        BY <4>2, <4>3
    <3>8. Kept(c, K \cap 1..(n + 1), raw, at[n + 1])
      BY <3>3, <3>4, <3>6, <3>7 DEF Kept
    <3> QED
      BY <2>1, <2>4, <3>1, <3>8, ConcatForm
  <2>6. CASE n + 1 \notin K
    <3>1. pieces[n + 1] = << >> /\ at[n] \o << >> = at[n]
      BY <1>2, <2>1, <2>3, <2>6, ConcatEmptySeq DEF IsSeq
    <3>2. K \cap 1..(n + 1) = K \cap 1..n
      BY <2>6
    <3> QED
      BY <2>1, <2>2, <2>4, <3>1, <3>2
  <2> QED
    BY <2>5, <2>6
<1> HIDE DEF P
<1>8. P(Len(raw))
  <2>1. \A n \in Nat : n \in T
    <3> HIDE DEF T
    <3> QED
      BY <1>6, <1>7, CountingUp
  <2> QED
    BY <1>1, <2>1
<1>9. K \cap 1..Len(raw) = K
  BY <1>1
<1> QED
  BY <1>1, <1>5, <1>8, <1>9 DEF P, pieces

(* The order policy is a stable sort by rank. *)
LEMMA OrderPolicyForm ==
  ASSUME NEW raw, IsSeq(raw)
  PROVE  /\ IsSeq(ApplyOrderPolicy(raw))
         /\ \E p : /\ Places(p, DOMAIN raw, ApplyOrderPolicy(raw))
                   /\ \A k \in DOMAIN raw : ApplyOrderPolicy(raw)[p[k]] = raw[k]
                   /\ \A j, k \in DOMAIN raw :
                        \/ Rank(raw[j]) < Rank(raw[k])
                        \/ Rank(raw[j]) = Rank(raw[k]) /\ j < k
                        => p[j] < p[k]
<1> DEFINE Of(r) == {k \in DOMAIN raw : Rank(raw[k]) = r}
           Q(r)  == FlattenSeq([i \in DOMAIN raw |-> IF i \in Of(r) THEN <<raw[i]>> ELSE << >>])
<1>1. ApplyOrderPolicy(raw) = (Q(1) \o Q(2)) \o Q(3)
  <2> DEFINE pk       == {i \in DOMAIN raw : IsPK(raw[i])}
             embedded == {i \in DOMAIN raw \ pk : raw[i].embedded}
  <2>1. Of(1) = pk
    BY DEF Rank
  <2>2. Of(3) = embedded
    BY DEF Rank
  <2>3. Of(2) = DOMAIN raw \ (pk \cup embedded)
    BY DEF Rank
  <2>4. ApplyOrderPolicy(raw)
        = Keep(raw, pk) \o Keep(raw, DOMAIN raw \ (pk \cup embedded)) \o Keep(raw, embedded)
    BY Zenon DEF ApplyOrderPolicy
  <2> HIDE DEF Of, pk, embedded
  <2> QED
    BY <2>1, <2>2, <2>3, <2>4 DEF Keep
<1>2. \A r \in 1..3 : IsSeq(Q(r)) /\ \E b : Kept(b, Of(r), raw, Q(r))
  <2> SUFFICES ASSUME NEW r \in 1..3 PROVE IsSeq(Q(r)) /\ \E b : Kept(b, Of(r), raw, Q(r))
    OBVIOUS
  <2>1. Of(r) \subseteq DOMAIN raw
    OBVIOUS
  <2> HIDE DEF Of
  <2> QED
    BY <2>1, KeptForm
<1>3. /\ Of(1) \cap Of(2) = {} /\ (Of(1) \cup Of(2)) \cap Of(3) = {}
      /\ (Of(1) \cup Of(2)) \cup Of(3) = DOMAIN raw
  BY DEF Rank
<1>4. \A r \in 1..3 : \A k \in Of(r) : k \in DOMAIN raw /\ Rank(raw[k]) = r
  OBVIOUS
<1> HIDE DEF Of, Q
<1>5. IsSeq(Q(1)) /\ IsSeq(Q(2)) /\ IsSeq(Q(3))
  BY <1>2
<1>6. PICK a : Kept(a, Of(1), raw, Q(1))
  BY <1>2
<1>7. PICK b : Kept(b, Of(2), raw, Q(2))
  BY <1>2
<1>8. PICK c : Kept(c, Of(3), raw, Q(3))
  BY <1>2
<1>9. PICK d : Joins(d, a, Of(1), Q(1), b, Of(2), Q(2))
  <2>1. Places(a, Of(1), Q(1)) /\ Places(b, Of(2), Q(2)) /\ Of(1) \cap Of(2) = {}
    BY <1>3, <1>6, <1>7 DEF Kept
  <2> QED
    BY <1>5, <2>1, PlacesJoined
<1>10. IsSeq(Q(1) \o Q(2)) /\ IsSeq((Q(1) \o Q(2)) \o Q(3))
  BY <1>5, ConcatForm
<1> DEFINE h == Q(1) \o Q(2)
           q == h \o Q(3)
<1>11. PICK p : Joins(p, d, Of(1) \cup Of(2), h, c, Of(3), Q(3))
  <2>1. Places(c, Of(3), Q(3)) /\ (Of(1) \cup Of(2)) \cap Of(3) = {}
    BY <1>3, <1>8 DEF Kept
  <2>2. Places(d, Of(1) \cup Of(2), h) /\ IsSeq(h)
    BY <1>9, <1>10 DEF Joins
  <2> HIDE DEF h
  <2> QED
    BY <1>5, <2>1, <2>2, PlacesJoined
<1>12. /\ Len(h) \in Nat /\ Len(Q(1)) \in Nat
       /\ \A x \in DOMAIN raw : p[x] \in Nat
       /\ \A x \in Of(2) : b[x] \in Nat
       /\ \A x \in Of(3) : c[x] \in Nat
  <2>1. DOMAIN q \subseteq Nat /\ DOMAIN Q(2) \subseteq Nat /\ DOMAIN Q(3) \subseteq Nat
    BY <1>5, <1>10, SeqForm
  <2>2. Len(h) \in Nat /\ Len(Q(1)) \in Nat
    BY <1>5, <1>10, SeqForm
  <2> HIDE DEF h, q
  <2> QED
    BY <1>3, <1>7, <1>8, <1>11, <2>1, <2>2 DEF Places, Kept, Joins, q
<1>13. \A k \in DOMAIN raw : q[p[k]] = raw[k]
  <2> HIDE DEF h, q
  <2>1. \A k \in Of(1) \cup Of(2) : h[d[k]] = raw[k]
    BY <1>6, <1>7, <1>9 DEF Kept, Joins, h
  <2> QED
    BY <1>3, <1>8, <1>11, <2>1 DEF Kept, Joins, q
<1>14. ASSUME NEW j \in DOMAIN raw, NEW k \in DOMAIN raw,
              \/ Rank(raw[j]) < Rank(raw[k])
              \/ Rank(raw[j]) = Rank(raw[k]) /\ j < k
       PROVE  p[j] < p[k]
  <2> HIDE DEF h, q
  <2>1. p[j] \in Nat /\ p[k] \in Nat
    BY <1>12
  <2>2. CASE j \in Of(1) /\ k \in Of(1)
    BY <2>2, <1>4, <1>6, <1>9, <1>11, <1>14 DEF Kept, Joins
  <2>3. CASE j \in Of(2) /\ k \in Of(2)
    <3>1. b[j] < b[k]
      BY <2>3, <1>4, <1>7, <1>14 DEF Kept
    <3>2. p[j] = Len(Q(1)) + b[j] /\ p[k] = Len(Q(1)) + b[k]
      BY <2>3, <1>9, <1>11 DEF Joins
    <3> QED
      BY <2>3, <3>1, <3>2, <1>12
  <2>4. CASE j \in Of(3) /\ k \in Of(3)
    <3>1. c[j] < c[k]
      BY <2>4, <1>4, <1>8, <1>14 DEF Kept
    <3>2. p[j] = Len(h) + c[j] /\ p[k] = Len(h) + c[k]
      BY <2>4, <1>11 DEF Joins
    <3> QED
      BY <2>4, <3>1, <3>2, <1>12
  <2>5. CASE j \in Of(1) /\ k \in Of(2)
    BY <2>5, <2>1, <1>9, <1>11, <1>12 DEF Joins
  <2>6. CASE j \in Of(1) \cup Of(2) /\ k \in Of(3)
    BY <2>6, <2>1, <1>11, <1>12 DEF Joins
  <2>7. ~ (j \in Of(2) /\ k \in Of(1)) /\ ~ (j \in Of(3) /\ k \in Of(1) \cup Of(2))
    BY <1>4, <1>14
  <2> QED
    BY <1>3, <2>2, <2>3, <2>4, <2>5, <2>6, <2>7
<1>15. Places(p, DOMAIN raw, q)
  BY <1>3, <1>11 DEF Joins
<1> HIDE DEF h
<1>16. ApplyOrderPolicy(raw) = q
  BY <1>1 DEF h
<1> HIDE DEF q
<1> QED
  BY <1>10, <1>13, <1>14, <1>15, <1>16 DEF h, q

LEMMA EmbedsLocallyForm ==
  ASSUME NEW s \in Structs
  PROVE  /\ EmbedsLocally(s) \subseteq Structs
         /\ \A i \in DOMAIN Members[s] :
              Members[s][i].embeds # NoStruct /\ ~Skipped(Members[s][i]) =>
                Members[s][i].local /\ Members[s][i].embeds \in EmbedsLocally(s)
BY MemberAssumption DEF EmbedsLocally, Skipped

(* What holds of a struct whenever it holds of all it embeds holds of all. *)
LEMMA StructInduction ==
  ASSUME NEW T, \A s \in Structs : EmbedsLocally(s) \subseteq T => s \in T
  PROVE  Structs \subseteq T
<1> SUFFICES ASSUME Structs \ T # {} PROVE FALSE
  OBVIOUS
<1>1. Structs \ T \in (SUBSET Structs) \ {{}}
  OBVIOUS
<1>2. PICK s \in Structs \ T : \A i \in DOMAIN Members[s] :
        Members[s][i].local => Members[s][i].embeds \notin Structs \ T
  BY <1>1, EmbeddingAssumption
<1>3. EmbedsLocally(s) \subseteq T
  BY <1>2, MemberAssumption DEF EmbedsLocally
<1> QED
  BY <1>2, <1>3

(* What parseFields does with a struct, f being what it does with others.  *)
Walk(f, s) ==
  LET Parsed(m) ==
        \/ Skipped(m)
        \/ m.embeds # NoStruct /\ f[m.embeds].ok
        \/ m.embeds = NoStruct /\ IsSupportedType(m.type)
      FieldsOf(m) ==
        IF Skipped(m) THEN <<>>
        ELSE IF m.embeds = NoStruct THEN <<Column(m)>>
        ELSE AsEmbedded(f[m.embeds].fields)
  IN  IF \A i \in DOMAIN Members[s] : Parsed(Members[s][i])
      THEN [ok |-> TRUE, fields |-> FlattenSeq([i \in DOMAIN Members[s] |-> FieldsOf(Members[s][i])])]
      ELSE [ok |-> FALSE, fields |-> <<>>]

LEMMA WalkSame ==
  ASSUME NEW s \in Structs, NEW f, NEW g, \A t \in EmbedsLocally(s) : f[t] = g[t]
  PROVE  Walk(f, s) = Walk(g, s)
<1> DEFINE FieldsOf(h, m) ==
        IF Skipped(m) THEN <<>>
        ELSE IF m.embeds = NoStruct THEN <<Column(m)>>
        ELSE AsEmbedded(h[m.embeds].fields)
<1>1. \A i \in DOMAIN Members[s] :
        Members[s][i].embeds # NoStruct /\ ~Skipped(Members[s][i]) =>
          f[Members[s][i].embeds] = g[Members[s][i].embeds]
  BY EmbedsLocallyForm
<1>2. \A i \in DOMAIN Members[s] : FieldsOf(f, Members[s][i]) = FieldsOf(g, Members[s][i])
  BY <1>1
<1>3. [i \in DOMAIN Members[s] |-> FieldsOf(f, Members[s][i])]
      = [i \in DOMAIN Members[s] |-> FieldsOf(g, Members[s][i])]
  <2> HIDE DEF ExactColumns
  <2> QED
    BY <1>2
<1> QED
  BY <1>1, <1>3 DEF Walk

LEMMA ParseFieldsUnfolds ==
  \A s \in Structs : ParseFields[s] = Walk(ParseFields, s)
<1> DEFINE Solves(f, T) == \A s \in T : f[s] = Walk(f, s)
           Good(T) == /\ T \subseteq Structs
                      /\ \A s \in T : EmbedsLocally(s) \subseteq T
                      /\ \E f : f = [s \in Structs |-> f[s]] /\ Solves(f, T)
           N == {n \in Nat : n <= Cardinality(Structs) => \E T : Good(T) /\ Cardinality(T) = n}
<1> HIDE DEF Solves
<1>1. 0 \in N
  <2> DEFINE f == [s \in Structs |-> s]
  <2>1. f = [s \in Structs |-> f[s]] /\ Solves(f, {})
    BY DEF Solves
  <2> HIDE DEF f
  <2>2. Good({})
    BY <2>1
  <2> HIDE DEF Good
  <2> QED
    BY <2>2, FS_EmptySet
<1>2. ASSUME NEW n \in Nat, n \in N PROVE n + 1 \in N
  <2> HIDE DEF Good
  <2> SUFFICES ASSUME n + 1 <= Cardinality(Structs)
               PROVE  \E T : Good(T) /\ Cardinality(T) = n + 1
    OBVIOUS
  <2>0. Cardinality(Structs) \in Nat
    BY EmbeddingAssumption, FS_CardinalityType
  <2>1. PICK T : Good(T) /\ Cardinality(T) = n
    BY <1>2, <2>0
  <2>2. T \subseteq Structs /\ \A s \in T : EmbedsLocally(s) \subseteq T
    BY <2>1 DEF Good
  <2>3. PICK f : f = [s \in Structs |-> f[s]] /\ Solves(f, T)
    BY <2>1 DEF Good
  <2>4. PICK s \in Structs \ T : EmbedsLocally(s) \subseteq T
    <3> SUFFICES ASSUME \A s \in Structs \ T : ~ (EmbedsLocally(s) \subseteq T) PROVE FALSE
      OBVIOUS
    <3>1. Structs \subseteq T
      BY StructInduction
    <3>2. T = Structs
      BY <2>2, <3>1
    <3> QED
      BY <2>0, <2>1, <3>2
  <2> DEFINE g == [u \in Structs |-> IF u = s THEN Walk(f, s) ELSE f[u]]
  <2>5. g = [u \in Structs |-> g[u]] /\ g[s] = Walk(f, s) /\ \A u \in T : g[u] = f[u]
    BY <2>2, <2>4
  <2> HIDE DEF g
  <2>6. ASSUME NEW u \in T \cup {s} PROVE g[u] = Walk(g, u)
    <3>1. u \in Structs /\ \A t \in EmbedsLocally(u) : f[t] = g[t]
      BY <2>2, <2>4, <2>5
    <3>2. Walk(f, u) = Walk(g, u)
      BY <3>1, WalkSame
    <3> QED
      BY <2>3, <2>5, <3>2 DEF Solves
  <2>7. Good(T \cup {s})
    <3>1. Solves(g, T \cup {s})
      BY <2>6 DEF Solves
    <3>2. \E h : h = [u \in Structs |-> h[u]] /\ Solves(h, T \cup {s})
      BY <2>5, <3>1
    <3> QED
      BY <2>2, <2>4, <3>2 DEF Good
  <2>8. Cardinality(T \cup {s}) = n + 1
    BY <2>1, <2>2, <2>4, EmbeddingAssumption, FS_Subset, FS_AddElement
  <2> QED
    BY <2>7, <2>8
<1>3. \A n \in Nat : n \in N
  <2> HIDE DEF N
  <2> QED
    BY <1>1, <1>2, CountingUp
<1>4. PICK T : Good(T) /\ Cardinality(T) = Cardinality(Structs)
  <2>1. Cardinality(Structs) \in Nat
    BY EmbeddingAssumption, FS_CardinalityType
  <2> HIDE DEF Good
  <2> QED
    BY <1>3, <2>1
<1>5. T = Structs
  BY <1>4, EmbeddingAssumption, FS_Subset
<1>6. PICK f : f = [s \in Structs |-> f[s]] /\ Solves(f, Structs)
  BY <1>4, <1>5
<1>7. f = [s \in Structs |-> Walk(f, s)]
  BY <1>6 DEF Solves
<1>8. ParseFields = CHOOSE h : h = [s \in Structs |-> Walk(h, s)]
  BY DEF ParseFields, Walk
<1>9. ParseFields = [s \in Structs |-> Walk(ParseFields, s)]
  BY <1>7, <1>8
<1> QED
  BY <1>9

-----------------------------------------------------------------------------
LEMMA ExpandedForm ==
  ExpandedLocally = [s \in Structs |->
    {t \in Structs : \A S \in SUBSET Structs :
       (\A u \in S : EmbedsLocally(u) \subseteq S) /\ s \in S => t \in S}]
BY DEF ExpandedLocally, Expansion

LEMMA ExpansionClosed ==
  ASSUME NEW s \in Structs
  PROVE  /\ ExpandedLocally[s] \subseteq Structs
         /\ s \in ExpandedLocally[s]
         /\ \A u \in ExpandedLocally[s] : EmbedsLocally(u) \subseteq ExpandedLocally[s]
<1>1. ExpandedLocally[s] =
        {t \in Structs : \A S \in SUBSET Structs :
           (\A u \in S : EmbedsLocally(u) \subseteq S) /\ s \in S => t \in S}
  BY ExpandedForm
<1>2. ASSUME NEW u \in ExpandedLocally[s], NEW t \in EmbedsLocally(u)
      PROVE  t \in ExpandedLocally[s]
  <2>1. u \in Structs /\ t \in Structs
    BY <1>1, EmbedsLocallyForm
  <2>2. ASSUME NEW S \in SUBSET Structs, \A v \in S : EmbedsLocally(v) \subseteq S, s \in S
        PROVE  t \in S
    BY <1>1, <2>2
  <2> QED
    BY <1>1, <2>1, <2>2
<1> QED
  BY <1>1, <1>2

LEMMA ExpansionLeast ==
  ASSUME NEW s \in Structs, NEW S \in SUBSET Structs, s \in S,
         \A u \in S : EmbedsLocally(u) \subseteq S
  PROVE  ExpandedLocally[s] \subseteq S
BY ExpandedForm

(* A struct expands to itself and what the structs it embeds expand to. *)
LEMMA ExpansionSplit ==
  ASSUME NEW s \in Structs
  PROVE  \A t : t \in ExpandedLocally[s] <=>
           t = s \/ \E e \in EmbedsLocally(s) : t \in ExpandedLocally[e]
<1> DEFINE S == {s} \cup UNION {ExpandedLocally[e] : e \in EmbedsLocally(s)}
<1>1. \A e \in EmbedsLocally(s) : e \in Structs
  BY EmbedsLocallyForm
<1>2. S \in SUBSET Structs
  BY <1>1, ExpansionClosed
<1>3. ASSUME NEW u \in S PROVE EmbedsLocally(u) \subseteq S
  <2>1. CASE u = s
    <3>1. \A e \in EmbedsLocally(s) : e \in ExpandedLocally[e]
      BY <1>1, ExpansionClosed
    <3> QED
      BY <2>1, <3>1
  <2>2. CASE u # s
    <3>1. PICK e \in EmbedsLocally(s) : u \in ExpandedLocally[e]
      BY <2>2
    <3>2. EmbedsLocally(u) \subseteq ExpandedLocally[e]
      BY <1>1, <3>1, ExpansionClosed
    <3> QED
      BY <3>2
  <2> QED
    BY <2>1, <2>2
<1>4. ExpandedLocally[s] \subseteq S
  BY <1>2, <1>3, ExpansionLeast
<1>5. ASSUME NEW e \in EmbedsLocally(s) PROVE ExpandedLocally[e] \subseteq ExpandedLocally[s]
  <2>1. e \in ExpandedLocally[s] /\ ExpandedLocally[s] \in SUBSET Structs
    BY ExpansionClosed
  <2> QED
    BY <1>1, <2>1, ExpansionClosed, ExpansionLeast
<1> QED
  BY <1>4, <1>5, ExpansionClosed

(* No struct is among what the structs it embeds expand to. *)
LEMMA ExpansionAcyclic ==
  ASSUME NEW s \in Structs, NEW e \in EmbedsLocally(s)
  PROVE  s \notin ExpandedLocally[e]
<1> DEFINE T == {u \in Structs : \A e1 \in EmbedsLocally(u) : u \notin ExpandedLocally[e1]}
           Holds == {u \in Structs : \A v \in ExpandedLocally[u] : v \in T}
<1>1. ASSUME NEW u \in Structs, EmbedsLocally(u) \subseteq Holds PROVE u \in Holds
  <2>1. ASSUME NEW v \in ExpandedLocally[u], v # u PROVE v \in T
    <3>1. PICK e1 \in EmbedsLocally(u) : v \in ExpandedLocally[e1]
      BY <2>1, ExpansionSplit
    <3> QED
      BY <1>1, <3>1
  <2>2. u \in T
    <3> SUFFICES ASSUME NEW e1 \in EmbedsLocally(u), u \in ExpandedLocally[e1] PROVE FALSE
      OBVIOUS
    <3>1. u \in T
      BY <1>1
    <3> QED
      BY <3>1
  <2> QED
    BY <2>1, <2>2
<1>2. Structs \subseteq Holds
  <2> HIDE DEF Holds
  <2> QED
    BY <1>1, StructInduction
<1>3. s \in T
  BY <1>2, ExpansionClosed
<1> QED
  BY <1>3

FieldNames == {"name", "goName", "goType", "dbType", "flags", "default", "fk", "embedded"}

IsField(f) == f = [n \in FieldNames |-> f[n]]

LEMMA DirectiveForm ==
  ASSUME NEW f, NEW d, IsField(f)
  PROVE  /\ IsField(Directive(f, d))
         /\ Directive(f, d).goName = f.goName
         /\ Directive(f, d).embedded = f.embedded
         /\ IsPK(Directive(f, d)) <=> IsPK(f) \/ d.key = "pk"
<1>1. CASE d.key \in Flags
  <2>1. Directive(f, d) = [f EXCEPT !.flags = @ \cup {d.key}]
    <3>1. d.key \notin {"name", "type", "default", "fk"}
      BY <1>1 DEF Flags
    <3> QED
      BY <1>1, <3>1 DEF Directive
  <2> QED
    BY <1>1, <2>1 DEF IsField, FieldNames, IsPK
<1>2. CASE d.key \notin Flags
  <2>1. \/ Directive(f, d) = [f EXCEPT !.name = d.value]
        \/ Directive(f, d) = [f EXCEPT !.dbType = d.value]
        \/ Directive(f, d) = [f EXCEPT !.default = d.value]
        \/ Directive(f, d) = [f EXCEPT !.fk = d.value]
        \/ Directive(f, d) = f
    BY <1>2 DEF Directive
  <2>2. d.key # "pk"
    BY <1>2 DEF Flags
  <2> QED
    BY <2>1, <2>2 DEF IsField, FieldNames, IsPK
<1> QED
  BY <1>1, <1>2

LEMMA DirectivesStepwise ==
  ASSUME NEW f, NEW tag, IsSeq(tag)
  PROVE  \E at : /\ at[0] = f
                 /\ \A i \in DOMAIN tag : at[i] = Directive(at[i - 1], tag[i])
                 /\ ParseDirectives(f, tag) = at[Len(tag)]
<1> DEFINE Solves(g, n) == g = [i \in 0..n |-> IF i = 0 THEN f ELSE Directive(g[i - 1], tag[i])]
           T == {n \in Nat : \E g : Solves(g, n)}
<1>1. 0 \in T
  <2>1. Solves([i \in 0..0 |-> f], 0)
    OBVIOUS
  <2> QED
    BY <2>1
<1>2. ASSUME NEW n \in Nat, n \in T PROVE n + 1 \in T
  <2>1. PICK g : Solves(g, n)
    BY <1>2
  <2> DEFINE h == [i \in 0..(n + 1) |-> IF i = n + 1 THEN Directive(g[n], tag[n + 1]) ELSE g[i]]
  <2>2. ASSUME NEW i \in 0..(n + 1)
        PROVE  h[i] = IF i = 0 THEN f ELSE Directive(h[i - 1], tag[i])
    <3>1. CASE i = n + 1
      <4>1. i # 0 /\ i - 1 = n /\ i - 1 \in 0..(n + 1) /\ i - 1 # n + 1
        BY <3>1
      <4>2. h[i - 1] = g[n] /\ h[i] = Directive(g[n], tag[n + 1])
        BY <3>1, <4>1
      <4> QED
        BY <3>1, <4>1, <4>2
    <3>2. CASE i # n + 1
      <4>1. i \in 0..n /\ h[i] = g[i]
        BY <3>2
      <4>2. g[i] = IF i = 0 THEN f ELSE Directive(g[i - 1], tag[i])
        BY <2>1, <4>1
      <4>3. i # 0 => i - 1 \in 0..(n + 1) /\ i - 1 # n + 1 /\ h[i - 1] = g[i - 1]
        BY <4>1
      <4> QED
        BY <4>1, <4>2, <4>3
    <3> QED
      BY <3>1, <3>2
  <2>3. h = [i \in 0..(n + 1) |-> h[i]]
    OBVIOUS
  <2> HIDE DEF h
  <2>4. Solves(h, n + 1)
    BY <2>2, <2>3
  <2> HIDE DEF Solves
  <2>5. n + 1 \in Nat /\ \E g1 : Solves(g1, n + 1)
    BY <2>4
  <2> QED
    BY <2>5
<1>3. \A n \in Nat : n \in T
  <2> HIDE DEF T
  <2> QED
    BY <1>1, <1>2, CountingUp
<1>4. Len(tag) \in Nat /\ DOMAIN tag = 1..Len(tag)
  BY SeqForm
<1>5. PICK g : Solves(g, Len(tag))
  BY <1>3, <1>4
<1> DEFINE at == CHOOSE at : Solves(at, Len(tag))
<1>6. Solves(at, Len(tag))
  BY <1>5
<1>7. ParseDirectives(f, tag) = at[Len(tag)]
  BY DEF ParseDirectives
<1> HIDE DEF at
<1>8. at[0] = f
  BY <1>4, <1>6
<1>9. ASSUME NEW i \in DOMAIN tag PROVE at[i] = Directive(at[i - 1], tag[i])
  <2>1. i \in 0..Len(tag) /\ i # 0
    BY <1>4
  <2> QED
    BY <1>6, <2>1
<1> QED
  BY <1>7, <1>8, <1>9

(* The column of a member has its name, and is a key if a directive says so. *)
LEMMA ColumnForm ==
  ASSUME NEW m, IsSeq(m.tag)
  PROVE  /\ IsField(Column(m))
         /\ Column(m).goName = m.names[1]
         /\ Column(m).embedded = FALSE
         /\ IsPK(Column(m)) <=> \E i \in DOMAIN m.tag : m.tag[i].key = "pk"
<1> DEFINE f == [name |-> SnakeCase[m.names[1]], goName |-> m.names[1], goType |-> m.type,
                 dbType |-> NoText, flags |-> {}, default |-> NoText,
                 fk |-> <<NoText, NoText>>, embedded |-> FALSE]
<1>1. IsField(f) /\ f.goName = m.names[1] /\ f.embedded = FALSE /\ ~IsPK(f)
  BY DEF IsField, FieldNames, IsPK
<1>2. Column(m) = ParseDirectives(f, m.tag)
  BY DEF Column
<1> HIDE DEF f
<1>3. PICK at : /\ at[0] = f
                /\ \A i \in DOMAIN m.tag : at[i] = Directive(at[i - 1], m.tag[i])
                /\ Column(m) = at[Len(m.tag)]
  BY <1>2, DirectivesStepwise
<1>4. Len(m.tag) \in Nat /\ DOMAIN m.tag = 1..Len(m.tag)
  BY SeqForm
<1> DEFINE P(n) == /\ IsField(at[n])
                   /\ at[n].goName = m.names[1]
                   /\ at[n].embedded = FALSE
                   /\ IsPK(at[n]) <=> \E i \in 1..n : m.tag[i].key = "pk"
           T == {n \in Nat : n <= Len(m.tag) => P(n)}
<1>5. 0 \in T
  <2>1. ~ \E i \in 1..0 : m.tag[i].key = "pk"
    OBVIOUS
  <2>2. P(0)
    BY <1>1, <1>3, <2>1
  <2> HIDE DEF P
  <2> QED
    BY <2>2
<1>6. ASSUME NEW n \in Nat, n \in T PROVE n + 1 \in T
  <2> HIDE DEF P
  <2> SUFFICES ASSUME n + 1 <= Len(m.tag) PROVE P(n + 1)
    OBVIOUS
  <2>1. P(n)
    BY <1>4, <1>6
  <2> USE DEF P
  <2>2. n + 1 \in DOMAIN m.tag /\ (n + 1) - 1 = n
    BY <1>4
  <2>3. at[n + 1] = Directive(at[n], m.tag[n + 1])
    BY <1>3, <2>2
  <2>4. (\E i \in 1..(n + 1) : m.tag[i].key = "pk")
        <=> (\E i \in 1..n : m.tag[i].key = "pk") \/ m.tag[n + 1].key = "pk"
    <3>1. 1..(n + 1) = 1..n \cup {n + 1}
      OBVIOUS
    <3> QED
      BY <3>1
  <2>5. /\ IsField(at[n + 1])
        /\ at[n + 1].goName = at[n].goName
        /\ at[n + 1].embedded = at[n].embedded
        /\ IsPK(at[n + 1]) <=> IsPK(at[n]) \/ m.tag[n + 1].key = "pk"
    BY <2>1, <2>3, DirectiveForm
  <2> QED
    BY <2>1, <2>4, <2>5
<1> HIDE DEF P
<1>7. P(Len(m.tag))
  <2>1. \A n \in Nat : n \in T
    <3> HIDE DEF T
    <3> QED
      BY <1>5, <1>6, CountingUp
  <2> QED
    BY <1>4, <2>1
<1> QED
  BY <1>3, <1>4, <1>7 DEF P

Keyed(m) == \E i \in DOMAIN At(m).tag : At(m).tag[i].key = "pk"

(* f is the column of member m, of struct s or embedded in it.             *)
ColumnAt(f, s, m) ==
  /\ IsField(f)
  /\ f.goName = GoName(m)
  /\ IsPK(f) <=> Keyed(m)
  /\ f.embedded = (m[1] # s)

(* b places the members of A, of struct s or embedded in it, at their      *)
(* columns in q; those of one struct are in their order.                   *)
Lays(b, s, A, q) ==
  /\ Places(b, A, q)
  /\ \A m \in A : ColumnAt(q[b[m]], s, m)
  /\ \A m, n \in A : m[1] = n[1] /\ m[2] < n[2] => b[m] < b[n]

LEMMA LaysJoined ==
  ASSUME NEW p, NEW q, IsSeq(p), IsSeq(q), NEW A, NEW B, A \cap B = {}, NEW s,
         \A m \in A, n \in B : m[1] = n[1] => ~ (n[2] < m[2]),
         NEW a, NEW b, Lays(a, s, A, p), Lays(b, s, B, q)
  PROVE  \E c : Lays(c, s, A \cup B, p \o q)
<1>1. PICK c : Joins(c, a, A, p, b, B, q)
  BY PlacesJoined DEF Lays
<1>2. Places(c, A \cup B, p \o q)
  BY <1>1 DEF Joins
<1>3. /\ \A m \in A : c[m] = a[m] /\ c[m] <= Len(p) /\ (p \o q)[c[m]] = p[a[m]]
      /\ \A m \in B : c[m] = Len(p) + b[m] /\ c[m] > Len(p) /\ (p \o q)[c[m]] = q[b[m]]
  BY <1>1 DEF Joins
<1>4. ASSUME NEW m \in A \cup B PROVE ColumnAt((p \o q)[c[m]], s, m)
  <2>1. CASE m \in A
    BY <2>1, <1>3 DEF Lays
  <2>2. CASE m \in B
    BY <2>2, <1>3 DEF Lays
  <2> QED
    BY <2>1, <2>2
<1>5. ASSUME NEW m \in A \cup B, NEW n \in A \cup B, m[1] = n[1], m[2] < n[2]
      PROVE  c[m] < c[n]
  <2>1. Len(p) \in Nat /\ DOMAIN p \subseteq Nat /\ DOMAIN q \subseteq Nat
    BY SeqForm
  <2>2. /\ \A x \in A : a[x] \in Nat /\ c[x] \in Nat
        /\ \A x \in B : b[x] \in Nat /\ c[x] \in Nat
    <3>1. \A x \in A : a[x] \in Nat
      BY <2>1 DEF Lays, Places
    <3>2. \A x \in B : b[x] \in Nat
      BY <2>1 DEF Lays, Places
    <3> QED
      BY <3>1, <3>2, <2>1, <1>3
  <2>3. CASE m \in A /\ n \in A
    BY <2>3, <1>3, <1>5 DEF Lays
  <2>4. CASE m \in B /\ n \in B
    <3>1. b[m] < b[n]
      BY <2>4, <1>5 DEF Lays
    <3>2. c[m] = Len(p) + b[m] /\ c[n] = Len(p) + b[n]
      BY <2>4, <1>3
    <3> QED
      BY <2>1, <2>2, <2>4, <3>1, <3>2
  <2>5. CASE m \in A /\ n \in B
    BY <2>1, <2>2, <2>5, <1>3
  <2>6. CASE m \in B /\ n \in A
    BY <2>6, <1>5
  <2> QED
    BY <2>3, <2>4, <2>5, <2>6
<1> QED
  BY <1>2, <1>4, <1>5 DEF Lays

LEMMA AsEmbeddedSeq ==
  ASSUME NEW q, IsSeq(q)
  PROVE  IsSeq(AsEmbedded(q))
<1> DEFINE e == AsEmbedded(q)
<1>1. Len(q) \in Nat /\ DOMAIN q = 1..Len(q)
  BY SeqForm
<1>2. e \in [1..Len(q) -> Range(e)]
  BY <1>1 DEF AsEmbedded, Range
<1> QED
  BY <1>1, <1>2 DEF IsSeq

LEMMA LaysAsEmbedded ==
  ASSUME NEW q, IsSeq(q), NEW A, NEW s, NEW t, \A m \in A : m[1] # s,
         NEW b, Lays(b, t, A, q)
  PROVE  IsSeq(AsEmbedded(q)) /\ Lays(b, s, A, AsEmbedded(q))
<1> DEFINE e == AsEmbedded(q)
<1>1. /\ DOMAIN e = DOMAIN q
      /\ \A k \in DOMAIN q : e[k] = [q[k] EXCEPT !.embedded = TRUE]
  BY DEF AsEmbedded
<1>2. IsSeq(e)
  BY AsEmbeddedSeq
<1> HIDE DEF e
<1>3. ASSUME NEW m \in A PROVE ColumnAt(e[b[m]], s, m)
  <2> DEFINE f == q[b[m]]
  <2>1. b[m] \in DOMAIN q
    BY DEF Lays, Places
  <2>2. e[b[m]] = [f EXCEPT !.embedded = TRUE]
    BY <1>1, <2>1
  <2>3. IsField(f) /\ f.goName = GoName(m) /\ (IsPK(f) <=> Keyed(m))
    BY DEF Lays, ColumnAt
  <2> HIDE DEF f
  <2>4. IsField(e[b[m]]) /\ e[b[m]].goName = f.goName /\ e[b[m]].flags = f.flags /\ e[b[m]].embedded = TRUE
    BY <2>2, <2>3 DEF IsField, FieldNames
  <2> QED
    BY <2>3, <2>4 DEF IsPK, ColumnAt
<1>4. Places(b, A, e)
  BY <1>1 DEF Lays, Places
<1>5. Lays(b, s, A, e)
  BY <1>3, <1>4 DEF Lays
<1> QED
  BY <1>2, <1>5 DEF e

LEMMA LaysColumn ==
  ASSUME NEW s, NEW i \in Nat, IsSeq(Members[s][i].tag)
  PROVE  \E b : Lays(b, s, {<<s, i>>}, <<Column(Members[s][i])>>)
<1> DEFINE m == <<s, i>>
           f == Column(Members[s][i])
           b == [x \in {m} |-> 1]
<1>1. ColumnAt(f, s, m)
  BY ColumnForm DEF ColumnAt, GoName, At, Keyed
<1>2. Places(b, {m}, <<f>>) /\ b[m] = 1 /\ <<f>>[1] = f
  BY OneForm DEF Places
<1> HIDE DEF m, f, b
<1>3. ~ (m[2] < m[2])
  BY DEF m
<1>4. Lays(b, s, {m}, <<f>>)
  BY <1>1, <1>2, <1>3 DEF Lays
<1> QED
  BY <1>4 DEF m, f

LEMMA NamedForm ==
  ASSUME NEW S, NEW m
  PROVE  m \in Named(S) <=> /\ m = <<m[1], m[2]>>
                            /\ m[1] \in S
                            /\ m[2] \in DOMAIN Members[m[1]]
                            /\ At(m).embeds = NoStruct
BY DEF Named, At

LEMMA MembersForm ==
  ASSUME NEW s \in Structs
  PROVE  /\ IsSeq(Members[s])
         /\ Len(Members[s]) \in Nat
         /\ DOMAIN Members[s] = 1..Len(Members[s])
         /\ \A i \in DOMAIN Members[s] : Members[s][i].tag = Ignored \/ IsSeq(Members[s][i].tag)
<1>1. IsSeq(Members[s])
  BY MemberAssumption DEF IsSeq
<1> QED
  BY <1>1, SeqForm, MemberAssumption DEF IsSeq

Enters(s, i) == Members[s][i].local /\ Members[s][i].embeds # NoStruct

LEMMA EntersForm ==
  ASSUME NEW s \in Structs
  PROVE  /\ \A i \in DOMAIN Members[s] : Enters(s, i) => Members[s][i].embeds \in EmbedsLocally(s)
         /\ \A e \in EmbedsLocally(s) : \E i \in DOMAIN Members[s] : Enters(s, i) /\ e = Members[s][i].embeds
BY DEF Enters, EmbedsLocally

(* The members whose columns the first i members of s bring. *)
Upto(s, i) ==
  {m \in Persistent(s) :
     \/ m[1] = s /\ m[2] <= i
     \/ m[1] # s /\ \E j \in DOMAIN Members[s] :
                      j <= i /\ Enters(s, j) /\ m[1] \in ExpandedLocally[Members[s][j].embeds]}

LEMMA UptoEnds ==
  ASSUME NEW s \in Structs
  PROVE  Upto(s, 0) = {} /\ Upto(s, Len(Members[s])) = Persistent(s)
<1>1. Len(Members[s]) \in Nat /\ DOMAIN Members[s] = 1..Len(Members[s])
  BY MembersForm
<1>2. ASSUME NEW m \in Upto(s, 0) PROVE FALSE
  <2>1. m \in Named(ExpandedLocally[s])
    BY DEF Upto, Persistent
  <2>2. m[1] = s => m[2] \in 1..Len(Members[s])
    BY <1>1, <2>1, NamedForm
  <2> QED
    BY <1>1, <2>2 DEF Upto
<1>3. ASSUME NEW m \in Persistent(s) PROVE m \in Upto(s, Len(Members[s]))
  <2>1. m \in Named(ExpandedLocally[s])
    BY DEF Persistent
  <2>2. m[1] \in ExpandedLocally[s] /\ (m[1] = s => m[2] \in 1..Len(Members[s]))
    BY <1>1, <2>1, NamedForm
  <2>3. CASE m[1] = s
    BY <1>1, <2>2, <2>3 DEF Upto
  <2>4. CASE m[1] # s
    <3>1. PICK e \in EmbedsLocally(s) : m[1] \in ExpandedLocally[e]
      BY <2>2, <2>4, ExpansionSplit
    <3>2. PICK j \in DOMAIN Members[s] : Enters(s, j) /\ e = Members[s][j].embeds
      BY EntersForm
    <3>3. j <= Len(Members[s])
      BY <1>1
    <3> QED
      BY <2>4, <3>1, <3>2, <3>3 DEF Upto
  <2> QED
    BY <2>3, <2>4
<1> QED
  BY <1>2, <1>3 DEF Upto

(* What the next member adds. *)
LEMMA UptoNext ==
  ASSUME NEW s \in Structs, NEW i \in DOMAIN Members[s]
  PROVE  LET m == Members[s][i]
         IN  /\ Skipped(m) => Upto(s, i) = Upto(s, i - 1)
             /\ ~Skipped(m) /\ m.embeds # NoStruct => Upto(s, i) = Upto(s, i - 1) \cup Persistent(m.embeds)
             /\ ~Skipped(m) /\ m.embeds = NoStruct /\ IsSupportedType(m.type) =>
                  /\ Upto(s, i) = Upto(s, i - 1) \cup {<<s, i>>}
                  /\ IsSeq(m.tag)
<1> DEFINE mem == Members[s][i]
<1>1. Len(Members[s]) \in Nat /\ DOMAIN Members[s] = 1..Len(Members[s]) /\ i \in Nat
  BY MembersForm
<1>2. ASSUME NEW m \in Persistent(s)
      PROVE  m \in Upto(s, i) <=>
               \/ m \in Upto(s, i - 1)
               \/ m[1] = s /\ m[2] = i
               \/ m[1] # s /\ Enters(s, i) /\ m[1] \in ExpandedLocally[mem.embeds]
  <2>1. \A j \in DOMAIN Members[s] : j <= i <=> j <= i - 1 \/ j = i
    BY <1>1
  <2>2. m[1] = s => m[2] \in DOMAIN Members[s]
    BY NamedForm DEF Persistent
  <2> QED
    BY <2>1, <2>2 DEF Upto
<1>3. CASE Skipped(mem)
  <2>1. ~Enters(s, i)
    BY <1>3 DEF Skipped, Enters
  <2>2. ASSUME NEW m \in Persistent(s), m[1] = s, m[2] = i PROVE FALSE
    <3>1. At(m) = mem /\ mem.embeds = NoStruct /\ ToPersist(mem)
      BY <2>2, NamedForm DEF Persistent, At
    <3> QED
      BY <1>3, <3>1 DEF Skipped, ToPersist, IsSupportedType
  <2>3. Upto(s, i) = Upto(s, i - 1)
    BY <1>2, <2>1, <2>2 DEF Upto
  <2> QED
    BY <1>3, <2>3
<1>4. CASE ~Skipped(mem) /\ mem.embeds # NoStruct
  <2>1. Enters(s, i) /\ mem.embeds \in EmbedsLocally(s) /\ mem.embeds \in Structs
    BY <1>4, EntersForm, EmbedsLocallyForm DEF Enters, Skipped
  <2>2. ASSUME NEW m \in Persistent(s), m[1] = s, m[2] = i PROVE FALSE
    <3>1. At(m) = mem /\ mem.embeds = NoStruct
      BY <2>2, NamedForm DEF Persistent, At
    <3> QED
      BY <1>4, <3>1
  <2>3. \A m : m \in Persistent(mem.embeds) <=>
                 m \in Persistent(s) /\ m[1] # s /\ m[1] \in ExpandedLocally[mem.embeds]
    <3>1. s \notin ExpandedLocally[mem.embeds]
      BY <2>1, ExpansionAcyclic
    <3>2. \A t \in ExpandedLocally[mem.embeds] : t \in ExpandedLocally[s]
      BY <2>1, ExpansionSplit
    <3> QED
      BY <3>1, <3>2, NamedForm DEF Persistent
  <2>4. Upto(s, i) = Upto(s, i - 1) \cup Persistent(mem.embeds)
    <3>1. \A m : m \in Upto(s, i) => m \in Persistent(s)
      BY DEF Upto
    <3>2. \A m : m \in Upto(s, i - 1) => m \in Persistent(s)
      BY DEF Upto
    <3> QED
      BY <1>2, <2>1, <2>2, <2>3, <3>1, <3>2
  <2> QED
    BY <1>4, <2>4
<1>5. CASE ~Skipped(mem) /\ mem.embeds = NoStruct /\ IsSupportedType(mem.type)
  <2>1. ToPersist(mem) /\ mem.tag # Ignored
    BY <1>5 DEF Skipped, ToPersist
  <2>2. <<s, i>> \in Persistent(s)
    <3> DEFINE m == <<s, i>>
    <3>1. m[1] = s /\ m[2] = i /\ At(m) = mem
      BY DEF At
    <3>2. s \in ExpandedLocally[s]
      BY ExpansionClosed
    <3> HIDE DEF m
    <3>3. m \in Named(ExpandedLocally[s])
      BY <1>5, <3>1, <3>2, NamedForm DEF m
    <3> QED
      BY <2>1, <3>1, <3>3 DEF Persistent, m
  <2>3. \A m \in Persistent(s) : m[1] = s /\ m[2] = i <=> m = <<s, i>>
    BY NamedForm DEF Persistent
  <2>4. ~Enters(s, i)
    BY <1>5 DEF Enters
  <2>5. Upto(s, i) = Upto(s, i - 1) \cup {<<s, i>>}
    <3>1. \A m : m \in Upto(s, i) => m \in Persistent(s)
      BY DEF Upto
    <3>2. \A m : m \in Upto(s, i - 1) => m \in Persistent(s)
      BY DEF Upto
    <3> QED
      BY <1>2, <2>2, <2>3, <2>4, <3>1, <3>2
  <2>6. IsSeq(mem.tag)
    BY <2>1, MembersForm
  <2> QED
    BY <1>5, <2>5, <2>6
<1> QED
  BY <1>3, <1>4, <1>5

Laid(s) ==
  /\ IsSeq(ParseFields[s].fields)
  /\ \E b : Lays(b, s, Persistent(s), ParseFields[s].fields)

(* What a struct that parses consists of. *)
LEMMA ParsedForm ==
  ASSUME NEW s \in Structs, ParseFields[s].ok
  PROVE  /\ \A i \in DOMAIN Members[s] :
              LET m == Members[s][i]
              IN  \/ Skipped(m)
                  \/ m.embeds # NoStruct /\ m.embeds \in EmbedsLocally(s) /\ ParseFields[m.embeds].ok
                  \/ m.embeds = NoStruct /\ IsSupportedType(m.type)
         /\ ParseFields[s].fields = FlattenSeq([i \in DOMAIN Members[s] |->
              LET m == Members[s][i]
              IN  IF Skipped(m) THEN <<>>
                  ELSE IF m.embeds = NoStruct THEN <<Column(m)>>
                  ELSE AsEmbedded(ParseFields[m.embeds].fields)])
<1>1. ParseFields[s] = Walk(ParseFields, s)
  BY ParseFieldsUnfolds, Zenon
<1> DEFINE parsed == \A i \in DOMAIN Members[s] :
                       LET m == Members[s][i]
                       IN  \/ Skipped(m)
                           \/ m.embeds # NoStruct /\ ParseFields[m.embeds].ok
                           \/ m.embeds = NoStruct /\ IsSupportedType(m.type)
           fields == FlattenSeq([i \in DOMAIN Members[s] |->
                       LET m == Members[s][i]
                       IN  IF Skipped(m) THEN <<>>
                           ELSE IF m.embeds = NoStruct THEN <<Column(m)>>
                           ELSE AsEmbedded(ParseFields[m.embeds].fields)])
<1>2. Walk(ParseFields, s) = IF parsed THEN [ok |-> TRUE, fields |-> fields]
                             ELSE [ok |-> FALSE, fields |-> <<>>]
  BY Zenon DEF Walk
<1>3. parsed /\ ParseFields[s].fields = fields
  <2> HIDE DEF parsed, fields
  <2> QED
    BY <1>1, <1>2
<1>4. \A i \in DOMAIN Members[s] :
        LET m == Members[s][i]
        IN  \/ Skipped(m)
            \/ m.embeds # NoStruct /\ m.embeds \in EmbedsLocally(s) /\ ParseFields[m.embeds].ok
            \/ m.embeds = NoStruct /\ IsSupportedType(m.type)
  <2> HIDE DEF fields
  <2> QED
    BY <1>3, EmbedsLocallyForm
<1> QED
  BY <1>3, <1>4, Zenon

(* The structs that a struct embeds have no struct in common.              *)
LEMMA UptoApart ==
  ASSUME NEW s \in Structs, EmbeddedOnce(ExpandedLocally[s]),
         NEW i \in DOMAIN Members[s], Enters(s, i),
         NEW m \in Upto(s, i - 1), NEW n \in Persistent(Members[s][i].embeds)
  PROVE  m[1] # n[1]
<1> DEFINE e == Members[s][i].embeds
<1>1. Len(Members[s]) \in Nat /\ DOMAIN Members[s] = 1..Len(Members[s])
  BY MembersForm
<1>2. e \in EmbedsLocally(s)
  BY EntersForm
<1>3. n[1] \in ExpandedLocally[e]
  BY NamedForm DEF Persistent
<1>4. s \notin ExpandedLocally[e]
  BY <1>2, ExpansionAcyclic
<1>5. CASE m[1] = s
  BY <1>3, <1>4, <1>5
<1>6. CASE m[1] # s
  <2>1. PICK j \in DOMAIN Members[s] :
          j <= i - 1 /\ Enters(s, j) /\ m[1] \in ExpandedLocally[Members[s][j].embeds]
    BY <1>6 DEF Upto
  <2>2. j # i
    BY <1>1, <2>1
  <2>3. s \in ExpandedLocally[s]
    BY ExpansionClosed
  <2>4. ExpandedLocally[Members[s][j].embeds] \cap ExpandedLocally[e] = {}
    BY <2>1, <2>2, <2>3 DEF EmbeddedOnce, Enters
  <2> QED
    BY <1>3, <2>1, <2>4
<1> QED
  BY <1>5, <1>6

LEMMA LaidStep ==
  ASSUME NEW s \in Structs, ParseFields[s].ok, EmbeddedOnce(ExpandedLocally[s]),
         \A e \in EmbedsLocally(s) : ParseFields[e].ok => Laid(e)
  PROVE  Laid(s)
<1> DEFINE piece(m) == IF Skipped(m) THEN <<>>
                       ELSE IF m.embeds = NoStruct THEN <<Column(m)>>
                       ELSE AsEmbedded(ParseFields[m.embeds].fields)
           pieces == [i \in DOMAIN Members[s] |-> piece(Members[s][i])]
<1>1. Len(Members[s]) \in Nat /\ DOMAIN Members[s] = 1..Len(Members[s])
  BY MembersForm
<1>2. \A i \in DOMAIN Members[s] :
        LET m == Members[s][i]
        IN  \/ Skipped(m)
            \/ m.embeds # NoStruct /\ m.embeds \in EmbedsLocally(s) /\ ParseFields[m.embeds].ok
            \/ m.embeds = NoStruct /\ IsSupportedType(m.type)
  BY ParsedForm
<1>3. ParseFields[s].fields = FlattenSeq(pieces)
  BY ParsedForm
<1>4. DOMAIN pieces = DOMAIN Members[s] /\ \A i \in DOMAIN Members[s] : pieces[i] = piece(Members[s][i])
  OBVIOUS
<1>5. IsSeq(pieces) /\ Len(pieces) = Len(Members[s])
  <2>1. pieces \in [1..Len(Members[s]) -> Range(pieces)]
    BY <1>1 DEF Range
  <2> HIDE DEF pieces
  <2>2. pieces \in Seq(Range(pieces))
    BY <1>1, <2>1
  <2>3. DOMAIN pieces = 1..Len(pieces) /\ Len(pieces) \in Nat
    BY <2>2, LenProperties
  <2> QED
    BY <1>1, <1>4, <2>2, <2>3 DEF IsSeq
<1> HIDE DEF pieces
<1>6. ASSUME NEW i \in DOMAIN Members[s]
      PROVE  IsSeq(pieces[i])
  <2> DEFINE m == Members[s][i]
  <2>1. pieces[i] = piece(m)
    BY <1>4
  <2>2. CASE Skipped(m)
    BY <2>1, <2>2, EmptyForm
  <2>3. CASE ~Skipped(m) /\ m.embeds = NoStruct
    BY <2>1, <2>3, OneForm
  <2>4. CASE ~Skipped(m) /\ m.embeds # NoStruct
    <3>1. Laid(m.embeds)
      BY <1>2, <2>4
    <3>2. IsSeq(ParseFields[m.embeds].fields)
      BY <3>1 DEF Laid
    <3>3. IsSeq(AsEmbedded(ParseFields[m.embeds].fields))
      BY <3>2, AsEmbeddedSeq
    <3> QED
      BY <2>1, <2>4, <3>3
  <2> QED
    BY <2>2, <2>3, <2>4
<1>7. PICK at : /\ at[0] = << >>
                /\ \A i \in DOMAIN Members[s] : at[i] = at[i - 1] \o pieces[i]
                /\ FlattenSeq(pieces) = at[Len(Members[s])]
  BY <1>4, <1>5, <1>6, FlattenedStepwise
<1> DEFINE P(n) == IsSeq(at[n]) /\ \E b : Lays(b, s, Upto(s, n), at[n])
           T == {n \in Nat : n <= Len(Members[s]) => P(n)}
<1>8. 0 \in T
  <2>1. Lays([x \in {} |-> x], s, {}, << >>)
    BY EmptyForm DEF Lays, Places
  <2>2. P(0)
    BY <1>7, <2>1, EmptyForm, UptoEnds
  <2> HIDE DEF P
  <2> QED
    BY <2>2
<1>9. ASSUME NEW n \in Nat, n \in T PROVE n + 1 \in T
  <2> HIDE DEF P
  <2> SUFFICES ASSUME n + 1 <= Len(Members[s]) PROVE P(n + 1)
    OBVIOUS
  <2>1. P(n)
    BY <1>1, <1>9
  <2> DEFINE i == n + 1
             m == Members[s][i]
  <2>2. i \in DOMAIN Members[s] /\ i - 1 = n /\ i \in Nat
    BY <1>1
  <2>3. at[i] = at[n] \o piece(m)
    BY <1>4, <1>7, <2>2
  <2>4. IsSeq(at[n])
    BY <2>1 DEF P
  <2>5. PICK a : Lays(a, s, Upto(s, n), at[n])
    BY <2>1 DEF P
  <2>6. CASE Skipped(m)
    <3>1. Upto(s, i) = Upto(s, n)
      BY <2>2, <2>6, UptoNext
    <3>2. at[i] = at[n]
      BY <2>3, <2>4, <2>6, ConcatEmptySeq DEF IsSeq
    <3> QED
      BY <2>4, <2>5, <3>1, <3>2 DEF P
  <2>7. CASE ~Skipped(m) /\ m.embeds # NoStruct
    <3> DEFINE e == m.embeds
               q == AsEmbedded(ParseFields[e].fields)
    <3>1. e \in EmbedsLocally(s) /\ Laid(e) /\ Enters(s, i)
      BY <1>2, <2>2, <2>7 DEF Enters, Skipped
    <3>2. PICK b : Lays(b, e, Persistent(e), ParseFields[e].fields)
      BY <3>1 DEF Laid
    <3>3. \A x \in Persistent(e) : x[1] # s
      BY <3>1, ExpansionAcyclic, NamedForm DEF Persistent
    <3>4. IsSeq(q) /\ Lays(b, s, Persistent(e), q)
      BY <3>1, <3>2, <3>3, LaysAsEmbedded DEF Laid
    <3>5. \A x \in Upto(s, n), y \in Persistent(e) : x[1] # y[1]
      BY <2>2, <3>1, UptoApart
    <3>6. Upto(s, i) = Upto(s, n) \cup Persistent(e)
      BY <2>2, <2>7, UptoNext, Zenon
    <3>7. at[i] = at[n] \o q
      BY <2>3, <2>7, Zenon
    <3> HIDE DEF e, q, i, m
    <3>8. \E c : Lays(c, s, Upto(s, n) \cup Persistent(e), at[n] \o q)
      BY <2>4, <2>5, <3>4, <3>5, LaysJoined
    <3>9. IsSeq(at[n] \o q)
      BY <2>4, <3>4, ConcatForm
    <3> QED
      BY <3>6, <3>7, <3>8, <3>9 DEF P, i
  <2>8. CASE ~Skipped(m) /\ m.embeds = NoStruct
    <3> DEFINE q == <<Column(m)>>
               B == {<<s, i>>}
    <3>1. IsSupportedType(m.type)
      BY <1>2, <2>2, <2>8
    <3>2. Upto(s, i) = Upto(s, n) \cup B /\ IsSeq(m.tag)
      BY <2>2, <2>8, <3>1, UptoNext
    <3>3. PICK b : Lays(b, s, B, q)
      BY <2>2, <3>2, LaysColumn
    <3>4. \A x \in Upto(s, n) : x[1] = s => x[2] <= n /\ x[2] \in Nat
      <4>1. \A x \in Upto(s, n) : x[1] = s => x[2] \in DOMAIN Members[s]
        BY NamedForm DEF Upto, Persistent
      <4> QED
        BY <1>1, <4>1 DEF Upto
    <3>5. \A x \in Upto(s, n), y \in B : x # y /\ (x[1] = y[1] => ~ (y[2] < x[2]))
      BY <3>4
    <3>6. at[i] = at[n] \o q
      BY <2>3, <2>8
    <3>7. IsSeq(q)
      BY OneForm
    <3> HIDE DEF q, B, i, m
    <3>8. \E c : Lays(c, s, Upto(s, n) \cup B, at[n] \o q)
      BY <2>4, <2>5, <3>3, <3>5, <3>7, LaysJoined
    <3>9. IsSeq(at[n] \o q)
      BY <2>4, <3>7, ConcatForm
    <3> QED
      BY <3>2, <3>6, <3>8, <3>9 DEF P, i
  <2> QED
    BY <2>6, <2>7, <2>8
<1> HIDE DEF P
<1>10. P(Len(Members[s]))
  <2>1. \A n \in Nat : n \in T
    <3> HIDE DEF T
    <3> QED
      BY <1>8, <1>9, CountingUp
  <2> QED
    BY <1>1, <2>1
<1> QED
  BY <1>3, <1>7, <1>10, UptoEnds DEF P, Laid

(* A struct whose expansion is a tree parses to a column for every member  *)
(* that is to persist, there and in what it embeds.                        *)
LEMMA StructLaid ==
  ASSUME NEW s \in Structs, ParseFields[s].ok, EmbeddedOnce(ExpandedLocally[s])
  PROVE  Laid(s)
<1> DEFINE T == {t \in Structs : ParseFields[t].ok /\ EmbeddedOnce(ExpandedLocally[t]) => Laid(t)}
<1>1. ASSUME NEW t \in Structs, EmbedsLocally(t) \subseteq T PROVE t \in T
  <2> SUFFICES ASSUME ParseFields[t].ok, EmbeddedOnce(ExpandedLocally[t]) PROVE Laid(t)
    OBVIOUS
  <2>1. ASSUME NEW e \in EmbedsLocally(t), ParseFields[e].ok PROVE Laid(e)
    <3>1. e \in Structs
      BY EmbedsLocallyForm
    <3>2. \A u \in ExpandedLocally[e] : u \in ExpandedLocally[t]
      BY ExpansionSplit
    <3>3. EmbeddedOnce(ExpandedLocally[e])
      BY <3>2 DEF EmbeddedOnce
    <3> QED
      BY <1>1, <2>1, <3>3
  <2> QED
    BY <2>1, LaidStep
<1>2. Structs \subseteq T
  <2> HIDE DEF T
  <2> QED
    BY <1>1, StructInduction
<1> QED
  BY <1>2

(* A struct that parses has no exported member of another type anywhere.   *)
LEMMA ParsedKinds ==
  ASSUME NEW s \in Structs, ParseFields[s].ok, NEW m \in Named(ExpandedLocally[s]), At(m).exported
  PROVE  KindOf[At(m).type] # "other"
<1> DEFINE T == {t \in Structs : ParseFields[t].ok =>
                   \A n \in Named(ExpandedLocally[t]) : At(n).exported => KindOf[At(n).type] # "other"}
<1>1. ASSUME NEW t \in Structs, EmbedsLocally(t) \subseteq T PROVE t \in T
  <2> SUFFICES ASSUME ParseFields[t].ok, NEW n \in Named(ExpandedLocally[t]), At(n).exported
               PROVE  KindOf[At(n).type] # "other"
    OBVIOUS
  <2>1. n[1] \in ExpandedLocally[t] /\ n[2] \in DOMAIN Members[n[1]] /\ At(n).embeds = NoStruct
    BY NamedForm
  <2>2. CASE n[1] = t
    <3>1. Skipped(At(n)) \/ IsSupportedType(At(n).type)
      BY <2>1, <2>2, ParsedForm DEF At
    <3> QED
      BY <2>1, <3>1 DEF Skipped, IsSupportedType
  <2>3. CASE n[1] # t
    <3>1. PICK e \in EmbedsLocally(t) : n[1] \in ExpandedLocally[e]
      BY <2>1, <2>3, ExpansionSplit
    <3>2. PICK i \in DOMAIN Members[t] : Enters(t, i) /\ e = Members[t][i].embeds
      BY EntersForm
    <3>3. ParseFields[e].ok
      BY <3>2, ParsedForm DEF Enters, Skipped
    <3>4. n \in Named(ExpandedLocally[e])
      BY <3>1, NamedForm
    <3> QED
      BY <1>1, <3>3, <3>4
  <2> QED
    BY <2>2, <2>3
<1>2. Structs \subseteq T
  <2> HIDE DEF T
  <2> QED
    BY <1>1, StructInduction
<1> QED
  BY <1>2

LEMMA GoNameIsName ==
  ASSUME NEW s \in Structs, NEW m \in Persistent(s)
  PROVE  GoName(m) \in Range(At(m).names)
<1>0. m \in Named(ExpandedLocally[s]) /\ ExpandedLocally[s] \subseteq Structs
  BY ExpansionClosed DEF Persistent
<1>1. m[1] \in Structs /\ m[2] \in DOMAIN Members[m[1]] /\ At(m).embeds = NoStruct
  BY <1>0, NamedForm
<1>2. At(m).names \in Seq(Range(At(m).names)) /\ At(m).names # <<>>
  BY <1>1, MemberAssumption DEF At
<1>3. 1 \in DOMAIN At(m).names
  BY <1>2
<1> QED
  BY <1>3 DEF GoName, Range

LEMMA FieldsExact ==
  ASSUME NEW s \in Structs, ParseFields[s].ok, EmbeddedOnce(ExpandedLocally[s])
  PROVE  ExactColumns(s, ApplyOrderPolicy(ParseFields[s].fields))
<1> DEFINE raw    == ParseFields[s].fields
           fields == ApplyOrderPolicy(raw)
           Cols(n)   == {k \in DOMAIN fields : fields[k].goName = n}
           Wanted(n) == {m \in Persistent(s) : GoName(m) = n}
<1>1. IsSeq(raw)
  BY StructLaid DEF Laid
<1>2. PICK b : Lays(b, s, Persistent(s), raw)
  BY StructLaid DEF Laid
<1> HIDE DEF raw
<1>3. IsSeq(fields)
  BY <1>1, OrderPolicyForm
<1>4. PICK p : /\ Places(p, DOMAIN raw, fields)
               /\ \A k \in DOMAIN raw : fields[p[k]] = raw[k]
               /\ \A j, k \in DOMAIN raw :
                    \/ Rank(raw[j]) < Rank(raw[k])
                    \/ Rank(raw[j]) = Rank(raw[k]) /\ j < k
                    => p[j] < p[k]
  BY <1>1, OrderPolicyForm
<1> HIDE DEF fields
<1>5. Len(fields) \in Nat /\ DOMAIN fields = 1..Len(fields) /\ DOMAIN raw \subseteq Nat
  BY <1>1, <1>3, SeqForm
<1> DEFINE e(m) == p[b[m]]
<1>6. ASSUME NEW m \in Persistent(s)
      PROVE  /\ b[m] \in DOMAIN raw /\ e(m) \in DOMAIN fields
             /\ fields[e(m)] = raw[b[m]]
             /\ fields[e(m)].goName = GoName(m)
             /\ Rank(fields[e(m)]) = RankAt(s, m)
  <2>1. b[m] \in DOMAIN raw
    BY <1>2 DEF Lays, Places
  <2>2. e(m) \in DOMAIN fields /\ fields[e(m)] = raw[b[m]]
    BY <1>4, <2>1 DEF Places
  <2>3. ColumnAt(raw[b[m]], s, m)
    BY <1>2 DEF Lays
  <2>4. Rank(raw[b[m]]) = RankAt(s, m)
    BY <2>3 DEF ColumnAt, Keyed, Rank, RankAt
  <2> QED
    BY <2>1, <2>2, <2>3, <2>4 DEF ColumnAt
<1>7. \A m, n \in Persistent(s) : e(m) = e(n) => m = n
  <2> SUFFICES ASSUME NEW m \in Persistent(s), NEW n \in Persistent(s), e(m) = e(n)
               PROVE  m = n
    OBVIOUS
  <2>1. b[m] = b[n]
    BY <1>4, <1>6 DEF Places
  <2> QED
    BY <1>2, <2>1 DEF Lays, Places
<1>8. ASSUME NEW k \in DOMAIN fields PROVE \E m \in Persistent(s) : e(m) = k
  <2>1. PICK j \in DOMAIN raw : p[j] = k
    BY <1>4 DEF Places
  <2>2. PICK m \in Persistent(s) : b[m] = j
    BY <1>2 DEF Lays, Places
  <2> QED
    BY <2>1, <2>2
<1> HIDE DEF e
<1>9. ASSUME NEW n PROVE Cardinality(Cols(n)) = Cardinality(Wanted(n))
  <2> DEFINE f == [k \in Cols(n) |-> CHOOSE m \in Persistent(s) : e(m) = k]
  <2>1. \A k \in Cols(n) : f[k] \in Persistent(s) /\ e(f[k]) = k
    BY <1>8
  <2>2. f = [k \in Cols(n) |-> f[k]]
    OBVIOUS
  <2> HIDE DEF f
  <2>3. \A k \in Cols(n) : f[k] \in Wanted(n)
    BY <2>1, <1>6
  <2>4. f \in [Cols(n) -> Wanted(n)]
    BY <2>2, <2>3
  <2>5. \A j, k \in Cols(n) : f[j] = f[k] => j = k
    BY <2>1
  <2>6. ASSUME NEW m \in Wanted(n) PROVE \E k \in Cols(n) : f[k] = m
    <3>1. e(m) \in Cols(n)
      BY <1>6
    <3>2. f[e(m)] = m
      BY <2>1, <3>1, <1>7
    <3> QED
      BY <3>1, <3>2
  <2>7. f \in Bijection(Cols(n), Wanted(n))
    <3> HIDE DEF Cols, Wanted
    <3> QED
      BY <2>4, <2>5, <2>6 DEF Bijection, Injection, Surjection, IsInjective
  <2>8. IsFiniteSet(Cols(n))
    <3>1. IsFiniteSet(1..Len(fields))
      BY <1>5, FS_Interval
    <3> QED
      BY <1>5, <3>1, FS_Subset
  <2> QED
    BY <2>7, <2>8, FS_Bijection DEF ExistsBijection
<1>10. \A k \in DOMAIN fields : \E m \in Persistent(s) : fields[k].goName \in Range(At(m).names)
  <2> SUFFICES ASSUME NEW k \in DOMAIN fields
               PROVE  \E m \in Persistent(s) : fields[k].goName \in Range(At(m).names)
    OBVIOUS
  <2>1. PICK m \in Persistent(s) : e(m) = k
    BY <1>8
  <2>2. fields[k].goName = GoName(m)
    BY <1>6, <2>1
  <2> QED
    BY <2>2, GoNameIsName
<1>11. ASSUME NEW k \in DOMAIN fields, NEW l \in DOMAIN fields, k < l
       PROVE  Rank(fields[k]) <= Rank(fields[l])
  <2>1. PICK i \in DOMAIN raw : p[i] = k
    BY <1>4 DEF Places
  <2>2. PICK j \in DOMAIN raw : p[j] = l
    BY <1>4 DEF Places
  <2>3. fields[k] = raw[i] /\ fields[l] = raw[j]
    BY <1>4, <2>1, <2>2
  <2>4. Rank(raw[i]) \in 1..3 /\ Rank(raw[j]) \in 1..3
    BY DEF Rank
  <2>5. ~ (Rank(raw[j]) < Rank(raw[i]))
    BY <1>4, <1>5, <1>11, <2>1, <2>2
  <2> QED
    BY <2>3, <2>4, <2>5
<1>12. ASSUME NEW m \in Persistent(s), NEW k \in DOMAIN fields, Cols(GoName(m)) = {k}
       PROVE  k = e(m)
  <2>1. e(m) \in Cols(GoName(m))
    BY <1>6
  <2> QED
    BY <1>12, <2>1
<1>13. ASSUME NEW m \in Persistent(s), NEW n \in Persistent(s),
              NEW k \in DOMAIN fields, NEW l \in DOMAIN fields,
              m[1] = n[1], m[2] < n[2], RankAt(s, m) = RankAt(s, n),
              Cols(GoName(m)) = {k}, Cols(GoName(n)) = {l}
       PROVE  k < l
  <2>1. k = e(m) /\ l = e(n)
    BY <1>12, <1>13
  <2>2. b[m] < b[n]
    BY <1>2, <1>13 DEF Lays
  <2>3. Rank(raw[b[m]]) = Rank(raw[b[n]])
    BY <1>6, <1>13
  <2> QED
    BY <1>4, <1>6, <2>1, <2>2, <2>3 DEF e
<1>14. \A m \in Persistent(s) : \A k \in DOMAIN fields :
         Cols(GoName(m)) = {k} => Rank(fields[k]) = RankAt(s, m)
  BY <1>6, <1>12
<1>15. ~HasUnsupported(s)
  BY ParsedKinds DEF HasUnsupported
<1>16. ExactColumns(s, fields)
  <2> HIDE DEF raw, fields, e
  <2>1. \A m \in Persistent(s) : Cardinality(Cols(GoName(m))) = Cardinality(Wanted(GoName(m)))
    BY <1>9, Zenon
  <2>2. \A k, l \in DOMAIN fields : k < l => Rank(fields[k]) <= Rank(fields[l])
    BY <1>11, Zenon
  <2>3. \A m, n \in Persistent(s) : \A k, l \in DOMAIN fields :
          /\ m[1] = n[1] /\ m[2] < n[2] /\ RankAt(s, m) = RankAt(s, n)
          /\ Cols(GoName(m)) = {k} /\ Cols(GoName(n)) = {l}
          => k < l
    <3> HIDE DEF Cols
    <3> QED
      BY <1>13, Zenon
  <2> QED
    BY <1>10, <1>14, <1>15, <2>1, <2>2, <2>3, Zenon DEF ExactColumns
<1> QED
  BY <1>16 DEF fields, raw

(* All the entities of a run that writes files have been parsed.           *)
AllParsed == pc = "fields" => \A i \in Asked : Parses(current, EntityOrder[i])

LEMMA AllParsedStep == AllParsed /\ [Next]_vars => AllParsed'
<1> SUFFICES ASSUME AllParsed, [Next]_vars, pc' = "fields" PROVE AllParsed'
  BY DEF AllParsed
<1>1. CASE pc = "fields" /\ UNCHANGED <<project, current, selection>>
  BY <1>1 DEF AllParsed, Asked, Selected, StructsImplementEntity, SelectedBy, Implements,
     Parses, ParsesOf
<1>2. CASE GenerateMeta
  BY <1>2 DEF GenerateMeta, End, AllParsed, Asked
<1>3. CASE UNCHANGED vars
  BY <1>1, <1>3 DEF vars
<1>4. CASE \E e \in Entities : Edit(e)
  BY <1>1, <1>4 DEF Edit
<1>5. CASE (\E names \in Selections : Start(names)) \/ PreRun \/ EndFields \/ EndAdapter \/ Kill
  BY <1>5 DEF Start, PreRun, EndFields, EndAdapter, Kill, End
<1>6. CASE \E k \in DOMAIN EntityOrder : WriteOne(k)
  BY <1>1, <1>6 DEF WriteOne, Truncate, Fill, WriteFails, End
<1> QED
  BY <1>2, <1>3, <1>4, <1>5, <1>6 DEF Next, Run

LEMMA InvColumnsExact ==
  ASSUME Inv, AllParsed,
         \A e \in Entities : \A d \in Decls[e] : EmbeddedOnce(ExpandedLocally[d.struct])
  PROVE  ColumnsExact
<1> SUFFICES ASSUME pc = "fields", NEW i \in DOMAIN metas
             PROVE  ExactColumns(current[metas[i].entity].struct, metas[i].fields)
  BY DEF ColumnsExact
<1> DEFINE e == EntityOrder[i]
           d == current[e]
<1>1. current \in Sources /\ metas = Derived
  BY DEF Inv, TypeOK, Stage, Active
<1>2. i \in Asked /\ metas[i] = Meta(current, e)
  BY <1>1 DEF Derived
<1>3. e \in Entities /\ d \in Decls[e]
  BY <1>1, <1>2, AskedForm DEF Sources
<1>4. metas[i].entity = e /\ metas[i].fields = ApplyOrderPolicy(ParseFields[d.struct].fields)
  BY <1>2, <1>3 DEF Meta, MetaOf
<1>5. d.struct \in Structs
  BY <1>3, GeneratorAssumption
<1>6. ParseFields[d.struct].ok
  BY <1>2, <1>5 DEF AllParsed, Parses, ParsesOf
<1> QED
  BY <1>3, <1>4, <1>5, <1>6, FieldsExact

-----------------------------------------------------------------------------
(* Theorems *)

(* Whatever is edited, run, refused, failed or killed, in whatever order,   *)
(* Inv holds: the induction the theorems below rest on.                     *)
THEOREM Invariance == Spec => []Inv
<1> QED
  BY InitInv, NextInv, PTL DEF Spec

(* The variables of the generator have their types. *)
THEOREM TypeCorrect == Spec => []TypeOK
<1>1. Inv => TypeOK
  BY DEF Inv
<1> QED
  BY <1>1, Invariance, PTL

(* The inductive invariant says of metas, left and the turn what UpToDate   *)
(* says of the sources.                                                     *)
LEMMA InvUpToDate == Inv => UpToDate
<1> SUFFICES ASSUME Inv, outcome = "ok" PROVE UpToDate
  BY DEF UpToDate
<1>1. /\ Active /\ Detected /\ metas = Derived /\ turn = Len(adapters) /\ left = {}
  BY DEF Active, Inv, Stage
<1>2. Turns = 0..turn
  BY <1>1, DetectedForm DEF Turns
<1>3. \A t \in Turns : \A i \in Asked : Settled(t, i)
  BY <1>1, <1>2 DEF Inv, Done, Derived
<1> QED
  BY <1>1, <1>3 DEF UpToDate, Settled, Derived

(* A run that ends well has made every file of every entity asked for what  *)
(* the sources it loaded say, for any entities, adapters and earlier runs.  *)
THEOREM GeneratesUpToDate == Spec => []UpToDate
<1> QED
  BY InvUpToDate, Invariance, PTL

(* A run that is refused touches no file.                                   *)
THEOREM RefusalTouchesNothing == Spec => []RefusedUntouched
<1>1. Inv => RefusedUntouched
  BY DEF Inv
<1> QED
  BY <1>1, Invariance, PTL

(* At any point of a run, and however it ends, at most the file that was    *)
(* being written is neither as it was nor as it has to be.                  *)
THEOREM AtMostOneBroken == Spec => []LeftBehind
<1>1. Inv => LeftBehind
  BY DEF Inv
<1> QED
  BY <1>1, Invariance, PTL

(* The columns of an entity are the persistent members of its struct and of *)
(* what it embeds from its file, each once, keys before own fields before   *)
(* embedded ones; if no struct is embedded in an entity twice.              *)
THEOREM ColumnsOfEveryEntity ==
  ASSUME \A e \in Entities : \A d \in Decls[e] : EmbeddedOnce(ExpandedLocally[d.struct])
  PROVE  Spec => []ColumnsExact
<1>1. Init => AllParsed
  BY DEF Init, AllParsed
<1>2. Spec => []AllParsed
  BY <1>1, AllParsedStep, PTL DEF Spec
<1>3. Inv /\ AllParsed => ColumnsExact
  BY InvColumnsExact
<1> QED
  BY <1>2, <1>3, Invariance, PTL

=============================================================================
