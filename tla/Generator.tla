------------------------------ MODULE Generator ------------------------------
(***************************************************************************)
(* `gob xql schema' (cmd/gob/xql, cmd/internal): a developer edits the     *)
(* entities of a project and runs the generator, which loads the sources   *)
(* once, derives the metadata of every selected entity and then writes one *)
(* file after the other: the field helpers of all entities, then their     *)
(* schemas for each adapter.  A write may fail at any point, and the       *)
(* process may be killed.                                                  *)
(***************************************************************************)
EXTENDS EntityMeta

CONSTANTS
  Entities,     \* struct types that may be entities
  EntityOrder,  \* the order in which they are found
  NameOf,       \* entity -> struct name; two packages may share one
  ToLower,      \* struct name -> package of its field helpers
  Decls,        \* entity -> what its source may be: [struct, table, body], with
                \* table saying whether it has a Table method, and body its statements
  Gone,         \* no such type in the source
  FirstSources, \* entity -> its source, before anything is edited
  Projects,     \* go.mod files and the packages that are loaded
  ToolModule,   \* ToolModulePath(): the main module of the running binary
  EntityPkg,    \* its package entity, of ToolEntityInterface()
  DriversOf,    \* adapter -> modules of its drivers: drivers.json
  Selections,   \* the entity names on the command line
  NoProject,    \* the nil *Project
  Torn,         \* the content of a file that was truncated and not fully written
  MaxRuns,      \* bound: runs of the generator
  MaxEdits,     \* bound: edits of the source
  Edited        \* bound: entity -> what an edit may make of its source

Sources == {src \in [Entities -> (UNION {Decls[e] : e \in Entities}) \cup {Gone}] :
              \A e \in Entities : src[e] \in Decls[e] \cup {Gone}}

ASSUME GeneratorAssumption ==
  /\ EntityOrder \in Seq(Entities)
  /\ IsFiniteSet(Adapters)
  /\ FirstSources \subseteq Sources
  /\ \A e \in Entities : \A d \in Decls[e] : d.struct \in Structs
  /\ NoProject \notin Sources
  /\ MaxRuns \in Nat /\ MaxEdits \in Nat
  /\ \A e \in Entities : Edited[e] \subseteq Decls[e] \cup {Gone}

VARIABLES
  project,   \* the project the generator runs in
  source,    \* entity -> its present source
  files,     \* path -> content, for the generated files that exist
  pc,        \* "idle", "started", "meta", "fields" or "schemas"
  current,   \* Current: the sources as loaded by the run, or NoProject
  selection, \* the entity names the run was given
  adapters,  \* the adapters in the run's context
  metas,     \* the metadata of the run
  turn,      \* the adapter whose schemas are written: 0 for the field helpers
  left,      \* the places of the entities whose files are still to be written in
             \* this turn, the earliest now
  open,      \* whether that file has been truncated and not yet written
  outcome,   \* how the last run ended
  before,    \* history: the files when the last run began
  runs, edits

progress == <<turn, left, open>>
vars == <<project, source, files, pc, current, selection, adapters, metas, progress,
          outcome, before, runs, edits>>

-----------------------------------------------------------------------------
(* What the sources and the go.mod say. *)

Available(p) == {p.module} \cup p.requires \cup p.replaced

DependsOn(p, deps) == deps \cap Available(p)

Registered(p) == {a \in Adapters : DependsOn(p, DriversOf[a]) # {}}

Implements(src, e) == src[e] # Gone /\ src[e].table

\* The places of the entities found: only if the package of the interface is a package of
\* the project itself, as packages it depends on are not loaded.
StructsImplementEntity(p, src) ==
  {i \in DOMAIN EntityOrder : EntityPkg \in p.packages /\ Implements(src, EntityOrder[i])}

SelectedBy(names, e) == names = {} \/ NameOf[e] \in names

Selected(p, src, names) ==
  {i \in StructsImplementEntity(p, src) : SelectedBy(names, EntityOrder[i])}

\* Entity -> its source -> what is derived from it.
MetaOf ==
  [e \in Entities |-> [d \in Decls[e] |->
     LET fields == ApplyOrderPolicy(ParseFields[d.struct].fields)
         table  == ResolveTableName(NameOf[e], d.body)
     IN  [entity |-> e, table |-> table, fields |-> fields,
          version |-> ComputeEntityVersion(table, fields)]]]

ParsesOf ==
  [s \in Structs |-> ParseFields[s].ok /\ ParseFields[s].fields # <<>>]

Meta(src, e)   == MetaOf[e][src[e]]
Parses(src, e) == ParsesOf[src[e].struct]

-----------------------------------------------------------------------------
(* The files. *)

FieldPath(m)     == <<"field", ToLower[NameOf[m.entity]]>>
SchemaPath(m, a) == <<"schemas", a, SnakeCase[NameOf[m.entity]]>>

FieldFile(m) ==
  [entity |-> m.entity, version |-> m.version,
   fields |-> [i \in DOMAIN m.fields |->
                 <<m.fields[i].goName, m.fields[i].goType, m.fields[i].name>>]]

SchemaFile(m, a) ==
  [entity |-> m.entity, version |-> m.version, table |-> m.table,
   columns |-> EnrichFieldsForAdapter(m.fields, a)]

\* The file written for metadata m in turn t of these adapters.
Path(ads, t, m)    == IF t = 0 THEN FieldPath(m) ELSE SchemaPath(m, ads[t])
Content(ads, t, m) == IF t = 0 THEN FieldFile(m) ELSE SchemaFile(m, ads[t])

Written(p, c) == [q \in DOMAIN files \cup {p} |-> IF q = p THEN c ELSE files[q]]

-----------------------------------------------------------------------------
(* The run. *)

Init ==
  /\ project \in Projects
  /\ source \in FirstSources
  /\ files = [p \in {} |-> Torn]
  /\ pc = "idle"
  /\ current = NoProject
  /\ selection = {}
  /\ adapters = <<>>
  /\ metas = <<>>
  /\ turn = 0 /\ left = {} /\ open = FALSE
  /\ outcome = "none"
  /\ before = files
  /\ runs = 0 /\ edits = 0

\* The developer edits, adds or removes an entity, at any time.
Edit(e) ==
  /\ edits < MaxEdits
  /\ \E d \in Edited[e] \ {source[e]} : source' = [source EXCEPT ![e] = d]
  /\ edits' = edits + 1
  /\ UNCHANGED <<project, files, pc, current, selection, adapters, metas, progress,
                 outcome, before, runs>>

\* Mutant: the position of the last run is kept.
StartWhereItStopped(names) ==
  /\ pc = "idle" /\ runs < MaxRuns
  /\ pc' = "started"
  /\ current' \in {source, NoProject}
  /\ selection' = names
  /\ adapters' = <<>> /\ metas' = <<>>
  /\ open' = FALSE
  /\ outcome' = "running"
  /\ before' = files
  /\ runs' = runs + 1
  /\ UNCHANGED <<project, source, files, turn, left, edits>>

\* The process starts: init() loads the project, or leaves Current nil.
Start(names) ==
  /\ pc = "idle" /\ runs < MaxRuns
  /\ pc' = "started"
  /\ current' \in {source, NoProject}
  /\ selection' = names
  /\ adapters' = <<>> /\ metas' = <<>>
  /\ turn' = 0 /\ left' = {} /\ open' = FALSE
  /\ outcome' = "running"
  /\ before' = files
  /\ runs' = runs + 1
  /\ UNCHANGED <<project, source, files, edits>>

End(how) ==
  /\ pc' = "idle"
  /\ outcome' = how

\* PersistentPreRunE; the order of the adapters is that of a Go map.
\* Mutant: a project without a database driver is let through.
PreRunAnyDriver ==
  /\ pc = "started"
  /\ IF current = NoProject \/ DependsOn(project, {ToolModule}) = {}
     THEN End("refused") /\ UNCHANGED adapters
     ELSE /\ pc' = "meta"
          /\ adapters' \in SetToSeqs(Registered(project))
          /\ UNCHANGED outcome
  /\ UNCHANGED <<project, source, files, current, selection, metas, progress,
                 before, runs, edits>>

PreRun ==
  /\ pc = "started"
  /\ IF \/ current = NoProject
        \/ DependsOn(project, {ToolModule}) = {}
        \/ Registered(project) = {}
     THEN End("refused") /\ UNCHANGED adapters
     ELSE /\ pc' = "meta"
          /\ adapters' \in SetToSeqs(Registered(project))
          /\ UNCHANGED outcome
  /\ UNCHANGED <<project, source, files, current, selection, metas, progress,
                 before, runs, edits>>

\* generateMeta: all entities before any file.
GenerateMeta ==
  /\ pc = "meta"
  /\ LET chosen == Selected(project, current, selection)
     IN  IF chosen = {} \/ \E i \in chosen : ~Parses(current, EntityOrder[i])
         THEN End("refused") /\ UNCHANGED <<metas, left>>
         ELSE /\ pc' = "fields"
              /\ metas' = [i \in chosen |-> Meta(current, EntityOrder[i])]
              /\ left' = chosen
              /\ UNCHANGED outcome
  /\ UNCHANGED <<project, source, files, current, selection, adapters, turn, open,
                 before, runs, edits>>

Earliest(k) == k \in left /\ \A j \in left : k <= j

Writing == pc \in {"fields", "schemas"}

\* os.WriteFile truncates the file before it writes.
Truncate(k) ==
  /\ Writing /\ Earliest(k) /\ ~open
  /\ files' = Written(Path(adapters, turn, metas[k]), Torn)
  /\ open' = TRUE
  /\ UNCHANGED <<project, source, pc, current, selection, adapters, metas, turn, left,
                 outcome, before, runs, edits>>

Fill(k) ==
  /\ Writing /\ Earliest(k) /\ open
  /\ files' = Written(Path(adapters, turn, metas[k]), Content(adapters, turn, metas[k]))
  /\ open' = FALSE
  /\ left' = left \ {k}
  /\ UNCHANGED <<project, source, pc, current, selection, adapters, metas, turn,
                 outcome, before, runs, edits>>

\* Mutant: an error is reported and the next entity is taken.
WriteFailsOn(k) ==
  /\ Writing /\ Earliest(k)
  /\ left' = left \ {k} /\ open' = FALSE
  /\ UNCHANGED <<project, source, files, pc, current, selection, adapters, metas, turn,
                 outcome, before, runs, edits>>

\* The directory cannot be made, the code not formatted, the file not written.
WriteFails(k) ==
  /\ Writing /\ Earliest(k)
  /\ End("failed")
  /\ UNCHANGED <<project, source, files, current, selection, adapters, metas, progress,
                 before, runs, edits>>

\* The end of generateFieldsFromMeta; generateSchemaFromMeta needs an adapter.
EndFields ==
  /\ pc = "fields" /\ left = {}
  /\ IF adapters = <<>>
     THEN End("refused") /\ UNCHANGED <<turn, left>>
     ELSE pc' = "schemas" /\ turn' = 1 /\ left' = DOMAIN metas /\ UNCHANGED outcome
  /\ UNCHANGED <<project, source, files, current, selection, adapters, metas, open,
                 before, runs, edits>>

\* Mutant: the entities are gone through for the first adapter only.
EndAdapterNoReset ==
  /\ pc = "schemas" /\ left = {}
  /\ IF turn = Len(adapters)
     THEN End("ok") /\ UNCHANGED <<turn, left>>
     ELSE turn' = turn + 1 /\ UNCHANGED <<left, pc, outcome>>
  /\ UNCHANGED <<project, source, files, current, selection, adapters, metas, open,
                 before, runs, edits>>

\* Mutant: the adapter is never done with.
EndAdapterAgain ==
  /\ pc = "schemas" /\ left = {}
  /\ left' = DOMAIN metas
  /\ UNCHANGED <<project, source, files, pc, current, selection, adapters, metas, turn,
                 open, outcome, before, runs, edits>>

EndAdapter ==
  /\ pc = "schemas" /\ left = {}
  /\ IF turn = Len(adapters)
     THEN End("ok") /\ UNCHANGED <<turn, left>>
     ELSE turn' = turn + 1 /\ left' = DOMAIN metas /\ UNCHANGED <<pc, outcome>>
  /\ UNCHANGED <<project, source, files, current, selection, adapters, metas, open,
                 before, runs, edits>>

Kill ==
  /\ pc # "idle"
  /\ End("failed")
  /\ UNCHANGED <<project, source, files, current, selection, adapters, metas, progress,
                 before, runs, edits>>

WriteOne(k) == Truncate(k) \/ Fill(k) \/ WriteFails(k)

Run ==
  \/ PreRun \/ GenerateMeta \/ EndFields \/ EndAdapter
  \/ \E k \in DOMAIN EntityOrder : WriteOne(k)

Next ==
  \/ \E e \in Entities : Edit(e)
  \/ \E names \in Selections : Start(names)
  \/ Run
  \/ Kill

Spec == Init /\ [][Next]_vars

\* A run that was started is carried on.
FairSpec == Spec /\ WF_vars(Run)

-----------------------------------------------------------------------------
(* Properties *)

\* The paths of generated files.
Paths == {<<"field", ToLower[NameOf[e]]>> : e \in Entities}
           \cup {<<"schemas", a, SnakeCase[NameOf[e]]>> : a \in Adapters, e \in Entities}

TypeOK ==
  /\ project \in Projects
  /\ source \in Sources
  /\ DOMAIN files \subseteq Paths /\ DOMAIN before \subseteq Paths
  /\ pc \in {"idle", "started", "meta", "fields", "schemas"}
  /\ current \in Sources \cup {NoProject}
  /\ selection \in Selections \cup {{}}
  /\ adapters \in Seq(Adapters)
  /\ DOMAIN metas \subseteq DOMAIN EntityOrder
  /\ \A i \in DOMAIN metas : metas[i].entity \in Entities
  /\ turn \in 0..Len(adapters)
  /\ left \subseteq DOMAIN metas
  /\ open \in BOOLEAN
  /\ outcome \in {"none", "running", "ok", "refused", "failed"}
  /\ runs \in 0..MaxRuns /\ edits \in 0..MaxEdits

\* The entities the last run was asked for, as it loaded them.
Asked == Selected(project, current, selection)

Turns == 0..Cardinality(Registered(project))

(* A run that ends well leaves every file of the entities it was asked for  *)
(* as the sources said when it was started, whatever earlier runs left      *)
(* behind and whatever was edited meanwhile.  Of entities whose files       *)
(* share a path the last one has it.                                        *)
UpToDate ==
  outcome = "ok" =>
    LET wanted == [i \in Asked |-> Meta(current, EntityOrder[i])]
    IN  \A t \in Turns : \A i \in Asked :
          LET p == Path(adapters, t, wanted[i])
          IN  \/ p \in DOMAIN files /\ files[p] = Content(adapters, t, wanted[i])
              \/ \E j \in Asked : j > i /\ p = Path(adapters, t, wanted[j])

(* A run that is refused, because of the project, the names or any entity   *)
(* asked for, has touched no file.                                          *)
RefusedUntouched == outcome = "refused" => files = before

\* p is as it was before the run, or as the run has to make it.
Sound(p) ==
  \/ p \in DOMAIN before /\ files[p] = before[p]
  \/ \E t \in 0..Len(adapters), i \in DOMAIN metas :
       p = Path(adapters, t, metas[i]) /\ files[p] = Content(adapters, t, metas[i])

(* However a run ends, and at any point of it, no file is lost, and each is *)
(* as it was before the run or as an entity asked for wants it, except for  *)
(* at most one, which is the one that was being written.                    *)
LeftBehind ==
  /\ DOMAIN before \subseteq DOMAIN files
  /\ \A p \in DOMAIN files :
       \/ Sound(p)
       \/ open /\ \E k \in left : Earliest(k) /\ p = Path(adapters, turn, metas[k])

(* Every run comes to an end. *)
Ends == pc # "idle" ~> pc = "idle"

=============================================================================
