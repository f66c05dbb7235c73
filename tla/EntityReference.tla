--------------------------- MODULE EntityReference ---------------------------
(***************************************************************************)
(* Which columns an entity has to have, told by the members of the structs *)
(* it embeds and not by the walk that collects them.                       *)
(***************************************************************************)
EXTENDS Generator

Embeds(s) == {Members[s][i].embeds : i \in DOMAIN Members[s]} \ {NoStruct}

\* Embeddings whose struct is declared in the file of the host.
EmbedsLocally(s) ==
  {Members[s][i].embeds : i \in {j \in DOMAIN Members[s] : Members[s][j].local}} \ {NoStruct}

\* Struct -> itself and the structs embedded in it at any depth: what every
\* set has that has the struct and is closed under embedding.
Expansion(embeds(_)) ==
  LET Closed == {S \in SUBSET Structs : \A s \in S : embeds(s) \subseteq S}
  IN  [s \in Structs |-> {t \in Structs : \A S \in Closed : s \in S => t \in S}]

Expanded        == Expansion(Embeds)
ExpandedLocally == Expansion(EmbedsLocally)

\* The places of the named members of these structs.
Named(structs) ==
  {m \in UNION {{s} \X DOMAIN Members[s] : s \in structs} : Members[m[1]][m[2]].embeds = NoStruct}

At(m) == Members[m[1]][m[2]]

GoName(m) == At(m).names[1]

ToPersist(m) == m.exported /\ IsSupportedType(m.type) /\ m.tag # Ignored

\* The places of the members that a struct has to have a column for.
Persistent(s) == {m \in Named(ExpandedLocally[s]) : ToPersist(At(m))}

\* A member that is not ignored and that no column can hold.
HasUnsupported(s) ==
  \E m \in Named(ExpandedLocally[s]) :
    At(m).exported /\ At(m).tag # Ignored /\ KindOf[At(m).type] = "other"

\* Primary keys, own columns, embedded columns: of a member, and of a field.
RankAt(s, m) ==
  IF \E i \in DOMAIN At(m).tag : At(m).tag[i].key = "pk" THEN 1 ELSE IF m[1] = s THEN 2 ELSE 3

Rank(f) == IF IsPK(f) THEN 1 ELSE IF f.embedded THEN 3 ELSE 2

\* No struct is embedded in one of these twice, by whatever ways.
EmbeddedOnce(structs) ==
  \A s \in structs : \A i, j \in DOMAIN Members[s] :
    LET a == Members[s][i]
        b == Members[s][j]
    IN  i # j /\ a.local /\ b.local /\ a.embeds # NoStruct /\ b.embeds # NoStruct
          => ExpandedLocally[a.embeds] \cap ExpandedLocally[b.embeds] = {}

-----------------------------------------------------------------------------
(* Properties *)

\* These fields are the columns of struct s.
ExactColumns(s, fields) ==
  LET Cols(n)   == {k \in DOMAIN fields : fields[k].goName = n}
      Wanted(n) == {m \in Persistent(s) : GoName(m) = n}
  IN  /\ ~HasUnsupported(s)
      /\ \A m \in Persistent(s) : Cardinality(Cols(GoName(m))) = Cardinality(Wanted(GoName(m)))
      /\ \A k \in DOMAIN fields : \E m \in Persistent(s) : fields[k].goName \in Range(At(m).names)
      /\ \A k, l \in DOMAIN fields : k < l => Rank(fields[k]) <= Rank(fields[l])
      /\ \A m \in Persistent(s) : \A k \in DOMAIN fields :
           Cols(GoName(m)) = {k} => Rank(fields[k]) = RankAt(s, m)
      /\ \A m, n \in Persistent(s) : \A k, l \in DOMAIN fields :
           /\ m[1] = n[1] /\ m[2] < n[2] /\ RankAt(s, m) = RankAt(s, n)
           /\ Cols(GoName(m)) = {k} /\ Cols(GoName(n)) = {l}
           => k < l

(* An entity has one column for each exported member, not ignored and of a  *)
(* supported type, of its struct and of those embedded in it from the same  *)
(* file, and none for anything else; a run with an entity that has another  *)
(* type among them ("generation must fail fast", entity/entity.md:145) does *)
(* not get here.  Primary keys come before own fields, those before         *)
(* embedded fields, and the columns of one struct keep their order within a *)
(* group.  What further names of a declaration and structs of other files   *)
(* have to have is AllPersist, and what an ignored member may not do is     *)
(* IgnoredIgnored.                                                          *)
ColumnsExact ==
  pc = "fields" =>
    \A i \in DOMAIN metas : ExactColumns(current[metas[i].entity].struct, metas[i].fields)

(* "Anonymous embedded structs are expanded and their exported fields are   *)
(* treated as columns" (entity/entity.md:79), wherever they are declared,   *)
(* and there is a declaration "for every exported field that survives       *)
(* xql:"-"" (xql_generator.md:13), also for one that shares its line with   *)
(* another.                                                                 *)
AllPersist ==
  pc = "fields" =>
    \A i \in DOMAIN metas : \A m \in Named(Expanded[current[metas[i].entity].struct]) :
      ToPersist(At(m)) => \A n \in Range(At(m).names) :
        \E k \in DOMAIN metas[i].fields : metas[i].fields[k].goName = n

(* The tag "-" "instructs the generator to completely ignore this field"    *)
(* (type_mapping.md:93): a run that has a database and entities is refused  *)
(* for members that are not ignored, or for want of columns.                *)
IgnoredIgnored ==
  outcome = "refused" /\ adapters # <<>> /\ Asked # {} =>
    \E i \in Asked : LET s == current[EntityOrder[i]].struct
                     IN  HasUnsupported(s) \/ Persistent(s) = {}

=============================================================================
