----------------------------- MODULE EntityMeta -----------------------------
(***************************************************************************)
(* What cmd/gob/xql/xql_generator.go derives from the source of a struct:  *)
(* its columns (parseFields, parseDirectives, applyOrderPolicy), its table *)
(* (resolveTableName, evalStringExpr), the SQL types of an adapter         *)
(* (sqlTypeFor) and the version in the header of what is generated.        *)
(*                                                                         *)
(* The syntax tree is given by tables: Members lists the fields of a       *)
(* struct type, Expr the expressions that Table methods return.  A text    *)
(* is a model value or a short string, and texts are joined as sequences.  *)
(***************************************************************************)
EXTENDS Naturals, Sequences, SequencesExt

CONSTANTS
  Structs,      \* struct types
  NoStruct,     \* a member that is not embedded
  Members,      \* struct -> its members, in the order of the source
  GoTypes,      \* the Go types of members, as the source writes them
  KindOf,       \* Go type -> "basic", "time", "struct" or "other"
  SnakeCase,    \* Go name -> column, table or file name
  Ignored,      \* the tag "-"
  Exprs,        \* expressions returned by Table methods
  NoExpr,       \* a statement that is not a return of something
  Expr,         \* expression -> its node
  Unknown,      \* not a string constant
  Adapters,     \* databases of drivers.json
  TypeMapping   \* adapter -> Go type -> SQL type: drivers.json

\* A member declares names, the first of which counts, or embeds a struct;
\* local: the type is declared in the same file; tag: a sequence of directives.
ASSUME MemberAssumption ==
  \A s \in Structs :
    /\ Members[s] \in Seq(Range(Members[s]))
    /\ \A i \in DOMAIN Members[s] :
         LET m == Members[s][i]
         IN  /\ m.embeds \in Structs \cup {NoStruct}
             /\ m.embeds = NoStruct =>
                m.names \in Seq(Range(m.names)) /\ m.names # <<>> /\ m.type \in GoTypes
             /\ m.tag = Ignored \/ m.tag \in Seq(Range(m.tag))

\* A Go struct does not contain itself: of any structs, one embeds none of them.
ASSUME EmbeddingAssumption ==
  /\ IsFiniteSet(Structs)
  /\ \A S \in (SUBSET Structs) \ {{}} : \E s \in S : \A i \in DOMAIN Members[s] :
       Members[s][i].local => Members[s][i].embeds \notin S

-----------------------------------------------------------------------------
(* parseFields: the columns of a struct. *)

IsSupportedType(t) == KindOf[t] \in {"basic", "time"}

Flags == {"pk", "not null", "unique", "index"}

NoText == ""

\* One directive of a tag; a later one of the same key replaces an earlier one.
\* The value of fk is its parts before and after the first '.', if it has one.
Directive(f, d) ==
  CASE d.key \in Flags                       -> [f EXCEPT !.flags = @ \cup {d.key}]
    [] d.key = "name"                        -> [f EXCEPT !.name = d.value]
    [] d.key = "type"                        -> [f EXCEPT !.dbType = d.value]
    [] d.key = "default"                     -> [f EXCEPT !.default = d.value]
    [] d.key = "fk" /\ Len(d.value) = 2        -> [f EXCEPT !.fk = d.value]
    [] OTHER                                 -> f

ParseDirectives(f, tag) ==
  LET upTo[i \in 0..Len(tag)] == IF i = 0 THEN f ELSE Directive(upTo[i - 1], tag[i])
  IN  upTo[Len(tag)]

Column(m) ==
  LET field == [name |-> SnakeCase[m.names[1]], goName |-> m.names[1], goType |-> m.type,
                dbType |-> NoText, flags |-> {}, default |-> NoText,
                fk |-> <<NoText, NoText>>, embedded |-> FALSE]
  IN  ParseDirectives(field, m.tag)

(* What is passed over without an error.  The type is looked at before the *)
(* tag: ignoring a member does not excuse its type.                        *)
Skipped(m) ==
  IF m.embeds # NoStruct
  THEN ~m.local
  ELSE \/ ~m.exported
       \/ KindOf[m.type] = "struct"
       \/ IsSupportedType(m.type) /\ m.tag = Ignored

AsEmbedded(fields) == [i \in DOMAIN fields |-> [fields[i] EXCEPT !.embedded = TRUE]]

\* One member of an unsupported type, at any depth, and there are no fields.
ParseFields[s \in Structs] ==
  LET Parsed(m) ==
        \/ Skipped(m)
        \/ m.embeds # NoStruct /\ ParseFields[m.embeds].ok
        \/ m.embeds = NoStruct /\ IsSupportedType(m.type)
      FieldsOf(m) ==
        IF Skipped(m) THEN <<>>
        ELSE IF m.embeds = NoStruct THEN <<Column(m)>>
        ELSE AsEmbedded(ParseFields[m.embeds].fields)
  IN  IF \A i \in DOMAIN Members[s] : Parsed(Members[s][i])
      THEN [ok |-> TRUE, fields |-> FlattenSeq([i \in DOMAIN Members[s] |-> FieldsOf(Members[s][i])])]
      ELSE [ok |-> FALSE, fields |-> <<>>]

(* Primary keys first, then the struct's own fields, then embedded ones. *)
IsPK(f) == "pk" \in f.flags

\* The fields at these places, in their order.
Keep(fields, places) ==
  FlattenSeq([i \in DOMAIN fields |-> IF i \in places THEN <<fields[i]>> ELSE <<>>])

\* Mutant: an embedded primary key stays among the embedded fields.
OwnKeysFirst(fields) ==
  LET pk       == {i \in DOMAIN fields : IsPK(fields[i]) /\ ~fields[i].embedded}
      embedded == {i \in DOMAIN fields : fields[i].embedded}
  IN  Keep(fields, pk) \o Keep(fields, DOMAIN fields \ (pk \cup embedded)) \o Keep(fields, embedded)

ApplyOrderPolicy(fields) ==
  LET pk       == {i \in DOMAIN fields : IsPK(fields[i])}
      embedded == {i \in DOMAIN fields \ pk : fields[i].embedded}
      host     == DOMAIN fields \ (pk \cup embedded)
  IN  Keep(fields, pk) \o Keep(fields, host) \o Keep(fields, embedded)

-----------------------------------------------------------------------------
(* resolveTableName: the table of a struct with the given Table method.    *)

\* The pieces of the constant an expression stands for.  The quotes of an
\* interpreted string are cut off, those of a raw string are not.
EvalStringExpr[x \in Exprs] ==
  LET e == Expr[x]
  IN  CASE e.kind = "string"                       -> <<e.text>>
        [] e.kind = "raw"                          -> <<"backquote", e.text, "backquote">>
        [] e.kind \in {"ident", "selector"} /\ e.constant -> <<e.text>>
        [] e.kind = "paren"                        -> EvalStringExpr[e.left]
        [] e.kind = "sum"                          ->
             IF Unknown \in {EvalStringExpr[e.left], EvalStringExpr[e.right]}
             THEN Unknown
             ELSE EvalStringExpr[e.left] \o EvalStringExpr[e.right]
        [] OTHER                                   -> Unknown

(* body: the statements of the method, a return by its first result.  Only *)
(* the first return counts, and what is nested in a statement is not seen. *)
ResolveTableName(name, body) ==
  LET first == SelectInSeq(body, LAMBDA x : x # NoExpr)
      table == IF first = 0 THEN Unknown ELSE EvalStringExpr[body[first]]
  IN  IF table = Unknown THEN <<SnakeCase[name]>> ELSE table

-----------------------------------------------------------------------------
(* sqlTypeFor and enrichFieldsForAdapter. *)

\* The types a query of drivers.json does not find: a '.' separates its steps.
Dotted == {"time.Time"}

Fallback(t, a) ==
  CASE t \in {"int64", "int"}   -> "BIGINT"
    [] t = "int32"              -> "INTEGER"
    [] t \in {"int16", "int8"}  -> "SMALLINT"
    [] t = "bool"               -> IF a = "mysql" THEN "TINYINT(1)" ELSE "BOOLEAN"
    [] t = "float32"            -> "REAL"
    [] t = "float64"            -> IF a = "postgres" THEN "DOUBLE PRECISION" ELSE "DOUBLE"
    [] t = "time.Time"          -> IF a = "postgres" THEN "TIMESTAMP WITH TIME ZONE" ELSE "DATETIME"
    [] OTHER                    -> "TEXT"

SqlTypeFor(t, a) ==
  IF t \in DOMAIN TypeMapping[a] \ Dotted THEN TypeMapping[a][t] ELSE Fallback(t, a)

EnrichFieldsForAdapter(fields, a) ==
  [i \in DOMAIN fields |->
     IF fields[i].dbType # NoText THEN fields[i]
     ELSE [fields[i] EXCEPT !.dbType = SqlTypeFor(fields[i].goType, a)]]

-----------------------------------------------------------------------------
(* computeEntityVersion: the fingerprint of the table and of the fields,   *)
(* sorted by name and type.  A stable sort leaves fields of one name and   *)
(* one type in their order; the hash is taken to be injective.             *)
ComputeEntityVersion(table, fields) ==
  LET Key(f) == <<f.goName, f.goType>>
  IN  [table |-> table,
       fields |-> [k \in {Key(fields[i]) : i \in DOMAIN fields} |->
                     SelectSeq(fields, LAMBDA f : Key(f) = k)]]

=============================================================================
