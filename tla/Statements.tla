------------------------------ MODULE Statements ------------------------------
(***************************************************************************)
(* sqlx/sqlx.go and sqlx_helpers.go: a goroutine combines predicates into  *)
(* Where values, makes an executor of one of the six kinds from them and   *)
(* calls Execute.  Loops of the code run one turn a step.                  *)
(*                                                                         *)
(* The text of a predicate is kept up to precedence: a sequence of the     *)
(* terms between its outermost ORs, each as the set of rows that satisfy   *)
(* it, so that putting texts next to each other without parentheses has    *)
(* the effect it has in SQL.  `slots' has, for each placeholder of the     *)
(* text, what should be bound to it; `args' is what the code supplies.     *)
(* `means' is the filter the caller asked for, which the code does not     *)
(* keep and no step reads.                                                 *)
(***************************************************************************)
EXTENDS Naturals, Sequences

CONSTANTS
  Rows,      \* rows of the table, or of the join, in the database
  Preds,     \* predicates: a field, an operator and a value
  Holds,     \* predicate -> the rows that satisfy it
  InLists,   \* sequences of predicates for the values given to In
  Fields,    \* fields of the entities
  NameOf,    \* field -> its Name(), the column
  Schemas,   \* sequences of fields given to Query and QueryJoin
  Payloads,  \* value objects given to Update
  NoPayload, \* nil
  Joins,     \* join statements
  Mark,      \* a '?' in a join statement, for which there is no value
  MaxWheres, \* bound: Where values made
  MaxSlots   \* bound: placeholders, and terms, in one of them

Names == {NameOf[f] : f \in Fields}
Params == Preds \cup Names \cup {Mark}

ASSUME StatementAssumption ==
  /\ Holds \in [Preds -> SUBSET Rows]
  /\ InLists \subseteq Seq(Preds)
  /\ Schemas \subseteq Seq(Fields)
  /\ Payloads \subseteq
       [schema : Seq(Fields),  \* "__schema", or empty: none
        keys : Seq(Names),     \* the other keys, as Fields() gives them
        null : SUBSET Names]   \* the keys whose value is nil
  /\ NoPayload \notin Payloads
  /\ Joins \subseteq
       [shape : {"blank", "join", "reversed", "other"},
        lead : Nat,            \* blanks before the text
        on : Seq(SUBSET Rows), \* the terms of the ON condition
        marks : BOOLEAN]       \* the text has a '?'
  /\ \A j \in Joins : j.on # <<>>

VARIABLES
  wheres,  \* the Where values made so far
  acc,     \* and, or: the clauses joined so far
  pc,      \* "idle", what runs, or "ended": Execute is about to return
  stmt,    \* the statement: its kind, table, filter, slots and args; `simple':
           \* the ON condition in it is one term
  left,    \* updateSQLFromValues: names not yet in SET
  given,   \* ... and the payload
  rows,    \* rows the cursor has not delivered
  out,     \* rowsToValueObjects: the objects made so far
  result   \* how Execute ends

vars == <<wheres, acc, pc, stmt, left, given, rows, out, result>>

-----------------------------------------------------------------------------
(* Texts of predicates.                                                    *)
TermSet(t) == {t[i] : i \in DOMAIN t}

\* An empty text is no WHERE at all.
Meaning(t) == IF t = <<>> THEN Rows ELSE UNION TermSet(t)

\* Mutant: and/or put no parentheses around what they join.
Bare(t) == t

Parens(t) == <<Meaning(t)>>

Or(s, t) == s \o t

\* AND binds tighter than OR: it joins the neighbouring terms only.
And(s, t) ==
  IF s = <<>> THEN t
  ELSE [i \in 1..(Len(s) + Len(t) - 1) |->
          IF i < Len(s) THEN s[i]
          ELSE IF i = Len(s) THEN s[i] \cap t[1] ELSE t[i - Len(s) + 1]]

NoClause == [terms |-> <<>>, slots |-> <<>>, args |-> <<>>, means |-> Rows]

\* A where given to an executor: one of those made, or nil (0).
Clause(k) == IF k = 0 THEN NoClause ELSE wheres[k]

NoClauses == [op |-> "none", clause |-> NoClause]

NoStatement == [kind |-> "none", table |-> TRUE, simple |-> TRUE, schema |-> <<>>,
                where |-> NoClause, slots |-> <<>>, args |-> <<>>]

Init ==
  /\ wheres = <<>> /\ acc = NoClauses
  /\ pc = "idle" /\ stmt = NoStatement
  /\ left = <<>> /\ given = NoPayload
  /\ rows = {} /\ out = {} /\ result = "none"

-----------------------------------------------------------------------------
(* Making Where values.                                                    *)
making == <<stmt, left, given, rows, out, result>>

Make(w) == Len(wheres) < MaxWheres /\ wheres' = Append(wheres, w)

\* Eq, Ne, Gt, Gte, Lt, Lte, Like.
Op(p) ==
  /\ pc = "idle"
  /\ Make([terms |-> <<Holds[p]>>, slots |-> <<p>>, args |-> <<p>>, means |-> Holds[p]])
  /\ UNCHANGED <<acc, pc, making>>

AnyOf(ps) == UNION {Holds[ps[i]] : i \in DOMAIN ps}

\* No values: 1=0.
In(ps) ==
  /\ pc = "idle"
  /\ Make([terms |-> <<AnyOf(ps)>>, slots |-> ps, args |-> ps, means |-> AnyOf(ps)])
  /\ UNCHANGED <<acc, pc, making>>

BeginCombine(op) ==
  /\ pc = "idle" /\ Len(wheres) < MaxWheres
  /\ pc' = "combine"
  /\ acc' = [op |-> op, clause |-> NoClause]
  /\ UNCHANGED <<wheres, making>>

Joined(op, c, w) ==
  [terms |-> IF op = "and" THEN And(c.terms, w.terms) ELSE Or(c.terms, w.terms),
   slots |-> c.slots \o w.slots,
   args  |-> c.args \o w.args,
   means |-> IF op = "and" \/ c.terms = <<>> THEN c.means \cap w.means ELSE c.means \cup w.means]

\* Mutant: the arguments of the clause are put in front.
IncludeFirst(k) ==
  /\ pc = "combine" /\ wheres[k].terms # <<>>
  /\ Len(acc.clause.terms) < MaxSlots
  /\ Len(acc.clause.slots) + Len(wheres[k].slots) <= MaxSlots
  /\ acc' = [acc EXCEPT !.clause =
       [Joined(acc.op, acc.clause, wheres[k]) EXCEPT !.args = wheres[k].args \o acc.clause.args]]
  /\ UNCHANGED <<wheres, pc, making>>

\* One operand of And or Or.  A nil or empty one is passed over: no step.
Include(k) ==
  /\ pc = "combine" /\ wheres[k].terms # <<>>
  /\ Len(acc.clause.terms) < MaxSlots
  /\ Len(acc.clause.slots) + Len(wheres[k].slots) <= MaxSlots
  /\ acc' = [acc EXCEPT !.clause = Joined(acc.op, acc.clause, wheres[k])]
  /\ UNCHANGED <<wheres, pc, making>>

EndCombine ==
  /\ pc = "combine"
  /\ Make(IF acc.clause.terms = <<>> THEN NoClause
          ELSE [acc.clause EXCEPT !.terms = Parens(@)])
  /\ pc' = "idle" /\ acc' = NoClauses
  /\ UNCHANGED making

-----------------------------------------------------------------------------
(* Building the statement.                                                 *)
Ends(r) == pc' = "ended" /\ result' = r /\ out' = {}

Starts(s) == pc' = "run" /\ stmt' = s /\ result' = "none" /\ out' = {}

building == <<wheres, acc, left, given, rows>>

\* selectSQL
Query(sch, k) ==
  /\ pc = "idle"
  /\ IF sch = <<>> THEN Ends("error") /\ UNCHANGED stmt
     ELSE LET w == Clause(k) IN
          Starts([kind |-> "select", table |-> TRUE, simple |-> TRUE, schema |-> sch,
                  where |-> w, slots |-> w.slots, args |-> w.args])
  /\ UNCHANGED building

\* buildSelectWithJoin: the join is a part of FROM, the where is the WHERE.
OnAnd(j, w) ==
  IF j.shape = "blank" THEN w
  ELSE [w EXCEPT !.terms = <<Meaning(j.on) \cap Meaning(@)>>, !.means = Meaning(j.on) \cap @]

QueryJoin(sch, j, k) ==
  /\ pc = "idle"
  /\ IF sch = <<>> \/ (j.shape # "blank" /\ j.marks) THEN Ends("error") /\ UNCHANGED stmt
     ELSE LET w == OnAnd(j, Clause(k)) IN
          Starts([kind |-> "select", table |-> TRUE, simple |-> TRUE, schema |-> sch,
                  where |-> w, slots |-> w.slots, args |-> w.args])
  /\ UNCHANGED building

\* Mutant: an empty where is accepted.
DeleteAny(k) ==
  /\ pc = "idle"
  /\ IF k = 0 THEN Ends("error") /\ UNCHANGED stmt
     ELSE LET w == Clause(k) IN
          Starts([kind |-> "delete", table |-> TRUE, simple |-> TRUE, schema |-> <<>>,
                  where |-> w, slots |-> w.slots, args |-> w.args])
  /\ UNCHANGED building

\* deleteSQL
Delete(k) ==
  /\ pc = "idle"
  /\ IF Clause(k).terms = <<>> THEN Ends("error") /\ UNCHANGED stmt
     ELSE LET w == Clause(k) IN
          Starts([kind |-> "delete", table |-> TRUE, simple |-> TRUE, schema |-> <<>>,
                  where |-> w, slots |-> w.slots, args |-> w.args])
  /\ UNCHANGED building

\* EXISTS (SELECT 1 FROM table WHERE on AND (where)): a base row matches when
\* one of its joined rows does.
Exists(j, w) ==
  [terms |-> Parens(IF w.terms = <<>> THEN j.on ELSE And(j.on, Parens(w.terms))),
   slots |-> (IF j.marks THEN <<Mark>> ELSE <<>>) \o w.slots,
   args  |-> w.args,
   means |-> Meaning(j.on) \cap w.means]

\* The offset of JOIN, taken from the trimmed text, is short by the leading
\* blanks: two or more of them cut into the word.
TableCut(j) == j.lead <= 1

\* buildDeleteWithJoin
DeleteJoin(j, k) ==
  /\ pc = "idle"
  /\ CASE j.shape = "join" ->
            LET w == Exists(j, Clause(k)) IN
            Starts([kind |-> "delete", table |-> TableCut(j), simple |-> Len(j.on) = 1,
                    schema |-> <<>>, where |-> w, slots |-> w.slots, args |-> w.args])
       [] j.shape = "reversed" -> Ends("panic") /\ UNCHANGED stmt
       [] OTHER -> Ends("error") /\ UNCHANGED stmt
  /\ UNCHANGED building

\* Mutant: the fields of the schema are not asked for their names.
BeginSetFields(g, w, table, simple) ==
  IF w.terms = <<>> \/ g = NoPayload
  THEN Ends("error") /\ UNCHANGED <<stmt, left, given>>
  ELSE /\ pc' = "set" /\ result' = "none" /\ out' = {}
       /\ stmt' = [kind |-> "update", table |-> table, simple |-> simple, schema |-> <<>>,
                   where |-> w, slots |-> <<>>, args |-> <<>>]
       /\ given' = g
       /\ left' = IF g.schema # <<>> THEN g.schema ELSE g.keys

\* updateSQLFromValues, up to its loop over the columns.
BeginSet(g, w, table, simple) ==
  IF w.terms = <<>> \/ g = NoPayload
  THEN Ends("error") /\ UNCHANGED <<stmt, left, given>>
  ELSE /\ pc' = "set" /\ result' = "none" /\ out' = {}
       /\ stmt' = [kind |-> "update", table |-> table, simple |-> simple, schema |-> <<>>,
                   where |-> w, slots |-> <<>>, args |-> <<>>]
       /\ given' = g
       /\ left' = IF g.schema # <<>> THEN [i \in DOMAIN g.schema |-> NameOf[g.schema[i]]]
                  ELSE g.keys

Update(g, k) ==
  /\ pc = "idle"
  /\ BeginSet(g, Clause(k), TRUE, TRUE)
  /\ UNCHANGED <<wheres, acc, rows>>

\* buildExistsWhere, then updateSQLFromValues
UpdateJoin(g, j, k) ==
  /\ pc = "idle"
  /\ CASE j.shape = "blank" -> BeginSet(g, Clause(k), TRUE, TRUE)
       [] j.shape = "join"  -> BeginSet(g, Exists(j, Clause(k)), TableCut(j), Len(j.on) = 1)
       [] j.shape = "reversed" -> Ends("panic") /\ UNCHANGED <<stmt, left, given>>
       [] OTHER -> Ends("error") /\ UNCHANGED <<stmt, left, given>>
  /\ UNCHANGED <<wheres, acc, rows>>

HasKey(n) == \E i \in DOMAIN given.keys : given.keys[i] = n

\* A column without a value has a placeholder but no argument.  Get panics on
\* a key whose value is nil.
SetColumn ==
  /\ pc = "set" /\ left # <<>>
  /\ LET n == Head(left) IN
     IF HasKey(n) /\ n \in given.null
     THEN Ends("panic") /\ left' = <<>> /\ UNCHANGED stmt
     ELSE /\ stmt' = [stmt EXCEPT !.slots = Append(@, n),
                                  !.args = IF HasKey(n) THEN Append(@, n) ELSE @]
          /\ left' = Tail(left)
          /\ UNCHANGED <<pc, result, out>>
  /\ UNCHANGED <<wheres, acc, given, rows>>

\* Mutant: the arguments of the where come before those of SET.
EndSetSwapped ==
  /\ pc = "set" /\ left = <<>>
  /\ IF stmt.slots = <<>> THEN Ends("error") /\ UNCHANGED stmt
     ELSE Starts([stmt EXCEPT !.slots = @ \o stmt.where.slots,
                              !.args = stmt.where.args \o @])
  /\ UNCHANGED building

\* Mutant: the arguments of the where are forgotten.
EndSetShort ==
  /\ pc = "set" /\ left = <<>>
  /\ IF stmt.slots = <<>> THEN Ends("error") /\ UNCHANGED stmt
     ELSE Starts([stmt EXCEPT !.slots = @ \o stmt.where.slots])
  /\ UNCHANGED building

EndSet ==
  /\ pc = "set" /\ left = <<>>
  /\ IF stmt.slots = <<>> THEN Ends("error") /\ UNCHANGED stmt
     ELSE Starts([stmt EXCEPT !.slots = @ \o stmt.where.slots,
                              !.args = @ \o stmt.where.args])
  /\ UNCHANGED building

-----------------------------------------------------------------------------
(* Execute.  The database refuses a statement whose arguments do not match *)
(* its placeholders in number, or whose table it does not know; it may     *)
(* fail at any time.                                                       *)
Refuse ==
  /\ pc = "run"
  /\ Len(stmt.slots) # Len(stmt.args) \/ ~stmt.table
  /\ Ends("refused")
  /\ UNCHANGED <<building, stmt>>

RunFails ==
  /\ pc = "run"
  /\ Ends("error")
  /\ UNCHANGED <<building, stmt>>

Runs == pc = "run" /\ Len(stmt.slots) = Len(stmt.args) /\ stmt.table

Exec ==
  /\ Runs /\ stmt.kind # "select"
  /\ Ends("done")
  /\ UNCHANGED <<building, stmt>>

OpenRows ==
  /\ Runs /\ stmt.kind = "select"
  /\ pc' = "scan"
  /\ rows' = Meaning(stmt.where.terms)
  /\ UNCHANGED <<wheres, acc, left, given, stmt, out, result>>

\* Name -> the row and the field its value comes from: of two fields with one
\* name the later takes the place of the earlier.
Object(r, sch) ==
  [n \in {NameOf[sch[i]] : i \in DOMAIN sch} |->
     LET last == CHOOSE i \in DOMAIN sch :
                   /\ NameOf[sch[i]] = n
                   /\ \A j \in DOMAIN sch : NameOf[sch[j]] = n => j <= i
     IN <<r, sch[last]>>]

ScanRow(r) ==
  /\ pc = "scan" /\ r \in rows
  /\ rows' = rows \ {r}
  /\ out' = out \cup {Object(r, stmt.schema)}
  /\ UNCHANGED <<wheres, acc, pc, stmt, left, given, result>>

\* Mutant: an error in the middle returns the rows read so far.
ScanFailsShort ==
  /\ pc = "scan"
  /\ pc' = "ended" /\ result' = "rows" /\ rows' = {}
  /\ UNCHANGED <<wheres, acc, stmt, left, given, out>>

\* rows.Scan or rows.Err: nothing is returned.
ScanFails ==
  /\ pc = "scan"
  /\ Ends("error") /\ rows' = {}
  /\ UNCHANGED <<wheres, acc, stmt, left, given>>

EndRows ==
  /\ pc = "scan" /\ rows = {}
  /\ pc' = "ended" /\ result' = "rows"
  /\ UNCHANGED <<wheres, acc, stmt, left, given, rows, out>>

\* Execute returns; what it worked on is gone.
Return ==
  /\ pc = "ended"
  /\ pc' = "idle" /\ stmt' = NoStatement /\ given' = NoPayload
  /\ out' = {} /\ result' = "none"
  /\ UNCHANGED <<wheres, acc, left, rows>>

-----------------------------------------------------------------------------
MakeWhere ==
  \/ \E p \in Preds : Op(p)
  \/ \E ps \in InLists : In(ps)
  \/ \E op \in {"and", "or"} : BeginCombine(op)
  \/ \E k \in DOMAIN wheres : Include(k)
  \/ EndCombine

\* Of the Where values made, an executor is given the latest, or nil: given an
\* earlier one, it does what it did before the later ones were made.
Build ==
  \E k \in {0, Len(wheres)} :
    \/ Delete(k)
    \/ \E sch \in Schemas : Query(sch, k) \/ \E j \in Joins : QueryJoin(sch, j, k)
    \/ \E g \in Payloads \cup {NoPayload} : Update(g, k) \/ \E j \in Joins : UpdateJoin(g, j, k)
    \/ \E j \in Joins : DeleteJoin(j, k)

Execute == Refuse \/ RunFails \/ Exec \/ OpenRows \/ (\E r \in Rows : ScanRow(r))
             \/ ScanFails \/ EndRows \/ Return

Next == MakeWhere \/ Build \/ SetColumn \/ EndSet \/ Execute

Spec == Init /\ [][Next]_vars

-----------------------------------------------------------------------------
Where == [terms : Seq(SUBSET Rows), slots : Seq(Params), args : Seq(Params), means : SUBSET Rows]

TypeOK ==
  /\ wheres \in Seq(Where)
  /\ acc \in [op : {"none", "and", "or"}, clause : Where]
  /\ pc \in {"idle", "combine", "set", "run", "scan", "ended"}
  /\ stmt \in [kind : {"none", "select", "update", "delete"}, table : BOOLEAN, simple : BOOLEAN,
              schema : Seq(Fields), where : Where, slots : Seq(Params), args : Seq(Params)]
  /\ left \in Seq(Names)
  /\ given \in Payloads \cup {NoPayload}
  /\ rows \in SUBSET Rows
  /\ \A o \in out : DOMAIN o \subseteq Names
  /\ result \in {"none", "error", "panic", "refused", "done", "rows"}

(* No argument is bound to another's placeholder (sqlx_helpers.go:36-37,   *)
(* 249-279): a statement with as many arguments as placeholders has each   *)
(* in its place, and any other has too few, so that the database refuses   *)
(* it.                                                                     *)
Bound == pc = "run" => stmt.slots = stmt.args \/ Len(stmt.args) < Len(stmt.slots)

(* The rows a statement reads or writes are those the caller asked for,    *)
(* however And, Or, In and joins are nested; the ON condition of a delete  *)
(* or update has no OR of its own (sqlx_helpers.go:42, 65, 369-372).       *)
FilterExact ==
  pc \in {"run", "scan"} /\ stmt.simple => Meaning(stmt.where.terms) = stmt.where.means

(* "Update / Delete must be called with non-empty Where" (README.md:47):   *)
(* no such statement runs without a filter, also when all operands of And  *)
(* are nil or empty, or the filter is a join only.                         *)
Filtered == pc = "run" /\ stmt.kind \in {"update", "delete"} => stmt.where.terms # <<>>

(* A statement that the database refuses has a column without a value, a   *)
(* join statement with a '?', or a table name cut wrongly.                 *)
RefusedExplained ==
  result = "refused" =>
    \/ ~stmt.table
    \/ \E i \in DOMAIN stmt.slots : stmt.slots[i] = Mark
    \/ stmt.kind = "update" /\ \E i \in DOMAIN given.schema : ~HasKey(NameOf[given.schema[i]])

(* A query returns an object for every row asked for, or an error: never a *)
(* part of them (sqlx_helpers.go:432-450).                                 *)
RowsComplete ==
  result = "rows" => out = {Object(r, stmt.schema) : r \in stmt.where.means}

(* "table part between 'JOIN ' and ' ON '" (sqlx_helpers.go:357).          *)
TableBetween == pc = "run" => stmt.table

(* A delete or update of a join selects the rows that a query of the same  *)
(* join returns.                                                           *)
JoinIsFilter == pc = "run" => Meaning(stmt.where.terms) = stmt.where.means

(* The executors use "an EXISTS-correlated subquery to apply the           *)
(* join-based filter" (sqlx.go:176-177): given a Where with arguments, the *)
(* subquery that is built names the table of the join statement, and       *)
(* selects the rows of both the join and the Where.                        *)
JoinAsAsked == stmt.where.args # <<>> => TableBetween /\ JoinIsFilter

=============================================================================
