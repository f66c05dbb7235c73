--------------------------- MODULE StatementsProofs ---------------------------
(***************************************************************************)
(* For every table, set of predicates, payload and join: the properties of *)
(* Statements that MCStatements checks.  The invariant is Inv, and its     *)
(* heart is Made: the text of a finished Where has no OR outside its       *)
(* parentheses, so that it means the same wherever it is put.              *)
(***************************************************************************)
EXTENDS Statements, TLAPS

Terms == Seq(SUBSET Rows)

Whole(c) == c.slots = c.args /\ Meaning(c.terms) = c.means

Made(c) == Whole(c) /\ Len(c.terms) <= 1

Marked(s) == \E i \in DOMAIN s : s[i] = Mark

Fits(s, a, excuse) == s = a \/ (Len(a) < Len(s) /\ excuse)

Missing == \E i \in DOMAIN given.schema : ~HasKey(NameOf[given.schema[i]])

Excuse(s) == Marked(s.slots) \/ (s.kind = "update" /\ Missing)

Exact(s) == s.simple => Meaning(s.where.terms) = s.where.means

Objects(rs) == {Object(r, stmt.schema) : r \in rs}

\* A statement that is built, or about to be.
Sound(s) ==
  /\ Exact(s)
  /\ s.kind = "select" => s.simple
  /\ s.kind # "select" => s.where.terms # <<>>
  /\ Fits(s.slots, s.args, Excuse(s))

WheresInv == \A k \in DOMAIN wheres : Made(wheres[k])

AccInv ==
  /\ Whole(acc.clause)
  /\ acc.op # "or" => Len(acc.clause.terms) <= 1
  /\ pc = "combine" => acc.op # "none"

StmtInv ==
  /\ pc \in {"idle", "combine", "set", "run", "scan"} => result = "none"
  /\ pc \in {"set", "run"} => Sound(stmt) /\ out = {}
  /\ pc = "set" =>
       /\ stmt.kind = "update"
       /\ Fits(stmt.where.slots, stmt.where.args, Marked(stmt.where.slots))
       /\ \A i \in DOMAIN left : HasKey(left[i]) \/ Missing
  /\ pc = "scan" =>
       /\ Exact(stmt) /\ stmt.simple
       /\ rows \subseteq stmt.where.means
       /\ out = Objects(stmt.where.means \ rows)
  /\ RowsComplete
  /\ RefusedExplained

Inv == WheresInv /\ AccInv /\ StmtInv

-----------------------------------------------------------------------------
(* Texts.                                                                  *)
LEMMA MeaningType == ASSUME NEW t \in Terms PROVE Meaning(t) \in SUBSET Rows
BY DEF Meaning, TermSet, Terms

LEMMA NonEmpty == ASSUME NEW S, NEW t \in Seq(S), t # <<>> PROVE Len(t) \in Nat /\ Len(t) # 0
OBVIOUS

LEMMA ExactlyOne == ASSUME NEW n \in Nat, n # 0, n <= 1 PROVE n = 1
OBVIOUS

LEMMA MeaningOne == ASSUME NEW x \in SUBSET Rows PROVE <<x>> \in Terms /\ Meaning(<<x>>) = x
<1>1. <<x>> \in Terms /\ <<x>> # <<>> BY DEF Terms
<1>2. DOMAIN <<x>> = {1} /\ <<x>>[1] = x OBVIOUS
<1>3. TermSet(<<x>>) = {x} BY <1>2 DEF TermSet
<1> QED BY <1>1, <1>3 DEF Meaning

\* A text of one term is that of its meaning.
LEMMA OneTerm ==
  ASSUME NEW t \in Terms, t # <<>>, Len(t) <= 1
  PROVE  Meaning(t) \in SUBSET Rows /\ t = <<Meaning(t)>>
<1>1. Len(t) \in Nat /\ Len(t) # 0 BY NonEmpty DEF Terms
<1>2. Len(t) = 1 BY <1>1, ExactlyOne
<1>3. t[1] \in SUBSET Rows BY <1>2 DEF Terms
<1>4. t = <<t[1]>> BY <1>2 DEF Terms
<1> QED BY <1>3, <1>4, MeaningOne

LEMMA ParensType ==
  ASSUME NEW t \in Terms
  PROVE  Parens(t) \in Terms /\ Len(Parens(t)) = 1 /\ Meaning(Parens(t)) = Meaning(t)
<1>1. Parens(t) = <<Meaning(t)>> BY DEF Parens
<1> QED BY <1>1, MeaningType, MeaningOne

LEMMA OrOne ==
  ASSUME NEW s \in Terms, NEW x \in SUBSET Rows
  PROVE  /\ Or(s, <<x>>) \in Terms
         /\ Meaning(Or(s, <<x>>)) = IF s = <<>> THEN x ELSE Meaning(s) \cup x
<1> DEFINE t == Or(s, <<x>>)
<1>1. t \in Terms /\ Len(t) = Len(s) + 1 /\ t # <<>> BY DEF Or, Terms
<1>2. \A i \in DOMAIN s : i \in DOMAIN t /\ t[i] = s[i] BY DEF Or, Terms
<1>3. t[Len(s) + 1] = x /\ Len(s) + 1 \in DOMAIN t BY DEF Or, Terms
<1>4. \A i \in DOMAIN t : i \in DOMAIN s \/ i = Len(s) + 1 BY <1>1 DEF Terms
<1>5. TermSet(t) = TermSet(s) \cup {x} BY <1>2, <1>3, <1>4 DEF TermSet
<1>6. CASE s = <<>>
  <2>1. TermSet(s) = {} BY <1>6 DEF TermSet
  <2> QED BY <1>1, <1>5, <1>6, <2>1 DEF Meaning
<1>7. CASE s # <<>> BY <1>1, <1>5, <1>7 DEF Meaning
<1> QED BY <1>1, <1>6, <1>7

LEMMA AndOne ==
  ASSUME NEW s \in Terms, NEW x \in SUBSET Rows
  PROVE  /\ And(s, <<x>>) \in Terms /\ And(s, <<x>>) # <<>>
         /\ Len(s) <= 1 => /\ Len(And(s, <<x>>)) = 1
                           /\ Meaning(And(s, <<x>>)) = Meaning(s) \cap x
<1>1. CASE s = <<>>
  <2>1. And(s, <<x>>) = <<x>> BY <1>1 DEF And
  <2>2. Meaning(s) = Rows BY <1>1 DEF Meaning
  <2> QED BY <2>1, <2>2, MeaningOne
<1>2. CASE s # <<>>
  <2> DEFINE f == [i \in 1..Len(s) |-> IF i < Len(s) THEN s[i] ELSE s[i] \cap x]
  <2>1. And(s, <<x>>) = f
    <3>1. Len(s) + Len(<<x>>) - 1 = Len(s) /\ <<x>>[1] = x BY DEF Terms
    <3>2. \A i \in 1..Len(s) : i < Len(s) \/ i = Len(s) BY DEF Terms
    <3> QED BY <1>2, <3>1, <3>2 DEF And
  <2>2. f \in Terms /\ Len(f) = Len(s) /\ Len(s) >= 1 BY <1>2 DEF Terms
  <2>3. ASSUME Len(s) <= 1 PROVE Len(f) = 1 /\ Meaning(f) = Meaning(s) \cap x
    <3>1. s = <<Meaning(s)>> /\ Meaning(s) \in SUBSET Rows BY <1>2, <2>3, OneTerm
    <3>2. Len(s) = 1 /\ s[1] = Meaning(s) BY <3>1
    <3>3. f = <<Meaning(s) \cap x>> BY <2>2, <3>2
    <3> QED BY <3>1, <3>3, MeaningOne
  <2>4. f # <<>> BY <2>2
  <2> QED BY <2>1, <2>2, <2>3, <2>4
<1> QED BY <1>1, <1>2

-----------------------------------------------------------------------------
(* Types.                                                                  *)
LEMMA CombineType ==
  ASSUME NEW op, NEW c \in Where, NEW w \in Where, Len(w.terms) <= 1, w.terms # <<>>
  PROVE  Joined(op, c, w) \in Where
<1> DEFINE t == IF op = "and" THEN And(c.terms, w.terms) ELSE Or(c.terms, w.terms)
          m == IF op = "and" \/ c.terms = <<>> THEN c.means \cap w.means ELSE c.means \cup w.means
<1>1. c.terms \in Terms /\ w.terms \in Terms BY DEF Where, Terms
<1>2. w.terms = <<Meaning(w.terms)>> /\ Meaning(w.terms) \in SUBSET Rows BY <1>1, OneTerm
<1>3. t \in Terms BY <1>1, <1>2, OrOne, AndOne
<1>4. c.slots \o w.slots \in Seq(Params) /\ c.args \o w.args \in Seq(Params) BY DEF Where
<1>5. m \in SUBSET Rows BY DEF Where
<1>6. Joined(op, c, w) = [terms |-> t, slots |-> c.slots \o w.slots,
                          args |-> c.args \o w.args, means |-> m] BY DEF Joined
<1> HIDE DEF t, m
<1> QED BY <1>3, <1>4, <1>5, <1>6 DEF Where, Terms

LEMMA ClauseType ==
  ASSUME wheres \in Seq(Where), NEW k \in {0, Len(wheres)}
  PROVE  Clause(k) \in Where
<1>1. NoClause \in Where BY DEF NoClause, Where
<1>2. k # 0 => k \in DOMAIN wheres OBVIOUS
<1> QED BY <1>1, <1>2 DEF Clause

LEMMA JoinType ==
  ASSUME NEW j \in Joins
  PROVE  j.on \in Terms /\ j.on # <<>> /\ j.marks \in BOOLEAN
BY StatementAssumption DEF Terms

LEMMA OnAndType == ASSUME NEW j \in Joins, NEW w \in Where PROVE OnAnd(j, w) \in Where
<1> DEFINE m == Meaning(j.on) \cap Meaning(w.terms)
          n == Meaning(j.on) \cap w.means
<1>1. m \in SUBSET Rows /\ n \in SUBSET Rows
  BY JoinType, MeaningType DEF Where, Terms
<1>2. <<m>> \in Terms BY <1>1, MeaningOne
<1>3. [w EXCEPT !.terms = <<m>>, !.means = n] \in Where
  <2> HIDE DEF m, n
  <2> QED BY <1>1, <1>2 DEF Where, Terms
<1>4. OnAnd(j, w) = w \/ OnAnd(j, w) = [w EXCEPT !.terms = <<m>>, !.means = n]
  BY DEF OnAnd, Where
<1> QED BY <1>3, <1>4

LEMMA ExistsType ==
  ASSUME NEW j \in Joins, NEW w \in Where
  PROVE  Exists(j, w) \in Where /\ Exists(j, w).terms # <<>>
<1> DEFINE t == IF w.terms = <<>> THEN j.on ELSE And(j.on, Parens(w.terms))
          s == (IF j.marks THEN <<Mark>> ELSE <<>>) \o w.slots
          m == Meaning(j.on) \cap w.means
<1>1. j.on \in Terms /\ w.terms \in Terms BY JoinType DEF Where, Terms
<1>2. Parens(w.terms) = <<Meaning(w.terms)>> /\ Meaning(w.terms) \in SUBSET Rows
  BY <1>1, MeaningType DEF Parens
<1>3. t \in Terms BY <1>1, <1>2, AndOne
<1>4. Parens(t) \in Terms /\ Len(Parens(t)) = 1 BY <1>3, ParensType
<1>5. s \in Seq(Params)
  <2>1. <<Mark>> \in Seq(Params) /\ <<>> \in Seq(Params) BY DEF Params
  <2>2. w.slots \in Seq(Params) BY DEF Where
  <2> QED BY <2>1, <2>2
<1>6. m \in SUBSET Rows BY DEF Where
<1>7. w.args \in Seq(Params) BY DEF Where
<1>8. Exists(j, w) = [terms |-> Parens(t), slots |-> s, args |-> w.args, means |-> m]
  BY DEF Exists
<1> HIDE DEF t, s, m
<1>9. Parens(t) # <<>> BY <1>4
<1> QED BY <1>4, <1>5, <1>6, <1>7, <1>8, <1>9 DEF Where, Terms

Stmts == [kind : {"none", "select", "update", "delete"}, table : BOOLEAN, simple : BOOLEAN,
          schema : Seq(Fields), where : Where, slots : Seq(Params), args : Seq(Params)]

LEMMA NamesType ==
  ASSUME NEW sch \in Seq(Fields), NEW i \in DOMAIN sch
  PROVE  NameOf[sch[i]] \in Names
BY DEF Names

LEMMA PayloadType ==
  ASSUME NEW g \in Payloads
  PROVE  g.schema \in Seq(Fields) /\ g.keys \in Seq(Names)
BY StatementAssumption

LEMMA ObjectType ==
  ASSUME NEW r, NEW sch \in Seq(Fields)
  PROVE  DOMAIN Object(r, sch) \subseteq Names
<1>1. DOMAIN Object(r, sch) = {NameOf[sch[i]] : i \in DOMAIN sch} BY DEF Object
<1> QED BY <1>1, NamesType

LEMMA EndsType ==
  ASSUME TypeOK, NEW r \in {"error", "panic", "refused", "done"}, Ends(r),
         wheres' = wheres, acc' = acc, stmt' = stmt, left' = left, given' = given,
         rows' \in SUBSET Rows
  PROVE  TypeOK'
BY DEF Ends, TypeOK

LEMMA StartsType ==
  ASSUME TypeOK, NEW s \in Stmts, Starts(s), UNCHANGED building
  PROVE  TypeOK'
BY DEF Starts, TypeOK, building, Stmts

\* A statement made of a where: what the builders but that of UPDATE make.
LEMMA StmtType ==
  ASSUME NEW k \in {"select", "delete"}, NEW b \in BOOLEAN, NEW c \in BOOLEAN,
         NEW sch \in Seq(Fields), NEW w \in Where
  PROVE  [kind |-> k, table |-> b, simple |-> c, schema |-> sch,
          where |-> w, slots |-> w.slots, args |-> w.args] \in Stmts
BY DEF Stmts, Where

LEMMA BeginSetType ==
  ASSUME TypeOK, NEW g \in Payloads \cup {NoPayload}, NEW w \in Where, NEW b \in BOOLEAN,
         NEW c \in BOOLEAN, BeginSet(g, w, b, c), UNCHANGED <<wheres, acc, rows>>
  PROVE  TypeOK'
<1>1. CASE w.terms = <<>> \/ g = NoPayload
  <2>1. Ends("error") /\ UNCHANGED <<stmt, left, given>> BY <1>1 DEF BeginSet
  <2> QED BY <2>1, EndsType DEF TypeOK
<1>2. CASE ~(w.terms = <<>> \/ g = NoPayload)
  <2> DEFINE s == [kind |-> "update", table |-> b, simple |-> c, schema |-> <<>>,
                   where |-> w, slots |-> <<>>, args |-> <<>>]
            l == IF g.schema # <<>> THEN [i \in DOMAIN g.schema |-> NameOf[g.schema[i]]]
                 ELSE g.keys
  <2>1. s \in Stmts BY DEF Stmts
  <2>2. g.schema \in Seq(Fields) /\ g.keys \in Seq(Names) BY <1>2, PayloadType
  <2>3. [i \in DOMAIN g.schema |-> NameOf[g.schema[i]]] \in Seq(Names)
    BY <2>2, NamesType
  <2>4. l \in Seq(Names) BY <2>2, <2>3
  <2>5. pc' = "set" /\ result' = "none" /\ out' = {} /\ stmt' = s /\ given' = g /\ left' = l
    BY <1>2 DEF BeginSet
  <2> HIDE DEF s, l
  <2> QED BY <2>1, <2>4, <2>5 DEF TypeOK, Stmts
<1> QED BY <1>1, <1>2

LEMMA StmtTypeOK == TypeOK => stmt \in Stmts
BY DEF TypeOK, Stmts

LEMMA MakeType ==
  ASSUME TypeOK, WheresInv, MakeWhere
  PROVE  TypeOK'
<1>1. ASSUME NEW p \in Preds, Op(p) PROVE TypeOK'
  <2> DEFINE w == [terms |-> <<Holds[p]>>, slots |-> <<p>>, args |-> <<p>>, means |-> Holds[p]]
  <2>1. Holds[p] \in SUBSET Rows BY StatementAssumption
  <2>2. <<p>> \in Seq(Params) BY DEF Params
  <2>3. w \in Where BY <2>1, <2>2 DEF Where
  <2>4. wheres' = Append(wheres, w) BY <1>1 DEF Op, Make
  <2> HIDE DEF w
  <2> QED BY <1>1, <2>3, <2>4 DEF Op, TypeOK, making
<1>2. ASSUME NEW ps \in InLists, In(ps) PROVE TypeOK'
  <2> DEFINE w == [terms |-> <<AnyOf(ps)>>, slots |-> ps, args |-> ps, means |-> AnyOf(ps)]
  <2>1. ps \in Seq(Preds) BY StatementAssumption
  <2>2. AnyOf(ps) \in SUBSET Rows BY <2>1, StatementAssumption DEF AnyOf
  <2>3. ps \in Seq(Params) BY <2>1 DEF Params
  <2> HIDE DEF AnyOf
  <2>4. w \in Where BY <2>2, <2>3 DEF Where
  <2>5. wheres' = Append(wheres, w) BY <1>2 DEF In, Make
  <2> HIDE DEF w
  <2> QED BY <1>2, <2>4, <2>5 DEF In, TypeOK, making
<1>3. ASSUME NEW op \in {"and", "or"}, BeginCombine(op) PROVE TypeOK'
  <2>1. NoClause \in Where BY DEF NoClause, Where
  <2>2. [op |-> op, clause |-> NoClause] \in [op : {"none", "and", "or"}, clause : Where]
    BY <2>1
  <2>3. acc' = [op |-> op, clause |-> NoClause] /\ pc' = "combine" /\ UNCHANGED <<wheres, making>>
    BY <1>3 DEF BeginCombine
  <2> QED BY <2>2, <2>3 DEF TypeOK, making
<1>4. ASSUME NEW k \in DOMAIN wheres, Include(k) PROVE TypeOK'
  <2> DEFINE c == Joined(acc.op, acc.clause, wheres[k])
  <2>1. wheres[k] \in Where /\ acc.clause \in Where /\ acc.op \in {"none", "and", "or"}
    BY DEF TypeOK
  <2>2. wheres[k].terms # <<>> /\ Len(wheres[k].terms) <= 1
    BY <1>4 DEF Include, WheresInv, Made
  <2>3. c \in Where BY <2>1, <2>2, CombineType
  <2>4. acc' = [acc EXCEPT !.clause = c] /\ UNCHANGED <<wheres, pc, making>>
    BY <1>4 DEF Include
  <2> HIDE DEF c
  <2> QED BY <2>3, <2>4 DEF TypeOK, making
<1>5. CASE EndCombine
  <2> DEFINE c == IF acc.clause.terms = <<>> THEN NoClause
                  ELSE [acc.clause EXCEPT !.terms = Parens(@)]
  <2>1. acc.clause \in Where BY DEF TypeOK
  <2>2. NoClause \in Where BY DEF NoClause, Where
  <2>3. Parens(acc.clause.terms) \in Terms BY <2>1, ParensType DEF Where, Terms
  <2>4. [acc.clause EXCEPT !.terms = Parens(@)] \in Where BY <2>1, <2>3 DEF Where, Terms
  <2>5. c \in Where BY <2>2, <2>4
  <2>6. wheres' = Append(wheres, c) /\ pc' = "idle" /\ acc' = NoClauses /\ UNCHANGED making
    BY <1>5 DEF EndCombine, Make
  <2>7. NoClauses \in [op : {"none", "and", "or"}, clause : Where] BY <2>2 DEF NoClauses
  <2> HIDE DEF c
  <2> QED BY <2>5, <2>6, <2>7 DEF TypeOK, making
<1> QED BY <1>1, <1>2, <1>3, <1>4, <1>5 DEF MakeWhere

-----------------------------------------------------------------------------
(* What a builder can do.                                                  *)
SoundWhere(w, simple) ==
  /\ simple => Meaning(w.terms) = w.means
  /\ Fits(w.slots, w.args, Marked(w.slots))

LEMMA ClauseMade ==
  ASSUME WheresInv, wheres \in Seq(Where), NEW k \in {0, Len(wheres)}
  PROVE  Made(Clause(k))
<1>1. k # 0 => k \in DOMAIN wheres OBVIOUS
<1>2. Made(NoClause)
  <2>1. Meaning(<<>>) = Rows BY DEF Meaning
  <2> QED BY <2>1 DEF Made, Whole, NoClause
<1> QED BY <1>1, <1>2 DEF WheresInv, Clause

LEMMA OnAndWhole ==
  ASSUME NEW j \in Joins, NEW w \in Where, Whole(w)
  PROVE  Whole(OnAnd(j, w))
<1> DEFINE m == Meaning(j.on) \cap Meaning(w.terms)
<1>1. m \in SUBSET Rows BY JoinType, MeaningType DEF Where, Terms
<1>2. OnAnd(j, w) = w \/ OnAnd(j, w) = [w EXCEPT !.terms = <<m>>, !.means = m]
  BY DEF OnAnd, Where, Whole
<1>3. Meaning(<<m>>) = m BY <1>1, MeaningOne
<1> HIDE DEF m
<1> QED BY <1>2, <1>3 DEF Whole, Where

LEMMA ExistsSound ==
  ASSUME NEW j \in Joins, NEW w \in Where, Whole(w)
  PROVE  SoundWhere(Exists(j, w), Len(j.on) = 1)
<1> DEFINE x == Exists(j, w)
<1>1. ASSUME Len(j.on) = 1 PROVE Meaning(x.terms) = x.means
  <2> DEFINE t == IF w.terms = <<>> THEN j.on ELSE And(j.on, Parens(w.terms))
  <2>1. j.on \in Terms /\ w.terms \in Terms BY JoinType DEF Where, Terms
  <2>2. Parens(w.terms) = <<w.means>> /\ w.means \in SUBSET Rows
    BY <2>1, MeaningType DEF Parens, Whole
  <2>3. ASSUME w.terms = <<>> PROVE t \in Terms /\ Meaning(t) = Meaning(j.on) \cap w.means
    <3>1. w.means = Rows BY <2>3 DEF Whole, Meaning
    <3>2. Meaning(j.on) \in SUBSET Rows BY <2>1, MeaningType
    <3> QED BY <2>1, <2>3, <3>1, <3>2
  <2>4. ASSUME w.terms # <<>> PROVE t \in Terms /\ Meaning(t) = Meaning(j.on) \cap w.means
    <3>1. t = And(j.on, <<w.means>>) BY <2>2, <2>4
    <3>2. Len(j.on) <= 1 BY <1>1
    <3> QED BY <2>1, <2>2, <3>1, <3>2, AndOne
  <2>5. x.terms = Parens(t) /\ x.means = Meaning(j.on) \cap w.means BY DEF Exists
  <2> HIDE DEF t, x
  <2> QED BY <2>3, <2>4, <2>5, ParensType
<1>2. Fits(x.slots, x.args, Marked(x.slots))
  <2>1. w.slots \in Seq(Params) /\ w.slots = w.args BY DEF Where, Whole
  <2>2. CASE ~j.marks
    <3>1. x.slots = <<>> \o w.slots /\ x.args = w.args BY <2>2 DEF Exists
    <3> QED BY <2>1, <3>1 DEF Fits
  <2>3. CASE j.marks
    <3> DEFINE sl == <<Mark>> \o w.slots
    <3>1. x.slots = sl /\ x.args = w.args BY <2>3 DEF Exists
    <3>2. sl \in Seq(Params) /\ Len(sl) = Len(w.slots) + 1 /\ sl[1] = Mark /\ 1 \in DOMAIN sl
      BY <2>1 DEF Params
    <3>3. Len(w.slots) < Len(w.slots) + 1 BY <2>1
    <3> HIDE DEF sl
    <3>4. Marked(sl) BY <3>2 DEF Marked
    <3> QED BY <2>1, <3>1, <3>2, <3>3, <3>4 DEF Fits
  <2> QED BY <2>2, <2>3
<1> QED BY <1>1, <1>2 DEF SoundWhere

Fails == \E r \in {"error", "panic"} :
           Ends(r) /\ UNCHANGED <<wheres, acc, left, given, rows, stmt>>

StartsSound == \E s \in Stmts : Sound(s) /\ Starts(s) /\ UNCHANGED building

BeginsSet ==
  \E g \in Payloads \cup {NoPayload}, w \in Where, b \in BOOLEAN, c \in BOOLEAN :
    SoundWhere(w, c) /\ BeginSet(g, w, b, c) /\ UNCHANGED <<wheres, acc, rows>>

\* A statement that has the slots and the arguments of its where is sound.
LEMMA OfWhere ==
  ASSUME NEW k \in {"select", "delete"}, NEW b \in BOOLEAN, NEW c \in BOOLEAN,
         NEW sch \in Seq(Fields), NEW w \in Where, SoundWhere(w, c),
         k = "select" => c, k = "delete" => w.terms # <<>>,
         Starts([kind |-> k, table |-> b, simple |-> c, schema |-> sch,
                 where |-> w, slots |-> w.slots, args |-> w.args]),
         UNCHANGED building
  PROVE  StartsSound
<1> DEFINE s == [kind |-> k, table |-> b, simple |-> c, schema |-> sch,
                 where |-> w, slots |-> w.slots, args |-> w.args]
<1>1. s \in Stmts BY StmtType
<1>2. /\ s.kind = k /\ s.simple = c /\ s.where = w /\ s.slots = w.slots /\ s.args = w.args
  OBVIOUS
<1>3. Starts(s) OBVIOUS
<1> HIDE DEF s
<1>4. Fits(s.slots, s.args, Excuse(s)) BY <1>2 DEF SoundWhere, Fits, Excuse
<1>5. Sound(s) BY <1>2, <1>4 DEF SoundWhere, Sound, Exact
<1> QED BY <1>1, <1>3, <1>5 DEF StartsSound

LEMMA Built ==
  ASSUME TypeOK, WheresInv, Build
  PROVE  Fails \/ StartsSound \/ BeginsSet
<1> PICK k \in {0, Len(wheres)} :
     \/ Delete(k)
     \/ \E sch \in Schemas : Query(sch, k) \/ \E j \in Joins : QueryJoin(sch, j, k)
     \/ \E g \in Payloads \cup {NoPayload} : Update(g, k) \/ \E j \in Joins : UpdateJoin(g, j, k)
     \/ \E j \in Joins : DeleteJoin(j, k)
  BY DEF Build
<1> DEFINE w == Clause(k)
<1>w. w \in Where /\ Whole(w) BY ClauseType, ClauseMade DEF TypeOK, Made
<1>c. ASSUME NEW v \in Where, Whole(v), NEW c \in BOOLEAN PROVE SoundWhere(v, c)
  BY <1>c DEF SoundWhere, Whole, Fits
<1>s. Schemas \subseteq Seq(Fields) /\ <<>> \in Seq(Fields) BY StatementAssumption
<1>1. CASE Delete(k)
  <2>1. CASE w.terms = <<>> BY <1>1, <2>1 DEF Delete, building, Fails
  <2>2. CASE w.terms # <<>>
    <3>1. Starts([kind |-> "delete", table |-> TRUE, simple |-> TRUE, schema |-> <<>>,
                  where |-> w, slots |-> w.slots, args |-> w.args]) /\ UNCHANGED building
      BY <1>1, <2>2 DEF Delete
    <3> HIDE DEF w
    <3> QED BY <2>2, <3>1, <1>w, <1>c, <1>s, OfWhere
  <2> QED BY <2>1, <2>2
<1>2. ASSUME NEW sch \in Schemas, Query(sch, k) PROVE Fails \/ StartsSound
  <2>1. CASE sch = <<>> BY <1>2, <2>1 DEF Query, building, Fails
  <2>2. CASE sch # <<>>
    <3>1. Starts([kind |-> "select", table |-> TRUE, simple |-> TRUE, schema |-> sch,
                  where |-> w, slots |-> w.slots, args |-> w.args]) /\ UNCHANGED building
      BY <1>2, <2>2 DEF Query
    <3> HIDE DEF w
    <3> QED BY <3>1, <1>w, <1>c, <1>s, OfWhere
  <2> QED BY <2>1, <2>2
<1>3. ASSUME NEW sch \in Schemas, NEW j \in Joins, QueryJoin(sch, j, k)
      PROVE  Fails \/ StartsSound
  <2> DEFINE x == OnAnd(j, w)
  <2>1. CASE sch = <<>> \/ (j.shape # "blank" /\ j.marks)
    BY <1>3, <2>1 DEF QueryJoin, building, Fails
  <2>2. CASE ~(sch = <<>> \/ (j.shape # "blank" /\ j.marks))
    <3>1. Starts([kind |-> "select", table |-> TRUE, simple |-> TRUE, schema |-> sch,
                  where |-> x, slots |-> x.slots, args |-> x.args]) /\ UNCHANGED building
      BY <1>3, <2>2 DEF QueryJoin
    <3>2. x \in Where /\ Whole(x) BY <1>w, OnAndType, OnAndWhole
    <3> HIDE DEF x
    <3> QED BY <3>1, <3>2, <1>c, <1>s, OfWhere
  <2> QED BY <2>1, <2>2
<1>x. ASSUME NEW j \in Joins
      PROVE  /\ Exists(j, w) \in Where /\ Exists(j, w).terms # <<>>
             /\ SoundWhere(Exists(j, w), Len(j.on) = 1)
             /\ TableCut(j) \in BOOLEAN /\ (Len(j.on) = 1) \in BOOLEAN
  BY <1>w, ExistsType, ExistsSound DEF TableCut
<1>4. ASSUME NEW j \in Joins, DeleteJoin(j, k) PROVE Fails \/ StartsSound
  <2> DEFINE x == Exists(j, w)
  <2>1. CASE j.shape # "join" BY <1>4, <2>1 DEF DeleteJoin, building, Fails
  <2>2. CASE j.shape = "join"
    <3>1. Starts([kind |-> "delete", table |-> TableCut(j), simple |-> Len(j.on) = 1,
                  schema |-> <<>>, where |-> x, slots |-> x.slots, args |-> x.args])
          /\ UNCHANGED building
      BY <1>4, <2>2 DEF DeleteJoin
    <3>2. x \in Where /\ x.terms # <<>> /\ SoundWhere(x, Len(j.on) = 1) BY <1>x
    <3> HIDE DEF x
    <3> QED BY <3>1, <3>2, <1>x, <1>s, OfWhere
  <2> QED BY <2>1, <2>2
<1>5. ASSUME NEW g \in Payloads \cup {NoPayload}, Update(g, k) PROVE BeginsSet
  BY <1>5, <1>w, <1>c DEF Update, BeginsSet
<1>6. ASSUME NEW g \in Payloads \cup {NoPayload}, NEW j \in Joins, UpdateJoin(g, j, k)
      PROVE  Fails \/ BeginsSet
  <2>1. CASE j.shape = "blank"
    <3>1. BeginSet(g, w, TRUE, TRUE) /\ UNCHANGED <<wheres, acc, rows>>
      BY <1>6, <2>1 DEF UpdateJoin
    <3> QED BY <3>1, <1>w, <1>c DEF BeginsSet
  <2>2. CASE j.shape = "join"
    <3>1. BeginSet(g, Exists(j, w), TableCut(j), Len(j.on) = 1) /\ UNCHANGED <<wheres, acc, rows>>
      BY <1>6, <2>2 DEF UpdateJoin
    <3> HIDE DEF w
    <3> QED BY <3>1, <1>x DEF BeginsSet
  <2>3. CASE j.shape \notin {"blank", "join"} BY <1>6, <2>3 DEF UpdateJoin, Fails
  <2> QED BY <2>1, <2>2, <2>3
<1> QED BY <1>1, <1>2, <1>3, <1>4, <1>5, <1>6

LEMMA BuildType ==
  ASSUME TypeOK, WheresInv, Build
  PROVE  TypeOK'
<1>1. CASE Fails BY <1>1, EndsType DEF Fails, TypeOK
<1>2. CASE StartsSound BY <1>2, StartsType DEF StartsSound
<1>3. CASE BeginsSet BY <1>3, BeginSetType DEF BeginsSet
<1> QED BY <1>1, <1>2, <1>3, Built

LEMMA SetType ==
  ASSUME TypeOK, SetColumn \/ EndSet
  PROVE  TypeOK'
<1>t. stmt \in Stmts BY StmtTypeOK
<1>1. CASE SetColumn
  <2> DEFINE n == Head(left)
            s == [stmt EXCEPT !.slots = Append(@, n), !.args = IF HasKey(n) THEN Append(@, n) ELSE @]
  <2>1. left \in Seq(Names) /\ left # <<>> BY <1>1 DEF SetColumn, TypeOK
  <2>2. n \in Names /\ Tail(left) \in Seq(Names) BY <2>1
  <2>3. n \in Params BY <2>2 DEF Params
  <2>4. CASE HasKey(n) /\ n \in given.null
    BY <1>1, <2>4 DEF SetColumn, Ends, TypeOK
  <2>5. CASE ~(HasKey(n) /\ n \in given.null)
    <3>1. stmt' = s /\ left' = Tail(left) /\ UNCHANGED <<pc, result, out, wheres, acc, given, rows>>
      BY <1>1, <2>5 DEF SetColumn
    <3> HIDE DEF n
    <3>2. Append(stmt.slots, n) \in Seq(Params) /\ Append(stmt.args, n) \in Seq(Params)
      BY <1>t, <2>3 DEF Stmts
    <3>3. s \in Stmts BY <1>t, <3>2 DEF Stmts
    <3> HIDE DEF s
    <3> QED BY <2>2, <3>1, <3>3 DEF TypeOK, Stmts, n
  <2> QED BY <2>4, <2>5
<1>2. CASE EndSet
  <2> DEFINE s == [stmt EXCEPT !.slots = @ \o stmt.where.slots, !.args = @ \o stmt.where.args]
  <2>1. CASE stmt.slots = <<>> BY <1>2, <2>1, EndsType DEF EndSet, building, TypeOK
  <2>2. CASE stmt.slots # <<>>
    <3>1. Starts(s) /\ UNCHANGED building BY <1>2, <2>2 DEF EndSet
    <3>2. /\ stmt.slots \o stmt.where.slots \in Seq(Params)
          /\ stmt.args \o stmt.where.args \in Seq(Params)
      BY <1>t DEF Stmts, Where
    <3>3. s \in Stmts BY <1>t, <3>2 DEF Stmts
    <3> HIDE DEF s
    <3> QED BY <3>1, <3>3, StartsType
  <2> QED BY <2>1, <2>2
<1> QED BY <1>1, <1>2

LEMMA ExecuteType ==
  ASSUME TypeOK, Execute
  PROVE  TypeOK'
<1>t. stmt \in Stmts BY StmtTypeOK
<1>1. CASE Refuse \/ RunFails \/ Exec
  BY <1>1, EndsType DEF Refuse, RunFails, Exec, building, TypeOK
<1>2. CASE OpenRows
  <2>1. stmt.where.terms \in Terms BY <1>t DEF Stmts, Where, Terms
  <2>2. Meaning(stmt.where.terms) \in SUBSET Rows BY <2>1, MeaningType
  <2> QED BY <1>2, <2>2 DEF OpenRows, TypeOK
<1>3. ASSUME NEW r \in Rows, ScanRow(r) PROVE TypeOK'
  <2>1. DOMAIN Object(r, stmt.schema) \subseteq Names BY <1>t, ObjectType DEF Stmts
  <2>2. \A o \in out \cup {Object(r, stmt.schema)} : DOMAIN o \subseteq Names
    BY <2>1 DEF TypeOK
  <2>3. rows' = rows \ {r} /\ out' = out \cup {Object(r, stmt.schema)}
        /\ UNCHANGED <<wheres, acc, pc, stmt, left, given, result>>
    BY <1>3 DEF ScanRow
  <2> QED BY <2>2, <2>3 DEF TypeOK
<1>4. CASE ScanFails BY <1>4, EndsType DEF ScanFails, TypeOK
<1>5. CASE EndRows BY <1>5 DEF EndRows, TypeOK
<1>6. CASE Return
  <2>1. NoStatement \in Stmts BY DEF NoStatement, Stmts, NoClause, Where
  <2>2. pc' = "idle" /\ stmt' = NoStatement /\ given' = NoPayload /\ out' = {} /\ result' = "none"
        /\ UNCHANGED <<wheres, acc, left, rows>>
    BY <1>6 DEF Return
  <2> QED BY <2>1, <2>2 DEF TypeOK, Stmts
<1> QED BY <1>1, <1>2, <1>3, <1>4, <1>5, <1>6 DEF Execute

-----------------------------------------------------------------------------
(* The invariant.                                                          *)
LEMMA InvInit == Init => TypeOK /\ Inv
<1> SUFFICES ASSUME Init PROVE TypeOK /\ Inv OBVIOUS
<1>1. NoClause \in Where BY DEF NoClause, Where
<1>2. NoClauses \in [op : {"none", "and", "or"}, clause : Where] BY <1>1 DEF NoClauses
<1>3. NoStatement \in Stmts BY <1>1 DEF NoStatement, Stmts
<1>4. TypeOK BY <1>2, <1>3 DEF Init, TypeOK, Stmts
<1>5. Whole(NoClause) BY DEF Whole, NoClause, Meaning
<1>6. AccInv BY <1>5 DEF Init, AccInv, NoClauses, NoClause
<1>7. WheresInv BY DEF Init, WheresInv
<1>8. StmtInv BY DEF Init, StmtInv, RowsComplete, RefusedExplained
<1> QED BY <1>4, <1>6, <1>7, <1>8 DEF Inv

LEMMA CombineInv ==
  ASSUME TypeOK, Inv, MakeWhere
  PROVE  WheresInv' /\ AccInv'
<1>a. ASSUME NEW w \in Where, Made(w), wheres' = Append(wheres, w) PROVE WheresInv'
  <2>1. wheres \in Seq(Where) BY DEF TypeOK
  <2>2. \A k \in DOMAIN wheres' : wheres'[k] = w \/ (k \in DOMAIN wheres /\ wheres'[k] = wheres[k])
    BY <1>a, <2>1
  <2> QED BY <1>a, <2>2 DEF Inv, WheresInv
<1>b. AccInv /\ WheresInv BY DEF Inv
<1>c. Whole(NoClause) /\ Made(NoClause) /\ NoClause \in Where
  BY DEF Whole, Made, NoClause, Meaning, Where
<1>1. ASSUME NEW p \in Preds, Op(p) PROVE WheresInv' /\ AccInv'
  <2> DEFINE w == [terms |-> <<Holds[p]>>, slots |-> <<p>>, args |-> <<p>>, means |-> Holds[p]]
  <2>1. Holds[p] \in SUBSET Rows /\ <<p>> \in Seq(Params)
    BY StatementAssumption DEF Params
  <2>2. w \in Where BY <2>1 DEF Where
  <2>3. Len(<<Holds[p]>>) <= 1 OBVIOUS
  <2>4. Made(w) BY <2>1, <2>3, MeaningOne DEF Made, Whole
  <2>5. wheres' = Append(wheres, w) /\ acc' = acc /\ pc' = pc BY <1>1 DEF Op, Make
  <2> HIDE DEF w
  <2> QED BY <1>a, <1>b, <2>2, <2>4, <2>5 DEF AccInv
<1>2. ASSUME NEW ps \in InLists, In(ps) PROVE WheresInv' /\ AccInv'
  <2> DEFINE w == [terms |-> <<AnyOf(ps)>>, slots |-> ps, args |-> ps, means |-> AnyOf(ps)]
  <2>1. ps \in Seq(Preds) BY StatementAssumption
  <2>2. AnyOf(ps) \in SUBSET Rows BY <2>1, StatementAssumption DEF AnyOf
  <2>3. ps \in Seq(Params) BY <2>1 DEF Params
  <2>4. Len(<<AnyOf(ps)>>) <= 1 OBVIOUS
  <2> HIDE DEF AnyOf
  <2>5. w \in Where BY <2>2, <2>3 DEF Where
  <2>6. Made(w) BY <2>2, <2>4, MeaningOne DEF Made, Whole
  <2>7. wheres' = Append(wheres, w) /\ acc' = acc /\ pc' = pc BY <1>2 DEF In, Make
  <2> HIDE DEF w
  <2> QED BY <1>a, <1>b, <2>5, <2>6, <2>7 DEF AccInv
<1>3. ASSUME NEW op \in {"and", "or"}, BeginCombine(op) PROVE WheresInv' /\ AccInv'
  <2>1. wheres' = wheres /\ acc' = [op |-> op, clause |-> NoClause] BY <1>3 DEF BeginCombine
  <2> QED BY <1>b, <1>c, <2>1 DEF WheresInv, AccInv, Made
<1>4. ASSUME NEW k \in DOMAIN wheres, Include(k) PROVE WheresInv' /\ AccInv'
  <2> DEFINE c == acc.clause
            w == wheres[k]
            d == Joined(acc.op, c, w)
  <2>1. w \in Where /\ c \in Where /\ acc.op \in {"none", "and", "or"} BY DEF TypeOK
  <2>2. w.terms # <<>> /\ Made(w) /\ wheres' = wheres /\ acc' = [acc EXCEPT !.clause = d]
    BY <1>4 DEF Include, Inv, WheresInv
  <2>3. c.terms \in Terms /\ w.terms \in Terms BY <2>1 DEF Where, Terms
  <2>4. w.terms = <<w.means>> /\ w.means \in SUBSET Rows
    BY <2>2, <2>3, OneTerm DEF Made, Whole
  <2>5. Meaning(c.terms) = c.means /\ c.slots = c.args /\ (acc.op # "or" => Len(c.terms) <= 1)
    BY <1>b DEF AccInv, Whole
  <2>6. w.slots = w.args BY <2>2 DEF Made, Whole
  <2>7. d.slots = d.args BY <2>5, <2>6 DEF Joined
  <2>8. acc'.clause = d /\ acc'.op = acc.op /\ acc.op # "none"
    <3> HIDE DEF d
    <3>1. acc'.clause = d /\ acc'.op = acc.op BY <2>2 DEF TypeOK
    <3>2. acc.op # "none" BY <1>b, <1>4 DEF Include, AccInv
    <3> QED BY <3>1, <3>2
  <2>9. CASE acc.op = "and"
    <3>1. d.terms = And(c.terms, <<w.means>>) /\ d.means = c.means \cap w.means
      BY <2>4, <2>9 DEF Joined
    <3>2. Len(c.terms) <= 1 /\ Meaning(c.terms) = c.means BY <2>5, <2>9
    <3> HIDE DEF c, d
    <3>3. Len(d.terms) = 1 /\ Meaning(d.terms) = d.means
      BY <2>3, <2>4, <3>1, <3>2, AndOne
    <3>4. Len(d.terms) <= 1 BY <3>3
    <3>5. Whole(d) BY <2>7, <3>3 DEF Whole
    <3> QED BY <1>b, <2>2, <2>8, <3>4, <3>5 DEF WheresInv, AccInv
  <2>10. CASE acc.op = "or"
    <3>1. d.terms = Or(c.terms, <<w.means>>)
          /\ d.means = IF c.terms = <<>> THEN c.means \cap w.means ELSE c.means \cup w.means
      BY <2>4, <2>10 DEF Joined
    <3>2. c.terms = <<>> => c.means = Rows BY <2>5 DEF Meaning
    <3>3. Meaning(c.terms) = c.means /\ Rows \cap w.means = w.means BY <2>4, <2>5
    <3> HIDE DEF c, d
    <3>4. Meaning(d.terms) = d.means BY <2>3, <2>4, <3>1, <3>2, <3>3, OrOne
    <3>5. Whole(d) BY <2>7, <3>4 DEF Whole
    <3> QED BY <1>b, <2>2, <2>8, <2>10, <3>5 DEF WheresInv, AccInv
  <2> QED BY <2>1, <2>8, <2>9, <2>10
<1>5. CASE EndCombine
  <2> DEFINE c == acc.clause
            d == IF c.terms = <<>> THEN NoClause ELSE [c EXCEPT !.terms = Parens(@)]
  <2>1. c \in Where BY DEF TypeOK
  <2>2. c.terms \in Terms BY <2>1 DEF Where, Terms
  <2>3. Parens(c.terms) \in Terms /\ Len(Parens(c.terms)) = 1
        /\ Meaning(Parens(c.terms)) = Meaning(c.terms)
    BY <2>2, ParensType
  <2>4. Len(Parens(c.terms)) <= 1 BY <2>3
  <2>5. [c EXCEPT !.terms = Parens(@)] \in Where BY <2>1, <2>3 DEF Where, Terms
  <2>6. Made([c EXCEPT !.terms = Parens(@)])
    BY <1>b, <2>1, <2>3, <2>4 DEF Made, Whole, AccInv, Where
  <2>7. d \in Where /\ Made(d) BY <1>c, <2>5, <2>6
  <2>8. wheres' = Append(wheres, d) /\ acc' = NoClauses /\ pc' = "idle"
    BY <1>5 DEF EndCombine, Make
  <2> HIDE DEF d
  <2>9. WheresInv' BY <1>a, <2>7, <2>8
  <2> QED BY <1>c, <2>8, <2>9 DEF AccInv, NoClauses, Made
<1> QED BY <1>1, <1>2, <1>3, <1>4, <1>5 DEF MakeWhere

\* Every other step leaves the Where values alone.
LEMMA WheresKept ==
  ASSUME Inv, UNCHANGED <<wheres, acc>>, pc' # "combine" \/ pc' = pc
  PROVE  WheresInv' /\ AccInv'
BY DEF Inv, WheresInv, AccInv

LEMMA EndsInv ==
  ASSUME Inv, NEW r \in {"error", "panic", "done"}, Ends(r), UNCHANGED <<wheres, acc>>
  PROVE  Inv'
<1>1. WheresInv' /\ AccInv' BY WheresKept DEF Ends
<1>2. StmtInv' BY DEF Ends, StmtInv, RowsComplete, RefusedExplained
<1> QED BY <1>1, <1>2 DEF Inv

LEMMA StartsInv ==
  ASSUME Inv, NEW s, Sound(s), Starts(s), UNCHANGED building
  PROVE  Inv'
<1>1. WheresInv' /\ AccInv' BY WheresKept DEF Starts, building
<1>2. Sound(stmt)' BY DEF Starts, building, Sound, Exact, Excuse, Missing, HasKey
<1>3. StmtInv' BY <1>2 DEF Starts, StmtInv, RowsComplete, RefusedExplained
<1> QED BY <1>1, <1>3 DEF Inv

LEMMA BeginSetInv ==
  ASSUME Inv, BeginsSet
  PROVE  Inv'
<1> PICK g \in Payloads \cup {NoPayload}, w \in Where, b \in BOOLEAN, c \in BOOLEAN :
      SoundWhere(w, c) /\ BeginSet(g, w, b, c) /\ UNCHANGED <<wheres, acc, rows>>
  BY DEF BeginsSet
<1>1. CASE w.terms = <<>> \/ g = NoPayload BY <1>1, EndsInv DEF BeginSet
<1>2. CASE ~(w.terms = <<>> \/ g = NoPayload)
  <2> DEFINE s == [kind |-> "update", table |-> b, simple |-> c, schema |-> <<>>,
                   where |-> w, slots |-> <<>>, args |-> <<>>]
            l == IF g.schema # <<>> THEN [i \in DOMAIN g.schema |-> NameOf[g.schema[i]]]
                 ELSE g.keys
  <2>1. pc' = "set" /\ result' = "none" /\ out' = {} /\ stmt' = s /\ given' = g /\ left' = l
    BY <1>2 DEF BeginSet
  <2>2. Sound(s)'
    BY <1>2 DEF Sound, Exact, SoundWhere, Fits
  <2>3. \A i \in DOMAIN l :
          \/ \E m \in DOMAIN g.keys : g.keys[m] = l[i]
          \/ \E m \in DOMAIN g.schema :
               ~\E n \in DOMAIN g.keys : g.keys[n] = NameOf[g.schema[m]]
    <3>1. CASE g.schema # <<>>
      <4>1. DOMAIN l = DOMAIN g.schema /\ \A i \in DOMAIN l : l[i] = NameOf[g.schema[i]] BY <3>1
      <4> QED BY <4>1
    <3>2. CASE g.schema = <<>> BY <3>2
    <3> QED BY <3>1, <3>2
  <2>4. s.kind = "update" /\ s.where = w OBVIOUS
  <2> HIDE DEF s, l
  <2>5. WheresInv' /\ AccInv' BY <2>1, WheresKept
  <2>6. \A i \in DOMAIN left' : HasKey(left[i])' \/ Missing'
    BY <2>1, <2>3 DEF HasKey, Missing
  <2>7. Sound(stmt)' BY <2>1, <2>2
  <2>8. Fits(stmt.where.slots, stmt.where.args, Marked(stmt.where.slots))'
    BY <2>1, <2>4 DEF SoundWhere, Fits, Marked
  <2>9. StmtInv' BY <2>1, <2>4, <2>6, <2>7, <2>8 DEF StmtInv, RowsComplete, RefusedExplained
  <2> QED BY <2>5, <2>9 DEF Inv
<1> QED BY <1>1, <1>2

LEMMA BuildInv ==
  ASSUME TypeOK, Inv, Build
  PROVE  Inv'
<1>1. CASE Fails BY <1>1, EndsInv DEF Fails
<1>2. CASE StartsSound BY <1>2, StartsInv DEF StartsSound
<1>3. CASE BeginsSet BY <1>3, BeginSetInv
<1>4. WheresInv BY DEF Inv
<1> QED BY <1>1, <1>2, <1>3, <1>4, Built

LEMMA FitsConcat ==
  ASSUME NEW s \in Seq(Params), NEW a \in Seq(Params), NEW t \in Seq(Params), NEW b \in Seq(Params),
         NEW e \in BOOLEAN, NEW f \in BOOLEAN, Fits(s, a, e), Fits(t, b, f)
  PROVE  Fits(s \o t, a \o b, e \/ f)
<1>1. Len(s \o t) = Len(s) + Len(t) /\ Len(a \o b) = Len(a) + Len(b) OBVIOUS
<1>2. Len(s) \in Nat /\ Len(t) \in Nat /\ Len(a) \in Nat /\ Len(b) \in Nat OBVIOUS
<1>3. CASE s = a /\ t = b BY <1>3 DEF Fits
<1>4. CASE ~(s = a /\ t = b)
  <2>1. (e \/ f) /\ Len(a) <= Len(s) /\ Len(b) <= Len(t) /\ (Len(a) < Len(s) \/ Len(b) < Len(t))
    BY <1>2, <1>4 DEF Fits
  <2>2. Len(a) + Len(b) < Len(s) + Len(t) BY <1>2, <2>1
  <2> QED BY <1>1, <2>1, <2>2 DEF Fits
<1> QED BY <1>3, <1>4

LEMMA MarkedLeft ==
  ASSUME NEW s \in Seq(Params), NEW t \in Seq(Params)
  PROVE  (Marked(s) => Marked(s \o t)) /\ (Marked(t) => Marked(s \o t))
<1>1. ASSUME NEW i \in DOMAIN s, s[i] = Mark PROVE Marked(s \o t)
  <2>1. i \in DOMAIN (s \o t) /\ (s \o t)[i] = Mark BY <1>1
  <2> QED BY <2>1 DEF Marked
<1>2. ASSUME NEW i \in DOMAIN t, t[i] = Mark PROVE Marked(s \o t)
  <2>1. Len(s) + i \in DOMAIN (s \o t) /\ (s \o t)[Len(s) + i] = Mark BY <1>2
  <2> QED BY <2>1 DEF Marked
<1> QED BY <1>1, <1>2 DEF Marked

LEMMA SetInv ==
  ASSUME TypeOK, Inv, SetColumn \/ EndSet
  PROVE  Inv'
<1>t. stmt \in Stmts BY StmtTypeOK
<1>s. stmt.slots \in Seq(Params) /\ stmt.args \in Seq(Params) /\ stmt.where \in Where
  BY <1>t DEF Stmts
<1>p. pc = "set" BY DEF SetColumn, EndSet
<1>i. /\ Sound(stmt) /\ out = {} /\ result = "none" /\ stmt.kind = "update"
      /\ Fits(stmt.where.slots, stmt.where.args, Marked(stmt.where.slots))
      /\ \A i \in DOMAIN left : HasKey(left[i]) \/ Missing
  BY <1>p DEF Inv, StmtInv
<1>1. CASE SetColumn
  <2> DEFINE n == Head(left)
            hk == HasKey(n)
            s == [stmt EXCEPT !.slots = Append(@, n), !.args = IF hk THEN Append(@, n) ELSE @]
  <2>1. CASE hk /\ n \in given.null BY <1>1, <2>1, EndsInv DEF SetColumn
  <2>2. CASE ~(hk /\ n \in given.null)
    <3>1. stmt' = s /\ left' = Tail(left) /\ UNCHANGED <<pc, result, out, wheres, acc, given, rows>>
      BY <1>1, <2>2 DEF SetColumn
    <3>2. left \in Seq(Names) /\ left # <<>> BY <1>1 DEF SetColumn, TypeOK
    <3>3. n \in Names /\ 1 \in DOMAIN left /\ n = left[1] BY <3>2
    <3>4. hk \/ Missing BY <1>i, <3>3
    <3>5. \A i \in DOMAIN Tail(left) : i + 1 \in DOMAIN left /\ Tail(left)[i] = left[i + 1] BY <3>2
    <3>6. \A i \in DOMAIN Tail(left) : HasKey(Tail(left)[i]) \/ Missing BY <1>i, <3>5
    <3>7. \A i \in DOMAIN left' : HasKey(left[i])' \/ Missing'
      BY <3>1, <3>6 DEF HasKey, Missing
    <3>8. n \in Params BY <3>3 DEF Params
    <3>9. s \in Stmts
      <4>1. Append(stmt.slots, n) \in Seq(Params) /\ Append(stmt.args, n) \in Seq(Params)
        BY <1>s, <3>8
      <4> HIDE DEF n, hk
      <4> QED BY <1>t, <4>1 DEF Stmts
    <3> HIDE DEF hk, n
    <3>10. /\ s.kind = stmt.kind /\ s.where = stmt.where /\ s.simple = stmt.simple
           /\ s.slots = Append(stmt.slots, n)
           /\ s.args = IF hk THEN Append(stmt.args, n) ELSE stmt.args
      BY <1>t DEF Stmts
    <3> HIDE DEF s
    <3>11. Fits(s.slots, s.args, Excuse(s))
      <4>1. /\ Len(Append(stmt.slots, n)) = Len(stmt.slots) + 1
            /\ Len(Append(stmt.args, n)) = Len(stmt.args) + 1
            /\ Len(stmt.slots) \in Nat /\ Len(stmt.args) \in Nat
        BY <1>s, <3>8
      <4>2. stmt.slots = stmt.args \/ (Len(stmt.args) < Len(stmt.slots) /\ Excuse(stmt))
        BY <1>i DEF Sound, Fits
      <4>3. Marked(stmt.slots) => Marked(s.slots)
        <5>1. stmt.slots \o <<n>> = s.slots /\ <<n>> \in Seq(Params) BY <1>s, <3>8, <3>10
        <5> QED BY <1>s, <5>1, MarkedLeft
      <4>4. Excuse(stmt) => Excuse(s) BY <3>10, <4>3 DEF Excuse
      <4>5. CASE stmt.slots = stmt.args /\ hk BY <3>10, <4>5 DEF Fits
      <4>6. CASE ~hk
        <5>1. Excuse(s) BY <1>i, <3>4, <3>10, <4>6 DEF Excuse
        <5>2. Len(stmt.args) <= Len(stmt.slots) BY <4>1, <4>2
        <5>3. Len(stmt.args) < Len(stmt.slots) + 1 BY <4>1, <5>2
        <5> QED BY <3>10, <4>1, <4>6, <5>1, <5>3 DEF Fits
      <4>7. CASE stmt.slots # stmt.args /\ hk
        <5>1. Len(stmt.args) + 1 < Len(stmt.slots) + 1 /\ Excuse(s)
          BY <4>1, <4>2, <4>4, <4>7
        <5> QED BY <3>10, <4>1, <4>7, <5>1 DEF Fits
      <4> QED BY <4>5, <4>6, <4>7
    <3>12. Sound(s) BY <1>i, <3>10, <3>11 DEF Sound, Exact
    <3>13. Sound(stmt)' BY <3>1, <3>12 DEF Sound, Exact, Excuse, Missing, HasKey
    <3>14. Fits(stmt.where.slots, stmt.where.args, Marked(stmt.where.slots))'
      BY <1>i, <3>1, <3>10 DEF Fits, Marked
    <3>15. StmtInv'
      BY <1>i, <1>p, <3>1, <3>7, <3>10, <3>13, <3>14 DEF StmtInv, RowsComplete, RefusedExplained
    <3>16. WheresInv' /\ AccInv' BY <3>1, WheresKept
    <3> QED BY <3>15, <3>16 DEF Inv
  <2> QED BY <2>1, <2>2
<1>2. CASE EndSet
  <2> DEFINE s == [stmt EXCEPT !.slots = @ \o stmt.where.slots, !.args = @ \o stmt.where.args]
  <2>1. CASE stmt.slots = <<>> BY <1>2, <2>1, EndsInv DEF EndSet, building
  <2>2. CASE stmt.slots # <<>>
    <3>1. Starts(s) /\ UNCHANGED building BY <1>2, <2>2 DEF EndSet
    <3>2. /\ s.kind = stmt.kind /\ s.where = stmt.where /\ s.simple = stmt.simple
          /\ s.slots = stmt.slots \o stmt.where.slots
          /\ s.args = stmt.args \o stmt.where.args
      BY <1>t DEF Stmts
    <3> HIDE DEF s
    <3>3. stmt.where.slots \in Seq(Params) /\ stmt.where.args \in Seq(Params)
      BY <1>s DEF Where
    <3>4. Fits(stmt.slots, stmt.args, Excuse(stmt)) BY <1>i DEF Sound
    <3>5. Excuse(stmt) \in BOOLEAN /\ Marked(stmt.where.slots) \in BOOLEAN
      BY DEF Excuse, Marked
    <3>6. Fits(s.slots, s.args, Excuse(stmt) \/ Marked(stmt.where.slots))
      BY <1>s, <1>i, <3>2, <3>3, <3>4, <3>5, FitsConcat
    <3>7. Excuse(stmt) \/ Marked(stmt.where.slots) => Excuse(s)
      BY <1>s, <3>2, <3>3, MarkedLeft DEF Excuse
    <3>8. Fits(s.slots, s.args, Excuse(s)) BY <3>6, <3>7 DEF Fits
    <3>9. Sound(s) BY <1>i, <3>2, <3>8 DEF Sound, Exact
    <3> QED BY <3>1, <3>9, StartsInv
  <2> QED BY <2>1, <2>2
<1> QED BY <1>1, <1>2

LEMMA ExecuteInv ==
  ASSUME TypeOK, Inv, Execute
  PROVE  Inv'
<1>t. stmt \in Stmts BY StmtTypeOK
<1>i. StmtInv BY DEF Inv
<1>1. CASE Refuse
  <2>1. WheresInv' /\ AccInv' BY <1>1, WheresKept DEF Refuse, building, Ends
  <2>2. Sound(stmt) BY <1>1, <1>i DEF Refuse, StmtInv
  <2>3. ~stmt.table \/ Excuse(stmt) BY <1>1, <2>2 DEF Refuse, Sound, Fits
  <2>4. stmt' = stmt /\ given' = given /\ pc' = "ended" /\ result' = "refused"
    BY <1>1 DEF Refuse, building, Ends
  <2>5. RefusedExplained' BY <2>3, <2>4 DEF RefusedExplained, Excuse, Marked, Missing, HasKey
  <2>6. StmtInv' BY <2>4, <2>5 DEF StmtInv, RowsComplete
  <2> QED BY <2>1, <2>6 DEF Inv
<1>2. CASE RunFails \/ Exec \/ ScanFails
  BY <1>2, EndsInv DEF RunFails, Exec, ScanFails, building
<1>3. CASE OpenRows
  <2>1. WheresInv' /\ AccInv' BY <1>3, WheresKept DEF OpenRows
  <2>2. Sound(stmt) /\ out = {} /\ result = "none" /\ stmt.kind = "select"
    BY <1>3, <1>i DEF OpenRows, Runs, StmtInv
  <2>3. Exact(stmt) /\ stmt.simple /\ Meaning(stmt.where.terms) = stmt.where.means
    BY <2>2 DEF Sound, Exact
  <2>4. stmt' = stmt /\ out' = {} /\ result' = "none" /\ pc' = "scan" /\ rows' = stmt.where.means
    BY <1>3, <2>2, <2>3 DEF OpenRows
  <2>5. (out = Objects(stmt.where.means \ rows))' BY <2>4 DEF Objects
  <2>6. StmtInv' BY <2>3, <2>4, <2>5 DEF StmtInv, RowsComplete, RefusedExplained, Exact
  <2> QED BY <2>1, <2>6 DEF Inv
<1>4. ASSUME NEW r \in Rows, ScanRow(r) PROVE Inv'
  <2>1. WheresInv' /\ AccInv' BY <1>4, WheresKept DEF ScanRow
  <2>2. /\ Exact(stmt) /\ stmt.simple /\ rows \subseteq stmt.where.means
        /\ out = Objects(stmt.where.means \ rows) /\ result = "none"
    BY <1>4, <1>i DEF ScanRow, StmtInv
  <2>3. r \in rows /\ rows' = rows \ {r} /\ out' = out \cup {Object(r, stmt.schema)}
        /\ UNCHANGED <<pc, stmt, result>> /\ pc = "scan"
    BY <1>4 DEF ScanRow
  <2>4. stmt.where.means \ rows' = (stmt.where.means \ rows) \cup {r} BY <2>2, <2>3
  <2>5. (out = Objects(stmt.where.means \ rows))' BY <2>2, <2>3, <2>4 DEF Objects
  <2>6. (rows \subseteq stmt.where.means)' BY <2>2, <2>3
  <2>7. StmtInv' BY <2>2, <2>3, <2>5, <2>6 DEF StmtInv, RowsComplete, RefusedExplained, Exact
  <2> QED BY <2>1, <2>7 DEF Inv
<1>5. CASE EndRows
  <2>1. WheresInv' /\ AccInv' BY <1>5, WheresKept DEF EndRows
  <2>2. out = Objects(stmt.where.means \ rows) /\ rows = {} BY <1>5, <1>i DEF EndRows, StmtInv
  <2>3. stmt.where.means \ rows = stmt.where.means BY <2>2
  <2>4. pc' = "ended" /\ result' = "rows" /\ UNCHANGED <<stmt, out>> BY <1>5 DEF EndRows
  <2>5. RowsComplete' BY <2>2, <2>3, <2>4 DEF RowsComplete, Objects
  <2>6. StmtInv' BY <2>4, <2>5 DEF StmtInv, RefusedExplained
  <2> QED BY <2>1, <2>6 DEF Inv
<1>6. CASE Return
  <2>1. WheresInv' /\ AccInv' BY <1>6, WheresKept DEF Return
  <2>2. pc' = "idle" /\ result' = "none" BY <1>6 DEF Return
  <2>3. StmtInv' BY <2>2 DEF StmtInv, RowsComplete, RefusedExplained
  <2> QED BY <2>1, <2>3 DEF Inv
<1> QED BY <1>1, <1>2, <1>3, <1>4, <1>5, <1>6 DEF Execute

LEMMA InvStep == TypeOK /\ Inv /\ [Next]_vars => TypeOK' /\ Inv'
<1> SUFFICES ASSUME TypeOK, Inv, [Next]_vars PROVE TypeOK' /\ Inv' OBVIOUS
<1>w. WheresInv BY DEF Inv
<1>1. CASE MakeWhere
  <2>1. UNCHANGED making /\ pc \in {"idle", "combine"} /\ pc' \in {"idle", "combine"}
    BY <1>1 DEF MakeWhere, Op, In, BeginCombine, Include, EndCombine
  <2>2. StmtInv' BY <2>1 DEF making, Inv, StmtInv, RowsComplete, RefusedExplained
  <2> QED BY <1>1, <1>w, <2>2, MakeType, CombineInv DEF Inv
<1>2. CASE Build BY <1>2, <1>w, BuildType, BuildInv
<1>3. CASE SetColumn \/ EndSet BY <1>3, SetType, SetInv
<1>4. CASE Execute BY <1>4, ExecuteType, ExecuteInv
<1>5. CASE UNCHANGED vars
  <2>1. TypeOK' BY <1>5 DEF TypeOK, vars
  <2>2. WheresInv' /\ AccInv' BY <1>5 DEF vars, Inv, WheresInv, AccInv
  <2>3. StmtInv'
    BY <1>5 DEF vars, Inv, StmtInv, Sound, Exact, Excuse, Missing, HasKey, Objects,
                RowsComplete, RefusedExplained
  <2> QED BY <2>1, <2>2, <2>3 DEF Inv
<1> QED BY <1>1, <1>2, <1>3, <1>4, <1>5 DEF Next

-----------------------------------------------------------------------------
(* The theorems.                                                           *)

(* Every step keeps the types and the invariant.                           *)
THEOREM Invariance == Spec => [](TypeOK /\ Inv)
BY InvInit, InvStep, PTL DEF Spec

(* The state of a builder is well formed.                                  *)
THEOREM TypeCorrect == Spec => []TypeOK
BY Invariance, PTL

(* No argument of a statement is bound to another's placeholder.           *)
THEOREM ArgumentsBound == Spec => []Bound
<1>1. Inv => Bound BY DEF Inv, StmtInv, Sound, Fits, Bound
<1> QED BY <1>1, Invariance, PTL

(* However predicates are nested, a statement filters as asked.            *)
THEOREM FiltersExactly == Spec => []FilterExact
<1>1. Inv => FilterExact BY DEF Inv, StmtInv, Sound, Exact, FilterExact
<1> QED BY <1>1, Invariance, PTL

(* No update or delete runs without a filter.                              *)
THEOREM NeverUnfiltered == Spec => []Filtered
<1>1. Inv => Filtered BY DEF Inv, StmtInv, Sound, Filtered
<1> QED BY <1>1, Invariance, PTL

(* A refused statement has one of three known faults.                      *)
THEOREM RefusalsExplained == Spec => []RefusedExplained
<1>1. Inv => RefusedExplained BY DEF Inv, StmtInv
<1> QED BY <1>1, Invariance, PTL

(* A query returns all of its rows or none.                                *)
THEOREM AllRowsOrNone == Spec => []RowsComplete
<1>1. Inv => RowsComplete BY DEF Inv, StmtInv
<1> QED BY <1>1, Invariance, PTL

-----------------------------------------------------------------------------
\* No join statement has an OR in its ON condition.
OneTermOn == \A j \in Joins : j.shape = "join" => Len(j.on) = 1

\* A statement has its ON condition from where it was begun.
LEMMA StmtFrom ==
  ASSUME TypeOK, [Next]_vars
  PROVE  \/ stmt'.simple
         \/ stmt'.simple = stmt.simple
         \/ \E j \in Joins : j.shape = "join" /\ stmt'.simple = (Len(j.on) = 1)
<1> DEFINE Fresh == stmt'.simple
          Kept == stmt'.simple = stmt.simple
          FromJoin(j) == j.shape = "join" /\ stmt'.simple = (Len(j.on) = 1)
<1>1. CASE MakeWhere
  BY <1>1 DEF MakeWhere, Op, In, BeginCombine, Include, EndCombine, making
<1>2. ASSUME NEW k \in {0, Len(wheres)}, Delete(k) PROVE Fresh \/ Kept
  BY <1>2 DEF Delete, Starts
<1>3. ASSUME NEW k \in {0, Len(wheres)}, NEW sch \in Schemas, Query(sch, k) PROVE Fresh \/ Kept
  BY <1>3 DEF Query, Starts
<1>4. ASSUME NEW k \in {0, Len(wheres)}, NEW sch \in Schemas, NEW j \in Joins,
             QueryJoin(sch, j, k)
      PROVE  Fresh \/ Kept
  BY <1>4 DEF QueryJoin, Starts
<1>5. ASSUME NEW k \in {0, Len(wheres)}, NEW g \in Payloads \cup {NoPayload}, Update(g, k)
      PROVE  Fresh \/ Kept
  BY <1>5 DEF Update, BeginSet
<1>6. ASSUME NEW k \in {0, Len(wheres)}, NEW g \in Payloads \cup {NoPayload}, NEW j \in Joins,
             UpdateJoin(g, j, k)
      PROVE  Fresh \/ Kept \/ FromJoin(j)
  <2>1. CASE j.shape = "blank" BY <1>6, <2>1 DEF UpdateJoin, BeginSet
  <2>2. CASE j.shape = "join"
    <3>1. BeginSet(g, Exists(j, Clause(k)), TableCut(j), Len(j.on) = 1)
      BY <1>6, <2>2 DEF UpdateJoin
    <3> QED BY <2>2, <3>1 DEF BeginSet
  <2>3. CASE j.shape # "blank" /\ j.shape # "join" BY <1>6, <2>3 DEF UpdateJoin
  <2> QED BY <2>1, <2>2, <2>3
<1>7. ASSUME NEW k \in {0, Len(wheres)}, NEW j \in Joins, DeleteJoin(j, k)
      PROVE  Fresh \/ Kept \/ FromJoin(j)
  BY <1>7 DEF DeleteJoin, Starts
<1>8. CASE Build
  BY <1>2, <1>3, <1>4, <1>5, <1>6, <1>7, <1>8 DEF Build
<1>9. CASE SetColumn \/ EndSet
  <2>1. stmt \in Stmts BY StmtTypeOK
  <2> QED BY <1>9, <2>1 DEF Stmts, SetColumn, EndSet, Starts
<1>10. CASE Execute
  BY <1>10 DEF Execute, Refuse, RunFails, Exec, OpenRows, ScanRow, ScanFails, EndRows, Return,
               NoStatement
<1>11. CASE UNCHANGED vars BY <1>11 DEF vars
<1> QED BY <1>1, <1>8, <1>9, <1>10, <1>11 DEF Next

(* An OR in an ON condition is the only way in which a join affects other  *)
(* rows than a query of it returns (sqlx_helpers.go:369, 406).             *)
THEOREM JoinUnlessOr == ASSUME OneTermOn PROVE Spec => []JoinIsFilter
<1>1. Init => stmt.simple BY DEF Init, NoStatement
<1>2. TypeOK /\ stmt.simple /\ [Next]_vars => (stmt.simple)' BY StmtFrom DEF OneTermOn
<1>3. stmt.simple /\ FilterExact => JoinIsFilter BY DEF FilterExact, JoinIsFilter
<1> QED BY <1>1, <1>2, <1>3, TypeCorrect, FiltersExactly, PTL DEF Spec
=============================================================================
