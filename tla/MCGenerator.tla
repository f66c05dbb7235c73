----------------------------- MODULE MCGenerator -----------------------------
(***************************************************************************)
(* Two entities whose names fall together and one of many shapes, in the   *)
(* projects that differ to the generator, with two database adapters.      *)
(***************************************************************************)
EXTENDS EntityReference

\* Members: a named one, one of another tag, and embedded structs.
Named1(n, t)     == [names |-> <<n>>, exported |-> TRUE, embeds |-> NoStruct,
                     local |-> FALSE, type |-> t, tag |-> <<>>]
Tagged(n, t, tg) == [Named1(n, t) EXCEPT !.tag = tg]
Private(n, t)    == [Named1(n, t) EXCEPT !.exported = FALSE]
Embedded(s)      == [names |-> <<>>, exported |-> TRUE, embeds |-> s,
                     local |-> TRUE, type |-> "struct", tag |-> <<>>]
Elsewhere(s)     == [Embedded(s) EXCEPT !.local = FALSE]

Is(key)     == [key |-> key, value |-> ""]
Key(key, v) == [key |-> key, value |-> v]

MemberTable == [
  base   |-> << Tagged("ID", "int64", <<Is("pk")>>), Named1("CreatedAt", "time.Time") >>,
  user   |-> << Tagged("Email", "string", <<Key("type", "varchar"), Is("unique")>>),
                Embedded("base"), Named1("Note", "string") >>,
  user2  |-> << Tagged("Email", "string", <<Key("name", "mail"), Key("name", "e_mail")>>),
                Embedded("base"), Tagged("Note", "int8", <<Is("not null"), Key("default", "0")>>) >>,
  order  |-> << [Named1("Note", "Status") EXCEPT !.names = <<"Note", "Memo">>], Private("secret", "[]string"),
                Tagged("UserID", "int64", <<Is("index"), Key("fk", <<"user", "id">>)>>),
                Named1("Extra", "Details"), Tagged("Email", "string", Ignored),
                Tagged("ID", "int64", <<Is("pk"), Key("fk", <<"user">>)>>) >>,
  deep   |-> << Embedded("user"), Named1("UserID", "bool"), Embedded("order") >>,
  hidden |-> << Named1("UserID", "int64"), Embedded("secrets") >>,
  secrets |-> << Tagged("Note", "[]string", Ignored) >>,
  empty  |-> << Private("secret", "int64") >>,
  apart  |-> << [Named1("Note", "Status") EXCEPT !.names = <<"Note", "Memo">>],
                Tagged("UserID", "int64", <<Key("fk", <<"user", "">>)>>), Elsewhere("base") >> ]

MCStructs == DOMAIN MemberTable

KindTable == [
  int64 |-> "basic", int8 |-> "basic", string |-> "basic", bool |-> "basic", Status |-> "basic",
  Details |-> "struct", struct |-> "struct" ]
  @@ ("time.Time" :> "time") @@ ("[]string" :> "other")

MCGoTypes == DOMAIN KindTable

SnakeTable == [
  ID |-> "id", CreatedAt |-> "created_at", Email |-> "email", Note |-> "note",
  UserID |-> "user_id", Extra |-> "extra", User |-> "user", USER |-> "user", Order |-> "order" ]

LowerTable == [User |-> "user", USER |-> "user", Order |-> "order"]

\* return "users"; return prefix + ("s"); if ... { return ... }; return f(); return `raw`
ExprTable == [
  users  |-> [kind |-> "string", text |-> "users"],
  prefix |-> [kind |-> "ident", constant |-> TRUE, text |-> "user"],
  s      |-> [kind |-> "string", text |-> "s"],
  parens |-> [kind |-> "paren", left |-> "s"],
  joined |-> [kind |-> "sum", left |-> "prefix", right |-> "parens"],
  call   |-> [kind |-> "call"],
  half   |-> [kind |-> "sum", left |-> "s", right |-> "call"],
  var    |-> [kind |-> "selector", constant |-> FALSE, text |-> "orders"],
  quoted |-> [kind |-> "raw", text |-> "users"] ]

Decl(s, body) == [struct |-> s, table |-> TRUE, body |-> body]

DeclTable == [
  u |-> {Decl("user", <<"users">>), Decl("user2", <<NoExpr, "joined", "users">>)},
  v |-> {Decl("apart", <<"half">>)},
  o |-> {Decl("order", <<"var">>), Decl("deep", <<"quoted">>),
         Decl("hidden", <<NoExpr>>), Decl("empty", <<>>),
         [Decl("order", <<>>) EXCEPT !.table = FALSE]} ]

\* Every shape of o on its own, and the two entities whose names fall together.
FirstTable ==
  {[u |-> Decl("user", <<"users">>), v |-> Gone, o |-> o] : o \in DeclTable.o}
  \cup {[u |-> Decl("user", <<"users">>), v |-> v, o |-> Gone] : v \in DeclTable.v}

\* Only v, which declares two names at once and embeds a struct of another file.
ApartTable == {[u |-> Gone, v |-> v, o |-> Gone] : v \in DeclTable.v}

EditTable == [u |-> DeclTable.u, v |-> {}, o |-> {Gone}]

MCOrder == <<"o", "u", "v">>

NameTable == [u |-> "User", v |-> "USER", o |-> "Order"]

SqlTable == [
  sqlite   |-> [int64 |-> "INTEGER", int8 |-> "INTEGER", bool |-> "INTEGER", string |-> "TEXT"]
               @@ ("time.Time" :> "TEXT"),
  postgres |-> [int64 |-> "BIGINT", int8 |-> "SMALLINT", bool |-> "BOOLEAN", string |-> "TEXT"]
               @@ ("time.Time" :> "TIMESTAMP WITH TIME ZONE") ]

DriverTable == [sqlite |-> {"modernc", "mattn"}, postgres |-> {"pq"}]

Own == [module |-> "xql", requires |-> {"modernc", "pq"}, replaced |-> {},
        packages |-> {"xql/entity"}]

ProjectTable == {
  Own,
  [Own EXCEPT !.requires = {"cobra"}, !.replaced = {"fork", "mattn"}],
  [Own EXCEPT !.requires = {"cobra"}],
  [Own EXCEPT !.module = "shop"],
  [Own EXCEPT !.module = "shop", !.requires = @ \cup {"xql"}, !.packages = {"shop/order"}] }

(* What replaces a constant. TLC evaluates such a definition at every use,  *)
(* and the ones above once.                                                *)
MCMembers == MemberTable
MCKindOf == KindTable
MCSnakeCase == SnakeTable
MCToLower == LowerTable
MCExpr == ExprTable
MCDecls == DeclTable
MCFirstSources == FirstTable
MCApart == ApartTable
MCEdited == EditTable
MCTypeMapping == SqlTable
MCDriversOf == DriverTable
MCProjects == ProjectTable
MCNameOf == NameTable

ASSUME EmbeddedOnceHere == EmbeddedOnce(Structs)

=============================================================================
