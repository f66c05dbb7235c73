----------------------------- MODULE MCValidation -----------------------------
(***************************************************************************)
(* Schema.Validate on families of documents for a user with a name, an age, *)
(* tags, an address and two lists of addresses: one varies the plain fields, *)
(* another the nested ones; and every token and text for every Go type.  A  *)
(* strict and a lenient schema, with and without URL parameters.            *)
(***************************************************************************)
EXTENDS ValueObjects, TLC

(* Numbers.  An int has 6 bits, an int8 has 4, a float64 has a mantissa of  *)
(* 4 bits and a float32 of 3: each limit is met, exceeded by one and        *)
(* exceeded by far, and 17 is an int no float64 can hold.                   *)
Plain(i)    == Number("plain", i < 0, 2 * Size(i))
MinusZero   == Number("plain", TRUE, 0)
OneAndAHalf == Number("fraction", FALSE, 3)
TwoPointNil == Number("fraction", FALSE, 4)
TwoE1       == Number("exponent", FALSE, 40)
OneE999     == Number("exponent", FALSE, 2000)

Spells(what)  == Spelled(what, Zero, 3, {"lower"})
SpellsIt(n)   == Spelled("number", n, 1, {"digits"})
Word          == Spelled("words", Zero, 1, {"lower"})

\* The texts of URL parameters.
SpellingTable ==
  "1" :> SpellsIt(Plain(1)) @@ "x" :> Word @@ "" :> NoText
  @@ "007" :> Spelled("number", Number("padded", FALSE, 14), 3, {"digits"})
  @@ "+5" :> Spelled("number", Number("plus", FALSE, 10), 2, {"digits", "special"})
  @@ "-0" :> Spelled("number", MinusZero, 2, {"digits", "special"})
  @@ "40" :> SpellsIt(Plain(40)) @@ "8" :> SpellsIt(Plain(8)) @@ "1.5" :> SpellsIt(OneAndAHalf)
  @@ "1e999" :> SpellsIt(OneE999) @@ "NaN" :> Spells("nan") @@ "true" :> Spells("true")
  @@ "day" :> Spelled("time", Plain(3), 10, {"digits", "special"})
MCTexts == DOMAIN SpellingTable

(* Documents.  A node is a number: 1..19 the inner nodes, 20..42 more JSON  *)
(* tokens, then the families of whole documents.                            *)
MCInner ==
  << [shape |-> "none"], [shape |-> "invalid"],
     [shape |-> "scalar"], [shape |-> "scalar"], [shape |-> "scalar"], [shape |-> "scalar"],
     [shape |-> "array", elements |-> <<>>],
     [shape |-> "array", elements |-> <<3>>],
     [shape |-> "array", elements |-> <<3, 4, 5>>],
     [shape |-> "array", elements |-> <<6>>],
     [shape |-> "object", member |-> [street |-> 5, zip |-> 3]],
     [shape |-> "object", member |-> [street |-> 5]],
     [shape |-> "object", member |-> [street |-> 3, zip |-> 5]],
     [shape |-> "object", member |-> [zip |-> 3]],
     [shape |-> "object", member |-> [street |-> 5, huh |-> 3]],
     [shape |-> "array", elements |-> <<11, 12>>],
     [shape |-> "array", elements |-> <<3, 11, 14>>],
     [shape |-> "array", elements |-> <<11>>],
     [shape |-> "array", elements |-> <<14>>] >>

One  == 3
Nine == 4
Str  == 5
Null == 6

MCTokens == LET spelling == SpellingTable IN
  << JsonNumber(Plain(7)), JsonNumber(Plain(8)), JsonNumber(Plain(-8)), JsonNumber(Plain(-9)),
     JsonNumber(Plain(15)), JsonNumber(Plain(16)), JsonNumber(Plain(17)),
     JsonNumber(Plain(31)), JsonNumber(Plain(32)), JsonNumber(Plain(-32)), JsonNumber(Plain(-33)),
     JsonNumber(Plain(63)), JsonNumber(Plain(64)), JsonNumber(Plain(70)),
     JsonNumber(MinusZero), JsonNumber(OneAndAHalf), JsonNumber(TwoPointNil),
     JsonNumber(TwoE1), JsonNumber(OneE999),
     JsonString(spelling["NaN"]), JsonString(spelling["1"]), JsonString(spelling["day"]),
     JsonLiteral("true") >>

FirstToken == 20
MoreTokens == FirstToken..(FirstToken + Len(MCTokens) - 1)

\* The element of the sequence options that the digit of n at a weight picks.
Pick(options, n, weight) == options[((n \div weight) % Len(options)) + 1]

\* Node 0 stands for a key that is left out.
Given(m) == [k \in {x \in DOMAIN m : m[x] # 0} |-> m[k]]

PlainDoc(n) ==
  Given([name |-> Pick(<<0, Str, One, Null>>, n, 1), age |-> Pick(<<0, One, Nine>>, n, 4),
         tags |-> Pick(<<0, 7, 8, 9, 10, One>>, n, 12), huh |-> Pick(<<0, One>>, n, 72)])

NestedDoc(n) ==
  Given([name |-> Pick(<<Str, One>>, n, 1), address |-> Pick(<<0, One, Null, 11, 12, 13, 14, 15>>, n, 2),
         items |-> Pick(<<0, 7, 16, 17, 11>>, n, 16), more |-> Pick(<<0, 18, 19>>, n, 80)])

\* One field at a time, with one token.
TypedNames == <<"string", "bool", "int", "int8", "uint", "uint8", "float32", "float64", "time",
                "price", "code">>
Tokens     == <<One, Str, Null>> \o [i \in DOMAIN MCTokens |-> FirstToken + i - 1]
TypedDoc(n) == Pick(TypedNames, n, 1) :> Pick(Tokens, n, Len(TypedNames))

PlainDocs  == 43..186
NestedDocs == 187..426
TypedDocs  == 427..712
Odd        == {1, 2, 3, 7, 8}

AllNodes == 1..712

ShapeTable == [n \in AllNodes |-> IF n >= 43 THEN "object" ELSE IF n \in MoreTokens THEN "scalar"
                              ELSE MCInner[n].shape]

MemberTable == LET inner == MCInner IN [n \in AllNodes |->
  CASE n \in PlainDocs  -> PlainDoc(n - 43)
    [] n \in NestedDocs -> NestedDoc(n - 187)
    [] n \in TypedDocs  -> TypedDoc(n - 427)
    [] n \in MoreTokens -> <<>>
    [] OTHER -> IF "member" \in DOMAIN inner[n] THEN inner[n].member ELSE <<>>]

ElementTable == [n \in AllNodes |->
  IF n \in DOMAIN MCInner /\ ShapeTable[n] = "array" THEN MCInner[n].elements ELSE <<>>]

\* An array or an object is no token of any type.
TokenTable == LET tokens == MCTokens IN [n \in AllNodes |->
  CASE n = One  -> JsonNumber(Plain(1))
    [] n = Nine -> JsonNumber(Plain(9))
    [] n = Str  -> JsonString(Word)
    [] n \in FirstToken..(FirstToken + Len(tokens) - 1) -> tokens[n - FirstToken + 1]
    [] OTHER -> JsonLiteral("null")]

MCTypes == GoTypes

JsonTable == LET token == TokenTable
               IN  [t \in MCTypes |-> [n \in AllNodes |-> TypedJson(t, token[n])]]
TextTable == LET spelling == SpellingTable
               IN  [t \in MCTypes |-> [x \in DOMAIN spelling |-> ParseStringTo(t, spelling[x])]]

\* The values of a type; a conversion returns some of them.
NumbersOf(t, halves) == {Value(t, "number", h, NoText) : h \in halves}
OfType(t) ==
  CASE t = "string"  -> {Value(t, "other", 0, SpellingTable[x]) : x \in MCTexts}
    [] t = "bool"    -> {Value(t, "other", b, NoText) : b \in {0, 1}}
    [] t \in Floats -> NumbersOf(t, -80..150) \cup {Value(t, class, 0, NoText) :
                                             class \in {"nan", "infinity", "negative infinity"}}
    [] OTHER         -> NumbersOf(t, {2 * i : i \in -33..64})
AllValues == UNION {OfType(t) : t \in MCTypes}
TypeTable == [v \in AllValues |-> v.type]

(* Schemas. *)
IntOf(i)   == Value("int", "number", 2 * i, NoText)
Price(h)   == Value("float64", "number", h, NoText)
MCLimits   == [price |-> [least |-> 0, most |-> 40]]

Scalars(name, type, required, accepts) ==
  [name |-> name, kind |-> "scalar", required |-> required, type |-> type,
   accepts |-> accepts, embedded |-> "none"]

\* The schemas, where any[t] has the values of type t.
SchemasOf(any) ==
  LET AtMostFive == {v \in any["int"] : Lte(v, IntOf(5)) /\ Gt(v, IntOf(-20))}
      NotEmpty   == {v \in any["string"] : LengthBetween(v, 1, 64)}
      Unspecial  == {v \in any["string"] : CharSetNo(v, {"special"}) /\ MaxLength(v, 2)
                                              /\ (MinLength(v, 2) \/ ExactLength(v, 1))}
      Codes      == {v \in any["string"] : CharSetOnly(v, {"digits", "special"})
                                              /\ CharSetAny(v, {"digits", "lower"})
                                              /\ CharSetAll(v, {"digits"})}
      Booleans   == {v \in any["bool"] : BeTrue(v) \/ ~BeFalse(v)}
      SevenOrOne == {v \in any["int8"] : Gte(v, Value("int8", "number", 14, NoText))
                                           \/ OneOf(v, {Value("int8", "number", 2, NoText)})}
      Earlier    == {v \in any["time"] : Lt(v, Value("time", "number", 7, NoText))}
      Priced     == {v \in any["float64"] : Between(v, Price(MCLimits["price"].least),
                                                       Price(MCLimits["price"].most))}
      AnyOf(type)      == Scalars(type, type, FALSE, any[type])
      Named(n, needed) == Scalars(n, "string", needed, NotEmpty)
      Small(n)         == Scalars(n, "int", FALSE, AtMostFive)
      Tags             == [Small("tags") EXCEPT !.kind = "array"]
      Nested(name, kind, s) ==
        [Scalars(name, "string", FALSE, any["string"]) EXCEPT !.kind = kind, !.embedded = s]
  IN
  [addr   |-> <<Named("street", TRUE), Small("zip")>>,
   loose  |-> <<Named("street", FALSE), Small("zip")>>,
   user   |-> <<Named("name", TRUE), Small("age"), Tags, Nested("address", "object", "addr"),
                Nested("items", "objects", "addr"), Nested("more", "objects", "addr")>>,
   guest  |-> <<Nested("address", "object", "loose"), Named("name", TRUE), Tags>>,
   offer  |-> <<Nested("address", "object", "loose"), Scalars("price", "float64", FALSE, Priced)>>,
   parcel |-> <<Named("street", TRUE), Nested("address", "object", "addr")>>,
   typed  |-> <<Scalars("string", "string", FALSE, Unspecial),
                Scalars("bool", "bool", FALSE, Booleans), AnyOf("int"),
                Scalars("int8", "int8", FALSE, SevenOrOne), AnyOf("uint"), AnyOf("uint8"),
                AnyOf("float32"), AnyOf("float64"), Scalars("time", "time", FALSE, Earlier),
                Scalars("price", "float64", FALSE, Priced), Scalars("code", "string", FALSE, Codes)>>]

FieldTable == SchemasOf([t \in MCTypes |-> OfType(t)])

MCSchemas == {"addr", "loose", "user", "guest", "offer", "parcel", "typed"}
MCLenient == {"loose", "guest", "offer", "parcel"}
AllKeys    == {"", "name", "age", "tags", "address", "items", "more", "street", "zip", "huh"}
             \cup {TypedNames[i] : i \in DOMAIN TypedNames}

MCIndexOf == "0" :> 0 @@ "1" :> 1 @@ "7" :> 7
AllPaths ==
  { <<"name">>, <<"age">>, <<"huh">>, <<"price">>, <<"int">>, <<"name", "0">>,
    <<"tags">>, <<"tags", "0">>, <<"tags", "1">>, <<"tags", "7">>, <<"tags", "zip">>, <<"tags", "0", "0">>,
    <<"address">>, <<"address", "zip">>, <<"address", "street">>, <<"address", "street", "0">>,
    <<"items">>, <<"items", "0">>, <<"items", "name">>, <<"items", "1", "zip">>, <<"items", "0", "street">>,
    <<"more", "0", "zip">> }

(* Calls. *)
Params == {<<>>, <<"name" :> "x">>, <<"age" :> "x">>, <<"age" :> "1" @@ "name" :> "1">>}
OddParams == {<<"huh" :> "x">>, <<"address" :> "x">>, <<"tags" :> "1">>, <<"name" :> "x", "name" :> "1">>}

Call(s, n, m) == [schema |-> s, node |-> n, maps |-> m]

\* Each text for each type, in the URL with no body, and each token in the document.
TypedCalls ==
  {Call("typed", n, <<>>) : n \in TypedDocs}
  \cup {Call("typed", 1, <<TypedNames[i] :> x>>) : i \in DOMAIN TypedNames, x \in MCTexts}

AllCalls ==
  {Call("user", n, m) : n \in PlainDocs, m \in Params}
  \cup {Call("user", n, <<>>) : n \in NestedDocs}
  \cup {Call("guest", n, m) : n \in PlainDocs \cup Odd, m \in {<<>>} \cup OddParams}
  \cup {Call("guest", n, <<>>) : n \in NestedDocs}
  \cup {Call("user", n, m) : n \in Odd, m \in Params \cup OddParams}
  \cup TypedCalls

\* An offer whose two fields are both given in the URL, with no body.
OfferCalls == {Call("offer", 1, <<"address" :> "x" @@ "price" :> "NaN">>)}

\* A parcel and its address both have a street.
ParcelCalls == {Call("parcel", n, <<>>) : n \in NestedDocs}

(* What replaces a constant. TLC evaluates such a definition at every use,  *)
(* and the ones above once.                                                *)
MCSpelling == SpellingTable
MCNodes == AllNodes
MCShape == ShapeTable
MCMember == MemberTable
MCElements == ElementTable
MCToken == TokenTable
MCJsonValue == JsonTable
MCTextValue == TextTable
MCValues == AllValues
MCTypeOf == TypeTable
MCFieldsOf == FieldTable
MCKeys == AllKeys
MCPaths == AllPaths
MCCalls == AllCalls

=============================================================================
