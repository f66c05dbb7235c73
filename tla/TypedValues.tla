----------------------------- MODULE TypedValues -----------------------------
(***************************************************************************)
(* From the text of a request to Go values: typedJson (view/vo.go),        *)
(* ParseStringTo, and the validators (validator/validator.go).  The widths *)
(* of Go's types are parameters.  Numbers are counted in halves, so that   *)
(* there are fractions; a number keeps how it is written, since the code   *)
(* compares the text.                                                      *)
(***************************************************************************)
EXTENDS Integers

CONSTANTS
  WordBits,    \* bits of int, int64, uint and uint64: 64
  NarrowBits,  \* bits of int8 and uint8: 8
  DoubleBits,  \* bits of a float64's mantissa: 53
  SingleBits,  \* bits of a float32's mantissa: 24
  MaxDouble,   \* the largest float64, in halves
  MaxSingle,   \* the largest float32, in halves
  Refused      \* a failed conversion

GoTypes == {"string", "bool", "int", "int8", "uint", "uint8", "float32", "float64", "time"}

Signed   == {"int", "int8"}
Unsigned == {"uint", "uint8"}
Floats   == {"float32", "float64"}

(* written: "plain" as FormatInt writes it, or as "-0"; "padded" with       *)
(* leading zeros; with a "plus"; with a "fraction"; with an "exponent".     *)
Number(written, negative, half) == [written |-> written, negative |-> negative, half |-> half]
Zero == Number("plain", FALSE, 0)

(* What a text spells: a "number", "nan", "infinity", "true", "false", a    *)
(* "time", or none of these, "words".  number is the instant of a time.     *)
Spelled(spells, number, length, chars) ==
  [spells |-> spells, number |-> number, length |-> length, chars |-> chars]
NoText == Spelled("words", Zero, 0, {})

\* JSON nodes that are no arrays or objects.
JsonNumber(n)  == [json |-> "number", number |-> n, text |-> NoText]
JsonString(t)  == [json |-> "string", number |-> Zero, text |-> t]
JsonLiteral(l) == [json |-> l, number |-> Zero, text |-> NoText]

\* Go values; class is "number", "nan", "infinity", "negative infinity" or "other".
Value(type, class, half, text) == [type |-> type, class |-> class, half |-> half, text |-> text]

-----------------------------------------------------------------------------
(* Numbers. *)

Amount(n) == IF n.negative THEN 0 - n.half ELSE n.half
Size(i)   == IF i < 0 THEN 0 - i ELSE i

Bits(type) == IF type \in {"int8", "uint8"} THEN NarrowBits ELSE WordBits

InRange(type, i) ==
  IF type \in Signed THEN i \in (0 - 2^(Bits(type) - 1))..(2^(Bits(type) - 1) - 1)
                     ELSE i \in 0..(2^Bits(type) - 1)

\* h rounded to a float of that many bits, ties to even.
Nearest(h, bits) ==
  LET u == CHOOSE u \in {2^k : k \in 0..2 * WordBits} :
             h < u * 2^bits /\ (u = 1 \/ u * 2^bits <= 2 * h)
      q == h \div u
      r == h % u
  IN  IF 2 * r > u \/ (2 * r = u /\ q % 2 = 1) THEN (q + 1) * u ELSE q * u

Rounded(i, bits) == IF i < 0 THEN 0 - Nearest(0 - i, bits) ELSE Nearest(i, bits)

\* strconv.ParseFloat: beyond the largest float64 an infinity, and an error.
Beyond(n) == Nearest(n.half, DoubleBits) > MaxDouble
Infinite(type, negative) ==
  Value(type, IF negative THEN "negative infinity" ELSE "infinity", 0, NoText)

\* Towards zero, as Go converts a float64 to an int64.
Whole(i) == IF i < 0 THEN 0 - ((0 - i) \div 2) ELSE i \div 2

\* gjson's Int and Uint: by way of the float64 where that is exact, else digit
\* by digit, which wraps around, else by the conversion of Go.
Wrapped(type, i) ==
  IF type \in Signed THEN ((i + 2^(WordBits - 1)) % 2^WordBits) - 2^(WordBits - 1)
                     ELSE i % 2^WordBits

GjsonInt(type, n) ==
  LET f == Rounded(Amount(n), DoubleBits)
  IN  IF ~Beyond(n) /\ Size(f) <= 2 * (2^DoubleBits - 1) THEN Whole(f)
      ELSE IF n.written = "plain" THEN Wrapped(type, Whole(Amount(n)))
      ELSE Wrapped(type, Whole(f))

\* strconv.FormatInt writes this very text.
Formats(i, n) == n.written = "plain" /\ 2 * i = Amount(n) /\ ~(n.negative /\ i = 0)

IntOrRefused(type, i) ==
  IF InRange(type, i) THEN Value(type, "number", 2 * i, NoText) ELSE Refused

\* Mutant: the text is not compared with what was read from it.
JsonIntUnchecked(type, n) ==
  IF type \in Unsigned /\ n.negative THEN Refused ELSE IntOrRefused(type, GjsonInt(type, n))

JsonInt(type, n) ==
  IF (type \in Unsigned /\ n.negative) \/ ~Formats(GjsonInt(type, n), n)
  THEN Refused
  ELSE IntOrRefused(type, GjsonInt(type, n))

\* OverflowFloat lets the infinities through.
FloatOrRefused(type, i) ==
  IF type = "float64" THEN Value(type, "number", i, NoText)
  ELSE IF Size(i) > MaxSingle THEN Refused
  ELSE Value(type, "number", Rounded(i, SingleBits), NoText)

ParseFloat(type, t) ==
  CASE t.spells = "nan"      -> Value(type, "nan", 0, NoText)
    [] t.spells = "infinity" -> Infinite(type, t.number.negative)
    [] t.spells = "number"   -> IF Beyond(t.number) THEN Refused
                                ELSE FloatOrRefused(type, Rounded(Amount(t.number), DoubleBits))
    [] OTHER -> Refused

\* strconv.ParseInt and ParseUint of the whole word, then the range of the type.
ParseInt(type, t) ==
  IF /\ t.spells = "number" /\ t.number.written \in {"plain", "padded", "plus"}
     /\ type \in Unsigned => t.number.written # "plus" /\ ~t.number.negative
  THEN IntOrRefused(type, Whole(Amount(t.number)))
  ELSE Refused

ParseTime(t) ==
  IF t.spells = "time" THEN Value("time", "number", t.number.half, NoText) ELSE Refused

Boolean(spelled) == Value("bool", "other", IF spelled = "true" THEN 1 ELSE 0, NoText)

-----------------------------------------------------------------------------
(* The conversions. *)

\* strconv.ParseBool takes 1 and 0 too.
ParseStringTo(type, t) ==
  CASE type = "string" -> Value("string", "other", 0, t)
    [] type = "bool"   -> IF t.spells \in {"true", "false"} THEN Boolean(t.spells)
                          ELSE IF t.spells = "number" /\ t.number = Number("plain", FALSE, 2)
                          THEN Boolean("true")
                          ELSE IF t.spells = "number" /\ t.number = Zero
                          THEN Boolean("false") ELSE Refused
    [] type \in Signed \cup Unsigned -> ParseInt(type, t)
    [] type \in Floats -> ParseFloat(type, t)
    [] type = "time"   -> ParseTime(t)

\* Unlike a text, a JSON number beyond every float64 becomes an infinity.
TypedJson(type, node) ==
  CASE type = "string" /\ node.json = "string" -> Value("string", "other", 0, node.text)
    [] type = "bool" /\ node.json \in {"true", "false"} -> Boolean(node.json)
    [] type \in Signed \cup Unsigned /\ node.json = "number" -> JsonInt(type, node.number)
    [] type \in Floats /\ node.json = "number" ->
         IF Beyond(node.number) THEN Infinite(type, node.number.negative)
         ELSE FloatOrRefused(type, Rounded(Amount(node.number), DoubleBits))
    [] type \in Floats /\ node.json = "string" -> ParseFloat(type, node.text)
    [] type = "time" /\ node.json = "string" -> ParseTime(node.text)
    [] OTHER -> Refused

-----------------------------------------------------------------------------
(* The validators: does the value pass? *)

IsLessThan(a, b) ==
  /\ "nan" \notin {a.class, b.class} /\ a # b
  /\ \/ a.class = "negative infinity" \/ b.class = "infinity"
     \/ a.class = "number" /\ b.class = "number" /\ a.half < b.half
IsGreaterThan(a, b) == IsLessThan(b, a)

Gt(v, min)  == IsGreaterThan(v, min)
Gte(v, min) == ~IsLessThan(v, min)
Lt(v, max)  == IsLessThan(v, max)
Lte(v, max) == ~IsGreaterThan(v, max)
Between(v, min, max) == ~(IsLessThan(v, min) \/ IsGreaterThan(v, max))

\* A NaN equals nothing, not even itself.
OneOf(v, allowed) == v.class # "nan" /\ v \in allowed

MinLength(v, min)      == ~(v.text.length < min)
MaxLength(v, max)      == ~(v.text.length > max)
ExactLength(v, length) == v.text.length = length
LengthBetween(v, min, max) == ~(v.text.length < min \/ v.text.length > max)
CharSetOnly(v, sets) == v.text.chars \subseteq sets
CharSetAny(v, sets)  == v.text.chars \cap sets # {}
CharSetAll(v, sets)  == \A s \in sets : s \in v.text.chars
CharSetNo(v, sets)   == v.text.chars \cap sets = {}
BeTrue(v)  == v.half = 1
BeFalse(v) == v.half = 0

=============================================================================
