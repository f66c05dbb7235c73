-------------------------------- MODULE MCBind --------------------------------
(***************************************************************************)
(* The middleware with one or two requests and two callers of              *)
(* SetGlobalEnricher.  The schema requires "id"; "note" is optional.       *)
(***************************************************************************)
EXTENDS Bind, TLC

CONSTANTS r1, r2, s1, s2, tracer, clasher, dotter

OneRequest  == {r1}
TwoRequests == {r1, r2}
TwoSetters  == {s1, s2}

MCKeys     == {"id", "note", "trace", "a.b"}
MCDotted   == {"a.b"}
MCFields   == {"id", "note"}
MCRequired == {"id"}

\* One enricher that fits, one that may clash, one whose name Add refuses.
MCEnrichers == {tracer, clasher, dotter}
MCAdds == (tracer :> {"trace"}) @@ (clasher :> {"trace", "note"}) @@ (dotter :> {"trace", "a.b"})

Input(body, path, query) ==
  [read |-> "ok", body |-> body, path |-> path, query |-> query, twice |-> {}, bad |-> {}]

\* Valid requests with the values in either place, without and with "note".
GoodInputs == {
  Input({"id"}, {}, {}),
  Input({"note"}, {"id"}, {}),
  Input({}, {"id"}, {"note"}) }

\* Missing, rejected, unknown and conflicting values; bodies that cannot be used;
\* and parameters with two values.
BadInputs == {
  Input({"note"}, {}, {}),
  Input({"id", "trace"}, {}, {"a.b"}),
  [Input({"id"}, {}, {}) EXCEPT !.bad = {"id"}],
  Input({"id"}, {"id"}, {}),
  [Input({"id"}, {}, {}) EXCEPT !.read = "fails"],
  [Input({}, {}, {}) EXCEPT !.read = "malformed"],
  Input({}, {"id"}, {"id"}),
  [Input({"id"}, {}, {"note"}) EXCEPT !.twice = {"note"}] }

\* A lenient schema keeps parameters it does not know, even one named "trace".
LenientInputs == {
  Input({"id"}, {}, {"trace"}),
  Input({"id"}, {}, {"a.b"}) }

\* Requests and setters are interchangeable.
Symmetry == Permutations(R) \cup Permutations(S)

\* What clients of a strict schema send.
StrictInputs == GoodInputs \cup BadInputs

AllInputs == StrictInputs \cup LenientInputs

-----------------------------------------------------------------------------
(* The calls of Validate that these requests make.  A request is a         *)
(* document, and what it has under a name fits the field or is refused.    *)
Fits == {"fits", "refused"}

ValueOf(q, k) == IF k \in q.bad THEN "refused" ELSE "fits"

Document(q) == <<"document", q>>

MCNodes == {Document(q) : q \in AllInputs} \cup {<<"leaf", x>> : x \in Fits}

MCField(name) ==
  [name |-> name, kind |-> "scalar", required |-> name \in Required, type |-> "any",
   accepts |-> {"fits"}, embedded |-> "nil"]

Flat == INSTANCE ValidationReference WITH
  Schemas <- {"flat"},
  FieldsOf <- [s \in {"flat"} |-> <<MCField("id"), MCField("note")>>],
  Lenient <- {s \in {"flat"} : Lenient},
  Keys <- Keys \cup {""}, NullKey <- "",
  Nodes <- MCNodes,
  Shape <- [n \in MCNodes |-> IF n[1] = "leaf" THEN "scalar"
                              ELSE IF n[2].read = "malformed" THEN "invalid" ELSE "object"],
  Member <- [n \in MCNodes |-> IF n[1] = "leaf" THEN <<>>
                               ELSE [k \in n[2].body |-> <<"leaf", ValueOf(n[2], k)>>]],
  Elements <- [n \in MCNodes |-> <<>>],
  Types <- {"any"}, Values <- Fits, TypeOf <- [v \in Fits |-> "any"],
  Texts <- Fits, Bad <- "none",
  JsonValue <- [t \in {"any"} |-> [n \in MCNodes |-> IF n[1] = "leaf" THEN n[2] ELSE "none"]],
  TextValue <- [t \in {"any"} |-> [x \in Fits |-> x]],
  NoSchema <- "nil", Calls <- {},
  call <- <<>>, stack <- <<>>, heap <- <<>>, result <- <<>>

\* What Bind takes for the verdict, and for the names at fault, is what the
\* reference says of these calls.
ASSUME VerdictOfValidate ==
  \A q \in {p \in AllInputs : p.read # "fails"} :
    LET maps == <<[k \in Params(q) |-> ValueOf(q, k)]>>
    IN  /\ Flat!Conforms("flat", Document(q), maps) <=> Valid(q)
        /\ Flat!Blames("flat", Document(q), maps) =
             IF q.read = "malformed" THEN {}
             ELSE {<<k>> : k \in IF Conflicts(q) # {} THEN Conflicts(q) ELSE Failed(q)}

=============================================================================
