--------------------------------- MODULE Bind ---------------------------------
(***************************************************************************)
(* view/{gin,echo,fiber}/vom: the Bind middleware.  Each request runs in a *)
(* goroutine of its own: it reads the body, collects the URL parameters,   *)
(* validates both, lets the global enricher add to the object and runs the *)
(* handler.  Meanwhile other goroutines call SetGlobalEnricher; requests   *)
(* read `_enrich' without synchronisation, twice.                          *)
(*                                                                         *)
(* A schema is the names of its fields: Validation has the rest of it.     *)
(* The server catches a panic of a request, as net/http does.              *)
(***************************************************************************)
CONSTANTS
  R,          \* requests, one at a time per connection
  S,          \* goroutines that call SetGlobalEnricher
  Keys,       \* names of fields, parameters and entries
  Dotted,     \* the names with a '.' in them
  Fields,     \* the schema's fields
  Required,   \* those that are not optional
  Lenient,    \* AllowUnknownFields was called
  Enrichers,  \* functions given to SetGlobalEnricher
  NoEnricher, \* nil, which may be given as well
  Adds,       \* enricher -> the names of the entries it returns
  Inputs      \* the requests that clients send

ASSUME BindAssumption ==
  /\ Dotted \subseteq Keys
  /\ Fields \subseteq Keys \ Dotted
  /\ Required \subseteq Fields
  /\ NoEnricher \notin Enrichers
  /\ Adds \in [Enrichers -> SUBSET Keys]
  /\ Inputs \subseteq
       [read : {"ok", "malformed", "fails"},  \* reading the body: JSON or not
        body : SUBSET Keys,                   \* the keys of the JSON object
        path : SUBSET Keys, query : SUBSET Keys,
        twice : SUBSET Keys,                  \* query parameters given twice
        bad : SUBSET Keys]                    \* names with a value no field takes

VARIABLES
  once,    \* the sync.Once: "idle", "running" or "done"
  enrich,  \* _enrich
  set,     \* setter -> where it is in SetGlobalEnricher
  arg,     \* setter -> its argument
  pc,      \* request -> what it does next, or how it ended
  req,     \* request -> what the client sent
  data,    \* request -> the validated object: name -> where its value is from
  todo,    \* request -> entries of the enricher not yet added
  context, \* request -> the object the handler finds, or {}: none
  since    \* request -> `once' when it arrived; read by no action

vars == <<once, enrich, set, arg, pc, req, data, todo, context, since>>

setterVars  == <<once, enrich, set, arg>>
requestVars == <<pc, req, data, todo, context, since>>

Ended == {"idle", "rejected", "panicked", "served"}

Init ==
  /\ once = "idle" /\ enrich = NoEnricher
  /\ set = [s \in S |-> "idle"]
  /\ arg = [s \in S |-> NoEnricher]
  /\ pc = [r \in R |-> "idle"]
  /\ req \in [R -> Inputs]
  /\ data = [r \in R |-> [n \in {} |-> "body"]]
  /\ todo = [r \in R |-> {}]
  /\ context = data
  /\ since = [r \in R |-> "idle"]

-----------------------------------------------------------------------------
(* SetGlobalEnricher.  once.Do runs the function of the first caller; the  *)
(* others wait until it is over.                                           *)
CallSet(s, e) ==
  /\ set[s] = "idle"
  /\ set' = [set EXCEPT ![s] = "do"]
  /\ arg' = [arg EXCEPT ![s] = e]
  /\ UNCHANGED <<once, enrich, requestVars>>

\* Mutant: no sync.Once, every caller assigns.
EnterAlways(s) ==
  /\ set[s] = "do"
  /\ once' = "running"
  /\ set' = [set EXCEPT ![s] = "assign"]
  /\ UNCHANGED <<enrich, arg, requestVars>>

\* Mutant: once is over before the assignment.
EnterDone(s) ==
  /\ set[s] = "do" /\ once = "idle"
  /\ once' = "done"
  /\ set' = [set EXCEPT ![s] = "assign"]
  /\ UNCHANGED <<enrich, arg, requestVars>>

Enter(s) ==
  /\ set[s] = "do" /\ once = "idle"
  /\ once' = "running"
  /\ set' = [set EXCEPT ![s] = "assign"]
  /\ UNCHANGED <<enrich, arg, requestVars>>

Assign(s) ==
  /\ set[s] = "assign"
  /\ enrich' = arg[s]
  /\ set' = [set EXCEPT ![s] = "leave"]
  /\ UNCHANGED <<once, arg, requestVars>>

Leave(s) ==
  /\ set[s] = "leave"
  /\ once' = "done"
  /\ set' = [set EXCEPT ![s] = "idle"]
  /\ UNCHANGED <<enrich, arg, requestVars>>

Pass(s) ==
  /\ set[s] = "do" /\ once = "done"
  /\ set' = [set EXCEPT ![s] = "idle"]
  /\ UNCHANGED <<once, enrich, arg, requestVars>>

-----------------------------------------------------------------------------
(* What the middleware computes from the request alone.                    *)
Params(q) == q.path \cup q.query

\* Mutant: the query parameter replaces the path parameter.
AmbiguousQuery(q) == q.twice \cap q.query # {}

\* urlParams asserts that each name has one value.
Ambiguous(q) == q.twice \cap q.query # {} \/ q.path \cap q.query # {}

Conflicts(q) ==
  (Params(q) \cap q.body)
    \cup IF Lenient THEN {} ELSE (Params(q) \cup q.body) \ Fields

Failed(q) ==
  {f \in Fields : IF f \in q.body \cup Params(q) THEN f \in q.bad ELSE f \in Required}

Valid(q) == q.read = "ok" /\ Conflicts(q) = {} /\ Failed(q) = {}

\* Mutant: a field that the request does not give gets a zero value.
ZeroValues(q) ==
  [n \in Fields \cup (IF Lenient THEN Params(q) ELSE {}) |->
     IF n \in q.body THEN "body" ELSE IF n \in Params(q) THEN "url" ELSE "zero"]

\* The object of a valid request: fields from the body, or else from the URL.
Validated(q) ==
  [n \in (Fields \cap (q.body \cup Params(q))) \cup (IF Lenient THEN Params(q) ELSE {}) |->
     IF n \in q.body THEN "body" ELSE "url"]

\* The map an enricher returns; no map is asked of nil.
Entries(e) == IF e = NoEnricher THEN {} ELSE Adds[e]

-----------------------------------------------------------------------------
(* One request.                                                            *)
At(r, label)   == pc[r] = label
Goto(r, label) == pc' = [pc EXCEPT ![r] = label]

Receive(r, q) ==
  /\ pc[r] \in Ended
  /\ Goto(r, "bind")
  /\ req' = [req EXCEPT ![r] = q]
  /\ data' = [data EXCEPT ![r] = [n \in {} |-> "body"]]
  /\ todo' = [todo EXCEPT ![r] = {}]
  /\ context' = [context EXCEPT ![r] = [n \in {} |-> "body"]]
  /\ since' = [since EXCEPT ![r] = once]
  /\ UNCHANGED setterVars

Local(r) == UNCHANGED <<setterVars, req, since>>

\* The body cannot be read, or Validate returns an error: 400 and no handler.
Reject(r) ==
  /\ At(r, "bind")
  /\ \/ req[r].read = "fails"
     \/ req[r].read # "fails" /\ ~Ambiguous(req[r]) /\ ~Valid(req[r])
  /\ Goto(r, "rejected")
  /\ Local(r) /\ UNCHANGED <<data, todo, context>>

UrlPanics(r) ==
  /\ At(r, "bind") /\ req[r].read # "fails" /\ Ambiguous(req[r])
  /\ Goto(r, "panicked")
  /\ Local(r) /\ UNCHANGED <<data, todo, context>>

Accept(r) ==
  /\ At(r, "bind") /\ ~Ambiguous(req[r]) /\ Valid(req[r])
  /\ data' = [data EXCEPT ![r] = Validated(req[r])]
  /\ Goto(r, "check")
  /\ Local(r) /\ UNCHANGED <<todo, context>>

\* if _enrich != nil
CheckEnricher(r) ==
  /\ At(r, "check")
  /\ Goto(r, IF enrich = NoEnricher THEN "add" ELSE "call")
  /\ Local(r) /\ UNCHANGED <<data, todo, context>>

\* range _enrich(ctx), a second read
CallEnricher(r) ==
  /\ At(r, "call")
  /\ Goto(r, IF enrich = NoEnricher THEN "panicked" ELSE "add")
  /\ todo' = [todo EXCEPT ![r] = Entries(enrich)]
  /\ Local(r) /\ UNCHANGED <<data, context>>

\* Entries come in any order: the code ranges over a map.
Add(r, n) ==
  /\ At(r, "add") /\ n \in todo[r] \ (DOMAIN data[r] \cup Dotted)
  /\ data' = [data EXCEPT ![r] =
       [m \in DOMAIN data[r] \cup {n} |-> IF m = n THEN "enricher" ELSE data[r][m]]]
  /\ todo' = [todo EXCEPT ![r] = @ \ {n}]
  /\ Local(r) /\ UNCHANGED <<pc, context>>

\* Mutant: a clash ends the loop instead of the request.
AddStops(r) ==
  /\ At(r, "add") /\ todo[r] \cap (DOMAIN data[r] \cup Dotted) # {}
  /\ todo' = [todo EXCEPT ![r] = {}]
  /\ Local(r) /\ UNCHANGED <<pc, data, context>>

AddPanics(r) ==
  /\ At(r, "add") /\ todo[r] \cap (DOMAIN data[r] \cup Dotted) # {}
  /\ Goto(r, "panicked")
  /\ Local(r) /\ UNCHANGED <<data, todo, context>>

Store(r) ==
  /\ At(r, "add") /\ todo[r] = {}
  /\ context' = [context EXCEPT ![r] = data[r]]
  /\ Goto(r, "handler")
  /\ Local(r) /\ UNCHANGED <<data, todo>>

HandlerReturns(r) ==
  /\ At(r, "handler")
  /\ Goto(r, "served")
  /\ Local(r) /\ UNCHANGED <<data, todo, context>>

-----------------------------------------------------------------------------
InDo(s) == Enter(s) \/ Assign(s) \/ Leave(s) \/ Pass(s)

Step(r) ==
  \/ Reject(r) \/ UrlPanics(r) \/ Accept(r)
  \/ CheckEnricher(r) \/ CallEnricher(r)
  \/ (\E n \in Keys : Add(r, n)) \/ AddPanics(r)
  \/ Store(r) \/ HandlerReturns(r)

Next ==
  \/ \E s \in S : InDo(s) \/ \E e \in Enrichers \cup {NoEnricher} : CallSet(s, e)
  \/ \E r \in R : Step(r) \/ \E q \in Inputs : Receive(r, q)

Spec == Init /\ [][Next]_vars

-----------------------------------------------------------------------------
Objects == UNION {[D -> {"body", "url", "enricher"}] : D \in SUBSET Keys}

(* The types: an object has values from these three places only.           *)
TypeOK ==
  /\ once \in {"idle", "running", "done"}
  /\ enrich \in Enrichers \cup {NoEnricher}
  /\ set \in [S -> {"idle", "do", "assign", "leave"}]
  /\ arg \in [S -> Enrichers \cup {NoEnricher}]
  /\ pc \in [R -> Ended \cup {"bind", "check", "call", "add", "handler"}]
  /\ req \in [R -> Inputs]
  /\ data \in [R -> Objects]
  /\ todo \in [R -> SUBSET Keys]
  /\ context \in [R -> Objects]
  /\ since \in [R -> {"idle", "running", "done"}]

Given(q) == q.body \cup q.path \cup q.query

(* Every required field is given, every field's value fits, and no name    *)
(* has two values, wherever they are.                                      *)
WellFormed(q) ==
  /\ q.read = "ok"
  /\ Required \subseteq Given(q) /\ Fields \cap Given(q) \cap q.bad = {}
  /\ q.twice \cap q.query = {}
  /\ q.body \cap q.path = {} /\ q.body \cap q.query = {} /\ q.path \cap q.query = {}

(* A handler runs for a well-formed request only, and every value of it    *)
(* reaches the handler: none is dropped, and no entry of an enricher took  *)
(* its place between validation (gin_middleware.go:56) and storing (69).   *)
HandlerSeesValidated ==
  \A r \in R : At(r, "handler") =>
    /\ WellFormed(req[r])
    /\ \A n \in Fields \cap Given(req[r]) :
         /\ n \in DOMAIN context[r]
         /\ context[r][n] = IF n \in req[r].body THEN "body" ELSE "url"

Enrichment(r) == DOMAIN context[r] \ DOMAIN Validated(req[r])

(* The handler finds all entries of the one enricher or none of them,      *)
(* however its two reads of _enrich fall among the calls of                *)
(* SetGlobalEnricher.                                                      *)
WholeEnrichment ==
  \A r \in R : At(r, "handler") => Enrichment(r) \in {{}, Entries(enrich)}

(* Once a call of SetGlobalEnricher has returned, every request that       *)
(* arrives is enriched: a late caller of once.Do cannot return before the  *)
(* first one has assigned.                                                 *)
EnrichedSince ==
  \A r \in R : At(r, "handler") /\ since[r] = "done" => Enrichment(r) = Entries(enrich)

(* A well-formed request never calls a nil enricher, though _enrich is     *)
(* tested and called in two reads while SetGlobalEnricher runs: a panic of *)
(* such a request has an enricher to blame.                                *)
NilNotCalled ==
  \A r \in R : At(r, "panicked") /\ WellFormed(req[r]) => enrich # NoEnricher

(* The enricher is applied "to add or overwrite data in the ValueObject"   *)
(* (echo_middleware.go:78-79): a well-formed request does not panic over   *)
(* an entry that is there already.  Only a name with a '.' is no name.     *)
Overwrites ==
  \A r \in R : WellFormed(req[r]) /\ Entries(enrich) \cap Dotted = {} => ~At(r, "panicked")

(* "Subsequent calls will be ignored" (echo_middleware.go:30): after the   *)
(* first call has returned the enricher stays, nil included.               *)
FirstWins == [][once = "done" => UNCHANGED enrich]_vars

=============================================================================
