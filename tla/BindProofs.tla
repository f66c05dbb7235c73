----------------------------- MODULE BindProofs -----------------------------
(***************************************************************************)
(* Proofs about the Bind middleware for any schema, requests and enrichers *)
(* and any number of goroutines.                                           *)
(***************************************************************************)
EXTENDS Bind, TLAPS

(* Whoever is inside once.Do's function is alone there, and until it has   *)
(* assigned there is no enricher.                                          *)
Inside == {"assign", "leave"}

SetOnce ==
  /\ once = "idle" => enrich = NoEnricher
  /\ \A s \in S : set[s] \in Inside => once = "running"
  /\ \A s \in S : set[s] = "assign" => enrich = NoEnricher
  /\ \A s, t \in S : set[s] \in Inside /\ set[t] \in Inside => s = t

(* What the enricher has added to an object d, and what it still has to    *)
(* add: all of its entries, or none where the request has seen no enricher.*)
Extra(q, d) == DOMAIN d \ DOMAIN Validated(q)

Enriching(r) ==
  /\ \A n \in DOMAIN Validated(req[r]) :
       n \in DOMAIN data[r] /\ data[r][n] = Validated(req[r])[n]
  /\ Extra(req[r], data[r]) \cap todo[r] = {}
  /\ Extra(req[r], data[r]) \cup todo[r] \in {{}, Entries(enrich)}
  /\ since[r] = "done" => Extra(req[r], data[r]) \cup todo[r] = Entries(enrich)

Accepted(r) == Valid(req[r]) /\ ~Ambiguous(req[r])

Clash(r) ==
  \/ Ambiguous(req[r])
  \/ Entries(enrich) \cap (DOMAIN Validated(req[r]) \cup Dotted) # {}

(* Where a request has got to, and what it has done so far. *)
Stage(r) ==
  /\ since[r] = "done" => once = "done"
  /\ pc[r] \in {"bind", "check", "call"} => todo[r] = {}
  /\ pc[r] \in {"check", "call", "add", "handler"} => Accepted(r)
  /\ pc[r] \in {"check", "call"} => data[r] = Validated(req[r])
  /\ pc[r] = "call" => enrich # NoEnricher
  /\ pc[r] \in {"add", "handler"} => Enriching(r)
  /\ pc[r] = "handler" => todo[r] = {} /\ context[r] = data[r]
  /\ pc[r] = "panicked" => Clash(r)

Inv == TypeOK /\ SetOnce /\ \A r \in R : Stage(r)

-----------------------------------------------------------------------------
(* The request's part of the types is all that request steps touch. *)
RequestTypes ==
  /\ pc \in [R -> Ended \cup {"bind", "check", "call", "add", "handler"}]
  /\ req \in [R -> Inputs]
  /\ data \in [R -> Objects]
  /\ todo \in [R -> SUBSET Keys]
  /\ context \in [R -> Objects]
  /\ since \in [R -> {"idle", "running", "done"}]

LEMMA ObjectForm ==
  ASSUME NEW D \in SUBSET Keys, NEW f \in [D -> {"body", "url", "enricher"}]
  PROVE  f \in Objects
BY DEF Objects

LEMMA EmptyObject == [n \in {} |-> "body"] \in Objects
<1>1. [n \in {} |-> "body"] \in [{} -> {"body", "url", "enricher"}]
  OBVIOUS
<1>2. {} \in SUBSET Keys
  OBVIOUS
<1>3. QED
  BY <1>1, <1>2 DEF Objects

LEMMA ValidatedObject ==
  ASSUME NEW q \in Inputs
  PROVE  Validated(q) \in Objects
<1> DEFINE D == (Fields \cap (q.body \cup Params(q))) \cup (IF Lenient THEN Params(q) ELSE {})
<1>1. D \in SUBSET Keys
  BY BindAssumption DEF Params
<1>2. Validated(q) \in [D -> {"body", "url", "enricher"}]
  BY DEF Validated
<1>3. QED
  BY <1>1, <1>2, ObjectForm

LEMMA ExtendedObject ==
  ASSUME NEW d \in Objects, NEW n \in Keys
  PROVE  [m \in DOMAIN d \cup {n} |-> IF m = n THEN "enricher" ELSE d[m]] \in Objects
<1>1. PICK D \in SUBSET Keys : d \in [D -> {"body", "url", "enricher"}]
  BY DEF Objects
<1>2. DOMAIN d \cup {n} \in SUBSET Keys
  BY <1>1
<1>3. [m \in DOMAIN d \cup {n} |-> IF m = n THEN "enricher" ELSE d[m]]
        \in [DOMAIN d \cup {n} -> {"body", "url", "enricher"}]
  BY <1>1
<1>4. QED
  BY <1>2, <1>3, ObjectForm

LEMMA EntriesAreKeys == \A e \in Enrichers \cup {NoEnricher} : Entries(e) \in SUBSET Keys
BY BindAssumption DEF Entries

(* A valid and unambiguous request is well formed: the conflict and field  *)
(* checks leave nothing out.                                               *)
LEMMA ValidWellFormed ==
  ASSUME NEW q \in Inputs, Valid(q), ~Ambiguous(q)
  PROVE  /\ WellFormed(q)
         /\ \A n \in Fields \cap Given(q) :
              /\ n \in DOMAIN Validated(q)
              /\ Validated(q)[n] = IF n \in q.body THEN "body" ELSE "url"
<1>1. q.read = "ok" /\ Params(q) \cap q.body = {} /\ Failed(q) = {}
  BY DEF Valid, Conflicts
<1>2. Required \subseteq Given(q) /\ Fields \cap Given(q) \cap q.bad = {}
  BY <1>1, BindAssumption DEF Failed, Given, Params
<1>3. WellFormed(q)
  BY <1>1, <1>2 DEF WellFormed, Ambiguous, Params
<1>4. \A n \in Fields \cap Given(q) :
        /\ n \in DOMAIN Validated(q)
        /\ Validated(q)[n] = IF n \in q.body THEN "body" ELSE "url"
  BY DEF Validated, Given, Params
<1>5. QED
  BY <1>3, <1>4

-----------------------------------------------------------------------------
LEMMA InitInv == Init => Inv
<1> SUFFICES ASSUME Init PROVE Inv
  OBVIOUS
<1>1. TypeOK
  BY EmptyObject DEF Init, TypeOK, Ended
<1>2. SetOnce
  BY DEF Init, SetOnce, Inside
<1>3. \A r \in R : Stage(r)
  BY DEF Init, Stage
<1>4. QED
  BY <1>1, <1>2, <1>3 DEF Inv

-----------------------------------------------------------------------------
(* Steps of SetGlobalEnricher. *)
SetterStep(s) == InDo(s) \/ \E e \in Enrichers \cup {NoEnricher} : CallSet(s, e)

(* Only the first assignment changes the enricher, and once never ends     *)
(* twice.                                                                  *)
LEMMA SetterKeeps ==
  ASSUME Inv, NEW s \in S, SetterStep(s)
  PROVE  /\ TypeOK' /\ SetOnce' /\ UNCHANGED requestVars
         /\ enrich' = enrich \/ (enrich = NoEnricher /\ once # "done")
         /\ once = "done" => once' = "done"
<1> USE DEF Inv, TypeOK, SetOnce, Inside, requestVars
<1>1. CASE \E e \in Enrichers \cup {NoEnricher} : CallSet(s, e)
  BY <1>1 DEF CallSet
<1>2. CASE Enter(s)
  BY <1>2 DEF Enter
<1>3. CASE Assign(s)
  BY <1>3 DEF Assign
<1>4. CASE Leave(s)
  BY <1>4 DEF Leave
<1>5. CASE Pass(s)
  BY <1>5 DEF Pass
<1>6. QED
  BY <1>1, <1>2, <1>3, <1>4, <1>5 DEF SetterStep, InDo

(* A request's stage survives an assignment by SetGlobalEnricher: a        *)
(* request that has added entries has seen an enricher, which stays.       *)
LEMMA StageStays ==
  ASSUME NEW r \in R, Stage(r), UNCHANGED <<pc[r], req[r], data[r], todo[r], context[r], since[r]>>,
         enrich' = enrich \/ (enrich = NoEnricher /\ once # "done"),
         once = "done" => once' = "done"
  PROVE  Stage(r)'
<1>1. CASE enrich' = enrich
  BY <1>1 DEF Stage, Accepted, Clash, Enriching, Extra
<1>2. CASE enrich = NoEnricher /\ once # "done"
  <2>1. Entries(enrich) = {}
    BY <1>2 DEF Entries
  <2>2. since[r] # "done" /\ pc[r] # "call"
    BY <1>2 DEF Stage
  <2>3. pc[r] \in {"add", "handler"} => Enriching(r)'
    BY <2>1, <2>2 DEF Stage, Enriching, Extra
  <2>4. pc[r] = "panicked" => Clash(r)'
    BY <2>1 DEF Stage, Clash
  <2>5. QED
    BY <2>2, <2>3, <2>4 DEF Stage, Accepted
<1>3. QED
  BY <1>1, <1>2

-----------------------------------------------------------------------------
(* Steps of a request. *)
RequestStep(r) == Step(r) \/ \E q \in Inputs : Receive(r, q)

LEMMA RequestTypesKept ==
  ASSUME Inv, NEW r \in R, RequestStep(r)
  PROVE  TypeOK'
<1>1. UNCHANGED setterVars
  BY DEF RequestStep, Step, Receive, Reject, UrlPanics, Accept, CheckEnricher, CallEnricher,
         Add, AddPanics, Store, HandlerReturns, Local
<1>2. SUFFICES RequestTypes'
  BY <1>1 DEF Inv, TypeOK, RequestTypes, setterVars
<1>3. RequestTypes /\ once \in {"idle", "running", "done"} /\ enrich \in Enrichers \cup {NoEnricher}
  BY DEF Inv, TypeOK, RequestTypes
<1> USE <1>3 DEF RequestTypes, Ended, Local, Goto, At
<1>4. ASSUME NEW q \in Inputs, Receive(r, q) PROVE RequestTypes'
  BY <1>4, EmptyObject DEF Receive
<1>5. CASE Reject(r) \/ UrlPanics(r) \/ CheckEnricher(r) \/ AddPanics(r) \/ HandlerReturns(r)
  BY <1>5 DEF Reject, UrlPanics, CheckEnricher, AddPanics, HandlerReturns
<1>6. CASE Accept(r)
  BY <1>6, ValidatedObject DEF Accept
<1>7. CASE CallEnricher(r)
  BY <1>7, EntriesAreKeys DEF CallEnricher
<1>8. ASSUME NEW n \in Keys, Add(r, n) PROVE RequestTypes'
  <2> DEFINE d == [m \in DOMAIN data[r] \cup {n} |-> IF m = n THEN "enricher" ELSE data[r][m]]
  <2>1. d \in Objects
    BY ExtendedObject
  <2>2. data' = [data EXCEPT ![r] = d] /\ todo' = [todo EXCEPT ![r] = @ \ {n}]
        /\ UNCHANGED <<pc, req, context, since>>
    BY <1>8 DEF Add
  <2> HIDE DEF d
  <2>3. QED
    BY <2>1, <2>2
<1>9. CASE Store(r)
  BY <1>9 DEF Store
<1>10. QED
  BY <1>4, <1>5, <1>6, <1>7, <1>8, <1>9 DEF RequestStep, Step

(* A step of r leaves the other requests and the setters alone. *)
LEMMA OthersKept ==
  ASSUME Inv, NEW r \in R, RequestStep(r), NEW x \in R, x # r
  PROVE  UNCHANGED <<once, enrich, set, arg, pc[x], req[x], data[x], todo[x], context[x], since[x]>>
<1> USE DEF Inv, TypeOK, Local, Goto, At, setterVars
<1>1. ASSUME NEW q \in Inputs, Receive(r, q)
      PROVE  UNCHANGED <<once, enrich, set, arg, pc[x], req[x], data[x], todo[x], context[x], since[x]>>
  BY <1>1 DEF Receive
<1>2. CASE Reject(r) \/ UrlPanics(r) \/ Accept(r) \/ CheckEnricher(r) \/ CallEnricher(r)
  BY <1>2 DEF Reject, UrlPanics, Accept, CheckEnricher, CallEnricher
<1>3. ASSUME NEW n \in Keys, Add(r, n)
      PROVE  UNCHANGED <<once, enrich, set, arg, pc[x], req[x], data[x], todo[x], context[x], since[x]>>
  BY <1>3 DEF Add
<1>4. CASE AddPanics(r) \/ Store(r) \/ HandlerReturns(r)
  BY <1>4 DEF AddPanics, Store, HandlerReturns
<1>5. QED
  BY <1>1, <1>2, <1>3, <1>4 DEF RequestStep, Step

-----------------------------------------------------------------------------
(* Each step of r leads to the stage it should. *)
LEMMA StageStep ==
  ASSUME Inv, NEW r \in R, RequestStep(r)
  PROVE  Stage(r)'
<1>1. Stage(r) /\ enrich \in Enrichers \cup {NoEnricher}
  BY DEF Inv, TypeOK
<1>2. RequestTypes
  BY DEF Inv, TypeOK, RequestTypes
<1> USE DEF RequestTypes, Local, Goto, At, setterVars, Ended
<1>3. ASSUME NEW q \in Inputs, Receive(r, q) PROVE Stage(r)'
  BY <1>2, <1>3 DEF Receive, Stage
<1>4. CASE Reject(r)
  BY <1>1, <1>2, <1>4 DEF Reject, Stage
<1>5. CASE UrlPanics(r)
  <2>1. Clash(r)'
    BY <1>2, <1>5 DEF UrlPanics, Clash
  <2>2. QED
    BY <2>1, <1>1, <1>2, <1>5 DEF UrlPanics, Stage
<1>6. CASE Accept(r)
  <2>1. Accepted(r)'
    BY <1>6 DEF Accept, Accepted
  <2>2. data'[r] = Validated(req'[r])
    BY <1>2, <1>6 DEF Accept
  <2>3. QED
    BY <2>1, <2>2, <1>1, <1>2, <1>6 DEF Accept, Stage
<1>7. CASE CheckEnricher(r)
  <2>1. Accepted(r) /\ data[r] = Validated(req[r]) /\ todo[r] = {}
    BY <1>1, <1>7 DEF CheckEnricher, Stage
  <2>2. Accepted(r)'
    BY <2>1, <1>7 DEF CheckEnricher, Accepted
  <2>3. CASE enrich = NoEnricher
    <3>1. Extra(req[r], data[r]) = {} /\ Entries(enrich) = {}
      BY <2>1, <2>3 DEF Extra, Entries
    <3>2. Enriching(r)
      BY <2>1, <3>1 DEF Enriching
    <3>3. Enriching(r)'
      BY <3>2, <1>7 DEF CheckEnricher, Enriching, Extra
    <3>4. QED
      BY <2>2, <2>3, <3>3, <1>1, <1>2, <1>7 DEF CheckEnricher, Stage
  <2>4. CASE enrich # NoEnricher
    BY <2>1, <2>2, <2>4, <1>1, <1>2, <1>7 DEF CheckEnricher, Stage
  <2>5. QED
    BY <2>3, <2>4
<1>8. CASE CallEnricher(r)
  <2>1. Accepted(r) /\ data[r] = Validated(req[r]) /\ enrich # NoEnricher
    BY <1>1, <1>8 DEF CallEnricher, Stage
  <2>2. Accepted(r)'
    BY <2>1, <1>8 DEF CallEnricher, Accepted
  <2>3. todo'[r] = Entries(enrich') /\ data'[r] = data[r] /\ req'[r] = req[r]
    BY <1>2, <1>8 DEF CallEnricher
  <2>4. Extra(req'[r], data'[r]) = {}
    BY <2>1, <2>3 DEF Extra
  <2>5. Enriching(r)'
    BY <2>1, <2>3, <2>4 DEF Enriching
  <2>6. QED
    BY <2>1, <2>2, <2>5, <1>1, <1>2, <1>8 DEF CallEnricher, Stage
<1>9. ASSUME NEW n \in Keys, Add(r, n) PROVE Stage(r)'
  <2>1. Accepted(r) /\ Enriching(r)
    BY <1>1, <1>9 DEF Add, Stage
  <2>2. Accepted(r)'
    BY <2>1, <1>9 DEF Add, Accepted
  <2>3. /\ n \in todo[r] /\ n \notin DOMAIN data[r]
        /\ todo'[r] = todo[r] \ {n}
        /\ data'[r] = [m \in DOMAIN data[r] \cup {n} |-> IF m = n THEN "enricher" ELSE data[r][m]]
        /\ UNCHANGED <<enrich, req, since>>
    BY <1>2, <1>9 DEF Add
  <2>4. \A m \in DOMAIN Validated(req[r]) : m # n /\ m \in DOMAIN data[r]
    BY <2>1, <2>3 DEF Enriching
  <2>5. Extra(req'[r], data'[r]) = Extra(req[r], data[r]) \cup {n}
    BY <2>3, <2>4 DEF Extra
  <2>6. Enriching(r)'
    BY <2>1, <2>3, <2>4, <2>5 DEF Enriching
  <2>7. QED
    BY <2>2, <2>6, <1>1, <1>2, <1>9 DEF Add, Stage
<1>10. CASE AddPanics(r)
  <2>1. Accepted(r) /\ Enriching(r) /\ todo[r] \cap (DOMAIN data[r] \cup Dotted) # {}
    BY <1>1, <1>10 DEF AddPanics, Stage
  <2>2. PICK n \in todo[r] : n \in DOMAIN data[r] \cup Dotted
    BY <2>1
  <2>3. n \in Entries(enrich) /\ (n \in DOMAIN Validated(req[r]) \/ n \in Dotted)
    BY <2>1, <2>2 DEF Enriching, Extra
  <2>4. Clash(r)'
    BY <2>3, <1>10 DEF AddPanics, Clash
  <2>5. QED
    BY <2>4, <1>1, <1>2, <1>10 DEF AddPanics, Stage
<1>11. CASE Store(r)
  <2>1. Accepted(r) /\ Enriching(r)
    BY <1>1, <1>11 DEF Store, Stage
  <2>2. Accepted(r)' /\ Enriching(r)'
    BY <2>1, <1>11 DEF Store, Accepted, Enriching, Extra
  <2>3. QED
    BY <2>2, <1>1, <1>2, <1>11 DEF Store, Stage
<1>12. CASE HandlerReturns(r)
  BY <1>1, <1>2, <1>12 DEF HandlerReturns, Stage
<1>13. QED
  BY <1>3, <1>4, <1>5, <1>6, <1>7, <1>8, <1>9, <1>10, <1>11, <1>12 DEF RequestStep, Step

-----------------------------------------------------------------------------
LEMMA Inductive == Inv /\ [Next]_vars => Inv'
<1> SUFFICES ASSUME Inv, [Next]_vars PROVE Inv'
  OBVIOUS
<1>1. CASE UNCHANGED vars
  <2>1. TypeOK' /\ SetOnce'
    BY <1>1 DEF Inv, TypeOK, SetOnce, Inside, vars
  <2>2. ASSUME NEW r \in R PROVE Stage(r)'
    BY <1>1 DEF Inv, vars, Stage, Accepted, Clash, Enriching, Extra
  <2>3. QED
    BY <2>1, <2>2 DEF Inv
<1>2. ASSUME NEW s \in S, SetterStep(s) PROVE Inv'
  <2>1. /\ TypeOK' /\ SetOnce' /\ UNCHANGED requestVars
        /\ enrich' = enrich \/ (enrich = NoEnricher /\ once # "done")
        /\ once = "done" => once' = "done"
    BY <1>2, SetterKeeps
  <2>2. ASSUME NEW r \in R PROVE Stage(r)'
    BY <2>1, StageStays DEF Inv, requestVars
  <2>3. QED
    BY <2>1, <2>2 DEF Inv
<1>3. ASSUME NEW r \in R, RequestStep(r) PROVE Inv'
  <2>1. TypeOK'
    BY <1>3, RequestTypesKept
  <2>2. UNCHANGED setterVars
    BY <1>3 DEF RequestStep, Step, Receive, Reject, UrlPanics, Accept, CheckEnricher,
                CallEnricher, Add, AddPanics, Store, HandlerReturns, Local
  <2>3. SetOnce'
    BY <2>2 DEF Inv, SetOnce, Inside, setterVars
  <2>4. ASSUME NEW x \in R PROVE Stage(x)'
    <3>1. CASE x = r
      BY <3>1, <1>3, StageStep
    <3>2. CASE x # r
      BY <3>2, <1>3, OthersKept, StageStays DEF Inv
    <3>3. QED
      BY <3>1, <3>2
  <2>5. QED
    BY <2>1, <2>3, <2>4 DEF Inv
<1>4. QED
  BY <1>1, <1>2, <1>3 DEF Next, SetterStep, RequestStep

-----------------------------------------------------------------------------
(* The inductive invariant holds in every reachable state.                 *)
THEOREM Invariance == Spec => []Inv
BY InitInv, Inductive, PTL DEF Spec

(* The types of all variables.                                             *)
THEOREM TypeCorrect == Spec => []TypeOK
<1>1. Inv => TypeOK
  BY DEF Inv
<1>2. QED
  BY <1>1, Invariance, PTL

(* The handler runs for well-formed requests only and finds every          *)
(* validated value (gin_middleware.go:56-69).                              *)
THEOREM HandlersSeeValidated == Spec => []HandlerSeesValidated
<1>1. Inv => HandlerSeesValidated
  <2> SUFFICES ASSUME Inv, NEW r \in R, At(r, "handler")
               PROVE  /\ WellFormed(req[r])
                      /\ \A n \in Fields \cap Given(req[r]) :
                           /\ n \in DOMAIN context[r]
                           /\ context[r][n] = IF n \in req[r].body THEN "body" ELSE "url"
    BY DEF HandlerSeesValidated
  <2>1. req[r] \in Inputs /\ Accepted(r) /\ Enriching(r) /\ context[r] = data[r]
    BY DEF Inv, TypeOK, Stage, At
  <2>2. QED
    BY <2>1, ValidWellFormed DEF Accepted, Enriching
<1>2. QED
  BY <1>1, Invariance, PTL

(* All entries of the one enricher or none (gin_middleware.go:63-67).      *)
THEOREM EnrichmentsWhole == Spec => []WholeEnrichment
<1>1. Inv => WholeEnrichment
  BY DEF Inv, WholeEnrichment, At, Stage, Enriching, Extra, Enrichment
<1>2. QED
  BY <1>1, Invariance, PTL

(* A request that arrives after SetGlobalEnricher has returned is          *)
(* enriched (gin_middleware.go:24-28 against 63-67).                       *)
THEOREM SetBeforeSeen == Spec => []EnrichedSince
<1>1. Inv => EnrichedSince
  BY DEF Inv, EnrichedSince, At, Stage, Enriching, Extra, Enrichment
<1>2. QED
  BY <1>1, Invariance, PTL

(* A well-formed request that panics has an enricher to blame: a nil one   *)
(* is never called (gin_middleware.go:63-64).                              *)
THEOREM NilNeverCalled == Spec => []NilNotCalled
<1>1. Inv => NilNotCalled
  <2> SUFFICES ASSUME Inv, NEW r \in R, At(r, "panicked"), WellFormed(req[r])
               PROVE  enrich # NoEnricher
    BY DEF NilNotCalled
  <2>1. Clash(r)
    BY DEF Inv, Stage, At
  <2>2. ~Ambiguous(req[r])
    BY DEF WellFormed, Ambiguous
  <2>3. Entries(enrich) # {}
    BY <2>1, <2>2 DEF Clash
  <2>4. QED
    BY <2>3 DEF Entries
<1>2. QED
  BY <1>1, Invariance, PTL

(* After the first SetGlobalEnricher has returned the enricher stays.      *)
THEOREM FirstCallerWins == Spec => FirstWins
<1>1. Inv /\ [Next]_vars => [once = "done" => UNCHANGED enrich]_vars
  <2> SUFFICES ASSUME Inv, Next, once = "done" PROVE UNCHANGED enrich
    BY DEF vars
  <2>1. ASSUME NEW s \in S, SetterStep(s) PROVE UNCHANGED enrich
    BY <2>1, SetterKeeps
  <2>2. ASSUME NEW r \in R, RequestStep(r) PROVE UNCHANGED enrich
    BY <2>2 DEF RequestStep, Step, Receive, Reject, UrlPanics, Accept, CheckEnricher,
                CallEnricher, Add, AddPanics, Store, HandlerReturns, Local, setterVars
  <2>3. QED
    BY <2>1, <2>2 DEF Next, SetterStep, RequestStep
<1>2. QED
  BY <1>1, Invariance, PTL DEF Spec, FirstWins
=============================================================================
