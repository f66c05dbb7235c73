# Verification of kcmvp/dvo

TLA+ models of the parts of `dvo` (Go module `github.com/kcmvp/xql`) whose
correctness depends on control flow over several steps: building schemas,
validating a JSON document against one, reading the result, the middlewares that
bring it to HTTP handlers, the process-wide registry of data sources, the SQL
statements that are built from predicates and value objects, and the code
generator. TLC checks the models on small instances; TLAPS proves the main
properties for every value of the constants.

## Inventory

| Part | State | Operations | What is hard | What makes it correct |
|---|---|---|---|---|
| `view/vo.go`: `Schema.Validate` | per call: the object being built, an error map, the merged URL parameters; a recursion over embedded objects and arrays | `Validate`, `JSONField.validate`, `validateRaw`, `validationError.add` | recursion with two error maps per level, several sources for one key, partial failure | the answer is Ok exactly when the document conforms; every failure is named; the object holds what the document says |
| `view/vo.go`: schema construction | `Schema` and `JSONField` pointers, changed in place by `Optional` and `AllowUnknownFields` | `WithFields`, `Extend`, `Field`, `ArrayField`, `ObjectField`, `ArrayOfObjectField` | aliasing: schemas share fields and embed one another | names are unique, whatever is shared; an extension follows its parts; a call during a change answers as a schema it saw |
| `internal/object.go`: `Data` | a map from names to values | `Get` along a dotted path, `Add`, `Update`, typed getters | three kinds of containers on a path, panics against `None` | a path that exists is found, one that does not gives `None` |
| `validator`, `constraint.go` | none | conversions of text and JSON to Go types, validators | integer widths, NaN, rounding through `float64` | a value is accepted only if it is exactly representable and in range |
| `view/{gin,echo,fiber}/vom` | a once-only enricher; the request's context | `Bind`, `SetGlobalEnricher`, `ValueObject` | concurrent requests, panics half-way, the enricher's keys | the handler runs only with a validated object |
| `sqlx/db.go` | `initOnce`, `initErr`, `dsRegistry`, `defaultDS`, `dsMu`, the connections | `GetDS`, `DefaultDS`, `CloseDataSource`, `CloseAllDataSources`, `registerDataSource`, `initDataSources` | lookups, closes and the initialisation at the same time; a connection that fails half-way | what is handed out is open, nothing open is forgotten, no call hangs |
| `sqlx/sqlx.go`, `sqlx_helpers.go` | none | SQL builders, executors, rows to value objects | placeholders and arguments built apart, join statements cut by offsets | each argument meets its placeholder, the filter is the one asked for |
| `app/app.go` | the configuration, loaded once | `Config` | search order over directories and names | the first file found is used |
| `cmd/gob`, `cmd/internal` | the loaded project, the sources, the generated files | `PersistentPreRunE`, `generateMeta`, `parseFields`, `resolveTableName`, the writing of field helpers and of schemas per adapter | a failure or a kill between two files, edits during a run, entities that share a path | a run that ends well leaves all files up to date, a refused one touches none, a failed one breaks at most one; the columns are those the struct has |

How they interact: a `Bind` middleware calls `Schema.Validate` on the request's
body and its URL parameters, lets the enricher add to the result and hands it to
the handler, which reads it through the getters of `internal.Data`. The `sqlx`
executors take such value objects as the payload of an update and return new
ones; they get their connections from the registry, which reads `app.Config` on
the first lookup. Schemas are built from validators; the generator writes the
field definitions that the SQL builder uses.

## Modules

| Module | Models |
|---|---|
| `Validation` | `Schema.Validate` and everything it calls, as a stack machine |
| `ValidationReference` | what `Validate` has to answer, recursive over the document |
| `TypedValues` | the conversions of `typedJson` and `ParseStringTo`, and the validators |
| `ValueObjects` | `Get` and the typed getters on what `Validate` returned |
| `MCValidation` | the instance of these four: schemas, documents, tokens, URL parameters, paths |
| `ValidationProofs` | proofs about `Validation` |
| `VerdictProofs` | proofs that `Validation` answers what `ValidationReference` says |
| `ValueProofs` | proofs about `ValueObjects` and the conversions |
| `SchemaBuild` | fields and schemas as shared pointers, changed while `Validate` reads them |
| `MCSchemaBuild` | the instance: names, validators, a call |
| `SchemaBuildProofs` | proofs about `SchemaBuild` |
| `Bind` | the `Bind` middleware and `SetGlobalEnricher` of gin, echo and fiber |
| `MCBind` | the instances: requests, enrichers, a schema |
| `BindProofs` | proofs about `Bind` |
| `DataSources` | the registry of `sqlx/db.go` |
| `DataSourcePool` | the abstract specification it implements |
| `MCDataSources` | the instance: goroutines and a configuration |
| `DataSourcesProofs` | proofs about `DataSources` |
| `Statements` | the predicates, builders and executors of `sqlx.go` and `sqlx_helpers.go` |
| `MCStatements` | the instances: a table, predicates, payloads, joins |
| `StatementsProofs` | proofs about `Statements` |
| `EntityMeta` | what the generator derives from a struct: columns, table, SQL types, version |
| `Generator` | runs of the generator on a project whose sources are edited |
| `EntityReference` | the columns an entity has to have |
| `MCGenerator` | the instances: structs, tables, entities, projects |
| `GeneratorProofs` | proofs about `Generator` |

### Validation

One behaviour is one call of `Validate` by a handler. The Go call stack is the
variable `stack`; a frame has the arguments of its call, the index of the field
it works on (`next`), the object and the error map built so far (`data`,
`errs`), and the locals of the loop over an array of objects (`elem`, `made`,
`elemErrs`). `heap` has the `ValueObject`s that calls have returned; a stored
object refers to them by index.

Each action is one turn of a loop of the code, in full:

| Action | Code |
|---|---|
| `InvalidJson`, `FailFirst`, `Begin` | the checks before the field loop: invalid JSON; keys that are unknown, duplicated or name a nested field |
| `Missing`, `FromUrl` | a field that is not in the document: absent, or taken from the URL by `validateRaw` |
| `FromScalar`, `FromArray` | `validate` of plain fields and arrays of primitives |
| `EnterObject` | `validate` of an embedded object: the recursive call |
| `NotAnArray`, `EnterElement`, `EndArray` | `validate` of an array of objects |
| `Finish` | the end of the field loop: unknown URL parameters of a lenient schema, and the result; `Return` gives it to the caller, `Delivered` is what the caller does with it |

Documents are nodes of a table (`Shape`, `Member`, `Elements`), so that a
document of any depth is a constant of the specification. What is abstracted:
JSON text and gjson's path lookup (a field name is a key; the code forbids `.`
and `#` in names, other characters that gjson treats as path syntax are left
out, and so is an empty field name), a key that a document gives twice (gjson
reads the first). Conversions and validators appear as tables (`JsonValue`,
`TextValue`: a value of the type or a failure; the set of values a field
`accepts`), which `MCValidation` computes with the operators of `TypedValues`;
the proofs are about any tables. An error message is
reduced to its key; each key remembers the call that recorded it, which the code
does not keep and no action reads. It is there for `ErrorsKept`.

### TypedValues and ValueObjects

`TypedValues` says what the conversions do to numbers near the limits of their
types. A number is an integer count of halves with a sign, and remembers how it
is written (plain, with leading zeros, a plus, a fraction, an exponent), because
`typedJson` formats the integer it got from gjson and compares the text. gjson
(external) goes through `float64` where that is exact, else parses digit by
digit, which wraps around. The widths are parameters; the instance has an `int`
of 6 bits, an `int8` of 4, a `float64` with a mantissa of 4 bits and a `float32`
with one of 3, so that an `int` has values no `float64` has, as in Go. Other
widths (`int16`, `int32`, `uint16`, `uint32`) are between these. A text is what
it spells, its length and its character classes.

`ValueObjects` adds no state. `Get` walks a dotted path over the objects in
`heap`: a name that is missing, or asked of a scalar, gives `None`; an index out
of range, or no index at all, panics. `GetAs` and `MstAs` are the getters of
plain values; a value of another type panics in both.

### SchemaBuild

`Validation` takes its schemas as constants. `SchemaBuild` is where they come
from: `fields` and `schemas` are the heap, a schema is a sequence of field
pointers, and `Optional` and `AllowUnknownFields` change their target in place.

| Action | Code |
|---|---|
| `NewField`, `ObjectField` | `Field`, `ObjectField` and their array forms through `trait`: a name with `.` or `#`, two validators of one name, or a nil schema panics |
| `WithFields`, `Extend` | a new schema of existing fields; a name that occurs twice panics |
| `Optional`, `AllowUnknownFields` | the changes in place |
| `Validate`, `UrlKey`, `JsonKey`, `EndKeys`, `ValidateField`, `Finish` | a call, at the points where it reads what may be changed: the flag at each key and at the end, the field's `required` at each field |

Every value converts here, a document is the set of its keys, and a nested call
is a call of its own. A constructor that panics
makes nothing. Go's memory
model is not in it: each read sees the old or the new boolean. `extends` and
`began` are history: they remember from what a schema was made and what it said
when a call began; no action reads them.

### Bind

The three middlewares are one program in three dialects, so one module has all
of them. A request is a goroutine with a program counter; a step goes from one
access to `_enrich` to the next, and what happens in between depends on the
request alone. `once`, `enrich`, `set` and `arg` are the `sync.Once`, `_enrich`
and the callers of `SetGlobalEnricher`, who may pass nil.

| Action | Code |
|---|---|
| `CallSet`, `Enter`, `Assign`, `Leave`, `Pass` | `SetGlobalEnricher`: `once.Do` runs the first caller's assignment and makes the others wait |
| `Receive` | a request arrives; a connection serves one after the other |
| `Reject` | the body cannot be read (gin, echo) or `Validate` returns an error: status 400, the chain is aborted |
| `UrlPanics` | `urlParams` asserts that no name has two values |
| `Accept` | `Validate` returns an object |
| `CheckEnricher`, `CallEnricher` | the two reads of `_enrich` |
| `Add`, `AddPanics` | one entry of the enricher's map, in any order; `Data.Add` refuses a name that is there or has a `.` |
| `Store`, `HandlerReturns` | the object goes into the context and the handler runs |

An object is a map from names to where the value comes from (`"body"`, `"url"`,
`"enricher"`), which is what the properties tell apart. `Validate` appears as
its verdict for a flat schema (`Conflicts`, `Failed`, `Validated`), which is proved
to be that of `Validation`; the rest of it is there. A read of `_enrich` that races with the assignment gives the old
or the new pointer, since it is one word. A panic ends its request only, as
under `net/http` or a recover middleware; with fiber and without one it would
end the process. `since` remembers whether `once` was done when the request
arrived, for `EnrichedSince`; no action reads it.

### DataSources

Goroutines call `GetDS`, `DefaultDS`, `CloseDataSource` and
`CloseAllDataSources` in any order. The first lookup runs the function given to
`initOnce.Do`: it loads the configuration, then opens, pings and publishes the
entries in any order (it iterates over a map), stopping at the first that fails;
other lookups wait for it. Each step up to a point where another goroutine can
be noticed is an action; a critical section that only reads or writes memory is
one step, and one that closes connections holds `writer` over several.
`database/sql` is external: opening may fail, a ping may fail, and `Close`
closes whatever it returns. `conn` is the state of each entry's connection,
which the code does not keep. The configuration's keys are already lower-case
(viper lowers them), the error results of the close functions are left out, and
so are the logging decorator and the error `initErr` beyond its being set.

The readers of `dsMu` need no variable: their critical section is a single step.

`DataSourcePool` says what a client may rely on: a connection is opened at most
once, only during set-up, and never returns from closed. `PoolSpec` is the
refinement, with `sealed` mapped to `once = "done"`.

### Statements

One goroutine makes `Where` values (`wheres`), gives one to an executor and runs
it; `pc` says which loop of the code runs, and each turn of a loop is a step.

| Action | Code |
|---|---|
| `Op`, `In` | the predicates; `In` without values is `1=0` |
| `BeginCombine`, `Include`, `EndCombine` | `and` and `or`: the loop over the operands, which passes nil and empty ones over, and the parentheses |
| `Query`, `QueryJoin`, `Delete`, `DeleteJoin` | the builders, with their error returns and the panic of a join statement whose ON comes before its JOIN |
| `Update`, `UpdateJoin`, `SetColumn`, `EndSet` | `updateSQLFromValues`: its checks, one column, and the end |
| `Refuse`, `RunFails`, `Exec`, `OpenRows` | what the database does with the statement |
| `ScanRow`, `ScanFails`, `EndRows`, `Return` | `rowsToValueObjects` and the return of `Execute` |

A text is kept up to what the properties tell apart: `terms` are the operands of
its outermost ORs, each as the set of rows that satisfy it, so that a text
without parentheses next to an AND means what it means in SQL; `slots` has what
each placeholder is for, `args` what the code supplies for it, and `means` the
filter the caller asked for, which no action reads. A `Where` is built anew by
every `Execute`; since that is deterministic the model builds it once. A join
statement is blank, of the form `JOIN t ON c`, one whose ` ON ` comes before its
`JOIN `, or any other; `lead` is its leading blanks. The database (external)
refuses a statement whose arguments differ from its placeholders in number or
whose table it does not know, may fail at any time, and otherwise does what the
text says; a table named like the tail of JOIN does not exist. Not in the
model: a nil `*sql.DB`, an entity without a table name, names that need
quoting, two keys of a payload that `lo.SnakeCase` makes equal, dotted keys.

### EntityMeta and Generator

`Generator` is a developer and the command `gob xql schema`. `source` says what
the types of the project are now, `current` what the run loaded, `files` what
has been generated; `project` is its `go.mod` and packages.

| Action | Code |
|---|---|
| `Edit` | an entity is changed, added or removed, at any time |
| `Start` | the process starts and `init` loads the project, or fails and leaves `Current` nil |
| `PreRun` | `PersistentPreRunE`: no project, no dependency on the tool or no database driver refuses the run |
| `GenerateMeta` | `generateMeta`: all entities asked for, before any file is written |
| `Truncate`, `Fill`, `WriteFails` | one file: `os.WriteFile` truncates, then writes, and may fail before or after |
| `EndFields`, `EndAdapter` | the loops over the entities, once for the field helpers and once per adapter |
| `Kill` | the process dies at any point |

`EntityMeta` has the functions: `ParseFields` (embedded structs are expanded
recursively), `ParseDirectives` (the tag), `ApplyOrderPolicy`,
`ResolveTableName` with `EvalStringExpr`, `SqlTypeFor`, and the version, with
the hash taken as injective. The syntax tree is a table: `Members` has the
fields of each struct, `Expr` the expressions that `Table` methods return. Go's
type checker and `go list` are external: which types implement the interface and
which constants have values are part of the tables. A file's content is the data
that its template gets. `before` remembers the files when the run began, for the
properties. `EntityReference` computes the columns from the closure of the
embedding relation and not by walking the struct.

## What the runs check

| Run | Instance | Shows |
|---|---|---|
| `MCValidation` | 384 documents in two families (plain fields; nested objects and arrays), strict and lenient, with up to two URL parameter maps, and 286 one-field documents with every token and text for every Go type; 2,270 calls, 18,042 states | `TypeOK`; `Faithful`: a returned object holds exactly what the document and the URL say; `Verdict` and `AllReported`: the answer and the error keys are those of the recursive reference; `ReadBack`: getters find at every path what the document has there; `ExactOrRefused`: integers are exact; `Termination` |
| `MCValidationTrusted` | a lenient schema with an object field and a float field with `Between`, and a URL parameter for each | violates `Trusted` in both ways at once: a scalar is stored under the object field, and a NaN passes `Between` |
| `MCValidationMerged` | a lenient schema in which a field and a field of the embedded object are both called `street`, and the 240 nested documents | violates `ErrorsKept`: the error of one takes the place of the other's |
| `MCSchemaBuild` | every way to build up to 2 fields and 3 schemas of 3 names, one of them a path, and to relax them while a call reads them, with a document that has both names and one that lacks a name; 2,529,642 states | `Wellformed`: schemas are what `Validation` assumes; `Inherits`: an extension asks for what its parts ask for; `Between`: a call answers as a schema it saw |
| `MCBind` | 2 interchangeable requests, 2 interchangeable setters, 3 enrichers (one fits, one may clash, one has a dotted name) and nil, 11 kinds of request, 1,457,036 states | `TypeOK`; `HandlerSeesValidated`; `WholeEnrichment`: all entries of the one enricher or none; `EnrichedSince`: nobody is missed once `SetGlobalEnricher` has returned; `NilNotCalled`: the two reads of `_enrich` never meet nil; `FirstWins` |
| `MCBindOverwrite` | 1 valid request, the same enrichers | violates `Overwrites`: an entry named like a field that the client gave ends the request in a panic |
| `MCDataSources` | 2 goroutines, 3 entries with two keys for one name, 140,231 states, with fairness | `TypeOK`, `RegisteredOpen`, `NoLeak`, `MissExplained`, `NoPartialView`, `CloseAllComplete`; `PoolSpec`; `Returns`: every call returns |
| `MCStatements` | 2 independent predicates over 4 rows, `In` lists of 0 and 2, up to 4 `Where` values of up to 3 placeholders, 5 payloads and nil, 5 join statements, 633,376 states | `TypeOK`; `Bound`; `FilterExact`; `Filtered`; `RefusedExplained`; `RowsComplete` |
| `MCStatementsJoin` | a join statement with two leading blanks and an OR in its ON condition | violates `JoinAsAsked` in both ways at once: the table is cut in the wrong place, and the rows are not those of the filter |
| `MCGenerator` | 3 entities of 9 structs, two of them with names that fall together, 5 projects, 2 adapters, 3 selections, 2 runs and an edit, 78,581 states, with fairness | `TypeOK`; `UpToDate`; `RefusedUntouched`; `LeftBehind`: at most one file is broken; `ColumnsExact`; `Ends` |
| `MCGeneratorPersist` | one run on a struct with two names in one declaration, which embeds a struct of another file | violates `AllPersist` in both ways at once: the second name and the members of the other struct have no column |
| `MCGeneratorIgnored` | one run on the projects of `MCGenerator`, one of whose structs has a member of an unsupported type with the tag `-` | violates `IgnoredIgnored`: the run is refused for it |

`MCValidation` keeps the names of nested fields apart from those of their
parents, so that an error's key says where it arose; `MCValidationMerged` lets
two names meet. The violation runs state what a document or a comment of the
repository says of the code, and their counterexamples are the divergences
below. Where one run shows two faults, the object, statement or entity of its
counterexample has both.

Why the bounds are enough. Validation: the documents give every plain field a
good, a bad, a rejected and no value, arrays of length 0 to 3 with failures at
each position, elements that are not objects, two arrays of objects one after
the other, and an object field with each kind of JSON node; nesting is two
levels deep, and a frame talks to its direct caller only. Bind: requests share
nothing but `_enrich`, which two of them can read at different moments; two
setters are needed for one to wait; an enricher with two entries is needed for a
panic half-way. The schema of `MCBind` is strict. A lenient one differs in the
verdict and the object only; its verdict is evaluated by `VerdictOfValidate` in
`MCBindOverwrite`, and the proofs are about either. Registry: what can go wrong
needs one goroutine that initialises and one that looks up or closes, and two
entries for a partial initialisation, a third for two keys of one name; for any
number of goroutines there are the proofs. No counter of these three is bounded by a guard: goroutines call for
ever, and every state space is finite.
Statements: four `Where` values are two predicates, a combination and a
combination of that, which is where parentheses matter; the four rows are the
four truth values of two predicates. `MaxWheres` bounds the values made and
`MaxSlots` the placeholders and the terms of one; an executor gets the latest
value or nil. Without the last bound every statement would be counted again for
each longer history, and nothing else. Typed values (`WordBits`, `NarrowBits`,
`DoubleBits`, `SingleBits`, `MaxDouble`, `MaxSingle`): every limit is met,
exceeded by one and exceeded by far, from both sides and in each way of writing.
Schemas (`MaxFields`, `MaxSchemas`, `MaxList`): two fields can share a name or
not, and with three schemas one can extend two others or embed one that is
changed later. `WithFields` gets at most one field, so that a schema of two is an
extension; that it refuses two fields of one name, as `Extend` does, is in the
proofs, which are for any `MaxList`. The call has one of two documents. One has a name in the JSON and
another in the URL, so that strictness is read for each; the other has one name
only, so that a field of the other name is missing and `Optional` decides the
answer. A name in both places is refused at that key whatever the schema says,
and is in the documents of Validation. Generator (`MaxRuns`, `MaxEdits`,
`Edited`): what a run finds is what one earlier run left, complete or broken,
and one edit can come before, between or within them; every kind of member, tag,
embedding and `Table` method the code distinguishes is in one of the structs.

Deadlock is checked for the registry, the middleware and the statements. It is
not for validation, where the call returns and nothing is left to do, and not
for schemas and the generator, which stop at their bounds.

Fairness. `Validation` assumes that the goroutine of the handler keeps running
(weak fairness of `Next`). `Bind` has no liveness property: its loops run over
finite maps and what makes a waiting setter go on is `sync.Once`, so that one
would say nothing of this code.
`DataSources` assumes weak fairness of the steps of a goroutine that is inside a
call and holds no claim to the lock (the scheduler runs it, and `Open`, `Ping`
and `Close` return), and strong fairness of the steps that acquire `dsMu`:
`sync.RWMutex` blocks new readers while a writer waits and lets the readers that
waited in before the next writer, so nobody is overtaken for ever. Nothing makes
a goroutine call. A ping without an answer would block every lookup, since the
code gives it no deadline: `Returns` does not cover that. `Generator` assumes
weak fairness of `Run`: a process that was started is carried on, and file
operations end, one way or the other; `Ends` says that its loops end too.

## What is proved

`DataSourcesProofs`, for any set of goroutines, names and configuration
(`NameAssumption`: the empty name is not a name, nil is not an entry): `TypeOK`,
`RegisteredOpen`, `NoLeak`, `NoPartialView`, `MissExplained`, the action
property `CloseAllComplete`, and the refinement `PoolSpec`. The
inductive invariant `Inv` adds three facts that the properties rest on:
`InitOnce` (one goroutine initialises, while `once` is running, and an entry not
yet reached has no connection), `Locked` (the lock is held by exactly the
goroutine that closes) and `Hands` (a connection that a goroutine is about to
publish or close is open, nobody else's, and not registered). `RegisteredOpen`
alone is not inductive: a step that closes the connection in hand would have to
know that it is not registered.

`ValidationProofs`, for any schemas, documents and depth (`SchemaAssumption`,
`DocumentAssumption`, `ConversionAssumption`, `CallAssumption`): `TypeOK` and
`Faithful`. The induction over the nesting is an invariant of the stack: a
frame's data is right for the fields it has passed (`Passed`), the objects
collected from an array are those of the elements passed (`Collected`), and each
frame works on the node and the schema its caller waits for (`Awaits`).
`Faithful` alone is not inductive, because it says nothing of the calls that are
not finished. It covers the URL parameters that a lenient schema takes over: each
is in the object as its text. Since the heap only grows, what was built stays
built (`FaithfulGrows`).

`VerdictProofs`, from the same assumptions: `Verdict` and `AllReported`, so that
`Validate` answers Ok exactly for what conforms, and a failed call names exactly
what is to blame, at any depth. `Conforming` and `Blamed` are recursive functions
over schemas and nodes; all the proof needs of them is that they solve their
equations. They do because the equations are monotone (`ConformsMonotone`,
`BlamesMonotone`) and a monotone function on the subsets of a set has a fixed
point (`FixedPoint`, after Knaster and Tarski); nothing is assumed of the depth
or even the finiteness of a document. The invariant, `Judging`, says of each
frame that its error map has the keys that the reference blames for the fields it
has passed, and for those only, and the same of the elements of the array it is
in (`Judged`); `Verdict` says nothing before the call is over. Also proved:

- `BindHasTheVerdict`, and in `ValueProofs` `BindHasTheObject`: `Bind` has no
  `Validate` in it but operators on a request (`Conflicts`, `Failed`, `Valid`,
  `Validated`). For every flat schema and every request, they say what the call
  that the middleware makes answers (`MadeFor`: one map of parameters, a document
  whose keys are the request's): whether it is accepted, which names are at fault,
  and which object the handler gets, name by name, from the document or the URL.
  `Bind` is instantiated once per schema (`Route`). So the properties of `Bind` are
  about what `Validation` does. `MCBind` evaluates the first half for its requests
  (`VerdictOfValidate`).
- `UnsafeOnlyFromUrl` and `StrictIsTypeSafe`: divergence 1 below is the only way
  to a value of the wrong kind (`TypeSafe`, the first half of `Trusted`), and a
  strict schema has none.

`ValueProofs`, from the same assumptions, `ReadAssumption` (paths are sequences)
and `TableAssumption` (the tables of `Validation` are the conversions of
`TypedValues`): `ReadBack` and `ExactOrRefused`. `Get` on the object and `PlaceOf`
on the request walk down the same path in step; at each part they stand at the
same thing (`Reads`), because every object on the way is `Faithful`, and the call
returned the object made of its own arguments (`Returned`). That each step of the
walk holds for paths of any length is an induction over the positions of the
path, from the well-foundedness of the naturals (`SetInduction`). `IntegersAreExact`
holds for every width: the comparison of texts lets a JSON integer pass only if it
was not rounded or wrapped around, and a text is parsed with the limits of its
type. `OnlyNaNEscapes`: where `Between` guards a float field (`LimitsEnforced`,
the condition under which `Bounded`, the other half of `Trusted`, was expected), what is stored is in the range
or a NaN, which is divergence 2, and never an infinity.

`BindProofs`, for any schema, requests, enrichers and goroutines
(`BindAssumption`: field names have no `.`, nil is not an enricher): `TypeOK`,
`HandlerSeesValidated`, `WholeEnrichment`, `EnrichedSince`, `NilNotCalled` and
`FirstWins`. The inductive invariant says who is inside `once.Do` (`SetOnce`:
alone, and before its assignment there is no enricher) and how far each request
has got (`Stage`). Its heart is `Enriching`: what was added and what is pending
together are all entries of the current enricher or none. An assignment keeps it
because a request that has anything to add has seen an enricher, after which
there is no other (`StageStays`). That valid requests are well formed is a lemma
of its own (`ValidWellFormed`).

`StatementsProofs`, for any table, predicates, schemas, payloads and joins
(`StatementAssumption`) and without bounds on nesting beyond those of the
guards, which are constants: all properties of `MCStatements`. The heart of the
invariant is `Made`: a finished `Where` has at most one outermost term and as
many arguments as placeholders, in the same order, and means what was asked for.
`FilterExact` alone says nothing of the values still to be combined. `Fits` says
for a statement under construction that its arguments are in place or too few,
and, if too few, why. `JoinUnlessOr` says that divergence 5 below is the only way
to other rows: without an OR in the ON condition (`OneTermOn`) a delete or update
affects what a query of the same join returns. The join statements of
`MCStatements` satisfy it.

`SchemaBuildProofs`, for any names, validators, documents, callers and bounds
(`BuildAssumption`): `Wellformed`, `Inherits` and `Between`. `Wellformed`
discharges what `Validation` assumes of its schemas. The invariant is `BuildInv`
(well-formed, and the fields of an extension are those of its parts, one after
the other) and `CallsInv`: how far a call has got (`Progress`), relative to what
the schema said when it began and says now, and what a finished call answers
(`Answer`). It is kept because nothing is ever taken back (`Grows`): a field
never becomes required again and a schema never strict, so that what was refused
at the beginning stays explained, and what has been passed stays passed.

`GeneratorProofs`, for any entities, adapters, projects, runs and edits
(`GeneratorAssumption`, `MemberAssumption`): `TypeOK`, `UpToDate`,
`RefusedUntouched`, `LeftBehind` and `ColumnsExact`. For the first four what is
derived from an entity is not looked into. The invariant says for the run in
progress which turns are done and that their files are settled (`Done`,
`Settled`), where a file settled by one entity may be taken by a later one of
the same path and by nobody else; `UpToDate` follows from it at the end of the
last turn. `UpToDate` alone is not inductive, because it says nothing of the
turns before the last; that no turn undoes another is because directories of
schemas tell adapters apart (`SchemaPathForm`).

`ColumnsOfEveryEntity` is `ColumnsExact`, for which what is derived from an
entity has to be looked into. The parser concatenates what it finds in the
members of a struct, and calls itself for an embedded one; the reference counts
over the closure of the embedding. The two meet in a placement (`Places`): a map
from the persistent members to the positions of the columns, one to one, onto,
and in order within a struct (`Lays`). A concatenation joins the placements of
its parts (`LaysJoined`, `FlattenedStepwise`), and the order policy is a stable
sort by rank, that is, a placement too (`OrderPolicyForm`). The columns of a
struct are then laid member by member (`LaidStep`, with `Upto` for what has been
laid so far) and the structs by induction over the embedding (`StructInduction`,
`StructLaid`), from which the counts of `ColumnsExact` follow by a bijection
(`FieldsExact`). The recursion is a function, which exists because no struct
embeds itself by value through any number of steps (`ParseFieldsUnfolds`, from
`EmbeddingAssumption`): Go refuses such types as invalid recursive types, and
the parser would not return. The hypothesis `EmbeddedOnce`, that no struct
reaches an entity along two embeddings, is needed: the parser visits such a
struct twice, and its columns are there twice. `MCGenerator` evaluates it for
its structs. That all asked entities have been parsed when files are written is
the invariant `AllParsed`.

The `MC` modules check the invariants on the instances and evaluate the
assumptions.

Only model-checked: liveness (`Termination`, `Returns`, `Ends`), which needs
fairness and ENABLED. `ColumnsExact` is proved under `EmbeddedOnce` only.

## Divergences found

1. `view/vo.go:648`: a lenient schema takes a URL parameter for an object or
   array field and stores a scalar there, although README.md:84 promises
   "Type-Safe Access" and README.md:75 "a trusted `ValueObject`".
   (`MCValidationTrusted`)
2. `validator/validator.go:285`: `Between` (like `Gte` and `Lte`) only refuses
   what compares as less or greater, so a NaN passes, and the JSON string "NaN"
   or the URL text is one, although the comment at 281 says "within a given
   range". (`MCValidationTrusted`)
3. `view/vo.go:656`: errors of embedded objects are merged under their bare
   names, although `vo.go:370` says that the fields are "prefixed with the
   object's name" and `vo.go:24` promises "only one error per field"; of two
   fields of one name in parent and child, one error is lost.
   (`MCValidationMerged`)
4. `sqlx/sqlx_helpers.go:358` and `395`: the offset of JOIN is that of the
   trimmed join statement, the text it cuts is not trimmed: with two leading
   blanks or line breaks the table becomes `N accounts`, although the comment
   at 357 says "table part between 'JOIN ' and ' ON '". (`MCStatementsJoin`)
5. `sqlx/sqlx_helpers.go:369` and `406`: an ON condition that is an OR is not
   put in parentheses before the `Where` is appended, so a delete or update
   affects rows the `Where` excludes, although `sqlx.go:176` speaks of "the
   join-based filter". (`MCStatementsJoin`)
6. `cmd/gob/xql/xql_generator.go:549`: an embedded struct of another file or
   package is passed over, and its columns are missing, although
   `entity/entity.md:79` says that embedded structs "are expanded and their
   exported fields are treated as columns". (`MCGeneratorPersist`)
7. `cmd/gob/xql/xql_generator.go:602`: of several names in one declaration only
   the first is a column, although `xql_generator.md:13` says "for every exported
   field". (`MCGeneratorPersist`)
8. `cmd/gob/xql/xql_generator.go:570`: an unsupported type refuses the run even
   where the tag is `-`, although `type_mapping.md:93` says that the generator
   will "completely ignore this field". (`MCGeneratorIgnored`)
9. `view/echo/vom/echo_middleware.go:83`: an enricher's entry with the name of a
   validated field panics in `Data.Add` (in gin and fiber, too), although the
   comment at 78 says that it is applied "to add or overwrite data".
   (`MCBindOverwrite`)

What follows has no run of its own; the models behave as the code does.

- `view/vo.go:155`: an object field is validated whatever JSON node it has, so
  that a schema all of whose fields are optional takes a scalar or an array there
  for an object, if the keys that gjson's `@keys` gives for it are allowed.
- `sqlx/db.go:190`: the keys `""` and `"default"` of the configuration stand for
  one name; the second entry replaces the first, whose connection stays open.
- `sqlx/db.go:258`: after `CloseDataSource("default")`, `DefaultDS` returns the
  closed data source, although `db.go:249` says "if registered".
- `sqlx/sqlx_helpers.go:444`: rows are mapped by `Name()`, so that the columns
  of one name of two joined tables fall together, although `sqlx/README.md:76`
  promises to "reliably map results back to field names" (`field.go:47` asks for
  unique names).
- `sqlx/README.md:110`: a join statement must not contain `?`, but only
  `QueryJoin` checks it; `DeleteJoin` and `UpdateJoin` build a statement that
  the database refuses, which is one of the reasons in `RefusedExplained`.
- A JSON number beyond every `float64` becomes an infinity, which the URL text
  is refused for; `-0` and `1e2` are refused as JSON integers, while the URL
  text `-0` is accepted. A URL parameter of a lenient schema whose name has a
  `.` is stored and can never be read back by `Get`.
- A schema made lenient does not make an extension lenient that exists already,
  while a field made optional is optional in it, too.
- The generator: the query for `time.Time` in `drivers.json` is split at the
  dot, so its SQL type there is never used (`type_mapping.md:145`); types
  without an entry, `uint` among them, become TEXT; returns nested in a statement
  of `Table` are not seen; two entities whose names are equal in lower case
  overwrite each other's files; files of a removed entity stay. Every generated
  file carries the time, which the model leaves out (`xql_generator.md:5` asks
  for deterministic output).
- Entities are only found where the package `entity` of the tool's own module
  is among the project's own packages, since dependencies are not loaded.

## Plan

Done: `Validation`, `DataSources`, `Bind`, `Statements`, `SchemaBuild` and
`Generator`, `ValueObjects` and `TypedValues`, each with its proofs. Left, in
this order:

1. `AppConfig`: the search order, as a function of the files that exist.
2. The getters of typed slices and `Data.Update`.
3. `SetSQLLogger` next to the initialisation of the registry.
4. Structs that reach an entity along two embeddings: a form of `ColumnsExact`
   that counts the embeddings.

## Not modelled

- Parsing of JSON text (gjson), `strconv` and `time` beyond what `TypedValues`
  says of them, Go's type checker, `go list`, `database/sql`: external.
- `Match`, `Email`, `URL`: they hand the text to a library.
- `Data.Update`, `Data.Fields`, the getters of typed slices, `sql()` and
  `updateSQL`: nothing in the repository calls them outside tests.
- `app.LoadConfig`'s search over directories and names: planned. `DataSources`
  takes its two outcomes. (The comment at `app.go:56`, that
  `application_test.yaml` is preferred if it exists, is not what the code does.)
- `SetSQLLogger` and the logging decorator, formatting of error messages.
- The text of the generator's templates, `pkConstraintFor` (its result only
  becomes a warning nobody prints), the subcommands `validate` and `index`,
  which do nothing, and which of `NewProject`'s errors it was.
- Field and entity types, which are plain values, the samples and the generated
  code.
- Two `Bind`s on one route (the second reads an empty body), a server that does
  not catch panics, a nil `*sql.DB`.
