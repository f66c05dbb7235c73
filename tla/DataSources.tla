------------------------------ MODULE DataSources ------------------------------
(***************************************************************************)
(* sqlx/db.go: the process-wide registry of data sources.  Goroutines call *)
(* GetDS, DefaultDS, CloseDataSource and CloseAllDataSources at will; the  *)
(* first lookup opens and pings every configured data source inside        *)
(* initOnce, outside the lock dsMu, and publishes them one at a time.      *)
(*                                                                         *)
(* A critical section that only touches memory is one step; one that       *)
(* closes connections holds `writer' over several.                         *)
(***************************************************************************)
CONSTANTS
  G,        \* goroutines
  Names,    \* names of data sources
  Empty,    \* the empty name, which stands for Default
  Default,  \* the name "default"
  Config,   \* the keys of the configuration's "datasource" map
  NoDB,     \* nil
  Nobody    \* dsMu is not held for writing

ASSUME NameAssumption ==
  /\ Empty \notin Names
  /\ Default \in Names
  /\ Config \subseteq Names \cup {Empty}
  /\ NoDB \notin Config
  /\ Nobody \notin G

VARIABLES
  once,       \* initOnce: "idle", "running" or "done"
  todo,       \* configured entries the initialising loop has not reached
  failed,     \* initErr # nil
  conn,       \* entry -> "none", "open" or "closed": its *sql.DB
  registry,   \* dsRegistry: name -> the entry whose connection it holds
  defaultDS,  \* the entry whose connection is defaultDS, or NoDB
  writer,     \* the goroutine inside dsMu.Lock ... Unlock, or Nobody
  pc,         \* goroutine -> what it does next
  call,       \* goroutine -> the function and name of its current call
  cur,        \* goroutine -> the entry it is opening or closing
  got         \* goroutine -> what its latest call, a lookup, returned

vars == <<once, todo, failed, conn, registry, defaultDS, writer, pc, call, cur, got>>

initVars == <<once, todo, failed>>
regVars  == <<registry, defaultDS>>

\* Mutant: the empty name is not replaced.
RawName(n) == n

NameOf(n) == IF n = Empty THEN Default ELSE n

\* Mutant: the entry stays in the map.
WithoutNothing(n) == registry

Without(n) == [m \in DOMAIN registry \ {n} |-> registry[m]]
With(n, c) == [m \in DOMAIN registry \cup {n} |-> IF m = n THEN c ELSE registry[m]]

Init ==
  /\ once = "idle" /\ todo = Config /\ failed = FALSE
  /\ conn = [c \in Config |-> "none"]
  /\ registry = [n \in {} |-> NoDB]
  /\ defaultDS = NoDB
  /\ writer = Nobody
  /\ pc = [g \in G |-> "idle"]
  /\ call = [g \in G |-> [op |-> "GetDS", name |-> Default]]
  /\ cur = [g \in G |-> NoDB]
  /\ got = [g \in G |-> NoDB]

Step(g, from, to) == pc[g] = from /\ pc' = [pc EXCEPT ![g] = to]

-----------------------------------------------------------------------------
(* A goroutine calls one of the four functions.  DefaultDS and             *)
(* CloseAllDataSources take no name.                                       *)
Begins(g) ==
  /\ cur' = [cur EXCEPT ![g] = NoDB]
  /\ got' = [got EXCEPT ![g] = NoDB]

CallLookup(g, op, n) ==
  /\ Step(g, "idle", "init")
  /\ call' = [call EXCEPT ![g] = [op |-> op, name |-> NameOf(n)]]
  /\ Begins(g)
  /\ UNCHANGED <<initVars, conn, regVars, writer>>

CallClose(g, n) ==
  /\ Step(g, "idle", "close")
  /\ call' = [call EXCEPT ![g] = [op |-> "CloseDataSource", name |-> NameOf(n)]]
  /\ Begins(g)
  /\ UNCHANGED <<initVars, conn, regVars, writer>>

CallCloseAll(g) ==
  /\ Step(g, "idle", "closeAll")
  /\ call' = [call EXCEPT ![g] = [op |-> "CloseAllDataSources", name |-> Default]]
  /\ Begins(g)
  /\ UNCHANGED <<initVars, conn, regVars, writer>>

Call(g) ==
  \/ \E n \in Names \cup {Empty} : CallLookup(g, "GetDS", n) \/ CallClose(g, n)
  \/ CallLookup(g, "DefaultDS", Default)
  \/ CallCloseAll(g)

-----------------------------------------------------------------------------
(* initDataSources.  Whoever comes first runs the initialisation; the      *)
(* others wait in initOnce.Do until it is over.                            *)

\* Mutant: the flag is set before the work is done.
EnterOnceDone(g) ==
  /\ once = "idle"
  /\ Step(g, "init", "config")
  /\ once' = "done"
  /\ UNCHANGED <<todo, failed, conn, regVars, writer, call, cur, got>>

EnterOnce(g) ==
  /\ once = "idle"
  /\ Step(g, "init", "config")
  /\ once' = "running"
  /\ UNCHANGED <<todo, failed, conn, regVars, writer, call, cur, got>>

PassOnce(g) ==
  /\ once = "done"
  /\ Step(g, "init", "lookup")
  /\ UNCHANGED <<initVars, conn, regVars, writer, call, cur, got>>

\* The function given to initOnce.Do returns, with or without an error.
EndInit(g, from, error) ==
  /\ Step(g, from, "lookup")
  /\ once' = "done"
  /\ failed' = error

\* app.Config finds a configuration, or it does not.
LoadConfig(g) ==
  /\ \/ Step(g, "config", "next") /\ UNCHANGED <<once, failed>>
     \/ EndInit(g, "config", TRUE)
  /\ UNCHANGED <<todo, conn, regVars, writer, call, cur, got>>

\* Map iteration: the entries come in any order.
OpenEntry(g, c) ==
  /\ c \in todo
  /\ Step(g, "next", "ping")
  /\ todo' = todo \ {c}
  /\ conn' = [conn EXCEPT ![c] = "open"]
  /\ cur' = [cur EXCEPT ![g] = c]
  /\ UNCHANGED <<once, failed, regVars, writer, call, got>>

\* Mutant: an entry that cannot be used is skipped.
SkipEntry(g, c) ==
  /\ c \in todo
  /\ Step(g, "next", "next")
  /\ todo' = todo \ {c}
  /\ UNCHANGED <<once, failed, conn, regVars, writer, call, cur, got>>

\* The entry cannot be decoded, has no driver or a bad DSN, or sql.Open fails.
RefuseEntry(g, c) ==
  /\ c \in todo
  /\ EndInit(g, "next", TRUE)
  /\ todo' = todo \ {c}
  /\ UNCHANGED <<conn, regVars, writer, call, cur, got>>

NoMoreEntries(g) ==
  /\ todo = {}
  /\ EndInit(g, "next", FALSE)
  /\ UNCHANGED <<todo, conn, regVars, writer, call, cur, got>>

PingOk(g) ==
  /\ Step(g, "ping", "publish")
  /\ UNCHANGED <<initVars, conn, regVars, writer, call, cur, got>>

\* Mutant: the connection that does not answer is not closed.
PingFailsOpen(g) ==
  /\ EndInit(g, "ping", TRUE)
  /\ UNCHANGED <<todo, conn, regVars, writer, call, cur, got>>

PingFails(g) ==
  /\ EndInit(g, "ping", TRUE)
  /\ conn' = [conn EXCEPT ![cur[g]] = "closed"]
  /\ UNCHANGED <<todo, regVars, writer, call, cur, got>>

\* The end of registerDataSource, under the lock.
Publish(g) ==
  /\ writer = Nobody
  /\ Step(g, "publish", "next")
  /\ registry' = With(NameOf(cur[g]), cur[g])
  /\ defaultDS' = IF NameOf(cur[g]) = Default /\ defaultDS = NoDB THEN cur[g] ELSE defaultDS
  /\ UNCHANGED <<initVars, conn, writer, call, cur, got>>

Initialise(g) ==
  \/ EnterOnce(g) \/ PassOnce(g) \/ LoadConfig(g)
  \/ \E c \in Config : OpenEntry(g, c) \/ RefuseEntry(g, c)
  \/ NoMoreEntries(g) \/ PingOk(g) \/ PingFails(g)

-----------------------------------------------------------------------------
(* The rest of GetDS and DefaultDS, under the read lock.                   *)
Registered(n) == IF n \in DOMAIN registry THEN registry[n] ELSE NoDB

Answer(g) ==
  IF call[g].op = "DefaultDS" /\ defaultDS # NoDB THEN defaultDS ELSE Registered(call[g].name)

Lookup(g) ==
  /\ writer = Nobody
  /\ Step(g, "lookup", "idle")
  /\ got' = [got EXCEPT ![g] = Answer(g)]
  /\ UNCHANGED <<initVars, conn, regVars, writer, call, cur>>

-----------------------------------------------------------------------------
(* CloseDataSource: the entry leaves the map, then its connection is       *)
(* closed, both under the lock.                                            *)
CloseNothing(g) ==
  /\ writer = Nobody
  /\ call[g].name \notin DOMAIN registry
  /\ Step(g, "close", "idle")
  /\ UNCHANGED <<initVars, conn, regVars, writer, call, cur, got>>

CloseOne(g) ==
  /\ writer = Nobody
  /\ call[g].name \in DOMAIN registry
  /\ Step(g, "close", "closing")
  /\ writer' = g
  /\ cur' = [cur EXCEPT ![g] = registry[call[g].name]]
  /\ registry' = Without(call[g].name)
  /\ UNCHANGED <<initVars, conn, defaultDS, call, got>>

\* Mutant: the lock is not released.
CloseConnLocked(g) ==
  /\ Step(g, "closing", "idle")
  /\ conn' = [conn EXCEPT ![cur[g]] = "closed"]
  /\ UNCHANGED <<initVars, regVars, writer, call, cur, got>>

\* db.Close, which closes the connection even when it returns an error.
CloseConn(g) ==
  /\ Step(g, "closing", "idle")
  /\ conn' = [conn EXCEPT ![cur[g]] = "closed"]
  /\ writer' = Nobody
  /\ UNCHANGED <<initVars, regVars, call, cur, got>>

(* CloseAllDataSources: one connection after the other, under the lock.    *)
LockAll(g) ==
  /\ writer = Nobody
  /\ Step(g, "closeAll", "closingAll")
  /\ writer' = g
  /\ UNCHANGED <<initVars, conn, regVars, call, cur, got>>

\* Mutant: the entries are removed but not closed.
ForgetEach(g, n) ==
  /\ pc[g] = "closingAll"
  /\ n \in DOMAIN registry
  /\ registry' = Without(n)
  /\ UNCHANGED <<initVars, conn, defaultDS, writer, pc, call, cur, got>>

CloseEach(g, n) ==
  /\ pc[g] = "closingAll"
  /\ n \in DOMAIN registry
  /\ conn' = [conn EXCEPT ![registry[n]] = "closed"]
  /\ registry' = Without(n)
  /\ UNCHANGED <<initVars, defaultDS, writer, pc, call, cur, got>>

\* Mutant: the next lookup initialises the data sources again.
UnlockAllAgain(g) ==
  /\ DOMAIN registry = {}
  /\ Step(g, "closingAll", "idle")
  /\ defaultDS' = NoDB
  /\ writer' = Nobody
  /\ once' = "idle" /\ todo' = Config
  /\ UNCHANGED <<failed, conn, registry, call, cur, got>>

UnlockAll(g) ==
  /\ DOMAIN registry = {}
  /\ Step(g, "closingAll", "idle")
  /\ defaultDS' = NoDB
  /\ writer' = Nobody
  /\ UNCHANGED <<initVars, conn, registry, call, cur, got>>

Closing(g) == CloseConn(g) \/ UnlockAll(g) \/ \E n \in Names : CloseEach(g, n)

\* The steps that have to acquire dsMu.
Acquire(g) == Publish(g) \/ Lookup(g) \/ CloseNothing(g) \/ CloseOne(g) \/ LockAll(g)

Next == \E g \in G : Call(g) \/ Initialise(g) \/ Acquire(g) \/ Closing(g)

Spec == Init /\ [][Next]_vars

(* A goroutine inside a call is scheduled, Open, Ping and Close return,    *)
(* and sync.RWMutex starves nobody.  No goroutine has to make a call.      *)
Fairness == \A g \in G : /\ WF_vars(Initialise(g))
                         /\ WF_vars(Closing(g))
                         /\ SF_vars(Acquire(g))

FairSpec == Spec /\ Fairness

-----------------------------------------------------------------------------
Initialising == {"config", "next", "ping", "publish"}

TypeOK ==
  /\ once \in {"idle", "running", "done"}
  /\ todo \subseteq Config
  /\ failed \in BOOLEAN
  /\ conn \in [Config -> {"none", "open", "closed"}]
  /\ DOMAIN registry \subseteq Names
  /\ registry \in [DOMAIN registry -> Config]
  /\ defaultDS \in Config \cup {NoDB}
  /\ writer \in G \cup {Nobody}
  /\ pc \in [G -> Initialising \cup
               {"idle", "init", "lookup", "close", "closing", "closeAll", "closingAll"}]
  /\ call \in [G -> [op : {"GetDS", "DefaultDS", "CloseDataSource", "CloseAllDataSources"},
                     name : Names]]
  /\ cur \in [G -> Config \cup {NoDB}]
  /\ got \in [G -> Config \cup {NoDB}]

\* The connection is in use by the step of a goroutine that will register or close it.
InHand(c) == \E g \in G : cur[g] = c /\ pc[g] \in {"ping", "publish", "closing"}

\* Another key of the configuration stands for the same name.
Aliased(c) == \E d \in Config : d # c /\ NameOf(d) = NameOf(c)

(* What GetDS finds is a connection that nobody has closed, opened for the *)
(* very name it is registered under.                                       *)
RegisteredOpen ==
  \A n \in DOMAIN registry : conn[registry[n]] = "open" /\ NameOf(registry[n]) = n

(* No connection is forgotten: one that is open is registered, or some     *)
(* goroutine is about to register or close it.  Two keys for one name are  *)
(* the exception: the second replaces the first without closing it.        *)
NoLeak ==
  \A c \in Config : conn[c] = "open" =>
    InHand(c) \/ Aliased(c) \/ (NameOf(c) \in DOMAIN registry /\ registry[NameOf(c)] = c)

(* A lookup that finds nothing has a reason: the name is not configured,   *)
(* or its connection has been closed, or the initialisation failed before  *)
(* or at it.  A lookup never runs ahead of the initialisation.             *)
MissExplained ==
  \A g \in G : pc[g] = "lookup" =>
    \A c \in Config : NameOf(c) = call[g].name /\ ~ Aliased(c) /\ call[g].name \notin DOMAIN registry =>
      conn[c] = "closed" \/ InHand(c) \/ (conn[c] = "none" /\ failed)

(* No lookup reads the registry while it is being filled: the entry it     *)
(* misses will not appear later.                                           *)
NoPartialView ==
  \A g \in G : pc[g] = "lookup" =>
    /\ once = "done"
    /\ todo = {} \/ failed
    /\ \A h \in G : pc[h] \notin Initialising

(* Once the data sources are initialised, CloseAllDataSources leaves no    *)
(* connection open, whatever lookups and closes it raced with.             *)
CloseAllComplete ==
  [][\A g \in G : pc[g] = "closingAll" /\ pc'[g] = "idle" /\ once = "done" =>
       \A c \in Config : conn[c] = "open" => Aliased(c)]_vars

(* Every call returns.                                                     *)
Returns == \A g \in G : pc[g] # "idle" ~> pc[g] = "idle"

(* The connections go through the life the abstract pool allows.           *)
Pool == INSTANCE DataSourcePool WITH sealed <- (once = "done")

PoolSpec == Pool!Spec

=============================================================================
