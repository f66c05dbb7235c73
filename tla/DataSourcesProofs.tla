-------------------------- MODULE DataSourcesProofs --------------------------
(***************************************************************************)
(* Proofs about the data source registry for any number of goroutines and  *)
(* any configuration.                                                      *)
(***************************************************************************)
EXTENDS DataSources, TLAPS

(* One goroutine at a time initialises, and only while once is "running";  *)
(* what is still to be opened has not been opened, and an entry that was   *)
(* passed over is the mark of a failure.                                   *)
InitOnce ==
  /\ \A g \in G : pc[g] \in Initialising => once = "running"
  /\ \A g, h \in G : pc[g] \in Initialising /\ pc[h] \in Initialising => g = h
  /\ \A g \in G : pc[g] = "lookup" => once = "done"
  /\ once = "done" => todo = {} \/ failed
  /\ failed => once = "done"
  /\ \A c \in todo : conn[c] = "none"
  /\ \A c \in Config : conn[c] = "none" => c \in todo \/ failed

(* The lock is held by exactly the goroutine that is closing.              *)
Locked == \A g \in G : pc[g] \in {"closing", "closingAll"} <=> writer = g

Holding == {"ping", "publish", "closing"}

(* A connection in somebody's hands is open, in nobody else's, and not     *)
(* registered.                                                             *)
Hands ==
  /\ \A g \in G : pc[g] \in Holding =>
       /\ cur[g] \in Config
       /\ conn[cur[g]] = "open"
       /\ \A n \in DOMAIN registry : registry[n] # cur[g]
  /\ \A g, h \in G : pc[g] \in Holding /\ pc[h] \in Holding /\ cur[g] = cur[h] => g = h

Inv == TypeOK /\ InitOnce /\ Locked /\ Hands /\ RegisteredOpen /\ NoLeak

(* Types, given that whoever publishes or closes has an entry in hand. *)
LEMMA TypeStep == Inv /\ [Next]_vars => TypeOK'
<1> SUFFICES ASSUME Inv, [Next]_vars PROVE TypeOK'
  OBVIOUS
<1> USE DEF Inv, TypeOK, Hands, Holding, Initialising
<1>0. CASE UNCHANGED vars
  BY <1>0 DEF vars
<1>1. ASSUME NEW g \in G, NEW op \in {"GetDS", "DefaultDS"}, NEW n \in Names \cup {Empty}, CallLookup(g, op, n)
      PROVE  TypeOK'
  BY NameAssumption, <1>1 DEF CallLookup, Begins, NameOf, Step, initVars, regVars
<1>2. ASSUME NEW g \in G, NEW n \in Names \cup {Empty}, CallClose(g, n)
      PROVE  TypeOK'
  BY NameAssumption, <1>2 DEF CallClose, Begins, NameOf, Step, initVars, regVars
<1>3. ASSUME NEW g \in G, CallCloseAll(g)
      PROVE  TypeOK'
  BY NameAssumption, <1>3 DEF CallCloseAll, Begins, Step, initVars, regVars
<1>4. ASSUME NEW g \in G, EnterOnce(g)
      PROVE  TypeOK'
  BY <1>4 DEF EnterOnce, Step, initVars, regVars
<1>5. ASSUME NEW g \in G, PassOnce(g)
      PROVE  TypeOK'
  BY <1>5 DEF PassOnce, Step, initVars, regVars
<1>6. ASSUME NEW g \in G, LoadConfig(g)
      PROVE  TypeOK'
  BY <1>6 DEF LoadConfig, EndInit, Step, initVars, regVars
<1>7. ASSUME NEW g \in G, NEW c \in Config, OpenEntry(g, c)
      PROVE  TypeOK'
  BY <1>7 DEF OpenEntry, Step, initVars, regVars
<1>8. ASSUME NEW g \in G, NEW c \in Config, RefuseEntry(g, c)
      PROVE  TypeOK'
  BY <1>8 DEF RefuseEntry, EndInit, Step, initVars, regVars
<1>9. ASSUME NEW g \in G, NoMoreEntries(g)
      PROVE  TypeOK'
  BY <1>9 DEF NoMoreEntries, EndInit, Step, initVars, regVars
<1>10. ASSUME NEW g \in G, PingOk(g)
      PROVE  TypeOK'
  BY <1>10 DEF PingOk, Step, initVars, regVars
<1>11. ASSUME NEW g \in G, PingFails(g)
      PROVE  TypeOK'
  BY <1>11 DEF PingFails, EndInit, Step, initVars, regVars
<1>12. ASSUME NEW g \in G, Publish(g)
      PROVE  TypeOK'
  BY NameAssumption, <1>12 DEF Publish, With, NameOf, Step, initVars, regVars
<1>13. ASSUME NEW g \in G, Lookup(g)
      PROVE  TypeOK'
  BY <1>13 DEF Lookup, Answer, Registered, Step, initVars, regVars
<1>14. ASSUME NEW g \in G, CloseNothing(g)
      PROVE  TypeOK'
  BY NameAssumption, <1>14 DEF CloseNothing, Step, initVars, regVars
<1>15. ASSUME NEW g \in G, CloseOne(g)
      PROVE  TypeOK'
  BY NameAssumption, <1>15 DEF CloseOne, Without, Step, initVars, regVars
<1>16. ASSUME NEW g \in G, CloseConn(g)
      PROVE  TypeOK'
  BY NameAssumption, <1>16 DEF CloseConn, Step, initVars, regVars
<1>17. ASSUME NEW g \in G, LockAll(g)
      PROVE  TypeOK'
  BY NameAssumption, <1>17 DEF LockAll, Step, initVars, regVars
<1>18. ASSUME NEW g \in G, NEW n \in Names, CloseEach(g, n)
      PROVE  TypeOK'
  BY <1>18 DEF CloseEach, Without, Step, initVars, regVars
<1>19. ASSUME NEW g \in G, UnlockAll(g)
      PROVE  TypeOK'
  BY NameAssumption, <1>19 DEF UnlockAll, Step, initVars, regVars
<1> HIDE DEF Inv, TypeOK, Hands, Holding, Initialising
<1>20. ASSUME NEW g \in G, Call(g) PROVE TypeOK'
  BY NameAssumption, <1>1, <1>2, <1>3, <1>20 DEF Call
<1>21. ASSUME NEW g \in G, Initialise(g) PROVE TypeOK'
  BY <1>4, <1>5, <1>6, <1>7, <1>8, <1>9, <1>10, <1>11, <1>21 DEF Initialise
<1>22. ASSUME NEW g \in G, Acquire(g) PROVE TypeOK'
  BY <1>12, <1>13, <1>14, <1>15, <1>17, <1>22 DEF Acquire
<1>23. ASSUME NEW g \in G, Closing(g) PROVE TypeOK'
  BY <1>16, <1>18, <1>19, <1>23 DEF Closing
<1>24. QED
  BY <1>0, <1>20, <1>21, <1>22, <1>23 DEF Next

(* The initialisation stays the business of one goroutine. *)
LEMMA InitOnceStep == Inv /\ [Next]_vars => InitOnce'
<1> SUFFICES ASSUME Inv, [Next]_vars PROVE InitOnce'
  OBVIOUS
<1> USE DEF Inv, TypeOK, InitOnce, Hands, Holding, Initialising
<1>0. CASE UNCHANGED vars
  BY <1>0 DEF vars
<1>1. ASSUME NEW g \in G, NEW op \in {"GetDS", "DefaultDS"}, NEW n \in Names \cup {Empty}, CallLookup(g, op, n)
      PROVE  InitOnce'
  BY NameAssumption, <1>1 DEF CallLookup, Begins, Step, initVars, regVars
<1>2. ASSUME NEW g \in G, NEW n \in Names \cup {Empty}, CallClose(g, n)
      PROVE  InitOnce'
  BY NameAssumption, <1>2 DEF CallClose, Begins, Step, initVars, regVars
<1>3. ASSUME NEW g \in G, CallCloseAll(g)
      PROVE  InitOnce'
  BY NameAssumption, <1>3 DEF CallCloseAll, Begins, Step, initVars, regVars
<1>4. ASSUME NEW g \in G, EnterOnce(g)
      PROVE  InitOnce'
  BY <1>4 DEF EnterOnce, Step, initVars, regVars
<1>5. ASSUME NEW g \in G, PassOnce(g)
      PROVE  InitOnce'
  BY <1>5 DEF PassOnce, Step, initVars, regVars
<1>6. ASSUME NEW g \in G, LoadConfig(g)
      PROVE  InitOnce'
  <2>1. CASE Step(g, "config", "next") /\ UNCHANGED <<once, failed>>
    BY <1>6, <2>1 DEF LoadConfig, Step, initVars, regVars
  <2>2. CASE EndInit(g, "config", TRUE)
    BY <1>6, <2>2 DEF LoadConfig, EndInit, Step, initVars, regVars
  <2>3. QED
    BY <1>6, <2>1, <2>2 DEF LoadConfig
<1>7. ASSUME NEW g \in G, NEW c \in Config, OpenEntry(g, c)
      PROVE  InitOnce'
  BY <1>7 DEF OpenEntry, Step, initVars, regVars
<1>8. ASSUME NEW g \in G, NEW c \in Config, RefuseEntry(g, c)
      PROVE  InitOnce'
  BY <1>8 DEF RefuseEntry, EndInit, Step, initVars, regVars
<1>9. ASSUME NEW g \in G, NoMoreEntries(g)
      PROVE  InitOnce'
  BY <1>9 DEF NoMoreEntries, EndInit, Step, initVars, regVars
<1>10. ASSUME NEW g \in G, PingOk(g)
      PROVE  InitOnce'
  BY <1>10 DEF PingOk, Step, initVars, regVars
<1>11. ASSUME NEW g \in G, PingFails(g)
      PROVE  InitOnce'
  BY <1>11 DEF PingFails, EndInit, Step, initVars, regVars
<1>12. ASSUME NEW g \in G, Publish(g)
      PROVE  InitOnce'
  BY NameAssumption, <1>12 DEF Publish, With, NameOf, Step, initVars, regVars
<1>13. ASSUME NEW g \in G, Lookup(g)
      PROVE  InitOnce'
  BY <1>13 DEF Lookup, Answer, Registered, Step, initVars, regVars
<1>14. ASSUME NEW g \in G, CloseNothing(g)
      PROVE  InitOnce'
  BY NameAssumption, <1>14 DEF CloseNothing, Step, initVars, regVars
<1>15. ASSUME NEW g \in G, CloseOne(g)
      PROVE  InitOnce'
  BY NameAssumption, <1>15 DEF CloseOne, Without, Step, initVars, regVars
<1>16. ASSUME NEW g \in G, CloseConn(g)
      PROVE  InitOnce'
  BY NameAssumption, <1>16 DEF CloseConn, Step, initVars, regVars
<1>17. ASSUME NEW g \in G, LockAll(g)
      PROVE  InitOnce'
  BY NameAssumption, <1>17 DEF LockAll, Step, initVars, regVars
<1>18. ASSUME NEW g \in G, NEW n \in Names, CloseEach(g, n)
      PROVE  InitOnce'
  BY <1>18 DEF CloseEach, Without, RegisteredOpen, Step, initVars, regVars
<1>19. ASSUME NEW g \in G, UnlockAll(g)
      PROVE  InitOnce'
  BY NameAssumption, <1>19 DEF UnlockAll, Step, initVars, regVars
<1> HIDE DEF Inv, TypeOK, InitOnce, Hands, Holding, Initialising
<1>20. ASSUME NEW g \in G, Call(g) PROVE InitOnce'
  BY NameAssumption, <1>1, <1>2, <1>3, <1>20 DEF Call
<1>21. ASSUME NEW g \in G, Initialise(g) PROVE InitOnce'
  BY <1>4, <1>5, <1>6, <1>7, <1>8, <1>9, <1>10, <1>11, <1>21 DEF Initialise
<1>22. ASSUME NEW g \in G, Acquire(g) PROVE InitOnce'
  BY <1>12, <1>13, <1>14, <1>15, <1>17, <1>22 DEF Acquire
<1>23. ASSUME NEW g \in G, Closing(g) PROVE InitOnce'
  BY <1>16, <1>18, <1>19, <1>23 DEF Closing
<1>24. QED
  BY <1>0, <1>20, <1>21, <1>22, <1>23 DEF Next

(* The lock changes hands only through Lock and Unlock. *)
LEMMA LockedStep == Inv /\ [Next]_vars => Locked'
<1> SUFFICES ASSUME Inv, [Next]_vars PROVE Locked'
  OBVIOUS
<1> USE DEF Inv, TypeOK, Locked, Initialising
<1>0. CASE UNCHANGED vars
  BY <1>0 DEF vars
<1>1. ASSUME NEW g \in G, NEW op \in {"GetDS", "DefaultDS"}, NEW n \in Names \cup {Empty}, CallLookup(g, op, n)
      PROVE  Locked'
  BY NameAssumption, <1>1 DEF CallLookup, Begins, Step, initVars, regVars
<1>2. ASSUME NEW g \in G, NEW n \in Names \cup {Empty}, CallClose(g, n)
      PROVE  Locked'
  BY NameAssumption, <1>2 DEF CallClose, Begins, Step, initVars, regVars
<1>3. ASSUME NEW g \in G, CallCloseAll(g)
      PROVE  Locked'
  BY NameAssumption, <1>3 DEF CallCloseAll, Begins, Step, initVars, regVars
<1>4. ASSUME NEW g \in G, EnterOnce(g)
      PROVE  Locked'
  BY <1>4 DEF EnterOnce, Step, initVars, regVars
<1>5. ASSUME NEW g \in G, PassOnce(g)
      PROVE  Locked'
  BY <1>5 DEF PassOnce, Step, initVars, regVars
<1>6. ASSUME NEW g \in G, LoadConfig(g)
      PROVE  Locked'
  BY <1>6 DEF LoadConfig, EndInit, Step, initVars, regVars
<1>7. ASSUME NEW g \in G, NEW c \in Config, OpenEntry(g, c)
      PROVE  Locked'
  BY <1>7 DEF OpenEntry, Step, initVars, regVars
<1>8. ASSUME NEW g \in G, NEW c \in Config, RefuseEntry(g, c)
      PROVE  Locked'
  BY <1>8 DEF RefuseEntry, EndInit, Step, initVars, regVars
<1>9. ASSUME NEW g \in G, NoMoreEntries(g)
      PROVE  Locked'
  BY <1>9 DEF NoMoreEntries, EndInit, Step, initVars, regVars
<1>10. ASSUME NEW g \in G, PingOk(g)
      PROVE  Locked'
  BY <1>10 DEF PingOk, Step, initVars, regVars
<1>11. ASSUME NEW g \in G, PingFails(g)
      PROVE  Locked'
  BY <1>11 DEF PingFails, EndInit, Step, initVars, regVars
<1>12. ASSUME NEW g \in G, Publish(g)
      PROVE  Locked'
  BY NameAssumption, <1>12 DEF Publish, With, NameOf, Step, initVars, regVars
<1>13. ASSUME NEW g \in G, Lookup(g)
      PROVE  Locked'
  BY <1>13 DEF Lookup, Answer, Registered, Step, initVars, regVars
<1>14. ASSUME NEW g \in G, CloseNothing(g)
      PROVE  Locked'
  BY NameAssumption, <1>14 DEF CloseNothing, Step, initVars, regVars
<1>15. ASSUME NEW g \in G, CloseOne(g)
      PROVE  Locked'
  BY NameAssumption, <1>15 DEF CloseOne, Without, Step, initVars, regVars
<1>16. ASSUME NEW g \in G, CloseConn(g)
      PROVE  Locked'
  BY NameAssumption, <1>16 DEF CloseConn, Step, initVars, regVars
<1>17. ASSUME NEW g \in G, LockAll(g)
      PROVE  Locked'
  BY NameAssumption, <1>17 DEF LockAll, Step, initVars, regVars
<1>18. ASSUME NEW g \in G, NEW n \in Names, CloseEach(g, n)
      PROVE  Locked'
  BY <1>18 DEF CloseEach, Without, Step, initVars, regVars
<1>19. ASSUME NEW g \in G, UnlockAll(g)
      PROVE  Locked'
  BY NameAssumption, <1>19 DEF UnlockAll, Step, initVars, regVars
<1> HIDE DEF Inv, TypeOK, Locked, Initialising
<1>20. ASSUME NEW g \in G, Call(g) PROVE Locked'
  BY NameAssumption, <1>1, <1>2, <1>3, <1>20 DEF Call
<1>21. ASSUME NEW g \in G, Initialise(g) PROVE Locked'
  BY <1>4, <1>5, <1>6, <1>7, <1>8, <1>9, <1>10, <1>11, <1>21 DEF Initialise
<1>22. ASSUME NEW g \in G, Acquire(g) PROVE Locked'
  BY <1>12, <1>13, <1>14, <1>15, <1>17, <1>22 DEF Acquire
<1>23. ASSUME NEW g \in G, Closing(g) PROVE Locked'
  BY <1>16, <1>18, <1>19, <1>23 DEF Closing
<1>24. QED
  BY <1>0, <1>20, <1>21, <1>22, <1>23 DEF Next

(* A connection is never in two hands: one that is opened is new, and one   *)
(* that is closed has just left the registry.                               *)
LEMMA HandsStep == Inv /\ [Next]_vars => Hands'
<1> SUFFICES ASSUME Inv, [Next]_vars PROVE Hands'
  OBVIOUS
<1> USE DEF Inv, TypeOK, InitOnce, Locked, Hands, Holding, RegisteredOpen, Initialising
<1>0. CASE UNCHANGED vars
  BY <1>0 DEF vars
<1>1. ASSUME NEW g \in G, NEW op \in {"GetDS", "DefaultDS"}, NEW n \in Names \cup {Empty}, CallLookup(g, op, n)
      PROVE  Hands'
  BY NameAssumption, <1>1 DEF CallLookup, Begins, Step, initVars, regVars
<1>2. ASSUME NEW g \in G, NEW n \in Names \cup {Empty}, CallClose(g, n)
      PROVE  Hands'
  BY NameAssumption, <1>2 DEF CallClose, Begins, Step, initVars, regVars
<1>3. ASSUME NEW g \in G, CallCloseAll(g)
      PROVE  Hands'
  BY NameAssumption, <1>3 DEF CallCloseAll, Begins, Step, initVars, regVars
<1>4. ASSUME NEW g \in G, EnterOnce(g)
      PROVE  Hands'
  BY <1>4 DEF EnterOnce, Step, initVars, regVars
<1>5. ASSUME NEW g \in G, PassOnce(g)
      PROVE  Hands'
  BY <1>5 DEF PassOnce, Step, initVars, regVars
<1>6. ASSUME NEW g \in G, LoadConfig(g)
      PROVE  Hands'
  <2>1. CASE Step(g, "config", "next") /\ UNCHANGED <<once, failed>>
    BY <1>6, <2>1 DEF LoadConfig, Step, initVars, regVars
  <2>2. CASE EndInit(g, "config", TRUE)
    BY <1>6, <2>2 DEF LoadConfig, EndInit, Step, initVars, regVars
  <2>3. QED
    BY <1>6, <2>1, <2>2 DEF LoadConfig
<1>7. ASSUME NEW g \in G, NEW c \in Config, OpenEntry(g, c)
      PROVE  Hands'
  BY <1>7 DEF OpenEntry, Step, initVars, regVars
<1>8. ASSUME NEW g \in G, NEW c \in Config, RefuseEntry(g, c)
      PROVE  Hands'
  BY <1>8 DEF RefuseEntry, EndInit, Step, initVars, regVars
<1>9. ASSUME NEW g \in G, NoMoreEntries(g)
      PROVE  Hands'
  BY <1>9 DEF NoMoreEntries, EndInit, Step, initVars, regVars
<1>10. ASSUME NEW g \in G, PingOk(g)
      PROVE  Hands'
  BY <1>10 DEF PingOk, Step, initVars, regVars
<1>11. ASSUME NEW g \in G, PingFails(g)
      PROVE  Hands'
  BY <1>11 DEF PingFails, EndInit, Step, initVars, regVars
<1>12. ASSUME NEW g \in G, Publish(g)
      PROVE  Hands'
  BY NameAssumption, <1>12 DEF Publish, With, NameOf, Step, initVars, regVars
<1>13. ASSUME NEW g \in G, Lookup(g)
      PROVE  Hands'
  BY <1>13 DEF Lookup, Answer, Registered, Step, initVars, regVars
<1>14. ASSUME NEW g \in G, CloseNothing(g)
      PROVE  Hands'
  BY NameAssumption, <1>14 DEF CloseNothing, Step, initVars, regVars
<1>15. ASSUME NEW g \in G, CloseOne(g)
      PROVE  Hands'
  BY NameAssumption, <1>15 DEF CloseOne, Without, Step, initVars, regVars
<1>16. ASSUME NEW g \in G, CloseConn(g)
      PROVE  Hands'
  BY NameAssumption, <1>16 DEF CloseConn, Step, initVars, regVars
<1>17. ASSUME NEW g \in G, LockAll(g)
      PROVE  Hands'
  BY NameAssumption, <1>17 DEF LockAll, Step, initVars, regVars
<1>18. ASSUME NEW g \in G, NEW n \in Names, CloseEach(g, n)
      PROVE  Hands'
  BY <1>18 DEF CloseEach, Without, Step, initVars, regVars
<1>19. ASSUME NEW g \in G, UnlockAll(g)
      PROVE  Hands'
  BY NameAssumption, <1>19 DEF UnlockAll, Step, initVars, regVars
<1> HIDE DEF Inv, TypeOK, InitOnce, Locked, Hands, Holding, RegisteredOpen, Initialising
<1>20. ASSUME NEW g \in G, Call(g) PROVE Hands'
  BY NameAssumption, <1>1, <1>2, <1>3, <1>20 DEF Call
<1>21. ASSUME NEW g \in G, Initialise(g) PROVE Hands'
  BY <1>4, <1>5, <1>6, <1>7, <1>8, <1>9, <1>10, <1>11, <1>21 DEF Initialise
<1>22. ASSUME NEW g \in G, Acquire(g) PROVE Hands'
  BY <1>12, <1>13, <1>14, <1>15, <1>17, <1>22 DEF Acquire
<1>23. ASSUME NEW g \in G, Closing(g) PROVE Hands'
  BY <1>16, <1>18, <1>19, <1>23 DEF Closing
<1>24. QED
  BY <1>0, <1>20, <1>21, <1>22, <1>23 DEF Next

(* What is registered stays open: it is closed only after it was removed. *)
LEMMA RegisteredStep == Inv /\ [Next]_vars => RegisteredOpen'
<1> SUFFICES ASSUME Inv, [Next]_vars PROVE RegisteredOpen'
  OBVIOUS
<1> USE DEF Inv, TypeOK, InitOnce, Hands, Holding, RegisteredOpen, Initialising
<1>0. CASE UNCHANGED vars
  BY <1>0 DEF vars
<1>1. ASSUME NEW g \in G, NEW op \in {"GetDS", "DefaultDS"}, NEW n \in Names \cup {Empty}, CallLookup(g, op, n)
      PROVE  RegisteredOpen'
  BY NameAssumption, <1>1 DEF CallLookup, Begins, Step, initVars, regVars
<1>2. ASSUME NEW g \in G, NEW n \in Names \cup {Empty}, CallClose(g, n)
      PROVE  RegisteredOpen'
  BY NameAssumption, <1>2 DEF CallClose, Begins, Step, initVars, regVars
<1>3. ASSUME NEW g \in G, CallCloseAll(g)
      PROVE  RegisteredOpen'
  BY NameAssumption, <1>3 DEF CallCloseAll, Begins, Step, initVars, regVars
<1>4. ASSUME NEW g \in G, EnterOnce(g)
      PROVE  RegisteredOpen'
  BY <1>4 DEF EnterOnce, Step, initVars, regVars
<1>5. ASSUME NEW g \in G, PassOnce(g)
      PROVE  RegisteredOpen'
  BY <1>5 DEF PassOnce, Step, initVars, regVars
<1>6. ASSUME NEW g \in G, LoadConfig(g)
      PROVE  RegisteredOpen'
  BY <1>6 DEF LoadConfig, EndInit, Step, initVars, regVars
<1>7. ASSUME NEW g \in G, NEW c \in Config, OpenEntry(g, c)
      PROVE  RegisteredOpen'
  BY <1>7 DEF OpenEntry, Step, initVars, regVars
<1>8. ASSUME NEW g \in G, NEW c \in Config, RefuseEntry(g, c)
      PROVE  RegisteredOpen'
  BY <1>8 DEF RefuseEntry, EndInit, Step, initVars, regVars
<1>9. ASSUME NEW g \in G, NoMoreEntries(g)
      PROVE  RegisteredOpen'
  BY <1>9 DEF NoMoreEntries, EndInit, Step, initVars, regVars
<1>10. ASSUME NEW g \in G, PingOk(g)
      PROVE  RegisteredOpen'
  BY <1>10 DEF PingOk, Step, initVars, regVars
<1>11. ASSUME NEW g \in G, PingFails(g)
      PROVE  RegisteredOpen'
  BY <1>11 DEF PingFails, EndInit, Step, initVars, regVars
<1>12. ASSUME NEW g \in G, Publish(g)
      PROVE  RegisteredOpen'
  BY NameAssumption, <1>12 DEF Publish, With, NameOf, Step, initVars, regVars
<1>13. ASSUME NEW g \in G, Lookup(g)
      PROVE  RegisteredOpen'
  BY <1>13 DEF Lookup, Answer, Registered, Step, initVars, regVars
<1>14. ASSUME NEW g \in G, CloseNothing(g)
      PROVE  RegisteredOpen'
  BY NameAssumption, <1>14 DEF CloseNothing, Step, initVars, regVars
<1>15. ASSUME NEW g \in G, CloseOne(g)
      PROVE  RegisteredOpen'
  BY NameAssumption, <1>15 DEF CloseOne, Without, Step, initVars, regVars
<1>16. ASSUME NEW g \in G, CloseConn(g)
      PROVE  RegisteredOpen'
  BY NameAssumption, <1>16 DEF CloseConn, Step, initVars, regVars
<1>17. ASSUME NEW g \in G, LockAll(g)
      PROVE  RegisteredOpen'
  BY NameAssumption, <1>17 DEF LockAll, Step, initVars, regVars
<1>18. ASSUME NEW g \in G, NEW n \in Names, CloseEach(g, n)
      PROVE  RegisteredOpen'
  BY <1>18 DEF CloseEach, Without, Step, initVars, regVars
<1>19. ASSUME NEW g \in G, UnlockAll(g)
      PROVE  RegisteredOpen'
  BY NameAssumption, <1>19 DEF UnlockAll, Step, initVars, regVars
<1> HIDE DEF Inv, TypeOK, InitOnce, Hands, Holding, RegisteredOpen, Initialising
<1>20. ASSUME NEW g \in G, Call(g) PROVE RegisteredOpen'
  BY NameAssumption, <1>1, <1>2, <1>3, <1>20 DEF Call
<1>21. ASSUME NEW g \in G, Initialise(g) PROVE RegisteredOpen'
  BY <1>4, <1>5, <1>6, <1>7, <1>8, <1>9, <1>10, <1>11, <1>21 DEF Initialise
<1>22. ASSUME NEW g \in G, Acquire(g) PROVE RegisteredOpen'
  BY <1>12, <1>13, <1>14, <1>15, <1>17, <1>22 DEF Acquire
<1>23. ASSUME NEW g \in G, Closing(g) PROVE RegisteredOpen'
  BY <1>16, <1>18, <1>19, <1>23 DEF Closing
<1>24. QED
  BY <1>0, <1>20, <1>21, <1>22, <1>23 DEF Next

(* An open connection passes from hand to registry to hand. *)
LEMMA LeakStep == Inv /\ [Next]_vars => NoLeak'
<1> SUFFICES ASSUME Inv, [Next]_vars PROVE NoLeak'
  OBVIOUS
<1> USE DEF Inv, TypeOK, InitOnce, Locked, Hands, Holding, RegisteredOpen, NoLeak, InHand,
           Aliased, Initialising
<1>0. CASE UNCHANGED vars
  BY <1>0 DEF vars
<1>1. ASSUME NEW g \in G, NEW op \in {"GetDS", "DefaultDS"}, NEW n \in Names \cup {Empty}, CallLookup(g, op, n)
      PROVE  NoLeak'
  BY NameAssumption, <1>1 DEF CallLookup, Begins, Step, initVars, regVars
<1>2. ASSUME NEW g \in G, NEW n \in Names \cup {Empty}, CallClose(g, n)
      PROVE  NoLeak'
  BY NameAssumption, <1>2 DEF CallClose, Begins, Step, initVars, regVars
<1>3. ASSUME NEW g \in G, CallCloseAll(g)
      PROVE  NoLeak'
  BY NameAssumption, <1>3 DEF CallCloseAll, Begins, Step, initVars, regVars
<1>4. ASSUME NEW g \in G, EnterOnce(g)
      PROVE  NoLeak'
  BY <1>4 DEF EnterOnce, Step, initVars, regVars
<1>5. ASSUME NEW g \in G, PassOnce(g)
      PROVE  NoLeak'
  BY <1>5 DEF PassOnce, Step, initVars, regVars
<1>6. ASSUME NEW g \in G, LoadConfig(g)
      PROVE  NoLeak'
  BY <1>6 DEF LoadConfig, EndInit, Step, initVars, regVars
<1>7. ASSUME NEW g \in G, NEW c \in Config, OpenEntry(g, c)
      PROVE  NoLeak'
  BY <1>7 DEF OpenEntry, Step, initVars, regVars
<1>8. ASSUME NEW g \in G, NEW c \in Config, RefuseEntry(g, c)
      PROVE  NoLeak'
  BY <1>8 DEF RefuseEntry, EndInit, Step, initVars, regVars
<1>9. ASSUME NEW g \in G, NoMoreEntries(g)
      PROVE  NoLeak'
  BY <1>9 DEF NoMoreEntries, EndInit, Step, initVars, regVars
<1>10. ASSUME NEW g \in G, PingOk(g)
      PROVE  NoLeak'
  BY <1>10 DEF PingOk, Step, initVars, regVars
<1>11. ASSUME NEW g \in G, PingFails(g)
      PROVE  NoLeak'
  BY <1>11 DEF PingFails, EndInit, Step, initVars, regVars
<1>12. ASSUME NEW g \in G, Publish(g)
      PROVE  NoLeak'
  BY NameAssumption, <1>12 DEF Publish, With, NameOf, Step, initVars, regVars
<1>13. ASSUME NEW g \in G, Lookup(g)
      PROVE  NoLeak'
  BY <1>13 DEF Lookup, Answer, Registered, Step, initVars, regVars
<1>14. ASSUME NEW g \in G, CloseNothing(g)
      PROVE  NoLeak'
  BY NameAssumption, <1>14 DEF CloseNothing, Step, initVars, regVars
<1>15. ASSUME NEW g \in G, CloseOne(g)
      PROVE  NoLeak'
  BY NameAssumption, <1>15 DEF CloseOne, Without, Step, initVars, regVars
<1>16. ASSUME NEW g \in G, CloseConn(g)
      PROVE  NoLeak'
  BY NameAssumption, <1>16 DEF CloseConn, Step, initVars, regVars
<1>17. ASSUME NEW g \in G, LockAll(g)
      PROVE  NoLeak'
  BY NameAssumption, <1>17 DEF LockAll, Step, initVars, regVars
<1>18. ASSUME NEW g \in G, NEW n \in Names, CloseEach(g, n)
      PROVE  NoLeak'
  BY <1>18 DEF CloseEach, Without, Step, initVars, regVars
<1>19. ASSUME NEW g \in G, UnlockAll(g)
      PROVE  NoLeak'
  BY NameAssumption, <1>19 DEF UnlockAll, Step, initVars, regVars
<1> HIDE DEF Inv, TypeOK, InitOnce, Locked, Hands, Holding, RegisteredOpen, NoLeak, InHand,
           Aliased, Initialising
<1>20. ASSUME NEW g \in G, Call(g) PROVE NoLeak'
  BY NameAssumption, <1>1, <1>2, <1>3, <1>20 DEF Call
<1>21. ASSUME NEW g \in G, Initialise(g) PROVE NoLeak'
  BY <1>4, <1>5, <1>6, <1>7, <1>8, <1>9, <1>10, <1>11, <1>21 DEF Initialise
<1>22. ASSUME NEW g \in G, Acquire(g) PROVE NoLeak'
  BY <1>12, <1>13, <1>14, <1>15, <1>17, <1>22 DEF Acquire
<1>23. ASSUME NEW g \in G, Closing(g) PROVE NoLeak'
  BY <1>16, <1>18, <1>19, <1>23 DEF Closing
<1>24. QED
  BY <1>0, <1>20, <1>21, <1>22, <1>23 DEF Next

-----------------------------------------------------------------------------
LEMMA InvInit == Init => Inv
<1> SUFFICES ASSUME Init PROVE Inv
  OBVIOUS
<1> USE NameAssumption DEF Init
<1>1. TypeOK
  BY DEF TypeOK, Initialising
<1>2. InitOnce
  BY DEF InitOnce, Initialising
<1>3. Locked /\ Hands
  BY DEF Locked, Hands, Holding
<1>4. RegisteredOpen /\ NoLeak
  BY DEF RegisteredOpen, NoLeak
<1>5. QED
  BY <1>1, <1>2, <1>3, <1>4 DEF Inv

LEMMA InvStep == Inv /\ [Next]_vars => Inv'
  BY TypeStep, InitOnceStep, LockedStep, HandsStep, RegisteredStep, LeakStep DEF Inv

(* The inductive invariant.                                                *)
THEOREM Invariance == Spec => []Inv
  BY InvInit, InvStep, PTL DEF Spec

(* TypeOK: the variables have their types, for any goroutines and any      *)
(* configuration; in particular no entry is registered under the empty     *)
(* name (registerDataSource).                                              *)
THEOREM TypeCorrect == Spec => []TypeOK
<1>1. Inv => TypeOK
  BY DEF Inv
<1>2. QED
  BY <1>1, Invariance, PTL

(* RegisteredOpen: what dsRegistry holds is open and under its own name.   *)
THEOREM RegistryIsOpen == Spec => []RegisteredOpen
<1>1. Inv => RegisteredOpen
  BY DEF Inv
<1>2. QED
  BY <1>1, Invariance, PTL

(* NoLeak: registerDataSource, CloseDataSource and CloseAllDataSources     *)
(* together lose no open connection.                                       *)
THEOREM NothingLeaks == Spec => []NoLeak
<1>1. Inv => NoLeak
  BY DEF Inv
<1>2. QED
  BY <1>1, Invariance, PTL

(* NoPartialView: GetDS and DefaultDS read the registry after the          *)
(* initialisation, whoever ran it.                                         *)
THEOREM LookupsSeeAll == Spec => []NoPartialView
<1>1. Inv => NoPartialView
  BY DEF Inv, InitOnce, NoPartialView
<1>2. QED
  BY <1>1, Invariance, PTL

(* MissExplained: a lookup finds nothing only for the reasons GetDS has.   *)
THEOREM MissesExplained == Spec => []MissExplained
<1>1. Inv => MissExplained
  <2> SUFFICES ASSUME Inv, NEW g \in G, pc[g] = "lookup", NEW c \in Config,
                      NameOf(c) = call[g].name, ~ Aliased(c), call[g].name \notin DOMAIN registry
               PROVE  conn[c] = "closed" \/ InHand(c) \/ (conn[c] = "none" /\ failed)
    BY DEF MissExplained
  <2>1. CASE conn[c] = "open"
    BY <2>1 DEF Inv, NoLeak
  <2>2. CASE conn[c] = "none"
    BY <2>2 DEF Inv, InitOnce
  <2>3. QED
    BY <2>1, <2>2 DEF Inv, TypeOK
<1>2. QED
  BY <1>1, Invariance, PTL

(* A goroutine leaves a label only by a step of its own from that label.   *)
LEMMA OwnStep ==
  ASSUME TypeOK, NEW g \in G, NEW h \in G, NEW from, NEW to, Step(h, from, to),
         pc'[g] # pc[g]
  PROVE  g = h /\ pc[g] = from /\ pc'[g] = to
  BY DEF TypeOK, Step

(* The step in which a lookup, or CloseAllDataSources, returns.            *)
LEMMA ReturningStep ==
  ASSUME TypeOK, Next, NEW g \in G, pc'[g] = "idle"
  PROVE  /\ pc[g] = "lookup" => Lookup(g)
         /\ pc[g] = "closingAll" => UnlockAll(g)
<1> SUFFICES ASSUME pc[g] \in {"lookup", "closingAll"}
             PROVE  Lookup(g) \/ (pc[g] = "closingAll" /\ UnlockAll(g))
  BY DEF UnlockAll, Lookup, Step
<1>1. PICK h \in G : Call(h) \/ Initialise(h) \/ Acquire(h) \/ Closing(h)
  BY DEF Next
<1>2. ~ Call(h)
  BY OwnStep DEF Call, CallLookup, CallClose, CallCloseAll
<1>3. ~ Initialise(h)
  <2>1. ~ (EnterOnce(h) \/ PassOnce(h) \/ PingOk(h) \/ PingFails(h) \/ NoMoreEntries(h))
    BY OwnStep DEF EnterOnce, PassOnce, PingOk, PingFails, NoMoreEntries, EndInit
  <2>2. ~ LoadConfig(h)
    BY OwnStep DEF LoadConfig, EndInit
  <2>3. ~ \E c \in Config : OpenEntry(h, c) \/ RefuseEntry(h, c)
    BY OwnStep DEF OpenEntry, RefuseEntry, EndInit
  <2>4. QED
    BY <2>1, <2>2, <2>3 DEF Initialise
<1>4. Acquire(h) => Lookup(g)
  BY OwnStep DEF Acquire, Publish, Lookup, CloseNothing, CloseOne, LockAll
<1>5. Closing(h) => pc[g] = "closingAll" /\ UnlockAll(g)
  BY OwnStep DEF Closing, CloseConn, CloseEach, UnlockAll
<1>6. QED
  BY <1>1, <1>2, <1>3, <1>4, <1>5

(* CloseAllComplete: nothing is open when CloseAllDataSources returns,     *)
(* once the data sources are initialised.                                  *)
THEOREM CloseAllClosesAll == Spec => CloseAllComplete
<1> DEFINE A == \A g \in G : pc[g] = "closingAll" /\ pc'[g] = "idle" /\ once = "done" =>
                  \A c \in Config : conn[c] = "open" => Aliased(c)
<1>1. Inv /\ [Next]_vars => [A]_vars
  <2> SUFFICES ASSUME Inv, Next, NEW g \in G, pc[g] = "closingAll", pc'[g] = "idle", once = "done",
                      NEW c \in Config, conn[c] = "open"
               PROVE  Aliased(c)
    OBVIOUS
  <2>1. UnlockAll(g)
    BY ReturningStep DEF Inv
  <2>2. ~ InHand(c)
    BY DEF Inv, InitOnce, Locked, InHand, Initialising
  <2>3. QED
    BY <2>1, <2>2 DEF Inv, NoLeak, UnlockAll
<1>2. QED
  BY <1>1, Invariance, PTL DEF Spec, CloseAllComplete

(* The registry implements the abstract pool: a connection is opened at    *)
(* most once and only during the initialisation, and stays closed.         *)
THEOREM ImplementsPool == Spec => PoolSpec
<1>1. Init => Pool!Init
  BY DEF Init, Pool!Init
<1>2. Inv /\ [Next]_vars => [Pool!Next]_<<conn, once = "done">>
  <2> SUFFICES ASSUME Inv, [Next]_vars
               PROVE  Pool!Next \/ UNCHANGED <<conn, once = "done">>
    OBVIOUS
  <2> USE DEF Inv, TypeOK, InitOnce, Hands, Holding, Initialising
  <2>0. CASE UNCHANGED vars
    BY <2>0 DEF vars
  <2>1. ASSUME NEW g \in G, Call(g)
        PROVE  UNCHANGED <<conn, once = "done">>
    BY <2>1 DEF Call, CallLookup, CallClose, CallCloseAll, initVars
  <2>2. ASSUME NEW g \in G, EnterOnce(g) \/ PassOnce(g) \/ PingOk(g)
        PROVE  UNCHANGED <<conn, once = "done">>
    BY <2>2 DEF EnterOnce, PassOnce, PingOk, initVars
  <2>3. ASSUME NEW g \in G, LoadConfig(g)
        PROVE  Pool!Seal \/ UNCHANGED <<conn, once = "done">>
    <3>1. CASE Step(g, "config", "next") /\ UNCHANGED <<once, failed>>
      BY <2>3, <3>1 DEF LoadConfig
    <3>2. CASE EndInit(g, "config", TRUE)
      BY <2>3, <3>2 DEF LoadConfig, EndInit, Step, Pool!Seal
    <3>3. QED
      BY <2>3, <3>1, <3>2 DEF LoadConfig
  <2>4. ASSUME NEW g \in G, NEW c \in Config, OpenEntry(g, c)
        PROVE  Pool!Open(c)
    BY <2>4 DEF OpenEntry, Step, Pool!Open
  <2>5. ASSUME NEW g \in G, NEW c \in Config, RefuseEntry(g, c)
        PROVE  Pool!Seal
    BY <2>5 DEF RefuseEntry, EndInit, Step, Pool!Seal
  <2>6. ASSUME NEW g \in G, NoMoreEntries(g)
        PROVE  Pool!Seal
    BY <2>6 DEF NoMoreEntries, EndInit, Step, Pool!Seal
  <2>7. ASSUME NEW g \in G, PingFails(g)
        PROVE  \E c \in Config : Pool!Close(c)
    BY <2>7 DEF PingFails, EndInit, Step, Pool!Close
  <2>8. ASSUME NEW g \in G, Acquire(g) \/ UnlockAll(g)
        PROVE  UNCHANGED <<conn, once = "done">>
    BY <2>8 DEF Acquire, Publish, Lookup, CloseNothing, CloseOne, LockAll, UnlockAll, initVars
  <2>9. ASSUME NEW g \in G, CloseConn(g)
        PROVE  \E c \in Config : Pool!Close(c)
    BY <2>9 DEF CloseConn, Step, Pool!Close, initVars
  <2>10. ASSUME NEW g \in G, NEW n \in Names, CloseEach(g, n)
         PROVE  \E c \in Config : Pool!Close(c)
    BY <2>10 DEF CloseEach, RegisteredOpen, Pool!Close, initVars
  <2>11. QED
    BY <2>0, <2>1, <2>2, <2>3, <2>4, <2>5, <2>6, <2>7, <2>8, <2>9, <2>10
       DEF Next, Initialise, Closing, Pool!Next
<1>3. QED
  BY <1>1, <1>2, Invariance, PTL DEF Spec, PoolSpec, Pool!Spec

=============================================================================
