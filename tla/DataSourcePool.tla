---------------------------- MODULE DataSourcePool ----------------------------
(***************************************************************************)
(* What sqlx/db.go promises of the connections to the configured data      *)
(* sources, whoever asks for them and in whatever order: each is opened at *)
(* most once, only while the pool is being set up, and one that has been   *)
(* closed is never open again.                                             *)
(***************************************************************************)
CONSTANT Config   \* the entries of the configuration

VARIABLES
  conn,     \* entry -> "none", "open" or "closed"
  sealed    \* the set-up is over

Init ==
  /\ conn = [c \in Config |-> "none"]
  /\ sealed = FALSE

Open(c) ==
  /\ ~ sealed
  /\ conn[c] = "none"
  /\ conn' = [conn EXCEPT ![c] = "open"]
  /\ UNCHANGED sealed

\* A connection may be closed by the step that ends the set-up.
Close(c) ==
  /\ conn[c] = "open"
  /\ conn' = [conn EXCEPT ![c] = "closed"]
  /\ sealed' \in {sealed, TRUE}

Seal ==
  /\ ~ sealed
  /\ sealed' = TRUE
  /\ UNCHANGED conn

Next == (\E c \in Config : Open(c) \/ Close(c)) \/ Seal

Spec == Init /\ [][Next]_<<conn, sealed>>

=============================================================================
