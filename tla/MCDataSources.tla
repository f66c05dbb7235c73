---------------------------- MODULE MCDataSources ----------------------------
(***************************************************************************)
(* The registry with two goroutines, three configured data sources and a   *)
(* name that nobody configured.                                            *)
(***************************************************************************)
EXTENDS DataSources

CONSTANTS g1, g2

MCNames == {"default", "orders", "unknown"}
\* With an entry for the empty key, which stands for "default" as well.
ThreeSources == {"", "default", "orders"}

Two == {g1, g2}

=============================================================================
