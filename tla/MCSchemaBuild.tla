---------------------------- MODULE MCSchemaBuild ----------------------------
(***************************************************************************)
(* Up to two fields and three schemas, and one call: with a name in the    *)
(* document and another in the URL, or without the second; one name is a   *)
(* path.                                                                   *)
(***************************************************************************)
EXTENDS SchemaBuild

\* Without "b", a field of that name is missing until Optional is called.
SomeDocuments == {[json |-> {"a"}, url |-> {"b"}], [json |-> {"a"}, url |-> {}]}

SomeArguments == {<<"min", "max">>, <<"min", "min">>}

(* What replaces a constant. TLC evaluates such a definition at every use,  *)
(* and the ones above once.                                                *)
MCDocuments == SomeDocuments
MCArguments == SomeArguments

=============================================================================
