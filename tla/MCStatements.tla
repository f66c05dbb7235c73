----------------------------- MODULE MCStatements -----------------------------
(***************************************************************************)
(* Two predicates that are independent of each other, and orders with two  *)
(* columns.                                                                *)
(***************************************************************************)
EXTENDS Statements, TLC

CONSTANTS p, q, orderId, amount

\* One row for each combination of the predicates.
MCRows  == 1..4
MCHolds == (p :> {1, 2}) @@ (q :> {1, 3})

MCInLists == {<<>>, <<q, p>>}

MCFields == {orderId, amount}
MCNameOf == (orderId :> "id") @@ (amount :> "amount")

OwnSchemas  == {<<>>, <<orderId, amount>>}

Payload(schema, keys, null) == [schema |-> schema, keys |-> keys, null |-> null]

\* Keys only; a schema with all values, or with some; nothing; a nil value.
MCPayloads == {
  Payload(<<>>, <<"amount", "id">>, {}),
  Payload(<<orderId, amount>>, <<"amount", "id">>, {}),
  Payload(<<orderId, amount>>, <<"amount">>, {}),
  Payload(<<>>, <<>>, {}),
  Payload(<<>>, <<"amount">>, {"amount"}) }

JoinText(shape, lead, on, marks) == [shape |-> shape, lead |-> lead, on |-> on, marks |-> marks]

MCJoins == {
  JoinText("blank", 0, <<MCRows>>, FALSE),
  JoinText("join", 1, <<{1, 4}>>, FALSE),
  JoinText("join", 0, <<{1, 4}>>, TRUE),
  JoinText("reversed", 0, <<MCRows>>, FALSE),
  JoinText("other", 0, <<MCRows>>, FALSE) }

\* Two leading blanks, and an OR in the ON condition.
OddJoins == {JoinText("join", 2, <<{4}, {1}>>, FALSE)}

=============================================================================
