\* A join statement with two leading blanks and an OR in its ON condition.
SPECIFICATION Spec
CONSTANTS
  p = p
  q = q
  orderId = orderId
  amount = amount
  Rows <- MCRows
  Preds = {p, q}
  Holds <- MCHolds
  InLists <- MCInLists
  Fields <- MCFields
  NameOf <- MCNameOf
  Schemas <- OwnSchemas
  Payloads <- MCPayloads
  NoPayload = NoPayload
  Joins <- OddJoins
  Mark = Mark
  MaxWheres = 1
  MaxSlots = 2
INVARIANTS
  JoinAsAsked
