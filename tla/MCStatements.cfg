\* Up to four Where values: every executor on every one of them.
SPECIFICATION Spec
CONSTANTS
  p = p
  q = q
  orderId = orderId
  amount = amount
  Rows <- MCRows
  Preds = {p, q}
  Holds <- MCHolds
  InLists <- MCInLists
  Fields <- MCFields
  NameOf <- MCNameOf
  Schemas <- OwnSchemas
  Payloads <- MCPayloads
  NoPayload = NoPayload
  Joins <- MCJoins
  Mark = Mark
  MaxWheres = 4
  MaxSlots = 3
INVARIANTS
  TypeOK
  Bound
  FilterExact
  Filtered
  RefusedExplained
  RowsComplete
