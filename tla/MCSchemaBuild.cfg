\* Schemas that share fields, changed while a call reads them. It stops when nothing
\* more is built and the call has returned.
SPECIFICATION Spec
CONSTANTS
  Names = {"a", "b", "a.b"}
  Malformed = {"a.b"}
  Validators = {"min", "max"}
  Arguments <- MCArguments
  Documents <- MCDocuments
  Callers = {"c"}
  MaxFields = 2
  MaxSchemas = 3
  MaxList = 1
INVARIANTS
  Wellformed
  Inherits
  Between
CHECK_DEADLOCK FALSE
