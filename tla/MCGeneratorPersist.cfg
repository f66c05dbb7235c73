\* An entity with two names in a declaration and a struct of another file.
SPECIFICATION Spec
CONSTANTS
  Structs <- MCStructs
  NoStruct = NoStruct
  Members <- MCMembers
  GoTypes <- MCGoTypes
  KindOf <- MCKindOf
  SnakeCase <- MCSnakeCase
  Ignored = Ignored
  Exprs = {"users", "prefix", "s", "parens", "joined", "call", "half", "var", "quoted"}
  NoExpr = NoExpr
  Expr <- MCExpr
  Unknown = Unknown
  Adapters = {"sqlite", "postgres"}
  TypeMapping <- MCTypeMapping
  Entities = {"u", "v", "o"}
  EntityOrder <- MCOrder
  NameOf <- MCNameOf
  ToLower <- MCToLower
  Decls <- MCDecls
  Gone = Gone
  FirstSources <- MCApart
  Projects <- MCProjects
  ToolModule = "xql"
  EntityPkg = "xql/entity"
  DriversOf <- MCDriversOf
  Selections = {{}, {"User"}, {"Nobody"}}
  NoProject = NoProject
  Torn = Torn
  MaxRuns = 1
  MaxEdits = 0
  Edited <- MCEdited
INVARIANT
  AllPersist
CHECK_DEADLOCK FALSE
