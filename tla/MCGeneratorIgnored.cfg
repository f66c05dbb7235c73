\* Every shape of an entity, one of them with an ignored member of an unsupported type.
SPECIFICATION Spec
CONSTANTS
  Structs <- MCStructs
  NoStruct = NoStruct
  Members <- MCMembers
  GoTypes <- MCGoTypes
  KindOf <- MCKindOf
  SnakeCase <- MCSnakeCase
  Ignored = Ignored
  Exprs = {"users", "prefix", "s", "parens", "joined", "call", "half", "var", "quoted"}
  NoExpr = NoExpr
  Expr <- MCExpr
  Unknown = Unknown
  Adapters = {"sqlite", "postgres"}
  TypeMapping <- MCTypeMapping
  Entities = {"u", "v", "o"}
  EntityOrder <- MCOrder
  NameOf <- MCNameOf
  ToLower <- MCToLower
  Decls <- MCDecls
  Gone = Gone
  FirstSources <- MCFirstSources
  Projects <- MCProjects
  ToolModule = "xql"
  EntityPkg = "xql/entity"
  DriversOf <- MCDriversOf
  Selections = {{}, {"User"}, {"Nobody"}}
  NoProject = NoProject
  Torn = Torn
  MaxRuns = 1
  MaxEdits = 0
  Edited <- MCEdited
INVARIANT
  IgnoredIgnored
CHECK_DEADLOCK FALSE
