\* Two runs and an edit: what files they leave. It stops when the runs are spent.
SPECIFICATION FairSpec
CONSTANTS
  Structs <- MCStructs
  NoStruct = NoStruct
  Members <- MCMembers
  GoTypes <- MCGoTypes
  KindOf <- MCKindOf
  SnakeCase <- MCSnakeCase
  Ignored = Ignored
  Exprs = {"users", "prefix", "s", "parens", "joined", "call", "half", "var", "quoted"}
  NoExpr = NoExpr
  Expr <- MCExpr
  Unknown = Unknown
  Adapters = {"sqlite", "postgres"}
  TypeMapping <- MCTypeMapping
  Entities = {"u", "v", "o"}
  EntityOrder <- MCOrder
  NameOf <- MCNameOf
  ToLower <- MCToLower
  Decls <- MCDecls
  Gone = Gone
  FirstSources <- MCFirstSources
  Projects <- MCProjects
  ToolModule = "xql"
  EntityPkg = "xql/entity"
  DriversOf <- MCDriversOf
  Selections = {{}, {"User"}, {"Nobody"}}
  NoProject = NoProject
  Torn = Torn
  MaxRuns = 2
  MaxEdits = 1
  Edited <- MCEdited
INVARIANTS
  TypeOK
  UpToDate
  RefusedUntouched
  LeftBehind
  ColumnsExact
PROPERTIES
  Ends
CHECK_DEADLOCK FALSE
