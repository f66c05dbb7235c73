\* Two goroutines, with fairness: safety, the abstract pool, and every call returns.
SPECIFICATION FairSpec
CONSTANTS
  g1 = g1
  g2 = g2
  G <- Two
  Names <- MCNames
  Empty = ""
  Default = "default"
  Config <- ThreeSources
  NoDB = NoDB
  Nobody = Nobody
INVARIANTS
  TypeOK
  RegisteredOpen
  NoLeak
  MissExplained
  NoPartialView
PROPERTIES
  CloseAllComplete
  PoolSpec
  Returns
