CONSTANTS
  Base <- Four
  Wire <- FourWires
  HasParam <- FourParams
  Subgraph = {4}
  Port = {3}
  Lists <- OneTwoTwice
  Default = 0
  MaxSweeps = 2
  MaxNodes = 3
SPECIFICATION FairSpec
INVARIANTS
  TypeOK
  EdgesAgree
  HelperNeverRaises
  NameTellsValue
  OrderIsTopological
  RefusedOnlyIfStale
PROPERTIES
  SweepKeepsWiring
  SweptOnceIsDocumented
  SweepEnds
CHECK_DEADLOCK FALSE
