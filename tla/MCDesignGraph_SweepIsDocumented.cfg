CONSTANTS
  Base <- Four
  Wire <- FourWires
  HasParam <- FourParams
  Subgraph = {}
  Port = {}
  Lists <- OneTwoTwice
  Default = 0
  MaxSweeps = 1
  MaxNodes = 4
SPECIFICATION Spec
PROPERTY SweepIsDocumented
CHECK_DEADLOCK FALSE
