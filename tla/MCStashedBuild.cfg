CONSTANTS
  a = a
  b = b
  Node <- PairNodes
  Edge <- PairEdges
  Silent = {}
  Subgraph = {}
  Prebuilt = {}
  Pullable = {a}
  Age = {0, 1}
  MaxRuns = 3
SPECIFICATION SpecP
INVARIANTS
  FreshUnlessPulled
  ReadsUnlessBroken
