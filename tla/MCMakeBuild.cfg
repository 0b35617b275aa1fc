CONSTANTS
  a = a
  b = b
  c = c
  Node <- ChainNodes
  Edge <- ChainEdges
  Silent = {c}
  Subgraph = {b}
  Prebuilt = {a}
  MaxRuns = 3
SPECIFICATION FairSpec
INVARIANTS
  TypeOK
  NoWriterUnderReader
  ReadsCheckedOutputs
  DoneMeansFresh
  SuccessIsStable
PROPERTIES
  NoNeedlessRebuild
  ImplementsNodeBuild
  MakeEnds
