CONSTANTS
  foo = foo
  bar = bar
  baz = baz
  Node <- Three
  MaxRuns = 4
SPECIFICATION FairSpec
INVARIANTS
  TypeOK
  UniqueIds
  EveryNodeNumbered
  NumbersPreserved
PROPERTY
  RunEnds
