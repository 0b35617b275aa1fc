CONSTANTS
  foo = foo
  bar = bar
  baz = baz
  Node <- Pair
  MaxRuns = 3
SPECIFICATION Spec
INVARIANT PushTakesGivenNode
