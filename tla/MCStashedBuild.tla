--------------------------- MODULE MCStashedBuild ---------------------------
(* A small graph for StashedBuild.                                         *)
EXTENDS StashedBuild

CONSTANTS a, b

\* a, which somebody has pushed, feeds b.
PairNodes == {a, b}
PairEdges == {<<a, b>>}
=============================================================================
