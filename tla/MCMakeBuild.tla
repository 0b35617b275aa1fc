---------------------------- MODULE MCMakeBuild ----------------------------
(* A small graph for MakeBuild.                                            *)
EXTENDS MakeBuild

CONSTANTS a, b, c

\* a feeds b, b feeds c.
ChainNodes == {a, b, c}
ChainEdges == {<<a, b>>, <<b, c>>}
=============================================================================
