----------------------------- MODULE MCBuildIds -----------------------------
(* A few nodes, run after run on any graph over them.                      *)
EXTENDS BuildIds

CONSTANTS foo, bar, baz

Pair == {foo, bar}

Three == {foo, bar, baz}
=============================================================================
