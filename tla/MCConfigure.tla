---------------------------- MODULE MCConfigure -----------------------------
(* Two designs and two nodes for Configure.                                *)
EXTENDS Configure

\* With kwargs a graph gives another value than without.
ByDesignAndKwargs ==
  [c \in Config |-> IF c[2] = NoKwargs THEN "slow" ELSE "fast"]
=============================================================================
