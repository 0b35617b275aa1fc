--------------------------- MODULE MCDesignGraph ----------------------------
(* Small designs for DesignGraph.                                          *)
EXTENDS DesignGraph

\* Among the acyclic graphs on these wires are the chain, the triangle of the
\* comment in param_space, the diamond, and paths that go back in the alphabet.
Four == 2 .. 5
FourWires == {<<2, 3>>, <<2, 4>>, <<3, 4>>, <<3, 5>>, <<4, 5>>, <<5, 3>>}

\* Node 4 lacks the parameter.
FourParams == {<<2, 1>>, <<3, 1>>, <<5, 1>>}

OneTwoTwice == {<<1>>, <<1, 2>>, <<2, 2>>}
=============================================================================
