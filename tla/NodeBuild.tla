----------------------------- MODULE NodeBuild ------------------------------
(***************************************************************************)
(* What a build of an mflowgen graph promises, without Makefiles, stamps   *)
(* and times: a node starts only on good outputs of all its sources, these *)
(* stay as they are while it reads them, and its own outputs are good only *)
(* when they were accepted.  MakeBuild is shown to implement this module.  *)
(***************************************************************************)
EXTENDS Naturals

CONSTANTS
  Node,      \* the nodes of the graph
  Edge       \* pairs <<s, n>> of nodes: n reads the outputs of s

VARIABLES
  version,   \* which outputs a node has, 0 for none
  basis,     \* for an edge <<s, n>>: the version of s that n was made from
  good,      \* nodes whose outputs are complete and accepted
  reading,   \* nodes that read their sources and write their outputs
  pinned     \* nodes that keep their outputs whatever their sources become

vars == <<version, basis, good, reading, pinned>>

Sources(n) == {s \in Node : <<s, n>> \in Edge}

\* Nobody reads the outputs of a node of S, or writes them.
Quiet(S) == \A n \in reading : n \notin S /\ Sources(n) \cap S = {}

UpToDate(n) == \A s \in Sources(n) : basis[<<s, n>>] = version[s]

\* Some nodes may have been brought along from another build.
Init ==
  /\ good \subseteq Node /\ pinned \subseteq Node
  /\ good \subseteq pinned
  /\ version = [n \in Node |-> IF n \in good THEN 1 ELSE 0]
  /\ basis = [e \in Edge |-> 0]
  /\ reading = {}

\* A node starts on its sources as they are, and its outputs become new ones.
Begin(n) ==
  /\ Quiet({n})
  /\ Sources(n) \subseteq good \ {n}
  /\ version'[n] > version[n]
  /\ version' = [version EXCEPT ![n] = version'[n]]
  /\ basis' = [e \in Edge |-> IF e[2] = n THEN version[e[1]] ELSE basis[e]]
  /\ good' = good \ {n}
  /\ reading' = reading \cup {n}
  /\ UNCHANGED pinned

\* Some nodes stop reading: they are done, they failed, or all were killed.
End(S) ==
  /\ reading' = reading \ S
  /\ UNCHANGED <<version, basis, good, pinned>>

\* The outputs of a node are accepted; unless it is pinned, they were made from
\* what its sources have at this moment.
Accept(n) ==
  /\ n \notin reading
  /\ version[n] # 0
  /\ n \in pinned \/ UpToDate(n)
  /\ good' = good \cup {n}
  /\ UNCHANGED <<version, basis, reading, pinned>>

\* Outputs are removed, with everything that was known of them.
Discard(S) ==
  /\ Quiet(S)
  /\ version' = [n \in Node |-> IF n \in S THEN 0 ELSE version[n]]
  /\ basis' = [e \in Edge |-> IF e[2] \in S THEN 0 ELSE basis[e]]
  /\ good' = good \ S
  /\ pinned' = pinned \ S
  /\ UNCHANGED reading

Unpin(n) ==
  /\ pinned' = pinned \ {n}
  /\ UNCHANGED <<version, basis, good, reading>>

Next ==
  \/ \E n \in Node : Begin(n) \/ Accept(n) \/ Unpin(n)
  \/ \E S \in SUBSET Node : End(S) \/ Discard(S)

Spec == Init /\ [][Next]_vars
-----------------------------------------------------------------------------
\* While a node reads, nothing under it changes: the sources are good, and are
\* still the ones it started on.
ReadsAreStable ==
  \A n \in reading : Sources(n) \subseteq good /\ UpToDate(n)
=============================================================================
