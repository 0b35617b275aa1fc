----------------------------- MODULE DesignGraph ----------------------------
(***************************************************************************)
(* The graph a construct script builds, and what mflowgen run makes of it. *)
(*                                                                         *)
(* The script adds nodes, connects them by the names of their files and    *)
(* may sweep a parameter with param_space.  A sweep replaces a node by one *)
(* instance per value and then walks downstream: each dependent node is    *)
(* removed, replicated and wired to the instances of its sources, by a     *)
(* recursive helper whose call stack is the variable stack.  The name of   *)
(* an instance is the name of its node followed by "-param-value": here, a *)
(* base name and the sequence of the <<param, value>> pairs appended to it.*)
(*                                                                         *)
(* The files of a node are not told apart: an edge is a pair of names, a   *)
(* handle is a name.                                                       *)
(***************************************************************************)
EXTENDS Naturals, Sequences, FiniteSets, SequencesExt

CONSTANTS
  Base,        \* names of the nodes the script may add, in sorted order
  Wire,        \* pairs of Base: an output of one is called as an input of the other
  HasParam,    \* pairs <<b, p>>: node b has a parameter p
  Subgraph,    \* nodes that are Subgraph objects
  Port,        \* nodes whose inputs or outputs may become those of the graph
  Lists,       \* the lists of values a sweep may be given
  Default,     \* the value of parameters in the YAML of the nodes
  MaxSweeps,   \* bound: how many times param_space is called
  MaxNodes     \* bound: how many nodes a graph may have for a second sweep

ASSUME GraphAssumption ==
  /\ Base \subseteq Nat \ {0, 1}
  /\ Wire \subseteq Base \X Base
  /\ Subgraph \subseteq Base /\ Port \subseteq Base

\* Parameters and values are numbers, like nodes.
ASSUME ValueAssumption == HasParam \subseteq Base \X Nat /\ Default \in Nat

ASSUME ListsAssumption == \A l \in Lists : l \in Seq(Nat) /\ Len(l) > 0

ASSUME BoundAssumption == MaxSweeps \in Nat

VARIABLES
  nodes,       \* keys of _nodes
  edgesIn,     \* all edges in the lists of _edges_i
  edgesOut,    \* all edges in the lists of _edges_o
  subgraphs,   \* keys of _subgraphs
  value,       \* parameters of the nodes
  inputs,      \* handles given to add_input
  outputs,     \* handles given to add_output
  sweep,       \* node, parameter and values of the running param_space
  newSrc,      \* keys of new_src_map: nodes replaced by their instances
  visited,     \* nodes the helper was called for
  stack,       \* for each call at work, the dependent nodes it has yet to do
  before,      \* the graph when the last sweep began
  sweeps,      \* number of sweeps
  status,      \* "script", "raised" by a sweep, "ready" or "refused" by the run
  order        \* the build order

graph == <<nodes, edgesIn, edgesOut, subgraphs, value>>
ports == <<inputs, outputs>>
walk == <<sweep, newSrc, visited, stack, before, sweeps>>
vars == <<graph, ports, walk, status, order>>

-----------------------------------------------------------------------------
(* Names.                                                                  *)

Name(b) == <<b, <<>>>>

Instance(n, p, v) == <<n[1], Append(n[2], <<p, v>>)>>

InputNode == Name(0)
OutputNode == Name(1)

Params(n) == {hp[2] : hp \in {x \in HasParam : x[1] = n[1]}}

\* Sorted by the base name, then pair by pair.  This is the order of the strings
\* when no base name is another one with "-..." after it and the values of a list
\* sort as their strings do; otherwise the sort breaks ties between nodes that
\* are ready in the same round in another order.
Precedes(m, n) ==
  \/ m[1] < n[1]
  \/ /\ m[1] = n[1]
     /\ \/ m[2] # n[2] /\ IsPrefix(m[2], n[2])
        \/ \E i \in DOMAIN m[2] \cap DOMAIN n[2] :
             /\ \A j \in 1 .. i - 1 : m[2][j] = n[2][j]
             /\ \/ m[2][i][1] < n[2][i][1]
                \/ m[2][i][1] = n[2][i][1] /\ m[2][i][2] < n[2][i][2]

Sorted(S) ==
  [i \in 1 .. Cardinality(S) |->
     CHOOSE n \in S : Cardinality({m \in S : Precedes(m, n)}) = i - 1]

SourcesIn(E, n) == {e[1] : e \in {x \in E : x[2] = n}}
Dependents(E, n) == {e[2] : e \in {x \in E : x[1] = n}}

\* The nodes a change of n reaches, n included: a notion of this specification.
Cone(G, n) ==
  LET f[k \in 0 .. Cardinality(G.nodes)] ==
        IF k = 0 THEN {n}
        ELSE LET near == f[k - 1] IN
             near \cup {e[2] : e \in {x \in G.edges : x[1] \in near}}
  IN f[Cardinality(G.nodes)]

Idle == [root |-> Name(0), param |-> 0, values |-> <<>>]
Sweeping == sweep # Idle

\* Mutant: one round of sources, then everything else.
SettledInTwoRounds(S, E) ==
  [k \in 0 .. Cardinality(S) |->
     CASE k = 0 -> {} [] k = 1 -> {n \in S : SourcesIn(E, n) = {}} [] OTHER -> S]

\* The nodes of S without edges from elsewhere than the rounds before.
Settled(S, E) ==
  LET f[k \in 0 .. Cardinality(S)] ==
        IF k = 0 THEN {}
        ELSE LET done == f[k - 1] IN {n \in S : SourcesIn(E, n) \subseteq done}
  IN f

\* topological_sort: round by round, each of them sorted; what no round
\* settles is missing, which the code turns into an AssertionError.
TopologicalSort(S, E) ==
  LET round == Settled(S, E) IN
  FlattenSeq([k \in 1 .. Cardinality(S) |-> Sorted(round[k] \ round[k - 1])])

Within(S) == {e \in edgesIn : e[1] \in S /\ e[2] \in S}
-----------------------------------------------------------------------------
(* Building the graph.                                                     *)

Init ==
  /\ nodes = {} /\ edgesIn = {} /\ edgesOut = {} /\ subgraphs = {}
  /\ value = <<>>
  /\ inputs = {} /\ outputs = {}
  /\ sweep = Idle /\ newSrc = {} /\ visited = {} /\ stack = <<>>
  /\ before = [nodes |-> {}, edges |-> {}, value |-> <<>>]
  /\ sweeps = 0 /\ status = "script" /\ order = <<>>

Scripting == status = "script" /\ ~Sweeping

\* Bounds: a script goes on until its last sweep, after the first only while the
\* graph is small.
Building ==
  /\ Scripting
  /\ sweeps < MaxSweeps
  /\ sweeps = 0 \/ Cardinality(nodes) <= MaxNodes

\* A Node whose parameters have the values of its YAML.
Configured(b) == [p \in Params(Name(b)) |-> Default]

\* Assumed of the script: it adds a node of one name once, also when a sweep has
\* taken that name away since.  The code asks only that no node has it now.
AddNode(b) ==
  /\ Building
  /\ \A n \in nodes : n[1] # b
  /\ nodes' = nodes \cup {Name(b)}
  /\ subgraphs' = IF b \in Subgraph THEN subgraphs \cup {Name(b)} ELSE subgraphs
  /\ value' = [n \in nodes' |->
                 IF n = Name(b) THEN Configured(b) ELSE value[n]]
  /\ UNCHANGED <<edgesIn, edgesOut, ports, walk, status, order>>

Connect(s, d) ==
  /\ edgesIn' = edgesIn \cup {<<s, d>>}
  /\ edgesOut' = edgesOut \cup {<<s, d>>}

\* Outputs of s meet inputs of d by their names.  Assumed of the script: it makes
\* no cycle.  The code finds one when the run sorts the graph, and refuses.
ConnectByName(s, d) ==
  /\ Building
  /\ s \in nodes /\ d \in nodes
  /\ <<s[1], d[1]>> \in Wire
  /\ s \notin Cone([nodes |-> nodes, edges |-> edgesIn], d)
  /\ Connect(s, d)
  /\ UNCHANGED <<nodes, subgraphs, value, ports, walk, status, order>>

AddInput(n) ==
  /\ Building /\ n \in nodes /\ n[1] \in Port
  /\ inputs' = inputs \cup {n}
  /\ UNCHANGED <<graph, outputs, walk, status, order>>

AddOutput(n) ==
  /\ Building /\ n \in nodes /\ n[1] \in Port
  /\ outputs' = outputs \cup {n}
  /\ UNCHANGED <<graph, inputs, walk, status, order>>

\* Mutant: every node gets the parameter.
WithParamAdded(n, p, v) ==
  [q \in Params(n) \cup {p} |-> IF q = p THEN v ELSE value[n][q]]

\* A parameter the node does not have is not added to it.
WithParam(n, p, v) == [q \in Params(n) |-> IF q = p THEN v ELSE value[n][q]]

\* "Please make sure to only run param_space after those calls."
UpdateParams(p, v) ==
  /\ Scripting /\ sweeps = 0
  /\ value' = [n \in nodes |-> WithParam(n, p, v)]
  /\ UNCHANGED <<nodes, edgesIn, edgesOut, subgraphs, ports, walk, status, order>>
-----------------------------------------------------------------------------
(* param_space                                                             *)

\* Mutant: the edges into n stay.
ReplacedEdgesStay(n, new, wires) ==
  /\ nodes' = (nodes \ {n}) \cup new
  /\ edgesIn' = edgesIn \cup wires
  /\ edgesOut' = edgesOut \cup wires

\* Mutant: the lists of outgoing edges keep the edges into n.
ReplacedInOnly(n, new, wires) ==
  /\ nodes' = (nodes \ {n}) \cup new
  /\ edgesIn' = {e \in edgesIn : e[2] # n} \cup wires
  /\ edgesOut' = edgesOut \cup wires

\* n and the edges into it are removed, new nodes and edges take their place.
\* The edges out of n stay until its dependents are replaced in turn.
Replaced(n, new, wires) ==
  /\ nodes' = (nodes \ {n}) \cup new
  /\ edgesIn' = {e \in edgesIn : e[2] # n} \cup wires
  /\ edgesOut' = {e \in edgesOut : e[2] # n} \cup wires

\* Mutant: instances keep the value of their node.
ClonedAlike(n, p, new) ==
  value' = [m \in (nodes \ {n}) \cup new |-> IF m \in new THEN value[n] ELSE value[m]]

\* clone, set_name and set_param: a parameter the node lacks is passed over.
Cloned(n, p, new) ==
  value' = [m \in (nodes \ {n}) \cup new |->
              IF m \in new THEN WithParam(n, p, Last(m[2])[2]) ELSE value[m]]

\* add_node does not meet the name of an instance in the graph already.
Fresh(n, p, l) == \A v \in ToSet(l) : Instance(n, p, v) \notin nodes

Distinct(l) == Cardinality(ToSet(l)) = Len(l)

\* Mutant: dependents are taken from the incoming edges.
PendingOwnSources(n) == Sorted(SourcesIn(edgesOut, n))

\* The direct dependents, sorted among themselves.
Pending(n) ==
  LET deps == Dependents(edgesOut, n) IN TopologicalSort(deps, Within(deps))

ParamSpace(n, p, l) ==
  /\ Building
  /\ n \in nodes
  /\ p \in Params(n) /\ Distinct(l)
  /\ sweep' = [root |-> n, param |-> p, values |-> l]
  /\ LET new == {Instance(n, p, v) : v \in ToSet(l)} IN
       /\ Replaced(n, new, SourcesIn(edgesIn, n) \X new)
       /\ Cloned(n, p, new)
  /\ newSrc' = {n} /\ visited' = {} /\ stack' = <<Pending(n)>>
  /\ before' = [nodes |-> nodes, edges |-> edgesIn, value |-> value]
  /\ sweeps' = sweeps + 1
  /\ UNCHANGED <<subgraphs, ports, status, order>>

\* set_param does not find the parameter, or add_node meets a value twice.
ParamSpaceRaises(n, p, l) ==
  /\ Building
  /\ n \in nodes
  /\ p \notin Params(n) \/ ~Distinct(l)
  /\ status' = "raised"
  /\ UNCHANGED <<graph, ports, walk, order>>

Top == stack[Len(stack)]

\* The recursive call for the next dependent node of the innermost call.
Calls(m) == Sweeping /\ stack # <<>> /\ Top # <<>> /\ m = Head(Top)

Popped == [stack EXCEPT ![Len(stack)] = Tail(@)]

\* Mutant: the call does not get on to the next dependent node.
HelperReturnsToSame(m) == Calls(m) /\ m \in visited /\ UNCHANGED vars

HelperReturnsAtOnce(m) ==
  /\ Calls(m)
  /\ m \in visited
  /\ stack' = Popped
  /\ UNCHANGED <<graph, ports, sweep, newSrc, visited, before, sweeps, status, order>>

\* new_src_map[s][i], or s itself when s was not replaced (yet).
SourceFor(s, v) == IF s \in newSrc THEN Instance(s, sweep.param, v) ELSE s

\* Mutant: every instance is wired to all instances of its sources.
WiresToAll(m) ==
  {<<SourceFor(s, v), Instance(m, sweep.param, u)>> :
     s \in SourcesIn(edgesIn, m), u, v \in ToSet(sweep.values)}

Wires(m) ==
  {<<SourceFor(s, v), Instance(m, sweep.param, v)>> :
     s \in SourcesIn(edgesIn, m), v \in ToSet(sweep.values)}

\* get_node finds the node and all the sources its instances are wired to.
Resolves(m) == m \in nodes /\ \A w \in Wires(m) : w[1] \in nodes

\* Mutant: the helper forgets where it was.
HelperForgets(m) ==
  /\ Calls(m)
  /\ m \notin visited
  /\ Resolves(m) /\ Fresh(m, sweep.param, sweep.values)
  /\ LET new == {Instance(m, sweep.param, v) : v \in ToSet(sweep.values)} IN
       /\ Replaced(m, new, Wires(m))
       /\ Cloned(m, sweep.param, new)
  /\ newSrc' = newSrc \cup {m}
  /\ stack' = Append(Popped, Pending(m))
  /\ UNCHANGED <<visited, subgraphs, ports, sweep, before, sweeps, status, order>>

Helper(m) ==
  /\ Calls(m)
  /\ m \notin visited
  /\ Resolves(m) /\ Fresh(m, sweep.param, sweep.values)
  /\ LET new == {Instance(m, sweep.param, v) : v \in ToSet(sweep.values)} IN
       /\ Replaced(m, new, Wires(m))
       /\ Cloned(m, sweep.param, new)
  /\ visited' = visited \cup {m}
  /\ newSrc' = newSrc \cup {m}
  /\ stack' = Append(Popped, Pending(m))
  /\ UNCHANGED <<subgraphs, ports, sweep, before, sweeps, status, order>>

HelperDone ==
  /\ Sweeping /\ Top = <<>>
  /\ stack' = Front(stack)
  /\ IF Len(stack) = 1
       THEN sweep' = Idle /\ newSrc' = {} /\ visited' = {}
       ELSE UNCHANGED <<sweep, newSrc, visited>>
  /\ UNCHANGED <<graph, ports, before, sweeps, status, order>>
-----------------------------------------------------------------------------
(* mflowgen run takes the graph.                                           *)

\* generate_input_node for a graph that is run as a subgraph, and
\* generate_output_node; their edges carry the names the handles had.
Generated(asSubgraph) ==
  LET I == IF asSubgraph THEN inputs ELSE {} IN
  [nodes |-> (IF I = {} THEN {} ELSE {InputNode})
               \cup (IF outputs = {} THEN {} ELSE {OutputNode}),
   edges |-> ({InputNode} \X I) \cup (outputs \X {OutputNode})]

\* BuildOrchestrator looks up its subgraphs, sorts the graph, and looks up
\* every node of the order; an edge may bring a name into the sort that is
\* not in the graph.  The metadata name the neighbours of a node, where they
\* can be looked up.
Launch(asSubgraph) ==
  LET gen == Generated(asSubgraph)
      N == nodes \cup gen.nodes
      E == edgesIn \cup gen.edges
      keys == N \cup {e[2] : e \in E}
      sorted == TopologicalSort(keys, E)
  IN /\ Scripting
     /\ nodes' = N /\ edgesIn' = E /\ edgesOut' = edgesOut \cup gen.edges
     /\ value' = [n \in N |-> IF n \in nodes THEN value[n] ELSE <<>>]
     /\ order' = sorted
     /\ status' = IF /\ subgraphs \subseteq N
                     /\ Len(sorted) = Cardinality(keys) /\ keys \subseteq N
                    THEN "ready" ELSE "refused"
     /\ UNCHANGED <<subgraphs, ports, walk>>

SweepStep ==
  \/ \E m \in IF stack = <<>> THEN {} ELSE ToSet(Top)  : HelperReturnsAtOnce(m) \/ Helper(m)
  \/ HelperDone

Next ==
  \/ \E b \in Base : AddNode(b)
  \/ \E s \in nodes, d \in nodes : ConnectByName(s, d)
  \/ \E n \in nodes : AddInput(n) \/ AddOutput(n)
  \/ \E p \in {hp[2] : hp \in HasParam}, v \in {Default + 1} : UpdateParams(p, v)
  \/ \E n \in nodes, p \in {hp[2] : hp \in HasParam}, l \in Lists :
       ParamSpace(n, p, l) \/ ParamSpaceRaises(n, p, l)
  \/ SweepStep
  \/ \E asSubgraph \in BOOLEAN : Launch(asSubgraph)

Spec == Init /\ [][Next]_vars

\* Python goes on with a sweep once it was called.
FairSpec == Spec /\ WF_vars(SweepStep)
-----------------------------------------------------------------------------
(* Properties.                                                             *)

IsName(n) == n[1] \in Base \cup {0, 1} /\ n[2] \in Seq(Nat \X Nat)

\* Every variable keeps its type.
TypeOK ==
  /\ \A n \in nodes \cup subgraphs \cup inputs \cup outputs : IsName(n)
  /\ \A e \in edgesIn \cup edgesOut : IsName(e[1]) /\ IsName(e[2])
  /\ DOMAIN value = nodes
  /\ \A n \in nodes : value[n] \in [Params(n) -> Nat]
  /\ newSrc \cup visited \subseteq before.nodes \cup newSrc
  /\ status \in {"script", "raised", "ready", "refused"}
  /\ sweeps \in 0 .. MaxSweeps /\ (stack = <<>>) = ~Sweeping
  /\ order \in Seq(nodes \cup inputs \cup outputs)

\* The two adjacency lists tell the same story, and outside a sweep all they
\* speak of is in the graph: a replaced node leaves nothing behind, although
\* its edges are removed by three different calls.
EdgesAgree ==
  /\ edgesIn = edgesOut
  /\ ~Sweeping /\ status = "script" => edgesIn \subseteq nodes \X nodes

\* Whatever the recursion has replaced, the helper finds the node it is called
\* for and every source its instances are to be wired to (no KeyError), and the
\* names of the instances are free (no AssertionError).
HelperNeverRaises ==
  stack # <<>> /\ Top # <<>> /\ Head(Top) \notin visited =>
    Resolves(Head(Top)) /\ Fresh(Head(Top), sweep.param, sweep.values)

\* The name of a build directory tells what it was built with: a node has the
\* last value appended to its name for each of its parameters.
NameTellsValue ==
  \A n \in nodes : \A i \in 1 .. Len(n[2]) :
    n[2][i][1] \in Params(n)
      /\ (\A j \in i + 1 .. Len(n[2]) : n[2][j][1] # n[2][i][1])
    => value[n][n[2][i][1]] = n[2][i][2]

\* The node of the graph before the sweep that n is, or comes from.
Origin(n) ==
  CHOOSE o \in before.nodes :
    /\ o[1] = n[1] /\ IsPrefix(o[2], n[2])
    /\ \A q \in before.nodes :
         q[1] = n[1] /\ IsPrefix(q[2], n[2]) => Len(q[2]) <= Len(o[2])

\* A sweep replaces what is downstream of its node and nothing else, and every
\* instance gets each input once: from the source that its node had, or from
\* one instance of that source.
SweepKeepsWiring ==
  [][Sweeping /\ sweep' = Idle =>
       /\ {Origin(n) : n \in nodes'} = before.nodes
       /\ nodes' \cap before.nodes = before.nodes \ Cone(before, sweep.root)
       /\ \A n \in nodes' :
            LET now == SourcesIn(edgesIn', n)
                then == SourcesIn(before.edges, Origin(n))
            IN /\ {Origin(s) : s \in now} = then
               /\ Cardinality(now) = Cardinality(then)]_vars

\* "The expansion propagates to all downstream nodes, resulting in three
\* slightly different builds" (docs/ug-param-space.rst): one instance for each
\* value, each wired to the instances with its own value.
Documented ==
  LET C == Cone(before, sweep.root)
      Of(n, v) == IF n \in C THEN Instance(n, sweep.param, v) ELSE n
  IN [nodes |-> {Of(n, v) : n \in before.nodes, v \in ToSet(sweep.values)},
      edges |-> {<<Of(e[1], v), Of(e[2], v)>> :
                   e \in before.edges, v \in ToSet(sweep.values)}]

SweepIsDocumented ==
  [][Sweeping /\ sweep' = Idle =>
       nodes' = Documented.nodes /\ edgesIn' = Documented.edges]_vars

\* The way it can go wrong is the only one: when no node was replicated twice,
\* the graph is the documented one, whatever the order of the walk.
SweptOnceIsDocumented ==
  [][Sweeping /\ sweep' = Idle
       /\ (\A n \in nodes' : Len(n[2]) <= Len(Origin(n)[2]) + 1) =>
       nodes' = Documented.nodes /\ edgesIn' = Documented.edges]_vars

\* A build order has every node once and all sources of a node before it.
OrderIsTopological ==
  status = "ready" =>
    /\ ToSet(order) = nodes /\ Len(order) = Cardinality(nodes)
    /\ \A e \in edgesIn : \A i, j \in DOMAIN order :
         e = <<order[i], order[j]>> => i < j

\* A graph whose script succeeded is refused only when a handle or a Subgraph
\* names a node that a sweep replaced after it was taken.
RefusedOnlyIfStale ==
  status = "refused" => ~(inputs \cup outputs \cup subgraphs \subseteq nodes)

\* A sweep comes to its end: the recursion meets ever new instances, but not
\* for ever.
SweepEnds == Sweeping ~> ~Sweeping
=============================================================================
