------------------------------ MODULE BuildIds ------------------------------
(***************************************************************************)
(* The numbers of the nodes over a series of "mflowgen run".               *)
(*                                                                         *)
(* A build directory is called N-node.  Each run of mflowgen configures a  *)
(* graph, perhaps another one than before, in the directory where earlier  *)
(* graphs were built: set_unique_build_ids() lets the directories it finds *)
(* claim their numbers, in the order os.listdir happens to yield them, and *)
(* then numbers the remaining nodes in topological order, skipping claimed *)
(* numbers.  Between runs make creates the directories of the configured   *)
(* nodes and the clean targets remove them.                                *)
(***************************************************************************)
EXTENDS Integers, Sequences, FiniteSets

CONSTANTS
  Node,      \* all the nodes any of the graphs has
  MaxRuns    \* bound: how many times mflowgen is run

ASSUME NodeAssumption == IsFiniteSet(Node)

VARIABLES
  dirs,      \* the build directories on disk, pairs <<number, node>>
  order,     \* s.order: the nodes of the graph, topologically sorted
  build_ids, \* s.build_ids: a number for some of the nodes of order
  stage,     \* "none" | "scan" | "assign" | "configured"
  listing,   \* directories os.listdir has yet to yield
  pos,       \* the node of order that is to be numbered next
  i,         \* the counter of the numbering loop
  runs

vars == <<dirs, order, build_ids, stage, listing, pos, i, runs>>

Members(s) == {s[k] : k \in DOMAIN s}

\* Any graph over any of the nodes, in any order a sort may find.
Orders == UNION {{s \in [1..Cardinality(S) -> S] : Members(s) = S} : S \in SUBSET Node}

Claimed == {build_ids[n] : n \in DOMAIN build_ids}

Numbered(n, id) ==
  build_ids' = [m \in DOMAIN build_ids \cup {n} |-> IF m = n THEN id ELSE build_ids[m]]

Init ==
  /\ dirs = {} /\ order = <<>> /\ build_ids = [n \in {} |-> 0]
  /\ stage = "none" /\ listing = {} /\ pos = 1 /\ i = 0 /\ runs = 0

\* Mutant: the numbers of the last graph are still there.
StartRunKeepsIds(s) ==
  /\ stage \in {"none", "configured"}
  /\ runs < MaxRuns
  /\ runs' = runs + 1 /\ order' = s /\ stage' = "scan" /\ listing' = dirs
  /\ UNCHANGED <<dirs, build_ids, pos, i>>

\* "mflowgen run" reaches set_unique_build_ids with the graph sorted.
StartRun(s) ==
  /\ stage \in {"none", "configured"}
  /\ runs < MaxRuns
  /\ runs' = runs + 1
  /\ order' = s /\ build_ids' = [n \in {} |-> 0]
  /\ stage' = "scan" /\ listing' = dirs
  /\ UNCHANGED <<dirs, pos, i>>

\* Mutant: a directory takes its number although another node claimed it.
ScanDirUnclaimed(d) ==
  /\ stage = "scan"
  /\ d \in listing
  /\ listing' = listing \ {d}
  /\ IF d[2] \in Members(order) THEN Numbered(d[2], d[1]) ELSE UNCHANGED build_ids
  /\ UNCHANGED <<dirs, order, stage, pos, i, runs>>

\* One directory of the listing: it counts if its node is in the graph and
\* its number is not claimed; a node found twice keeps the later number.
ScanDir(d) ==
  /\ stage = "scan"
  /\ d \in listing
  /\ listing' = listing \ {d}
  /\ IF d[2] \in Members(order) /\ d[1] \notin Claimed
       THEN Numbered(d[2], d[1])
       ELSE UNCHANGED build_ids
  /\ UNCHANGED <<dirs, order, stage, pos, i, runs>>

ScanDone ==
  /\ stage = "scan" /\ listing = {}
  /\ stage' = "assign" /\ pos' = 1 /\ i' = 0
  /\ UNCHANGED <<dirs, order, build_ids, listing, runs>>

\* Mutant: nodes are numbered whether they claimed a number or not.
AssignRenumbers ==
  /\ stage = "assign" /\ pos \in DOMAIN order
  /\ pos' = pos + 1
  /\ \E id \in i..(i + Cardinality(Node)) :
       /\ id \notin Claimed
       /\ Numbered(order[pos], id)
       /\ i' = id + 1
  /\ UNCHANGED <<dirs, order, stage, listing, runs>>

\* Mutant: the counter does not move past a claimed number.
AssignStuck ==
  /\ stage = "assign" /\ pos \in DOMAIN order
  /\ IF order[pos] \in DOMAIN build_ids
       THEN pos' = pos + 1 /\ UNCHANGED <<build_ids, i>>
       ELSE IF i \in Claimed
         THEN UNCHANGED <<pos, build_ids, i>>
         ELSE pos' = pos + 1 /\ Numbered(order[pos], i) /\ i' = i + 1
  /\ UNCHANGED <<dirs, order, stage, listing, runs>>

\* The next node of the order: skipped if it has a number, else numbered with
\* the first unclaimed one from i on.
Assign ==
  /\ stage = "assign" /\ pos \in DOMAIN order
  /\ pos' = pos + 1
  /\ IF order[pos] \in DOMAIN build_ids
       THEN UNCHANGED <<build_ids, i>>
       ELSE \E id \in i..(i + Cardinality(Node)) :
              /\ id \notin Claimed
              /\ \A skipped \in i..(id - 1) : skipped \in Claimed
              /\ Numbered(order[pos], id)
              /\ i' = id + 1
  /\ UNCHANGED <<dirs, order, stage, listing, runs>>

\* Mutant: the loop stops before the last node.
AssignDoneEarly ==
  /\ stage = "assign" /\ pos + 1 \notin DOMAIN order
  /\ stage' = "configured"
  /\ UNCHANGED <<dirs, order, build_ids, listing, pos, i, runs>>

AssignDone ==
  /\ stage = "assign" /\ pos \notin DOMAIN order
  /\ stage' = "configured"
  /\ UNCHANGED <<dirs, order, build_ids, listing, pos, i, runs>>

\* make (or a stash pull) creates the directory of a configured node.
Build(n) ==
  /\ stage = "configured" /\ n \in Members(order)
  /\ dirs' = dirs \cup {<<build_ids[n], n>>}
  /\ UNCHANGED <<order, build_ids, stage, listing, pos, i, runs>>

\* "make clean-N" knows only the directories of the configured graph,
\* "make clean-all" removes every directory.
Clean(D) ==
  /\ stage = "configured"
  /\ D = dirs \/ \E n \in Members(order) : D = {<<build_ids[n], n>>}
  /\ dirs' = dirs \ D
  /\ UNCHANGED <<order, build_ids, stage, listing, pos, i, runs>>

Next ==
  \/ \E s \in Orders : StartRun(s)
  \/ \E d \in listing : ScanDir(d)
  \/ ScanDone \/ Assign \/ AssignDone
  \/ \E n \in Node : Build(n)
  \/ \E D \in {dirs} \cup {{d} : d \in dirs} : Clean(D)

Spec == Init /\ [][Next]_vars

\* mflowgen goes on once it was started.
FairSpec == Spec /\ WF_vars((\E d \in listing : ScanDir(d)) \/ ScanDone \/ Assign \/ AssignDone)

-----------------------------------------------------------------------------
(* Properties.                                                             *)

\* Every variable keeps its type.
TypeOK ==
  /\ dirs \subseteq Nat \X Node /\ listing \subseteq dirs
  /\ order \in Seq(Node)
  /\ DOMAIN build_ids \subseteq Members(order)
  /\ build_ids \in [DOMAIN build_ids -> Nat]
  /\ stage \in {"none", "scan", "assign", "configured"}
  /\ pos \in Nat /\ i \in Nat /\ runs \in Nat

\* No two nodes share a number, at any point of the scan, with any leftovers
\* on disk: the targets N, clean-N and debug-N mean one node each.
UniqueIds ==
  \A m, n \in DOMAIN build_ids : build_ids[m] = build_ids[n] => m = n

\* A configured graph has a number, hence a build directory, for each node.
EveryNodeNumbered == stage = "configured" => DOMAIN build_ids = Members(order)

\* Directories that do not contend, neither for a number nor for a node.
NoContention ==
  \A d, e \in dirs : (d[1] = e[1] \/ d[2] = e[2]) => d = e

\* Without leftovers that contend, every built node of the new graph keeps its
\* number, whatever else the graph gained or lost and however the directory is
\* listed: nothing is rebuilt just because it is called something else.
NumbersPreserved ==
  stage = "assign" /\ NoContention =>
    \A d \in dirs : d[2] \in Members(order) =>
      d[2] \in DOMAIN build_ids /\ build_ids[d[2]] = d[1]

\* "mflowgen stash push -n N" looks for a directory whose name starts with
\* "N-" and takes the first that os.listdir yields.
PushTargets(n) == {d \in dirs : d[1] = build_ids[n]}

\* "The given node is copied to the stash": for a node that is built there is
\* nothing else that push could take for it.
PushTakesGivenNode ==
  stage = "configured" =>
    \A n \in Members(order) :
      <<build_ids[n], n>> \in dirs => PushTargets(n) = {<<build_ids[n], n>>}

\* Configuring comes to an end: there is always an unclaimed number in reach.
RunEnds == stage = "scan" ~> stage = "configured"
=============================================================================
