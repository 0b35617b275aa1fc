----------------------------- MODULE MakeBuild -----------------------------
(***************************************************************************)
(* Building an mflowgen graph with the generated Makefile.                 *)
(*                                                                         *)
(* BuildOrchestrator.build() walks the nodes in topological order and, for *)
(* each one, asks the Make backend for the rules of its targets:           *)
(*                                                                         *)
(*   "dir"      N-node/.stamp                 the build directory          *)
(*   a source   N-node/inputs/.stamp.f        the link to that source      *)
(*   "exec"     N-node/.execstamp             the commands of the node     *)
(*   "execout"  N-node/outputs/.execstamp.f   one per output, touch only   *)
(*   "out"      N-node/outputs/.stamp.f       collect-outputs              *)
(*   "post"     N-node/.postconditions.stamp  the post-condition script    *)
(*                                                                         *)
(* The module models what those rules make GNU make (with -j, so any ready *)
(* recipes run side by side) do to the build directories over a sequence   *)
(* of invocations: recipes that fail, a make that is killed half way, and  *)
(* a user who cleans nodes in between.  All outputs of a node behave       *)
(* alike, so they share one target.                                        *)
(*                                                                         *)
(* Modification times.  A file touched by the k-th make has time k.  make  *)
(* only asks whether a prerequisite is strictly newer than its target, and *)
(* inside one invocation a target is always touched after its              *)
(* prerequisites, so finer times would answer every question the same way. *)
(***************************************************************************)
EXTENDS Integers, FiniteSets

CONSTANTS
  Node,        \* the nodes of the graph (s.order)
  Edge,        \* pairs <<s, n>>: an output of s is an input of n
  Silent,      \* nodes that declare no outputs: their execute rule is phony
  Subgraph,    \* nodes that are graphs: their directory is not removed first
  Prebuilt,    \* nodes that may have been copied in before the first make
  MaxRuns      \* bound: how many times make is invoked

Stage == {"dir", "exec", "execout", "out", "post"}

ASSUME NodeAssumption == Node \cap Stage = {}

\* A node without outputs is the source of no edge.
ASSUME GraphAssumption ==
  /\ Edge \subseteq Node \X Node
  /\ Silent \subseteq Node /\ Subgraph \subseteq Node
  /\ Prebuilt \subseteq Node
  /\ \A e \in Edge : e[1] \notin Silent

ASSUME BoundAssumption == MaxRuns \in Nat \ {0}

VARIABLES
  mtime,       \* modification time of every stamp, 0 when it is absent
  prebuilt,    \* nodes whose build directory holds a .prebuilt file
  run,         \* number of make invocations so far: the clock
  active,      \* a make is running
  wanted,      \* the nodes it was asked to build, with all they depend on
  phase,       \* what the running make did about each target
  result,      \* how the last make ended, "none" once a user changed something
  made,        \* the run that last wrote the outputs of a node, 0 when absent
  whole,       \* ... and whether its commands reached their end
  from,        \* for an edge <<s, n>>: the outputs of s that n was made from
  checked      \* the outputs of a node that its post-conditions last accepted

files == <<mtime, prebuilt>>
invocation == <<run, active, wanted, phase, result>>
contents == <<made, whole, from, checked>>
vars == <<files, invocation, contents>>

-----------------------------------------------------------------------------
(* The rules of the Makefile.                                              *)

Sources(n) == {s \in Node : <<s, n>> \in Edge}

Parts(n) == (Stage \cup Sources(n)) \ (IF n \in Silent THEN {"out"} ELSE {})

TargetsOf(n) == {<<n, p>> : p \in Parts(n)}

Target == UNION {TargetsOf(n) : n \in Node}

\* The execute rule of a node without outputs never touches its target.
Phony(t) == t[1] \in Silent /\ t[2] = "exec"

\* Mutant: an alias without the post-conditions of its node.
AliasWithoutPost(n) == {<<n, p>> : p \in {"exec", "execout", "out"} \cap Parts(n)}

\* make_alias returns its joined prerequisites, so whatever depends on the
\* alias of a node depends on each of these.
Alias(n) == {<<n, p>> : p \in {"exec", "execout", "out", "post"} \cap Parts(n)}

Deps(t) ==
  LET n == t[1]
      Own(P) == {<<n, p>> : p \in P \cap Parts(n)}
  IN CASE t[2] = "dir"     -> UNION {Alias(s) : s \in Sources(n)}
       [] t[2] = "exec"    -> Own({"dir"} \cup Sources(n))
       [] t[2] = "execout" -> Own({"exec"})
       [] t[2] = "out"     -> Own({"exec", "execout"})
       [] t[2] = "post"    -> Own({"exec", "execout", "out"})
       [] OTHER            -> {<<n, "dir">>, <<t[2], "out">>}

\* Three of the rules stand inside ifeq ("$(wildcard N-node/.prebuilt)","").
HasRule(t) == t[1] \in prebuilt => t[2] \in {"out", "post"}

\* Mutant: a build directory that waits for nothing; only the links do.
PrereqsDirFree(t) == IF HasRule(t) /\ t[2] # "dir" THEN Deps(t) ELSE {}

\* Mutant: outputs are collected only after the post-conditions, which wait
\* for the collected outputs.
PrereqsCyclic(t) ==
  IF HasRule(t)
    THEN Deps(t) \cup {<<t[1], p>> : p \in IF t[2] = "out" THEN {"post"} ELSE {}}
    ELSE {}

Prereqs(t) == IF HasRule(t) THEN Deps(t) ELSE {}

-----------------------------------------------------------------------------
(* What GNU make knows about a target.                                     *)

Settled(t) == phase[t] \in {"current", "remade"}

Busy(t) == phase[t] \in {"started", "commands", "ran"}

OutOfDate(t) ==
  \/ mtime[t] = 0
  \/ \E d \in Prereqs(t) : mtime[d] = 0 \/ mtime[d] > mtime[t]

\* The targets make looks at for the goals it was given: nothing asks for
\* the directory and the links of a node whose rules are switched off.
NeededFor(G) == UNION {IF n \in prebuilt THEN Alias(n) ELSE TargetsOf(n) : n \in G}

\* Sets of nodes that are closed under what the aliases of their nodes need.
Closed(G) == \A n \in G \ prebuilt : Sources(n) \subseteq G

\* After a failure make waits for the running recipes and starts no other.
Ready(t) ==
  /\ active
  /\ t \in NeededFor(wanted)
  /\ phase[t] = "idle"
  /\ \A d \in Prereqs(t) : Settled(d)
  /\ \A u \in Target : phase[u] # "failed"

MustRemake(t) == OutOfDate(t) \/ \E d \in Prereqs(t) : phase[d] = "remade"

-----------------------------------------------------------------------------
Idle == [t \in Target |-> "idle"]

\* A build directory that was configured but not built, except for nodes a
\* user copied in before the first make (at time 1).  Those of D came with the
\* stamps and outputs of a finished build, the others were copied from a
\* directory that was not built yet; links to inputs do not come along.
Init ==
  /\ prebuilt \in SUBSET Prebuilt
  /\ \E D \in SUBSET prebuilt :
       /\ mtime = [t \in Target |->
            IF \/ t[1] \in prebuilt /\ t[2] = "dir"
               \/ t[1] \in D /\ t[2] \in Stage /\ ~Phony(t)
              THEN 1 ELSE 0]
       /\ made = [n \in Node |-> IF n \in D THEN 1 ELSE 0]
       /\ whole = [n \in Node |-> n \in D]
  /\ checked = made
  /\ from = [e \in Edge |-> 0]
  /\ run = 1 /\ active = FALSE /\ wanted = {} /\ phase = Idle /\ result = "none"

\* "make N ..." or plain "make": the Makefile is read, .prebuilt files with it.
StartMake(G) ==
  /\ ~active
  /\ run <= MaxRuns
  /\ G # {} /\ Closed(G)
  /\ active' = TRUE /\ wanted' = G /\ run' = run + 1 /\ result' = "none"
  /\ UNCHANGED <<files, phase, contents>>

\* The target exists and nothing it depends on is newer or was just remade.
Skip(t) ==
  /\ Ready(t)
  /\ ~MustRemake(t)
  /\ phase' = [phase EXCEPT ![t] = "current"]
  /\ UNCHANGED <<files, run, active, wanted, result, contents>>

\* "No rule to make target": the file is absent and its rule switched off.
NoRule(t) ==
  /\ Ready(t)
  /\ ~HasRule(t) /\ mtime[t] = 0
  /\ phase' = [phase EXCEPT ![t] = "failed"]
  /\ UNCHANGED <<files, run, active, wanted, result, contents>>

\* Mutant: a removed stamp is older than any file, not absent.
WipedOld(S) ==
  /\ mtime' = [t \in Target |-> IF t[1] \in S THEN -1 ELSE mtime[t]]
  /\ prebuilt' = prebuilt \ S
  /\ UNCHANGED contents

\* rm -rf of the build directories of the nodes of S.
Wiped(S) ==
  /\ mtime' = [t \in Target |-> IF t[1] \in S THEN 0 ELSE mtime[t]]
  /\ prebuilt' = prebuilt \ S
  /\ made' = [n \in Node |-> IF n \in S THEN 0 ELSE made[n]]
  /\ whole' = [n \in Node |-> n \notin S /\ whole[n]]
  /\ from' = [e \in Edge |-> IF e[2] \in S THEN 0 ELSE from[e]]
  /\ checked' = [n \in Node |-> IF n \in S THEN 0 ELSE checked[n]]

\* make starts the recipe of a target.  The first line of the directory
\* recipe removes the directory with every stamp and output in it.  If it is
\* ended half way, the target is as much out of date as before: its own stamp
\* is gone, or older than what made it so.  Whatever else is left of the
\* directory goes when the recipe runs again.
Launch(t) ==
  /\ Ready(t)
  /\ HasRule(t)
  /\ MustRemake(t)
  /\ phase' = [phase EXCEPT ![t] = "started"]
  /\ IF t[2] = "dir" /\ t[1] \notin Subgraph
       THEN Wiped({t[1]})
       ELSE UNCHANGED <<files, contents>>
  /\ UNCHANGED <<run, active, wanted, result>>

\* The pre-conditions passed: mflowgen-run starts to write the outputs,
\* reading the outputs of the sources through the links in inputs/.
RunCommands(n) ==
  /\ phase[<<n, "exec">>] = "started"
  /\ phase' = [phase EXCEPT ![<<n, "exec">>] = "commands"]
  /\ made' = [made EXCEPT ![n] = run]
  /\ whole' = [whole EXCEPT ![n] = FALSE]
  /\ from' = [e \in Edge |-> IF e[2] = n THEN made[e[1]] ELSE from[e]]
  /\ UNCHANGED <<files, run, active, wanted, result, checked>>

\* mflowgen-run succeeded; the stamp is touched by the next recipe line.
CommandsDone(n) ==
  /\ phase[<<n, "exec">>] = "commands"
  /\ phase' = [phase EXCEPT ![<<n, "exec">>] = "ran"]
  /\ whole' = [whole EXCEPT ![n] = TRUE]
  /\ UNCHANGED <<files, run, active, wanted, result, made, from, checked>>

\* Mutant: the directory rule leaves no stamp.
TouchedNotDir(t) ==
  mtime' = [mtime EXCEPT ![t] = IF Phony(t) \/ t[2] = "dir" THEN @ ELSE run]

\* Mutant: the post-condition rule leaves no stamp.
TouchedNotPost(t) ==
  mtime' = [mtime EXCEPT ![t] = IF Phony(t) \/ t[2] = "post" THEN @ ELSE run]

\* The last line of a recipe touches the target, unless it is phony.
Touched(t) ==
  mtime' = [mtime EXCEPT ![t] = IF Phony(t) THEN @ ELSE run]

Finish(t) ==
  /\ phase[t] = IF t[2] = "exec" THEN "ran" ELSE "started"
  /\ phase' = [phase EXCEPT ![t] = "remade"]
  /\ Touched(t)
  /\ checked' = IF t[2] = "post"
                  THEN [checked EXCEPT ![t[1]] = made[t[1]]] ELSE checked
  /\ UNCHANGED <<prebuilt, run, active, wanted, result, made, whole, from>>

\* Mutant: the line that touches the target runs although another line failed.
FailTouches(t) ==
  /\ Busy(t)
  /\ phase' = [phase EXCEPT ![t] = "failed"]
  /\ mtime' = [mtime EXCEPT ![t] = run]
  /\ UNCHANGED <<prebuilt, run, active, wanted, result, contents>>

\* A line of the recipe fails (a pre- or post-condition, the commands, a
\* full disk): the target is not touched.
Fail(t) ==
  /\ Busy(t)
  /\ phase' = [phase EXCEPT ![t] = "failed"]
  /\ UNCHANGED <<files, run, active, wanted, result, contents>>

\* Everything asked for is settled, or a recipe failed and the others ended.
MakeExit ==
  /\ active
  /\ \/ /\ \A t \in NeededFor(wanted) : Settled(t)
        /\ result' = "ok"
     \/ /\ \E t \in Target : phase[t] = "failed"
        /\ \A t \in Target : ~Busy(t)
        /\ result' = "error"
  /\ active' = FALSE /\ phase' = Idle
  /\ UNCHANGED <<files, run, wanted, contents>>

\* Ctrl-C, a lost session or a crash, with recipes at any point.
Kill ==
  /\ active
  /\ active' = FALSE /\ phase' = Idle /\ result' = "killed"
  /\ UNCHANGED <<files, run, wanted, contents>>

\* "make clean-N" for one node and "make clean-all".  What a clean that is ended
\* half way leaves is in StashedBuild (Remains).
Clean(S) ==
  /\ ~active
  /\ Wiped(S)
  /\ result' = "none"
  /\ UNCHANGED <<run, active, wanted, phase>>

\* The user removes the .prebuilt file and gets the node's rules back.
Unpin(n) ==
  /\ ~active
  /\ n \in prebuilt
  /\ prebuilt' = prebuilt \ {n}
  /\ result' = "none"
  /\ UNCHANGED <<mtime, run, active, wanted, phase, contents>>

MakeStep ==
  \/ \E t \in Target : Skip(t) \/ NoRule(t) \/ Launch(t) \/ Finish(t) \/ Fail(t)
  \/ \E n \in Node : RunCommands(n) \/ CommandsDone(n)
  \/ MakeExit

UserStep ==
  \/ \E G \in SUBSET Node : StartMake(G)
  \/ \E S \in {{n} : n \in Node} \cup {Node} : Clean(S)
  \/ \E n \in Node : Unpin(n)
  \/ Kill

Next == MakeStep \/ UserStep

Spec == Init /\ [][Next]_vars

\* make keeps going while it runs, and the commands of a node terminate.
FairSpec == Spec /\ WF_vars(MakeStep)
-----------------------------------------------------------------------------
(* Properties.                                                             *)

Phase == {"idle", "current", "started", "commands", "ran", "remade", "failed"}

\* Every variable keeps its type.
TypeOK ==
  /\ mtime \in [Target -> Nat] /\ prebuilt \subseteq Node
  /\ run \in Nat /\ active \in BOOLEAN /\ wanted \subseteq Node
  /\ phase \in [Target -> Phase]
  /\ result \in {"none", "ok", "error", "killed"}
  /\ made \in [Node -> Nat] /\ whole \in [Node -> BOOLEAN]
  /\ from \in [Edge -> Nat] /\ checked \in [Node -> Nat]

\* While a node's pre-conditions or commands run, nothing of a source of it is
\* still to be done: neither its recipes nor its post-conditions can rewrite,
\* remove or reject what is being read through the links, whatever else a
\* parallel make does (the 'alias' dependency of the directory rule).
NoWriterUnderReader ==
  \A e \in Edge : Busy(<<e[2], "exec">>) =>
    \A t \in TargetsOf(e[1]) : t \in NeededFor(wanted) => Settled(t)

\* The commands of a node only ever read outputs that are complete and that
\* the source's post-conditions accepted, even when stamps were left behind by
\* failed or killed makes (docs/ug-assertions: checks guard the next node).
ReadsCheckedOutputs ==
  \A e \in Edge : phase[<<e[2], "exec">>] = "commands" =>
    /\ made[e[1]] # 0
    /\ whole[e[1]]
    /\ checked[e[1]] = made[e[1]]
    /\ from[e] = made[e[1]]

\* "Nothing to be done" for the nodes of G, which is also what mflowgen-status
\* shows as done: no target make would look at is out of date.
NothingToDo(G) == Closed(G) /\ \A t \in NeededFor(G) : ~OutOfDate(t)

\* What looks done is done: the outputs on disk come from commands that ran to
\* their end on the outputs the sources have now, and the post-conditions
\* accepted them, after any mix of failed recipes, killed makes and cleans.
\* (For a pre-built node only its own outputs are promised.)
DoneMeansFresh ==
  \A G \in SUBSET Node : NothingToDo(G) =>
    \A n \in G :
      /\ made[n] # 0 /\ whole[n] /\ checked[n] = made[n]
      /\ n \notin prebuilt =>
           \A s \in Sources(n) : from[<<s, n>>] = made[s]

\* A make that succeeded leaves nothing to do: until a user changes something
\* the same make again runs no recipe (but the phony one of a Silent node).
SuccessIsStable == result = "ok" => NothingToDo(wanted \ Silent)

\* No build is thrown away for nothing: a running make removes a directory with
\* outputs in it only if a source has other outputs now than those it was made
\* from.  Builds here take hours; numbering, kills and re-checked
\* post-conditions must not cost one.
NoNeedlessRebuild ==
  [][\A n \in Node : active /\ made[n] # 0 /\ made'[n] = 0 =>
       \E s \in Sources(n) : from[<<s, n>>] # made[s]]_vars

\* Stamps, phases and .prebuilt files are one way to do what NodeBuild asks for:
\* commands start on accepted outputs only, which then stay as they are, and a
\* node is accepted for the outputs its sources have at that moment.
Good == {n \in Node : made[n] # 0 /\ whole[n] /\ checked[n] = made[n]}
Reading == {n \in Node : phase[<<n, "exec">>] = "commands"}

Ideal == INSTANCE NodeBuild WITH
  version <- made, basis <- from, good <- Good, reading <- Reading,
  pinned <- prebuilt

ImplementsNodeBuild == Ideal!Spec

\* A make whose commands terminate terminates: no set of recipes waits on
\* each other, and every target in the way of the goals gets a verdict.
MakeEnds == active ~> ~active
=============================================================================
