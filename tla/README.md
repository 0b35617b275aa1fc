# mflowgen in TLA+

mflowgen turns a Python description of a chip-design flow (a graph of nodes,
each a tool invocation that may run for hours) into a Makefile, and shares
finished nodes between people through *stashes*. This directory models the
parts of it whose correctness depends on order, interleaving and failure, checks
them with TLC on small instances and proves the central results with TLAPS for
every graph.

## 1. The system

| Component (code) | State | Operations | Hard about it |
|---|---|---|---|
| **mflowgen run** (`core/run.py`) | `.mflowgen.yml` (construct script, kwargs), `.mflowgen/`, `Makefile` | find and save the construct script, construct the graph, orchestrate | removes old metadata before the new one exists; `--update` after a failed run |
| **Graph** (`components/graph.py`) | nodes, `_edges_i`, `_edges_o`, subgraphs | `add_node`, `connect`, `connect_by_name`, `update_params`, `param_space`, `topological_sort` | `param_space` rewrites the graph node by node |
| **Node** (`components/node.py`), **Subgraph** (`components/subgraph.py`) | YAML of a node; a graph used as a node | accessors; graph of a subgraph | a subgraph runs mflowgen and make inside a recipe |
| **Build orchestrator** (`core/build_orchestrator.py`) | order, build ids, build directories, backend outputs | `set_unique_build_ids`, `setup`, `build` | ids over a series of graphs; which rule depends on which |
| **Make backend** (`backends/make_backend.py`, `makefile_syntax.py`) | the Makefile | one generator per kind of rule, clean targets | stamps, `.prebuilt`, what make sees after a failure or a kill |
| **Ninja backend** | `build.ninja` | the same for ninja | out of step with the orchestrator |
| **Stash** (`stash/stash_handler.py`) | `.mflowgen.stash.yml` here and in the stash, copies of nodes | init, link, list, push, pull, pop, drop | shared by several users without a lock; no step is atomic |
| **Param** (`param/param_handler.py`) | metadata of configured nodes | `param update` | built nodes do not notice |
| **Assertions** (`assertions/`) | generated pytest scripts | pre- and post-conditions | their verdict must guard the next node |
| **Status, runtimes, info scripts** (`scripts/`) | none | read a dry run of make | |
| **Mock, CLI**, node library | none of interest | templates, argument parsing | |

How they interact. `run` saves its request, constructs a `Graph`, hands it to the
orchestrator, which sorts it, numbers the nodes by looking at the build
directories on disk, writes metadata and asks the backend for rules. Make
executes these rules; all it knows of earlier executions are modification times
of stamps. `param update` edits the metadata in place. The stash copies build
directories out and in; a pulled directory carries `.prebuilt`, which switches
rules of the Makefile off. Numbering, make, clean and stash thus share the build
directories, and nothing locks them.

## 2. Modules

| Module | Models | Built on |
|---|---|---|
| `MakeBuild` | the rules of a graph under make | implements `NodeBuild` |
| `NodeBuild` | what a build promises, without stamps, rules and times | |
| `StashedBuild` | stash pulls and interrupted cleans between makes | extends `MakeBuild` |
| `BuildIds` | numbers of nodes over a series of runs | |
| `DesignGraph` | the graph a construct script builds, and sweeps over it | |
| `Configure` | the files of `run` and `param update` | |
| `Stash` | several users on one stash | |
| `MakeBuildProofs`, `MakeBuildRefinement`, `NodeBuildProofs`, `StashedBuildProofs`, `BuildIdsProofs`, `ConfigureProofs`, `StashProofs`, `DesignGraphProofs` | theorems | the module they are named for |
| `MC...` | instances for TLC | |

Operators under a comment `Mutant:` are faulty variants of the operator that
follows them. They are not used by any specification; each is there to show
that a property notices that fault.

### MakeBuild: the rules of a graph under make

`BuildOrchestrator.build()` creates, per node, the targets in the header of
`MakeBuild.tla`. `Deps` is the dependency list each rule gets (`extra_deps` in
the code), `Alias` is what `make_alias` returns, namely the *joined
prerequisites*, so that whoever depends on an alias depends on every stamp of
the node. `HasRule` is the `ifeq` on `.prebuilt`. The constants give the graph;
nodes without outputs (`Silent`), subgraphs and nodes that may be pulled are
subsets of the nodes.

| Variable | Code |
|---|---|
| `mtime` | modification times of the stamps in the build directories |
| `prebuilt` | directories with a `.prebuilt` file |
| `run`, `active`, `wanted`, `phase`, `result` | the make process: its number, whether it runs, goals, verdict per target, exit |
| `made`, `whole`, `from`, `checked` | contents of `outputs/`: which run wrote them, whether the commands ended, what they were made from, what the post-conditions accepted |

The actions: `StartMake` and `MakeExit`; `Skip`, `NoRule`, `Launch`, `Finish`, `Fail`
for any target; `RunCommands` and `CommandsDone` for the inner steps of the
execute recipe (pre-conditions, `mflowgen-run`, touch); `Kill`; `Clean` and `Unpin`
by the user between makes. GNU make itself is not in the repository: what the
module says of it (a target is remade when a prerequisite is newer or was
remade; after a failure no recipe is started and running ones are waited for)
is marked external. A time is the number of the make that touched the file: in
one make a target is touched after its prerequisites, and make asks only for
*strictly* newer, so a finer clock answers no question differently.

All outputs of a node behave alike and share one target. The debug, info,
diff and runtimes targets touch nothing the rules read and are left out.

Properties: `NoWriterUnderReader`, `ReadsCheckedOutputs`, `DoneMeansFresh`,
`SuccessIsStable`, `NoNeedlessRebuild` (action property), `MakeEnds` (liveness), and
`ImplementsNodeBuild`.

### NodeBuild: what the rules promise

A node is started on accepted outputs of its sources (`Begin`), nodes stop
reading (`End`: done, failed or killed), outputs are accepted (`Accept`), removed
(`Discard`) or no longer pinned (`Unpin`); nobody's source is begun or discarded
while it reads. MakeBuild implements this through the mapping at its end:

| NodeBuild | MakeBuild |
|---|---|
| `version`, `basis` | `made`, `from` |
| `good` | made, whole, and accepted as they are now |
| `reading` | the execute recipe is at its commands |
| `pinned` | `prebuilt` |

Stamps, phases, the clock and the verdicts of make are the implementation's own:
`RunCommands` is `Begin`, the `Finish` of a post-condition is `Accept`, `Launch` of a
directory and `Clean` are `Discard`, whatever ends commands is `End`, and all other
actions of make are stutters.

### StashedBuild: pulls and interrupted cleans between makes

What a stashed copy holds is not told by its stamps: push passes over every file
that could not be copied, and copies any directory, one that failed or is being
rebuilt included; `copytree` keeps the modification time of each file. So a copy
comes with any of its stamps, each of any age (`Stamps`), and with all the outputs
of an accepted build (`Brings`) or without (`Leaves`). `Pull` replaces a directory by such
a copy and pins it either way, as the code does; `CopyFails` is a copy that stops half
way. `Remains` is what a removal leaves that stops half way, any part of the
directory: the `rm -rf` of `clean-N` or `clean-all`, and the `rmtree` of a pull, which
ignores errors, before a `copytree` that then refuses. The histories `pulled` and `broken`
name the directories that came complete from the stash and those of which a
part was left.

`FreshUnlessPulled` and `ReadsUnlessBroken` are `DoneMeansFresh` and `ReadsCheckedOutputs` with
the exceptions stated in them, and both fail without. The exceptions are worth
knowing: *consumers of a node that was pulled over look up to date* unless the
copied stamps happen to be newer than theirs, and *a directory of which a part
was left can pass for a finished node*, also after a pull that reported success.
In both cases a complete `make clean-N` is the way out. What still holds for those
directories is part of the properties: nothing is replaced under a reader, and
no other node is affected.

### BuildIds: the numbers of nodes over a series of runs

`StartRun`, `ScanDir` (one directory of `os.listdir`, in any order), `ScanDone`,
`Assign` (one turn of the numbering loop), `AssignDone`; `Build` and `Clean` change the
directories in between. Each run may configure any graph over the nodes.
Properties: `UniqueIds`, `EveryNodeNumbered`, `NumbersPreserved`, `RunEnds`. The comment in
`set_unique_build_ids` that "an existing node N will remain node N (assuming the same
graph connectivity)" is `NumbersPreserved`: where leftovers of different graphs carry
the same number, the first that `os.listdir` yields keeps it, and the other built
node is renumbered and rebuilt.

### DesignGraph: the construct script and param_space

A script adds nodes, connects them by names, takes handles for inputs and
outputs, updates parameters and sweeps them, in any order in which the result
stays acyclic; then a run takes the graph (`Launch`). A sweep is step by step what
`param_space` and its recursive helper do: `ParamSpace` replaces the node it is
called for, `Helper` one dependent node, `HelperReturnsAtOnce` a call for a node
that was visited, `HelperDone` a return; `stack` holds what each call on the
Python stack has still to do. `edgesIn` and `edgesOut` are kept apart, as
`_edges_i` and `_edges_o` are. A name is the base name with the parameters and
values that were appended to it, which is what the code looks nodes up by.

Assumed of the script: it makes no cycle (the code notices one when it sorts),
adds a node of one name once, also after a sweep has replaced it, and no base
name is another one with `-param-value` after it, so that different pairs are
different strings. The model sorts names by base name and pairs; values with
hyphens, or numbers of different length, sort differently as strings, which
changes the order among nodes that are ready in the same round.

Properties: `EdgesAgree`, `HelperNeverRaises`, `NameTellsValue`, `SweepKeepsWiring`,
`SweptOnceIsDocumented`, `OrderIsTopological`, `RefusedOnlyIfStale`, `SweepEnds`. The
reference for the expansion is `Documented`, one instance of everything
downstream per value.

### Configure: the files of run and param update

The files in the header of `Configure.tla`, over a series of commands that may
raise or be killed between any two writes: `RunDesign` or `RunUpdate`, then
`SaveConstruct`, `SaveKwargs` and `WriteYml`, `OpenBackend`, `Clear` and `Cleared` (rmtree), `DumpOpen`
and `DumpClose` per file, `Emit` and `EmitDone`; `StartUpdate`, then per file `EditOpen`,
`EditClose`, `EditNothing`, `EditFails` or `PassOver`. The ninja backend opens its file and
raises when the first rule is saved, leaving new metadata under the old Makefile.

Assumptions: one mflowgen command at a time, one parameter is followed, every
graph has the same nodes, and a file is empty or cut off from its opening to
its closing ("part"). `wanted` is what each node was last given, `torn` the nodes an
update was at work on, `mixed` says that only one half of a request is saved.
Properties: `MakefileIsBacked`, `FilesAgree`, `SavedIsARequest`, `SavedIsGenerated`.

### Stash: several users, one stash

Each command is a process that has read the YAML (`proc[u].stash` is `s.stash`)
and proceeds step by step: `StartPush`, `PushMkdir`, `PushCopy`; `StartPull`, `PullRmtree`,
`PullCopytree` or `PullFails`, `PullFlag`; `StartDrop`, `DropRmtree`, `DropDone` or
`DropFails`; push and drop end with `OpenYaml` (truncates) and `WriteYaml`, after which push
still writes a description into the copy (`PushDescribe`). A pop is a
pull that goes on with drop *on the list it read at the start*. `Killed` ends any
of them anywhere. A copy is absent, part (files are missing) or whole.

A push draws any hash that the list *it has read* does not show (`UniqueHash`), also
one that a push at work has drawn, that was pushed since, or whose directory a
kill has left. Where `copytree` then finds the directory, the handler of push
removes it, and a listed node with it. `reused` records the hashes that were drawn
while in use; the properties of listed nodes exempt them, and `HashIsUnique`, which
does not, is violated.

A YAML that is empty (truncated) reads as `None`, one that is garbled (two
writers at once) does not parse: both end any further command at once, so such
a command is not an action. The metadata of a stash is assumed to fit the
writer's buffer, so that it is empty or complete at any time but when writers
overlap. `list` reads the YAML like every command and changes nothing. The
history `orderly` says that commands took turns and none was killed.

Properties: `EntryPerItem`, `ListedIsCopied`, `PopKeepsTheNode`, `OnlyDropDestroys`.

## 3. What TLC checks

| Run | Instance | Distinct states | Question |
|---|---|---|---|
| make_chain | 3 nodes in a row (the first possibly pulled, a subgraph, one without outputs), 3 makes, fairness | 183,535 | does `-j` ever read what is being written or was not accepted; do stamps tell the truth after failures, kills and cleans; is work thrown away; is NodeBuild implemented; does make end |
| make_pull | 2 nodes, 3 ticks, pulls of the source with any stamps, complete or not, and interrupted pulls and cleans | 540,739 | which lies can a pull or half a clean tell make |
| ids | 3 nodes, 4 runs, fairness | 133,601 | are numbers unique, complete, preserved; do scan and loop end |
| stash | 2 users, 2 nodes, 2 hashes, 5 commands, kills | 1,515,306 | is anything listed too early, popped away or destroyed by another command; do list and directories agree when users take turns |
| graph | 4 nodes, every acyclic choice of 6 wires, 2 sweeps of 1 or 2 values, fairness | 349,965 | does a sweep end, keep the wiring, and match the documentation; is the order topological |
| configure | 2 designs, 2 kwargs, 2 nodes, 3 commands, kills | 890,107 | is a Makefile backed by its metadata; what does `--update` repeat |
| push_given_node | 2 nodes, 3 runs | violated | see below |
| stash_hash_in_use | 2 users, 1 node, 4 commands, no kills | violated | see below |
| stash_lost_update | 2 users, 4 commands, no kills | violated | see below |
| stash_part_pulled | 1 user, 4 commands, no kills | violated | see below |
| stash_undroppable | 1 user, 4 commands, kills | violated | see below |
| graph_sweep | 4 nodes, 1 sweep | violated | see below |

Bounds. One make sets stamps, a second one finds them after a failure, a kill
or a clean, and a third one works on a mixture of both: the wrong order of
touching and removing shows by then. The chain has a node that is both a source
and a reader; that nodes side by side do not disturb each other is what the
proofs say for every graph. With pulls, the three ticks are a make, a pull over
what it built, and a make on the mixture, or two pulls around a make; a stamp in
a copy is as old as the pull or one tick older, which ties with what the last make
touched (`Age`). For
numbering, two leftovers that contend need two earlier runs, a third run meets
them, a fourth builds on the result; every graph over three nodes is tried in
each. For the stash, a lost update needs two commands of two users, a
resurrected entry three; five leave room for a drop and a pop after them. Two
hashes make every collision happen early. For
graphs, four nodes are needed for a diamond and for paths of different length
between two nodes; a second sweep goes over graphs of up to three nodes
(instances included), which has sweeps of an instance, of its source and of its
dependent. For Configure, a request that is saved by halves is met by `--update`
two commands later.

Bounds in guards: `MaxRuns` (makes and pulls; runs), `MaxCommands`, `MaxSweeps` and `MaxNodes`,
and `Age` of StashedBuild.

Deadlock is checked in MakeBuild, StashedBuild and BuildIds, where a user can
always clean or build. Elsewhere the system stops: the commands of Stash and
Configure are used up (or the YAML can no longer be read), and a construct
script ends. These configurations say `CHECK_DEADLOCK FALSE`.

Fairness. `MakeEnds` assumes `WF_vars(MakeStep)`: make does something as long as
it can, and commands terminate. That is what a running process and its tools
do; no fairness is assumed of users, and every recipe may still fail. `RunEnds`
assumes that mflowgen goes on once it was started, `SweepEnds` that Python goes on
with a recursion. Safety assumes nothing.

### Disagreements between code and documentation

Six runs expect a violation; each checks a sentence of a comment, a help text,
the documentation or a message.

* **push_given_node** "The given node is copied to the stash": push takes the
  first directory with the prefix `N-`, leftovers included.
* **stash_hash_in_use** "a unique six-character hexadecimal hash that is not currently
  in use across all nodes": two pushes at a time may draw the same one, and the
  one that finds its directory there removes it, listed or not. With six digits
  this is rare, and the only way in which push destroys a stashed node.
* **stash_lost_update** "an entry per stashed item": two pushes at a time, one entry.
* **stash_part_pulled** "we will have everything except dangling symlinks": every
  error of a single file comes as the same exception and is passed over, and the
  incomplete node is pulled and pinned as pre-built without a complaint.
* **stash_undroppable** "Removes the node with the given hash": after a drop that
  was killed between directory and list, no drop gets past `rmtree`.
* **graph_sweep** "We traverse down the graph in _topological_ sort order to handle
  cases where downstream nodes depend on multiple previous nodes": only the
  direct dependents are sorted. On a diamond the far node is reached below the
  first branch while the second is still whole, and its instances are
  replicated once more. `SweptOnceIsDocumented` is the statement that does hold.

## 4. What TLAPS proves

For every graph, every number of makes and commands, and every set of nodes:

* `MakeBuildProofs`: `TypeCorrect`, `NoWriterUnderReaderHolds`, `ReadsCheckedOutputsHolds`,
  `DoneMeansFreshHolds`, `SuccessIsStableHolds`.
* `MakeBuildRefinement`: `MakeImplementsNodeBuild`, that `Spec` implements `NodeBuild`;
  `NoNeedlessRebuildHolds`.
* `NodeBuildProofs`: `ReadsAreStableHolds`: nothing changes under a node that reads.
* `BuildIdsProofs`: `TypeCorrect`, `UniqueIdsHolds`, `EveryNodeNumberedHolds`, `NumbersPreservedHolds`.
* `ConfigureProofs`: `AlwaysTypeOK`, `AlwaysMakefileIsBacked`, `AlwaysFilesAgree`, `AlwaysSavedIsARequest`,
  `AlwaysSavedIsGenerated`.
* `StashProofs`: `TypeCorrect`, `EntryPerItemHolds`, `ListedIsCopiedHolds`, `OnlyDropDestroysHolds`,
  `PopKeepsTheNodeHolds`.
* `StashedBuildProofs`: `FreshUnlessPulledHolds`, `ReadsUnlessBrokenHolds`.
* `DesignGraphProofs`: `TypeCorrect`, `EdgesAgreeHolds`, `HelperNeverRaisesHolds`, `NameTellsValueHolds`,
  `OrderIsTopologicalHolds`, `RefusedOnlyIfStaleHolds`.

These are all invariants the passing runs check, the refinement, and all action
properties but two.

Assumptions. `NodeAssumption` (node names are not the names of stages; in
BuildIds: there are finitely many nodes; in Configure: nodes are numbers),
`GraphAssumption` (edges join nodes; a node without outputs is the source of none;
in DesignGraph: the two generated nodes are none of the script's),
`ConfigAssumption` and `ValueAssumption` (values are not the marks of absent and
incomplete files; in DesignGraph: values are numbers), `ListsAssumption` (a sweep
is over at least one value), `BoundAssumption` and `AgeAssumption` (bounds
are numbers). The graph of
a build may even be cyclic: make then never
gets anywhere, which is safe.

The argument for MakeBuild. None of the properties is inductive: that a node is
up to date says nothing by itself of what its commands have read. The invariant
`IInv` ties three worlds together, the first two in `MInv`, the third in `CInv`: *stamps and clock* (`Clock`: no stamp is newer than
the running make; `BusyIsOutOfDate`, `SettledIsUpToDate`: verdicts agree with
stamps), *the running make* (`Ordered`: a target that was started has settled
prerequisites, and settled ones stay so while somebody above them runs), and
*contents* (`ExecMeansWhole`, `ExecMeansFrom`: an execute stamp that exists stands for
commands that ran to their end on outputs as old as it; `PostMeansChecked`;
`RunningFrom`: the same for commands at work). `PinnedUnlinked` covers pre-built nodes
and `Stable` carries a success over to the next user action. Each action is a
lemma; that a wiped directory breaks nothing is the longest of them, and holds
because a directory is removed only when its node is not settled and so, by
`Ordered`, nobody reads it.

What a step of make does to the third world is said once, in the action `Vouched`: a
stamp that is not out of date after the step was not before, and what it vouches
for is unchanged, or its commands or checks have just come to their end. Every
action keeps `MInv` and is `Vouched` (`NextKeeps`), and that is enough to keep `CInv`.

The argument for StashedBuild uses this. `MInv` says nothing of what directories
hold, so a pull or half a clean between two makes keeps it (`TicksKeeps`); `PInv` is `CInv` with the
exceptions for `pulled` and `broken` directories, and every step that is `Vouched` keeps it
(`VouchedKeepsPulled`), since a step that leaves outputs alone leaves them in these
histories and one that writes them takes them out.

The refinement needs three facts more. `Past`: nothing was made or accepted in
this run before its commands started; it makes the outputs of `Begin` new ones,
and shows that commands which end do not make a node good by themselves.
`Phonies` and `Remade`: the commands of a node without outputs leave no stamp that
could prove what they were made from, but they are never skipped, so what was
remade in this run still has the sources it was made from. For every other node
the stamp proves it when `Accept` happens.

`NoNeedlessRebuild` rests on `Linked`: while a node holds what was made from the
present outputs of a source, no stamp of this source is newer than the node's
directory, and behind the stamp of the commands they are in the order of the
rules. It holds when the commands start, since the stamps of the sources are
then settled and the directory is. Afterwards nothing but the commands of the
source can touch them, and those replace what was read: `ReadsPast` says that it
was read before the source started in this run, so the new outputs differ from
it. `DirSettled` and `PinnedAlike` order the stamps where the rules do not, of
nodes without outputs and of pre-built ones; `Housed` says that there are no
outputs without a directory.

The argument for Configure. `Saving` and `Generating` follow the request into the
YAML and the graph; `Dumping` says that the Makefile has no rules until the last
file of the last node is written, so that rules prove that no run was
interrupted since; `Present` and `Editing` say that an update marks the node it has
in hand as torn before it touches the files, and that all it has edited hold its
value, so that the mark may go with the last file.

The argument for BuildIds. `ScanRecords` says that without contention the scan
has recorded exactly the directories it has seen, `LoopNumbers` that the loop has
left no node behind. Numbering one node is a lemma of its own (`NumberedOne`).

The argument for Stash has two parts. With any interleaving and any kills a hash
that nobody had in use when a push drew it is known to nobody else until its entry
is written (`Announced`), so what such a push clears away or fills is never a listed
node nor one another process works on; this is said of each hash by itself, whatever
becomes of those that were drawn while in use. Pull and drop work on what they have
read (`InStash`) and `Fetched` follows a pop. That gives `ListedIsCopied`, `OnlyDropDestroys` and
`PopKeepsTheNode`. `EntryPerItem` needs more: as long as commands take turns (`orderly`),
at most one process is at work, and `Doing` relates the list it has read to the
directories at each of its steps, so that they agree again (`Matches`) at its end.

The argument for DesignGraph. That a build order is topological (`IsOrder`) holds for any
set of edges, as far as the sort gets; it gets through when
every set of nodes has a member with no source in the set (`Acyclic`). That the graph
is such is seen from a rank (`Ranked`) that grows along its edges and is the same for a node
and all its instances: a `connect` may raise the rank of everything downstream, a sweep
never changes it. A sweep is followed through `own`, the node that each call of the
helper on the stack has replaced: the calls wait for dependents of a higher rank
(`Calling`), so nothing a call does further down takes away the instances that the
calls above it have made, and the only edges of a node that is gone are those to
dependents still waiting (`Edged`), of which none is left when the outermost call
returns. Names are free because none is the beginning of another (`Antichain`, and
`Gone` for those that were replaced), so descendants of two nodes never meet. The
result is `WInv`; `PInv` adds what a launch does with it, and `NamesPlain` and the recorded
values give `NameTellsValue`.

The sort and the order of a walk are recursive functions and folds. The
induction theorems of the library cannot be used (they take an operator), but
induction over a *set* of numbers follows from a theorem on well-founded orders
of finite sets (`LeastNat`, `Inductive`), and with it that a function defined by recursion
over the naturals satisfies its equation (`Recursion`), so that facts on the sort are
proved for graphs of any size.

Only model-checked: liveness (`MakeEnds`, `RunEnds`, `SweepEnds`: out of the prover's
reach) and two action properties of DesignGraph, `SweepKeepsWiring` and
`SweptOnceIsDocumented`: they compare the graph at the end of a sweep with the one before
it, and the invariant does not yet relate the two.

## 5. Not modelled, and what is left

* A pull, a drop of the build directory or a `mflowgen run` *while* a make runs: nothing
  in the code forbids it, and nothing is promised.
* Half of the `rm -rf` of a directory rule: what a make that is ended there leaves
  is removed when the rule runs again, since the directory stays out of date.
* The inner run and make of a subgraph, which are commands of its node and use
  a directory of their own.
* Tagged outputs: with them a run raises (`o.keys()[0]` is Python 2), so no rule
  can be reached.
* The rules of the ninja backend: its `save` does not take what the orchestrator
  passes; Configure has what that leaves behind.
* The text of commands: an update changes the exported value of a parameter but
  not a `{parameter}` that was expanded into a command. Built nodes do not notice
  an update at all, as documented.
* Files of conditions of nodes that have none any more stay in a build directory
  until it is removed; `--subgraph` is not saved for `--update`.
* Mock and command line, formatting of Makefile and scripts, plotting, the
  matching of the File assertions, the node and technology library.

Left to do, in this order: `SweepKeepsWiring` for every graph, with an invariant that
relates the instances made so far to the sources the node had before the sweep,
then `SweptOnceIsDocumented` from it; two builds on one file system for subgraphs.
