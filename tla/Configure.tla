----------------------------- MODULE Configure ------------------------------
(***************************************************************************)
(* The files through which mflowgen commands talk to each other and to     *)
(* make in one build directory:                                            *)
(*                                                                         *)
(*   .mflowgen.yml       the construct script and the kwargs of the last   *)
(*                       "mflowgen run", for "mflowgen run --update"       *)
(*   Makefile            written by a run, unless it uses another backend  *)
(*   .mflowgen/N-node/   configure.yml, mflowgen-run, mflowgen-debug and   *)
(*                       the scripts of the pre- and post-conditions:      *)
(*                       removed and written by a run, edited in place by  *)
(*                       "mflowgen param update", copied by make           *)
(*                                                                         *)
(* Every file is truncated when it is opened and has its text when it is   *)
(* closed, and a command can raise or be killed between any two steps.     *)
(* One mflowgen command runs at a time; make changes none of the files.    *)
(*                                                                         *)
(* One parameter is followed.  The text of a file of a node is the value   *)
(* it holds for that parameter; conditions do not depend on it.            *)
(***************************************************************************)
EXTENDS Naturals

CONSTANTS
  Design,      \* construct scripts
  Kwargs,      \* arguments for construct(), NoKwargs among them
  NoKwargs,    \* the empty dictionary
  Value,       \* values of the parameter
  Gives,       \* the value a graph gives it, for each construct and kwargs
  Node,        \* numbers of the nodes, the same in every graph
  HasKey,      \* nodes that have the parameter
  Debugged,    \* nodes with debug commands
  Checked,     \* nodes with pre- or post-conditions
  MaxCommands  \* bound: how many commands are given

Config == Design \X Kwargs

ASSUME ConfigAssumption == NoKwargs \in Kwargs /\ Gives \in [Config -> Value]

ASSUME NodeAssumption ==
  /\ Node \subseteq Nat
  /\ HasKey \subseteq Node /\ Debugged \subseteq Node /\ Checked \subseteq Node

Missing == "missing"

ASSUME ValueAssumption ==
  /\ Value \cap {"absent", "part", "conditions"} = {}
  /\ Missing \notin Design \cup Kwargs

VARIABLES
  yml,       \* .mflowgen.yml: its form and the values of its two keys
  makefile,  \* "none", "empty", "part" or "whole"
  meta,      \* .mflowgen: the text of each file, "absent" or "part"
  proc,      \* the mflowgen command at work
  owner,     \* history: the backend of the run that began to write meta
  wanted,    \* history: the value each node was last given
  torn,      \* history: nodes whose files an update changed and did not finish
  asked,     \* history: the constructs and kwargs users asked for
  mixed,     \* history: a run with a request of its own saved half of it
  commands   \* number of commands given

files == <<yml, makefile, meta>>
request == <<asked, mixed>>
intent == <<owner, wanted, torn>>
vars == <<files, proc, intent, request, commands>>

-----------------------------------------------------------------------------
\* The files of the nodes, ranked as a run writes and an update edits them.
Rank == [configure |-> 1, run |-> 2, debug |-> 3, checks |-> 4]

File ==
  {<<n, f>> : n \in Node, f \in {"configure", "run"}}
    \cup {<<n, "debug">> : n \in Debugged}
    \cup {<<n, "checks">> : n \in Checked}

FilesOf(n) == {x \in File : x[1] = n}

\* A run writes a kind of file for all nodes before the next kind.
ByKind(x, y) ==
  \/ Rank[x[2]] < Rank[y[2]]
  \/ x[2] = y[2] /\ x[1] < y[1]

\* An update edits the files of a node before those of the next node.
ByNode(x, y) ==
  \/ x[1] < y[1]
  \/ x[1] = y[1] /\ Rank[x[2]] < Rank[y[2]]

\* What a file should hold when node n has value w[n].
Text(w, x) == IF x[2] = "checks" THEN "conditions" ELSE w[x[1]]

Yml(form, construct, kwargs) == [form |-> form, construct |-> construct, kwargs |-> kwargs]

NoYml == Yml("none", Missing, Missing)
EmptyYml == Yml("empty", Missing, Missing)

\* Phase, construct and kwargs, whether the request is the user's own, backend,
\* the text to write into the YAML, the value of an update, files still to do.
Idle ==
  [at |-> "idle", conf |-> <<Missing, Missing>>, own |-> FALSE, backend |-> "none",
   text |-> NoYml, value |-> "absent", todo |-> {}]

Ends == proc' = Idle

Goes(at) == proc' = [proc EXCEPT !.at = at]

Init ==
  /\ yml = NoYml /\ makefile = "none" /\ meta = [x \in File |-> "absent"]
  /\ proc = Idle
  /\ owner = "none" /\ wanted = [n \in Node |-> "absent"] /\ torn = {}
  /\ asked = {} /\ mixed = FALSE /\ commands = 0

Starts ==
  /\ proc.at = "idle"
  /\ commands < MaxCommands
  /\ commands' = commands + 1

-----------------------------------------------------------------------------
(* mflowgen run: the request is saved.                                     *)

\* --design and perhaps --graph-kwargs.  An empty YAML reads as None, which
\* takes no keys: the command raises and nothing has changed.
RunDesign(d, k, b) ==
  /\ Starts
  /\ yml.form # "empty"
  /\ proc' = [Idle EXCEPT !.at = "construct", !.conf = <<d, k>>,
                          !.own = TRUE, !.backend = b]
  /\ asked' = asked \cup {<<d, k>>}
  /\ UNCHANGED <<files, intent, mixed>>

\* --update takes the saved construct, and the saved kwargs if none are given.
RunUpdate(k, b) ==
  /\ Starts
  /\ yml.form = "dict"
  /\ proc' = [Idle EXCEPT !.at = "construct", !.conf = <<yml.construct, k>>,
                          !.own = k # NoKwargs, !.backend = b]
  /\ asked' = IF k # NoKwargs THEN asked \cup {<<yml.construct, k>>} ELSE asked
  /\ UNCHANGED <<files, intent, mixed>>

\* save_construct_path keeps the kwargs that are there.
SaveConstruct ==
  /\ proc.at = "construct"
  /\ proc' = [proc EXCEPT !.at = "saving construct",
                          !.text = Yml("dict", proc.conf[1], yml.kwargs)]
  /\ yml' = EmptyYml
  /\ mixed' = (mixed \/ proc.own)
  /\ UNCHANGED <<makefile, meta, intent, asked, commands>>

\* find_graph_kwargs: an update without kwargs whose YAML has none either ends.
NoSavedKwargs ==
  /\ proc.at = "kwargs" /\ ~proc.own /\ yml.kwargs = Missing
  /\ Ends
  /\ UNCHANGED <<files, intent, request, commands>>

\* Mutant: kwargs are saved only when there are some.
FoundIfGiven ==
  IF proc.conf[2] = NoKwargs /\ yml.kwargs # Missing THEN yml.kwargs ELSE proc.conf[2]

Found == IF proc.own THEN proc.conf[2] ELSE yml.kwargs

\* Mutant: the saved dictionary starts over.
SaveKwargsAlone ==
  /\ proc.at = "kwargs" /\ Found # Missing
  /\ proc' = [proc EXCEPT !.at = "saving kwargs", !.conf = <<@[1], Found>>,
                          !.text = Yml("dict", Missing, Found)]
  /\ yml' = EmptyYml
  /\ UNCHANGED <<makefile, meta, intent, request, commands>>

\* Mutant: the kwargs of the command line are saved, not those that were found.
SaveKwargsAsGiven ==
  /\ proc.at = "kwargs" /\ Found # Missing
  /\ proc' = [proc EXCEPT !.at = "saving kwargs", !.conf = <<@[1], Found>>,
                          !.text = Yml("dict", yml.construct, proc.conf[2])]
  /\ yml' = EmptyYml
  /\ UNCHANGED <<makefile, meta, intent, request, commands>>

SaveKwargs ==
  /\ proc.at = "kwargs" /\ Found # Missing
  /\ proc' = [proc EXCEPT !.at = "saving kwargs", !.conf = <<@[1], Found>>,
                          !.text = Yml("dict", yml.construct, Found)]
  /\ yml' = EmptyYml
  /\ UNCHANGED <<makefile, meta, intent, request, commands>>

WriteYml ==
  /\ \/ proc.at = "saving construct" /\ Goes("kwargs") /\ UNCHANGED mixed
     \/ proc.at = "saving kwargs" /\ Goes("graph") /\ mixed' = (mixed /\ ~proc.own)
  /\ yml' = proc.text
  /\ UNCHANGED <<makefile, meta, intent, asked, commands>>

-----------------------------------------------------------------------------
(* mflowgen run: the graph is built and its files are written.             *)

\* construct() raises, for instance on kwargs it does not take, or a step of the
\* setup does: commands with unknown parameters, conditions that do not compile.
RunRaises ==
  /\ proc.at \in {"graph", "dump"}
  /\ Ends
  /\ UNCHANGED <<files, intent, request, commands>>

\* Mutant: the Makefile is opened when there is something to write.
OpenBackendLate ==
  /\ proc.at = "graph"
  /\ Goes("clear")
  /\ owner' = proc.backend
  /\ UNCHANGED <<files, wanted, torn, request, commands>>

\* The backend object opens its file, build.ninja or the Makefile.
OpenBackend ==
  /\ proc.at = "graph"
  /\ Goes("clear")
  /\ makefile' = IF proc.backend = "make" THEN "empty" ELSE makefile
  /\ owner' = proc.backend
  /\ UNCHANGED <<yml, meta, wanted, torn, request, commands>>

\* rmtree, file by file.
Clear(x) ==
  /\ proc.at = "clear" /\ meta[x] # "absent"
  /\ meta' = [meta EXCEPT ![x] = "absent"]
  /\ UNCHANGED <<yml, makefile, proc, intent, request, commands>>

Cleared ==
  /\ proc.at = "clear" /\ \A x \in File : meta[x] = "absent"
  /\ proc' = [proc EXCEPT !.at = "dump", !.todo = File]
  /\ wanted' = [n \in Node |-> Gives[proc.conf]] /\ torn' = {}
  /\ UNCHANGED <<files, owner, request, commands>>

\* The files are written in order; the first to do stays on the list until it
\* is closed.
FirstByKind(x) == x \in proc.todo /\ \A y \in proc.todo \ {x} : ByKind(x, y)
FirstByNode(x) == x \in proc.todo /\ \A y \in proc.todo \ {x} : ByNode(x, y)

DumpOpen(x) ==
  /\ proc.at = "dump" /\ FirstByKind(x)
  /\ meta' = [meta EXCEPT ![x] = "part"]
  /\ Goes("dumping")
  /\ UNCHANGED <<yml, makefile, intent, request, commands>>

DumpClose(x) ==
  /\ proc.at = "dumping" /\ FirstByKind(x)
  /\ meta' = [meta EXCEPT ![x] = Text(wanted, x)]
  /\ proc' = [proc EXCEPT !.at = "dump", !.todo = @ \ {x}]
  /\ UNCHANGED <<yml, makefile, intent, request, commands>>

\* The rules follow, some of them in the file before others.
Emit ==
  /\ proc.at = "dump" /\ proc.todo = {}
  /\ proc.backend = "make"
  /\ Goes("emit") /\ makefile' = "part"
  /\ UNCHANGED <<yml, meta, intent, request, commands>>

\* The ninja backend raises at its first call: its save() lacks a parameter.
NinjaRaises ==
  /\ proc.at = "dump" /\ proc.todo = {}
  /\ proc.backend = "ninja"
  /\ Ends
  /\ UNCHANGED <<files, intent, request, commands>>

EmitDone ==
  /\ proc.at = "emit"
  /\ Ends /\ makefile' = "whole"
  /\ UNCHANGED <<yml, meta, intent, request, commands>>

-----------------------------------------------------------------------------
(* mflowgen param update, for one node or all of them.                     *)

\* Directories are there as long as a file is.
Listed == {n \in Node : \E x \in FilesOf(n) : meta[x] # "absent"}

\* Mutant: the debug script is forgotten.
EditedNotDebug(S) == {<<n, f>> : n \in S, f \in {"configure", "run"}}

Edited(S) == {x \in File : x[1] \in S /\ x[2] # "checks"}

\* --all takes the directories that are there, --node one of them; without any
\* the command ends and nothing has changed.
StartUpdate(S, v) ==
  /\ Starts
  /\ S \subseteq Listed /\ S # {}
  /\ proc' = [Idle EXCEPT !.at = "update", !.value = v, !.todo = Edited(S)]
  /\ UNCHANGED <<files, intent, request>>

\* A node without the key, or whose YAML is cut off, is passed over.
PassOver(n) ==
  /\ proc.at = "update" /\ FirstByNode(<<n, "configure">>)
  /\ n \notin HasKey \/ meta[<<n, "configure">>] = "part"
  /\ proc' = [proc EXCEPT !.todo = @ \ FilesOf(n)]
  /\ UNCHANGED <<files, intent, request, commands>>

\* A YAML that is absent or does not parse ends the command.
UpdateRaises(n) ==
  /\ proc.at = "update" /\ FirstByNode(<<n, "configure">>)
  /\ meta[<<n, "configure">>] \in {"absent", "part"}
  /\ Ends
  /\ UNCHANGED <<files, intent, request, commands>>

\* configure.yml is dumped anew; the lines of a script are read first, and if it
\* holds none that is what is written back.
EditOpen(x) ==
  /\ proc.at = "update" /\ FirstByNode(x)
  /\ x[1] \in HasKey /\ meta[x] # "absent"
  /\ x[2] = "configure" => meta[x] # "part"
  /\ proc' = [proc EXCEPT !.at = IF meta[x] = "part" THEN "editing part" ELSE "editing"]
  /\ meta' = [meta EXCEPT ![x] = "part"]
  /\ IF x[2] = "configure"
       THEN wanted' = [wanted EXCEPT ![x[1]] = proc.value] /\ torn' = torn \cup {x[1]}
       ELSE UNCHANGED <<wanted, torn>>
  /\ UNCHANGED <<yml, makefile, owner, request, commands>>

\* What is left to do for the node of x, and whether its files are whole then.
Whole(n) == \A x \in FilesOf(n) : meta'[x] # "part"

Edits(x) ==
  /\ proc' = [proc EXCEPT !.at = "update", !.todo = @ \ {x}]
  /\ torn' = IF FilesOf(x[1]) \cap proc.todo = {x} /\ Whole(x[1])
               THEN torn \ {x[1]} ELSE torn

EditClose(x) ==
  /\ proc.at \in {"editing", "editing part"} /\ FirstByNode(x)
  /\ meta' = [meta EXCEPT ![x] = IF proc.at = "editing" THEN proc.value ELSE "part"]
  /\ Edits(x)
  /\ UNCHANGED <<yml, makefile, owner, wanted, request, commands>>

\* A script that is not there is not written.
EditNothing(x) ==
  /\ proc.at = "update" /\ FirstByNode(x)
  /\ x[2] # "configure" /\ meta[x] = "absent"
  /\ UNCHANGED <<files, owner, wanted, request, commands>>
  /\ Edits(x)

\* A file cannot be written: the handler says so and goes on with the next node.
EditFails(x) ==
  /\ proc.at \in {"editing", "editing part"} /\ FirstByNode(x)
  /\ proc' = [proc EXCEPT !.at = "update", !.todo = @ \ FilesOf(x[1])]
  /\ UNCHANGED <<files, intent, request, commands>>

UpdateDone ==
  /\ proc.at = "update" /\ proc.todo = {}
  /\ Ends
  /\ UNCHANGED <<files, intent, request, commands>>

\* A mflowgen command is killed, at any point.
Kill ==
  /\ proc.at # "idle"
  /\ Ends
  /\ UNCHANGED <<files, intent, request, commands>>

-----------------------------------------------------------------------------
RunStep ==
  \/ SaveConstruct \/ NoSavedKwargs \/ SaveKwargs \/ WriteYml
  \/ RunRaises \/ OpenBackend \/ Cleared \/ Emit \/ NinjaRaises \/ EmitDone
  \/ \E x \in File : Clear(x) \/ DumpOpen(x) \/ DumpClose(x)

UpdateStep ==
  \/ \E n \in Node : PassOver(n) \/ UpdateRaises(n)
  \/ \E x \in File : EditOpen(x) \/ EditClose(x) \/ EditNothing(x) \/ EditFails(x)
  \/ UpdateDone

UserStep ==
  \/ \E k \in Kwargs, b \in {"make", "ninja"} :
       RunUpdate(k, b) \/ \E d \in Design : RunDesign(d, k, b)
  \/ \E S \in {Listed} \cup {{n} : n \in Listed}, v \in Value : StartUpdate(S, v)
  \/ Kill

Next == RunStep \/ UpdateStep \/ UserStep

Spec == Init /\ [][Next]_vars
-----------------------------------------------------------------------------
(* Properties.                                                             *)

At ==
  {"idle", "construct", "saving construct", "kwargs", "saving kwargs", "graph",
   "clear", "dump", "dumping", "emit", "update", "editing", "editing part"}

YmlForm ==
  {NoYml, EmptyYml}
    \cup {Yml("dict", d, k) : d \in Design, k \in Kwargs \cup {Missing}}

Proc ==
  [at : At, conf : (Design \cup {Missing}) \X (Kwargs \cup {Missing}), own : BOOLEAN,
   backend : {"none", "make", "ninja"}, text : YmlForm,
   value : Value \cup {"absent"}, todo : SUBSET File]

\* Every variable keeps its type; in particular a .mflowgen.yml that is not
\* empty always has the key that "mflowgen run --update" cannot do without.
TypeOK ==
  /\ yml \in YmlForm
  /\ makefile \in {"none", "empty", "part", "whole"}
  /\ meta \in [File -> Value \cup {"absent", "part", "conditions"}]
  /\ proc \in Proc
  /\ owner \in {"none", "make", "ninja"}
  /\ wanted \in [Node -> Value \cup {"absent"}] /\ torn \subseteq Node
  /\ asked \subseteq Config /\ mixed \in BOOLEAN /\ commands \in Nat

\* A Makefile with rules in it is backed by what they copy: every file of every
\* node is there, complete, and holds the value the node was last given, but for
\* nodes an update was at work on or was killed at.  So it is after runs that
\* raised or were killed half way, as long as the last one wrote a Makefile.
MakefileIsBacked ==
  owner = "make" /\ makefile \in {"part", "whole"} =>
    \A x \in File : x[1] \notin torn => meta[x] = Text(wanted, x)

\* The YAML that parameterizes a node, the script that builds it and the script
\* that debugs it never tell different values, whatever was interrupted, but for
\* nodes whose update was.
FilesAgree ==
  \A x \in File :
    x[1] \notin torn => meta[x] \in {"absent", "part", Text(wanted, x)}

\* "mflowgen run --update" finds a construct and kwargs that were asked for
\* together, unless a run with a request of its own was killed between the two.
SavedIsARequest ==
  yml.form = "dict" /\ ~mixed => <<yml.construct, yml.kwargs>> \in asked

\* A run that completes leaves the graph of what it saved: the same run with
\* --update would write the same files, updates in between are not preserved
\* (docs/ug-params), and nothing of an interrupted command remains.
SavedIsGenerated ==
  [][makefile = "part" /\ makefile' = "whole" =>
       LET saved == [n \in Node |-> Gives[<<yml.construct, yml.kwargs>>]] IN
       \A x \in File : meta[x] = Text(saved, x)]_vars
=============================================================================
