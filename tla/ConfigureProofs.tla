-------------------------- MODULE ConfigureProofs ---------------------------
(***************************************************************************)
(* The safety properties of Configure for all designs, graphs and values   *)
(* and any number of commands.                                             *)
(*                                                                         *)
(* The argument.  What is saved follows the request through the steps of a *)
(* run (Saving), so that the graph is built from what the YAML then holds  *)
(* (Generating).  A run leaves the Makefile without rules until the last   *)
(* file of the last node is written (Dumping), so a Makefile with rules    *)
(* proves that no run was interrupted since.  An update takes one node in  *)
(* hand at a time and marks it as torn first; what it has edited of that   *)
(* node holds its value (Editing), so the mark goes when the last file is  *)
(* closed.                                                                 *)
(***************************************************************************)
EXTENDS Configure, TLAPS

Generates == {"graph", "clear", "dump", "dumping", "emit"}
Saves == {"construct", "saving construct", "kwargs", "saving kwargs"}
Updates == {"update", "editing", "editing part"}

ConfIsConfig ==
  proc.at \in Saves \cup Generates =>
    /\ proc.conf \in Config
    /\ proc.backend \in {"make", "ninja"}

\* The request of the run at work, and what it has saved of it.
Saving ==
  /\ (proc.at = "construct" /\ ~proc.own) \/ proc.at = "kwargs" =>
       yml.form = "dict" /\ yml.construct = proc.conf[1]
  /\ proc.at = "saving construct" =>
       proc.text.form = "dict" /\ proc.text.construct = proc.conf[1]
  /\ proc.at = "saving kwargs" => proc.text = Yml("dict", proc.conf[1], proc.conf[2])
  /\ proc.at \in {"saving construct", "saving kwargs"} /\ ~mixed =>
       <<proc.text.construct, proc.text.kwargs>> \in asked
  /\ proc.at \in Saves /\ proc.own =>
       proc.conf \in asked /\ (proc.at # "construct" => mixed)

Generating ==
  proc.at \in Generates => yml = Yml("dict", proc.conf[1], proc.conf[2])

\* What a run at work has written.
Dumping ==
  /\ proc.at \in {"clear", "dump", "dumping", "emit"} => owner = proc.backend
  /\ proc.at \in {"clear", "dump", "dumping"} /\ proc.backend = "make" =>
       makefile = "empty"
  /\ proc.at \in {"dump", "dumping", "emit"} =>
       /\ wanted = [n \in Node |-> Gives[proc.conf]] /\ torn = {}
       /\ \A x \in File \ proc.todo : meta[x] = Text(wanted, x)
  /\ proc.at = "emit" => proc.todo = {}

\* Conditions do not change, and no file is missing behind a Makefile with rules.
Present ==
  /\ \A x \in File : x[2] = "checks" => meta[x] \in {"absent", "part", "conditions"}
  /\ owner = "make" /\ makefile \in {"part", "whole"} =>
       \A x \in File : meta[x] # "absent"

InHand(n) == \E x \in FilesOf(n) : x \in proc.todo /\ <<n, "configure">> \notin proc.todo

\* What an update at work has edited of the node it has in hand.
Editing ==
  proc.at \in Updates =>
    /\ proc.value \in Value
    /\ \A x \in proc.todo : x[2] # "checks"
    /\ \A n \in Node : <<n, "configure">> \in proc.todo =>
         \A x \in FilesOf(n) : x[2] # "checks" => x \in proc.todo
    /\ \A n \in Node : InHand(n) =>
         /\ n \in torn /\ wanted[n] = proc.value
         /\ \A x \in FilesOf(n) \ proc.todo :
              x[2] # "checks" => meta[x] \in {"absent", "part", proc.value}
    /\ proc.at # "update" => \A x \in proc.todo :
         FirstByNode(x) => x[1] \in torn /\ wanted[x[1]] = proc.value

IInv ==
  /\ TypeOK /\ ConfIsConfig /\ Saving /\ Generating /\ Dumping /\ Present /\ Editing
  /\ MakefileIsBacked /\ FilesAgree /\ SavedIsARequest
-----------------------------------------------------------------------------
(* Files and their order.                                                  *)

\* An update is given directories that are there.
LEMMA Updated == \A S \in {Listed} \cup {{n} : n \in Listed} : S \in SUBSET Node
  BY DEF Listed

LEMMA FileShape ==
  ASSUME NEW x \in File
  PROVE  /\ x[1] \in Node /\ x[1] \in Nat
         /\ x[2] \in {"configure", "run", "debug", "checks"}
         /\ x = <<x[1], x[2]>>
         /\ x \in FilesOf(x[1])
         /\ <<x[1], "configure">> \in File
  BY NodeAssumption DEF File, FilesOf

LEMMA FilesOfShape ==
  ASSUME NEW n \in Node, NEW x \in FilesOf(n)
  PROVE  x \in File /\ x[1] = n
  BY DEF FilesOf

LEMMA Ranks ==
  /\ Rank["configure"] = 1 /\ Rank["run"] = 2
  /\ Rank["debug"] = 3 /\ Rank["checks"] = 4
  BY DEF Rank

\* configure.yml comes before the scripts of the same node.
LEMMA ConfigureFirst ==
  ASSUME NEW x \in File, x[2] # "configure", FirstByNode(x)
  PROVE  <<x[1], "configure">> \notin proc.todo
  <1>1. x[2] \in {"run", "debug", "checks"} /\ x[1] \in Nat
    BY FileShape
  <1>2. ~ ByNode(x, <<x[1], "configure">>)
    <2>1. Rank[x[2]] \in {2, 3, 4}
      BY <1>1, Ranks
    <2>2. /\ <<x[1], "configure">>[1] = x[1]
          /\ <<x[1], "configure">>[2] = "configure"
      OBVIOUS
    <2>3. QED
      BY <1>1, <2>1, <2>2, Ranks DEF ByNode
  <1>3. QED
    BY <1>2 DEF FirstByNode

LEMMA OnlyOneFirst ==
  ASSUME NEW x \in File, NEW y \in File, FirstByNode(x), FirstByNode(y)
  PROVE  x = y
  <1>1. SUFFICES ASSUME x # y PROVE FALSE
    OBVIOUS
  <1>2. ByNode(x, y) /\ ByNode(y, x)
    BY <1>1 DEF FirstByNode
  <1>3. x[1] \in Nat /\ y[1] \in Nat
    BY FileShape
  <1>4. /\ Rank[x[2]] \in Nat /\ Rank[y[2]] \in Nat
        /\ x[2] \in {"configure", "run", "debug", "checks"}
        /\ y[2] \in {"configure", "run", "debug", "checks"}
    <2>1. /\ x[2] \in {"configure", "run", "debug", "checks"}
          /\ y[2] \in {"configure", "run", "debug", "checks"}
      BY FileShape
    <2>2. QED
      BY <2>1, Ranks
  <1>5. x[1] = y[1] /\ x[2] = y[2]
    BY <1>2, <1>3, <1>4 DEF ByNode
  <1>6. QED
    BY <1>1, <1>5, FileShape

LEMMA ConfigYml ==
  ASSUME NEW d \in Design, NEW k \in Kwargs \cup {Missing}
  PROVE  Yml("dict", d, k) \in YmlForm
  BY DEF YmlForm

LEMMA YmlShape ==
  ASSUME NEW y \in YmlForm
  PROVE  /\ y.form \in {"none", "empty", "dict"}
         /\ y.kwargs \in Kwargs \cup {Missing}
         /\ y.form = "dict" =>
              y.construct \in Design /\ y = Yml("dict", y.construct, y.kwargs)
  BY DEF YmlForm, NoYml, EmptyYml, Yml

LEMMA ConfigShape ==
  ASSUME NEW c \in Config
  PROVE  c = <<c[1], c[2]>> /\ c[1] \in Design /\ c[2] \in Kwargs
  BY DEF Config

LEMMA ProcAt ==
  ASSUME proc \in Proc, NEW a \in At
  PROVE  [proc EXCEPT !.at = a] \in Proc
  BY DEF Proc

LEMMA ProcTodo ==
  ASSUME proc \in Proc, NEW a \in At, NEW S \in SUBSET File
  PROVE  /\ [proc EXCEPT !.at = a, !.todo = S] \in Proc
         /\ [proc EXCEPT !.todo = S] \in Proc
  BY DEF Proc

LEMMA ProcText ==
  ASSUME proc \in Proc, NEW a \in At, NEW t \in YmlForm
  PROVE  [proc EXCEPT !.at = a, !.text = t] \in Proc
  BY DEF Proc

LEMMA IdleIsProc == Idle \in Proc /\ EmptyYml \in YmlForm
  BY DEF Idle, Proc, At, YmlForm

-----------------------------------------------------------------------------
(* The node an update has in hand.                                         *)

\* Whoever is first and not a configure.yml belongs to the node in hand.
LEMMA FirstInHand ==
  ASSUME proc.at \in Updates, Editing, NEW x \in File, FirstByNode(x),
         x[2] # "configure"
  PROVE  InHand(x[1]) /\ x[1] \in torn /\ wanted[x[1]] = proc.value
  <1>1. x \in FilesOf(x[1]) /\ x[1] \in Node
    BY FileShape
  <1>2. <<x[1], "configure">> \notin proc.todo /\ x \in proc.todo
    BY ConfigureFirst DEF FirstByNode
  <1>3. InHand(x[1])
    BY <1>1, <1>2 DEF InHand
  <1>4. QED
    BY <1>1, <1>3 DEF Editing

\* One file is done: the node stays in hand until its last.
LEMMA EditsKeeps ==
  ASSUME TypeOK, Editing, proc.at \in Updates, NEW x \in File, FirstByNode(x),
         Edits(x), x[1] \in torn, wanted[x[1]] = proc.value, wanted' = wanted,
         \A y \in File \ {x} : meta'[y] = meta[y],
         meta'[x] \in {"absent", "part", proc.value}
  PROVE  Editing'
  <1> DEFINE n == x[1]
  <1>1. /\ proc'.todo = proc.todo \ {x} /\ proc'.at = "update"
        /\ proc'.value = proc.value
    BY DEF Edits, TypeOK, Proc
  <1>2. x \in proc.todo /\ n \in Node /\ x = <<n, x[2]>>
    BY FileShape DEF FirstByNode
  <1>3. proc.todo \subseteq File
    BY DEF TypeOK, Proc
  <1>4. <<n, "configure">> \notin proc'.todo
    BY <1>1, <1>2, ConfigureFirst
  <1>5. ASSUME NEW m \in Node, <<m, "configure">> \in proc'.todo,
               NEW y \in FilesOf(m), y[2] # "checks"
        PROVE  y \in proc'.todo
    <2>1. m # n /\ <<m, "configure">> \in proc.todo
      BY <1>1, <1>4, <1>5
    <2>2. y \in proc.todo
      BY <1>5, <2>1 DEF Editing
    <2>3. y # x
      BY <1>5, <2>1, FilesOfShape
    <2>4. QED
      BY <1>1, <2>2, <2>3
  <1>6. ASSUME NEW m \in Node, InHand(m)'
        PROVE  /\ m \in torn' /\ wanted'[m] = proc'.value
               /\ \A y \in FilesOf(m) \ proc'.todo :
                    y[2] # "checks" => meta'[y] \in {"absent", "part", proc'.value}
    <2>1. PICK z \in FilesOf(m) : z \in proc'.todo
      BY <1>6 DEF InHand
    <2>2. z \in proc.todo /\ z # x
      BY <1>1, <2>1
    <2>3. CASE m = n
      <3>1. torn' = torn
        BY <2>1, <2>2, <2>3 DEF Edits
      <3>2. ASSUME NEW y \in FilesOf(m) \ proc'.todo, y[2] # "checks"
            PROVE  meta'[y] \in {"absent", "part", proc.value}
        <4>1. y \in File
          BY FilesOfShape
        <4>2. CASE y = x
          BY <4>2
        <4>3. CASE y # x
          <5>1. y \notin proc.todo
            BY <1>1, <3>2, <4>3
          <5>2. <<n, "configure">> \notin proc.todo
            BY <1>2, <2>3, <3>2, <5>1 DEF Editing
          <5>3. InHand(n)
            BY <2>1, <2>2, <2>3, <5>2 DEF InHand
          <5>4. meta[y] \in {"absent", "part", proc.value}
            BY <1>2, <2>3, <3>2, <5>1, <5>3 DEF Editing
          <5>5. QED
            BY <4>1, <4>3, <5>4
        <4>4. QED
          BY <4>2, <4>3
      <3>3. QED
        BY <1>1, <2>3, <3>1, <3>2
    <2>4. CASE m # n
      <3>1. <<m, "configure">> # x
        BY <1>2, <2>4
      <3>2. InHand(m)
        BY <1>1, <1>6, <2>1, <2>2, <3>1 DEF InHand
      <3>3. m \in torn' /\ wanted'[m] = proc.value
        BY <2>4, <3>2 DEF Edits, Editing
      <3>4. ASSUME NEW y \in FilesOf(m) \ proc'.todo, y[2] # "checks"
            PROVE  meta'[y] \in {"absent", "part", proc.value}
        <4>1. y \in File /\ y # x
          BY <2>4, FilesOfShape
        <4>2. y \notin proc.todo
          BY <1>1, <3>4, <4>1
        <4>3. QED
          BY <3>2, <3>4, <4>1, <4>2 DEF Editing
      <3>5. QED
        BY <1>1, <3>3, <3>4
    <2>5. QED
      BY <2>3, <2>4
  <1>7. proc'.value \in Value /\ \A y \in proc'.todo : y[2] # "checks"
    BY <1>1 DEF Editing
  <1>8. QED
    BY <1>1, <1>5, <1>6, <1>7 DEF Editing

\* An update gives up on a node, or has nothing to do for it.
LEMMA DroppedKeeps ==
  ASSUME TypeOK, Editing, proc.at \in Updates, NEW n \in Node,
         proc' = [proc EXCEPT !.at = "update", !.todo = @ \ FilesOf(n)],
         UNCHANGED <<meta, wanted, torn>>
  PROVE  Editing'
  <1>1. /\ proc'.todo = proc.todo \ FilesOf(n) /\ proc'.at = "update"
        /\ proc'.value = proc.value
    BY DEF TypeOK, Proc
  <1>2. ASSUME NEW m \in Node, m # n, NEW y \in FilesOf(m)
        PROVE  y \in proc'.todo <=> y \in proc.todo
    BY <1>1, <1>2, FilesOfShape
  <1>3. ASSUME NEW m \in Node
        PROVE  <<m, "configure">> \in FilesOf(m)
    BY DEF File, FilesOf
  <1>4. \A y \in FilesOf(n) : y \notin proc'.todo
    BY <1>1
  <1>5. ASSUME NEW m \in Node, InHand(m)'
        PROVE  m # n /\ InHand(m)
    BY <1>2, <1>3, <1>4, <1>5 DEF InHand
  <1>6. ASSUME NEW m \in Node, <<m, "configure">> \in proc'.todo
        PROVE  m # n /\ <<m, "configure">> \in proc.todo
    BY <1>1, <1>3, <1>4, <1>6
  <1>7. QED
    BY <1>1, <1>2, <1>5, <1>6 DEF Editing, Updates

\* What an update leaves behind when a node is no longer torn.
LEMMA EditsAgrees ==
  ASSUME TypeOK, Editing, Present, FilesAgree, proc.at \in Updates,
         NEW x \in File, FirstByNode(x), x[2] # "checks",
         Edits(x), x[1] \in torn, wanted[x[1]] = proc.value, wanted' = wanted,
         \A y \in File \ {x} : meta'[y] = meta[y],
         meta'[x] \in {"absent", "part", proc.value}
  PROVE  /\ FilesAgree'
         /\ x[1] \notin torn' => \A y \in FilesOf(x[1]) : meta'[y] # "part"
         /\ torn \ {x[1]} \subseteq torn'
  <1> DEFINE n == x[1]
  <1>1. x \in proc.todo /\ n \in Node /\ x \in FilesOf(n)
    BY FileShape DEF FirstByNode
  <1>2. torn \ {n} \subseteq torn'
    BY DEF Edits
  <1>3. n \notin torn' => FilesOf(n) \cap proc.todo = {x} /\ Whole(n)
    BY DEF Edits
  <1>4. ASSUME NEW y \in File, y[1] \notin torn'
        PROVE  meta'[y] \in {"absent", "part", Text(wanted', y)}
    <2>1. CASE y = x
      BY <2>1 DEF Text
    <2>2. CASE y # x /\ y[1] = n
      <3>1. y \in FilesOf(n) /\ y \notin proc.todo
        BY <1>3, <1>4, <2>2 DEF FilesOf
      <3>2. CASE y[2] = "checks"
        BY <2>2, <3>2 DEF Present, Text
      <3>3. CASE y[2] # "checks"
        <4>1. <<n, "configure">> \notin proc.todo
          BY <1>1, <3>1, <3>3 DEF Editing
        <4>2. InHand(n)
          BY <1>1, <4>1 DEF InHand
        <4>3. meta[y] \in {"absent", "part", proc.value}
          BY <1>1, <3>1, <3>3, <4>2 DEF Editing
        <4>4. QED
          BY <2>2, <3>3, <4>3 DEF Text
      <3>4. QED
        BY <3>2, <3>3
    <2>3. CASE y[1] # n
      <3>1. y # x /\ y[1] \notin torn
        BY <1>2, <1>4, <2>3
      <3>2. QED
        BY <3>1 DEF FilesAgree
    <2>4. QED
      BY <2>1, <2>2, <2>3
  <1>5. QED
    BY <1>2, <1>3, <1>4 DEF FilesAgree, Whole

\* The two steps that end the work on a file.
LEMMA EditCloseShape ==
  ASSUME TypeOK, Editing, NEW x \in File, EditClose(x)
  PROVE  /\ proc.at \in Updates /\ FirstByNode(x) /\ Edits(x)
         /\ x[2] # "checks" /\ proc.value \in Value
         /\ x[1] \in torn /\ wanted[x[1]] = proc.value /\ wanted' = wanted
         /\ \A y \in File \ {x} : meta'[y] = meta[y]
         /\ meta'[x] \in {"part", proc.value}
         /\ UNCHANGED <<makefile, owner>>
  <1>1. proc.at \in Updates /\ proc.at # "update" /\ FirstByNode(x) /\ Edits(x)
    BY DEF EditClose, Updates
  <1>2. x \in proc.todo
    BY <1>1 DEF FirstByNode
  <1>3. meta \in [File -> Value \cup {"absent", "part", "conditions"}]
    BY DEF TypeOK
  <1>4. QED
    BY <1>1, <1>2, <1>3 DEF EditClose, Editing

LEMMA EditNothingShape ==
  ASSUME TypeOK, Editing, NEW x \in File, EditNothing(x)
  PROVE  /\ proc.at \in Updates /\ FirstByNode(x) /\ Edits(x)
         /\ x[2] # "checks"
         /\ x[1] \in torn /\ wanted[x[1]] = proc.value /\ wanted' = wanted
         /\ meta' = meta /\ meta[x] = "absent"
         /\ UNCHANGED <<makefile, owner>>
  <1>1. /\ proc.at \in Updates /\ FirstByNode(x) /\ Edits(x)
        /\ x[2] # "configure"
    BY DEF EditNothing, Updates
  <1>2. x \in proc.todo
    BY <1>1 DEF FirstByNode
  <1>3. QED
    BY <1>1, <1>2, FirstInHand DEF EditNothing, Editing, files

LEMMA EditOpenShape ==
  ASSUME TypeOK, Editing, NEW x \in File, EditOpen(x)
  PROVE  /\ proc.at \in Updates /\ FirstByNode(x) /\ x[2] # "checks"
         /\ \A y \in File \ {x} : meta'[y] = meta[y]
         /\ meta'[x] = "part"
         /\ x[1] \in torn' /\ wanted'[x[1]] = proc.value
         /\ torn \subseteq torn'
         /\ \A n \in Node \ {x[1]} : wanted'[n] = wanted[n]
         /\ UNCHANGED <<makefile, owner>>
  <1>1. /\ proc.at \in Updates /\ FirstByNode(x)
        /\ meta \in [File -> Value \cup {"absent", "part", "conditions"}]
        /\ x[1] \in Node /\ wanted \in [Node -> Value \cup {"absent"}]
    BY FileShape DEF EditOpen, Updates, TypeOK
  <1>2. x \in proc.todo
    BY <1>1 DEF FirstByNode
  <1>3. CASE x[2] = "configure"
    BY <1>1, <1>2, <1>3 DEF EditOpen, Editing
  <1>4. CASE x[2] # "configure"
    BY <1>1, <1>2, <1>4, FirstInHand DEF EditOpen, Editing
  <1>5. QED
    BY <1>3, <1>4

-----------------------------------------------------------------------------
(* The step lemmas.                                                        *)

\* The command at work keeps its type.
LEMMA ProcStep ==
  ASSUME TypeOK, ConfIsConfig, Saving, [Next]_vars
  PROVE  proc' \in Proc
  <1>0. /\ proc \in Proc /\ proc.todo \subseteq File
        /\ proc.at \in At /\ proc.text \in YmlForm
    BY DEF TypeOK, Proc
  <1> USE <1>0
  <1>1. CASE SaveConstruct
    <2>1. Yml("dict", proc.conf[1], yml.kwargs) \in YmlForm
      <3>1. proc.conf[1] \in Design
        BY <1>1 DEF SaveConstruct, ConfIsConfig, Saves, Config
      <3>2. yml.kwargs \in Kwargs \cup {Missing}
        BY YmlShape DEF TypeOK
      <3>3. QED
        BY <3>1, <3>2, ConfigYml
    <2>2. "saving construct" \in At
      BY DEF At
    <2>3. QED
      BY <1>1, <2>1, <2>2, ProcText DEF SaveConstruct
  <1>2. CASE SaveKwargs
    <2>1. /\ proc.conf \in Config /\ Found \in Kwargs
          /\ yml.construct \in Design
      BY <1>2, YmlShape DEF SaveKwargs, ConfIsConfig, Saves, Saving, Found, Config,
         TypeOK
    <2>2. Yml("dict", yml.construct, Found) \in YmlForm
      BY <2>1, ConfigYml
    <2>4. proc' = [proc EXCEPT !.at = "saving kwargs", !.conf = <<proc.conf[1], Found>>,
                               !.text = Yml("dict", yml.construct, Found)]
      BY <1>2 DEF SaveKwargs
    <2>5. QED
      BY <2>1, <2>2, <2>4 DEF Proc, At, Config
  <1>3. CASE NoSavedKwargs
    BY <1>3, IdleIsProc DEF NoSavedKwargs, Ends
  <1>4. CASE WriteYml
    BY <1>4, ProcAt DEF WriteYml, Goes, At
  <1>5. CASE RunRaises
    BY <1>5, IdleIsProc DEF RunRaises, Ends
  <1>6. CASE OpenBackend
    BY <1>6, ProcAt DEF OpenBackend, Goes, At
  <1>7. ASSUME NEW x \in File, Clear(x) PROVE proc' \in Proc
    BY <1>7, ProcAt DEF Clear
  <1>8. CASE Cleared
    BY <1>8, ProcTodo DEF Cleared, At
  <1>9. ASSUME NEW x \in File, DumpOpen(x) PROVE proc' \in Proc
    BY <1>9, ProcAt DEF DumpOpen, Goes, At
  <1>10. ASSUME NEW x \in File, DumpClose(x) PROVE proc' \in Proc
    BY <1>10, ProcTodo DEF DumpClose, At
  <1>11. CASE Emit
    BY <1>11, ProcAt DEF Emit, Goes, At
  <1>12. CASE EmitDone
    BY <1>12, IdleIsProc DEF EmitDone, Ends
  <1>12a. CASE NinjaRaises
    BY <1>12a, IdleIsProc DEF NinjaRaises, Ends
  <1>13. ASSUME NEW n \in Node, PassOver(n) PROVE proc' \in Proc
    BY <1>13, ProcTodo DEF PassOver
  <1>14. ASSUME NEW n \in Node, UpdateRaises(n) PROVE proc' \in Proc
    BY <1>14, IdleIsProc DEF UpdateRaises, Ends
  <1>15. ASSUME NEW x \in File, EditOpen(x) PROVE proc' \in Proc
    BY <1>15, ProcAt DEF EditOpen, At
  <1>16. ASSUME NEW x \in File, EditClose(x) PROVE proc' \in Proc
    BY <1>16, ProcTodo DEF EditClose, Edits, At
  <1>17. ASSUME NEW x \in File, EditNothing(x) PROVE proc' \in Proc
    BY <1>17, ProcTodo DEF EditNothing, Edits, At
  <1>18. ASSUME NEW x \in File, EditFails(x) PROVE proc' \in Proc
    BY <1>18, ProcTodo DEF EditFails, At
  <1>19. CASE UpdateDone
    BY <1>19, IdleIsProc DEF UpdateDone, Ends
  <1>20. ASSUME NEW j \in Kwargs, NEW b \in {"make", "ninja"}, RunUpdate(j, b)
         PROVE  proc' \in Proc
    BY <1>20, IdleIsProc, YmlShape DEF RunUpdate, Idle, Proc, At, TypeOK
  <1>21. ASSUME NEW d \in Design, NEW j \in Kwargs, NEW b \in {"make", "ninja"},
              RunDesign(d, j, b) PROVE proc' \in Proc
    BY <1>21, IdleIsProc DEF RunDesign, Idle, Proc, At
  <1>22. ASSUME NEW S \in SUBSET Node, NEW v \in Value, StartUpdate(S, v)
         PROVE  proc' \in Proc
    BY <1>22, IdleIsProc DEF StartUpdate, Idle, Proc, At, Edited
  <1>23. CASE Kill
    BY <1>23, IdleIsProc DEF Kill, Ends
  <1>24. CASE UNCHANGED vars
    BY <1>24 DEF vars
  <1>25. QED
    BY <1>1, <1>2, <1>3, <1>4, <1>5, <1>6, <1>7, <1>8, <1>9, <1>10, <1>11, <1>12,
       <1>13, <1>14, <1>15, <1>16, <1>17, <1>18, <1>19, <1>20, <1>21, <1>22, <1>23,
       <1>24, <1>12a, Updated
     DEF Next, RunStep, UpdateStep, UserStep

\* When the rules are written no file is missing.
LEMMA DumpedIsThere ==
  ASSUME ConfIsConfig, Dumping, proc.at \in {"dump", "emit"}, proc.todo = {}
  PROVE  \A y \in File : meta[y] # "absent"
  <1>1. ASSUME NEW y \in File
        PROVE  meta[y] # "absent"
    <2>1. meta[y] = Text(wanted, y) /\ wanted = [n \in Node |-> Gives[proc.conf]]
      BY DEF Dumping
    <2>2. proc.conf \in Config
      BY DEF ConfIsConfig, Generates
    <2>3. wanted[y[1]] \in Value
      BY <2>1, <2>2, FileShape, ConfigAssumption
    <2>4. QED
      BY <2>1, <2>3, ValueAssumption DEF Text
  <1>2. QED
    BY <1>1

\* Everything else keeps its type.
LEMMA TypeStep ==
  ASSUME TypeOK, ConfIsConfig, Saving, [Next]_vars
  PROVE  TypeOK'
  <1>0. proc' \in Proc
    BY ProcStep
  <1>a. /\ proc.text \in YmlForm /\ EmptyYml \in YmlForm
        /\ proc.value \in Value \cup {"absent"}
        /\ proc.backend \in {"none", "make", "ninja"}
    BY IdleIsProc DEF TypeOK, Proc
  <1> USE <1>0, <1>a DEF TypeOK, files, request, intent
  <1>1. CASE SaveConstruct
    BY <1>1 DEF SaveConstruct
  <1>2. CASE NoSavedKwargs
    BY <1>2 DEF NoSavedKwargs, Ends
  <1>3. CASE SaveKwargs
    BY <1>3 DEF SaveKwargs
  <1>4. CASE WriteYml
    BY <1>4 DEF WriteYml, Goes
  <1>5. CASE RunRaises
    BY <1>5 DEF RunRaises, Ends
  <1>6. CASE OpenBackend
    BY <1>6 DEF OpenBackend, Goes
  <1>7. ASSUME NEW x \in File, Clear(x) PROVE TypeOK'
    BY <1>7 DEF Clear
  <1>8. CASE Cleared
    BY <1>8, ConfigAssumption DEF Cleared, ConfIsConfig, Generates
  <1>9. ASSUME NEW x \in File, DumpOpen(x) PROVE TypeOK'
    BY <1>9 DEF DumpOpen, Goes
  <1>10. ASSUME NEW x \in File, DumpClose(x) PROVE TypeOK'
    BY <1>10, FileShape DEF DumpClose, Text
  <1>11. CASE Emit
    BY <1>11 DEF Emit, Goes
  <1>12. CASE NinjaRaises
    BY <1>12 DEF NinjaRaises, Ends
  <1>13. CASE EmitDone
    BY <1>13 DEF EmitDone, Ends
  <1>14. ASSUME NEW n \in Node, PassOver(n) PROVE TypeOK'
    BY <1>14 DEF PassOver
  <1>15. ASSUME NEW n \in Node, UpdateRaises(n) PROVE TypeOK'
    BY <1>15 DEF UpdateRaises, Ends
  <1>16. ASSUME NEW x \in File, EditOpen(x) PROVE TypeOK'
    BY <1>16, FileShape DEF EditOpen
  <1>17. ASSUME NEW x \in File, EditClose(x) PROVE TypeOK'
    BY <1>17 DEF EditClose, Edits
  <1>18. ASSUME NEW x \in File, EditNothing(x) PROVE TypeOK'
    BY <1>18 DEF EditNothing, Edits
  <1>19. ASSUME NEW x \in File, EditFails(x) PROVE TypeOK'
    BY <1>19 DEF EditFails
  <1>20. CASE UpdateDone
    BY <1>20 DEF UpdateDone, Ends
  <1>21. ASSUME NEW j \in Kwargs, NEW b \in {"make", "ninja"}, RunUpdate(j, b)
       PROVE  TypeOK'
    BY <1>21, YmlShape DEF RunUpdate, Starts, Config
  <1>22. ASSUME NEW d \in Design, NEW j \in Kwargs, NEW b \in {"make", "ninja"},
              RunDesign(d, j, b)
       PROVE  TypeOK'
    BY <1>22 DEF RunDesign, Starts, Config
  <1>23. ASSUME NEW S \in SUBSET Node, NEW v \in Value, StartUpdate(S, v)
       PROVE  TypeOK'
    BY <1>23 DEF StartUpdate, Starts
  <1>24. CASE Kill
    BY <1>24 DEF Kill, Ends
  <1>25. CASE UNCHANGED vars
    BY <1>25 DEF vars
  <1>26. QED
    BY <1>1, <1>2, <1>3, <1>4, <1>5, <1>6, <1>7, <1>8, <1>9, <1>10, <1>11, <1>12,
       <1>13, <1>14, <1>15, <1>16, <1>17, <1>18, <1>19, <1>20, <1>21, <1>22, <1>23,
       <1>24, <1>25, Updated
     DEF Next, RunStep, UpdateStep, UserStep

\* The request stays what it was while it is saved.
LEMMA SavingStep ==
  ASSUME TypeOK, ConfIsConfig, Saving, Generating, SavedIsARequest, [Next]_vars
  PROVE  Saving' /\ Generating'
  <1>0. proc \in Proc /\ proc.at \in At
    BY DEF TypeOK, Proc
  <1> USE <1>0, YmlShape DEF Saving, Generating, ConfIsConfig, Saves, Generates,
        files, request, intent
  <1>1. CASE SaveConstruct
    <2>1. proc.own \in BOOLEAN
      BY DEF Proc
    <2>2. QED
      BY <1>1, <2>1 DEF SaveConstruct, SavedIsARequest, Yml, Proc
  <1>2. CASE NoSavedKwargs
    BY <1>2 DEF NoSavedKwargs, Ends, Proc, Idle
  <1>3. CASE SaveKwargs
    <2>1. proc.own \in BOOLEAN
      BY DEF Proc
    <2>2. QED
      BY <1>3, <2>1 DEF SaveKwargs, SavedIsARequest, Found, Yml, Proc, Config
  <1>4. CASE WriteYml
    BY <1>4 DEF WriteYml, Goes, Proc, Idle
  <1>5. CASE RunRaises
    BY <1>5 DEF RunRaises, Ends, Proc, Idle
  <1>6. CASE OpenBackend
    BY <1>6 DEF OpenBackend, Goes, Proc, Idle
  <1>7. ASSUME NEW x \in File, Clear(x) PROVE Saving' /\ Generating'
    BY <1>7 DEF Clear, Proc, Idle
  <1>8. CASE Cleared
    BY <1>8 DEF Cleared, Proc, Idle
  <1>9. ASSUME NEW x \in File, DumpOpen(x) PROVE Saving' /\ Generating'
    BY <1>9 DEF DumpOpen, Goes, Proc, Idle
  <1>10. ASSUME NEW x \in File, DumpClose(x) PROVE Saving' /\ Generating'
    BY <1>10 DEF DumpClose, Proc, Idle
  <1>11. CASE Emit
    BY <1>11 DEF Emit, Goes, Proc, Idle
  <1>12. CASE NinjaRaises
    BY <1>12 DEF NinjaRaises, Ends, Proc, Idle
  <1>13. CASE EmitDone
    BY <1>13 DEF EmitDone, Ends, Proc, Idle
  <1>14. ASSUME NEW n \in Node, PassOver(n) PROVE Saving' /\ Generating'
    BY <1>14 DEF PassOver, Proc, Idle
  <1>15. ASSUME NEW n \in Node, UpdateRaises(n) PROVE Saving' /\ Generating'
    BY <1>15 DEF UpdateRaises, Ends, Proc, Idle
  <1>16. ASSUME NEW x \in File, EditOpen(x) PROVE Saving' /\ Generating'
    BY <1>16 DEF EditOpen, Proc, Idle
  <1>17. ASSUME NEW x \in File, EditClose(x) PROVE Saving' /\ Generating'
    BY <1>17 DEF EditClose, Edits, Proc, Idle
  <1>18. ASSUME NEW x \in File, EditNothing(x) PROVE Saving' /\ Generating'
    BY <1>18 DEF EditNothing, Edits, Proc, Idle
  <1>19. ASSUME NEW x \in File, EditFails(x) PROVE Saving' /\ Generating'
    BY <1>19 DEF EditFails, Proc, Idle
  <1>20. CASE UpdateDone
    BY <1>20 DEF UpdateDone, Ends, Proc, Idle
  <1>21. ASSUME NEW j \in Kwargs, NEW b \in {"make", "ninja"}, RunUpdate(j, b)
       PROVE  Saving' /\ Generating'
    BY <1>21 DEF RunUpdate, Starts, Proc, Idle
  <1>22. ASSUME NEW d \in Design, NEW j \in Kwargs, NEW b \in {"make", "ninja"},
              RunDesign(d, j, b)
       PROVE  Saving' /\ Generating'
    BY <1>22 DEF RunDesign, Starts, Proc, Idle
  <1>23. ASSUME NEW S \in SUBSET Node, NEW v \in Value, StartUpdate(S, v)
       PROVE  Saving' /\ Generating'
    BY <1>23 DEF StartUpdate, Starts, Proc, Idle
  <1>24. CASE Kill
    BY <1>24 DEF Kill, Ends, Proc, Idle
  <1>25. CASE UNCHANGED vars
    BY <1>25 DEF vars
  <1>26. QED
    BY <1>1, <1>2, <1>3, <1>4, <1>5, <1>6, <1>7, <1>8, <1>9, <1>10, <1>11, <1>12,
       <1>13, <1>14, <1>15, <1>16, <1>17, <1>18, <1>19, <1>20, <1>21, <1>22, <1>23,
       <1>24, <1>25, Updated
     DEF Next, RunStep, UpdateStep, UserStep

\* A run at work has a design and its arguments.
LEMMA ConfStep ==
  ASSUME TypeOK, ConfIsConfig, Saving, [Next]_vars
  PROVE  ConfIsConfig'
  <1>0. proc \in Proc /\ proc.at \in At
    BY DEF TypeOK, Proc
  <1> USE <1>0 DEF ConfIsConfig, Saves, Generates
  <1>1. CASE SaveConstruct
    BY <1>1 DEF SaveConstruct, Proc, Idle
  <1>2. CASE NoSavedKwargs
    BY <1>2 DEF NoSavedKwargs, Ends, Proc, Idle
  <1>3. CASE SaveKwargs
    <2>1. proc.conf \in Config /\ Found \in Kwargs
      BY <1>3, YmlShape DEF SaveKwargs, Found, Config, TypeOK
    <2>2. QED
      BY <1>3, <2>1 DEF SaveKwargs, Proc, Config
  <1>4. CASE WriteYml
    BY <1>4 DEF WriteYml, Goes, Proc, Idle
  <1>5. CASE RunRaises
    BY <1>5 DEF RunRaises, Ends, Proc, Idle
  <1>6. CASE OpenBackend
    BY <1>6 DEF OpenBackend, Goes, Proc, Idle
  <1>7. ASSUME NEW x \in File, Clear(x) PROVE ConfIsConfig'
    BY <1>7 DEF Clear, Proc, Idle
  <1>8. CASE Cleared
    BY <1>8 DEF Cleared, Proc, Idle
  <1>9. ASSUME NEW x \in File, DumpOpen(x) PROVE ConfIsConfig'
    BY <1>9 DEF DumpOpen, Goes, Proc, Idle
  <1>10. ASSUME NEW x \in File, DumpClose(x) PROVE ConfIsConfig'
    BY <1>10 DEF DumpClose, Proc, Idle
  <1>11. CASE Emit
    BY <1>11 DEF Emit, Goes, Proc, Idle
  <1>12. CASE NinjaRaises
    BY <1>12 DEF NinjaRaises, Ends, Proc, Idle
  <1>13. CASE EmitDone
    BY <1>13 DEF EmitDone, Ends, Proc, Idle
  <1>14. ASSUME NEW n \in Node, PassOver(n) PROVE ConfIsConfig'
    BY <1>14 DEF PassOver, Proc, Idle
  <1>15. ASSUME NEW n \in Node, UpdateRaises(n) PROVE ConfIsConfig'
    BY <1>15 DEF UpdateRaises, Ends, Proc, Idle
  <1>16. ASSUME NEW x \in File, EditOpen(x) PROVE ConfIsConfig'
    BY <1>16 DEF EditOpen, Proc, Idle
  <1>17. ASSUME NEW x \in File, EditClose(x) PROVE ConfIsConfig'
    BY <1>17 DEF EditClose, Edits, Proc, Idle
  <1>18. ASSUME NEW x \in File, EditNothing(x) PROVE ConfIsConfig'
    BY <1>18 DEF EditNothing, Edits, Proc, Idle
  <1>19. ASSUME NEW x \in File, EditFails(x) PROVE ConfIsConfig'
    BY <1>19 DEF EditFails, Proc, Idle
  <1>20. CASE UpdateDone
    BY <1>20 DEF UpdateDone, Ends, Proc, Idle
  <1>21. ASSUME NEW j \in Kwargs, NEW b \in {"make", "ninja"}, RunUpdate(j, b)
       PROVE  ConfIsConfig'
    <2>1. yml.construct \in Design
      BY <1>21, YmlShape DEF RunUpdate, TypeOK
    <2>2. QED
      BY <1>21, <2>1 DEF RunUpdate, Idle, Config
  <1>22. ASSUME NEW d \in Design, NEW j \in Kwargs, NEW b \in {"make", "ninja"},
              RunDesign(d, j, b)
       PROVE  ConfIsConfig'
    BY <1>22 DEF RunDesign, Idle, Config
  <1>23. ASSUME NEW S \in SUBSET Node, NEW v \in Value, StartUpdate(S, v)
       PROVE  ConfIsConfig'
    BY <1>23 DEF StartUpdate, Starts, Proc, Idle
  <1>24. CASE Kill
    BY <1>24 DEF Kill, Ends, Proc, Idle
  <1>25. CASE UNCHANGED vars
    BY <1>25 DEF vars
  <1>26. QED
    BY <1>1, <1>2, <1>3, <1>4, <1>5, <1>6, <1>7, <1>8, <1>9, <1>10, <1>11, <1>12,
       <1>13, <1>14, <1>15, <1>16, <1>17, <1>18, <1>19, <1>20, <1>21, <1>22, <1>23,
       <1>24, <1>25, Updated
     DEF Next, RunStep, UpdateStep, UserStep

\* What is saved was asked for.
LEMMA RequestStep ==
  ASSUME TypeOK, ConfIsConfig, Saving, Generating, SavedIsARequest, [Next]_vars
  PROVE  SavedIsARequest'
  <1>0. proc \in Proc /\ proc.own \in BOOLEAN
    BY DEF TypeOK, Proc
  <1> USE <1>0 DEF SavedIsARequest, files, request, intent
  <1>1. CASE SaveConstruct
    BY <1>1 DEF SaveConstruct, EmptyYml, Yml
  <1>2. CASE NoSavedKwargs
    BY <1>2 DEF NoSavedKwargs, Ends
  <1>3. CASE SaveKwargs
    BY <1>3 DEF SaveKwargs, EmptyYml, Yml
  <1>4. CASE WriteYml
    <2>1. CASE proc.at = "saving construct"
      BY <1>4, <2>1 DEF WriteYml, Saving
    <2>2. CASE proc.at = "saving kwargs" /\ proc.own
      <3>1. <<proc.conf[1], proc.conf[2]>> = proc.conf
        BY <2>2, ConfigShape DEF ConfIsConfig, Saves
      <3>2. proc.conf \in asked
        BY <2>2 DEF Saving, Saves
      <3>3. yml'.construct = proc.conf[1] /\ yml'.kwargs = proc.conf[2]
        <4>1. yml' = Yml("dict", proc.conf[1], proc.conf[2])
          BY <1>4, <2>2 DEF WriteYml, Saving
        <4>2. QED
          BY <4>1 DEF Yml
      <3>4. UNCHANGED asked
        BY <1>4 DEF WriteYml
      <3>5. QED
        BY <3>1, <3>2, <3>3, <3>4
    <2>3. CASE proc.at = "saving kwargs" /\ ~proc.own
      BY <1>4, <2>3 DEF WriteYml, Saving, TypeOK
    <2>4. QED
      BY <1>4, <2>1, <2>2, <2>3 DEF WriteYml
  <1>5. CASE RunRaises
    BY <1>5 DEF RunRaises, Ends
  <1>6. CASE OpenBackend
    BY <1>6 DEF OpenBackend, Goes
  <1>7. ASSUME NEW x \in File, Clear(x) PROVE SavedIsARequest'
    BY <1>7 DEF Clear
  <1>8. CASE Cleared
    BY <1>8 DEF Cleared
  <1>9. ASSUME NEW x \in File, DumpOpen(x) PROVE SavedIsARequest'
    BY <1>9 DEF DumpOpen, Goes
  <1>10. ASSUME NEW x \in File, DumpClose(x) PROVE SavedIsARequest'
    BY <1>10 DEF DumpClose
  <1>11. CASE Emit
    BY <1>11 DEF Emit, Goes
  <1>12. CASE NinjaRaises
    BY <1>12 DEF NinjaRaises, Ends
  <1>13. CASE EmitDone
    BY <1>13 DEF EmitDone, Ends
  <1>14. ASSUME NEW n \in Node, PassOver(n) PROVE SavedIsARequest'
    BY <1>14 DEF PassOver
  <1>15. ASSUME NEW n \in Node, UpdateRaises(n) PROVE SavedIsARequest'
    BY <1>15 DEF UpdateRaises, Ends
  <1>16. ASSUME NEW x \in File, EditOpen(x) PROVE SavedIsARequest'
    BY <1>16 DEF EditOpen
  <1>17. ASSUME NEW x \in File, EditClose(x) PROVE SavedIsARequest'
    BY <1>17 DEF EditClose, Edits
  <1>18. ASSUME NEW x \in File, EditNothing(x) PROVE SavedIsARequest'
    BY <1>18 DEF EditNothing, Edits
  <1>19. ASSUME NEW x \in File, EditFails(x) PROVE SavedIsARequest'
    BY <1>19 DEF EditFails
  <1>20. CASE UpdateDone
    BY <1>20 DEF UpdateDone, Ends
  <1>21. ASSUME NEW j \in Kwargs, NEW b \in {"make", "ninja"}, RunUpdate(j, b)
       PROVE  SavedIsARequest'
    BY <1>21 DEF RunUpdate, Starts
  <1>22. ASSUME NEW d \in Design, NEW j \in Kwargs, NEW b \in {"make", "ninja"},
              RunDesign(d, j, b)
       PROVE  SavedIsARequest'
    BY <1>22 DEF RunDesign, Starts
  <1>23. ASSUME NEW S \in SUBSET Node, NEW v \in Value, StartUpdate(S, v)
       PROVE  SavedIsARequest'
    BY <1>23 DEF StartUpdate, Starts
  <1>24. CASE Kill
    BY <1>24 DEF Kill, Ends
  <1>25. CASE UNCHANGED vars
    BY <1>25 DEF vars
  <1>26. QED
    BY <1>1, <1>2, <1>3, <1>4, <1>5, <1>6, <1>7, <1>8, <1>9, <1>10, <1>11, <1>12,
       <1>13, <1>14, <1>15, <1>16, <1>17, <1>18, <1>19, <1>20, <1>21, <1>22, <1>23,
       <1>24, <1>25, Updated
     DEF Next, RunStep, UpdateStep, UserStep

\* What a run has written stays written.
LEMMA DumpingStep ==
  ASSUME TypeOK, ConfIsConfig, Dumping, [Next]_vars
  PROVE  Dumping'
  <1>0. /\ proc \in Proc /\ proc.at \in At
        /\ meta \in [File -> Value \cup {"absent", "part", "conditions"}]
    BY DEF TypeOK, Proc
  <1> USE <1>0 DEF Dumping, ConfIsConfig, Generates, files, request, intent
  <1>1. CASE SaveConstruct
    BY <1>1 DEF SaveConstruct, Proc, Idle
  <1>2. CASE NoSavedKwargs
    BY <1>2 DEF NoSavedKwargs, Ends, Proc, Idle
  <1>3. CASE SaveKwargs
    BY <1>3 DEF SaveKwargs, Proc, Idle
  <1>4. CASE WriteYml
    BY <1>4 DEF WriteYml, Goes, Proc, Idle
  <1>5. CASE RunRaises
    BY <1>5 DEF RunRaises, Ends, Proc, Idle
  <1>6. CASE OpenBackend
    BY <1>6 DEF OpenBackend, Goes, Proc, Idle
  <1>7. ASSUME NEW x \in File, Clear(x) PROVE Dumping'
    BY <1>7 DEF Clear, Proc, Idle
  <1>8. CASE Cleared
    BY <1>8 DEF Cleared, Proc, Idle
  <1>9. ASSUME NEW x \in File, DumpOpen(x) PROVE Dumping'
    <2>1. /\ proc'.at = "dumping" /\ proc'.todo = proc.todo
          /\ proc'.backend = proc.backend /\ proc'.conf = proc.conf
          /\ x \in proc.todo /\ proc.at = "dump"
          /\ \A y \in File \ {x} : meta'[y] = meta[y]
          /\ UNCHANGED <<makefile, owner, wanted, torn>>
      BY <1>9 DEF DumpOpen, Goes, Proc, FirstByKind
    <2>2. \A y \in File \ proc'.todo : meta'[y] = Text(wanted', y)
      BY <2>1 DEF Text
    <2>3. QED
      BY <2>1, <2>2
  <1>10. ASSUME NEW x \in File, DumpClose(x) PROVE Dumping'
    BY <1>10 DEF DumpClose, Proc, Idle
  <1>11. CASE Emit
    BY <1>11 DEF Emit, Goes, Proc, Idle
  <1>12. CASE NinjaRaises
    BY <1>12 DEF NinjaRaises, Ends, Proc, Idle
  <1>13. CASE EmitDone
    BY <1>13 DEF EmitDone, Ends, Proc, Idle
  <1>14. ASSUME NEW n \in Node, PassOver(n) PROVE Dumping'
    BY <1>14 DEF PassOver, Proc, Idle
  <1>15. ASSUME NEW n \in Node, UpdateRaises(n) PROVE Dumping'
    BY <1>15 DEF UpdateRaises, Ends, Proc, Idle
  <1>16. ASSUME NEW x \in File, EditOpen(x) PROVE Dumping'
    BY <1>16 DEF EditOpen, Proc, Idle
  <1>17. ASSUME NEW x \in File, EditClose(x) PROVE Dumping'
    BY <1>17 DEF EditClose, Edits, Proc, Idle
  <1>18. ASSUME NEW x \in File, EditNothing(x) PROVE Dumping'
    BY <1>18 DEF EditNothing, Edits, Proc, Idle
  <1>19. ASSUME NEW x \in File, EditFails(x) PROVE Dumping'
    BY <1>19 DEF EditFails, Proc, Idle
  <1>20. CASE UpdateDone
    BY <1>20 DEF UpdateDone, Ends, Proc, Idle
  <1>21. ASSUME NEW j \in Kwargs, NEW b \in {"make", "ninja"}, RunUpdate(j, b)
       PROVE  Dumping'
    BY <1>21 DEF RunUpdate, Starts, Proc, Idle
  <1>22. ASSUME NEW d \in Design, NEW j \in Kwargs, NEW b \in {"make", "ninja"},
              RunDesign(d, j, b)
       PROVE  Dumping'
    BY <1>22 DEF RunDesign, Starts, Proc, Idle
  <1>23. ASSUME NEW S \in SUBSET Node, NEW v \in Value, StartUpdate(S, v)
       PROVE  Dumping'
    BY <1>23 DEF StartUpdate, Starts, Proc, Idle
  <1>24. CASE Kill
    BY <1>24 DEF Kill, Ends, Proc, Idle
  <1>25. CASE UNCHANGED vars
    BY <1>25 DEF vars
  <1>26. QED
    BY <1>1, <1>2, <1>3, <1>4, <1>5, <1>6, <1>7, <1>8, <1>9, <1>10, <1>11, <1>12,
       <1>13, <1>14, <1>15, <1>16, <1>17, <1>18, <1>19, <1>20, <1>21, <1>22, <1>23,
       <1>24, <1>25, Updated
     DEF Next, RunStep, UpdateStep, UserStep

\* Conditions stay, and so do files behind a Makefile.
LEMMA PresentStep ==
  ASSUME TypeOK, ConfIsConfig, Dumping, Editing, Present, [Next]_vars
  PROVE  Present'
  <1>0. /\ proc \in Proc /\ proc.at \in At
        /\ meta \in [File -> Value \cup {"absent", "part", "conditions"}]
    BY DEF TypeOK, Proc
  <1> USE <1>0 DEF Present, files, request, intent
  <1>1. CASE SaveConstruct
    BY <1>1 DEF SaveConstruct
  <1>2. CASE NoSavedKwargs
    BY <1>2 DEF NoSavedKwargs, Ends
  <1>3. CASE SaveKwargs
    BY <1>3 DEF SaveKwargs
  <1>4. CASE WriteYml
    BY <1>4 DEF WriteYml, Goes
  <1>5. CASE RunRaises
    BY <1>5 DEF RunRaises, Ends
  <1>6. CASE OpenBackend
    BY <1>6 DEF OpenBackend, Goes
  <1>7. ASSUME NEW x \in File, Clear(x) PROVE Present'
    <2>1. owner = "make" => makefile = "empty"
      BY <1>7, <1>0 DEF Clear, Dumping, ConfIsConfig, Generates
    <2>2. QED
      BY <1>7, <2>1 DEF Clear
  <1>8. CASE Cleared
    BY <1>8 DEF Cleared
  <1>9. ASSUME NEW x \in File, DumpOpen(x) PROVE Present'
    <2>1. owner = "make" => makefile = "empty"
      BY <1>9 DEF DumpOpen, Dumping
    <2>2. QED
      BY <1>9, <2>1 DEF DumpOpen
  <1>10. ASSUME NEW x \in File, DumpClose(x) PROVE Present'
    <2>1. owner = "make" => makefile = "empty"
      BY <1>10 DEF DumpClose, Dumping
    <2>2. QED
      BY <1>10, <2>1 DEF DumpClose, Text
  <1>11. CASE Emit
    <2>1. \A y \in File : meta[y] # "absent"
      BY <1>11, DumpedIsThere DEF Emit
    <2>2. QED
      BY <1>11, <2>1 DEF Emit
  <1>12. CASE NinjaRaises
    BY <1>12 DEF NinjaRaises, Ends
  <1>13. CASE EmitDone
    <2>1. \A y \in File : meta[y] # "absent"
      BY <1>13, DumpedIsThere DEF EmitDone, Dumping
    <2>2. QED
      BY <1>13, <2>1 DEF EmitDone
  <1>14. ASSUME NEW n \in Node, PassOver(n) PROVE Present'
    BY <1>14 DEF PassOver
  <1>15. ASSUME NEW n \in Node, UpdateRaises(n) PROVE Present'
    BY <1>15 DEF UpdateRaises, Ends
  <1>16. ASSUME NEW x \in File, EditOpen(x) PROVE Present'
    BY <1>16, EditOpenShape
  <1>17. ASSUME NEW x \in File, EditClose(x) PROVE Present'
    BY <1>17, EditCloseShape, ValueAssumption
  <1>18. ASSUME NEW x \in File, EditNothing(x) PROVE Present'
    BY <1>18, EditNothingShape
  <1>19. ASSUME NEW x \in File, EditFails(x) PROVE Present'
    BY <1>19 DEF EditFails
  <1>20. CASE UpdateDone
    BY <1>20 DEF UpdateDone, Ends
  <1>21. ASSUME NEW j \in Kwargs, NEW b \in {"make", "ninja"}, RunUpdate(j, b)
       PROVE  Present'
    BY <1>21 DEF RunUpdate, Starts
  <1>22. ASSUME NEW d \in Design, NEW j \in Kwargs, NEW b \in {"make", "ninja"},
              RunDesign(d, j, b)
       PROVE  Present'
    BY <1>22 DEF RunDesign, Starts
  <1>23. ASSUME NEW S \in SUBSET Node, NEW v \in Value, StartUpdate(S, v)
       PROVE  Present'
    BY <1>23 DEF StartUpdate, Starts
  <1>24. CASE Kill
    BY <1>24 DEF Kill, Ends
  <1>25. CASE UNCHANGED vars
    BY <1>25 DEF vars
  <1>26. QED
    BY <1>1, <1>2, <1>3, <1>4, <1>5, <1>6, <1>7, <1>8, <1>9, <1>10, <1>11, <1>12,
       <1>13, <1>14, <1>15, <1>16, <1>17, <1>18, <1>19, <1>20, <1>21, <1>22, <1>23,
       <1>24, <1>25, Updated
     DEF Next, RunStep, UpdateStep, UserStep

\* Outside of updates every file holds what its node was last given.
LEMMA AgreeStep ==
  ASSUME TypeOK, ConfIsConfig, Dumping, Editing, Present, FilesAgree, [Next]_vars
  PROVE  FilesAgree'
  <1>0. /\ proc \in Proc /\ proc.at \in At
        /\ meta \in [File -> Value \cup {"absent", "part", "conditions"}]
    BY DEF TypeOK, Proc
  <1> USE <1>0 DEF FilesAgree, Text, files, request, intent
  <1>1. CASE SaveConstruct
    BY <1>1 DEF SaveConstruct
  <1>2. CASE NoSavedKwargs
    BY <1>2 DEF NoSavedKwargs, Ends
  <1>3. CASE SaveKwargs
    BY <1>3 DEF SaveKwargs
  <1>4. CASE WriteYml
    BY <1>4 DEF WriteYml, Goes
  <1>5. CASE RunRaises
    BY <1>5 DEF RunRaises, Ends
  <1>6. CASE OpenBackend
    BY <1>6 DEF OpenBackend, Goes
  <1>7. ASSUME NEW x \in File, Clear(x) PROVE FilesAgree'
    BY <1>7 DEF Clear
  <1>8. CASE Cleared
    BY <1>8 DEF Cleared
  <1>9. ASSUME NEW x \in File, DumpOpen(x) PROVE FilesAgree'
    BY <1>9 DEF DumpOpen, Goes
  <1>10. ASSUME NEW x \in File, DumpClose(x) PROVE FilesAgree'
    BY <1>10 DEF DumpClose
  <1>11. CASE Emit
    BY <1>11 DEF Emit, Goes
  <1>12. CASE NinjaRaises
    BY <1>12 DEF NinjaRaises, Ends
  <1>13. CASE EmitDone
    BY <1>13 DEF EmitDone, Ends
  <1>14. ASSUME NEW n \in Node, PassOver(n) PROVE FilesAgree'
    BY <1>14 DEF PassOver
  <1>15. ASSUME NEW n \in Node, UpdateRaises(n) PROVE FilesAgree'
    BY <1>15 DEF UpdateRaises, Ends
  <1>16. ASSUME NEW x \in File, EditOpen(x) PROVE FilesAgree'
    BY <1>16, EditOpenShape, FileShape
  <1>17. ASSUME NEW x \in File, EditClose(x) PROVE FilesAgree'
    BY <1>17, EditCloseShape, EditsAgrees
  <1>18. ASSUME NEW x \in File, EditNothing(x) PROVE FilesAgree'
    BY <1>18, EditNothingShape, EditsAgrees
  <1>19. ASSUME NEW x \in File, EditFails(x) PROVE FilesAgree'
    BY <1>19 DEF EditFails
  <1>20. CASE UpdateDone
    BY <1>20 DEF UpdateDone, Ends
  <1>21. ASSUME NEW j \in Kwargs, NEW b \in {"make", "ninja"}, RunUpdate(j, b)
       PROVE  FilesAgree'
    BY <1>21 DEF RunUpdate, Starts
  <1>22. ASSUME NEW d \in Design, NEW j \in Kwargs, NEW b \in {"make", "ninja"},
              RunDesign(d, j, b)
       PROVE  FilesAgree'
    BY <1>22 DEF RunDesign, Starts
  <1>23. ASSUME NEW S \in SUBSET Node, NEW v \in Value, StartUpdate(S, v)
       PROVE  FilesAgree'
    BY <1>23 DEF StartUpdate, Starts
  <1>24. CASE Kill
    BY <1>24 DEF Kill, Ends
  <1>25. CASE UNCHANGED vars
    BY <1>25 DEF vars
  <1>26. QED
    BY <1>1, <1>2, <1>3, <1>4, <1>5, <1>6, <1>7, <1>8, <1>9, <1>10, <1>11, <1>12,
       <1>13, <1>14, <1>15, <1>16, <1>17, <1>18, <1>19, <1>20, <1>21, <1>22, <1>23,
       <1>24, <1>25, Updated
     DEF Next, RunStep, UpdateStep, UserStep

\* A Makefile with rules stays backed.
LEMMA BackedStep ==
  ASSUME TypeOK, ConfIsConfig, Dumping, Editing, Present, FilesAgree, MakefileIsBacked,
         Present', [Next]_vars
  PROVE  MakefileIsBacked'
  <1>0. /\ proc \in Proc /\ proc.at \in At
        /\ meta \in [File -> Value \cup {"absent", "part", "conditions"}]
    BY DEF TypeOK, Proc
  <1> USE <1>0 DEF MakefileIsBacked, Text, files, request, intent
  <1>1. CASE SaveConstruct
    BY <1>1 DEF SaveConstruct
  <1>2. CASE NoSavedKwargs
    BY <1>2 DEF NoSavedKwargs, Ends
  <1>3. CASE SaveKwargs
    BY <1>3 DEF SaveKwargs
  <1>4. CASE WriteYml
    BY <1>4 DEF WriteYml, Goes
  <1>5. CASE RunRaises
    BY <1>5 DEF RunRaises, Ends
  <1>6. CASE OpenBackend
    BY <1>6 DEF OpenBackend, Goes
  <1>7. ASSUME NEW x \in File, Clear(x) PROVE MakefileIsBacked'
    <2>1. owner = "make" => makefile = "empty"
      BY <1>7 DEF Clear, Dumping
    <2>2. QED
      BY <1>7, <2>1 DEF Clear
  <1>8. CASE Cleared
    <2>1. owner = "make" => makefile = "empty"
      BY <1>8 DEF Cleared, Dumping
    <2>2. QED
      BY <1>8, <2>1 DEF Cleared
  <1>9. ASSUME NEW x \in File, DumpOpen(x) PROVE MakefileIsBacked'
    <2>1. owner = "make" => makefile = "empty"
      BY <1>9 DEF DumpOpen, Dumping
    <2>2. QED
      BY <1>9, <2>1 DEF DumpOpen
  <1>10. ASSUME NEW x \in File, DumpClose(x) PROVE MakefileIsBacked'
    <2>1. owner = "make" => makefile = "empty"
      BY <1>10 DEF DumpClose, Dumping
    <2>2. QED
      BY <1>10, <2>1 DEF DumpClose
  <1>11. CASE Emit
    <2>1. \A y \in File : meta[y] = Text(wanted, y)
      BY <1>11 DEF Emit, Dumping, Text
    <2>2. QED
      BY <1>11, <2>1 DEF Emit
  <1>12. CASE NinjaRaises
    BY <1>12 DEF NinjaRaises, Ends
  <1>13. CASE EmitDone
    <2>1. \A y \in File : meta[y] = Text(wanted, y)
      BY <1>13 DEF EmitDone, Dumping, Text
    <2>2. QED
      BY <1>13, <2>1 DEF EmitDone
  <1>14. ASSUME NEW n \in Node, PassOver(n) PROVE MakefileIsBacked'
    BY <1>14 DEF PassOver
  <1>15. ASSUME NEW n \in Node, UpdateRaises(n) PROVE MakefileIsBacked'
    BY <1>15 DEF UpdateRaises, Ends
  <1>16. ASSUME NEW x \in File, EditOpen(x) PROVE MakefileIsBacked'
    <2>1. ASSUME owner' = "make", makefile' \in {"part", "whole"},
                 NEW y \in File, y[1] \notin torn'
          PROVE  meta'[y] = Text(wanted', y)
      <3>1. y # x /\ y[1] # x[1] /\ y[1] \in Node /\ y[1] \notin torn
        BY <1>16, <2>1, EditOpenShape, FileShape
      <3>2. owner = "make" /\ makefile \in {"part", "whole"}
        BY <1>16, <2>1, EditOpenShape
      <3>3. meta'[y] = meta[y] /\ wanted'[y[1]] = wanted[y[1]]
        BY <1>16, <3>1, EditOpenShape
      <3>4. QED
        BY <3>1, <3>2, <3>3
    <2>2. QED
      BY <2>1
  <1>17. ASSUME NEW x \in File, EditClose(x) PROVE MakefileIsBacked'
    <2>1. /\ FilesAgree' /\ torn \ {x[1]} \subseteq torn'
          /\ x[1] \notin torn' => \A y \in FilesOf(x[1]) : meta'[y] # "part"
      BY <1>17, EditCloseShape, EditsAgrees
    <2>2. QED
      BY <1>17, <2>1, EditCloseShape DEF Present, FilesAgree, FilesOf
  <1>18. ASSUME NEW x \in File, EditNothing(x) PROVE MakefileIsBacked'
    <2>1. /\ FilesAgree' /\ torn \ {x[1]} \subseteq torn'
          /\ x[1] \notin torn' => \A y \in FilesOf(x[1]) : meta'[y] # "part"
      BY <1>18, EditNothingShape, EditsAgrees
    <2>2. QED
      BY <1>18, <2>1, EditNothingShape DEF Present, FilesAgree, FilesOf
  <1>19. ASSUME NEW x \in File, EditFails(x) PROVE MakefileIsBacked'
    BY <1>19 DEF EditFails
  <1>20. CASE UpdateDone
    BY <1>20 DEF UpdateDone, Ends
  <1>21. ASSUME NEW j \in Kwargs, NEW b \in {"make", "ninja"}, RunUpdate(j, b)
       PROVE  MakefileIsBacked'
    BY <1>21 DEF RunUpdate, Starts
  <1>22. ASSUME NEW d \in Design, NEW j \in Kwargs, NEW b \in {"make", "ninja"},
              RunDesign(d, j, b)
       PROVE  MakefileIsBacked'
    BY <1>22 DEF RunDesign, Starts
  <1>23. ASSUME NEW S \in SUBSET Node, NEW v \in Value, StartUpdate(S, v)
       PROVE  MakefileIsBacked'
    BY <1>23 DEF StartUpdate, Starts
  <1>24. CASE Kill
    BY <1>24 DEF Kill, Ends
  <1>25. CASE UNCHANGED vars
    BY <1>25 DEF vars
  <1>26. QED
    BY <1>1, <1>2, <1>3, <1>4, <1>5, <1>6, <1>7, <1>8, <1>9, <1>10, <1>11, <1>12,
       <1>13, <1>14, <1>15, <1>16, <1>17, <1>18, <1>19, <1>20, <1>21, <1>22, <1>23,
       <1>24, <1>25, Updated
     DEF Next, RunStep, UpdateStep, UserStep

\* An update finishes the node it has in hand.
LEMMA EditingStep ==
  ASSUME TypeOK, ConfIsConfig, Editing, [Next]_vars
  PROVE  Editing'
  <1>0. /\ proc \in Proc /\ proc.at \in At
        /\ meta \in [File -> Value \cup {"absent", "part", "conditions"}]
    BY DEF TypeOK, Proc
  <1> USE <1>0
  <1>1. CASE SaveConstruct
    BY <1>1 DEF SaveConstruct, Idle, Proc, Editing, Updates
  <1>2. CASE NoSavedKwargs
    BY <1>2 DEF NoSavedKwargs, Ends, Idle, Proc, Editing, Updates
  <1>3. CASE SaveKwargs
    BY <1>3 DEF SaveKwargs, Idle, Proc, Editing, Updates
  <1>4. CASE WriteYml
    BY <1>4 DEF WriteYml, Goes, Idle, Proc, Editing, Updates
  <1>5. CASE RunRaises
    BY <1>5 DEF RunRaises, Ends, Idle, Proc, Editing, Updates
  <1>6. CASE OpenBackend
    BY <1>6 DEF OpenBackend, Goes, Idle, Proc, Editing, Updates
  <1>7. ASSUME NEW x \in File, Clear(x) PROVE Editing'
    BY <1>7 DEF Clear, Idle, Proc, Editing, Updates
  <1>8. CASE Cleared
    BY <1>8 DEF Cleared, Idle, Proc, Editing, Updates
  <1>9. ASSUME NEW x \in File, DumpOpen(x) PROVE Editing'
    BY <1>9 DEF DumpOpen, Goes, Idle, Proc, Editing, Updates
  <1>10. ASSUME NEW x \in File, DumpClose(x) PROVE Editing'
    BY <1>10 DEF DumpClose, Idle, Proc, Editing, Updates
  <1>11. CASE Emit
    BY <1>11 DEF Emit, Goes, Idle, Proc, Editing, Updates
  <1>12. CASE NinjaRaises
    BY <1>12 DEF NinjaRaises, Ends, Idle, Proc, Editing, Updates
  <1>13. CASE EmitDone
    BY <1>13 DEF EmitDone, Ends, Idle, Proc, Editing, Updates
  <1>14. ASSUME NEW n \in Node, PassOver(n) PROVE Editing'
    <2>1. proc' = [proc EXCEPT !.at = "update", !.todo = @ \ FilesOf(n)]
      BY <1>14 DEF PassOver, Proc
    <2>2. QED
      BY <1>14, <2>1, DroppedKeeps DEF PassOver, Updates, files, intent
  <1>15. ASSUME NEW n \in Node, UpdateRaises(n) PROVE Editing'
    BY <1>15 DEF UpdateRaises, Ends, Idle, Proc, Editing, Updates
  <1>16. ASSUME NEW x \in File, EditOpen(x) PROVE Editing'
    <2>1. /\ proc'.at \in {"editing", "editing part"} /\ proc.at = "update"
          /\ proc'.todo = proc.todo /\ proc'.value = proc.value
      BY <1>16 DEF EditOpen, Proc
    <2>2. /\ FirstByNode(x) /\ \A y \in File \ {x} : meta'[y] = meta[y]
          /\ meta'[x] = "part" /\ x[1] \in torn' /\ wanted'[x[1]] = proc.value
          /\ torn \subseteq torn' /\ \A n \in Node \ {x[1]} : wanted'[n] = wanted[n]
      BY <1>16, EditOpenShape
    <2>3. ASSUME NEW n \in Node, InHand(n)'
          PROVE  /\ n \in torn' /\ wanted'[n] = proc'.value
                 /\ \A y \in FilesOf(n) \ proc'.todo :
                      y[2] # "checks" => meta'[y] \in {"absent", "part", proc'.value}
      <3>1. InHand(n)
        BY <2>1, <2>3 DEF InHand
      <3>2. QED
        BY <2>1, <2>2, <3>1, FilesOfShape DEF Editing, Updates
    <2>4. ASSUME NEW y \in proc'.todo, FirstByNode(y)'
          PROVE  y[1] \in torn' /\ wanted'[y[1]] = proc'.value
      <3>1. FirstByNode(y) /\ y \in File
        BY <1>0, <2>1, <2>4 DEF FirstByNode, Proc
      <3>2. y = x
        BY <2>2, <3>1, OnlyOneFirst
      <3>3. QED
        BY <2>1, <2>2, <3>2
    <2>5. QED
      BY <2>1, <2>3, <2>4 DEF Editing, Updates
  <1>17. ASSUME NEW x \in File, EditClose(x) PROVE Editing'
    BY <1>17, EditCloseShape, EditsKeeps
  <1>18. ASSUME NEW x \in File, EditNothing(x) PROVE Editing'
    BY <1>18, EditNothingShape, EditsKeeps
  <1>19. ASSUME NEW x \in File, EditFails(x) PROVE Editing'
    <2>1. x[1] \in Node
      BY FileShape
    <2>2. QED
      BY <1>19, <2>1, DroppedKeeps DEF EditFails, Updates, files, intent
  <1>20. CASE UpdateDone
    BY <1>20 DEF UpdateDone, Ends, Idle, Proc, Editing, Updates
  <1>21. ASSUME NEW j \in Kwargs, NEW b \in {"make", "ninja"}, RunUpdate(j, b)
       PROVE  Editing'
    BY <1>21 DEF RunUpdate, Starts, Idle, Proc, Editing, Updates
  <1>22. ASSUME NEW d \in Design, NEW j \in Kwargs, NEW b \in {"make", "ninja"},
              RunDesign(d, j, b)
       PROVE  Editing'
    BY <1>22 DEF RunDesign, Starts, Idle, Proc, Editing, Updates
  <1>23. ASSUME NEW S \in SUBSET Node, NEW v \in Value, StartUpdate(S, v)
       PROVE  Editing'
    <2>1. /\ proc'.at = "update" /\ proc'.todo = Edited(S) /\ proc'.value = v
      BY <1>23 DEF StartUpdate, Idle
    <2>2. \A y \in Edited(S) : y \in File /\ y[1] \in S /\ y[2] # "checks"
      BY DEF Edited
    <2>3. ASSUME NEW n \in Node, NEW y \in FilesOf(n), y \in Edited(S)
          PROVE  <<n, "configure">> \in Edited(S)
      <3>1. n \in S
        BY <2>2, <2>3, FilesOfShape
      <3>2. QED
        BY <3>1 DEF Edited, File
    <2>4. ASSUME NEW n \in Node, <<n, "configure">> \in Edited(S),
                 NEW y \in FilesOf(n), y[2] # "checks"
          PROVE  y \in Edited(S)
      BY <2>4, FilesOfShape DEF Edited
    <2>5. \A n \in Node : ~ InHand(n)'
      BY <2>1, <2>3 DEF InHand
    <2>6. QED
      BY <2>1, <2>2, <2>4, <2>5 DEF Editing
  <1>24. CASE Kill
    BY <1>24 DEF Kill, Ends, Idle, Proc, Editing, Updates
  <1>25. CASE UNCHANGED vars
    BY <1>25 DEF vars, files, intent, Editing, InHand, FirstByNode
  <1>26. QED
    BY <1>1, <1>2, <1>3, <1>4, <1>5, <1>6, <1>7, <1>8, <1>9, <1>10, <1>11, <1>12,
       <1>13, <1>14, <1>15, <1>16, <1>17, <1>18, <1>19, <1>20, <1>21, <1>22, <1>23,
       <1>24, <1>25, Updated
     DEF Next, RunStep, UpdateStep, UserStep

-----------------------------------------------------------------------------
(* The theorems.                                                           *)

LEMMA InitIInv == Init => IInv
  <1>1. SUFFICES ASSUME Init PROVE IInv
    OBVIOUS
  <1>2. TypeOK
    <2>1. yml \in YmlForm
      BY <1>1 DEF Init, YmlForm
    <2>2. /\ meta \in [File -> Value \cup {"absent", "part", "conditions"}]
          /\ wanted \in [Node -> Value \cup {"absent"}]
      BY <1>1 DEF Init
    <2>3. QED
      BY <1>1, <2>1, <2>2, IdleIsProc DEF Init, TypeOK
  <1>3. /\ proc.at = "idle" /\ yml.form = "none" /\ owner = "none"
        /\ \A x \in File : meta[x] = "absent"
    BY <1>1 DEF Init, Idle, NoYml, Yml
  <1>4. ConfIsConfig /\ Saving /\ Generating /\ Dumping
    BY <1>3 DEF ConfIsConfig, Saving, Generating, Dumping, Saves, Generates
  <1>5. Present /\ Editing /\ MakefileIsBacked /\ FilesAgree /\ SavedIsARequest
    BY <1>3 DEF Present, Editing, Updates, MakefileIsBacked, FilesAgree,
       SavedIsARequest
  <1>6. QED
    BY <1>2, <1>4, <1>5 DEF IInv

LEMMA StepIInv == IInv /\ [Next]_vars => IInv'
  <1>1. SUFFICES ASSUME IInv, [Next]_vars PROVE IInv'
    OBVIOUS
  <1>2. TypeOK' /\ ConfIsConfig' /\ Saving' /\ Generating' /\ SavedIsARequest'
    BY <1>1, TypeStep, ConfStep, SavingStep, RequestStep DEF IInv
  <1>3. Dumping' /\ Present' /\ Editing' /\ FilesAgree'
    BY <1>1, DumpingStep, PresentStep, EditingStep, AgreeStep DEF IInv
  <1>4. MakefileIsBacked'
    BY <1>1, <1>3, BackedStep DEF IInv
  <1>5. QED
    BY <1>2, <1>3, <1>4 DEF IInv

LEMMA AlwaysIInv == Spec => []IInv
  BY InitIInv, StepIInv, PTL DEF Spec

\* The state of a build directory is well formed, and a YAML that is not empty
\* always has a construct for "mflowgen run --update".
THEOREM AlwaysTypeOK == Spec => []TypeOK
  <1>1. IInv => TypeOK
    BY DEF IInv
  <1>2. QED
    BY <1>1, AlwaysIInv, PTL

\* However many runs raised or were killed, a Makefile with rules is backed by
\* complete files that hold what their nodes were last given.
THEOREM AlwaysMakefileIsBacked == Spec => []MakefileIsBacked
  <1>1. IInv => MakefileIsBacked
    BY DEF IInv
  <1>2. QED
    BY <1>1, AlwaysIInv, PTL

\* The YAML and the scripts of a node agree unless an update of it is at work or
\* was interrupted.
THEOREM AlwaysFilesAgree == Spec => []FilesAgree
  <1>1. IInv => FilesAgree
    BY DEF IInv
  <1>2. QED
    BY <1>1, AlwaysIInv, PTL

\* What --update finds was asked for.
THEOREM AlwaysSavedIsARequest == Spec => []SavedIsARequest
  <1>1. IInv => SavedIsARequest
    BY DEF IInv
  <1>2. QED
    BY <1>1, AlwaysIInv, PTL

LEMMA GeneratedStep ==
  ASSUME IInv, [Next]_vars, makefile = "part", makefile' = "whole"
  PROVE  LET saved == [n \in Node |-> Gives[<<yml.construct, yml.kwargs>>]] IN
         \A x \in File : meta[x] = Text(saved, x)
  <1>1. EmitDone
    BY DEF Next, RunStep, UpdateStep, UserStep, vars, files, SaveConstruct,
       NoSavedKwargs, SaveKwargs, WriteYml, RunRaises, OpenBackend, Cleared, Emit,
       NinjaRaises, Clear, DumpOpen, DumpClose, PassOver, UpdateRaises, EditOpen,
       EditClose, EditNothing, EditFails, UpdateDone, RunUpdate, RunDesign,
       StartUpdate, Kill
  <1>2. proc.at = "emit"
    BY <1>1 DEF EmitDone
  <1>3. /\ proc.conf \in Config /\ yml = Yml("dict", proc.conf[1], proc.conf[2])
        /\ wanted = [n \in Node |-> Gives[proc.conf]]
        /\ \A x \in File : meta[x] = Text(wanted, x)
    BY <1>2 DEF IInv, ConfIsConfig, Generating, Generates, Dumping
  <1>4. <<yml.construct, yml.kwargs>> = proc.conf
    BY <1>3, ConfigShape DEF Yml
  <1>5. QED
    BY <1>3, <1>4

\* A run that completes leaves the graph of what it saved, and nothing else.
THEOREM AlwaysSavedIsGenerated == Spec => SavedIsGenerated
  <1>1. IInv /\ [Next]_vars =>
          [makefile = "part" /\ makefile' = "whole" =>
             LET saved == [n \in Node |-> Gives[<<yml.construct, yml.kwargs>>]] IN
             \A x \in File : meta[x] = Text(saved, x)]_vars
    BY GeneratedStep
  <1>2. QED
    BY <1>1, AlwaysIInv, PTL DEF Spec, SavedIsGenerated

=============================================================================
