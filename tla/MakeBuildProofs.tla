-------------------------- MODULE MakeBuildProofs --------------------------
(***************************************************************************)
(* The safety properties of MakeBuild for every graph and any number of    *)
(* make invocations.                                                       *)
(*                                                                         *)
(* The argument.  In one invocation a target leaves "idle" only after its  *)
(* prerequisites are settled (Ordered), so what runs side by side never    *)
(* depends on each other.  Stamps are never from the future, and a stamp   *)
(* of this very run was touched by it (Clock).  Hence a target whose       *)
(* recipe is running is out of date on disk too, however the run ends      *)
(* (BusyIsOutOfDate), and a settled one is not (SettledIsUpToDate).        *)
(* Contents then hang on "not out of date" alone, which no step except the *)
(* last line of the target's own recipe can make true.                     *)
(***************************************************************************)
EXTENDS MakeBuild, TLAPS

Exec(n) == <<n, "exec">>
Post(n) == <<n, "post">>

Ordered ==
  /\ ~active => \A t \in Target : phase[t] = "idle"
  /\ active => Closed(wanted)
  /\ \A t \in Target : phase[t] # "idle" =>
       /\ t \in NeededFor(wanted)
       /\ \A d \in Prereqs(t) : Settled(d)
  /\ \A t \in Target : Busy(t) => HasRule(t)
  /\ \A t \in Target : phase[t] \in {"commands", "ran"} => t[2] = "exec"

Clock ==
  /\ run # 0
  /\ \A t \in Target : mtime[t] <= run
  /\ active => \A t \in Target : mtime[t] = run => phase[t] = "remade"
  /\ \A t \in Target : phase[t] = "remade" /\ ~Phony(t) => mtime[t] = run
  /\ \A t \in Target : Phony(t) => mtime[t] = 0

BusyIsOutOfDate == \A t \in Target : Busy(t) => OutOfDate(t)

SettledIsUpToDate ==
  \A t \in Target : Settled(t) /\ t[1] \notin Silent => ~OutOfDate(t)

\* What is on disk when the stamp of the commands is not out of date.
ExecMeansWhole ==
  \A n \in Node : ~OutOfDate(Exec(n)) => whole[n] /\ made[n] = mtime[Exec(n)]

ExecMeansFrom ==
  \A e \in Edge : 
    /\ ~OutOfDate(Exec(e[2])) /\ e[2] \notin prebuilt
    /\ made[e[1]] # 0 /\ made[e[1]] <= mtime[Exec(e[2])]
    => from[e] = made[e[1]]

\* ... and when that of the post-conditions is not either.
PostMeansChecked ==
  \A n \in Node :
    ~OutOfDate(Exec(n)) /\ ~OutOfDate(Post(n)) => checked[n] = made[n]

\* The links to the inputs of a pre-built node are not made.
PinnedUnlinked ==
  \A e \in Edge : e[2] \in prebuilt => mtime[<<e[2], e[1]>>] = 0

\* What the running commands read is still there.
RunningFrom ==
  /\ \A e \in Edge : phase[Exec(e[2])] \in {"commands", "ran"} => from[e] = made[e[1]]
  /\ \A n \in Node : phase[Exec(n)] \in {"commands", "ran"} => made[n] = run
  /\ \A n \in Node : phase[Exec(n)] = "ran" => whole[n]

Stable ==
  result = "ok" => ~active /\ NothingToDo(wanted \ Silent)

\* What holds of stamps and phases whatever the build directories hold, and
\* what the stamps say of the outputs when make alone has written them.
MInv ==
  /\ TypeOK /\ Ordered /\ Clock /\ BusyIsOutOfDate /\ SettledIsUpToDate
  /\ RunningFrom /\ Stable

CInv == ExecMeansWhole /\ ExecMeansFrom /\ PostMeansChecked /\ PinnedUnlinked

IInv == MInv /\ CInv

\* How a step treats what the stamps vouch for.  When the stamp of the commands
\* is not out of date after it, either it was not before and what it stands for
\* is as it was, or the commands have just come to their end; the same goes for
\* the post-conditions.  A node that got its rules back had a link to the input.
Vouched ==
  /\ \A n \in Node : ~OutOfDate(Exec(n))' =>
       \/ /\ ~OutOfDate(Exec(n)) /\ mtime'[Exec(n)] = mtime[Exec(n)]
          /\ made'[n] = made[n] /\ whole'[n] = whole[n]
       \/ whole'[n] /\ made'[n] = mtime'[Exec(n)]
  /\ \A n \in Node : ~OutOfDate(Exec(n))' /\ ~OutOfDate(Post(n))' =>
       \/ checked'[n] = made'[n]
       \/ /\ ~OutOfDate(Exec(n)) /\ ~OutOfDate(Post(n))
          /\ made'[n] = made[n] /\ checked'[n] = checked[n]
  /\ \A e \in Edge :
       /\ ~OutOfDate(Exec(e[2]))' /\ e[2] \notin prebuilt'
       /\ made'[e[1]] # 0 /\ made'[e[1]] <= mtime'[Exec(e[2])]
       => \/ from'[e] = made'[e[1]]
          \/ /\ ~OutOfDate(Exec(e[2])) /\ mtime'[Exec(e[2])] = mtime[Exec(e[2])]
             /\ made'[e[1]] = made[e[1]] /\ made'[e[2]] = made[e[2]]
             /\ from'[e] = from[e]
             /\ e[2] \in prebuilt => mtime[<<e[2], e[1]>>] # 0
  /\ \A e \in Edge : e[2] \in prebuilt' =>
       /\ e[2] \in prebuilt /\ made'[e[2]] = made[e[2]]
       /\ mtime'[<<e[2], e[1]>>] = mtime[<<e[2], e[1]>>]
-----------------------------------------------------------------------------
(* The shape of the rules.                                                 *)

LEMMA TargetShape ==
  ASSUME NEW t \in Target
  PROVE  /\ t[1] \in Node /\ t = <<t[1], t[2]>>
         /\ t[2] \in Stage \cup Sources(t[1])
         /\ t \in TargetsOf(t[1])
  BY DEF Target, TargetsOf, Parts

LEMMA TargetsOfNode ==
  ASSUME NEW n \in Node
  PROVE  /\ TargetsOf(n) \subseteq Target
         /\ \A t \in TargetsOf(n) : t[1] = n
         /\ <<n, "dir">> \in TargetsOf(n)
         /\ Exec(n) \in TargetsOf(n)
         /\ Post(n) \in TargetsOf(n)
         /\ <<n, "execout">> \in TargetsOf(n)
         /\ n \notin Silent => <<n, "out">> \in TargetsOf(n)
         /\ \A s \in Sources(n) : <<n, s>> \in TargetsOf(n)
  <1>1. \A s \in Sources(n) : s # "out"
    BY NodeAssumption DEF Sources, Stage
  <1>2. QED
    <2>1. Parts(n) \subseteq Stage \cup Sources(n)
          /\ {"dir", "exec", "execout", "post"} \subseteq Parts(n)
          /\ (n \notin Silent => "out" \in Parts(n))
          /\ Sources(n) \subseteq Parts(n)
      BY <1>1 DEF Parts, Stage
    <2>2. \A t \in TargetsOf(n) : t[1] = n
      BY DEF TargetsOf
    <2>3. TargetsOf(n) \subseteq Target
      BY DEF Target
    <2>4. \A p \in Parts(n) : <<n, p>> \in TargetsOf(n)
      BY DEF TargetsOf
    <2>5. QED
      BY <2>1, <2>2, <2>3, <2>4 DEF Exec, Post

LEMMA AliasShape ==
  ASSUME NEW s \in Node
  PROVE  /\ Alias(s) \subseteq TargetsOf(s)
         /\ Exec(s) \in Alias(s) /\ Post(s) \in Alias(s)
         /\ <<s, "execout">> \in Alias(s)
         /\ s \notin Silent => <<s, "out">> \in Alias(s)
         /\ <<s, "dir">> \notin Alias(s)
  <1>1. \A s2 \in Sources(s) : s2 \notin Stage
    BY NodeAssumption DEF Sources
  <1>2. QED
    BY <1>1 DEF Alias, TargetsOf, Parts, Stage, Exec, Post

LEMMA DepsOf ==
  ASSUME NEW n \in Node
  PROVE  /\ Deps(<<n, "dir">>) = UNION {Alias(s) : s \in Sources(n)}
         /\ \A s \in Sources(n) : Deps(<<n, s>>) = {<<n, "dir">>, <<s, "out">>}
         /\ Deps(Exec(n)) = {<<n, "dir">>} \cup {<<n, s>> : s \in Sources(n)}
         /\ Deps(<<n, "execout">>) = {Exec(n)}
         /\ Exec(n) \in Deps(<<n, "out">>)
         /\ Exec(n) \in Deps(Post(n))
  <1>1. \A s \in Sources(n) : s \in Node /\ s \notin Stage
    BY NodeAssumption DEF Sources
  <1>2. Deps(<<n, "dir">>) = UNION {Alias(s) : s \in Sources(n)}
    BY DEF Deps
  <1>3. \A s \in Sources(n) : Deps(<<n, s>>) = {<<n, "dir">>, <<s, "out">>}
    BY <1>1 DEF Deps, Stage
  <1>4. Parts(n) \cap ({"dir"} \cup Sources(n)) = {"dir"} \cup Sources(n)
    BY <1>1 DEF Parts, Stage
  <1>5. Deps(Exec(n)) = {<<n, p>> : p \in {"dir"} \cup Sources(n)}
    BY <1>4 DEF Deps, Exec
  <1>6. "exec" \in Parts(n)
    BY DEF Parts, Stage
  <1>7. Deps(<<n, "execout">>) = {Exec(n)} /\ Exec(n) \in Deps(<<n, "out">>)
        /\ Exec(n) \in Deps(Post(n))
    BY <1>6 DEF Deps, Exec, Post
  <1>8. QED
    BY <1>2, <1>3, <1>5, <1>7

\* Prerequisites are targets, the node's own or part of a source's alias.
LEMMA DepsShape ==
  ASSUME NEW t \in Target, NEW d \in Deps(t)
  PROVE  /\ d \in Target
         /\ \/ d[1] = t[1]
            \/ d[1] \in Sources(t[1]) /\ d \in Alias(d[1])
  <1> DEFINE n == t[1]
  <1>1. n \in Node /\ t = <<n, t[2]>> /\ t[2] \in Stage \cup Sources(n)
    BY TargetShape
  <1>2. \A s \in Sources(n) : s \in Node /\ s \notin Stage /\ s \notin Silent
    BY NodeAssumption, GraphAssumption DEF Sources
  <1>3. CASE t[2] = "dir"
    <2>1. d \in Deps(<<n, "dir">>)
      BY <1>1, <1>3
    <2>2. d \in UNION {Alias(s) : s \in Sources(n)}
      BY <1>1, <2>1, DepsOf
    <2>3. PICK s \in Sources(n) : d \in Alias(s)
      BY <2>2
    <2>4. d \in TargetsOf(s) /\ d[1] = s
      BY <1>2, <2>3, AliasShape, TargetsOfNode
    <2>5. QED
      BY <1>2, <2>3, <2>4, TargetsOfNode
  <1>4. CASE t[2] \in Sources(n)
    <2> DEFINE s == t[2]
    <2>1. Deps(<<n, s>>) = {<<n, "dir">>, <<s, "out">>}
      BY <1>1, <1>4, DepsOf
    <2>2. CASE d = <<n, "dir">>
      BY <1>1, <2>2, TargetsOfNode
    <2>3. CASE d = <<s, "out">>
      <3>1. d \in Alias(s) /\ d[1] = s
        BY <1>2, <1>4, <2>3, AliasShape
      <3>2. d \in Target
        BY <1>2, <1>4, <3>1, AliasShape, TargetsOfNode
      <3>3. QED
        BY <1>4, <3>1, <3>2
    <2>4. QED
      BY <1>1, <2>1, <2>2, <2>3
  <1>5. CASE t[2] \in Stage \ {"dir"}
    <2>1. \A P : {<<n, p>> : p \in P \cap Parts(n)} \subseteq TargetsOf(n)
      BY DEF TargetsOf
    <2>2. \/ Deps(t) = {<<n, p>> : p \in ({"dir"} \cup Sources(n)) \cap Parts(n)}
          \/ Deps(t) = {<<n, p>> : p \in {"exec"} \cap Parts(n)}
          \/ Deps(t) = {<<n, p>> : p \in {"exec", "execout"} \cap Parts(n)}
          \/ Deps(t) = {<<n, p>> : p \in {"exec", "execout", "out"} \cap Parts(n)}
      BY <1>5 DEF Deps, Stage
    <2>3. d \in TargetsOf(n)
      BY <2>1, <2>2
    <2>4. QED
      BY <1>1, <2>3, TargetsOfNode
  <1>6. QED
    BY <1>1, <1>3, <1>4, <1>5

-----------------------------------------------------------------------------
(* Facts about one state.                                                  *)

LEMMA PrereqsShape ==
  ASSUME NEW t \in Target, NEW d \in Prereqs(t)
  PROVE  /\ d \in Target /\ HasRule(t) /\ d \in Deps(t)
         /\ t[1] \notin Silent => d[1] \notin Silent
  <1>1. HasRule(t) /\ d \in Deps(t)
    BY DEF Prereqs
  <1>2. d \in Target /\ (d[1] = t[1] \/ d[1] \in Sources(t[1]))
    BY <1>1, DepsShape
  <1>3. \A s \in Sources(t[1]) : s \notin Silent
    BY GraphAssumption DEF Sources
  <1>4. QED
    BY <1>1, <1>2, <1>3

LEMMA EdgeShape ==
  ASSUME NEW e \in Edge
  PROVE  /\ e[1] \in Node /\ e[2] \in Node /\ e = <<e[1], e[2]>>
         /\ e[1] \in Sources(e[2])
         /\ e[1] \notin Stage /\ e[1] \notin Silent
         /\ <<e[2], e[1]>> \in Target
  <1>1. e \in Node \X Node /\ e[1] \notin Silent
    BY GraphAssumption
  <1>2. e[1] \in Node /\ e[2] \in Node /\ e = <<e[1], e[2]>>
    BY <1>1
  <1>3. e[1] \in Sources(e[2]) /\ e[1] \notin Stage
    BY <1>2, NodeAssumption DEF Sources
  <1>4. QED
    BY <1>1, <1>2, <1>3, TargetsOfNode

\* In one invocation every other target of a node comes after its directory.
LEMMA DirFirst ==
  ASSUME TypeOK, Ordered, NEW n \in Node, n \notin prebuilt,
         NEW t \in TargetsOf(n), t # <<n, "dir">>, phase[t] # "idle"
  PROVE  Settled(<<n, "dir">>)
  <1>1. \A u \in Target : u[1] = n => HasRule(u) /\ Prereqs(u) = Deps(u)
    BY DEF HasRule, Prereqs
  <1>2. t \in Target /\ t[1] = n /\ t = <<n, t[2]>> /\ t[2] \in Stage \cup Sources(n)
    BY TargetsOfNode, TargetShape
  <1>3. \A d \in Deps(t) : Settled(d)
    BY <1>1, <1>2 DEF Ordered
  <1>4. CASE t[2] \in Sources(n)
    BY <1>2, <1>3, <1>4, DepsOf
  <1>5. Settled(Exec(n)) => Settled(<<n, "dir">>)
    <2>1. SUFFICES ASSUME Settled(Exec(n)) PROVE Settled(<<n, "dir">>)
      OBVIOUS
    <2>2. Exec(n) \in Target /\ phase[Exec(n)] # "idle"
      BY <2>1, TargetsOfNode DEF Settled
    <2>3. \A d \in Deps(Exec(n)) : Settled(d)
      BY <1>1, <2>2 DEF Ordered, Exec
    <2>4. QED
      BY <2>3, DepsOf
  <1>6. CASE t = Exec(n)
    BY <1>3, <1>6, DepsOf
  <1>7. CASE t[2] \in {"execout", "out", "post"}
    <2>1. Exec(n) \in Deps(t)
      BY <1>2, <1>7, DepsOf DEF Post
    <2>2. QED
      BY <1>3, <1>5, <2>1
  <1>8. QED
    BY <1>2, <1>4, <1>6, <1>7 DEF Exec, Stage

\* A node is touched only after everything its sources' aliases stand for.
LEMMA SourcesFirst ==
  ASSUME TypeOK, Ordered, NEW e \in Edge, e[2] \notin prebuilt,
         phase[Exec(e[2])] # "idle"
  PROVE  \A t \in Alias(e[1]) : Settled(t)
  <1> DEFINE D == <<e[2], "dir">>
  <1>1. e[1] \in Node /\ e[2] \in Node /\ e[1] \in Sources(e[2])
    BY EdgeShape
  <1>2. Exec(e[2]) \in TargetsOf(e[2]) /\ Exec(e[2]) # D
    BY <1>1, TargetsOfNode DEF Exec
  <1>3. Settled(D)
    BY <1>1, <1>2, DirFirst
  <1>4. D \in Target /\ HasRule(D)
    BY <1>1, TargetsOfNode DEF HasRule
  <1>5. \A d \in Deps(D) : Settled(d)
    BY <1>3, <1>4 DEF Ordered, Settled, Prereqs
  <1>6. Alias(e[1]) \subseteq Deps(D)
    <2>1. Deps(D) = UNION {Alias(s) : s \in Sources(e[2])}
      BY <1>1, DepsOf
    <2>2. QED
      BY <1>1, <2>1
  <1>7. QED
    BY <1>5, <1>6

\* What the running make decides to remake is out of date on disk as well, so
\* another make would decide the same if this one came to nothing.
LEMMA MustMeansOutOfDate ==
  ASSUME TypeOK, Clock, NEW t \in Target, active, phase[t] = "idle", MustRemake(t)
  PROVE  OutOfDate(t)
  <1>1. SUFFICES ASSUME NEW d \in Prereqs(t), phase[d] = "remade"
                 PROVE  mtime[d] = 0 \/ mtime[d] > mtime[t]
    BY DEF MustRemake, OutOfDate
  <1>2. d \in Target
    BY PrereqsShape
  <1>3. mtime[t] \in Nat /\ mtime[d] \in Nat /\ run \in Nat
    BY <1>2 DEF TypeOK
  <1>4. mtime[t] # run /\ mtime[t] <= run
    BY DEF Clock
  <1>5. mtime[d] = run \/ mtime[d] = 0
    BY <1>1, <1>2 DEF Clock
  <1>6. QED
    BY <1>3, <1>4, <1>5

-----------------------------------------------------------------------------
(* Steps that move one target on.                                          *)

\* The running make changes its mind about x and about nothing else.
Move(x, q) ==
  /\ active /\ UNCHANGED <<active, wanted, prebuilt, run, result>>
  /\ x \in Target
  /\ Ready(x) \/ Busy(x)
  /\ phase' = [phase EXCEPT ![x] = q]
  /\ q \in Phase \ {"idle"}
  /\ q \in {"started", "commands", "ran"} => HasRule(x)
  /\ q \in {"commands", "ran"} => x[2] = "exec"

LEMMA MovePhase ==
  ASSUME TypeOK, NEW x, NEW q, Move(x, q)
  PROVE  /\ phase' \in [Target -> Phase] /\ phase'[x] = q
         /\ \A t \in Target : t # x => phase'[t] = phase[t]
         /\ \A t \in Target : Settled(t) => t # x /\ Settled(t)'
  BY DEF TypeOK, Move, Settled, Busy, Ready, Phase

LEMMA MoveOrdered ==
  ASSUME TypeOK, Ordered, NEW x, NEW q, Move(x, q)
  PROVE  Ordered'
  <1> USE MovePhase DEF Move
  <1>1. /\ \A t : Prereqs(t)' = Prereqs(t) /\ (HasRule(t)' <=> HasRule(t))
        /\ NeededFor(wanted)' = NeededFor(wanted) /\ (Closed(wanted)' <=> Closed(wanted))
    BY DEF Prereqs, HasRule, NeededFor, Closed
  <1>2. x \in NeededFor(wanted) /\ \A d \in Prereqs(x) : Settled(d)
    <2>1. CASE Ready(x)
      BY <2>1 DEF Ready
    <2>2. CASE Busy(x)
      BY <2>2 DEF Busy, Ordered
    <2>3. QED
      BY <2>1, <2>2
  <1>3. \A t \in Target : phase'[t] # "idle" =>
          t \in NeededFor(wanted) /\ \A d \in Prereqs(t) : Settled(d)
    BY <1>2 DEF Ordered
  <1>4. \A t \in Target : \A d \in Prereqs(t) : d \in Target
    BY PrereqsShape
  <1>5. \A t \in Target : Busy(t)' => HasRule(t)
    <2>1. SUFFICES ASSUME NEW t \in Target, Busy(t)' PROVE HasRule(t)
      OBVIOUS
    <2>2. CASE t = x
      BY <2>1, <2>2 DEF Busy
    <2>3. CASE t # x
      BY <2>1, <2>3 DEF Busy, Ordered
    <2>4. QED
      BY <2>2, <2>3
  <1>6. \A t \in Target : phase'[t] \in {"commands", "ran"} => t[2] = "exec"
    BY DEF Ordered
  <1>7. (active => Closed(wanted)) /\ active'
    BY DEF Ordered
  <1>8. \A t \in Target : phase'[t] # "idle" =>
          t \in NeededFor(wanted)' /\ \A d \in Prereqs(t)' : Settled(d)'
    <2>1. SUFFICES ASSUME NEW t \in Target, phase'[t] # "idle"
                   PROVE  /\ t \in NeededFor(wanted)'
                          /\ \A d \in Prereqs(t)' : Settled(d)'
      OBVIOUS
    <2>2. t \in NeededFor(wanted)'
      BY <1>1, <1>3, <2>1
    <2>3. ASSUME NEW d \in Prereqs(t)' PROVE Settled(d)'
      <3>1. d \in Prereqs(t) /\ d \in Target
        BY <1>1, <1>4, <2>3
      <3>2. Settled(d)
        BY <1>3, <2>1, <3>1
      <3>3. QED
        BY <3>1, <3>2
    <2>4. QED
      BY <2>2, <2>3
  <1>9. \A t \in Target : Busy(t)' => HasRule(t)'
    BY <1>1, <1>5
  <1>10. active' /\ Closed(wanted)'
    BY <1>1, <1>7
  <1>11. QED
    BY <1>6, <1>8, <1>9, <1>10, Zenon DEF Ordered

\* Steps that leave the files alone.
LEMMA FilesVouched ==
  ASSUME UNCHANGED <<mtime, prebuilt, contents>>
  PROVE  Vouched
  <1>1. \A t : OutOfDate(t)' <=> OutOfDate(t)
    BY DEF OutOfDate, Prereqs, HasRule
  <1>2. UNCHANGED <<mtime, prebuilt, made, whole, from, checked>>
    BY DEF contents
  <1>3. \A e \in Edge : ~OutOfDate(Exec(e[2])) /\ e[2] \in prebuilt' => e[2] \in prebuilt
    BY <1>2
  <1>4. QED
    BY <1>1, <1>2, <1>3 DEF Vouched

LEMMA VouchedKeeps ==
  ASSUME CInv, Vouched
  PROVE  CInv'
  <1>1. ExecMeansWhole'
    BY DEF CInv, Vouched, ExecMeansWhole
  <1>2. PostMeansChecked'
    BY DEF CInv, Vouched, PostMeansChecked
  <1>3. PinnedUnlinked'
    BY DEF CInv, Vouched, PinnedUnlinked
  <1>4. ExecMeansFrom'
    BY DEF CInv, Vouched, ExecMeansFrom, PinnedUnlinked
  <1>5. QED
    BY <1>1, <1>2, <1>3, <1>4 DEF CInv

\* Skip, NoRule, Fail, and Launch of a recipe that removes nothing.
LEMMA QuietMove ==
  ASSUME MInv, NEW x, NEW q, Move(x, q), q \in {"current", "failed", "started"},
         UNCHANGED <<mtime, contents>>,
         q = "current" => ~OutOfDate(x),
         q = "started" => OutOfDate(x)
  PROVE  MInv' /\ Vouched
  <1> USE MovePhase DEF MInv
  <1>1. TypeOK'
    BY DEF TypeOK, Move, contents
  <1>2. Ordered'
    BY MoveOrdered
  <1>3. \A t : OutOfDate(t)' <=> OutOfDate(t)
    BY DEF Move, OutOfDate, Prereqs, HasRule
  <1>4. \A t \in Target : phase'[t] # phase[t] => t = x
    OBVIOUS
  <1>5. Clock'
    <2>1. x \in Target /\ phase[x] # "remade" /\ active
      BY DEF Move, Ready, Busy
    <2>2. mtime[x] # run
      BY <2>1 DEF Clock
    <2>3. QED
      BY <2>2 DEF Clock, Move, Phony
  <1>6. BusyIsOutOfDate'
    <2>1. SUFFICES ASSUME NEW t \in Target, Busy(t)' PROVE OutOfDate(t)
      BY <1>3 DEF BusyIsOutOfDate
    <2>2. CASE t = x
      BY <2>1, <2>2 DEF Busy
    <2>3. CASE t # x
      BY <2>1, <2>3 DEF Busy, BusyIsOutOfDate
    <2>4. QED
      BY <2>2, <2>3
  <1>7. SettledIsUpToDate'
    <2>1. SUFFICES ASSUME NEW t \in Target, Settled(t)', t[1] \notin Silent
                   PROVE ~OutOfDate(t)
      BY <1>3 DEF SettledIsUpToDate
    <2>2. CASE t = x
      BY <2>1, <2>2 DEF Settled
    <2>3. CASE t # x
      BY <2>1, <2>3 DEF Settled, SettledIsUpToDate
    <2>4. QED
      BY <2>2, <2>3
  <1>8. Vouched
    BY FilesVouched DEF Move
  <1>9. RunningFrom'
    <2>1. \A t \in Target : phase'[t] \in {"commands", "ran"} => phase'[t] = phase[t]
      OBVIOUS
    <2>2. \A n \in Node : Exec(n) \in Target
      BY TargetsOfNode
    <2>3. \A e \in Edge : Exec(e[2]) \in Target
      BY <2>2, EdgeShape
    <2>4. QED
      BY <2>1, <2>2, <2>3 DEF RunningFrom, Move, contents
  <1>10. Stable'
    BY DEF Stable, Move
  <1>11. QED
    BY <1>1, <1>2, <1>5, <1>6, <1>7, <1>8, <1>9, <1>10

-----------------------------------------------------------------------------
(* The commands of a node.                                                 *)

LEMMA ExecIsTarget ==
  ASSUME NEW n \in Node
  PROVE  Exec(n) \in Target /\ Exec(n)[1] = n /\ Exec(n)[2] = "exec"
  BY TargetsOfNode DEF Exec

LEMMA PostIsTarget ==
  ASSUME NEW n \in Node
  PROVE  Post(n) \in Target /\ Post(n)[1] = n /\ Post(n)[2] = "post"
  BY TargetsOfNode DEF Post

\* While the commands of n run, those of its consumers are still to come, and
\* n does not consume its own outputs.
LEMMA ConsumersWait ==
  ASSUME TypeOK, Ordered, NEW n \in Node, Busy(Exec(n)),
         NEW e \in Edge, e[1] = n, e[2] \notin prebuilt
  PROVE  phase[Exec(e[2])] = "idle"
  <1>1. SUFFICES ASSUME phase[Exec(e[2])] # "idle" PROVE FALSE
    OBVIOUS
  <1>2. Settled(Exec(n))
    BY <1>1, SourcesFirst, AliasShape
  <1>3. QED
    BY <1>2 DEF Settled, Busy

LEMMA NoSelfEdge ==
  ASSUME TypeOK, Ordered, NEW e \in Edge, Busy(Exec(e[2]))
  PROVE  e[1] # e[2]
  <1>1. e[2] \in Node /\ Exec(e[2]) \in Target /\ Exec(e[2])[1] = e[2]
    BY EdgeShape, ExecIsTarget
  <1>2. e[2] \notin prebuilt
    <2>1. HasRule(Exec(e[2]))
      BY <1>1 DEF Ordered
    <2>2. QED
      BY <1>1, <2>1, ExecIsTarget DEF HasRule
  <1>3. QED
    BY <1>1, <1>2, ConsumersWait DEF Busy

LEMMA BusyExecHasRule ==
  ASSUME Ordered, NEW n \in Node, Busy(Exec(n))
  PROVE  n \notin prebuilt /\ HasRule(Exec(n)) /\ active
  <1>1. Exec(n) \in Target /\ Exec(n)[1] = n /\ Exec(n)[2] = "exec"
    BY ExecIsTarget
  <1>2. HasRule(Exec(n)) /\ active
    BY <1>1 DEF Ordered, Busy
  <1>3. QED
    BY <1>1, <1>2 DEF HasRule

LEMMA RunCommandsStep ==
  ASSUME MInv, NEW n \in Node, RunCommands(n)
  PROVE  MInv' /\ Vouched
  <1> DEFINE x == Exec(n)
  <1> USE DEF MInv
  <1>1. x \in Target /\ x[1] = n /\ x[2] = "exec" /\ phase[x] = "started" /\ Busy(x)
    BY ExecIsTarget DEF RunCommands, Exec, Busy
  <1>2. Move(x, "commands")
    BY <1>1, BusyExecHasRule DEF RunCommands, Move, Phase, Exec, files
  <1>3. /\ phase' \in [Target -> Phase] /\ phase'[x] = "commands"
        /\ \A t \in Target : t # x => phase'[t] = phase[t]
        /\ \A t \in Target : Settled(t) => t # x /\ Settled(t)'
    BY <1>2, MovePhase
  <1>4. /\ made' = [made EXCEPT ![n] = run] /\ whole' = [whole EXCEPT ![n] = FALSE]
        /\ from' = [e \in Edge |-> IF e[2] = n THEN made[e[1]] ELSE from[e]]
        /\ UNCHANGED <<mtime, prebuilt, run, active, wanted, result, checked>>
    BY DEF RunCommands, files
  <1>5. \A t : OutOfDate(t)' <=> OutOfDate(t)
    BY <1>4 DEF OutOfDate, Prereqs, HasRule
  <1>6. OutOfDate(x) /\ n \notin prebuilt /\ active
    BY <1>1, BusyExecHasRule DEF BusyIsOutOfDate
  <1>7. TypeOK'
    <2>1. \A e \in Edge : made[e[1]] \in Nat
      BY EdgeShape DEF TypeOK
    <2>2. from' \in [Edge -> Nat]
      BY <1>4, <2>1 DEF TypeOK
    <2>3. QED
      BY <1>3, <1>4, <2>2 DEF TypeOK
  <1>8. Ordered'
    BY <1>2, MoveOrdered
  <1>9. Clock'
    BY <1>1, <1>3, <1>4 DEF Clock, Phony
  <1>10. BusyIsOutOfDate'
    BY <1>1, <1>3, <1>5, <1>6 DEF BusyIsOutOfDate, Busy
  <1>11. SettledIsUpToDate'
    <2>1. \A t \in Target : Settled(t)' => Settled(t)
      BY <1>3 DEF Settled
    <2>2. QED
      BY <1>5, <2>1 DEF SettledIsUpToDate
  <1>12. \A m \in Node : m # n => made'[m] = made[m] /\ whole'[m] = whole[m]
    BY <1>4 DEF TypeOK
  <1>13. ASSUME NEW e \in Edge, ~OutOfDate(Exec(e[2])), e[2] \notin prebuilt,
                made'[e[1]] # 0, made'[e[1]] <= mtime[Exec(e[2])]
         PROVE  e[1] # n /\ e[2] # n /\ from'[e] = from[e]
    <2>1. e[1] \in Node /\ e[2] \in Node /\ Exec(e[2]) \in Target
      BY EdgeShape, ExecIsTarget
    <2>2. e[2] # n
      BY <1>6, <1>13
    <2>3. e[1] # n
      <3>1. SUFFICES ASSUME e[1] = n PROVE FALSE
        OBVIOUS
      <3>2. phase[Exec(e[2])] = "idle"
        BY <1>1, <1>13, <3>1, ConsumersWait
      <3>3. made'[e[1]] = run
        BY <1>4, <3>1 DEF TypeOK
      <3>4. mtime[Exec(e[2])] = run
        BY <1>13, <2>1, <3>3 DEF Clock, TypeOK
      <3>5. QED
        BY <1>6, <2>1, <3>2, <3>4 DEF Clock
    <2>4. QED
      BY <1>4, <2>2, <2>3
  <1>14. Vouched
    <2>1. \A e \in Edge : e[2] \in prebuilt => e[2] # n
      BY <1>6
    <2>2. \A m \in Node : ~OutOfDate(Exec(m)) => m # n
      BY <1>6
    <2>3. QED
      BY <1>4, <1>5, <1>12, <1>13, <2>1, <2>2, EdgeShape DEF Vouched
  <1>15. RunningFrom'
    <2>1. ASSUME NEW e \in Edge, phase'[Exec(e[2])] \in {"commands", "ran"}
          PROVE  from'[e] = made'[e[1]]
      <3>1. e[1] \in Node /\ e[2] \in Node /\ Exec(e[2]) \in Target
        BY EdgeShape, ExecIsTarget
      <3>2. Busy(Exec(e[2]))
        BY <1>1, <1>3, <2>1, <3>1 DEF Busy
      <3>3. e[1] # n
        <4>1. SUFFICES ASSUME e[1] = n PROVE FALSE
          OBVIOUS
        <4>2. e[2] \notin prebuilt
          BY <3>1, <3>2, BusyExecHasRule
        <4>3. phase[Exec(e[2])] = "idle"
          BY <1>1, <4>1, <4>2, ConsumersWait
        <4>4. QED
          BY <3>2, <4>3 DEF Busy
      <3>4. made'[e[1]] = made[e[1]]
        BY <1>4, <3>1, <3>3 DEF TypeOK
      <3>5. CASE e[2] = n
        BY <1>4, <3>4, <3>5
      <3>6. CASE e[2] # n
        <4>1. Exec(e[2]) # x
          BY <3>6 DEF Exec
        <4>2. phase[Exec(e[2])] \in {"commands", "ran"}
          BY <1>3, <2>1, <3>1, <4>1
        <4>3. QED
          BY <1>4, <3>4, <3>6, <4>2 DEF RunningFrom
      <3>7. QED
        BY <3>5, <3>6
    <2>2. ASSUME NEW m \in Node, phase'[Exec(m)] \in {"commands", "ran"}
          PROVE  made'[m] = run /\ (phase'[Exec(m)] = "ran" => whole'[m])
      <3>1. Exec(m) \in Target
        BY ExecIsTarget
      <3>2. CASE m = n
        BY <1>3, <1>4, <3>2 DEF TypeOK
      <3>3. CASE m # n
        <4>1. Exec(m) # x
          BY <3>3 DEF Exec
        <4>2. QED
          BY <1>3, <1>4, <2>2, <3>1, <3>3, <4>1 DEF RunningFrom, TypeOK
      <3>4. QED
        BY <3>2, <3>3
    <2>3. QED
      BY <1>4, <2>1, <2>2 DEF RunningFrom
  <1>16. Stable'
    BY <1>4, <1>6 DEF Stable
  <1>17. QED
    BY <1>7, <1>8, <1>9, <1>10, <1>11, <1>14, <1>15, <1>16

LEMMA CommandsDoneStep ==
  ASSUME MInv, NEW n \in Node, CommandsDone(n)
  PROVE  MInv' /\ Vouched
  <1> DEFINE x == Exec(n)
  <1> USE DEF MInv
  <1>1. x \in Target /\ x[1] = n /\ x[2] = "exec" /\ phase[x] = "commands" /\ Busy(x)
    BY ExecIsTarget DEF CommandsDone, Exec, Busy
  <1>2. Move(x, "ran")
    BY <1>1, BusyExecHasRule DEF CommandsDone, Move, Phase, Exec, files
  <1>3. /\ phase' \in [Target -> Phase] /\ phase'[x] = "ran"
        /\ \A t \in Target : t # x => phase'[t] = phase[t]
        /\ \A t \in Target : Settled(t) => t # x /\ Settled(t)'
    BY <1>2, MovePhase
  <1>4. /\ whole' = [whole EXCEPT ![n] = TRUE]
        /\ UNCHANGED <<mtime, prebuilt, run, active, wanted, result, made, from, checked>>
    BY DEF CommandsDone, files
  <1>5. \A t : OutOfDate(t)' <=> OutOfDate(t)
    BY <1>4 DEF OutOfDate, Prereqs, HasRule
  <1>6. OutOfDate(x) /\ n \notin prebuilt /\ active
    BY <1>1, BusyExecHasRule DEF BusyIsOutOfDate
  <1>7. TypeOK'
    BY <1>3, <1>4 DEF TypeOK
  <1>8. Ordered'
    BY <1>2, MoveOrdered
  <1>9. Clock'
    BY <1>1, <1>3, <1>4 DEF Clock, Phony
  <1>10. BusyIsOutOfDate'
    BY <1>1, <1>3, <1>5, <1>6 DEF BusyIsOutOfDate, Busy
  <1>11. SettledIsUpToDate'
    <2>1. \A t \in Target : Settled(t)' => Settled(t)
      BY <1>3 DEF Settled
    <2>2. QED
      BY <1>5, <2>1 DEF SettledIsUpToDate
  <1>12. Vouched
    <2>1. \A m \in Node : m # n => whole'[m] = whole[m]
      BY <1>4 DEF TypeOK
    <2>2. \A m \in Node : ~OutOfDate(Exec(m)) => m # n
      BY <1>6
    <2>3. QED
      BY <1>4, <1>5, <2>1, <2>2 DEF Vouched
  <1>13. RunningFrom'
    <2>1. \A m \in Node : phase'[Exec(m)] \in {"commands", "ran"} =>
            phase[Exec(m)] \in {"commands", "ran"}
      BY <1>1, <1>3, ExecIsTarget
    <2>2. \A e \in Edge : e[2] \in Node
      BY EdgeShape
    <2>3. ASSUME NEW m \in Node, phase'[Exec(m)] = "ran" PROVE whole'[m]
      <3>1. CASE m = n
        BY <1>4, <3>1 DEF TypeOK
      <3>2. CASE m # n
        <4>1. Exec(m) # x /\ Exec(m) \in Target
          BY <3>2, ExecIsTarget DEF Exec
        <4>2. QED
          BY <1>3, <1>4, <2>3, <3>2, <4>1 DEF RunningFrom, TypeOK
      <3>3. QED
        BY <3>1, <3>2
    <2>4. QED
      BY <1>4, <2>1, <2>2, <2>3 DEF RunningFrom
  <1>14. Stable'
    BY <1>4, <1>6 DEF Stable
  <1>15. QED
    BY <1>7, <1>8, <1>9, <1>10, <1>11, <1>12, <1>13, <1>14

-----------------------------------------------------------------------------
(* The last line of a recipe.                                              *)

\* Touching x makes no other target look up to date.
LEMMA FinishDates ==
  ASSUME MInv, NEW x \in Target, Finish(x), NEW u \in Target
  PROVE  /\ u # x /\ ~OutOfDate(u)' => ~OutOfDate(u) /\ mtime'[u] = mtime[u]
         /\ u # x /\ x \in Prereqs(u) => OutOfDate(u)'
         /\ x \notin Prereqs(u) /\ u # x => (OutOfDate(u)' <=> OutOfDate(u))
         /\ Phony(x) => OutOfDate(x)'
  <1> USE DEF MInv
  <1>1. Busy(x) /\ active
    BY DEF Finish, Busy, Ordered
  <1>2. /\ \A t \in Target : t # x => mtime'[t] = mtime[t]
        /\ mtime'[x] = (IF Phony(x) THEN mtime[x] ELSE run)
        /\ mtime' \in [Target -> Nat] /\ mtime \in [Target -> Nat] /\ run \in Nat
    BY DEF Finish, Touched, TypeOK
  <1>3. \A t : Prereqs(t)' = Prereqs(t)
    BY DEF Finish, Prereqs, HasRule
  <1>4. \A d \in Prereqs(u) : d \in Target
    BY PrereqsShape
  <1>5. x \in Prereqs(u) => phase[u] = "idle"
    <2>1. SUFFICES ASSUME phase[u] # "idle", x \in Prereqs(u) PROVE FALSE
      OBVIOUS
    <2>2. Settled(x)
      BY <2>1 DEF Ordered
    <2>3. QED
      BY <1>1, <2>2 DEF Settled, Busy
  <1>6. phase[u] = "idle" => mtime[u] < run
    BY <1>1, <1>2 DEF Clock
  <1>7. x \in Prereqs(u) /\ u # x => OutOfDate(u)'
    <2>1. SUFFICES ASSUME x \in Prereqs(u), u # x PROVE OutOfDate(u)'
      OBVIOUS
    <2>2. mtime'[u] = mtime[u] /\ mtime[u] < run
      BY <1>2, <1>5, <1>6, <2>1
    <2>3. mtime'[x] = 0 \/ mtime'[x] > mtime'[u]
      BY <1>2, <2>2 DEF Clock
    <2>4. QED
      BY <1>3, <2>1, <2>3 DEF OutOfDate
  <1>8. x \notin Prereqs(u) /\ u # x => (OutOfDate(u)' <=> OutOfDate(u))
    BY <1>2, <1>3, <1>4 DEF OutOfDate
  <1>9. Phony(x) => OutOfDate(x)'
    BY <1>2 DEF OutOfDate, Clock
  <1>10. QED
    BY <1>2, <1>7, <1>8, <1>9

LEMMA FinishStep ==
  ASSUME MInv, NEW x \in Target, Finish(x)
  PROVE  MInv' /\ Vouched
  <1> USE DEF MInv
  <1>1. Busy(x) /\ HasRule(x) /\ active /\ phase[x] # "remade" /\ phase[x] # "idle"
    BY DEF Finish, Busy, Ordered
  <1>2. Move(x, "remade")
    BY <1>1 DEF Finish, Move, Phase
  <1>3. /\ phase' \in [Target -> Phase] /\ phase'[x] = "remade"
        /\ \A t \in Target : t # x => phase'[t] = phase[t]
        /\ \A t \in Target : Settled(t) => t # x /\ Settled(t)'
    BY <1>2, MovePhase
  <1>4. /\ \A t \in Target : t # x => mtime'[t] = mtime[t]
        /\ mtime'[x] = (IF Phony(x) THEN mtime[x] ELSE run)
        /\ mtime' \in [Target -> Nat] /\ mtime \in [Target -> Nat] /\ run \in Nat
    BY DEF Finish, Touched, TypeOK
  <1>5. UNCHANGED <<prebuilt, run, active, wanted, result, made, whole, from>>
    BY DEF Finish
  <1>6. x[1] \in Node
    BY TargetShape
  <1>7. TypeOK'
    <2>1. checked' \in [Node -> Nat]
      BY <1>6 DEF Finish, TypeOK
    <2>2. QED
      BY <1>3, <1>4, <1>5, <2>1 DEF TypeOK
  <1>8. Ordered'
    BY <1>2, MoveOrdered
  <1>9. Clock'
    <2>1. \A t \in Target : mtime'[t] <= run
      BY <1>4 DEF Clock
    <2>2. \A t \in Target : mtime'[t] = run => phase'[t] = "remade"
      BY <1>1, <1>3, <1>4 DEF Clock
    <2>3. \A t \in Target : phase'[t] = "remade" /\ ~Phony(t) => mtime'[t] = run
      BY <1>3, <1>4 DEF Clock
    <2>4. \A t \in Target : Phony(t) => mtime'[t] = 0
      BY <1>4 DEF Clock
    <2>5. QED
      BY <1>5, <2>1, <2>2, <2>3, <2>4 DEF Clock, Phony
  <1>10. BusyIsOutOfDate'
    <2>1. SUFFICES ASSUME NEW t \in Target, Busy(t)' PROVE OutOfDate(t)'
      BY DEF BusyIsOutOfDate
    <2>2. t # x /\ Busy(t)
      BY <1>3, <2>1 DEF Busy
    <2>3. OutOfDate(t)
      BY <2>2 DEF BusyIsOutOfDate
    <2>4. QED
      BY <2>2, <2>3, FinishDates
  <1>11. SettledIsUpToDate'
    <2>1. SUFFICES ASSUME NEW t \in Target, Settled(t)', t[1] \notin Silent
                   PROVE  ~OutOfDate(t)'
      BY DEF SettledIsUpToDate
    <2>2. \A d \in Prereqs(t) : d \in Target /\ d[1] \notin Silent
      BY <2>1, PrereqsShape
    <2>3. CASE t = x
      <3>1. mtime'[x] = run /\ run # 0
        BY <1>4, <2>1, <2>3 DEF Phony, Clock
      <3>2. ASSUME NEW d \in Prereqs(x)
            PROVE  mtime'[d] # 0 /\ ~(mtime'[d] > run)
        <4>1. Settled(d) /\ d \in Target /\ d[1] \notin Silent
          BY <1>1, <2>2, <2>3, <3>2 DEF Ordered
        <4>2. ~OutOfDate(d) /\ d # x
          BY <1>3, <4>1 DEF SettledIsUpToDate
        <4>3. mtime[d] # 0 /\ mtime'[d] = mtime[d]
          BY <1>4, <4>1, <4>2 DEF OutOfDate
        <4>4. QED
          BY <1>4, <4>1, <4>3 DEF Clock
      <3>3. Prereqs(x)' = Prereqs(x)
        BY <1>5 DEF Prereqs, HasRule
      <3>4. QED
        BY <2>3, <3>1, <3>2, <3>3 DEF OutOfDate
    <2>4. CASE t # x
      <3>1. Settled(t)
        BY <1>3, <2>1, <2>4 DEF Settled
      <3>2. ~OutOfDate(t) /\ phase[t] # "idle"
        BY <2>1, <3>1 DEF SettledIsUpToDate, Settled
      <3>3. x \notin Prereqs(t)
        BY <1>3, <3>2 DEF Ordered
      <3>4. QED
        BY <2>4, <3>2, <3>3, FinishDates
    <2>5. QED
      BY <2>3, <2>4
  <1>12. ASSUME NEW n \in Node, ~OutOfDate(Exec(n))'
         PROVE  /\ Exec(n) # x => ~OutOfDate(Exec(n)) /\ mtime'[Exec(n)] = mtime[Exec(n)]
                /\ Exec(n) = x => ~Phony(x) /\ phase[x] = "ran" /\ mtime'[x] = run
    <2>1. Exec(n) \in Target /\ Exec(n)[2] = "exec"
      BY ExecIsTarget
    <2>2. Exec(n) = x => ~Phony(x)
      BY <1>12, <2>1, FinishDates
    <2>3. Exec(n) = x => phase[x] = "ran"
      BY <2>1 DEF Finish
    <2>4. QED
      BY <1>4, <1>12, <2>1, <2>2, <2>3, FinishDates
  <1>13. ASSUME NEW n \in Node, ~OutOfDate(Exec(n))', Exec(n) = x
         PROVE  /\ whole'[n] /\ made'[n] = mtime'[Exec(n)]
                /\ \A e \in Edge : e[2] = n => from'[e] = made'[e[1]]
    BY <1>5, <1>12, <1>13 DEF RunningFrom
  <1>14. ASSUME NEW n \in Node, ~OutOfDate(Exec(n))', ~OutOfDate(Post(n))',
                checked'[n] # made[n]
         PROVE  /\ ~OutOfDate(Exec(n)) /\ ~OutOfDate(Post(n))
                /\ checked'[n] = checked[n]
    <2>1. Post(n) \in Target /\ Exec(n) \in Target
      BY PostIsTarget, ExecIsTarget
    <2>2. x # Post(n)
      BY <1>14, PostIsTarget DEF Finish, TypeOK
    <2>3. ~OutOfDate(Post(n)) /\ x \notin Prereqs(Post(n))
      BY <1>14, <2>1, <2>2, FinishDates
    <2>4. Exec(n) \in Prereqs(Post(n))
      BY DepsOf, PostIsTarget DEF Prereqs, HasRule
    <2>5. ~OutOfDate(Exec(n))
      BY <1>12, <1>14, <2>3, <2>4
    <2>6. checked'[n] = checked[n]
      <3>1. x[2] = "post" => x[1] # n
        BY <2>2, TargetShape DEF Post
      <3>2. QED
        BY <3>1 DEF Finish, TypeOK
    <2>7. QED
      BY <2>3, <2>5, <2>6
  <1>15. Vouched
    <2>1. ASSUME NEW e \in Edge, e[2] \in prebuilt
          PROVE  mtime'[<<e[2], e[1]>>] = mtime[<<e[2], e[1]>>]
      <3>1. <<e[2], e[1]>> \in Target /\ e[1] \notin Stage
        BY EdgeShape
      <3>2. ~HasRule(<<e[2], e[1]>>)
        BY <2>1, <3>1 DEF HasRule, Stage
      <3>3. QED
        BY <1>1, <1>4, <3>1, <3>2
    <2>2. \A n \in Node : ~OutOfDate(Exec(n))' =>
            \/ /\ ~OutOfDate(Exec(n)) /\ mtime'[Exec(n)] = mtime[Exec(n)]
               /\ made'[n] = made[n] /\ whole'[n] = whole[n]
            \/ /\ whole'[n] /\ made'[n] = mtime'[Exec(n)]
               /\ \A e \in Edge : e[2] = n => from'[e] = made'[e[1]]
      BY <1>5, <1>12, <1>13
    <2>3. QED
      BY <1>5, <1>14, <2>1, <2>2, EdgeShape DEF Vouched
  <1>16. RunningFrom'
    <2>1. \A m \in Node : phase'[Exec(m)] \in {"commands", "ran"} =>
            phase'[Exec(m)] = phase[Exec(m)]
      BY <1>3, ExecIsTarget
    <2>2. \A e \in Edge : e[2] \in Node
      BY EdgeShape
    <2>3. QED
      BY <1>5, <2>1, <2>2 DEF RunningFrom
  <1>17. Stable'
    BY <1>1, <1>5 DEF Stable
  <1>18. QED
    BY <1>7, <1>8, <1>9, <1>10, <1>11, <1>15, <1>16, <1>17

-----------------------------------------------------------------------------
(* Removing build directories.                                             *)

LEMMA WipeDates ==
  ASSUME MInv, NEW S \in SUBSET Node, Wiped(S)
  PROVE  /\ mtime' \in [Target -> Nat]
         /\ \A t \in Target : mtime'[t] = IF t[1] \in S THEN 0 ELSE mtime[t]
         /\ \A t \in Target : ~OutOfDate(t)' =>
              t[1] \notin S /\ ~OutOfDate(t) /\ mtime'[t] = mtime[t]
  <1>1. mtime \in [Target -> Nat]
    BY DEF MInv, TypeOK
  <1>2. \A t \in Target : mtime'[t] = IF t[1] \in S THEN 0 ELSE mtime[t]
    BY DEF Wiped
  <1>3. mtime' \in [Target -> Nat]
    BY <1>1 DEF Wiped
  <1>4. ASSUME NEW t \in Target, ~OutOfDate(t)'
        PROVE  t[1] \notin S /\ ~OutOfDate(t) /\ mtime'[t] = mtime[t]
    <2>1. mtime'[t] # 0 /\ t[1] \notin S /\ mtime'[t] = mtime[t]
      BY <1>2, <1>4 DEF OutOfDate
    <2>2. Prereqs(t)' = Prereqs(t)
      BY <2>1 DEF Wiped, Prereqs, HasRule
    <2>3. \A d \in Prereqs(t) : d \in Target
      BY PrereqsShape
    <2>4. \A d \in Prereqs(t) : mtime'[d] # 0 /\ ~(mtime'[d] > mtime'[t])
      BY <1>4, <2>2 DEF OutOfDate
    <2>5. \A d \in Prereqs(t) : mtime'[d] = mtime[d]
      BY <1>2, <2>3, <2>4
    <2>6. QED
      BY <2>1, <2>4, <2>5 DEF OutOfDate
  <1>5. QED
    BY <1>2, <1>3, <1>4

\* Whatever is removed, contents are gone together with the stamps that
\* vouch for them.
LEMMA WipeContents ==
  ASSUME MInv, NEW S \in SUBSET Node, Wiped(S)
  PROVE  /\ prebuilt' \subseteq Node /\ made' \in [Node -> Nat]
         /\ whole' \in [Node -> BOOLEAN]
         /\ from' \in [Edge -> Nat] /\ checked' \in [Node -> Nat]
         /\ Vouched
  <1> USE DEF MInv
  <1>1. /\ prebuilt' \subseteq Node /\ made' \in [Node -> Nat]
        /\ whole' \in [Node -> BOOLEAN]
        /\ from' \in [Edge -> Nat] /\ checked' \in [Node -> Nat]
    BY DEF Wiped, TypeOK
  <1>2. \A t \in Target : ~OutOfDate(t)' =>
          t[1] \notin S /\ ~OutOfDate(t) /\ mtime'[t] = mtime[t]
    BY WipeDates
  <1>3. \A n \in Node : n \notin S =>
          made'[n] = made[n] /\ whole'[n] = whole[n] /\ checked'[n] = checked[n]
    BY DEF Wiped, TypeOK
  <1>4. ASSUME NEW e \in Edge
        PROVE  /\ e[2] \notin S => from'[e] = from[e]
               /\ made'[e[1]] # 0 => e[1] \notin S
    BY EdgeShape DEF Wiped
  <1>5. \A e \in Edge : e[2] \in prebuilt' =>
          /\ e[2] \in prebuilt /\ e[2] \notin S
          /\ mtime'[<<e[2], e[1]>>] = mtime[<<e[2], e[1]>>]
    BY EdgeShape DEF Wiped
  <1>6. \A e \in Edge : e[2] \in prebuilt /\ e[2] \notin S => e[2] \in prebuilt'
    BY DEF Wiped
  <1>7. Vouched
    <2>1. \A n \in Node : /\ Exec(n) \in Target /\ Exec(n)[1] = n
                         /\ Post(n) \in Target
      BY ExecIsTarget, PostIsTarget
    <2>2. \A n \in Node : ~OutOfDate(Exec(n))' =>
            /\ ~OutOfDate(Exec(n)) /\ mtime'[Exec(n)] = mtime[Exec(n)] /\ n \notin S
            /\ made'[n] = made[n] /\ whole'[n] = whole[n] /\ checked'[n] = checked[n]
      BY <1>2, <1>3, <2>1
    <2>3. \A n \in Node : ~OutOfDate(Post(n))' => ~OutOfDate(Post(n))
      BY <1>2, <2>1
    <2>4. ASSUME NEW e \in Edge, ~OutOfDate(Exec(e[2]))', e[2] \notin prebuilt',
                 made'[e[1]] # 0
          PROVE  /\ made'[e[1]] = made[e[1]] /\ made'[e[2]] = made[e[2]]
                 /\ from'[e] = from[e] /\ e[2] \notin prebuilt
      <3>1. e[1] \in Node /\ e[2] \in Node
        BY EdgeShape
      <3>2. e[1] \notin S
        BY <1>4, <2>4
      <3>3. Exec(e[2]) \in Target /\ Exec(e[2])[1] = e[2]
        BY <2>1, <3>1
      <3>4. e[2] \notin S
        BY <1>2, <2>4, <3>3
      <3>5. QED
        <4>1. made'[e[1]] = made[e[1]] /\ made'[e[2]] = made[e[2]]
          BY <1>3, <3>1, <3>2, <3>4
        <4>2. from'[e] = from[e]
          BY <1>4, <3>4
        <4>3. e[2] \notin prebuilt
          BY <1>6, <2>4, <3>4
        <4>4. QED
          BY <4>1, <4>2, <4>3
    <2>5. \A e \in Edge : e[2] \in prebuilt' =>
            /\ e[2] \in prebuilt /\ made'[e[2]] = made[e[2]]
            /\ mtime'[<<e[2], e[1]>>] = mtime[<<e[2], e[1]>>]
      BY <1>3, <1>5, EdgeShape
    <2>6. QED
      BY <2>2, <2>3, <2>4, <2>5, EdgeShape DEF Vouched
  <1>8. QED
    BY <1>1, <1>7

LEMMA CleanStep ==
  ASSUME MInv, NEW S \in SUBSET Node, Clean(S)
  PROVE  MInv' /\ Vouched
  <1> USE DEF MInv
  <1>1. Wiped(S) /\ ~active /\ result' = "none" /\ UNCHANGED <<run, active, wanted, phase>>
    BY DEF Clean
  <1>2. \A t \in Target : phase[t] = "idle" /\ phase'[t] = "idle"
    BY <1>1 DEF Ordered
  <1>3. /\ mtime' \in [Target -> Nat]
        /\ \A t \in Target : mtime'[t] = IF t[1] \in S THEN 0 ELSE mtime[t]
    BY <1>1, WipeDates
  <1>4. TypeOK'
    BY <1>1, <1>3, WipeContents DEF TypeOK
  <1>5. Ordered' /\ BusyIsOutOfDate' /\ SettledIsUpToDate' /\ Stable'
    BY <1>1, <1>2 DEF Ordered, Busy, Settled, BusyIsOutOfDate, SettledIsUpToDate, Stable
  <1>6. Clock'
    BY <1>1, <1>2, <1>3 DEF Clock, TypeOK, Phony
  <1>7. RunningFrom'
    BY <1>2, ExecIsTarget, EdgeShape DEF RunningFrom
  <1>8. QED
    BY <1>1, <1>4, <1>5, <1>6, <1>7, WipeContents

LEMMA LaunchWipeStep ==
  ASSUME MInv, NEW n \in Node, Launch(<<n, "dir">>), n \notin Subgraph
  PROVE  MInv' /\ Vouched
  <1> DEFINE x == <<n, "dir">>
  <1> USE DEF MInv
  <1>1. x \in Target /\ x[1] = n /\ x[2] = "dir"
    BY TargetsOfNode
  <1>2. Wiped({n}) /\ Ready(x) /\ HasRule(x) /\ phase' = [phase EXCEPT ![x] = "started"]
        /\ UNCHANGED <<run, active, wanted, result>>
    BY <1>1 DEF Launch
  <1>3. active /\ phase[x] = "idle" /\ n \notin prebuilt
    BY <1>1, <1>2 DEF Ready, HasRule
  <1>4. prebuilt' = prebuilt
    BY <1>2, <1>3 DEF Wiped
  <1>5. Move(x, "started")
    BY <1>1, <1>2, <1>3, <1>4 DEF Move, Phase
  <1>6. /\ phase' \in [Target -> Phase] /\ phase'[x] = "started"
        /\ \A t \in Target : t # x => phase'[t] = phase[t]
        /\ \A t \in Target : Settled(t) => t # x /\ Settled(t)'
    BY <1>5, MovePhase
  <1>7. \A t \in Target : t[1] = n => phase[t] = "idle"
    <2>1. SUFFICES ASSUME NEW t \in Target, t[1] = n, t # x, phase[t] # "idle" PROVE FALSE
      BY <1>3
    <2>2. Settled(x)
      BY <1>3, <2>1, DirFirst, TargetShape
    <2>3. QED
      BY <1>3, <2>2 DEF Settled
  <1>8. /\ mtime' \in [Target -> Nat] /\ mtime \in [Target -> Nat] /\ run \in Nat
        /\ \A t \in Target : mtime'[t] = IF t[1] = n THEN 0 ELSE mtime[t]
    BY <1>2, WipeDates DEF TypeOK
  <1>9. TypeOK'
    BY <1>2, <1>6, <1>8, WipeContents DEF TypeOK
  <1>10. Ordered'
    BY <1>5, MoveOrdered
  <1>11. Clock'
    BY <1>2, <1>3, <1>6, <1>7, <1>8 DEF Clock, Phony
  <1>12. BusyIsOutOfDate'
    <2>1. SUFFICES ASSUME NEW t \in Target, Busy(t)', ~OutOfDate(t)' PROVE FALSE
      BY DEF BusyIsOutOfDate
    <2>2. t[1] # n /\ ~OutOfDate(t)
      BY <1>2, <2>1, WipeDates
    <2>3. Busy(t)
      BY <1>1, <1>6, <2>1, <2>2 DEF Busy
    <2>4. QED
      BY <2>2, <2>3 DEF BusyIsOutOfDate
  <1>13. SettledIsUpToDate'
    <2>1. SUFFICES ASSUME NEW t \in Target, Settled(t)', t[1] \notin Silent
                   PROVE  ~OutOfDate(t)'
      BY DEF SettledIsUpToDate
    <2>2. t # x /\ Settled(t)
      BY <1>6, <2>1 DEF Settled
    <2>3. ~OutOfDate(t) /\ phase[t] # "idle" /\ t[1] # n
      BY <1>7, <2>1, <2>2 DEF Settled, SettledIsUpToDate
    <2>4. \A d \in Prereqs(t) : d \in Target /\ d[1] # n
      <3>1. SUFFICES ASSUME NEW d \in Prereqs(t) PROVE d \in Target /\ d[1] # n
        OBVIOUS
      <3>2. Settled(d) /\ d \in Target
        BY <2>3, PrereqsShape DEF Ordered
      <3>3. QED
        BY <1>7, <3>2 DEF Settled
    <2>5. Prereqs(t)' = Prereqs(t)
      BY <1>4 DEF Prereqs, HasRule
    <2>6. QED
      BY <1>8, <2>3, <2>4, <2>5 DEF OutOfDate
  <1>14. RunningFrom'
    <2>1. ASSUME NEW m \in Node, phase'[Exec(m)] \in {"commands", "ran"}
          PROVE  m # n /\ phase[Exec(m)] = phase'[Exec(m)] /\ Busy(Exec(m))
      <3>1. Exec(m) \in Target /\ Exec(m)[1] = m /\ Exec(m) # x
        BY ExecIsTarget DEF Exec
      <3>2. phase[Exec(m)] = phase'[Exec(m)]
        BY <1>6, <3>1
      <3>3. QED
        BY <1>7, <2>1, <3>1, <3>2 DEF Busy
    <2>2. ASSUME NEW e \in Edge, phase'[Exec(e[2])] \in {"commands", "ran"}
          PROVE  from'[e] = made'[e[1]]
      <3>1. e[1] \in Node /\ e[2] \in Node
        BY EdgeShape
      <3>2. e[2] # n /\ phase[Exec(e[2])] = phase'[Exec(e[2])] /\ Busy(Exec(e[2]))
        BY <2>1, <2>2, <3>1
      <3>3. e[2] \notin prebuilt
        BY <3>1, <3>2, BusyExecHasRule
      <3>4. e[1] # n
        <4>1. SUFFICES ASSUME e[1] = n PROVE FALSE
          OBVIOUS
        <4>2. Settled(Exec(n))
          BY <3>2, <3>3, <4>1, SourcesFirst, AliasShape DEF Busy
        <4>3. QED
          BY <1>7, <4>2, ExecIsTarget DEF Settled
      <3>5. from[e] = made[e[1]]
        BY <2>2, <3>2 DEF RunningFrom
      <3>6. QED
        BY <1>2, <3>1, <3>2, <3>4, <3>5 DEF Wiped
    <2>3. ASSUME NEW m \in Node, phase'[Exec(m)] \in {"commands", "ran"}
          PROVE  made'[m] = run /\ (phase'[Exec(m)] = "ran" => whole'[m])
      <3>1. m # n /\ phase[Exec(m)] = phase'[Exec(m)]
        BY <2>1, <2>3
      <3>2. QED
        BY <1>2, <2>3, <3>1 DEF RunningFrom, Wiped
    <2>4. QED
      BY <1>2, <2>2, <2>3 DEF RunningFrom
  <1>15. Stable'
    BY <1>2, <1>3 DEF Stable
  <1>16. QED
    BY <1>2, <1>9, <1>10, <1>11, <1>12, <1>13, <1>14, <1>15, WipeContents

LEMMA LaunchStep ==
  ASSUME MInv, NEW x \in Target, Launch(x)
  PROVE  MInv' /\ Vouched
  <1>1. CASE x[2] = "dir" /\ x[1] \notin Subgraph
    <2>1. x = <<x[1], "dir">> /\ x[1] \in Node
      BY <1>1, TargetShape
    <2>2. QED
      BY <1>1, <2>1, LaunchWipeStep
  <1>2. CASE ~(x[2] = "dir" /\ x[1] \notin Subgraph)
    <2>1. UNCHANGED <<files, contents, run, active, wanted, result>> /\ Ready(x)
          /\ HasRule(x) /\ MustRemake(x) /\ phase' = [phase EXCEPT ![x] = "started"]
      BY <1>2 DEF Launch
    <2>2. OutOfDate(x)
      BY <2>1, MustMeansOutOfDate DEF MInv, Ready
    <2>3. Move(x, "started")
      BY <2>1 DEF Move, Ready, Phase, files
    <2>4. QED
      BY <2>1, <2>2, <2>3, QuietMove DEF files
  <1>3. QED
    BY <1>1, <1>2

-----------------------------------------------------------------------------
(* The remaining steps.                                                    *)

LEMMA SkipStep ==
  ASSUME MInv, NEW x \in Target, Skip(x)
  PROVE  MInv' /\ Vouched
  <1>1. Move(x, "current")
    BY DEF Skip, Move, Ready, Phase, files
  <1>2. ~OutOfDate(x)
    BY DEF Skip, MustRemake
  <1>3. QED
    BY <1>1, <1>2, QuietMove DEF Skip, files

LEMMA NoRuleStep ==
  ASSUME MInv, NEW x \in Target, NoRule(x)
  PROVE  MInv' /\ Vouched
  <1>1. Move(x, "failed")
    BY DEF NoRule, Move, Ready, Phase, files
  <1>2. QED
    BY <1>1, QuietMove DEF NoRule, files

LEMMA FailStep ==
  ASSUME MInv, NEW x \in Target, Fail(x)
  PROVE  MInv' /\ Vouched
  <1>1. active
    BY DEF Fail, Busy, MInv, Ordered
  <1>2. Move(x, "failed")
    BY <1>1 DEF Fail, Move, Phase, files
  <1>3. QED
    BY <1>2, QuietMove DEF Fail, files

\* The end of an invocation, whatever its result: what it had under way is
\* forgotten and the files stay as they are.
LEMMA EndStep ==
  ASSUME MInv, active' = FALSE, phase' = Idle,
         result' \in {"ok", "error", "killed"},
         result' = "ok" => NothingToDo(wanted \ Silent),
         UNCHANGED <<files, run, wanted, contents>>
  PROVE  MInv' /\ Vouched
  <1> USE DEF MInv
  <1>1. \A t \in Target : phase'[t] = "idle"
    BY DEF Idle
  <1>2. \A t : OutOfDate(t)' <=> OutOfDate(t)
    BY DEF files, OutOfDate, Prereqs, HasRule
  <1>3. TypeOK'
    BY DEF TypeOK, files, contents, Idle, Phase
  <1>4. Ordered' /\ BusyIsOutOfDate' /\ SettledIsUpToDate'
    BY <1>1 DEF Ordered, Busy, Settled, BusyIsOutOfDate, SettledIsUpToDate
  <1>5. Clock'
    BY <1>1 DEF Clock, files, Phony
  <1>6. Vouched
    BY FilesVouched DEF files
  <1>7. RunningFrom'
    BY <1>1, ExecIsTarget, EdgeShape DEF RunningFrom
  <1>8. Stable'
    <2>1. NothingToDo(wanted \ Silent)' <=> NothingToDo(wanted \ Silent)
      BY <1>2 DEF NothingToDo, Closed, NeededFor, files
    <2>2. QED
      BY <2>1 DEF Stable
  <1>9. QED
    BY <1>3, <1>4, <1>5, <1>6, <1>7, <1>8

LEMMA MakeExitStep ==
  ASSUME MInv, MakeExit
  PROVE  MInv' /\ Vouched
  <1> USE DEF MInv
  <1>1. SUFFICES ASSUME result' = "ok" PROVE NothingToDo(wanted \ Silent)
    BY EndStep DEF MakeExit
  <1>2. active /\ \A t \in NeededFor(wanted) : Settled(t)
    BY <1>1 DEF MakeExit
  <1>3. Closed(wanted \ Silent)
    <2>1. wanted \subseteq Node /\ Closed(wanted)
      BY <1>2 DEF TypeOK, Ordered
    <2>2. \A n \in Node : \A s \in Sources(n) : s \notin Silent
      BY GraphAssumption DEF Sources
    <2>3. QED
      BY <2>1, <2>2 DEF Closed
  <1>4. \A t \in NeededFor(wanted \ Silent) :
          t \in NeededFor(wanted) /\ t \in Target /\ t[1] \notin Silent
    <2>1. SUFFICES ASSUME NEW n \in wanted \ Silent,
                          NEW t \in IF n \in prebuilt THEN Alias(n) ELSE TargetsOf(n)
                   PROVE  t \in NeededFor(wanted) /\ t \in Target /\ t[1] \notin Silent
      BY DEF NeededFor
    <2>2. n \in Node
      BY DEF TypeOK
    <2>3. t \in TargetsOf(n)
      BY <2>2, AliasShape
    <2>4. t \in NeededFor(wanted)
      BY DEF NeededFor
    <2>5. QED
      BY <2>2, <2>3, <2>4, TargetsOfNode
  <1>5. QED
    BY <1>2, <1>3, <1>4 DEF NothingToDo, SettledIsUpToDate

LEMMA KillStep ==
  ASSUME MInv, Kill
  PROVE  MInv' /\ Vouched
  BY EndStep DEF Kill

LEMMA StartMakeStep ==
  ASSUME MInv, NEW G \in SUBSET Node, StartMake(G)
  PROVE  MInv' /\ Vouched
  <1> USE DEF MInv
  <1>1. /\ ~active /\ Closed(G) /\ active' = TRUE /\ wanted' = G /\ run' = run + 1
        /\ result' = "none"
        /\ UNCHANGED <<files, phase, contents>>
    BY DEF StartMake
  <1>2. \A t \in Target : phase[t] = "idle" /\ phase'[t] = "idle"
    BY <1>1 DEF Ordered
  <1>3. \A t : OutOfDate(t)' <=> OutOfDate(t)
    BY <1>1 DEF files, OutOfDate, Prereqs, HasRule
  <1>4. TypeOK'
    BY <1>1 DEF TypeOK, files, contents
  <1>5. Ordered' /\ BusyIsOutOfDate' /\ SettledIsUpToDate'
    <2>1. Closed(wanted)'
      BY <1>1 DEF Closed, files
    <2>2. QED
      BY <1>1, <1>2, <2>1 DEF Ordered, Busy, Settled, BusyIsOutOfDate, SettledIsUpToDate
  <1>6. Clock'
    <2>1. run \in Nat /\ run' = run + 1 /\ mtime' = mtime
      BY <1>1 DEF TypeOK, files
    <2>2. \A t \in Target : mtime[t] \in Nat /\ mtime[t] <= run
      BY DEF Clock, TypeOK
    <2>3. run' # 0 /\ \A t \in Target : mtime'[t] <= run' /\ mtime'[t] # run'
      BY <2>1, <2>2
    <2>4. \A t \in Target : Phony(t) => mtime'[t] = 0
      BY <2>1 DEF Clock
    <2>5. QED
      BY <1>2, <2>3, <2>4 DEF Clock, Phony
  <1>7. Vouched
    BY <1>1, FilesVouched DEF files
  <1>8. RunningFrom' /\ Stable'
    BY <1>1, <1>2, ExecIsTarget, EdgeShape DEF RunningFrom, Stable
  <1>9. QED
    BY <1>4, <1>5, <1>6, <1>7, <1>8

\* A node that gets its rules back has no links to its inputs, so it does not
\* pass for one that was built from what its sources have.
LEMMA UnpinStep ==
  ASSUME MInv, NEW n \in Node, Unpin(n)
  PROVE  MInv' /\ Vouched
  <1> USE DEF MInv
  <1>1. /\ ~active /\ n \in prebuilt /\ prebuilt' = prebuilt \ {n} /\ result' = "none"
        /\ UNCHANGED <<mtime, run, active, wanted, phase, contents>>
    BY DEF Unpin
  <1>2. \A t \in Target : phase[t] = "idle" /\ phase'[t] = "idle"
    BY <1>1 DEF Ordered
  <1>3. \A t : ~OutOfDate(t)' => ~OutOfDate(t)
    <2>1. \A t : Prereqs(t) \subseteq Prereqs(t)'
      BY <1>1 DEF Prereqs, HasRule
    <2>2. QED
      BY <1>1, <2>1 DEF OutOfDate
  <1>4. TypeOK'
    BY <1>1 DEF TypeOK, contents
  <1>5. Ordered' /\ BusyIsOutOfDate' /\ SettledIsUpToDate'
    BY <1>1, <1>2 DEF Ordered, Busy, Settled, BusyIsOutOfDate, SettledIsUpToDate
  <1>6. Clock'
    BY <1>1 DEF Clock, Phony
  <1>7. ASSUME NEW e \in Edge, ~OutOfDate(Exec(e[2]))', e[2] \notin prebuilt'
        PROVE  mtime[<<e[2], e[1]>>] # 0
    <2>1. e[2] \in Node /\ e[1] \in Sources(e[2])
      BY EdgeShape
    <2>2. <<e[2], e[1]>> \in Deps(Exec(e[2]))
      <3>1. Deps(Exec(e[2]))
              = {<<e[2], "dir">>} \cup {<<e[2], r>> : r \in Sources(e[2])}
        BY <2>1, DepsOf
      <3>2. QED
        BY <2>1, <3>1
    <2>3. HasRule(Exec(e[2]))'
      BY <1>7, <2>1, ExecIsTarget DEF HasRule
    <2>4. QED
      BY <1>1, <1>7, <2>2, <2>3 DEF OutOfDate, Prereqs
  <1>8. Vouched
    BY <1>1, <1>3, <1>7 DEF Vouched, contents
  <1>9. RunningFrom' /\ Stable'
    BY <1>1, <1>2, ExecIsTarget, EdgeShape DEF RunningFrom, Stable
  <1>10. QED
    BY <1>4, <1>5, <1>6, <1>8, <1>9

-----------------------------------------------------------------------------
(* The inductive invariant.                                                *)

LEMMA InitIInv ==
  ASSUME Init
  PROVE  IInv
  <1>1. PICK D \in SUBSET prebuilt :
          /\ mtime = [t \in Target |->
               IF \/ t[1] \in prebuilt /\ t[2] = "dir"
                  \/ t[1] \in D /\ t[2] \in Stage /\ ~Phony(t)
                 THEN 1 ELSE 0]
          /\ made = [n \in Node |-> IF n \in D THEN 1 ELSE 0]
          /\ whole = [n \in Node |-> n \in D]
    BY DEF Init
  <1>2. /\ prebuilt \subseteq Node /\ checked = made /\ from = [e \in Edge |-> 0]
        /\ run = 1 /\ active = FALSE /\ wanted = {} /\ phase = Idle /\ result = "none"
    BY GraphAssumption DEF Init
  <1>3. \A t \in Target : phase[t] = "idle"
    BY <1>2 DEF Idle
  <1>4. \A n \in Node : ~OutOfDate(Exec(n)) => n \in D /\ mtime[Exec(n)] = 1
    BY <1>1, ExecIsTarget DEF OutOfDate, Phony
  <1>5. TypeOK
    <2>1. mtime \in [Target -> Nat]
      BY <1>1
    <2>2. made \in [Node -> Nat] /\ whole \in [Node -> BOOLEAN]
      BY <1>1
    <2>3. from \in [Edge -> Nat] /\ checked \in [Node -> Nat]
      BY <1>2, <2>2
    <2>4. phase \in [Target -> Phase]
      BY <1>2 DEF Idle, Phase
    <2>5. QED
      BY <1>2, <2>1, <2>2, <2>3, <2>4 DEF TypeOK
  <1>6. Ordered /\ BusyIsOutOfDate /\ SettledIsUpToDate
    BY <1>2, <1>3 DEF Ordered, Busy, Settled, BusyIsOutOfDate, SettledIsUpToDate
  <1>7. Clock
    BY <1>1, <1>2, <1>3 DEF Clock, Phony
  <1>8. ExecMeansWhole /\ PostMeansChecked
    BY <1>1, <1>2, <1>4 DEF ExecMeansWhole, PostMeansChecked
  <1>9. ExecMeansFrom
    BY <1>1, <1>4, EdgeShape DEF ExecMeansFrom
  <1>10. PinnedUnlinked
    <2>1. SUFFICES ASSUME NEW e \in Edge PROVE mtime[<<e[2], e[1]>>] = 0
      BY DEF PinnedUnlinked
    <2>2. <<e[2], e[1]>> \in Target /\ e[1] \notin Stage
      BY EdgeShape
    <2>3. QED
      BY <1>1, <2>2 DEF Stage
  <1>11. RunningFrom /\ Stable
    BY <1>2, <1>3, ExecIsTarget, EdgeShape DEF RunningFrom, Stable
  <1>12. QED
    BY <1>5, <1>6, <1>7, <1>8, <1>9, <1>10, <1>11 DEF IInv, MInv, CInv

LEMMA StutterStep ==
  ASSUME MInv, UNCHANGED vars
  PROVE  MInv' /\ Vouched
  <1>1. UNCHANGED <<mtime, prebuilt, run, active, wanted, phase, result,
                    made, whole, from, checked>>
    BY DEF vars, files, invocation, contents
  <1>2. MInv'
    BY <1>1 DEF MInv, TypeOK, Ordered, Clock, BusyIsOutOfDate, SettledIsUpToDate, RunningFrom,
         Stable, NothingToDo, Closed, NeededFor, OutOfDate, Prereqs, HasRule, Settled, Busy
  <1>3. Vouched
    BY <1>1, FilesVouched DEF contents
  <1>4. QED
    BY <1>2, <1>3

LEMMA NextKeeps ==
  ASSUME MInv, [Next]_vars
  PROVE  MInv' /\ Vouched
  <1>1. CASE UNCHANGED vars
    BY <1>1, StutterStep
  <1>2. ASSUME NEW t \in Target, Skip(t) \/ NoRule(t) \/ Launch(t) \/ Finish(t) \/ Fail(t)
        PROVE  MInv' /\ Vouched
    BY <1>2, SkipStep, NoRuleStep, LaunchStep, FinishStep, FailStep
  <1>3. ASSUME NEW n \in Node, RunCommands(n) \/ CommandsDone(n)
        PROVE  MInv' /\ Vouched
    BY <1>3, RunCommandsStep, CommandsDoneStep
  <1>4. CASE MakeExit \/ Kill
    BY <1>4, MakeExitStep, KillStep
  <1>5. ASSUME NEW G \in SUBSET Node, StartMake(G)
        PROVE  MInv' /\ Vouched
    BY <1>5, StartMakeStep
  <1>6. ASSUME NEW S \in {{n} : n \in Node} \cup {Node}, Clean(S)
        PROVE  MInv' /\ Vouched
    <2>1. S \in SUBSET Node
      OBVIOUS
    <2>2. QED
      BY <1>6, <2>1, CleanStep
  <1>7. ASSUME NEW n \in Node, Unpin(n)
        PROVE  MInv' /\ Vouched
    BY <1>7, UnpinStep
  <1>8. QED
    BY <1>1, <1>2, <1>3, <1>4, <1>5, <1>6, <1>7 DEF Next, MakeStep, UserStep

LEMMA NextIInv ==
  ASSUME IInv, [Next]_vars
  PROVE  IInv'
  BY NextKeeps, VouchedKeeps DEF IInv

LEMMA AlwaysIInv == Spec => []IInv
  BY InitIInv, NextIInv, PTL DEF Spec

-----------------------------------------------------------------------------
(* The properties.                                                         *)

\* Every variable keeps its type, for every graph.
THEOREM TypeCorrect == Spec => []TypeOK
  BY AlwaysIInv, PTL DEF IInv, MInv

\* With any number of parallel recipes, nothing of a source is still to be
\* done while the commands of a node that reads its outputs run.
THEOREM NoWriterUnderReaderHolds == Spec => []NoWriterUnderReader
  <1>1. IInv => NoWriterUnderReader
    <2> SUFFICES ASSUME IInv, NEW e \in Edge, Busy(<<e[2], "exec">>),
                        NEW t \in TargetsOf(e[1]), t \in NeededFor(wanted)
                   PROVE  Settled(t)
      BY DEF NoWriterUnderReader
    <2> DEFINE s == e[1]
    <2> USE DEF IInv, MInv, CInv
    <2>2. s \in Node /\ e[2] \in Node /\ t \in Target /\ t[1] = s
      BY EdgeShape, TargetsOfNode
    <2>3. Busy(Exec(e[2])) /\ phase[Exec(e[2])] # "idle"
      BY DEF Exec, Busy
    <2>4. \A u \in Alias(s) : Settled(u)
      BY <2>2, <2>3, BusyExecHasRule, SourcesFirst
    <2>5. CASE s \in prebuilt
      <3>1. PICK m \in wanted : t \in IF m \in prebuilt THEN Alias(m) ELSE TargetsOf(m)
        BY DEF NeededFor
      <3>2. m \in Node
        BY DEF TypeOK
      <3>3. m = s
        BY <2>2, <3>1, <3>2, AliasShape, TargetsOfNode
      <3>4. QED
        BY <2>4, <2>5, <3>1, <3>3
    <2>6. CASE s \notin prebuilt
      <3>1. Settled(Exec(s)) /\ Exec(s) \in TargetsOf(s) /\ Exec(s) # <<s, "dir">>
        BY <2>2, <2>4, AliasShape, TargetsOfNode DEF Exec
      <3>2. Settled(<<s, "dir">>)
        BY <2>2, <2>6, <3>1, DirFirst DEF Settled
      <3>3. CASE t[2] \in Sources(s)
        <4>1. t \in Deps(Exec(s))
          <5>1. t = <<s, t[2]>>
            BY <2>2, TargetShape
          <5>2. Deps(Exec(s)) = {<<s, "dir">>} \cup {<<s, r>> : r \in Sources(s)}
            BY <2>2, DepsOf
          <5>3. QED
            BY <3>3, <5>1, <5>2
        <4>2. Exec(s) \in Target /\ Prereqs(Exec(s)) = Deps(Exec(s))
          BY <2>2, <2>6, ExecIsTarget DEF Prereqs, HasRule
        <4>3. QED
          BY <3>1, <4>1, <4>2 DEF Ordered, Settled
      <3>4. CASE t[2] \in Stage \ {"dir"}
        <4>1. t \in Alias(s)
          BY <2>2, <3>4 DEF Alias, TargetsOf, Stage
        <4>2. QED
          BY <2>4, <4>1
      <3>5. CASE t[2] = "dir"
        BY <2>2, <3>2, <3>5, TargetShape
      <3>6. QED
        BY <2>2, <3>3, <3>4, <3>5, TargetShape
    <2>7. QED
      BY <2>5, <2>6
  <1>2. QED
    BY <1>1, AlwaysIInv, PTL

\* The commands of a node read complete outputs that were accepted.
THEOREM ReadsCheckedOutputsHolds == Spec => []ReadsCheckedOutputs
  <1>1. IInv => ReadsCheckedOutputs
    <2> SUFFICES ASSUME IInv, NEW e \in Edge, phase[<<e[2], "exec">>] = "commands"
                   PROVE  /\ made[e[1]] # 0 /\ whole[e[1]]
                          /\ checked[e[1]] = made[e[1]] /\ from[e] = made[e[1]]
      BY DEF ReadsCheckedOutputs
    <2> DEFINE s == e[1]
    <2> USE DEF IInv, MInv, CInv
    <2>2. s \in Node /\ e[2] \in Node /\ s \notin Silent
      BY EdgeShape
    <2>3. phase[Exec(e[2])] = "commands" /\ Busy(Exec(e[2]))
      BY DEF Exec, Busy
    <2>4. Settled(Exec(s)) /\ Settled(Post(s))
      BY <2>2, <2>3, BusyExecHasRule, SourcesFirst, AliasShape DEF Busy
    <2>5. ~OutOfDate(Exec(s)) /\ ~OutOfDate(Post(s))
      BY <2>2, <2>4, ExecIsTarget, PostIsTarget DEF SettledIsUpToDate
    <2>6. mtime[Exec(s)] # 0
      BY <2>5 DEF OutOfDate
    <2>7. QED
      BY <2>2, <2>3, <2>5, <2>6 DEF ExecMeansWhole, PostMeansChecked, RunningFrom
  <1>2. QED
    BY <1>1, AlwaysIInv, PTL

\* "Nothing to be done" is only ever said of nodes whose outputs are complete,
\* accepted, and made from what their sources have now.
THEOREM DoneMeansFreshHolds == Spec => []DoneMeansFresh
  <1>1. IInv => DoneMeansFresh
    <2> SUFFICES ASSUME IInv, NEW G \in SUBSET Node, NothingToDo(G), NEW n \in G
                   PROVE  /\ made[n] # 0 /\ whole[n] /\ checked[n] = made[n]
                          /\ n \notin prebuilt =>
                               \A s \in Sources(n) : from[<<s, n>>] = made[s]
      BY DEF DoneMeansFresh
    <2> USE DEF IInv, MInv, CInv
    <2>2. ASSUME NEW m \in G
          PROVE  /\ ~OutOfDate(Exec(m)) /\ ~OutOfDate(Post(m))
                 /\ m \notin prebuilt => ~OutOfDate(<<m, "dir">>)
      <3>1. Exec(m) \in Alias(m) /\ Post(m) \in Alias(m) /\ Alias(m) \subseteq TargetsOf(m)
            /\ <<m, "dir">> \in TargetsOf(m)
        BY AliasShape, TargetsOfNode
      <3>2. (IF m \in prebuilt THEN Alias(m) ELSE TargetsOf(m)) \subseteq NeededFor(G)
        BY DEF NeededFor
      <3>3. QED
        BY <3>1, <3>2 DEF NothingToDo
    <2>3. made[n] # 0 /\ whole[n] /\ checked[n] = made[n]
      BY <2>2 DEF ExecMeansWhole, PostMeansChecked, OutOfDate
    <2>4. ASSUME n \notin prebuilt, NEW s \in Sources(n)
          PROVE  from[<<s, n>>] = made[s]
      <3> DEFINE D == <<n, "dir">>
      <3>1. s \in G /\ s \in Node /\ <<s, n>> \in Edge
        BY <2>4 DEF NothingToDo, Closed, Sources
      <3>2. made[s] = mtime[Exec(s)] /\ made[s] # 0
        BY <2>2, <3>1 DEF ExecMeansWhole, OutOfDate
      <3>3. HasRule(D) /\ HasRule(Exec(n)) /\ D \in Target /\ Exec(n) \in Target
            /\ Exec(s) \in Target
        BY <2>4, <3>1, ExecIsTarget, TargetsOfNode DEF HasRule
      <3>4. Exec(s) \in Deps(D) /\ D \in Deps(Exec(n))
        <4>1. Deps(D) = UNION {Alias(r) : r \in Sources(n)}
          BY DepsOf
        <4>2. Exec(s) \in Alias(s)
          BY <3>1, AliasShape
        <4>3. QED
          BY <4>1, <4>2, DepsOf
      <3>5. ~(mtime[Exec(s)] > mtime[D]) /\ ~(mtime[D] > mtime[Exec(n)])
        BY <2>2, <2>4, <3>3, <3>4 DEF OutOfDate, Prereqs
      <3>6. made[s] <= mtime[Exec(n)]
        BY <3>2, <3>3, <3>5 DEF TypeOK
      <3>7. QED
        BY <2>2, <2>4, <3>1, <3>2, <3>6 DEF ExecMeansFrom
    <2>5. QED
      BY <2>3, <2>4
  <1>2. QED
    BY <1>1, AlwaysIInv, PTL

\* A make that succeeded leaves nothing to do.
THEOREM SuccessIsStableHolds == Spec => []SuccessIsStable
  <1>1. IInv => SuccessIsStable
    BY DEF IInv, MInv, Stable, SuccessIsStable
  <1>2. QED
    BY <1>1, AlwaysIInv, PTL

=============================================================================
