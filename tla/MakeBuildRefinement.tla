------------------------ MODULE MakeBuildRefinement -------------------------
(***************************************************************************)
(* MakeBuild implements NodeBuild, and removes no outputs needlessly, for  *)
(* every graph and any number of make invocations.                         *)
(*                                                                         *)
(* The argument.  The commands of a node start under the stamps of all its *)
(* sources, so what they read is accepted, and none of its sources and     *)
(* consumers is being made, removed or about to be (SourcesFirst,          *)
(* DirFirst).  When the post-conditions accept a node, the stamp of its    *)
(* commands is not out of date and tells what it was made from; the rule   *)
(* of a Silent node leaves no such stamp, but then it ran in this very     *)
(* make (Phonies, Remade).  That outputs are always new ones, and that     *)
(* commands which end do not make a node good, rests on the clock: nothing *)
(* was made or accepted in this run before its commands started (Past).    *)
(***************************************************************************)
EXTENDS MakeBuildProofs

Past ==
  /\ \A n \in Node : made[n] <= run /\ checked[n] <= run
  /\ active => \A n \in Node :
       /\ phase[Exec(n)] \in {"idle", "current", "started"} => made[n] < run
       /\ phase[Exec(n)] # "remade" => checked[n] < run

\* The phony commands of a Silent node are never skipped.
Phonies == \A t \in Target : Phony(t) => phase[t] # "current"

\* What was made in this run is still there, and so is what it was made from.
Remade ==
  \A n \in Node : phase[Exec(n)] = "remade" =>
    /\ n \notin prebuilt
    /\ whole[n] /\ made[n] = run
    /\ \A s \in Sources(n) : from[<<s, n>>] = made[s]

RInv == IInv /\ Past /\ Phonies /\ Remade
-----------------------------------------------------------------------------
(* Facts about one state.                                                  *)

LEMMA EdgeOf ==
  ASSUME NEW n \in Node, NEW s \in Sources(n)
  PROVE  /\ s \in Node /\ s \notin Silent /\ <<s, n>> \in Edge
         /\ <<s, n>>[1] = s /\ <<s, n>>[2] = n
  BY GraphAssumption DEF Sources

\* Once a node is looked at, all that its sources' outputs need is settled.
LEMMA SourcesSettled ==
  ASSUME IInv, NEW n \in Node, n \notin prebuilt, phase[Exec(n)] # "idle",
         NEW s \in Sources(n)
  PROVE  /\ Settled(Exec(s)) /\ Settled(Post(s))
         /\ s \notin prebuilt => Settled(<<s, "dir">>)
         /\ s \in Good /\ made[s] = mtime[Exec(s)]
  <1> USE DEF IInv, MInv, CInv
  <1>1. s \in Node /\ s \notin Silent /\ <<s, n>> \in Edge
        /\ <<s, n>>[1] = s /\ <<s, n>>[2] = n
    BY EdgeOf
  <1>2. \A t \in Alias(s) : Settled(t)
    BY <1>1, SourcesFirst
  <1>3. Settled(Exec(s)) /\ Settled(Post(s))
    BY <1>1, <1>2, AliasShape
  <1>4. s \notin prebuilt => Settled(<<s, "dir">>)
    <2>1. Exec(s) \in TargetsOf(s) /\ Exec(s) # <<s, "dir">>
      BY <1>1, TargetsOfNode DEF Exec
    <2>2. QED
      BY <1>1, <1>3, <2>1, DirFirst DEF Settled
  <1>5. ~OutOfDate(Exec(s)) /\ ~OutOfDate(Post(s))
    BY <1>1, <1>3, ExecIsTarget, PostIsTarget DEF SettledIsUpToDate
  <1>6. whole[s] /\ made[s] = mtime[Exec(s)] /\ checked[s] = made[s]
    BY <1>1, <1>5 DEF ExecMeansWhole, PostMeansChecked
  <1>7. mtime[Exec(s)] # 0
    BY <1>5 DEF OutOfDate
  <1>8. QED
    BY <1>1, <1>3, <1>4, <1>6, <1>7 DEF Good

\* The commands of a node neither start nor is its directory removed while it
\* or a consumer of it reads.
LEMMA QuietWhenDirIdle ==
  ASSUME IInv, NEW n \in Node, n \notin prebuilt, ~Settled(<<n, "dir">>)
  PROVE  \A m \in Reading : m # n /\ n \notin Sources(m)
  <1> USE DEF IInv, MInv, CInv
  <1> SUFFICES ASSUME NEW m \in Reading PROVE m # n /\ n \notin Sources(m)
    OBVIOUS
  <1>1. m \in Node /\ phase[Exec(m)] # "idle" /\ Busy(Exec(m))
    BY DEF Reading, Exec, Busy
  <1>2. m \notin prebuilt
    BY <1>1, BusyExecHasRule
  <1>3. m # n
    <2>1. Exec(m) \in TargetsOf(m) /\ Exec(m) # <<m, "dir">>
      BY <1>1, TargetsOfNode DEF Exec
    <2>2. Settled(<<m, "dir">>)
      BY <1>1, <1>2, <2>1, DirFirst
    <2>3. QED
      BY <2>2
  <1>4. n \notin Sources(m)
    BY <1>1, <1>2, SourcesSettled
  <1>5. QED
    BY <1>3, <1>4

LEMMA QuietWhenExecBusy ==
  ASSUME IInv, NEW n \in Node, phase[Exec(n)] = "started"
  PROVE  \A m \in Reading : m # n /\ n \notin Sources(m)
  <1> USE DEF IInv, MInv, CInv
  <1> SUFFICES ASSUME NEW m \in Reading PROVE m # n /\ n \notin Sources(m)
    OBVIOUS
  <1>1. m \in Node /\ phase[Exec(m)] = "commands" /\ Busy(Exec(m))
    BY DEF Reading, Exec, Busy
  <1>2. m \notin prebuilt
    BY <1>1, BusyExecHasRule
  <1>3. n \in Sources(m) => Settled(Exec(n))
    BY <1>1, <1>2, SourcesSettled
  <1>4. QED
    BY <1>1, <1>3 DEF Settled
-----------------------------------------------------------------------------
(* The inductive invariant.                                                *)

\* Skip, NoRule, Fail, Launch of a recipe that removes nothing, and Finish of a
\* link, a directory or a collected output.
LEMMA MoveKeeps ==
  ASSUME RInv, NEW x, NEW q, Move(x, q), UNCHANGED contents,
         q \in {"current", "failed", "started", "remade"},
         q \in {"current", "started"} => phase[x] = "idle",
         q = "current" => ~Phony(x), q = "remade" => x[2] # "exec"
  PROVE  Past' /\ Phonies' /\ Remade'
  <1> USE DEF RInv
  <1>1. /\ phase'[x] = q /\ x \in Target
        /\ \A t \in Target : t # x => phase'[t] = phase[t]
        /\ UNCHANGED <<made, whole, from, checked, prebuilt, run, active>>
    BY MovePhase DEF IInv, MInv, Move, contents
  <1>2. \A n \in Node : Exec(n) \in Target /\ Exec(n)[2] = "exec"
    BY ExecIsTarget
  <1>3. phase[x] # "remade"
    BY DEF Move, Ready, Busy
  <1>4. Past'
    <2>1. \A n \in Node : made'[n] <= run' /\ checked'[n] <= run'
      BY <1>1 DEF Past
    <2>2. ASSUME active', NEW n \in Node
          PROVE  /\ phase'[Exec(n)] \in {"idle", "current", "started"} => made'[n] < run'
                 /\ phase'[Exec(n)] # "remade" => checked'[n] < run'
      <3>1. CASE Exec(n) = x
        BY <1>1, <1>3, <2>2, <3>1 DEF Past
      <3>2. CASE Exec(n) # x
        BY <1>1, <1>2, <2>2, <3>2 DEF Past
      <3>3. QED
        BY <3>1, <3>2
    <2>3. QED
      BY <2>1, <2>2 DEF Past
  <1>5. Phonies'
    BY <1>1 DEF Phonies, Phony
  <1>6. Remade'
    <2>1. ASSUME NEW n \in Node, phase'[Exec(n)] = "remade"
          PROVE  phase[Exec(n)] = "remade"
      BY <1>1, <1>2, <2>1
    <2>2. QED
      BY <1>1, <2>1 DEF Remade
  <1>7. QED
    BY <1>4, <1>5, <1>6

LEMMA RunCommandsKeeps ==
  ASSUME RInv, NEW n \in Node, RunCommands(n)
  PROVE  Past' /\ Phonies' /\ Remade'
  <1> DEFINE x == Exec(n)
  <1> USE DEF RInv, IInv, MInv, CInv
  <1>1. x \in Target /\ phase[x] = "started" /\ Busy(x)
    BY ExecIsTarget DEF RunCommands, Exec, Busy
  <1>2. active /\ n \notin prebuilt
    BY <1>1, BusyExecHasRule
  <1>3. phase \in [Target -> Phase] /\ made \in [Node -> Nat] /\ run \in Nat
        /\ whole \in [Node -> BOOLEAN] /\ checked \in [Node -> Nat]
    BY DEF TypeOK
  <1>4. /\ phase'[x] = "commands" /\ \A t \in Target : t # x => phase'[t] = phase[t]
        /\ made'[n] = run /\ \A m \in Node : m # n => made'[m] = made[m]
        /\ \A m \in Node : m # n => whole'[m] = whole[m]
        /\ from' = [e \in Edge |-> IF e[2] = n THEN made[e[1]] ELSE from[e]]
        /\ UNCHANGED <<prebuilt, run, active, checked>>
    BY <1>1, <1>3 DEF RunCommands, Exec, files
  <1>5. \A m \in Node : Exec(m) \in Target /\ (m # n => Exec(m) # x)
    BY ExecIsTarget DEF Exec
  <1>6. Past'
    <2>1. ASSUME NEW m \in Node PROVE made'[m] <= run' /\ checked'[m] <= run'
      BY <1>3, <1>4 DEF Past
    <2>2. ASSUME NEW m \in Node
          PROVE  /\ phase'[Exec(m)] \in {"idle", "current", "started"} => made'[m] < run'
                 /\ phase'[Exec(m)] # "remade" => checked'[m] < run'
      <3>1. CASE m = n
        BY <1>1, <1>2, <1>4, <3>1 DEF Past
      <3>2. CASE m # n
        BY <1>2, <1>4, <1>5, <3>2 DEF Past
      <3>3. QED
        BY <3>1, <3>2
    <2>3. QED
      BY <2>1, <2>2 DEF Past
  <1>7. Phonies'
    BY <1>4 DEF Phonies, Phony
  <1>8. ASSUME NEW m \in Node, phase'[Exec(m)] = "remade"
        PROVE  /\ m \notin prebuilt' /\ whole'[m] /\ made'[m] = run'
               /\ \A s \in Sources(m) : from'[<<s, m>>] = made'[s]
    <2>1. m # n /\ phase[Exec(m)] = "remade"
      BY <1>4, <1>5, <1>8
    <2>2. /\ m \notin prebuilt /\ whole[m] /\ made[m] = run
          /\ \A s \in Sources(m) : from[<<s, m>>] = made[s]
      BY <2>1 DEF Remade
    <2>3. ASSUME NEW s \in Sources(m) PROVE from'[<<s, m>>] = made'[s]
      <3>1. s \in Node /\ <<s, m>> \in Edge /\ <<s, m>>[2] = m
        BY EdgeOf
      <3>2. Settled(Exec(s))
        BY <2>1, <2>2, SourcesSettled
      <3>3. s # n
        BY <1>1, <3>2 DEF Settled
      <3>4. QED
        BY <1>4, <2>1, <2>2, <3>1, <3>3
    <2>4. QED
      BY <1>4, <2>1, <2>2, <2>3
  <1>9. QED
    BY <1>6, <1>7, <1>8 DEF Remade

LEMMA CommandsDoneKeeps ==
  ASSUME RInv, NEW n \in Node, CommandsDone(n)
  PROVE  Past' /\ Phonies' /\ Remade'
  <1> DEFINE x == Exec(n)
  <1> USE DEF RInv, IInv, MInv, CInv
  <1>1. x \in Target /\ phase[x] = "commands"
    BY ExecIsTarget DEF CommandsDone, Exec
  <1>2. phase \in [Target -> Phase] /\ whole \in [Node -> BOOLEAN]
    BY DEF TypeOK
  <1>3. /\ phase'[x] = "ran" /\ \A t \in Target : t # x => phase'[t] = phase[t]
        /\ \A m \in Node : m # n => whole'[m] = whole[m]
        /\ UNCHANGED <<prebuilt, run, active, made, from, checked>>
    BY <1>1, <1>2 DEF CommandsDone, Exec, files
  <1>4. \A m \in Node : Exec(m) \in Target /\ (m # n => Exec(m) # x)
    BY ExecIsTarget DEF Exec
  <1>5. Past'
    <2>1. ASSUME active', NEW m \in Node
          PROVE  /\ phase'[Exec(m)] \in {"idle", "current", "started"} => made'[m] < run'
                 /\ phase'[Exec(m)] # "remade" => checked'[m] < run'
      <3>1. CASE m = n
        BY <1>1, <1>3, <2>1, <3>1 DEF Past
      <3>2. CASE m # n
        BY <1>3, <1>4, <2>1, <3>2 DEF Past
      <3>3. QED
        BY <3>1, <3>2
    <2>2. QED
      BY <1>3, <2>1 DEF Past
  <1>6. Phonies'
    BY <1>3 DEF Phonies, Phony
  <1>7. ASSUME NEW m \in Node, phase'[Exec(m)] = "remade"
        PROVE  m # n /\ phase[Exec(m)] = "remade"
    BY <1>3, <1>4, <1>7
  <1>8. Remade'
    BY <1>3, <1>7 DEF Remade
  <1>9. QED
    BY <1>5, <1>6, <1>8

\* The last line of the commands, and of the post-conditions.
LEMMA FinishKeeps ==
  ASSUME RInv, NEW x \in Target, Finish(x)
  PROVE  Past' /\ Phonies' /\ Remade'
  <1> USE DEF RInv
  <1>1. Busy(x) /\ active /\ phase[x] # "remade"
    BY DEF Finish, Busy, IInv, MInv, Ordered
  <1>2. /\ phase'[x] = "remade" /\ \A t \in Target : t # x => phase'[t] = phase[t]
        /\ UNCHANGED <<prebuilt, run, active, made, whole, from>>
    BY DEF Finish, IInv, MInv, TypeOK
  <1>3. \A n \in Node : Exec(n) \in Target /\ Exec(n)[1] = n /\ Exec(n)[2] = "exec"
    BY ExecIsTarget
  <1>4. ASSUME x[2] = "post"
        PROVE  /\ x[1] \in Node /\ x # Exec(x[1])
               /\ checked' = [checked EXCEPT ![x[1]] = made[x[1]]]
               /\ Settled(Exec(x[1]))
    <2>1. x[1] \in Node /\ x = Post(x[1])
      BY <1>4, TargetShape DEF Post
    <2>2. Exec(x[1]) \in Prereqs(x)
      BY <1>4, <2>1, DepsOf DEF Prereqs, HasRule
    <2>3. QED
      BY <1>1, <1>3, <1>4, <2>1, <2>2 DEF Finish, Busy, IInv, MInv, Ordered
  <1>5. Past'
    <2>1. \A n \in Node : made'[n] <= run' /\ checked'[n] <= run'
      BY <1>2, <1>4 DEF Past, Finish, IInv, MInv, TypeOK
    <2>2. ASSUME NEW n \in Node, phase'[Exec(n)] \in {"idle", "current", "started"}
          PROVE  made'[n] < run'
      BY <1>1, <1>2, <1>3, <2>2 DEF Past
    <2>3. ASSUME NEW n \in Node, phase'[Exec(n)] # "remade"
          PROVE  checked'[n] < run'
      <3>1. phase[Exec(n)] # "remade" /\ checked[n] < run
        BY <1>1, <1>2, <1>3, <2>3 DEF Past
      <3>2. CASE x[2] = "post" /\ x[1] = n
        <4>1. phase[Exec(n)] = "current"
          BY <1>4, <3>1, <3>2 DEF Settled
        <4>2. checked'[n] = made[n]
          BY <1>4, <3>2 DEF IInv, MInv, TypeOK
        <4>3. QED
          BY <1>1, <1>2, <4>1, <4>2 DEF Past
      <3>3. CASE ~(x[2] = "post" /\ x[1] = n)
        <4>1. checked'[n] = checked[n]
          BY <1>4, <3>3 DEF Finish, IInv, MInv, TypeOK
        <4>2. QED
          BY <1>2, <3>1, <4>1
      <3>4. QED
        BY <3>2, <3>3
    <2>4. QED
      BY <2>1, <2>2, <2>3 DEF Past
  <1>6. Phonies'
    BY <1>2 DEF Phonies, Phony
  <1>7. ASSUME NEW n \in Node, phase'[Exec(n)] = "remade"
        PROVE  /\ n \notin prebuilt /\ whole[n] /\ made[n] = run
               /\ \A s \in Sources(n) : from[<<s, n>>] = made[s]
    <2>1. CASE Exec(n) = x
      <3>1. phase[Exec(n)] = "ran" /\ Busy(Exec(n))
        BY <1>1, <1>3, <2>1 DEF Finish
      <3>2. n \notin prebuilt
        BY <3>1, BusyExecHasRule DEF IInv, MInv
      <3>3. \A s \in Sources(n) : <<s, n>> \in Edge /\ <<s, n>>[1] = s /\ <<s, n>>[2] = n
        BY EdgeOf
      <3>4. \A s \in Sources(n) : from[<<s, n>>] = made[s]
        BY <3>1, <3>3 DEF IInv, MInv, RunningFrom
      <3>5. QED
        BY <3>1, <3>2, <3>4 DEF IInv, MInv, RunningFrom
    <2>2. CASE Exec(n) # x
      BY <1>2, <1>3, <1>7, <2>2 DEF Remade
    <2>3. QED
      BY <2>1, <2>2
  <1>8. Remade'
    BY <1>2, <1>7 DEF Remade
  <1>9. QED
    BY <1>5, <1>6, <1>8

\* The recipe of a directory starts and removes what was in it.
LEMMA LaunchWipeKeeps ==
  ASSUME RInv, NEW n \in Node, Launch(<<n, "dir">>), n \notin Subgraph
  PROVE  /\ Past' /\ Phonies' /\ Remade'
         /\ n \notin prebuilt /\ ~Settled(<<n, "dir">>)
  <1> DEFINE x == <<n, "dir">>
  <1> USE DEF RInv, IInv, MInv, CInv
  <1>1. x \in Target /\ x[1] = n /\ x[2] = "dir" /\ x \in TargetsOf(n)
    BY TargetsOfNode
  <1>2. Wiped({n}) /\ Ready(x) /\ HasRule(x) /\ phase' = [phase EXCEPT ![x] = "started"]
        /\ UNCHANGED <<run, active, wanted, result>>
    BY <1>1 DEF Launch
  <1>3. active /\ phase[x] = "idle" /\ n \notin prebuilt
    BY <1>1, <1>2 DEF Ready, HasRule
  <1>4. /\ prebuilt' = prebuilt
        /\ made' = [m \in Node |-> IF m = n THEN 0 ELSE made[m]]
        /\ whole' = [m \in Node |-> m # n /\ whole[m]]
        /\ from' = [e \in Edge |-> IF e[2] = n THEN 0 ELSE from[e]]
        /\ checked' = [m \in Node |-> IF m = n THEN 0 ELSE checked[m]]
    BY <1>2, <1>3 DEF Wiped
  <1>5. phase \in [Target -> Phase] /\ run \in Nat /\ run # 0
    BY DEF TypeOK, Clock
  <1>6. phase'[x] = "started" /\ \A t \in Target : t # x => phase'[t] = phase[t]
    BY <1>1, <1>2, <1>5
  <1>7. \A m \in Node : Exec(m) \in Target /\ Exec(m) # x
    BY ExecIsTarget DEF Exec
  <1>8. phase[Exec(n)] = "idle"
    <2>1. SUFFICES ASSUME phase[Exec(n)] # "idle" PROVE FALSE
      OBVIOUS
    <2>2. Exec(n) \in TargetsOf(n) /\ Exec(n) # x
      BY <1>7, TargetsOfNode
    <2>3. QED
      BY <1>3, <2>1, <2>2, DirFirst DEF Settled
  <1>9. Past'
    <2>1. ASSUME NEW m \in Node
          PROVE  /\ made'[m] <= run' /\ checked'[m] <= run'
                 /\ phase'[Exec(m)] \in {"idle", "current", "started"} => made'[m] < run'
                 /\ phase'[Exec(m)] # "remade" => checked'[m] < run'
      <3>1. CASE m = n
        BY <1>2, <1>4, <1>5, <3>1
      <3>2. CASE m # n
        BY <1>2, <1>3, <1>4, <1>6, <1>7, <3>2 DEF Past
      <3>3. QED
        BY <3>1, <3>2
    <2>2. QED
      BY <2>1 DEF Past
  <1>10. Phonies'
    BY <1>6 DEF Phonies, Phony
  <1>11. ASSUME NEW m \in Node, phase'[Exec(m)] = "remade"
         PROVE  /\ m \notin prebuilt' /\ whole'[m] /\ made'[m] = run'
                /\ \A s \in Sources(m) : from'[<<s, m>>] = made'[s]
    <2>1. m # n /\ phase[Exec(m)] = "remade"
      BY <1>6, <1>7, <1>8, <1>11
    <2>2. /\ m \notin prebuilt /\ whole[m] /\ made[m] = run
          /\ \A s \in Sources(m) : from[<<s, m>>] = made[s]
      BY <2>1 DEF Remade
    <2>3. ASSUME NEW s \in Sources(m) PROVE from'[<<s, m>>] = made'[s]
      <3>1. s \in Node /\ <<s, m>> \in Edge /\ <<s, m>>[2] = m
        BY EdgeOf
      <3>2. Settled(Exec(s))
        BY <2>1, <2>2, SourcesSettled
      <3>3. s # n
        BY <1>8, <3>2 DEF Settled
      <3>4. QED
        BY <1>4, <2>1, <2>2, <3>1, <3>3
    <2>4. QED
      BY <1>2, <1>4, <2>1, <2>2, <2>3
  <1>12. QED
    BY <1>3, <1>9, <1>10, <1>11 DEF Remade, Settled

\* Between two makes every target is idle.
LEMMA RestKeeps ==
  ASSUME RInv, ~active', \A t \in Target : phase'[t] = "idle",
         \A n \in Node : made'[n] <= run' /\ checked'[n] <= run'
  PROVE  Past' /\ Phonies' /\ Remade'
  BY ExecIsTarget DEF Past, Phonies, Remade

LEMMA LaunchKeeps ==
  ASSUME RInv, NEW x \in Target, Launch(x)
  PROVE  Past' /\ Phonies' /\ Remade'
  <1>1. CASE x[2] = "dir" /\ x[1] \notin Subgraph
    <2>1. x = <<x[1], "dir">> /\ x[1] \in Node
      BY <1>1, TargetShape
    <2>2. QED
      BY <1>1, <2>1, LaunchWipeKeeps
  <1>2. CASE ~(x[2] = "dir" /\ x[1] \notin Subgraph)
    <2>1. Move(x, "started") /\ UNCHANGED contents /\ phase[x] = "idle"
      BY <1>2 DEF Launch, Move, Ready, Phase, files
    <2>2. QED
      BY <2>1, MoveKeeps
  <1>3. QED
    BY <1>1, <1>2

LEMMA SkipKeeps ==
  ASSUME RInv, NEW x \in Target, Skip(x)
  PROVE  Past' /\ Phonies' /\ Remade'
  <1>1. Move(x, "current") /\ UNCHANGED contents /\ phase[x] = "idle"
    BY DEF Skip, Move, Ready, Phase, files
  <1>2. ~Phony(x)
    BY DEF RInv, IInv, MInv, Clock, Skip, MustRemake, OutOfDate
  <1>3. QED
    BY <1>1, <1>2, MoveKeeps

LEMMA NoRuleOrFailKeeps ==
  ASSUME RInv, NEW x \in Target, NoRule(x) \/ Fail(x)
  PROVE  Past' /\ Phonies' /\ Remade'
  <1>1. active
    BY DEF RInv, IInv, MInv, Ordered, NoRule, Ready, Fail, Busy
  <1>2. Move(x, "failed") /\ UNCHANGED contents
    BY <1>1 DEF NoRule, Fail, Move, Ready, Phase, files
  <1>3. QED
    BY <1>2, MoveKeeps

LEMMA UserKeeps ==
  ASSUME RInv
  PROVE  /\ MakeExit \/ Kill => Past' /\ Phonies' /\ Remade'
         /\ \A G \in SUBSET Node : StartMake(G) => Past' /\ Phonies' /\ Remade'
         /\ \A S \in SUBSET Node : Clean(S) => Past' /\ Phonies' /\ Remade'
         /\ \A n \in Node : Unpin(n) => Past' /\ Phonies' /\ Remade'
  <1> USE DEF RInv, IInv, MInv, CInv
  <1>1. \A n \in Node : made[n] \in Nat /\ checked[n] \in Nat /\ run \in Nat
    BY DEF TypeOK
  <1>2. \A n \in Node : made[n] <= run /\ checked[n] <= run
    BY DEF Past
  <1>3. ASSUME MakeExit \/ Kill PROVE Past' /\ Phonies' /\ Remade'
    <2>1. ~active' /\ phase' = Idle /\ UNCHANGED <<run, made, checked>>
      BY <1>3 DEF MakeExit, Kill, contents
    <2>2. \A t \in Target : phase'[t] = "idle"
      BY <2>1 DEF Idle
    <2>3. QED
      BY <1>2, <2>1, <2>2, RestKeeps
  <1>4. ASSUME NEW G \in SUBSET Node, StartMake(G) PROVE Past' /\ Phonies' /\ Remade'
    <2>1. ~active /\ run' = run + 1 /\ UNCHANGED <<phase, made, checked>>
      BY <1>4 DEF StartMake, contents
    <2>2. \A t \in Target : phase'[t] = "idle"
      BY <2>1 DEF Ordered
    <2>3. Past'
      BY <1>1, <1>2, <2>1 DEF Past
    <2>4. QED
      BY <2>2, <2>3, ExecIsTarget DEF Phonies, Remade
  <1>5. ASSUME NEW S \in SUBSET Node, Clean(S) PROVE Past' /\ Phonies' /\ Remade'
    <2>1. ~active' /\ UNCHANGED <<phase, run>> /\ ~active
          /\ made' = [n \in Node |-> IF n \in S THEN 0 ELSE made[n]]
          /\ checked' = [n \in Node |-> IF n \in S THEN 0 ELSE checked[n]]
      BY <1>5 DEF Clean, Wiped
    <2>2. \A t \in Target : phase'[t] = "idle"
      BY <2>1 DEF Ordered
    <2>3. \A n \in Node : made'[n] <= run' /\ checked'[n] <= run'
      BY <1>1, <1>2, <2>1
    <2>4. QED
      BY <2>1, <2>2, <2>3, RestKeeps
  <1>6. ASSUME NEW n \in Node, Unpin(n) PROVE Past' /\ Phonies' /\ Remade'
    <2>1. ~active' /\ ~active /\ UNCHANGED <<phase, run, made, checked>>
      BY <1>6 DEF Unpin, contents
    <2>2. \A t \in Target : phase'[t] = "idle"
      BY <2>1 DEF Ordered
    <2>3. QED
      BY <1>2, <2>1, <2>2, RestKeeps
  <1>7. QED
    BY <1>3, <1>4, <1>5, <1>6

\* Before the first make, nothing is newer than the nodes brought along.
LEMMA InitRInv ==
  ASSUME Init
  PROVE  RInv
  <1>1. IInv
    BY InitIInv
  <1>2. /\ run = 1 /\ ~active /\ checked = made
        /\ \A t \in Target : phase[t] = "idle"
    BY DEF Init, Idle
  <1>3. \A n \in Node : made[n] <= run
    BY <1>2 DEF Init
  <1>4. QED
    BY <1>1, <1>2, <1>3, ExecIsTarget DEF RInv, Past, Phonies, Remade

LEMMA NextRInv ==
  ASSUME RInv, [Next]_vars
  PROVE  RInv'
  <1>1. CASE UNCHANGED vars
    <2>1. UNCHANGED <<prebuilt, run, active, phase, made, whole, from, checked>>
      BY <1>1 DEF vars, files, invocation, contents
    <2>2. QED
      BY <1>1, <2>1, NextIInv DEF RInv, Past, Phonies, Phony, Remade
  <1>2. ASSUME NEW t \in Target, Skip(t) \/ NoRule(t) \/ Launch(t) \/ Finish(t) \/ Fail(t)
        PROVE  Past' /\ Phonies' /\ Remade'
    BY <1>2, SkipKeeps, NoRuleOrFailKeeps, LaunchKeeps, FinishKeeps
  <1>3. ASSUME NEW n \in Node, RunCommands(n) \/ CommandsDone(n)
        PROVE  Past' /\ Phonies' /\ Remade'
    BY <1>3, RunCommandsKeeps, CommandsDoneKeeps
  <1>4. CASE UserStep \/ MakeExit
    <2>1. \A S \in {{n} : n \in Node} \cup {Node} : S \in SUBSET Node
      OBVIOUS
    <2>2. QED
      BY <1>4, <2>1, UserKeeps, NextIInv DEF UserStep, RInv
  <1>5. QED
    BY <1>1, <1>2, <1>3, <1>4, NextIInv DEF Next, MakeStep, RInv

LEMMA AlwaysRInv == Spec => []RInv
  BY InitRInv, NextRInv, PTL DEF Spec
-----------------------------------------------------------------------------
(* Every step of MakeBuild is one of NodeBuild, or none.                   *)

LEMMA SameSources ==
  ASSUME NEW n
  PROVE  Ideal!Sources(n) = Sources(n)
  BY DEF Ideal!Sources, Sources

\* Steps that change no outputs, of which readers can only become fewer.
LEMMA KeepStep ==
  ASSUME UNCHANGED <<made, from, prebuilt, Good>>, Reading' \subseteq Reading
  PROVE  [Ideal!Next]_(Ideal!vars)
  <1>1. Reading \ Reading' \in SUBSET Node
    BY DEF Reading
  <1>2. Ideal!End(Reading \ Reading')
    BY DEF Ideal!End
  <1>3. QED
    BY <1>1, <1>2 DEF Ideal!Next

LEMMA InitMaps ==
  ASSUME Init
  PROVE  Ideal!Init
  <1>1. PICK D \in SUBSET prebuilt :
          /\ made = [n \in Node |-> IF n \in D THEN 1 ELSE 0]
          /\ whole = [n \in Node |-> n \in D]
    BY DEF Init
  <1>2. prebuilt \subseteq Node /\ checked = made /\ from = [e \in Edge |-> 0]
    BY GraphAssumption DEF Init
  <1>3. Good = D
    <2>1. D \subseteq Node
      BY <1>2
    <2>2. \A n \in Node : (made[n] # 0 <=> n \in D) /\ checked[n] = made[n]
      BY <1>1, <1>2
    <2>3. \A n \in Node : whole[n] <=> n \in D
      BY <1>1
    <2>4. \A n \in Node : n \in Good <=> n \in D
      BY <2>2, <2>3 DEF Good
    <2>5. QED
      BY <2>1, <2>4 DEF Good
  <1>4. Reading = {}
    BY ExecIsTarget DEF Init, Idle, Reading, Exec
  <1>5. QED
    BY <1>1, <1>2, <1>3, <1>4 DEF Ideal!Init

LEMMA RunCommandsMaps ==
  ASSUME RInv, NEW n \in Node, RunCommands(n)
  PROVE  Ideal!Begin(n)
  <1> DEFINE x == Exec(n)
  <1> USE DEF RInv
  <1>1. x \in Target /\ phase[x] = "started" /\ Busy(x)
    BY ExecIsTarget DEF RunCommands, Exec, Busy
  <1>2. active /\ n \notin prebuilt
    BY <1>1, BusyExecHasRule DEF IInv, MInv
  <1>3. phase \in [Target -> Phase] /\ made \in [Node -> Nat] /\ run \in Nat
        /\ whole \in [Node -> BOOLEAN]
    BY DEF IInv, MInv, TypeOK
  <1>4. /\ phase' = [phase EXCEPT ![x] = "commands"]
        /\ made' = [made EXCEPT ![n] = run] /\ whole' = [whole EXCEPT ![n] = FALSE]
        /\ from' = [e \in Edge |-> IF e[2] = n THEN made[e[1]] ELSE from[e]]
        /\ UNCHANGED <<prebuilt, checked>>
    BY DEF RunCommands, Exec, files
  <1>5. Ideal!Quiet({n})
    BY <1>1, QuietWhenExecBusy, SameSources DEF Ideal!Quiet
  <1>6. Ideal!Sources(n) \subseteq Good \ {n}
    <2>1. ASSUME NEW s \in Sources(n) PROVE s \in Good /\ s # n
      <3>1. s \in Good
        BY <1>1, <1>2, SourcesSettled
      <3>2. <<s, n>> \in Edge /\ <<s, n>>[1] = s /\ <<s, n>>[2] = n
        BY EdgeOf
      <3>3. QED
        BY <1>1, <3>1, <3>2, NoSelfEdge DEF IInv, MInv
    <2>2. QED
      BY <2>1, SameSources
  <1>7. made'[n] > made[n] /\ made' = [made EXCEPT ![n] = made'[n]]
    BY <1>1, <1>2, <1>3, <1>4 DEF Past
  <1>8. Good' = Good \ {n}
    BY <1>3, <1>4 DEF Good
  <1>9. Reading' = Reading \cup {n}
    <2>1. \A m \in Node : Exec(m) \in Target /\ (Exec(m) = x <=> m = n)
      BY ExecIsTarget
    <2>2. QED
      BY <1>3, <1>4, <2>1 DEF Reading, Exec
  <1>10. QED
    BY <1>4, <1>5, <1>6, <1>7, <1>8, <1>9 DEF Ideal!Begin

\* Commands that ended make a node good only once its post-conditions accept.
LEMMA CommandsDoneMaps ==
  ASSUME RInv, NEW n \in Node, CommandsDone(n)
  PROVE  [Ideal!Next]_(Ideal!vars)
  <1> DEFINE x == Exec(n)
  <1> USE DEF RInv
  <1>1. x \in Target /\ phase[x] = "commands" /\ Busy(x)
    BY ExecIsTarget DEF CommandsDone, Exec, Busy
  <1>2. active /\ made[n] = run
    BY <1>1, BusyExecHasRule DEF IInv, MInv, RunningFrom
  <1>3. /\ phase \in [Target -> Phase] /\ whole \in [Node -> BOOLEAN]
        /\ checked \in [Node -> Nat] /\ run \in Nat
    BY DEF IInv, MInv, TypeOK
  <1>4. /\ phase' = [phase EXCEPT ![x] = "ran"] /\ whole' = [whole EXCEPT ![n] = TRUE]
        /\ UNCHANGED <<prebuilt, made, from, checked>>
    BY DEF CommandsDone, Exec, files
  <1>5. checked[n] # made[n]
    BY <1>1, <1>2, <1>3 DEF Past
  <1>6. Good' = Good
    BY <1>3, <1>4, <1>5 DEF Good
  <1>7. Reading' \subseteq Reading
    BY <1>3, <1>4, ExecIsTarget DEF Reading, Exec
  <1>8. QED
    BY <1>4, <1>6, <1>7, KeepStep

\* What the post-conditions of a node accept: complete outputs, made from what
\* its sources have.  The stamps tell it, or for a Silent node this very make.
LEMMA SettledMeansMade ==
  ASSUME RInv, NEW n \in Node, Settled(Exec(n))
  PROVE  /\ made[n] # 0 /\ whole[n]
         /\ n \in prebuilt \/ \A s \in Sources(n) : from[<<s, n>>] = made[s]
  <1> USE DEF RInv
  <1>1. Exec(n) \in Target /\ Exec(n)[1] = n /\ Exec(n)[2] = "exec"
    BY ExecIsTarget
  <1>2. CASE n \in Silent
    <2>1. phase[Exec(n)] = "remade"
      BY <1>1, <1>2 DEF Phonies, Phony, Settled
    <2>2. QED
      BY <2>1 DEF Remade, IInv, MInv, Clock
  <1>3. CASE n \notin Silent
    <2>1. ~OutOfDate(Exec(n))
      BY <1>1, <1>3 DEF IInv, MInv, SettledIsUpToDate
    <2>2. whole[n] /\ made[n] = mtime[Exec(n)] /\ made[n] # 0
      BY <2>1 DEF IInv, CInv, ExecMeansWhole, OutOfDate
    <2>3. ASSUME n \notin prebuilt, NEW s \in Sources(n)
          PROVE  from[<<s, n>>] = made[s]
      <3> DEFINE D == <<n, "dir">>
      <3>1. s \in Node /\ <<s, n>> \in Edge /\ <<s, n>>[1] = s /\ <<s, n>>[2] = n
        BY EdgeOf
      <3>2. made[s] = mtime[Exec(s)] /\ made[s] # 0
        BY <2>3, SourcesSettled DEF Settled, Good
      <3>3. D \in Target /\ D[1] = n /\ D # Exec(n) /\ Exec(n) \in TargetsOf(n)
            /\ Exec(s) \in Target
        BY <3>1, TargetsOfNode, ExecIsTarget DEF Exec
      <3>4. ~OutOfDate(D)
        <4>1. Settled(D)
          BY <2>3, <3>3, DirFirst DEF IInv, MInv, Settled
        <4>2. QED
          BY <1>3, <3>3, <4>1 DEF IInv, MInv, SettledIsUpToDate
      <3>5. Exec(s) \in Deps(D) /\ D \in Deps(Exec(n))
        <4>1. Deps(D) = UNION {Alias(r) : r \in Sources(n)}
          BY DepsOf
        <4>2. Exec(s) \in Alias(s)
          BY <3>1, AliasShape
        <4>3. Deps(Exec(n)) = {D} \cup {<<n, r>> : r \in Sources(n)}
          BY DepsOf
        <4>4. QED
          BY <4>1, <4>2, <4>3
      <3>6. ~(mtime[Exec(s)] > mtime[D]) /\ ~(mtime[D] > mtime[Exec(n)])
        BY <1>1, <2>1, <2>3, <3>3, <3>4, <3>5 DEF OutOfDate, Prereqs, HasRule
      <3>7. made[s] <= mtime[Exec(n)]
        BY <1>1, <3>2, <3>3, <3>6 DEF IInv, MInv, TypeOK
      <3>8. QED
        BY <2>1, <2>3, <3>1, <3>2, <3>7 DEF IInv, CInv, ExecMeansFrom
    <2>4. QED
      BY <2>2, <2>3
  <1>4. QED
    BY <1>2, <1>3

LEMMA FinishMaps ==
  ASSUME RInv, NEW x \in Target, Finish(x)
  PROVE  [Ideal!Next]_(Ideal!vars)
  <1> DEFINE n == x[1]
  <1> USE DEF RInv
  <1>1. n \in Node /\ Busy(x)
    BY TargetShape DEF Finish, Busy
  <1>2. /\ phase' = [phase EXCEPT ![x] = "remade"] /\ phase \in [Target -> Phase]
        /\ UNCHANGED <<prebuilt, made, whole, from>>
    BY DEF Finish, IInv, MInv, TypeOK
  <1>3. Reading' \subseteq Reading
    BY <1>2, ExecIsTarget DEF Reading, Exec
  <1>4. CASE x[2] # "post"
    <2>1. Good' = Good
      BY <1>2, <1>4 DEF Finish, Good
    <2>2. QED
      BY <1>2, <1>3, <2>1, KeepStep
  <1>5. CASE x[2] = "post"
    <2>1. x = Post(n)
      BY <1>5, TargetShape DEF Post
    <2>2. Exec(n) \in Prereqs(x)
      BY <1>1, <2>1, DepsOf, PostIsTarget DEF Prereqs, HasRule
    <2>3. Settled(Exec(n))
      BY <1>1, <2>2 DEF IInv, MInv, Ordered, Busy
    <2>4. checked' = [checked EXCEPT ![n] = made[n]] /\ checked \in [Node -> Nat]
      BY <1>5 DEF Finish, IInv, MInv, TypeOK
    <2>5. /\ made[n] # 0 /\ whole[n]
          /\ n \in prebuilt \/ \A s \in Sources(n) : from[<<s, n>>] = made[s]
      BY <1>1, <2>3, SettledMeansMade
    <2>6. Good' = Good \cup {n}
      BY <1>1, <1>2, <2>4, <2>5 DEF Good
    <2>7. Reading' = Reading /\ n \notin Reading
      BY <1>1, <1>2, <1>5, <2>3, ExecIsTarget DEF Reading, Exec, Settled
    <2>8. n \in prebuilt \/ Ideal!UpToDate(n)
      BY <2>5, SameSources DEF Ideal!UpToDate
    <2>9. Ideal!Accept(n)
      BY <1>2, <2>5, <2>6, <2>7, <2>8 DEF Ideal!Accept
    <2>10. QED
      BY <1>1, <2>9 DEF Ideal!Next
  <1>6. QED
    BY <1>4, <1>5

\* rm -rf of build directories nobody uses.
LEMMA WipedMaps ==
  ASSUME NEW S \in SUBSET Node, Wiped(S), Reading' = Reading,
         \A m \in Reading : m \notin S /\ Sources(m) \cap S = {}
  PROVE  [Ideal!Next]_(Ideal!vars)
  <1>1. Good' = Good \ S
    <2>1. \A n \in Node : /\ n \in S => made'[n] = 0
                          /\ n \notin S => made'[n] = made[n] /\ checked'[n] = checked[n]
      BY DEF Wiped
    <2>2. \A n \in Node : n \notin S => (whole'[n] <=> whole[n])
      BY DEF Wiped
    <2>3. \A n \in Node : n \in Good' <=> n \in Good \ S
      BY <2>1, <2>2 DEF Good
    <2>4. QED
      BY <2>3 DEF Good
  <1>2. Ideal!Quiet(S)
    BY SameSources DEF Ideal!Quiet
  <1>3. Ideal!Discard(S)
    BY <1>1, <1>2 DEF Ideal!Discard, Wiped
  <1>4. QED
    BY <1>3 DEF Ideal!Next

LEMMA LaunchMaps ==
  ASSUME RInv, NEW x \in Target, Launch(x)
  PROVE  [Ideal!Next]_(Ideal!vars)
  <1> USE DEF RInv
  <1>1. phase' = [phase EXCEPT ![x] = "started"] /\ phase \in [Target -> Phase]
        /\ phase[x] = "idle"
    BY DEF Launch, Ready, IInv, MInv, TypeOK
  <1>2. Reading' = Reading
    BY <1>1, ExecIsTarget DEF Reading, Exec
  <1>3. CASE x[2] = "dir" /\ x[1] \notin Subgraph
    <2> DEFINE n == x[1]
    <2>1. x = <<n, "dir">> /\ n \in Node /\ Wiped({n})
      BY <1>3, TargetShape DEF Launch
    <2>2. n \notin prebuilt /\ ~Settled(<<n, "dir">>)
      BY <1>3, <2>1, LaunchWipeKeeps
    <2>3. \A m \in Reading : m # n /\ n \notin Sources(m)
      BY <2>1, <2>2, QuietWhenDirIdle
    <2>4. QED
      BY <1>2, <2>1, <2>3, WipedMaps
  <1>4. CASE ~(x[2] = "dir" /\ x[1] \notin Subgraph)
    <2>1. UNCHANGED <<files, contents>>
      BY <1>4 DEF Launch
    <2>2. QED
      BY <1>2, <2>1, KeepStep DEF files, contents, Good
  <1>5. QED
    BY <1>3, <1>4

LEMMA UserMaps ==
  ASSUME RInv
  PROVE  /\ MakeExit \/ Kill => [Ideal!Next]_(Ideal!vars)
         /\ \A G \in SUBSET Node : StartMake(G) => [Ideal!Next]_(Ideal!vars)
         /\ \A S \in SUBSET Node : Clean(S) => [Ideal!Next]_(Ideal!vars)
         /\ \A n \in Node : Unpin(n) => [Ideal!Next]_(Ideal!vars)
  <1> USE DEF RInv
  <1>1. ~active => Reading = {}
    BY ExecIsTarget DEF IInv, MInv, Ordered, Reading, Exec
  <1>2. ASSUME MakeExit \/ Kill PROVE [Ideal!Next]_(Ideal!vars)
    <2>1. phase' = Idle /\ UNCHANGED <<files, contents>>
      BY <1>2 DEF MakeExit, Kill
    <2>2. Reading' = {}
      BY <2>1, ExecIsTarget DEF Idle, Reading, Exec
    <2>3. QED
      BY <2>1, <2>2, KeepStep DEF files, contents, Good
  <1>3. ASSUME NEW G \in SUBSET Node, StartMake(G) PROVE [Ideal!Next]_(Ideal!vars)
    BY <1>3, KeepStep DEF StartMake, files, contents, Good, Reading
  <1>4. ASSUME NEW S \in SUBSET Node, Clean(S) PROVE [Ideal!Next]_(Ideal!vars)
    <2>1. Wiped(S) /\ Reading' = Reading /\ Reading = {}
      BY <1>1, <1>4 DEF Clean, Reading
    <2>2. QED
      BY <2>1, WipedMaps
  <1>5. ASSUME NEW n \in Node, Unpin(n) PROVE [Ideal!Next]_(Ideal!vars)
    <2>1. prebuilt' = prebuilt \ {n} /\ UNCHANGED <<made, from, Good, Reading>>
      BY <1>5 DEF Unpin, contents, Good, Reading
    <2>2. Ideal!Unpin(n)
      BY <2>1 DEF Ideal!Unpin
    <2>3. QED
      BY <2>2 DEF Ideal!Next
  <1>6. QED
    BY <1>2, <1>3, <1>4, <1>5

LEMMA StepMaps ==
  ASSUME RInv, [Next]_vars
  PROVE  [Ideal!Next]_(Ideal!vars)
  <1>1. CASE UNCHANGED vars
    BY <1>1 DEF vars, files, invocation, contents, Ideal!vars, Good, Reading
  <1>2. ASSUME NEW x \in Target, Skip(x) \/ NoRule(x) \/ Fail(x)
        PROVE  [Ideal!Next]_(Ideal!vars)
    <2>1. PICK q \in {"current", "failed"} : phase' = [phase EXCEPT ![x] = q]
      BY <1>2 DEF Skip, NoRule, Fail
    <2>2. UNCHANGED <<files, contents>> /\ phase \in [Target -> Phase]
      BY <1>2 DEF Skip, NoRule, Fail, RInv, IInv, MInv, TypeOK
    <2>3. Reading' \subseteq Reading
      BY <2>1, <2>2, ExecIsTarget DEF Reading, Exec
    <2>4. QED
      BY <2>2, <2>3, KeepStep DEF files, contents, Good
  <1>3. ASSUME NEW x \in Target, Launch(x) \/ Finish(x)
        PROVE  [Ideal!Next]_(Ideal!vars)
    BY <1>3, LaunchMaps, FinishMaps
  <1>4. ASSUME NEW n \in Node, RunCommands(n) \/ CommandsDone(n)
        PROVE  [Ideal!Next]_(Ideal!vars)
    BY <1>4, RunCommandsMaps, CommandsDoneMaps DEF Ideal!Next
  <1>5. CASE MakeExit \/ UserStep
    <2>1. \A S \in {{n} : n \in Node} \cup {Node} : S \in SUBSET Node
      OBVIOUS
    <2>2. QED
      BY <1>5, <2>1, UserMaps DEF UserStep
  <1>6. QED
    BY <1>1, <1>2, <1>3, <1>4, <1>5 DEF Next, MakeStep

\* For every graph, what make does with stamps and .prebuilt files is what
\* NodeBuild asks of a build.
THEOREM MakeImplementsNodeBuild == Spec => ImplementsNodeBuild
  <1>1. RInv /\ [Next]_vars => [Ideal!Next]_(Ideal!vars)
    BY StepMaps
  <1>2. Init => Ideal!Init
    BY InitMaps
  <1>3. QED
    BY <1>1, <1>2, AlwaysRInv, PTL DEF Spec, ImplementsNodeBuild, Ideal!Spec
-----------------------------------------------------------------------------
(***************************************************************************)
(* No build is thrown away for nothing, for every graph and any number of  *)
(* make invocations.                                                       *)
(*                                                                         *)
(* The argument.  When the commands of a node start, its directory is not  *)
(* older than any stamp of its sources, and those are in order among       *)
(* themselves (Linked).  From then on these stamps are touched by nothing  *)
(* but a build that starts with the commands of the source and so gives it *)
(* other outputs, which are newer than what was read (ReadsPast): what is  *)
(* not out of date is not started.  Stamps of pre-built nodes are in order *)
(* because they came together (PinnedAlike), those of the directories of   *)
(* Silent nodes although their commands never look done (DirSettled).      *)
(***************************************************************************)

Dir(n) == <<n, "dir">>

\* Behind the stamp of the commands the others come in the order of the rules.
Consistent(s) ==
  /\ \A t \in Alias(s) : mtime[t] # 0
  /\ \A t \in Alias(s) \ {Exec(s)} : \A d \in Deps(t) : mtime[d] <= mtime[t]

\* What n was made from, if it is still there, is no reason to make n again.
Linked ==
  \A e \in Edge : made[e[1]] # 0 /\ from[e] = made[e[1]] =>
    /\ Consistent(e[1])
    /\ mtime[Dir(e[2])] # 0
    /\ \A t \in Alias(e[1]) : mtime[t] <= mtime[Dir(e[2])]

\* Nothing was read in this run that a node may still write in it.
ReadsPast ==
  \A e \in Edge :
    /\ from[e] <= run
    /\ active /\ phase[Exec(e[1])] # "remade" => from[e] < run

DirSettled ==
  \A n \in Node : Settled(Dir(n)) => ~OutOfDate(Dir(n))

PinnedAlike ==
  \A n \in prebuilt \ Silent : mtime[<<n, "execout">>] = mtime[Exec(n)]

\* Outputs lie in a directory.
Housed == \A n \in Node : made[n] # 0 => mtime[Dir(n)] # 0

Kept == Linked /\ ReadsPast /\ DirSettled /\ PinnedAlike /\ Housed

NInv == RInv /\ Kept
-----------------------------------------------------------------------------
(* Facts about one state.                                                  *)

LEMMA DirIsTarget ==
  ASSUME NEW n \in Node
  PROVE  /\ Dir(n) \in Target /\ Dir(n)[1] = n /\ Dir(n)[2] = "dir"
         /\ Dir(n) \in TargetsOf(n) /\ Dir(n) # Exec(n)
         /\ \A m \in Node : m # n => Dir(m) # Dir(n)
  BY TargetsOfNode DEF Dir, Exec

LEMMA AliasOf ==
  ASSUME NEW s \in Node, NEW t \in Alias(s)
  PROVE  /\ t \in Target /\ t[1] = s /\ t[2] # "dir" /\ t = <<s, t[2]>>
         /\ t \in TargetsOf(s) /\ t # Dir(s)
  <1>1. t \in TargetsOf(s) /\ t # Dir(s)
    BY AliasShape DEF Dir
  <1>2. t \in Target /\ t[1] = s
    BY <1>1, TargetsOfNode
  <1>3. t = <<s, t[2]>>
    BY <1>2, TargetShape
  <1>4. QED
    BY <1>1, <1>2, <1>3 DEF Dir

\* The stamps behind that of the commands depend on each other only.
LEMMA AliasDeps ==
  ASSUME NEW s \in Node, NEW t \in Alias(s), t # Exec(s)
  PROVE  /\ t[2] \in {"execout", "out", "post"} /\ ~Phony(t)
         /\ Deps(t) \subseteq Alias(s)
         /\ t[2] = "execout" => t = <<s, "execout">> /\ Deps(t) = {Exec(s)}
  <1>1. t = <<s, t[2]>> /\ t[1] = s
    BY AliasOf
  <1>2. t[2] \in {"execout", "out", "post"}
    BY <1>1 DEF Alias, Exec
  <1>3. Deps(t) \subseteq {<<s, p>> : p \in {"exec", "execout", "out"} \cap Parts(s)}
    <2>1. CASE t[2] = "execout"
      BY <1>1, <2>1 DEF Deps
    <2>2. CASE t[2] = "out"
      BY <1>1, <2>2 DEF Deps
    <2>3. CASE t[2] = "post"
      BY <1>1, <2>3 DEF Deps
    <2>4. QED
      BY <1>2, <2>1, <2>2, <2>3
  <1>4. Deps(t) \subseteq Alias(s)
    BY <1>3 DEF Alias
  <1>5. QED
    BY <1>1, <1>2, <1>4, DepsOf DEF Phony

LEMMA DirPrereqs ==
  ASSUME NEW n \in Node
  PROVE  /\ n \notin prebuilt => Prereqs(Dir(n)) = UNION {Alias(s) : s \in Sources(n)}
         /\ n \in prebuilt => Prereqs(Dir(n)) = {}
  BY DirIsTarget, DepsOf DEF Prereqs, HasRule, Dir

\* What is in order is not out of date, whether the node is pinned or not.
LEMMA ConsistentStays ==
  ASSUME TypeOK, NEW s \in Node, Consistent(s), NEW t \in Alias(s), t # Exec(s)
  PROVE  ~OutOfDate(t)
  <1>1. t \in Target /\ mtime[t] \in Nat
    BY AliasOf DEF TypeOK
  <1>2. Deps(t) \subseteq Alias(s)
    BY AliasDeps
  <1>3. ASSUME NEW d \in Prereqs(t) PROVE mtime[d] # 0 /\ ~(mtime[d] > mtime[t])
    <2>1. d \in Deps(t) /\ d \in Alias(s)
      BY <1>2, <1>3 DEF Prereqs
    <2>2. mtime[d] \in Nat
      BY <2>1, AliasOf DEF TypeOK
    <2>3. QED
      BY <1>1, <2>1, <2>2 DEF Consistent
  <1>4. QED
    BY <1>3 DEF OutOfDate, Consistent

\* Settled stamps are in order.
LEMMA SettledConsistent ==
  ASSUME IInv, PinnedAlike, NEW s \in Node, s \notin Silent,
         \A t \in Alias(s) : Settled(t)
  PROVE  Consistent(s)
  <1> USE DEF IInv, MInv, CInv
  <1>1. ASSUME NEW t \in Alias(s)
        PROVE  /\ t \in Target /\ t[1] = s /\ mtime[t] \in Nat /\ mtime[t] # 0
               /\ ~OutOfDate(t)
    BY AliasOf DEF SettledIsUpToDate, OutOfDate, TypeOK
  <1>2. ASSUME NEW t \in Alias(s), t # Exec(s), NEW d \in Deps(t)
        PROVE  mtime[d] <= mtime[t]
    <2>1. /\ d \in Alias(s) /\ t[2] \in {"execout", "out", "post"}
          /\ t[2] = "execout" => t = <<s, "execout">> /\ d = Exec(s)
      BY <1>2, AliasDeps
    <2>2. mtime[d] \in Nat /\ mtime[t] \in Nat /\ t[1] = s /\ ~OutOfDate(t)
      BY <1>1, <2>1
    <2>3. CASE HasRule(t)
      BY <1>2, <2>2, <2>3 DEF OutOfDate, Prereqs
    <2>4. CASE ~HasRule(t)
      <3>1. s \in prebuilt /\ t = <<s, "execout">> /\ d = Exec(s)
        BY <2>1, <2>2, <2>4 DEF HasRule
      <3>2. mtime[d] = mtime[t]
        BY <3>1 DEF PinnedAlike
      <3>3. QED
        BY <2>2, <3>2
    <2>5. QED
      BY <2>3, <2>4
  <1>3. QED
    BY <1>1, <1>2 DEF Consistent
-----------------------------------------------------------------------------
(* Steps.                                                                  *)

\* Nothing was touched, made or removed.
LEMMA UntouchedKeeps ==
  ASSUME Linked, Housed, UNCHANGED <<mtime, made, from>>
  PROVE  Linked' /\ Housed'
  <1>1. \A s : Consistent(s)' <=> Consistent(s)
    BY DEF Consistent
  <1>2. QED
    BY <1>1 DEF Linked, Housed

\* Skip, NoRule, Fail, CommandsDone, and Launch of a recipe that removes nothing.
LEMMA QuietMoveKept ==
  ASSUME NInv, NEW x, NEW q, Move(x, q), UNCHANGED <<mtime, made, from>>,
         q \in {"current", "failed", "started", "ran"},
         q = "current" => ~OutOfDate(x)
  PROVE  Kept'
  <1> USE DEF NInv, Kept, RInv, IInv, MInv, CInv
  <1>1. /\ phase'[x] = q /\ x \in Target
        /\ \A t \in Target : t # x => phase'[t] = phase[t]
        /\ UNCHANGED <<prebuilt, run, active>>
    BY MovePhase DEF Move
  <1>2. Linked' /\ Housed'
    BY UntouchedKeeps
  <1>3. ReadsPast'
    <2>1. \A t \in Target : phase[t] = "remade" => phase'[t] = "remade"
      BY <1>1 DEF Move, Ready, Busy
    <2>2. \A e \in Edge : Exec(e[1]) \in Target
      BY EdgeShape, ExecIsTarget
    <2>3. QED
      BY <1>1, <2>1, <2>2 DEF ReadsPast
  <1>4. DirSettled'
    <2>1. \A t : OutOfDate(t)' <=> OutOfDate(t)
      BY <1>1 DEF OutOfDate, Prereqs, HasRule
    <2>2. \A t \in Target : Settled(t)' => Settled(t) \/ ~OutOfDate(t)
      BY <1>1 DEF Settled
    <2>3. QED
      BY <2>1, <2>2, DirIsTarget DEF DirSettled
  <1>5. PinnedAlike'
    BY <1>1 DEF PinnedAlike
  <1>6. QED
    BY <1>2, <1>3, <1>4, <1>5

\* A node is linked to what it starts to read, and what read its old outputs is
\* not linked to its new ones.
LEMMA RunCommandsKept ==
  ASSUME NInv, NEW n \in Node, RunCommands(n)
  PROVE  Kept'
  <1> DEFINE x == Exec(n)
  <1> USE DEF NInv, Kept, RInv, IInv, MInv, CInv
  <1>1. x \in Target /\ phase[x] = "started" /\ Busy(x)
    BY ExecIsTarget DEF RunCommands, Exec, Busy
  <1>2. active /\ n \notin prebuilt
    BY <1>1, BusyExecHasRule
  <1>3. /\ phase \in [Target -> Phase] /\ made \in [Node -> Nat] /\ run \in Nat
        /\ from \in [Edge -> Nat] /\ mtime \in [Target -> Nat] /\ run # 0
    BY DEF TypeOK, Clock
  <1>4. /\ phase'[x] = "commands" /\ \A t \in Target : t # x => phase'[t] = phase[t]
        /\ made'[n] = run /\ \A m \in Node : m # n => made'[m] = made[m]
        /\ from' = [e \in Edge |-> IF e[2] = n THEN made[e[1]] ELSE from[e]]
        /\ UNCHANGED <<mtime, prebuilt, run, active>>
    BY <1>1, <1>3 DEF RunCommands, Exec, files
  <1>5. \A s : Consistent(s)' <=> Consistent(s)
    BY <1>4 DEF Consistent
  <1>6. Settled(Dir(n)) /\ ~OutOfDate(Dir(n)) /\ mtime[Dir(n)] # 0
    <2>1. x \in TargetsOf(n) /\ x # <<n, "dir">>
      BY TargetsOfNode DEF Exec
    <2>2. Settled(Dir(n))
      BY <1>1, <1>2, <2>1, DirFirst DEF Dir
    <2>3. QED
      BY <2>2 DEF DirSettled, OutOfDate
  <1>7. ASSUME NEW e \in Edge, made'[e[1]] # 0, from'[e] = made'[e[1]]
        PROVE  /\ Consistent(e[1]) /\ mtime[Dir(e[2])] # 0
               /\ \A t \in Alias(e[1]) : mtime[t] <= mtime[Dir(e[2])]
    <2> DEFINE s == e[1]
    <2>1. s \in Node /\ e[2] \in Node /\ s \in Sources(e[2]) /\ s \notin Silent
          /\ Exec(s) \in Target
      BY EdgeShape, ExecIsTarget
    <2>2. CASE e[2] = n
      <3>1. \A t \in Alias(s) : Settled(t)
        BY <1>1, <1>2, <2>2, SourcesFirst
      <3>2. Consistent(s)
        BY <2>1, <3>1, SettledConsistent
      <3>3. ASSUME NEW t \in Alias(s) PROVE mtime[t] <= mtime[Dir(n)]
        <4>1. t \in Prereqs(Dir(n))
          BY <1>2, <2>1, <2>2, DirPrereqs
        <4>2. mtime[t] \in Nat /\ mtime[Dir(n)] \in Nat
          BY <1>3, <2>1, AliasOf, DirIsTarget
        <4>3. QED
          BY <1>6, <4>1, <4>2 DEF OutOfDate
      <3>4. QED
        BY <1>6, <2>2, <3>2, <3>3
    <2>3. CASE e[2] # n
      <3>1. from'[e] = from[e]
        BY <1>4, <2>3
      <3>2. s # n
        <4>1. SUFFICES ASSUME s = n PROVE FALSE
          OBVIOUS
        <4>2. from[e] < run /\ from[e] \in Nat
          BY <1>1, <1>2, <1>3, <4>1 DEF ReadsPast
        <4>3. made'[s] = run /\ from'[e] = made'[s]
          BY <1>4, <1>7, <4>1
        <4>4. QED
          BY <1>3, <3>1, <4>2, <4>3
      <3>3. QED
        BY <1>4, <1>7, <2>1, <3>1, <3>2 DEF Linked
    <2>4. QED
      BY <2>2, <2>3
  <1>8. Linked'
    BY <1>4, <1>5, <1>7 DEF Linked
  <1>9. ReadsPast'
    <2>1. ASSUME NEW e \in Edge
          PROVE  /\ from'[e] <= run
                 /\ phase'[Exec(e[1])] # "remade" => from'[e] < run
      <3> DEFINE s == e[1]
      <3>1. s \in Node /\ e[2] \in Node /\ Exec(s) \in Target
        BY EdgeShape, ExecIsTarget
      <3>2. phase[Exec(s)] = "remade" => phase'[Exec(s)] = "remade"
        BY <1>1, <1>4, <3>1
      <3>3. CASE e[2] = n
        <4>1. from'[e] = made[s]
          BY <1>4, <3>3
        <4>2. Settled(Exec(s))
          BY <1>1, <1>2, <3>1, <3>3, SourcesFirst, AliasShape
        <4>3. made[s] <= run /\ (phase[Exec(s)] = "current" => made[s] < run)
          BY <1>2, <3>1 DEF Past
        <4>4. QED
          BY <3>2, <4>1, <4>2, <4>3 DEF Settled
      <3>4. CASE e[2] # n
        <4>1. from'[e] = from[e]
          BY <1>4, <3>4
        <4>2. QED
          BY <1>2, <3>2, <4>1 DEF ReadsPast
      <3>5. QED
        BY <3>3, <3>4
    <2>2. QED
      BY <1>4, <2>1 DEF ReadsPast
  <1>10. DirSettled'
    <2>1. \A t : OutOfDate(t)' <=> OutOfDate(t)
      BY <1>4 DEF OutOfDate, Prereqs, HasRule
    <2>2. \A m \in Node : Settled(Dir(m))' => Settled(Dir(m))
      BY <1>4, DirIsTarget DEF Settled
    <2>3. QED
      BY <2>1, <2>2 DEF DirSettled
  <1>11. PinnedAlike'
    BY <1>4 DEF PinnedAlike
  <1>12. Housed'
    BY <1>4, <1>6 DEF Housed
  <1>13. QED
    BY <1>8, <1>9, <1>10, <1>11, <1>12

\* The stamps of what is linked are not touched, but for directories, which
\* become newer than everything.
LEMMA FinishKept ==
  ASSUME NInv, NEW x \in Target, Finish(x)
  PROVE  Kept'
  <1> USE DEF NInv, Kept, RInv, IInv, MInv, CInv
  <1>1. Busy(x) /\ active /\ HasRule(x) /\ OutOfDate(x)
    BY DEF Finish, Busy, Ordered, BusyIsOutOfDate
  <1>2. /\ \A t \in Target : t # x => mtime'[t] = mtime[t]
        /\ mtime'[x] = (IF Phony(x) THEN mtime[x] ELSE run)
        /\ mtime' \in [Target -> Nat] /\ mtime \in [Target -> Nat]
        /\ run \in Nat /\ run # 0
    BY DEF Finish, Touched, TypeOK, Clock
  <1>3. /\ phase'[x] = "remade" /\ \A t \in Target : t # x => phase'[t] = phase[t]
        /\ UNCHANGED <<prebuilt, run, active, made, from>>
    BY DEF Finish, TypeOK
  <1>4. \A t \in Target : mtime[t] # 0 => mtime'[t] # 0
    BY <1>2
  <1>5. ASSUME NEW e \in Edge, made[e[1]] # 0, from[e] = made[e[1]],
               NEW t \in Alias(e[1])
        PROVE  t # x
    <2> DEFINE s == e[1]
    <2>1. s \in Node /\ Exec(s) \in Target /\ Exec(s)[2] = "exec"
      BY EdgeShape, ExecIsTarget
    <2>2. CASE t = Exec(s)
      <3>1. SUFFICES ASSUME x = Exec(s) PROVE FALSE
        BY <2>2
      <3>2. phase[Exec(s)] = "ran"
        BY <2>1, <3>1 DEF Finish
      <3>3. made[s] = run
        BY <2>1, <3>2 DEF RunningFrom
      <3>4. from[e] < run
        BY <1>1, <3>2 DEF ReadsPast
      <3>5. QED
        BY <1>2, <1>5, <3>3, <3>4
    <2>3. CASE t # Exec(s)
      <3>1. Consistent(s)
        BY <1>5 DEF Linked
      <3>2. QED
        BY <1>1, <2>1, <2>3, <3>1, ConsistentStays
    <2>4. QED
      BY <2>2, <2>3
  <1>6. Linked'
    <2>1. ASSUME NEW e \in Edge, made[e[1]] # 0, from[e] = made[e[1]]
          PROVE  /\ Consistent(e[1])' /\ mtime'[Dir(e[2])] # 0
                 /\ \A t \in Alias(e[1]) : mtime'[t] <= mtime'[Dir(e[2])]
      <3> DEFINE s == e[1]
      <3>1. /\ Consistent(s) /\ mtime[Dir(e[2])] # 0
            /\ \A t \in Alias(s) : mtime[t] <= mtime[Dir(e[2])]
        BY <2>1 DEF Linked
      <3>2. s \in Node /\ e[2] \in Node
        BY EdgeShape
      <3>3. \A t \in Alias(s) : t \in Target /\ mtime'[t] = mtime[t]
        BY <1>2, <1>5, <2>1, <3>2, AliasOf
      <3>4. Consistent(s)'
        <4>1. ASSUME NEW t \in Alias(s), t # Exec(s), NEW d \in Deps(t)
              PROVE  mtime'[d] <= mtime'[t]
          <5>1. d \in Alias(s)
            BY <3>2, <4>1, AliasDeps
          <5>2. QED
            BY <3>1, <3>3, <4>1, <5>1 DEF Consistent
        <4>2. QED
          BY <3>1, <3>3, <4>1 DEF Consistent
      <3>5. Dir(e[2]) \in Target /\ Dir(e[2])[2] = "dir"
        BY <3>2, DirIsTarget
      <3>6. CASE Dir(e[2]) = x
        <4>1. mtime'[Dir(e[2])] = run
          BY <1>2, <3>5, <3>6 DEF Phony
        <4>2. \A t \in Alias(s) : mtime[t] <= run
          BY <3>3 DEF Clock
        <4>3. QED
          BY <1>2, <3>3, <3>4, <4>1, <4>2
      <3>7. CASE Dir(e[2]) # x
        BY <1>2, <3>1, <3>3, <3>4, <3>5, <3>7
      <3>8. QED
        BY <3>6, <3>7
    <2>2. QED
      BY <1>3, <2>1 DEF Linked
  <1>7. ReadsPast'
    <2>1. \A e \in Edge : Exec(e[1]) \in Target
      BY EdgeShape, ExecIsTarget
    <2>2. QED
      BY <1>1, <1>3, <2>1 DEF ReadsPast
  <1>8. ASSUME NEW n \in Node, Settled(Dir(n))' PROVE ~OutOfDate(Dir(n))'
    <2>1. Dir(n) \in Target /\ Dir(n)[2] = "dir" /\ Prereqs(Dir(n))' = Prereqs(Dir(n))
      BY <1>3, DirIsTarget DEF Prereqs, HasRule
    <2>2. ASSUME NEW d \in Prereqs(Dir(n)) PROVE d # x /\ d \in Target /\ mtime[d] # 0
      <3>1. phase[Dir(n)] # "idle"
        BY <1>1, <1>3, <1>8, <2>1 DEF Settled, Busy
      <3>2. Settled(d) /\ d \in Target
        BY <2>1, <2>2, <3>1, PrereqsShape DEF Ordered
      <3>3. d[1] \notin Silent
        <4>1. PICK s \in Sources(n) : d \in Alias(s)
          BY <2>2, DirPrereqs
        <4>2. s \in Node /\ s \notin Silent
          BY EdgeOf
        <4>3. QED
          BY <4>1, <4>2, AliasOf
      <3>4. QED
        BY <1>1, <3>2, <3>3 DEF SettledIsUpToDate, OutOfDate, Settled, Busy
    <2>3. CASE Dir(n) = x
      <3>1. mtime'[x] = run
        BY <1>2, <2>1, <2>3 DEF Phony
      <3>2. \A d \in Prereqs(x) : mtime'[d] = mtime[d] /\ mtime[d] <= run /\ mtime[d] # 0
        BY <1>2, <2>2, <2>3 DEF Clock
      <3>3. \A d \in Prereqs(x) : ~(mtime'[d] = 0 \/ mtime'[d] > mtime'[x])
        <4> SUFFICES ASSUME NEW d \in Prereqs(x)
                     PROVE  ~(mtime'[d] = 0 \/ mtime'[d] > mtime'[x])
          OBVIOUS
        <4>1. mtime[d] \in Nat
          BY <1>2, <2>2, <2>3
        <4>2. QED
          BY <1>2, <3>1, <3>2, <4>1
      <3>4. QED
        BY <1>2, <2>1, <2>3, <3>1, <3>3 DEF OutOfDate
    <2>4. CASE Dir(n) # x
      <3>1. ~OutOfDate(Dir(n)) /\ mtime'[Dir(n)] = mtime[Dir(n)]
        BY <1>2, <1>3, <1>8, <2>1, <2>4 DEF Settled, DirSettled
      <3>2. \A d \in Prereqs(Dir(n)) : mtime'[d] = mtime[d]
        BY <1>2, <2>2
      <3>3. QED
        BY <2>1, <3>1, <3>2 DEF OutOfDate
    <2>5. QED
      BY <2>3, <2>4
  <1>9. PinnedAlike'
    <2>1. ASSUME NEW n \in prebuilt \ Silent
          PROVE  x # Exec(n) /\ x # <<n, "execout">>
      BY <1>1 DEF HasRule, Exec
    <2>2. \A n \in prebuilt : n \in Node
      BY DEF TypeOK
    <2>3. \A n \in prebuilt : Exec(n) \in Target /\ <<n, "execout">> \in Target
      BY <2>2, TargetsOfNode
    <2>4. QED
      BY <1>2, <1>3, <2>1, <2>3 DEF PinnedAlike
  <1>10. Housed'
    BY <1>3, <1>4, DirIsTarget DEF Housed
  <1>11. QED
    BY <1>6, <1>7, <1>8, <1>9, <1>10 DEF DirSettled

\* What is removed is linked no more, and nothing else is touched.
LEMMA WipedKept ==
  ASSUME NInv, NEW S \in SUBSET Node, Wiped(S)
  PROVE  Linked' /\ PinnedAlike' /\ Housed'
  <1> USE DEF NInv, Kept, RInv, IInv, MInv, CInv
  <1>1. /\ \A t \in Target : t[1] \notin S => mtime'[t] = mtime[t]
        /\ prebuilt' = prebuilt \ S
        /\ \A n \in Node : made'[n] = IF n \in S THEN 0 ELSE made[n]
        /\ \A e \in Edge : from'[e] = IF e[2] \in S THEN 0 ELSE from[e]
    BY DEF Wiped
  <1>2. ASSUME NEW e \in Edge, made'[e[1]] # 0, from'[e] = made'[e[1]]
        PROVE  /\ Consistent(e[1])' /\ mtime'[Dir(e[2])] # 0
               /\ \A t \in Alias(e[1]) : mtime'[t] <= mtime'[Dir(e[2])]
    <2> DEFINE s == e[1]
    <2>1. s \in Node /\ e[2] \in Node /\ s \notin S /\ e[2] \notin S
          /\ made'[s] = made[s] /\ from'[e] = from[e]
      BY <1>1, <1>2, EdgeShape
    <2>2. /\ Consistent(s) /\ mtime[Dir(e[2])] # 0
          /\ \A t \in Alias(s) : mtime[t] <= mtime[Dir(e[2])]
      BY <1>2, <2>1 DEF Linked
    <2>3. \A t \in Alias(s) : mtime'[t] = mtime[t]
      BY <1>1, <2>1, AliasOf
    <2>4. mtime'[Dir(e[2])] = mtime[Dir(e[2])]
      BY <1>1, <2>1, DirIsTarget
    <2>5. ASSUME NEW t \in Alias(s), t # Exec(s), NEW d \in Deps(t)
          PROVE  mtime'[d] <= mtime'[t]
      <3>1. d \in Alias(s)
        BY <2>1, <2>5, AliasDeps
      <3>2. QED
        BY <2>2, <2>3, <2>5, <3>1 DEF Consistent
    <2>6. QED
      BY <2>2, <2>3, <2>4, <2>5 DEF Consistent
  <1>3. PinnedAlike'
    <2>1. ASSUME NEW n \in prebuilt' \ Silent
          PROVE  mtime'[<<n, "execout">>] = mtime'[Exec(n)]
      <3>1. n \in prebuilt \ Silent /\ n \notin S /\ n \in Node
        BY <1>1, <2>1 DEF TypeOK
      <3>2. /\ <<n, "execout">> \in Target /\ Exec(n) \in Target
            /\ <<n, "execout">>[1] = n /\ Exec(n)[1] = n
        BY <3>1, TargetsOfNode
      <3>3. QED
        BY <1>1, <3>1, <3>2 DEF PinnedAlike
    <2>2. QED
      BY <2>1 DEF PinnedAlike
  <1>4. Housed'
    BY <1>1, DirIsTarget DEF Housed
  <1>5. QED
    BY <1>2, <1>3, <1>4 DEF Linked

\* The recipe of a directory starts and removes what was in it.
LEMMA LaunchKept ==
  ASSUME NInv, NEW x \in Target, Launch(x)
  PROVE  Kept'
  <1> DEFINE n == x[1]
  <1> USE DEF NInv, Kept, RInv, IInv, MInv, CInv
  <1>1. active /\ n \in Node /\ Ready(x) /\ HasRule(x)
    BY TargetShape DEF Launch, Ready
  <1>2. CASE ~(x[2] = "dir" /\ n \notin Subgraph)
    <2>1. UNCHANGED <<files, contents>>
      BY <1>2 DEF Launch
    <2>2. Move(x, "started")
      BY <1>1, <2>1 DEF Launch, Move, Phase, files
    <2>3. QED
      BY <2>1, <2>2, QuietMoveKept DEF files, contents
  <1>3. CASE x[2] = "dir" /\ n \notin Subgraph
    <2>1. x = Dir(n) /\ Wiped({n})
      BY <1>3, TargetShape DEF Launch, Dir
    <2>2. n \notin prebuilt /\ ~Settled(Dir(n))
      BY <1>1, <1>3, <2>1, LaunchWipeKeeps DEF Dir
    <2>3. /\ phase'[x] = "started" /\ \A t \in Target : t # x => phase'[t] = phase[t]
          /\ phase[x] = "idle" /\ UNCHANGED <<run, active>>
      BY DEF Launch, Ready, TypeOK
    <2>4. Linked' /\ PinnedAlike' /\ Housed'
      BY <1>1, <2>1, WipedKept
    <2>5. ReadsPast'
      <3>1. \A e \in Edge : from'[e] = from[e] \/ from'[e] = 0
        BY <2>1 DEF Wiped
      <3>2. run \in Nat /\ run # 0
        BY DEF TypeOK, Clock
      <3>3. \A e \in Edge : Exec(e[1]) \in Target
        BY EdgeShape, ExecIsTarget
      <3>4. QED
        BY <2>3, <3>1, <3>2, <3>3 DEF ReadsPast
    <2>6. ASSUME NEW m \in Node, Settled(Dir(m))' PROVE ~OutOfDate(Dir(m))'
      <3>1. m # n /\ Dir(m) \in Target /\ Settled(Dir(m)) /\ Dir(m)[1] = m
        BY <2>1, <2>3, <2>6, DirIsTarget DEF Settled
      <3>2. Prereqs(Dir(m))' = Prereqs(Dir(m))
        BY <2>1, <2>2, DirIsTarget DEF Wiped, Prereqs, HasRule
      <3>3. ASSUME NEW d \in Prereqs(Dir(m)) PROVE mtime'[d] = mtime[d]
        <4>1. PICK s \in Sources(m) : d \in Alias(s)
          BY <3>3, DirPrereqs
        <4>2. s \in Node /\ d \in Target /\ d[1] = s /\ d \in TargetsOf(s) /\ d # Dir(s)
          BY <4>1, EdgeOf, AliasOf
        <4>3. Settled(d)
          BY <3>1, <3>3 DEF Ordered, Settled
        <4>4. s # n
          BY <2>2, <4>2, <4>3, DirFirst DEF Dir, Settled
        <4>5. QED
          BY <2>1, <4>2, <4>4 DEF Wiped
      <3>4. mtime'[Dir(m)] = mtime[Dir(m)]
        BY <2>1, <3>1 DEF Wiped
      <3>5. QED
        BY <3>1, <3>2, <3>3, <3>4 DEF DirSettled, OutOfDate
    <2>7. QED
      BY <2>4, <2>5, <2>6 DEF DirSettled
  <1>4. QED
    BY <1>2, <1>3

LEMMA UserKept ==
  ASSUME NInv
  PROVE  /\ MakeExit \/ Kill => Kept'
         /\ \A G \in SUBSET Node : StartMake(G) => Kept'
         /\ \A S \in SUBSET Node : Clean(S) => Kept'
         /\ \A n \in Node : Unpin(n) => Kept'
  <1> USE DEF NInv, Kept, RInv, IInv, MInv, CInv
  <1>1. ~active => \A t \in Target : phase[t] = "idle"
    BY DEF Ordered
  <1>2. run \in Nat /\ from \in [Edge -> Nat]
    BY DEF TypeOK
  <1>3. ASSUME \A t \in Target : phase'[t] = "idle" PROVE DirSettled'
    BY <1>3, DirIsTarget DEF DirSettled, Settled
  <1>4. ASSUME MakeExit \/ Kill PROVE Kept'
    <2>1. /\ phase' = Idle /\ ~active'
          /\ UNCHANGED <<mtime, prebuilt, run, made, from>>
      BY <1>4 DEF MakeExit, Kill, files, contents
    <2>2. DirSettled'
      BY <1>3, <2>1 DEF Idle
    <2>3. QED
      BY <2>1, <2>2, UntouchedKeeps DEF ReadsPast, PinnedAlike
  <1>5. ASSUME NEW G \in SUBSET Node, StartMake(G) PROVE Kept'
    <2>1. /\ ~active /\ run' = run + 1
          /\ UNCHANGED <<mtime, prebuilt, phase, made, from>>
      BY <1>5 DEF StartMake, files, contents
    <2>2. DirSettled'
      BY <1>1, <1>3, <2>1
    <2>3. ReadsPast'
      <3>1. ASSUME NEW e \in Edge PROVE from'[e] < run'
        <4>1. from[e] \in Nat /\ from[e] <= run
          BY <1>2 DEF ReadsPast
        <4>2. QED
          BY <1>2, <2>1, <4>1
      <3>2. run' \in Nat /\ from' \in [Edge -> Nat]
        BY <1>2, <2>1
      <3>3. QED
        BY <3>1, <3>2 DEF ReadsPast
    <2>4. PinnedAlike'
      BY <2>1 DEF PinnedAlike
    <2>5. Linked' /\ Housed'
      BY <2>1, UntouchedKeeps
    <2>6. QED
      BY <2>2, <2>3, <2>4, <2>5
  <1>6. ASSUME NEW S \in SUBSET Node, Clean(S) PROVE Kept'
    <2>1. ~active /\ ~active' /\ UNCHANGED <<run, phase>> /\ Wiped(S)
      BY <1>6 DEF Clean
    <2>2. Linked' /\ PinnedAlike' /\ Housed'
      BY <2>1, WipedKept
    <2>3. DirSettled'
      BY <1>1, <1>3, <2>1
    <2>4. ReadsPast'
      BY <1>2, <2>1 DEF Wiped, ReadsPast
    <2>5. QED
      BY <2>2, <2>3, <2>4
  <1>7. ASSUME NEW n \in Node, Unpin(n) PROVE Kept'
    <2>1. /\ ~active /\ ~active' /\ prebuilt' = prebuilt \ {n}
          /\ UNCHANGED <<mtime, run, phase, made, from>>
      BY <1>7 DEF Unpin, contents
    <2>2. DirSettled'
      BY <1>1, <1>3, <2>1
    <2>3. QED
      BY <2>1, <2>2, UntouchedKeeps DEF ReadsPast, PinnedAlike
  <1>8. QED
    BY <1>4, <1>5, <1>6, <1>7

\* What was brought along before the first make.
LEMMA InitNInv ==
  ASSUME Init
  PROVE  NInv
  <1>1. RInv
    BY InitRInv
  <1>2. PICK D \in SUBSET prebuilt :
          /\ mtime = [t \in Target |->
               IF \/ t[1] \in prebuilt /\ t[2] = "dir"
                  \/ t[1] \in D /\ t[2] \in Stage /\ ~Phony(t)
                 THEN 1 ELSE 0]
          /\ made = [n \in Node |-> IF n \in D THEN 1 ELSE 0]
    BY DEF Init
  <1>3. run = 1 /\ ~active /\ from = [e \in Edge |-> 0] /\ phase = Idle
    BY DEF Init
  <1>4. Linked
    BY <1>3 DEF Linked
  <1>5. ReadsPast
    BY <1>3 DEF ReadsPast
  <1>6. DirSettled
    BY <1>3, DirIsTarget DEF DirSettled, Settled, Idle
  <1>7. PinnedAlike
    <2>1. ASSUME NEW n \in prebuilt \ Silent
          PROVE  mtime[<<n, "execout">>] = mtime[Exec(n)]
      <3>1. n \in Node
        BY <1>1, <2>1 DEF RInv, IInv, MInv, TypeOK
      <3>2. <<n, "execout">> \in Target /\ Exec(n) \in Target
        BY <3>1, TargetsOfNode
      <3>3. ~Phony(<<n, "execout">>) /\ ~Phony(Exec(n))
        BY <2>1 DEF Phony, Exec
      <3>4. mtime[<<n, "execout">>] = IF n \in D THEN 1 ELSE 0
        BY <1>2, <3>2, <3>3 DEF Stage
      <3>5. mtime[Exec(n)] = IF n \in D THEN 1 ELSE 0
        BY <1>2, <3>2, <3>3 DEF Stage, Exec
      <3>6. QED
        BY <3>4, <3>5
    <2>2. QED
      BY <2>1 DEF PinnedAlike
  <1>8. Housed
    BY <1>2, DirIsTarget DEF Housed
  <1>9. QED
    BY <1>1, <1>4, <1>5, <1>6, <1>7, <1>8 DEF NInv, Kept

LEMMA NextNInv ==
  ASSUME NInv, [Next]_vars
  PROVE  NInv'
  <1> USE DEF NInv
  <1>1. RInv'
    BY NextRInv
  <1>2. CASE UNCHANGED vars
    <2>1. UNCHANGED <<mtime, prebuilt, run, active, phase, made, from>>
      BY <1>2 DEF vars, files, invocation, contents
    <2>2. Linked' /\ Housed'
      BY <2>1, UntouchedKeeps DEF Kept
    <2>3. DirSettled'
      <3>1. \A t : (OutOfDate(t)' <=> OutOfDate(t)) /\ (Settled(t)' <=> Settled(t))
        BY <2>1 DEF OutOfDate, Prereqs, HasRule, Settled
      <3>2. QED
        BY <3>1 DEF DirSettled, Kept
    <2>4. QED
      BY <1>1, <2>1, <2>2, <2>3 DEF Kept, ReadsPast, PinnedAlike
  <1>3. ASSUME NEW x \in Target, Skip(x) \/ NoRule(x) \/ Fail(x) PROVE Kept'
    <2>1. active /\ UNCHANGED <<mtime, made, from>>
      BY <1>3 DEF Skip, NoRule, Fail, Ready, Busy, files, contents, RInv, IInv, MInv,
      Ordered
    <2>2. CASE Skip(x)
      <3>1. Move(x, "current") /\ ~OutOfDate(x)
        BY <2>1, <2>2 DEF Skip, Move, Phase, MustRemake, files
      <3>2. QED
        BY <2>1, <3>1, QuietMoveKept
    <2>3. CASE NoRule(x) \/ Fail(x)
      <3>1. Move(x, "failed")
        BY <2>1, <2>3 DEF NoRule, Fail, Move, Phase, files
      <3>2. QED
        BY <2>1, <3>1, QuietMoveKept
    <2>4. QED
      BY <1>3, <2>2, <2>3
  <1>4. ASSUME NEW n \in Node, CommandsDone(n) PROVE Kept'
    <2>1. Exec(n) \in Target /\ Exec(n)[2] = "exec" /\ Busy(Exec(n))
      BY <1>4, ExecIsTarget DEF CommandsDone, Exec, Busy
    <2>2. active /\ HasRule(Exec(n))
      BY <2>1, BusyExecHasRule DEF RInv, IInv, MInv
    <2>3. Move(Exec(n), "ran") /\ UNCHANGED <<mtime, made, from>>
      BY <1>4, <2>1, <2>2 DEF CommandsDone, Move, Phase, Exec, files
    <2>4. QED
      BY <2>3, QuietMoveKept
  <1>5. \A S \in {{n} : n \in Node} \cup {Node} : S \in SUBSET Node
    OBVIOUS
  <1>6. ASSUME MakeStep PROVE Kept'
    <2>1. CASE \E t \in Target : Skip(t) \/ NoRule(t) \/ Launch(t) \/ Finish(t) \/ Fail(t)
      BY <1>3, <2>1, LaunchKept, FinishKept
    <2>2. CASE \E n \in Node : RunCommands(n) \/ CommandsDone(n)
      BY <1>4, <2>2, RunCommandsKept
    <2>3. CASE MakeExit
      BY <2>3, UserKept
    <2>4. QED
      BY <1>6, <2>1, <2>2, <2>3 DEF MakeStep
  <1>7. ASSUME UserStep PROVE Kept'
    BY <1>5, <1>7, UserKept DEF UserStep
  <1>8. QED
    BY <1>1, <1>2, <1>6, <1>7 DEF Next

LEMMA AlwaysNInv == Spec => []NInv
  BY InitNInv, NextNInv, PTL DEF Spec
-----------------------------------------------------------------------------
(* The theorem.                                                            *)

\* A directory whose outputs were made from what its sources have now is not
\* out of date once the sources are settled.
LEMMA LinkedIsUpToDate ==
  ASSUME NInv, NEW n \in Node, Ready(Dir(n)), made[n] # 0,
         \A s \in Sources(n) : from[<<s, n>>] = made[s]
  PROVE  ~OutOfDate(Dir(n))
  <1> USE DEF NInv, Kept, RInv, IInv, MInv, CInv
  <1>1. mtime[Dir(n)] # 0 /\ Dir(n) \in Target /\ mtime[Dir(n)] \in Nat
    BY DirIsTarget DEF Housed, TypeOK
  <1>2. ASSUME NEW d \in Prereqs(Dir(n)) PROVE mtime[d] # 0 /\ ~(mtime[d] > mtime[Dir(n)])
    <2>1. PICK s \in Sources(n) : d \in Alias(s)
      BY <1>2, DirPrereqs
    <2>2. /\ s \in Node /\ <<s, n>> \in Edge /\ <<s, n>>[1] = s /\ <<s, n>>[2] = n
          /\ Exec(s) \in Alias(s)
      BY EdgeOf, AliasShape
    <2>3. Settled(Exec(s))
      BY <1>2, <2>1, <2>2, DirPrereqs DEF Ready
    <2>4. made[s] # 0
      BY <2>2, <2>3, SettledMeansMade
    <2>5. Consistent(s) /\ mtime[d] <= mtime[Dir(n)]
      BY <2>1, <2>2, <2>4 DEF Linked
    <2>6. mtime[d] \in Nat
      BY <2>1, <2>2, AliasOf DEF TypeOK
    <2>7. QED
      BY <1>1, <2>1, <2>5, <2>6 DEF Consistent
  <1>3. QED
    BY <1>1, <1>2 DEF OutOfDate

\* On every graph make removes outputs only when a source has other outputs now
\* than those they were made from.
THEOREM NoNeedlessRebuildHolds == Spec => NoNeedlessRebuild
  <1> DEFINE Loses(n) == active /\ made[n] # 0 /\ made'[n] = 0
  <1>1. ASSUME NInv, [Next]_vars, NEW n \in Node, Loses(n)
        PROVE  \E s \in Sources(n) : from[<<s, n>>] # made[s]
    <2>1. TypeOK /\ Clock /\ made \in [Node -> Nat] /\ run # 0
      BY <1>1 DEF NInv, RInv, IInv, MInv, TypeOK, Clock
    <2>2. made' # made
      BY <1>1
    <2>3. PICK x \in Target : Launch(x) /\ x[2] = "dir" /\ x[1] \notin Subgraph
      <3>1. \A t \in Target : Skip(t) \/ NoRule(t) \/ Finish(t) \/ Fail(t) => made' = made
        BY DEF Skip, NoRule, Finish, Fail, contents
      <3>2. \A m \in Node : CommandsDone(m) => made' = made
        BY DEF CommandsDone
      <3>3. \A m \in Node : RunCommands(m) => made'[n] = made[n] \/ made'[n] = run
        BY <2>1 DEF RunCommands
      <3>4. \A m \in Node : ~RunCommands(m)
        BY <1>1, <2>1, <3>3
      <3>5. MakeExit \/ Kill \/ (\E m \in Node : Unpin(m)) => made' = made
        BY DEF MakeExit, Kill, Unpin, contents
      <3>6. \A S : ~StartMake(S) /\ ~Clean(S)
        BY <1>1 DEF StartMake, Clean
      <3>7. UNCHANGED vars => made' = made
        BY DEF vars, contents
      <3>8. \A t \in Target :
              Launch(t) /\ ~(t[2] = "dir" /\ t[1] \notin Subgraph) => made' = made
        BY DEF Launch, contents
      <3>9. QED
        BY <1>1, <2>2, <3>1, <3>2, <3>4, <3>5, <3>6, <3>7, <3>8
        DEF Next, MakeStep, UserStep
    <2>4. x = Dir(x[1]) /\ x[1] \in Node /\ Wiped({x[1]})
      BY <2>3, TargetShape DEF Launch, Dir
    <2>5. x[1] = n
      BY <1>1, <2>4 DEF Wiped
    <2>6. Ready(Dir(n)) /\ OutOfDate(Dir(n))
      <3>1. Ready(x) /\ MustRemake(x)
        BY <2>3 DEF Launch
      <3>2. active /\ phase[x] = "idle"
        BY <3>1 DEF Ready
      <3>3. OutOfDate(x)
        BY <2>1, <2>3, <3>1, <3>2, MustMeansOutOfDate
      <3>4. x = Dir(n)
        BY <2>4, <2>5
      <3>5. QED
        BY <3>1, <3>3, <3>4
    <2>7. QED
      BY <1>1, <2>6, LinkedIsUpToDate
  <1>2. NInv /\ [Next]_vars =>
          [\A n \in Node : active /\ made[n] # 0 /\ made'[n] = 0 =>
             \E s \in Sources(n) : from[<<s, n>>] # made[s]]_vars
    BY <1>1
  <1>3. QED
    BY <1>2, AlwaysNInv, PTL DEF Spec, NoNeedlessRebuild
=============================================================================
