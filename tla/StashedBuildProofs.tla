------------------------- MODULE StashedBuildProofs -------------------------
(***************************************************************************)
(* What stashed builds keep, for every graph and any number of pulls.      *)
(*                                                                         *)
(* The argument.  Stamps, phases and the clock (MInv of MakeBuildProofs)   *)
(* say nothing of what a build directory holds, so a pull between two      *)
(* makes keeps them whatever it copies.  What the stamps vouch for is      *)
(* weaker here: the stamps of a pulled node are not the time its outputs   *)
(* got here, and those of a directory of which a part was left vouch for   *)
(* nothing.  The rest is as without a stash, because make treats what is   *)
(* vouched for in the same way (Vouched): a step that leaves outputs alone *)
(* leaves them to the stash, and one that writes them anew ends what the   *)
(* stash had brought.                                                      *)
(***************************************************************************)
EXTENDS StashedBuild, MakeBuildProofs

\* Nodes whose outputs were not written here.
Foreign == pulled \cup broken

Marks ==
  /\ pulled \subseteq Node /\ broken \subseteq Node
  /\ \A n \in broken : made[n] # 0

\* The stamp of the commands vouches for outputs, and for the time they were
\* written if that was here.
ExecMeansThere ==
  \A n \in Node \ broken : ~OutOfDate(Exec(n)) =>
    /\ whole[n] /\ made[n] # 0
    /\ n \notin pulled => made[n] = mtime[Exec(n)]

\* Outputs made here from outputs made here are made from those of now,
\* unless these are newer than the stamp.
ExecMeansRead ==
  \A e \in Edge :
    /\ e[1] \notin Foreign /\ e[2] \notin prebuilt \cup Foreign
    /\ ~OutOfDate(Exec(e[2]))
    /\ made[e[1]] # 0 /\ made[e[1]] <= mtime[Exec(e[2])]
    => from[e] = made[e[1]]

PostMeansAccepted ==
  \A n \in Node \ broken :
    ~OutOfDate(Exec(n)) /\ ~OutOfDate(Post(n)) => checked[n] = made[n]

\* A node copied in by hand has no links; one from the stash may have them.
PinnedHereUnlinked ==
  \A e \in Edge : e[2] \in prebuilt \ Foreign => mtime[<<e[2], e[1]>>] = 0

PInv ==
  /\ Marks /\ ExecMeansThere /\ ExecMeansRead /\ PostMeansAccepted
  /\ PinnedHereUnlinked

-----------------------------------------------------------------------------
(* Steps of MakeBuild.                                                     *)

LEMMA VouchedKeepsPulled ==
  ASSUME PInv, MInv', Vouched, StillThere
  PROVE  PInv'
  <1>1. \A n \in Node : made'[n] = made[n] =>
          (n \in pulled <=> n \in pulled') /\ (n \in broken <=> n \in broken')
    BY DEF StillThere, PInv, Marks
  <1>2. Marks'
    BY DEF StillThere, PInv, Marks
  <1>3. ExecMeansThere'
    <2>1. SUFFICES ASSUME NEW n \in Node, n \notin broken', ~OutOfDate(Exec(n))'
                   PROVE  /\ whole'[n] /\ made'[n] # 0
                          /\ n \notin pulled' => made'[n] = mtime'[Exec(n)]
      BY DEF ExecMeansThere
    <2>2. mtime'[Exec(n)] # 0
      BY <2>1 DEF OutOfDate
    <2>3. CASE whole'[n] /\ made'[n] = mtime'[Exec(n)]
      BY <2>2, <2>3
    <2>4. CASE /\ ~OutOfDate(Exec(n)) /\ mtime'[Exec(n)] = mtime[Exec(n)]
               /\ made'[n] = made[n] /\ whole'[n] = whole[n]
      BY <1>1, <2>1, <2>4 DEF PInv, ExecMeansThere
    <2>5. QED
      BY <2>1, <2>3, <2>4 DEF Vouched
  <1>4. PostMeansAccepted'
    BY <1>1 DEF PInv, Vouched, PostMeansAccepted
  <1>5. PinnedHereUnlinked'
    BY <1>1, EdgeShape DEF PInv, Vouched, PinnedHereUnlinked, Foreign
  <1>6. ExecMeansRead'
    <2>1. SUFFICES ASSUME NEW e \in Edge,
                          e[1] \notin Foreign', e[2] \notin prebuilt' \cup Foreign',
                          ~OutOfDate(Exec(e[2]))', made'[e[1]] # 0,
                          made'[e[1]] <= mtime'[Exec(e[2])]
                   PROVE  from'[e] = made'[e[1]]
      BY DEF ExecMeansRead
    <2>2. CASE /\ ~OutOfDate(Exec(e[2])) /\ mtime'[Exec(e[2])] = mtime[Exec(e[2])]
               /\ made'[e[1]] = made[e[1]] /\ made'[e[2]] = made[e[2]]
               /\ from'[e] = from[e]
               /\ e[2] \in prebuilt => mtime[<<e[2], e[1]>>] # 0
      <3>1. e[1] \in Node /\ e[2] \in Node
        BY EdgeShape
      <3>2. e[1] \notin Foreign /\ e[2] \notin Foreign
        BY <1>1, <2>1, <2>2, <3>1 DEF Foreign
      <3>3. e[2] \notin prebuilt
        BY <2>2, <3>2 DEF PInv, PinnedHereUnlinked
      <3>4. QED
        BY <2>1, <2>2, <3>2, <3>3 DEF PInv, ExecMeansRead
    <2>3. QED
      BY <2>1, <2>2 DEF Vouched
  <1>7. QED
    BY <1>2, <1>3, <1>4, <1>5, <1>6 DEF PInv

-----------------------------------------------------------------------------
(* Pulls.                                                                  *)

\* Whether the commands and the post-conditions of a node are due depends on
\* stamps of its own directory only.
LEMMA OwnDeps ==
  ASSUME NEW n \in Node, NEW d \in Deps(Exec(n)) \cup Deps(Post(n))
  PROVE  d \in Target /\ d[1] = n
  <1>1. Exec(n) \in Target /\ Post(n) \in Target
    BY TargetsOfNode
  <1>2. d \in Target
    BY <1>1, DepsShape
  <1>3. CASE d \in Deps(Exec(n))
    <2>1. Deps(Exec(n)) = {<<n, "dir">>} \cup {<<n, s>> : s \in Sources(n)}
      BY DepsOf
    <2>2. QED
      BY <1>2, <1>3, <2>1
  <1>4. CASE d \in Deps(Post(n))
    <2>1. Deps(Post(n)) = {<<n, p>> : p \in {"exec", "execout", "out"} \cap Parts(n)}
      BY DEF Deps, Post
    <2>2. QED
      BY <1>2, <1>4, <2>1
  <1>5. QED
    BY <1>2, <1>3, <1>4

LEMMA ElsewhereSame ==
  ASSUME NEW m \in Node, NEW n \in Node, n # m,
         \A t \in Target : t[1] # m => mtime'[t] = mtime[t],
         n \in prebuilt' <=> n \in prebuilt
  PROVE  /\ OutOfDate(Exec(n))' <=> OutOfDate(Exec(n))
         /\ OutOfDate(Post(n))' <=> OutOfDate(Post(n))
         /\ mtime'[Exec(n)] = mtime[Exec(n)]
  <1>1. ASSUME NEW t \in {Exec(n), Post(n)}
        PROVE  /\ OutOfDate(t)' <=> OutOfDate(t)
               /\ mtime'[t] = mtime[t]
    <2>1. t \in Target /\ t[1] = n
      BY TargetsOfNode
    <2>2. mtime'[t] = mtime[t]
      BY <2>1
    <2>3. Prereqs(t)' = Prereqs(t)
      BY <2>1 DEF Prereqs, HasRule
    <2>4. \A d \in Prereqs(t) : mtime'[d] = mtime[d]
      BY OwnDeps DEF Prereqs
    <2>5. QED
      BY <2>2, <2>3, <2>4 DEF OutOfDate
  <1>2. QED
    BY <1>1

\* A directory is replaced between two makes: no make is there to notice.
LEMMA TicksKeeps ==
  ASSUME MInv, NEW m \in Node, Ticks(m),
         mtime' \in [Target -> Nat], prebuilt' \subseteq Node,
         \A t \in Target : mtime'[t] <= run' /\ (Phony(t) => mtime'[t] = 0),
         made' \in [Node -> Nat], whole' \in [Node -> BOOLEAN],
         checked' \in [Node -> Nat]
  PROVE  MInv'
  <1> USE DEF MInv
  <1>1. /\ ~active /\ run' = run + 1 /\ result' = "none"
        /\ from' = [e \in Edge |-> IF e[2] = m THEN 0 ELSE from[e]]
        /\ UNCHANGED <<active, wanted, phase>>
    BY DEF Ticks
  <1>2. \A t \in Target : phase'[t] = "idle"
    BY <1>1 DEF Ordered
  <1>3. from' \in [Edge -> Nat]
    BY <1>1 DEF TypeOK
  <1>4. TypeOK'
    BY <1>1, <1>3 DEF TypeOK
  <1>5. Ordered' /\ BusyIsOutOfDate' /\ SettledIsUpToDate'
    BY <1>1, <1>2 DEF Ordered, Busy, Settled, BusyIsOutOfDate, SettledIsUpToDate
  <1>6. Clock'
    BY <1>1, <1>2 DEF Clock, TypeOK, Phony
  <1>7. RunningFrom' /\ Stable'
    BY <1>1, <1>2, ExecIsTarget, EdgeShape DEF RunningFrom, Stable
  <1>8. QED
    BY <1>4, <1>5, <1>6, <1>7

\* What the stamps of the other nodes vouch for stays, and the stamps of m vouch
\* for what they are asked for when the outputs come from the stash.
LEMMA SwapKeeps ==
  ASSUME PInv, NEW m \in Node, Ticks(m),
         \A t \in Target : t[1] # m => mtime'[t] = mtime[t],
         \A n \in Node : n # m =>
           /\ n \in prebuilt' <=> n \in prebuilt
           /\ made'[n] = made[n] /\ whole'[n] = whole[n] /\ checked'[n] = checked[n],
         pulled' \cup broken' \subseteq Foreign \cup {m},
         \A n \in Node : n # m =>
           (n \in pulled <=> n \in pulled') /\ (n \in broken <=> n \in broken'),
         m \in Foreign',
         m \in broken' => made'[m] # 0,
         m \notin broken' /\ ~OutOfDate(Exec(m))' => whole'[m] /\ made'[m] # 0,
         m \notin broken' /\ ~OutOfDate(Exec(m))' /\ ~OutOfDate(Post(m))' =>
           checked'[m] = made'[m]
  PROVE  PInv'
  <1>1. \A e \in Edge : e[2] # m => from'[e] = from[e]
    BY DEF Ticks
  <1>2. ASSUME NEW n \in Node, n # m
        PROVE  /\ OutOfDate(Exec(n))' <=> OutOfDate(Exec(n))
               /\ OutOfDate(Post(n))' <=> OutOfDate(Post(n))
               /\ mtime'[Exec(n)] = mtime[Exec(n)]
    BY <1>2, ElsewhereSame
  <1>3. Marks'
    BY DEF PInv, Marks, Foreign
  <1>4. ExecMeansThere'
    <2>1. SUFFICES ASSUME NEW n \in Node, n \notin broken', ~OutOfDate(Exec(n))'
                   PROVE  /\ whole'[n] /\ made'[n] # 0
                          /\ n \notin pulled' => made'[n] = mtime'[Exec(n)]
      BY DEF ExecMeansThere
    <2>2. CASE n = m
      BY <2>1, <2>2 DEF Foreign
    <2>3. CASE n # m
      BY <1>2, <2>1, <2>3 DEF PInv, ExecMeansThere
    <2>4. QED
      BY <2>2, <2>3
  <1>5. PostMeansAccepted'
    <2>1. SUFFICES ASSUME NEW n \in Node, n \notin broken',
                          ~OutOfDate(Exec(n))', ~OutOfDate(Post(n))'
                   PROVE  checked'[n] = made'[n]
      BY DEF PostMeansAccepted
    <2>2. CASE n = m
      BY <2>1, <2>2
    <2>3. CASE n # m
      BY <1>2, <2>1, <2>3 DEF PInv, PostMeansAccepted
    <2>4. QED
      BY <2>2, <2>3
  <1>6. PinnedHereUnlinked'
    <2>1. SUFFICES ASSUME NEW e \in Edge, e[2] \in prebuilt', e[2] \notin Foreign'
                   PROVE  mtime'[<<e[2], e[1]>>] = 0
      BY DEF PinnedHereUnlinked
    <2>2. /\ e[2] \in Node /\ e[2] # m
          /\ <<e[2], e[1]>> \in Target /\ <<e[2], e[1]>>[1] = e[2]
      BY <2>1, EdgeShape
    <2>3. e[2] \in prebuilt /\ e[2] \notin Foreign
      BY <2>1, <2>2 DEF Foreign
    <2>4. mtime'[<<e[2], e[1]>>] = mtime[<<e[2], e[1]>>]
      BY <2>2
    <2>5. QED
      BY <2>3, <2>4 DEF PInv, PinnedHereUnlinked
  <1>7. ExecMeansRead'
    <2>1. SUFFICES ASSUME NEW e \in Edge,
                          e[1] \notin Foreign', e[2] \notin prebuilt' \cup Foreign',
                          ~OutOfDate(Exec(e[2]))', made'[e[1]] # 0,
                          made'[e[1]] <= mtime'[Exec(e[2])]
                   PROVE  from'[e] = made'[e[1]]
      BY DEF ExecMeansRead
    <2>2. e[1] \in Node \ {m} /\ e[2] \in Node \ {m}
      BY <2>1, EdgeShape
    <2>3. ~OutOfDate(Exec(e[2])) /\ mtime'[Exec(e[2])] = mtime[Exec(e[2])]
      BY <1>2, <2>1, <2>2
    <2>4. e[1] \notin Foreign /\ e[2] \notin prebuilt \cup Foreign
      BY <2>1, <2>2 DEF Foreign
    <2>5. from'[e] = from[e] /\ made'[e[1]] = made[e[1]]
      BY <1>1, <2>2
    <2>6. QED
      BY <2>1, <2>3, <2>4, <2>5 DEF PInv, ExecMeansRead
  <1>8. QED
    BY <1>3, <1>4, <1>5, <1>6, <1>7 DEF PInv

\* The stamps of a copy.
LEMMA StampedTimes ==
  ASSUME TypeOK, Clock, NEW m \in Node, NEW stamps \in Stamps(m),
         run' = run + 1, Stamped(m, stamps)
  PROVE  /\ mtime' \in [Target -> Nat]
         /\ \A t \in Target :
              /\ mtime'[t] <= run' /\ (Phony(t) => mtime'[t] = 0)
              /\ t[1] # m => mtime'[t] = mtime[t]
  <1>1. run \in Nat /\ mtime \in [Target -> Nat]
    BY DEF TypeOK
  <1>2. \A t \in Target : mtime[t] <= run /\ (Phony(t) => mtime[t] = 0)
    BY DEF Clock
  <1>3. \A p \in Parts(m) : stamps[p] \in Nat /\ stamps[p] <= run + 1
    <2>1. {0} \cup {time \in 1 .. run + 1 : run + 1 - time \in Age} \subseteq 0 .. run + 1
      BY <1>1
    <2>2. stamps \in [Parts(m) -> 0 .. run + 1]
      BY <2>1 DEF Stamps
    <2>3. QED
      BY <1>1, <2>2
  <1>4. \A t \in Target :
          mtime'[t] = IF t[1] # m THEN mtime[t] ELSE IF Phony(t) THEN 0 ELSE stamps[t[2]]
    BY DEF Stamped
  <1>5. \A t \in Target : t[1] = m => t[2] \in Parts(m)
    BY DEF Target, TargetsOf
  <1>6. \A t \in Target : mtime'[t] \in Nat /\ mtime'[t] <= run + 1
    BY <1>1, <1>2, <1>3, <1>4, <1>5
  <1>7. mtime' \in [Target -> Nat]
    BY <1>6 DEF Stamped
  <1>8. QED
    BY <1>2, <1>4, <1>6, <1>7

\* A directory that is there in part vouches for nothing, whatever its stamps.
LEMMA LeavesStep ==
  ASSUME MInv, PInv, NEW m \in Node, Ticks(m), Leaves(m),
         mtime' \in [Target -> Nat],
         \A t \in Target :
           /\ mtime'[t] <= run' /\ (Phony(t) => mtime'[t] = 0)
           /\ t[1] # m => mtime'[t] = mtime[t],
         prebuilt' \in {prebuilt, prebuilt \ {m}, prebuilt \cup {m}}
  PROVE  MInv' /\ PInv'
  <1>1. TypeOK /\ run' \in Nat /\ run' # 0
    BY DEF MInv, TypeOK, Ticks
  <1>2. /\ made' = [made EXCEPT ![m] = run']
        /\ whole' = [whole EXCEPT ![m] = FALSE]
        /\ checked' = [checked EXCEPT ![m] = 0]
        /\ pulled' = pulled \ {m} /\ broken' = broken \cup {m}
    BY DEF Leaves
  <1>3. /\ prebuilt' \subseteq Node /\ made' \in [Node -> Nat]
        /\ whole' \in [Node -> BOOLEAN] /\ checked' \in [Node -> Nat]
    BY <1>1, <1>2 DEF TypeOK
  <1>4. MInv'
    BY <1>3, TicksKeeps
  <1>5. \A n \in Node : n # m =>
           /\ n \in prebuilt' <=> n \in prebuilt
           /\ made'[n] = made[n] /\ whole'[n] = whole[n] /\ checked'[n] = checked[n]
    BY <1>1, <1>2 DEF TypeOK
  <1>6. /\ pulled' \cup broken' \subseteq Foreign \cup {m}
        /\ \A n \in Node : n # m =>
             (n \in pulled <=> n \in pulled') /\ (n \in broken <=> n \in broken')
        /\ m \in Foreign' /\ m \in broken' /\ made'[m] # 0
    BY <1>1, <1>2 DEF Foreign, TypeOK
  <1>7. \A t \in Target : t[1] # m => mtime'[t] = mtime[t]
    OBVIOUS
  <1>8. PInv'
    BY <1>5, <1>6, <1>7, SwapKeeps
  <1>9. QED
    BY <1>4, <1>8

\* A complete copy: its stamps vouch for it, whichever they are.
LEMMA BringsStep ==
  ASSUME MInv, PInv, NEW m \in Node, Ticks(m), Brings(m),
         mtime' \in [Target -> Nat],
         \A t \in Target :
           /\ mtime'[t] <= run' /\ (Phony(t) => mtime'[t] = 0)
           /\ t[1] # m => mtime'[t] = mtime[t],
         prebuilt' = prebuilt \cup {m}
  PROVE  MInv' /\ PInv'
  <1>1. TypeOK /\ run' \in Nat /\ run' # 0
    BY DEF MInv, TypeOK, Ticks
  <1>2. /\ made' = [made EXCEPT ![m] = run']
        /\ whole' = [whole EXCEPT ![m] = TRUE]
        /\ checked' = [checked EXCEPT ![m] = run']
        /\ pulled' = pulled \cup {m} /\ broken' = broken \ {m}
    BY DEF Brings
  <1>3. /\ prebuilt' \subseteq Node /\ made' \in [Node -> Nat]
        /\ whole' \in [Node -> BOOLEAN] /\ checked' \in [Node -> Nat]
    BY <1>1, <1>2 DEF TypeOK
  <1>4. MInv'
    BY <1>3, TicksKeeps
  <1>5. \A n \in Node : n # m =>
           /\ n \in prebuilt' <=> n \in prebuilt
           /\ made'[n] = made[n] /\ whole'[n] = whole[n] /\ checked'[n] = checked[n]
    BY <1>1, <1>2 DEF TypeOK
  <1>6. made'[m] # 0 /\ whole'[m] /\ checked'[m] = made'[m]
    BY <1>1, <1>2 DEF TypeOK
  <1>7. /\ pulled' \cup broken' \subseteq Foreign \cup {m}
        /\ \A n \in Node : n # m =>
             (n \in pulled <=> n \in pulled') /\ (n \in broken <=> n \in broken')
        /\ m \in Foreign' /\ m \notin broken'
    BY <1>2 DEF Foreign
  <1>8. \A t \in Target : t[1] # m => mtime'[t] = mtime[t]
    OBVIOUS
  <1>9. PInv'
    BY <1>5, <1>6, <1>7, <1>8, SwapKeeps
  <1>10. QED
    BY <1>4, <1>9

LEMMA CopyStep ==
  ASSUME MInv, PInv, NEW m \in Pullable, NEW stamps \in Stamps(m),
         Pull(m, stamps) \/ CopyFails(m, stamps)
  PROVE  MInv' /\ PInv'
  <1>1. m \in Node /\ TypeOK /\ Clock
    BY PullableAssumption DEF MInv
  <1>2. Ticks(m) /\ Stamped(m, stamps) /\ run' = run + 1
    BY DEF Pull, CopyFails, Ticks
  <1>3. /\ mtime' \in [Target -> Nat]
        /\ \A t \in Target :
             /\ mtime'[t] <= run' /\ (Phony(t) => mtime'[t] = 0)
             /\ t[1] # m => mtime'[t] = mtime[t]
    BY <1>1, <1>2, StampedTimes
  <1>4. CASE Brings(m) /\ prebuilt' = prebuilt \cup {m}
    BY <1>1, <1>2, <1>3, <1>4, BringsStep
  <1>5. CASE Leaves(m) /\ prebuilt' \in {prebuilt \ {m}, prebuilt \cup {m}}
    BY <1>1, <1>2, <1>3, <1>5, LeavesStep
  <1>6. QED
    BY <1>4, <1>5 DEF Pull, CopyFails

LEMMA RemainsStep ==
  ASSUME MInv, PInv, NEW m \in Node, NEW P, Remains(m, P)
  PROVE  MInv' /\ PInv'
  <1>1. TypeOK /\ Clock
    BY DEF MInv
  <1>2. /\ Ticks(m) /\ Leaves(m) /\ run' = run + 1
        /\ mtime' = [t \in Target |-> IF t[1] = m /\ t[2] \notin P THEN 0 ELSE mtime[t]]
        /\ prebuilt' \in {prebuilt, prebuilt \ {m}}
    BY DEF Remains, Ticks
  <1>3. /\ mtime' \in [Target -> Nat]
        /\ \A t \in Target :
             /\ mtime'[t] <= run' /\ (Phony(t) => mtime'[t] = 0)
             /\ t[1] # m => mtime'[t] = mtime[t]
    <2>1. run \in Nat /\ \A t \in Target : mtime[t] \in Nat
      BY <1>1 DEF TypeOK
    <2>2. \A t \in Target : mtime[t] <= run /\ (Phony(t) => mtime[t] = 0)
      BY <1>1 DEF Clock
    <2>3. mtime' \in [Target -> Nat]
      BY <1>2, <2>1
    <2>4. \A t \in Target : mtime'[t] = mtime[t] \/ (t[1] = m /\ mtime'[t] = 0)
      BY <1>2
    <2>5. QED
      BY <1>2, <2>1, <2>2, <2>3, <2>4
  <1>4. QED
    BY <1>1, <1>2, <1>3, LeavesStep

-----------------------------------------------------------------------------
(* The inductive invariant.                                                *)

LEMMA InitPulled ==
  ASSUME Init, pulled = {}, broken = {}
  PROVE  MInv /\ PInv
  <1>1. MInv /\ CInv
    BY InitIInv DEF IInv
  <1>2. PInv
    BY <1>1 DEF PInv, CInv, Marks, Foreign, ExecMeansThere, ExecMeansRead,
         PostMeansAccepted, PinnedHereUnlinked, ExecMeansWhole, ExecMeansFrom,
         PostMeansChecked, PinnedUnlinked, OutOfDate
  <1>3. QED
    BY <1>1, <1>2

LEMMA NextPulled ==
  ASSUME MInv, PInv, [NextP]_varsP
  PROVE  MInv' /\ PInv'
  <1>1. CASE UNCHANGED varsP
    <2>1. UNCHANGED vars /\ StillThere
      BY <1>1 DEF varsP, vars, contents, StillThere
    <2>2. QED
      BY <2>1, StutterStep, VouchedKeepsPulled
  <1>2. CASE Next /\ StillThere
    BY <1>2, NextKeeps, VouchedKeepsPulled
  <1>3. ASSUME NEW n \in Node, NEW P \in SUBSET Parts(n), Remains(n, P)
        PROVE  MInv' /\ PInv'
    BY <1>3, RemainsStep
  <1>4. ASSUME NEW n \in Pullable, NEW stamps \in Stamps(n),
               Pull(n, stamps) \/ CopyFails(n, stamps)
        PROVE  MInv' /\ PInv'
    BY <1>4, CopyStep
  <1>5. QED
    BY <1>1, <1>2, <1>3, <1>4 DEF NextP

LEMMA AlwaysPulled == SpecP => [](MInv /\ PInv)
  BY InitPulled, NextPulled, PTL DEF SpecP

-----------------------------------------------------------------------------
(* The properties.                                                         *)

\* Every variable keeps its type when directories come from the stash too.
THEOREM TypeCorrectPulled == SpecP => []TypeOK
  BY AlwaysPulled, PTL DEF MInv

\* What looks done is done: all but a directory of which a part was left (by a
\* pull that failed, a copy that was not complete, an interrupted clean) holds
\* complete and accepted outputs, and what was built here was built from what
\* its sources have, unless these came from the stash or were left in part.
THEOREM FreshUnlessPulledHolds == SpecP => []FreshUnlessPulled
  <1>1. MInv /\ PInv => FreshUnlessPulled
    <2> SUFFICES ASSUME MInv, PInv, NEW G \in SUBSET Node, NothingToDo(G),
                        NEW n \in G \ broken
                 PROVE  /\ made[n] # 0 /\ whole[n] /\ checked[n] = made[n]
                        /\ n \notin prebuilt \cup pulled =>
                             \A s \in Sources(n) :
                               from[<<s, n>>] = made[s] \/ s \in pulled \cup broken
      BY DEF FreshUnlessPulled
    <2> USE DEF MInv, PInv
    <2>1. ASSUME NEW m \in G
          PROVE  /\ ~OutOfDate(Exec(m)) /\ ~OutOfDate(Post(m))
                 /\ m \notin prebuilt => ~OutOfDate(<<m, "dir">>)
      <3>1. Exec(m) \in Alias(m) /\ Post(m) \in Alias(m) /\ Alias(m) \subseteq TargetsOf(m)
            /\ <<m, "dir">> \in TargetsOf(m)
        BY AliasShape, TargetsOfNode
      <3>2. (IF m \in prebuilt THEN Alias(m) ELSE TargetsOf(m)) \subseteq NeededFor(G)
        BY DEF NeededFor
      <3>3. QED
        BY <3>1, <3>2 DEF NothingToDo
    <2>2. made[n] # 0 /\ whole[n] /\ checked[n] = made[n]
      BY <2>1 DEF ExecMeansThere, PostMeansAccepted
    <2>3. ASSUME n \notin prebuilt \cup pulled, NEW s \in Sources(n),
                 s \notin pulled \cup broken
          PROVE  from[<<s, n>>] = made[s]
      <3> DEFINE D == <<n, "dir">>
      <3>1. s \in G /\ s \in Node /\ <<s, n>> \in Edge
        BY <2>3 DEF NothingToDo, Closed, Sources
      <3>2. made[s] = mtime[Exec(s)] /\ made[s] # 0
        BY <2>1, <2>3, <3>1 DEF ExecMeansThere
      <3>3. HasRule(D) /\ HasRule(Exec(n)) /\ D \in Target /\ Exec(n) \in Target
            /\ Exec(s) \in Target
        BY <2>3, <3>1, ExecIsTarget, TargetsOfNode DEF HasRule
      <3>4. Exec(s) \in Deps(D) /\ D \in Deps(Exec(n))
        <4>1. Deps(D) = UNION {Alias(r) : r \in Sources(n)}
          BY DepsOf
        <4>2. Exec(s) \in Alias(s)
          BY <3>1, AliasShape
        <4>3. QED
          BY <4>1, <4>2, DepsOf
      <3>5. ~(mtime[Exec(s)] > mtime[D]) /\ ~(mtime[D] > mtime[Exec(n)])
        BY <2>1, <2>3, <3>3, <3>4 DEF OutOfDate, Prereqs
      <3>6. made[s] <= mtime[Exec(n)]
        BY <3>2, <3>3, <3>5 DEF TypeOK
      <3>7. QED
        BY <2>1, <2>3, <3>1, <3>2, <3>6 DEF ExecMeansRead, Foreign
    <2>4. QED
      BY <2>2, <2>3
  <1>2. QED
    BY <1>1, AlwaysPulled, PTL

\* Commands read complete and accepted outputs and go on reading the same ones,
\* from the stash or not, but for directories of which a part was left.
THEOREM ReadsUnlessBrokenHolds == SpecP => []ReadsUnlessBroken
  <1>1. MInv /\ PInv => ReadsUnlessBroken
    <2> SUFFICES ASSUME MInv, PInv, NEW e \in Edge, phase[<<e[2], "exec">>] = "commands"
                 PROVE  /\ made[e[1]] # 0 /\ from[e] = made[e[1]]
                        /\ e[1] \in broken \/ (whole[e[1]] /\ checked[e[1]] = made[e[1]])
      BY DEF ReadsUnlessBroken
    <2> DEFINE s == e[1]
    <2> USE DEF MInv, PInv
    <2>1. s \in Node /\ e[2] \in Node /\ s \notin Silent
      BY EdgeShape
    <2>2. phase[Exec(e[2])] = "commands" /\ Busy(Exec(e[2]))
      BY DEF Exec, Busy
    <2>3. from[e] = made[s]
      BY <2>2 DEF RunningFrom
    <2>4. Settled(Exec(s)) /\ Settled(Post(s))
      BY <2>1, <2>2, BusyExecHasRule, SourcesFirst, AliasShape DEF Busy
    <2>5. ~OutOfDate(Exec(s)) /\ ~OutOfDate(Post(s))
      BY <2>1, <2>4, ExecIsTarget, PostIsTarget DEF SettledIsUpToDate
    <2>6. CASE s \in broken
      BY <2>3, <2>6 DEF Marks
    <2>7. CASE s \notin broken
      BY <2>1, <2>3, <2>5, <2>7 DEF ExecMeansThere, PostMeansAccepted
    <2>8. QED
      BY <2>6, <2>7
  <1>2. QED
    BY <1>1, AlwaysPulled, PTL

=============================================================================
