--------------------------- MODULE NodeBuildProofs ---------------------------
(***************************************************************************)
(* What NodeBuild promises to the commands of a node, for every graph.     *)
(***************************************************************************)
EXTENDS NodeBuild, TLAPS

Stability == DOMAIN version = Node /\ ReadsAreStable

LEMMA BeginKeeps ==
  ASSUME Stability, NEW n \in Node, Begin(n)
  PROVE  Stability'
  <1> USE DEF Stability
  <1>1. /\ DOMAIN version' = Node
        /\ \A s \in Node : s # n => version'[s] = version[s]
    BY DEF Begin
  <1>2. ASSUME NEW m \in reading', NEW s \in Sources(m)
        PROVE  s \in good' /\ basis'[<<s, m>>] = version'[s]
    <2>1. s \in Node /\ <<s, m>> \in Edge /\ <<s, m>>[1] = s /\ <<s, m>>[2] = m
      BY DEF Sources
    <2>2. basis'[<<s, m>>] = IF m = n THEN version[s] ELSE basis[<<s, m>>]
      BY <2>1 DEF Begin
    <2>3. CASE m = n
      BY <1>1, <2>1, <2>2, <2>3 DEF Begin
    <2>4. CASE m # n
      <3>1. m \in reading /\ s # n
        BY <1>2, <2>4 DEF Begin, Quiet
      <3>2. s \in good /\ basis[<<s, m>>] = version[s]
        BY <3>1 DEF ReadsAreStable, UpToDate
      <3>3. QED
        BY <1>1, <2>1, <2>2, <2>4, <3>1, <3>2 DEF Begin
    <2>5. QED
      BY <2>3, <2>4
  <1>3. QED
    BY <1>1, <1>2 DEF ReadsAreStable, UpToDate

LEMMA DiscardKeeps ==
  ASSUME Stability, NEW S \in SUBSET Node, Discard(S)
  PROVE  Stability'
  <1> USE DEF Stability
  <1>1. /\ DOMAIN version' = Node
        /\ \A s \in Node : s \notin S => version'[s] = version[s]
    BY DEF Discard
  <1>2. ASSUME NEW m \in reading', NEW s \in Sources(m)
        PROVE  s \in good' /\ basis'[<<s, m>>] = version'[s]
    <2>1. s \in Node /\ <<s, m>> \in Edge /\ <<s, m>>[2] = m
      BY DEF Sources
    <2>2. m \in reading /\ m \notin S /\ s \notin S
      BY <1>2 DEF Discard, Quiet
    <2>3. s \in good /\ basis[<<s, m>>] = version[s]
      BY <2>2 DEF ReadsAreStable, UpToDate
    <2>4. QED
      BY <1>1, <2>1, <2>2, <2>3 DEF Discard
  <1>3. QED
    BY <1>1, <1>2 DEF ReadsAreStable, UpToDate

\* Everything a node reads is good and stays the one it started on, in every
\* order of starts, ends, failures and removals.
THEOREM ReadsAreStableHolds == Spec => []ReadsAreStable
  <1>1. Init => Stability
    BY DEF Init, Stability, ReadsAreStable
  <1>2. Stability /\ [Next]_vars => Stability'
    <2> SUFFICES ASSUME Stability, [Next]_vars PROVE Stability'
      OBVIOUS
    <2>1. CASE UNCHANGED vars
      BY <2>1 DEF vars, Stability, ReadsAreStable, UpToDate
    <2>2. ASSUME NEW n \in Node, Accept(n) \/ Unpin(n) PROVE Stability'
      BY <2>2 DEF Accept, Unpin, Stability, ReadsAreStable, UpToDate
    <2>3. ASSUME NEW S \in SUBSET Node, End(S) PROVE Stability'
      BY <2>3 DEF End, Stability, ReadsAreStable, UpToDate
    <2>4. QED
      BY <2>1, <2>2, <2>3, BeginKeeps, DiscardKeeps DEF Next
  <1>3. QED
    BY <1>1, <1>2, PTL DEF Spec, Stability
=============================================================================
