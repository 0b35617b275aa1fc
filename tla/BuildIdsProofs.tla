-------------------------- MODULE BuildIdsProofs ---------------------------
(***************************************************************************)
(* Numbering is safe for any set of nodes, any leftover directories and    *)
(* any listing order.                                                      *)
(***************************************************************************)
EXTENDS BuildIds, FiniteSetTheorems, TLAPS

\* The directories the scan has been given so far.
Seen == dirs \ listing

\* Without contention the scan has recorded exactly what it has seen of the
\* nodes of the graph.
ScanRecords ==
  stage = "scan" /\ NoContention =>
    /\ \A d \in Seen : d[2] \in Members(order) =>
         d[2] \in DOMAIN build_ids /\ build_ids[d[2]] = d[1]
    /\ \A n \in DOMAIN build_ids : <<build_ids[n], n>> \in Seen

\* The numbering loop has left no node behind.
LoopNumbers ==
  stage = "assign" =>
    /\ pos # 0
    /\ \A k \in DOMAIN order : k < pos => order[k] \in DOMAIN build_ids

\* Only a scan has directories left to see.
ListedWhileScanning == stage # "scan" => listing = {}

IInv ==
  /\ TypeOK /\ UniqueIds /\ EveryNodeNumbered /\ NumbersPreserved
  /\ ScanRecords /\ LoopNumbers /\ ListedWhileScanning

\* Numbering one node of the graph with a number nobody has.
LEMMA NumberedOne ==
  ASSUME TypeOK, UniqueIds, NEW n \in Members(order), NEW id \in Nat,
         id \notin Claimed, Numbered(n, id), order' = order
  PROVE  /\ DOMAIN build_ids' = DOMAIN build_ids \cup {n}
         /\ build_ids'[n] = id
         /\ \A m \in DOMAIN build_ids : m # n => build_ids'[m] = build_ids[m]
         /\ build_ids' \in [DOMAIN build_ids' -> Nat]
         /\ DOMAIN build_ids' \subseteq Members(order)
         /\ UniqueIds'
  <1>1. /\ DOMAIN build_ids' = DOMAIN build_ids \cup {n}
        /\ build_ids'[n] = id
        /\ \A m \in DOMAIN build_ids : m # n => build_ids'[m] = build_ids[m]
        /\ build_ids' \in [DOMAIN build_ids' -> Nat]
        /\ DOMAIN build_ids' \subseteq Members(order)
    BY DEF Numbered, TypeOK
  <1>2. \A m \in DOMAIN build_ids : build_ids[m] # id
    BY DEF Claimed
  <1>3. UniqueIds'
    BY <1>1, <1>2 DEF UniqueIds
  <1>4. QED
    BY <1>1, <1>3

LEMMA OrdersAreSequences ==
  ASSUME NEW s \in Orders
  PROVE  s \in Seq(Node)
  <1>1. PICK S \in SUBSET Node : s \in [1..Cardinality(S) -> S]
    BY DEF Orders
  <1>2. IsFiniteSet(S)
    BY NodeAssumption, FS_Subset
  <1>3. Cardinality(S) \in Nat
    BY <1>2, FS_CardinalityType
  <1>4. QED
    BY <1>1, <1>3

LEMMA InitIInv ==
  ASSUME Init
  PROVE  IInv
  BY DEF Init, IInv, TypeOK, UniqueIds, EveryNodeNumbered, NumbersPreserved,
         ScanRecords, LoopNumbers, ListedWhileScanning, Members

LEMMA ScanDirStep ==
  ASSUME IInv, NEW d \in listing, ScanDir(d)
  PROVE  IInv'
  <1> USE DEF IInv
  <1>1. /\ stage = "scan" /\ listing' = listing \ {d}
        /\ UNCHANGED <<dirs, order, stage, pos, i, runs>>
    BY DEF ScanDir
  <1>2. d \in dirs /\ d[1] \in Nat /\ d[2] \in Node /\ d = <<d[1], d[2]>>
    BY DEF TypeOK
  <1>3. CASE d[2] \in Members(order) /\ d[1] \notin Claimed
    <2>1. Numbered(d[2], d[1])
      BY <1>3 DEF ScanDir
    <2>2. /\ DOMAIN build_ids' = DOMAIN build_ids \cup {d[2]}
          /\ build_ids'[d[2]] = d[1]
          /\ \A m \in DOMAIN build_ids : m # d[2] => build_ids'[m] = build_ids[m]
          /\ build_ids' \in [DOMAIN build_ids' -> Nat]
          /\ DOMAIN build_ids' \subseteq Members(order)
          /\ UniqueIds'
      BY <1>1, <1>2, <1>3, <2>1, NumberedOne
    <2>3. TypeOK'
      BY <1>1, <2>2 DEF TypeOK, Members
    <2>4. ScanRecords'
      <3>1. SUFFICES ASSUME NoContention
                     PROVE /\ \A e \in dirs \ (listing \ {d}) : e[2] \in Members(order) =>
                                e[2] \in DOMAIN build_ids' /\ build_ids'[e[2]] = e[1]
                           /\ \A n \in DOMAIN build_ids' :
                                <<build_ids'[n], n>> \in dirs \ (listing \ {d})
        BY <1>1 DEF ScanRecords, Seen, NoContention, Members
      <3>2. \A e \in Seen : e # d /\ e \in dirs
        BY DEF Seen
      <3>3. \A e \in Seen : e[2] # d[2]
        BY <1>2, <3>1, <3>2 DEF NoContention
      <3>4. dirs \ (listing \ {d}) = Seen \cup {d}
        BY <1>2 DEF Seen
      <3>5. d[2] \notin DOMAIN build_ids
        <4>1. SUFFICES ASSUME d[2] \in DOMAIN build_ids PROVE FALSE
          OBVIOUS
        <4>2. <<build_ids[d[2]], d[2]>> \in Seen
          BY <1>1, <3>1, <4>1 DEF ScanRecords
        <4>3. QED
          BY <3>3, <4>2
      <3>6. QED
        BY <1>1, <1>2, <2>2, <3>1, <3>3, <3>4, <3>5 DEF ScanRecords
    <2>5. QED
      BY <1>1, <2>2, <2>3, <2>4 DEF EveryNodeNumbered, NumbersPreserved, LoopNumbers,
                                  ListedWhileScanning
  <1>4. CASE ~(d[2] \in Members(order) /\ d[1] \notin Claimed)
    <2>1. build_ids' = build_ids
      BY <1>4 DEF ScanDir
    <2>2. TypeOK' /\ UniqueIds'
      BY <1>1, <2>1 DEF TypeOK, UniqueIds, Members
    <2>3. ScanRecords'
      <3>1. SUFFICES ASSUME NoContention
                     PROVE /\ \A e \in dirs \ (listing \ {d}) : e[2] \in Members(order) =>
                                e[2] \in DOMAIN build_ids /\ build_ids[e[2]] = e[1]
                           /\ \A n \in DOMAIN build_ids :
                                <<build_ids[n], n>> \in dirs \ (listing \ {d})
        BY <1>1, <2>1 DEF ScanRecords, Seen, NoContention, Members
      <3>2. dirs \ (listing \ {d}) = Seen \cup {d}
        BY <1>2 DEF Seen
      <3>3. d[1] \notin Claimed
        <4>1. SUFFICES ASSUME NEW n \in DOMAIN build_ids, build_ids[n] = d[1] PROVE FALSE
          BY DEF Claimed
        <4>2. <<build_ids[n], n>> \in Seen
          BY <1>1, <3>1 DEF ScanRecords
        <4>3. <<build_ids[n], n>> \in dirs /\ <<build_ids[n], n>> # d
          BY <4>2 DEF Seen
        <4>4. QED
          BY <1>2, <3>1, <4>1, <4>3 DEF NoContention
      <3>4. d[2] \notin Members(order)
        BY <1>4, <3>3
      <3>5. QED
        BY <1>1, <3>1, <3>2, <3>4 DEF ScanRecords
    <2>4. QED
      BY <1>1, <2>1, <2>2, <2>3 DEF EveryNodeNumbered, NumbersPreserved, LoopNumbers,
                                       ListedWhileScanning
  <1>5. QED
    BY <1>3, <1>4

LEMMA AssignStep ==
  ASSUME IInv, Assign
  PROVE  IInv'
  <1> USE DEF IInv
  <1>1. /\ stage = "assign" /\ pos \in DOMAIN order /\ pos' = pos + 1
        /\ UNCHANGED <<dirs, order, stage, listing, runs>>
    BY DEF Assign
  <1>2. order[pos] \in Members(order) /\ Members(order)' = Members(order)
    BY <1>1 DEF Members
  <1>3. DOMAIN order \subseteq Nat
    BY DEF TypeOK
  <1>4. CASE order[pos] \in DOMAIN build_ids
    <2>1. build_ids' = build_ids /\ i' = i
      BY <1>4 DEF Assign
    <2>2. TypeOK' /\ UniqueIds' /\ NumbersPreserved'
      BY <1>1, <1>2, <2>1 DEF TypeOK, UniqueIds, NumbersPreserved, NoContention
    <2>3. LoopNumbers'
      BY <1>1, <1>3, <1>4, <2>1 DEF LoopNumbers
    <2>4. QED
      BY <1>1, <2>2, <2>3 DEF EveryNodeNumbered, ScanRecords, ListedWhileScanning
  <1>5. CASE order[pos] \notin DOMAIN build_ids
    <2>1. PICK id \in i..(i + Cardinality(Node)) :
            id \notin Claimed /\ Numbered(order[pos], id) /\ i' = id + 1
      BY <1>5 DEF Assign
    <2>2. i \in Nat /\ Cardinality(Node) \in Nat
      BY NodeAssumption, FS_CardinalityType DEF TypeOK
    <2>3. id \in Nat
      BY <2>2
    <2>4. /\ DOMAIN build_ids' = DOMAIN build_ids \cup {order[pos]}
          /\ build_ids'[order[pos]] = id
          /\ \A m \in DOMAIN build_ids : m # order[pos] => build_ids'[m] = build_ids[m]
          /\ build_ids' \in [DOMAIN build_ids' -> Nat]
          /\ DOMAIN build_ids' \subseteq Members(order)
          /\ UniqueIds'
      BY <1>1, <1>2, <2>1, <2>3, NumberedOne
    <2>5. TypeOK'
      BY <1>1, <1>2, <2>1, <2>3, <2>4 DEF TypeOK
    <2>6. NumbersPreserved'
      BY <1>1, <1>2, <1>5, <2>4 DEF NumbersPreserved, NoContention
    <2>7. LoopNumbers'
      BY <1>1, <1>3, <2>4 DEF LoopNumbers
    <2>8. QED
      BY <1>1, <2>4, <2>5, <2>6, <2>7 DEF EveryNodeNumbered, ScanRecords, ListedWhileScanning
  <1>6. QED
    BY <1>4, <1>5

LEMMA NextIInv ==
  ASSUME IInv, [Next]_vars
  PROVE  IInv'
  <1> USE DEF IInv
  <1>1. ASSUME NEW s \in Orders, StartRun(s) PROVE IInv'
    <2>1. /\ order' = s /\ build_ids' = [n \in {} |-> 0] /\ stage' = "scan"
          /\ listing' = dirs /\ runs' = runs + 1 /\ UNCHANGED <<dirs, pos, i>>
      BY <1>1 DEF StartRun
    <2>2. s \in Seq(Node)
      BY OrdersAreSequences
    <2>3. TypeOK' /\ UniqueIds'
      BY <2>1, <2>2 DEF TypeOK, UniqueIds, Members
    <2>4. ScanRecords'
      BY <2>1 DEF ScanRecords, Seen
    <2>5. QED
      BY <2>1, <2>3, <2>4 DEF EveryNodeNumbered, NumbersPreserved, LoopNumbers,
                                  ListedWhileScanning
  <1>2. ASSUME NEW d \in listing, ScanDir(d) PROVE IInv'
    BY <1>2, ScanDirStep
  <1>3. CASE ScanDone
    <2>1. /\ stage = "scan" /\ listing = {} /\ stage' = "assign" /\ pos' = 1 /\ i' = 0
          /\ UNCHANGED <<dirs, order, build_ids, listing, runs>>
      BY <1>3 DEF ScanDone
    <2>2. TypeOK' /\ UniqueIds'
      BY <2>1 DEF TypeOK, UniqueIds, Members
    <2>3. NumbersPreserved'
      BY <2>1 DEF NumbersPreserved, ScanRecords, Seen, NoContention, Members
    <2>4. LoopNumbers'
      BY <2>1 DEF LoopNumbers, TypeOK
    <2>5. QED
      BY <2>1, <2>2, <2>3, <2>4 DEF EveryNodeNumbered, ScanRecords, ListedWhileScanning
  <1>4. CASE Assign
    BY <1>4, AssignStep
  <1>5. CASE AssignDone
    <2>1. /\ stage = "assign" /\ pos \notin DOMAIN order /\ stage' = "configured"
          /\ UNCHANGED <<dirs, order, build_ids, listing, pos, i, runs>>
      BY <1>5 DEF AssignDone
    <2>2. TypeOK' /\ UniqueIds'
      BY <2>1 DEF TypeOK, UniqueIds, Members
    <2>3. EveryNodeNumbered'
      <3>1. pos \in Nat /\ DOMAIN order = 1..Len(order) /\ Len(order) \in Nat
        BY DEF TypeOK
      <3>2. pos # 0
        BY <2>1 DEF LoopNumbers
      <3>3. \A k \in DOMAIN order : k < pos
        BY <2>1, <3>1, <3>2
      <3>4. QED
        BY <2>1, <3>3 DEF EveryNodeNumbered, LoopNumbers, Members, TypeOK
    <2>4. QED
      BY <2>1, <2>2, <2>3 DEF NumbersPreserved, ScanRecords, LoopNumbers, ListedWhileScanning
  <1>6. ASSUME NEW n \in Node, Build(n) PROVE IInv'
    <2>1. /\ stage = "configured" /\ n \in Members(order)
          /\ dirs' = dirs \cup {<<build_ids[n], n>>}
          /\ UNCHANGED <<order, build_ids, stage, listing, pos, i, runs>>
      BY <1>6 DEF Build
    <2>2. build_ids[n] \in Nat
      BY <2>1 DEF EveryNodeNumbered, TypeOK
    <2>3. TypeOK' /\ UniqueIds' /\ EveryNodeNumbered'
      BY <2>1, <2>2 DEF TypeOK, UniqueIds, EveryNodeNumbered, Members
    <2>4. QED
      BY <2>1, <2>3 DEF NumbersPreserved, ScanRecords, LoopNumbers, ListedWhileScanning
  <1>7. ASSUME NEW D, Clean(D) PROVE IInv'
    <2>1. /\ stage = "configured" /\ dirs' = dirs \ D
          /\ UNCHANGED <<order, build_ids, stage, listing, pos, i, runs>>
      BY <1>7 DEF Clean
    <2>2. QED
      BY <2>1 DEF TypeOK, UniqueIds, EveryNodeNumbered, Members,
                  NumbersPreserved, ScanRecords, LoopNumbers, ListedWhileScanning
  <1>8. CASE UNCHANGED vars
    BY <1>8 DEF vars, TypeOK, UniqueIds, EveryNodeNumbered, Members, NoContention,
                NumbersPreserved, ScanRecords, LoopNumbers, ListedWhileScanning, Seen
  <1>9. QED
    BY <1>1, <1>2, <1>3, <1>4, <1>5, <1>6, <1>7, <1>8 DEF Next

LEMMA AlwaysIInv == Spec => []IInv
  BY InitIInv, NextIInv, PTL DEF Spec

\* Every variable keeps its type.
THEOREM TypeCorrect == Spec => []TypeOK
  BY AlwaysIInv, PTL DEF IInv

\* No two nodes ever share a number.
THEOREM UniqueIdsHolds == Spec => []UniqueIds
  BY AlwaysIInv, PTL DEF IInv

\* Every node of a configured graph has a number.
THEOREM EveryNodeNumberedHolds == Spec => []EveryNodeNumbered
  BY AlwaysIInv, PTL DEF IInv

\* Existing directories that do not contend keep their numbers.
THEOREM NumbersPreservedHolds == Spec => []NumbersPreserved
  BY AlwaysIInv, PTL DEF IInv
=============================================================================
