---------------------------- MODULE StashProofs -----------------------------
(***************************************************************************)
(* Stash, proved for any users, nodes, hashes and number of commands.      *)
(*                                                                         *)
(* Two lines of argument carry the theorems.  A hash that nobody had in use *)
(* when a push drew it is known to nobody else until its entry is written  *)
(* (Announced), so what a push clears away or fills is never a listed node *)
(* nor one that another process works on; that holds with any interleaving *)
(* and kills, for each hash whatever became of the others.                 *)
(* As long as users take turns, the only process at work relates the list  *)
(* it has read to the directories of the stash at each of its steps        *)
(* (Doing), and restores their agreement at the end (Orderly).             *)
(***************************************************************************)
EXTENDS Stash, FiniteSetTheorems, SequenceTheorems, TLAPS

\* A process that ended has forgotten the list.
Resting == \A u \in User : proc[u].at = "idle" => proc[u].stash = <<>>

\* A push has a hash that no list has and no other process works on, unless it
\* has drawn one that was in use.
Announced ==
  \A u \in User : proc[u].at \in {"mkdir", "copy"} /\ proc[u].dir[2] \notin reused =>
    /\ ~HasHash(meta.list, proc[u].dir[2])
    /\ \A w \in User :
         /\ ~HasHash(proc[w].stash, proc[u].dir[2])
         /\ w # u /\ proc[w].at # "idle" => proc[w].dir[2] # proc[u].dir[2]

\* Pull and drop work on an entry of the list they have read.
InStash ==
  \A u \in User : proc[u].at \in {"rmtree", "fetch", "flag", "drop", "remove"} =>
    proc[u].dir \in ToSet(proc[u].stash)

\* What pull has fetched is what it wanted, as complete as the copy is now unless
\* a second push has filled it.
Fetched ==
  \A u \in User :
    LET mine == local[u][proc[u].dir[1]] IN
    /\ proc[u].at = "flag" \/ (proc[u].pop /\ proc[u].at = "drop") =>
         /\ mine.of = proc[u].dir
         /\ copies[proc[u].dir] = "whole" /\ proc[u].dir[2] \notin reused =>
              mine.state = "whole"
    /\ proc[u].pop /\ proc[u].at = "drop" => mine.prebuilt

\* The directories of the stash, and a list that names each of its entries by a
\* hash of its own.
Kept == {d \in Dir : copies[d] # "absent"}

OneEach(s) == \A i, j \in 1 .. Len(s) : s[i][2] = s[j][2] => i = j

\* The list agrees with the directories.
Matches == meta.form = "list" /\ Entries = Kept

\* What the list and the directories have to do with each other while a process
\* works alone.
Doing(p) ==
  /\ OneEach(p.stash)
  /\ p.at \in {"mkdir", "rmtree", "fetch", "flag", "drop", "remove"} =>
       Matches /\ p.stash = meta.list
  /\ p.at \in {"mkdir", "copy"} => ~HasHash(p.stash, p.dir[2])
  /\ p.at = "mkdir" => copies[p.dir] = "absent"
  /\ p.at = "copy" => /\ meta.form = "list" /\ p.stash = meta.list
                     /\ Entries = Kept \ {p.dir} /\ copies[p.dir] # "absent"
  /\ p.at = "open" => ToSet(p.stash) = Kept
  /\ p.at = "write" => ToSet(p.stash) = Kept /\ meta.form = "empty"
  /\ p.at = "describe" => Matches

\* Users have taken turns so far.
Orderly ==
  orderly =>
    /\ OneAtWork
    /\ AtRest => Matches
    /\ OneEach(meta.list)
    /\ \A u \in User : Doing(proc[u])

-----------------------------------------------------------------------------
\* The least number of a set of naturals is in it: the intervals up to its
\* members are finite sets, so one of them has no other below it.
LEMMA MinIsLeast ==
  ASSUME NEW I \in SUBSET Nat, I # {}
  PROVE  Min(I) \in I /\ \A y \in I : Min(I) <= y
  <1> DEFINE T == {0 .. i : i \in I}
             R == StrictSubsetOrdering(Nat)
  <1>1. \A i \in I : IsFiniteSet(0 .. i)
    BY FS_Interval
  <1>2. T \subseteq FiniteSubsetsOf(Nat) /\ T # {}
    <2>1. \A i \in I : 0 .. i \in SUBSET Nat
      OBVIOUS
    <2>2. \A i \in I : 0 .. i \in FiniteSubsetsOf(Nat)
      BY <1>1, <2>1 DEF FiniteSubsetsOf
    <2>3. QED
      BY <2>2
  <1>3. IsWellFoundedOn(R, FiniteSubsetsOf(Nat))
    BY FS_StrictSubsetOrderingWellFounded
  <1> HIDE DEF R, T
  <1>4. PICK x \in T : \A y \in T : ~ (<<y, x>> \in R)
    BY <1>2, <1>3, WFMin
  <1>5. PICK m \in I : x = 0 .. m
    BY DEF T
  <1>6. ASSUME NEW y \in I PROVE m <= y
    <2>1. SUFFICES ASSUME y < m PROVE FALSE
      OBVIOUS
    <2>2. 0 .. y \in T /\ 0 .. y \subseteq 0 .. m /\ m \in 0 .. m /\ m \notin 0 .. y
      BY <2>1 DEF T
    <2>3. <<0 .. y, x>> \in R
      BY <1>5, <2>2 DEF R, StrictSubsetOrdering
    <2>4. QED
      BY <1>4, <2>2, <2>3
  <1>7. QED
    BY <1>6 DEF Min

\* What get_hash_index_in_stash finds: an entry with the hash.
LEMMA IndexOfHash ==
  ASSUME NEW s \in Seq(Dir), NEW h, HasHash(s, h)
  PROVE  HashIndex(s, h) \in 1 .. Len(s) /\ s[HashIndex(s, h)][2] = h
  <1> DEFINE I == {i \in 1 .. Len(s) : s[i][2] = h}
  <1>1. I # {} /\ I \in SUBSET Nat
    BY DEF HasHash, ToSet
  <1>2. HashIndex(s, h) = IF I # {} THEN Min(I) ELSE 0
    BY DEF HashIndex, SelectInSeq
  <1>3. Min(I) \in I
    BY <1>1, MinIsLeast
  <1>4. QED
    BY <1>1, <1>2, <1>3

\* The set of the entries of a list.
LEMMA Members ==
  ASSUME NEW s \in Seq(Dir)
  PROVE  /\ ToSet(s) \subseteq Dir
         /\ \A d : d \in ToSet(s) <=> \E i \in 1 .. Len(s) : s[i] = d
  BY DEF ToSet

\* What push does to the list.
LEMMA Appended ==
  ASSUME NEW s \in Seq(Dir), NEW d \in Dir
  PROVE  /\ Append(s, d) \in Seq(Dir)
         /\ ToSet(Append(s, d)) = ToSet(s) \cup {d}
         /\ OneEach(s) /\ ~HasHash(s, d[2]) => OneEach(Append(s, d))
  <1> DEFINE t == Append(s, d)
  <1>1. /\ t \in Seq(Dir) /\ Len(t) = Len(s) + 1
        /\ \A i \in 1 .. Len(s) : t[i] = s[i]
        /\ t[Len(s) + 1] = d
    OBVIOUS
  <1> HIDE DEF t
  <1>2. ToSet(t) = ToSet(s) \cup {d}
    BY <1>1, Members
  <1>3. ASSUME OneEach(s), ~HasHash(s, d[2]) PROVE OneEach(t)
    <2>1. \A i \in 1 .. Len(s) : s[i][2] # d[2]
      BY <1>3, Members DEF HasHash
    <2>2. QED
      BY <1>1, <1>3, <2>1 DEF OneEach
  <1>4. QED
    BY <1>1, <1>2, <1>3 DEF t

\* What drop does to the list.
LEMMA Removed ==
  ASSUME NEW s \in Seq(Dir), NEW i \in 1 .. Len(s)
  PROVE  /\ RemoveAt(s, i) \in Seq(Dir)
         /\ ToSet(RemoveAt(s, i)) \subseteq ToSet(s)
         /\ OneEach(s) => /\ OneEach(RemoveAt(s, i))
                          /\ ToSet(RemoveAt(s, i)) = ToSet(s) \ {s[i]}
  <1> DEFINE a == SubSeq(s, 1, i - 1)
             b == SubSeq(s, i + 1, Len(s))
             t == a \o b
  <1>1. a \in Seq(Dir) /\ Len(a) = i - 1 /\ \A j \in 1 .. i - 1 : a[j] = s[j]
    OBVIOUS
  <1>2. b \in Seq(Dir) /\ Len(b) = Len(s) - i /\ \A j \in 1 .. Len(s) - i : b[j] = s[i + j]
    OBVIOUS
  <1>3. RemoveAt(s, i) = t
    BY DEF RemoveAt
  <1>4. Len(s) \in Nat /\ i \in 1 .. Len(s)
    OBVIOUS
  <1> HIDE DEF a, b
  <1>5. t \in Seq(Dir) /\ Len(t) = Len(s) - 1
    <2>1. t \in Seq(Dir) /\ Len(t) = Len(a) + Len(b)
      BY <1>1, <1>2, ConcatProperties
    <2>2. Len(a) + Len(b) = Len(s) - 1
      BY <1>1, <1>2, <1>4
    <2>3. QED
      BY <2>1, <2>2
  <1>6. \A j \in 1 .. Len(s) - 1 : t[j] = IF j < i THEN a[j] ELSE b[j - i + 1]
    BY <1>1, <1>2, <1>4
  <1> HIDE DEF t
  <1>7. \A j \in 1 .. Len(s) - 1 : t[j] = IF j < i THEN s[j] ELSE s[j + 1]
    BY <1>1, <1>2, <1>4, <1>6
  <1>8. ToSet(t) \subseteq ToSet(s)
    BY <1>4, <1>5, <1>7, Members
  <1>9. ASSUME OneEach(s) PROVE OneEach(t) /\ ToSet(t) = ToSet(s) \ {s[i]}
    <2>1. OneEach(t)
      BY <1>4, <1>5, <1>7, <1>9 DEF OneEach
    <2>2. s[i] \notin ToSet(t)
      BY <1>4, <1>5, <1>7, <1>9, Members DEF OneEach
    <2>3. ASSUME NEW j \in 1 .. Len(s), j # i PROVE s[j] \in ToSet(t)
      <3>1. CASE j < i
        BY <1>4, <1>5, <1>7, <3>1, Members
      <3>2. CASE j > i
        <4>1. j - 1 \in 1 .. Len(s) - 1 /\ t[j - 1] = s[j]
          BY <1>4, <1>7, <3>2
        <4>2. QED
          BY <1>5, <4>1, Members
      <3>3. QED
        BY <1>4, <2>3, <3>1, <3>2
    <2>4. QED
      BY <1>8, <2>1, <2>2, <2>3, Members
  <1>10. QED
    BY <1>3, <1>5, <1>8, <1>9
-----------------------------------------------------------------------------
(* Types.                                                                  *)

Entry == [at : At, stash : Seq(Dir), dir : Dir \cup {None}, pop : BOOLEAN]

Build == [of : Dir \cup {None}, state : {"none", "broken", "part", "whole"},
          prebuilt : BOOLEAN]

LEMMA TypeInit ==
  ASSUME Init
  PROVE  TypeOK
  <1>1. proc \in [User -> Entry] /\ \A u \in User : proc[u].at = "idle"
    BY DEF Init, Idle, Process, Entry, At
  <1>2. /\ local \in [User -> [Node -> Build]]
        /\ \A u \in User, n \in Node : local[u][n].of = None
    BY DEF Init, NoBuild, Build
  <1>3. QED
    BY <1>1, <1>2 DEF Init, TypeOK, Entry, Build

\* A command that starts reads the list and settles on an entry of it.
LEMMA TypeProcess ==
  ASSUME TypeOK, NEW u \in User, NEW p \in Entry, p.at # "idle" => p.dir \in Dir,
         proc' = [proc EXCEPT ![u] = p]
  PROVE  /\ proc' \in [User -> Entry]
         /\ \A w \in User : proc'[w].at # "idle" => proc'[w].dir \in Dir
  BY DEF TypeOK, Entry

\* The next step of a command keeps what the command has read.
LEMMA GoesTo ==
  ASSUME TypeOK, NEW u \in User, NEW a \in At, Goes(u, a)
  PROVE  LET p == Process(a, proc[u].stash, proc[u].dir, proc[u].pop)
         IN  p \in Entry /\ proc' = [proc EXCEPT ![u] = p]
  <1> DEFINE p == Process(a, proc[u].stash, proc[u].dir, proc[u].pop)
  <1>1. proc[u] \in Entry
    BY DEF TypeOK, Entry
  <1>2. [proc[u] EXCEPT !.at = a] = p
    BY <1>1 DEF Entry, Process
  <1>3. p \in Entry
    BY <1>1 DEF Entry, Process
  <1>4. proc' = [proc EXCEPT ![u] = [proc[u] EXCEPT !.at = a]]
    BY DEF Goes
  <1>5. QED
    BY <1>2, <1>3, <1>4

LEMMA TypeGoes ==
  ASSUME TypeOK, NEW u \in User, proc[u].at # "idle", NEW a \in At, Goes(u, a)
  PROVE  /\ proc' \in [User -> Entry]
         /\ \A w \in User : proc'[w].at # "idle" => proc'[w].dir \in Dir
  <1> DEFINE p == Process(a, proc[u].stash, proc[u].dir, proc[u].pop)
  <1>1. p \in Entry /\ p.dir \in Dir /\ proc' = [proc EXCEPT ![u] = p]
    BY GoesTo DEF TypeOK, Process
  <1>2. QED
    BY <1>1, TypeProcess

LEMMA TypeEnds ==
  ASSUME TypeOK, NEW u \in User, Ends(u)
  PROVE  /\ proc' \in [User -> Entry]
         /\ \A w \in User : proc'[w].at # "idle" => proc'[w].dir \in Dir
  <1>1. Idle \in Entry /\ Idle.at = "idle"
    BY DEF Idle, Process, Entry, At
  <1>2. QED
    BY <1>1, TypeProcess DEF Ends

LEMMA Flagged ==
  ASSUME NEW b, b \in Build, NEW p, p \in BOOLEAN
  PROVE  [b EXCEPT !.prebuilt = p] = [of |-> b.of, state |-> b.state, prebuilt |-> p]
  BY DEF Build

LEMMA Broken ==
  ASSUME NEW b, b \in Build, NEW p, p \in BOOLEAN
  PROVE  [[b EXCEPT !.state = "broken"] EXCEPT !.prebuilt = p] =
           [of |-> b.of, state |-> "broken", prebuilt |-> p]
  <1> DEFINE c == [b EXCEPT !.state = "broken"]
  <1>1. c \in Build /\ c.of = b.of /\ c.state = "broken"
    BY DEF Build
  <1>2. QED
    BY <1>1, Flagged

LEMMA TypeLocal ==
  ASSUME TypeOK, NEW u \in User, NEW n \in Node, NEW b \in Build,
         b.of \in ({n} \X Hash) \cup {None}, local' = [local EXCEPT ![u][n] = b]
  PROVE  /\ local' \in [User -> [Node -> Build]]
         /\ \A w \in User, m \in Node : local'[w][m].of \in ({m} \X Hash) \cup {None}
  <1>1. local \in [User -> [Node -> Build]]
    BY DEF TypeOK, Build
  <1>2. /\ local' \in [User -> [Node -> Build]]
        /\ \A w \in User, m \in Node :
             local'[w][m] = IF w = u /\ m = n THEN b ELSE local[w][m]
    BY <1>1
  <1>3. QED
    BY <1>2 DEF TypeOK

\* The entry that pull and drop settle on.
LEMMA Listed ==
  ASSUME TypeOK, NEW h, HasHash(meta.list, h)
  PROVE  LET d == meta.list[HashIndex(meta.list, h)]
         IN  d \in Dir /\ d[2] = h /\ d \in Entries
  <1>1. meta.list \in Seq(Dir)
    BY DEF TypeOK
  <1>2. /\ HashIndex(meta.list, h) \in 1 .. Len(meta.list)
        /\ meta.list[HashIndex(meta.list, h)][2] = h
    BY <1>1, IndexOfHash
  <1>3. QED
    BY <1>1, <1>2, Members DEF Entries

\* Two updates of a process in one.
LEMMA OpensWith ==
  ASSUME TypeOK, NEW u \in User, NEW t,
         LET f == [proc EXCEPT ![u].at = "open"] IN proc' = [f EXCEPT ![u].stash = t]
  PROVE  proc' = [proc EXCEPT ![u] = Process("open", t, proc[u].dir, proc[u].pop)]
  <1> DEFINE f == [proc EXCEPT ![u].at = "open"]
             p == Process("open", t, proc[u].dir, proc[u].pop)
  <1>1. proc[u] \in Entry
    BY DEF TypeOK, Entry
  <1>2. f[u] = Process("open", proc[u].stash, proc[u].dir, proc[u].pop)
    BY <1>1 DEF TypeOK, Entry, Process
  <1>3. [f[u] EXCEPT !.stash = t] = p
    BY <1>2 DEF Process
  <1>4. proc' = [f EXCEPT ![u] = p]
    BY <1>3
  <1>5. QED
    BY <1>4 DEF TypeOK

\* What push appends, in one update of its process.
LEMMA CopiedMove ==
  ASSUME TypeOK, NEW u \in User, PushCopy(u)
  PROVE  LET p == Process("open", Append(proc[u].stash, proc[u].dir), proc[u].dir,
                          proc[u].pop)
         IN  p \in Entry /\ p.dir \in Dir /\ proc' = [proc EXCEPT ![u] = p]
  <1> DEFINE p == Process("open", Append(proc[u].stash, proc[u].dir), proc[u].dir,
                          proc[u].pop)
  <1>1. proc[u] \in Entry /\ proc[u].dir \in Dir
    BY DEF PushCopy, TypeOK, Entry
  <1>2. p \in Entry /\ p.dir \in Dir
    BY <1>1, Appended DEF Process, Entry, At
  <1>3. proc' = [proc EXCEPT ![u] = p]
    <2> DEFINE f == [proc EXCEPT ![u].at = "open"]
               t == Append(proc[u].stash, proc[u].dir)
    <2>1. f[u].stash = proc[u].stash
      BY <1>1 DEF TypeOK, Entry
    <2>2. proc' = [f EXCEPT ![u].stash = Append(f[u].stash, proc[u].dir)]
      BY DEF PushCopy
    <2>3. proc' = [f EXCEPT ![u].stash = t]
      BY <2>1, <2>2
    <2> HIDE DEF t
    <2>4. QED
      BY <2>3, OpensWith DEF t
  <1>4. QED
    BY <1>2, <1>3

LEMMA TypePush ==
  ASSUME TypeOK, NEW u \in User, orderly' \in BOOLEAN,
         (\E n \in Node, h \in Hash : StartPush(u, n, h)) \/ PushMkdir(u) \/ PushCopy(u)
  PROVE  TypeOK'
  <1>1. ASSUME NEW n \in Node, NEW h \in Hash, StartPush(u, n, h)
        PROVE  TypeOK'
    <2> DEFINE p == Process("mkdir", meta.list, <<n, h>>, FALSE)
    <2>1. p \in Entry /\ p.dir \in Dir
      BY DEF TypeOK, Process, Entry, At, Dir
    <2>2. proc' = [proc EXCEPT ![u] = p] /\ commands' \in Nat /\ reused' \subseteq Hash
      BY <1>1 DEF StartPush, Starts, Draws, TypeOK
    <2>3. /\ proc' \in [User -> Entry]
          /\ \A w \in User : proc'[w].at # "idle" => proc'[w].dir \in Dir
      BY <2>1, <2>2, TypeProcess
    <2>4. QED
      BY <1>1, <2>2, <2>3 DEF StartPush, TypeOK, Entry
  <1>2. CASE PushMkdir(u)
    <2>1. /\ proc[u].at # "idle" /\ "copy" \in At
          /\ Goes(u, "copy") \/ Ends(u)
          /\ copies' \in [Dir -> {"absent", "part", "whole"}]
      BY <1>2 DEF PushMkdir, TypeOK, At
    <2>2. /\ proc' \in [User -> Entry]
          /\ \A w \in User : proc'[w].at # "idle" => proc'[w].dir \in Dir
      BY <2>1, TypeGoes, TypeEnds
    <2>3. QED
      BY <1>2, <2>1, <2>2 DEF PushMkdir, TypeOK, Entry
  <1>3. CASE PushCopy(u)
    <2>1. /\ proc' \in [User -> Entry]
          /\ \A w \in User : proc'[w].at # "idle" => proc'[w].dir \in Dir
      BY <1>3, CopiedMove, TypeProcess
    <2>2. copies' \in [Dir -> {"absent", "part", "whole"}]
      <3>1. PICK c \in {"absent", "part", "whole"} :
              copies' = [copies EXCEPT ![proc[u].dir] = c]
        BY <1>3 DEF PushCopy
      <3>2. QED
        BY <3>1 DEF TypeOK
    <2>3. QED
      BY <1>3, <2>1, <2>2 DEF PushCopy, TypeOK, Entry
  <1>4. QED
    BY <1>1, <1>2, <1>3

LEMMA TypeYaml ==
  ASSUME TypeOK, NEW u \in User, orderly' \in BOOLEAN,
         OpenYaml(u) \/ WriteYaml(u) \/ PushDescribe(u)
  PROVE  TypeOK'
  <1>1. /\ proc[u].at # "idle" /\ {"write", "describe"} \subseteq At
        /\ Goes(u, "write") \/ Goes(u, "describe") \/ Ends(u)
    BY DEF OpenYaml, WriteYaml, PushDescribe, At
  <1>2. /\ proc' \in [User -> Entry]
        /\ \A w \in User : proc'[w].at # "idle" => proc'[w].dir \in Dir
    BY <1>1, TypeGoes, TypeEnds
  <1>3. proc[u].stash \in Seq(Dir) /\ <<>> \in Seq(Dir)
    BY DEF TypeOK
  <1>4. /\ meta' \in [form : {"list", "empty", "garbled"}, list : Seq(Dir)]
        /\ meta'.form # "list" => meta'.list = <<>>
    <2>1. \/ meta' = [form |-> "empty", list |-> <<>>]
          \/ meta' = [form |-> "list", list |-> proc[u].stash]
          \/ meta' = [form |-> "garbled", list |-> <<>>]
          \/ meta' = meta
      BY DEF OpenYaml, WriteYaml, PushDescribe
    <2>2. ASSUME NEW f \in {"list", "empty", "garbled"}, NEW s \in Seq(Dir),
                 f # "list" => s = <<>>, meta' = [form |-> f, list |-> s]
          PROVE  /\ meta' \in [form : {"list", "empty", "garbled"}, list : Seq(Dir)]
                 /\ meta'.form # "list" => meta'.list = <<>>
      BY <2>2
    <2>3. CASE meta' = meta
      BY <2>3 DEF TypeOK
    <2>4. QED
      BY <1>3, <2>1, <2>2, <2>3
  <1>5. QED
    BY <1>2, <1>4 DEF OpenYaml, WriteYaml, PushDescribe, TypeOK, Entry

LEMMA TypePull ==
  ASSUME TypeOK, NEW u \in User, orderly' \in BOOLEAN,
         \/ \E h \in Hash, pop \in BOOLEAN : StartPull(u, h, pop)
         \/ PullRmtree(u) \/ PullCopytree(u) \/ PullFails(u) \/ PullFlag(u)
  PROVE  TypeOK'
  <1> DEFINE d == proc[u].dir
             b == local[u][d[1]]
  <1>1. ASSUME NEW h \in Hash, NEW pop \in BOOLEAN, StartPull(u, h, pop)
        PROVE  TypeOK'
    <2> DEFINE p == Process("rmtree", meta.list, meta.list[HashIndex(meta.list, h)], pop)
    <2>1. p \in Entry /\ p.dir \in Dir
      BY <1>1, Listed DEF StartPull, TypeOK, Process, Entry, At
    <2>2. proc' = [proc EXCEPT ![u] = p] /\ commands' \in Nat
      BY <1>1 DEF StartPull, Starts, TypeOK
    <2>3. /\ proc' \in [User -> Entry]
          /\ \A w \in User : proc'[w].at # "idle" => proc'[w].dir \in Dir
      BY <2>1, <2>2, TypeProcess
    <2>4. QED
      BY <1>1, <2>2, <2>3 DEF StartPull, TypeOK, Entry
  <1>2. ASSUME proc[u].at # "idle"
        PROVE  /\ d \in Dir /\ d[1] \in Node /\ d \in {d[1]} \X Hash
               /\ b \in Build /\ b.of \in ({d[1]} \X Hash) \cup {None}
    BY <1>2 DEF TypeOK, Build, Dir
  <1>3. NoBuild \in Build /\ NoBuild.of = None
    BY DEF NoBuild, Build
  <1>4. ASSUME PullRmtree(u) \/ PullCopytree(u) \/ PullFails(u) \/ PullFlag(u)
        PROVE  TypeOK'
    <2>1. /\ proc[u].at # "idle" /\ {"fetch", "flag", "drop"} \subseteq At
          /\ Ends(u) \/ \E a \in {"fetch", "flag", "drop"} : Goes(u, a)
      BY <1>4 DEF PullRmtree, PullCopytree, PullFails, PullFlag, At
    <2>2. /\ proc' \in [User -> Entry]
          /\ \A w \in User : proc'[w].at # "idle" => proc'[w].dir \in Dir
      BY <2>1, TypeGoes, TypeEnds
    <2>3. \/ UNCHANGED local
          \/ \E c \in Build : /\ c.of \in ({d[1]} \X Hash) \cup {None}
                              /\ local' = [local EXCEPT ![u][d[1]] = c]
      <3>1. CASE PullRmtree(u)
        <4>1. CASE local' = [local EXCEPT ![u][d[1]] = NoBuild]
          BY <1>3, <4>1
        <4>2. ASSUME NEW p \in {FALSE, b.prebuilt},
                     local' = [local EXCEPT ![u][d[1]].state = "broken",
                                            ![u][d[1]].prebuilt = p]
              PROVE  \E c \in Build : /\ c.of \in ({d[1]} \X Hash) \cup {None}
                                      /\ local' = [local EXCEPT ![u][d[1]] = c]
          <5> DEFINE c == [of |-> b.of, state |-> "broken", prebuilt |-> p]
          <5>1. c \in Build /\ c.of = b.of
            BY <1>2, <2>1 DEF Build
          <5>2. [[b EXCEPT !.state = "broken"] EXCEPT !.prebuilt = p] = c
            <6>1. b \in Build /\ p \in BOOLEAN
              BY <1>2, <2>1 DEF Build
            <6>2. QED
              BY <6>1, Broken
          <5>3. local' = [local EXCEPT ![u][d[1]] =
                            [[b EXCEPT !.state = "broken"] EXCEPT !.prebuilt = p]]
            <6> DEFINE f == [local EXCEPT ![u][d[1]].state = "broken"]
            <6>1. local' = [f EXCEPT ![u][d[1]].prebuilt = p]
              BY <4>2
            <6>2. f[u][d[1]] = [b EXCEPT !.state = "broken"]
              BY <1>2, <2>1 DEF TypeOK
            <6>3. QED
              BY <1>2, <2>1, <6>1, <6>2 DEF TypeOK
          <5>4. local' = [local EXCEPT ![u][d[1]] = c]
            BY <5>2, <5>3
          <5>5. QED
            BY <1>2, <2>1, <5>1, <5>4
        <4>3. QED
          BY <3>1, <4>1, <4>2 DEF PullRmtree
      <3>2. CASE PullCopytree(u)
        <4> DEFINE c == [of |-> d, state |-> copies[d], prebuilt |-> FALSE]
        <4>1. c \in Build /\ c.of \in {d[1]} \X Hash
          BY <1>2, <2>1, <3>2 DEF Build, TypeOK, PullCopytree
        <4>2. QED
          BY <3>2, <4>1 DEF PullCopytree
      <3>3. CASE PullFails(u)
        <4> DEFINE c == [of |-> d, state |-> "broken", prebuilt |-> FALSE]
        <4>1. c \in Build /\ c.of \in {d[1]} \X Hash
          BY <1>2, <2>1 DEF Build
        <4>2. QED
          BY <3>3, <4>1 DEF PullFails
      <3>4. CASE PullFlag(u)
        <4> DEFINE c == [of |-> b.of, state |-> b.state, prebuilt |-> TRUE]
        <4>1. c \in Build /\ c.of = b.of
          BY <1>2, <2>1 DEF Build
        <4>2. local' = [local EXCEPT ![u][d[1]] = c]
          <5>1. local' = [local EXCEPT ![u][d[1]] = [b EXCEPT !.prebuilt = TRUE]]
            BY <3>4 DEF PullFlag
          <5>2. [b EXCEPT !.prebuilt = TRUE] = c
            BY <1>2, <2>1, Flagged
          <5>3. QED
            BY <5>1, <5>2
        <4>3. QED
          BY <1>2, <2>1, <4>1, <4>2
      <3>5. QED
        BY <1>4, <3>1, <3>2, <3>3, <3>4
    <2>4. /\ local' \in [User -> [Node -> Build]]
          /\ \A w \in User, m \in Node : local'[w][m].of \in ({m} \X Hash) \cup {None}
      <3>1. CASE UNCHANGED local
        BY <3>1 DEF TypeOK, Build
      <3>2. QED
        BY <1>2, <2>1, <2>3, <3>1, TypeLocal
    <2>5. QED
      BY <1>4, <2>2, <2>4
      DEF PullRmtree, PullCopytree, PullFails, PullFlag, TypeOK, Entry, Build
  <1>5. QED
    BY <1>1, <1>4

\* Where drop finds its entry.
LEMMA DroppedIndex ==
  ASSUME TypeOK, InStash, NEW u \in User, proc[u].at = "remove"
  PROVE  LET s == proc[u].stash
             i == HashIndex(s, proc[u].dir[2])
         IN  /\ s \in Seq(Dir) /\ i \in 1 .. Len(s)
             /\ s[i][2] = proc[u].dir[2] /\ proc[u].dir \in ToSet(s)
  <1>1. proc[u].stash \in Seq(Dir) /\ proc[u].dir \in ToSet(proc[u].stash)
    BY DEF TypeOK, InStash
  <1>2. HasHash(proc[u].stash, proc[u].dir[2])
    BY <1>1 DEF HasHash
  <1>3. QED
    BY <1>1, <1>2, IndexOfHash

\* What drop removes, in one update of its process.
LEMMA DroppedMove ==
  ASSUME TypeOK, InStash, NEW u \in User, DropDone(u)
  PROVE  LET s == proc[u].stash
             i == HashIndex(s, proc[u].dir[2])
             p == Process("open", RemoveAt(s, i), proc[u].dir, proc[u].pop)
         IN  p \in Entry /\ p.dir \in Dir /\ proc' = [proc EXCEPT ![u] = p]
  <1> DEFINE s == proc[u].stash
             i == HashIndex(s, proc[u].dir[2])
             t == RemoveAt(s, i)
             p == Process("open", t, proc[u].dir, proc[u].pop)
             f == [proc EXCEPT ![u].at = "open"]
  <1>1. proc[u] \in Entry /\ proc[u].dir \in Dir
    BY DEF DropDone, TypeOK, Entry
  <1>2. t \in Seq(Dir)
    BY DroppedIndex, Removed DEF DropDone
  <1>3. p \in Entry /\ p.dir \in Dir
    BY <1>1, <1>2 DEF Process, Entry, At
  <1>4. f[u].stash = s
    BY <1>1 DEF TypeOK, Entry
  <1>5. proc' = [f EXCEPT ![u].stash = RemoveAt(f[u].stash, HashIndex(f[u].stash, proc[u].dir[2]))]
    BY DEF DropDone
  <1>6. proc' = [f EXCEPT ![u].stash = t]
    BY <1>4, <1>5
  <1> HIDE DEF t
  <1>7. proc' = [proc EXCEPT ![u] = Process("open", t, proc[u].dir, proc[u].pop)]
    BY <1>6, OpensWith
  <1>8. QED
    BY <1>3, <1>7 DEF t

LEMMA TypeDrop ==
  ASSUME TypeOK, InStash, NEW u \in User, orderly' \in BOOLEAN,
         \/ \E h \in Hash : StartDrop(u, h)
         \/ DropRmtree(u) \/ DropFails(u) \/ DropDone(u) \/ Killed(u)
  PROVE  TypeOK'
  <1>1. ASSUME NEW h \in Hash, StartDrop(u, h) PROVE TypeOK'
    <2> DEFINE p == Process("drop", meta.list, meta.list[HashIndex(meta.list, h)], FALSE)
    <2>1. p \in Entry /\ p.dir \in Dir
      BY <1>1, Listed DEF StartDrop, TypeOK, Process, Entry, At
    <2>2. proc' = [proc EXCEPT ![u] = p] /\ commands' \in Nat
      BY <1>1 DEF StartDrop, Starts, TypeOK
    <2>3. /\ proc' \in [User -> Entry]
          /\ \A w \in User : proc'[w].at # "idle" => proc'[w].dir \in Dir
      BY <2>1, <2>2, TypeProcess
    <2>4. QED
      BY <1>1, <2>2, <2>3 DEF StartDrop, TypeOK, Entry
  <1>2. CASE DropRmtree(u)
    <2>1. proc[u].at # "idle" /\ "remove" \in At /\ Goes(u, "remove")
      BY <1>2 DEF DropRmtree, At
    <2>2. /\ proc' \in [User -> Entry]
          /\ \A w \in User : proc'[w].at # "idle" => proc'[w].dir \in Dir
      BY <2>1, TypeGoes
    <2>3. copies' \in [Dir -> {"absent", "part", "whole"}]
      BY <1>2 DEF DropRmtree, TypeOK
    <2>4. QED
      BY <1>2, <2>2, <2>3 DEF DropRmtree, TypeOK, Entry
  <1>3. CASE DropFails(u) \/ Killed(u)
    <2>1. /\ proc' \in [User -> Entry]
          /\ \A w \in User : proc'[w].at # "idle" => proc'[w].dir \in Dir
      BY <1>3, TypeEnds DEF DropFails, Killed
    <2>2. QED
      BY <1>3, <2>1 DEF DropFails, Killed, TypeOK, Entry
  <1>4. CASE DropDone(u)
    <2>1. /\ proc' \in [User -> Entry]
          /\ \A w \in User : proc'[w].at # "idle" => proc'[w].dir \in Dir
      BY <1>4, DroppedMove, TypeProcess
    <2>2. copies' \in [Dir -> {"absent", "part", "whole"}]
      BY <1>4 DEF DropDone, TypeOK
    <2>3. QED
      BY <1>4, <2>1, <2>2 DEF DropDone, TypeOK, Entry
  <1>5. QED
    BY <1>1, <1>2, <1>3, <1>4

LEMMA TypeStep ==
  ASSUME TypeOK, InStash, NEW u \in User, Step(u) \/ Killed(u), orderly' \in BOOLEAN
  PROVE  TypeOK'
  BY TypePush, TypeYaml, TypePull, TypeDrop DEF Step
-----------------------------------------------------------------------------
(* Hashes.                                                                 *)

Threads == Resting /\ Announced /\ InStash

\* Every step but the start of a push: what the process knows after it comes
\* from the list, from what it knew, or is the node it has just copied.
Moves(u, p) ==
  /\ p \in Entry
  /\ proc' = [proc EXCEPT ![u] = p]
  /\ reused' = reused
  /\ Entries' \subseteq Entries \cup ToSet(proc[u].stash)
  /\ p.at = "idle" => p.stash = <<>>
  /\ \A e \in ToSet(p.stash) :
       \/ e \in Entries \cup ToSet(proc[u].stash)
       \/ proc[u].at = "copy" /\ e = proc[u].dir
  /\ p.at # "idle" => \/ proc[u].at # "idle" /\ p.dir = proc[u].dir
                      \/ p.dir \in Entries
  /\ p.at \in {"mkdir", "copy"} =>
       /\ proc[u].at \in {"mkdir", "copy"} /\ p.dir = proc[u].dir
       /\ ToSet(p.stash) \subseteq ToSet(proc[u].stash)
  /\ p.at \in {"rmtree", "fetch", "flag", "drop", "remove"} => p.dir \in ToSet(p.stash)

LEMMA NoneListed == ToSet(<<>>) = {}
  BY DEF ToSet

LEMMA ThreadsMove ==
  ASSUME TypeOK, Threads, NEW u \in User, NEW p, Moves(u, p)
  PROVE  Threads'
  <1>1. \A w \in User : proc'[w] = IF w = u THEN p ELSE proc[w]
    BY DEF TypeOK, Moves
  <1>2. Resting'
    BY <1>1 DEF Threads, Resting, Moves
  <1>3. InStash'
    BY <1>1 DEF Threads, InStash, Moves
  <1>4. Announced'
    <2> SUFFICES ASSUME NEW v \in User, proc'[v].at \in {"mkdir", "copy"},
                        proc'[v].dir[2] \notin reused'
                 PROVE  /\ ~HasHash(meta'.list, proc'[v].dir[2])
                        /\ \A w \in User :
                             /\ ~HasHash(proc'[w].stash, proc'[v].dir[2])
                             /\ w # v /\ proc'[w].at # "idle" => proc'[w].dir[2] # proc'[v].dir[2]
      BY DEF Announced
    <2> DEFINE h == proc[v].dir[2]
    <2>1. proc[v].at \in {"mkdir", "copy"} /\ proc'[v].dir[2] = h /\ h \notin reused
      BY <1>1 DEF Moves
    <2>2. /\ \A e \in Entries : e[2] # h
          /\ \A w \in User : /\ \A e \in ToSet(proc[w].stash) : e[2] # h
                             /\ w # v /\ proc[w].at # "idle" => proc[w].dir[2] # h
      BY <2>1 DEF Threads, Announced, HasHash, Entries
    <2> HIDE DEF h
    <2>3. \A e \in Entries' : e[2] # h
      BY <2>2 DEF Moves
    <2>4. \A e \in ToSet(p.stash) : e[2] # h
      <3>1. CASE v = u
        BY <1>1, <2>2, <3>1 DEF Moves
      <3>2. CASE v # u
        BY <2>2, <3>2 DEF Moves
      <3>3. QED
        BY <3>1, <3>2
    <2>5. u # v /\ p.at # "idle" => p.dir[2] # h
      BY <2>2 DEF Moves
    <2>6. QED
      BY <1>1, <2>1, <2>2, <2>3, <2>4, <2>5 DEF HasHash, Entries
  <1>5. QED
    BY <1>2, <1>3, <1>4 DEF Threads

\* A hash is drawn: nobody at work knows of it, or it is in use.
LEMMA ThreadsStartPush ==
  ASSUME TypeOK, Threads, NEW u \in User, NEW n \in Node, NEW h \in Hash, StartPush(u, n, h)
  PROVE  Threads'
  <1> DEFINE p == Process("mkdir", meta.list, <<n, h>>, FALSE)
  <1>1. /\ \A w \in User : proc'[w] = IF w = u THEN p ELSE proc[w]
        /\ p.at = "mkdir" /\ p.stash = meta.list /\ p.dir = <<n, h>>
        /\ meta' = meta
    BY DEF TypeOK, StartPush, Process
  <1> HIDE DEF p
  <1>2. reused \subseteq reused'
    BY DEF StartPush, Draws
  <1>3. h \notin reused' =>
          \A w \in User : /\ \A e \in ToSet(proc[w].stash) : e[2] # h
                          /\ proc[w].at # "idle" => proc[w].dir[2] # h
    BY NoneListed DEF StartPush, Draws, InUse, HasHash, Threads, Resting
  <1>4. \A e \in Entries : e[2] # h
    BY DEF StartPush, UniqueHash, HasHash, Entries
  <1>5. Resting' /\ InStash'
    BY <1>1 DEF Threads, Resting, InStash
  <1>6. Announced'
    <2> SUFFICES ASSUME NEW v \in User, proc'[v].at \in {"mkdir", "copy"},
                        proc'[v].dir[2] \notin reused'
                 PROVE  /\ ~HasHash(meta'.list, proc'[v].dir[2])
                        /\ \A w \in User :
                             /\ ~HasHash(proc'[w].stash, proc'[v].dir[2])
                             /\ w # v /\ proc'[w].at # "idle" => proc'[w].dir[2] # proc'[v].dir[2]
      BY DEF Announced
    <2>1. CASE v = u
      BY <1>1, <1>3, <1>4, <2>1 DEF HasHash, Entries
    <2>2. CASE v # u
      <3>1. proc'[v] = proc[v] /\ proc[v].dir[2] \notin reused
        BY <1>1, <1>2, <2>2
      <3>2. proc[v].dir[2] # h
        <4>1. CASE h \in reused'
          BY <3>1, <4>1
        <4>2. CASE h \notin reused'
          BY <1>3, <3>1, <4>2
        <4>3. QED
          BY <4>1, <4>2
      <3>3. QED
        BY <1>1, <3>1, <3>2 DEF Threads, Announced
    <2>3. QED
      BY <2>1, <2>2
  <1>7. QED
    BY <1>5, <1>6 DEF Threads

LEMMA EndsMoves ==
  ASSUME NEW u \in User, Ends(u), reused' = reused,
         Entries' \subseteq Entries \cup ToSet(proc[u].stash)
  PROVE  Moves(u, Idle)
  BY NoneListed DEF Moves, Ends, Idle, Process, Entry, At

LEMMA GoesMoves ==
  ASSUME TypeOK, NEW u \in User, proc[u].at # "idle", NEW a \in At \ {"idle", "mkdir"},
         Goes(u, a), reused' = reused, Entries' \subseteq Entries \cup ToSet(proc[u].stash),
         a = "copy" => proc[u].at = "mkdir",
         a \in {"rmtree", "fetch", "flag", "drop", "remove"} =>
           proc[u].dir \in ToSet(proc[u].stash)
  PROVE  \E p : Moves(u, p)
  <1> DEFINE p == Process(a, proc[u].stash, proc[u].dir, proc[u].pop)
  <1>1. p \in Entry /\ proc' = [proc EXCEPT ![u] = p]
    BY GoesTo
  <1>2. p.at = a /\ p.stash = proc[u].stash /\ p.dir = proc[u].dir
    BY DEF Process
  <1> HIDE DEF p
  <1>3. Moves(u, p)
    BY <1>1, <1>2 DEF Moves
  <1>4. QED
    BY <1>3

\* Pull and drop.
LEMMA StartsMoves ==
  ASSUME TypeOK, NEW u \in User, NEW h, NEW at \in {"rmtree", "drop"}, NEW pop \in BOOLEAN,
         HasHash(meta.list, h), meta' = meta, reused' = reused,
         LET d == meta.list[HashIndex(meta.list, h)]
         IN  proc' = [proc EXCEPT ![u] = Process(at, meta.list, d, pop)]
  PROVE  \E p : Moves(u, p)
  <1> DEFINE d == meta.list[HashIndex(meta.list, h)]
             p == Process(at, meta.list, d, pop)
  <1>1. d \in Dir /\ d \in Entries
    BY Listed
  <1> HIDE DEF d
  <1>2. p \in Entry
    BY <1>1 DEF Process, Entry, At, TypeOK
  <1>3. p.at = at /\ p.stash = meta.list /\ p.dir = d
    BY DEF Process
  <1>4. proc' = [proc EXCEPT ![u] = p]
    BY DEF d
  <1> HIDE DEF p
  <1>5. Moves(u, p)
    BY <1>1, <1>2, <1>3, <1>4 DEF Moves, Entries
  <1>6. QED
    BY <1>5

LEMMA ThreadsStep ==
  ASSUME TypeOK, Threads, NEW u \in User, Step(u) \/ Killed(u)
  PROVE  Threads'
  <1>1. ASSUME NEW n \in Node, NEW h \in Hash, StartPush(u, n, h)
        PROVE  Threads'
    BY <1>1, ThreadsStartPush
  <1> SUFFICES ASSUME ~\E n \in Node, h \in Hash : StartPush(u, n, h)
               PROVE  \E p : Moves(u, p)
    BY <1>1, ThreadsMove
  <1>2. proc[u].at \in {"rmtree", "fetch", "flag", "drop", "remove"} =>
          proc[u].dir \in ToSet(proc[u].stash)
    BY DEF Threads, InStash
  <1>3. CASE PushMkdir(u)
    <2>1. "copy" \in At /\ Entries' = Entries /\ reused' = reused
      BY <1>3 DEF PushMkdir, At, Entries
    <2>2. QED
      BY <1>3, <2>1, GoesMoves, EndsMoves DEF PushMkdir
  <1>4. CASE PushCopy(u)
    <2> DEFINE t == Append(proc[u].stash, proc[u].dir)
               p == Process("open", t, proc[u].dir, proc[u].pop)
    <2>1. p \in Entry /\ proc' = [proc EXCEPT ![u] = p]
      BY <1>4, CopiedMove
    <2>2. p.at = "open" /\ p.stash = t /\ p.dir = proc[u].dir
      BY DEF Process
    <2>3. ToSet(t) = ToSet(proc[u].stash) \cup {proc[u].dir}
      BY <1>4, Appended DEF TypeOK, PushCopy
    <2> HIDE DEF p
    <2>4. Moves(u, p)
      BY <1>4, <2>1, <2>2, <2>3 DEF Moves, PushCopy, Entries
    <2>5. QED
      BY <2>4
  <1>5. CASE OpenYaml(u)
    <2>1. "write" \in At /\ Entries' = {} /\ reused' = reused
      BY <1>5, NoneListed DEF OpenYaml, At, Entries
    <2>2. QED
      BY <1>5, <2>1, GoesMoves DEF OpenYaml
  <1>6. CASE WriteYaml(u) \/ PushDescribe(u)
    <2>1. /\ Entries' \subseteq Entries \cup ToSet(proc[u].stash) /\ reused' = reused
          /\ proc[u].at # "idle" /\ "describe" \in At
          /\ Goes(u, "describe") \/ Ends(u)
      BY <1>6, NoneListed DEF WriteYaml, PushDescribe, Entries, At
    <2>2. QED
      BY <2>1, EndsMoves, GoesMoves
  <1>7. ASSUME NEW h \in Hash, NEW pop \in BOOLEAN, StartPull(u, h, pop)
        PROVE  \E p : Moves(u, p)
    BY <1>7, StartsMoves DEF StartPull
  <1>8. CASE PullRmtree(u) \/ PullCopytree(u) \/ PullFails(u) \/ PullFlag(u)
    <2>1. /\ {"fetch", "flag", "drop"} \subseteq At
          /\ proc[u].at \in {"rmtree", "fetch", "flag"}
          /\ Entries' = Entries /\ reused' = reused
          /\ Ends(u) \/ \E a \in {"fetch", "flag", "drop"} : Goes(u, a)
      BY <1>8 DEF PullRmtree, PullCopytree, PullFails, PullFlag, At, Entries
    <2>2. QED
      BY <1>2, <2>1, GoesMoves, EndsMoves
  <1>9. ASSUME NEW h \in Hash, StartDrop(u, h)
        PROVE  \E p : Moves(u, p)
    BY <1>9, StartsMoves DEF StartDrop
  <1>10. CASE DropRmtree(u)
    <2>1. "remove" \in At /\ Entries' = Entries /\ reused' = reused
      BY <1>10 DEF DropRmtree, At, Entries
    <2>2. QED
      BY <1>2, <1>10, <2>1, GoesMoves DEF DropRmtree
  <1>11. CASE DropFails(u) \/ Killed(u)
    <2>1. Entries' = Entries /\ reused' = reused
      BY <1>11 DEF DropFails, Killed, Entries
    <2>2. QED
      BY <1>11, <2>1, EndsMoves DEF DropFails, Killed
  <1>12. CASE DropDone(u)
    <2> DEFINE s == proc[u].stash
               t == RemoveAt(s, HashIndex(s, proc[u].dir[2]))
               p == Process("open", t, proc[u].dir, proc[u].pop)
    <2>1. p \in Entry /\ proc' = [proc EXCEPT ![u] = p]
      BY <1>12, DroppedMove DEF Threads
    <2>2. p.at = "open" /\ p.stash = t /\ p.dir = proc[u].dir
      BY DEF Process
    <2>3. ToSet(t) \subseteq ToSet(s)
      BY <1>12, DroppedIndex, Removed DEF Threads, DropDone
    <2> HIDE DEF p, t
    <2>4. Moves(u, p)
      BY <1>12, <2>1, <2>2, <2>3 DEF Moves, DropDone, Entries
    <2>5. QED
      BY <2>4
  <1>13. QED
    BY <1>3, <1>4, <1>5, <1>6, <1>7, <1>8, <1>9, <1>10, <1>11, <1>12 DEF Step
-----------------------------------------------------------------------------
(* What a pull has fetched.                                                *)

LEMMA OthersStay ==
  ASSUME TypeOK, NEW u \in User, Step(u) \/ Killed(u), NEW w \in User, w # u
  PROVE  proc'[w] = proc[w] /\ local'[w] = local[w]
  <1>1. proc'[w] = proc[w]
    BY DEF TypeOK, Step, Killed, StartPush, PushMkdir, PushCopy, OpenYaml, WriteYaml, PushDescribe,
       StartPull, PullRmtree, PullCopytree, PullFails, PullFlag, StartDrop, DropRmtree,
       DropFails, DropDone, Goes, Ends
  <1>2. local'[w] = local[w]
    BY DEF TypeOK, Step, Killed, StartPush, PushMkdir, PushCopy, OpenYaml, WriteYaml, PushDescribe,
       StartPull, PullRmtree, PullCopytree, PullFails, PullFlag, StartDrop, DropRmtree,
       DropFails, DropDone
  <1>3. QED
    BY <1>1, <1>2

\* Only a push makes a copy whole, and it is the copy of its own directory.
LEMMA OnlyPushFills ==
  ASSUME TypeOK, NEW u \in User, Step(u) \/ Killed(u), NEW d \in Dir,
         copies'[d] = "whole"
  PROVE  copies[d] = "whole" \/ (proc[u].at = "copy" /\ d = proc[u].dir)
  BY DEF TypeOK, Step, Killed, StartPush, PushMkdir, PushCopy, OpenYaml, WriteYaml, PushDescribe,
     StartPull, PullRmtree, PullCopytree, PullFails, PullFlag, StartDrop, DropRmtree,
     DropFails, DropDone

\* What was drawn while in use is remembered.
LEMMA ReusedGrows ==
  ASSUME NEW u \in User, Step(u) \/ Killed(u)
  PROVE  reused \subseteq reused'
  BY DEF Step, Killed, StartPush, Draws, PushMkdir, PushCopy, OpenYaml, WriteYaml, PushDescribe,
     StartPull, PullRmtree, PullCopytree, PullFails, PullFlag, StartDrop, DropRmtree,
     DropFails, DropDone

\* Where a process is at after a step.
LEMMA AfterStep ==
  ASSUME TypeOK, NEW u \in User, Step(u) \/ Killed(u)
  PROVE  /\ proc'[u].at = "flag" => PullCopytree(u) /\ Goes(u, "flag")
         /\ proc'[u].at = "drop" /\ proc'[u].pop => PullFlag(u) /\ Goes(u, "drop")
  <1>1. ASSUME NEW n \in Node, NEW h \in Hash, StartPush(u, n, h)
        PROVE  proc'[u].at = "mkdir"
    BY <1>1 DEF TypeOK, StartPush, Process
  <1>2. ASSUME NEW h \in Hash, NEW pop \in BOOLEAN, StartPull(u, h, pop)
        PROVE  proc'[u].at = "rmtree"
    BY <1>2 DEF TypeOK, StartPull, Process
  <1>3. ASSUME NEW h \in Hash, StartDrop(u, h)
        PROVE  proc'[u].at = "drop" /\ proc'[u].pop = FALSE
    BY <1>3 DEF TypeOK, StartDrop, Process
  <1>4. ASSUME Ends(u) PROVE proc'[u].at = "idle"
    BY <1>4 DEF TypeOK, Ends, Idle, Process
  <1>5. ASSUME NEW a, Goes(u, a) PROVE proc'[u].at = a
    BY <1>5 DEF TypeOK, Goes
  <1>6. CASE PushCopy(u) \/ DropDone(u)
    BY <1>6 DEF TypeOK, PushCopy, DropDone
  <1>7. CASE PushMkdir(u) \/ OpenYaml(u) \/ WriteYaml(u) \/ PushDescribe(u)
    BY <1>4, <1>5, <1>7 DEF PushMkdir, OpenYaml, WriteYaml, PushDescribe
  <1>8. CASE PullRmtree(u) \/ PullCopytree(u) \/ PullFails(u) \/ PullFlag(u)
    BY <1>4, <1>5, <1>8 DEF PullRmtree, PullCopytree, PullFails, PullFlag
  <1>9. CASE DropRmtree(u) \/ DropFails(u) \/ Killed(u)
    BY <1>4, <1>5, <1>9 DEF DropRmtree, DropFails, Killed
  <1>10. QED
    BY <1>1, <1>2, <1>3, <1>6, <1>7, <1>8, <1>9 DEF Step

LEMMA FetchedStep ==
  ASSUME TypeOK, Threads, Fetched, NEW u \in User, Step(u) \/ Killed(u)
  PROVE  Fetched'
  <1> SUFFICES ASSUME NEW w \in User
               PROVE  LET mine == local'[w][proc'[w].dir[1]] IN
                      /\ proc'[w].at = "flag" \/ (proc'[w].pop /\ proc'[w].at = "drop") =>
                           /\ mine.of = proc'[w].dir
                           /\ copies'[proc'[w].dir] = "whole" /\ proc'[w].dir[2] \notin reused' =>
                                mine.state = "whole"
                      /\ proc'[w].pop /\ proc'[w].at = "drop" => mine.prebuilt
    BY DEF Fetched
  <1>0. reused \subseteq reused'
    BY ReusedGrows
  <1>1. CASE w # u
    <2>1. proc'[w] = proc[w] /\ local'[w] = local[w]
      BY <1>1, OthersStay
    <2>2. ASSUME proc[w].at # "idle", copies'[proc[w].dir] = "whole", proc[w].dir[2] \notin reused
          PROVE  copies[proc[w].dir] = "whole"
      <3>1. proc[w].dir \in Dir
        BY <2>2 DEF TypeOK
      <3>2. proc[u].at = "copy" => proc[w].dir[2] # proc[u].dir[2]
        BY <1>1, <2>2 DEF Threads, Announced
      <3>3. QED
        BY <2>2, <3>1, <3>2, OnlyPushFills
    <2>3. QED
      BY <1>0, <2>1, <2>2 DEF Fetched
  <1>2. CASE w = u
    <2> DEFINE d == proc[u].dir
               b == local[u][d[1]]
    <2>1. CASE proc'[u].at = "flag"
      <3>1. PullCopytree(u) /\ Goes(u, "flag") /\ d \in Dir /\ d[1] \in Node
        BY <2>1, AfterStep DEF PullCopytree, TypeOK, Dir
      <3>2. proc'[u].dir = d /\ copies' = copies
        BY <3>1 DEF Goes, PullCopytree, TypeOK
      <3>3. local'[u][d[1]] = [of |-> d, state |-> copies[d], prebuilt |-> FALSE]
        BY <3>1 DEF PullCopytree, TypeOK
      <3>4. QED
        BY <1>2, <2>1, <3>2, <3>3
    <2>2. CASE proc'[u].at = "drop" /\ proc'[u].pop
      <3>1. PullFlag(u) /\ Goes(u, "drop") /\ d \in Dir /\ d[1] \in Node
        BY <2>2, AfterStep DEF PullFlag, TypeOK, Dir
      <3>2. proc'[u].dir = d /\ copies' = copies /\ proc[u].at = "flag"
        BY <3>1 DEF Goes, PullFlag, TypeOK
      <3>3. local'[u][d[1]] = [b EXCEPT !.prebuilt = TRUE] /\ b \in Build
        BY <3>1 DEF PullFlag, TypeOK, Build
      <3>4. local'[u][d[1]] = [of |-> b.of, state |-> b.state, prebuilt |-> TRUE]
        BY <3>3, Flagged
      <3>5. b.of = d /\ (copies[d] = "whole" /\ d[2] \notin reused => b.state = "whole")
        BY <3>2 DEF Fetched
      <3>6. QED
        BY <1>0, <1>2, <2>2, <3>2, <3>4, <3>5
    <2>3. QED
      BY <1>2, <2>1, <2>2
  <1>3. QED
    BY <1>1, <1>2
-----------------------------------------------------------------------------
(* Users who take turns.                                                   *)

\* What a step of the only process at work has to keep.
Done(u) ==
  /\ OneEach(meta.list)
  /\ Doing(proc[u])
  /\ proc[u].at = "idle" => Matches

LEMMA NoneTwice == OneEach(<<>>)
  BY DEF OneEach

\* A command that ends, and one that goes on.
LEMMA EndsDone ==
  ASSUME TypeOK, NEW u \in User, Ends(u), OneEach(meta'.list), Matches'
  PROVE  Done(u)'
  <1>1. proc'[u].at = "idle" /\ proc'[u].stash = <<>>
    BY DEF Ends, Idle, Process, TypeOK
  <1>2. QED
    BY <1>1, NoneTwice DEF Done, Doing

LEMMA GoesDone ==
  ASSUME TypeOK, NEW u \in User, NEW a \in At, Goes(u, a)
  PROVE  /\ proc'[u].at = a /\ proc'[u].stash = proc[u].stash
         /\ proc'[u].dir = proc[u].dir
  BY DEF Goes, TypeOK

LEMMA PushDone ==
  ASSUME TypeOK, Threads, orderly, Orderly, NEW u \in User, proc[u].at = "idle" => Matches,
         (\E n \in Node, h \in Hash : StartPush(u, n, h)) \/ PushMkdir(u) \/ PushCopy(u)
  PROVE  Done(u)'
  <1>1. OneEach(meta.list) /\ Doing(proc[u])
    BY DEF Orderly
  <1>2. ASSUME NEW n \in Node, NEW h \in Hash, StartPush(u, n, h)
        PROVE  Done(u)'
    <2>1. /\ proc'[u].at = "mkdir" /\ proc'[u].stash = meta.list
          /\ proc'[u].dir = <<n, h>> /\ <<n, h>> \in Dir
          /\ meta' = meta /\ copies' = copies /\ Matches
      BY <1>2 DEF StartPush, Starts, Process, TypeOK, Dir
    <2>2. copies[<<n, h>>] = "absent"
      <3>1. <<n, h>> \notin Entries
        BY <1>2 DEF StartPush, UniqueHash, HasHash, Entries
      <3>2. QED
        BY <2>1, <3>1 DEF Matches, Kept
    <2>3. ~HasHash(meta.list, <<n, h>>[2])
      BY <1>2 DEF StartPush, UniqueHash
    <2>4. QED
      BY <1>1, <2>1, <2>2, <2>3 DEF Done, Doing, Matches, Entries, Kept
  <1>3. CASE PushMkdir(u)
    <2> DEFINE d == proc[u].dir
    <2>1. /\ d \in Dir /\ copies[d] = "absent" /\ Matches /\ proc[u].stash = meta.list
          /\ ~HasHash(proc[u].stash, d[2]) /\ meta' = meta /\ Entries' = Entries
      BY <1>1, <1>3 DEF PushMkdir, TypeOK, Doing, Entries
    <2>2. ASSUME copies' = [copies EXCEPT ![d] = "part"], Goes(u, "copy")
          PROVE  Done(u)'
      <3>1. /\ proc'[u].at = "copy" /\ proc'[u].stash = proc[u].stash
            /\ proc'[u].dir = d
        BY <2>2, GoesDone DEF At
      <3>2. copies'[d] # "absent" /\ Kept = Kept' \ {d}
        BY <2>1, <2>2 DEF Kept, TypeOK
      <3>3. QED
        BY <1>1, <2>1, <3>1, <3>2 DEF Done, Doing, Matches
    <2>3. ASSUME NEW c, copies' = [copies EXCEPT ![d] = IF @ = "absent" THEN @ ELSE c], Ends(u)
          PROVE  Done(u)'
      <3>1. copies' = copies
        BY <2>1, <2>3 DEF TypeOK
      <3>2. Matches'
        BY <2>1, <3>1 DEF Matches, Kept
      <3>3. QED
        BY <1>1, <2>1, <2>3, <3>2, EndsDone
    <2>4. QED
      BY <1>3, <2>2, <2>3 DEF PushMkdir
  <1>4. CASE PushCopy(u)
    <2> DEFINE d == proc[u].dir
               t == Append(proc[u].stash, d)
    <2>1. /\ d \in Dir /\ copies[d] # "absent" /\ meta.form = "list"
          /\ proc[u].stash = meta.list /\ Entries = Kept \ {d} /\ meta' = meta
      BY <1>1, <1>4 DEF PushCopy, TypeOK, Doing
    <2>2. proc'[u].at = "open" /\ proc'[u].stash = t
      <3>1. proc' = [proc EXCEPT ![u] = Process("open", t, d, proc[u].pop)]
        BY <1>4, CopiedMove
      <3> HIDE DEF t
      <3>2. QED
        BY <3>1 DEF TypeOK, Process
    <2>3. ToSet(t) = Entries \cup {d} /\ OneEach(t)
      <3>1. proc[u].stash \in Seq(Dir)
        BY DEF TypeOK
      <3>2. ~HasHash(proc[u].stash, d[2])
        BY <1>1, <1>4 DEF PushCopy, Doing
      <3>3. OneEach(proc[u].stash)
        BY <1>1 DEF Doing
      <3>4. QED
        BY <2>1, <3>1, <3>2, <3>3, Appended DEF Entries
    <2>4. Kept' = Kept /\ d \in Kept
      <3>1. PICK c \in {"part", "whole"} : copies' = [copies EXCEPT ![d] = c]
        BY <1>4, <2>1 DEF PushCopy
      <3>2. QED
        BY <2>1, <3>1 DEF Kept, TypeOK
    <2> HIDE DEF t
    <2>5. QED
      BY <1>1, <2>1, <2>2, <2>3, <2>4 DEF Done, Doing
  <1>5. QED
    BY <1>2, <1>3, <1>4

LEMMA YamlDone ==
  ASSUME TypeOK, orderly, Orderly, NEW u \in User,
         OpenYaml(u) \/ WriteYaml(u) \/ PushDescribe(u)
  PROVE  Done(u)'
  <1>1. OneEach(meta.list) /\ Doing(proc[u])
    BY DEF Orderly
  <1>2. CASE OpenYaml(u)
    <2>1. proc'[u].at = "write" /\ proc'[u].stash = proc[u].stash
      BY <1>2, GoesDone DEF OpenYaml, At
    <2>2. Kept' = Kept /\ meta' = [form |-> "empty", list |-> <<>>]
      BY <1>2 DEF OpenYaml, Kept
    <2>3. QED
      BY <1>1, <1>2, <2>1, <2>2, NoneTwice DEF Done, Doing, OpenYaml
  <1>3. CASE WriteYaml(u)
    <2>1. meta' = [form |-> "list", list |-> proc[u].stash]
      BY <1>1, <1>3 DEF WriteYaml, Doing
    <2>2. Matches' /\ OneEach(meta'.list)
      BY <1>1, <1>3, <2>1 DEF WriteYaml, Doing, Matches, Entries, Kept
    <2>3. CASE Ends(u)
      BY <2>2, <2>3, EndsDone
    <2>4. CASE Goes(u, "describe")
      <3>1. proc'[u].at = "describe" /\ proc'[u].stash = proc[u].stash
        BY <2>4, GoesDone DEF At
      <3>2. QED
        BY <1>1, <2>2, <3>1 DEF Done, Doing
    <2>5. QED
      BY <1>3, <2>3, <2>4 DEF WriteYaml
  <1>4. CASE PushDescribe(u)
    <2>1. Matches'
      BY <1>1, <1>4 DEF PushDescribe, Doing, Matches, Entries, Kept
    <2>2. QED
      BY <1>1, <1>4, <2>1, EndsDone DEF PushDescribe
  <1>5. QED
    BY <1>2, <1>3, <1>4

LEMMA PullDone ==
  ASSUME TypeOK, orderly, Orderly, NEW u \in User, proc[u].at = "idle" => Matches,
         \/ \E h \in Hash, pop \in BOOLEAN : StartPull(u, h, pop)
         \/ PullRmtree(u) \/ PullCopytree(u) \/ PullFails(u) \/ PullFlag(u)
  PROVE  Done(u)'
  <1>1. OneEach(meta.list) /\ Doing(proc[u])
    BY DEF Orderly
  <1>2. meta' = meta /\ copies' = copies
    BY DEF StartPull, PullRmtree, PullCopytree, PullFails, PullFlag
  <1>3. Matches
    BY <1>1 DEF Doing, StartPull, Starts, PullRmtree, PullCopytree, PullFails, PullFlag
  <1>4. Matches'
    BY <1>2, <1>3 DEF Matches, Entries, Kept
  <1>5. ASSUME NEW h \in Hash, NEW pop \in BOOLEAN, StartPull(u, h, pop)
        PROVE  Done(u)'
    <2>1. proc'[u].at = "rmtree" /\ proc'[u].stash = meta.list
      BY <1>5 DEF StartPull, Process, TypeOK
    <2>2. QED
      BY <1>1, <1>2, <1>4, <2>1 DEF Done, Doing
  <1>6. ASSUME Ends(u) PROVE Done(u)'
    BY <1>1, <1>2, <1>4, <1>6, EndsDone
  <1>7. ASSUME NEW a \in {"fetch", "flag", "drop"}, Goes(u, a),
               proc[u].at \in {"rmtree", "fetch", "flag"}
        PROVE  Done(u)'
    <2>1. proc'[u].at = a /\ proc'[u].stash = proc[u].stash
      BY <1>7, GoesDone DEF At
    <2>2. QED
      BY <1>1, <1>2, <1>4, <1>7, <2>1 DEF Done, Doing
  <1>8. QED
    BY <1>5, <1>6, <1>7 DEF PullRmtree, PullCopytree, PullFails, PullFlag

LEMMA DropIsDone ==
  ASSUME TypeOK, Threads, orderly, Orderly, NEW u \in User, proc[u].at = "idle" => Matches,
         \/ \E h \in Hash : StartDrop(u, h)
         \/ DropRmtree(u) \/ DropFails(u) \/ DropDone(u)
  PROVE  Done(u)'
  <1>1. OneEach(meta.list) /\ Doing(proc[u])
    BY DEF Orderly
  <1>2. meta' = meta /\ Matches
    BY <1>1 DEF Doing, StartDrop, Starts, DropRmtree, DropFails, DropDone
  <1>3. ASSUME NEW h \in Hash, StartDrop(u, h)
        PROVE  Done(u)'
    <2>1. proc'[u].at = "drop" /\ proc'[u].stash = meta.list /\ copies' = copies
      BY <1>3 DEF StartDrop, Process, TypeOK
    <2>2. QED
      BY <1>1, <1>2, <2>1 DEF Done, Doing, Matches, Entries, Kept
  <1>4. CASE DropRmtree(u)
    <2>1. proc'[u].at = "remove" /\ proc'[u].stash = proc[u].stash
      BY <1>4, GoesDone DEF DropRmtree, At
    <2>2. Kept' = Kept
      BY <1>4 DEF DropRmtree, Kept, TypeOK
    <2>3. QED
      BY <1>1, <1>2, <1>4, <2>1, <2>2 DEF Done, Doing, Matches, Entries, DropRmtree
  <1>5. CASE DropFails(u)
    <2>1. copies' = copies
      BY <1>5 DEF DropFails
    <2>2. QED
      BY <1>1, <1>2, <1>5, <2>1, EndsDone DEF DropFails, Matches, Entries, Kept
  <1>6. CASE DropDone(u)
    <2> DEFINE s == proc[u].stash
               d == proc[u].dir
               i == HashIndex(s, d[2])
               t == RemoveAt(s, i)
    <2>1. proc'[u].at = "open" /\ proc'[u].stash = t
      <3>1. proc' = [proc EXCEPT ![u] = Process("open", t, d, proc[u].pop)]
        BY <1>6, DroppedMove DEF Threads
      <3> HIDE DEF t
      <3>2. QED
        BY <3>1 DEF TypeOK, Process
    <2>2. s \in Seq(Dir) /\ i \in 1 .. Len(s) /\ s[i][2] = d[2] /\ d \in ToSet(s)
      BY <1>6, DroppedIndex DEF DropDone, Threads
    <2>3. s[i] = d
      BY <1>1, <2>2, Members DEF Doing, OneEach
    <2>4. OneEach(t) /\ ToSet(t) = ToSet(s) \ {d}
      BY <1>1, <2>2, <2>3, Removed DEF Doing
    <2>5. ToSet(s) = Kept
      BY <1>1, <1>2, <1>6 DEF DropDone, Doing, Matches, Entries
    <2>6. Kept' = Kept \ {d}
      BY <1>6 DEF DropDone, Kept, TypeOK
    <2> HIDE DEF t
    <2>7. QED
      BY <1>1, <1>2, <2>1, <2>4, <2>5, <2>6 DEF Done, Doing
  <1>7. QED
    BY <1>3, <1>4, <1>5, <1>6

LEMMA OrderlyStep ==
  ASSUME TypeOK, Threads, Orderly, NEW u \in User, Step(u),
         orderly' = (orderly /\ OneAtWork')
  PROVE  Orderly'
  <1> SUFFICES ASSUME orderly'
               PROVE  /\ OneAtWork' /\ (AtRest' => Matches') /\ OneEach(meta'.list)
                      /\ \A w \in User : Doing(proc[w])'
    BY DEF Orderly
  <1>1. orderly /\ OneAtWork' /\ OneAtWork
    BY DEF Orderly
  <1>2. proc[u].at # "idle" \/ proc'[u].at # "idle"
    BY DEF Step, StartPush, PushMkdir, PushCopy, OpenYaml, WriteYaml, PushDescribe, StartPull, PullRmtree,
       PullCopytree, PullFails, PullFlag, StartDrop, DropRmtree, DropFails, DropDone,
       Process, TypeOK
  <1>3. \A w \in User : w # u => proc[w].at = "idle" /\ proc'[w] = proc[w]
    BY <1>1, <1>2, OthersStay DEF OneAtWork
  <1>4. proc[u].at = "idle" => Matches
    BY <1>1, <1>3 DEF Orderly, AtRest
  <1>5. Done(u)'
    BY <1>1, <1>4, PushDone, YamlDone, PullDone, DropIsDone DEF Step
  <1>6. \A w \in User : w # u => OneEach(proc'[w].stash) /\ proc'[w].at = "idle"
    BY <1>1, <1>3 DEF Orderly, Doing
  <1>7. QED
    BY <1>1, <1>5, <1>6 DEF Done, Doing, AtRest
-----------------------------------------------------------------------------
(* The theorems.                                                           *)

IInv == TypeOK /\ Threads /\ Fetched /\ Orderly

LEMMA InitIInv ==
  ASSUME Init
  PROVE  IInv
  <1>1. TypeOK
    BY TypeInit
  <1>2. /\ \A u \in User : proc[u].at = "idle" /\ proc[u].stash = <<>>
        /\ meta.list = <<>> /\ meta.form = "list" /\ Entries = {} /\ Kept = {}
    BY NoneListed DEF Init, Idle, Process, Entries, Kept
  <1>3. Threads
    BY <1>2, NoneListed DEF Threads, Resting, Announced, InStash
  <1>4. Fetched
    BY <1>2 DEF Fetched
  <1>5. Orderly
    BY <1>2, NoneTwice DEF Orderly, OneAtWork, Matches, Doing
  <1>6. QED
    BY <1>1, <1>3, <1>4, <1>5 DEF IInv

LEMMA NextIInv ==
  ASSUME IInv, [Next]_vars
  PROVE  IInv'
  <1>1. CASE UNCHANGED vars
    BY <1>1 DEF vars, IInv, TypeOK, Threads, Resting, Announced, InStash, Fetched,
       Orderly, OneAtWork, AtRest, Matches, Doing, Kept, Entries, HasHash, OneEach
  <1>2. ASSUME NEW u \in User, Step(u), orderly' = (orderly /\ OneAtWork')
        PROVE  IInv'
    <2>1. TypeOK /\ Threads /\ Fetched /\ Orderly /\ InStash /\ orderly' \in BOOLEAN
      BY <1>2 DEF IInv, Threads
    <2>2. QED
      BY <1>2, <2>1, TypeStep, ThreadsStep, FetchedStep, OrderlyStep DEF IInv
  <1>3. ASSUME NEW u \in User, Killed(u), orderly' = FALSE
        PROVE  IInv'
    <2>1. TypeOK /\ Threads /\ Fetched /\ InStash /\ orderly' \in BOOLEAN
      BY <1>3 DEF IInv, Threads
    <2>2. Orderly'
      BY <1>3 DEF Orderly
    <2>3. QED
      BY <1>3, <2>1, <2>2, TypeStep, ThreadsStep, FetchedStep DEF IInv
  <1>4. QED
    BY <1>1, <1>2, <1>3 DEF Next

LEMMA AlwaysIInv == Spec => []IInv
  BY InitIInv, NextIInv, PTL DEF Spec

\* Every variable keeps its type, for any users, nodes and hashes.
THEOREM TypeCorrect == Spec => []TypeOK
  <1>1. IInv => TypeOK
    BY DEF IInv
  <1>2. QED
    BY <1>1, AlwaysIInv, PTL

\* A list without two entries of one hash is as long as the set of its entries.
LEMMA AsManyEntries ==
  ASSUME NEW s \in Seq(Dir), OneEach(s)
  PROVE  Cardinality(ToSet(s)) = Len(s)
  <1> DEFINE N == 1 .. Len(s)
  <1>1. Len(s) \in Nat /\ s \in [N -> ToSet(s)] /\ DOMAIN s = N
    BY Members
  <1>2. \A i, j \in N : s[i] = s[j] => i = j
    BY DEF OneEach
  <1>3. \A d \in ToSet(s) : \E i \in N : s[i] = d
    BY Members
  <1>4. IsInjective(s)
    BY <1>1, <1>2 DEF IsInjective
  <1>5. s \in Bijection(N, ToSet(s))
    BY <1>1, <1>3, <1>4 DEF Bijection, Injection, Surjection
  <1>6. ExistsBijection(N, ToSet(s))
    BY <1>5 DEF ExistsBijection
  <1>7. QED
    BY <1>1, <1>6, FS_CountingElements

\* As long as users take turns and let their commands end, the metadata of the
\* stash (stash_handler.py) lists each stashed node once, and nothing else,
\* whatever fails in a command and whichever hashes are drawn again.
THEOREM EntryPerItemHolds == Spec => []EntryPerItem
  <1>1. ASSUME IInv PROVE EntryPerItem
    <2> SUFFICES ASSUME orderly, AtRest
                 PROVE  /\ meta.form = "list" /\ Entries = {d \in Dir : copies[d] # "absent"}
                        /\ Cardinality(Entries) = Len(meta.list)
      BY DEF EntryPerItem, ListMatchesItems
    <2>1. Matches /\ OneEach(meta.list) /\ meta.list \in Seq(Dir)
      BY <1>1 DEF IInv, Orderly, TypeOK
    <2>2. QED
      BY <2>1, AsManyEntries DEF Matches, Kept, Entries
  <1>2. QED
    BY <1>1, AlwaysIInv, PTL

LEMMA NotYetListed ==
  ASSUME IInv
  PROVE  ListedIsCopied
  BY DEF IInv, Threads, Announced, HasHash, Entries, ListedIsCopied

\* No user is offered a node that is still being pushed, however many commands
\* run at once and whichever of them are killed, unless the push has drawn a hash
\* that was in use.
THEOREM ListedIsCopiedHolds == Spec => []ListedIsCopied
  BY NotYetListed, AlwaysIInv, PTL

\* The copy of a listed node changes by a drop or pop of that node and by nothing
\* else: a push that clears away what it could not copy never hits a listed one
\* but under a hash that was in use when it was drawn.
THEOREM OnlyDropDestroysHolds == Spec => OnlyDropDestroys
  <1> DEFINE Kills == \A d \in Entries : copies'[d] # copies[d] /\ d[2] \notin reused =>
                        \E u \in User : proc[u].at \in {"drop", "remove"} /\ proc[u].dir = d
  <1>1. ASSUME IInv, [Next]_vars PROVE Kills
    <2> SUFFICES ASSUME NEW d \in Entries, copies'[d] # copies[d], d[2] \notin reused
                 PROVE  \E u \in User : proc[u].at \in {"drop", "remove"} /\ proc[u].dir = d
      OBVIOUS
    <2>1. copies \in [Dir -> {"absent", "part", "whole"}] /\ d \in Dir
      BY <1>1, Members DEF IInv, TypeOK, Entries
    <2>2. PICK u \in User : Step(u)
      BY <1>1 DEF Next, vars, Killed
    <2>3. ~(proc[u].at \in {"mkdir", "copy"} /\ proc[u].dir = d)
      BY <1>1, NotYetListed DEF ListedIsCopied
    <2>4. proc[u].at \in {"drop", "remove"} /\ proc[u].dir = d
      BY <2>1, <2>2, <2>3
      DEF Step, StartPush, PushMkdir, PushCopy, OpenYaml, WriteYaml, PushDescribe, StartPull, PullRmtree,
          PullCopytree, PullFails, PullFlag, StartDrop, DropRmtree, DropFails, DropDone
    <2>5. QED
      BY <2>4
  <1>2. [][Next]_vars /\ []IInv => [][Kills]_vars
    BY <1>1, PTL
  <1>3. QED
    BY <1>2, AlwaysIInv, PTL DEF Spec, OnlyDropDestroys

\* A pop starts to delete a node only when its user has it, complete if the
\* stash had it complete (and no second push has drawn its hash), and marked as
\* pre-built.
THEOREM PopKeepsTheNodeHolds == Spec => PopKeepsTheNode
  <1> DEFINE Keeps == \A u \in User :
               proc[u].pop /\ proc[u].at = "drop" /\ proc'[u].at = "remove" =>
                 LET mine == local[u][proc[u].dir[1]] IN
                 /\ mine.of = proc[u].dir /\ mine.prebuilt
                 /\ copies[proc[u].dir] = "whole" /\ proc[u].dir[2] \notin reused =>
                      mine.state = "whole"
  <1>1. ASSUME IInv PROVE Keeps
    BY <1>1 DEF IInv, Fetched
  <1>2. []IInv => [][Keeps]_vars
    BY <1>1, PTL
  <1>3. QED
    BY <1>2, AlwaysIInv, PTL DEF PopKeepsTheNode
=============================================================================
