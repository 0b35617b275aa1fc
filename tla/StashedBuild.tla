---------------------------- MODULE StashedBuild ----------------------------
(***************************************************************************)
(* MakeBuild with what puts other files under make between two makes: an   *)
(* "mflowgen stash pull" replaces a build directory by a copy of one from  *)
(* another build, and a pull or clean that stops half way leaves a part of *)
(* a directory.                                                            *)
(*                                                                         *)
(* What a copy holds is not told by its stamps.  Push passes over files    *)
(* that could not be copied, whichever they are, and copies any directory: *)
(* one that failed, that is being rebuilt under stamps of an earlier make, *)
(* or that is still written.  So a copy has all the outputs of a build and *)
(* the verdict of its post-conditions, or it has not, and either with any  *)
(* stamps of any age: each file keeps the modification time it had.        *)
(*                                                                         *)
(* Each of these events takes a tick of the clock, which also names the    *)
(* outputs that are there afterwards, in part or not at all.               *)
(***************************************************************************)
EXTENDS MakeBuild

CONSTANTS
  Pullable,   \* nodes somebody has pushed
  Age         \* bound: how many ticks ago a stamp of a copy can be touched

ASSUME PullableAssumption == Pullable \subseteq Node

ASSUME AgeAssumption == Age \subseteq Nat

\* History: nodes whose outputs came complete from the stash and are still
\* there, and those of which a part was left and has not been made again.
VARIABLES pulled, broken

varsP == <<vars, pulled, broken>>

-----------------------------------------------------------------------------
\* The stamps in a copy, with their times, 0 for those that are not there.
Stamps(n) == [Parts(n) -> {0} \cup {time \in 1 .. run + 1 : run + 1 - time \in Age}]

\* The directory is one that was copied.
Stamped(n, stamps) ==
  mtime' = [t \in Target |->
              IF t[1] # n THEN mtime[t] ELSE IF Phony(t) THEN 0 ELSE stamps[t[2]]]

\* Between two makes; nothing in the directory was made from sources here.
Ticks(n) ==
  /\ ~active
  /\ run <= MaxRuns
  /\ run' = run + 1 /\ result' = "none"
  /\ from' = [e \in Edge |-> IF e[2] = n THEN 0 ELSE from[e]]
  /\ UNCHANGED <<active, wanted, phase>>

\* All the outputs of a build, which its post-conditions accepted there.
Brings(n) ==
  /\ made' = [made EXCEPT ![n] = run']
  /\ whole' = [whole EXCEPT ![n] = TRUE]
  /\ checked' = [checked EXCEPT ![n] = run']
  /\ pulled' = pulled \cup {n} /\ broken' = broken \ {n}

\* Outputs that are there in part, or that nothing has accepted.
Leaves(n) ==
  /\ made' = [made EXCEPT ![n] = run']
  /\ whole' = [whole EXCEPT ![n] = FALSE]
  /\ checked' = [checked EXCEPT ![n] = 0]
  /\ pulled' = pulled \ {n} /\ broken' = broken \cup {n}

\* rmtree, copytree and the .prebuilt file: the copy is here, and whether it is
\* complete is not looked at.
Pull(n, stamps) ==
  /\ Ticks(n)
  /\ Stamped(n, stamps)
  /\ prebuilt' = prebuilt \cup {n}
  /\ Brings(n) \/ Leaves(n)

\* copytree raises or is killed: some of the files are there, and no flag.
CopyFails(n, stamps) ==
  /\ Ticks(n)
  /\ Stamped(n, stamps)
  /\ prebuilt' = prebuilt \ {n}
  /\ Leaves(n)

\* Some of the files of a directory stay, a .prebuilt perhaps: the rm -rf of
\* "make clean-N" or "make clean-all" is killed, or the rmtree of a pull, which
\* ignores errors, leaves them and copytree refuses to copy over them.
Remains(n, P) ==
  /\ Ticks(n)
  /\ \E p \in Parts(n) : mtime[<<n, p>>] # 0
  /\ mtime' = [t \in Target |-> IF t[1] = n /\ t[2] \notin P THEN 0 ELSE mtime[t]]
  /\ prebuilt' \in {prebuilt, prebuilt \ {n}}
  /\ Leaves(n)

\* Commands that write outputs anew and rm -rf end what there was.
StillThere ==
  /\ pulled' = {n \in pulled : made'[n] = made[n]}
  /\ broken' = {n \in broken : made'[n] = made[n]}

NextP ==
  \/ Next /\ StillThere
  \/ \E n \in Pullable : \E stamps \in Stamps(n) : Pull(n, stamps) \/ CopyFails(n, stamps)
  \/ \E n \in Node : \E P \in SUBSET Parts(n) : Remains(n, P)

SpecP == Init /\ pulled = {} /\ broken = {} /\ [][NextP]_varsP
-----------------------------------------------------------------------------
(* Properties.                                                             *)

\* What looks done is done, however pulls, failures, kills and cleans follow
\* each other, with two exceptions the code leaves to the user.  Consumers may
\* not notice that a source was pulled over, because the stamps in it are old.
\* And a directory of which a part was left passes for a finished one if its
\* stamps do, until it is made again: after a pull that failed or whose copy was
\* not complete, and after a clean that was interrupted.  The outputs of a pulled
\* node are good also after .prebuilt was removed.
FreshUnlessPulled ==
  \A G \in SUBSET Node : NothingToDo(G) =>
    \A n \in G \ broken :
      /\ made[n] # 0 /\ whole[n] /\ checked[n] = made[n]
      /\ n \notin prebuilt \cup pulled =>
           \A s \in Sources(n) :
             from[<<s, n>>] = made[s] \/ s \in pulled \cup broken

\* Commands read complete and accepted outputs, where these were pulled too, but
\* for directories of which a part was left (see above); and what they read is
\* never replaced under them, these directories included.
ReadsUnlessBroken ==
  \A e \in Edge : phase[<<e[2], "exec">>] = "commands" =>
    /\ made[e[1]] # 0 /\ from[e] = made[e[1]]
    /\ e[1] \in broken \/ (whole[e[1]] /\ checked[e[1]] = made[e[1]])
=============================================================================
