------------------------------- MODULE Stash --------------------------------
(***************************************************************************)
(* One stash directory shared by several users (docs/ug-stash.rst).        *)
(*                                                                         *)
(* A stash holds copies of built nodes and a metadata YAML that lists      *)
(* them.  Every "mflowgen stash" command is a process of its own: it reads *)
(* the YAML when the StashHandler is constructed, works on the copies, and *)
(* push and drop write the whole list back at the end.  Nothing is locked, *)
(* so the processes interleave at the granularity of these steps, and each *)
(* of them can be killed between two of them.                              *)
(*                                                                         *)
(* An entry, like the directory it names, is a pair <<node, hash>>: the    *)
(* date in the name is the same for all pushes of a day, and the author,   *)
(* the message and the origin are not looked at by any command.            *)
(***************************************************************************)
EXTENDS Naturals, Sequences, FiniteSets, SequencesExt

CONSTANTS
  User,        \* build directories linked to the stash, one process in each
  Node,        \* names of nodes, the same in every build directory
  Hash,        \* six-digit hashes
  MaxCommands  \* bound: how many push, pull, pop and drop commands are given

ASSUME NodeAssumption == Node # {}

ASSUME BoundAssumption == MaxCommands \in Nat

VARIABLES
  meta,      \* the metadata YAML: its form, and its entries when it is a list
  copies,    \* for each directory name: "absent", "part" or "whole"
  proc,      \* what the process of each user does
  local,     \* the build directory of each node of each user
  commands,  \* number of commands given
  orderly,   \* history: no command was killed and no two ran at the same time
  reused     \* history: hashes that were drawn while in use

vars == <<meta, copies, proc, local, commands, orderly, reused>>

Dir == Node \X Hash

None == <<>>

Entries == ToSet(meta.list)

\* s.stash, the entry at hand, and whether the command is a pop.
Process(at, stash, dir, pop) == [at |-> at, stash |-> stash, dir |-> dir, pop |-> pop]

Idle == Process("idle", <<>>, None, FALSE)

NoBuild == [of |-> None, state |-> "none", prebuilt |-> FALSE]

Ends(u) == proc' = [proc EXCEPT ![u] = Idle]

Goes(u, at) == proc' = [proc EXCEPT ![u].at = at]

HasHash(stash, h) == \E e \in ToSet(stash) : e[2] = h

\* get_hash_index_in_stash: the first entry with that hash.
HashIndex(stash, h) == SelectInSeq(stash, LAMBDA e : e[2] = h)

\* A stash that was just created has no YAML, which reads as the empty list.
Init ==
  /\ meta = [form |-> "list", list |-> <<>>]
  /\ copies = [d \in Dir |-> "absent"]
  /\ proc = [u \in User |-> Idle]
  /\ local = [u \in User |-> [n \in Node |-> NoBuild]]
  /\ commands = 0 /\ orderly = TRUE /\ reused = {}

\* A command starts: __init__ reads the YAML.  One that is empty reads as None
\* and one that is garbled does not parse; both end every command at once.
Starts(u) ==
  /\ proc[u].at = "idle"
  /\ commands < MaxCommands
  /\ commands' = commands + 1
  /\ meta.form = "list"

-----------------------------------------------------------------------------
(* push                                                                    *)

AtRest == \A u \in User : proc[u].at = "idle"

\* gen_unique_hash looks for the hash in the list that was read, and nowhere
\* else: a push that has not written its entry yet may have the same one.
UniqueHash(stash, h) == ~HasHash(stash, h)

\* A directory has the hash, or a command at work knows of it.
InUse(h) ==
  \/ \E n \in Node : copies[<<n, h>>] # "absent"
  \/ \E u \in User : /\ proc[u].at # "idle"
                     /\ proc[u].dir[2] = h \/ HasHash(proc[u].stash, h)

Draws(h) == reused' = IF InUse(h) THEN reused \cup {h} ELSE reused

\* Mutant: push announces the node before it copies it.
StartPushAnnounced(u, n, h) ==
  /\ Starts(u)
  /\ UniqueHash(meta.list, h) /\ Draws(h)
  /\ meta' = [meta EXCEPT !.list = Append(@, <<n, h>>)]
  /\ proc' = [proc EXCEPT ![u] = Process("mkdir", meta.list, <<n, h>>, FALSE)]
  /\ UNCHANGED <<copies, local>>

StartPush(u, n, h) ==
  /\ Starts(u)
  /\ UniqueHash(meta.list, h) /\ Draws(h)
  /\ proc' = [proc EXCEPT ![u] = Process("mkdir", meta.list, <<n, h>>, FALSE)]
  /\ UNCHANGED <<meta, copies, local>>

\* Mutant: the handler removes every copy of the node.
PushMkdirClearsNode(u) ==
  LET d == proc[u].dir IN
  /\ proc[u].at = "mkdir"
  /\ \/ copies[d] = "absent" /\ copies' = [copies EXCEPT ![d] = "part"] /\ Goes(u, "copy")
     \/ /\ copies' = [e \in Dir |-> IF e[1] = d[1] THEN "absent" ELSE copies[e]]
        /\ Ends(u)
  /\ UNCHANGED <<meta, local, commands, reused>>

\* copytree creates the directory.  If it exists, or cannot be created, the
\* handler removes what is there by that name, ignoring errors, and the command
\* fails.
PushMkdir(u) ==
  LET d == proc[u].dir IN
  /\ proc[u].at = "mkdir"
  /\ \/ copies[d] = "absent" /\ copies' = [copies EXCEPT ![d] = "part"] /\ Goes(u, "copy")
     \/ /\ \E c \in {"absent", "part"} :
             copies' = [copies EXCEPT ![d] = IF @ = "absent" THEN @ ELSE c]
        /\ Ends(u)
  /\ UNCHANGED <<meta, local, commands, reused>>

\* The files are copied.  Files that cannot be are reported all together as a
\* shutil.Error at the end, which push passes over; then the entry is appended.
\* Where another process took the directory away, a directory in it brings it
\* back, without the files before.
PushCopy(u) ==
  LET d == proc[u].dir IN
  /\ proc[u].at = "copy"
  /\ \E c \in IF copies[d] = "absent" THEN {"absent", "part"} ELSE {"part", "whole"} :
       copies' = [copies EXCEPT ![d] = c]
  /\ proc' = [proc EXCEPT ![u].at = "open", ![u].stash = Append(@, d)]
  /\ UNCHANGED <<meta, local, commands, reused>>

-----------------------------------------------------------------------------
(* update_stash, the end of push and drop: open(path, 'w') and yaml.dump   *)

\* Mutant: the YAML is opened without being truncated.
OpenYamlInPlace(u) ==
  /\ proc[u].at = "open"
  /\ meta' = [meta EXCEPT !.form = "empty"]
  /\ Goes(u, "write")
  /\ UNCHANGED <<copies, local, commands, reused>>

OpenYaml(u) ==
  /\ proc[u].at = "open"
  /\ meta' = [form |-> "empty", list |-> <<>>]
  /\ Goes(u, "write")
  /\ UNCHANGED <<copies, local, commands, reused>>

\* Push has appended its entry, drop has removed it.
IsPush(u) == proc[u].dir \in ToSet(proc[u].stash)

\* If another process wrote since the file was opened, the longer of the two
\* texts may stick out behind the other.
WriteYaml(u) ==
  /\ proc[u].at = "write"
  /\ \/ meta' = [form |-> "list", list |-> proc[u].stash]
     \/ meta.form # "empty" /\ meta' = [form |-> "garbled", list |-> <<>>]
  /\ IF IsPush(u) THEN Goes(u, "describe") ELSE Ends(u)
  /\ UNCHANGED <<copies, local, commands, reused>>

\* Push goes on to write .mflowgen.stash.node.yml into the copy, which is listed
\* by now.  No command reads that file, and an error (the copy may be gone) is
\* passed over: it adds nothing to a copy and leaves none behind.
PushDescribe(u) ==
  /\ proc[u].at = "describe"
  /\ Ends(u)
  /\ UNCHANGED <<meta, copies, local, commands, reused>>

-----------------------------------------------------------------------------
(* pull, and the first half of pop                                         *)

StartPull(u, h, pop) ==
  /\ Starts(u)
  /\ HasHash(meta.list, h)
  /\ proc' = [proc EXCEPT ![u] =
                Process("rmtree", meta.list, meta.list[HashIndex(meta.list, h)], pop)]
  /\ UNCHANGED <<meta, copies, local, reused>>

\* The build directory is removed, errors ignored: some of it may stay.
PullRmtree(u) ==
  /\ proc[u].at = "rmtree"
  /\ \/ local' = [local EXCEPT ![u][proc[u].dir[1]] = NoBuild]
     \/ /\ local[u][proc[u].dir[1]] # NoBuild
        /\ \E p \in {FALSE, local[u][proc[u].dir[1]].prebuilt} :
             local' = [local EXCEPT ![u][proc[u].dir[1]].state = "broken",
                                    ![u][proc[u].dir[1]].prebuilt = p]
  /\ Goes(u, "fetch")
  /\ UNCHANGED <<meta, copies, commands, reused>>

\* copytree wants the copy to exist and the build directory not to; a
\* directory that another process is removing may be listed without what is
\* gone already.
PullCopytree(u) ==
  LET d == proc[u].dir IN
  /\ proc[u].at = "fetch"
  /\ local[u][d[1]] = NoBuild /\ copies[d] # "absent"
  /\ local' = [local EXCEPT ![u][d[1]] =
                 [of |-> d, state |-> copies[d], prebuilt |-> FALSE]]
  /\ Goes(u, "flag")
  /\ UNCHANGED <<meta, copies, commands, reused>>

\* Mutant: pull reports its error but pop goes on with drop.
PullFailsAndGoesOn(u) ==
  /\ proc[u].at = "fetch"
  /\ IF proc[u].pop THEN Goes(u, "drop") ELSE Ends(u)
  /\ UNCHANGED <<meta, copies, local, commands, reused>>

\* Any exception of copytree ends pull, and pop with it.
PullFails(u) ==
  LET d == proc[u].dir IN
  /\ proc[u].at = "fetch"
  /\ \/ UNCHANGED local
     \/ /\ local[u][d[1]] = NoBuild /\ copies[d] # "absent"
        /\ local' = [local EXCEPT ![u][d[1]] =
                       [of |-> d, state |-> "broken", prebuilt |-> FALSE]]
  /\ Ends(u)
  /\ UNCHANGED <<meta, copies, commands, reused>>

\* The .prebuilt flag; pop goes on with drop, on the list read at its start.
PullFlag(u) ==
  /\ proc[u].at = "flag"
  /\ local' = [local EXCEPT ![u][proc[u].dir[1]].prebuilt = TRUE]
  /\ IF proc[u].pop THEN Goes(u, "drop") ELSE Ends(u)
  /\ UNCHANGED <<meta, copies, commands, reused>>

-----------------------------------------------------------------------------
(* drop, and the second half of pop                                        *)

StartDrop(u, h) ==
  /\ Starts(u)
  /\ HasHash(meta.list, h)
  /\ proc' = [proc EXCEPT ![u] =
                Process("drop", meta.list, meta.list[HashIndex(meta.list, h)], FALSE)]
  /\ UNCHANGED <<meta, copies, local, reused>>

\* rmtree starts on the copy, if there is one.
DropRmtree(u) ==
  /\ proc[u].at = "drop"
  /\ copies[proc[u].dir] # "absent"
  /\ copies' = [copies EXCEPT ![proc[u].dir] = "part"]
  /\ Goes(u, "remove")
  /\ UNCHANGED <<meta, local, commands, reused>>

\* rmtree fails: nothing by that name, no permission, or something in it was
\* removed by another process first.
DropFails(u) ==
  /\ proc[u].at \in {"drop", "remove"}
  /\ Ends(u)
  /\ UNCHANGED <<meta, copies, local, commands, reused>>

\* Mutant: the copy is removed but its entry is not.
DropDoneKeepsEntry(u) ==
  /\ proc[u].at = "remove"
  /\ copies[proc[u].dir] # "absent"
  /\ copies' = [copies EXCEPT ![proc[u].dir] = "absent"]
  /\ Goes(u, "open")
  /\ UNCHANGED <<meta, local, commands, reused>>

DropDone(u) ==
  /\ proc[u].at = "remove"
  /\ copies[proc[u].dir] # "absent"
  /\ copies' = [copies EXCEPT ![proc[u].dir] = "absent"]
  /\ proc' = [proc EXCEPT ![u].at = "open",
                          ![u].stash = RemoveAt(@, HashIndex(@, proc[u].dir[2]))]
  /\ UNCHANGED <<meta, local, commands, reused>>

-----------------------------------------------------------------------------
\* Ctrl-C, a lost session, or an error of the operating system where the code
\* has no handler, such as a full disk while the YAML is written.
Killed(u) ==
  /\ proc[u].at # "idle"
  /\ Ends(u)
  /\ UNCHANGED <<meta, copies, local, commands, reused>>

Step(u) ==
  \/ \E n \in Node, h \in Hash : StartPush(u, n, h)
  \/ PushMkdir(u) \/ PushCopy(u) \/ OpenYaml(u) \/ WriteYaml(u) \/ PushDescribe(u)
  \/ \E h \in Hash, pop \in BOOLEAN : StartPull(u, h, pop)
  \/ PullRmtree(u) \/ PullCopytree(u) \/ PullFails(u) \/ PullFlag(u)
  \/ \E h \in Hash : StartDrop(u, h)
  \/ DropRmtree(u) \/ DropFails(u) \/ DropDone(u)

OneAtWork == \A u, w \in User : proc[u].at # "idle" /\ proc[w].at # "idle" => u = w

Next ==
  \E u \in User : \/ Step(u) /\ orderly' = (orderly /\ OneAtWork')
                  \/ Killed(u) /\ orderly' = FALSE

Spec == Init /\ [][Next]_vars

\* No process is killed: every command runs to its end or to its error.
Unkilled ==
  Init /\ [][\E u \in User : Step(u) /\ orderly' = (orderly /\ OneAtWork')]_vars
-----------------------------------------------------------------------------
(* Properties.                                                             *)

At == {"idle", "mkdir", "copy", "open", "write", "describe", "rmtree", "fetch",
       "flag", "drop", "remove"}

\* Every variable keeps its type.
TypeOK ==
  /\ meta \in [form : {"list", "empty", "garbled"}, list : Seq(Dir)]
  /\ meta.form # "list" => meta.list = <<>>
  /\ reused \subseteq Hash
  /\ copies \in [Dir -> {"absent", "part", "whole"}]
  /\ proc \in [User -> [at : At, stash : Seq(Dir), dir : Dir \cup {None}, pop : BOOLEAN]]
  /\ \A u \in User : proc[u].at # "idle" => proc[u].dir \in Dir
  /\ local \in [User -> [Node -> [of : Dir \cup {None},
                                 state : {"none", "broken", "part", "whole"},
                                 prebuilt : BOOLEAN]]]
  /\ \A u \in User, n \in Node : local[u][n].of \in ({n} \X Hash) \cup {None}
  /\ commands \in Nat /\ orderly \in BOOLEAN

\* "The stash metadata YAML has an entry per stashed item" (and only those, and
\* can be read) whenever nobody is at work.
ListMatchesItems ==
  AtRest =>
    /\ meta.form = "list"
    /\ Entries = {d \in Dir : copies[d] # "absent"}
    /\ Cardinality(Entries) = Len(meta.list)

\* It is so as long as users take turns and let their commands end, whatever
\* fails in them and whichever hashes are drawn again.
EntryPerItem == orderly => ListMatchesItems

\* An entry appears only after its directory was filled: no user is offered a
\* node that is still being pushed, and no kill leaves one behind in the list.
\* Except under a hash that was drawn while in use, where the directory that is
\* made and the one that is listed may be of two pushes.
ListedIsCopied ==
  \A u \in User :
    proc[u].at \in {"mkdir", "copy"} /\ proc[u].dir[2] \notin reused =>
      proc[u].dir \notin Entries

\* A pop takes a node out of the stash only when the user has it: what pop starts
\* to delete is in the build directory as it is in the stash (or better, when
\* another user deletes it too), and it is marked as pre-built.  A copy whose hash
\* was drawn again may be filled once more after the pull.
PopKeepsTheNode ==
  [][\A u \in User :
       proc[u].pop /\ proc[u].at = "drop" /\ proc'[u].at = "remove" =>
         LET mine == local[u][proc[u].dir[1]] IN
         /\ mine.of = proc[u].dir /\ mine.prebuilt
         /\ copies[proc[u].dir] = "whole" /\ proc[u].dir[2] \notin reused =>
              mine.state = "whole"]_vars

\* The copy of a node that anyone can see in the list is changed only by a drop or
\* pop of that node: never by a push that fails, by a pull, or by a drop of
\* another, with several users at work and after kills too.  What a push of
\* another destroys is a node whose hash it has drawn while it was in use.
OnlyDropDestroys ==
  [][\A d \in Entries : copies'[d] # copies[d] /\ d[2] \notin reused =>
       \E u \in User : proc[u].at \in {"drop", "remove"} /\ proc[u].dir = d]_vars

\* "Generate a unique six-character hexadecimal hash that is not currently in use
\* across all nodes in the currently linked stash": what a push is about to make,
\* or to clear away if it is there, has the hash of no listed node.
HashIsUnique ==
  \A u \in User : proc[u].at = "mkdir" => ~HasHash(meta.list, proc[u].dir[2])

\* "We will have everything except dangling symlinks": a node that was pulled
\* without an error, and whose build directory is pinned as pre-built from then
\* on, has every file that the pushed node had, whatever failed at its push.
PulledIsWhole ==
  \A u \in User, n \in Node :
    proc[u].at = "idle" /\ local[u][n].prebuilt => local[u][n].state = "whole"

\* "Removes the node with the given hash from the stash": a listed entry can be
\* dropped, which needs its directory.
ListedCanBeDropped ==
  AtRest => \A d \in Entries : copies[d] # "absent"
=============================================================================
