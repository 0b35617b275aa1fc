------------------------------- MODULE MCStash ------------------------------
(* Small teams for Stash.                                                  *)
EXTENDS Stash, TLC

\* Users, nodes and hashes are interchangeable.
Symmetry == Permutations(User) \cup Permutations(Node) \cup Permutations(Hash)
=============================================================================
