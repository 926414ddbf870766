------------------------- MODULE MCGitPreviewCache -------------------------
(***************************************************************************)
(* Instances of GitPreviewCache for TLC.                                   *)
(***************************************************************************)
EXTENDS GitPreviewCache, TLC

CONSTANTS c1, c2, r1, d1, d2, d3

\* Any two commits fit in the cache of the runs, all three do not.
ThreeCommits == [k1 |-> {d1}, k2 |-> {d2}, k3 |-> {d3}]

\* A commit that shares an artifact with another.
SharedArtifact == [k1 |-> {d1}, k2 |-> {d1, d2}, k3 |-> {d3}]

Symmetry == Permutations(Commands)

=============================================================================
