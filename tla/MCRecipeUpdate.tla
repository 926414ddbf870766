--------------------------- MODULE MCRecipeUpdate ---------------------------
(***************************************************************************)
(* Instances of RecipeUpdate for TLC.  Path 1 is a top-level file, path 2  *)
(* lies in a subdirectory.                                                 *)
(***************************************************************************)
EXTENDS RecipeMatrix, TLC

CONSTANTS u1, u2, g1, g2, g3, s1, s2, a1, a2, b1, b2, mine

\* One release rewrites path 1 and drops path 2, so that between two releases
\* the matrix meets put, delete, track and an untracked path.
TwoReleases == [r1 |-> (1 :> a1 @@ 2 :> b1), r2 |-> (1 :> a2 @@ 2 :> Absent)]

\* A third one, and a state (b1) that returns after having been dropped.
ThreeReleases ==
  [r1 |-> (1 :> a1 @@ 2 :> b1),
   r2 |-> (1 :> a2 @@ 2 :> Absent),
   r3 |-> (1 :> a2 @@ 2 :> b2)]

\* A journal copied from another installation, accepting the user's content.
StrayJournal ==
  [base |-> s1,
   final |-> [release |-> "r2", gen |-> s2, files |-> TwoReleases["r2"],
              kept |-> {}, skipped |-> {}],
   plan |-> (1 :> [accepted |-> {a1, mine}, final |-> a2] @@
             2 :> [accepted |-> {b1, mine}, final |-> Absent])]

OneStray == {StrayJournal}

Symmetry == Permutations(Updaters) \union Permutations(Generations)

=============================================================================
