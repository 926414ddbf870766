---------------------------- MODULE MCRecipeGet ----------------------------
(***************************************************************************)
(* An instance of RecipeGet for TLC: three gets, so that one can install,  *)
(* one race with it and one find what they left.                           *)
(***************************************************************************)
EXTENDS RecipeGet, TLC

CONSTANTS g1, g2, g3, file

Symmetry == Permutations(Gets)

=============================================================================
