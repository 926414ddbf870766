---------------------------- MODULE RecipeSwitch ----------------------------
(***************************************************************************)
(* What an update promises in a directory the user leaves alone: the whole *)
(* recipe moves from one release to another in a single step.              *)
(***************************************************************************)
CONSTANTS Releases, Published

VARIABLES release, content

Init == release \in Releases /\ content = Published[release]

Switch(r) == release' = r /\ content' = Published[r]

Next == \E r \in Releases : Switch(r)

Spec == Init /\ [][Next]_<<release, content>>

=============================================================================
