-------------------------- MODULE RecipeDirectory --------------------------
(***************************************************************************)
(* What vaka get promises about its target directory, whatever runs and    *)
(* fails around it: a complete recipe appears where nothing was, and later *)
(* moves between the releases of that recipe; nothing else is adopted.     *)
(***************************************************************************)
CONSTANTS Recipes, Versions, Absent, Foreign

VARIABLE held

Init == held \in Foreign \union {Absent}

Install(r, v) == held = Absent /\ held' = [recipe |-> r, version |-> v]

Switch(r, v) ==
  /\ held \notin Foreign \union {Absent}
  /\ held.recipe = r
  /\ held' = [recipe |-> r, version |-> v]

\* The user removes what is there, or a power loss does before it was durable.
Vanish == held' = Absent

UserTakes == held = Absent /\ held' \in Foreign

Next ==
  \/ \E r \in Recipes, v \in Versions : Install(r, v) \/ Switch(r, v)
  \/ Vanish \/ UserTakes

Spec == Init /\ [][Next]_held

=============================================================================
