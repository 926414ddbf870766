------------------------------ MODULE RecipeGet ------------------------------
(***************************************************************************)
(* vaka get on one target (cmd/vaka/get.go) and the fresh install it       *)
(* routes to (pkg/recipe/install.go): several processes, for one recipe or *)
(* for different ones, while the user takes or removes the path, processes *)
(* are killed and the machine loses power.                                 *)
(*                                                                         *)
(* The update it routes to is the atomic switch of RecipeSwitch, which     *)
(* RecipeUpdate implements, after the refusals Update makes first.         *)
(***************************************************************************)
EXTENDS FiniteSets

CONSTANTS
  Gets,       \* the vaka get processes; each runs once
  Recipes,    \* registry and name
  Versions,
  Absent,     \* nothing at the target
  Foreign,    \* what the user may have there instead of a recipe
  EmptyDir,   \* one of these: an empty directory
  None,       \* no staging tree, no request
  Failures    \* a subset of {"error", "kill", "power"}

VARIABLES
  target,     \* Absent, a foreign entry, or a recipe tree
  entered,    \* the parent directory durably holds the target's entry
  staging,    \* each process's .vaka-get-* sibling, or None
  pc,
  want,       \* the recipe and version each resolved
  outcome     \* how it ended: what it reported, or that it was killed

vars == <<target, entered, staging, pc, want, outcome>>

Request == [recipe : Recipes, version : Versions]

\* A tree under construction: how much of the archive and whether the lock is
\* there, and whether all of it is on the disk.  "by" names its creator.
Tree == [by : Gets, recipe : Recipes, version : Versions,
         files : {"some", "all"}, lock : BOOLEAN, durable : BOOLEAN]

\* What is there instead of a tree is none, nor a recipe at a version.
ASSUME SentinelsAssumption ==
  /\ Absent \notin Foreign
  /\ EmptyDir \in Foreign
  /\ Tree \intersect (Foreign \union {Absent, None}) = {}
  /\ Request \intersect (Foreign \union {Absent, None}) = {}

ASSUME FailuresAssumption == Failures \subseteq {"error", "kill", "power"}

IsTree(t) == t # Absent /\ t \notin Foreign

\* LockForDir: the directory is a vaka-managed recipe.
HasLock(t) == IsTree(t) /\ t.lock

Complete(t) == IsTree(t) /\ t.files = "all" /\ t.lock

Reports == {"running", "installed", "unsynced", "updated", "current", "failed", "killed"}

Stages == {"start", "resolved", "present", "install", "staging", "extracted", "locked",
           "synced", "committed", "update", "failing", "done"}

TypeOK ==
  /\ target \in Foreign \union {Absent} \union Tree
  /\ entered \in BOOLEAN
  /\ staging \in [Gets -> Tree \union {None}]
  /\ pc \in [Gets -> Stages]
  /\ want \in [Gets -> Request \union {None}]
  /\ outcome \in [Gets -> Reports]

-----------------------------------------------------------------------------
Init ==
  /\ target \in Foreign \union {Absent}
  /\ entered = TRUE
  /\ staging = [g \in Gets |-> None]
  /\ pc = [g \in Gets |-> "start"]
  /\ want = [g \in Gets |-> None]
  /\ outcome = [g \in Gets |-> "running"]

Step(g, from, to) ==
  /\ pc[g] = from
  /\ pc' = [pc EXCEPT ![g] = to]

Ends(g, from, report) ==
  /\ Step(g, from, "done")
  /\ outcome' = [outcome EXCEPT ![g] = report]

\* The reference is resolved, for the nameless forms against the lock in the
\* target: a guess that the target still bears out, or not, later.
Resolve(g) ==
  /\ Step(g, "start", "resolved")
  /\ \E w \in Request : want' = [want EXCEPT ![g] = w]
  /\ UNCHANGED <<target, entered, staging, outcome>>

UpToDate(g) ==
  /\ Ends(g, "resolved", "current")
  /\ HasLock(target)
  /\ target.recipe = want[g].recipe /\ target.version = want[g].version
  /\ UNCHANGED <<target, entered, staging, want>>

\* installOrUpdate looks for anything at the target, then for a lock in it, and
\* adopts nothing.
Route(g) ==
  /\ Step(g, "resolved", IF target = Absent THEN "install" ELSE "present")
  /\ UNCHANGED <<target, entered, staging, want, outcome>>

RouteToUpdate(g) ==
  /\ HasLock(target)
  /\ Step(g, "present", "update")
  /\ UNCHANGED <<target, entered, staging, want, outcome>>

RefuseForeign(g) ==
  /\ ~ HasLock(target)
  /\ Ends(g, "present", "failed")
  /\ UNCHANGED <<target, entered, staging, want>>

-----------------------------------------------------------------------------
\* Install looks at the target again, then makes a staging sibling.
RefuseExisting(g) ==
  /\ target # Absent
  /\ Ends(g, "install", "failed")
  /\ UNCHANGED <<target, entered, staging, want>>

MakeStaging(g) ==
  /\ target = Absent
  /\ Step(g, "install", "staging")
  /\ staging' = [staging EXCEPT ![g] =
       [by |-> g, recipe |-> want[g].recipe, version |-> want[g].version,
        files |-> "some", lock |-> FALSE, durable |-> FALSE]]
  /\ UNCHANGED <<target, entered, want, outcome>>

Filled(t) == [t EXCEPT !.files = "all"]

Locked(t) == [t EXCEPT !.lock = TRUE]

Synced(t) == [t EXCEPT !.durable = TRUE]

\* Extracted and validated.
Extract(g) ==
  /\ Step(g, "staging", "extracted")
  /\ staging' = [staging EXCEPT ![g] = Filled(@)]
  /\ UNCHANGED <<target, entered, want, outcome>>

WriteLock(g) ==
  /\ Step(g, "extracted", "locked")
  /\ staging' = [staging EXCEPT ![g] = Locked(@)]
  /\ UNCHANGED <<target, entered, want, outcome>>

\* Bug: only the lock, which WriteFileSync synced, is durable.
SyncTree_Skipped(g) ==
  /\ Step(g, "locked", "synced")
  /\ UNCHANGED <<target, entered, staging, want, outcome>>

SyncTree(g) ==
  /\ Step(g, "locked", "synced")
  /\ staging' = [staging EXCEPT ![g] = Synced(@)]
  /\ UNCHANGED <<target, entered, want, outcome>>

\* Bug: rename(2) replaces an empty directory.
Free_Rename(t) == t \in {Absent, EmptyDir}

\* renameNoReplace succeeds only where nothing is.
Free(t) == t = Absent

CommitNewDir(g) ==
  /\ Free(target)
  /\ Step(g, "synced", "committed")
  /\ target' = staging[g]
  /\ entered' = FALSE
  /\ staging' = [staging EXCEPT ![g] = None]
  /\ UNCHANGED <<want, outcome>>

\* Bug: the parent is not synced before success is reported.
SyncParent_Skipped(g) ==
  /\ Ends(g, "committed", "installed")
  /\ UNCHANGED <<target, entered, staging, want>>

SyncParent(g) ==
  /\ Ends(g, "committed", "installed")
  /\ entered' = TRUE
  /\ UNCHANGED <<target, staging, want>>

\* The parent cannot be synced: an error, with the target in place.
SyncParentFails(g) ==
  /\ "error" \in Failures
  /\ Ends(g, "committed", "unsynced")
  /\ UNCHANGED <<target, entered, staging, want>>

\* Something took the target since: EEXIST.
CommitRefused(g) ==
  /\ ~ Free(target)
  /\ Step(g, "synced", "failing")
  /\ UNCHANGED <<target, entered, staging, want, outcome>>

\* An archive or a recipe that does not validate, or an I/O error.
InstallFails(g) ==
  /\ "error" \in Failures
  /\ \E from \in {"staging", "extracted", "locked", "synced"} : Step(g, from, "failing")
  /\ UNCHANGED <<target, entered, staging, want, outcome>>

\* Bug: only the errors after the lock is written clean up.
CleanUp_Partly(g) ==
  /\ Ends(g, "failing", "failed")
  /\ staging' = [staging EXCEPT ![g] = IF staging[g].lock THEN None ELSE @]
  /\ UNCHANGED <<target, entered, want>>

CleanUp(g) ==
  /\ Ends(g, "failing", "failed")
  /\ staging' = [staging EXCEPT ![g] = None]
  /\ UNCHANGED <<target, entered, want>>

-----------------------------------------------------------------------------
\* Bug: the recipe was compared when the get was routed, not here.
SameRecipe_Routed(g) == HasLock(target)

\* The lock, read again under the update lock, is of the requested recipe.
SameRecipe(g) == HasLock(target) /\ target.recipe = want[g].recipe

Update(g) ==
  /\ Ends(g, "update", "updated")
  /\ SameRecipe(g)
  /\ target' = [target EXCEPT !.recipe = want[g].recipe, !.version = want[g].version]
  /\ UNCHANGED <<entered, staging, want>>

\* The directory is gone, or of another recipe, or the update is refused.
UpdateFails(g) ==
  /\ Ends(g, "update", "failed")
  /\ ~ SameRecipe(g) \/ "error" \in Failures
  /\ UNCHANGED <<target, entered, staging, want>>

-----------------------------------------------------------------------------
Killed(g) ==
  /\ "kill" \in Failures
  /\ pc[g] # "start"
  /\ \E from \in Stages \ {"start", "done"} : Ends(g, from, "killed")
  /\ UNCHANGED <<target, entered, staging, want>>

\* A tree that was not synced is found with any part of it missing.
AfterLoss(t) ==
  IF t.durable THEN {t}
  ELSE {[t EXCEPT !.files = f, !.lock = l] :
          f \in {"some", t.files}, l \in {FALSE, t.lock}}

PowerLoss ==
  /\ "power" \in Failures
  /\ target' \in (IF entered THEN {} ELSE {Absent}) \union
                 (IF IsTree(target) THEN AfterLoss(target) ELSE {target})
  /\ entered' = TRUE
  /\ pc' = [g \in Gets |-> IF pc[g] = "start" THEN "start" ELSE "done"]
  /\ outcome' = [g \in Gets |->
       IF pc[g] \in {"start", "done"} THEN outcome[g] ELSE "killed"]
  /\ UNCHANGED <<staging, want>>

UserTakes ==
  /\ target = Absent
  /\ target' \in Foreign
  /\ entered' = TRUE
  /\ UNCHANGED <<staging, pc, want, outcome>>

UserRemoves ==
  /\ target # Absent
  /\ target' = Absent
  /\ entered' = TRUE
  /\ UNCHANGED <<staging, pc, want, outcome>>

Next ==
  \/ \E g \in Gets :
       \/ Resolve(g) \/ UpToDate(g)
       \/ Route(g) \/ RouteToUpdate(g) \/ RefuseForeign(g)
       \/ RefuseExisting(g) \/ MakeStaging(g) \/ Extract(g) \/ WriteLock(g)
       \/ SyncTree(g) \/ CommitNewDir(g) \/ SyncParent(g) \/ SyncParentFails(g)
       \/ CommitRefused(g) \/ InstallFails(g) \/ CleanUp(g)
       \/ Update(g) \/ UpdateFails(g) \/ Killed(g)
  \/ PowerLoss \/ UserTakes \/ UserRemoves

Spec == Init /\ [][Next]_vars

-----------------------------------------------------------------------------
\* What the next get will find at the target.
Held ==
  IF ~ IsTree(target) THEN target
  ELSE IF Complete(target) THEN [recipe |-> target.recipe, version |-> target.version]
  ELSE [recipe |-> None, version |-> None]

Directory == INSTANCE RecipeDirectory WITH held <- Held

\* Whatever races, fails, is killed or lost with power: the target only ever
\* holds a complete recipe or what the user put there, the user's entry is never
\* replaced, and a recipe is never turned into another one.
KeepsDirectory == Directory!Spec

\* A get that reported a failure before its commit left nothing behind, and
\* nothing of it was installed; a staging sibling outlives only a kill
\* (install.go:49).
FailureLeavesNothing ==
  \A g \in Gets :
    /\ outcome[g] = "failed" =>
         /\ staging[g] = None
         /\ IsTree(target) => target.by # g
    /\ pc[g] = "done" /\ staging[g] # None => outcome[g] = "killed"

\* An install that was reported is still there after a power loss, at the
\* version it or a later update left.
InstalledSurvives ==
  [][PowerLoss =>
       \A g \in Gets :
         outcome[g] = "installed" /\ IsTree(target) /\ target.by = g
           => target' = target]_vars

=============================================================================
