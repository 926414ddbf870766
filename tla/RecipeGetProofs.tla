--------------------------- MODULE RecipeGetProofs ---------------------------
(***************************************************************************)
(* For any number of gets, recipes and versions, whatever the user does at *)
(* the target and whatever fails: RecipeGet implements RecipeDirectory, a  *)
(* failure leaves nothing, and a reported install survives power losses.   *)
(***************************************************************************)
EXTENDS RecipeGet, TLAPS

Building == {"staging", "extracted", "locked", "synced"}

\* What a process at each stage knows of its own request and staging tree.
OwnState(g) ==
  /\ pc[g] \notin {"start", "done"} => want[g] \in Request
  /\ pc[g] \in Building => staging[g] \in Tree /\ staging[g].by = g
  /\ pc[g] \in {"extracted", "locked", "synced"} => staging[g].files = "all"
  /\ pc[g] \in {"locked", "synced"} => staging[g].lock
  /\ pc[g] = "synced" => staging[g].durable
  /\ pc[g] \notin Building \union {"failing", "done"} => staging[g] = None

\* What each report tells.
OwnReport(g) ==
  /\ outcome[g] = "running" <=> pc[g] # "done"
  /\ pc[g] = "done" /\ staging[g] # None => outcome[g] = "killed"

\* A tree at the target was complete and durable when it was renamed there, and
\* its creator has done so.
Installed ==
  IsTree(target) =>
    /\ target \in Tree
    /\ Complete(target) /\ target.durable
    /\ \/ pc[target.by] = "committed"
       \/ pc[target.by] = "done" /\ outcome[target.by] \in {"installed", "unsynced", "killed"}
    /\ outcome[target.by] = "installed" => entered

IInv ==
  /\ TypeOK
  /\ \A g \in Gets : OwnState(g) /\ OwnReport(g)
  /\ Installed

-----------------------------------------------------------------------------
\* A tree is neither nothing, nor the user's.
LEMMA TreeIsATree == ASSUME NEW t \in Tree PROVE IsTree(t) /\ t # None
BY SentinelsAssumption DEF IsTree

\* What the steps that build a staging tree change of it.
LEMMA TreeUpdates ==
  ASSUME NEW t \in Tree
  PROVE  /\ Filled(t) \in Tree
         /\ Filled(t).files = "all"
         /\ Filled(t).by = t.by
         /\ Locked(t) \in Tree
         /\ Locked(t).lock
         /\ Locked(t).files = t.files
         /\ Locked(t).by = t.by
         /\ Synced(t) \in Tree
         /\ Synced(t).durable
         /\ Synced(t).lock = t.lock
         /\ Synced(t).files = t.files
         /\ Synced(t).by = t.by
BY DEF Tree, Filled, Locked, Synced

\* Every initial state is a legal one: nothing is running, and what is at the
\* target is not a tree.
LEMMA InitInv == Init => IInv
<1> SUFFICES ASSUME Init PROVE IInv
  OBVIOUS
<1>1. ~ IsTree(target)
  BY DEF Init, IsTree
<1>2. TypeOK
  BY DEF Init, TypeOK, Reports, Stages
<1>3. \A g \in Gets : OwnState(g) /\ OwnReport(g)
  BY DEF Init, OwnState, OwnReport, Building
<1> QED
  BY <1>1, <1>2, <1>3 DEF IInv, Installed

\* The steps of one process before its rename, and its ends, leave the target.
OwnStep(g) ==
  \/ Resolve(g) \/ UpToDate(g) \/ Route(g) \/ RouteToUpdate(g) \/ RefuseForeign(g)
  \/ RefuseExisting(g) \/ MakeStaging(g) \/ Extract(g) \/ WriteLock(g)
  \/ SyncTree(g) \/ SyncParent(g) \/ SyncParentFails(g)
  \/ CommitRefused(g) \/ InstallFails(g) \/ CleanUp(g)
  \/ UpdateFails(g) \/ Killed(g)

\* Each of them keeps the types, and touches no one else's state.
LEMMA OwnStepFrame ==
  ASSUME IInv, NEW g \in Gets, OwnStep(g)
  PROVE  /\ TypeOK' /\ target' = target
         /\ entered => entered'
         /\ \A h \in Gets \ {g} : /\ pc'[h] = pc[h] /\ want'[h] = want[h]
                                  /\ staging'[h] = staging[h] /\ outcome'[h] = outcome[h]
<1> USE DEF IInv, TypeOK, Step, Ends, Stages, Reports
<1>1. CASE Resolve(g) BY <1>1 DEF Resolve
<1>2. CASE UpToDate(g) BY <1>2 DEF UpToDate
<1>3. CASE Route(g) BY <1>3 DEF Route
<1>4. CASE RouteToUpdate(g) BY <1>4 DEF RouteToUpdate
<1>5. CASE RefuseForeign(g) BY <1>5 DEF RefuseForeign
<1>6. CASE RefuseExisting(g) BY <1>6 DEF RefuseExisting
<1>7. CASE MakeStaging(g)
  BY <1>7 DEF MakeStaging, OwnState, Request, Tree
<1>8. CASE Extract(g)
  BY <1>8, TreeUpdates DEF Extract, OwnState, Building
<1>9. CASE WriteLock(g)
  BY <1>9, TreeUpdates DEF WriteLock, OwnState, Building
<1>10. CASE SyncTree(g)
  BY <1>10, TreeUpdates DEF SyncTree, OwnState, Building
<1>11. CASE SyncParent(g) BY <1>11 DEF SyncParent
<1>12. CASE SyncParentFails(g) BY <1>12 DEF SyncParentFails
<1>13. CASE CommitRefused(g) BY <1>13 DEF CommitRefused
<1>14. CASE InstallFails(g) BY <1>14 DEF InstallFails
<1>15. CASE CleanUp(g) BY <1>15 DEF CleanUp
<1>16. CASE UpdateFails(g) BY <1>16 DEF UpdateFails
<1>17. CASE Killed(g) BY <1>17 DEF Killed
<1> QED
  BY <1>1, <1>2, <1>3, <1>4, <1>5, <1>6, <1>7, <1>8, <1>9, <1>10, <1>11, <1>12,
     <1>13, <1>14, <1>15, <1>16, <1>17 DEF OwnStep

\* Each of them leaves its own process in a legal state.
LEMMA OwnStepState ==
  ASSUME IInv, NEW g \in Gets, OwnStep(g)
  PROVE  OwnState(g)' /\ OwnReport(g)'
<1> USE DEF IInv, TypeOK, Step, Ends, Stages, Reports, OwnState, OwnReport, Building
<1>1. CASE Resolve(g) BY <1>1 DEF Resolve
<1>2. CASE UpToDate(g) BY <1>2 DEF UpToDate
<1>3. CASE Route(g) BY <1>3 DEF Route
<1>4. CASE RouteToUpdate(g) BY <1>4 DEF RouteToUpdate
<1>5. CASE RefuseForeign(g) BY <1>5 DEF RefuseForeign
<1>6. CASE RefuseExisting(g) BY <1>6 DEF RefuseExisting
<1>7. CASE MakeStaging(g)
  BY <1>7 DEF MakeStaging, Request, Tree
<1>8. CASE Extract(g)
  BY <1>8, TreeUpdates DEF Extract, OwnState, Building
<1>9. CASE WriteLock(g)
  BY <1>9, TreeUpdates DEF WriteLock, OwnState, Building
<1>10. CASE SyncTree(g)
  BY <1>10, TreeUpdates DEF SyncTree, OwnState, Building
<1>11. CASE SyncParent(g) BY <1>11 DEF SyncParent
<1>12. CASE SyncParentFails(g) BY <1>12 DEF SyncParentFails
<1>13. CASE CommitRefused(g) BY <1>13 DEF CommitRefused
<1>14. CASE InstallFails(g) BY <1>14 DEF InstallFails
<1>15. CASE CleanUp(g) BY <1>15 DEF CleanUp
<1>16. CASE UpdateFails(g) BY <1>16 DEF UpdateFails
<1>17. CASE Killed(g) BY <1>17 DEF Killed
<1> QED
  BY <1>1, <1>2, <1>3, <1>4, <1>5, <1>6, <1>7, <1>8, <1>9, <1>10, <1>11, <1>12,
     <1>13, <1>14, <1>15, <1>16, <1>17 DEF OwnStep

\* They keep what is known of the target: only its creator's own steps can
\* disturb that, and they do so as it says.
LEMMA OwnStepInstalled ==
  ASSUME IInv, NEW g \in Gets, OwnStep(g)
  PROVE  Installed'
<1> SUFFICES ASSUME IsTree(target) PROVE Installed'
  BY OwnStepFrame DEF Installed, IsTree
<1>1. /\ target \in Tree /\ Complete(target) /\ target.durable /\ target' = target
      /\ target.by \in Gets /\ (entered => entered')
  BY OwnStepFrame DEF IInv, Installed, Tree
<1>2. CASE target.by # g
  BY <1>1, <1>2, OwnStepFrame DEF IInv, Installed, IsTree, Complete
<1>3. CASE target.by = g
  <2>1. /\ pc[g] \in {"committed", "done"}
        /\ pc[g] = "done" => outcome[g] \in {"installed", "unsynced", "killed"}
    BY <1>1, <1>3 DEF IInv, Installed
  <2>2. SyncParent(g) \/ SyncParentFails(g) \/ Killed(g)
    BY <2>1 DEF OwnStep, Resolve, UpToDate, Route, RouteToUpdate, RefuseForeign,
       RefuseExisting, MakeStaging, Extract, WriteLock, SyncTree, CommitRefused,
       InstallFails, CleanUp, UpdateFails, Step, Ends
  <2>3. \/ pc'[g] = "done" /\ outcome'[g] \in {"unsynced", "killed"}
        \/ pc'[g] = "done" /\ outcome'[g] = "installed" /\ entered'
    BY <2>2 DEF SyncParent, SyncParentFails, Killed, Step, Ends, IInv, TypeOK
  <2>. QED
    BY <1>1, <1>3, <2>3 DEF Installed, IsTree, Complete
<1> QED
  BY <1>2, <1>3

\* The rename puts the complete, durable tree of its process at the target.
LEMMA CommitInv ==
  ASSUME IInv, NEW g \in Gets, CommitNewDir(g)
  PROVE  IInv'
<1>1. /\ staging[g] \in Tree /\ staging[g].by = g
      /\ Complete(staging[g]) /\ staging[g].durable
  BY TreeIsATree DEF IInv, OwnState, CommitNewDir, Step, Building, Complete
<1>2. TypeOK'
  BY <1>1 DEF CommitNewDir, Step, IInv, TypeOK, Stages
<1>3. \A h \in Gets : OwnState(h)' /\ OwnReport(h)'
  BY DEF CommitNewDir, Step, IInv, TypeOK, OwnState, OwnReport, Building
<1>4. Installed'
  <2>1. target' = staging[g] /\ pc'[g] = "committed" /\ outcome'[g] = "running"
    BY DEF CommitNewDir, Step, IInv, TypeOK, OwnReport
  <2>. QED
    BY <1>1, <2>1 DEF Installed, Complete, IsTree
<1> QED
  BY <1>2, <1>3, <1>4 DEF IInv

\* An update changes the version of the tree and nothing else.
LEMMA UpdateInv ==
  ASSUME IInv, NEW g \in Gets, Update(g)
  PROVE  IInv'
<1> DEFINE r == want[g].recipe
           v == want[g].version
<1>1. target \in Tree /\ IsTree(target) /\ r \in Recipes /\ v \in Versions
  BY DEF Update, SameRecipe, HasLock, IInv, Installed, OwnState, Request, Ends, Step
<1>2. PICK t \in Tree : /\ t = target'
                        /\ t.by = target.by /\ t.files = target.files
                        /\ t.lock = target.lock /\ t.durable = target.durable
  <2> HIDE DEF r, v
  <2>1. target' = [target EXCEPT !.recipe = r, !.version = v]
    BY DEF Update, r, v
  <2>2. target' = [by |-> target.by, recipe |-> r, version |-> v,
                   files |-> target.files, lock |-> target.lock,
                   durable |-> target.durable]
    BY <1>1, <2>1 DEF Tree
  <2>. QED
    BY <1>1, <2>2 DEF Tree
<1>3. TypeOK'
  BY <1>2 DEF Update, Ends, Step, IInv, TypeOK, Stages, Reports
<1>4. \A h \in Gets : OwnState(h)' /\ OwnReport(h)'
  BY DEF Update, Ends, Step, IInv, TypeOK, OwnState, OwnReport, Building
<1>5. Installed'
  <2>1. /\ Complete(target) /\ target.durable /\ target.by \in Gets
        /\ \/ pc[target.by] = "committed"
           \/ pc[target.by] = "done" /\ outcome[target.by] \in {"installed", "unsynced", "killed"}
        /\ outcome[target.by] = "installed" => entered
    BY <1>1 DEF IInv, Installed, Tree
  <2>2. target.by # g
    BY <2>1 DEF Update, Ends, Step
  <2>3. /\ pc'[target.by] = pc[target.by] /\ outcome'[target.by] = outcome[target.by]
        /\ entered' = entered
    BY <2>1, <2>2 DEF Update, Ends, Step, IInv, TypeOK
  <2>4. Complete(target')
    BY <1>2, <2>1, TreeIsATree DEF Complete
  <2>. QED
    BY <1>2, <2>1, <2>3, <2>4 DEF Installed, Complete, IsTree
<1> QED
  BY <1>3, <1>4, <1>5 DEF IInv

\* What a power loss leaves of the target: a tree there was durable.
LEMMA PowerLossTarget ==
  ASSUME IInv, PowerLoss
  PROVE  target' = target \/ (~ entered /\ target' = Absent)
<1>1. IsTree(target) => target.durable
  BY DEF IInv, Installed
<1> QED
  BY <1>1 DEF PowerLoss, AfterLoss

\* A power loss ends every running get, and leaves a committed tree as it was.
LEMMA PowerLossInv ==
  ASSUME IInv, PowerLoss
  PROVE  IInv'
<1>1. TypeOK'
  BY PowerLossTarget DEF PowerLoss, IInv, TypeOK, Stages, Reports
<1>2. \A h \in Gets : OwnState(h)' /\ OwnReport(h)'
  BY DEF PowerLoss, IInv, TypeOK, OwnState, OwnReport, Building, Stages, Reports
<1>3. Installed'
  <2>1. CASE target' = Absent
    BY <2>1 DEF Installed, IsTree
  <2>2. CASE target' = target /\ IsTree(target)
    <3>1. /\ target \in Tree /\ target.by \in Gets /\ Complete(target) /\ target.durable
          /\ pc[target.by] \in {"committed", "done"}
          /\ pc[target.by] = "done" => outcome[target.by] \in {"installed", "unsynced", "killed"}
      BY <2>2 DEF IInv, Installed, Tree
    <3>2. pc'[target.by] = "done" /\ outcome'[target.by] \in {"installed", "unsynced", "killed"}
      BY <3>1 DEF PowerLoss
    <3>3. entered'
      BY DEF PowerLoss
    <3>. QED
      BY <2>2, <3>1, <3>2, <3>3 DEF Installed, Complete, IsTree
  <2>. QED
    BY <2>1, <2>2, PowerLossTarget DEF Installed, IsTree
<1> QED
  BY <1>1, <1>2, <1>3 DEF IInv

\* What the user does leaves no tree, and no process sees it yet.
LEMMA UserInv ==
  ASSUME IInv, UserTakes \/ UserRemoves
  PROVE  IInv'
<1>1. ~ IsTree(target)' /\ TypeOK'
  BY DEF UserTakes, UserRemoves, IsTree, IInv, TypeOK
<1>2. \A h \in Gets : OwnState(h)' /\ OwnReport(h)'
  BY DEF UserTakes, UserRemoves, IInv, OwnState, OwnReport
<1> QED
  BY <1>1, <1>2 DEF IInv, Installed, IsTree

\* Every step keeps the invariant.
LEMMA StepInv == IInv /\ [Next]_vars => IInv'
<1> SUFFICES ASSUME IInv, [Next]_vars PROVE IInv'
  OBVIOUS
<1>1. ASSUME NEW g \in Gets, OwnStep(g) PROVE IInv'
  <2>1. \A h \in Gets : OwnState(h)' /\ OwnReport(h)'
    BY <1>1, OwnStepFrame, OwnStepState DEF IInv, OwnState, OwnReport
  <2>. QED
    BY <1>1, <2>1, OwnStepFrame, OwnStepInstalled DEF IInv
<1>2. ASSUME NEW g \in Gets, CommitNewDir(g) PROVE IInv'
  BY <1>2, CommitInv
<1>3. ASSUME NEW g \in Gets, Update(g) PROVE IInv'
  BY <1>3, UpdateInv
<1>4. CASE PowerLoss BY <1>4, PowerLossInv
<1>5. CASE UserTakes \/ UserRemoves BY <1>5, UserInv
<1>6. CASE UNCHANGED vars
  BY <1>6 DEF vars, IInv, TypeOK, OwnState, OwnReport, Installed, IsTree, Complete
<1> QED
  BY <1>1, <1>2, <1>3, <1>4, <1>5, <1>6 DEF Next, OwnStep

\* The invariant holds of every get, whatever runs and fails around it.
THEOREM AlwaysIInv == Spec => []IInv
BY InitInv, StepInv, PTL DEF Spec
-----------------------------------------------------------------------------
\* A get that reported a failure before its commit left neither a staging tree
\* nor a recipe of its making.
THEOREM FailuresLeaveNothing == Spec => []FailureLeavesNothing
<1>1. IInv => FailureLeavesNothing
  BY DEF IInv, TypeOK, OwnReport, Installed, FailureLeavesNothing
<1> QED
  BY <1>1, AlwaysIInv, PTL

\* A reported install is found unchanged after a power loss.
THEOREM InstallsSurvive == Spec => InstalledSurvives
<1> DEFINE Survives == PowerLoss =>
             \A g \in Gets :
               outcome[g] = "installed" /\ IsTree(target) /\ target.by = g
                 => target' = target
<1>1. IInv => Survives
  BY PowerLossTarget DEF IInv, Installed
<1>2. IInv /\ [Next]_vars => [Survives]_vars
  BY <1>1
<1>3. Spec => [][Survives]_vars
  BY <1>2, AlwaysIInv, PTL DEF Spec
<1> QED
  BY <1>3 DEF InstalledSurvives

\* Held is the target itself until a complete tree is there.
LEMMA HeldValue ==
  ASSUME IInv
  PROVE  /\ ~ IsTree(target) => Held = target
         /\ IsTree(target) =>
              /\ Held = [recipe |-> target.recipe, version |-> target.version]
              /\ target.recipe \in Recipes /\ target.version \in Versions
              /\ Held \notin Foreign \union {Absent}
BY SentinelsAssumption DEF IInv, Installed, Held, Tree, Request

\* A step of RecipeGet is one of RecipeDirectory, or leaves it alone.
LEMMA StepRefines == IInv /\ IInv' /\ [Next]_vars => [Directory!Next]_Held
<1> SUFFICES ASSUME IInv, IInv', [Next]_vars
             PROVE  Directory!Next \/ Held' = Held
  OBVIOUS
<1> USE DEF Directory!Next
<1>0. /\ ~ IsTree(target)' => Held' = target'
      /\ IsTree(target)' =>
           /\ Held' = [recipe |-> target'.recipe, version |-> target'.version]
           /\ target'.recipe \in Recipes /\ target'.version \in Versions
  BY SentinelsAssumption DEF IInv, Installed, Held, Tree, IsTree, Complete
<1>1. CASE target' = target
  BY <1>1 DEF Held, IsTree, Complete
<1>2. CASE target' = Absent
  BY <1>0, <1>2 DEF Directory!Vanish, IsTree
<1>3. CASE UserTakes
  BY <1>0, <1>3, HeldValue DEF Directory!UserTakes, UserTakes, IsTree
<1>4. ASSUME NEW g \in Gets, CommitNewDir(g) PROVE Directory!Next
  <2>1. Held = Absent
    BY <1>4, HeldValue DEF CommitNewDir, Free, IsTree
  <2>2. IsTree(target)'
    <3>1. target' = staging[g] /\ staging[g] \in Tree
      BY <1>4 DEF CommitNewDir, Step, IInv, OwnState, Building
    <3>. QED
      BY <3>1, TreeIsATree DEF IsTree
  <2>. QED
    BY <1>0, <2>1, <2>2 DEF Directory!Install
<1>5. ASSUME NEW g \in Gets, Update(g) PROVE Directory!Next
  <2>1. /\ IsTree(target) /\ target \in Tree /\ target.recipe = want[g].recipe
        /\ want[g] \in Request
    BY <1>5 DEF Update, SameRecipe, HasLock, IInv, Installed, OwnState, Ends, Step
  <2>2. target' \in Tree /\ target'.recipe = target.recipe
    <3> DEFINE r == want[g].recipe
               v == want[g].version
    <3>1. r \in Recipes /\ v \in Versions /\ r = target.recipe
      BY <2>1 DEF Request
    <3>2. target' = [target EXCEPT !.recipe = r, !.version = v]
      BY <1>5 DEF Update
    <3> HIDE DEF r, v
    <3>. QED
      BY <2>1, <3>1, <3>2 DEF Tree
  <2>3. IsTree(target)'
    BY <2>2, TreeIsATree DEF IsTree
  <2>4. Held.recipe = target.recipe /\ Held \notin Foreign \union {Absent}
    BY <2>1, HeldValue
  <2>. QED
    BY <1>0, <2>2, <2>3, <2>4 DEF Directory!Switch
<1>6. CASE PowerLoss
  BY <1>1, <1>2, <1>6, PowerLossTarget
<1>7. CASE UserRemoves
  BY <1>2, <1>7 DEF UserRemoves
<1>8. ASSUME NEW g \in Gets, OwnStep(g) PROVE Held' = Held
  BY <1>1, <1>8, OwnStepFrame DEF Held, IsTree, Complete
<1> QED
  BY <1>1, <1>3, <1>4, <1>5, <1>6, <1>7, <1>8 DEF Next, OwnStep, vars

\* vaka get keeps its promise about the target: RecipeGet implements
\* RecipeDirectory.
THEOREM GetKeepsDirectory == Spec => KeepsDirectory
<1>1. Init => Directory!Init
  BY DEF Init, Directory!Init, Held, IsTree
<1> QED
  BY <1>1, StepRefines, AlwaysIInv, PTL DEF Spec, KeepsDirectory, Directory!Spec

=============================================================================
