------------------------- MODULE RecipeUpdateProofs -------------------------
(***************************************************************************)
(* Proofs about RecipeUpdate, for any set of processes, paths, releases    *)
(* and user entries, with process kills and power losses.                  *)
(***************************************************************************)
EXTENDS RecipeUpdate, TLAPS

-----------------------------------------------------------------------------
(* The decision matrix yields a well-formed plan. *)

\* A row of the matrix is typed, whatever the lock, the journal, the disk and
\* the new release hold for the path.
LEMMA RowType ==
  ASSUME NEW old \in State, NEW kept \in BOOLEAN,
         NEW known \in PlanEntry \union {NoEntry},
         NEW disk \in State, NEW new \in State
  PROVE  RowOf(old, kept, known, disk, new) \in Row
<1>1. ActionOf(old, known, disk, new) \in {"none", "put", "delete", "track"}
  BY DEF ActionOf
<1>2. (new # Absent /\ ~ UserOwned(old, known, disk, new)) \in BOOLEAN
  OBVIOUS
<1>3. Recorded(old, known) \subseteq State
  BY DEF Recorded, PlanEntry
<1>4. AcceptedList(old, known, disk, new) \in SUBSET State
  BY <1>3 DEF AcceptedList
<1>5. DeviationOf(old, kept, known, disk, new) \in {"none", "kept", "skipped"}
  BY DEF DeviationOf
<1> QED
  BY <1>1, <1>2, <1>4, <1>5 DEF RowOf, Row

\* What the disk is read as is a state.
LEMMA DiskStateType ==
  ASSUME NEW entry \in DirEntry
  PROVE  DiskState(entry) \in State
BY DEF DiskState, DirEntry, State

\* The journal's entry of a row is typed.
LEMMA EntryType ==
  ASSUME NEW row \in Row
  PROVE  EntryOfRow(row) \in PlanEntry \union {NoEntry}
BY DEF EntryOfRow, Row, PlanEntry

-----------------------------------------------------------------------------
(* Type correctness and mutual exclusion.  Typing alone is not inductive:  *)
(* what an action copies from a process's locals is typed only at the      *)
(* stages that have set them, and the release being renamed from is the    *)
(* staged one because its stager still holds the update lock.              *)

Planned == Window \union Installed \union {"synced"}

LocalsSet ==
  \A u \in Updaters :
    /\ pc[u] # "idle" => want[u] \in Releases
    /\ Holding(u) => base[u] \in Lock
    /\ pc[u] \in Planned => next[u] \in Lock

IInv == TypeOK /\ LocalsSet /\ HolderOwnsDirectory

\* A plan has a typed row for every path.
LEMMA PlanType ==
  ASSUME TypeOK, NEW l \in Lock, NEW j \in Journal \union {None},
         NEW r \in Releases
  PROVE  BuildPlan(l, j, r) \in [Paths -> Row]
<1> SUFFICES ASSUME NEW p \in Paths
             PROVE  RowOf(l.files[p], p \in l.kept, EntryFor(j, p),
                          DiskState(tree[p]), Published[r][p]) \in Row
  BY DEF BuildPlan
<1>1. l.files[p] \in State /\ (p \in l.kept) \in BOOLEAN
  BY DEF Lock
<1>2. EntryFor(j, p) \in PlanEntry \union {NoEntry}
  BY DEF EntryFor, Journal
<1>3. DiskState(tree[p]) \in State
  BY DiskStateType DEF TypeOK
<1>4. Published[r][p] \in State
  BY PublishedAssumption
<1> QED
  BY <1>1, <1>2, <1>3, <1>4, RowType

\* The lock an update writes is typed.
LEMMA NewLockType ==
  ASSUME NEW r \in Releases, NEW g \in Generations, NEW plan \in [Paths -> Row]
  PROVE  NewLock(r, g, plan) \in Lock
<1>1. [p \in Paths |-> IF plan[p].tracked THEN Published[r][p] ELSE Absent]
        \in [Paths -> State]
  BY PublishedAssumption DEF State
<1> QED
  BY <1>1 DEF NewLock, Lock

\* The journal an update writes is typed.
LEMMA JournalOfType ==
  ASSUME TypeOK, NEW u \in Updaters, base[u] \in Lock, next[u] \in Lock
  PROVE  JournalOf(u) \in Journal
<1>1. [p \in Paths |-> EntryOfRow(rows[u][p])]
        \in [Paths -> PlanEntry \union {NoEntry}]
  BY EntryType DEF TypeOK
<1>2. base[u].gen \in Generations
  BY DEF Lock
<1> QED
  BY <1>1, <1>2 DEF JournalOf, Journal

\* A stray journal is never pending, so an inherited one is vaka's own.
LEMMA PendingIsOwn ==
  ASSUME NEW l \in Lock, NEW j \in Journal \union StrayJournals \union {None},
         Pending(j, l)
  PROVE  j \in Journal
BY StrayAssumption DEF Pending, Lock

\* A process that ends leaves typed locals, whichever process it is.
LEMMA ExitKeepsInvariant ==
  ASSUME IInv, NEW u \in Updaters, pc[u] \notin Idle, Exit(u),
         lock' = lock, staging' \in Releases \union {None},
         tree' = tree, journal' = journal, edited' = edited,
         dTree' \in [Paths -> DirEntry], dLock' \in Lock,
         dJournal' \in Journal \union StrayJournals \union {None}
  PROVE  IInv'
<1> USE DEF IInv
<1>1. TypeOK'
  <2>1. NoRows \in [Paths -> Row]
    BY DEF NoRows, Row, State
  <2>2. flock' = None /\ pc' = [pc EXCEPT ![u] = "idle"] /\ raced' = {}
    BY DEF Exit
  <2>3. /\ want' \in [Updaters -> Releases \union {None}]
        /\ base' \in [Updaters -> Lock \union {None}]
        /\ inherited' \in [Updaters -> Journal \union {None}]
        /\ next' \in [Updaters -> Lock \union {None}]
    BY DEF Exit, TypeOK
  <2>4. /\ rows' \in [Updaters -> [Paths -> Row]]
        /\ todo' \in [Updaters -> SUBSET Paths]
    BY <2>1 DEF Exit, TypeOK
  <2>5. pc' \in [Updaters -> Stages]
    BY <2>2 DEF TypeOK, Stages, Idle
  <2> QED
    BY <2>2, <2>3, <2>4, <2>5 DEF TypeOK
<1>2. \A v \in Updaters : v # u => pc'[v] \in Idle
  BY DEF Exit, TypeOK, HolderOwnsDirectory, Holding
<1>3. pc'[u] = "idle"
  BY DEF Exit, TypeOK
<1>4. \A v \in Updaters : v # u => pc'[v] = pc[v] /\ want'[v] = want[v]
  BY DEF Exit, TypeOK
<1>5. LocalsSet'
  BY <1>2, <1>3, <1>4 DEF LocalsSet, Holding, Idle, Planned, Window, Installed
<1>6. HolderOwnsDirectory'
  BY <1>2, <1>3 DEF HolderOwnsDirectory, Holding, Idle
<1> QED
  BY <1>1, <1>5, <1>6

\* An action of the holder that moves it from one stage to the next.
LEMMA StepKeepsInvariant ==
  ASSUME IInv, NEW u \in Updaters, NEW from, NEW to \in Stages,
         from \notin Idle, to \notin Idle,
         Step(u, from, to), TypeOK',
         flock' = flock, want' = want, base' = base,
         to \in Planned => (from \in Planned /\ next' = next) \/ next'[u] \in Lock,
         lock' = lock \/ to = "committing",
         lock' = IF to \in Installed THEN next'[u] ELSE base'[u],
         to \in Window \union {"staged", "synced"} => staging' = want[u]
  PROVE  IInv'
<1> USE DEF IInv
<1>1. pc[u] = from /\ pc'[u] = to
  BY DEF Step, TypeOK
<1>2. \A v \in Updaters : v # u => pc'[v] = pc[v] /\ pc'[v] \in Idle
  BY <1>1 DEF Step, TypeOK, HolderOwnsDirectory, Holding
<1>3. LocalsSet'
  BY <1>1, <1>2 DEF LocalsSet, Holding, Idle, Planned, Window, Installed
<1>4. HolderOwnsDirectory'
  BY <1>1, <1>2 DEF HolderOwnsDirectory, Holding
<1> QED
  BY <1>3, <1>4

\* Every step of a process keeps the invariant.
LEMMA ProceedKeepsInvariant ==
  ASSUME IInv, NEW u \in Updaters, Proceed(u)
  PROVE  IInv'
<1> USE DEF IInv
<1>1. CASE Acquire(u)
  <2>1. TypeOK'
    BY <1>1 DEF Acquire, Step, TypeOK, files, durable, Stages
  <2>2. \A v \in Updaters : v # u => pc'[v] = pc[v] /\ pc'[v] \in Idle
    BY <1>1, NoneAssumption DEF Acquire, Step, TypeOK, HolderOwnsDirectory, Holding
  <2>3. pc[u] = "fetched" /\ pc'[u] = "locked" /\ base'[u] = lock /\ flock' = u
    BY <1>1 DEF Acquire, Step, TypeOK
  <2>4. LocalsSet'
    BY <1>1, <2>2, <2>3 DEF Acquire, LocalsSet, Holding, Idle, Planned, Window,
       Installed, TypeOK
  <2>5. HolderOwnsDirectory'
    BY <1>1, <2>2, <2>3 DEF Acquire, HolderOwnsDirectory, Holding, Idle, Window,
       Installed, files
  <2> QED
    BY <2>1, <2>4, <2>5
<1>2. CASE UpdateInProgress(u)
  <2>1. TypeOK'
    BY <1>2 DEF UpdateInProgress, Step, TypeOK, files, durable, Stages, Idle
  <2>2. pc'[u] = "idle" /\ \A v \in Updaters : v # u => pc'[v] = pc[v] /\ want'[v] = want[v]
    BY <1>2 DEF UpdateInProgress, Step, TypeOK
  <2>3. LocalsSet'
    BY <1>2, <2>2 DEF UpdateInProgress, LocalsSet, Holding, Idle, Planned, Window, Installed
  <2>4. HolderOwnsDirectory'
    BY <1>2, <2>2 DEF UpdateInProgress, HolderOwnsDirectory, Holding, Idle, files
  <2> QED
    BY <2>1, <2>3, <2>4
<1>3. CASE Recover(u)
  <2>1. pc[u] = "locked" /\ base[u] \in Lock
    BY <1>3 DEF Recover, Step, LocalsSet, Holding, Idle
  <2>2. inherited' \in [Updaters -> Journal \union {None}]
    BY <1>3, <2>1, PendingIsOwn DEF Recover, TypeOK
  <2>3. TypeOK'
    BY <1>3, <2>2 DEF Recover, Step, TypeOK, durable, Stages
  <2> QED
    BY <1>3, <2>1, <2>3, StepKeepsInvariant DEF Recover, Step, HolderOwnsDirectory,
       Holding, Idle, Stages, Planned, Window, Installed
<1>4. CASE ClearStaging(u)
  <2>1. TypeOK'
    BY <1>4 DEF ClearStaging, SyncRoot, Step, TypeOK, locals, Stages
  <2> QED
    BY <1>4, <2>1, StepKeepsInvariant DEF ClearStaging, Step, HolderOwnsDirectory,
       Holding, Idle, Stages, Planned, Window, Installed, locals
<1>5. CASE Stage(u)
  <2>1. want[u] \in Releases
    BY <1>5 DEF Stage, Step, LocalsSet
  <2>2. TypeOK'
    BY <1>5, <2>1 DEF Stage, Step, TypeOK, locals, durable, Stages
  <2> QED
    BY <1>5, <2>2, StepKeepsInvariant DEF Stage, Step, HolderOwnsDirectory,
       Holding, Idle, Stages, Planned, Window, Installed, locals
<1>6. CASE Precheck(u)
  <2> DEFINE plan == BuildPlan(base[u], inherited[u], want[u])
  <2>1. pc[u] = "staged" /\ base[u] \in Lock /\ want[u] \in Releases
    BY <1>6 DEF Precheck, Step, LocalsSet, Holding, Idle
  <2>2. plan \in [Paths -> Row]
    BY <2>1, PlanType DEF TypeOK
  <2>3. PICK g \in Generations :
          /\ rows' = [rows EXCEPT ![u] = plan]
          /\ next' = [next EXCEPT ![u] = NewLock(want[u], g, plan)]
          /\ todo' = [todo EXCEPT ![u] = Operations(plan)]
    BY <1>6 DEF Precheck, FreshGenerations
  <2>4. NewLock(want[u], g, plan) \in Lock
    BY <2>1, <2>2, NewLockType
  <2>5. Operations(plan) \subseteq Paths
    BY DEF Operations
  <2>6. /\ rows' \in [Updaters -> [Paths -> Row]]
        /\ next' \in [Updaters -> Lock \union {None}]
        /\ todo' \in [Updaters -> SUBSET Paths]
        /\ next'[u] \in Lock
    BY <2>2, <2>3, <2>4, <2>5 DEF TypeOK
  <2>7. TypeOK'
    BY <1>6, <2>6 DEF Precheck, Step, TypeOK, files, durable, Stages, Window
  <2> QED
    BY <1>6, <2>1, <2>6, <2>7, StepKeepsInvariant DEF Precheck, Step,
       HolderOwnsDirectory, Holding, Idle, Stages, Planned, Window, Installed, files
<1>7. CASE WriteJournal(u)
  <2>1. pc[u] = "prechecked" /\ base[u] \in Lock /\ next[u] \in Lock
    BY <1>7 DEF WriteJournal, Step, LocalsSet, Holding, Idle, Planned, Window
  <2>2. TypeOK'
    BY <1>7, <2>1, JournalOfType DEF WriteJournal, Step, TypeOK, locals, durable, Stages, Window
  <2> QED
    BY <1>7, <2>2, StepKeepsInvariant DEF WriteJournal, Step, HolderOwnsDirectory,
       Holding, Idle, Stages, Planned, Window, Installed, locals
<1>8. CASE SyncJournal(u)
  <2>1. TypeOK'
    BY <1>8 DEF SyncJournal, SyncRoot, Step, TypeOK, locals, files, Stages, Window
  <2> QED
    BY <1>8, <2>1, StepKeepsInvariant DEF SyncJournal, Step, HolderOwnsDirectory,
       Holding, Idle, Stages, Planned, Window, Installed, locals, files
<1>9. CASE \E p \in Paths : ApplyPut(u, p) \/ ApplyDelete(u, p)
  <2>1. PICK p \in Paths, entry \in DirEntry : Finish(u, p, entry)
    <3>1. CASE \E p \in Paths : ApplyDelete(u, p)
      BY <3>1 DEF ApplyDelete, DirEntry, State
    <3>2. CASE \E p \in Paths : ApplyPut(u, p)
      <4>1. PICK p \in Paths : Finish(u, p, Published[staging][p])
        BY <3>2 DEF ApplyPut
      <4>2. staging \in Releases
        BY <4>1 DEF Finish, HolderOwnsDirectory, LocalsSet, Holding, Idle, Window
      <4> QED
        BY <4>1, <4>2, PublishedAssumption DEF DirEntry
    <3> QED
      BY <1>9, <3>1, <3>2
  <2>2. TypeOK'
    BY <2>1 DEF Finish, TypeOK, durable
  <2>3. LocalsSet'
    BY <2>1 DEF Finish, LocalsSet, Holding
  <2>4. HolderOwnsDirectory'
    BY <2>1 DEF Finish, HolderOwnsDirectory, Holding
  <2> QED
    BY <2>2, <2>3, <2>4
<1>10. CASE SyncTree(u)
  <2>1. TypeOK'
    BY <1>10 DEF SyncTree, Step, TypeOK, locals, files, Stages
  <2> QED
    BY <1>10, <2>1, StepKeepsInvariant DEF SyncTree, Step, HolderOwnsDirectory,
       Holding, Idle, Stages, Planned, Window, Installed, locals, files
<1>11. CASE CommitLock(u)
  <2>1. pc[u] = "synced" /\ next[u] \in Lock
    BY <1>11 DEF CommitLock, Step, LocalsSet, Planned
  <2>2. TypeOK'
    BY <1>11, <2>1 DEF CommitLock, Step, TypeOK, locals, durable, Stages, Installed
  <2> QED
    BY <1>11, <2>1, <2>2, StepKeepsInvariant DEF CommitLock, Step, HolderOwnsDirectory,
       Holding, Idle, Stages, Planned, Window, Installed, locals
<1>12. CASE SyncCommit(u)
  <2>1. TypeOK'
    BY <1>12 DEF SyncCommit, SyncRoot, Step, TypeOK, locals, files, Stages, Installed
  <2> QED
    BY <1>12, <2>1, StepKeepsInvariant DEF SyncCommit, Step, HolderOwnsDirectory,
       Holding, Idle, Stages, Planned, Window, Installed, locals, files
<1>13. CASE Cleanup(u)
  <2>1. TypeOK'
    BY <1>13 DEF Cleanup, Step, TypeOK, locals, durable, Stages, Installed
  <2> QED
    BY <1>13, <2>1, StepKeepsInvariant DEF Cleanup, Step, HolderOwnsDirectory,
       Holding, Idle, Stages, Planned, Window, Installed, locals
<1>14. CASE DropStaging(u)
  <2>1. TypeOK'
    BY <1>14 DEF DropStaging, Step, TypeOK, locals, durable, Stages, Installed
  <2> QED
    BY <1>14, <2>1, StepKeepsInvariant DEF DropStaging, Step, HolderOwnsDirectory,
       Holding, Idle, Stages, Planned, Window, Installed, locals
<1>15. CASE SyncCleanup(u)
  <2>1. /\ dTree' \in [Paths -> DirEntry] /\ dLock' \in Lock
        /\ dJournal' \in Journal \union StrayJournals \union {None}
    BY <1>15 DEF SyncCleanup, SyncRoot, TypeOK, files
  <2> QED
    BY <1>15, <2>1, ExitKeepsInvariant DEF SyncCleanup, Idle, files, TypeOK
<1>16. CASE \/ RefuseStrayJournal(u) \/ RefusePlan(u) \/ NothingToDo(u)
           \/ \E p \in Paths : ApplyFails(u, p)
  BY <1>16, ExitKeepsInvariant DEF RefuseStrayJournal, RefusePlan, NothingToDo,
     ApplyFails, Idle, files, durable, TypeOK
<1> QED
  BY <1>1, <1>2, <1>3, <1>4, <1>5, <1>6, <1>7, <1>8, <1>9, <1>10, <1>11, <1>12,
     <1>13, <1>14, <1>15, <1>16 DEF Proceed

\* Neither do power losses, the user and stray journals break it.
LEMMA EnvironmentKeepsInvariant ==
  ASSUME IInv, Environment
  PROVE  IInv'
<1> USE DEF IInv
<1>1. CASE PowerLoss
  <2>1. NoRows \in [Paths -> Row]
    BY DEF NoRows, Row, State
  <2>2. TypeOK'
    BY <1>1, <2>1 DEF PowerLoss, TypeOK, Stages, Idle
  <2> QED
    BY <1>1, <2>2 DEF PowerLoss, LocalsSet, HolderOwnsDirectory, Holding, Idle,
       Planned, Window, Installed
<1>2. CASE \E p \in Paths, entry \in UserEntries : UserWrites(p, entry)
  <2>1. TypeOK'
    BY <1>2, UserAssumption DEF UserWrites, TypeOK, locals
  <2> QED
    BY <1>2, <2>1 DEF UserWrites, LocalsSet, HolderOwnsDirectory, Holding, locals
<1>3. CASE RemoveStrayJournal \/ \E j \in StrayJournals : CopyStrayJournal(j)
  <2>1. TypeOK'
    BY <1>3 DEF CopyStrayJournal, RemoveStrayJournal, TypeOK, locals
  <2> QED
    BY <1>3, <2>1 DEF CopyStrayJournal, RemoveStrayJournal, LocalsSet,
       HolderOwnsDirectory, Holding, locals
<1> QED
  BY <1>1, <1>2, <1>3 DEF Environment

\* The invariant holds when vaka has just installed the recipe.
LEMMA InitIsTyped == Init => IInv
<1> SUFFICES ASSUME Init PROVE IInv
  OBVIOUS
<1>1. PICK r \in Releases, g \in Generations :
        /\ tree = Published[r]
        /\ lock = [release |-> r, gen |-> g, files |-> Published[r],
                   kept |-> {}, skipped |-> {}]
  BY DEF Init
<1>2. lock \in Lock /\ tree \in [Paths -> DirEntry]
  BY <1>1, PublishedAssumption DEF Lock, DirEntry
<1>3. NoRows \in [Paths -> Row]
  BY DEF NoRows, Row, State
<1>4. TypeOK
  BY <1>2, <1>3 DEF Init, TypeOK, Stages, Idle
<1> QED
  BY <1>4 DEF Init, IInv, LocalsSet, HolderOwnsDirectory, Holding, Idle, Planned,
     Window, Installed

\* No step of the system breaks the invariant.
LEMMA NextKeepsInvariant ==
  ASSUME IInv, [Next]_vars
  PROVE  IInv'
<1>1. CASE \E u \in Updaters : Proceed(u)
  BY <1>1, ProceedKeepsInvariant
<1>2. CASE \E u \in Updaters, r \in Releases : Check(u, r)
  <2>1. PICK u \in Updaters, r \in Releases : Check(u, r)
    BY <1>2
  <2>2. TypeOK'
    BY <2>1 DEF IInv, Check, Step, TypeOK, files, durable, Stages, Idle
  <2>3. /\ pc'[u] = "fetched" /\ want'[u] = r
        /\ \A v \in Updaters : v # u => pc'[v] = pc[v] /\ want'[v] = want[v]
    BY <2>1 DEF IInv, Check, Step, TypeOK
  <2> QED
    BY <2>1, <2>2, <2>3 DEF IInv, Check, LocalsSet, HolderOwnsDirectory, Holding,
       Idle, Planned, Window, Installed, files
<1>3. CASE \E u \in Updaters : Interrupted(u)
  BY <1>3, ExitKeepsInvariant DEF Interrupted, IInv, TypeOK, files, durable
<1>4. CASE Environment
  BY <1>4, EnvironmentKeepsInvariant
<1>5. CASE UNCHANGED vars
  BY <1>5 DEF vars, files, durable, locals, IInv, TypeOK, LocalsSet,
     HolderOwnsDirectory, Holding
<1> QED
  BY <1>1, <1>2, <1>3, <1>4, <1>5 DEF Next

\* IInv is an invariant of the specification.
LEMMA InvariantHolds == Spec => []IInv
BY InitIsTyped, NextKeepsInvariant, PTL DEF Spec

\* The state of every reachable directory and process is well typed, and the
\* process that holds the update lock still has the lock and the staging tree
\* it read and wrote: concurrent runs of vaka get never commit over each other.
THEOREM HolderOwnsTheDirectory == Spec => [](TypeOK /\ HolderOwnsDirectory)
<1>1. IInv => TypeOK /\ HolderOwnsDirectory
  BY DEF IInv
<1> QED
  BY InvariantHolds, <1>1, PTL

-----------------------------------------------------------------------------
(* The lock accounts for its release.  The property is carried from the    *)
(* plan to the lock through the writer's local copy, and back from the     *)
(* disk after a power loss.                                                *)

AccountsInv ==
  /\ AccountsFor(lock)
  /\ AccountsFor(dLock)
  /\ \A u \in Updaters : pc[u] \in Planned => AccountsFor(next[u])

\* The lock made from a plan that blocks nowhere accounts for its release.
LEMMA NewLockAccounts ==
  ASSUME NEW l \in Lock, NEW j \in Journal \union {None}, NEW r \in Releases,
         NEW g \in Generations, TypeOK, Blocked(l, j, r) = {}
  PROVE  AccountsFor(NewLock(r, g, BuildPlan(l, j, r)))
<1> DEFINE plan == BuildPlan(l, j, r)
<1> SUFFICES ASSUME NEW p \in Paths
             PROVE  LET new == NewLock(r, g, plan)
                        shipped == Published[r][p]
                    IN  /\ new.files[p] = IF p \in new.skipped THEN Absent ELSE shipped
                        /\ p \in new.skipped => shipped # Absent
                        /\ p \in new.kept => shipped = Absent
  BY DEF AccountsFor, NewLock
<1> DEFINE old == l.files[p]
           known == EntryFor(j, p)
           disk == DiskState(tree[p])
           shipped == Published[r][p]
<1>1. ~ Blocks(old, known, disk, shipped)
  BY DEF Blocked
<1>2. /\ plan[p].tracked = (shipped # Absent /\ ~ UserOwned(old, known, disk, shipped))
      /\ plan[p].deviation = DeviationOf(old, p \in l.kept, known, disk, shipped)
  BY DEF BuildPlan, RowOf
<1>3. plan[p].deviation = "skipped" <=> SkipsCollision(old, known, disk, shipped)
  BY <1>2 DEF DeviationOf
<1>4. plan[p].deviation = "kept" => shipped = Absent
  BY <1>2 DEF DeviationOf, KeepsUserCopy
<1>5. shipped # Absent => (plan[p].tracked <=> plan[p].deviation # "skipped")
  BY <1>1, <1>2, <1>3 DEF SkipsCollision, Blocks
<1>6. plan[p].deviation = "skipped" => shipped # Absent
  BY <1>3 DEF SkipsCollision
<1> QED
  BY <1>2, <1>4, <1>5, <1>6 DEF NewLock

\* No step makes an unaccounted lock.
LEMMA StepKeepsAccounts ==
  ASSUME IInv, AccountsInv, [Next]_vars
  PROVE  AccountsInv'
<1> USE DEF IInv
<1>1. CASE \E u \in Updaters : Precheck(u)
  <2>1. PICK u \in Updaters : Precheck(u)
    BY <1>1
  <2>2. base[u] \in Lock /\ want[u] \in Releases /\ inherited[u] \in Journal \union {None}
    BY <2>1 DEF Precheck, Step, LocalsSet, Holding, Idle, TypeOK
  <2>3. PICK g \in Generations :
          next' = [next EXCEPT ![u] =
                     NewLock(want[u], g, BuildPlan(base[u], inherited[u], want[u]))]
    BY <2>1 DEF Precheck, FreshGenerations
  <2>4. AccountsFor(next'[u])
    BY <2>1, <2>2, <2>3, NewLockAccounts DEF Precheck, Accepted, TypeOK
  <2>5. \A v \in Updaters : v # u => next'[v] = next[v] /\ pc'[v] = pc[v]
    BY <2>1, <2>3 DEF Precheck, Step, TypeOK
  <2> QED
    BY <2>1, <2>4, <2>5 DEF Precheck, AccountsInv, AccountsFor, files, durable
<1>2. CASE \E u \in Updaters : CommitLock(u)
  BY <1>2 DEF CommitLock, Step, AccountsInv, AccountsFor, TypeOK, durable, locals,
     Planned, Window, Installed
<1>3. CASE PowerLoss
  BY <1>3 DEF PowerLoss, AccountsInv, AccountsFor, Planned, Window, Installed
<1>4. ASSUME lock' = lock, dLock' \in {lock, dLock},
             \A u \in Updaters : pc'[u] \in Planned => pc[u] \in Planned /\ next'[u] = next[u]
      PROVE  AccountsInv'
  BY <1>4 DEF AccountsInv, AccountsFor
<1>5. CASE \E u \in Updaters :
             \/ \E r \in Releases : Check(u, r)
             \/ Acquire(u) \/ UpdateInProgress(u) \/ Recover(u) \/ RefuseStrayJournal(u)
             \/ ClearStaging(u) \/ Stage(u) \/ RefusePlan(u) \/ NothingToDo(u)
             \/ WriteJournal(u) \/ SyncJournal(u)
  BY <1>5, <1>4 DEF Check, Acquire, UpdateInProgress, Recover, RefuseStrayJournal,
     ClearStaging, Stage, RefusePlan, NothingToDo, WriteJournal, SyncJournal, SyncRoot,
     Step, Exit, TypeOK, files, durable, locals, Planned, Window, Installed
<1>6. CASE \E u \in Updaters :
             \/ \E p \in Paths : ApplyPut(u, p) \/ ApplyDelete(u, p) \/ ApplyFails(u, p)
             \/ SyncTree(u) \/ SyncCommit(u) \/ Cleanup(u) \/ DropStaging(u)
             \/ SyncCleanup(u)
             \/ Interrupted(u)
  BY <1>6, <1>4 DEF ApplyPut, ApplyDelete, ApplyFails, Finish, SyncTree, SyncCommit,
     Cleanup, DropStaging, SyncCleanup, Interrupted, SyncRoot, Step, Exit, TypeOK, files, durable,
     locals, Planned, Window, Installed
<1>7. CASE \/ \E p \in Paths, entry \in UserEntries : UserWrites(p, entry)
           \/ RemoveStrayJournal \/ \E j \in StrayJournals : CopyStrayJournal(j)
           \/ UNCHANGED vars
  BY <1>7, <1>4 DEF UserWrites, RemoveStrayJournal, CopyStrayJournal, vars, files,
     durable, locals
<1> QED
  BY <1>1, <1>2, <1>3, <1>5, <1>6, <1>7 DEF Next, Proceed, Environment

\* Whatever the sequence of updates, interruptions and edits, the installed lock
\* accounts for every file of its release: tracked as published, or recorded as
\* skipped because the user's file is there.
THEOREM LockAlwaysAccounts == Spec => []LockAccountsForRelease
<1>1. Init => AccountsInv
  BY DEF Init, AccountsInv, AccountsFor, Planned, Window, Installed
<1>2. AccountsInv => LockAccountsForRelease
  BY DEF AccountsInv, LockAccountsForRelease
<1> QED
  BY InvariantHolds, <1>1, <1>2, StepKeepsAccounts, PTL DEF Spec

-----------------------------------------------------------------------------
(* The generation check.  The journal and the lock a power loss may leave  *)
(* are any of the two images', so the binding is stated for each pair; it  *)
(* holds because a journal is written only over a durable lock and is      *)
(* durable itself before the lock moves.                                   *)

Binds(j, l) == j = None \/ j \in StrayJournals \/ l.gen \in GensIn(j)

JournalInv ==
  /\ Binds(journal, lock) /\ Binds(journal, dLock)
  /\ Binds(dJournal, lock) /\ Binds(dJournal, dLock)
  /\ \A u \in Updaters :
       /\ pc[u] \in {"cleaned", "staged", "prechecked", "journaled", "applying", "synced"}
            => dLock = lock
       /\ pc[u] \in {"journaled", "applying", "synced", "committing"}
            => journal = JournalOf(u)
       /\ pc[u] \in {"applying", "synced", "committing"} => dJournal = journal

\* A holder's step leaves the other processes outside the transaction.
LEMMA OthersAreIdle ==
  ASSUME IInv, NEW u \in Updaters, Holding(u), NEW v \in Updaters, v # u
  PROVE  pc[v] \in Idle
BY DEF IInv, HolderOwnsDirectory, Holding

\* No step unbinds the journal and the lock.
LEMMA StepKeepsJournal ==
  ASSUME IInv, JournalInv, [Next]_vars
  PROVE  JournalInv'
<1> USE DEF IInv
<1>1. CASE \E u \in Updaters : Acquire(u)
  BY <1>1 DEF Acquire, Step, TypeOK, files, durable, JournalInv, Binds, JournalOf
<1>2. CASE \E u \in Updaters : Recover(u) \/ Stage(u) \/ Precheck(u)
  <2>1. PICK u \in Updaters : Recover(u) \/ Stage(u) \/ Precheck(u)
    BY <1>2
  <2>2. /\ Holding(u) /\ pc'[u] \in {"recovered", "staged", "prechecked"}
        /\ \A v \in Updaters : v # u => pc'[v] = pc[v]
        /\ lock' = lock /\ dLock' = dLock /\ dJournal' = dJournal
        /\ journal' \in {journal, None}
        /\ pc'[u] # "recovered" => pc[u] \in {"cleaned", "staged"}
    BY <2>1 DEF Recover, Stage, Precheck, Step, TypeOK, files, durable, Holding, Idle
  <2> QED
    BY <2>2, OthersAreIdle DEF JournalInv, Binds, Idle
<1>3. CASE \E u \in Updaters : ClearStaging(u)
  <2>1. PICK u \in Updaters : ClearStaging(u)
    BY <1>3
  <2>2. /\ Holding(u) /\ pc'[u] = "cleaned"
        /\ \A v \in Updaters : v # u => pc'[v] = pc[v]
        /\ lock' = lock /\ dLock' = lock /\ journal' = journal /\ dJournal' = journal
    BY <2>1 DEF ClearStaging, SyncRoot, Step, TypeOK, Holding, Idle
  <2> QED
    BY <2>2, OthersAreIdle DEF JournalInv, Binds, Idle
<1>4. CASE \E u \in Updaters : WriteJournal(u)
  <2>1. PICK u \in Updaters : WriteJournal(u)
    BY <1>4
  <2>2. /\ Holding(u) /\ pc[u] = "prechecked" /\ pc'[u] = "journaled"
        /\ \A v \in Updaters : v # u => pc'[v] = pc[v]
        /\ lock' = lock /\ dLock' = dLock /\ dJournal' = dJournal
        /\ journal' = JournalOf(u) /\ JournalOf(u)' = JournalOf(u)
    BY <2>1 DEF WriteJournal, JournalOf, Step, TypeOK, durable, locals, Holding, Idle
  <2>3. dLock = lock /\ lock = base[u]
    BY <2>2 DEF JournalInv, HolderOwnsDirectory, Installed
  <2>4. lock.gen \in GensIn(JournalOf(u)) \/ JournalOf(u) = None
    BY <2>3 DEF GensIn, JournalOf
  <2> QED
    BY <2>2, <2>3, <2>4, OthersAreIdle DEF JournalInv, Binds, Idle
<1>5. CASE \E u \in Updaters : SyncJournal(u)
  <2>1. PICK u \in Updaters : SyncJournal(u)
    BY <1>5
  <2>2. /\ Holding(u) /\ pc[u] = "journaled" /\ pc'[u] = "applying"
        /\ \A v \in Updaters : v # u => pc'[v] = pc[v]
        /\ lock' = lock /\ dLock' = lock /\ dJournal' = journal /\ journal' = journal
        /\ JournalOf(u)' = JournalOf(u)
    BY <2>1 DEF SyncJournal, SyncRoot, JournalOf, Step, TypeOK, files, locals, Holding, Idle
  <2> QED
    BY <2>2, OthersAreIdle DEF JournalInv, Binds, Idle
<1>6. CASE \E u \in Updaters : \/ SyncTree(u)
                             \/ \E p \in Paths : ApplyPut(u, p) \/ ApplyDelete(u, p)
  <2>1. PICK u \in Updaters : \/ SyncTree(u)
                           \/ \E p \in Paths : ApplyPut(u, p) \/ ApplyDelete(u, p)
    BY <1>6
  <2>2. /\ Holding(u) /\ pc[u] = "applying" /\ pc'[u] \in {"applying", "synced"}
        /\ \A v \in Updaters : v # u => pc'[v] = pc[v]
        /\ lock' = lock /\ dLock' = dLock /\ journal' = journal
        /\ dJournal' \in {journal, dJournal} /\ JournalOf(u)' = JournalOf(u)
    BY <2>1 DEF SyncTree, ApplyPut, ApplyDelete, Finish, JournalOf, Step, TypeOK,
       files, durable, locals, Holding, Idle, JournalInv
  <2> QED
    BY <2>2, OthersAreIdle DEF JournalInv, Binds, Idle
<1>7. CASE \E u \in Updaters : CommitLock(u)
  <2>1. PICK u \in Updaters : CommitLock(u)
    BY <1>7
  <2>2. /\ Holding(u) /\ pc[u] = "synced" /\ pc'[u] = "committing"
        /\ \A v \in Updaters : v # u => pc'[v] = pc[v]
        /\ lock' = next[u] /\ dLock' = dLock
        /\ dJournal' = dJournal /\ journal' = journal
        /\ JournalOf(u)' = JournalOf(u)
    BY <2>1 DEF CommitLock, JournalOf, Step, TypeOK, durable, locals, Holding, Idle
  <2>3. next[u].gen \in GensIn(JournalOf(u)) \/ JournalOf(u) = None
    BY DEF GensIn, JournalOf
  <2> QED
    BY <2>2, <2>3, OthersAreIdle DEF JournalInv, Binds, Idle
<1>8. CASE \E u \in Updaters :
             SyncCommit(u) \/ Cleanup(u) \/ DropStaging(u) \/ SyncCleanup(u)
  <2>1. PICK u \in Updaters :
          SyncCommit(u) \/ Cleanup(u) \/ DropStaging(u) \/ SyncCleanup(u)
    BY <1>8
  <2>2. /\ Holding(u) /\ pc'[u] \in {"committed", "cleaning", "tidied", "idle"}
        /\ \A v \in Updaters : v # u => pc'[v] = pc[v]
        /\ lock' = lock /\ dLock' \in {lock, dLock} /\ journal' \in {journal, None}
        /\ dJournal' \in {journal, dJournal}
    BY <2>1 DEF SyncCommit, Cleanup, DropStaging, SyncCleanup, SyncRoot, Step, Exit, TypeOK, files,
       durable, Holding, Idle
  <2> QED
    BY <2>2, OthersAreIdle DEF JournalInv, Binds, Idle
<1>9. CASE \E u \in Updaters :
             \/ \E r \in Releases : Check(u, r)
             \/ UpdateInProgress(u) \/ RefuseStrayJournal(u) \/ RefusePlan(u)
             \/ NothingToDo(u) \/ Interrupted(u) \/ \E p \in Paths : ApplyFails(u, p)
  <2>1. PICK u \in Updaters :
               pc'[u] \in Idle /\ \A v \in Updaters : v # u =>
                 pc'[v] = pc[v] /\ base'[v] = base[v] /\ next'[v] = next[v] /\ rows'[v] = rows[v]
    BY <1>9 DEF Check, UpdateInProgress, RefuseStrayJournal, RefusePlan, NothingToDo,
       Interrupted, ApplyFails, Step, Exit, TypeOK, Idle
  <2>2. /\ lock' = lock /\ dLock' = dLock /\ journal' = journal /\ dJournal' = dJournal
    BY <1>9 DEF Check, UpdateInProgress, RefuseStrayJournal, RefusePlan, NothingToDo,
       Interrupted, ApplyFails, files, durable
  <2> QED
    BY <2>1, <2>2 DEF JournalInv, Binds, Idle, JournalOf
<1>10. CASE \E p \in Paths, entry \in UserEntries : UserWrites(p, entry)
  BY <1>10 DEF UserWrites, JournalInv, Binds, JournalOf, locals
<1>11. CASE PowerLoss
  BY <1>11 DEF PowerLoss, JournalInv, Binds
<1>12. CASE RemoveStrayJournal \/ \E j \in StrayJournals : CopyStrayJournal(j)
  <2>1. \A u \in Updaters : pc[u] \in Idle
    BY <1>12, NoneAssumption DEF RemoveStrayJournal, CopyStrayJournal,
       HolderOwnsDirectory, Holding
  <2> QED
    BY <1>12, <2>1 DEF RemoveStrayJournal, CopyStrayJournal, JournalInv, Binds, Idle
<1>13. CASE UNCHANGED vars
  BY <1>13 DEF vars, files, durable, locals, JournalInv, Binds, JournalOf
<1> QED
  BY <1>1, <1>2, <1>3, <1>4, <1>5, <1>6, <1>7, <1>8, <1>9, <1>10, <1>11, <1>12,
     <1>13 DEF Next, Proceed, Environment

\* After any sequence of kills and power losses, the journal vaka finds is one
\* it can finish or discard: the generation check refuses only journals that
\* come from elsewhere.
THEOREM OwnJournalAlwaysRecognised == Spec => []OwnJournalRecognised
<1>1. Init => JournalInv
  BY DEF Init, JournalInv, Binds
<1>2. JournalInv => OwnJournalRecognised
  BY DEF JournalInv, Binds, GensIn, OwnJournalRecognised, Committed, Pending
<1> QED
  BY InvariantHolds, <1>1, <1>2, StepKeepsJournal, PTL DEF Spec

-----------------------------------------------------------------------------
(* The lock moves along its journal.  An update that is only interrupted   *)
(* in one way leaves no lock undone on the disk: without power losses no   *)
(* older lock comes back, without kills it does so only while the update   *)
(* that replaced it is still at its commit.                                *)

CommitInv == dLock # lock => \E u \in Updaters : pc[u] = "committing" /\ dLock = base[u]

\* A holder has the update lock for itself.
LEMMA HoldersAreOne ==
  ASSUME IInv, NEW u \in Updaters, NEW v \in Updaters, Holding(u), Holding(v)
  PROVE  u = v
BY DEF IInv, HolderOwnsDirectory

\* The durable lock lags behind only at the commit, if no process is killed there.
LEMMA StepKeepsCommit ==
  ASSUME IInv, JournalInv, CommitInv, [Next]_vars, "kill" \notin Failures
  PROVE  CommitInv'
<1>1. CASE \E u \in Updaters : CommitLock(u)
  <2>1. PICK u \in Updaters : CommitLock(u)
    BY <1>1
  <2>2. /\ pc[u] = "synced" /\ pc'[u] = "committing"
        /\ dLock' = dLock /\ base'[u] = base[u]
    BY <2>1 DEF CommitLock, Step, durable, locals, IInv, TypeOK
  <2>3. dLock = lock /\ lock = base[u]
    BY <2>2 DEF JournalInv, IInv, HolderOwnsDirectory, Holding, Idle, Installed
  <2> QED
    BY <2>2, <2>3 DEF CommitInv
<1>2. CASE \E u \in Updaters : SyncCommit(u)
  BY <1>2 DEF SyncCommit, SyncRoot, CommitInv
<1>3. CASE PowerLoss
  BY <1>3 DEF PowerLoss, CommitInv
<1>4. CASE UNCHANGED vars
  BY <1>4 DEF vars, files, durable, locals, CommitInv
<1>5. ASSUME lock' = lock, dLock' \in {lock, dLock},
             \A u \in Updaters : pc[u] = "committing" =>
               pc'[u] = "committing" /\ base'[u] = base[u]
      PROVE  CommitInv'
  BY <1>5 DEF CommitInv
<1>6. CASE \E u \in Updaters :
             \/ \E r \in Releases : Check(u, r)
             \/ Acquire(u) \/ UpdateInProgress(u) \/ Recover(u) \/ RefuseStrayJournal(u)
             \/ ClearStaging(u) \/ Stage(u) \/ RefusePlan(u) \/ NothingToDo(u)
             \/ Precheck(u) \/ WriteJournal(u) \/ SyncJournal(u)
  BY <1>5, <1>6 DEF Check, Acquire, UpdateInProgress, Recover, RefuseStrayJournal,
     ClearStaging, Stage, RefusePlan, NothingToDo, Precheck, WriteJournal, SyncJournal,
     SyncRoot, Step, Exit, IInv, TypeOK, files, durable, locals
<1>7. CASE \E u \in Updaters :
             \/ \E p \in Paths : ApplyPut(u, p) \/ ApplyDelete(u, p) \/ ApplyFails(u, p)
             \/ SyncTree(u) \/ Cleanup(u) \/ DropStaging(u) \/ SyncCleanup(u)
             \/ Interrupted(u)
  BY <1>5, <1>7 DEF ApplyPut, ApplyDelete, ApplyFails, Finish, SyncTree, Cleanup,
     DropStaging, SyncCleanup, Interrupted, SyncRoot, Step, Exit, IInv, TypeOK, files,
     durable, locals
<1>8. CASE \/ \E p \in Paths, entry \in UserEntries : UserWrites(p, entry)
           \/ RemoveStrayJournal \/ \E j \in StrayJournals : CopyStrayJournal(j)
  BY <1>5, <1>8 DEF UserWrites, RemoveStrayJournal, CopyStrayJournal, locals
<1> QED
  BY <1>1, <1>2, <1>3, <1>4, <1>6, <1>7, <1>8 DEF Next, Proceed, Environment

\* Only a commit and a power loss change the lock.
LEMMA LockMoves ==
  ASSUME [Next]_vars, lock' # lock
  PROVE  PowerLoss \/ \E u \in Updaters : CommitLock(u)
BY DEF Next, Proceed, Environment, Check, Acquire, UpdateInProgress, Recover,
   RefuseStrayJournal, ClearStaging, Stage, RefusePlan, NothingToDo, Precheck,
   WriteJournal, SyncJournal, ApplyPut, ApplyDelete, ApplyFails, Finish, SyncTree,
   SyncCommit, Cleanup, DropStaging, SyncCleanup, Interrupted, UserWrites,
   RemoveStrayJournal, CopyStrayJournal, vars, files, durable

\* The journal of a commit names the lock it replaces and the one it installs.
LEMMA CommitHasJournal ==
  ASSUME IInv, JournalInv, NEW u \in Updaters, pc[u] \in {"synced", "committing"}
  PROVE  /\ journal # None
         /\ journal.base = base[u].gen /\ journal.final.gen = next[u].gen
<1>1. base[u] \in Lock /\ next[u] \in Lock
  BY DEF IInv, LocalsSet, Holding, Idle, Planned, Installed
<1>2. JournalOf(u) \in Journal
  BY <1>1, JournalOfType DEF IInv
<1>3. journal = JournalOf(u)
  BY DEF JournalInv
<1> QED
  BY <1>2, <1>3, NoJournalAssumption DEF JournalOf

\* Where processes are killed or the machine loses power, but not both, the lock
\* only ever moves between the two ends its journal names, forwards at a commit and
\* backwards when the power fails in it.  Both kinds of failure together break it:
\* the next get takes the journal of a commit that is not yet durable away.
THEOREM LockAlwaysFollowsJournal ==
  ASSUME ~ ({"kill", "power"} \subseteq Failures)
  PROVE  Spec => LockFollowsJournal
<1> DEFINE Follows == lock' # lock =>
             /\ journal # None
             /\ {lock.gen, lock'.gen} = {journal.base, journal.final.gen}
           CInv == IInv /\ JournalInv /\ ("kill" \notin Failures => CommitInv)
<1>1. Init => CInv
  BY InitIsTyped DEF Init, JournalInv, Binds, CommitInv
<1>2. CInv /\ [Next]_vars => CInv'
  BY NextKeepsInvariant, StepKeepsJournal, StepKeepsCommit
<1>3. ASSUME CInv, [Next]_vars
      PROVE  [Follows]_vars
  <2>1. SUFFICES ASSUME lock' # lock
                 PROVE  /\ journal # None
                        /\ {lock.gen, lock'.gen} = {journal.base, journal.final.gen}
    OBVIOUS
  <2>2. CASE \E u \in Updaters : CommitLock(u)
    <3>1. PICK u \in Updaters : CommitLock(u)
      BY <2>2
    <3>2. pc[u] = "synced" /\ lock' = next[u]
      BY <3>1 DEF CommitLock, Step
    <3>3. lock = base[u]
      BY <1>3, <3>2 DEF IInv, HolderOwnsDirectory, Holding, Idle, Installed
    <3> QED
      BY <1>3, <3>2, <3>3, CommitHasJournal
  <2>3. CASE PowerLoss
    <3>1. "kill" \notin Failures /\ lock' = dLock /\ dLock # lock
      BY <2>1, <2>3 DEF PowerLoss
    <3>2. PICK u \in Updaters : pc[u] = "committing" /\ dLock = base[u]
      BY <1>3, <3>1 DEF CommitInv
    <3>3. lock = next[u]
      BY <1>3, <3>2 DEF IInv, HolderOwnsDirectory, Holding, Idle, Installed
    <3> QED
      BY <1>3, <3>1, <3>2, <3>3, CommitHasJournal
  <2> QED
    BY <1>3, <2>1, <2>2, <2>3, LockMoves
<1>4. Spec => [][Follows]_vars
  BY <1>1, <1>2, <1>3, PTL DEF Spec
<1> QED
  BY <1>4 DEF LockFollowsJournal

-----------------------------------------------------------------------------
(* What the pre-check saw, and what is durable.                            *)

\* Where the user writes files only, nothing gets in the way of an update.
InTheWay == IF UserEntries \subseteq Contents THEN {} ELSE raced

\* What is still to do can be done, unless the user changed it since the pre-check.
Feasible(u) ==
  pc[u] \in Window =>
    \A p \in todo[u] \ InTheWay :
      /\ rows[u][p].action = "put" => tree[p] # Obstructed
      /\ rows[u][p].action = "delete" => tree[p] \in Contents

FeasibleInv == \A u \in Updaters : Feasible(u)

\* The pre-check refuses what it sees in the way.
LEMMA PrecheckIsFeasible ==
  ASSUME IInv, NEW u \in Updaters, Precheck(u)
  PROVE  Feasible(u)'
<1> DEFINE plan == BuildPlan(base[u], inherited[u], want[u])
<1>1. /\ rows'[u] = plan /\ todo'[u] = Operations(plan) /\ tree' = tree
      /\ ObstructedParents(plan) = {}
  BY DEF Precheck, Accepted, files, IInv, TypeOK
<1>2. \A p \in Paths : plan[p].action = "put" => tree[p] # Obstructed
  BY <1>1 DEF ObstructedParents
<1>3. ASSUME NEW p \in Paths, plan[p].action = "delete"
      PROVE  tree[p] \in Contents
  <2> DEFINE old == base[u].files[p]
             known == EntryFor(inherited[u], p)
             disk == DiskState(tree[p])
             new == Published[want[u]][p]
  <2>1. ActionOf(old, known, disk, new) = "delete"
    BY <1>3 DEF BuildPlan, RowOf
  <2>2. disk # Absent
    BY <2>1 DEF ActionOf, Removes, Owned
  <2> QED
    BY <2>2 DEF DiskState, IInv, TypeOK, DirEntry, State
<1> QED
  BY <1>1, <1>2, <1>3 DEF Feasible, Operations

\* No step of another process, and none of the user's, makes it impossible unseen.
LEMMA StepKeepsFeasible ==
  ASSUME IInv, FeasibleInv, [Next]_vars
  PROVE  FeasibleInv'
<1>1. CASE \E u \in Updaters : Precheck(u)
  <2>1. PICK u \in Updaters : Precheck(u)
    BY <1>1
  <2>2. \A v \in Updaters : v # u => pc'[v] = pc[v] /\ pc[v] \in Idle
    BY <2>1, OthersAreIdle DEF Precheck, Step, Holding, Idle, IInv, TypeOK
  <2> QED
    BY <2>1, <2>2, PrecheckIsFeasible DEF FeasibleInv, Feasible, Idle, Window
<1>2. CASE \E u \in Updaters, p \in Paths : ApplyPut(u, p) \/ ApplyDelete(u, p)
  <2>1. PICK u \in Updaters, p \in Paths : ApplyPut(u, p) \/ ApplyDelete(u, p)
    BY <1>2
  <2>2. PICK entry : Finish(u, p, entry)
    BY <2>1 DEF ApplyPut, ApplyDelete
  <2>3. /\ pc[u] = "applying" /\ pc' = pc /\ todo'[u] = todo[u] \ {p} /\ rows' = rows
        /\ raced' = raced /\ \A q \in Paths \ {p} : tree'[q] = tree[q]
    BY <2>2 DEF Finish, IInv, TypeOK
  <2>4. \A v \in Updaters : v # u => pc'[v] \in Idle
    BY <2>3, OthersAreIdle DEF Holding, Idle
  <2>5. Feasible(u)'
    BY <2>3 DEF FeasibleInv, Feasible, InTheWay, IInv, TypeOK, Window
  <2> QED
    BY <2>4, <2>5 DEF FeasibleInv, Feasible, Idle, Window
<1>3. CASE \E p \in Paths, entry \in UserEntries : UserWrites(p, entry)
  <2>1. PICK p \in Paths, entry \in UserEntries : UserWrites(p, entry)
    BY <1>3
  <2>2. /\ pc' = pc /\ todo' = todo /\ rows' = rows
        /\ tree' = [tree EXCEPT ![p] = entry]
        /\ raced \subseteq raced'
        /\ \A u \in Updaters : pc[u] \in Window => p \in raced'
    BY <2>1 DEF UserWrites, locals
  <2>3. ASSUME NEW u \in Updaters, pc[u] \in Window
        PROVE  Feasible(u)'
    <3>1. Feasible(u)
      BY DEF FeasibleInv
    <3>2. todo[u] \subseteq Paths /\ tree \in [Paths -> DirEntry]
      BY DEF IInv, TypeOK
    <3>3. CASE UserEntries \subseteq Contents
      BY <2>2, <2>3, <3>1, <3>2, <3>3, SentinelsAssumption DEF Feasible, InTheWay
    <3>4. CASE ~ (UserEntries \subseteq Contents)
      BY <2>2, <2>3, <3>1, <3>2, <3>4 DEF Feasible, InTheWay
    <3> QED
      BY <3>3, <3>4
  <2> QED
    BY <2>2, <2>3 DEF FeasibleInv, Feasible
<1>4. ASSUME tree' = tree,
             \A u \in Updaters : pc'[u] \in Window =>
               /\ pc[u] \in Window /\ raced' = raced
               /\ todo'[u] = todo[u] /\ rows'[u] = rows[u]
      PROVE  FeasibleInv'
  BY <1>4 DEF FeasibleInv, Feasible, InTheWay
<1>5. CASE \E u \in Updaters :
             \/ \E r \in Releases : Check(u, r)
             \/ Acquire(u) \/ UpdateInProgress(u) \/ Recover(u)
             \/ ClearStaging(u) \/ Stage(u) \/ WriteJournal(u) \/ SyncJournal(u)
             \/ SyncTree(u) \/ CommitLock(u) \/ SyncCommit(u) \/ Cleanup(u) \/ DropStaging(u)
  BY <1>4, <1>5 DEF Check, Acquire, UpdateInProgress, Recover, ClearStaging, Stage,
     WriteJournal, SyncJournal, SyncTree, CommitLock, SyncCommit, Cleanup, DropStaging,
     Step, IInv, TypeOK, files, locals, Window
<1>6. CASE \E u \in Updaters :
             \/ RefuseStrayJournal(u) \/ RefusePlan(u) \/ NothingToDo(u) \/ SyncCleanup(u)
             \/ Interrupted(u) \/ \E p \in Paths : ApplyFails(u, p)
  <2>1. PICK u \in Updaters :
             \/ RefuseStrayJournal(u) \/ RefusePlan(u) \/ NothingToDo(u) \/ SyncCleanup(u)
             \/ Interrupted(u) \/ \E p \in Paths : ApplyFails(u, p)
    BY <1>6
  <2>2. Holding(u) /\ Exit(u)
    BY <2>1 DEF RefuseStrayJournal, RefusePlan, NothingToDo, SyncCleanup, Interrupted,
       ApplyFails, Holding, Idle
  <2>3. \A v \in Updaters : pc'[v] \in Idle
    BY <2>2, OthersAreIdle DEF Exit, Idle, IInv, TypeOK
  <2> QED
    BY <2>3 DEF FeasibleInv, Feasible, Idle, Window
<1>7. CASE PowerLoss
  BY <1>7 DEF PowerLoss, FeasibleInv, Feasible, Window
<1>8. CASE RemoveStrayJournal \/ \E j \in StrayJournals : CopyStrayJournal(j)
  BY <1>4, <1>8 DEF RemoveStrayJournal, CopyStrayJournal, locals
<1>9. CASE UNCHANGED vars
  BY <1>4, <1>9 DEF vars, files, durable, locals
<1> QED
  BY <1>1, <1>2, <1>3, <1>5, <1>6, <1>7, <1>8, <1>9 DEF Next, Proceed, Environment

\* It holds of a fresh installation.
LEMMA InitIsFeasible == Init => FeasibleInv
BY DEF Init, FeasibleInv, Feasible, Window

\* A path an update cannot apply is one the user changed since.
LEMMA FailureIsInTheWay ==
  ASSUME FeasibleInv, NEW u \in Updaters, NEW p \in Paths, ApplyFails(u, p)
  PROVE  p \in InTheWay
BY DEF FeasibleInv, Feasible, ApplyFails, IsNext, Window

\* With kills, power losses, edits and racing gets, a journaled update ends
\* half-applied by itself only at a path the user changed after its pre-check.
THEOREM AlwaysFailsOnlyOnRace == Spec => FailsOnlyOnRace
<1> DEFINE Races == \A u \in Updaters, p \in Paths : ApplyFails(u, p) => p \in raced
<1>1. FeasibleInv /\ [Next]_vars => [Races]_vars
  BY FailureIsInTheWay DEF InTheWay
<1>2. Spec => [][Races]_vars
  BY <1>1, InvariantHolds, InitIsFeasible, StepKeepsFeasible, PTL DEF Spec
<1> QED
  BY <1>2 DEF FailsOnlyOnRace

\* What is not durable is what the update at work has renamed or removed.
SyncedInv ==
  \A p \in Paths : tree[p] # dTree[p] =>
    \E u \in Updaters : pc[u] = "applying" /\ rows[u][p].action \in {"put", "delete"}

\* An update that is neither killed nor obstructed leaves nothing unsynced behind.
LEMMA StepKeepsSynced ==
  ASSUME IInv, FeasibleInv, SyncedInv, [Next]_vars,
         "kill" \notin Failures, UserEntries \subseteq Contents
  PROVE  SyncedInv'
<1>1. CASE \E u \in Updaters, p \in Paths : ApplyPut(u, p) \/ ApplyDelete(u, p)
  <2>1. PICK u \in Updaters, p \in Paths : ApplyPut(u, p) \/ ApplyDelete(u, p)
    BY <1>1
  <2>2. PICK entry : Finish(u, p, entry)
    BY <2>1 DEF ApplyPut, ApplyDelete
  <2>3. /\ pc[u] = "applying" /\ pc' = pc /\ rows' = rows /\ dTree' = dTree
        /\ \A q \in Paths \ {p} : tree'[q] = tree[q]
        /\ rows[u][p].action \in {"put", "delete"}
    BY <2>1, <2>2 DEF Finish, ApplyPut, ApplyDelete, durable, IInv, TypeOK
  <2> QED
    BY <2>3 DEF SyncedInv
<1>2. CASE \E u \in Updaters : SyncTree(u)
  <2>1. PICK u \in Updaters : SyncTree(u)
    BY <1>2
  <2>2. /\ pc[u] = "applying" /\ tree' = tree
        /\ dTree' = [p \in Paths |->
                      IF p \notin Nested \/ rows[u][p].action \in {"put", "delete"}
                      THEN tree[p] ELSE dTree[p]]
    BY <2>1 DEF SyncTree, Step, files
  <2>3. \A p \in Paths : tree[p] # dTree[p] => rows[u][p].action \in {"put", "delete"}
    BY <2>2, HoldersAreOne DEF SyncedInv, Holding, Idle
  <2>4. \A p \in Paths : dTree'[p] = tree'[p]
    BY <2>2, <2>3
  <2> QED
    BY <2>4 DEF SyncedInv
<1>3. CASE \E p \in Paths, entry \in UserEntries : UserWrites(p, entry)
  BY <1>3 DEF UserWrites, SyncedInv, IInv, TypeOK, locals
<1>4. CASE PowerLoss
  BY <1>4 DEF PowerLoss, SyncedInv
<1>5. CASE \E u \in Updaters, p \in Paths : ApplyFails(u, p)
  BY <1>5, FailureIsInTheWay DEF InTheWay
<1>6. ASSUME tree' = tree,
             \A p \in Paths : dTree'[p] \in {tree[p], dTree[p]},
             \A u \in Updaters : pc[u] = "applying" => pc'[u] = "applying" /\ rows'[u] = rows[u]
      PROVE  SyncedInv'
  BY <1>6 DEF SyncedInv
<1>7. CASE \E u \in Updaters :
             \/ \E r \in Releases : Check(u, r)
             \/ Acquire(u) \/ UpdateInProgress(u) \/ Recover(u) \/ RefuseStrayJournal(u)
             \/ ClearStaging(u) \/ Stage(u) \/ RefusePlan(u) \/ NothingToDo(u) \/ Precheck(u)
  BY <1>6, <1>7 DEF Check, Acquire, UpdateInProgress, Recover, RefuseStrayJournal,
     ClearStaging, Stage, RefusePlan, NothingToDo, Precheck, SyncRoot, Step, Exit, IInv,
     TypeOK, files, durable, locals
<1>8. CASE \E u \in Updaters :
             \/ WriteJournal(u) \/ SyncJournal(u) \/ CommitLock(u) \/ SyncCommit(u)
             \/ Cleanup(u) \/ DropStaging(u) \/ SyncCleanup(u) \/ Interrupted(u)
  BY <1>6, <1>8 DEF WriteJournal, SyncJournal, CommitLock, SyncCommit, Cleanup,
     DropStaging, SyncCleanup, Interrupted, SyncRoot, Step, Exit, IInv, TypeOK, files,
     durable, locals
<1>9. CASE \/ RemoveStrayJournal \/ \E j \in StrayJournals : CopyStrayJournal(j)
           \/ UNCHANGED vars
  BY <1>6, <1>9 DEF RemoveStrayJournal, CopyStrayJournal, vars, files, durable, locals
<1> QED
  BY <1>1, <1>2, <1>3, <1>4, <1>5, <1>7, <1>8, <1>9 DEF Next, Proceed, Environment

\* Where updates are interrupted by power losses only and the user's writes cannot
\* make one fail, every file is durable before the lock that promises it is put in
\* place.  The other interruptions leave files that the next update adopts and does
\* not sync (update.go:423).
THEOREM AlwaysDurableBeforeCommit ==
  ASSUME "kill" \notin Failures, UserEntries \subseteq Contents
  PROVE  Spec => []DurableBeforeCommit
<1> DEFINE DInv == IInv /\ FeasibleInv /\ SyncedInv
<1>1. Init => DInv
  BY InitIsTyped, InitIsFeasible DEF Init, SyncedInv
<1>2. DInv /\ [Next]_vars => DInv'
  BY NextKeepsInvariant, StepKeepsFeasible, StepKeepsSynced
<1>3. ASSUME DInv, NEW u \in Updaters, pc[u] \in {"synced", "committing"}
      PROVE  dTree = tree
  <2>1. \A p \in Paths : tree[p] = dTree[p]
    BY <1>3, HoldersAreOne DEF SyncedInv, Holding, Idle
  <2> QED
    BY <1>3, <2>1 DEF IInv, TypeOK
<1>4. DInv => DurableBeforeCommit
  BY <1>3 DEF DurableBeforeCommit
<1> QED
  BY <1>1, <1>2, <1>4, PTL DEF Spec

\* Every variable keeps its type.
THEOREM UpdateAlwaysTyped == Spec => []TypeOK
<1>1. IInv => TypeOK
  BY DEF IInv
<1> QED
  BY InvariantHolds, <1>1, PTL

=============================================================================
