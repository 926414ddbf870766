---------------------------- MODULE RecipeUpdate ----------------------------
(***************************************************************************)
(* The journaled update transaction on one recipe directory                *)
(* (pkg/recipe/update.go), run by several `vaka get` processes, while the  *)
(* user edits files in the directory, processes are killed and the machine *)
(* loses power.                                                            *)
(*                                                                         *)
(* The directory is kept twice: as every process sees it, and as the disk  *)
(* would hold it after a power loss.  A rename or a removal changes the    *)
(* first at once and the second when its directory is synced.              *)
(***************************************************************************)
EXTENDS RecipePlan, Naturals, FiniteSets

CONSTANTS
  Updaters,        \* the vaka get processes
  Paths,           \* recipe paths, numbered in the order sortedKeys gives them
  Nested,          \* the paths that lie in a subdirectory, each in its own
  Releases,        \* a release is a version with its digest
  Published,       \* what each release ships: path -> state, or Absent
  Generations,     \* values of the lock's generation nonce
  None,            \* no lock holder, no journal, no staging tree
  UserEntries,     \* what the user may put at a path
  StrayJournals,   \* journals of other installations the user may copy in
  Failures,        \* a subset of {"kill", "power"}
  Retried          \* the releases whose get is run again until it succeeds

ASSUME PathsAssumption ==
  /\ Paths \subseteq Nat
  /\ Nested \subseteq Paths

ASSUME PublishedAssumption == Published \in [Releases -> [Paths -> State]]

ASSUME UserAssumption ==
  /\ UserEntries \subseteq DirEntry
  /\ Failures \subseteq {"kill", "power"}
  /\ Retried \subseteq Releases

ASSUME NoneAssumption ==
  /\ None \notin Updaters
  /\ None \notin Releases

\* Nonces do not collide: a journal of another installation names two of its own.
ASSUME StrayAssumption ==
  \A j \in StrayJournals : j.base \notin Generations /\ j.final.gen \notin Generations

VARIABLES
  tree,      \* what each recipe path holds
  lock,      \* .vaka-recipe.lock
  journal,   \* .vaka-recipe.lock.new, or None
  staging,   \* the release extracted in .vaka-staging, or None
  dTree, dLock, dJournal, \* the same, as the disk holds them durably
  flock,     \* the holder of .vaka-recipe.update.lock, or None
  pc,        \* where each process is in get
  want,      \* the release each process resolved and fetched
  base,      \* the lock it read under the update lock
  inherited, \* the pending journal it read, or None
  rows,      \* its plan
  next,      \* the lock it will install
  todo,      \* the paths it still has to rename or remove
  edited,    \* ghost: paths holding an edit of the user's that vaka has no record of
  raced      \* ghost: paths the user changed since the running update's pre-check

files == <<tree, lock, journal, staging>>
durable == <<dTree, dLock, dJournal>>
locals == <<want, base, inherited, rows, next, todo>>
vars == <<files, durable, flock, pc, locals, edited, raced>>

\* A definition whose name ends in _<Defect> is the one of that name as a
\* plausible bug would have it; only the mutation of a run uses it.

-----------------------------------------------------------------------------
Lock == [release : Releases, gen : Generations, files : [Paths -> State],
         kept : SUBSET Paths, skipped : SUBSET Paths]

Journal == [base : Generations, final : Lock,
            plan : [Paths -> PlanEntry \union {NoEntry}]]

ASSUME NoJournalAssumption == None \notin Journal

\* What a completed update or install leaves: nothing in flight.
Idle == {"idle", "fetched"}

\* From the pre-check to the last rename the plan may be overtaken by the user.
Window == {"prechecked", "journaled", "applying"}

\* The lock is renamed into place; only cleanup is left.
Installed == {"committing", "committed", "cleaning", "tidied"}

Stages == Idle \union Window \union Installed \union
          {"locked", "recovered", "cleaned", "staged", "synced"}

NoRows == [p \in Paths |->
             [action |-> "none", tracked |-> FALSE, accepted |-> {},
              final |-> Absent, deviation |-> "none"]]

TypeOK ==
  /\ tree \in [Paths -> DirEntry] /\ dTree \in [Paths -> DirEntry]
  /\ lock \in Lock /\ dLock \in Lock
  /\ journal \in Journal \union StrayJournals \union {None}
  /\ dJournal \in Journal \union StrayJournals \union {None}
  /\ staging \in Releases \union {None}
  /\ flock \in Updaters \union {None}
  /\ pc \in [Updaters -> Stages]
  /\ want \in [Updaters -> Releases \union {None}]
  /\ base \in [Updaters -> Lock \union {None}]
  /\ inherited \in [Updaters -> Journal \union {None}]
  /\ rows \in [Updaters -> [Paths -> Row]]
  /\ next \in [Updaters -> Lock \union {None}]
  /\ todo \in [Updaters -> SUBSET Paths]
  /\ edited \subseteq Paths /\ raced \subseteq Paths

-----------------------------------------------------------------------------
\* A journal read back: the update it belongs to committed, or is pending.
Committed(j, l) == j # None /\ j.final.gen = l.gen
Pending(j, l) == j # None /\ ~ Committed(j, l) /\ j.base = l.gen

EntryFor(j, p) == IF j = None THEN NoEntry ELSE j.plan[p]

\* The states of a path the lock and a pending journal give to vaka.
RecordedAt(p) ==
  Recorded(lock.files[p],
           IF Pending(journal, lock) THEN journal.plan[p] ELSE NoEntry)

GensIn(j) == IF j = None THEN {} ELSE {j.base, j.final.gen}

\* A random 128-bit nonce differs from every one in use.
FreshGenerations ==
  Generations \ ({lock.gen, dLock.gen} \union GensIn(journal) \union GensIn(dJournal))

\* UpToDate: same release, pristine, no journal left.
UpToDate(r) ==
  /\ lock.release = r
  /\ lock.kept = {} /\ lock.skipped = {}
  /\ journal = None
  /\ \A p \in Paths : lock.files[p] # Absent => tree[p] = lock.files[p]

BuildPlan(l, j, r) ==
  [p \in Paths |->
     RowOf(l.files[p], p \in l.kept, EntryFor(j, p), DiskState(tree[p]),
           Published[r][p])]

Blocked(l, j, r) ==
  {p \in Paths : Blocks(l.files[p], EntryFor(j, p), DiskState(tree[p]),
                        Published[r][p])}

\* Bug: only the missing parents are looked at.
ObstructedParents_Unchecked(plan) == {}

ObstructedParents(plan) ==
  {p \in Paths : plan[p].action = "put" /\ tree[p] = Obstructed}

Operations(plan) == {p \in Paths : plan[p].action \in {"put", "delete"}}

NewLock(r, g, plan) ==
  [release |-> r, gen |-> g,
   files |-> [p \in Paths |-> IF plan[p].tracked THEN Published[r][p] ELSE Absent],
   kept |-> {p \in Paths : plan[p].deviation = "kept"},
   skipped |-> {p \in Paths : plan[p].deviation = "skipped"}]

LocksEquivalent(a, b) ==
  /\ a.files = b.files
  /\ a.kept = b.kept
  /\ a.skipped = b.skipped

\* SyncDir("."): the lock, the journal and the recipe's top-level files.
SyncRoot ==
  /\ dLock' = lock'
  /\ dJournal' = journal'
  /\ dTree' = [p \in Paths |-> IF p \in Nested THEN dTree[p] ELSE tree'[p]]

-----------------------------------------------------------------------------
Init ==
  \E r \in Releases, g \in Generations :
    /\ tree = Published[r]
    /\ lock = [release |-> r, gen |-> g, files |-> Published[r],
               kept |-> {}, skipped |-> {}]
    /\ journal = None /\ staging = None
    /\ dTree = tree /\ dLock = lock /\ dJournal = None
    /\ flock = None
    /\ pc = [u \in Updaters |-> "idle"]
    /\ want = [u \in Updaters |-> None]
    /\ base = [u \in Updaters |-> None]
    /\ inherited = [u \in Updaters |-> None]
    /\ rows = [u \in Updaters |-> NoRows]
    /\ next = [u \in Updaters |-> None]
    /\ todo = [u \in Updaters |-> {}]
    /\ edited = {} /\ raced = {}

\* The process ends, with an error or not; the kernel drops its flock and
\* every file stays as it is.
Exit(u) ==
  /\ flock' = None
  /\ pc' = [pc EXCEPT ![u] = "idle"]
  /\ want' = [want EXCEPT ![u] = None]
  /\ base' = [base EXCEPT ![u] = None]
  /\ inherited' = [inherited EXCEPT ![u] = None]
  /\ rows' = [rows EXCEPT ![u] = NoRows]
  /\ next' = [next EXCEPT ![u] = None]
  /\ todo' = [todo EXCEPT ![u] = {}]
  /\ raced' = {}

Step(u, from, to) ==
  /\ pc[u] = from
  /\ pc' = [pc EXCEPT ![u] = to]

\* get resolves a release; UpToDate, under the update lock, finds it is not
\* what the directory holds; get downloads it.
Check(u, r) ==
  /\ flock = None
  /\ ~ UpToDate(r)
  /\ Step(u, "idle", "fetched")
  /\ want' = [want EXCEPT ![u] = r]
  /\ UNCHANGED <<files, durable, flock, base, inherited, rows, next, todo,
                 edited, raced>>

\* Bug: the lock file is replaced, so a second flock succeeds on a new inode.
Acquire_NewInode(u) ==
  /\ Step(u, "fetched", "locked")
  /\ flock' = u
  /\ base' = [base EXCEPT ![u] = lock]
  /\ UNCHANGED <<files, durable, want, inherited, rows, next, todo,
                 edited, raced>>

Acquire(u) ==
  /\ flock = None
  /\ Step(u, "fetched", "locked")
  /\ flock' = u
  /\ base' = [base EXCEPT ![u] = lock]
  /\ UNCHANGED <<files, durable, want, inherited, rows, next, todo,
                 edited, raced>>

\* ErrUpdateInProgress: get fails fast, holding nothing.
UpdateInProgress(u) ==
  /\ flock # None
  /\ Step(u, "fetched", "idle")
  /\ want' = [want EXCEPT ![u] = None]
  /\ UNCHANGED <<files, durable, flock, base, inherited, rows, next, todo,
                 edited, raced>>

\* Bug: the generations are not compared.
Recover_AnyJournal(u) ==
  /\ Step(u, "locked", "recovered")
  /\ inherited' = [inherited EXCEPT ![u] = journal]
  /\ UNCHANGED <<files, durable, flock, want, base, rows, next,
                 todo, edited, raced>>

\* Bug: a committed journal is ignored, but not removed.
Recover_LeavesJournal(u) ==
  /\ Step(u, "locked", "recovered")
  /\ inherited' = [inherited EXCEPT ![u] =
                     IF Pending(journal, base[u]) THEN journal ELSE None]
  /\ UNCHANGED <<files, durable, flock, want, base, rows, next,
                 todo, edited, raced>>

\* A journal whose update committed is removed and forgotten; a pending one
\* is inherited.
Recover(u) ==
  /\ Step(u, "locked", "recovered")
  /\ \/ /\ Committed(journal, base[u])
        /\ journal' = None
        /\ inherited' = [inherited EXCEPT ![u] = None]
     \/ /\ journal = None \/ Pending(journal, base[u])
        /\ inherited' = [inherited EXCEPT ![u] = journal]
        /\ journal' = journal
  /\ UNCHANGED <<tree, lock, staging, durable, flock, want, base, rows, next,
                 todo, edited, raced>>

\* A journal bound to neither generation is refused and left for the user.
RefuseStrayJournal(u) ==
  /\ pc[u] = "locked"
  /\ journal # None
  /\ ~ Committed(journal, base[u]) /\ ~ Pending(journal, base[u])
  /\ Exit(u)
  /\ UNCHANGED <<files, durable, edited>>

ClearStaging(u) ==
  /\ Step(u, "recovered", "cleaned")
  /\ staging' = None
  /\ UNCHANGED <<tree, lock, journal>>
  /\ SyncRoot
  /\ UNCHANGED <<flock, locals, edited, raced>>

Stage(u) ==
  /\ Step(u, "cleaned", "staged")
  /\ staging' = want[u]
  /\ UNCHANGED <<tree, lock, journal, durable, flock, locals, edited, raced>>

\* A blocked or obstructed plan is refused before anything is written; the
\* staging tree stays behind.
RefusePlan(u) ==
  /\ pc[u] = "staged"
  /\ \/ Blocked(base[u], inherited[u], want[u]) # {}
     \/ ObstructedParents(BuildPlan(base[u], inherited[u], want[u])) # {}
  /\ Exit(u)
  /\ UNCHANGED <<files, durable, edited>>

Accepted(u) ==
  /\ Blocked(base[u], inherited[u], want[u]) = {}
  /\ ObstructedParents(BuildPlan(base[u], inherited[u], want[u])) = {}

NoChange(u, plan, new) ==
  /\ Operations(plan) = {}
  /\ inherited[u] = None
  /\ base[u].release = want[u]
  /\ LocksEquivalent(base[u], new)

Precheck(u) ==
  /\ Step(u, "staged", "prechecked")
  /\ Accepted(u)
  /\ \E g \in FreshGenerations :
       LET plan == BuildPlan(base[u], inherited[u], want[u])
           new == NewLock(want[u], g, plan)
       IN  /\ ~ NoChange(u, plan, new)
           /\ rows' = [rows EXCEPT ![u] = plan]
           /\ next' = [next EXCEPT ![u] = new]
           /\ todo' = [todo EXCEPT ![u] = Operations(plan)]
  /\ raced' = {}
  /\ UNCHANGED <<files, durable, flock, want, base, inherited, edited>>

\* The idempotent no-op drops the staging tree and keeps the lock.
NothingToDo(u) ==
  /\ pc[u] = "staged"
  /\ Accepted(u)
  /\ LET plan == BuildPlan(base[u], inherited[u], want[u])
     IN  NoChange(u, plan, NewLock(want[u], base[u].gen, plan))
  /\ staging' = None
  /\ Exit(u)
  /\ UNCHANGED <<tree, lock, journal, durable, edited>>

\* Bug: the journal names the generation it produces as its base.
JournalOf_WrongBase(u) ==
  [base |-> next[u].gen, final |-> next[u],
   plan |-> [p \in Paths |-> EntryOfRow(rows[u][p])]]

JournalOf(u) ==
  [base |-> base[u].gen, final |-> next[u],
   plan |-> [p \in Paths |-> EntryOfRow(rows[u][p])]]

\* Renamed into place; whatever the user put there meanwhile that equals the
\* final state is from here on a state vaka recorded.
WriteJournal(u) ==
  /\ Step(u, "prechecked", "journaled")
  /\ journal' = JournalOf(u)
  /\ edited' = {p \in edited : ~ (rows[u][p].tracked /\ tree[p] = rows[u][p].final)}
  /\ UNCHANGED <<tree, lock, staging, durable, flock, locals, raced>>

SyncJournal(u) ==
  /\ Step(u, "journaled", "applying")
  /\ UNCHANGED files
  /\ SyncRoot
  /\ UNCHANGED <<flock, locals, edited, raced>>

\* The paths are visited in sorted order.
IsNext(u, p) == p \in todo[u] /\ \A q \in todo[u] : p <= q

Finish(u, p, entry) ==
  /\ pc[u] = "applying"
  /\ IsNext(u, p)
  /\ tree' = [tree EXCEPT ![p] = entry]
  /\ todo' = [todo EXCEPT ![u] = @ \ {p}]
  /\ edited' = edited \ {p}
  /\ UNCHANGED <<lock, journal, staging, durable, flock, pc, want, base,
                 inherited, rows, next, raced>>

ApplyPut(u, p) ==
  /\ rows[u][p].action = "put"
  /\ tree[p] # Obstructed
  /\ Finish(u, p, Published[staging][p])

ApplyDelete(u, p) ==
  /\ rows[u][p].action = "delete"
  /\ tree[p] \in Contents
  /\ Finish(u, p, Absent)

\* MkdirAll or Rename meets a file where the parent directory was; Remove
\* finds nothing.  The update ends half-applied, its journal in place.
ApplyFails(u, p) ==
  /\ pc[u] = "applying"
  /\ IsNext(u, p)
  /\ \/ rows[u][p].action = "put" /\ tree[p] = Obstructed
     \/ rows[u][p].action = "delete" /\ tree[p] \notin Contents
  /\ Exit(u)
  /\ UNCHANGED <<files, durable, edited>>

\* Bug: the directory a file was removed from is not synced.
SyncTree_PutsOnly(u) ==
  /\ Step(u, "applying", "synced")
  /\ todo[u] = {}
  /\ UNCHANGED files
  /\ dLock' = lock /\ dJournal' = journal
  /\ dTree' = [p \in Paths |->
                IF p \notin Nested \/ rows[u][p].action = "put"
                THEN tree[p] ELSE dTree[p]]
  /\ UNCHANGED <<flock, locals, edited, raced>>

\* Bug: the commit does not wait for the last operation.
SyncTree_Early(u) ==
  /\ Step(u, "applying", "synced")
  /\ UNCHANGED files
  /\ SyncRoot
  /\ UNCHANGED <<flock, locals, edited, raced>>

\* The root directory is synced and every directory renamed into or removed from.
SyncTree(u) ==
  /\ Step(u, "applying", "synced")
  /\ todo[u] = {}
  /\ UNCHANGED files
  /\ dLock' = lock /\ dJournal' = journal
  /\ dTree' = [p \in Paths |->
                IF p \notin Nested \/ rows[u][p].action \in {"put", "delete"}
                THEN tree[p] ELSE dTree[p]]
  /\ UNCHANGED <<flock, locals, edited, raced>>

\* Bug: the installed lock draws a nonce of its own.
CommitLock_NewNonce(u) ==
  /\ Step(u, "synced", "committing")
  /\ \E g \in FreshGenerations : lock' = [next[u] EXCEPT !.gen = g]
  /\ UNCHANGED <<tree, journal, staging, durable, flock, locals, edited, raced>>

CommitLock(u) ==
  /\ Step(u, "synced", "committing")
  /\ lock' = next[u]
  /\ edited' = {p \in edited : tree[p] # next[u].files[p]}
  /\ UNCHANGED <<tree, journal, staging, durable, flock, locals, raced>>

SyncCommit(u) ==
  /\ Step(u, "committing", "committed")
  /\ UNCHANGED files
  /\ SyncRoot
  /\ UNCHANGED <<flock, locals, edited, raced>>

Cleanup(u) ==
  /\ Step(u, "committed", "cleaning")
  /\ journal' = None
  /\ UNCHANGED <<tree, lock, staging, durable, flock, locals, edited, raced>>

DropStaging(u) ==
  /\ Step(u, "cleaning", "tidied")
  /\ staging' = None
  /\ UNCHANGED <<tree, lock, journal, durable, flock, locals, edited, raced>>

SyncCleanup(u) ==
  /\ pc[u] = "tidied"
  /\ UNCHANGED files
  /\ SyncRoot
  /\ Exit(u)
  /\ UNCHANGED edited

Proceed(u) ==
  \/ Acquire(u) \/ UpdateInProgress(u)
  \/ Recover(u) \/ RefuseStrayJournal(u) \/ ClearStaging(u) \/ Stage(u)
  \/ RefusePlan(u) \/ Precheck(u) \/ NothingToDo(u)
  \/ WriteJournal(u) \/ SyncJournal(u)
  \/ \E p \in Paths : ApplyPut(u, p) \/ ApplyDelete(u, p) \/ ApplyFails(u, p)
  \/ SyncTree(u) \/ CommitLock(u) \/ SyncCommit(u)
  \/ Cleanup(u) \/ DropStaging(u) \/ SyncCleanup(u)

-----------------------------------------------------------------------------
\* Killed, or an I/O error returned: nothing is rolled back.
Interrupted(u) ==
  /\ "kill" \in Failures
  /\ pc[u] \notin Idle
  /\ Exit(u)
  /\ UNCHANGED <<files, durable, edited>>

\* Every process is gone, and each directory entry that was not synced is
\* found in its old or its new state; an old lock or journal may record again
\* what the user put back since it was replaced.
PowerLoss ==
  /\ "power" \in Failures
  /\ \E lost \in SUBSET Paths :
       tree' = [p \in Paths |-> IF p \in lost THEN dTree[p] ELSE tree[p]]
  /\ lock' \in {lock, dLock}
  /\ journal' \in {journal, dJournal}
  /\ dTree' = tree' /\ dLock' = lock' /\ dJournal' = journal'
  /\ flock' = None
  /\ pc' = [u \in Updaters |-> "idle"]
  /\ want' = [u \in Updaters |-> None]
  /\ base' = [u \in Updaters |-> None]
  /\ inherited' = [u \in Updaters |-> None]
  /\ rows' = [u \in Updaters |-> NoRows]
  /\ next' = [u \in Updaters |-> None]
  /\ todo' = [u \in Updaters |-> {}]
  /\ edited' = {p \in edited : tree'[p] \notin RecordedAt(p)'}
  /\ raced' = {}
  /\ UNCHANGED staging

\* The user writes, removes or obstructs a path, durably.
UserWrites(p, entry) ==
  /\ entry \in UserEntries
  /\ entry = Obstructed => p \in Nested
  /\ tree[p] # entry
  /\ tree' = [tree EXCEPT ![p] = entry]
  /\ dTree' = [dTree EXCEPT ![p] = entry]
  /\ edited' = IF entry \in Contents \ RecordedAt(p)
               THEN edited \union {p} ELSE edited \ {p}
  /\ raced' = IF \E u \in Updaters : pc[u] \in Window
              THEN raced \union {p} ELSE raced
  /\ UNCHANGED <<lock, journal, staging, dLock, dJournal, flock, pc, locals>>

\* A journal left by, or copied from, another installation; removed again on
\* vaka's advice.
CopyStrayJournal(j) ==
  /\ flock = None /\ journal = None /\ dJournal = None
  /\ journal' = j /\ dJournal' = j
  /\ UNCHANGED <<tree, lock, staging, dTree, dLock, flock, pc, locals,
                 edited, raced>>

RemoveStrayJournal ==
  /\ flock = None /\ journal \in StrayJournals
  /\ journal' = None /\ dJournal' = None
  /\ UNCHANGED <<tree, lock, staging, dTree, dLock, flock, pc, locals,
                 edited, raced>>

Environment ==
  \/ PowerLoss
  \/ \E p \in Paths, entry \in UserEntries : UserWrites(p, entry)
  \/ \E j \in StrayJournals : CopyStrayJournal(j)
  \/ RemoveStrayJournal

Next ==
  \/ \E u \in Updaters : \/ \E r \in Releases : Check(u, r)
                        \/ Proceed(u) \/ Interrupted(u)
  \/ Environment

Spec == Init /\ [][Next]_vars

\* A started get runs on; the get of a retried release is run again, by every
\* process, while the directory is not current for it.
FairSpec ==
  /\ Spec
  /\ \A u \in Updaters : WF_vars(Proceed(u))
  /\ \A u \in Updaters, r \in Retried : WF_vars(Check(u, r))

-----------------------------------------------------------------------------
\* Holding: the processes between the update lock and their exit.
Holding(u) == pc[u] \notin Idle

\* Mutual exclusion, and what it is for: the lock and the staging tree a
\* holder read or wrote are still the ones in the directory when it uses
\* them, so no update commits over another's (update.go steps 1 and 6).
HolderOwnsDirectory ==
  \A u \in Updaters : Holding(u) =>
    /\ flock = u
    /\ lock = IF pc[u] \in Installed THEN next[u] ELSE base[u]
    /\ pc[u] \in Window \union {"staged", "synced"} => staging = want[u]

\* Whatever was interrupted, at whatever step and however often, the next get
\* recognises the journal it finds as this installation's: the generation
\* check never refuses vaka's own journal.
OwnJournalRecognised ==
  journal # None /\ journal \notin StrayJournals =>
    Committed(journal, lock) \/ Pending(journal, lock)

\* No half-applied update is mistaken for the user's work: a state only vaka
\* writes is the one the lock records, or one a pending journal accepts.
\* Otherwise the next get would refuse (blocked) or orphan vaka's own files.
HalfAppliedIsRecorded ==
  \A p \in Paths :
    tree[p] \in Contents \ UserEntries => tree[p] \in RecordedAt(p)

\* The lock accounts for everything its release ships, exactly once: tracked
\* as published or recorded as a skipped collision; it tracks nothing else,
\* and a kept user copy is at a path the release does not ship.
AccountsFor(l) ==
  \A p \in Paths :
    LET shipped == Published[l.release][p]
    IN  /\ l.files[p] = IF p \in l.skipped THEN Absent ELSE shipped
        /\ p \in l.skipped => shipped # Absent
        /\ p \in l.kept => shipped = Absent

LockAccountsForRelease == AccountsFor(lock)

\* Everything a lock promises is on the disk before the lock is.
DurableBeforeCommit ==
  \A u \in Updaters : pc[u] \in {"synced", "committing"} => dTree = tree

Apply(u, p) == ApplyPut(u, p) \/ ApplyDelete(u, p)

\* A file of the user's - one whose content vaka never recorded for the path -
\* is not renamed over or removed, unless it appeared after the pre-check of
\* the very update that applies: update.go:403 does not look again, which
\* qualifies "updates never touch files you created or modified" (get.go:38).
EditsSurvive ==
  [][\A u \in Updaters, p \in Paths :
       Apply(u, p) /\ p \in edited => p \in raced]_vars

\* Once journaled, an update ends half-applied by itself only at a path the user
\* changed after its pre-check: what the pre-check can see, it refuses with
\* nothing written (update.go, obstructedParents).
FailsOnlyOnRace ==
  [][\A u \in Updaters, p \in Paths : ApplyFails(u, p) => p \in raced]_vars

\* The lock moves only along a journal that names both ends of the move, so a
\* crash on either side of it can be explained afterwards.
LockFollowsJournal ==
  [][lock' # lock =>
       /\ journal # None
       /\ {lock.gen, lock'.gen} = {journal.base, journal.final.gen}]_vars

\* "While the user's file is still present and still not shipped, carry the
\* deviation forward so warnings and the render notice persist until resolved;
\* once the user removes it (absent), it converges away" (update.go:564): a file
\* that vaka has no record of, at a path of a kept copy, stays one.
KeptCopiesCarried ==
  [][\A u \in Updaters : Precheck(u) =>
       \A p \in base[u].kept :
         p \in edited /\ Published[want[u]][p] = Absent => p \in next'[u].kept]_vars

\* Failures once over, and get run again, the directory settles time and again:
\* current for some release, with no journal and nothing locked.
Settled == flock = None /\ \E r \in Releases : UpToDate(r)

Calm == <>[][~ PowerLoss /\ \A u \in Updaters : ~ Interrupted(u)]_vars

Recovers == Calm => []<>Settled

\* The directory as the next get will understand it: while a journal is
\* pending, the files still count as those of the installed lock.
Understood ==
  [p \in Paths |-> IF Pending(journal, lock) THEN lock.files[p] ELSE tree[p]]

Atomic == INSTANCE RecipeSwitch WITH release <- lock.release, content <- Understood

\* With no edits by the user, the transaction implements an atomic switch of
\* releases, wherever it is interrupted and whoever runs it.
SwitchesAtomically == Atomic!Spec

=============================================================================
