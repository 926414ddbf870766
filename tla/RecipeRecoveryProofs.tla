------------------------ MODULE RecipeRecoveryProofs ------------------------
(***************************************************************************)
(* What an update may never do to the user's files, what an interrupted    *)
(* one leaves, and that the transaction is one atomic switch of releases,  *)
(* for any number of processes, paths and edits.                           *)
(***************************************************************************)
EXTENDS RecipeUpdateProofs

RowSound(u, p) ==
  LET row == rows[u][p]
  IN  /\ row.final = Published[want[u]][p]
      /\ next[u].files[p] = IF row.tracked THEN row.final ELSE Absent
      /\ row.action \in {"put", "track"} => row.tracked
      /\ row.action = "delete" => row.final = Absent
      /\ p \in todo[u] => row.action \in {"put", "delete"}

\* The plan spares the user's edits, unless they raced with it.
Spares(u, p) == p \in todo[u] /\ p \in edited => p \in raced

\* The accepted states extend what the lock and the inherited journal record
\* by the new state alone.
Extends(u, p) ==
  /\ RecordedAt(p) \subseteq rows[u][p].accepted
  /\ rows[u][p].accepted \subseteq RecordedAt(p) \union {Absent, rows[u][p].final}

HolderInv(u) ==
  /\ pc[u] \in {"recovered", "cleaned", "staged", "prechecked"} =>
       /\ journal = inherited[u]
       /\ journal = None \/ Pending(journal, lock)
  /\ pc[u] \in Window \union {"synced"} =>
       /\ next[u].gen # lock.gen
       /\ \A p \in Paths : RowSound(u, p) /\ Spares(u, p)
  /\ pc[u] = "prechecked" => \A p \in Paths : Extends(u, p)
  /\ pc[u] = "synced" => todo[u] = {}
  /\ pc[u] = "committed" => ~ Pending(journal, lock)

\* The user's edits are on the disk, and nothing gives them to vaka.
EditedInv ==
  \A p \in edited : tree[p] \in Contents \ RecordedAt(p) /\ dTree[p] = tree[p]

EditsInv == EditedInv /\ \A u \in Updaters : HolderInv(u)

Inv == IInv /\ JournalInv /\ EditsInv

-----------------------------------------------------------------------------
(* The decision matrix and the journal made from it. *)

\* A written journal is one.
LEMMA JournalIsNotNone ==
  ASSUME IInv, NEW u \in Updaters, pc[u] \in Planned
  PROVE  JournalOf(u) # None
BY JournalOfType, NoJournalAssumption DEF IInv, LocalsSet, Holding, Idle, Planned,
   Window, Installed

\* A row that tracks or touches its path is in the journal.
LEMMA EntryIsNotNone ==
  ASSUME NEW row \in Row, row.action # "none" \/ row.tracked
  PROVE  /\ EntryOfRow(row) # NoEntry
         /\ EntryOfRow(row) = [accepted |-> row.accepted, final |-> row.final]
BY SentinelsAssumption DEF EntryOfRow, Row, PlanEntry

\* A path the plan writes or removes is absent or holds a state vaka recorded;
\* one it leaves alone, tracked or not, is never a recorded state other than
\* the new one.
LEMMA MatrixIsSound ==
  ASSUME NEW old, NEW kept, NEW known, NEW disk, NEW new
  PROVE  LET row == RowOf(old, kept, known, disk, new)
         IN  /\ row.final = new
             /\ row.action \in {"put", "track"} => row.tracked
             /\ row.action = "delete" => new = Absent
             /\ row.action \in {"put", "delete"} /\ disk # Absent
                  => disk \in Recorded(old, known)
             /\ row.action \notin {"put", "delete"} /\ disk # Absent
                  /\ disk \in Recorded(old, known)
                  => row.tracked /\ disk = new
             /\ Recorded(old, known) \subseteq row.accepted
             /\ row.accepted \subseteq Recorded(old, known) \union {Absent, new}
<1> DEFINE row == RowOf(old, kept, known, disk, new)
<1>1. /\ row.final = new
      /\ row.tracked = (new # Absent /\ ~ UserOwned(old, known, disk, new))
      /\ row.action = ActionOf(old, known, disk, new)
      /\ row.accepted = AcceptedList(old, known, disk, new)
  BY DEF RowOf
<1>2. row.action = "put" <=> Installs(old, known, disk, new)
  BY <1>1 DEF ActionOf
<1>3. row.action = "delete" <=>
        Removes(old, known, disk, new) /\ ~ Installs(old, known, disk, new)
  BY <1>1 DEF ActionOf
<1>4. row.action = "track" => new # Absent /\ disk = new
  BY <1>1 DEF ActionOf
<1>5. row.action \in {"put", "track"} => row.tracked
  BY <1>1, <1>2, <1>4 DEF Installs, UserOwned, Owned
<1>6. row.action = "delete" => new = Absent
  BY <1>3 DEF Removes
<1>7. row.action \in {"put", "delete"} /\ disk # Absent => disk \in Recorded(old, known)
  BY <1>2, <1>3 DEF Installs, Removes, UserOwned, Owned
<1>8. row.action \notin {"put", "delete"} /\ disk # Absent /\ disk \in Recorded(old, known)
        => row.tracked /\ disk = new
  BY <1>1, <1>2, <1>3 DEF Installs, Removes, UserOwned, Owned
<1>9. /\ Recorded(old, known) \subseteq row.accepted
      /\ row.accepted \subseteq Recorded(old, known) \union {Absent, new}
  BY <1>1 DEF AcceptedList
<1> QED
  BY <1>1, <1>5, <1>6, <1>7, <1>8, <1>9

\* While a journal is inherited, it and the lock read under the update lock are
\* what the matrix and the rest of the world take as recorded.
LEMMA InheritedIsRecorded ==
  ASSUME NEW u \in Updaters, NEW p \in Paths, base[u] = lock,
         journal = inherited[u], journal = None \/ Pending(journal, lock)
  PROVE  Recorded(base[u].files[p], EntryFor(inherited[u], p)) = RecordedAt(p)
BY DEF EntryFor, RecordedAt, Pending

\* So a plan is sound for the directory it was made from.
LEMMA PlanIsSound ==
  ASSUME Inv, NEW u \in Updaters, pc[u] = "staged", NEW p \in Paths
  PROVE  LET row == BuildPlan(base[u], inherited[u], want[u])[p]
             disk == DiskState(tree[p])
             new == Published[want[u]][p]
         IN  /\ row.final = new
             /\ row.action \in {"put", "track"} => row.tracked
             /\ row.action = "delete" => new = Absent
             /\ row.action \in {"put", "delete"} /\ disk # Absent => disk \in RecordedAt(p)
             /\ row.action \notin {"put", "delete"} /\ disk # Absent /\ disk \in RecordedAt(p)
                  => row.tracked /\ disk = new
             /\ RecordedAt(p) \subseteq row.accepted
             /\ row.accepted \subseteq RecordedAt(p) \union {Absent, new}
<1> DEFINE old == base[u].files[p]
           known == EntryFor(inherited[u], p)
           disk == DiskState(tree[p])
           new == Published[want[u]][p]
           row == RowOf(old, p \in base[u].kept, known, disk, new)
<1>1. base[u] = lock
  BY DEF Inv, IInv, HolderOwnsDirectory, Holding, Idle, Installed
<1>2. journal = inherited[u] /\ (journal = None \/ Pending(journal, lock))
  BY DEF Inv, EditsInv, HolderInv
<1>3. Recorded(old, known) = RecordedAt(p)
  BY <1>1, <1>2, InheritedIsRecorded
<1>4. BuildPlan(base[u], inherited[u], want[u])[p] = row
  BY DEF BuildPlan
<1>5. /\ row.final = new
      /\ row.action \in {"put", "track"} => row.tracked
      /\ row.action = "delete" => new = Absent
      /\ row.action \in {"put", "delete"} /\ disk # Absent => disk \in Recorded(old, known)
      /\ row.action \notin {"put", "delete"} /\ disk # Absent /\ disk \in Recorded(old, known)
           => row.tracked /\ disk = new
      /\ Recorded(old, known) \subseteq row.accepted
      /\ row.accepted \subseteq Recorded(old, known) \union {Absent, new}
  BY MatrixIsSound
<1> QED
  BY <1>3, <1>4, <1>5

\* Once written, the journal is pending, and records what its rows accept.
LEMMA WrittenIsPending ==
  ASSUME IInv, NEW u \in Updaters, pc[u] \in Window \union {"synced"},
         base[u] = lock, next[u].gen # lock.gen
  PROVE  Pending(JournalOf(u), lock)
<1>1. JournalOf(u) # None
  BY JournalIsNotNone DEF Planned
<1> QED
  BY <1>1 DEF Pending, Committed, JournalOf

LEMMA WrittenIsRecorded ==
  ASSUME IInv, NEW u \in Updaters, pc[u] \in Window \union {"synced"},
         base[u] = lock, next[u].gen # lock.gen,
         lock' = lock, journal' = JournalOf(u), NEW p \in Paths
  PROVE  RecordedAt(p)' = Recorded(lock.files[p], EntryOfRow(rows[u][p]))
<1>1. Pending(journal, lock)'
  BY WrittenIsPending DEF Pending, Committed
<1>2. JournalOf(u).plan[p] = EntryOfRow(rows[u][p])
  BY DEF JournalOf
<1> QED
  BY <1>1, <1>2 DEF RecordedAt

\* What is a file or a symlink is read as it is.
LEMMA ContentIsRead ==
  ASSUME NEW entry \in Contents
  PROVE  DiskState(entry) = entry /\ entry # Absent
BY SentinelsAssumption DEF DiskState

-----------------------------------------------------------------------------
(* The user's edits: one lemma per kind of step.  Only the holder has      *)
(* anything to keep: the other processes are idle, where HolderInv asks    *)
(* nothing.                                                                *)

\* What is known of v stays known while its locals, the lock and the journal stay.
LEMMA HolderFrame ==
  ASSUME NEW v \in Updaters, HolderInv(v),
         pc'[v] = pc[v], inherited'[v] = inherited[v], next'[v] = next[v],
         todo'[v] = todo[v], lock' = lock, journal' = journal,
         pc[v] \in Window \union {"synced"} =>
           \A p \in Paths : RowSound(v, p)' /\ Spares(v, p)',
         pc[v] = "prechecked" => \A p \in Paths : Extends(v, p)'
  PROVE  HolderInv(v)'
<1>1. Pending(journal, lock)' <=> Pending(journal, lock)
  BY DEF Pending, Committed
<1> QED
  BY <1>1 DEF HolderInv

\* A step of u that writes no file and no ghost keeps what is known of the
\* directory; what is known of u is left to prove.
LEMMA QuietStep ==
  ASSUME Inv, NEW u \in Updaters, Holding(u),
         tree' = tree, lock' = lock, edited' = edited,
         \A p \in Paths : dTree'[p] \in {tree[p], dTree[p]},
         journal' = journal \/ (journal' = None /\ ~ Pending(journal, lock)),
         \A v \in Updaters : v # u => pc'[v] = pc[v],
         HolderInv(u)'
  PROVE  EditsInv'
<1>1. \A p \in Paths : RecordedAt(p)' = RecordedAt(p)
  BY DEF RecordedAt, Pending
<1>2. EditedInv'
  BY <1>1 DEF Inv, EditsInv, EditedInv, IInv, TypeOK
<1>3. \A v \in Updaters : v # u => HolderInv(v)'
  BY OthersAreIdle DEF Inv, HolderInv, Idle, Window
<1> QED
  BY <1>2, <1>3 DEF EditsInv

\* The pre-check: the plan is sound for the directory it read.
LEMMA PrecheckIsSound ==
  ASSUME Inv, NEW u \in Updaters, Precheck(u)
  PROVE  EditsInv'
<1> USE DEF Inv, IInv
<1> DEFINE plan == BuildPlan(base[u], inherited[u], want[u])
<1>1. /\ pc[u] = "staged" /\ pc'[u] = "prechecked" /\ Holding(u)
      /\ \A v \in Updaters : v # u => pc'[v] = pc[v]
  BY DEF Precheck, Step, TypeOK, Holding, Idle
<1>2. /\ tree' = tree /\ lock' = lock /\ journal' = journal /\ edited' = edited
      /\ want' = want /\ inherited' = inherited /\ dTree' = dTree
  BY DEF Precheck, files, durable
<1>3. journal = inherited[u] /\ (journal = None \/ Pending(journal, lock))
  BY <1>1 DEF EditsInv, HolderInv
<1>4. PICK g \in FreshGenerations :
        /\ rows'[u] = plan
        /\ next'[u] = NewLock(want[u], g, plan)
        /\ todo'[u] = Operations(plan)
  BY DEF Precheck, TypeOK
<1>5. next'[u].gen # lock.gen
  BY <1>4 DEF FreshGenerations, NewLock
<1>6. ASSUME NEW p \in Paths
      PROVE  RowSound(u, p)' /\ Spares(u, p)' /\ Extends(u, p)'
  <2> DEFINE disk == DiskState(tree[p])
             new == Published[want[u]][p]
  <2>1. /\ plan[p].final = new
        /\ plan[p].action \in {"put", "track"} => plan[p].tracked
        /\ plan[p].action = "delete" => new = Absent
        /\ plan[p].action \in {"put", "delete"} /\ disk # Absent => disk \in RecordedAt(p)
        /\ RecordedAt(p) \subseteq plan[p].accepted
        /\ plan[p].accepted \subseteq RecordedAt(p) \union {Absent, new}
    BY <1>1, PlanIsSound
  <2> HIDE DEF plan
  <2>2. /\ rows'[u][p] = plan[p] /\ want'[u] = want[u]
        /\ p \in todo'[u] => plan[p].action \in {"put", "delete"}
        /\ next'[u].files[p] = IF plan[p].tracked THEN new ELSE Absent
    BY <1>2, <1>4 DEF NewLock, Operations
  <2>3. RowSound(u, p)'
    BY <2>1, <2>2 DEF RowSound
  <2>4. Spares(u, p)'
    BY <1>2, <2>1, <2>2, ContentIsRead DEF Spares, EditsInv, EditedInv
  <2>5. RecordedAt(p)' = RecordedAt(p)
    BY <1>2 DEF RecordedAt
  <2>6. Extends(u, p)'
    BY <2>1, <2>2, <2>5 DEF Extends
  <2> QED
    BY <2>3, <2>4, <2>6
<1>7. HolderInv(u)'
  <2>1. (journal = None \/ Pending(journal, lock))'
    BY <1>2, <1>3 DEF Pending, Committed
  <2> QED
    BY <1>1, <1>2, <1>3, <1>5, <1>6, <2>1 DEF HolderInv, Window
<1> QED
  BY <1>1, <1>2, <1>7, QuietStep

\* The journal is written: what it accepts gives nothing of the user's away.
LEMMA WriteJournalIsSound ==
  ASSUME Inv, NEW u \in Updaters, WriteJournal(u)
  PROVE  EditsInv'
<1> USE DEF Inv, IInv
<1>1. /\ pc[u] = "prechecked" /\ pc'[u] = "journaled" /\ Holding(u)
      /\ \A v \in Updaters : v # u => pc'[v] = pc[v]
      /\ base[u] = lock
  BY DEF WriteJournal, Step, TypeOK, HolderOwnsDirectory, Holding, Idle, Installed
<1>2. /\ tree' = tree /\ dTree' = dTree /\ lock' = lock /\ journal' = JournalOf(u)
      /\ edited' = {p \in edited : ~ (rows[u][p].tracked /\ tree[p] = rows[u][p].final)}
      /\ UNCHANGED <<locals, raced>>
  BY DEF WriteJournal, durable
<1>3. /\ next[u].gen # lock.gen
      /\ \A p \in Paths : RowSound(u, p) /\ Spares(u, p) /\ Extends(u, p)
  BY <1>1 DEF EditsInv, HolderInv, Window
<1>4. \A p \in Paths : RecordedAt(p)' = Recorded(lock.files[p], EntryOfRow(rows[u][p]))
  BY <1>1, <1>2, <1>3, WrittenIsRecorded DEF Window
<1>5. \A p \in Paths : rows[u][p] \in Row
  BY DEF TypeOK
<1>6. ASSUME NEW p \in edited'
      PROVE  tree[p] \in Contents \ RecordedAt(p)'
  <2>1. /\ p \in Paths /\ tree[p] \in Contents \ RecordedAt(p)
        /\ ~ (rows[u][p].tracked /\ tree[p] = rows[u][p].final)
    BY <1>2, <1>6 DEF EditsInv, EditedInv, TypeOK
  <2>2. tree[p] # Absent
    BY <2>1, SentinelsAssumption
  <2>3. rows[u][p].tracked \/ rows[u][p].action \in {"none", "delete"}
    BY <1>3, <2>1 DEF RowSound, TypeOK, Row
  <2>4. lock.files[p] # tree[p]
    BY <2>1, <2>2 DEF RecordedAt, Recorded
  <2>5. EntryOfRow(rows[u][p]) # NoEntry =>
          /\ EntryOfRow(rows[u][p]).accepted = rows[u][p].accepted
          /\ EntryOfRow(rows[u][p]).final = rows[u][p].final
          /\ ~ (rows[u][p].action = "none" /\ ~ rows[u][p].tracked)
    BY DEF EntryOfRow
  <2>6. EntryOfRow(rows[u][p]) # NoEntry => rows[u][p].final # tree[p]
    BY <1>3, <2>1, <2>2, <2>3, <2>5 DEF RowSound
  <2> QED
    BY <1>3, <1>4, <1>5, <2>1, <2>2, <2>4, <2>5, <2>6 DEF Extends, Recorded
<1>7. EditedInv'
  BY <1>2, <1>6 DEF EditsInv, EditedInv
<1>8. HolderInv(u)'
  <2>1. \A p \in Paths : RowSound(u, p)' /\ Spares(u, p)'
    BY <1>2, <1>3 DEF RowSound, Spares, locals
  <2> QED
    BY <1>1, <1>2, <1>3, <2>1 DEF HolderInv, locals
<1>9. \A v \in Updaters : v # u => HolderInv(v)'
  BY <1>1, OthersAreIdle DEF HolderInv, Idle, Window
<1> QED
  BY <1>7, <1>8, <1>9 DEF EditsInv

\* One rename or removal: no edit of the user's is lost but a raced one.
LEMMA ApplyIsSound ==
  ASSUME Inv, NEW u \in Updaters, NEW p \in Paths, Apply(u, p)
  PROVE  EditsInv' /\ (p \in edited => p \in raced)
<1> USE DEF Inv, IInv
<1>1. PICK entry : Finish(u, p, entry)
  BY DEF Apply, ApplyPut, ApplyDelete
<1>2. /\ pc[u] = "applying" /\ pc' = pc /\ p \in todo[u]
      /\ tree' = [tree EXCEPT ![p] = entry] /\ todo' = [todo EXCEPT ![u] = @ \ {p}]
      /\ edited' = edited \ {p} /\ lock' = lock /\ journal' = journal /\ dTree' = dTree
      /\ UNCHANGED <<want, base, inherited, rows, next, raced>>
  BY <1>1 DEF Finish, IsNext, durable
<1>3. /\ next[u].gen # lock.gen
      /\ \A q \in Paths : RowSound(u, q) /\ Spares(u, q)
  BY <1>2 DEF EditsInv, HolderInv, Window
<1>4. \A q \in Paths : RecordedAt(q)' = RecordedAt(q)
  BY <1>2 DEF RecordedAt
<1>5. EditedInv'
  BY <1>2, <1>4 DEF EditsInv, EditedInv, TypeOK
<1>6. \A q \in Paths : RowSound(u, q)' /\ Spares(u, q)'
  BY <1>2, <1>3 DEF RowSound, Spares, TypeOK
<1>7. HolderInv(u)'
  BY <1>2, <1>3, <1>6 DEF HolderInv, Window
<1>8. \A v \in Updaters : v # u => HolderInv(v)'
  BY <1>2, OthersAreIdle DEF HolderInv, Holding, Idle, Window
<1> QED
  BY <1>2, <1>3, <1>5, <1>7, <1>8 DEF EditsInv, Spares

\* The commit: what the new lock records is no longer an edit.
LEMMA CommitIsSound ==
  ASSUME Inv, NEW u \in Updaters, CommitLock(u)
  PROVE  EditsInv'
<1> USE DEF Inv, IInv
<1>1. /\ pc[u] = "synced" /\ pc'[u] = "committing" /\ Holding(u)
      /\ \A v \in Updaters : v # u => pc'[v] = pc[v]
      /\ lock' = next[u] /\ journal' = journal /\ tree' = tree /\ dTree' = dTree
      /\ edited' = {p \in edited : tree[p] # next[u].files[p]}
      /\ journal = JournalOf(u)
  BY DEF CommitLock, Step, TypeOK, Holding, Idle, JournalInv, durable
<1>2. ~ Pending(journal, lock)'
  BY <1>1 DEF Pending, Committed, JournalOf
<1>3. \A p \in Paths : RecordedAt(p)' = {next[u].files[p]} \ {Absent}
  BY <1>1, <1>2 DEF RecordedAt, Recorded
<1>4. EditedInv'
  BY <1>1, <1>3 DEF EditsInv, EditedInv, TypeOK
<1>5. \A v \in Updaters : HolderInv(v)'
  BY <1>1, OthersAreIdle DEF HolderInv, Idle, Window
<1> QED
  BY <1>4, <1>5 DEF EditsInv

\* The steps of the transaction that write nothing in the visible tree.
LEMMA QuietStepsAreSound ==
  ASSUME Inv, NEW u \in Updaters,
         \/ Acquire(u) \/ Recover(u) \/ ClearStaging(u) \/ Stage(u) \/ SyncJournal(u)
         \/ SyncTree(u) \/ SyncCommit(u) \/ Cleanup(u) \/ DropStaging(u)
  PROVE  EditsInv'
<1> USE DEF Inv, IInv
<1>1. CASE Acquire(u)
  <2>1. /\ tree' = tree /\ lock' = lock /\ journal' = journal /\ edited' = edited
        /\ dTree' = dTree
        /\ \A v \in Updaters : v # u => pc'[v] = pc[v]
        /\ pc'[u] = "locked" /\ UNCHANGED <<inherited, want, rows, next, todo, raced>>
    BY <1>1 DEF Acquire, Step, TypeOK, files, durable
  <2>2. \A p \in Paths : RecordedAt(p)' = RecordedAt(p)
    BY <2>1 DEF RecordedAt
  <2>3. \A v \in Updaters : pc'[v] \notin Idle => v = u
    BY <1>1, <2>1, NoneAssumption DEF Acquire, HolderOwnsDirectory, Holding
  <2>4. \A v \in Updaters : HolderInv(v)'
    BY <2>1, <2>3 DEF HolderInv, Idle, Window
  <2> QED
    BY <2>1, <2>2, <2>4 DEF EditsInv, EditedInv, TypeOK
<1>2. CASE Recover(u)
  <2>1. /\ Holding(u) /\ pc'[u] = "recovered" /\ base[u] = lock
        /\ tree' = tree /\ lock' = lock /\ edited' = edited /\ dTree' = dTree
        /\ \A v \in Updaters : v # u => pc'[v] = pc[v]
        /\ inherited[u] \in Journal \union {None}
    BY <1>2 DEF Recover, Step, TypeOK, Holding, Idle, HolderOwnsDirectory, Installed, durable
  <2>2. CASE /\ Committed(journal, base[u]) /\ journal' = None
             /\ inherited' = [inherited EXCEPT ![u] = None]
    <3>1. HolderInv(u)'
      BY <2>1, <2>2 DEF HolderInv, Window, TypeOK
    <3> QED
      BY <2>1, <2>2, <3>1, QuietStep DEF Pending
  <2>3. CASE /\ journal = None \/ Pending(journal, base[u])
             /\ inherited' = [inherited EXCEPT ![u] = journal] /\ journal' = journal
    <3>1. HolderInv(u)'
      BY <2>1, <2>3 DEF HolderInv, Window, Pending, Committed, TypeOK
    <3> QED
      BY <2>1, <2>3, <3>1, QuietStep
  <2> QED
    BY <1>2, <2>2, <2>3 DEF Recover
<1>3. CASE ClearStaging(u) \/ Stage(u)
  <2>1. /\ Holding(u) /\ pc[u] \in {"recovered", "cleaned"} /\ pc'[u] \in {"cleaned", "staged"}
        /\ tree' = tree /\ lock' = lock /\ edited' = edited /\ journal' = journal
        /\ inherited' = inherited
        /\ \A p \in Paths : dTree'[p] \in {tree[p], dTree[p]}
        /\ \A v \in Updaters : v # u => pc'[v] = pc[v]
    BY <1>3 DEF ClearStaging, Stage, Step, TypeOK, Holding, Idle, locals,
       SyncRoot, durable
  <2>2. HolderInv(u)'
    BY <2>1 DEF EditsInv, HolderInv, Window, Pending, Committed
  <2> QED
    BY <2>1, <2>2, QuietStep
<1>4. CASE SyncJournal(u) \/ SyncTree(u)
  <2>1. /\ Holding(u) /\ pc[u] \in Window /\ pc'[u] \in {"applying", "synced"}
        /\ pc'[u] = "synced" => todo[u] = {}
        /\ tree' = tree /\ lock' = lock /\ edited' = edited /\ journal' = journal
        /\ raced' = raced /\ UNCHANGED locals
        /\ \A p \in Paths : dTree'[p] \in {tree[p], dTree[p]}
        /\ \A v \in Updaters : v # u => pc'[v] = pc[v]
    BY <1>4 DEF SyncJournal, SyncTree, Step, TypeOK, Holding, Idle, files, Window,
       SyncRoot
  <2>2. \A p \in Paths : RowSound(u, p)' /\ Spares(u, p)'
    BY <2>1 DEF EditsInv, HolderInv, RowSound, Spares, locals
  <2>3. HolderInv(u)'
    BY <2>1, <2>2 DEF EditsInv, HolderInv, Window, locals
  <2> QED
    BY <2>1, <2>3, QuietStep
<1>5. CASE SyncCommit(u)
  <2>1. /\ Holding(u) /\ pc[u] = "committing" /\ pc'[u] = "committed"
        /\ tree' = tree /\ lock' = lock /\ edited' = edited /\ journal' = journal
        /\ \A p \in Paths : dTree'[p] \in {tree[p], dTree[p]}
        /\ \A v \in Updaters : v # u => pc'[v] = pc[v]
    BY <1>5 DEF SyncCommit, Step, TypeOK, Holding, Idle, files, SyncRoot
  <2>2. ~ Pending(journal, lock)'
    BY <2>1 DEF JournalInv, HolderOwnsDirectory, Installed, Pending, Committed, JournalOf
  <2> QED
    BY <2>1, <2>2, QuietStep DEF HolderInv, Window
<1>6. CASE Cleanup(u)
  <2>1. /\ Holding(u) /\ pc[u] = "committed" /\ pc'[u] = "cleaning"
        /\ tree' = tree /\ lock' = lock /\ edited' = edited /\ journal' = None
        /\ dTree' = dTree
        /\ \A v \in Updaters : v # u => pc'[v] = pc[v]
    BY <1>6 DEF Cleanup, Step, TypeOK, Holding, Idle, durable
  <2>2. ~ Pending(journal, lock)
    BY <2>1 DEF EditsInv, HolderInv
  <2> QED
    BY <2>1, <2>2, QuietStep DEF HolderInv, Window
<1>7. CASE DropStaging(u)
  <2>1. /\ Holding(u) /\ pc'[u] = "tidied"
        /\ tree' = tree /\ lock' = lock /\ edited' = edited /\ journal' = journal
        /\ dTree' = dTree
        /\ \A v \in Updaters : v # u => pc'[v] = pc[v]
    BY <1>7 DEF DropStaging, Step, TypeOK, Holding, Idle, durable
  <2> QED
    BY <2>1, QuietStep DEF HolderInv, Window
<1> QED
  BY <1>1, <1>2, <1>3, <1>4, <1>5, <1>6, <1>7

\* A process that starts, or ends with its files as they are.
LEMMA StartsAndExitsAreSound ==
  ASSUME Inv, NEW u \in Updaters,
         \/ \E r \in Releases : Check(u, r)
         \/ UpdateInProgress(u) \/ RefuseStrayJournal(u) \/ RefusePlan(u) \/ NothingToDo(u)
         \/ SyncCleanup(u) \/ Interrupted(u)
         \/ \E p \in Paths : ApplyFails(u, p)
  PROVE  EditsInv'
<1> USE DEF Inv, IInv
<1>1. /\ tree' = tree /\ lock' = lock /\ journal' = journal /\ edited' = edited
      /\ \A p \in Paths : dTree'[p] \in {tree[p], dTree[p]}
      /\ pc'[u] \in Idle
  BY DEF Check, UpdateInProgress, RefuseStrayJournal, RefusePlan, NothingToDo, SyncCleanup,
     Interrupted, ApplyFails, Exit, Step, TypeOK, files, durable, SyncRoot, Idle
<1>2. \A p \in Paths : RecordedAt(p)' = RecordedAt(p)
  BY <1>1 DEF RecordedAt
<1>3. \A v \in Updaters : v # u =>
        /\ pc'[v] = pc[v] /\ inherited'[v] = inherited[v] /\ want'[v] = want[v]
        /\ rows'[v] = rows[v] /\ next'[v] = next[v] /\ todo'[v] = todo[v]
        /\ pc[v] \in Idle \/ raced' = raced
  <2>1. CASE UpdateInProgress(u) \/ \E r \in Releases : Check(u, r)
    BY <2>1 DEF UpdateInProgress, Check, Step, TypeOK
  <2>2. CASE Holding(u) /\ Exit(u)
    BY <2>2, OthersAreIdle DEF Exit, TypeOK
  <2> QED
    BY <2>1, <2>2 DEF RefuseStrayJournal, RefusePlan, NothingToDo, SyncCleanup, Interrupted,
       ApplyFails, Holding, Idle
<1>4. \A v \in Updaters : HolderInv(v)'
  <2>1. HolderInv(u)'
    BY <1>1 DEF HolderInv, Idle, Window
  <2>2. ASSUME NEW v \in Updaters, v # u, pc[v] \in Idle
        PROVE  HolderInv(v)'
    BY <1>3, <2>2 DEF HolderInv, Idle, Window
  <2>3. ASSUME NEW v \in Updaters, v # u, pc[v] \notin Idle
        PROVE  HolderInv(v)'
    <3>1. HolderInv(v)
      BY DEF EditsInv
    <3>2. pc[v] \in Window \union {"synced"} =>
            \A p \in Paths : RowSound(v, p)' /\ Spares(v, p)'
      BY <1>1, <1>3, <2>3, <3>1 DEF HolderInv, RowSound, Spares
    <3>3. pc[v] = "prechecked" => \A p \in Paths : Extends(v, p)'
      BY <1>1, <1>2, <1>3, <2>3, <3>1 DEF HolderInv, Extends
    <3>4. /\ pc'[v] = pc[v] /\ inherited'[v] = inherited[v] /\ next'[v] = next[v]
          /\ todo'[v] = todo[v] /\ lock' = lock /\ journal' = journal
      BY <1>1, <1>3, <2>3
    <3> QED
      BY <3>1, <3>2, <3>3, <3>4, HolderFrame
  <2> QED
    BY <2>1, <2>2, <2>3
<1> QED
  BY <1>1, <1>2, <1>4 DEF EditsInv, EditedInv, TypeOK

\* An edit by the user, at any moment.
LEMMA UserWritesIsSound ==
  ASSUME Inv, NEW q \in Paths, NEW entry \in UserEntries, UserWrites(q, entry)
  PROVE  EditsInv'
<1> USE DEF Inv, IInv
<1>1. /\ tree' = [tree EXCEPT ![q] = entry] /\ lock' = lock /\ journal' = journal
      /\ dTree' = [dTree EXCEPT ![q] = entry]
      /\ UNCHANGED <<pc, locals>>
      /\ edited' = IF entry \in Contents \ RecordedAt(q)
                   THEN edited \union {q} ELSE edited \ {q}
      /\ (\E u \in Updaters : pc[u] \in Window) => raced' = raced \union {q}
  BY DEF UserWrites
<1>2. \A p \in Paths : RecordedAt(p)' = RecordedAt(p)
  BY <1>1 DEF RecordedAt
<1>3. EditedInv'
  BY <1>1, <1>2 DEF EditsInv, EditedInv, TypeOK
<1>4. ASSUME NEW u \in Updaters
      PROVE  HolderInv(u)'
  <2>1. HolderInv(u)
    BY DEF EditsInv
  <2>2. pc[u] \in Window \union {"synced"} => \A p \in Paths : RowSound(u, p)'
    BY <1>1, <2>1 DEF HolderInv, RowSound, locals
  <2>3. pc[u] \in Window => \A p \in Paths : Spares(u, p)'
    BY <1>1, <2>1 DEF HolderInv, Spares, locals
  <2>4. pc[u] = "synced" => \A p \in Paths : Spares(u, p)'
    BY <1>1, <2>1 DEF HolderInv, Spares, locals
  <2>5. pc[u] \in Window \union {"synced"} =>
          \A p \in Paths : RowSound(u, p)' /\ Spares(u, p)'
    BY <2>2, <2>3, <2>4
  <2>6. pc[u] = "prechecked" => \A p \in Paths : Extends(u, p)'
    BY <1>1, <1>2, <2>1 DEF HolderInv, Extends, locals
  <2>7. /\ pc'[u] = pc[u] /\ inherited'[u] = inherited[u] /\ next'[u] = next[u]
        /\ todo'[u] = todo[u] /\ lock' = lock /\ journal' = journal
    BY <1>1 DEF locals
  <2> QED
    BY <2>1, <2>5, <2>6, <2>7, HolderFrame
<1> QED
  BY <1>3, <1>4 DEF EditsInv

\* A stray journal is never pending for the installed lock, so copying it in or
\* removing it changes nothing that is recorded.
LEMMA StrayJournalsAreSound ==
  ASSUME Inv, RemoveStrayJournal \/ \E j \in StrayJournals : CopyStrayJournal(j)
  PROVE  EditsInv'
<1> USE DEF Inv, IInv
<1>1. /\ tree' = tree /\ dTree' = dTree /\ lock' = lock /\ edited' = edited /\ pc' = pc
      /\ \A u \in Updaters : pc[u] \in Idle
  BY NoneAssumption DEF RemoveStrayJournal, CopyStrayJournal, HolderOwnsDirectory, Holding
<1>2. ~ Pending(journal, lock)
  BY StrayAssumption DEF RemoveStrayJournal, CopyStrayJournal, Pending, TypeOK, Lock
<1>3. ~ Pending(journal, lock)'
  BY <1>1, StrayAssumption DEF RemoveStrayJournal, CopyStrayJournal, Pending, TypeOK, Lock
<1>4. \A p \in Paths : RecordedAt(p)' = RecordedAt(p)
  BY <1>1, <1>2, <1>3 DEF RecordedAt
<1>5. \A u \in Updaters : HolderInv(u)'
  BY <1>1 DEF HolderInv, Idle, Window
<1> QED
  BY <1>1, <1>4, <1>5 DEF EditsInv, EditedInv, TypeOK

\* A power loss spares what the user wrote, which is durable.  What an old lock
\* or journal records that comes back is no longer an edit, and nobody is at work.
LEMMA PowerLossIsSound ==
  ASSUME Inv, PowerLoss
  PROVE  EditsInv'
<1> USE DEF Inv, IInv
<1>1. PICK lost \in SUBSET Paths :
        tree' = [p \in Paths |-> IF p \in lost THEN dTree[p] ELSE tree[p]]
  BY DEF PowerLoss
<1>2. dTree' = tree' /\ edited' = {p \in edited : tree'[p] \notin RecordedAt(p)'}
  BY DEF PowerLoss
<1>3. EditedInv'
  BY <1>1, <1>2 DEF EditsInv, EditedInv, TypeOK
<1>4. \A u \in Updaters : HolderInv(u)'
  BY DEF PowerLoss, HolderInv, Window
<1> QED
  BY <1>3, <1>4 DEF EditsInv

-----------------------------------------------------------------------------
\* Every step keeps the invariant.
LEMMA StepIsSound ==
  ASSUME Inv, [Next]_vars
  PROVE  Inv'
<1>1. IInv' /\ JournalInv'
  BY NextKeepsInvariant, StepKeepsJournal DEF Inv
<1>2. CASE UNCHANGED vars
  <2>1. UNCHANGED <<tree, dTree, lock, journal, pc, locals, edited, raced>>
    BY <1>2 DEF vars, files, durable
  <2>2. \A p \in Paths : RecordedAt(p)' = RecordedAt(p)
    BY <2>1 DEF RecordedAt
  <2>3. ASSUME NEW u \in Updaters
        PROVE  HolderInv(u)'
    <3>1. HolderInv(u)
      BY DEF Inv, EditsInv
    <3>2. pc[u] \in Window \union {"synced"} =>
            \A p \in Paths : RowSound(u, p)' /\ Spares(u, p)'
      BY <2>1, <3>1 DEF HolderInv, RowSound, Spares, locals
    <3>3. pc[u] = "prechecked" => \A p \in Paths : Extends(u, p)'
      BY <2>1, <2>2, <3>1 DEF HolderInv, Extends, locals
    <3>4. /\ pc'[u] = pc[u] /\ inherited'[u] = inherited[u] /\ next'[u] = next[u]
          /\ todo'[u] = todo[u] /\ lock' = lock /\ journal' = journal
      BY <2>1 DEF locals
    <3> QED
      BY <3>1, <3>2, <3>3, <3>4, HolderFrame
  <2> QED
    BY <1>1, <2>1, <2>2, <2>3 DEF Inv, EditsInv, EditedInv, IInv, TypeOK
<1>3. CASE Environment
  BY <1>1, <1>3, UserWritesIsSound, StrayJournalsAreSound, PowerLossIsSound DEF Environment, Inv
<1>4. CASE \E u \in Updaters : Precheck(u) \/ WriteJournal(u) \/ CommitLock(u)
                             \/ \E p \in Paths : Apply(u, p)
  BY <1>1, <1>4, PrecheckIsSound, WriteJournalIsSound, CommitIsSound, ApplyIsSound DEF Inv
<1>5. CASE \E u \in Updaters :
             \/ Acquire(u) \/ Recover(u) \/ ClearStaging(u) \/ Stage(u) \/ SyncJournal(u)
             \/ SyncTree(u) \/ SyncCommit(u) \/ Cleanup(u) \/ DropStaging(u)
  BY <1>1, <1>5, QuietStepsAreSound DEF Inv
<1>6. CASE \E u \in Updaters :
             \/ \E r \in Releases : Check(u, r)
             \/ UpdateInProgress(u) \/ RefuseStrayJournal(u) \/ RefusePlan(u)
             \/ NothingToDo(u) \/ SyncCleanup(u) \/ Interrupted(u)
             \/ \E p \in Paths : ApplyFails(u, p)
  BY <1>1, <1>6, StartsAndExitsAreSound DEF Inv
<1> QED
  BY <1>2, <1>3, <1>4, <1>5, <1>6 DEF Next, Proceed, Apply

\* The invariant holds of a fresh install.
LEMMA InitIsSound == Init => Inv
<1> SUFFICES ASSUME Init PROVE Inv
  OBVIOUS
<1>1. IInv
  BY InitIsTyped
<1>2. JournalInv
  BY DEF Init, JournalInv, Binds
<1>3. EditsInv
  BY SentinelsAssumption DEF Init, EditsInv, EditedInv, HolderInv, RecordedAt,
     Recorded, Window
<1> QED
  BY <1>1, <1>2, <1>3 DEF Inv

LEMMA InvAlways == Spec => []Inv
BY InitIsSound, StepIsSound, PTL DEF Spec

\* However processes are killed and the power fails, no update ever renames over
\* or removes a file of the user's that was there when it looked.
THEOREM EditsAlwaysSurvive == Spec => EditsSurvive
<1> DEFINE Spared == \A u \in Updaters, p \in Paths : Apply(u, p) /\ p \in edited => p \in raced
<1>1. Inv /\ [Next]_vars => [Spared]_vars
  BY ApplyIsSound
<1>2. Spec => [][Spared]_vars
  BY <1>1, InvAlways, PTL DEF Spec
<1> QED
  BY <1>2 DEF EditsSurvive

-----------------------------------------------------------------------------
(* What a power loss may leave.  Where updates are killed it is what every *)
(* process sees that counts; where the power fails, whatever it may bring  *)
(* back as well.                                                           *)

\* What is there, and what a power loss may put in its place.
Lasting(visible, kept) == IF "power" \in Failures THEN {visible, kept} ELSE {visible}

Locks == Lasting(lock, dLock)

Journals == Lasting(journal, dJournal)

Found(p) == Lasting(tree[p], dTree[p])

\* What interrupts an update leaves nothing the next one does not sync: either
\* the power never fails, or nothing else ends an update half-way.
Gentle == "power" \in Failures => "kill" \notin Failures /\ UserEntries \subseteq Contents

\* What is known of durability then.
Calmly == "power" \in Failures => CommitInv /\ SyncedInv

\* Nothing else than what was there, or might come back, is: only the journal
\* may be another, which takes the place of one that was not pending.
NothingNew ==
  /\ Locks' \subseteq Locks
  /\ \A p \in Paths : Found(p)' \subseteq Found(p)
  /\ \A j \in Journals' : j \notin Journals =>
       \A l \in Locks : ~ Pending(j, l) /\ ~ Pending(journal, l)

LEMMA StepKeepsCalm ==
  ASSUME Gentle, IInv, JournalInv, FeasibleInv, Calmly, [Next]_vars
  PROVE  Calmly'
<1> SUFFICES ASSUME "power" \in Failures PROVE CommitInv' /\ SyncedInv'
  BY DEF Calmly
<1>1. "kill" \notin Failures /\ UserEntries \subseteq Contents
  BY DEF Gentle
<1>2. CommitInv /\ SyncedInv
  BY DEF Calmly
<1> QED
  BY <1>1, <1>2, StepKeepsCommit, StepKeepsSynced

LEMMA InitIsCalm == Init => Calmly
BY DEF Init, Calmly, CommitInv, SyncedInv

\* The lock is the durable one unless an update commits.
LEMMA OneLock ==
  ASSUME Calmly, \A u \in Updaters : pc[u] # "committing"
  PROVE  Locks = {lock}
BY DEF Calmly, CommitInv, Locks, Lasting

\* So is the tree unless an update applies.
LEMMA OneTree ==
  ASSUME Calmly, \A u \in Updaters : pc[u] # "applying"
  PROVE  \A p \in Paths : Found(p) = {tree[p]}
BY DEF Calmly, SyncedInv, Found, Lasting

\* Where no process is at work, or u is, at another stage.
LEMMA NoneAt ==
  ASSUME IInv, NEW u \in Updaters, Holding(u), NEW stage, pc[u] # stage, stage \notin Idle
  PROVE  \A v \in Updaters : pc[v] # stage
BY OthersAreIdle

\* A stray journal is pending for no lock.
LEMMA StrayIsNotPending ==
  ASSUME NEW j \in StrayJournals, NEW l \in Lock
  PROVE  ~ Pending(j, l)
BY StrayAssumption DEF Pending, Lock

\* Steps that only sync, stage or end.
LEMMA StillIsNothingNew ==
  ASSUME tree' = tree, lock' = lock, journal' = journal,
         dLock' \in {lock, dLock}, dJournal' \in {journal, dJournal},
         \A p \in Paths : dTree'[p] \in {tree[p], dTree[p]}
  PROVE  NothingNew
<1>1. Locks' \subseteq Locks
  BY DEF Locks, Lasting
<1>2. Journals' \subseteq Journals
  BY DEF Journals, Lasting
<1>3. ASSUME NEW p \in Paths
      PROVE  Found(p)' \subseteq Found(p)
  BY DEF Found, Lasting
<1> QED
  BY <1>1, <1>2, <1>3 DEF NothingNew

\* A power loss leaves one of what it may leave.
LEMMA PowerLossIsNothingNew ==
  ASSUME TypeOK, PowerLoss
  PROVE  NothingNew
<1>1. Locks' \subseteq Locks
  BY DEF PowerLoss, Locks, Lasting
<1>2. Journals' \subseteq Journals
  BY DEF PowerLoss, Journals, Lasting
<1>3. PICK lost \in SUBSET Paths :
        tree' = [p \in Paths |-> IF p \in lost THEN dTree[p] ELSE tree[p]]
  BY DEF PowerLoss
<1>4. dTree' = tree' /\ "power" \in Failures
  BY DEF PowerLoss
<1>5. ASSUME NEW p \in Paths
      PROVE  Found(p)' \subseteq Found(p)
  BY <1>3, <1>4 DEF Found, Lasting
<1> QED
  BY <1>1, <1>2, <1>5 DEF NothingNew

\* A journal is removed, or copied in: neither it nor what it replaces is pending.
LEMMA ClearedIsNothingNew ==
  ASSUME Locks = {lock}, tree' = tree, dTree' = dTree, lock' = lock, dLock' = dLock,
         dJournal' \in {dJournal, journal'},
         ~ Pending(journal, lock), ~ Pending(journal', lock)
  PROVE  NothingNew
<1>1. Locks' = {lock}
  BY DEF Locks, Lasting
<1>2. \A p \in Paths : Found(p)' = Found(p)
  BY DEF Found, Lasting
<1>3. \A j \in Journals' : j \notin Journals => j = journal'
  BY DEF Journals, Lasting
<1> QED
  BY <1>1, <1>2, <1>3 DEF NothingNew

\* All other steps write a journal, a file or a lock.
LEMMA StepIsNothingNew ==
  ASSUME Inv, Calmly, [Next]_vars
  PROVE  \/ NothingNew
         \/ \E u \in Updaters :
              WriteJournal(u) \/ CommitLock(u) \/ \E p \in Paths : Apply(u, p)
         \/ \E p \in Paths, entry \in UserEntries : UserWrites(p, entry)
<1> USE DEF Inv, IInv
<1>1. CASE \E u \in Updaters :
             \/ \E r \in Releases : Check(u, r)
             \/ Acquire(u) \/ UpdateInProgress(u) \/ RefuseStrayJournal(u)
             \/ ClearStaging(u) \/ Stage(u) \/ RefusePlan(u) \/ Precheck(u) \/ NothingToDo(u)
  <2>1. /\ tree' = tree /\ lock' = lock /\ journal' = journal
        /\ dLock' \in {lock, dLock} /\ dJournal' \in {journal, dJournal}
        /\ \A p \in Paths : dTree'[p] \in {tree[p], dTree[p]}
    BY <1>1 DEF Check, Acquire, UpdateInProgress, RefuseStrayJournal, ClearStaging, Stage,
       RefusePlan, Precheck, NothingToDo, SyncRoot, Step, TypeOK, files, durable
  <2> QED
    BY <2>1, StillIsNothingNew
<1>2. CASE \E u \in Updaters :
             \/ SyncJournal(u) \/ SyncTree(u) \/ SyncCommit(u) \/ DropStaging(u)
             \/ SyncCleanup(u) \/ Interrupted(u) \/ \E p \in Paths : ApplyFails(u, p)
  <2>1. /\ tree' = tree /\ lock' = lock /\ journal' = journal
        /\ dLock' \in {lock, dLock} /\ dJournal' \in {journal, dJournal}
        /\ \A p \in Paths : dTree'[p] \in {tree[p], dTree[p]}
    BY <1>2 DEF SyncJournal, SyncTree, SyncCommit, DropStaging, SyncCleanup, Interrupted,
       ApplyFails, SyncRoot, TypeOK, files, durable
  <2> QED
    BY <2>1, StillIsNothingNew
<1>3. CASE \E u \in Updaters : Recover(u) \/ Cleanup(u)
  <2>1. PICK u \in Updaters : Recover(u) \/ Cleanup(u)
    BY <1>3
  <2>2. /\ Holding(u) /\ pc[u] \in {"locked", "committed"}
        /\ tree' = tree /\ lock' = lock /\ dTree' = dTree /\ dLock' = dLock
        /\ dJournal' = dJournal
    BY <2>1 DEF Recover, Cleanup, Step, Holding, Idle, durable
  <2>3. Locks = {lock}
    BY <2>2, OneLock, NoneAt DEF Idle
  <2>4. CASE journal' = journal
    BY <2>2, <2>4, StillIsNothingNew
  <2>5. CASE journal' # journal
    <3>1. journal' = None /\ ~ Pending(journal, lock)
      <4>1. CASE Cleanup(u)
        BY <4>1 DEF Cleanup, Step, EditsInv, HolderInv
      <4>2. CASE Recover(u)
        <5>1. base[u] = lock
          BY <2>2, <4>2 DEF Recover, Step, HolderOwnsDirectory, Installed
        <5> QED
          BY <2>5, <4>2, <5>1 DEF Recover, Pending
      <4> QED
        BY <2>1, <4>1, <4>2
    <3>2. ~ Pending(journal', lock)
      BY <3>1 DEF Pending
    <3> QED
      BY <2>2, <2>3, <3>1, <3>2, ClearedIsNothingNew
  <2> QED
    BY <2>4, <2>5
<1>4. CASE RemoveStrayJournal \/ \E j \in StrayJournals : CopyStrayJournal(j)
  <2>1. \A u \in Updaters : pc[u] \in Idle
    BY <1>4, NoneAssumption DEF RemoveStrayJournal, CopyStrayJournal, HolderOwnsDirectory, Holding
  <2>2. Locks = {lock}
    BY <2>1, OneLock DEF Idle
  <2>3. /\ journal = None \/ journal \in StrayJournals
        /\ journal' = None \/ journal' \in StrayJournals
        /\ tree' = tree /\ dTree' = dTree /\ lock' = lock /\ dLock' = dLock
        /\ dJournal' = journal'
    BY <1>4 DEF RemoveStrayJournal, CopyStrayJournal
  <2>4. ~ Pending(journal, lock) /\ ~ Pending(journal', lock)
    BY <2>3, StrayIsNotPending DEF TypeOK, Pending
  <2> QED
    BY <2>2, <2>3, <2>4, ClearedIsNothingNew
<1>5. CASE PowerLoss
  BY <1>5, PowerLossIsNothingNew
<1>6. CASE UNCHANGED vars
  BY <1>6, StillIsNothingNew DEF vars, files, durable
<1>7. CASE \/ \E u \in Updaters :
                WriteJournal(u) \/ CommitLock(u) \/ \E p \in Paths : Apply(u, p)
           \/ \E p \in Paths, entry \in UserEntries : UserWrites(p, entry)
  BY <1>7
<1> QED
  BY <1>1, <1>2, <1>3, <1>4, <1>5, <1>6, <1>7 DEF Next, Proceed, Environment, Apply

\* A journal is written while the lock and the tree are durable.
LEMMA Writing ==
  ASSUME Inv, Calmly, NEW u \in Updaters, WriteJournal(u)
  PROVE  /\ pc[u] = "prechecked" /\ Pending(JournalOf(u), lock)
         /\ Locks = {lock} /\ Locks' = {lock}
         /\ \A p \in Paths : Found(p) = {tree[p]} /\ Found(p)' = {tree[p]}
         /\ \A j \in Journals' : j = JournalOf(u) \/ j \in Journals
         /\ \A p \in Paths : JournalOf(u).plan[p] = EntryOfRow(rows[u][p])
<1> USE DEF Inv, IInv
<1>1. /\ pc[u] = "prechecked" /\ Holding(u) /\ base[u] = lock
      /\ tree' = tree /\ lock' = lock /\ dTree' = dTree /\ dLock' = dLock
      /\ dJournal' = dJournal /\ journal' = JournalOf(u)
  BY DEF WriteJournal, Step, HolderOwnsDirectory, Holding, Idle, Installed, durable
<1>2. Locks = {lock} /\ \A p \in Paths : Found(p) = {tree[p]}
  BY <1>1, OneLock, OneTree, NoneAt DEF Idle
<1>3. Locks' = {lock} /\ \A p \in Paths : Found(p)' = {tree[p]}
  BY <1>1, <1>2 DEF Locks, Found, Lasting
<1>4. Pending(JournalOf(u), lock)
  BY <1>1, WrittenIsPending DEF EditsInv, HolderInv, Window
<1>5. \A j \in Journals' : j = JournalOf(u) \/ j \in Journals
  BY <1>1 DEF Journals, Lasting
<1> QED
  BY <1>1, <1>2, <1>3, <1>4, <1>5 DEF JournalOf

\* A path is applied with the lock and the journal durable.
LEMMA Applying ==
  ASSUME Inv, Calmly, NEW u \in Updaters, NEW p \in Paths, NEW entry, Finish(u, p, entry)
  PROVE  /\ pc[u] = "applying" /\ Pending(JournalOf(u), lock)
         /\ Locks = {lock} /\ Locks' = {lock}
         /\ Journals = {JournalOf(u)} /\ Journals' = {JournalOf(u)}
         /\ \A q \in Paths \ {p} : Found(q)' = Found(q)
         /\ Found(p)' \subseteq Found(p) \union {entry}
         /\ JournalOf(u).plan[p] = EntryOfRow(rows[u][p])
<1> USE DEF Inv, IInv
<1>1. /\ pc[u] = "applying" /\ Holding(u) /\ tree' = [tree EXCEPT ![p] = entry]
      /\ lock' = lock /\ journal' = journal
      /\ dTree' = dTree /\ dLock' = dLock /\ dJournal' = dJournal
  BY DEF Finish, durable, Holding, Idle
<1>2. Locks = {lock}
  BY <1>1, OneLock, NoneAt DEF Idle
<1>3. Locks' = {lock}
  BY <1>1, <1>2 DEF Locks, Lasting
<1>4. journal = JournalOf(u) /\ dJournal = JournalOf(u)
  BY <1>1 DEF JournalInv
<1>5. Journals = {JournalOf(u)} /\ Journals' = {JournalOf(u)}
  BY <1>1, <1>4 DEF Journals, Lasting
<1>6. /\ \A q \in Paths \ {p} : Found(q)' = Found(q)
      /\ Found(p)' \subseteq Found(p) \union {entry}
  BY <1>1 DEF Found, Lasting, TypeOK
<1>7. base[u] = lock
  BY <1>1 DEF HolderOwnsDirectory, Installed
<1>8. Pending(JournalOf(u), lock)
  BY <1>1, <1>7, WrittenIsPending DEF EditsInv, HolderInv, Window
<1>9. JournalOf(u).plan[p] = EntryOfRow(rows[u][p])
  BY DEF JournalOf
<1> QED
  BY <1>1, <1>2, <1>3, <1>5, <1>6, <1>8, <1>9

\* The lock moves when nothing is left to do, and everything is durable.
LEMMA Committing ==
  ASSUME Inv, Calmly, NEW u \in Updaters, CommitLock(u)
  PROVE  /\ pc[u] = "synced" /\ todo[u] = {} /\ ~ Pending(JournalOf(u), next[u])
         /\ Locks = {lock} /\ \A l \in Locks' : l = next[u] \/ l = lock
         /\ Journals = {JournalOf(u)} /\ Journals' = {JournalOf(u)}
         /\ \A p \in Paths : Found(p) = {tree[p]} /\ Found(p)' = {tree[p]}
<1> USE DEF Inv, IInv
<1>1. /\ pc[u] = "synced" /\ Holding(u) /\ tree' = tree /\ lock' = next[u]
      /\ journal' = journal /\ dTree' = dTree /\ dLock' = dLock /\ dJournal' = dJournal
  BY DEF CommitLock, Step, Holding, Idle, durable
<1>2. Locks = {lock} /\ \A p \in Paths : Found(p) = {tree[p]}
  BY <1>1, OneLock, OneTree, NoneAt DEF Idle
<1>3. \A p \in Paths : Found(p)' = {tree[p]}
  BY <1>1, <1>2 DEF Found, Lasting
<1>4. \A l \in Locks' : l = next[u] \/ l = lock
  BY <1>1, <1>2 DEF Locks, Lasting
<1>5. journal = JournalOf(u) /\ dJournal = JournalOf(u)
  BY <1>1 DEF JournalInv
<1>6. Journals = {JournalOf(u)} /\ Journals' = {JournalOf(u)}
  BY <1>1, <1>5 DEF Journals, Lasting
<1>7. todo[u] = {}
  BY <1>1 DEF EditsInv, HolderInv
<1>8. ~ Pending(JournalOf(u), next[u])
  BY DEF Pending, Committed, JournalOf
<1> QED
  BY <1>1, <1>2, <1>3, <1>4, <1>6, <1>7, <1>8

-----------------------------------------------------------------------------
(* Half-applied updates are explained, by whatever lock and journal remain. *)

VakaOnly == Contents \ UserEntries

\* The states of a path a lock and a journal pending for it give to vaka.
RecordedBy(l, j, p) ==
  Recorded(l.files[p], IF Pending(j, l) THEN j.plan[p] ELSE NoEntry)

ExplainedInv ==
  \A l \in Locks, j \in Journals, p \in Paths : \A entry \in Found(p) :
    entry \in VakaOnly => entry \in RecordedBy(l, j, p)

\* What is not left to do is done.
Progress(u, p) ==
  p \notin todo[u] /\ tree[p] \in VakaOnly =>
    rows[u][p].tracked /\ tree[p] = rows[u][p].final

ProgressInv ==
  \A u \in Updaters : pc[u] \in Window \union {"synced"} => \A p \in Paths : Progress(u, p)

RecoveryInv == Inv /\ FeasibleInv /\ Calmly /\ ExplainedInv /\ ProgressInv

\* What is there, in particular.
LEMMA SeenIsRecorded ==
  ASSUME ExplainedInv, NEW p \in Paths, tree[p] \in VakaOnly
  PROVE  tree[p] \in RecordedAt(p)
<1>1. lock \in Locks /\ journal \in Journals /\ tree[p] \in Found(p)
  BY DEF Locks, Journals, Found, Lasting
<1>2. RecordedBy(lock, journal, p) = RecordedAt(p)
  BY DEF RecordedBy, RecordedAt
<1> QED
  BY <1>1, <1>2 DEF ExplainedInv

LEMMA NothingNewIsExplained ==
  ASSUME ExplainedInv, NothingNew
  PROVE  ExplainedInv'
<1> SUFFICES ASSUME NEW l \in Locks', NEW j \in Journals', NEW p \in Paths,
                    NEW entry \in Found(p)', entry \in VakaOnly
             PROVE  entry \in RecordedBy(l, j, p)
  BY DEF ExplainedInv, RecordedBy, Recorded, Pending, Committed, VakaOnly
<1>1. l \in Locks /\ entry \in Found(p)
  BY DEF NothingNew
<1>2. CASE j \in Journals
  BY <1>1, <1>2 DEF ExplainedInv
<1>3. CASE j \notin Journals
  <2>1. ~ Pending(j, l) /\ ~ Pending(journal, l)
    BY <1>1, <1>3 DEF NothingNew
  <2>2. entry \in RecordedBy(l, journal, p)
    BY <1>1 DEF ExplainedInv, Journals, Lasting
  <2> QED
    BY <2>1, <2>2 DEF RecordedBy
<1> QED
  BY <1>2, <1>3

\* What was recorded, and what is there, is in the journal that is written.
LEMMA WriteJournalIsExplained ==
  ASSUME RecoveryInv, NEW u \in Updaters, WriteJournal(u)
  PROVE  ExplainedInv'
<1> USE DEF RecoveryInv
<1>1. /\ pc[u] = "prechecked" /\ Pending(JournalOf(u), lock)
      /\ Locks = {lock} /\ Locks' = {lock}
      /\ \A p \in Paths : Found(p) = {tree[p]} /\ Found(p)' = {tree[p]}
      /\ \A j \in Journals' : j = JournalOf(u) \/ j \in Journals
      /\ \A p \in Paths : JournalOf(u).plan[p] = EntryOfRow(rows[u][p])
  BY Writing
<1>2. \A p \in Paths : RowSound(u, p) /\ Extends(u, p) /\ Progress(u, p)
  BY <1>1 DEF Inv, EditsInv, HolderInv, ProgressInv, Window
<1>3. ASSUME NEW p \in Paths, tree[p] \in VakaOnly
      PROVE  tree[p] \in RecordedBy(lock, JournalOf(u), p)
  <2>1. tree[p] \in RecordedAt(p)
    BY <1>3, SeenIsRecorded
  <2>2. rows[u][p] \in Row /\ ~ (rows[u][p].action = "none" /\ ~ rows[u][p].tracked)
    BY <1>2, <1>3 DEF Progress, RowSound, Inv, IInv, TypeOK
  <2>3. tree[p] \in rows[u][p].accepted
    BY <1>2, <2>1 DEF Extends
  <2>4. /\ EntryOfRow(rows[u][p]) # NoEntry
        /\ EntryOfRow(rows[u][p]) = [accepted |-> rows[u][p].accepted,
                                     final |-> rows[u][p].final]
    BY <2>2, EntryIsNotNone
  <2> QED
    BY <1>1, <2>3, <2>4 DEF RecordedBy, Recorded
<1>4. \A j \in Journals' : \A p \in Paths :
        tree[p] \in VakaOnly => tree[p] \in RecordedBy(lock, j, p)
  BY <1>1, <1>3 DEF ExplainedInv
<1> QED
  BY <1>1, <1>4 DEF ExplainedInv, RecordedBy, Recorded, Pending, Committed, VakaOnly

\* A put leaves what its row tracks, a removal nothing.
LEMMA AppliedEntry ==
  ASSUME Inv, NEW u \in Updaters, NEW p \in Paths, Apply(u, p)
  PROVE  \E entry : Finish(u, p, entry) /\ (entry \in VakaOnly =>
           rows[u][p].tracked /\ entry = rows[u][p].final)
<1>1. CASE ApplyPut(u, p)
  <2>1. pc[u] = "applying" /\ Finish(u, p, Published[staging][p]) /\ rows[u][p].action = "put"
    BY <1>1 DEF ApplyPut, Finish
  <2>2. staging = want[u]
    BY <2>1 DEF Inv, IInv, HolderOwnsDirectory, Holding, Idle, Window
  <2>3. RowSound(u, p)
    BY <2>1 DEF Inv, EditsInv, HolderInv, Window
  <2> QED
    BY <2>1, <2>2, <2>3 DEF RowSound
<1>2. CASE ApplyDelete(u, p)
  BY <1>2, SentinelsAssumption DEF ApplyDelete, VakaOnly
<1> QED
  BY <1>1, <1>2 DEF Apply

\* The path holds its final state, which the journal names.
LEMMA ApplyIsExplained ==
  ASSUME RecoveryInv, NEW u \in Updaters, NEW p \in Paths, Apply(u, p)
  PROVE  ExplainedInv'
<1> USE DEF RecoveryInv
<1>1. PICK entry : Finish(u, p, entry) /\ (entry \in VakaOnly =>
        rows[u][p].tracked /\ entry = rows[u][p].final)
  BY AppliedEntry
<1>2. /\ pc[u] = "applying" /\ Pending(JournalOf(u), lock)
      /\ Locks = {lock} /\ Locks' = {lock}
      /\ Journals = {JournalOf(u)} /\ Journals' = {JournalOf(u)}
      /\ \A q \in Paths \ {p} : Found(q)' = Found(q)
      /\ Found(p)' \subseteq Found(p) \union {entry}
      /\ JournalOf(u).plan[p] = EntryOfRow(rows[u][p])
  BY <1>1, Applying
<1>3. entry \in VakaOnly => entry \in RecordedBy(lock, JournalOf(u), p)
  <2>1. rows[u][p] \in Row
    BY DEF Inv, IInv, TypeOK
  <2>2. rows[u][p].tracked => /\ EntryOfRow(rows[u][p]) # NoEntry
                              /\ EntryOfRow(rows[u][p]).final = rows[u][p].final
    BY <2>1, EntryIsNotNone
  <2> QED
    BY <1>1, <1>2, <2>2 DEF RecordedBy, Recorded
<1>4. \A q \in Paths : \A e \in Found(q)' :
        e \in VakaOnly => e \in RecordedBy(lock, JournalOf(u), q)
  BY <1>2, <1>3 DEF ExplainedInv
<1> QED
  BY <1>2, <1>4 DEF ExplainedInv, RecordedBy, Recorded, Pending, Committed, VakaOnly

\* With every operation done, the directory is the new lock's.
LEMMA CommitIsExplained ==
  ASSUME RecoveryInv, NEW u \in Updaters, CommitLock(u)
  PROVE  ExplainedInv'
<1> USE DEF RecoveryInv
<1>1. /\ pc[u] = "synced" /\ todo[u] = {} /\ ~ Pending(JournalOf(u), next[u])
      /\ Locks = {lock} /\ \A l \in Locks' : l = next[u] \/ l = lock
      /\ Journals = {JournalOf(u)} /\ Journals' = {JournalOf(u)}
      /\ \A p \in Paths : Found(p) = {tree[p]} /\ Found(p)' = {tree[p]}
  BY Committing
<1>2. ASSUME NEW p \in Paths, tree[p] \in VakaOnly
      PROVE  tree[p] \in RecordedBy(next[u], JournalOf(u), p)
  <2>1. RowSound(u, p) /\ Progress(u, p)
    BY <1>1 DEF Inv, EditsInv, HolderInv, ProgressInv
  <2>2. tree[p] = next[u].files[p] /\ tree[p] # Absent
    BY <1>1, <1>2, <2>1, SentinelsAssumption DEF RowSound, Progress, VakaOnly
  <2> QED
    BY <1>1, <2>2 DEF RecordedBy, Recorded
<1>3. ASSUME NEW l \in Locks', NEW p \in Paths, tree[p] \in VakaOnly
      PROVE  tree[p] \in RecordedBy(l, JournalOf(u), p)
  <2>1. CASE l = next[u]
    BY <1>2, <1>3, <2>1
  <2>2. CASE l = lock
    BY <1>1, <1>3, <2>2 DEF ExplainedInv
  <2> QED
    BY <1>1, <2>1, <2>2
<1> QED
  BY <1>1, <1>3 DEF ExplainedInv, RecordedBy, Recorded, Pending, Committed, VakaOnly

\* What the user writes is not vaka's alone.
LEMMA UserWritesIsExplained ==
  ASSUME RecoveryInv, NEW q \in Paths, NEW content \in UserEntries, UserWrites(q, content)
  PROVE  ExplainedInv'
<1> USE DEF RecoveryInv
<1>1. /\ tree' = [tree EXCEPT ![q] = content] /\ dTree' = [dTree EXCEPT ![q] = content]
      /\ lock' = lock /\ journal' = journal /\ dLock' = dLock /\ dJournal' = dJournal
  BY DEF UserWrites
<1>2. Locks' = Locks /\ Journals' = Journals
  BY <1>1 DEF Locks, Journals, Lasting
<1>3. \A p \in Paths \ {q} : Found(p)' = Found(p)
  BY <1>1 DEF Found, Lasting, Inv, IInv, TypeOK
<1>4. Found(q)' = {content}
  BY <1>1 DEF Found, Lasting, Inv, IInv, TypeOK
<1>5. ASSUME NEW l \in Locks', NEW j \in Journals', NEW p \in Paths,
             NEW entry \in Found(p)', entry \in VakaOnly
      PROVE  entry \in RecordedBy(l, j, p)
  BY <1>2, <1>3, <1>4, <1>5 DEF ExplainedInv, VakaOnly
<1> QED
  BY <1>5 DEF ExplainedInv, RecordedBy, Recorded, Pending, Committed, VakaOnly

\* A plan leaves nothing undone but what it lists.
LEMMA PrecheckIsProgress ==
  ASSUME RecoveryInv, NEW u \in Updaters, Precheck(u)
  PROVE  \A p \in Paths : Progress(u, p)'
<1> USE DEF RecoveryInv
<1> DEFINE plan == BuildPlan(base[u], inherited[u], want[u])
<1>1. /\ pc[u] = "staged" /\ tree' = tree
      /\ rows'[u] = plan /\ todo'[u] = Operations(plan)
  BY DEF Precheck, Step, files, Inv, IInv, TypeOK
<1>2. ASSUME NEW p \in Paths, p \notin todo'[u], tree[p] \in VakaOnly
      PROVE  plan[p].tracked /\ tree[p] = plan[p].final
  <2>1. tree[p] \in RecordedAt(p)
    BY <1>2, SeenIsRecorded
  <2>2. DiskState(tree[p]) = tree[p] /\ tree[p] # Absent
    BY <1>2, ContentIsRead DEF VakaOnly
  <2>3. /\ plan[p].final = Published[want[u]][p]
        /\ plan[p].action \notin {"put", "delete"} /\ DiskState(tree[p]) # Absent
             /\ DiskState(tree[p]) \in RecordedAt(p)
             => plan[p].tracked /\ DiskState(tree[p]) = Published[want[u]][p]
    BY <1>1, PlanIsSound
  <2> HIDE DEF plan
  <2>4. plan[p].action \notin {"put", "delete"}
    BY <1>1, <1>2 DEF Operations
  <2> QED
    BY <2>1, <2>2, <2>3, <2>4
<1> HIDE DEF plan
<1> QED
  BY <1>1, <1>2 DEF Progress

\* Nothing is undone, and the user's writes do not count.
LEMMA StepIsProgress ==
  ASSUME RecoveryInv, [Next]_vars
  PROVE  ProgressInv'
<1> USE DEF RecoveryInv, Inv, IInv
<1>1. CASE \E u \in Updaters : Precheck(u)
  <2>1. PICK u \in Updaters : Precheck(u)
    BY <1>1
  <2>2. \A v \in Updaters : v # u => pc'[v] \in Idle
    BY <2>1, OthersAreIdle DEF Precheck, Step, TypeOK, Holding, Idle
  <2> QED
    BY <2>1, <2>2, PrecheckIsProgress DEF ProgressInv, Idle, Window
<1>2. CASE \E u \in Updaters, p \in Paths : Apply(u, p)
  <2>1. PICK u \in Updaters, p \in Paths : Apply(u, p)
    BY <1>2
  <2>2. PICK entry : Finish(u, p, entry) /\ (entry \in VakaOnly =>
          rows[u][p].tracked /\ entry = rows[u][p].final)
    BY <2>1, AppliedEntry
  <2>3. /\ pc[u] = "applying" /\ pc' = pc /\ rows' = rows
        /\ tree' = [tree EXCEPT ![p] = entry] /\ todo' = [todo EXCEPT ![u] = @ \ {p}]
    BY <2>2 DEF Finish
  <2>4. \A q \in Paths : Progress(u, q)'
    BY <2>2, <2>3 DEF ProgressInv, Progress, Window, TypeOK, VakaOnly
  <2>5. \A v \in Updaters : v # u => pc'[v] \in Idle
    BY <2>3, OthersAreIdle DEF Holding, Idle
  <2> QED
    BY <2>4, <2>5 DEF ProgressInv, Idle, Window
<1>3. CASE \E p \in Paths, entry \in UserEntries : UserWrites(p, entry)
  <2>1. PICK p \in Paths, entry \in UserEntries : UserWrites(p, entry)
    BY <1>3
  <2>2. pc' = pc /\ rows' = rows /\ todo' = todo /\ tree' = [tree EXCEPT ![p] = entry]
    BY <2>1 DEF UserWrites, locals
  <2> QED
    BY <2>2 DEF ProgressInv, Progress, TypeOK, VakaOnly
<1>4. CASE PowerLoss
  BY <1>4 DEF PowerLoss, ProgressInv, Window
<1>5. ASSUME tree' = tree,
             \A v \in Updaters : pc'[v] \in Window \union {"synced"} =>
               /\ pc[v] \in Window \union {"synced"}
               /\ rows'[v] = rows[v] /\ todo'[v] = todo[v]
      PROVE  ProgressInv'
  BY <1>5 DEF ProgressInv, Progress, VakaOnly
<1>6. CASE \E u \in Updaters :
             \/ \E r \in Releases : Check(u, r)
             \/ Acquire(u) \/ UpdateInProgress(u) \/ Recover(u) \/ RefuseStrayJournal(u)
             \/ ClearStaging(u) \/ Stage(u) \/ RefusePlan(u) \/ NothingToDo(u)
  BY <1>5, <1>6 DEF Check, Acquire, UpdateInProgress, Recover, RefuseStrayJournal,
     ClearStaging, Stage, RefusePlan, NothingToDo, Step, Exit, TypeOK, files, locals, Window
<1>7. CASE \E u \in Updaters :
             \/ WriteJournal(u) \/ SyncJournal(u) \/ SyncTree(u) \/ CommitLock(u)
             \/ SyncCommit(u) \/ Cleanup(u) \/ DropStaging(u) \/ SyncCleanup(u)
             \/ Interrupted(u) \/ \E p \in Paths : ApplyFails(u, p)
  BY <1>5, <1>7 DEF WriteJournal, SyncJournal, SyncTree, CommitLock, SyncCommit, Cleanup,
     DropStaging, SyncCleanup, Interrupted, ApplyFails, Step, Exit, TypeOK, files, locals, Window
<1>8. CASE \/ RemoveStrayJournal \/ \E j \in StrayJournals : CopyStrayJournal(j)
           \/ UNCHANGED vars
  BY <1>5, <1>8 DEF RemoveStrayJournal, CopyStrayJournal, vars, files, locals
<1> QED
  BY <1>1, <1>2, <1>3, <1>4, <1>6, <1>7, <1>8 DEF Next, Proceed, Environment, Apply

LEMMA StepKeepsRecovery ==
  ASSUME Gentle, RecoveryInv, [Next]_vars
  PROVE  RecoveryInv'
<1> USE DEF RecoveryInv
<1>1. Inv' /\ FeasibleInv'
  BY StepIsSound, StepKeepsFeasible DEF Inv
<1>2. Calmly'
  BY StepKeepsCalm DEF Inv
<1>3. ExplainedInv'
  BY StepIsNothingNew, NothingNewIsExplained, WriteJournalIsExplained, ApplyIsExplained,
     CommitIsExplained, UserWritesIsExplained
<1>4. ProgressInv'
  BY StepIsProgress
<1> QED
  BY <1>1, <1>2, <1>3, <1>4

LEMMA InitIsRecovered == Init => RecoveryInv
<1> SUFFICES ASSUME Init PROVE RecoveryInv
  OBVIOUS
<1>1. Inv /\ FeasibleInv /\ Calmly
  BY InitIsSound, InitIsFeasible, InitIsCalm
<1>2. /\ lock.files = tree /\ dLock = lock /\ dTree = tree /\ journal = None
      /\ dJournal = None /\ \A u \in Updaters : pc[u] = "idle"
  BY DEF Init
<1>3. Locks = {lock} /\ Journals = {None} /\ \A p \in Paths : Found(p) = {lock.files[p]}
  BY <1>2 DEF Locks, Journals, Found, Lasting
<1>4. ExplainedInv
  BY <1>3, SentinelsAssumption DEF ExplainedInv, RecordedBy, Recorded, Pending, VakaOnly
<1>5. ProgressInv
  BY <1>2 DEF ProgressInv, Window
<1> QED
  BY <1>1, <1>4, <1>5 DEF RecoveryInv

\* However often updates are interrupted and whatever release the next one targets,
\* every file only vaka can have written is one the lock or a pending journal
\* records: no update blocks on, or orphans, what an earlier one left half-done.
\* Where the power fails, nothing else may interrupt an update: what it leaves
\* then is not synced by the next one, and may be undone after the commit.
THEOREM HalfAppliedAlwaysRecorded ==
  ASSUME "power" \in Failures => "kill" \notin Failures /\ UserEntries \subseteq Contents
  PROVE  Spec => []HalfAppliedIsRecorded
<1>1. Gentle
  BY DEF Gentle
<1>2. RecoveryInv /\ [Next]_vars => RecoveryInv'
  BY <1>1, StepKeepsRecovery
<1>3. RecoveryInv => HalfAppliedIsRecorded
  BY SeenIsRecorded DEF RecoveryInv, HalfAppliedIsRecorded, VakaOnly
<1> QED
  BY <1>2, <1>3, InitIsRecovered, PTL DEF Spec

-----------------------------------------------------------------------------
(* The transaction as one step.  In a directory the user leaves alone, the *)
(* recipe is at each moment the release of the installed lock: what is     *)
(* half-applied is what the pending journal accepts, and without one the   *)
(* directory holds what the lock says.  Power losses count here, so this   *)
(* is stated of whatever a power loss may leave; but not together with     *)
(* kills, after which a commit is not always durable.                      *)

\* A path may hold this with this lock and this journal.
Fits(l, j, p, entry) ==
  IF Pending(j, l)
  THEN entry = Absent \/ entry \in Recorded(l.files[p], j.plan[p])
  ELSE entry = l.files[p]

WholeInv ==
  \A l \in Locks, p \in Paths :
    /\ l.files[p] = Published[l.release][p]
    /\ \A j \in Journals : \A entry \in Found(p) : Fits(l, j, p, entry)

\* What the update plans for a path, and that it is done unless it is left to do.
Heads(u, p) ==
  LET new == Published[want[u]][p] IN
  /\ rows[u][p].final = new /\ next[u].files[p] = new
  /\ rows[u][p].action = "delete" => new = Absent
  /\ p \notin todo[u] => tree[p] = new

\* The journal an update will write covers the path.
Covers(u, p) ==
  tree[p] = Absent \/ tree[p] \in Recorded(lock.files[p], EntryOfRow(rows[u][p]))

Course(u) ==
  /\ pc[u] \in Window \union {"synced"} =>
       next[u].release = want[u] /\ \A p \in Paths : Heads(u, p)
  /\ pc[u] = "prechecked" => \A p \in Paths : Covers(u, p)

SwitchInv ==
  /\ Inv /\ FeasibleInv /\ Calmly
  /\ WholeInv /\ \A u \in Updaters : Course(u)

\* Of a path that is not the user's, the matrix makes what the release ships.
LEMMA MatrixWithoutEdits ==
  ASSUME NEW old \in State, NEW kept \in BOOLEAN,
         NEW known \in PlanEntry \union {NoEntry},
         NEW disk \in State, NEW new \in State,
         disk = Absent \/ disk \in Recorded(old, known)
  PROVE  LET row == RowOf(old, kept, known, disk, new)
         IN  /\ row.final = new
             /\ row.tracked = (new # Absent)
             /\ row.action = "delete" => new = Absent
             /\ row.action \notin {"put", "delete"} => disk = new
             /\ disk = Absent \/ disk \in Recorded(old, EntryOfRow(row))
<1> DEFINE row == RowOf(old, kept, known, disk, new)
<1>1. ~ UserOwned(old, known, disk, new)
  BY DEF UserOwned, Owned
<1>2. /\ row.final = new /\ row.tracked = (new # Absent)
      /\ row.action = ActionOf(old, known, disk, new)
      /\ row.accepted = AcceptedList(old, known, disk, new)
  BY <1>1 DEF RowOf
<1>3. /\ row.action = "delete" => new = Absent
      /\ row.action \notin {"put", "delete"} => disk = new
  BY <1>1, <1>2 DEF ActionOf, Installs, Removes, UserOwned
<1>4. ASSUME disk # Absent
      PROVE  disk \in Recorded(old, EntryOfRow(row))
  <2>1. disk \in row.accepted
    BY <1>2, <1>4 DEF AcceptedList
  <2>2. row.action # "none" \/ row.tracked
    BY <1>2, <1>3, <1>4
  <2>3. row \in Row
    BY RowType
  <2> HIDE DEF row
  <2>4. /\ EntryOfRow(row) # NoEntry
        /\ EntryOfRow(row).accepted = row.accepted
    BY <2>2, <2>3, EntryIsNotNone
  <2> QED
    BY <2>1, <2>4 DEF Recorded
<1> QED
  BY <1>2, <1>3, <1>4

\* What an entry may accept is a state.
LEMMA RecordedAreStates ==
  ASSUME TypeOK, NEW p \in Paths
  PROVE  RecordedAt(p) \subseteq State
<1>1. lock \in Lock /\ lock.files[p] \in State
  BY DEF TypeOK, Lock
<1>2. Pending(journal, lock) => journal.plan[p] \in PlanEntry \union {NoEntry}
  BY <1>1, PendingIsOwn DEF TypeOK, Journal
<1> QED
  BY <1>1, <1>2 DEF RecordedAt, Recorded, PlanEntry

-----------------------------------------------------------------------------
(* The directory stays whole: one lemma per kind of step. *)

LEMMA NothingNewIsWhole ==
  ASSUME WholeInv, NothingNew
  PROVE  WholeInv'
<1>1. journal \in Journals
  BY DEF Journals, Lasting
<1>2. ASSUME NEW l \in Locks', NEW p \in Paths
      PROVE  l.files[p] = Published[l.release][p]
  BY <1>2 DEF WholeInv, NothingNew
<1>3. ASSUME NEW l \in Locks', NEW p \in Paths, NEW j \in Journals', NEW entry \in Found(p)'
      PROVE  Fits(l, j, p, entry)
  <2>1. l \in Locks /\ entry \in Found(p)
    BY DEF NothingNew
  <2>2. CASE j \in Journals
    BY <2>1, <2>2 DEF WholeInv
  <2>3. CASE j \notin Journals
    <3>1. ~ Pending(j, l) /\ ~ Pending(journal, l)
      BY <2>1, <2>3 DEF NothingNew
    <3>2. Fits(l, journal, p, entry)
      BY <1>1, <2>1 DEF WholeInv
    <3> QED
      BY <3>1, <3>2 DEF Fits
  <2> QED
    BY <2>2, <2>3
<1> QED
  BY <1>2, <1>3 DEF WholeInv, Fits, Pending, Committed, Recorded

\* The journal is written: it covers what is there.
LEMMA WriteJournalIsWhole ==
  ASSUME SwitchInv, NEW u \in Updaters, WriteJournal(u)
  PROVE  WholeInv'
<1> USE DEF SwitchInv
<1>1. /\ pc[u] = "prechecked" /\ Pending(JournalOf(u), lock)
      /\ Locks = {lock} /\ Locks' = {lock}
      /\ \A p \in Paths : Found(p) = {tree[p]} /\ Found(p)' = {tree[p]}
      /\ \A j \in Journals' : j = JournalOf(u) \/ j \in Journals
      /\ \A p \in Paths : JournalOf(u).plan[p] = EntryOfRow(rows[u][p])
  BY Writing
<1>2. \A p \in Paths : Fits(lock, JournalOf(u), p, tree[p])
  BY <1>1 DEF Course, Fits, Covers
<1>3. /\ \A p \in Paths : lock.files[p] = Published[lock.release][p]
      /\ \A p \in Paths, j \in Journals : Fits(lock, j, p, tree[p])
  BY <1>1 DEF WholeInv
<1>4. \A p \in Paths : \A j \in Journals' : Fits(lock, j, p, tree[p])
  BY <1>1, <1>2, <1>3
<1> QED
  BY <1>1, <1>3, <1>4 DEF WholeInv, Fits, Pending, Committed, Recorded

\* A path gets what the release ships.
LEMMA ApplyMakesNew ==
  ASSUME SwitchInv, NEW u \in Updaters, NEW p \in Paths, Apply(u, p)
  PROVE  /\ Finish(u, p, Published[want[u]][p])
         /\ rows[u][p].action \in {"put", "delete"}
<1>1. pc[u] = "applying"
  BY DEF Apply, ApplyPut, ApplyDelete, Finish
<1>2. staging = want[u]
  BY <1>1 DEF SwitchInv, Inv, IInv, HolderOwnsDirectory, Holding, Idle, Window
<1>3. Heads(u, p)
  BY <1>1 DEF SwitchInv, Course, Window
<1> QED
  BY <1>2, <1>3 DEF Apply, ApplyPut, ApplyDelete, Heads

\* The new state of a path that is applied is in the journal.
LEMMA ApplyIsWhole ==
  ASSUME SwitchInv, NEW u \in Updaters, NEW p \in Paths, Apply(u, p)
  PROVE  WholeInv'
<1> USE DEF SwitchInv
<1> DEFINE new == Published[want[u]][p]
<1>1. Finish(u, p, new) /\ rows[u][p].action \in {"put", "delete"}
  BY ApplyMakesNew
<1> HIDE DEF new
<1>2. /\ pc[u] = "applying" /\ Pending(JournalOf(u), lock)
      /\ Locks = {lock} /\ Locks' = {lock}
      /\ Journals = {JournalOf(u)} /\ Journals' = {JournalOf(u)}
      /\ \A q \in Paths \ {p} : Found(q)' = Found(q)
      /\ Found(p)' \subseteq Found(p) \union {new}
      /\ JournalOf(u).plan[p] = EntryOfRow(rows[u][p])
  BY <1>1, Applying
<1>3. Fits(lock, JournalOf(u), p, new)
  <2>1. rows[u][p] \in Row /\ rows[u][p].final = new
    BY <1>2 DEF Inv, IInv, TypeOK, Course, Heads, Window, new
  <2>2. EntryOfRow(rows[u][p]) # NoEntry /\ EntryOfRow(rows[u][p]).final = new
    BY <1>1, <2>1, EntryIsNotNone
  <2> QED
    BY <1>2, <2>2 DEF Fits, Recorded
<1>4. /\ \A q \in Paths : lock.files[q] = Published[lock.release][q]
      /\ \A q \in Paths : \A entry \in Found(q) : Fits(lock, JournalOf(u), q, entry)
  BY <1>2 DEF WholeInv
<1>5. \A q \in Paths : \A entry \in Found(q)' : Fits(lock, JournalOf(u), q, entry)
  BY <1>2, <1>3, <1>4
<1>6. ASSUME NEW l \in Locks', NEW q \in Paths
      PROVE  /\ l.files[q] = Published[l.release][q]
             /\ \A j \in Journals' : \A entry \in Found(q)' : Fits(l, j, q, entry)
  BY <1>2, <1>4, <1>5
<1> QED
  BY <1>6 DEF WholeInv, Fits, Pending, Committed, Recorded

\* The lock moves when nothing is left to do.
LEMMA CommitIsWhole ==
  ASSUME SwitchInv, NEW u \in Updaters, CommitLock(u)
  PROVE  WholeInv'
<1> USE DEF SwitchInv
<1>1. /\ pc[u] = "synced" /\ todo[u] = {} /\ ~ Pending(JournalOf(u), next[u])
      /\ Locks = {lock} /\ \A l \in Locks' : l = next[u] \/ l = lock
      /\ Journals = {JournalOf(u)} /\ Journals' = {JournalOf(u)}
      /\ \A p \in Paths : Found(p) = {tree[p]} /\ Found(p)' = {tree[p]}
  BY Committing
<1>2. next[u].release = want[u] /\ \A p \in Paths : Heads(u, p)
  BY <1>1 DEF Course
<1>3. \A p \in Paths : /\ next[u].files[p] = Published[next[u].release][p]
                       /\ Fits(next[u], JournalOf(u), p, tree[p])
  BY <1>1, <1>2 DEF Heads, Fits
<1>4. \A p \in Paths : /\ lock.files[p] = Published[lock.release][p]
                       /\ Fits(lock, JournalOf(u), p, tree[p])
  BY <1>1 DEF WholeInv
<1>5. ASSUME NEW l \in Locks', NEW p \in Paths
      PROVE  /\ l.files[p] = Published[l.release][p]
             /\ \A j \in Journals' : \A entry \in Found(p)' : Fits(l, j, p, entry)
  <2>1. l = next[u] \/ l = lock
    BY <1>1
  <2>2. /\ \A j \in Journals' : j = JournalOf(u)
        /\ \A entry \in Found(p)' : entry = tree[p]
    BY <1>1
  <2> QED
    BY <1>3, <1>4, <2>1, <2>2
<1> QED
  BY <1>5 DEF WholeInv, Fits, Pending, Committed, Recorded

-----------------------------------------------------------------------------
(* The update stays on course: one lemma per kind of step. *)

\* What a process knows is kept by what leaves alone what it knows about.
LEMMA CourseFrame ==
  ASSUME NEW v \in Updaters, Course(v), pc'[v] = pc[v],
         tree' = tree, lock' = lock, want'[v] = want[v], rows'[v] = rows[v],
         next'[v] = next[v], todo'[v] = todo[v]
  PROVE  Course(v)'
<1>1. \A p \in Paths : Heads(v, p) => Heads(v, p)'
  BY DEF Heads
<1>2. \A p \in Paths : Covers(v, p) => Covers(v, p)'
  BY DEF Covers, Recorded, EntryOfRow
<1> QED
  BY <1>1, <1>2 DEF Course

\* The pre-check plans the whole release, since nothing there is the user's.
LEMMA PrecheckOnCourse ==
  ASSUME SwitchInv, NEW u \in Updaters, Precheck(u)
  PROVE  Course(u)'
<1> DEFINE plan == BuildPlan(base[u], inherited[u], want[u])
<1>1. /\ pc[u] = "staged" /\ pc'[u] = "prechecked" /\ Holding(u)
      /\ base[u] = lock /\ lock \in Lock /\ want[u] \in Releases
      /\ inherited[u] \in Journal \union {None}
      /\ tree \in [Paths -> DirEntry]
  BY DEF Precheck, Step, SwitchInv, Inv, IInv, TypeOK, HolderOwnsDirectory, LocalsSet, Holding,
     Idle, Installed
<1>2. /\ tree' = tree /\ lock' = lock /\ journal' = journal
      /\ want' = want /\ base' = base /\ inherited' = inherited
  BY DEF Precheck, files
<1>3. journal = inherited[u] /\ (journal = None \/ Pending(journal, lock))
  BY <1>1 DEF SwitchInv, Inv, EditsInv, HolderInv
<1>4. PICK g \in FreshGenerations :
        /\ rows'[u] = plan
        /\ next'[u] = NewLock(want[u], g, plan)
        /\ todo'[u] = Operations(plan)
  BY DEF Precheck, SwitchInv, Inv, IInv, TypeOK
<1>5. next'[u].release = want[u]
  BY <1>4 DEF NewLock
<1>6. ASSUME NEW p \in Paths
      PROVE  Heads(u, p)' /\ Covers(u, p)'
  <2> DEFINE old == base[u].files[p]
             kept == p \in base[u].kept
             known == EntryFor(inherited[u], p)
             new == Published[want[u]][p]
  <2>1. tree[p] = Absent \/ tree[p] \in RecordedAt(p)
    <3>1. Fits(lock, journal, p, tree[p])
      BY DEF SwitchInv, WholeInv, Locks, Journals, Found, Lasting
    <3> QED
      BY <3>1 DEF Fits, RecordedAt, Recorded
  <2>2. tree[p] \in State /\ DiskState(tree[p]) = tree[p]
    BY <2>1, RecordedAreStates, SentinelsAssumption DEF State, SwitchInv, Inv, IInv, DiskState
  <2>3. /\ old \in State /\ known \in PlanEntry \union {NoEntry} /\ new \in State
        /\ kept \in BOOLEAN
    <3>1. old \in State
      BY <1>1 DEF Lock
    <3>2. known \in PlanEntry \union {NoEntry}
      BY <1>1 DEF EntryFor, Journal
    <3>3. new \in State
      BY <1>1, PublishedAssumption
    <3> QED
      BY <3>1, <3>2, <3>3
  <2>4. tree[p] = Absent \/ tree[p] \in Recorded(old, known)
    BY <1>1, <1>3, <2>1, InheritedIsRecorded
  <2>5. plan[p] = RowOf(old, kept, known, tree[p], new)
    BY <2>2 DEF BuildPlan
  <2>6. /\ plan[p].final = new
        /\ plan[p].tracked = (new # Absent)
        /\ plan[p].action = "delete" => new = Absent
        /\ plan[p].action \notin {"put", "delete"} => tree[p] = new
        /\ tree[p] = Absent \/ tree[p] \in Recorded(old, EntryOfRow(plan[p]))
    <3> DEFINE row == RowOf(old, kept, known, tree[p], new)
    <3>1. /\ row.final = new
          /\ row.tracked = (new # Absent)
          /\ row.action = "delete" => new = Absent
          /\ row.action \notin {"put", "delete"} => tree[p] = new
          /\ tree[p] = Absent \/ tree[p] \in Recorded(old, EntryOfRow(row))
      <4> HIDE DEF old, known, new, kept
      <4> QED
        BY <2>2, <2>3, <2>4, MatrixWithoutEdits
    <3> QED
      BY <2>5, <3>1
  <2>7. next'[u].files[p] = IF plan[p].tracked THEN new ELSE Absent
    BY <1>4 DEF NewLock
  <2>8. p \notin todo'[u] => plan[p].action \notin {"put", "delete"}
    BY <1>4 DEF Operations
  <2>9. Heads(u, p)'
    BY <1>2, <1>4, <2>6, <2>7, <2>8 DEF Heads
  <2>10. Covers(u, p)'
    <3>1. tree'[p] = tree[p] /\ lock'.files[p] = old /\ rows'[u][p] = plan[p]
      BY <1>1, <1>2, <1>4
    <3> QED
      BY <2>6, <3>1 DEF Covers
  <2> QED
    BY <2>9, <2>10
<1> QED
  BY <1>1, <1>2, <1>5, <1>6 DEF Course, Window

\* Every step of the holder keeps it on course.
LEMMA ProceedOnCourse ==
  ASSUME SwitchInv, NEW u \in Updaters, Proceed(u)
  PROVE  Course(u)'
<1> USE DEF SwitchInv, Inv
<1>1. CASE Precheck(u)
  BY <1>1, PrecheckOnCourse
<1>2. CASE \/ Acquire(u) \/ UpdateInProgress(u) \/ Recover(u) \/ RefuseStrayJournal(u)
           \/ ClearStaging(u) \/ Stage(u) \/ RefusePlan(u) \/ NothingToDo(u)
           \/ CommitLock(u) \/ SyncCommit(u) \/ Cleanup(u) \/ DropStaging(u)
           \/ SyncCleanup(u) \/ \E p \in Paths : ApplyFails(u, p)
  <2>1. pc'[u] \notin Window \union {"synced"}
    BY <1>2 DEF Acquire, UpdateInProgress, Recover, RefuseStrayJournal, ClearStaging, Stage,
       RefusePlan, NothingToDo, CommitLock, SyncCommit, Cleanup, DropStaging, SyncCleanup,
       ApplyFails, Exit, Step, IInv, TypeOK, Window
  <2> QED
    BY <2>1 DEF Course, Window
<1>3. CASE WriteJournal(u) \/ SyncJournal(u) \/ SyncTree(u)
  <2>1. /\ pc[u] \in Window /\ pc'[u] \in {"journaled", "applying", "synced"}
        /\ tree' = tree /\ lock' = lock /\ want' = want /\ rows' = rows /\ next' = next
        /\ todo' = todo
    BY <1>3 DEF WriteJournal, SyncJournal, SyncTree, Step, IInv, TypeOK, files, locals, Window
  <2>2. \A p \in Paths : Heads(u, p)'
    BY <2>1 DEF Course, Heads
  <2> QED
    BY <2>1, <2>2 DEF Course, Window
<1>4. CASE \E p \in Paths : Apply(u, p)
  <2>1. PICK p \in Paths : Apply(u, p)
    BY <1>4
  <2>2. Finish(u, p, Published[want[u]][p])
    BY <2>1, ApplyMakesNew
  <2>3. /\ pc[u] = "applying" /\ pc' = pc /\ want' = want /\ rows' = rows
        /\ next' = next /\ todo'[u] = todo[u] \ {p}
        /\ tree'[p] = Published[want[u]][p]
        /\ \A q \in Paths \ {p} : tree'[q] = tree[q]
    BY <2>2 DEF Finish, IInv, TypeOK
  <2>4. \A q \in Paths : Heads(u, q)'
    BY <2>3 DEF Course, Heads, Window
  <2> QED
    BY <2>3, <2>4 DEF Course, Window
<1> QED
  BY <1>1, <1>2, <1>3, <1>4 DEF Proceed, Apply

\* So does it the others: they are outside the transaction, or nothing they know
\* of is touched.
LEMMA OthersOnCourse ==
  ASSUME SwitchInv, NEW u \in Updaters, NEW v \in Updaters, v # u,
         Proceed(u) \/ Interrupted(u) \/ \E r \in Releases : Check(u, r)
  PROVE  Course(v)'
<1> USE DEF SwitchInv, Inv
<1>1. CASE UpdateInProgress(u) \/ \E r \in Releases : Check(u, r)
  <2>1. /\ pc'[v] = pc[v] /\ tree' = tree /\ lock' = lock
        /\ want'[v] = want[v] /\ rows'[v] = rows[v]
        /\ next'[v] = next[v] /\ todo'[v] = todo[v]
    BY <1>1 DEF UpdateInProgress, Check, Step, IInv, TypeOK, files
  <2> QED
    BY <2>1, CourseFrame
<1>2. CASE ~ (UpdateInProgress(u) \/ \E r \in Releases : Check(u, r))
  <2>1. pc'[v] = pc[v] /\ (Holding(u) \/ flock = None)
    <3>1. CASE \/ Acquire(u) \/ Recover(u) \/ ClearStaging(u) \/ Stage(u) \/ Precheck(u)
               \/ WriteJournal(u) \/ SyncJournal(u) \/ SyncTree(u) \/ CommitLock(u)
               \/ SyncCommit(u) \/ Cleanup(u) \/ DropStaging(u)
      BY <3>1 DEF Acquire, Recover, ClearStaging, Stage, Precheck, WriteJournal, SyncJournal,
         SyncTree, CommitLock, SyncCommit, Cleanup, DropStaging, Step, IInv, TypeOK, Holding, Idle
    <3>2. CASE \/ RefuseStrayJournal(u) \/ RefusePlan(u) \/ NothingToDo(u) \/ SyncCleanup(u)
               \/ Interrupted(u) \/ \E p \in Paths : ApplyFails(u, p)
      BY <3>2 DEF RefuseStrayJournal, RefusePlan, NothingToDo, SyncCleanup, Interrupted,
         ApplyFails, Exit, IInv, TypeOK, Holding, Idle
    <3>3. CASE \E p \in Paths : ApplyPut(u, p) \/ ApplyDelete(u, p)
      BY <3>3 DEF ApplyPut, ApplyDelete, Finish, Holding, Idle
    <3> QED
      BY <1>2, <3>1, <3>2, <3>3 DEF Proceed
  <2>2. pc[v] \in Idle
    BY <2>1, OthersAreIdle, NoneAssumption DEF IInv, HolderOwnsDirectory, Holding
  <2> QED
    BY <2>1, <2>2 DEF Course, Idle, Window
<1> QED
  BY <1>1, <1>2

-----------------------------------------------------------------------------
\* Everything known stays known.
LEMMA StepKeepsSwitch ==
  ASSUME SwitchInv, UserEntries = {}, ~ ({"kill", "power"} \subseteq Failures), [Next]_vars
  PROVE  SwitchInv'
<1> USE DEF SwitchInv
<1>1. Inv' /\ FeasibleInv'
  BY StepIsSound, StepKeepsFeasible DEF Inv
<1>2. Calmly'
  <2>1. Gentle
    BY DEF Gentle
  <2> QED
    BY <2>1, StepKeepsCalm DEF Inv
<1>3. WholeInv'
  BY StepIsNothingNew, NothingNewIsWhole, WriteJournalIsWhole, CommitIsWhole, ApplyIsWhole
<1>4. ASSUME NEW v \in Updaters
      PROVE  Course(v)'
  <2>1. CASE \E u \in Updaters :
               Proceed(u) \/ Interrupted(u) \/ \E r \in Releases : Check(u, r)
    <3>1. PICK u \in Updaters :
               Proceed(u) \/ Interrupted(u) \/ \E r \in Releases : Check(u, r)
      BY <2>1
    <3>2. CASE v # u
      BY <3>1, <3>2, OthersOnCourse
    <3>3. CASE v = u
      <4>1. CASE Proceed(u)
        BY <3>3, <4>1, ProceedOnCourse
      <4>2. CASE Interrupted(u) \/ \E r \in Releases : Check(u, r)
        <5>1. pc'[u] \in Idle
          BY <4>2 DEF Interrupted, Check, Exit, Step, SwitchInv, Inv, IInv, TypeOK, Idle
        <5> QED
          BY <3>3, <5>1 DEF Course, Idle, Window
      <4> QED
        BY <3>1, <4>1, <4>2
    <3> QED
      BY <3>2, <3>3
  <2>2. CASE PowerLoss
    BY <2>2 DEF PowerLoss, Course, Window
  <2>3. CASE RemoveStrayJournal \/ \E j \in StrayJournals : CopyStrayJournal(j)
    <3>1. pc[v] \in Idle /\ pc' = pc
      BY <2>3, NoneAssumption DEF RemoveStrayJournal, CopyStrayJournal, SwitchInv, Inv, IInv,
         HolderOwnsDirectory, Holding
    <3> QED
      BY <3>1 DEF Course, Idle, Window
  <2>4. CASE UNCHANGED vars
    BY <2>4, CourseFrame DEF SwitchInv, vars, files, locals
  <2> QED
    BY <2>1, <2>2, <2>3, <2>4 DEF Next, Environment
<1> QED
  BY <1>1, <1>2, <1>3, <1>4 DEF SwitchInv

\* It holds of a fresh install.
LEMMA InitIsSwitch == Init => SwitchInv
<1> SUFFICES ASSUME Init PROVE SwitchInv
  OBVIOUS
<1>1. Inv /\ FeasibleInv /\ Calmly
  BY InitIsSound, InitIsFeasible, InitIsCalm
<1>3. /\ lock.files = Published[lock.release] /\ tree = lock.files
      /\ dLock = lock /\ dTree = tree /\ journal = None /\ dJournal = None
      /\ \A u \in Updaters : pc[u] = "idle"
  BY DEF Init
<1>4. Locks = {lock} /\ Journals = {None} /\ \A p \in Paths : Found(p) = {lock.files[p]}
  BY <1>3 DEF Locks, Journals, Found, Lasting
<1>5. WholeInv
  BY <1>3, <1>4 DEF WholeInv, Fits, Pending
<1>6. \A u \in Updaters : Course(u)
  BY <1>3 DEF Course, Window
<1> QED
  BY <1>1, <1>5, <1>6 DEF SwitchInv

\* What the next get will understand is the release of the lock.
LEMMA UnderstoodIsPublished ==
  ASSUME SwitchInv
  PROVE  lock.release \in Releases /\ Understood = Published[lock.release]
<1>1. lock.release \in Releases /\ Published[lock.release] \in [Paths -> State]
  BY PublishedAssumption DEF SwitchInv, Inv, IInv, TypeOK, Lock
<1>2. ASSUME NEW p \in Paths
      PROVE  Understood[p] = Published[lock.release][p]
  <2>1. /\ lock.files[p] = Published[lock.release][p]
        /\ Fits(lock, journal, p, tree[p])
    BY DEF SwitchInv, WholeInv, Locks, Journals, Found, Lasting
  <2> QED
    BY <2>1 DEF Understood, Fits
<1>3. Understood = [p \in Paths |-> Understood[p]]
  BY DEF Understood
<1> QED
  BY <1>1, <1>2, <1>3

\* In a directory the user leaves alone, with journals of other installations
\* coming and going, the whole transaction is one switch from release to
\* release, wherever it is killed, or else wherever the power fails, and
\* however many processes try (update.go, steps 1 to 7).
THEOREM AlwaysSwitchesAtomically ==
  ASSUME UserEntries = {}, ~ ({"kill", "power"} \subseteq Failures)
  PROVE  Spec => SwitchesAtomically
<1>1. Init => Atomic!Init
  BY InitIsSwitch, UnderstoodIsPublished DEF Atomic!Init
<1>2. ASSUME SwitchInv, [Next]_vars
      PROVE  [Atomic!Next]_<<lock.release, Understood>>
  <2>1. SwitchInv'
    BY <1>2, StepKeepsSwitch
  <2>2. lock.release \in Releases /\ Understood = Published[lock.release]
    BY <1>2, UnderstoodIsPublished
  <2>3. (lock.release \in Releases /\ Understood = Published[lock.release])'
    BY <2>1, UnderstoodIsPublished, PTL
  <2> QED
    BY <2>2, <2>3 DEF Atomic!Next, Atomic!Switch
<1>3. SwitchInv /\ [Next]_vars => SwitchInv'
  BY StepKeepsSwitch
<1>4. SwitchInv /\ [Next]_vars => [Atomic!Next]_<<lock.release, Understood>>
  BY <1>2
<1> QED
  BY <1>1, <1>3, <1>4, InitIsSwitch, PTL DEF Spec, SwitchesAtomically, Atomic!Spec

=============================================================================
