-------------------------- MODULE GitPreviewProofs --------------------------
(***************************************************************************)
(* For any commands, readers, commits and artifacts, with errors, kills    *)
(* and damage: a served index has its artifacts, a get's index keeps them  *)
(* for the grace period, the artifacts stay within their limit, and only   *)
(* kills leave temporary files.                                            *)
(***************************************************************************)
EXTENDS GitPreviewCache, FiniteSetTheorems, TLAPS

\* The stages at which a command holds the lock; those of a refresh before its
\* index is published, and those from which it knows the commit.
Locked == {"locked", "pruned", "packaging", "packaged", "touched", "writing", "written",
           "failing"}

Unpublished == {"pruned", "packaging", "packaged", "touched", "writing", "failing"}

Resolved == {"packaging", "packaged", "touched", "writing", "written"}

\* The lock excludes: its holder, if any, is the one command at a locked stage.
Excludes == \A c \in Commands : pc[c] \in Locked <=> flock = c

\* What a refresh knows: the artifacts of the index it found, which is still
\* there; its commit, of which everything but todo is in the cache; and that what
\* it created was not in the cache, so that no reader relied on it.
Knows(c) ==
  /\ pc[c] \in Resolved => commit[c] \in Commits
  /\ pc[c] \in {"pruned", "packaging", "packaged", "touched", "writing"} => old[c] = OldDigests
  /\ pc[c] \in {"packaging", "packaged", "touched", "writing"} =>
       \A d \in Ships[commit[c]] \ todo[c] : Available(d)
  /\ pc[c] \in {"touched", "writing"} =>
       todo[c] = {} /\ \A d \in old[c] : artifact[d].age = 0
  /\ pc[c] = "written" => index = commit[c] /\ ~ torn
  /\ pc[c] \in Unpublished =>
       \A d \in created[c] :
         /\ index # None /\ ~ torn /\ d \in Ships[index] => d \in damaged
         /\ \A r \in Readers :
              reader[r].index # None /\ d \in Ships[reader[r].index] => d \in damaged
  /\ pc[c] = "idle" => created[c] = {}
  /\ pc[c] \in {"loaded", "locked"} /\ Refreshing(c) => created[c] = {}

\* What a get relies on is there, and either kept by the index or no older than
\* the time the get has had it.
Relied(r) ==
  reader[r].index # None =>
    /\ ~ torn /\ index # None
    /\ \A d \in Ships[reader[r].index] :
         /\ Available(d)
         /\ d \in damaged \/ d \in Ships[index] \/ artifact[d].age <= reader[r].age

CacheInv ==
  /\ IndexComplete
  /\ \A c \in Commands : Knows(c)
  /\ \A r \in Readers : Relied(r)

IInv == TypeOK /\ Excludes /\ OnlyKillsLeaveFiles /\ CacheInv

-----------------------------------------------------------------------------
\* An empty cache relies on nothing.
LEMMA InitInv == Init => IInv
<1> SUFFICES ASSUME Init PROVE IInv
  OBVIOUS
<1>1. TypeOK
  <2>1. /\ Missing \in [age : Ages, content : {"missing", "good", "bad"}]
        /\ NoReader \in [index : Commits \union {None}, age : 0 .. Grace]
    BY BoundsAssumption DEF Ages, Missing, NoReader
  <2>. QED
    BY <2>1 DEF Init, TypeOK, Stages
<1>2. Excludes
  BY NoneAssumption DEF Init, Excludes, Locked
<1>3. CacheInv
  BY DEF Init, CacheInv, IndexComplete, Knows, Relied, NoReader, Locked, Unpublished,
     Resolved
<1>4. OnlyKillsLeaveFiles
  BY DEF Init, OnlyKillsLeaveFiles, Holding
<1> QED
  BY <1>1, <1>2, <1>3, <1>4 DEF IInv

\* The artifacts of a commit are artifacts.
LEMMA ShipsType == \A k \in Commits : Ships[k] \subseteq Digests
BY ShipsAssumption

\* Pruning yields a store of artifacts.
LEMMA PruneType ==
  ASSUME TypeOK, NEW keep
  PROVE  Prune(keep) \in [Digests -> [age : Ages, content : {"missing", "good", "bad"}]]
BY BoundsAssumption DEF TypeOK, Prune, Missing, Ages

\* While a removal is at work, no refresh has a temporary file.
LEMMA RemoverAlone ==
  ASSUME IInv, NEW c \in Commands, Removing(c)
  PROVE  scratch = abandoned
<1>1. pc[c] = "locked" /\ flock = c
  BY DEF Removing, IInv, Excludes, Locked
<1>2. \A h \in Commands : pc[h] \notin Holding
  BY <1>1 DEF IInv, Excludes, Locked, Holding
<1> QED
  BY <1>2 DEF IInv, OnlyKillsLeaveFiles

\* Every step keeps the types.
LEMMA TypeStep == IInv /\ [Next]_vars => TypeOK'
<1> SUFFICES ASSUME IInv, [Next]_vars PROVE TypeOK'
  OBVIOUS
<1> USE DEF IInv, TypeOK, Stages, Step, Ends, Forgets, locals, cache, temps
<1>1. ASSUME NEW c \in Commands, NEW op \in Operations, Load(c, op) PROVE TypeOK'
  BY <1>1, OperationsAssumption DEF Load
<1>2. ASSUME NEW c \in Commands, Acquire(c) PROVE TypeOK'
  BY <1>2 DEF Acquire
<1>3. ASSUME NEW c \in Commands, AlreadyRunning(c) PROVE TypeOK'
  BY <1>3 DEF AlreadyRunning
<1>4. ASSUME NEW c \in Commands, PruneFirst(c) PROVE TypeOK'
  <2>1. OldDigests \in SUBSET Digests
    BY ShipsType DEF OldDigests
  <2>. QED
    BY <1>4, <2>1, PruneType DEF PruneFirst
<1>5. ASSUME NEW c \in Commands, Resolve(c) PROVE TypeOK'
  BY <1>5, ShipsType DEF Resolve
<1>6. ASSUME NEW c \in Commands, NEW d \in Digests, Install(c, d) PROVE TypeOK'
  <2> DEFINE new == [age |-> 0, content |-> "good"]
  <2>1. new \in [age : Ages, content : {"missing", "good", "bad"}]
    BY BoundsAssumption DEF Ages
  <2> HIDE DEF new
  <2>2. artifact' = artifact \/ artifact' = [artifact EXCEPT ![d] = new]
    BY <1>6 DEF Install, Installed, new
  <2>3. created' = created \/ created' = [created EXCEPT ![c] = @ \union {d}]
    BY <1>6 DEF Install, Installed
  <2>4. /\ artifact' \in [Digests -> [age : Ages, content : {"missing", "good", "bad"}]]
        /\ created' \in [Commands -> SUBSET Digests]
    BY <2>1, <2>2, <2>3
  <2>5. scratch - 1 \in Nat
    BY <1>6 DEF Install, OnlyKillsLeaveFiles, Holding
  <2>. QED
    BY <1>6, <2>4, <2>5 DEF Install
<1>7. ASSUME NEW c \in Commands, TouchOld(c) PROVE TypeOK'
  <2>1. 0 \in Ages
    BY BoundsAssumption DEF Ages
  <2>. QED
    BY <1>7, <2>1 DEF TouchOld
<1>8. ASSUME NEW c \in Commands, WriteIndex(c) PROVE TypeOK'
  <2>1. scratch - 1 \in Nat
    BY <1>8 DEF WriteIndex, OnlyKillsLeaveFiles, Holding
  <2>. QED
    BY <1>8, <2>1 DEF WriteIndex
<1>9. ASSUME NEW c \in Commands, FinalPrune(c) PROVE TypeOK'
  <2>1. artifact' \in [Digests -> [age : Ages, content : {"missing", "good", "bad"}]]
    BY <1>9, PruneType DEF FinalPrune
  <2>. QED
    BY <1>9, <2>1 DEF FinalPrune
<1>10. ASSUME NEW c \in Commands, Rollback(c) PROVE TypeOK'
  <2>1. 0 \in Ages
    BY BoundsAssumption DEF Ages
  <2>. QED
    BY <1>10, <2>1 DEF Rollback, Missing
<1>11. ASSUME NEW c \in Commands, SaveAdded(c) \/ RemoveFails(c) \/ SaveRemoved(c)
       PROVE  TypeOK'
  BY <1>11 DEF SaveAdded, RemoveFails, SaveRemoved
<1>12. ASSUME NEW c \in Commands, RefreshFails(c) \/ SaveAddedFails(c) PROVE TypeOK'
  <2>1. pc[c] \in Holding => scratch - 1 \in Nat
    BY DEF OnlyKillsLeaveFiles
  <2>. QED
    BY <1>12, <2>1 DEF RefreshFails, SaveAddedFails
<1>13. ASSUME NEW c \in Commands, RemoveEntry(c) PROVE TypeOK'
  <2>1. 0 \in Ages /\ NoReader \in [index : Commits \union {None}, age : 0 .. Grace]
    BY BoundsAssumption DEF Ages, NoReader
  <2>2. scratch = abandoned
    BY <1>13, RemoverAlone DEF RemoveEntry
  <2>. QED
    BY <1>13, <2>1, <2>2 DEF RemoveEntry, Missing
<1>14. ASSUME NEW c \in Commands, RemoveDone(c) PROVE TypeOK'
  BY <1>14 DEF RemoveDone
<1>15. ASSUME NEW r \in Readers, LoadIndex(r) PROVE TypeOK'
  BY <1>15, BoundsAssumption DEF LoadIndex
<1>16. CASE Tick
  <2>1. artifact' \in [Digests -> [age : Ages, content : {"missing", "good", "bad"}]]
    BY <1>16, BoundsAssumption DEF Tick, Ages
  <2>2. reader' \in [Readers -> [index : Commits \union {None}, age : 0 .. Grace]]
    BY <1>16, BoundsAssumption DEF Tick, NoReader
  <2>. QED
    BY <1>16, <2>1, <2>2 DEF Tick
<1>17. ASSUME NEW d \in Digests, Damage(d) PROVE TypeOK'
  BY <1>17 DEF Damage
<1>18. CASE UNCHANGED vars
  BY <1>18 DEF vars
<1>19. ASSUME NEW c \in Commands, Killed(c) PROVE TypeOK'
  <2>1. abandoned' \in Nat
    BY <1>19 DEF Killed
  <2>2. /\ UNCHANGED <<configured, index, artifact, torn, scratch, reader, damaged>>
        /\ Ends(c)
    BY <1>19 DEF Killed
  <2>. QED
    BY <2>1, <2>2
<1>20. ASSUME NEW c \in Commands, Package(c) \/ BeginIndex(c) PROVE TypeOK'
  BY <1>20 DEF Package, BeginIndex
<1> QED
  BY <1>1, <1>2, <1>3, <1>4, <1>5, <1>6, <1>7, <1>8, <1>9, <1>10, <1>11, <1>12, <1>13,
     <1>14, <1>15, <1>16, <1>17, <1>18, <1>19, <1>20 DEF Next, Proceed, Errs

-----------------------------------------------------------------------------
\* What a step of one command leaves alone of the others.
OthersSame(c) ==
  \A h \in Commands \ {c} :
    /\ pc'[h] = pc[h] /\ doing'[h] = doing[h] /\ old'[h] = old[h]
    /\ commit'[h] = commit[h] /\ todo'[h] = todo[h] /\ created'[h] = created[h]

Acts(c) == (\E op \in Operations : Load(c, op)) \/ Proceed(c) \/ Errs(c) \/ Killed(c)

\* A step of a command changes no other command.
LEMMA ActsAlone ==
  ASSUME TypeOK, NEW c \in Commands, Acts(c)
  PROVE  OthersSame(c)
<1> USE DEF TypeOK, OthersSame, Step, Ends, Forgets, locals
<1>1. ASSUME NEW op \in Operations, Load(c, op) PROVE OthersSame(c)
  BY <1>1 DEF Load
<1>2. CASE Acquire(c) \/ AlreadyRunning(c) \/ PruneFirst(c) \/ Resolve(c) \/ Package(c)
  BY <1>2 DEF Acquire, AlreadyRunning, PruneFirst, Resolve, Package
<1>3. ASSUME NEW d \in Digests, Install(c, d) PROVE OthersSame(c)
  BY <1>3 DEF Install, Installed
<1>4. CASE TouchOld(c) \/ BeginIndex(c) \/ WriteIndex(c) \/ FinalPrune(c) \/ Rollback(c)
  BY <1>4 DEF TouchOld, BeginIndex, WriteIndex, FinalPrune, Rollback
<1>5. CASE SaveAdded(c) \/ RemoveEntry(c) \/ RemoveDone(c) \/ SaveRemoved(c)
  BY <1>5 DEF SaveAdded, RemoveEntry, RemoveDone, SaveRemoved
<1>6. CASE RefreshFails(c) \/ SaveAddedFails(c) \/ RemoveFails(c) \/ Killed(c)
  BY <1>6 DEF RefreshFails, SaveAddedFails, RemoveFails, Killed
<1> QED
  BY <1>1, <1>2, <1>3, <1>4, <1>5, <1>6 DEF Acts, Proceed, Errs

\* The lock excludes: only a command that finds it free takes it, and each that
\* has it gives it up as it leaves the locked stages.
LEMMA ExcludesStep == IInv /\ [Next]_vars => Excludes'
<1> SUFFICES ASSUME IInv, [Next]_vars PROVE Excludes'
  OBVIOUS
<1>1. ASSUME NEW c \in Commands, Acts(c) PROVE Excludes'
  <2>1. OthersSame(c)
    BY <1>1, ActsAlone DEF IInv
  <2>2. /\ pc'[c] \in Locked <=> flock' = c
        /\ flock' = flock \/ (flock = None /\ flock' = c) \/ (flock = c /\ flock' = None)
    <3> USE NoneAssumption DEF IInv, TypeOK, Excludes, Locked, Step, Ends, Forgets, locals, cache
    <3>1. ASSUME NEW op \in Operations, Load(c, op) PROVE <2>2
      BY <3>1 DEF Load
    <3>2. CASE Acquire(c) BY <3>2 DEF Acquire
    <3>3. CASE AlreadyRunning(c) BY <3>3 DEF AlreadyRunning
    <3>4. CASE PruneFirst(c) \/ Resolve(c) \/ Package(c)
      BY <3>4 DEF PruneFirst, Resolve, Package
    <3>5. ASSUME NEW d \in Digests, Install(c, d) PROVE <2>2
      BY <3>5 DEF Install
    <3>6. CASE TouchOld(c) \/ BeginIndex(c) \/ WriteIndex(c)
      BY <3>6 DEF TouchOld, BeginIndex, WriteIndex
    <3>7. CASE FinalPrune(c) BY <3>7 DEF FinalPrune
    <3>8. CASE Rollback(c) BY <3>8 DEF Rollback
    <3>9. CASE SaveAdded(c) BY <3>9 DEF SaveAdded
    <3>10. CASE RemoveEntry(c) BY <3>10 DEF RemoveEntry, Removing
    <3>11. CASE RemoveDone(c) BY <3>11 DEF RemoveDone, Removing
    <3>12. CASE SaveRemoved(c) BY <3>12 DEF SaveRemoved
    <3>13. CASE RefreshFails(c) BY <3>13 DEF RefreshFails, Holding
    <3>14. CASE SaveAddedFails(c) BY <3>14 DEF SaveAddedFails
    <3>15. CASE RemoveFails(c) BY <3>15 DEF RemoveFails, Removing
    <3>16. CASE Killed(c) BY <3>16 DEF Killed
    <3>. QED
      BY <1>1, <3>1, <3>2, <3>3, <3>4, <3>5, <3>6, <3>7, <3>8, <3>9, <3>10, <3>11, <3>12,
         <3>13, <3>14, <3>15, <3>16 DEF Acts, Proceed, Errs
  <2>. QED
    BY <2>1, <2>2, NoneAssumption DEF IInv, Excludes, OthersSame
<1>2. ASSUME UNCHANGED <<pc, flock>> PROVE Excludes'
  BY <1>2 DEF IInv, Excludes
<1> QED
  BY <1>1, <1>2 DEF Next, Acts, LoadIndex, Tick, Damage, vars, locals

-----------------------------------------------------------------------------
\* While one command holds the lock, the others know nothing that its steps
\* could make wrong.
LEMMA Outsiders ==
  ASSUME IInv, NEW c \in Commands, pc[c] \in Locked, OthersSame(c)
  PROVE  \A h \in Commands \ {c} : Knows(h)'
<1> SUFFICES ASSUME NEW h \in Commands \ {c} PROVE Knows(h)'
  OBVIOUS
<1>1. pc[h] \notin Locked
  BY DEF IInv, Excludes
<1>2. Knows(h)
  BY DEF IInv, CacheInv
<1> QED
  BY <1>1, <1>2 DEF OthersSame, Knows, Locked, Unpublished, Resolved, Refreshing

\* Nor do steps that leave the cache and its readers alone.
LEMMA Bystanders ==
  ASSUME IInv, NEW c \in Commands, OthersSame(c),
         UNCHANGED <<cache, damaged, reader>>, Knows(c)'
  PROVE  CacheInv'
<1>1. \A h \in Commands \ {c} : Knows(h)'
  <2> SUFFICES ASSUME NEW h \in Commands \ {c} PROVE Knows(h)'
    OBVIOUS
  <2>1. Knows(h)
    BY DEF IInv, CacheInv
  <2>. QED
    BY <2>1 DEF OthersSame, Knows, Available, OldDigests, Refreshing, cache
<1>2. IndexComplete' /\ \A r \in Readers : Relied(r)'
  BY DEF IInv, CacheInv, IndexComplete, Relied, Available, cache
<1> QED
  BY <1>1, <1>2 DEF CacheInv

\* The steps that leave the cache alone.
LEMMA IdleStep ==
  ASSUME IInv, NEW c \in Commands,
         \/ \E op \in Operations : Load(c, op)
         \/ Acquire(c) \/ AlreadyRunning(c) \/ Resolve(c) \/ Package(c) \/ BeginIndex(c)
         \/ SaveAdded(c) \/ RemoveDone(c) \/ SaveRemoved(c)
         \/ Errs(c) \/ Killed(c)
  PROVE  CacheInv'
<1>1. OthersSame(c)
  BY ActsAlone DEF Acts, Proceed, IInv
<1>2. UNCHANGED <<cache, damaged, reader>> /\ Knows(c)'
  <2>1. Knows(c) /\ TypeOK
    BY DEF IInv, CacheInv
  <2> USE <2>1 DEF Knows, TypeOK, Locked, Unpublished, Resolved, Refreshing, Available,
        OldDigests, Step, Ends, Forgets, cache
  <2>2. ASSUME NEW op \in Operations, Load(c, op) PROVE <1>2
    BY <2>2 DEF Load
  <2>3. CASE Acquire(c) BY <2>3 DEF Acquire
  <2>4. CASE AlreadyRunning(c) BY <2>4 DEF AlreadyRunning
  <2>5. CASE Resolve(c) BY <2>5 DEF Resolve
  <2>6. CASE SaveAdded(c) BY <2>6 DEF SaveAdded
  <2>7. CASE RemoveDone(c) BY <2>7 DEF RemoveDone, Removing
  <2>8. CASE SaveRemoved(c) BY <2>8 DEF SaveRemoved
  <2>9. CASE RefreshFails(c) BY <2>9 DEF RefreshFails, Holding
  <2>10. CASE SaveAddedFails(c) BY <2>10 DEF SaveAddedFails
  <2>11. CASE RemoveFails(c) BY <2>11 DEF RemoveFails
  <2>12. CASE Killed(c) BY <2>12 DEF Killed
  <2>13. CASE Package(c) BY <2>13 DEF Package
  <2>14. CASE BeginIndex(c) BY <2>14 DEF BeginIndex
  <2>. QED
    BY <2>2, <2>3, <2>4, <2>5, <2>6, <2>7, <2>8, <2>9, <2>10, <2>11, <2>12, <2>13, <2>14
       DEF Errs
<1> QED
  BY <1>1, <1>2, Bystanders

-----------------------------------------------------------------------------
\* Pruning around the index takes nothing that is relied on.
LEMMA PruneKeeps ==
  ASSUME TypeOK, NEW keep, NEW d \in Digests, d \in keep \/ artifact[d].age <= Grace
  PROVE  Prune(keep)[d] = artifact[d]
BY BoundsAssumption DEF Prune, TypeOK, Ages

\* Neither the index nor a reader loses what it relies on.
LEMMA PruneIsSafe ==
  ASSUME IInv, artifact' = Prune(OldDigests), UNCHANGED <<index, torn, reader, damaged>>
  PROVE  IndexComplete' /\ \A r \in Readers : Relied(r)'
<1>1. IndexComplete'
  <2> SUFFICES ASSUME index # None, ~ torn, NEW d \in Ships[index] PROVE Available(d)'
    BY DEF IndexComplete
  <2>1. d \in Digests /\ d \in OldDigests /\ Available(d)
    BY ShipsType DEF IInv, TypeOK, CacheInv, IndexComplete, OldDigests
  <2>. QED
    BY <2>1, PruneKeeps DEF IInv, Available
<1>2. ASSUME NEW r \in Readers PROVE Relied(r)'
  <2> SUFFICES ASSUME reader[r].index # None, NEW d \in Ships[reader[r].index]
               PROVE  /\ ~ torn /\ index # None
                      /\ Available(d)'
                      /\ d \in damaged \/ d \in Ships[index] \/ artifact'[d].age <= reader[r].age
    BY DEF Relied, IInv, CacheInv
  <2>1. /\ ~ torn /\ index # None /\ d \in Digests /\ Available(d)
        /\ d \in damaged \/ d \in Ships[index] \/ artifact[d].age <= reader[r].age
        /\ reader[r].age \in 0 .. Grace /\ artifact[d].age \in Ages
    BY ShipsType DEF IInv, TypeOK, CacheInv, Relied
  <2>2. CASE d \in damaged
    BY <2>1, <2>2 DEF Available
  <2>3. CASE d \in Ships[index]
    BY <2>1, <2>3, PruneKeeps DEF OldDigests, Available, IInv
  <2>4. CASE artifact[d].age <= reader[r].age
    <3>1. artifact[d].age <= Grace
      BY <2>1, <2>4, BoundsAssumption DEF Ages
    <3>. QED
      BY <2>1, <2>4, <3>1, PruneKeeps DEF Available, IInv
  <2>. QED
    BY <2>1, <2>2, <2>3, <2>4
<1> QED
  BY <1>1, <1>2

\* The first prune keeps the artifacts of the index it found.
LEMMA PruneFirstStep ==
  ASSUME IInv, NEW c \in Commands, PruneFirst(c)
  PROVE  CacheInv'
<1>1. pc[c] \in Locked /\ OthersSame(c)
  BY ActsAlone DEF IInv, Acts, Proceed, PruneFirst, Step, Locked
<1>2. IndexComplete' /\ \A r \in Readers : Relied(r)'
  BY PruneIsSafe DEF PruneFirst
<1>3. Knows(c)'
  BY DEF PruneFirst, Step, IInv, TypeOK, CacheInv, Knows, Unpublished, Resolved, OldDigests,
     Refreshing
<1> QED
  BY <1>1, <1>2, <1>3, Outsiders DEF CacheInv

\* What a refresh installs can only add to what is there.
LEMMA InstallStep ==
  ASSUME IInv, NEW c \in Commands, NEW d \in Digests, Install(c, d)
  PROVE  CacheInv'
<1>1. pc[c] \in Locked /\ OthersSame(c)
  BY ActsAlone DEF IInv, Acts, Proceed, Install, Step, Locked
<1>2. /\ UNCHANGED <<index, torn, reader, damaged, old, commit>>
      /\ artifact'[d].content = "good"
      /\ artifact' # artifact => artifact'[d].age = 0
      /\ \A e \in Digests \ {d} : artifact'[e] = artifact[e]
      /\ todo'[c] = todo[c] \ {d} /\ pc'[c] \in {"packaging", "failing"}
      /\ created'[c] = created[c] \/ (created'[c] = created[c] \union {d} /\ artifact[d].content # "good")
  BY DEF Install, Installed, Step, IInv, TypeOK
<1>3. \A e \in Digests : Available(e) => Available(e)'
  BY <1>2 DEF Available
<1>4. IndexComplete'
  BY <1>2, <1>3, ShipsType DEF IInv, TypeOK, CacheInv, IndexComplete
<1>5. ASSUME NEW r \in Readers PROVE Relied(r)'
  <2>1. /\ reader[r].age \in Nat
        /\ reader[r].index # None => Ships[reader[r].index] \subseteq Digests
    BY ShipsType, BoundsAssumption DEF IInv, TypeOK
  <2>2. \A e \in Digests : artifact[e].age <= reader[r].age => artifact'[e].age <= reader[r].age
    BY <1>2, <2>1
  <2>. QED
    BY <1>2, <1>3, <2>1, <2>2 DEF IInv, CacheInv, Relied
<1>6. Knows(c)'
  <2>1. Knows(c) /\ pc[c] = "packaged" /\ commit[c] \in Commits
    BY DEF IInv, CacheInv, Install, Step, Knows, Resolved
  <2>2. old'[c] = OldDigests'
    BY <1>2, <2>1 DEF Knows, OldDigests
  <2>3. \A e \in Ships[commit[c]] \ todo'[c] : Available(e)'
    BY <1>2, <1>3, <2>1, ShipsType DEF Knows, Available
  <2>4. \A e \in created'[c] :
          /\ index # None /\ ~ torn /\ e \in Ships[index] => e \in damaged
          /\ \A r \in Readers :
               reader[r].index # None /\ e \in Ships[reader[r].index] => e \in damaged
    BY <1>2, <2>1 DEF Knows, Unpublished, IInv, CacheInv, IndexComplete, Relied, Available
  <2>. QED
    BY <1>2, <2>1, <2>2, <2>3, <2>4 DEF Knows, Unpublished, Resolved
<1> QED
  BY <1>1, <1>4, <1>5, <1>6, Outsiders DEF CacheInv

\* The artifacts of the index a refresh found get a new grace period.
LEMMA TouchOldStep ==
  ASSUME IInv, NEW c \in Commands, TouchOld(c)
  PROVE  CacheInv'
<1>1. pc[c] \in Locked /\ OthersSame(c)
  BY ActsAlone DEF IInv, Acts, Proceed, TouchOld, Step, Locked
<1>2. /\ UNCHANGED <<index, torn, reader, damaged, old, commit, todo, created>>
      /\ pc[c] = "packaging" /\ pc'[c] = "touched" /\ todo[c] = {}
      /\ \A e \in Digests : /\ artifact'[e].content = artifact[e].content
                            /\ e \in old[c] => artifact'[e].age = 0
                            /\ e \notin old[c] => artifact'[e] = artifact[e]
  BY DEF TouchOld, Step, IInv, TypeOK
<1>3. \A e \in Digests : Available(e) => Available(e)'
  BY <1>2 DEF Available
<1>4. IndexComplete'
  BY <1>2, <1>3, ShipsType DEF IInv, TypeOK, CacheInv, IndexComplete
<1>5. ASSUME NEW r \in Readers PROVE Relied(r)'
  <2>1. /\ reader[r].age \in Nat
        /\ reader[r].index # None => Ships[reader[r].index] \subseteq Digests
    BY ShipsType, BoundsAssumption DEF IInv, TypeOK
  <2>2. \A e \in Digests : artifact[e].age <= reader[r].age => artifact'[e].age <= reader[r].age
    BY <1>2, <2>1
  <2>. QED
    BY <1>2, <1>3, <2>1, <2>2 DEF IInv, CacheInv, Relied
<1>6. Knows(c)'
  <2>1. Knows(c) /\ old[c] \subseteq Digests /\ commit[c] \in Commits
    BY <1>2 DEF IInv, TypeOK, CacheInv, Knows, Resolved
  <2>2. old'[c] = OldDigests' /\ \A e \in old'[c] : artifact'[e].age = 0
    BY <1>2, <2>1 DEF Knows, OldDigests
  <2>3. \A e \in Ships[commit[c]] \ todo'[c] : Available(e)'
    BY <1>2, <1>3, <2>1, ShipsType DEF Knows
  <2>. QED
    BY <1>2, <2>1, <2>2, <2>3 DEF Knows, Unpublished, Resolved
<1> QED
  BY <1>1, <1>4, <1>5, <1>6, Outsiders DEF CacheInv

\* The new index has every artifact; the old one's have just been given a new
\* grace period, which is what readers of it go on to rely on.
LEMMA WriteIndexStep ==
  ASSUME IInv, NEW c \in Commands, WriteIndex(c)
  PROVE  CacheInv'
<1>1. pc[c] \in Locked /\ OthersSame(c)
  BY ActsAlone DEF IInv, Acts, Proceed, WriteIndex, Step, Locked
<1>2. /\ UNCHANGED <<artifact, reader, old, commit, todo, created>>
      /\ pc[c] = "writing" /\ pc'[c] = "written"
      /\ index' = commit[c] /\ ~ torn' /\ commit[c] \in Commits
      /\ damaged' = {d \in damaged : d \in Ships[commit[c]] => artifact[d].content # "good"}
      /\ old[c] = OldDigests /\ \A d \in old[c] : artifact[d].age = 0
      /\ \A d \in Ships[commit[c]] : Available(d)
  <2>1. Knows(c)
    BY DEF IInv, CacheInv
  <2>. QED
    BY <2>1 DEF WriteIndex, Step, IInv, TypeOK, Knows, Resolved
<1>3. \A d \in Digests : Available(d) => Available(d)'
  BY <1>2 DEF Available
<1>4. IndexComplete'
  BY <1>2, <1>3, ShipsType DEF IndexComplete
<1>5. ASSUME NEW r \in Readers PROVE Relied(r)'
  <2> SUFFICES ASSUME reader[r].index # None, NEW d \in Ships[reader[r].index]
               PROVE  /\ Available(d)'
                      /\ d \in damaged' \/ d \in Ships[index'] \/ artifact'[d].age <= reader[r].age
    BY <1>2, NoneAssumption DEF Relied
  <2>1. /\ d \in Digests /\ Available(d) /\ index # None /\ reader[r].age \in Nat
        /\ d \in damaged \/ d \in Ships[index] \/ artifact[d].age <= reader[r].age
    BY ShipsType, BoundsAssumption DEF IInv, TypeOK, CacheInv, Relied
  <2>2. d \in Ships[index] => artifact[d].age = 0
    BY <1>2, <2>1 DEF OldDigests
  <2>3. d \in damaged => d \in damaged' \/ d \in Ships[index']
    BY <1>2
  <2>. QED
    BY <1>2, <1>3, <2>1, <2>2, <2>3
<1>6. Knows(c)'
  BY <1>2 DEF Knows, Unpublished, Resolved
<1> QED
  BY <1>1, <1>4, <1>5, <1>6, Outsiders DEF CacheInv

\* The last prune keeps the artifacts of the index just published.
LEMMA FinalPruneStep ==
  ASSUME IInv, NEW c \in Commands, FinalPrune(c)
  PROVE  CacheInv'
<1>1. pc[c] \in Locked /\ OthersSame(c)
  BY ActsAlone DEF IInv, Acts, Proceed, FinalPrune, Locked
<1>2. Knows(c) /\ pc[c] = "written" /\ index = commit[c] /\ commit[c] \in Commits
  BY DEF IInv, CacheInv, FinalPrune, Knows, Resolved
<1>3. IndexComplete' /\ \A r \in Readers : Relied(r)'
  <2>1. OldDigests = Ships[commit[c]]
    BY <1>2, NoneAssumption DEF OldDigests
  <2>. QED
    BY <2>1, PruneIsSafe DEF FinalPrune
<1>4. Knows(c)'
  BY <1>2 DEF FinalPrune, Step, Ends, Forgets, IInv, TypeOK, Knows, Unpublished, Resolved
<1> QED
  BY <1>1, <1>3, <1>4, Outsiders DEF CacheInv

\* What a failed refresh takes back was not there before it.
LEMMA RollbackStep ==
  ASSUME IInv, NEW c \in Commands, Rollback(c)
  PROVE  CacheInv'
<1>1. pc[c] \in Locked /\ OthersSame(c)
  BY ActsAlone DEF IInv, Acts, Proceed, Rollback, Locked
<1>2. /\ UNCHANGED <<index, torn, reader, damaged>>
      /\ \A d \in Digests : d \notin created[c] => artifact'[d] = artifact[d]
      /\ \A d \in created[c] :
           /\ index # None /\ ~ torn /\ d \in Ships[index] => d \in damaged
           /\ \A r \in Readers :
                reader[r].index # None /\ d \in Ships[reader[r].index] => d \in damaged
  BY DEF Rollback, IInv, TypeOK, CacheInv, Knows, Unpublished
<1>3. IndexComplete'
  BY <1>2, ShipsType DEF IInv, TypeOK, CacheInv, IndexComplete, Available
<1>4. ASSUME NEW r \in Readers PROVE Relied(r)'
  <2> SUFFICES ASSUME reader[r].index # None, NEW d \in Ships[reader[r].index]
               PROVE  /\ ~ torn' /\ index' # None
                      /\ Available(d)'
                      /\ d \in damaged' \/ d \in Ships[index'] \/ artifact'[d].age <= reader'[r].age
    BY <1>2 DEF Relied, IInv, CacheInv
  <2>1. /\ ~ torn /\ index # None /\ d \in Digests /\ Available(d)
        /\ d \in damaged \/ d \in Ships[index] \/ artifact[d].age <= reader[r].age
    BY ShipsType DEF IInv, TypeOK, CacheInv, Relied
  <2>. QED
    BY <1>2, <2>1 DEF Available
<1>5. Knows(c)'
  BY DEF Rollback, Ends, Forgets, IInv, TypeOK, Knows, Unpublished, Resolved
<1> QED
  BY <1>1, <1>3, <1>4, <1>5, Outsiders DEF CacheInv

\* A removal tears the cache, and no reader relies on it any more.
LEMMA RemoveEntryStep ==
  ASSUME IInv, NEW c \in Commands, RemoveEntry(c)
  PROVE  CacheInv'
<1>1. pc[c] \in Locked /\ OthersSame(c)
  BY ActsAlone DEF IInv, Acts, Proceed, RemoveEntry, Removing, Locked
<1>2. IndexComplete' /\ \A r \in Readers : Relied(r)'
  BY DEF RemoveEntry, IndexComplete, Relied, NoReader
<1>3. Knows(c)'
  BY DEF RemoveEntry, Removing, IInv, CacheInv, Knows, Unpublished, Resolved, Refreshing, locals
<1> QED
  BY <1>1, <1>2, <1>3, Outsiders DEF CacheInv

-----------------------------------------------------------------------------
\* Readers and time.
LEMMA LoadIndexStep ==
  ASSUME IInv, NEW r \in Readers, LoadIndex(r)
  PROVE  CacheInv'
<1>1. IndexComplete'
  BY DEF LoadIndex, cache, IInv, CacheInv, IndexComplete, Available
<1>2. \A s \in Readers : Relied(s)'
  BY DEF LoadIndex, cache, IInv, TypeOK, CacheInv, Relied, IndexComplete, Available
<1>3. ASSUME NEW c \in Commands PROVE Knows(c)'
  <2>1. Knows(c) /\ \A s \in Readers : reader'[s] = reader[s] \/ (reader'[s].index = index /\ index # None /\ ~ torn)
    BY DEF LoadIndex, IInv, TypeOK, CacheInv
  <2>2. pc'[c] \in Unpublished =>
          \A d \in created'[c] :
            /\ index' # None /\ ~ torn' /\ d \in Ships[index'] => d \in damaged'
            /\ \A s \in Readers :
                 reader'[s].index # None /\ d \in Ships[reader'[s].index] => d \in damaged'
    BY <2>1 DEF LoadIndex, locals, cache, Knows
  <2>. QED
    BY <2>1, <2>2 DEF LoadIndex, locals, cache, Knows, Available, OldDigests, Refreshing
<1> QED
  BY <1>1, <1>2, <1>3 DEF CacheInv

\* Artifacts and readers grow old together.
LEMMA TickStep ==
  ASSUME IInv, Tick
  PROVE  CacheInv'
<1>1. /\ UNCHANGED <<index, torn, locals, damaged>>
      /\ \A c \in Commands : pc[c] \notin {"touched", "writing"}
      /\ \A d \in Digests : /\ artifact'[d].content = artifact[d].content
                            /\ artifact'[d].age \in {artifact[d].age, artifact[d].age + 1}
  BY DEF Tick, IInv, TypeOK
<1>2. \A d \in Digests : Available(d) => Available(d)'
  BY <1>1 DEF Available
<1>3. \A r \in Readers : reader'[r].index # None =>
        /\ reader[r].index # None
        /\ reader'[r].index = reader[r].index /\ reader'[r].age = reader[r].age + 1
  BY DEF Tick, IInv, TypeOK, NoReader
<1>4. IndexComplete'
  BY <1>1, <1>2, ShipsType DEF IInv, TypeOK, CacheInv, IndexComplete
<1>5. ASSUME NEW r \in Readers PROVE Relied(r)'
  <2> SUFFICES ASSUME reader'[r].index # None, NEW d \in Ships[reader'[r].index]
               PROVE  /\ ~ torn' /\ index' # None
                      /\ Available(d)'
                      /\ d \in damaged' \/ d \in Ships[index'] \/ artifact'[d].age <= reader'[r].age
    BY <1>1, <1>3 DEF Relied, IInv, CacheInv
  <2>1. reader[r].index # None /\ reader'[r].index = reader[r].index /\ reader'[r].age = reader[r].age + 1
    BY <1>3
  <2>2. /\ ~ torn /\ index # None /\ d \in Digests /\ Available(d)
        /\ d \in damaged \/ d \in Ships[index] \/ artifact[d].age <= reader[r].age
        /\ reader[r].age \in Nat /\ artifact[d].age \in Nat
    BY <2>1, ShipsType, BoundsAssumption DEF IInv, TypeOK, CacheInv, Relied, Ages
  <2>. QED
    BY <1>1, <1>2, <2>1, <2>2
<1>6. ASSUME NEW c \in Commands PROVE Knows(c)'
  <2>1. Knows(c) /\ TypeOK
    BY DEF IInv, CacheInv
  <2>2. pc'[c] \in {"packaging", "packaged", "touched", "writing"} =>
          \A d \in Ships[commit'[c]] \ todo'[c] : Available(d)'
    BY <1>1, <1>2, <2>1, ShipsType DEF Knows, Resolved, locals
  <2>3. pc'[c] \in Unpublished =>
          \A d \in created'[c] :
            /\ index' # None /\ ~ torn' /\ d \in Ships[index'] => d \in damaged'
            /\ \A s \in Readers :
                 reader'[s].index # None /\ d \in Ships[reader'[s].index] => d \in damaged'
    BY <1>1, <1>3, <2>1 DEF Knows, locals
  <2>. QED
    BY <1>1, <2>1, <2>2, <2>3 DEF Knows, OldDigests, Refreshing, locals
<1> QED
  BY <1>4, <1>5, <1>6 DEF CacheInv

\* Damage is recorded, so it accounts for what it took.
LEMMA DamageStep ==
  ASSUME IInv, NEW d \in Digests, Damage(d)
  PROVE  CacheInv'
<1>1. /\ UNCHANGED <<index, torn, locals, reader>>
      /\ damaged' = damaged \union {d}
      /\ \A e \in Digests : artifact'[e].age = artifact[e].age
      /\ \A e \in Digests \ {d} : artifact'[e] = artifact[e]
  BY DEF Damage, IInv, TypeOK
<1>2. \A e \in Digests : Available(e) => Available(e)'
  BY <1>1 DEF Available
<1>3. IndexComplete'
  BY <1>1, <1>2, ShipsType DEF IInv, TypeOK, CacheInv, IndexComplete
<1>4. ASSUME NEW r \in Readers PROVE Relied(r)'
  BY <1>1, <1>2, ShipsType DEF IInv, TypeOK, CacheInv, Relied
<1>5. ASSUME NEW c \in Commands PROVE Knows(c)'
  <2>1. Knows(c) /\ TypeOK
    BY DEF IInv, CacheInv
  <2>2. pc'[c] \in {"packaging", "packaged", "touched", "writing"} =>
          \A e \in Ships[commit'[c]] \ todo'[c] : Available(e)'
    BY <1>1, <1>2, <2>1, ShipsType DEF Knows, Resolved, locals
  <2>. QED
    BY <1>1, <2>1, <2>2 DEF Knows, OldDigests, Refreshing, locals, TypeOK
<1> QED
  BY <1>3, <1>4, <1>5 DEF CacheInv

-----------------------------------------------------------------------------
\* A command that gets a temporary file is the only one that has one, and it
\* leaves it behind only if it is killed.
LEMMA FilesStep == IInv /\ [Next]_vars => OnlyKillsLeaveFiles'
<1> SUFFICES ASSUME IInv, [Next]_vars PROVE OnlyKillsLeaveFiles'
  OBVIOUS
<1>1. ASSUME NEW c \in Commands, Acts(c) PROVE OnlyKillsLeaveFiles'
  <2>1. /\ scratch \in Nat /\ abandoned \in Nat
        /\ IF pc[c] \in Holding THEN scratch = abandoned + 1
           ELSE scratch = abandoned \/ \E h \in Commands \ {c} : pc[h] \in Holding
    BY DEF IInv, TypeOK, OnlyKillsLeaveFiles
  <2>2. OthersSame(c)
    BY <1>1, ActsAlone DEF IInv
  <2>3. CASE pc[c] \in Locked
    <3>1. \A h \in Commands \ {c} : pc'[h] \notin Holding /\ pc[h] \notin Holding
      BY <2>2, <2>3 DEF OthersSame, IInv, Excludes, Locked, Holding
    <3>2. scratch' = IF pc'[c] \in Holding THEN abandoned' + 1 ELSE abandoned'
      <4> USE <2>1, <3>1 DEF Holding, Step, Ends, Forgets, temps, locals
      <4>1. pc \in [Commands -> Stages]
        BY DEF IInv, TypeOK
      <4>2. CASE \E op \in Operations : Load(c, op)
        BY <2>3, <4>2 DEF Load, Locked
      <4>3. CASE Acquire(c) \/ AlreadyRunning(c)
        BY <2>3, <4>3 DEF Acquire, AlreadyRunning, Locked
      <4>4. CASE PruneFirst(c) \/ Resolve(c) \/ TouchOld(c)
        BY <4>1, <4>4 DEF PruneFirst, Resolve, TouchOld
      <4>5. CASE Package(c) \/ BeginIndex(c)
        BY <4>1, <4>5 DEF Package, BeginIndex
      <4>6. CASE WriteIndex(c) \/ \E d \in Digests : Install(c, d)
        BY <4>1, <4>6 DEF WriteIndex, Install
      <4>7. CASE FinalPrune(c) \/ Rollback(c) \/ SaveAdded(c) \/ SaveRemoved(c)
        BY <4>1, <4>7 DEF FinalPrune, Rollback, SaveAdded, SaveRemoved
      <4>8. CASE RemoveEntry(c) \/ RemoveDone(c) \/ RemoveFails(c)
        BY <4>1, <4>8 DEF RemoveEntry, RemoveDone, RemoveFails, Removing
      <4>9. CASE RefreshFails(c) \/ SaveAddedFails(c)
        BY <4>1, <4>9 DEF RefreshFails, SaveAddedFails
      <4>10. CASE Killed(c)
        BY <4>1, <4>10 DEF Killed
      <4>. QED
        BY <1>1, <4>2, <4>3, <4>4, <4>5, <4>6, <4>7, <4>8, <4>9, <4>10
           DEF Acts, Proceed, Errs
    <3>. QED
      BY <3>1, <3>2 DEF OnlyKillsLeaveFiles
  <2>4. CASE pc[c] \notin Locked
    <3>1. UNCHANGED temps /\ pc'[c] \notin Holding /\ pc[c] \notin Holding
      <4> USE <2>4 DEF Locked, Holding, Step, Ends, Forgets, temps, locals, IInv, TypeOK
      <4>1. CASE \E op \in Operations : Load(c, op)
        BY <4>1 DEF Load
      <4>2. CASE Acquire(c) \/ AlreadyRunning(c)
        BY <4>2 DEF Acquire, AlreadyRunning
      <4>3. CASE PruneFirst(c) \/ Resolve(c) \/ TouchOld(c) \/ Package(c) \/ BeginIndex(c)
        BY <4>3 DEF PruneFirst, Resolve, TouchOld, Package, BeginIndex
      <4>4. CASE WriteIndex(c) \/ \E d \in Digests : Install(c, d)
        BY <4>4 DEF WriteIndex, Install
      <4>5. CASE FinalPrune(c) \/ Rollback(c) \/ SaveAdded(c) \/ SaveRemoved(c)
        BY <4>5 DEF FinalPrune, Rollback, SaveAdded, SaveRemoved
      <4>6. CASE RemoveEntry(c) \/ RemoveDone(c) \/ RemoveFails(c)
        BY <4>6 DEF RemoveEntry, RemoveDone, RemoveFails, Removing
      <4>7. CASE RefreshFails(c) \/ SaveAddedFails(c)
        BY <4>7 DEF RefreshFails, SaveAddedFails
      <4>8. CASE Killed(c)
        BY <4>8 DEF Killed
      <4>. QED
        BY <1>1, <4>1, <4>2, <4>3, <4>4, <4>5, <4>6, <4>7, <4>8 DEF Acts, Proceed, Errs
    <3>. QED
      BY <2>2, <3>1 DEF OthersSame, temps, IInv, OnlyKillsLeaveFiles
  <2>. QED
    BY <2>3, <2>4
<1>2. ASSUME UNCHANGED <<pc, temps>> PROVE OnlyKillsLeaveFiles'
  BY <1>2 DEF IInv, OnlyKillsLeaveFiles, temps
<1> QED
  BY <1>1, <1>2 DEF Next, Acts, LoadIndex, Tick, Damage, vars, locals

\* Every step keeps the invariant.
LEMMA StepInv == IInv /\ [Next]_vars => IInv'
<1> SUFFICES ASSUME IInv, [Next]_vars PROVE IInv'
  OBVIOUS
<1>1. ASSUME NEW c \in Commands, Acts(c) PROVE CacheInv'
  BY <1>1, IdleStep, PruneFirstStep, InstallStep, TouchOldStep, WriteIndexStep,
     FinalPruneStep, RollbackStep, RemoveEntryStep DEF Acts, Proceed
<1>2. ASSUME NEW r \in Readers, LoadIndex(r) PROVE CacheInv'
  BY <1>2, LoadIndexStep
<1>3. ASSUME Tick PROVE CacheInv'
  BY <1>3, TickStep
<1>4. ASSUME NEW d \in Digests, Damage(d) PROVE CacheInv'
  BY <1>4, DamageStep
<1>5. ASSUME UNCHANGED vars PROVE CacheInv'
  BY <1>5 DEF vars, cache, locals, IInv, CacheInv, IndexComplete, Knows, Relied, Available,
     OldDigests, Refreshing
<1>6. CacheInv'
  BY <1>1, <1>2, <1>3, <1>4, <1>5 DEF Next, Acts
<1> QED
  BY <1>6, TypeStep, ExcludesStep, FilesStep DEF IInv

\* The invariant holds whatever commands, readers and the disk do.
THEOREM AlwaysIInv == Spec => []IInv
BY InitInv, StepInv, PTL DEF Spec

\* Whatever the index names is in the cache, unless a removal was interrupted or
\* the disk damaged it: no failed, killed or racing command takes it away.
THEOREM IndexAlwaysComplete == Spec => []IndexComplete
<1>1. IInv => IndexComplete
  BY DEF IInv, CacheInv
<1> QED
  BY <1>1, AlwaysIInv, PTL

\* A get can open the artifacts of the index it loaded for the grace period.
THEOREM GraceAlwaysHonoured == Spec => []GraceHonoured
<1>1. IInv => GraceHonoured
  BY DEF IInv, CacheInv, Relied, GraceHonoured
<1> QED
  BY <1>1, AlwaysIInv, PTL

\* A refresh or a removal that is not killed leaves no temporary file behind.
THEOREM OnlyKillsAlwaysLeaveFiles == Spec => []OnlyKillsLeaveFiles
<1>1. IInv => OnlyKillsLeaveFiles
  BY DEF IInv
<1> QED
  BY <1>1, AlwaysIInv, PTL

-----------------------------------------------------------------------------
(* The bound of the cache.  It is kept by the same steps: the check after   *)
(* each artifact is what makes one the most that exceeds the limit, and a   *)
(* refresh that finds more goes no further.                                 *)

Measured == {"pruned", "packaging", "packaged", "touched", "writing", "written"}

BoundInv ==
  /\ Cardinality(Present) <= Capacity + 1
  /\ \A c \in Commands : pc[c] \in Measured => Cardinality(Present) <= Capacity

\* The cache holds finitely many artifacts.
LEMMA PresentFinite == IsFiniteSet(Present) /\ Cardinality(Present) \in Nat
BY DigestsAssumption, FS_Subset, FS_CardinalityType DEF Present

\* A cache that loses artifacts does not grow.
LEMMA Shrinks ==
  ASSUME Present' \subseteq Present
  PROVE  Cardinality(Present') \in Nat /\ Cardinality(Present') <= Cardinality(Present)
BY PresentFinite, FS_Subset, FS_CardinalityType

\* Only what is installed adds to the artifacts, one at a time.
LEMMA OnlyInstallAdds ==
  ASSUME IInv, [Next]_vars, ~ \E c \in Commands, d \in Digests : Install(c, d)
  PROVE  Present' \subseteq Present
<1> USE DEF IInv, TypeOK, Present, cache, locals, Missing, Ends, Forgets, Step
<1>1. ASSUME NEW c \in Commands, PruneFirst(c) \/ FinalPrune(c) PROVE Present' \subseteq Present
  BY <1>1 DEF PruneFirst, FinalPrune, Prune
<1>2. ASSUME NEW c \in Commands, TouchOld(c) \/ Rollback(c) \/ RemoveEntry(c)
      PROVE  Present' \subseteq Present
  BY <1>2 DEF TouchOld, Rollback, RemoveEntry
<1>3. CASE Tick
  <2>1. \A d \in Digests : artifact'[d].content = artifact[d].content
    BY <1>3 DEF Tick
  <2>. QED
    BY <2>1
<1>4. ASSUME NEW d \in Digests, Damage(d) PROVE Present' \subseteq Present
  BY <1>4 DEF Damage
<1>5. ASSUME artifact' = artifact PROVE Present' \subseteq Present
  BY <1>5
<1>6. ASSUME NEW c \in Commands,
             \/ \E op \in Operations : Load(c, op)
             \/ Acquire(c) \/ AlreadyRunning(c) \/ Resolve(c)
             \/ Package(c) \/ BeginIndex(c) \/ WriteIndex(c)
             \/ SaveAdded(c) \/ RemoveDone(c) \/ SaveRemoved(c) \/ Errs(c) \/ Killed(c)
      PROVE  artifact' = artifact
  BY <1>6 DEF Load, Acquire, AlreadyRunning, Resolve, Package, BeginIndex, WriteIndex,
     SaveAdded, RemoveDone, SaveRemoved, Errs, RefreshFails, SaveAddedFails, RemoveFails, Killed
<1> QED
  BY <1>1, <1>2, <1>3, <1>4, <1>5, <1>6 DEF Next, Proceed, LoadIndex, vars

\* A command comes to a measured stage from one, or by measuring.
LEMMA Measures ==
  ASSUME IInv, NEW c \in Commands, Acts(c), pc'[c] \in Measured, pc[c] \notin Measured
  PROVE  Cardinality(Present') <= Capacity
<1>1. PruneFirst(c)
  BY DEF IInv, TypeOK, Acts, Proceed, Errs, Measured, Step, Ends, Forgets, Load, Acquire, AlreadyRunning,
     Resolve, Package, Install, TouchOld, BeginIndex, WriteIndex, FinalPrune, Rollback,
     SaveAdded, RemoveEntry, Holding,
     RemoveDone, SaveRemoved, RefreshFails, SaveAddedFails, RemoveFails, Killed, locals
<1>2. ~ Full(artifact')
  BY <1>1 DEF PruneFirst, Step, Measured, IInv, TypeOK
<1>3. Full(artifact') <=> Cardinality(Present') > Capacity
  BY DEF Full, Present
<1>4. Cardinality(Present') \in Nat
  <2>1. ~ \E d \in Digests, h \in Commands : Install(h, d)
    BY <1>1 DEF PruneFirst, Install, Step, IInv, TypeOK
  <2>. QED
    BY <2>1, OnlyInstallAdds, Shrinks DEF Next, Acts
<1> QED
  BY <1>2, <1>3, <1>4, BoundsAssumption

\* Every step keeps the bound.
LEMMA BoundStep == IInv /\ BoundInv /\ [Next]_vars => BoundInv'
<1> SUFFICES ASSUME IInv, BoundInv, [Next]_vars PROVE BoundInv'
  OBVIOUS
<1>1. ASSUME NEW c \in Commands, NEW d \in Digests, Install(c, d) PROVE BoundInv'
  <2>1. /\ pc[c] = "packaged" /\ Cardinality(Present) <= Capacity
        /\ Present' \subseteq Present \union {d}
    BY <1>1 DEF Install, Installed, Step, BoundInv, Measured, IInv, TypeOK, Present
  <2>2. Cardinality(Present') \in Nat /\ Cardinality(Present') <= Capacity + 1
    <3>1. /\ IsFiniteSet(Present \union {d})
          /\ Cardinality(Present \union {d}) \in Nat
          /\ Cardinality(Present \union {d}) <= Cardinality(Present) + 1
      <4>1. /\ IsFiniteSet(Present \union {d})
            /\ \/ Cardinality(Present \union {d}) = Cardinality(Present)
               \/ Cardinality(Present \union {d}) = Cardinality(Present) + 1
        BY PresentFinite, FS_AddElement
      <4>. QED
        BY <4>1, PresentFinite
    <3>2. Cardinality(Present') \in Nat /\ Cardinality(Present') <= Cardinality(Present \union {d})
      BY <2>1, <3>1, FS_Subset, FS_CardinalityType
    <3>. QED
      BY <2>1, <3>1, <3>2, PresentFinite, BoundsAssumption
  <2>3. pc'[c] \in Measured => Cardinality(Present') <= Capacity
    <3>1. pc'[c] = "packaging" <=> ~ Full(artifact')
      BY <1>1 DEF Install, Step, IInv, TypeOK
    <3>2. Full(artifact') <=> Cardinality(Present') > Capacity
      BY DEF Full, Present
    <3>3. pc'[c] \in {"packaging", "failing"}
      BY <1>1 DEF Install, Step, IInv, TypeOK
    <3>. QED
      BY <2>2, <3>1, <3>2, <3>3, BoundsAssumption DEF Measured
  <2>4. \A h \in Commands \ {c} : pc'[h] \notin Measured
    <3>1. OthersSame(c)
      BY <1>1, ActsAlone DEF IInv, Acts, Proceed
    <3>. QED
      BY <2>1, <3>1 DEF OthersSame, IInv, Excludes, Locked, Measured
  <2>. QED
    BY <2>2, <2>3, <2>4 DEF BoundInv
<1>2. ASSUME ~ \E c \in Commands, d \in Digests : Install(c, d) PROVE BoundInv'
  <2>1. Cardinality(Present') \in Nat /\ Cardinality(Present') <= Cardinality(Present)
    BY <1>2, OnlyInstallAdds, Shrinks
  <2>2. ASSUME NEW h \in Commands, pc'[h] \in Measured PROVE Cardinality(Present') <= Capacity
    <3>1. CASE pc[h] \in Measured
      BY <2>1, <3>1, PresentFinite, BoundsAssumption DEF BoundInv
    <3>2. CASE pc[h] \notin Measured
      <4>1. Acts(h)
        <5>1. ASSUME NEW c \in Commands, Acts(c), c # h PROVE FALSE
          BY <2>2, <3>2, <5>1, ActsAlone DEF OthersSame, IInv
        <5>2. ASSUME UNCHANGED pc PROVE FALSE
          BY <2>2, <3>2, <5>2
        <5>. QED
          BY <5>1, <5>2 DEF Next, Acts, LoadIndex, Tick, Damage, locals, vars
      <4>. QED
        BY <2>2, <3>2, <4>1, Measures
    <3>. QED
      BY <3>1, <3>2
  <2>. QED
    BY <2>1, <2>2, PresentFinite, BoundsAssumption DEF BoundInv
<1> QED
  BY <1>1, <1>2

\* The artifacts never exceed their limit by more than one, and an index is only
\* published beside artifacts within it.  The limit counts nothing else.
THEOREM CacheAlwaysBounded == Spec => []CacheBounded
<1>1. Init => BoundInv
  <2> SUFFICES ASSUME Init PROVE BoundInv
    OBVIOUS
  <2>1. Present = {}
    BY DEF Init, Present, Missing
  <2>2. Cardinality(Present) = 0
    BY <2>1, FS_EmptySet
  <2>. QED
    BY <2>2, BoundsAssumption DEF BoundInv
<1>2. BoundInv => CacheBounded
  BY DEF BoundInv, CacheBounded, Measured
<1> QED
  BY <1>1, <1>2, BoundStep, AlwaysIInv, PTL DEF Spec

=============================================================================
