-------------------------- MODULE GitPreviewCache --------------------------
(***************************************************************************)
(* The cache of a Git preview registry (pkg/registry/git.go, fetch.go,     *)
(* cmd/vaka/registry_cmd.go): one index naming the artifacts of a commit,  *)
(* and the artifacts, by digest.  registry refresh, add-git and remove     *)
(* write it under a lock; vaka get reads the index and later opens an      *)
(* artifact without one, relying on the grace period of unreferenced       *)
(* artifacts.                                                              *)
(***************************************************************************)
EXTENDS Integers, FiniteSets

CONSTANTS
  Commands,   \* vaka registry processes
  Readers,    \* vaka get processes
  Commits,    \* what the registry's ref may point to
  Digests,    \* packaged recipes
  Ships,      \* the artifacts of each commit
  Capacity,   \* maxGitArtifactCacheBytes: how many artifacts fit
  Grace,      \* gitArtifactGracePeriod
  Operations, \* a subset of {"refresh", "add", "remove"}
  Failures,   \* a subset of {"error", "kill", "damage"}
  MaxAbandoned, \* bound: how many temporary files kills may leave
  None

ASSUME ShipsAssumption == Ships \in [Commits -> SUBSET Digests \ {{}}]

ASSUME BoundsAssumption == Capacity \in Nat /\ Grace \in Nat /\ MaxAbandoned \in Nat

ASSUME DigestsAssumption == IsFiniteSet(Digests)

ASSUME OperationsAssumption == Operations \subseteq {"refresh", "add", "remove"}

ASSUME NoneAssumption == None \notin Commands \union Commits

VARIABLES
  configured, \* the registry is in the configuration file
  index,      \* the commit cache.yaml was generated from, or None
  scratch,    \* how many temporary files lie beside them: archives and indexes
  artifact,   \* each artifact: its modification time's age, and its content
  flock,      \* the holder of the refresh lock, or None
  pc, doing,  \* where each command is, and which it is
  old,        \* the artifacts of the index a refresh found
  commit,     \* the commit it resolved
  todo,       \* the artifacts it still has to package
  created,    \* those it created, to be removed if it fails
  reader,     \* the index each get loaded, and how long ago, while it may rely on it
  torn,       \* ghost: a removal took part of the cache away
  abandoned,  \* ghost: how many of the temporary files a killed command left
  damaged     \* ghost: artifacts damaged on the disk, not repaired since

cache == <<index, artifact, torn>>
temps == <<scratch, abandoned>>
locals == <<pc, doing, old, commit, todo, created>>
vars == <<configured, cache, temps, flock, locals, reader, damaged>>

\* Ages are counted in units of time, up to one past the grace period.
Ages == 0 .. Grace + 1

Missing == [age |-> 0, content |-> "missing"]

Stages == {"idle", "loaded", "locked", "pruned", "packaging", "packaged", "touched",
           "writing", "written", "failing", "saving", "removed"}

\* Those at which a refresh has a temporary file.
Holding == {"packaged", "writing"}

TypeOK ==
  /\ configured \in BOOLEAN
  /\ index \in Commits \union {None}
  /\ artifact \in [Digests -> [age : Ages, content : {"missing", "good", "bad"}]]
  /\ flock \in Commands \union {None}
  /\ pc \in [Commands -> Stages]
  /\ doing \in [Commands -> {"refresh", "add", "remove", "undo"}]
  /\ old \in [Commands -> SUBSET Digests]
  /\ commit \in [Commands -> Commits \union {None}]
  /\ todo \in [Commands -> SUBSET Digests]
  /\ created \in [Commands -> SUBSET Digests]
  /\ reader \in [Readers -> [index : Commits \union {None}, age : 0 .. Grace]]
  /\ torn \in BOOLEAN
  /\ scratch \in Nat /\ abandoned \in Nat
  /\ damaged \subseteq Digests

-----------------------------------------------------------------------------
Present == {d \in Digests : artifact[d].content # "missing"}

OldDigests == IF index = None THEN {} ELSE Ships[index]

\* pruneGitArtifacts: what is not kept goes once it is older than the grace period.
Prune(keep) ==
  [d \in Digests |->
     IF d \notin keep /\ artifact[d].age > Grace THEN Missing ELSE artifact[d]]

\* Bug: the cache is measured before the artifact is added.
Full_Before(store) == Cardinality({d \in Digests : store[d].content # "missing"}) > Capacity + 1

\* checkGitArtifactCache
Full(store) == Cardinality({d \in Digests : store[d].content # "missing"}) > Capacity

NoReader == [index |-> None, age |-> 0]

Init ==
  /\ configured \in BOOLEAN
  /\ index = None /\ artifact = [d \in Digests |-> Missing]
  /\ flock = None
  /\ pc = [c \in Commands |-> "idle"]
  /\ doing = [c \in Commands |-> "refresh"]
  /\ old = [c \in Commands |-> {}]
  /\ commit = [c \in Commands |-> None]
  /\ todo = [c \in Commands |-> {}]
  /\ created = [c \in Commands |-> {}]
  /\ reader = [r \in Readers |-> NoReader]
  /\ torn = FALSE /\ damaged = {}
  /\ scratch = 0 /\ abandoned = 0

Step(c, from, to) ==
  /\ pc[c] = from
  /\ pc' = [pc EXCEPT ![c] = to]

\* buildGitIndex returns.
Forgets(c) ==
  /\ old' = [old EXCEPT ![c] = {}]
  /\ commit' = [commit EXCEPT ![c] = None]
  /\ todo' = [todo EXCEPT ![c] = {}]
  /\ created' = [created EXCEPT ![c] = {}]

\* A command returns, or is killed; the kernel drops its lock.
Ends(c) ==
  /\ pc' = [pc EXCEPT ![c] = "idle"]
  /\ doing' = [doing EXCEPT ![c] = "refresh"]
  /\ Forgets(c)
  /\ flock' = IF flock = c THEN None ELSE flock

\* The configuration is loaded; refresh and remove need the registry in it,
\* add-git needs its name free.
Load(c, op) ==
  /\ op \in Operations
  /\ configured = (op \in {"refresh", "remove"})
  /\ Step(c, "idle", "loaded")
  /\ doing' = [doing EXCEPT ![c] = op]
  /\ UNCHANGED <<configured, temps, cache, flock, old, commit, todo, created,
                 reader, damaged>>

Acquire(c) ==
  /\ flock = None
  /\ Step(c, "loaded", "locked")
  /\ flock' = c
  /\ UNCHANGED <<configured, temps, cache, doing, old, commit, todo, created,
                 reader, damaged>>

AlreadyRunning(c) ==
  /\ pc[c] = "loaded"
  /\ flock # None
  /\ Ends(c)
  /\ UNCHANGED <<configured, temps, cache, reader, damaged>>

-----------------------------------------------------------------------------
Refreshing(c) == doing[c] \in {"refresh", "add"}

\* Bug: only a refresh that succeeds prunes.
PruneFirst_Skipped(c) ==
  /\ Refreshing(c)
  /\ Step(c, "locked", IF Full(artifact) THEN "failing" ELSE "pruned")
  /\ old' = [old EXCEPT ![c] = OldDigests]
  /\ UNCHANGED <<configured, temps, cache, flock, doing, commit, todo, created,
                 reader, damaged>>

PruneFirst(c) ==
  /\ Refreshing(c)
  /\ old' = [old EXCEPT ![c] = OldDigests]
  /\ artifact' = Prune(OldDigests)
  /\ Step(c, "locked", IF Full(artifact') THEN "failing" ELSE "pruned")
  /\ UNCHANGED <<configured, temps, index, torn, flock, doing, commit, todo,
                 created, reader, damaged>>

\* The remote ref may point to any commit by now.
Resolve(c) ==
  /\ Step(c, "pruned", "packaging")
  /\ \E k \in Commits :
       /\ commit' = [commit EXCEPT ![c] = k]
       /\ todo' = [todo EXCEPT ![c] = Ships[k]]
  /\ UNCHANGED <<configured, temps, cache, flock, doing, old, created, reader,
                 damaged>>

\* packageGitRecipe: a recipe becomes an archive beside the artifacts.
Package(c) ==
  /\ todo[c] # {}
  /\ Step(c, "packaging", "packaged")
  /\ scratch' = scratch + 1
  /\ UNCHANGED <<configured, cache, abandoned, flock, doing, old, commit, todo,
                 created, reader, damaged>>

Installed(c, d) ==
  IF artifact[d].content = "good"
  THEN UNCHANGED <<artifact, created>>
  ELSE /\ artifact' = [artifact EXCEPT ![d] = [age |-> 0, content |-> "good"]]
       /\ created' = [created EXCEPT ![c] = @ \union {d}]

\* Bug: where a good artifact is there already, the archive stays.
Install_Leaves(c, d) ==
  /\ d \in todo[c]
  /\ todo' = [todo EXCEPT ![c] = @ \ {d}]
  /\ Installed(c, d)
  /\ scratch' = IF artifact[d].content = "good" THEN scratch ELSE scratch - 1
  /\ Step(c, "packaged", IF Full(artifact') THEN "failing" ELSE "packaging")
  /\ UNCHANGED <<configured, index, torn, abandoned, flock, doing, old, commit,
                 reader, damaged>>

\* The archive is validated, then renamed into place, or removed where a good
\* artifact is there.  Which recipe has which digest is arbitrary, and so is
\* their order here.
Install(c, d) ==
  /\ d \in todo[c]
  /\ todo' = [todo EXCEPT ![c] = @ \ {d}]
  /\ Installed(c, d)
  /\ scratch' = scratch - 1
  /\ Step(c, "packaged", IF Full(artifact') THEN "failing" ELSE "packaging")
  /\ UNCHANGED <<configured, index, torn, abandoned, flock, doing, old, commit,
                 reader, damaged>>

\* Bug: the artifacts the index named are not given a new grace period.
TouchOld_Skipped(c) ==
  /\ todo[c] = {}
  /\ Step(c, "packaging", "touched")
  /\ UNCHANGED <<configured, temps, cache, flock, doing, old, commit, todo,
                 created, reader, damaged>>

TouchOld(c) ==
  /\ todo[c] = {}
  /\ Step(c, "packaging", "touched")
  /\ artifact' = [d \in Digests |->
       IF d \in old[c] THEN [age |-> 0, content |-> artifact[d].content] ELSE artifact[d]]
  /\ UNCHANGED <<configured, temps, index, torn, flock, doing, old, commit, todo,
                 created, reader, damaged>>

\* writeIndexCache: a temporary file, renamed into place.
BeginIndex(c) ==
  /\ Step(c, "touched", "writing")
  /\ scratch' = scratch + 1
  /\ UNCHANGED <<configured, cache, abandoned, flock, doing, old, commit, todo,
                 created, reader, damaged>>

WriteIndex(c) ==
  /\ Step(c, "writing", "written")
  /\ scratch' = scratch - 1
  /\ index' = commit[c]
  /\ torn' = FALSE
  /\ damaged' = {d \in damaged : d \in Ships[commit[c]] => artifact[d].content # "good"}
  /\ UNCHANGED <<configured, artifact, abandoned, flock, doing, old, commit, todo,
                 created, reader>>

\* add-git goes on to save the configuration, no longer holding the lock.
FinalPrune(c) ==
  /\ pc[c] = "written"
  /\ artifact' = Prune(Ships[commit[c]])
  /\ IF doing[c] = "refresh"
     THEN Ends(c)
     ELSE /\ Step(c, "written", "saving")
          /\ Forgets(c)
          /\ flock' = None
          /\ UNCHANGED doing
  /\ UNCHANGED <<configured, temps, index, torn, reader, damaged>>

\* Git, the network, a recipe that does not validate, an I/O error: whatever
\* fails takes its temporary file with it.
RefreshFails(c) ==
  /\ "error" \in Failures
  /\ Refreshing(c)
  /\ \E from \in {"locked", "pruned", "packaging", "touched"} \union Holding :
       Step(c, from, "failing")
  /\ scratch' = IF pc[c] \in Holding THEN scratch - 1 ELSE scratch
  /\ UNCHANGED <<configured, cache, abandoned, flock, doing, old, commit, todo,
                 created, reader, damaged>>

\* Bug: every artifact of the commit is removed.
Rollback_All(c) ==
  /\ pc[c] = "failing"
  /\ artifact' = [d \in Digests |->
       IF commit[c] # None /\ d \in Ships[commit[c]] \ todo[c] THEN Missing ELSE artifact[d]]
  /\ Ends(c)
  /\ UNCHANGED <<configured, temps, index, torn, reader, damaged>>

\* The artifacts it created go; the index stays, and is served as stale.
Rollback(c) ==
  /\ pc[c] = "failing"
  /\ artifact' = [d \in Digests |-> IF d \in created[c] THEN Missing ELSE artifact[d]]
  /\ Ends(c)
  /\ UNCHANGED <<configured, temps, index, torn, reader, damaged>>

SaveAdded(c) ==
  /\ pc[c] = "saving"
  /\ configured' = TRUE
  /\ Ends(c)
  /\ UNCHANGED <<cache, temps, reader, damaged>>

\* The configuration cannot be saved: the generated cache is removed.
SaveAddedFails(c) ==
  /\ "error" \in Failures
  /\ Step(c, "saving", "loaded")
  /\ doing' = [doing EXCEPT ![c] = "undo"]
  /\ UNCHANGED <<configured, temps, cache, flock, old, commit, todo, created,
                 reader, damaged>>

-----------------------------------------------------------------------------
Removing(c) == doing[c] \in {"remove", "undo"} /\ pc[c] = "locked"

\* os.RemoveAll, entry by entry in the directory's order.
RemoveEntry(c) ==
  /\ Removing(c)
  /\ \/ index # None /\ index' = None /\ UNCHANGED <<artifact, temps>>
     \/ /\ \E d \in Present : artifact' = [artifact EXCEPT ![d] = Missing]
        /\ UNCHANGED <<index, temps>>
     \/ /\ scratch > 0
        /\ scratch' = scratch - 1 /\ abandoned' = abandoned - 1
        /\ UNCHANGED <<index, artifact>>
  /\ torn' = TRUE
  /\ reader' = [r \in Readers |-> NoReader]
  /\ UNCHANGED <<configured, flock, locals, damaged>>

RemoveDone(c) ==
  /\ Removing(c)
  /\ index = None /\ Present = {} /\ scratch = 0
  /\ IF doing[c] = "undo"
     THEN Ends(c)
     ELSE /\ Step(c, "locked", "removed")
          /\ flock' = None
          /\ UNCHANGED <<doing, old, commit, todo, created>>
  /\ UNCHANGED <<configured, temps, cache, reader, damaged>>

RemoveFails(c) ==
  /\ "error" \in Failures
  /\ Removing(c)
  /\ Ends(c)
  /\ UNCHANGED <<configured, temps, cache, reader, damaged>>

SaveRemoved(c) ==
  /\ pc[c] = "removed"
  /\ configured' = FALSE
  /\ Ends(c)
  /\ UNCHANGED <<cache, temps, reader, damaged>>

Proceed(c) ==
  \/ Acquire(c) \/ AlreadyRunning(c)
  \/ PruneFirst(c) \/ Resolve(c) \/ Package(c)
  \/ (\E d \in Digests : Install(c, d))
  \/ TouchOld(c) \/ BeginIndex(c) \/ WriteIndex(c) \/ FinalPrune(c) \/ Rollback(c)
  \/ SaveAdded(c) \/ RemoveEntry(c) \/ RemoveDone(c) \/ SaveRemoved(c)

Errs(c) == RefreshFails(c) \/ SaveAddedFails(c) \/ RemoveFails(c)

\* Nobody else knows the temporary file of a killed command.
Killed(c) ==
  /\ "kill" \in Failures
  /\ pc[c] # "idle"
  /\ pc[c] \in Holding => abandoned < MaxAbandoned
  /\ abandoned' = IF pc[c] \in Holding THEN abandoned + 1 ELSE abandoned
  /\ Ends(c)
  /\ UNCHANGED <<configured, cache, scratch, reader, damaged>>

-----------------------------------------------------------------------------
\* get loads the index, and opens one of its artifacts later.  It may rely on
\* them for the grace period, and not once the registry is being removed.
LoadIndex(r) ==
  /\ index # None /\ ~ torn
  /\ reader' = [reader EXCEPT ![r] = [index |-> index, age |-> 0]]
  /\ UNCHANGED <<configured, temps, cache, flock, locals, damaged>>

\* Time passes, but not between the touch of the old artifacts and the rename
\* of the new index.
Tick ==
  /\ \A c \in Commands : pc[c] \notin {"touched", "writing"}
  /\ artifact' = [d \in Digests |->
       IF d \in Present /\ artifact[d].age <= Grace
       THEN [age |-> artifact[d].age + 1, content |-> artifact[d].content]
       ELSE artifact[d]]
  /\ reader' = [r \in Readers |->
       IF reader[r].index # None /\ reader[r].age < Grace
       THEN [index |-> reader[r].index, age |-> reader[r].age + 1] ELSE NoReader]
  /\ UNCHANGED <<configured, temps, index, torn, flock, locals, damaged>>

Damage(d) ==
  /\ "damage" \in Failures
  /\ artifact[d].content = "good"
  /\ artifact' = [artifact EXCEPT ![d] = [age |-> @.age, content |-> "bad"]]
  /\ damaged' = damaged \union {d}
  /\ UNCHANGED <<configured, temps, index, torn, flock, locals, reader>>

Next ==
  \/ \E c \in Commands :
       (\E op \in Operations : Load(c, op)) \/ Proceed(c) \/ Errs(c) \/ Killed(c)
  \/ \E r \in Readers : LoadIndex(r)
  \/ Tick \/ \E d \in Digests : Damage(d)

Spec == Init /\ [][Next]_vars

\* A started command runs on, refresh is run again and again, and time passes.
FairSpec ==
  /\ Spec
  /\ \A c \in Commands : WF_vars(Proceed(c)) /\ WF_vars(Load(c, "refresh"))
  /\ WF_vars(Tick)

-----------------------------------------------------------------------------
Available(d) == artifact[d].content = "good" \/ d \in damaged

\* "A failed refresh never destroys the last complete cache" (git.go:100), nor
\* does one that is killed or that races with a removal: whatever the index
\* names is there, unless a removal was interrupted or the disk damaged it.
IndexComplete ==
  index # None /\ ~ torn => \A d \in Ships[index] : Available(d)

\* A get that loaded an index can open its artifacts for a full grace period,
\* however many refreshes run meanwhile (git.go:212), unless the registry is
\* being removed.
GraceHonoured ==
  \A r \in Readers :
    reader[r].index # None =>
      \A d \in Ships[reader[r].index] : Available(d)

\* Kills leave artifacts no index names, but those do not pile up: there is never
\* more than one artifact above the limit, and an index is only published beside
\* artifacts within it (git.go:183).  Of artifacts only: no limit counts what
\* OnlyKillsLeaveFiles is about.
CacheBounded ==
  /\ Cardinality(Present) <= Capacity + 1
  /\ \A c \in Commands :
       pc[c] \in {"touched", "writing", "written"} => Cardinality(Present) <= Capacity

\* However refreshes and removals succeed, fail and race, the temporary files in
\* the cache are the one of the refresh at work and those of killed ones, which
\* nothing takes away again but a removal, and one that is done leaves none
\* (packageGitRecipe, installGitArtifact, writeIndexCache, RemoveCache).
OnlyKillsLeaveFiles ==
  /\ scratch # abandoned =>
       scratch = abandoned + 1 /\ \E c \in Commands : pc[c] \in Holding
  /\ \A c \in Commands : pc[c] \in Holding => scratch = abandoned + 1

Quiet ==
  <>[][/\ \A c \in Commands : ~ Errs(c) /\ ~ Killed(c)
       /\ \A d \in Digests : ~ Damage(d)]_vars

\* Once nothing fails, refreshing a registry that stays configured succeeds time
\* and again, however full of leftovers the cache is: they are reclaimed as they
\* outlive the grace period.
RefreshSucceeds ==
  Quiet /\ <>[]configured => []<>(\E c \in Commands : pc[c] = "written")

=============================================================================
