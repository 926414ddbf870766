--------------------------- MODULE ComposeRunProofs ---------------------------
(***************************************************************************)
(* Proofs about ComposeRun: what the containers that docker compose makes  *)
(* run, what doctor vouches for, what the clean-up of an old vaka removes  *)
(* and leaves, and that commands come nearer to their end.                 *)
(***************************************************************************)
EXTENDS ComposeRun, FiniteSetTheorems, WellFoundedInduction, TLAPS

\* Where a command still has to inspect the services, and where it inspected them.
Early == {"checking", "prebuilding", "building"}
Before == Early \union {"inspecting"}
Resolving == {"resolving", "verifying", "fetching"}
Ready == {"capturing", "looking", "executing"}

\* A command that creates containers, with entrypoints and a vaka-init for them.
Renders(c) == call[c].verb # "doctor" /\ Injects(c)

\* The target was checked before anything of the project was looked at.
Checked(c) ==
  /\ pc[c] \in {"prebuilding", "building", "inspecting"} => Renders(c)
  /\ Renders(c) /\ pc[c] \notin {"idle", "checking"} => Compatible(platform)
  /\ pc[c] \in {"checking"} \union Ready => call[c].verb # "doctor"
  /\ pc[c] \in {"probing", "reporting"} => call[c].verb = "doctor"

\* What it knows of the runtime image.
Runtime(c) ==
  /\ image[c] # None => Acceptable(image[c])
  /\ pc[c] \in {"idle"} \union Before => image[c] = None
  /\ pc[c] = "verifying" => image[c] # None
  /\ Renders(c) /\ pc[c] \in Ready =>
       /\ image[c] # None => image[c] \in store \union changed[c]
       /\ image[c] # None \/ call[c].present \/ \A s \in Services : Declared[s].optOut

\* Where the entrypoint of a service comes from, once it was inspected.
Read(c) ==
  /\ pc[c] \in {"idle"} \union Early => entry[c] = [s \in Services |-> None]
  /\ pc[c] = "inspecting" =>
       \A s \in Services : entry[c][s] = None <=> s \in todo[c]
  /\ Renders(c) /\ pc[c] \in Resolving \union Ready => \A s \in Services : entry[c][s] # None
  /\ \A s \in Services : entry[c][s] \in Images =>
       /\ NeedsImageFallback(s)
       /\ Declared[s].pinned => entry[c][s] \in Upstream[s]

\* Unless others changed it meanwhile, a service's image is the one that was inspected, and
\* what a build that was asked for gives.
Stable(c) ==
  /\ pc[c] = "building" => \A s \in todo[c] : NeedsImageFallback(s) /\ Declared[s].build
  /\ pc[c] = "building" /\ call[c].build =>
       \A s \in Services : NeedsImageFallback(s) /\ Declared[s].build => s \in todo[c]
  /\ Renders(c) /\ pc[c] \in {"inspecting"} \union Resolving \union Ready =>
     \A s \in Services \ changed[c] :
       /\ NeedsImageFallback(s) /\ Declared[s].build /\ call[c].build => tags[s] = output[s]
       /\ entry[c][s] \in Images => tags[s] = entry[c][s]

\* What the checks of doctor tell.
Probed(c) ==
  /\ \A k \in CheckNames \ {"image"} : results[c][k] = "ok" => Holds(k)
  /\ \A k \in {"engine", "compose", "linux"} : results[c][k] # "skipped"
  /\ results[c]["mounts"] = "skipped" =>
       \E k \in {"engine", "compose", "linux"} : results[c][k] = "failed"
  /\ results[c]["image"] = "skipped" =>
       \E k \in {"engine", "compose"} : results[c][k] = "failed"
  /\ results[c]["image"] = "ok" => image[c] # None
  /\ pc[c] \notin {"probing", "reporting"} => results[c]["image"] # "ok"
  /\ pc[c] = "reporting" => \A k \in CheckNames : results[c][k] # "pending"

\* The images of a digest never change.
Pinned ==
  \A s \in Services : Declared[s].pinned => tags[s] \in Upstream[s] \union {None}

\* What holds of the host, and of a command.
HostRun ==
  /\ Pinned /\ ContainersManaged /\ EntrypointMatches
  /\ \A s \in Services : output[s] \in Outputs[s]

OwnRun(c) == Checked(c) /\ Runtime(c) /\ Read(c) /\ Stable(c) /\ Probed(c)

RunInv == TypeOK /\ HostRun /\ \A c \in Commands : OwnRun(c)

-----------------------------------------------------------------------------
\* Where a command cleans up a volume.
Cleaning == {"removing", "rechecking", "deleting"}

At(c) == volume[c].at

\* A captured helper has the volume it was captured with, if it is still there.
Kept(c) ==
  /\ \A p \in found[c] \union legacy[c] : containers[p[1]] # None => containers[p[1]].volume = p[2]
  /\ \A p \in legacy[c] : containers[p[1]] # None => volumes[p[2]] = "anonymous"
  /\ pc[c] # "looking" => found[c] = {}
  /\ pc[c] \notin {"looking", "executing", "listing"} \union Cleaning => legacy[c] = {}
  /\ left[c] \subseteq Captured(c)
  /\ pc[c] \in Before \union Resolving \union {"probing"} => call[c].verb # "down"

\* The volume that is cleaned up, of the captured ones, and the helpers it had.
Placed(c) ==
  /\ pc[c] \notin Cleaning => volume[c] = NoVolume
  /\ pc[c] \in Cleaning => At(c) \in left[c] /\ \A h \in volume[c].helpers : <<h, At(c)>> \in legacy[c]
  /\ pc[c] \in {"rechecking", "deleting"} => volume[c].helpers = {} /\ ~ volume[c].kept
  /\ pc[c] = "deleting" => volumes[At(c)] # "named"

HelperOn(h, v) == containers[h] # None /\ containers[h].volume = v

\* The volumes of which NothingStranded speaks.
Watched ==
  {v \in HexNamed : /\ v \notin stray /\ volumes[v] = "anonymous"
                    /\ \E h \in OldImage : begun.mounted[h] = v}

\* Such a volume has a helper, or a clean-up at work that has failed to remove none.
Reached(v) ==
  \/ \E h \in OldImage : HelperOn(h, v)
  \/ \E c \in Commands : At(c) = v /\ ~ volume[c].kept

\* A clean-up that has kept a helper has not removed the last one itself.
Deferred(c) ==
  At(c) \in Watched /\ volume[c].kept =>
    \/ \E h \in OldImage \ volume[c].helpers : HelperOn(h, At(c))
    \/ \E d \in Commands \ {c} : At(d) = At(c) /\ ~ volume[d].kept

\* Nobody else uses a volume that is cleaned up.
Alone(c) ==
  At(c) \in Watched /\ ~ volume[c].kept => Users(At(c)) \subseteq volume[c].helpers

\* A command that removes orphans has missed no helper.
Missing(c) ==
  pc[c] \in {"looking", "executing"} /\ call[c].orphans =>
    \A v \in Watched : \/ \E p \in found[c] \union legacy[c] : p[2] = v
                       \/ \A h \in OldImage : ~ HelperOn(h, v)

\* What relates the clean-ups of several commands.
Across ==
  /\ \A v \in Watched : Reached(v)
  /\ \A c \in Commands : Deferred(c) /\ Alone(c)
  /\ \A c, d \in Commands :
       c # d /\ At(c) = At(d) /\ At(c) \in Watched => ~ (volume[c].kept /\ volume[d].kept)

CleanupInv == TypeOK /\ Across /\ \A c \in Commands : Kept(c) /\ Placed(c) /\ Missing(c)

-----------------------------------------------------------------------------
\* The types of what the host holds, and of what a command does.
HostTyped ==
  /\ begun \in Beginnings
  /\ tags \in [Tags -> Images \union {None}] /\ store \subseteq Images
  /\ output \in [Services -> Images]
  /\ containers \in [Containers -> ContainerStates \union {None}]
  /\ volumes \in [Volumes -> {"anonymous", "named", "gone"}]
  /\ changed \in [Commands -> SUBSET (Tags \union Images)]
  /\ stray \subseteq Volumes /\ changes \in 0 .. begun.changes

LocalTyped ==
  /\ pc \in [Commands -> Stages] /\ call \in [Commands -> Calls]
  /\ todo \in [Commands -> SUBSET Services] /\ pulled \in [Commands -> SUBSET Services]
  /\ entry \in [Commands -> [Services -> Images \union {None, "compose"}]]
  /\ attempt \in [Commands -> {"none", "pulled", "refreshed", "probed", "again"}]
  /\ image \in [Commands -> Images \union {None}]
  /\ found \in [Commands -> SUBSET (OldImage \X HexNamed)]
  /\ legacy \in [Commands -> SUBSET (OldImage \X HexNamed)]
  /\ left \in [Commands -> SUBSET HexNamed]
  /\ volume \in [Commands -> [at : Volumes \union {None}, helpers : SUBSET OldImage,
                              kept : BOOLEAN]]
  /\ results \in [Commands -> [CheckNames -> {"pending", "ok", "failed", "skipped"}]]

LEMMA Typed == TypeOK <=> HostTyped /\ LocalTyped
BY DEF TypeOK, HostTyped, LocalTyped

\* A step leaves a command where it is, and a step of one command leaves the others.
Still(d) ==
  /\ pc'[d] = pc[d] /\ call'[d] = call[d] /\ todo'[d] = todo[d] /\ pulled'[d] = pulled[d]
  /\ entry'[d] = entry[d] /\ attempt'[d] = attempt[d] /\ image'[d] = image[d]
  /\ found'[d] = found[d] /\ legacy'[d] = legacy[d] /\ left'[d] = left[d]
  /\ volume'[d] = volume[d] /\ results'[d] = results[d]

Apart(c) == \A d \in Commands \ {c} : Still(d)

\* What a step of a command gives: the types, and that it leaves the others.
Goes(c) == HostTyped' /\ LocalTyped' /\ Apart(c)

LEMMA CallTyped ==
  ASSUME TypeOK, NEW c \in Commands, NEW k \in begun.calls[c]
  PROVE  k \in Calls
BY DEF TypeOK, Calls

LEMMA CheckList ==
  /\ DOMAIN Checks = 1 .. 8 /\ Len(Checks) = 8
  /\ CheckNames = {"cli", "engine", "compose", "linux", "mode", "mounts", "image", "context"}
BY DEF Checks, CheckNames

LEMMA EndsGoes ==
  ASSUME TypeOK, NEW c \in Commands, Ends(c)
  PROVE  LocalTyped' /\ Apart(c)
<1>1. /\ NoCall \in Calls /\ [s \in Services |-> None] \in [Services -> Images \union {None, "compose"}]
      /\ NoVolume \in [at : Volumes \union {None}, helpers : SUBSET OldImage, kept : BOOLEAN]
      /\ Unchecked \in [CheckNames -> {"pending", "ok", "failed", "skipped"}]
  BY DEF Calls, NoVolume, Unchecked
<1>2. LocalTyped'
  BY <1>1 DEF Ends, TypeOK, LocalTyped, Stages
<1>3. Apart(c)
  BY DEF Ends, TypeOK, Apart, Still
<1>. QED
  BY <1>2, <1>3

LEMMA StartGoes ==
  ASSUME TypeOK, NEW c \in Commands, Start(c)
  PROVE  Goes(c)
<1>1. PICK k \in begun.calls[c] :
        /\ call' = [call EXCEPT ![c] = k]
        /\ \/ pc' = [pc EXCEPT ![c] = FirstStage(k)] /\ UNCHANGED stray
           \/ pc' = [pc EXCEPT ![c] = "executing"] /\ stray' = Missed(Helping)
  BY DEF Start
<1>2. k \in Calls /\ FirstStage(k) \in Stages /\ Missed(Helping) \subseteq Volumes
  BY CallTyped, LegacyAssumption DEF FirstStage, Stages, Missed, Helping, TypeOK
<1>3. LocalTyped'
  <2>1. pc' \in [Commands -> Stages] /\ call' \in [Commands -> Calls]
    BY <1>1, <1>2 DEF TypeOK, Stages
  <2>2. UNCHANGED <<todo, pulled, entry, attempt, image, found, legacy, left, volume, results>>
    BY DEF Start, prepared, migration
  <2>. QED
    BY <2>1, <2>2 DEF TypeOK, LocalTyped
<1>4. HostTyped'
  BY <1>1, <1>2 DEF Start, TypeOK, HostTyped, host, images
<1>. QED
  BY <1>1, <1>3, <1>4 DEF Start, TypeOK, Apart, Still, prepared, migration, Goes

LEMMA StopsGoes ==
  ASSUME TypeOK, NEW c \in Commands, Stops(c)
  PROVE  Goes(c)
<1>1. HostTyped'
  BY DEF Stops, TypeOK, HostTyped, host, images
<1>. QED
  BY <1>1, EndsGoes DEF Stops, Goes

LEMMA CheckGoes ==
  ASSUME TypeOK, NEW c \in Commands, Check(c)
  PROVE  Goes(c)
<1>1. HostTyped'
  BY DEF Check, TypeOK, HostTyped, host, images
<1>2. CASE Compatible(platform)
  <2>1. LocalTyped'
    BY <1>2 DEF Check, Step, TypeOK, LocalTyped, Stages, prepared, migration
  <2>2. Apart(c)
    BY <1>2 DEF Check, Step, TypeOK, Apart, Still, prepared, migration
  <2>. QED
    BY <1>1, <2>1, <2>2 DEF Goes
<1>. QED
  BY <1>1, <1>2, EndsGoes DEF Check, Goes

LEMMA ListPrebuildGoes ==
  ASSUME TypeOK, NEW c \in Commands, ListPrebuild(c)
  PROVE  Goes(c)
<1>1. HostTyped'
  BY DEF ListPrebuild, TypeOK, HostTyped, host, images
<1>2. LocalTyped'
  BY DEF ListPrebuild, Step, TypeOK, LocalTyped, Stages, migration
<1>3. Apart(c)
  BY DEF ListPrebuild, Step, TypeOK, Apart, Still, migration
<1>. QED
  BY <1>1, <1>2, <1>3 DEF Goes

LEMMA PrebuildGoes ==
  ASSUME TypeOK, NEW c \in Commands, Prebuild(c)
  PROVE  Goes(c)
<1>1. todo[c] \subseteq Services /\ todo[c] \subseteq Tags
  BY DEF TypeOK, Tags
<1>2. HostTyped'
  BY <1>1 DEF Prebuild, TypeOK, HostTyped, Noticed
<1>3. LocalTyped'
  BY DEF Prebuild, Step, TypeOK, LocalTyped, Stages, migration
<1>4. Apart(c)
  BY DEF Prebuild, Step, TypeOK, Apart, Still, migration
<1>. QED
  BY <1>2, <1>3, <1>4 DEF Goes

LEMMA InspectGoes ==
  ASSUME TypeOK, NEW c \in Commands, Inspect(c)
  PROVE  Goes(c)
<1>1. PICK s \in Due(c) :
        /\ NeedsImageFallback(s) => Inspected(s) # None
        /\ Step(c, "inspecting", IF todo[c] = {s} THEN AfterInspection(c) ELSE "inspecting")
        /\ entry' = [entry EXCEPT ![c] = [x \in Services |->
             IF x # s THEN entry[c][x]
             ELSE IF NeedsImageFallback(s) THEN Inspected(s) ELSE "compose"]]
        /\ todo' = [todo EXCEPT ![c] = todo[c] \ {s}]
        /\ UNCHANGED <<host, call, pulled, attempt, image, migration, results, changed,
                       stray, changes>>
  BY DEF Inspect
<1>2. HostTyped'
  BY <1>1 DEF TypeOK, HostTyped, host, images
<1>3. s \in Services /\ Inspected(s) \in Images \union {None}
  BY DEF Due, TypeOK, Inspected, Tags
<1>4. LocalTyped'
  BY <1>1, <1>3 DEF Step, TypeOK, LocalTyped, Stages, migration, AfterInspection
<1>5. Apart(c)
  BY <1>1 DEF Step, TypeOK, Apart, Still, migration
<1>. QED
  BY <1>2, <1>4, <1>5 DEF Goes

LEMMA InspectMissingGoes ==
  ASSUME TypeOK, NEW c \in Commands, InspectMissing(c)
  PROVE  Goes(c)
<1>1. PICK s \in Due(c) :
        /\ NeedsImageFallback(s) /\ Inspected(s) = None
        /\ \/ /\ MayPull(c, s)
              /\ \E i \in Upstream[s] :
                   /\ tags' = [tags EXCEPT ![s] = i]
                   /\ store' = store \union ({i} \ ContentOnly)
              /\ pulled' = [pulled EXCEPT ![c] = pulled[c] \union {s}]
              /\ changed' = Noticed(c, {s})
              /\ UNCHANGED <<pc, call, todo, entry, attempt, image, migration, results>>
           \/ /\ Ends(c)
              /\ UNCHANGED <<tags, store, changed>>
  BY DEF InspectMissing
<1>2. /\ s \in Services /\ s \in Tags /\ Upstream[s] \subseteq Images
      /\ UNCHANGED <<begun, output, containers, volumes, stray, changes>>
  BY HostAssumption DEF Due, TypeOK, Tags, InspectMissing
<1>3. CASE Ends(c) /\ UNCHANGED <<tags, store, changed>>
  BY <1>2, <1>3, EndsGoes DEF TypeOK, HostTyped, Goes
<1>4. ASSUME NEW i \in Upstream[s],
             tags' = [tags EXCEPT ![s] = i], store' = store \union ({i} \ ContentOnly),
             pulled' = [pulled EXCEPT ![c] = pulled[c] \union {s}],
             changed' = Noticed(c, {s}),
             UNCHANGED <<pc, call, todo, entry, attempt, image, migration, results>>
      PROVE  Goes(c)
  <2>1. HostTyped'
    BY <1>2, <1>4 DEF TypeOK, HostTyped, Noticed
  <2>2. LocalTyped'
    BY <1>2, <1>4 DEF TypeOK, LocalTyped, migration
  <2>3. Apart(c)
    BY <1>4 DEF TypeOK, Apart, Still, migration
  <2>. QED
    BY <2>1, <2>2, <2>3 DEF Goes
<1>. QED
  BY <1>1, <1>3, <1>4

Verdicts == {"pending", "ok", "failed", "skipped"}

LEMMA ResultSet ==
  ASSUME TypeOK, NEW c \in Commands, NEW k \in CheckNames, NEW r \in Verdicts,
         results' = [results EXCEPT ![c][k] = r]
  PROVE  /\ results' \in [Commands -> [CheckNames -> Verdicts]]
         /\ results'[c] = [results[c] EXCEPT ![k] = r]
         /\ \A d \in Commands \ {c} : results'[d] = results[d]
<1> DEFINE row == [results[c] EXCEPT ![k] = r]
<1>1. /\ results \in [Commands -> [CheckNames -> Verdicts]]
      /\ results[c] \in [CheckNames -> Verdicts]
  BY DEF TypeOK, Verdicts
<1>2. row \in [CheckNames -> Verdicts]
  BY <1>1
<1>3. results' = [results EXCEPT ![c] = row]
  OBVIOUS
<1> HIDE DEF row
<1>4. /\ results' \in [Commands -> [CheckNames -> Verdicts]] /\ results'[c] = row
      /\ \A d \in Commands \ {c} : results'[d] = results[d]
  BY <1>1, <1>2, <1>3
<1>. QED
  BY <1>4 DEF row

LEMMA GiveUpGoes ==
  ASSUME TypeOK, NEW c \in Commands, GiveUp(c)
  PROVE  LocalTyped' /\ Apart(c)
<1>1. CASE Ends(c)
  BY <1>1, EndsGoes
<1>2. CASE ~ Ends(c)
  <2>1. /\ \/ /\ attempt' = [attempt EXCEPT ![c] = "none"]
              /\ pc' = [pc EXCEPT ![c] = "resolving"]
              /\ UNCHANGED results
           \/ /\ results' = [results EXCEPT ![c]["image"] = "failed"]
              /\ pc' = [pc EXCEPT ![c] = "probing"]
              /\ UNCHANGED attempt
        /\ image' = [image EXCEPT ![c] = None]
        /\ UNCHANGED <<call, todo, pulled, entry, found, legacy, left, volume>>
    BY <1>2 DEF GiveUp, migration
  <2>2. results' \in [Commands -> [CheckNames -> Verdicts]]
        /\ \A d \in Commands \ {c} : results'[d] = results[d]
    BY <2>1, CheckList, ResultSet DEF TypeOK, Verdicts
  <2>3. LocalTyped'
    BY <2>1, <2>2 DEF TypeOK, LocalTyped, Stages, Verdicts
  <2>4. Apart(c)
    BY <2>1, <2>2 DEF TypeOK, Apart, Still
  <2>. QED
    BY <2>3, <2>4
<1>. QED
  BY <1>1, <1>2

LEMMA UnusableGoes ==
  ASSUME TypeOK, NEW c \in Commands, NEW missing \in BOOLEAN, Unusable(c, missing)
  PROVE  LocalTyped' /\ Apart(c)
<1>1. CASE Refetch(c, missing)
  <2>1. LocalTyped'
    BY <1>1 DEF Refetch, TypeOK, LocalTyped, Stages, migration
  <2>2. Apart(c)
    BY <1>1 DEF Refetch, TypeOK, Apart, Still, migration
  <2>. QED
    BY <2>1, <2>2
<1>. QED
  BY <1>1, GiveUpGoes DEF Unusable

LEMMA FindRuntimeGoes ==
  ASSUME TypeOK, NEW c \in Commands, FindRuntime(c)
  PROVE  Goes(c)
<1>1. HostTyped'
  BY DEF FindRuntime, TypeOK, HostTyped, host, images
<1>2. CASE /\ tags["runtime"] # None
           /\ image' = [image EXCEPT ![c] = tags["runtime"]]
           /\ Step(c, "resolving", "verifying")
           /\ UNCHANGED <<call, todo, pulled, entry, attempt, migration, results>>
  <2>1. tags["runtime"] \in Images
    BY <1>2 DEF TypeOK, Tags
  <2>2. LocalTyped'
    BY <1>2, <2>1 DEF Step, TypeOK, LocalTyped, Stages, migration
  <2>3. Apart(c)
    BY <1>2 DEF Step, TypeOK, Apart, Still, migration
  <2>. QED
    BY <1>1, <2>2, <2>3 DEF Goes
<1>. QED
  BY <1>1, <1>2, UnusableGoes, GiveUpGoes DEF FindRuntime, Goes

LEMMA VerifyRuntimeGoes ==
  ASSUME TypeOK, NEW c \in Commands, VerifyRuntime(c)
  PROVE  Goes(c)
<1>1. HostTyped'
  BY DEF VerifyRuntime, TypeOK, HostTyped, host, images
<1>2. ASSUME Step(c, "verifying", AfterRuntime(c)),
             \/ UNCHANGED <<attempt, results>>
             \/ attempt' = [attempt EXCEPT ![c] = "again"] /\ UNCHANGED results
             \/ results' = [results EXCEPT ![c]["image"] = "ok"] /\ UNCHANGED attempt,
             UNCHANGED <<call, todo, pulled, entry, image, migration>>
      PROVE  Goes(c)
  <2>1. pc' \in [Commands -> Stages]
    BY <1>2 DEF Step, TypeOK, Stages, AfterRuntime
  <2>2. /\ attempt' \in [Commands -> {"none", "pulled", "refreshed", "probed", "again"}]
        /\ results' \in [Commands -> [CheckNames -> Verdicts]]
        /\ \A d \in Commands \ {c} : results'[d] = results[d]
    BY <1>2, CheckList, ResultSet DEF TypeOK, Verdicts
  <2>3. LocalTyped'
    BY <1>2, <2>1, <2>2 DEF TypeOK, LocalTyped, migration, Verdicts
  <2>4. Apart(c)
    BY <1>2, <2>2 DEF Step, TypeOK, Apart, Still, migration
  <2>. QED
    BY <1>1, <2>3, <2>4 DEF Goes
<1>3. CASE Unusable(c, FALSE)
  BY <1>1, <1>3, UnusableGoes DEF Goes
<1>. QED
  BY <1>2, <1>3 DEF VerifyRuntime

LEMMA PullRuntimeGoes ==
  ASSUME TypeOK, NEW c \in Commands, PullRuntime(c)
  PROVE  Goes(c)
<1>1. "runtime" \in Tags /\ Upstream["runtime"] \subseteq Images
  BY HostAssumption DEF Tags
<1>2. HostTyped'
  <2>1. /\ \/ \E i \in Upstream["runtime"] :
                tags' = [tags EXCEPT !["runtime"] = i] /\ store' = store \union ({i} \ ContentOnly)
           \/ UNCHANGED <<tags, store>>
        /\ UNCHANGED <<begun, output, containers, volumes, changed, stray, changes>>
    BY DEF PullRuntime
  <2>2. ASSUME NEW i \in Upstream["runtime"],
               tags' = [tags EXCEPT !["runtime"] = i], store' = store \union ({i} \ ContentOnly)
        PROVE  tags' \in [Tags -> Images \union {None}] /\ store' \subseteq Images
    BY <1>1, <2>2 DEF TypeOK
  <2>3. tags' \in [Tags -> Images \union {None}] /\ store' \subseteq Images
    BY <2>1, <2>2 DEF TypeOK
  <2>. QED
    BY <2>1, <2>3 DEF TypeOK, HostTyped
<1>3. CASE Step(c, "fetching", "resolving") /\ UNCHANGED <<call, prepared, migration, results>>
  <2>1. LocalTyped'
    BY <1>3 DEF Step, TypeOK, LocalTyped, Stages, prepared, migration
  <2>2. Apart(c)
    BY <1>3 DEF Step, TypeOK, Apart, Still, prepared, migration
  <2>. QED
    BY <1>2, <2>1, <2>2 DEF Goes
<1>. QED
  BY <1>2, <1>3, GiveUpGoes DEF PullRuntime, Goes

LEMMA ProbeGoes ==
  ASSUME TypeOK, NEW c \in Commands, Probe(c)
  PROVE  Goes(c)
<1>1. HostTyped'
  BY DEF Probe, TypeOK, HostTyped, host, images
<1>2. PICK k \in DOMAIN Checks :
        \/ /\ attempt' = [attempt EXCEPT ![c] = "probed"]
           /\ pc' = [pc EXCEPT ![c] = "resolving"]
           /\ UNCHANGED results
        \/ /\ \E r \in {"ok", "failed", "skipped"} :
                results' = [results EXCEPT ![c][Checks[k]] = r]
           /\ pc' = [pc EXCEPT ![c] = IF k = Len(Checks) THEN "reporting" ELSE "probing"]
           /\ UNCHANGED attempt
  BY DEF Probe
<1>3. Checks[k] \in CheckNames /\ UNCHANGED <<call, todo, pulled, entry, image, migration>>
  BY DEF CheckNames, Probe
<1>4. results' \in [Commands -> [CheckNames -> Verdicts]]
      /\ \A d \in Commands \ {c} : results'[d] = results[d]
  BY <1>2, <1>3, ResultSet DEF TypeOK, Verdicts
<1>5. pc' \in [Commands -> Stages]
  BY <1>2 DEF TypeOK, Stages
<1>6. LocalTyped'
  BY <1>2, <1>3, <1>4, <1>5 DEF TypeOK, LocalTyped, migration, Verdicts
<1>7. Apart(c)
  BY <1>2, <1>3, <1>4 DEF TypeOK, Apart, Still, migration
<1>. QED
  BY <1>1, <1>6, <1>7 DEF Goes

LEMMA ReportGoes ==
  ASSUME TypeOK, NEW c \in Commands, Report(c)
  PROVE  Goes(c)
<1>1. HostTyped'
  BY DEF Report, TypeOK, HostTyped, host, images
<1>. QED
  BY <1>1, EndsGoes DEF Report, Goes

LEMMA CaptureGoes ==
  ASSUME TypeOK, NEW c \in Commands, Capture(c)
  PROVE  Goes(c)
<1>1. Helping \subseteq OldImage \X HexNamed /\ Missed(Helping) \subseteq Volumes
  BY LegacyAssumption DEF Helping, Missed, TypeOK
<1>2. HostTyped'
  BY <1>1 DEF Capture, TypeOK, HostTyped, host, images
<1>3. /\ found' = [found EXCEPT ![c] = Helping] \/ UNCHANGED found
      /\ \E to \in {"executing", "looking"} : pc' = [pc EXCEPT ![c] = to]
      /\ UNCHANGED <<call, todo, pulled, entry, attempt, image, legacy, left, volume, results>>
  BY DEF Capture, Step, prepared
<1>4. LocalTyped'
  BY <1>1, <1>3 DEF TypeOK, LocalTyped, Stages
<1>5. Apart(c)
  BY <1>3 DEF TypeOK, Apart, Still
<1>. QED
  BY <1>2, <1>4, <1>5 DEF Goes

LEMMA LookGoes ==
  ASSUME TypeOK, NEW c \in Commands, Look(c)
  PROVE  Goes(c)
<1>1. /\ \E to \in {"executing", "looking"} : pc' = [pc EXCEPT ![c] = to]
      /\ \/ /\ \E p \in found[c] : found' = [found EXCEPT ![c] = found[c] \ {p}]
            /\ \/ UNCHANGED legacy
               \/ \E p \in found[c] : legacy' = [legacy EXCEPT ![c] = legacy[c] \union {p}]
            /\ UNCHANGED stray
         \/ /\ found' = [found EXCEPT ![c] = {}] /\ UNCHANGED legacy
            /\ stray' = Missed(found[c])
      /\ UNCHANGED <<host, call, todo, pulled, entry, attempt, image, left, volume, results,
                     changed, changes>>
  <2>1. PICK p \in found[c] :
       \/ /\ Step(c, "looking", IF found[c] = {p} THEN "executing" ELSE "looking")
          /\ found' = [found EXCEPT ![c] = found[c] \ {p}]
          /\ legacy' = [legacy EXCEPT ![c] =
               IF volumes[p[2]] = "anonymous" THEN legacy[c] \union {p} ELSE legacy[c]]
          /\ UNCHANGED stray
       \/ /\ Step(c, "looking", "executing")
          /\ stray' = Missed(found[c])
          /\ found' = [found EXCEPT ![c] = {}]
          /\ UNCHANGED legacy
    BY DEF Look
  <2>2. legacy' = legacy \/ legacy' = [legacy EXCEPT ![c] = legacy[c] \union {p}]
    BY <2>1 DEF TypeOK
  <2>. QED
    BY <2>1, <2>2 DEF Look, Step, prepared
<1>2. found[c] \subseteq OldImage \X HexNamed /\ Missed(found[c]) \subseteq Volumes
  BY LegacyAssumption DEF TypeOK, Missed
<1>3. HostTyped'
  BY <1>1, <1>2 DEF TypeOK, HostTyped, host, images
<1>4. LocalTyped'
  <2>1. pc' \in [Commands -> Stages]
    BY <1>1 DEF TypeOK, Stages
  <2> DEFINE Pairs == SUBSET (OldImage \X HexNamed)
  <2>2. found \in [Commands -> Pairs] /\ legacy \in [Commands -> Pairs]
    BY DEF TypeOK
  <2>3. ASSUME NEW p \in found[c]
        PROVE  found[c] \ {p} \in Pairs /\ legacy[c] \union {p} \in Pairs
    BY <2>2
  <2>4. {} \in Pairs
    OBVIOUS
  <2> HIDE DEF Pairs
  <2>5. found' \in [Commands -> Pairs] /\ legacy' \in [Commands -> Pairs]
    BY <1>1, <2>2, <2>3, <2>4
  <2>. QED
    BY <1>1, <2>1, <2>5 DEF TypeOK, LocalTyped, Pairs
<1>5. Apart(c)
  BY <1>1 DEF TypeOK, Apart, Still
<1>. QED
  BY <1>3, <1>4, <1>5 DEF Goes

LEMMA ExecuteGoes ==
  ASSUME TypeOK, NEW c \in Commands, Execute(c)
  PROVE  Goes(c)
<1>1. /\ containers' \in [Containers -> ContainerStates \union {None}]
      /\ tags' \in [Tags -> Images \union {None}] /\ store' \subseteq Images
      /\ changed' \in [Commands -> SUBSET (Tags \union Images)]
  <2>0. Services \subseteq Tags /\ Services \subseteq Containers
    BY DEF Tags, Containers
  <2>1. CASE ComposeCreates(c)
    <3>1. PICK made \in SUBSET {s \in Services : Creatable(c, s)} : \E run \in [made -> Images] :
            /\ containers' = [x \in Containers |->
                 IF x \in made
                 THEN IF Injects(c)
                      THEN Container(run[x], InitOf(c, x), entry[c][x], None,
                                     x \notin changed[c] /\ ~ call[c].refresh)
                      ELSE Container(run[x], None, None, None, FALSE)
                 ELSE IF x \in Orphans(c) THEN None ELSE containers[x]]
            /\ tags' = [t \in Tags |-> IF t \in made THEN run[t] ELSE tags[t]]
            /\ store' = store \union {run[s] : s \in made}
            /\ changed' = Noticed(c, made)
      BY <2>1 DEF ComposeCreates
    <3>2. PICK run \in [made -> Images] :
            /\ containers' = [x \in Containers |->
                 IF x \in made
                 THEN IF Injects(c)
                      THEN Container(run[x], InitOf(c, x), entry[c][x], None,
                                     x \notin changed[c] /\ ~ call[c].refresh)
                      ELSE Container(run[x], None, None, None, FALSE)
                 ELSE IF x \in Orphans(c) THEN None ELSE containers[x]]
            /\ tags' = [t \in Tags |-> IF t \in made THEN run[t] ELSE tags[t]]
            /\ store' = store \union {run[s] : s \in made}
            /\ changed' = Noticed(c, made)
      BY <3>1
    <3>3. \A x \in made :
            /\ Container(run[x], None, None, None, FALSE) \in ContainerStates
            /\ Container(run[x], InitOf(c, x), entry[c][x], None,
                         x \notin changed[c] /\ ~ call[c].refresh) \in ContainerStates
      <4> SUFFICES ASSUME NEW x \in made
                   PROVE  /\ Container(run[x], None, None, None, FALSE) \in ContainerStates
                          /\ Container(run[x], InitOf(c, x), entry[c][x], None,
                                       x \notin changed[c] /\ ~ call[c].refresh) \in ContainerStates
        OBVIOUS
      <4>1. /\ run[x] \in Images /\ InitOf(c, x) \in Images \union {None, "own"}
            /\ entry[c][x] \in Images \union {None, "compose"}
        BY DEF TypeOK, InitOf
      <4>. QED
        BY <4>1 DEF Container, ContainerStates
    <3>4. containers' \in [Containers -> ContainerStates \union {None}]
      BY <3>2, <3>3 DEF TypeOK
    <3>5. tags' \in [Tags -> Images \union {None}] /\ store' \subseteq Images
      BY <2>0, <3>2 DEF TypeOK
    <3>6. changed' \in [Commands -> SUBSET (Tags \union Images)]
      BY <2>0, <3>2 DEF TypeOK, Noticed
    <3>. QED
      BY <3>4, <3>5, <3>6
  <2>2. CASE ComposeFetches(c)
    BY <2>0, <2>2 DEF ComposeFetches, TypeOK, Noticed
  <2>3. CASE ComposeRemoves(c)
    BY <2>3 DEF ComposeRemoves, TypeOK
  <2>. QED
    BY <2>1, <2>2, <2>3 DEF Execute, TypeOK
<1>2. HostTyped'
  BY <1>1 DEF Execute, TypeOK, HostTyped
<1>3. CASE Ends(c)
  BY <1>2, <1>3, EndsGoes DEF Goes
<1>4. CASE /\ left' = [left EXCEPT ![c] = Captured(c)]
           /\ Step(c, "executing", "listing")
           /\ UNCHANGED <<call, prepared, found, legacy, volume, results>>
  <2>1. Captured(c) \subseteq HexNamed
    BY DEF Captured, TypeOK
  <2>2. LocalTyped'
    BY <1>4, <2>1 DEF TypeOK, LocalTyped, Step, prepared, Stages
  <2>3. Apart(c)
    BY <1>4 DEF TypeOK, Apart, Still, Step, prepared
  <2>. QED
    BY <1>2, <2>2, <2>3 DEF Goes
<1>. QED
  BY <1>3, <1>4 DEF Execute

LEMMA LeavesGoes ==
  ASSUME TypeOK, NEW c \in Commands, NEW v, Leaves(c, v)
  PROVE  LocalTyped' /\ Apart(c)
<1>1. CASE Ends(c)
  BY <1>1, EndsGoes
<1>2. CASE /\ left' = [left EXCEPT ![c] = left[c] \ {v}]
           /\ volume' = [volume EXCEPT ![c] = NoVolume]
           /\ pc' = [pc EXCEPT ![c] = "listing"]
           /\ UNCHANGED <<call, prepared, found, legacy, results>>
  <2>1. NoVolume \in [at : Volumes \union {None}, helpers : SUBSET OldImage, kept : BOOLEAN]
    BY DEF NoVolume
  <2>2. LocalTyped'
    BY <1>2, <2>1 DEF TypeOK, LocalTyped, prepared, Stages
  <2>3. Apart(c)
    BY <1>2 DEF TypeOK, Apart, Still, prepared
  <2>. QED
    BY <2>2, <2>3
<1>. QED
  BY <1>1, <1>2 DEF Leaves

\* A clean-up goes on to its next step at a volume.
LEMMA VolumeGoes ==
  ASSUME TypeOK, NEW c \in Commands, NEW to \in Stages,
         NEW w \in [at : Volumes \union {None}, helpers : SUBSET OldImage, kept : BOOLEAN],
         volume' = [volume EXCEPT ![c] = w], pc' = [pc EXCEPT ![c] = to],
         UNCHANGED <<call, prepared, found, legacy, left, results>>
  PROVE  LocalTyped' /\ Apart(c)
<1>1. LocalTyped'
  BY DEF TypeOK, LocalTyped, prepared
<1>2. Apart(c)
  BY DEF TypeOK, Apart, Still, prepared
<1>. QED
  BY <1>1, <1>2

LEMMA ListConsumersGoes ==
  ASSUME TypeOK, NEW c \in Commands, ListConsumers(c)
  PROVE  Goes(c)
<1>1. HostTyped'
  BY DEF ListConsumers, TypeOK, HostTyped, host, images
<1>2. PICK v \in left[c] :
        \/ /\ volume' = [volume EXCEPT ![c] =
                          [at |-> v, helpers |-> HelpersOf(c, v), kept |-> FALSE]]
           /\ Step(c, "listing", "removing")
           /\ UNCHANGED <<call, prepared, found, legacy, left, results>>
        \/ Leaves(c, v)
  BY DEF ListConsumers
<1>3. HelpersOf(c, v) \subseteq OldImage /\ v \in Volumes
  BY LegacyAssumption DEF HelpersOf, TypeOK
<1>4. [at |-> v, helpers |-> HelpersOf(c, v), kept |-> FALSE] \in
        [at : Volumes \union {None}, helpers : SUBSET OldImage, kept : BOOLEAN]
  BY <1>3
<1>. QED
  BY <1>1, <1>2, <1>4, LeavesGoes, VolumeGoes DEF Goes, Step, Stages

LEMMA RemoveHelperGoes ==
  ASSUME TypeOK, NEW c \in Commands, At(c) \in Volumes, RemoveHelper(c)
  PROVE  Goes(c)
<1>1. PICK h \in volume[c].helpers, kept \in BOOLEAN :
        LET rest == volume[c].helpers \ {h}
            deferred == volume[c].kept \/ kept IN
        /\ containers' = containers \/ containers' = [containers EXCEPT ![h] = None]
        /\ stray' = stray \union
             {v \in {volume[d].at : d \in Commands \ {c}} : kept /\ v = volume[c].at}
        /\ IF rest = {} /\ deferred THEN Leaves(c, volume[c].at)
           ELSE /\ volume' = [volume EXCEPT ![c] =
                               [at |-> volume[c].at, helpers |-> rest, kept |-> deferred]]
                /\ pc' = [pc EXCEPT ![c] = IF rest = {} THEN "rechecking" ELSE "removing"]
                /\ UNCHANGED <<call, prepared, found, legacy, left, results>>
  BY DEF RemoveHelper
<1> DEFINE rest == volume[c].helpers \ {h}
           deferred == volume[c].kept \/ kept
<1>2. volume[c] \in [at : Volumes \union {None}, helpers : SUBSET OldImage, kept : BOOLEAN]
      /\ h \in OldImage /\ pc[c] = "removing"
      /\ UNCHANGED <<begun, images, volumes, changed, changes>>
  BY DEF TypeOK, RemoveHelper
<1>3. [at |-> volume[c].at, helpers |-> rest, kept |-> deferred] \in
        [at : Volumes \union {None}, helpers : SUBSET OldImage, kept : BOOLEAN]
  BY <1>2

<1>4. LocalTyped' /\ Apart(c)
  <2>1. CASE rest = {} /\ deferred
    BY <1>1, <2>1, LeavesGoes
  <2>2. CASE ~ (rest = {} /\ deferred)
    <3> DEFINE to == IF rest = {} THEN "rechecking" ELSE "removing"
    <3>1. /\ volume' = [volume EXCEPT ![c] =
                         [at |-> volume[c].at, helpers |-> rest, kept |-> deferred]]
          /\ pc' = [pc EXCEPT ![c] = to]
          /\ UNCHANGED <<call, prepared, found, legacy, left, results>>
      BY <1>1, <2>2
    <3>2. to \in Stages
      BY DEF Stages
    <3>. QED
      BY <1>3, <3>1, <3>2, VolumeGoes
  <2>. QED
    BY <2>1, <2>2
<1>5. HostTyped'
  <2>1. containers' \in [Containers -> ContainerStates \union {None}]
    BY <1>1 DEF TypeOK
  <2>2. stray' \subseteq Volumes
    BY <1>1 DEF TypeOK, At
  <2>. QED
    BY <1>2, <2>1, <2>2 DEF TypeOK, HostTyped, images
<1>. QED
  BY <1>4, <1>5 DEF Goes

LEMMA RecheckGoes ==
  ASSUME TypeOK, NEW c \in Commands, At(c) \in Volumes, Recheck(c)
  PROVE  Goes(c)
<1>1. HostTyped'
  BY DEF Recheck, TypeOK, HostTyped, host, images, At
<1>2. CASE /\ Step(c, "rechecking", "deleting")
           /\ UNCHANGED <<call, prepared, migration, results, stray>>
  <2>1. LocalTyped'
    BY <1>2 DEF Step, TypeOK, LocalTyped, Stages, prepared, migration
  <2>2. Apart(c)
    BY <1>2 DEF Step, TypeOK, Apart, Still, prepared, migration
  <2>. QED
    BY <1>1, <2>1, <2>2 DEF Goes
<1>. QED
  BY <1>1, <1>2, LeavesGoes DEF Recheck, Goes

LEMMA RemoveVolumeGoes ==
  ASSUME TypeOK, NEW c \in Commands, At(c) \in Volumes, RemoveVolume(c)
  PROVE  Goes(c)
<1>1. HostTyped'
  BY DEF RemoveVolume, TypeOK, HostTyped, images, At
<1>. QED
  BY <1>1, LeavesGoes DEF RemoveVolume, Goes

LEMMA CommandGoes ==
  ASSUME TypeOK, NEW c \in Commands, Command(c),
         pc[c] \in Cleaning => At(c) \in Volumes
  PROVE  Goes(c)
<1>1. CASE Start(c) \/ Stops(c) \/ Check(c) \/ ListPrebuild(c) \/ Prebuild(c)
           \/ Inspect(c) \/ InspectMissing(c)
  BY <1>1, StartGoes, StopsGoes, CheckGoes, ListPrebuildGoes, PrebuildGoes, InspectGoes,
     InspectMissingGoes
<1>2. CASE \/ FindRuntime(c) \/ VerifyRuntime(c) \/ PullRuntime(c) \/ Probe(c) \/ Report(c)
           \/ Capture(c) \/ Look(c) \/ Execute(c) \/ ListConsumers(c)
  BY <1>2, FindRuntimeGoes, VerifyRuntimeGoes, PullRuntimeGoes, ProbeGoes, ReportGoes,
     CaptureGoes, LookGoes, ExecuteGoes, ListConsumersGoes
<1>3. CASE RemoveHelper(c)
  BY <1>3, RemoveHelperGoes DEF RemoveHelper, Cleaning
<1>4. CASE Recheck(c)
  BY <1>4, RecheckGoes DEF Recheck, Cleaning
<1>5. CASE RemoveVolume(c)
  BY <1>5, RemoveVolumeGoes DEF RemoveVolume, Cleaning
<1>. QED
  BY <1>1, <1>2, <1>3, <1>4, <1>5 DEF Command

\* What others do to the host concerns no command's own state.
LEMMA ElsewhereGoes ==
  ASSUME TypeOK, HostChanges
  PROVE  /\ HostTyped' /\ LocalTyped'
         /\ UNCHANGED <<begun, pc, call, todo, pulled, entry, attempt, image, found, legacy,
                        left, volume, results>>
<1>1. /\ Elsewhere
      /\ changes' \in 0 .. begun'.changes
      /\ UNCHANGED <<begun, pc, call, todo, pulled, entry, attempt, image, found, legacy,
                     left, volume, results>>
  <2>1. Elsewhere
    BY DEF HostChanges, MoveTag, RemoveImage, Edit, Mount, Unmount, ToggleHelper, Recreate
  <2>2. begun.changes \in Nat
    BY BeginningsAssumption DEF TypeOK
  <2>. QED
    BY <2>1, <2>2 DEF Elsewhere, TypeOK, prepared, migration
<1>2. LocalTyped'
  BY <1>1 DEF TypeOK, LocalTyped
<1>3. \A what \in SUBSET (Tags \union Images) :
        Seen(what) \in [Commands -> SUBSET (Tags \union Images)]
  BY DEF Seen, TypeOK
<1>4. CASE MoveTag
  <2>1. PICK t \in Tags : \E i \in (Upstream[t] \union {None}) \ {tags[t]} :
          /\ tags' = [tags EXCEPT ![t] = i]
          /\ store' = store \union ({i} \ ({None} \union ContentOnly))
          /\ changed' = Seen({t})
    BY <1>4 DEF MoveTag
  <2>2. PICK i \in (Upstream[t] \union {None}) \ {tags[t]} :
          /\ tags' = [tags EXCEPT ![t] = i]
          /\ store' = store \union ({i} \ ({None} \union ContentOnly))
    BY <2>1
  <2>3. i \in Images \union {None}
    BY HostAssumption
  <2>. QED
    BY <1>1, <1>2, <1>3, <1>4, <2>1, <2>2, <2>3 DEF MoveTag, TypeOK, HostTyped
<1>5. CASE RemoveImage
  <2>1. PICK i \in store :
          /\ store' = store \ {i}
          /\ tags' = [t \in Tags |-> IF tags[t] = i THEN None ELSE tags[t]]
          /\ changed' = Seen({i} \union {t \in Tags : tags[t] = i})
    BY <1>5 DEF RemoveImage
  <2>2. {i} \union {t \in Tags : tags[t] = i} \subseteq Tags \union Images
    BY DEF TypeOK
  <2>. QED
    BY <1>1, <1>2, <1>3, <1>5, <2>1, <2>2 DEF RemoveImage, TypeOK, HostTyped
<1>6. CASE Edit
  <2>1. PICK s \in Services : \E i \in Outputs[s] :
          output' = [output EXCEPT ![s] = i] /\ changed' = Seen({s})
    BY <1>6 DEF Edit
  <2>2. s \in Tags /\ Outputs[s] \subseteq Images
    BY HostAssumption DEF Tags
  <2>3. output' \in [Services -> Images]
    BY <2>1, <2>2 DEF TypeOK
  <2>4. changed' \in [Commands -> SUBSET (Tags \union Images)]
    BY <1>3, <2>1, <2>2
  <2>. QED
    BY <1>1, <1>2, <1>6, <2>3, <2>4 DEF Edit, TypeOK, HostTyped
<1>7. CASE Mount
  <2>1. PICK x \in Others \union OldImage, v \in Volumes :
          /\ containers' = [containers EXCEPT ![x] = Container(None, None, None, v, FALSE)]
          /\ stray' = Interfered(v)
    BY <1>7 DEF Mount
  <2>2. Container(None, None, None, v, FALSE) \in ContainerStates /\ Interfered(v) \subseteq Volumes
    BY DEF Container, ContainerStates, Interfered, TypeOK
  <2>. QED
    BY <1>1, <1>2, <1>7, <2>1, <2>2 DEF Mount, TypeOK, HostTyped, images
<1>8. CASE Unmount
  BY <1>1, <1>2, <1>8 DEF Unmount, TypeOK, HostTyped, images
<1>9. CASE ToggleHelper
  <2>1. PICK h \in Helpers :
          /\ containers[h] # None
          /\ containers' = [containers EXCEPT ![h] =
               [image |-> containers[h].image, init |-> containers[h].init,
                entry |-> containers[h].entry, volume |-> containers[h].volume,
                settled |-> containers[h].settled, running |-> ~ containers[h].running]]
    BY <1>9 DEF ToggleHelper
  <2>2. containers[h] \in ContainerStates
    BY <2>1 DEF TypeOK, Containers
  <2>3. [image |-> containers[h].image, init |-> containers[h].init,
         entry |-> containers[h].entry, volume |-> containers[h].volume,
         settled |-> containers[h].settled, running |-> ~ containers[h].running]
          \in ContainerStates
    BY <2>2 DEF ContainerStates
  <2>. QED
    BY <1>1, <1>2, <1>9, <2>1, <2>3 DEF ToggleHelper, TypeOK, HostTyped, images
<1>10. CASE Recreate
  BY <1>1, <1>2, <1>10 DEF Recreate, TypeOK, HostTyped, images
<1>. QED
  BY <1>1, <1>4, <1>5, <1>6, <1>7, <1>8, <1>9, <1>10, <1>2 DEF HostChanges

-----------------------------------------------------------------------------
\* A step that gives no volume a new user, and takes the mark of no volume in use.
Calm ==
  /\ begun' = begun /\ stray \subseteq stray'
  /\ \A v \in Volumes :
       \/ volumes'[v] = volumes[v]
       \/ /\ Users(v) = {}
          /\ \/ volumes'[v] = "gone"
             \/ volumes'[v] = "named" /\ \A d \in Commands : pc[d] = "deleting" => At(d) # v
  /\ \A x \in Containers, v \in Volumes : HelperOn(x, v)' => HelperOn(x, v)
  /\ \A h \in OldImage :
       \/ containers'[h] = None
       \/ containers[h] # None /\ containers'[h].volume = containers[h].volume

LEMMA Watching ==
  ASSUME TypeOK, TypeOK'
  PROVE  /\ Watched \subseteq Volumes /\ Watched' \subseteq Volumes
         /\ OldImage \subseteq Containers /\ None \notin Watched /\ None \notin Watched'
         /\ Calm => Watched' \subseteq Watched
<1>1. /\ Watched \subseteq Volumes /\ Watched' \subseteq Volumes
      /\ OldImage \subseteq Containers /\ None \notin Volumes
  BY LegacyAssumption DEF Watched, Containers
<1>2. ASSUME Calm
      PROVE  Watched' \subseteq Watched
  BY <1>1, <1>2 DEF Watched, Calm
<1>. QED
  BY <1>1, <1>2

LEMMA StillClean ==
  ASSUME CleanupInv, TypeOK', Calm, NEW d \in Commands, Still(d)
  PROVE  Kept(d)' /\ Placed(d)' /\ Missing(d)'
<1>1. /\ Kept(d) /\ Placed(d) /\ Missing(d) /\ TypeOK
      /\ OldImage \subseteq Containers /\ HexNamed \subseteq Volumes
      /\ legacy[d] \subseteq OldImage \X HexNamed /\ found[d] \subseteq OldImage \X HexNamed
      /\ left[d] \subseteq HexNamed
  BY Watching, LegacyAssumption DEF CleanupInv, TypeOK
<1>2. /\ pc'[d] = pc[d] /\ call'[d] = call[d] /\ found'[d] = found[d]
      /\ legacy'[d] = legacy[d] /\ left'[d] = left[d] /\ volume'[d] = volume[d]
  BY DEF Still
<1>3. Captured(d)' = Captured(d)
  BY <1>2 DEF Captured
<1>4. ASSUME NEW p \in found[d] \union legacy[d], containers'[p[1]] # None
      PROVE  containers[p[1]] # None /\ containers'[p[1]].volume = p[2] /\ p[1] \in Users(p[2])
  <2>1. p[1] \in OldImage /\ p[2] \in HexNamed
    BY <1>1
  <2>2. containers[p[1]] # None /\ containers'[p[1]].volume = containers[p[1]].volume
    BY <1>4, <2>1 DEF Calm
  <2>. QED
    BY <1>1, <2>1, <2>2 DEF Kept, Users
<1>5. ASSUME NEW p \in legacy[d], containers'[p[1]] # None
      PROVE  volumes'[p[2]] = "anonymous"
  <2>1. containers[p[1]] # None /\ p[1] \in Users(p[2]) /\ p[2] \in Volumes
    BY <1>1, <1>4, <1>5
  <2>2. volumes[p[2]] = "anonymous"
    BY <1>1, <2>1 DEF Kept
  <2>. QED
    BY <2>1, <2>2 DEF Calm
<1>6. Kept(d)'
  BY <1>1, <1>2, <1>3, <1>4, <1>5 DEF Kept
<1>7. Placed(d)'
  <2>1. pc[d] = "deleting" => volumes'[At(d)] # "named"
    BY <1>1 DEF Placed, Cleaning, Calm
  <2>2. At(d)' = At(d)
    BY <1>2 DEF At
  <2>. QED
    BY <1>1, <1>2, <2>1, <2>2 DEF Placed
<1>8. Missing(d)'
  <2> SUFFICES ASSUME pc[d] \in {"looking", "executing"}, call[d].orphans, NEW v \in Watched'
               PROVE  \/ \E p \in found[d] \union legacy[d] : p[2] = v
                      \/ \A h \in OldImage : ~ HelperOn(h, v)'
    BY <1>2 DEF Missing
  <2>1. v \in Watched /\ v \in Volumes
    BY <1>1, Watching
  <2>2. \/ \E p \in found[d] \union legacy[d] : p[2] = v
        \/ \A h \in OldImage : ~ HelperOn(h, v)
    BY <1>1, <2>1 DEF Missing
  <2>. QED
    BY <1>1, <2>1, <2>2 DEF Calm
<1>. QED
  BY <1>6, <1>7, <1>8

\* The clean-ups stay as they are, but for those that end at volumes that need no more
\* watching.
LEMMA AcrossStays ==
  ASSUME CleanupInv, TypeOK', Calm,
         \A v \in Watched', h \in OldImage : HelperOn(h, v) => HelperOn(h, v)',
         \A d \in Commands : \/ volume'[d] = volume[d]
                             \/ volume'[d] = NoVolume /\ At(d) \notin Watched'
  PROVE  Across'
<1>1. /\ TypeOK /\ Across /\ Watched' \subseteq Watched /\ Watched \subseteq Volumes
      /\ None \notin Watched'
  BY Watching DEF CleanupInv
<1>2. \A d \in Commands :
        /\ At(d) \in Watched' => volume'[d] = volume[d] /\ At(d)' = At(d)
        /\ At(d)' \in Watched' => volume'[d] = volume[d] /\ At(d)' = At(d)
  BY <1>1 DEF At, NoVolume
<1>3. ASSUME NEW v \in Watched'
      PROVE  Reached(v)'
  <2>1. Reached(v)
    BY <1>1 DEF Across
  <2>. QED
    BY <1>2, <2>1 DEF Reached
<1>4. ASSUME NEW c \in Commands
      PROVE  Deferred(c)' /\ Alone(c)'
  <2>1. SUFFICES ASSUME At(c)' \in Watched'
                 PROVE  Deferred(c)' /\ Alone(c)'
    BY DEF Deferred, Alone
  <2>2. Deferred(c) /\ Alone(c) /\ volume'[c] = volume[c] /\ At(c)' = At(c) /\ At(c) \in Watched
    BY <1>1, <1>2, <2>1 DEF Across
  <2>3. Deferred(c)'
    <3> SUFFICES ASSUME volume[c].kept
                 PROVE  \/ \E h \in OldImage \ volume[c].helpers : HelperOn(h, At(c))'
                        \/ \E d \in Commands \ {c} : At(d)' = At(c) /\ ~ volume'[d].kept
      BY <2>2 DEF Deferred, HelperOn
    <3>1. CASE \E h \in OldImage \ volume[c].helpers : HelperOn(h, At(c))
      BY <2>1, <2>2, <3>1 DEF HelperOn
    <3>2. CASE \E d \in Commands \ {c} : At(d) = At(c) /\ ~ volume[d].kept
      BY <1>2, <2>1, <2>2, <3>2
    <3>. QED
      BY <2>2, <3>1, <3>2 DEF Deferred
  <2>4. Alone(c)'
    <3>1. Users(At(c))' \subseteq Users(At(c))
      BY <1>1, <2>2 DEF Calm, Users, HelperOn
    <3>. QED
      BY <2>2, <3>1 DEF Alone
  <2>. QED
    BY <2>3, <2>4
<1>5. \A c, d \in Commands :
        c # d /\ At(c)' = At(d)' /\ At(c)' \in Watched' => ~ (volume'[c].kept /\ volume'[d].kept)
  BY <1>1, <1>2 DEF Across
<1>. QED
  BY <1>3, <1>4, <1>5 DEF Across

LEMMA QuietHost ==
  ASSUME UNCHANGED <<begun, containers, volumes>>, stray \subseteq stray', TypeOK,
         OldImage \subseteq Containers
  PROVE  /\ Calm
         /\ \A v \in Watched', h \in OldImage : HelperOn(h, v) => HelperOn(h, v)'
<1>1. \A x, v : HelperOn(x, v)' <=> HelperOn(x, v)
  BY DEF HelperOn
<1>. QED
  BY <1>1 DEF Calm

\* What a step of one command has to show.
LEMMA StepClean ==
  ASSUME CleanupInv, NEW c \in Commands, Goes(c), Calm,
         Kept(c)', Placed(c)', Missing(c)',
         \A v \in Watched', h \in OldImage : HelperOn(h, v) => HelperOn(h, v)',
         volume'[c] = volume[c] \/ (volume'[c] = NoVolume /\ At(c) \notin Watched')
  PROVE  CleanupInv'
<1>1. TypeOK'
  BY DEF Goes, HostTyped, LocalTyped, TypeOK
<1>2. \A d \in Commands \ {c} : Still(d)
  BY DEF Goes, Apart
<1>3. \A d \in Commands : (Kept(d) /\ Placed(d) /\ Missing(d))'
  <2> SUFFICES ASSUME NEW d \in Commands
               PROVE  (Kept(d) /\ Placed(d) /\ Missing(d))'
    OBVIOUS
  <2>. QED
    BY <1>1, <1>2, StillClean
<1>4. Across'
  BY <1>1, <1>2, AcrossStays DEF Still
<1>. QED
  BY <1>1, <1>3, <1>4 DEF CleanupInv

LEMMA EndsClean ==
  ASSUME CleanupInv, NEW c \in Commands, Goes(c), Calm, Ends(c),
         \A v \in Watched', h \in OldImage : HelperOn(h, v) => HelperOn(h, v)',
         pc[c] \in Cleaning => At(c) \notin Watched'
  PROVE  CleanupInv'
<1>1. /\ pc'[c] = "idle" /\ found'[c] = {} /\ legacy'[c] = {} /\ left'[c] = {}
      /\ volume'[c] = NoVolume
  BY DEF Ends, CleanupInv, TypeOK
<1>2. Kept(c)'
  BY <1>1 DEF Kept, Before, Early, Resolving
<1>3. Placed(c)' /\ Missing(c)'
  BY <1>1 DEF Placed, Missing, Cleaning
<1>4. pc[c] \notin Cleaning => volume'[c] = volume[c]
  BY <1>1 DEF CleanupInv, Placed
<1>. QED
  BY <1>1, <1>2, <1>3, <1>4, StepClean

\* A command that has nothing to do with the helpers yet, or no longer.
LEMMA AwayClean ==
  ASSUME CleanupInv, NEW c \in Commands, Goes(c),
         UNCHANGED <<begun, containers, volumes>>, stray \subseteq stray',
         UNCHANGED <<found, legacy, left, volume>>,
         pc[c] \notin {"looking", "executing", "listing"} \union Cleaning,
         pc'[c] \notin {"looking", "listing"} \union Cleaning,
         pc'[c] = "executing" /\ call'[c].orphans =>
           \A v \in Watched', h \in OldImage : ~ HelperOn(h, v)',
         pc'[c] \in Before \union Resolving \union {"probing"} => call'[c].verb # "down"
  PROVE  CleanupInv'
<1>1. /\ Kept(c) /\ Placed(c) /\ TypeOK /\ OldImage \subseteq Containers
  BY LegacyAssumption DEF CleanupInv, Containers
<1>2. found[c] = {} /\ legacy[c] = {} /\ left[c] = {} /\ volume[c] = NoVolume
  BY <1>1 DEF Kept, Placed, Captured
<1>3. Kept(c)'
  BY <1>2 DEF Kept
<1>4. Placed(c)'
  BY <1>2 DEF Placed, Cleaning
<1>5. Missing(c)'
  BY DEF Missing
<1>. QED
  BY <1>1, <1>3, <1>4, <1>5, QuietHost, StepClean

LEMMA OrphansCall ==
  ASSUME TypeOK, NEW k \in Calls, k.orphans
  PROVE  k.verb \in Creating \union {"down"}
BY BeginningsAssumption DEF Calls, NoCall

LEMMA ClassOf ==
  /\ \A v \in Creating : Class(v) = "render"
  /\ Class("doctor") = "render" /\ Class("down") = "reference" /\ Class("pull") = "reference"
BY DEF Creating, Class, RenderVerbs, MetadataVerbs, ReferenceVerbs

\* After a failed search, nothing that a helper has is watched.
LEMMA NoneMissed ==
  ASSUME UNCHANGED containers, stray' = Missed(Helping),
         NEW v \in Watched', NEW h \in OldImage
  PROVE  ~ HelperOn(h, v)'
<1>1. SUFFICES ASSUME HelperOn(h, v)
               PROVE  FALSE
  BY DEF HelperOn
<1>2. v \in HexNamed /\ v \notin stray'
  BY DEF Watched
<1>3. <<h, v>> \in Helping
  BY <1>1, <1>2 DEF Helping, HelperOn
<1>4. v \in Missed(Helping)
  BY <1>3 DEF Missed
<1>. QED
  BY <1>2, <1>4

LEMMA StartClean ==
  ASSUME CleanupInv, NEW c \in Commands, Start(c), Goes(c)
  PROVE  CleanupInv'
<1>1. TypeOK /\ OldImage \subseteq Containers
  BY LegacyAssumption DEF CleanupInv, Containers
<1>2. PICK k \in begun.calls[c] :
        /\ call' = [call EXCEPT ![c] = k]
        /\ \/ pc' = [pc EXCEPT ![c] = FirstStage(k)] /\ UNCHANGED stray
           \/ /\ k.verb = "down"
              /\ pc' = [pc EXCEPT ![c] = "executing"]
              /\ stray' = Missed(Helping)
  BY DEF Start
<1>3. call'[c] = k /\ k \in Calls /\ (k.orphans => k.verb \in Creating \union {"down"})
  BY <1>1, <1>2, CallTyped, OrphansCall DEF TypeOK
<1>4. pc[c] = "idle" /\ UNCHANGED <<begun, containers, volumes, found, legacy, left, volume>>
  BY DEF Start, host, migration
<1>5. CASE pc' = [pc EXCEPT ![c] = FirstStage(k)] /\ UNCHANGED stray
  <2>1. pc'[c] = FirstStage(k)
    BY <1>1, <1>5 DEF TypeOK
  <2>2. /\ pc'[c] \in {"probing", "checking", "capturing", "executing"}
        /\ pc'[c] \in {"probing", "checking"} => k.verb # "down"
        /\ pc'[c] = "executing" => k.verb \notin Creating \union {"down"}
    BY <2>1, ClassOf DEF FirstStage
  <2>3. /\ pc[c] \notin {"looking", "executing", "listing"} \union Cleaning
        /\ pc'[c] \notin {"looking", "listing"} \union Cleaning
        /\ pc'[c] \in Before \union Resolving \union {"probing"} => pc'[c] \in {"probing", "checking"}
    BY <1>4, <2>2 DEF Cleaning, Before, Early, Resolving
  <2>. QED
    BY <1>3, <1>4, <1>5, <2>2, <2>3, AwayClean
<1>6. CASE pc' = [pc EXCEPT ![c] = "executing"] /\ stray' = Missed(Helping)
  <2>1. pc'[c] = "executing" /\ stray \subseteq stray'
    BY <1>1, <1>6 DEF TypeOK, Missed
  <2>2. \A v \in Watched', h \in OldImage : ~ HelperOn(h, v)'
    BY <1>4, <1>6, NoneMissed
  <2>3. /\ pc[c] \notin {"looking", "executing", "listing"} \union Cleaning
        /\ pc'[c] \notin {"looking", "listing"} \union Cleaning
        /\ pc'[c] \notin Before \union Resolving \union {"probing"}
    BY <1>4, <2>1 DEF Cleaning, Before, Early, Resolving
  <2>. QED
    BY <1>4, <2>1, <2>2, <2>3, AwayClean
<1>. QED
  BY <1>2, <1>5, <1>6

LEMMA StopsClean ==
  ASSUME CleanupInv, NEW c \in Commands, Stops(c), Goes(c)
  PROVE  CleanupInv'
<1>1. /\ TypeOK /\ OldImage \subseteq Containers /\ Ends(c)
      /\ UNCHANGED <<begun, containers, volumes>>
      /\ stray' = stray \union ({At(c)} \ {None})
  BY LegacyAssumption DEF CleanupInv, Containers, Stops, host, At
<1>2. At(c) \notin Watched'
  BY <1>1, LegacyAssumption DEF Watched
<1>. QED
  BY <1>1, <1>2, QuietHost, EndsClean

LEMMA PreparingClean ==
  ASSUME CleanupInv, NEW c \in Commands, Goes(c),
         Check(c) \/ ListPrebuild(c) \/ Prebuild(c) \/ Inspect(c) \/ InspectMissing(c)
  PROVE  CleanupInv'
<1>1. /\ TypeOK /\ OldImage \subseteq Containers /\ Kept(c)
      /\ UNCHANGED <<begun, containers, volumes, stray>>
      /\ pc[c] \in Before
  BY LegacyAssumption DEF CleanupInv, Containers, Check, ListPrebuild, Prebuild, Inspect,
     InspectMissing, host, Step, Before, Early
<1>2. /\ pc[c] \notin Cleaning \union {"looking", "executing", "listing"}
      /\ call[c].verb # "down"
  BY <1>1 DEF Before, Early, Cleaning, Kept
<1>3. CASE Ends(c)
  BY <1>1, <1>2, <1>3, QuietHost, EndsClean
<1>4. CASE ~ Ends(c)
  <2>1. UNCHANGED <<call, found, legacy, left, volume>>
    BY <1>4 DEF Check, ListPrebuild, Prebuild, Inspect, InspectMissing, migration
  <2>2. /\ pc'[c] \in Before \union {"capturing"} \union Resolving
    <3>1. CASE Check(c)
      BY <1>1, <1>4, <3>1 DEF Check, Step, TypeOK, Before, Early, Resolving
    <3>2. CASE ListPrebuild(c)
      BY <1>1, <3>2 DEF ListPrebuild, Step, TypeOK, Before, Early
    <3>3. CASE Prebuild(c)
      BY <1>1, <3>3 DEF Prebuild, Step, TypeOK, Before, Early
    <3>4. CASE Inspect(c)
      BY <1>1, <3>4 DEF Inspect, Step, TypeOK, Before, AfterInspection, Resolving
    <3>5. CASE InspectMissing(c)
      BY <1>1, <1>4, <3>5 DEF InspectMissing
    <3>. QED
      BY <3>1, <3>2, <3>3, <3>4, <3>5
  <2>3. /\ pc'[c] \notin {"looking", "listing"} \union Cleaning /\ pc'[c] # "executing"
    BY <2>2 DEF Before, Early, Resolving, Cleaning
  <2>. QED
    BY <1>1, <1>2, <2>1, <2>3, AwayClean
<1>. QED
  BY <1>3, <1>4

LEMMA ResolvingClean ==
  ASSUME CleanupInv, NEW c \in Commands, Goes(c),
         FindRuntime(c) \/ VerifyRuntime(c) \/ PullRuntime(c) \/ Probe(c) \/ Report(c)
  PROVE  CleanupInv'
<1>1. /\ TypeOK /\ OldImage \subseteq Containers /\ Kept(c)
      /\ UNCHANGED <<begun, containers, volumes, stray>>
      /\ pc[c] \in Resolving \union {"probing", "reporting"}
  BY LegacyAssumption DEF CleanupInv, Containers, FindRuntime, VerifyRuntime, PullRuntime,
     Probe, Report, host, Step, Resolving
<1>2. /\ pc[c] \notin Cleaning \union {"looking", "executing", "listing"}
      /\ pc[c] # "reporting" => call[c].verb # "down"
  BY <1>1 DEF Cleaning, Resolving, Kept
<1>3. CASE Ends(c)
  BY <1>1, <1>2, <1>3, QuietHost, EndsClean
<1>4. CASE ~ Ends(c)
  <2>0. pc[c] # "reporting"
    BY <1>4 DEF FindRuntime, VerifyRuntime, PullRuntime, Probe, Report
  <2>1. \/ Refetch(c, TRUE) \/ Refetch(c, FALSE) \/ GiveUp(c)
        \/ Step(c, "resolving", "verifying") /\ UNCHANGED <<call, migration>>
        \/ Step(c, "verifying", AfterRuntime(c)) /\ UNCHANGED <<call, migration>>
        \/ Step(c, "fetching", "resolving") /\ UNCHANGED <<call, migration>>
        \/ Probe(c)
    <3>1. CASE FindRuntime(c)
      BY <3>1 DEF FindRuntime, Unusable
    <3>2. CASE VerifyRuntime(c)
      BY <3>2 DEF VerifyRuntime, Unusable
    <3>3. CASE PullRuntime(c)
      BY <3>3 DEF PullRuntime
    <3>. QED
      BY <1>4, <3>1, <3>2, <3>3 DEF Report
  <2>2. UNCHANGED <<call, found, legacy, left, volume>>
    BY <1>4, <2>1 DEF Refetch, GiveUp, Probe, migration
  <2>3. /\ pc'[c] \in Resolving \union {"probing", "reporting", "capturing", "executing"}
        /\ pc'[c] = "executing" => pc'[c] = AfterRuntime(c)
    <3>1. CASE Probe(c)
      BY <1>1, <3>1 DEF Probe, TypeOK, Resolving
    <3>2. CASE Refetch(c, TRUE) \/ Refetch(c, FALSE)
      BY <1>1, <3>2 DEF Refetch, TypeOK, Resolving
    <3>3. CASE GiveUp(c)
      BY <1>1, <1>4, <3>3 DEF GiveUp, TypeOK, Resolving
    <3>. QED
      BY <1>1, <2>1, <3>1, <3>2, <3>3 DEF Step, TypeOK, AfterRuntime, Resolving
  <2>4. pc'[c] = "executing" => ~ call'[c].orphans
    <3>1. SUFFICES ASSUME pc'[c] = "executing", call[c].orphans
                   PROVE  FALSE
      BY <2>2
    <3>2. call[c].verb # "doctor" /\ Class(call[c].verb) # "render"
      BY <2>3, <3>1 DEF AfterRuntime
    <3>3. call[c].verb \in Creating \union {"down"}
      BY <1>1, <3>1, OrphansCall DEF TypeOK
    <3>. QED
      BY <1>2, <2>0, <3>2, <3>3, ClassOf
  <2>5. pc'[c] \notin {"looking", "listing"} \union Cleaning
    BY <2>3 DEF Resolving, Cleaning
  <2>. QED
    BY <1>1, <1>2, <2>0, <2>2, <2>4, <2>5, AwayClean
<1>. QED
  BY <1>3, <1>4

LEMMA CaptureClean ==
  ASSUME CleanupInv, NEW c \in Commands, Capture(c), Goes(c)
  PROVE  CleanupInv'
<1>1. /\ TypeOK /\ OldImage \subseteq Containers /\ pc[c] = "capturing"
      /\ Kept(c) /\ Placed(c)
      /\ UNCHANGED <<begun, containers, volumes, legacy, left, volume, call>>
  BY LegacyAssumption DEF CleanupInv, Containers, Capture, host, Step
<1>2. found[c] = {} /\ legacy[c] = {} /\ left[c] = {} /\ volume[c] = NoVolume
  BY <1>1 DEF Kept, Placed, Captured, Cleaning
<1>3. CASE /\ found' = [found EXCEPT ![c] = Helping]
           /\ Step(c, "capturing", IF Helping = {} THEN "executing" ELSE "looking")
           /\ UNCHANGED stray
  <2>1. /\ found'[c] = Helping /\ legacy'[c] = {} /\ left'[c] = {} /\ volume'[c] = NoVolume
        /\ pc'[c] \in {"looking", "executing"} /\ (pc'[c] # "looking" => found'[c] = {})
    BY <1>1, <1>2, <1>3 DEF Step, TypeOK
  <2>2. \A p \in Helping : containers'[p[1]].volume = p[2]
    BY <1>1 DEF Helping
  <2>3. Kept(c)'
    BY <2>1, <2>2 DEF Kept, Before, Early, Resolving
  <2>4. Placed(c)'
    BY <2>1 DEF Placed, Cleaning
  <2>5. Missing(c)'
    <3> SUFFICES ASSUME NEW v \in Watched', NEW h \in OldImage, HelperOn(h, v)'
                 PROVE  \E p \in found'[c] \union legacy'[c] : p[2] = v
      BY DEF Missing
    <3>1. v \in HexNamed /\ HelperOn(h, v)
      BY <1>1 DEF Watched, HelperOn
    <3>2. <<h, v>> \in Helping
      BY <3>1 DEF Helping, HelperOn
    <3>. QED
      BY <2>1, <3>2
  <2>. QED
    BY <1>1, <1>3, <2>1, <2>3, <2>4, <2>5, QuietHost, StepClean
<1>4. CASE /\ Step(c, "capturing", "executing")
           /\ stray' = Missed(Helping)
           /\ UNCHANGED found
  <2>1. pc'[c] = "executing" /\ stray \subseteq stray'
    BY <1>1, <1>4 DEF Step, TypeOK, Missed
  <2>2. \A v \in Watched', h \in OldImage : ~ HelperOn(h, v)'
    BY <1>1, <1>4, NoneMissed
  <2>3. /\ pc[c] \notin {"looking", "executing", "listing"} \union Cleaning
        /\ pc'[c] \notin {"looking", "listing"} \union Cleaning
        /\ pc'[c] \notin Before \union Resolving \union {"probing"}
    BY <1>1, <2>1 DEF Cleaning, Before, Early, Resolving
  <2>. QED
    BY <1>1, <1>4, <2>1, <2>2, <2>3, AwayClean
<1>. QED
  BY <1>3, <1>4 DEF Capture

LEMMA LookClean ==
  ASSUME CleanupInv, NEW c \in Commands, Look(c), Goes(c)
  PROVE  CleanupInv'
<1>1. /\ TypeOK /\ OldImage \subseteq Containers /\ pc[c] = "looking"
      /\ Kept(c) /\ Placed(c) /\ Missing(c)
      /\ UNCHANGED <<begun, containers, volumes, left, volume, call>>
      /\ pc'[c] \in {"looking", "executing"}
  BY LegacyAssumption DEF CleanupInv, Containers, Look, host, Step, TypeOK
<1>2. volume[c] = NoVolume /\ legacy[c] \subseteq OldImage \X HexNamed
  BY <1>1 DEF Placed, Cleaning, TypeOK
<1>3. PICK p \in found[c] :
       \/ /\ Step(c, "looking", IF found[c] = {p} THEN "executing" ELSE "looking")
          /\ found' = [found EXCEPT ![c] = found[c] \ {p}]
          /\ legacy' = [legacy EXCEPT ![c] =
               IF volumes[p[2]] = "anonymous" THEN legacy[c] \union {p} ELSE legacy[c]]
          /\ UNCHANGED stray
       \/ /\ Step(c, "looking", "executing")
          /\ stray' = Missed(found[c])
          /\ found' = [found EXCEPT ![c] = {}]
          /\ UNCHANGED legacy
  BY DEF Look
<1>4. /\ found'[c] \subseteq found[c] /\ legacy[c] \subseteq legacy'[c]
      /\ legacy'[c] \subseteq legacy[c] \union {p}
      /\ p \in legacy'[c] => p \in legacy[c] \/ volumes[p[2]] = "anonymous"
      /\ pc'[c] # "looking" => found'[c] = {}
      /\ stray \subseteq stray'
  BY <1>1, <1>3 DEF Step, TypeOK, Missed
<1>5. Kept(c)'
  <2>1. Captured(c) \subseteq Captured(c)'
    BY <1>4 DEF Captured
  <2>2. pc'[c] \notin Before \union Resolving \union {"probing"}
    BY <1>1 DEF Before, Early, Resolving
  <2>. QED
    BY <1>1, <1>4, <2>1, <2>2 DEF Kept
<1>6. Placed(c)'
  BY <1>1, <1>2 DEF Placed, Cleaning
<1>7. Missing(c)'
  <2> SUFFICES ASSUME call[c].orphans, NEW v \in Watched'
               PROVE  \/ \E q \in found'[c] \union legacy'[c] : q[2] = v
                      \/ \A h \in OldImage : ~ HelperOn(h, v)'
    BY <1>1 DEF Missing
  <2>1. v \in Watched /\ v \notin stray' /\ volumes[v] = "anonymous"
    BY <1>1, <1>4 DEF Watched
  <2>2. CASE \A h \in OldImage : ~ HelperOn(h, v)
    BY <1>1, <2>2 DEF HelperOn
  <2>3. ASSUME NEW q \in found[c] \union legacy[c], q[2] = v
        PROVE  \E r \in found'[c] \union legacy'[c] : r[2] = v
    BY <1>1, <1>3, <1>4, <2>1, <2>3 DEF Missed, TypeOK
  <2>. QED
    BY <1>1, <2>1, <2>2, <2>3 DEF Missing
<1>. QED
  BY <1>1, <1>4, <1>5, <1>6, <1>7, QuietHost, StepClean

\* Orphans are removed only when no helper is left to have a watched volume.
LEMMA ExecuteClean ==
  ASSUME CleanupInv, NEW c \in Commands, Execute(c), Goes(c)
  PROVE  CleanupInv'
<1>1. /\ TypeOK /\ pc[c] = "executing"
      /\ Kept(c) /\ Placed(c) /\ Missing(c)
      /\ UNCHANGED <<begun, volumes, stray>>
      /\ OldImage \subseteq Helpers /\ OldImage \subseteq Containers
      /\ OldImage \intersect Services = {}
  BY LegacyAssumption DEF CleanupInv, Containers, Execute
<1>2. /\ volume[c] = NoVolume /\ found[c] = {}
      /\ pc[c] \notin Cleaning
  BY <1>1 DEF Placed, Kept, Cleaning
<1>3. \A x \in Containers :
        \/ containers'[x] = containers[x]
        \/ containers'[x] = None /\ (x \in Services \/ x \in Orphans(c))
        \/ x \in Services /\ containers'[x].volume = None
  <2>1. CASE ComposeCreates(c)
    <3>1. PICK made \in SUBSET {s \in Services : Creatable(c, s)} : \E run \in [made -> Images] :
            containers' = [x \in Containers |->
              IF x \in made
              THEN IF Injects(c)
                   THEN Container(run[x], InitOf(c, x), entry[c][x], None,
                                  x \notin changed[c] /\ ~ call[c].refresh)
                   ELSE Container(run[x], None, None, None, FALSE)
              ELSE IF x \in Orphans(c) THEN None ELSE containers[x]]
      BY <2>1 DEF ComposeCreates
    <3>. QED
      BY <3>1 DEF Container
  <2>2. CASE ComposeFetches(c)
    BY <2>2 DEF ComposeFetches
  <2>3. CASE ComposeRemoves(c)
    BY <2>3 DEF ComposeRemoves
  <2>. QED
    BY <2>1, <2>2, <2>3 DEF Execute
<1>4. \A x \in Containers, v \in Volumes : HelperOn(x, v)' => HelperOn(x, v)
  BY <1>3, LegacyAssumption DEF HelperOn
<1>5. \A h \in OldImage :
        \/ containers'[h] = containers[h]
        \/ containers'[h] = None /\ call[c].orphans /\ legacy[c] = {}
  BY <1>1, <1>3 DEF Orphans
<1>6. Calm
  BY <1>1, <1>4, <1>5 DEF Calm
<1>7. \A v \in Watched', h \in OldImage : HelperOn(h, v) => HelperOn(h, v)'
  <2> SUFFICES ASSUME NEW v \in Watched', NEW h \in OldImage, HelperOn(h, v)
               PROVE  HelperOn(h, v)'
    OBVIOUS
  <2>1. v \in Watched
    BY <1>1 DEF Watched
  <2>2. call[c].orphans => legacy[c] # {}
    BY <1>1, <1>2, <2>1 DEF Missing
  <2>. QED
    BY <1>5, <2>2 DEF HelperOn
<1>8. CASE Ends(c)
  BY <1>2, <1>6, <1>7, <1>8, EndsClean
<1>9. CASE /\ left' = [left EXCEPT ![c] = Captured(c)]
           /\ Step(c, "executing", "listing")
           /\ UNCHANGED <<call, prepared, found, legacy, volume, results>>
  <2>1. /\ left'[c] = Captured(c) /\ pc'[c] = "listing"
        /\ UNCHANGED <<call, found, legacy, volume>>
    BY <1>1, <1>9 DEF Step, TypeOK
  <2>2. Captured(c)' = Captured(c)
    BY <2>1 DEF Captured
  <2>3. Kept(c)'
    <3>1. \A p \in legacy[c] : containers'[p[1]] # None =>
            containers[p[1]] # None /\ containers'[p[1]].volume = containers[p[1]].volume
      BY <1>1, <1>5 DEF TypeOK
    <3>2. pc'[c] \notin Before \union Resolving \union {"probing"}
      BY <2>1 DEF Before, Early, Resolving
    <3>. QED
      BY <1>1, <1>2, <2>1, <2>2, <3>1, <3>2 DEF Kept
  <2>4. Placed(c)'
    BY <1>2, <2>1 DEF Placed, Cleaning
  <2>5. Missing(c)'
    BY <2>1 DEF Missing
  <2>. QED
    BY <1>6, <1>7, <2>1, <2>3, <2>4, <2>5, StepClean
<1>. QED
  BY <1>8, <1>9 DEF Execute

LEMMA LeavesClean ==
  ASSUME CleanupInv, NEW c \in Commands, NEW v, Leaves(c, v), Goes(c), Calm,
         pc[c] \in {"listing"} \union Cleaning,
         \A w \in Watched', h \in OldImage : HelperOn(h, w) => HelperOn(h, w)',
         pc[c] \in Cleaning => At(c) \notin Watched'
  PROVE  CleanupInv'
<1>1. CASE Ends(c)
  BY <1>1, EndsClean
<1>2. CASE /\ left' = [left EXCEPT ![c] = left[c] \ {v}]
           /\ volume' = [volume EXCEPT ![c] = NoVolume]
           /\ pc' = [pc EXCEPT ![c] = "listing"]
           /\ UNCHANGED <<call, prepared, found, legacy, results>>
  <2>1. /\ TypeOK /\ Kept(c) /\ Placed(c) /\ OldImage \subseteq Containers
        /\ HexNamed \subseteq Volumes
    BY LegacyAssumption DEF CleanupInv, Containers
  <2>2. /\ left'[c] \subseteq left[c] /\ pc'[c] = "listing" /\ volume'[c] = NoVolume
        /\ UNCHANGED <<call, found, legacy>>
    BY <1>2, <2>1 DEF TypeOK
  <2>3. /\ pc[c] # "looking" /\ found[c] = {}
        /\ legacy[c] \subseteq OldImage \X HexNamed
    BY <2>1 DEF Kept, Cleaning, TypeOK
  <2>4. Kept(c)'
    <3>1. Captured(c)' = Captured(c)
      BY <2>2 DEF Captured
    <3>2. ASSUME NEW p \in legacy[c], containers'[p[1]] # None
          PROVE  containers'[p[1]].volume = p[2] /\ volumes'[p[2]] = "anonymous"
      <4>1. p[1] \in OldImage /\ p[2] \in Volumes
        BY <2>1, <2>3
      <4>2. containers[p[1]] # None /\ containers'[p[1]].volume = containers[p[1]].volume
        BY <3>2, <4>1 DEF Calm
      <4>3. containers[p[1]].volume = p[2] /\ volumes[p[2]] = "anonymous"
        BY <2>1, <4>2 DEF Kept
      <4>4. p[1] \in Users(p[2])
        BY <2>1, <4>1, <4>2, <4>3 DEF Users
      <4>. QED
        BY <4>1, <4>2, <4>3, <4>4 DEF Calm
    <3>3. pc'[c] \notin Before \union Resolving \union {"probing"}
      BY <2>2 DEF Before, Early, Resolving
    <3>. QED
      BY <2>1, <2>2, <2>3, <3>1, <3>2, <3>3 DEF Kept
  <2>5. Placed(c)' /\ Missing(c)'
    BY <2>2 DEF Placed, Missing, Cleaning
  <2>6. pc[c] \notin Cleaning => volume'[c] = volume[c]
    BY <2>1, <2>2 DEF Placed
  <2>. QED
    BY <2>2, <2>4, <2>5, <2>6, StepClean
<1>. QED
  BY <1>1, <1>2 DEF Leaves

LEMMA ListConsumersClean ==
  ASSUME CleanupInv, NEW c \in Commands, ListConsumers(c), Goes(c)
  PROVE  CleanupInv'
<1>1. /\ TypeOK /\ Across /\ pc[c] = "listing" /\ Kept(c) /\ Placed(c)
      /\ UNCHANGED <<begun, containers, volumes, stray>>
      /\ OldImage \subseteq Containers /\ None \notin Volumes /\ HexNamed \subseteq Volumes
  BY LegacyAssumption DEF CleanupInv, Containers, ListConsumers, host
<1>2. /\ volume[c] = NoVolume /\ At(c) = None /\ pc[c] \notin Cleaning
      /\ TypeOK'
  BY <1>1 DEF Placed, Cleaning, At, NoVolume, Goes, HostTyped, LocalTyped, TypeOK
<1>3. PICK v \in left[c] :
        \/ /\ Users(v) \subseteq HelpersOf(c, v)
           /\ volume' = [volume EXCEPT ![c] =
                          [at |-> v, helpers |-> HelpersOf(c, v), kept |-> FALSE]]
           /\ Step(c, "listing", "removing")
           /\ UNCHANGED <<call, prepared, found, legacy, left, results>>
        \/ Leaves(c, v)
  BY DEF ListConsumers
<1>4. CASE Leaves(c, v)
  BY <1>1, <1>2, <1>4, QuietHost, LeavesClean
<1>5. CASE /\ Users(v) \subseteq HelpersOf(c, v)
           /\ volume' = [volume EXCEPT ![c] =
                          [at |-> v, helpers |-> HelpersOf(c, v), kept |-> FALSE]]
           /\ Step(c, "listing", "removing")
           /\ UNCHANGED <<call, prepared, found, legacy, left, results>>
  <2>1. /\ pc'[c] = "removing" /\ UNCHANGED <<call, found, legacy, left>>
        /\ volume'[c] = [at |-> v, helpers |-> HelpersOf(c, v), kept |-> FALSE]
        /\ \A d \in Commands \ {c} : volume'[d] = volume[d]
    BY <1>1, <1>5 DEF Step, TypeOK
  <2>2. /\ At(c)' = v /\ volume'[c].helpers = HelpersOf(c, v) /\ ~ volume'[c].kept
        /\ \A d \in Commands \ {c} : At(d)' = At(d)
    BY <2>1 DEF At
  <2>3. Kept(c)'
    <3>1. pc'[c] \notin Before \union Resolving \union {"probing"} /\ pc[c] # "looking"
      BY <1>1, <2>1 DEF Before, Early, Resolving
    <3>2. Captured(c)' = Captured(c)
      BY <2>1 DEF Captured
    <3>. QED
      BY <1>1, <2>1, <3>1, <3>2 DEF Kept, Cleaning
  <2>4. Placed(c)'
    BY <2>1, <2>2 DEF Placed, Cleaning, HelpersOf
  <2>5. Missing(c)'
    BY <2>1 DEF Missing
  <2>6. \A d \in Commands \ {c} : (Kept(d) /\ Placed(d) /\ Missing(d))'
    BY <1>1, <1>2, QuietHost, StillClean DEF Goes, Apart
  <2>7. Watched' = Watched /\ \A h, w : HelperOn(h, w)' <=> HelperOn(h, w)
    BY <1>1 DEF Watched, HelperOn
  <2>8. \A w \in Watched : w # None
    BY <1>1 DEF Watched
  <2>9. Across'
    <3>1. ASSUME NEW w \in Watched
          PROVE  Reached(w)'
      <4>1. Reached(w)
        BY <1>1 DEF Across
      <4>. QED
        BY <1>2, <2>1, <2>2, <2>7, <2>8, <4>1 DEF Reached
    <3>2. ASSUME NEW d \in Commands
          PROVE  Deferred(d)' /\ Alone(d)'
      <4>1. CASE d = c
        <5>1. Deferred(c)'
          BY <2>2 DEF Deferred
        <5>2. Alone(c)'
          BY <1>1, <1>5, <2>2 DEF Alone, Users
        <5>. QED
          BY <4>1, <5>1, <5>2
      <4>2. CASE d # c
        <5>1. volume'[d] = volume[d] /\ At(d)' = At(d) /\ Deferred(d) /\ Alone(d)
          BY <1>1, <2>1, <2>2, <4>2 DEF Across
        <5>2. Alone(d)'
          BY <1>1, <2>7, <5>1 DEF Alone, Users
        <5>3. ASSUME NEW e \in Commands \ {d}, At(e) = At(d), ~ volume[e].kept, At(d) \in Watched
              PROVE  At(e)' = At(e) /\ ~ volume'[e].kept
          BY <1>2, <2>1, <2>2, <2>8, <5>3
        <5>4. Deferred(d)'
          BY <2>7, <5>1, <5>3 DEF Deferred
        <5>. QED
          BY <5>2, <5>4
      <4>. QED
        BY <4>1, <4>2
    <3>3. \A d, e \in Commands :
            d # e /\ At(d)' = At(e)' /\ At(d)' \in Watched => ~ (volume'[d].kept /\ volume'[e].kept)
      BY <1>1, <2>1, <2>2 DEF Across
    <3>. QED
      BY <2>7, <3>1, <3>2, <3>3 DEF Across
  <2>. QED
    BY <1>2, <2>3, <2>4, <2>5, <2>6, <2>9 DEF CleanupInv
<1>. QED
  BY <1>3, <1>4, <1>5

LEMMA RecheckClean ==
  ASSUME CleanupInv, NEW c \in Commands, Recheck(c), Goes(c)
  PROVE  CleanupInv'
<1>1. /\ TypeOK /\ pc[c] = "rechecking" /\ Kept(c) /\ Placed(c)
      /\ UNCHANGED <<begun, containers, volumes>> /\ stray \subseteq stray'
      /\ OldImage \subseteq Containers
  BY LegacyAssumption DEF CleanupInv, Containers, Recheck, host
<1>2. CASE /\ volumes[At(c)] = "anonymous"
           /\ Step(c, "rechecking", "deleting")
           /\ UNCHANGED <<call, prepared, migration, results, stray>>
  <2>1. pc'[c] = "deleting" /\ UNCHANGED <<call, found, legacy, left, volume>>
    BY <1>1, <1>2 DEF Step, TypeOK, migration
  <2>2. Kept(c)'
    <3>1. pc'[c] \notin Before \union Resolving \union {"probing"} /\ pc[c] # "looking"
      BY <1>1, <2>1 DEF Before, Early, Resolving
    <3>2. Captured(c)' = Captured(c)
      BY <2>1 DEF Captured
    <3>. QED
      BY <1>1, <2>1, <3>1, <3>2 DEF Kept, Cleaning
  <2>3. Placed(c)'
    <3>1. At(c)' = At(c)
      BY <2>1 DEF At
    <3>. QED
      BY <1>1, <1>2, <2>1, <3>1 DEF Placed, Cleaning
  <2>4. Missing(c)'
    BY <2>1 DEF Missing
  <2>. QED
    BY <1>1, <2>1, <2>2, <2>3, <2>4, QuietHost, StepClean
<1>3. CASE /\ volumes[At(c)] # "anonymous" \/ stray' = stray \union {At(c)}
           /\ Leaves(c, At(c))
  <2>1. At(c) \notin Watched'
    BY <1>1, <1>3 DEF Watched
  <2>. QED
    BY <1>1, <1>3, <2>1, QuietHost, LeavesClean DEF Cleaning
<1>. QED
  BY <1>2, <1>3 DEF Recheck, At

\* A volume that nobody else may use is removed, if it is watched.
LEMMA RemoveVolumeClean ==
  ASSUME CleanupInv, NEW c \in Commands, RemoveVolume(c), Goes(c)
  PROVE  CleanupInv'
<1>1. /\ TypeOK /\ Across /\ pc[c] = "deleting" /\ Kept(c) /\ Placed(c)
      /\ UNCHANGED <<begun, containers>> /\ stray \subseteq stray'
      /\ OldImage \subseteq Containers /\ Leaves(c, At(c))
      /\ At(c) \in Volumes
  BY LegacyAssumption DEF CleanupInv, Containers, RemoveVolume, At, Placed, Cleaning, TypeOK
<1>2. /\ \/ Users(At(c)) = {} /\ volumes' = [volumes EXCEPT ![At(c)] = "gone"] /\ UNCHANGED stray
         \/ Users(At(c)) # {} /\ UNCHANGED <<volumes, stray>>
         \/ stray' = stray \union {At(c)} /\ UNCHANGED volumes
  BY DEF RemoveVolume, At
<1>3. Calm
  BY <1>1, <1>2 DEF Calm, HelperOn, TypeOK
<1>4. At(c) \notin Watched'
  <2>1. CASE Users(At(c)) = {} /\ volumes' = [volumes EXCEPT ![At(c)] = "gone"]
    BY <1>1, <2>1 DEF Watched, TypeOK
  <2>2. CASE Users(At(c)) # {} /\ UNCHANGED <<volumes, stray>>
    <3>1. ~ volume[c].kept /\ volume[c].helpers = {} /\ Alone(c)
      BY <1>1 DEF Placed, Across
    <3>. QED
      BY <1>1, <2>2, <3>1 DEF Alone, Watched
  <2>3. CASE stray' = stray \union {At(c)}
    BY <2>3 DEF Watched
  <2>. QED
    BY <1>2, <2>1, <2>2, <2>3
<1>5. \A v \in Watched', h \in OldImage : HelperOn(h, v) => HelperOn(h, v)'
  BY <1>1 DEF HelperOn
<1>. QED
  BY <1>1, <1>3, <1>4, <1>5, LeavesClean DEF Cleaning

\* How a clean-up goes on after it has removed, or failed to remove, a helper.
Proceeds(c, h, kept) ==
  LET rest == volume[c].helpers \ {h}
      deferred == volume[c].kept \/ kept IN
  IF rest = {} /\ deferred THEN Leaves(c, At(c))
  ELSE /\ volume' = [volume EXCEPT ![c] = [at |-> At(c), helpers |-> rest, kept |-> deferred]]
       /\ pc' = [pc EXCEPT ![c] = IF rest = {} THEN "rechecking" ELSE "removing"]
       /\ UNCHANGED <<call, prepared, found, legacy, left, results>>

\* Where the clean-up is afterwards: elsewhere, or at the same volume.
LEMMA ProceedsTo ==
  ASSUME CleanupInv, NEW c \in Commands, NEW h \in volume[c].helpers, NEW kept \in BOOLEAN,
         Proceeds(c, h, kept), Goes(c), pc[c] = "removing"
  PROVE  /\ \/ (volume[c].kept \/ kept) /\ volume'[c] = NoVolume
            \/ /\ At(c)' = At(c) /\ volume'[c].helpers = volume[c].helpers \ {h}
               /\ volume'[c].kept = (volume[c].kept \/ kept)
         /\ \A d \in Commands \ {c} : volume'[d] = volume[d] /\ At(d)' = At(d)
<1>1. TypeOK
  BY DEF CleanupInv
<1>2. \A d \in Commands \ {c} : volume'[d] = volume[d] /\ At(d)' = At(d)
  BY DEF Goes, Apart, Still, At
<1>3. CASE Leaves(c, At(c)) /\ (volume[c].kept \/ kept)
  BY <1>1, <1>2, <1>3 DEF Leaves, Ends, TypeOK
<1>4. CASE volume' = [volume EXCEPT ![c] =
             [at |-> At(c), helpers |-> volume[c].helpers \ {h}, kept |-> volume[c].kept \/ kept]]
  <2>1. volume'[c] =
          [at |-> At(c), helpers |-> volume[c].helpers \ {h}, kept |-> volume[c].kept \/ kept]
    BY <1>1, <1>4 DEF TypeOK
  <2>. QED
    BY <1>2, <2>1 DEF At
<1>. QED
  BY <1>3, <1>4 DEF Proceeds

LEMMA ProceedsClean ==
  ASSUME CleanupInv, NEW c \in Commands, NEW h \in volume[c].helpers, NEW kept \in BOOLEAN,
         Proceeds(c, h, kept), Goes(c), pc[c] = "removing", Calm
  PROVE  Kept(c)' /\ Placed(c)' /\ Missing(c)'
<1>1. /\ TypeOK /\ Kept(c) /\ Placed(c) /\ OldImage \subseteq Containers
      /\ HexNamed \subseteq Volumes /\ legacy[c] \subseteq OldImage \X HexNamed
  BY LegacyAssumption DEF CleanupInv, Containers, TypeOK
<1>2. CASE Ends(c)
  <2>1. /\ pc'[c] = "idle" /\ found'[c] = {} /\ legacy'[c] = {} /\ left'[c] = {}
        /\ volume'[c] = NoVolume
    BY <1>1, <1>2 DEF Ends, TypeOK
  <2>. QED
    BY <2>1 DEF Kept, Placed, Missing, Before, Early, Resolving, Cleaning
<1>3. CASE ~ Ends(c)
  <2>1. /\ left'[c] \subseteq left[c] /\ UNCHANGED <<call, found, legacy>>
        /\ \/ pc'[c] = "listing" /\ volume'[c] = NoVolume
           \/ /\ pc'[c] = IF volume[c].helpers \ {h} = {} THEN "rechecking" ELSE "removing"
              /\ volume'[c] = [at |-> At(c), helpers |-> volume[c].helpers \ {h},
                               kept |-> volume[c].kept \/ kept]
              /\ left'[c] = left[c]
              /\ volume[c].helpers \ {h} # {} \/ ~ (volume[c].kept \/ kept)
    <3>1. CASE Leaves(c, At(c))
      BY <1>1, <1>3, <3>1 DEF Leaves, TypeOK
    <3>2. CASE ~ Leaves(c, At(c))
      <4>1. /\ volume' = [volume EXCEPT ![c] = [at |-> At(c), helpers |-> volume[c].helpers \ {h},
                                               kept |-> volume[c].kept \/ kept]]
            /\ pc' = [pc EXCEPT ![c] =
                        IF volume[c].helpers \ {h} = {} THEN "rechecking" ELSE "removing"]
            /\ UNCHANGED <<call, found, legacy, left>>
            /\ volume[c].helpers \ {h} # {} \/ ~ (volume[c].kept \/ kept)
        BY <3>2 DEF Proceeds
      <4>2. /\ volume'[c] = [at |-> At(c), helpers |-> volume[c].helpers \ {h},
                             kept |-> volume[c].kept \/ kept]
            /\ pc'[c] = IF volume[c].helpers \ {h} = {} THEN "rechecking" ELSE "removing"
        BY <1>1, <4>1 DEF TypeOK
      <4>. QED
        BY <4>1, <4>2
    <3>. QED
      BY <3>1, <3>2
  <2>2. Kept(c)'
    <3>1. Captured(c)' = Captured(c)
      BY <2>1 DEF Captured
    <3>2. ASSUME NEW p \in legacy[c], containers'[p[1]] # None
          PROVE  containers'[p[1]].volume = p[2] /\ volumes'[p[2]] = "anonymous"
      <4>1. p[1] \in OldImage /\ p[2] \in Volumes
        BY <1>1
      <4>2. containers[p[1]] # None /\ containers'[p[1]].volume = containers[p[1]].volume
        BY <3>2, <4>1 DEF Calm
      <4>3. containers[p[1]].volume = p[2] /\ volumes[p[2]] = "anonymous"
        BY <1>1, <4>2 DEF Kept
      <4>4. p[1] \in Users(p[2])
        BY <1>1, <4>1, <4>2, <4>3 DEF Users
      <4>. QED
        BY <4>1, <4>2, <4>3, <4>4 DEF Calm
    <3>3. /\ pc'[c] \notin Before \union Resolving \union {"probing"} /\ found[c] = {}
          /\ pc'[c] \in {"listing"} \union Cleaning
      BY <1>1, <2>1 DEF Before, Early, Resolving, Kept, Cleaning
    <3>. QED
      BY <1>1, <2>1, <3>1, <3>2, <3>3 DEF Kept
  <2>3. Placed(c)'
    <3>1. CASE pc'[c] = "listing" /\ volume'[c] = NoVolume
      BY <3>1 DEF Placed, Cleaning
    <3>2. CASE /\ pc'[c] = IF volume[c].helpers \ {h} = {} THEN "rechecking" ELSE "removing"
               /\ volume'[c] = [at |-> At(c), helpers |-> volume[c].helpers \ {h},
                                kept |-> volume[c].kept \/ kept]
               /\ left'[c] = left[c]
               /\ volume[c].helpers \ {h} # {} \/ ~ (volume[c].kept \/ kept)
      <4>1. At(c)' = At(c)
        BY <3>2 DEF At
      <4>. QED
        BY <1>1, <2>1, <3>2, <4>1 DEF Placed, Cleaning
    <3>. QED
      BY <2>1, <3>1, <3>2
  <2>4. Missing(c)'
    BY <2>1 DEF Missing
  <2>. QED
    BY <2>2, <2>3, <2>4
<1>. QED
  BY <1>2, <1>3

\* One helper less, or one that is kept: whoever is at its volume can still tell.
LEMMA ProceedsAcross ==
  ASSUME CleanupInv, NEW c \in Commands, NEW h \in volume[c].helpers, NEW kept \in BOOLEAN,
         Proceeds(c, h, kept), Goes(c), pc[c] = "removing", Calm, UNCHANGED volumes,
         IF kept THEN UNCHANGED containers /\ containers[h] # None
         ELSE containers' = [containers EXCEPT ![h] = None],
         kept => \A d \in Commands \ {c} : At(d) = At(c) => At(c) \notin Watched'
  PROVE  Across'
<1>0. PICK v \in Volumes \union {None} : v = At(c)
  BY DEF CleanupInv, TypeOK, At
<1>1. /\ TypeOK /\ Across /\ Kept(c) /\ Placed(c) /\ Alone(c) /\ Deferred(c)
      /\ TypeOK'
      /\ OldImage \subseteq Containers /\ h \in OldImage /\ At(c) \in Volumes
  BY LegacyAssumption DEF CleanupInv, Across, Containers, TypeOK, Placed, Cleaning, Goes,
     HostTyped, LocalTyped
<1>2. /\ Watched' \subseteq Watched /\ None \notin Watched'
  BY <1>1, Watching
<1>3. /\ \/ (volume[c].kept \/ kept) /\ volume'[c] = NoVolume /\ At(c)' = None
         \/ /\ At(c)' = At(c) /\ volume'[c].helpers = volume[c].helpers \ {h}
            /\ volume'[c].kept = (volume[c].kept \/ kept)
      /\ \A d \in Commands \ {c} : volume'[d] = volume[d] /\ At(d)' = At(d)
  <2>1. /\ \/ (volume[c].kept \/ kept) /\ volume'[c] = NoVolume
           \/ /\ At(c)' = At(c) /\ volume'[c].helpers = volume[c].helpers \ {h}
              /\ volume'[c].kept = (volume[c].kept \/ kept)
        /\ \A d \in Commands \ {c} : volume'[d] = volume[d] /\ At(d)' = At(d)
    BY ProceedsTo
  <2>2. volume'[c] = NoVolume => At(c)' = None
    BY DEF At, NoVolume
  <2>. QED
    BY <2>1, <2>2
<1>4. containers[h] # None => containers[h].volume = At(c)
  <2>1. <<h, At(c)>> \in legacy[c]
    BY <1>1 DEF Placed, Cleaning
  <2>. QED
    BY <1>1, <2>1 DEF Kept
<1>5. /\ \A w \in Watched', x \in OldImage : HelperOn(x, w) /\ (w # At(c) \/ x # h) => HelperOn(x, w)'
      /\ kept => HelperOn(h, v)'
  BY <1>0, <1>1, <1>4 DEF HelperOn, TypeOK
<1>6. ASSUME NEW d \in Commands \ {c}, At(d) = At(c), At(c) \in Watched'
      PROVE  ~ kept /\ ~ (volume[c].kept /\ volume[d].kept)
  BY <1>1, <1>2, <1>6 DEF Across
\* A clean-up that keeps a helper leaves one behind, or another clean-up.
<1>7. ASSUME volume[c].kept \/ kept, At(c) \in Watched'
      PROVE  \/ \E x \in OldImage \ (volume[c].helpers \ {h}) : HelperOn(x, v)'
             \/ \E d \in Commands \ {c} : At(d)' = At(c) /\ ~ volume'[d].kept
  <2>1. CASE kept
    BY <1>1, <1>5, <2>1
  <2>2. CASE volume[c].kept
    <3>1. \/ \E x \in OldImage \ volume[c].helpers : HelperOn(x, At(c))
          \/ \E d \in Commands \ {c} : At(d) = At(c) /\ ~ volume[d].kept
      BY <1>1, <1>2, <1>7, <2>2 DEF Deferred
    <3>2. ASSUME NEW x \in OldImage \ volume[c].helpers, HelperOn(x, At(c))
          PROVE  HelperOn(x, v)' /\ x \in OldImage \ (volume[c].helpers \ {h})
      BY <1>0, <1>5, <1>7, <3>2
    <3>. QED
      BY <1>3, <3>1, <3>2
  <2>. QED
    BY <1>7, <2>1, <2>2
<1>8. ASSUME NEW w \in Watched'
      PROVE  Reached(w)'
  <2>1. CASE w = At(c)
    <3>1. CASE volume[c].kept \/ kept
      BY <1>0, <1>7, <2>1, <3>1, <1>8 DEF Reached
    <3>2. CASE ~ (volume[c].kept \/ kept)
      BY <1>3, <2>1, <3>2 DEF Reached
    <3>. QED
      BY <3>1, <3>2
  <2>2. CASE w # At(c)
    <3>1. Reached(w)
      BY <1>1, <1>2 DEF Across
    <3>. QED
      BY <1>3, <1>5, <2>2, <3>1 DEF Reached
  <2>. QED
    BY <2>1, <2>2
<1>9. Deferred(c)'
  <2> SUFFICES ASSUME At(c)' \in Watched', volume'[c].kept
               PROVE  \/ \E x \in OldImage \ volume'[c].helpers : HelperOn(x, v)'
                      \/ \E d \in Commands \ {c} : At(d)' = At(c)' /\ ~ volume'[d].kept
    BY <1>0, <1>2, <1>3 DEF Deferred, HelperOn
  <2>1. At(c)' = At(c) /\ volume'[c].helpers = volume[c].helpers \ {h} /\ (volume[c].kept \/ kept)
    BY <1>2, <1>3
  <2>. QED
    BY <1>7, <2>1
<1>10. Alone(c)'
  <2> SUFFICES ASSUME At(c)' \in Watched', ~ volume'[c].kept
               PROVE  Users(v)' \subseteq volume'[c].helpers
    BY <1>0, <1>2, <1>3 DEF Alone, Users
  <2>1. /\ At(c)' = At(c) /\ volume'[c].helpers = volume[c].helpers \ {h}
        /\ ~ volume[c].kept /\ ~ kept
    BY <1>2, <1>3
  <2>2. Users(At(c)) \subseteq volume[c].helpers
    BY <1>1, <1>2, <2>1 DEF Alone
  <2>3. Users(v)' \subseteq Users(At(c)) \ {h}
    BY <1>0, <1>1, <2>1 DEF Users, TypeOK
  <2>. QED
    BY <1>0, <2>1, <2>2, <2>3
<1>11. ASSUME NEW d \in Commands \ {c}
       PROVE  Deferred(d)' /\ Alone(d)'
  <2> SUFFICES ASSUME At(d) \in Watched'
               PROVE  Deferred(d)' /\ Alone(d)'
    BY <1>3 DEF Deferred, Alone
  <2>1. Deferred(d) /\ Alone(d) /\ At(d) \in Watched /\ volume'[d] = volume[d] /\ At(d)' = At(d)
    BY <1>1, <1>2, <1>3 DEF Across
  <2>2. Users(At(d))' \subseteq Users(At(d))
    <3>1. \A u \in Volumes : Users(u)' \subseteq Users(u)
      BY DEF Calm, Users, HelperOn
    <3>2. PICK u \in Volumes : u = At(d)
      BY <1>1, <2>1, Watching
    <3>. QED
      BY <2>1, <3>1, <3>2 DEF Users
  <2>3. Alone(d)'
    BY <2>1, <2>2 DEF Alone
  <2>4. Deferred(d)'
    <3> SUFFICES ASSUME volume[d].kept
                 PROVE  \/ \E x \in OldImage \ volume[d].helpers : HelperOn(x, At(d))'
                        \/ \E e \in Commands \ {d} : At(e)' = At(d) /\ ~ volume'[e].kept
      BY <2>1 DEF Deferred, HelperOn
    <3>1. CASE At(d) = At(c)
      <4>1. ~ kept /\ ~ volume[c].kept
        BY <1>6, <3>1
      <4>. QED
        BY <1>3, <3>1, <4>1
    <3>2. CASE At(d) # At(c)
      <4>1. \/ \E x \in OldImage \ volume[d].helpers : HelperOn(x, At(d))
            \/ \E e \in Commands \ {d} : At(e) = At(d) /\ ~ volume[e].kept
        BY <2>1 DEF Deferred
      <4>. QED
        BY <1>3, <1>5, <3>2, <4>1
    <3>. QED
      BY <3>1, <3>2
  <2>. QED
    BY <2>3, <2>4
<1>12. ASSUME NEW d \in Commands, NEW e \in Commands, d # e, At(d)' = At(e)', At(d)' \in Watched'
       PROVE  ~ (volume'[d].kept /\ volume'[e].kept)
  <2>1. CASE d # c /\ e # c
    BY <1>1, <1>2, <1>3, <1>12, <2>1 DEF Across
  <2>2. ASSUME NEW x \in Commands \ {c}, At(x)' = At(c)', At(x)' \in Watched'
        PROVE  ~ (volume'[x].kept /\ volume'[c].kept)
    BY <1>2, <1>3, <1>6, <2>2
  <2>. QED
    BY <1>12, <2>1, <2>2
<1>13. \A w \in Watched' : Reached(w)'
  BY <1>8
<1>14. \A d \in Commands : Deferred(d)' /\ Alone(d)'
  BY <1>9, <1>10, <1>11
<1>. QED
  BY <1>12, <1>13, <1>14 DEF Across

LEMMA RemoveHelperClean ==
  ASSUME CleanupInv, NEW c \in Commands, RemoveHelper(c), Goes(c)
  PROVE  CleanupInv'
<1>1. /\ TypeOK /\ TypeOK' /\ pc[c] = "removing" /\ OldImage \subseteq Containers
      /\ UNCHANGED <<begun, volumes>>
  BY LegacyAssumption DEF CleanupInv, Containers, RemoveHelper, Goes, HostTyped, LocalTyped, TypeOK
<1>2. PICK h \in volume[c].helpers, kept \in BOOLEAN :
        /\ IF kept THEN containers[h] # None /\ UNCHANGED containers
           ELSE containers' = [containers EXCEPT ![h] = None]
        /\ stray' = stray \union
             {v \in {volume[d].at : d \in Commands \ {c}} : kept /\ v = volume[c].at}
        /\ Proceeds(c, h, kept)
  <2>1. PICK h \in volume[c].helpers : \E kept \in BOOLEAN :
        LET rest == volume[c].helpers \ {h}
            deferred == volume[c].kept \/ kept IN
        /\ IF kept THEN containers[h] # None /\ UNCHANGED containers
           ELSE containers' = [containers EXCEPT ![h] = None]
        /\ stray' = stray \union
             {v \in {volume[d].at : d \in Commands \ {c}} : kept /\ v = volume[c].at}
        /\ IF rest = {} /\ deferred THEN Leaves(c, volume[c].at)
           ELSE /\ volume' = [volume EXCEPT ![c] =
                               [at |-> volume[c].at, helpers |-> rest, kept |-> deferred]]
                /\ pc' = [pc EXCEPT ![c] = IF rest = {} THEN "rechecking" ELSE "removing"]
                /\ UNCHANGED <<call, prepared, found, legacy, left, results>>
    BY DEF RemoveHelper
  <2>. QED
    BY <2>1 DEF Proceeds, At
<1>3. h \in OldImage /\ h \in Containers
  BY <1>1 DEF TypeOK
<1>4. /\ \A x \in Containers : containers'[x] = containers[x] \/ containers'[x] = None
      /\ stray \subseteq stray'
  BY <1>1, <1>2, <1>3 DEF TypeOK
<1>5. Calm
  <2>1. \A x \in Containers, v \in Volumes : HelperOn(x, v)' => HelperOn(x, v)
    BY <1>4 DEF HelperOn
  <2>. QED
    BY <1>1, <1>4, <2>1 DEF Calm
<1>6. kept => \A d \in Commands \ {c} : At(d) = At(c) => At(c) \notin Watched'
  BY <1>2 DEF Watched, At
<1>7. Across'
  BY <1>1, <1>2, <1>5, <1>6, ProceedsAcross
<1>8. Kept(c)' /\ Placed(c)' /\ Missing(c)'
  BY <1>1, <1>2, <1>5, ProceedsClean
<1>9. \A d \in Commands \ {c} : (Kept(d) /\ Placed(d) /\ Missing(d))'
  BY <1>1, <1>5, StillClean DEF Goes, Apart
<1>. QED
  BY <1>1, <1>7, <1>8, <1>9 DEF CleanupInv

LEMMA CommandClean ==
  ASSUME CleanupInv, NEW c \in Commands, Command(c)
  PROVE  CleanupInv'
<1>1. pc[c] \in Cleaning => At(c) \in Volumes
  BY LegacyAssumption DEF CleanupInv, Placed, TypeOK
<1>2. TypeOK
  BY DEF CleanupInv
<1>3. Goes(c)
  BY <1>1, <1>2, CommandGoes
<1>4. CASE Start(c) \/ Stops(c) \/ Check(c) \/ ListPrebuild(c) \/ Prebuild(c)
           \/ Inspect(c) \/ InspectMissing(c)
  BY <1>3, <1>4, StartClean, StopsClean, PreparingClean
<1>5. CASE \/ FindRuntime(c) \/ VerifyRuntime(c) \/ PullRuntime(c) \/ Probe(c) \/ Report(c)
           \/ Capture(c) \/ Look(c) \/ Execute(c)
  BY <1>3, <1>5, ResolvingClean, CaptureClean, LookClean, ExecuteClean
<1>6. CASE ListConsumers(c) \/ RemoveHelper(c) \/ Recheck(c) \/ RemoveVolume(c)
  BY <1>3, <1>6, ListConsumersClean, RemoveHelperClean, RecheckClean, RemoveVolumeClean
<1>. QED
  BY <1>4, <1>5, <1>6 DEF Command

\* Another container at a watched volume hides no helper, and a volume that is cleaned
\* up is watched no longer.
LEMMA MountClean ==
  ASSUME CleanupInv, Mount, TypeOK'
  PROVE  CleanupInv'
<1>1. /\ TypeOK /\ Across /\ OldImage \subseteq Containers /\ Others \subseteq Containers
      /\ None \notin Volumes /\ HexNamed \subseteq Volumes
      /\ UNCHANGED <<begun, volumes, pc, call, found, legacy, left, volume>>
  BY LegacyAssumption DEF CleanupInv, Containers, Mount, Elsewhere, migration
<1>2. PICK x \in Others \union OldImage, v \in Volumes :
       /\ containers[x] = None
       /\ \A c \in Commands : \A p \in found[c] \union legacy[c] : p[1] # x
       /\ containers' = [containers EXCEPT ![x] = Container(None, None, None, v, FALSE)]
       /\ stray' = Interfered(v)
  BY DEF Mount
<1>3. /\ x \in Containers
      /\ \A y \in Containers : y # x => containers'[y] = containers[y]
  BY <1>1, <1>2 DEF TypeOK
<1>4. /\ stray \subseteq stray' /\ \A c \in Commands : At(c) = v => v \in stray'
      /\ Watched' \subseteq Watched
      /\ v \in Watched' => \A c \in Commands : At(c) # v
      /\ \A c \in Commands : At(c)' = At(c)
  BY <1>1, <1>2 DEF Interfered, Watched, At
<1>5. /\ \A y \in Containers, w \in Volumes : HelperOn(y, w) => HelperOn(y, w)'
      /\ \A y \in Containers, w \in Volumes : w # v => (HelperOn(y, w)' <=> HelperOn(y, w))
  <2>1. containers'[x] = Container(None, None, None, v, FALSE)
    BY <1>2, <1>3 DEF TypeOK
  <2>. QED
    BY <1>2, <1>3, <2>1 DEF HelperOn, Container
<1>6. \A w \in Watched' : Reached(w)'
  BY <1>1, <1>4, <1>5 DEF Across, Reached, Watched
<1>7. ASSUME NEW c \in Commands
      PROVE  Deferred(c)' /\ Alone(c)'
  <2> SUFFICES ASSUME At(c) \in Watched'
               PROVE  Deferred(c)' /\ Alone(c)'
    BY <1>4 DEF Deferred, Alone
  <2>1. /\ Deferred(c) /\ Alone(c) /\ At(c) \in Watched /\ At(c) # v /\ At(c) \in Volumes
    BY <1>1, <1>4 DEF Across, Watched
  <2>2. PICK w \in Volumes : w = At(c)
    BY <2>1
  <2>3. Users(w)' = Users(w)
    BY <1>5, <2>1, <2>2 DEF Users, HelperOn
  <2>4. Deferred(c)'
    BY <1>1, <1>4, <1>5, <2>1, <2>2 DEF Deferred
  <2>5. Alone(c)'
    BY <1>1, <1>4, <2>1, <2>2, <2>3 DEF Alone, Users
  <2>. QED
    BY <2>4, <2>5
<1>8. \A c, d \in Commands :
        c # d /\ At(c)' = At(d)' /\ At(c)' \in Watched' => ~ (volume'[c].kept /\ volume'[d].kept)
  BY <1>1, <1>4 DEF Across
<1>9. ASSUME NEW c \in Commands
      PROVE  (Kept(c) /\ Placed(c) /\ Missing(c))'
  <2>1. /\ Kept(c) /\ Placed(c) /\ Missing(c)
        /\ found[c] \subseteq OldImage \X HexNamed /\ legacy[c] \subseteq OldImage \X HexNamed
    BY DEF CleanupInv, TypeOK
  <2>2. \A p \in found[c] \union legacy[c] : containers'[p[1]] = containers[p[1]]
    BY <1>1, <1>2, <1>3, <2>1
  <2>3. Kept(c)'
    <3>1. Captured(c)' = Captured(c)
      BY <1>1 DEF Captured
    <3>. QED
      BY <1>1, <2>1, <2>2, <3>1 DEF Kept
  <2>4. Placed(c)'
    BY <1>1, <1>4, <2>1 DEF Placed
  <2>5. Missing(c)'
    <3> SUFFICES ASSUME pc[c] \in {"looking", "executing"}, call[c].orphans, NEW w \in Watched'
                 PROVE  \/ \E p \in found[c] \union legacy[c] : p[2] = w
                        \/ \A h \in OldImage : ~ HelperOn(h, w)'
      BY <1>1 DEF Missing
    <3>1. \/ \E p \in found[c] \union legacy[c] : p[2] = w
          \/ \A h \in OldImage : ~ HelperOn(h, w)
      BY <1>4, <2>1 DEF Missing
    <3>2. CASE w = v
      BY <1>1, <1>4, <3>1, <3>2 DEF Across, Reached
    <3>3. CASE w # v
      BY <1>1, <1>5, <3>1, <3>3 DEF Watched
    <3>. QED
      BY <3>2, <3>3
  <2>. QED
    BY <2>3, <2>4, <2>5
<1>. QED
  BY <1>6, <1>7, <1>8, <1>9 DEF CleanupInv, Across

LEMMA HostClean ==
  ASSUME CleanupInv, HostChanges
  PROVE  CleanupInv'
<1>1. /\ TypeOK /\ OldImage \subseteq Containers /\ Others \subseteq Containers
      /\ Helpers \subseteq Containers /\ OldImage \intersect Others = {}
      /\ None \notin Volumes
  BY LegacyAssumption DEF CleanupInv, Containers
<1>2. /\ TypeOK'
      /\ \A d \in Commands : Still(d)
      /\ UNCHANGED <<begun, pc, call, volume>>
  BY <1>1, ElsewhereGoes DEF HostTyped, LocalTyped, TypeOK, Still
<1>3. CASE Mount
  BY <1>2, <1>3, MountClean
<1>4. CASE ~ Mount
  <2>1. /\ Calm
        /\ \A v \in Watched', h \in OldImage : HelperOn(h, v) => HelperOn(h, v)'
    <3>1. CASE MoveTag \/ RemoveImage \/ Edit
      <4>1. UNCHANGED <<containers, volumes, stray>>
        BY <3>1 DEF MoveTag, RemoveImage, Edit
      <4>. QED
        BY <1>1, <1>2, <4>1, QuietHost
    <3>2. CASE Unmount
      <4>1. PICK x \in Others : containers' = [containers EXCEPT ![x] = None]
        BY <3>2 DEF Unmount
      <4>2. /\ \A y \in Containers : containers'[y] = containers[y] \/ containers'[y] = None
            /\ \A h \in OldImage : containers'[h] = containers[h]
            /\ UNCHANGED <<volumes, stray>>
        BY <1>1, <3>2, <4>1 DEF TypeOK, Unmount
      <4>. QED
        BY <1>1, <1>2, <4>2 DEF Calm, HelperOn
    <3>3. CASE ToggleHelper
      <4>1. PICK h \in Helpers :
              /\ containers[h] # None
              /\ containers' = [containers EXCEPT ![h] =
                   [image |-> containers[h].image, init |-> containers[h].init,
                    entry |-> containers[h].entry, volume |-> containers[h].volume,
                    settled |-> containers[h].settled, running |-> ~ containers[h].running]]
        BY <3>3 DEF ToggleHelper
      <4>2. /\ containers'[h] # None /\ containers'[h].volume = containers[h].volume
            /\ \A y \in Containers : y # h => containers'[y] = containers[y]
            /\ UNCHANGED <<volumes, stray>>
        <5>1. containers'[h] \in ContainerStates
          <6>1. containers[h] \in ContainerStates
            BY <1>1, <4>1 DEF TypeOK
          <6>. QED
            BY <1>1, <4>1, <6>1 DEF TypeOK, ContainerStates
        <5>2. containers'[h] # None
          BY <5>1, StatesAssumption
        <5>. QED
          BY <1>1, <3>3, <4>1, <5>2 DEF TypeOK, ToggleHelper
      <4>3. \A y \in Containers, v \in Volumes : HelperOn(y, v)' <=> HelperOn(y, v)
        BY <1>1, <4>1, <4>2 DEF HelperOn
      <4>4. Watched' \subseteq Volumes
        BY <1>1, LegacyAssumption DEF Watched
      <4>. QED
        BY <1>1, <1>2, <4>1, <4>2, <4>3, <4>4 DEF Calm
    <3>4. CASE Recreate
      <4>1. PICK v \in Volumes :
              /\ Users(v) = {}
              /\ \A c \in Commands : pc[c] = "deleting" => At(c) # v
              /\ volumes' = [volumes EXCEPT ![v] = "named"]
        BY <3>4 DEF Recreate, At
      <4>2. UNCHANGED <<containers, stray>> /\ \A x, w : HelperOn(x, w)' <=> HelperOn(x, w)
        BY <3>4 DEF Recreate, HelperOn
      <4>. QED
        BY <1>1, <1>2, <4>1, <4>2 DEF Calm, TypeOK
    <3>. QED
      BY <1>4, <3>1, <3>2, <3>3, <3>4 DEF HostChanges
  <2>2. Across'
    BY <1>2, <2>1, AcrossStays
  <2>3. \A d \in Commands : (Kept(d) /\ Placed(d) /\ Missing(d))'
    BY <1>2, <2>1, StillClean
  <2>. QED
    BY <1>2, <2>2, <2>3 DEF CleanupInv
<1>. QED
  BY <1>3, <1>4

-----------------------------------------------------------------------------
LEMMA InitTyped == Init => TypeOK
<1> SUFFICES ASSUME Init
             PROVE  TypeOK
  OBVIOUS
<1>1. /\ begun \in Beginnings /\ begun.changes \in Nat
      /\ begun.mounted \in [Containers -> Volumes \union {None}]
      /\ begun.volumes \in [Volumes -> {"anonymous", "named", "gone"}]
  BY BeginningsAssumption DEF Init
<1>2. \A x \in Containers :
        Container(None, None, None, begun.mounted[x], FALSE) \in ContainerStates
  BY <1>1 DEF Container, ContainerStates
<1>3. containers \in [Containers -> ContainerStates \union {None}]
  BY <1>2 DEF Init
<1>4. HostTyped
  <2>1. tags \in [Tags -> Images \union {None}] /\ output \in [Services -> Images]
    BY HostAssumption DEF Init
  <2>2. store \subseteq Images
    BY HostAssumption DEF Init
  <2>3. changed \in [Commands -> SUBSET (Tags \union Images)]
    BY DEF Init
  <2>4. stray \subseteq Volumes /\ changes \in 0 .. begun.changes
    BY <1>1 DEF Init
  <2>5. volumes \in [Volumes -> {"anonymous", "named", "gone"}]
    BY <1>1 DEF Init
  <2>. QED
    BY <1>1, <1>3, <2>1, <2>2, <2>3, <2>4, <2>5 DEF HostTyped
<1>5. NoCall \in Calls /\ NoVolume \in [at : Volumes \union {None}, helpers : SUBSET OldImage,
                                        kept : BOOLEAN]
      /\ Unchecked \in [CheckNames -> {"pending", "ok", "failed", "skipped"}]
  BY DEF Calls, NoVolume, Unchecked
<1>6. LocalTyped
  BY <1>5 DEF Init, LocalTyped, Stages
<1>. QED
  BY <1>4, <1>6, Typed

LEMMA InitClean == Init => CleanupInv
<1> SUFFICES ASSUME Init
             PROVE  CleanupInv
  OBVIOUS
<1>1. TypeOK /\ OldImage \subseteq Containers /\ HexNamed \subseteq Volumes /\ None \notin Volumes
  BY InitTyped, LegacyAssumption DEF Containers
<1>2. \A c \in Commands : /\ pc[c] = "idle" /\ found[c] = {} /\ legacy[c] = {} /\ left[c] = {}
                          /\ volume[c] = NoVolume /\ At(c) = None
  BY DEF Init, At, NoVolume
<1>3. \A c \in Commands : Kept(c) /\ Placed(c) /\ Missing(c)
  BY <1>2 DEF Kept, Placed, Missing, Cleaning, Before, Early, Resolving
<1>4. \A v \in Watched : v # None /\ \E h \in OldImage : HelperOn(h, v)
  <2> SUFFICES ASSUME NEW v \in Watched
               PROVE  v # None /\ \E h \in OldImage : HelperOn(h, v)
    OBVIOUS
  <2>1. PICK h \in OldImage : begun.mounted[h] = v /\ v \in Volumes
    BY <1>1 DEF Watched
  <2>2. containers[h] = Container(None, None, None, v, FALSE)
    BY <1>1, <2>1 DEF Init
  <2>3. containers[h] \in ContainerStates
    BY <2>1, <2>2 DEF Container, ContainerStates
  <2>4. containers[h] # None
    BY <2>3, StatesAssumption
  <2>5. HelperOn(h, v)
    BY <2>2, <2>4 DEF HelperOn, Container
  <2>. QED
    BY <1>1, <2>1, <2>5
<1>5. Across
  BY <1>2, <1>4 DEF Across, Reached, Deferred, Alone
<1>. QED
  BY <1>1, <1>3, <1>5 DEF CleanupInv

LEMMA StutterClean == CleanupInv /\ UNCHANGED vars => CleanupInv'
<1> SUFFICES ASSUME CleanupInv, UNCHANGED vars
             PROVE  CleanupInv'
  OBVIOUS
<1>1. /\ UNCHANGED <<begun, tags, store, output, containers, volumes, pc, call, todo, pulled,
                     entry, attempt, image, found, legacy, left, volume, results, changed,
                     stray, changes>>
  BY DEF vars, host, images, prepared, migration
<1>2. TypeOK' /\ \A d \in Commands : Still(d)
  BY <1>1 DEF CleanupInv, TypeOK, Still
<1>3. Calm /\ \A v \in Watched', h \in OldImage : HelperOn(h, v) => HelperOn(h, v)'
  BY <1>1, QuietHost, LegacyAssumption DEF CleanupInv, Containers
<1>4. Across'
  BY <1>1, <1>2, <1>3, AcrossStays
<1>5. \A d \in Commands : (Kept(d) /\ Placed(d) /\ Missing(d))'
  BY <1>2, <1>3, StillClean
<1>. QED
  BY <1>2, <1>4, <1>5 DEF CleanupInv

\* What the clean-ups know of the helpers and their volumes holds at all times.
THEOREM AlwaysCleanupInv == Spec => []CleanupInv
<1>1. CleanupInv /\ [Next]_vars => CleanupInv'
  BY CommandClean, HostClean, StutterClean DEF Next
<1>. QED
  BY <1>1, InitClean, PTL DEF Spec

\* Every variable always has its type.
THEOREM AlwaysTyped == Spec => []TypeOK
<1>1. CleanupInv => TypeOK
  BY DEF CleanupInv
<1>. QED
  BY <1>1, AlwaysCleanupInv, PTL

\* An anonymous volume of an old vaka keeps a helper, or is about to be removed by a
\* clean-up, unless a clean-up of it failed or others took part in it, however many
\* commands run at once (CaptureLegacyRuntime, CleanupLegacyRuntime).
THEOREM AlwaysNothingStranded == Spec => []NothingStranded
<1>1. ASSUME CleanupInv
      PROVE  NothingStranded
  <2> SUFFICES ASSUME NEW v \in {begun.mounted[h] : h \in OldImage} \ stray,
                      v \in HexNamed, volumes[v] = "anonymous"
               PROVE  \/ \E h \in OldImage : containers[h] # None /\ containers[h].volume = v
                      \/ \E c \in Commands : v \in left[c]
    BY DEF NothingStranded
  <2>1. v \in Watched
    BY DEF Watched
  <2>2. Reached(v)
    BY <1>1, <2>1 DEF CleanupInv, Across
  <2>3. v # None
    BY LegacyAssumption
  <2>4. ASSUME NEW c \in Commands, At(c) = v
        PROVE  v \in left[c]
    <3>1. Placed(c)
      BY <1>1 DEF CleanupInv
    <3>2. pc[c] \in Cleaning
      BY <2>3, <2>4, <3>1 DEF Placed, At, NoVolume
    <3>. QED
      BY <2>4, <3>1, <3>2 DEF Placed
  <2>. QED
    BY <2>2, <2>4 DEF Reached, HelperOn
<1>. QED
  BY <1>1, AlwaysCleanupInv, PTL

\* Who removes a helper: a clean-up, or docker compose itself.
LEMMA HelperGoes ==
  ASSUME TypeOK, Next, NEW h \in OldImage, containers[h] # None, containers'[h] = None
  PROVE  \E e \in Commands : Execute(e) \/ (RemoveHelper(e) /\ ~ containers[h].running)
<1>1. h \in Helpers /\ h \in Containers /\ h \notin Others
  BY LegacyAssumption DEF Containers
<1>2. containers[h] \in ContainerStates
  BY <1>1 DEF TypeOK
<1>3. ASSUME NEW e \in Commands, Command(e)
      PROVE  Execute(e) \/ (RemoveHelper(e) /\ ~ containers[h].running)
  <2>1. CASE RemoveHelper(e)
    <3>1. PICK x \in volume[e].helpers, kept \in BOOLEAN :
            \/ UNCHANGED containers
            \/ Removable(x) /\ containers' = [containers EXCEPT ![x] = None]
      BY <2>1 DEF RemoveHelper
    <3>2. x = h /\ Removable(h)
      BY <1>1, <3>1 DEF TypeOK
    <3>. QED
      BY <2>1, <3>2 DEF Removable
  <2>2. CASE ~ RemoveHelper(e) /\ ~ Execute(e)
    <3>1. UNCHANGED containers
      BY <1>3, <2>2 DEF Command, Start, Stops, Check, ListPrebuild, Prebuild, Inspect, InspectMissing,
         FindRuntime, VerifyRuntime, PullRuntime, Probe, Report, Capture, Look, ListConsumers,
         Recheck, RemoveVolume, host
    <3>. QED
      BY <3>1
  <2>. QED
    BY <2>1, <2>2
<1>4. ~ HostChanges
  <2>1. SUFFICES ASSUME HostChanges
                 PROVE  FALSE
    OBVIOUS
  <2>2. CASE MoveTag \/ RemoveImage \/ Edit \/ Recreate
    BY <2>2 DEF MoveTag, RemoveImage, Edit, Recreate
  <2>3. CASE Mount
    <3>1. PICK x \in Others \union OldImage, v \in Volumes :
            containers[x] = None /\ containers' = [containers EXCEPT ![x] = Container(None, None, None, v, FALSE)]
      BY <2>3 DEF Mount
    <3>. QED
      BY <1>1, <3>1 DEF TypeOK
  <2>4. CASE Unmount
    BY <1>1, <2>4 DEF Unmount, TypeOK
  <2>5. CASE ToggleHelper
    <3>1. PICK x \in Helpers :
            containers' = [containers EXCEPT ![x] =
                 [image |-> containers[x].image, init |-> containers[x].init,
                  entry |-> containers[x].entry, volume |-> containers[x].volume,
                  settled |-> containers[x].settled, running |-> ~ containers[x].running]]
      BY <2>5 DEF ToggleHelper
    <3>2. x = h
      BY <1>1, <3>1 DEF TypeOK
    <3>3. containers'[h] \in ContainerStates
      BY <1>1, <1>2, <3>1, <3>2 DEF TypeOK, ContainerStates
    <3>. QED
      BY <3>3, StatesAssumption
  <2>. QED
    BY <2>1, <2>2, <2>3, <2>4, <2>5 DEF HostChanges
<1>. QED
  BY <1>3, <1>4 DEF Next

\* Who removes a volume: a clean-up, at its last step.
LEMMA VolumeIsRemoved ==
  ASSUME TypeOK, Next, NEW v \in Volumes, volumes[v] # "gone", volumes'[v] = "gone"
  PROVE  \E e \in Commands : pc[e] = "deleting" /\ At(e) = v /\ Users(v) = {}
<1>1. ASSUME NEW e \in Commands, Command(e)
      PROVE  pc[e] = "deleting" /\ At(e) = v /\ Users(v) = {}
  <2>1. CASE RemoveVolume(e)
    <3>1. /\ pc[e] = "deleting"
          /\ \/ Users(At(e)) = {} /\ volumes' = [volumes EXCEPT ![At(e)] = "gone"]
             \/ UNCHANGED volumes
      BY <2>1 DEF RemoveVolume, At
    <3>. QED
      BY <3>1 DEF TypeOK
  <2>2. CASE ~ RemoveVolume(e)
    <3>1. UNCHANGED volumes
      BY <1>1, <2>2 DEF Command, Start, Stops, Check, ListPrebuild, Prebuild, Inspect, InspectMissing,
         FindRuntime, VerifyRuntime, PullRuntime, Probe, Report, Capture, Look, Execute,
         ListConsumers, Recheck, RemoveHelper, host
    <3>. QED
      BY <3>1
  <2>. QED
    BY <2>1, <2>2
<1>2. ~ HostChanges
  BY DEF HostChanges, MoveTag, RemoveImage, Edit, Mount, Unmount, ToggleHelper, Recreate, TypeOK
<1>. QED
  BY <1>1, <1>2 DEF Next

LEMMA StepRemoves ==
  ASSUME CleanupInv, Next
  PROVE  /\ \A c \in Commands : \A h \in volume[c].helpers :
              /\ pc[c] = "removing" /\ \A d \in Commands \ {c} : pc'[d] = pc[d]
              /\ containers[h] # None /\ containers'[h] = None
              => /\ h \in OldImage /\ ~ containers[h].running
                 /\ volumes[containers[h].volume] = "anonymous"
         /\ \A v \in Volumes : volumes[v] # "gone" /\ volumes'[v] = "gone" =>
              volumes[v] = "anonymous" /\ v \in HexNamed /\ Users(v) = {}
<1>0. TypeOK /\ \A c \in Commands : Kept(c) /\ Placed(c)
  BY DEF CleanupInv
<1>1. ASSUME NEW c \in Commands, NEW h \in volume[c].helpers,
             pc[c] = "removing", \A d \in Commands \ {c} : pc'[d] = pc[d],
             containers[h] # None, containers'[h] = None
      PROVE  /\ h \in OldImage /\ ~ containers[h].running
             /\ volumes[containers[h].volume] = "anonymous"
  <2>1. h \in OldImage
    BY <1>0 DEF TypeOK
  <2>2. <<h, At(c)>> \in legacy[c]
    BY <1>0, <1>1 DEF Placed, Cleaning
  <2>3. containers[h].volume = At(c) /\ volumes[At(c)] = "anonymous"
    BY <1>0, <1>1, <2>2 DEF Kept
  <2>4. \A e \in Commands : ~ Execute(e)
    <3> SUFFICES ASSUME NEW e \in Commands, Execute(e)
                 PROVE  FALSE
      OBVIOUS
    <3>1. pc[e] = "executing" /\ pc'[e] \in {"idle", "listing"}
      BY <1>0 DEF Execute, Ends, Step, TypeOK
    <3>. QED
      BY <1>1, <3>1
  <2>. QED
    BY <1>0, <1>1, <2>1, <2>3, <2>4, HelperGoes
<1>2. ASSUME NEW v \in Volumes, volumes[v] # "gone", volumes'[v] = "gone"
      PROVE  volumes[v] = "anonymous" /\ v \in HexNamed /\ Users(v) = {}
  <2>1. PICK e \in Commands : pc[e] = "deleting" /\ At(e) = v /\ Users(v) = {}
    BY <1>0, <1>2, VolumeIsRemoved
  <2>2. At(e) \in left[e] /\ volumes[v] # "named"
    BY <1>0, <2>1 DEF Placed, Cleaning
  <2>. QED
    BY <1>0, <1>2, <2>1, <2>2 DEF TypeOK
<1>. QED
  BY <1>1, <1>2

\* The clean-up removes only helpers of an old vaka that do not run, with a volume
\* that is marked as anonymous, and only such volumes, of the name of an anonymous
\* one, that nobody uses, whatever others do between its steps
\* (CleanupLegacyRuntime).
THEOREM AlwaysOnlyLegacyRemoved == Spec => OnlyLegacyRemoved
<1>1. ASSUME CleanupInv, [Next]_vars
      PROVE  [/\ \A c \in Commands : \A h \in volume[c].helpers :
                   /\ pc[c] = "removing" /\ \A d \in Commands \ {c} : pc'[d] = pc[d]
                   /\ containers[h] # None /\ containers'[h] = None
                   => /\ h \in OldImage /\ ~ containers[h].running
                      /\ volumes[containers[h].volume] = "anonymous"
              /\ \A v \in Volumes : volumes[v] # "gone" /\ volumes'[v] = "gone" =>
                   volumes[v] = "anonymous" /\ v \in HexNamed /\ Users(v) = {}]_vars
  BY <1>1, StepRemoves
<1>. QED
  BY <1>1, AlwaysCleanupInv, PTL DEF Spec, OnlyLegacyRemoved

-----------------------------------------------------------------------------
\* Whatever a step changes of the images, a command that runs has noticed.
Notices(d) ==
  pc[d] # "idle" =>
    /\ changed[d] \subseteq changed'[d] /\ store \ store' \subseteq changed'[d]
    /\ \A s \in Services \ changed'[d] : tags'[s] = tags[s] /\ output'[s] = output[s]

LEMMA OthersRun ==
  ASSUME NEW d \in Commands, OwnRun(d), Still(d), begun' = begun, Notices(d)
  PROVE  OwnRun(d)'
<1>1. /\ UNCHANGED platform /\ Renders(d)' = Renders(d)
      /\ pc'[d] = pc[d] /\ call'[d] = call[d] /\ todo'[d] = todo[d]
      /\ entry'[d] = entry[d] /\ image'[d] = image[d] /\ results'[d] = results[d]
  BY DEF Still, platform, Renders, Injects
<1>2. Checked(d)'
  BY <1>1 DEF OwnRun, Checked
<1>3. Runtime(d)'
  BY <1>1 DEF OwnRun, Runtime, Notices, Before, Ready
<1>4. Read(d)'
  BY <1>1 DEF OwnRun, Read
<1>5. Stable(d)'
  <2>1. Stable(d)
    BY DEF OwnRun
  <2>2. (pc[d] = "building" => \A s \in todo[d] : NeedsImageFallback(s) /\ Declared[s].build)'
    BY <1>1, <2>1 DEF Stable
  <2>3. (pc[d] = "building" /\ call[d].build =>
          \A s \in Services : NeedsImageFallback(s) /\ Declared[s].build => s \in todo[d])'
    BY <1>1, <2>1 DEF Stable
  <2>4. ASSUME Renders(d), pc[d] \in {"inspecting"} \union Resolving \union Ready,
               NEW s \in Services \ changed'[d]
        PROVE  /\ NeedsImageFallback(s) /\ Declared[s].build /\ call[d].build => tags'[s] = output'[s]
               /\ entry[d][s] \in Images => tags'[s] = entry[d][s]
    <3>1. s \notin changed[d] /\ tags'[s] = tags[s] /\ output'[s] = output[s]
      BY <2>4 DEF Notices, Resolving, Ready
    <3>. QED
      BY <2>1, <2>4, <3>1 DEF Stable
  <2>. QED
    BY <1>1, <2>2, <2>3, <2>4 DEF Stable
<1>6. Probed(d)'
  BY <1>1 DEF OwnRun, Probed, Holds
<1>. QED
  BY <1>2, <1>3, <1>4, <1>5, <1>6 DEF OwnRun

LEMMA StepRun ==
  ASSUME RunInv, NEW c \in Commands, Goes(c), begun' = begun, OwnRun(c)', HostRun',
         \A d \in Commands \ {c} : Notices(d)
  PROVE  RunInv'
<1>1. TypeOK'
  BY DEF Goes, HostTyped, LocalTyped, TypeOK
<1>2. \A d \in Commands \ {c} : OwnRun(d)'
  BY OthersRun DEF RunInv, Goes, Apart
<1>. QED
  BY <1>1, <1>2 DEF RunInv

\* The images of the services are changed to none but those that they may have, and
\* their containers stay or are removed.
LEMMA ServicesRun ==
  ASSUME RunInv,
         \A s \in Services :
           /\ containers'[s] = containers[s] \/ containers'[s] = None
           /\ \/ tags'[s] = tags[s] \/ tags'[s] = None
              \/ tags'[s] \in Upstream[s] \/ (Declared[s].build /\ tags'[s] \in Outputs[s])
           /\ output'[s] = output[s] \/ output'[s] \in Outputs[s]
  PROVE  HostRun'
<1>1. Pinned /\ ContainersManaged /\ EntrypointMatches /\ \A s \in Services : output[s] \in Outputs[s]
  BY DEF RunInv, HostRun
<1>2. Pinned'
  BY <1>1, HostAssumption DEF Pinned
<1>3. ContainersManaged'
  BY <1>1 DEF ContainersManaged
<1>4. EntrypointMatches'
  BY <1>1 DEF EntrypointMatches
<1>. QED
  BY <1>1, <1>2, <1>3, <1>4 DEF HostRun

\* A step that looks at the host only.
LEMMA LookingRun ==
  ASSUME RunInv, NEW c \in Commands, Goes(c), OwnRun(c)',
         UNCHANGED <<begun, tags, store, output, containers>>,
         \A d \in Commands \ {c} : changed'[d] = changed[d]
  PROVE  RunInv'
<1>1. HostRun'
  BY ServicesRun
<1>2. \A d \in Commands \ {c} : Notices(d)
  BY DEF Notices
<1>. QED
  BY <1>1, <1>2, StepRun

LEMMA EndsRun ==
  ASSUME TypeOK, NEW c \in Commands, Ends(c)
  PROVE  OwnRun(c)'
<1>1. /\ pc'[c] = "idle" /\ entry'[c] = [s \in Services |-> None] /\ image'[c] = None
      /\ results'[c] = Unchecked
  BY DEF Ends, TypeOK
<1>2. \A k \in CheckNames : results'[c][k] = "pending"
  BY <1>1 DEF Unchecked
<1>3. Checked(c)'
  BY <1>1 DEF Checked, Ready
<1>4. Runtime(c)'
  BY <1>1 DEF Runtime, Ready
<1>5. Read(c)'
  BY <1>1, ImagesAssumption DEF Read, Resolving, Ready
<1>6. Stable(c)'
  BY <1>1 DEF Stable, Resolving, Ready
<1>7. Probed(c)'
  BY <1>1, <1>2, CheckList DEF Probed
<1>. QED
  BY <1>3, <1>4, <1>5, <1>6, <1>7 DEF OwnRun

LEMMA StartRun ==
  ASSUME RunInv, NEW c \in Commands, Start(c), Goes(c)
  PROVE  RunInv'
<1>1. PICK k \in begun.calls[c] :
        /\ call' = [call EXCEPT ![c] = k]
        /\ \/ pc' = [pc EXCEPT ![c] = FirstStage(k)]
           \/ k.verb = "down" /\ pc' = [pc EXCEPT ![c] = "executing"]
  BY DEF Start
<1>2. /\ TypeOK /\ OwnRun(c) /\ pc[c] = "idle"
      /\ UNCHANGED <<begun, tags, store, output, containers>>
      /\ UNCHANGED <<todo, pulled, entry, attempt, image, results>>
      /\ \A d \in Commands \ {c} : changed'[d] = changed[d]
  BY DEF RunInv, Start, host, images, prepared, TypeOK
<1>3. /\ call'[c] = k
      /\ \/ pc'[c] = FirstStage(k)
         \/ k.verb = "down" /\ pc'[c] = "executing"
  BY <1>1, <1>2 DEF TypeOK
<1>4. /\ pc'[c] \in {"probing", "checking", "capturing", "executing"}
      /\ k.verb # "doctor" /\ Class(k.verb) = "render" => pc'[c] = "checking"
      /\ k.verb = "doctor" => pc'[c] = "probing"
      /\ pc'[c] = "probing" => k.verb = "doctor"
  <2>1. CASE pc'[c] = FirstStage(k) /\ k.verb = "doctor"
    BY <2>1 DEF FirstStage
  <2>2. CASE pc'[c] = FirstStage(k) /\ k.verb # "doctor" /\ Class(k.verb) = "render"
    BY <2>2, ClassOf DEF FirstStage
  <2>3. CASE pc'[c] = FirstStage(k) /\ k.verb # "doctor" /\ Class(k.verb) # "render"
    BY <2>3 DEF FirstStage
  <2>4. CASE k.verb = "down" /\ pc'[c] = "executing"
    BY <2>4, ClassOf
  <2>. QED
    BY <1>3, <2>1, <2>2, <2>3, <2>4
<1>5. Renders(c)' <=> k.verb # "doctor" /\ Class(k.verb) = "render"
  BY <1>3 DEF Renders, Injects
<1>6. Checked(c)'
  BY <1>3, <1>4, <1>5 DEF Checked, Ready
<1>7. Runtime(c)'
  BY <1>2, <1>4, <1>5 DEF OwnRun, Runtime, Ready
<1>8. Read(c)'
  BY <1>2, <1>4, <1>5, ImagesAssumption DEF OwnRun, Read, Resolving, Ready, Early
<1>9. Stable(c)'
  BY <1>4, <1>5 DEF Stable, Resolving, Ready
<1>10. Probed(c)'
  BY <1>2, <1>4 DEF OwnRun, Probed, Holds, platform
<1>. QED
  BY <1>2, <1>6, <1>7, <1>8, <1>9, <1>10, LookingRun DEF OwnRun

LEMMA EndingRun ==
  ASSUME RunInv, NEW c \in Commands, Goes(c), Ends(c), UNCHANGED <<host, changed>>
  PROVE  RunInv'
BY EndsRun, LookingRun DEF RunInv, host, images

LEMMA CheckRun ==
  ASSUME RunInv, NEW c \in Commands, Check(c), Goes(c)
  PROVE  RunInv'
<1>1. CASE Ends(c)
  BY <1>1, EndingRun DEF Check
<1>2. CASE ~ Ends(c)
  <2>1. /\ TypeOK /\ OwnRun(c) /\ pc[c] = "checking" /\ Compatible(platform)
        /\ pc'[c] = IF Class(call[c].verb) = "render" THEN "prebuilding" ELSE "resolving"
        /\ UNCHANGED <<host, changed>>
        /\ UNCHANGED <<call, todo, entry, image, results>>
    BY <1>2 DEF RunInv, Check, Step, prepared, TypeOK
  <2>2. /\ call[c].verb # "doctor" /\ image[c] = None
        /\ entry[c] = [s \in Services |-> None]
        /\ Renders(c)' = Renders(c)
        /\ Renders(c) <=> pc'[c] = "prebuilding"
        /\ UNCHANGED platform
    BY <2>1 DEF OwnRun, Checked, Runtime, Read, Renders, Injects, Early, Before, host, platform
  <2>3. Checked(c)'
    BY <2>1, <2>2 DEF Checked, Ready
  <2>4. Runtime(c)'
    BY <2>1, <2>2 DEF Runtime, Ready
  <2>5. Read(c)'
    BY <2>1, <2>2, ImagesAssumption DEF Read, Resolving, Ready, Early
  <2>6. Stable(c)'
    BY <2>1, <2>2 DEF Stable, Resolving, Ready
  <2>7. Probed(c)'
    BY <2>1, <2>2 DEF OwnRun, Probed, Holds
  <2>. QED
    BY <2>1, <2>3, <2>4, <2>5, <2>6, <2>7, LookingRun DEF OwnRun, host, images
<1>. QED
  BY <1>1, <1>2

LEMMA ListPrebuildRun ==
  ASSUME RunInv, NEW c \in Commands, ListPrebuild(c), Goes(c)
  PROVE  RunInv'
<1> DEFINE build == {s \in Services : NeedsPrebuild(s, tags[s] # None, call[c].build)}
<1>1. /\ TypeOK /\ OwnRun(c) /\ pc[c] = "prebuilding"
      /\ pc'[c] = IF build = {} THEN "inspecting" ELSE "building"
      /\ todo'[c] = IF build = {} THEN Services ELSE build
      /\ UNCHANGED <<host, changed>>
      /\ UNCHANGED <<call, entry, image, results>>
  BY DEF RunInv, ListPrebuild, Step, TypeOK
<1>2. /\ \A s \in build : NeedsImageFallback(s) /\ Declared[s].build
      /\ call[c].build =>
           \A s \in Services : NeedsImageFallback(s) /\ Declared[s].build => s \in build
  BY DEF NeedsPrebuild
<1> HIDE DEF build
<1>3. /\ image[c] = None /\ entry[c] = [s \in Services |-> None]
      /\ Renders(c)' = Renders(c) /\ UNCHANGED platform
  BY <1>1 DEF OwnRun, Runtime, Read, Renders, Injects, Early, Before, host, platform
<1>4. Checked(c)'
  BY <1>1, <1>3 DEF OwnRun, Checked, Ready
<1>5. Runtime(c)'
  BY <1>1, <1>3 DEF Runtime, Ready
<1>6. Read(c)'
  BY <1>1, <1>3, ImagesAssumption DEF Read, Resolving, Ready
<1>7. Stable(c)'
  <2>1. CASE build = {}
    BY <1>1, <1>2, <1>3, <2>1, ImagesAssumption DEF Stable, Resolving, Ready
  <2>2. CASE build # {}
    BY <1>1, <1>2, <1>3, <2>2 DEF Stable, Resolving, Ready
  <2>. QED
    BY <2>1, <2>2
<1>8. Probed(c)'
  BY <1>1, <1>3 DEF OwnRun, Probed, Holds
<1>. QED
  BY <1>1, <1>4, <1>5, <1>6, <1>7, <1>8, LookingRun DEF OwnRun, host, images

\* What a build of a service gives is one of its outputs.
LEMMA PrebuildRun ==
  ASSUME RunInv, NEW c \in Commands, Prebuild(c), Goes(c)
  PROVE  RunInv'
<1>1. /\ TypeOK /\ OwnRun(c) /\ HostRun /\ pc[c] = "building" /\ pc'[c] = "inspecting"
      /\ todo'[c] = Services
      /\ tags' = [t \in Tags |-> IF t \in todo[c] THEN output[t] ELSE tags[t]]
      /\ store \subseteq store' /\ changed' = Noticed(c, todo[c])
      /\ UNCHANGED <<begun, output, containers, call, entry, image, results>>
  BY DEF RunInv, Prebuild, Step, TypeOK
<1>2. /\ image[c] = None /\ entry[c] = [s \in Services |-> None]
      /\ Renders(c)' = Renders(c) /\ UNCHANGED platform
  BY <1>1 DEF OwnRun, Runtime, Read, Renders, Injects, Early, Before, platform
<1>3. /\ \A s \in todo[c] : NeedsImageFallback(s) /\ Declared[s].build
      /\ call[c].build =>
           \A s \in Services : NeedsImageFallback(s) /\ Declared[s].build => s \in todo[c]
      /\ Services \subseteq Tags /\ todo[c] \subseteq Services
  BY <1>1 DEF OwnRun, Stable, Tags, TypeOK
<1>4. Checked(c)'
  BY <1>1, <1>2 DEF OwnRun, Checked, Ready
<1>5. Runtime(c)'
  BY <1>1, <1>2 DEF Runtime, Ready
<1>6. Read(c)'
  BY <1>1, <1>2, ImagesAssumption DEF Read, Resolving, Ready, Early
<1>7. Stable(c)'
  BY <1>1, <1>2, <1>3, ImagesAssumption DEF Stable
<1>8. Probed(c)'
  BY <1>1, <1>2 DEF OwnRun, Probed, Holds
<1>9. HostRun'
  BY <1>1, <1>3, ServicesRun DEF HostRun
<1>10. \A d \in Commands \ {c} : Notices(d)
  BY <1>1, <1>3 DEF Notices, Noticed
<1>. QED
  BY <1>1, <1>4, <1>5, <1>6, <1>7, <1>8, <1>9, <1>10, StepRun DEF OwnRun

LEMMA InspectRun ==
  ASSUME RunInv, NEW c \in Commands, Inspect(c), Goes(c)
  PROVE  RunInv'
<1>1. PICK s \in Due(c) :
    /\ NeedsImageFallback(s) => Inspected(s) # None
    /\ Step(c, "inspecting", IF todo[c] = {s} THEN AfterInspection(c) ELSE "inspecting")
    /\ entry' = [entry EXCEPT ![c] = [x \in Services |->
         IF x # s THEN entry[c][x]
         ELSE IF NeedsImageFallback(s) THEN Inspected(s) ELSE "compose"]]
    /\ todo' = [todo EXCEPT ![c] = todo[c] \ {s}]
    /\ UNCHANGED <<host, call, pulled, attempt, image, migration, results, changed,
                   stray, changes>>
  BY DEF Inspect
<1>2. /\ TypeOK /\ OwnRun(c) /\ HostRun /\ pc[c] = "inspecting"
      /\ s \in todo[c] /\ todo[c] \subseteq Services /\ s \in Services /\ s \in Tags
  BY <1>1 DEF RunInv, Step, Due, TypeOK, Tags
<1>3. /\ pc'[c] = IF todo[c] = {s} THEN AfterInspection(c) ELSE "inspecting"
      /\ todo'[c] = todo[c] \ {s}
      /\ entry'[c] = [x \in Services |->
           IF x # s THEN entry[c][x]
           ELSE IF NeedsImageFallback(s) THEN Inspected(s) ELSE "compose"]
      /\ UNCHANGED <<host, call, image, results, changed>>
  BY <1>1, <1>2 DEF Step, TypeOK
<1>4. \A x \in Services \ {s} : entry'[c][x] = entry[c][x]
  BY <1>3
<1>5. /\ entry'[c][s] # None
      /\ entry'[c][s] \in Images =>
           /\ NeedsImageFallback(s) /\ entry'[c][s] = tags[s]
           /\ Declared[s].pinned => entry'[c][s] \in Upstream[s]
  <2>1. CASE NeedsImageFallback(s)
    <3>1. entry'[c][s] = Inspected(s) /\ Inspected(s) # None
      BY <1>1, <1>2, <1>3, <2>1
    <3>2. Inspected(s) = tags[s]
      BY <3>1 DEF Inspected
    <3>. QED
      BY <1>2, <2>1, <3>1, <3>2 DEF HostRun, Pinned
  <2>2. CASE ~ NeedsImageFallback(s)
    BY <1>2, <1>3, <2>2, MarksAssumption
  <2>. QED
    BY <2>1, <2>2
<1>6. /\ image[c] = None /\ Renders(c) /\ call[c].verb # "doctor" /\ Compatible(platform)
      /\ Renders(c)' = Renders(c) /\ UNCHANGED platform
      /\ pc'[c] \in {"inspecting", "capturing", "resolving"}
      /\ pc'[c] # "inspecting" => todo[c] = {s} /\ pc'[c] = AfterInspection(c)
  BY <1>2, <1>3 DEF OwnRun, Checked, Runtime, Renders, Injects, Before, host, platform, AfterInspection
<1>7. Checked(c)'
  BY <1>3, <1>6 DEF Checked
<1>8. Runtime(c)'
  BY <1>3, <1>6 DEF Runtime, Ready, AfterInspection
<1>9. Read(c)'
  <2>1. \A x \in Services : entry[c][x] = None <=> x \in todo[c]
    BY <1>2 DEF OwnRun, Read
  <2>2. \A x \in Services : entry'[c][x] = None <=> x \in todo[c] \ {s}
    BY <1>2, <1>4, <1>5, <2>1
  <2>3. pc'[c] \notin {"idle"} \union Early
    BY <1>6 DEF Early
  <2>4. ASSUME NEW x \in Services, entry'[c][x] \in Images
        PROVE  NeedsImageFallback(x) /\ (Declared[x].pinned => entry'[c][x] \in Upstream[x])
    <3>1. CASE x = s
      BY <1>5, <2>4, <3>1
    <3>2. CASE x # s
      <4>1. entry[c][x] = entry'[c][x]
        BY <1>4, <3>2
      <4>2. entry[c][x] \in Images =>
              NeedsImageFallback(x) /\ (Declared[x].pinned => entry[c][x] \in Upstream[x])
        BY <1>2 DEF OwnRun, Read
      <4>. QED
        BY <2>4, <4>1, <4>2
    <3>. QED
      BY <3>1, <3>2
  <2>5. pc'[c] # "inspecting" => \A x \in Services : entry'[c][x] # None
    BY <1>6, <2>2
  <2>6. pc'[c] = "inspecting" => \A x \in Services : entry'[c][x] = None <=> x \in todo'[c]
    BY <1>3, <2>2
  <2>7. pc'[c] \in Resolving \union Ready => pc'[c] # "inspecting"
    BY DEF Resolving, Ready
  <2>. QED
    BY <2>3, <2>4, <2>5, <2>6, <2>7 DEF Read
<1>10. Stable(c)'
  <2>1. pc'[c] # "building"
    BY <1>6
  <2>2. ASSUME NEW x \in Services \ changed[c]
        PROVE  /\ NeedsImageFallback(x) /\ Declared[x].build /\ call[c].build => tags[x] = output[x]
               /\ entry'[c][x] \in Images => tags[x] = entry'[c][x]
    BY <1>2, <1>4, <1>5, <1>6 DEF OwnRun, Stable
  <2>. QED
    BY <1>3, <2>1, <2>2 DEF Stable, host, images
<1>11. Probed(c)'
  BY <1>2, <1>3, <1>6 DEF OwnRun, Probed, Holds
<1>. QED
  BY <1>3, <1>7, <1>8, <1>9, <1>10, <1>11, LookingRun DEF OwnRun, host, images

LEMMA InspectMissingRun ==
  ASSUME RunInv, NEW c \in Commands, InspectMissing(c), Goes(c)
  PROVE  RunInv'
<1>1. PICK s \in Due(c) :
        /\ NeedsImageFallback(s) /\ Inspected(s) = None
        /\ \/ /\ MayPull(c, s)
              /\ \E i \in Upstream[s] :
                   /\ tags' = [tags EXCEPT ![s] = i]
                   /\ store' = store \union ({i} \ ContentOnly)
              /\ changed' = Noticed(c, {s})
              /\ UNCHANGED <<pc, call, todo, entry, image, results>>
           \/ /\ Ends(c)
              /\ UNCHANGED <<tags, store, changed>>
  BY DEF InspectMissing
<1>2. /\ TypeOK /\ OwnRun(c) /\ HostRun /\ pc[c] = "inspecting"
      /\ s \in todo[c] /\ s \in Services /\ s \in Tags /\ Services \subseteq Tags
      /\ UNCHANGED <<begun, output, containers, volumes>>
  BY <1>1 DEF RunInv, InspectMissing, Due, TypeOK, Tags
<1>3. CASE Ends(c) /\ UNCHANGED <<tags, store, changed>>
  BY <1>2, <1>3, EndingRun DEF host, images
<1>4. CASE /\ MayPull(c, s)
           /\ \E i \in Upstream[s] :
                /\ tags' = [tags EXCEPT ![s] = i]
                /\ store' = store \union ({i} \ ContentOnly)
           /\ changed' = Noticed(c, {s})
           /\ UNCHANGED <<pc, call, todo, entry, image, results>>
  <2>1. PICK i \in Upstream[s] : /\ tags' = [tags EXCEPT ![s] = i]
                                 /\ store' = store \union ({i} \ ContentOnly)
    BY <1>4
  <2>2. /\ tags'[s] = i /\ \A x \in Services \ {s} : tags'[x] = tags[x]
        /\ changed'[c] = changed[c]
    BY <1>2, <1>4, <2>1 DEF TypeOK, Noticed
  <2>3. tags[s] = None /\ entry[c][s] = None /\ image[c] = None /\ Renders(c)
    BY <1>2, <1>4 DEF MayPull, OwnRun, Read, Runtime, Before, Checked
  <2>4. UNCHANGED platform /\ Renders(c)' = Renders(c)
    BY <1>2, <1>4 DEF platform, Renders, Injects
  <2>5. Checked(c)' /\ Read(c)' /\ Probed(c)'
    BY <1>2, <1>4, <2>4 DEF OwnRun, Checked, Read, Probed, Holds
  <2>6. Runtime(c)'
    BY <1>2, <1>4, <2>3 DEF Runtime, Ready
  <2>7. Stable(c)'
    <3>1. ASSUME NEW x \in Services \ changed[c]
          PROVE  /\ NeedsImageFallback(x) /\ Declared[x].build /\ call[c].build => tags'[x] = output[x]
                 /\ entry[c][x] \in Images => tags'[x] = entry[c][x]
      <4>1. /\ NeedsImageFallback(x) /\ Declared[x].build /\ call[c].build => tags[x] = output[x]
            /\ entry[c][x] \in Images => tags[x] = entry[c][x]
        BY <1>2, <2>3 DEF OwnRun, Stable
      <4>2. output[x] # None
        BY <1>2, ImagesAssumption DEF TypeOK
      <4>. QED
        BY <2>2, <2>3, <4>1, <4>2, ImagesAssumption
    <3>. QED
      BY <1>2, <1>4, <2>2, <3>1 DEF Stable
  <2>8. HostRun'
    BY <1>2, <2>2, ServicesRun DEF HostRun
  <2>9. \A d \in Commands \ {c} : Notices(d)
    BY <1>2, <1>4, <2>1, <2>2 DEF Notices, Noticed
  <2>. QED
    BY <1>2, <2>5, <2>6, <2>7, <2>8, <2>9, StepRun DEF OwnRun
<1>. QED
  BY <1>1, <1>3, <1>4

\* A command that gives up the runtime image, or has it fetched again.
LEMMA UnusableRun ==
  ASSUME RunInv, NEW c \in Commands, Goes(c), pc[c] \in Resolving, begun' = begun,
         Refetch(c, TRUE) \/ Refetch(c, FALSE) \/ GiveUp(c),
         UNCHANGED <<tags, store, output, changed>>
  PROVE  OwnRun(c)'
<1>1. TypeOK /\ OwnRun(c) /\ UNCHANGED platform
  BY DEF RunInv, platform
<1>2. CASE Ends(c)
  BY <1>1, <1>2, EndsRun
<1>3. CASE Refetch(c, TRUE) \/ Refetch(c, FALSE)
  <2>1. /\ pc'[c] = "fetching" /\ UNCHANGED <<call, entry, image, results>>
    BY <1>1, <1>3 DEF Refetch, TypeOK
  <2>2. Renders(c)' = Renders(c)
    BY <2>1 DEF Renders, Injects
  <2>3. Checked(c)'
    BY <1>1, <2>1, <2>2 DEF OwnRun, Checked, Resolving, Ready
  <2>4. Runtime(c)'
    BY <1>1, <2>1, <2>2 DEF OwnRun, Runtime, Before, Early, Ready
  <2>5. Read(c)'
    BY <1>1, <2>1, <2>2 DEF OwnRun, Read, Early
  <2>6. Stable(c)'
    BY <1>1, <2>1, <2>2 DEF OwnRun, Stable
  <2>7. Probed(c)'
    BY <1>1, <2>1, <2>2 DEF OwnRun, Probed, Resolving, Holds
  <2>. QED
    BY <2>3, <2>4, <2>5, <2>6, <2>7 DEF OwnRun
<1>4. CASE GiveUp(c) /\ ~ Ends(c)
  <2>1. /\ call[c].verb = "doctor" /\ pc'[c] \in {"resolving", "probing"} /\ image'[c] = None
        /\ UNCHANGED <<call, entry>>
        /\ \/ UNCHANGED results /\ pc'[c] = "resolving"
           \/ results' = [results EXCEPT ![c]["image"] = "failed"]
    BY <1>1, <1>4 DEF GiveUp, TypeOK
  <2>2. ~ Renders(c)'
    BY <2>1 DEF Renders
  <2>3. Checked(c)'
    BY <2>1, <2>2 DEF Checked, Ready
  <2>4. Runtime(c)'
    BY <2>1, <2>2 DEF Runtime
  <2>5. Read(c)'
    BY <1>1, <2>1, <2>2 DEF OwnRun, Read, Early
  <2>6. Stable(c)'
    BY <2>1, <2>2 DEF Stable
  <2>7. results[c]["image"] # "ok"
    BY <1>1 DEF OwnRun, Probed, Resolving
  <2>8. Probed(c)'
    <3>1. CASE UNCHANGED results
      BY <1>1, <2>1, <2>7, <3>1 DEF OwnRun, Probed, Holds
    <3>2. CASE results' = [results EXCEPT ![c]["image"] = "failed"]
      <4>1. results'[c] = [results[c] EXCEPT !["image"] = "failed"]
        BY <1>1, <3>2, CheckList, ResultSet DEF Verdicts
      <4>2. /\ results'[c]["image"] = "failed"
            /\ \A k \in CheckNames \ {"image"} : results'[c][k] = results[c][k]
        BY <1>1, <4>1, CheckList DEF TypeOK
      <4>. QED
        BY <1>1, <2>1, <4>2, CheckList DEF OwnRun, Probed, Holds
    <3>. QED
      BY <2>1, <3>1, <3>2
  <2>. QED
    BY <2>3, <2>4, <2>5, <2>6, <2>8 DEF OwnRun
<1>. QED
  BY <1>2, <1>3, <1>4

LEMMA FindRuntimeRun ==
  ASSUME RunInv, NEW c \in Commands, FindRuntime(c), Goes(c)
  PROVE  RunInv'
<1>1. /\ TypeOK /\ OwnRun(c) /\ pc[c] = "resolving" /\ UNCHANGED <<host, changed>>
      /\ UNCHANGED <<begun, tags, store, output, containers, platform>>
  BY DEF RunInv, FindRuntime, host, images, platform
<1>2. CASE Refetch(c, TRUE) \/ Refetch(c, FALSE) \/ GiveUp(c)
  BY <1>1, <1>2, UnusableRun, LookingRun DEF Resolving
<1>3. CASE /\ Acceptable(tags["runtime"]) /\ tags["runtime"] # None
           /\ image' = [image EXCEPT ![c] = tags["runtime"]]
           /\ Step(c, "resolving", "verifying")
           /\ UNCHANGED <<call, entry, results>>
  <2>1. pc'[c] = "verifying" /\ image'[c] = tags["runtime"] /\ UNCHANGED <<call, entry, results>>
    BY <1>1, <1>3 DEF Step, TypeOK
  <2>2. Renders(c)' = Renders(c)
    BY <2>1 DEF Renders, Injects
  <2>3. Checked(c)'
    BY <1>1, <2>1, <2>2 DEF OwnRun, Checked, Ready
  <2>4. Runtime(c)'
    BY <1>1, <1>3, <2>1, <2>2 DEF Runtime, Before, Early, Ready
  <2>5. Read(c)'
    BY <1>1, <2>1, <2>2 DEF OwnRun, Read, Early, Resolving
  <2>6. Stable(c)'
    BY <1>1, <2>1, <2>2 DEF OwnRun, Stable, Resolving
  <2>7. Probed(c)'
    BY <1>1, <1>3, <2>1, <2>2 DEF OwnRun, Probed, Holds
  <2>. QED
    BY <1>1, <2>3, <2>4, <2>5, <2>6, <2>7, LookingRun DEF OwnRun
<1>. QED
  BY <1>2, <1>3 DEF FindRuntime, Unusable

LEMMA VerifyRuntimeRun ==
  ASSUME RunInv, NEW c \in Commands, VerifyRuntime(c), Goes(c)
  PROVE  RunInv'
<1>1. /\ TypeOK /\ OwnRun(c) /\ pc[c] = "verifying" /\ UNCHANGED <<host, changed>>
      /\ UNCHANGED <<begun, tags, store, output, containers, platform>>
  BY DEF RunInv, VerifyRuntime, host, images, platform
<1>2. CASE Refetch(c, FALSE) \/ GiveUp(c)
  BY <1>1, <1>2, UnusableRun, LookingRun DEF Resolving
<1>3. CASE /\ MayMount(image[c])
           /\ Step(c, "verifying", AfterRuntime(c))
           /\ \/ UNCHANGED results
              \/ results' = [results EXCEPT ![c]["image"] = "ok"] /\ call[c].verb = "doctor" /\ ~ Repairing(c)
           /\ UNCHANGED <<call, entry, image>>
  <2>1. /\ pc'[c] = AfterRuntime(c) /\ UNCHANGED <<call, entry, image>>
        /\ image[c] # None /\ Acceptable(image[c]) /\ image[c] \in store
    BY <1>1, <1>3 DEF Step, TypeOK, OwnRun, Runtime, MayMount
  <2>2. /\ pc'[c] \in {"capturing", "executing", "resolving", "probing"}
        /\ Renders(c)' = Renders(c)
        /\ pc'[c] \in {"capturing", "executing"} => call[c].verb # "doctor"
        /\ pc'[c] \in {"resolving", "probing"} => call[c].verb = "doctor"
    BY <2>1 DEF AfterRuntime, Renders, Injects
  <2>3. Checked(c)'
    BY <1>1, <2>1, <2>2 DEF OwnRun, Checked, Ready
  <2>4. Runtime(c)'
    BY <1>1, <2>1, <2>2 DEF Runtime, Before, Early
  <2>5. Read(c)'
    BY <1>1, <2>1, <2>2 DEF OwnRun, Read, Early, Resolving
  <2>6. Stable(c)'
    BY <1>1, <2>1, <2>2 DEF OwnRun, Stable, Resolving
  <2>7. results[c]["image"] # "ok"
    BY <1>1 DEF OwnRun, Probed
  <2>8. Probed(c)'
    <3>1. CASE UNCHANGED results
      BY <1>1, <2>1, <2>2, <2>7, <3>1 DEF OwnRun, Probed, Holds
    <3>2. CASE results' = [results EXCEPT ![c]["image"] = "ok"] /\ call[c].verb = "doctor" /\ ~ Repairing(c)
      <4>1. results'[c] = [results[c] EXCEPT !["image"] = "ok"]
        BY <1>1, <3>2, CheckList, ResultSet DEF Verdicts
      <4>2. /\ results'[c]["image"] = "ok" /\ pc'[c] = "probing"
            /\ \A k \in CheckNames \ {"image"} : results'[c][k] = results[c][k]
        BY <1>1, <2>1, <3>2, <4>1, CheckList DEF TypeOK, AfterRuntime
      <4>. QED
        BY <1>1, <2>1, <4>2, CheckList DEF OwnRun, Probed, Holds
    <3>. QED
      BY <1>3, <3>1, <3>2
  <2>. QED
    BY <1>1, <2>3, <2>4, <2>5, <2>6, <2>8, LookingRun DEF OwnRun
<1>. QED
  BY <1>2, <1>3 DEF VerifyRuntime, Unusable

LEMMA PullRuntimeRun ==
  ASSUME RunInv, NEW c \in Commands, PullRuntime(c), Goes(c)
  PROVE  RunInv'
<1>1. /\ TypeOK /\ OwnRun(c) /\ pc[c] = "fetching" /\ UNCHANGED changed
      /\ UNCHANGED <<begun, output, containers, platform>>
      /\ "runtime" \notin Services /\ Services \subseteq Tags
  BY HostAssumption DEF RunInv, PullRuntime, platform, Tags
<1>2. CASE GiveUp(c) /\ UNCHANGED <<tags, store>>
  BY <1>1, <1>2, UnusableRun, LookingRun DEF Resolving
<1>3. CASE /\ \E i \in Upstream["runtime"] :
                /\ tags' = [tags EXCEPT !["runtime"] = i]
                /\ store' = store \union ({i} \ ContentOnly)
           /\ Step(c, "fetching", "resolving")
           /\ UNCHANGED <<call, prepared, migration, results>>
  <2>1. /\ pc'[c] = "resolving" /\ UNCHANGED <<call, entry, image, results>>
        /\ store \subseteq store' /\ \A s \in Services : tags'[s] = tags[s]
    BY <1>1, <1>3 DEF Step, TypeOK, prepared
  <2>2. Renders(c)' = Renders(c)
    BY <2>1 DEF Renders, Injects
  <2>3. Checked(c)'
    BY <1>1, <2>1, <2>2 DEF OwnRun, Checked, Ready
  <2>4. Runtime(c)'
    BY <1>1, <2>1, <2>2 DEF OwnRun, Runtime, Before, Early, Ready
  <2>5. Read(c)'
    BY <1>1, <2>1, <2>2 DEF OwnRun, Read, Early, Resolving
  <2>6. Stable(c)'
    BY <1>1, <2>1, <2>2 DEF OwnRun, Stable, Resolving
  <2>7. Probed(c)'
    BY <1>1, <2>1, <2>2 DEF OwnRun, Probed, Holds
  <2>8. HostRun'
    BY <1>1, <2>1, ServicesRun
  <2>9. \A d \in Commands \ {c} : Notices(d)
    BY <1>1, <2>1 DEF Notices
  <2>. QED
    BY <1>1, <2>3, <2>4, <2>5, <2>6, <2>7, <2>8, <2>9, StepRun DEF OwnRun
<1>. QED
  BY <1>2, <1>3 DEF PullRuntime

\* The checks that one depends on come before it.
LEMMA ProbeOrder ==
  ASSUME NEW k \in DOMAIN Checks
  PROVE  /\ \A d \in DependsOn(Checks[k]) : \E j \in 1 .. k - 1 : Checks[j] = d
         /\ DependsOn(Checks[k]) \subseteq {"engine", "compose", "linux"}
         /\ Checks[k] \in {"engine", "compose", "linux"} => DependsOn(Checks[k]) = {}
         /\ Checks[k] = "image" => DependsOn(Checks[k]) = {"engine", "compose"}
<1>1. k \in 1 .. 8
  BY CheckList
<1>2. CASE k \in {1, 2, 3, 4, 8}
  BY <1>2 DEF Checks, DependsOn
<1>3. CASE k = 5
  <2>1. Checks[5] = "mode" /\ Checks[2] = "engine" /\ 2 \in 1 .. 5 - 1
    BY DEF Checks
  <2>. QED
    BY <1>3, <2>1 DEF DependsOn
<1>4. CASE k = 6
  <2>1. /\ Checks[6] = "mounts" /\ Checks[2] = "engine" /\ Checks[3] = "compose" /\ Checks[4] = "linux"
        /\ 2 \in 1 .. 6 - 1 /\ 3 \in 1 .. 6 - 1 /\ 4 \in 1 .. 6 - 1
    BY DEF Checks
  <2>. QED
    BY <1>4, <2>1 DEF DependsOn
<1>5. CASE k = 7
  <2>1. /\ Checks[7] = "image" /\ Checks[2] = "engine" /\ Checks[3] = "compose"
        /\ 2 \in 1 .. 7 - 1 /\ 3 \in 1 .. 7 - 1
    BY DEF Checks
  <2>. QED
    BY <1>5, <2>1 DEF DependsOn
<1>. QED
  BY <1>1, <1>2, <1>3, <1>4, <1>5

LEMMA ProbeRun ==
  ASSUME RunInv, NEW c \in Commands, Probe(c), Goes(c)
  PROVE  RunInv'
<1>1. /\ TypeOK /\ OwnRun(c) /\ pc[c] = "probing" /\ UNCHANGED <<host, changed>>
      /\ UNCHANGED <<begun, tags, store, output, containers, platform>>
      /\ UNCHANGED <<call, entry, image>>
      /\ call[c].verb = "doctor"
  BY DEF RunInv, Probe, host, images, platform, OwnRun, Checked
<1>2. PICK k \in DOMAIN Checks :
       LET check == Checks[k]
           skipped == \E d \in DependsOn(check) : results[c][d] # "ok" IN
       /\ results[c][check] = "pending"
       /\ \A j \in 1 .. k - 1 : results[c][Checks[j]] # "pending"
       /\ IF check = "image" /\ ~ skipped
          THEN /\ pc' = [pc EXCEPT ![c] = "resolving"]
               /\ UNCHANGED results
          ELSE /\ \E r \in {"ok", "failed", "skipped"} :
                    /\ (r = "skipped") <=> skipped
                    /\ r = "ok" => Holds(check)
                    /\ r = "failed" => ~ Holds(check) \/ "error" \in Failures
                    /\ results' = [results EXCEPT ![c][check] = r]
               /\ pc' = [pc EXCEPT ![c] = IF k = Len(Checks) THEN "reporting" ELSE "probing"]
  BY DEF Probe
<1> DEFINE check == Checks[k]
<1>3. /\ check \in CheckNames /\ results[c][check] = "pending"
      /\ pc'[c] \in {"resolving", "probing", "reporting"} /\ ~ Renders(c)'
  BY <1>1, <1>2 DEF CheckNames, TypeOK, Renders
<1>4. Checked(c)'
  BY <1>1, <1>3 DEF Checked, Ready
<1>5. Runtime(c)'
  BY <1>1, <1>3 DEF OwnRun, Runtime, Before, Early
<1>6. Read(c)'
  BY <1>1, <1>3 DEF OwnRun, Read, Early
<1>7. Stable(c)'
  BY <1>3 DEF Stable
<1>8. Probed(c)'
  <2>1. Probed(c) /\ results[c] \in [CheckNames -> {"pending", "ok", "failed", "skipped"}]
    BY <1>1 DEF OwnRun, TypeOK
  <2>2. CASE UNCHANGED results /\ pc'[c] = "resolving" /\ check = "image"
    BY <1>1, <1>3, <2>1, <2>2 DEF Probed, Holds
  <2>3. ASSUME NEW r \in {"ok", "failed", "skipped"},
               (r = "skipped") <=> \E d \in DependsOn(check) : results[c][d] # "ok",
               r = "ok" => Holds(check), check = "image" => r = "skipped",
               results' = [results EXCEPT ![c][check] = r],
               pc' = [pc EXCEPT ![c] = IF k = Len(Checks) THEN "reporting" ELSE "probing"]
        PROVE  Probed(c)'
    <3>1. results'[c] = [results[c] EXCEPT ![check] = r]
      BY <1>1, <1>3, <2>3, ResultSet DEF Verdicts
    <3>2. /\ results'[c][check] = r
          /\ \A x \in CheckNames \ {check} : results'[c][x] = results[c][x]
      BY <1>3, <2>1, <3>1
    <3>3. /\ \A d \in DependsOn(check) : results[c][d] # "pending" /\ d \in CheckNames
          /\ check \in {"engine", "compose", "linux"} => DependsOn(check) = {}
          /\ DependsOn(check) \subseteq {"engine", "compose", "linux"}
          /\ check = "image" => DependsOn(check) = {"engine", "compose"}
      BY <1>2, ProbeOrder, CheckList
    <3> HIDE DEF check
    <3>4. r = "skipped" => \E d \in DependsOn(check) : results[c][d] = "failed" /\ d # check
      BY <1>3, <2>1, <2>3, <3>3 DEF Probed
    <3>5. ASSUME pc'[c] = "reporting"
          PROVE  \A x \in CheckNames : results'[c][x] # "pending"
      <4>1. k = 8
        BY <1>1, <2>3, <3>5, CheckList DEF TypeOK
      <4>2. ASSUME NEW x \in CheckNames, x # check
            PROVE  results[c][x] # "pending"
        <5>1. PICK j \in 1 .. 8 : x = Checks[j]
          BY CheckList DEF CheckNames
        <5>2. j # k
          BY <4>2, <5>1 DEF check
        <5>3. j \in 1 .. k - 1
          BY <4>1, <5>1, <5>2
        <5>. QED
          BY <1>2, <5>1, <5>3
      <4>. QED
        BY <2>3, <3>2, <4>2
    <3>6. \A x \in CheckNames \ {"image"} : results'[c][x] = "ok" => Holds(x)
      BY <2>1, <2>3, <3>2 DEF Probed
    <3>7. \A x \in {"engine", "compose", "linux"} : results'[c][x] # "skipped"
      BY <2>1, <2>3, <3>2, <3>3, CheckList DEF Probed
    <3>8. results'[c]["mounts"] = "skipped" =>
            \E x \in {"engine", "compose", "linux"} : results'[c][x] = "failed"
      <4> SUFFICES ASSUME results'[c]["mounts"] = "skipped"
                   PROVE  \E x \in {"engine", "compose", "linux"} : results'[c][x] = "failed"
        OBVIOUS
      <4>1. \E x \in {"engine", "compose", "linux"} : results[c][x] = "failed"
        BY <2>1, <2>3, <3>2, <3>3, <3>4, CheckList DEF Probed
      <4>. QED
        BY <1>3, <3>2, <4>1, CheckList
    <3>9. results'[c]["image"] = "skipped" =>
            \E x \in {"engine", "compose"} : results'[c][x] = "failed"
      <4> SUFFICES ASSUME results'[c]["image"] = "skipped"
                   PROVE  \E x \in {"engine", "compose"} : results'[c][x] = "failed"
        OBVIOUS
      <4>1. \E x \in {"engine", "compose"} : results[c][x] = "failed"
        BY <2>1, <2>3, <3>2, <3>3, <3>4, CheckList DEF Probed
      <4>. QED
        BY <1>3, <3>2, <4>1, CheckList
    <3>10. results'[c]["image"] = "ok" => image[c] # None
      BY <2>1, <2>3, <3>2, CheckList DEF Probed
    <3>11. pc'[c] \in {"probing", "reporting"}
      BY <1>1, <2>3 DEF TypeOK
    <3>12. UNCHANGED <<platform, image>>
      BY <1>1
    <3>. QED
      BY <3>5, <3>6, <3>7, <3>8, <3>9, <3>10, <3>11, <3>12 DEF Probed, Holds
  <2>4. \/ UNCHANGED results /\ pc' = [pc EXCEPT ![c] = "resolving"] /\ check = "image"
        \/ \E r \in {"ok", "failed", "skipped"} :
             /\ (r = "skipped") <=> \E d \in DependsOn(check) : results[c][d] # "ok"
             /\ r = "ok" => Holds(check)
             /\ check = "image" => r = "skipped"
             /\ results' = [results EXCEPT ![c][check] = r]
             /\ pc' = [pc EXCEPT ![c] = IF k = Len(Checks) THEN "reporting" ELSE "probing"]
    BY <1>2
  <2>5. pc' = [pc EXCEPT ![c] = "resolving"] => pc'[c] = "resolving"
    BY <1>1 DEF TypeOK
  <2>. QED
    BY <2>2, <2>3, <2>4, <2>5
<1>. QED
  BY <1>1, <1>4, <1>5, <1>6, <1>7, <1>8, LookingRun DEF OwnRun

\* A command that searches for helpers, or cleans up, has nothing more to do with images.
LEMMA AfterwardsRun ==
  ASSUME RunInv, NEW c \in Commands, Goes(c), UNCHANGED <<begun, images, changed>>,
         \A s \in Services : containers'[s] = containers[s],
         \/ Ends(c)
         \/ /\ UNCHANGED <<call, entry, image, results>>
            /\ \/ pc[c] \in {"capturing", "looking"} /\ pc'[c] \in {"looking", "executing"}
               \/ pc'[c] \in {"listing"} \union Cleaning /\ pc[c] \in {"listing"} \union Cleaning
  PROVE  RunInv'
<1>1. TypeOK /\ OwnRun(c) /\ UNCHANGED <<platform, tags, store, output>>
  BY DEF RunInv, platform, images
<1>2. OwnRun(c)'
  <2>1. CASE Ends(c)
    BY <1>1, <2>1, EndsRun
  <2>2. CASE /\ UNCHANGED <<call, entry, image, results>>
             /\ \/ pc[c] \in {"capturing", "looking"} /\ pc'[c] \in {"looking", "executing"}
                \/ pc'[c] \in {"listing"} \union Cleaning /\ pc[c] \in {"listing"} \union Cleaning
    <3>1. Renders(c)' = Renders(c)
      BY <2>2 DEF Renders, Injects
    <3>2. Checked(c)'
      BY <1>1, <2>2, <3>1 DEF OwnRun, Checked, Ready, Cleaning
    <3>3. Runtime(c)'
      BY <1>1, <2>2, <3>1 DEF OwnRun, Runtime, Before, Early, Ready, Cleaning
    <3>4. Read(c)'
      BY <1>1, <2>2, <3>1 DEF OwnRun, Read, Early, Resolving, Ready, Cleaning
    <3>5. Stable(c)'
      BY <1>1, <2>2, <3>1 DEF OwnRun, Stable, Resolving, Ready, Cleaning
    <3>6. Probed(c)'
      BY <1>1, <2>2, <3>1 DEF OwnRun, Probed, Holds, Cleaning
    <3>. QED
      BY <3>2, <3>3, <3>4, <3>5, <3>6 DEF OwnRun
  <2>. QED
    BY <2>1, <2>2
<1>3. HostRun'
  BY <1>1, ServicesRun
<1>4. \A d \in Commands \ {c} : Notices(d)
  BY <1>1 DEF Notices
<1>. QED
  BY <1>2, <1>3, <1>4, StepRun

LEMMA LegacyRun ==
  ASSUME RunInv, NEW c \in Commands, Goes(c), pc[c] \in Cleaning => At(c) \in Volumes,
         Capture(c) \/ Look(c) \/ ListConsumers(c) \/ RemoveHelper(c) \/ Recheck(c) \/ RemoveVolume(c)
  PROVE  RunInv'
<1>1. TypeOK /\ OldImage \intersect Services = {}
  BY LegacyAssumption DEF RunInv
<1>2. UNCHANGED <<begun, images, changed>> /\ \A s \in Services : containers'[s] = containers[s]
  <2>1. CASE ~ RemoveHelper(c)
    BY <2>1 DEF Capture, Look, ListConsumers, Recheck, RemoveVolume, host
  <2>2. CASE RemoveHelper(c)
    <3>1. PICK h \in volume[c].helpers :
            UNCHANGED containers \/ containers' = [containers EXCEPT ![h] = None]
      BY <2>2 DEF RemoveHelper
    <3>. QED
      BY <1>1, <2>2, <3>1 DEF RemoveHelper, TypeOK, Containers
  <2>. QED
    BY <2>1, <2>2
<1>3. CASE Capture(c)
  BY <1>1, <1>2, <1>3, AfterwardsRun DEF Capture, Step, prepared, TypeOK
<1>4. CASE Look(c)
  <2>1. pc[c] = "looking" /\ pc'[c] \in {"looking", "executing"} /\ UNCHANGED <<call, entry, image, results>>
    BY <1>1, <1>4 DEF Look, Step, prepared, TypeOK
  <2>. QED
    BY <1>2, <2>1, AfterwardsRun
<1>5. ASSUME NEW v, Leaves(c, v), pc[c] \in {"listing"} \union Cleaning
      PROVE  RunInv'
  <2>1. Ends(c) \/ (pc'[c] = "listing" /\ UNCHANGED <<call, entry, image, results>>)
    BY <1>1, <1>5 DEF Leaves, prepared, TypeOK
  <2>. QED
    BY <1>2, <1>5, <2>1, AfterwardsRun
<1>6. ASSUME NEW to \in Cleaning, pc' = [pc EXCEPT ![c] = to],
             UNCHANGED <<call, prepared, results>>, pc[c] \in {"listing"} \union Cleaning
      PROVE  RunInv'
  <2>1. pc'[c] = to /\ UNCHANGED <<call, entry, image, results>>
    BY <1>1, <1>6 DEF prepared, TypeOK
  <2>. QED
    BY <1>2, <1>6, <2>1, AfterwardsRun
<1>7. CASE ListConsumers(c)
  BY <1>5, <1>6, <1>7 DEF ListConsumers, Step, Cleaning
<1>8. CASE RemoveHelper(c)
  BY <1>5, <1>6, <1>8 DEF RemoveHelper, Cleaning
<1>9. CASE Recheck(c)
  BY <1>5, <1>6, <1>9 DEF Recheck, Step, Cleaning
<1>10. CASE RemoveVolume(c)
  BY <1>5, <1>10 DEF RemoveVolume, Cleaning
<1>. QED
  BY <1>3, <1>4, <1>7, <1>8, <1>9, <1>10

\* What docker compose runs a service with, where vaka has injected its entrypoint.
LEMMA RunsManaged ==
  ASSUME RunInv, NEW c \in Commands, pc[c] = "executing", Injects(c),
         NEW s \in Services, Creatable(c, s), NEW i \in Runs(c, s)
  PROVE  /\ entry[c][s] # None /\ InitOf(c, s) # None
         /\ InitOf(c, s) \in Images => Bundle[InitOf(c, s)] = Required
         /\ Declared[s].pinned => i \in Upstream[s]
         /\ entry[c][s] \in Images /\ ((s \notin changed[c] /\ ~ call[c].refresh) \/ Declared[s].pinned)
              => entry[c][s] = i
<1>1. TypeOK /\ OwnRun(c) /\ HostRun /\ pc[c] \in Ready /\ s \in Tags
  BY DEF RunInv, Ready, Tags
<1>2. Renders(c)
  BY <1>1 DEF OwnRun, Checked, Renders
<1>3. entry[c][s] # None
  BY <1>1, <1>2 DEF OwnRun, Read
<1>4. InitOf(c, s) = "own" \/ (InitOf(c, s) = image[c] /\ image[c] \in store)
  BY DEF Creatable, InitOf
<1>5. /\ InitOf(c, s) # None
      /\ InitOf(c, s) \in Images => Bundle[InitOf(c, s)] = Required
  <2>1. CASE InitOf(c, s) = "own"
    BY <2>1, MarksAssumption
  <2>2. CASE InitOf(c, s) = image[c] /\ image[c] \in store
    <3>1. image[c] # None
      BY <1>1, <2>2, ImagesAssumption DEF TypeOK
    <3>2. Acceptable(image[c])
      BY <1>1, <3>1 DEF OwnRun, Runtime
    <3>. QED
      BY <2>2, <3>1, <3>2 DEF Acceptable
  <2>. QED
    BY <1>4, <2>1, <2>2
<1>6. Declared[s].pinned => i \in Upstream[s]
  <2> SUFFICES ASSUME Declared[s].pinned
               PROVE  i \in Upstream[s]
    OBVIOUS
  <2>1. tags[s] \in Upstream[s] \union {None} /\ output[s] \in Outputs[s]
    BY <1>1 DEF HostRun, Pinned
  <2>2. Declared[s].build => Outputs[s] \subseteq Upstream[s]
    BY HostAssumption
  <2>. QED
    BY <2>1, <2>2 DEF Runs
<1>7. ASSUME entry[c][s] \in Images, Declared[s].pinned
      PROVE  entry[c][s] = i
  <2>1. PICK j \in Images : Upstream[s] = {j}
    BY <1>7, HostAssumption
  <2>2. entry[c][s] \in Upstream[s]
    BY <1>1, <1>7 DEF OwnRun, Read
  <2>. QED
    BY <1>6, <1>7, <2>1, <2>2
<1>8. ASSUME entry[c][s] \in Images, s \notin changed[c], ~ call[c].refresh
      PROVE  entry[c][s] = i
  <2>1. /\ tags[s] = entry[c][s] /\ NeedsImageFallback(s)
        /\ Declared[s].build /\ call[c].build => tags[s] = output[s]
    BY <1>1, <1>2, <1>8 DEF OwnRun, Read, Stable
  <2>2. tags[s] # None
    BY <1>8, <2>1, ImagesAssumption
  <2>. QED
    BY <1>8, <2>1, <2>2 DEF Runs
<1>. QED
  BY <1>3, <1>5, <1>6, <1>7, <1>8

\* Docker compose gives containers, tags and images that are right.
LEMMA CreatesRun ==
  ASSUME RunInv, NEW c \in Commands, pc[c] = "executing", call[c].verb \in Creating,
         ComposeCreates(c), UNCHANGED <<begun, output>>
  PROVE  HostRun' /\ \A d \in Commands \ {c} : Notices(d)
<1>1. Injects(c)
  BY ClassOf DEF Injects
<1>2. /\ TypeOK /\ HostRun /\ Services \subseteq Tags /\ Services \subseteq Containers
      /\ Services \intersect Helpers = {}
  BY LegacyAssumption DEF RunInv, Tags, Containers
<1>3. PICK made \in SUBSET {s \in Services : Creatable(c, s)} : \E run \in [made -> Images] :
        /\ \A s \in made : run[s] \in Runs(c, s)
        /\ containers' = [x \in Containers |->
             IF x \in made
             THEN IF Injects(c)
                  THEN Container(run[x], InitOf(c, x), entry[c][x], None,
                                 x \notin changed[c] /\ ~ call[c].refresh)
                  ELSE Container(run[x], None, None, None, FALSE)
             ELSE IF x \in Orphans(c) THEN None ELSE containers[x]]
        /\ tags' = [t \in Tags |-> IF t \in made THEN run[t] ELSE tags[t]]
        /\ store' = store \union {run[s] : s \in made}
        /\ changed' = Noticed(c, made)
  BY DEF ComposeCreates
<1>4. PICK run \in [made -> Images] :
        /\ \A s \in made : run[s] \in Runs(c, s)
        /\ containers' = [x \in Containers |->
             IF x \in made
             THEN IF Injects(c)
                  THEN Container(run[x], InitOf(c, x), entry[c][x], None,
                                 x \notin changed[c] /\ ~ call[c].refresh)
                  ELSE Container(run[x], None, None, None, FALSE)
             ELSE IF x \in Orphans(c) THEN None ELSE containers[x]]
        /\ tags' = [t \in Tags |-> IF t \in made THEN run[t] ELSE tags[t]]
        /\ store' = store \union {run[s] : s \in made}
        /\ changed' = Noticed(c, made)
  BY <1>3
<1>5. /\ \A s \in made : /\ s \in Services /\ Creatable(c, s) /\ run[s] \in Runs(c, s)
                         /\ tags'[s] = run[s]
                         /\ containers'[s] = Container(run[s], InitOf(c, s), entry[c][s], None,
                                               s \notin changed[c] /\ ~ call[c].refresh)
      /\ \A s \in Services \ made : /\ tags'[s] = tags[s]
                                    /\ containers'[s] = containers[s] \/ containers'[s] = None
  BY <1>1, <1>2, <1>4
<1>6. \A s \in made :
        /\ entry[c][s] # None /\ InitOf(c, s) # None
        /\ InitOf(c, s) \in Images => Bundle[InitOf(c, s)] = Required
        /\ Declared[s].pinned => run[s] \in Upstream[s]
        /\ entry[c][s] \in Images /\ ((s \notin changed[c] /\ ~ call[c].refresh) \/ Declared[s].pinned)
             => entry[c][s] = run[s]
  BY <1>1, <1>5, RunsManaged
<1>7. Pinned'
  BY <1>2, <1>5, <1>6 DEF HostRun, Pinned
<1>8. ContainersManaged'
  <2> SUFFICES ASSUME NEW s \in Services, containers'[s] # None, containers'[s].image # None
               PROVE  /\ containers'[s].entry # None
                      /\ containers'[s].init \in Images => Bundle[containers'[s].init] = Required
                      /\ containers'[s].init # None
    BY DEF ContainersManaged
  <2>1. CASE s \in made
    <3>0. containers'[s] = Container(run[s], InitOf(c, s), entry[c][s], None,
                                     s \notin changed[c] /\ ~ call[c].refresh)
      BY <1>5, <2>1
    <3>1. containers'[s].entry = entry[c][s] /\ containers'[s].init = InitOf(c, s)
      BY <3>0 DEF Container
    <3>. QED
      BY <1>6, <2>1, <3>1
  <2>2. CASE s \notin made
    BY <1>2, <1>5, <2>2 DEF HostRun, ContainersManaged
  <2>. QED
    BY <2>1, <2>2
<1>9. EntrypointMatches'
  <2> SUFFICES ASSUME NEW s \in Services, containers'[s] # None, containers'[s].image # None,
                      containers'[s].entry \in Images, containers'[s].settled \/ Declared[s].pinned
               PROVE  containers'[s].entry = containers'[s].image
    BY DEF EntrypointMatches
  <2>1. CASE s \in made
    <3>0. containers'[s] = Container(run[s], InitOf(c, s), entry[c][s], None,
                                     s \notin changed[c] /\ ~ call[c].refresh)
      BY <1>5, <2>1
    <3>1. /\ containers'[s].entry = entry[c][s] /\ containers'[s].image = run[s]
          /\ containers'[s].settled = (s \notin changed[c] /\ ~ call[c].refresh)
      BY <3>0 DEF Container
    <3>. QED
      BY <1>6, <2>1, <3>1
  <2>2. CASE s \notin made
    BY <1>2, <1>5, <2>2 DEF HostRun, EntrypointMatches
  <2>. QED
    BY <2>1, <2>2
<1>10. HostRun'
  BY <1>2, <1>7, <1>8, <1>9 DEF HostRun
<1>11. \A d \in Commands \ {c} : Notices(d)
  BY <1>4, <1>5 DEF Notices, Noticed
<1>. QED
  BY <1>10, <1>11

LEMMA FetchesRun ==
  ASSUME RunInv, NEW c \in Commands, ComposeFetches(c), UNCHANGED <<begun, output>>
  PROVE  HostRun' /\ \A d \in Commands \ {c} : Notices(d)
<1>1. TypeOK /\ HostRun /\ Services \subseteq Tags
  BY DEF RunInv, Tags
<1>2. PICK got \in SUBSET {s \in Services :
             IF call[c].verb = "build" THEN Declared[s].build ELSE Declared[s].image} :
           \E new \in [got -> Images] :
             /\ \A s \in got : new[s] \in IF call[c].verb = "build" THEN {output[s]} ELSE Upstream[s]
             /\ tags' = [t \in Tags |-> IF t \in got THEN new[t] ELSE tags[t]]
             /\ store' = store \union {new[s] : s \in got}
             /\ changed' = Noticed(c, got)
             /\ UNCHANGED containers
  BY DEF ComposeFetches
<1>3. PICK new \in [got -> Images] :
             /\ \A s \in got : new[s] \in IF call[c].verb = "build" THEN {output[s]} ELSE Upstream[s]
             /\ tags' = [t \in Tags |-> IF t \in got THEN new[t] ELSE tags[t]]
             /\ store' = store \union {new[s] : s \in got}
             /\ changed' = Noticed(c, got)
             /\ UNCHANGED containers
  BY <1>2
<1>4. \A s \in Services :
        \/ s \notin got /\ tags'[s] = tags[s]
        \/ tags'[s] \in Upstream[s] \/ (Declared[s].build /\ tags'[s] \in Outputs[s])
  BY <1>1, <1>3 DEF HostRun
<1>5. HostRun'
  BY <1>1, <1>3, <1>4, ServicesRun
<1>6. \A d \in Commands \ {c} : Notices(d)
  BY <1>1, <1>3 DEF Notices, Noticed
<1>. QED
  BY <1>5, <1>6

LEMMA ExecuteRun ==
  ASSUME RunInv, NEW c \in Commands, Execute(c), Goes(c)
  PROVE  RunInv'
<1>1. /\ TypeOK /\ OwnRun(c) /\ pc[c] = "executing" /\ UNCHANGED <<begun, output, platform>>
      /\ Services \intersect Helpers = {} /\ Services \subseteq Containers
  BY LegacyAssumption DEF RunInv, Execute, platform, Containers
<1>2. HostRun' /\ \A d \in Commands \ {c} : Notices(d)
  <2>1. CASE call[c].verb \in Creating /\ ComposeCreates(c)
    BY <1>1, <2>1, CreatesRun
  <2>2. CASE ComposeFetches(c)
    BY <1>1, <2>2, FetchesRun
  <2>3. CASE ComposeRemoves(c)
    <3>1. /\ \A s \in Services : containers'[s] = containers[s] \/ containers'[s] = None
          /\ UNCHANGED <<tags, store, changed>>
      BY <1>1, <2>3 DEF ComposeRemoves
    <3>. QED
      BY <1>1, <3>1, ServicesRun DEF Notices
  <2>4. CASE UNCHANGED <<containers, tags, store, changed>>
    BY <1>1, <2>4, ServicesRun DEF Notices
  <2>. QED
    BY <2>1, <2>2, <2>3, <2>4 DEF Execute
<1>3. OwnRun(c)'
  <2>1. CASE Ends(c)
    BY <1>1, <2>1, EndsRun
  <2>2. CASE ~ Ends(c)
    <3>1. pc'[c] = "listing" /\ UNCHANGED <<call, entry, image, results>>
      BY <1>1, <2>2 DEF Execute, Step, prepared, TypeOK
    <3>2. Renders(c)' = Renders(c)
      BY <3>1 DEF Renders, Injects
    <3>3. Checked(c)'
      BY <1>1, <3>1, <3>2 DEF OwnRun, Checked, Ready
    <3>4. Runtime(c)'
      BY <1>1, <3>1, <3>2 DEF OwnRun, Runtime, Before, Early, Ready
    <3>5. Read(c)'
      BY <1>1, <3>1, <3>2 DEF OwnRun, Read, Early, Resolving, Ready
    <3>6. Stable(c)'
      BY <1>1, <3>1, <3>2 DEF Stable, Resolving, Ready
    <3>7. Probed(c)'
      BY <1>1, <3>1, <3>2 DEF OwnRun, Probed, Holds
    <3>. QED
      BY <3>3, <3>4, <3>5, <3>6, <3>7 DEF OwnRun
  <2>. QED
    BY <2>1, <2>2
<1>. QED
  BY <1>1, <1>2, <1>3, StepRun

LEMMA CommandRun ==
  ASSUME RunInv, CleanupInv, NEW c \in Commands, Command(c)
  PROVE  RunInv'
<1>1. pc[c] \in Cleaning => At(c) \in Volumes
  BY LegacyAssumption DEF CleanupInv, Placed, TypeOK
<1>2. TypeOK
  BY DEF CleanupInv
<1>3. Goes(c)
  BY <1>1, <1>2, CommandGoes
<1>4. CASE Start(c) \/ Check(c) \/ ListPrebuild(c) \/ Prebuild(c) \/ Inspect(c) \/ InspectMissing(c)
  BY <1>3, <1>4, StartRun, CheckRun, ListPrebuildRun, PrebuildRun, InspectRun, InspectMissingRun
<1>5. CASE FindRuntime(c) \/ VerifyRuntime(c) \/ PullRuntime(c) \/ Probe(c) \/ Execute(c)
  BY <1>3, <1>5, FindRuntimeRun, VerifyRuntimeRun, PullRuntimeRun, ProbeRun, ExecuteRun
<1>6. CASE \/ Capture(c) \/ Look(c)
           \/ ListConsumers(c) \/ RemoveHelper(c) \/ Recheck(c) \/ RemoveVolume(c)
  BY <1>1, <1>3, <1>6, LegacyRun
<1>7. CASE Stops(c) \/ Report(c)
  BY <1>3, <1>7, EndingRun DEF Stops, Report
<1>. QED
  BY <1>4, <1>5, <1>6, <1>7 DEF Command

\* Others may change a host as they like: those who run notice it.
LEMMA HostRuns ==
  ASSUME RunInv, HostChanges
  PROVE  RunInv'
<1>1. /\ TypeOK /\ HostRun /\ TypeOK'
      /\ UNCHANGED <<begun, pc, call>> /\ \A d \in Commands : Still(d)
  BY ElsewhereGoes DEF RunInv, Still, HostTyped, LocalTyped, TypeOK
<1>2. /\ Services \subseteq Tags /\ Services \subseteq Containers
      /\ Services \intersect (Helpers \union Others) = {} /\ OldImage \subseteq Helpers
  BY LegacyAssumption DEF Tags, Containers
<1>3. HostRun' /\ \A d \in Commands : Notices(d)
  <2>1. CASE MoveTag
    <3>1. PICK t \in Tags : \E i \in (Upstream[t] \union {None}) \ {tags[t]} :
            /\ tags' = [tags EXCEPT ![t] = i]
            /\ store' = store \union ({i} \ ({None} \union ContentOnly))
            /\ changed' = Seen({t})
      BY <2>1 DEF MoveTag
    <3>2. /\ \A s \in Services : \/ tags'[s] = tags[s] \/ (s = t /\ tags'[s] \in Upstream[s] \union {None})
          /\ UNCHANGED <<output, containers>> /\ store \subseteq store'
      BY <1>1, <1>2, <2>1, <3>1 DEF MoveTag, TypeOK
    <3>3. \A d \in Commands : pc[d] # "idle" => changed'[d] = changed[d] \union {t}
      BY <3>1 DEF Seen
    <3>4. HostRun'
      BY <3>2, ServicesRun
    <3>5. \A d \in Commands : Notices(d)
      BY <3>2, <3>3 DEF Notices
    <3>. QED
      BY <3>4, <3>5
  <2>2. CASE RemoveImage
    <3>1. PICK i \in store :
            /\ store' = store \ {i}
            /\ tags' = [t \in Tags |-> IF tags[t] = i THEN None ELSE tags[t]]
            /\ changed' = Seen({i} \union {t \in Tags : tags[t] = i})
      BY <2>2 DEF RemoveImage
    <3>2. /\ \A s \in Services : tags'[s] = tags[s] \/ (tags[s] = i /\ tags'[s] = None)
          /\ UNCHANGED <<output, containers>>
      BY <1>2, <2>2, <3>1 DEF RemoveImage
    <3>3. \A d \in Commands : pc[d] # "idle" =>
            changed'[d] = changed[d] \union ({i} \union {t \in Tags : tags[t] = i})
      BY <3>1 DEF Seen
    <3>4. HostRun'
      BY <3>2, ServicesRun
    <3>5. \A d \in Commands : Notices(d)
      BY <1>2, <3>1, <3>2, <3>3 DEF Notices
    <3>. QED
      BY <3>4, <3>5
  <2>3. CASE Edit
    <3>1. PICK x \in Services : \E i \in Outputs[x] : output' = [output EXCEPT ![x] = i] /\ changed' = Seen({x})
      BY <2>3 DEF Edit
    <3>2. /\ \A s \in Services : output'[s] = output[s] \/ (s = x /\ output'[s] \in Outputs[s])
          /\ UNCHANGED <<tags, store, containers>>
      BY <1>1, <2>3, <3>1 DEF Edit, TypeOK
    <3>3. \A d \in Commands : pc[d] # "idle" => changed'[d] = changed[d] \union {x}
      BY <3>1 DEF Seen
    <3>4. HostRun'
      BY <3>2, ServicesRun
    <3>5. \A d \in Commands : Notices(d)
      BY <3>2, <3>3 DEF Notices
    <3>. QED
      BY <3>4, <3>5
  <2>4. CASE Mount \/ Unmount \/ ToggleHelper \/ Recreate
    <3>1. UNCHANGED <<tags, store, output, changed>>
      BY <2>4 DEF Mount, Unmount, ToggleHelper, Recreate, images
    <3>2. \/ UNCHANGED containers
          \/ \E x \in Others \union Helpers : \E k : containers' = [containers EXCEPT ![x] = k]
      BY <1>2, <2>4 DEF Mount, Unmount, ToggleHelper, Recreate
    <3>3. \A s \in Services : containers'[s] = containers[s]
      BY <1>1, <1>2, <3>2 DEF TypeOK
    <3>. QED
      BY <3>1, <3>3, ServicesRun DEF Notices
  <2>. QED
    BY <2>1, <2>2, <2>3, <2>4 DEF HostChanges
<1>4. \A d \in Commands : OwnRun(d)'
  BY <1>1, <1>3, OthersRun DEF RunInv
<1>. QED
  BY <1>1, <1>3, <1>4 DEF RunInv

LEMMA InitRun == Init => RunInv
<1> SUFFICES ASSUME Init
             PROVE  RunInv
  OBVIOUS
<1>1. TypeOK
  BY InitTyped
<1>2. /\ Services \subseteq Tags /\ Services \subseteq Containers
      /\ \A s \in Services : containers[s] = None \/ containers[s].image = None
  BY DEF Init, Tags, Containers, Container
<1>3. HostRun
  <2>1. Pinned /\ \A s \in Services : output[s] \in Outputs[s]
    BY HostAssumption DEF Init, Pinned
  <2>2. ContainersManaged /\ EntrypointMatches
    BY <1>2 DEF ContainersManaged, EntrypointMatches
  <2>. QED
    BY <2>1, <2>2 DEF HostRun
<1>4. ASSUME NEW c \in Commands
      PROVE  OwnRun(c)
  <2>1. /\ pc[c] = "idle" /\ entry[c] = [s \in Services |-> None] /\ image[c] = None
        /\ \A k \in CheckNames : results[c][k] = "pending"
    BY DEF Init, Unchecked
  <2>2. Checked(c) /\ Runtime(c)
    BY <2>1 DEF Checked, Runtime, Ready
  <2>3. Read(c) /\ Stable(c)
    BY <2>1, ImagesAssumption DEF Read, Stable, Resolving, Ready
  <2>4. Probed(c)
    BY <2>1, CheckList DEF Probed
  <2>. QED
    BY <2>2, <2>3, <2>4 DEF OwnRun
<1>. QED
  BY <1>1, <1>3, <1>4 DEF RunInv

LEMMA StutterRun == RunInv /\ UNCHANGED vars => RunInv'
<1> SUFFICES ASSUME RunInv, UNCHANGED vars
             PROVE  RunInv'
  OBVIOUS
<1>1. UNCHANGED <<begun, tags, store, output, containers, volumes, pc, call, todo, pulled,
                  entry, attempt, image, found, legacy, left, volume, results, changed,
                  stray, changes>>
  BY DEF vars, host, images, prepared, migration
<1>2. TypeOK' /\ \A d \in Commands : Still(d) /\ Notices(d)
  BY <1>1 DEF RunInv, TypeOK, Still, Notices
<1>3. HostRun'
  BY <1>1, ServicesRun
<1>4. \A d \in Commands : OwnRun(d)'
  BY <1>1, <1>2, OthersRun DEF RunInv
<1>. QED
  BY <1>2, <1>3, <1>4 DEF RunInv

\* What the commands know of the images and the target holds at all times.
THEOREM AlwaysRunInv == Spec => []RunInv
<1>1. RunInv /\ CleanupInv /\ [Next]_vars => RunInv'
  BY CommandRun, HostRuns, StutterRun DEF Next
<1>. QED
  BY <1>1, InitRun, AlwaysCleanupInv, PTL DEF Spec

\* Whichever verb creates the container of a service with a policy, its program is
\* started by a vaka-init, the image's own only where that was asked for, and else
\* the one of the required bundle (composeCommandSpecFor, ResolveRuntimeImage).
THEOREM AlwaysContainersManaged == Spec => []ContainersManaged
<1>1. RunInv => ContainersManaged
  BY DEF RunInv, HostRun
<1>. QED
  BY <1>1, AlwaysRunInv, PTL

\* The entrypoint that vaka restores is that of the image that runs, unless a mutable
\* tag was moved meanwhile; for a pinned image it always is (servicesNeedingPrebuild,
\* ResolveRuntime).
THEOREM AlwaysEntrypointMatches == Spec => []EntrypointMatches
<1>1. RunInv => EntrypointMatches
  BY DEF RunInv, HostRun
<1>. QED
  BY <1>1, AlwaysRunInv, PTL

\* A target that is accepted can mount what it is given: the bounds on versions are
\* those of what Docker does.
LEMMA CompatibleMounts ==
  ASSUME NEW p \in Platforms, Compatible(p)
  PROVE  CanMount(p, MountSource(p))
<1>1. p.engine \in Nat /\ p.compose \in Nat
  BY DEF Platforms
<1>2. p.engine >= 560000 /\ p.compose >= 47000
  BY DEF Compatible, EngineCompatible, ComposeCompatible, MinEngine, MinCompose, Version
<1>3. Affected(p) <=> 580000 <= p.engine /\ p.engine < 580400
  BY DEF Affected, BugStart, BugFix, Version
<1>4. Affected(p) => p.compose < 100200
  BY <1>1 DEF Compatible, MountsCompatible, ExpandsId, Version
<1>5. MinorOf(p.engine) >= 2800 /\ MinorOf(p.compose) >= 235
  BY <1>1, <1>2 DEF MinorOf
<1>6. HexEncodes(p.engine) => Affected(p)
  BY <1>1, <1>3 DEF HexEncodes, MinorOf
<1>7. p.compose < 100200 => MinorOf(p.compose) < 501
  BY <1>1 DEF MinorOf
<1> QED
  BY <1>1, <1>4, <1>5, <1>6, <1>7 DEF CanMount, GivesWhole, MountSource, MinorOf

\* Docker compose is started only with a runtime image that is there, unless others
\* removed it meanwhile, and on a target that can mount it
\* (validateRuntimeMountIdentity, selectRuntimeMountSource).
THEOREM AlwaysNoDoomedRun == Spec => []NoDoomedRun
<1>1. ASSUME RunInv
      PROVE  NoDoomedRun
  <2> SUFFICES ASSUME NEW c \in Commands, pc[c] = "executing", Injects(c), image[c] # None
               PROVE  /\ image[c] \in store \/ image[c] \in changed[c]
                      /\ CanMount(platform, MountSource(platform))
    BY DEF NoDoomedRun
  <2>1. TypeOK /\ OwnRun(c) /\ pc[c] \in Ready
    BY <1>1 DEF RunInv, Ready
  <2>2. Renders(c)
    BY <2>1 DEF OwnRun, Checked, Renders
  <2>3. image[c] \in store \union changed[c] /\ Compatible(platform)
    BY <2>1, <2>2 DEF OwnRun, Checked, Runtime
  <2>4. platform \in Platforms
    BY <2>1, BeginningsAssumption DEF TypeOK, platform
  <2>5. CanMount(platform, MountSource(platform))
    BY <2>3, <2>4, CompatibleMounts
  <2>. QED
    BY <2>3, <2>5
<1>. QED
  BY <1>1, AlwaysRunInv, PTL

\* What doctor vouches for is true: a check that was skipped hides no failure
\* (newDoctorCmd, runDoctorChecks).
THEOREM AlwaysDoctorVouches == Spec => []DoctorVouches
<1>1. ASSUME RunInv
      PROVE  DoctorVouches
  <2> SUFFICES ASSUME NEW c \in Commands, pc[c] = "reporting", Passes(c)
               PROVE  /\ Compatible(platform) /\ CanMount(platform, MountSource(platform))
                      /\ platform.linux
                      /\ results[c]["image"] = "ok" /\ Bundle[image[c]] = Required
    BY DEF DoctorVouches
  <2>1. /\ TypeOK /\ Probed(c) /\ Runtime(c)
        /\ results[c] \in [CheckNames -> {"pending", "ok", "failed", "skipped"}]
    BY <1>1 DEF RunInv, OwnRun, TypeOK
  <2>2. \A k \in {"engine", "compose", "linux", "mounts", "image"} :
          results[c][k] \in {"ok", "skipped"} /\ k \in CheckNames
    BY <2>1, CheckList DEF Probed, Passes, Advisory
  <2>3. \A k \in {"engine", "compose", "linux", "mounts", "image"} : results[c][k] = "ok"
    BY <2>1, <2>2 DEF Probed
  <2>4. Holds("engine") /\ Holds("compose") /\ Holds("linux") /\ Holds("mounts")
    BY <2>1, <2>2, <2>3 DEF Probed
  <2>5. Compatible(platform) /\ platform.linux
    BY <2>4 DEF Holds, Compatible
  <2>6. Acceptable(image[c])
    BY <2>1, <2>3 DEF Probed, Runtime
  <2>7. platform \in Platforms
    BY <2>1, BeginningsAssumption DEF TypeOK, platform
  <2>. QED
    BY <2>3, <2>5, <2>6, <2>7, CompatibleMounts DEF Acceptable
<1>. QED
  BY <1>1, AlwaysRunInv, PTL

-----------------------------------------------------------------------------
\* Doctor looks for the image because its check is still to be answered.
Awaited(c) ==
  pc[c] \in Resolving /\ call[c].verb = "doctor" => results[c]["image"] = "pending"

\* What Rank counts is finite.
LEMMA Smaller ==
  ASSUME NEW S, IsFiniteSet(S), NEW T, T \subseteq S, T # S
  PROVE  Cardinality(T) < Cardinality(S)
<1>1. Cardinality(T) <= Cardinality(S) /\ Cardinality(S) # Cardinality(T) /\ IsFiniteSet(T)
  BY FS_Subset
<1>2. Cardinality(S) \in Nat /\ Cardinality(T) \in Nat
  BY <1>1, FS_CardinalityType
<1>. QED
  BY <1>1, <1>2

LEMMA Finite ==
  ASSUME TypeOK, NEW c \in Commands
  PROVE  /\ IsFiniteSet(left[c]) /\ IsFiniteSet(volume[c].helpers) /\ IsFiniteSet(todo[c])
         /\ IsFiniteSet(Services \ pulled[c]) /\ IsFiniteSet(found[c])
         /\ IsFiniteSet(PendingChecks(c))
<1>1. /\ IsFiniteSet(Services) /\ IsFiniteSet(Helpers) /\ IsFiniteSet(Volumes)
      /\ OldImage \subseteq Helpers /\ HexNamed \subseteq Volumes
  BY LegacyAssumption
<1>2. /\ left[c] \subseteq HexNamed /\ volume[c].helpers \subseteq OldImage
      /\ todo[c] \subseteq Services /\ found[c] \subseteq OldImage \X HexNamed
  BY DEF TypeOK
<1>3. /\ IsFiniteSet(left[c]) /\ IsFiniteSet(volume[c].helpers) /\ IsFiniteSet(todo[c])
      /\ IsFiniteSet(Services \ pulled[c])
  <2>1. left[c] \subseteq Volumes /\ volume[c].helpers \subseteq Helpers
    BY <1>1, <1>2
  <2>2. Services \ pulled[c] \subseteq Services
    OBVIOUS
  <2>. QED
    BY <1>1, <1>2, <2>1, <2>2, FS_Subset
<1>4. IsFiniteSet(found[c])
  <2>1. IsFiniteSet(OldImage) /\ IsFiniteSet(HexNamed)
    BY <1>1, FS_Subset
  <2>2. IsFiniteSet(OldImage \X HexNamed)
    BY <2>1, FS_Product
  <2>. QED
    BY <1>2, <2>2, FS_Subset
<1>5. IsFiniteSet(PendingChecks(c))
  <2>1. IsFiniteSet({}) /\ {} \union {"cli"} = {"cli"}
    BY FS_EmptySet
  <2>2. IsFiniteSet({"cli", "engine", "compose", "linux", "mode", "mounts", "image", "context"})
    <3>1. IsFiniteSet({} \union {"cli"})
      BY <2>1, FS_AddElement
    <3>2. IsFiniteSet({} \union {"cli"} \union {"engine"})
      BY <3>1, FS_AddElement
    <3>3. IsFiniteSet({} \union {"cli"} \union {"engine"} \union {"compose"})
      BY <3>2, FS_AddElement
    <3>4. IsFiniteSet({} \union {"cli"} \union {"engine"} \union {"compose"} \union {"linux"})
      BY <3>3, FS_AddElement
    <3>5. IsFiniteSet({"cli", "engine", "compose", "linux"} \union {"mode"})
      <4>1. {} \union {"cli"} \union {"engine"} \union {"compose"} \union {"linux"}
            = {"cli", "engine", "compose", "linux"}
        OBVIOUS
      <4>. QED
        BY <3>4, <4>1, FS_AddElement
    <3>6. IsFiniteSet({"cli", "engine", "compose", "linux"} \union {"mode"} \union {"mounts"})
      BY <3>5, FS_AddElement
    <3>7. IsFiniteSet({"cli", "engine", "compose", "linux"} \union {"mode"} \union {"mounts"}
                      \union {"image"})
      BY <3>6, FS_AddElement
    <3>8. IsFiniteSet({"cli", "engine", "compose", "linux"} \union {"mode"} \union {"mounts"}
                      \union {"image"} \union {"context"})
      BY <3>7, FS_AddElement
    <3>. QED
      BY <3>8
  <2>3. PendingChecks(c) \subseteq CheckNames
    BY DEF PendingChecks
  <2>. QED
    BY <2>2, <2>3, CheckList, FS_Subset
<1>. QED
  BY <1>3, <1>4, <1>5

LEMMA Nearness ==
  ASSUME NEW a1, NEW a2, NEW a3, NEW a4, NEW b1, NEW b2, NEW b3, NEW b4
  PROVE  /\ a1 < b1 => Nearer(<<a1, a2, a3, a4>>, <<b1, b2, b3, b4>>)
         /\ a1 = b1 /\ a2 < b2 => Nearer(<<a1, a2, a3, a4>>, <<b1, b2, b3, b4>>)
         /\ a1 = b1 /\ a2 = b2 /\ a3 < b3 => Nearer(<<a1, a2, a3, a4>>, <<b1, b2, b3, b4>>)
         /\ a1 = b1 /\ a2 = b2 /\ a3 = b3 /\ a4 < b4 =>
              Nearer(<<a1, a2, a3, a4>>, <<b1, b2, b3, b4>>)
<1> DEFINE a == <<a1, a2, a3, a4>>
           b == <<b1, b2, b3, b4>>
<1>1. /\ a[1] = a1 /\ a[2] = a2 /\ a[3] = a3 /\ a[4] = a4
      /\ b[1] = b1 /\ b[2] = b2 /\ b[3] = b3 /\ b[4] = b4
  OBVIOUS
<1> HIDE DEF a, b
<1>2. /\ a1 < b1 => Nearer(a, b)
      /\ a1 = b1 /\ a2 < b2 => Nearer(a, b)
  BY <1>1 DEF Nearer
<1>3. a1 = b1 /\ a2 = b2 /\ a3 < b3 => Nearer(a, b)
  BY <1>1 DEF Nearer
<1>4. a1 = b1 /\ a2 = b2 /\ a3 = b3 /\ a4 < b4 => Nearer(a, b)
  BY <1>1 DEF Nearer
<1>. QED
  BY <1>2, <1>3, <1>4 DEF a, b

\* What a command's rank is, where it is.
Ranked(c) ==
  /\ pc[c] \in {"deleting", "rechecking", "removing", "listing"} =>
       Rank(c) = <<1, Cardinality(left[c]), Turn[pc[c]], Cardinality(volume[c].helpers)>>
  /\ pc[c] = "probing" => Rank(c) = <<5, Cardinality(PendingChecks(c)), 5, 0>>
  /\ pc[c] \in Resolving =>
       Rank(c) = <<5, Cardinality(PendingChecks(c)), AttemptRank[attempt[c]], Turn[pc[c]]>>
  /\ pc[c] = "inspecting" =>
       Rank(c) = <<6, Cardinality(todo[c]), Cardinality(Services \ pulled[c]), 0>>
  /\ pc[c] = "looking" => Rank(c) = <<3, Cardinality(found[c]), 0, 0>>
  /\ pc[c] \in {"idle", "reporting", "executing", "capturing", "building", "prebuilding",
                "checking"} => Rank(c) = <<Phase[pc[c]], 0, 0, 0>>

LEMMA RankIs ==
  ASSUME NEW c
  PROVE  Ranked(c) /\ Ranked(c)'
<1>1. Ranked(c)
  <2>1. pc[c] \in {"deleting", "rechecking", "removing", "listing"} =>
          Rank(c) = <<1, Cardinality(left[c]), Turn[pc[c]], Cardinality(volume[c].helpers)>>
    BY DEF Rank, Phase
  <2>2. pc[c] = "probing" => Rank(c) = <<5, Cardinality(PendingChecks(c)), 5, 0>>
    BY DEF Rank, Phase
  <2>3. pc[c] \in Resolving =>
          Rank(c) = <<5, Cardinality(PendingChecks(c)), AttemptRank[attempt[c]], Turn[pc[c]]>>
    BY DEF Rank, Phase, Resolving
  <2>4. pc[c] = "inspecting" =>
          Rank(c) = <<6, Cardinality(todo[c]), Cardinality(Services \ pulled[c]), 0>>
    BY DEF Rank, Phase
  <2>5. pc[c] = "looking" => Rank(c) = <<3, Cardinality(found[c]), 0, 0>>
    BY DEF Rank, Phase
  <2>6. pc[c] \in {"idle", "reporting", "executing", "capturing", "building", "prebuilding",
                   "checking"} => Rank(c) = <<Phase[pc[c]], 0, 0, 0>>
    BY DEF Rank, Phase
  <2>. QED
    BY <2>1, <2>2, <2>3, <2>4, <2>5, <2>6 DEF Ranked
<1>. QED
  BY <1>1, PTL

\* A command that comes to a later phase, or to its end, is nearer to it.
LEMMA PhaseDrops ==
  ASSUME NEW c, pc[c] \in Stages, pc'[c] \in Stages, Phase[pc'[c]] < Phase[pc[c]]
  PROVE  Nearer(Rank(c)', Rank(c))
<1>1. ASSUME NEW p, NEW r, p \in Stages,
             p \in {"deleting", "rechecking", "removing", "listing"} => \E x, y, z : r = <<1, x, y, z>>,
             p \in {"probing"} \union Resolving => \E x, y, z : r = <<5, x, y, z>>,
             p = "inspecting" => \E x, y, z : r = <<6, x, y, z>>,
             p = "looking" => \E x, y, z : r = <<3, x, y, z>>,
             p \in {"idle", "reporting", "executing", "capturing", "building", "prebuilding",
                    "checking"} => r = <<Phase[p], 0, 0, 0>>
      PROVE  r[1] = Phase[p]
  <2>1. CASE p \in {"deleting", "rechecking", "removing", "listing"}
    BY <1>1, <2>1 DEF Phase
  <2>2. CASE p \in {"probing"} \union Resolving
    BY <1>1, <2>2 DEF Phase, Resolving
  <2>3. CASE p \in {"inspecting", "looking"}
    BY <1>1, <2>3 DEF Phase
  <2>4. CASE p \in {"idle", "reporting", "executing", "capturing", "building", "prebuilding",
                    "checking"}
    BY <1>1, <2>4
  <2>. QED
    BY <1>1, <2>1, <2>2, <2>3, <2>4 DEF Stages, Resolving
<1>2. Rank(c)[1] = Phase[pc[c]]
  <2>1. Ranked(c)
    BY RankIs
  <2>. QED
    BY <1>1, <2>1 DEF Ranked
<1>3. Rank(c)'[1] = Phase[pc'[c]]
  <2>1. Ranked(c)'
    BY RankIs
  <2>. QED
    BY <1>1, <2>1 DEF Ranked
<1>. QED
  BY <1>2, <1>3 DEF Nearer

LEMMA EndsNearer ==
  ASSUME TypeOK, NEW c \in Commands, pc[c] # "idle", Ends(c)
  PROVE  Nearer(Rank(c)', Rank(c))
<1>1. pc[c] \in Stages /\ pc'[c] = "idle" /\ pc'[c] \in Stages
  BY DEF TypeOK, Ends, Stages
<1>2. Phase[pc'[c]] < Phase[pc[c]]
  BY <1>1 DEF Phase, Stages
<1>. QED
  BY <1>1, <1>2, PhaseDrops

\* A step of others changes no rank.
LEMMA StillRank ==
  ASSUME NEW d, Still(d)
  PROVE  Rank(d)' = Rank(d)
<1>1. PendingChecks(d)' = PendingChecks(d)
  BY DEF Still, PendingChecks
<1>. QED
  BY <1>1 DEF Still, Rank

\* A check is answered.
LEMMA Answers ==
  ASSUME TypeOK, NEW c \in Commands, NEW k \in CheckNames, NEW r \in Verdicts \ {"pending"},
         results[c][k] = "pending", results' = [results EXCEPT ![c][k] = r]
  PROVE  Cardinality(PendingChecks(c))' < Cardinality(PendingChecks(c))
<1>1. /\ results[c] \in [CheckNames -> Verdicts]
      /\ results'[c] = [results[c] EXCEPT ![k] = r]
  BY ResultSet DEF TypeOK, Verdicts
<1>2. PendingChecks(c)' \subseteq PendingChecks(c) /\ k \in PendingChecks(c) /\ k \notin PendingChecks(c)'
  BY <1>1 DEF PendingChecks
<1>3. IsFiniteSet(PendingChecks(c))
  BY Finite
<1> DEFINE S == PendingChecks(c)
           T == PendingChecks(c)'
<1>4. IsFiniteSet(S) /\ T \subseteq S /\ T # S
  BY <1>2, <1>3
<1> HIDE DEF S, T
<1>5. Cardinality(T) < Cardinality(S)
  BY <1>4, Smaller
<1>. QED
  BY <1>5 DEF S, T

\* These steps come to a later phase, or to the end.
LEMMA PlainNearer ==
  ASSUME TypeOK, NEW c \in Commands, pc' \in [Commands -> Stages],
         \/ (Stops(c) /\ pc[c] # "idle") \/ Check(c) \/ ListPrebuild(c) \/ Prebuild(c)
         \/ Report(c) \/ Capture(c) \/ Execute(c)
  PROVE  Nearer(Rank(c)', Rank(c))
<1>1. pc[c] \in Stages /\ pc'[c] \in Stages
  BY DEF TypeOK
<1>2. CASE Ends(c) /\ pc[c] # "idle"
  BY <1>2, EndsNearer
<1>3. CASE ~ (Ends(c) /\ pc[c] # "idle")
  <2>1. \/ pc[c] = "checking" /\ pc'[c] \in {"prebuilding", "resolving"}
        \/ pc[c] = "prebuilding" /\ pc'[c] \in {"building", "inspecting"}
        \/ pc[c] = "building" /\ pc'[c] = "inspecting"
        \/ pc[c] = "capturing" /\ pc'[c] \in {"looking", "executing"}
        \/ pc[c] = "executing" /\ pc'[c] = "listing"
    <3>1. CASE (Stops(c) /\ pc[c] # "idle") \/ Report(c)
      BY <1>3, <3>1 DEF Stops, Report
    <3>2. CASE Check(c)
      BY <1>3, <3>2 DEF Check, Step, TypeOK
    <3>3. CASE ListPrebuild(c) \/ Prebuild(c)
      BY <3>3 DEF ListPrebuild, Prebuild, Step, TypeOK
    <3>4. CASE Capture(c)
      BY <3>4 DEF Capture, Step, TypeOK
    <3>5. CASE Execute(c)
      BY <1>3, <3>5 DEF Execute, Step, TypeOK
    <3>. QED
      BY <1>3, <3>1, <3>2, <3>3, <3>4, <3>5
  <2>2. Phase[pc'[c]] < Phase[pc[c]]
    BY <2>1 DEF Phase
  <2>. QED
    BY <1>1, <2>2, PhaseDrops
<1>. QED
  BY <1>2, <1>3

LEMMA InspectNearer ==
  ASSUME TypeOK, NEW c \in Commands, pc' \in [Commands -> Stages], pc[c] = "inspecting", Inspect(c)
  PROVE  Nearer(Rank(c)', Rank(c))
<1>1. PICK s \in todo[c] :
        /\ pc' = [pc EXCEPT ![c] = IF todo[c] = {s} THEN AfterInspection(c) ELSE "inspecting"]
        /\ todo' = [todo EXCEPT ![c] = todo[c] \ {s}]
        /\ UNCHANGED pulled
  BY DEF Inspect, Step, Due
<1>2. CASE todo[c] = {s}
  <2>1. pc'[c] \in {"capturing", "resolving"}
    BY <1>1, <1>2 DEF TypeOK, AfterInspection
  <2>2. Phase[pc'[c]] < Phase[pc[c]] /\ pc[c] \in Stages /\ pc'[c] \in Stages
    BY <2>1 DEF Phase, TypeOK, Stages
  <2>. QED
    BY <2>2, PhaseDrops
<1>3. CASE todo[c] # {s}
  <2>1. pc'[c] = "inspecting" /\ todo'[c] = todo[c] \ {s} /\ pulled'[c] = pulled[c]
    BY <1>1, <1>3 DEF TypeOK
  <2>2. Cardinality(todo[c] \ {s}) < Cardinality(todo[c])
    BY Finite, Smaller
  <2>3. Rank(c) = <<6, Cardinality(todo[c]), Cardinality(Services \ pulled[c]), 0>>
    BY RankIs DEF Ranked
  <2>4. Rank(c)' = <<6, Cardinality(todo[c] \ {s}), Cardinality(Services \ pulled[c]), 0>>
    BY <2>1, RankIs DEF Ranked
  <2>. QED
    BY <2>2, <2>3, <2>4, Nearness
<1>. QED
  BY <1>2, <1>3

LEMMA InspectMissingNearer ==
  ASSUME TypeOK, NEW c \in Commands, InspectMissing(c)
  PROVE  Nearer(Rank(c)', Rank(c))
<1>1. pc[c] = "inspecting" /\ pc[c] # "idle"
  BY DEF InspectMissing
<1>2. CASE Ends(c)
  BY <1>1, <1>2, EndsNearer
<1>3. CASE ~ Ends(c)
  <2>1. PICK s \in todo[c] :
          /\ s \notin pulled[c] /\ pulled' = [pulled EXCEPT ![c] = pulled[c] \union {s}]
          /\ UNCHANGED <<pc, todo>>
    BY <1>3 DEF InspectMissing, MayPull, Due
  <2>2. s \in Services /\ pulled'[c] = pulled[c] \union {s} /\ pc'[c] = "inspecting" /\ todo'[c] = todo[c]
    BY <1>1, <2>1 DEF TypeOK
  <2> DEFINE S == Services \ pulled[c]
             T == Services \ pulled'[c]
  <2>3. T \subseteq S /\ T # S
    BY <2>1, <2>2
  <2>4. IsFiniteSet(S)
    BY Finite
  <2> HIDE DEF S, T
  <2>5. Cardinality(T) < Cardinality(S)
    BY <2>3, <2>4, Smaller
  <2>6. Rank(c) = <<6, Cardinality(todo[c]), Cardinality(S), 0>>
    BY <1>1, RankIs DEF Ranked, S
  <2>7. Rank(c)' = <<6, Cardinality(todo[c]), Cardinality(T), 0>>
    BY <2>2, RankIs DEF Ranked, T
  <2>. QED
    BY <2>5, <2>6, <2>7, Nearness
<1>. QED
  BY <1>2, <1>3

LEMMA LookNearer ==
  ASSUME TypeOK, NEW c \in Commands, Look(c)
  PROVE  Nearer(Rank(c)', Rank(c))
<1>1. PICK p \in found[c] :
        /\ pc[c] = "looking"
        /\ \/ pc' = [pc EXCEPT ![c] = "executing"]
           \/ /\ pc' = [pc EXCEPT ![c] = "looking"]
              /\ found' = [found EXCEPT ![c] = found[c] \ {p}]
  BY DEF Look, Step
<1>2. CASE pc'[c] = "executing"
  <2>1. Phase[pc'[c]] < Phase[pc[c]] /\ pc[c] \in Stages /\ pc'[c] \in Stages
    BY <1>1, <1>2 DEF Phase, Stages
  <2>. QED
    BY <2>1, PhaseDrops
<1>3. CASE pc'[c] # "executing"
  <2>1. pc'[c] = "looking" /\ found'[c] = found[c] \ {p}
    BY <1>1, <1>3 DEF TypeOK
  <2>2. Cardinality(found[c] \ {p}) < Cardinality(found[c])
    BY Finite, Smaller
  <2>3. Rank(c) = <<3, Cardinality(found[c]), 0, 0>>
    BY <1>1, RankIs DEF Ranked
  <2>4. Rank(c)' = <<3, Cardinality(found[c] \ {p}), 0, 0>>
    BY <2>1, RankIs DEF Ranked
  <2>. QED
    BY <2>2, <2>3, <2>4, Nearness
<1>. QED
  BY <1>2, <1>3

LEMMA LeavesNearer ==
  ASSUME TypeOK, NEW c \in Commands, pc[c] \in {"listing"} \union Cleaning,
         NEW v \in left[c], Leaves(c, v)
  PROVE  Nearer(Rank(c)', Rank(c))
<1>1. CASE Ends(c)
  BY <1>1, EndsNearer DEF Cleaning
<1>2. CASE ~ Ends(c)
  <2>1. pc'[c] = "listing" /\ left'[c] = left[c] \ {v}
    BY <1>2 DEF Leaves, TypeOK
  <2>2. Cardinality(left[c] \ {v}) < Cardinality(left[c])
    BY Finite, Smaller
  <2>3. Rank(c) = <<1, Cardinality(left[c]), Turn[pc[c]], Cardinality(volume[c].helpers)>>
    BY RankIs DEF Ranked, Cleaning
  <2>4. Rank(c)' = <<1, Cardinality(left[c] \ {v}), Turn[pc'[c]], Cardinality(volume'[c].helpers)>>
    BY <2>1, RankIs DEF Ranked
  <2>. QED
    BY <2>2, <2>3, <2>4, Nearness
<1>. QED
  BY <1>1, <1>2

\* The clean-up turns to the next thing at a volume.
LEMMA TurnsNearer ==
  ASSUME NEW c, pc[c] \in {"listing"} \union Cleaning, pc'[c] \in {"listing"} \union Cleaning,
         left'[c] = left[c], Turn[pc'[c]] < Turn[pc[c]]
  PROVE  Nearer(Rank(c)', Rank(c))
<1>1. Rank(c) = <<1, Cardinality(left[c]), Turn[pc[c]], Cardinality(volume[c].helpers)>>
  BY RankIs DEF Ranked, Cleaning
<1>2. Rank(c)' = <<1, Cardinality(left[c]), Turn[pc'[c]], Cardinality(volume'[c].helpers)>>
  BY RankIs DEF Ranked, Cleaning
<1>. QED
  BY <1>1, <1>2, Nearness

LEMMA CleanupNearer ==
  ASSUME TypeOK, NEW c \in Commands, Placed(c),
         ListConsumers(c) \/ RemoveHelper(c) \/ Recheck(c) \/ RemoveVolume(c)
  PROVE  Nearer(Rank(c)', Rank(c))
<1>1. CASE ListConsumers(c)
  <2>1. PICK v \in left[c] :
          \/ pc' = [pc EXCEPT ![c] = "removing"] /\ UNCHANGED left
          \/ Leaves(c, v)
    BY <1>1 DEF ListConsumers, Step
  <2>2. CASE Leaves(c, v)
    BY <1>1, <2>2, LeavesNearer DEF ListConsumers
  <2>3. CASE pc' = [pc EXCEPT ![c] = "removing"] /\ UNCHANGED left
    <3>1. /\ pc[c] = "listing" /\ pc'[c] = "removing" /\ left'[c] = left[c]
          /\ Turn[pc'[c]] < Turn[pc[c]]
      BY <1>1, <2>3 DEF ListConsumers, TypeOK, Turn
    <3>. QED
      BY <3>1, TurnsNearer DEF Cleaning
  <2>. QED
    BY <2>1, <2>2, <2>3
<1>2. CASE RemoveHelper(c)
  <2>1. pc[c] = "removing" /\ At(c) \in left[c]
    BY <1>2 DEF RemoveHelper, Placed, Cleaning
  <2>2. PICK h \in volume[c].helpers :
          \/ Leaves(c, volume[c].at)
          \/ /\ \E kept : volume' = [volume EXCEPT ![c] =
                  [at |-> volume[c].at, helpers |-> volume[c].helpers \ {h}, kept |-> kept]]
             /\ pc' = [pc EXCEPT ![c] = "rechecking"] \/ pc' = [pc EXCEPT ![c] = "removing"]
             /\ UNCHANGED left
    BY <1>2 DEF RemoveHelper
  <2>3. CASE Leaves(c, volume[c].at)
    BY <2>1, <2>3, LeavesNearer DEF At, Cleaning
  <2>4. CASE pc' = [pc EXCEPT ![c] = "rechecking"] /\ UNCHANGED left
    <3>1. pc'[c] = "rechecking" /\ left'[c] = left[c] /\ Turn[pc'[c]] < Turn[pc[c]]
      BY <2>1, <2>4 DEF TypeOK, Turn
    <3>. QED
      BY <2>1, <3>1, TurnsNearer DEF Cleaning
  <2>5. CASE /\ \E kept : volume' = [volume EXCEPT ![c] =
                  [at |-> volume[c].at, helpers |-> volume[c].helpers \ {h}, kept |-> kept]]
             /\ pc' = [pc EXCEPT ![c] = "removing"]
             /\ UNCHANGED left
    <3>1. /\ pc'[c] = "removing" /\ left'[c] = left[c]
          /\ volume'[c].helpers = volume[c].helpers \ {h}
      BY <2>5 DEF TypeOK
    <3>2. Cardinality(volume[c].helpers \ {h}) < Cardinality(volume[c].helpers)
      BY Finite, Smaller
    <3>3. Rank(c) = <<1, Cardinality(left[c]), Turn["removing"], Cardinality(volume[c].helpers)>>
      BY <2>1, RankIs DEF Ranked
    <3>4. Rank(c)' = <<1, Cardinality(left[c]), Turn["removing"],
                       Cardinality(volume[c].helpers \ {h})>>
      BY <3>1, RankIs DEF Ranked
    <3>. QED
      BY <3>2, <3>3, <3>4, Nearness
  <2>. QED
    BY <2>2, <2>3, <2>4, <2>5
<1>3. CASE Recheck(c)
  <2>1. pc[c] = "rechecking" /\ At(c) \in left[c]
    BY <1>3 DEF Recheck, Placed, Cleaning
  <2>2. Leaves(c, At(c)) \/ (pc' = [pc EXCEPT ![c] = "deleting"] /\ UNCHANGED left)
    BY <1>3 DEF Recheck, Step, At, migration
  <2>3. CASE Leaves(c, At(c))
    BY <2>1, <2>3, LeavesNearer DEF Cleaning
  <2>4. CASE pc' = [pc EXCEPT ![c] = "deleting"] /\ UNCHANGED left
    <3>1. pc'[c] = "deleting" /\ left'[c] = left[c] /\ Turn[pc'[c]] < Turn[pc[c]]
      BY <2>1, <2>4 DEF TypeOK, Turn
    <3>. QED
      BY <2>1, <3>1, TurnsNearer DEF Cleaning
  <2>. QED
    BY <2>2, <2>3, <2>4
<1>4. CASE RemoveVolume(c)
  <2>1. pc[c] = "deleting" /\ At(c) \in left[c] /\ Leaves(c, At(c))
    BY <1>4 DEF RemoveVolume, Placed, Cleaning, At
  <2>. QED
    BY <2>1, LeavesNearer DEF Cleaning
<1>. QED
  BY <1>1, <1>2, <1>3, <1>4

-----------------------------------------------------------------------------
\* The image is looked for with less left to try.
LEMMA RetryNearer ==
  ASSUME NEW c, pc[c] \in Resolving, pc'[c] \in Resolving, results'[c] = results[c],
         AttemptRank[attempt'[c]] < AttemptRank[attempt[c]]
  PROVE  Nearer(Rank(c)', Rank(c))
<1>1. Cardinality(PendingChecks(c))' = Cardinality(PendingChecks(c))
  BY DEF PendingChecks
<1>2. Rank(c) = <<5, Cardinality(PendingChecks(c)), AttemptRank[attempt[c]], Turn[pc[c]]>>
  BY RankIs DEF Ranked
<1>3. Rank(c)' = <<5, Cardinality(PendingChecks(c)), AttemptRank[attempt'[c]], Turn[pc'[c]]>>
  BY <1>1, RankIs DEF Ranked
<1>. QED
  BY <1>2, <1>3, Nearness

\* Without another attempt, the next thing is done.
LEMMA TrialNearer ==
  ASSUME NEW c, pc[c] \in Resolving, pc'[c] \in Resolving, results'[c] = results[c],
         attempt'[c] = attempt[c], Turn[pc'[c]] < Turn[pc[c]]
  PROVE  Nearer(Rank(c)', Rank(c))
<1>1. Cardinality(PendingChecks(c))' = Cardinality(PendingChecks(c))
  BY DEF PendingChecks
<1>2. Rank(c) = <<5, Cardinality(PendingChecks(c)), AttemptRank[attempt[c]], Turn[pc[c]]>>
  BY RankIs DEF Ranked
<1>3. Rank(c)' = <<5, Cardinality(PendingChecks(c)), AttemptRank[attempt[c]], Turn[pc'[c]]>>
  BY <1>1, RankIs DEF Ranked
<1>. QED
  BY <1>2, <1>3, Nearness

\* Doctor's check of the image is answered.
LEMMA AnswerNearer ==
  ASSUME TypeOK, NEW c \in Commands, pc[c] \in Resolving, pc'[c] = "probing",
         results[c]["image"] = "pending", NEW r \in Verdicts \ {"pending"},
         results' = [results EXCEPT ![c]["image"] = r]
  PROVE  Nearer(Rank(c)', Rank(c))
<1>1. "image" \in CheckNames
  BY CheckList
<1>2. Cardinality(PendingChecks(c))' < Cardinality(PendingChecks(c))
  BY <1>1, Answers
<1>3. Rank(c) = <<5, Cardinality(PendingChecks(c)), AttemptRank[attempt[c]], Turn[pc[c]]>>
  BY RankIs DEF Ranked
<1>4. Rank(c)' = <<5, Cardinality(PendingChecks(c))', 5, 0>>
  BY RankIs DEF Ranked
<1>. QED
  BY <1>2, <1>3, <1>4, Nearness

LEMMA GiveUpNearer ==
  ASSUME TypeOK, NEW c \in Commands, Awaited(c), pc[c] \in Resolving, GiveUp(c)
  PROVE  Nearer(Rank(c)', Rank(c))
<1>1. CASE Ends(c)
  BY <1>1, EndsNearer DEF Resolving
<1>2. CASE ~ Ends(c)
  <2>1. /\ results[c]["image"] = "pending"
        /\ \/ /\ attempt[c] = "probed" /\ attempt' = [attempt EXCEPT ![c] = "none"]
              /\ pc' = [pc EXCEPT ![c] = "resolving"] /\ UNCHANGED results
           \/ /\ results' = [results EXCEPT ![c]["image"] = "failed"]
              /\ pc' = [pc EXCEPT ![c] = "probing"]
    BY <1>2 DEF GiveUp, Awaited
  <2>2. CASE /\ attempt[c] = "probed" /\ attempt' = [attempt EXCEPT ![c] = "none"]
             /\ pc' = [pc EXCEPT ![c] = "resolving"] /\ UNCHANGED results
    <3>1. /\ pc'[c] = "resolving" /\ pc'[c] \in Resolving /\ results'[c] = results[c]
          /\ AttemptRank[attempt'[c]] < AttemptRank[attempt[c]]
      BY <2>2 DEF TypeOK, AttemptRank, Resolving
    <3>. QED
      BY <3>1, RetryNearer
  <2>3. CASE results' = [results EXCEPT ![c]["image"] = "failed"] /\ pc' = [pc EXCEPT ![c] = "probing"]
    <3>1. pc'[c] = "probing" /\ "failed" \in Verdicts \ {"pending"}
      BY <2>3 DEF TypeOK, Verdicts
    <3>. QED
      BY <2>1, <2>3, <3>1, AnswerNearer
  <2>. QED
    BY <2>1, <2>2, <2>3
<1>. QED
  BY <1>1, <1>2

LEMMA UnusableNearer ==
  ASSUME TypeOK, NEW c \in Commands, Awaited(c), pc[c] \in Resolving,
         NEW missing \in BOOLEAN, Unusable(c, missing)
  PROVE  Nearer(Rank(c)', Rank(c))
<1>1. CASE GiveUp(c)
  BY <1>1, GiveUpNearer
<1>2. CASE Refetch(c, missing)
  <2>1. /\ pc'[c] = "fetching" /\ pc'[c] \in Resolving /\ results'[c] = results[c]
        /\ attempt[c] \in Repairs(missing)
        /\ attempt'[c] = IF missing THEN "pulled" ELSE "refreshed"
    BY <1>2 DEF Refetch, TypeOK, Resolving
  <2>2. AttemptRank[attempt'[c]] < AttemptRank[attempt[c]]
    BY <2>1 DEF Repairs, AttemptRank
  <2>. QED
    BY <2>1, <2>2, RetryNearer
<1>. QED
  BY <1>1, <1>2 DEF Unusable

LEMMA ResolvingNearer ==
  ASSUME TypeOK, NEW c \in Commands, Awaited(c),
         FindRuntime(c) \/ VerifyRuntime(c) \/ PullRuntime(c)
  PROVE  Nearer(Rank(c)', Rank(c))
<1>1. CASE pc[c] \in Resolving /\ \E missing \in BOOLEAN : Unusable(c, missing)
  BY <1>1, UnusableNearer
<1>2. CASE pc[c] \in Resolving /\ GiveUp(c)
  BY <1>2, GiveUpNearer
<1>3. CASE FindRuntime(c) /\ ~ (\E missing \in BOOLEAN : Unusable(c, missing)) /\ ~ GiveUp(c)
  <2>1. /\ pc[c] = "resolving" /\ pc' = [pc EXCEPT ![c] = "verifying"]
        /\ UNCHANGED <<attempt, results>>
    BY <1>3 DEF FindRuntime, Step
  <2>2. /\ pc[c] \in Resolving /\ pc'[c] \in Resolving /\ results'[c] = results[c]
        /\ attempt'[c] = attempt[c] /\ Turn[pc'[c]] < Turn[pc[c]]
    BY <2>1 DEF TypeOK, Resolving, Turn
  <2>. QED
    BY <2>2, TrialNearer
<1>4. CASE PullRuntime(c) /\ ~ GiveUp(c)
  <2>1. /\ pc[c] = "fetching" /\ pc' = [pc EXCEPT ![c] = "resolving"]
        /\ UNCHANGED <<attempt, results>>
    BY <1>4 DEF PullRuntime, Step, prepared
  <2>2. /\ pc[c] \in Resolving /\ pc'[c] \in Resolving /\ results'[c] = results[c]
        /\ attempt'[c] = attempt[c] /\ Turn[pc'[c]] < Turn[pc[c]]
    BY <2>1 DEF TypeOK, Resolving, Turn
  <2>. QED
    BY <2>2, TrialNearer
<1>5. CASE VerifyRuntime(c) /\ ~ (\E missing \in BOOLEAN : Unusable(c, missing))
  <2>1. /\ pc[c] = "verifying" /\ pc' = [pc EXCEPT ![c] = AfterRuntime(c)]
        /\ IF call[c].verb # "doctor" THEN UNCHANGED <<attempt, results>>
           ELSE IF Repairing(c)
           THEN attempt' = [attempt EXCEPT ![c] = "again"] /\ UNCHANGED results
           ELSE results' = [results EXCEPT ![c]["image"] = "ok"] /\ UNCHANGED attempt
    BY <1>5 DEF VerifyRuntime, Step
  <2>2. pc[c] \in Resolving /\ pc'[c] = AfterRuntime(c)
    BY <2>1 DEF TypeOK, Resolving
  <2>3. CASE call[c].verb # "doctor"
    <3>1. pc'[c] \in {"capturing", "executing"}
      BY <2>2, <2>3 DEF AfterRuntime
    <3>2. pc[c] \in Stages /\ pc'[c] \in Stages /\ Phase[pc'[c]] < Phase[pc[c]]
      BY <2>1, <3>1 DEF Stages, Phase
    <3>. QED
      BY <3>2, PhaseDrops
  <2>4. CASE call[c].verb = "doctor" /\ Repairing(c)
    <3>1. /\ pc'[c] = "resolving" /\ pc'[c] \in Resolving /\ results'[c] = results[c]
          /\ attempt'[c] = "again" /\ attempt[c] \in {"none", "pulled", "refreshed"}
      BY <2>1, <2>2, <2>4 DEF TypeOK, AfterRuntime, Repairing, Resolving
    <3>2. AttemptRank[attempt'[c]] < AttemptRank[attempt[c]]
      BY <3>1 DEF AttemptRank
    <3>. QED
      BY <2>2, <3>1, <3>2, RetryNearer
  <2>5. CASE call[c].verb = "doctor" /\ ~ Repairing(c)
    <3>1. /\ pc'[c] = "probing" /\ results[c]["image"] = "pending"
          /\ results' = [results EXCEPT ![c]["image"] = "ok"]
          /\ "ok" \in Verdicts \ {"pending"}
      BY <2>1, <2>2, <2>5 DEF AfterRuntime, Awaited, Verdicts
    <3>. QED
      BY <2>2, <3>1, AnswerNearer
  <2>. QED
    BY <2>3, <2>4, <2>5
<1>6. FindRuntime(c) \/ VerifyRuntime(c) \/ PullRuntime(c) => pc[c] \in Resolving
  BY DEF FindRuntime, VerifyRuntime, PullRuntime, Resolving
<1>. QED
  BY <1>1, <1>2, <1>3, <1>4, <1>5, <1>6

LEMMA ProbeNearer ==
  ASSUME TypeOK, NEW c \in Commands, Probe(c)
  PROVE  Nearer(Rank(c)', Rank(c))
<1>1. PICK k \in DOMAIN Checks :
        /\ results[c][Checks[k]] = "pending"
        /\ \/ /\ attempt' = [attempt EXCEPT ![c] = "probed"]
              /\ pc' = [pc EXCEPT ![c] = "resolving"] /\ UNCHANGED results
           \/ /\ \E r \in {"ok", "failed", "skipped"} : results' = [results EXCEPT ![c][Checks[k]] = r]
              /\ pc' = [pc EXCEPT ![c] = IF k = Len(Checks) THEN "reporting" ELSE "probing"]
  BY DEF Probe
<1>2. pc[c] = "probing" /\ Rank(c) = <<5, Cardinality(PendingChecks(c)), 5, 0>>
  BY RankIs DEF Probe, Ranked
<1>3. CASE /\ attempt' = [attempt EXCEPT ![c] = "probed"]
           /\ pc' = [pc EXCEPT ![c] = "resolving"] /\ UNCHANGED results
  <2>1. /\ pc'[c] = "resolving" /\ attempt'[c] = "probed" /\ AttemptRank[attempt'[c]] < 5
        /\ Cardinality(PendingChecks(c))' = Cardinality(PendingChecks(c))
    BY <1>3 DEF TypeOK, AttemptRank, PendingChecks
  <2>2. Rank(c)' = <<5, Cardinality(PendingChecks(c)), AttemptRank[attempt'[c]], Turn[pc'[c]]>>
    BY <2>1, RankIs DEF Ranked, Resolving
  <2>. QED
    BY <1>2, <2>1, <2>2, Nearness
<1>4. ASSUME NEW r \in {"ok", "failed", "skipped"}, results' = [results EXCEPT ![c][Checks[k]] = r],
             pc' = [pc EXCEPT ![c] = IF k = Len(Checks) THEN "reporting" ELSE "probing"]
      PROVE  Nearer(Rank(c)', Rank(c))
  <2>1. CASE pc'[c] = "reporting"
    <3>1. pc[c] \in Stages /\ pc'[c] \in Stages /\ Phase[pc'[c]] < Phase[pc[c]]
      BY <1>2, <2>1 DEF Stages, Phase
    <3>. QED
      BY <3>1, PhaseDrops
  <2>2. CASE pc'[c] = "probing"
    <3> DEFINE check == Checks[k]
    <3>1. check \in CheckNames /\ r \in Verdicts \ {"pending"}
      BY DEF CheckNames, Verdicts
    <3>2. results[c][check] = "pending" /\ results' = [results EXCEPT ![c][check] = r]
      BY <1>1, <1>4
    <3> HIDE DEF check
    <3>3. Cardinality(PendingChecks(c))' < Cardinality(PendingChecks(c))
      BY <3>1, <3>2, Answers
    <3>4. Rank(c)' = <<5, Cardinality(PendingChecks(c))', 5, 0>>
      BY <2>2, RankIs DEF Ranked
    <3>. QED
      BY <1>2, <3>3, <3>4, Nearness
  <2>3. pc'[c] \in {"reporting", "probing"}
    BY <1>4 DEF TypeOK
  <2>. QED
    BY <2>1, <2>2, <2>3
<1>. QED
  BY <1>1, <1>3, <1>4

LEMMA StartBegins ==
  ASSUME TypeOK, NEW c \in Commands, Start(c)
  PROVE  pc[c] = "idle" /\ pc'[c] # "idle"
BY DEF Start, FirstStage, TypeOK

\* A command starts, or comes nearer to its end.
LEMMA CommandNearer ==
  ASSUME TypeOK, NEW c \in Commands, Awaited(c), Placed(c), pc' \in [Commands -> Stages], Command(c)
  PROVE  (pc[c] = "idle" /\ pc'[c] # "idle") \/ (pc[c] # "idle" /\ Nearer(Rank(c)', Rank(c)))
<1>1. CASE Start(c)
  BY <1>1, StartBegins
<1>2. CASE ~ Start(c)
  <2>1. /\ pc[c] # "idle"
        /\ Inspect(c) => pc[c] = "inspecting"
    <3>1. Stops(c) => pc[c] # "idle"
      BY DEF Stops, Fatal
    <3>2. Inspect(c) => pc[c] = "inspecting"
      BY DEF Inspect, Step
    <3>3. Check(c) \/ ListPrebuild(c) \/ Prebuild(c) \/ InspectMissing(c) => pc[c] # "idle"
      BY DEF Check, ListPrebuild, Prebuild, InspectMissing, Step
    <3>4. FindRuntime(c) \/ VerifyRuntime(c) \/ PullRuntime(c) \/ Probe(c) \/ Report(c) => pc[c] # "idle"
      BY DEF FindRuntime, VerifyRuntime, PullRuntime, Probe, Report
    <3>5. Capture(c) \/ Look(c) \/ Execute(c) => pc[c] # "idle"
      BY DEF Capture, Look, Execute, Step
    <3>6. ListConsumers(c) \/ RemoveHelper(c) \/ Recheck(c) \/ RemoveVolume(c) => pc[c] # "idle"
      BY DEF ListConsumers, RemoveHelper, Recheck, RemoveVolume
    <3>. QED
      BY <1>2, <3>1, <3>2, <3>3, <3>4, <3>5, <3>6 DEF Command
  <2>2. CASE \/ Stops(c) \/ Check(c) \/ ListPrebuild(c) \/ Prebuild(c) \/ Report(c)
             \/ Capture(c) \/ Execute(c)
    BY <2>1, <2>2, PlainNearer
  <2>3. CASE Inspect(c) \/ InspectMissing(c) \/ Look(c)
    BY <2>1, <2>3, InspectNearer, InspectMissingNearer, LookNearer
  <2>4. CASE FindRuntime(c) \/ VerifyRuntime(c) \/ PullRuntime(c) \/ Probe(c)
    BY <2>1, <2>4, ResolvingNearer, ProbeNearer
  <2>5. CASE ListConsumers(c) \/ RemoveHelper(c) \/ Recheck(c) \/ RemoveVolume(c)
    BY <2>1, <2>5, CleanupNearer
  <2>. QED
    BY <1>2, <2>2, <2>3, <2>4, <2>5 DEF Command
<1>. QED
  BY <1>1, <1>2

LEMMA CommandAwaits ==
  ASSUME TypeOK, NEW c \in Commands, Checked(c), Awaited(c), Command(c)
  PROVE  Awaited(c)'
<1> SUFFICES ASSUME pc'[c] \in Resolving, call'[c].verb = "doctor"
             PROVE  results'[c]["image"] = "pending"
  BY DEF Awaited
<1>1. CASE Check(c)
  <2>1. UNCHANGED call /\ pc[c] = "checking"
    BY <1>1 DEF Check, Ends, TypeOK, Resolving
  <2>. QED
    BY <2>1 DEF Checked
<1>2. CASE ListPrebuild(c) \/ Prebuild(c) \/ Inspect(c) \/ InspectMissing(c)
  <2>1. UNCHANGED call /\ pc[c] \in {"prebuilding", "building", "inspecting"}
    BY <1>2 DEF ListPrebuild, Prebuild, Inspect, InspectMissing, Step, Ends, TypeOK, Resolving
  <2>. QED
    BY <2>1 DEF Checked, Renders
<1>3. CASE FindRuntime(c) \/ VerifyRuntime(c) \/ PullRuntime(c)
  <2>1. pc[c] \in Resolving
    BY <1>3 DEF FindRuntime, VerifyRuntime, PullRuntime, Resolving
  <2>2. \A missing \in BOOLEAN : Unusable(c, missing) => UNCHANGED <<call, results>>
    BY DEF Unusable, Refetch, GiveUp, Ends, TypeOK, Resolving
  <2>3. GiveUp(c) => UNCHANGED <<call, results>>
    BY DEF GiveUp, Ends, TypeOK, Resolving
  <2>4. /\ call' = call
        /\ \/ results' = results
           \/ pc'[c] = AfterRuntime(c) /\ call[c].verb = "doctor" /\ ~ Repairing(c)
    <3>1. CASE GiveUp(c) \/ \E missing \in BOOLEAN : Unusable(c, missing)
      BY <2>2, <2>3, <3>1
    <3>2. CASE FindRuntime(c) /\ ~ (\E missing \in BOOLEAN : Unusable(c, missing)) /\ ~ GiveUp(c)
      BY <3>2 DEF FindRuntime
    <3>3. CASE PullRuntime(c) /\ ~ GiveUp(c)
      BY <3>3 DEF PullRuntime
    <3>4. CASE VerifyRuntime(c) /\ ~ (\E missing \in BOOLEAN : Unusable(c, missing))
      <4>1. /\ call' = call /\ pc' = [pc EXCEPT ![c] = AfterRuntime(c)]
            /\ results' = results \/ (call[c].verb = "doctor" /\ ~ Repairing(c))
        BY <3>4 DEF VerifyRuntime, Step
      <4>. QED
        BY <4>1 DEF TypeOK
    <3>. QED
      BY <1>3, <3>1, <3>2, <3>3, <3>4
  <2>5. UNCHANGED results
    BY <2>4 DEF AfterRuntime, Resolving
  <2>. QED
    BY <2>1, <2>4, <2>5 DEF Awaited
<1>4. CASE Probe(c)
  <2>1. PICK k \in DOMAIN Checks :
          /\ results[c][Checks[k]] = "pending"
          /\ \/ Checks[k] = "image" /\ UNCHANGED results
             \/ pc' = [pc EXCEPT ![c] = IF k = Len(Checks) THEN "reporting" ELSE "probing"]
    BY <1>4 DEF Probe
  <2>2. pc'[c] \notin {"reporting", "probing"}
    BY DEF Resolving
  <2>. QED
    BY <2>1, <2>2 DEF TypeOK
<1>5. CASE Start(c)
  BY <1>5 DEF Start, FirstStage, Resolving, TypeOK
<1>6. CASE Stops(c) \/ Report(c)
  BY <1>6 DEF Stops, Report, Ends, Resolving, TypeOK
<1>7. CASE Capture(c) \/ Look(c) \/ Execute(c)
  BY <1>7 DEF Capture, Look, Execute, Step, Ends, Resolving, TypeOK
<1>8. CASE ListConsumers(c) \/ RemoveHelper(c) \/ Recheck(c) \/ RemoveVolume(c)
  BY <1>8 DEF ListConsumers, RemoveHelper, Recheck, RemoveVolume, Step, Leaves, Ends, Resolving, TypeOK
<1>. QED
  BY <1>1, <1>2, <1>3, <1>4, <1>5, <1>6, <1>7, <1>8 DEF Command

AwaitInv == \A c \in Commands : Awaited(c)

LEMMA StillAwaits ==
  ASSUME NEW d, Awaited(d), Still(d)
  PROVE  Awaited(d)'
BY DEF Awaited, Still

\* Doctor never has an answer about the image before it looked for it.
THEOREM AlwaysAwaited == Spec => []AwaitInv
<1>1. Init => AwaitInv
  BY DEF Init, AwaitInv, Awaited, Resolving
<1>2. ASSUME RunInv, CleanupInv, AwaitInv, [Next]_vars
      PROVE  AwaitInv'
  <2>1. CASE \E c \in Commands : Command(c)
    <3>1. PICK c \in Commands : Command(c)
      BY <2>1
    <3>2. TypeOK /\ Checked(c) /\ (pc[c] \in Cleaning => At(c) \in Volumes)
      BY <1>2, LegacyAssumption DEF CleanupInv, Placed, TypeOK, RunInv, OwnRun
    <3>3. Apart(c) /\ Awaited(c)'
      BY <1>2, <3>1, <3>2, CommandGoes, CommandAwaits DEF Goes, AwaitInv
    <3>. QED
      BY <1>2, <3>3, StillAwaits DEF AwaitInv, Apart
  <2>2. CASE HostChanges \/ UNCHANGED vars
    <3>1. \A d \in Commands : Still(d)
      BY <1>2, <2>2, ElsewhereGoes DEF RunInv, Still, vars, host, prepared, migration
    <3>. QED
      BY <1>2, <3>1, StillAwaits DEF AwaitInv
  <2>. QED
    BY <1>2, <2>1, <2>2 DEF Next
<1>. QED
  BY <1>1, <1>2, AlwaysRunInv, AlwaysCleanupInv, PTL DEF Spec

\* Every step that others do not make starts a command or takes one nearer to its end,
\* and no step takes one further from it: doctor's fix, the pull that an unusable image
\* is given once more, and the clean-up of volumes that cannot be removed all come to an
\* end (ResolveRuntimeImage, runDoctorChecks, CleanupLegacyRuntime).
THEOREM AlwaysAdvances == Spec => Advances
<1> DEFINE Onward ==
      /\ changes' = changes =>
           \E c \in Commands : \/ pc[c] = "idle" /\ pc'[c] # "idle"
                               \/ Nearer(Rank(c)', Rank(c))
      /\ \A c \in Commands : pc[c] # "idle" =>
           Rank(c)' = Rank(c) \/ Nearer(Rank(c)', Rank(c))
<1>1. ASSUME RunInv, CleanupInv, AwaitInv, Next
      PROVE  Onward
  <2>1. CASE \E c \in Commands : Command(c)
    <3>1. PICK c \in Commands : Command(c)
      BY <2>1
    <3>2. TypeOK /\ Awaited(c) /\ Placed(c) /\ (pc[c] \in Cleaning => At(c) \in Volumes)
      BY <1>1, LegacyAssumption DEF CleanupInv, Placed, TypeOK, AwaitInv
    <3>3. Apart(c) /\ pc' \in [Commands -> Stages]
      BY <3>1, <3>2, CommandGoes DEF Goes, LocalTyped
    <3>4. (pc[c] = "idle" /\ pc'[c] # "idle") \/ (pc[c] # "idle" /\ Nearer(Rank(c)', Rank(c)))
      BY <3>1, <3>2, <3>3, CommandNearer
    <3>5. \A d \in Commands \ {c} : Rank(d)' = Rank(d)
      BY <3>3, StillRank DEF Apart
    <3>. QED
      BY <3>4, <3>5
  <2>2. CASE HostChanges
    <3>1. \A d \in Commands : Still(d)
      BY <1>1, <2>2, ElsewhereGoes DEF RunInv, Still
    <3>2. \A d \in Commands : Rank(d)' = Rank(d)
      BY <3>1, StillRank
    <3>3. changes' = changes + 1 /\ changes \in Int
      <4>1. changes' = changes + 1
        BY <2>2 DEF HostChanges, MoveTag, RemoveImage, Edit, Mount, Unmount, ToggleHelper, Recreate,
           Elsewhere
      <4>2. begun.changes \in Nat /\ changes \in 0 .. begun.changes
        BY <1>1, BeginningsAssumption DEF RunInv, TypeOK
      <4>. QED
        BY <4>1, <4>2
    <3>. QED
      BY <3>2, <3>3
  <2>. QED
    BY <1>1, <2>1, <2>2 DEF Next
<1>2. Onward \/ UNCHANGED vars => [Onward]_vars
  OBVIOUS
<1>3. RunInv /\ CleanupInv /\ AwaitInv /\ [Next]_vars => [Onward]_vars
  BY <1>1
<1> HIDE DEF Onward
<1>4. Spec => [][Onward]_vars
  BY <1>3, AlwaysRunInv, AlwaysCleanupInv, AlwaysAwaited, PTL DEF Spec
<1>. QED
  BY <1>4 DEF Advances, Onward

-----------------------------------------------------------------------------
(***************************************************************************)
(* How command lines are read.  The provers know no induction over an      *)
(* operator; here it is one over the set of the numbers for which a fact   *)
(* holds, and follows from the order of the natural numbers being well     *)
(* founded.  With it the functions by which a line is scanned, token by    *)
(* token, exist and are unfolded, for lines of every length.               *)
(***************************************************************************)
Lt == {p \in Nat \X Nat : p[1] < p[2]}

LEMMA NatsFounded == IsWellFoundedOn(Lt, Nat)
<1>1. OpToRel(<, Nat) = Lt
  BY DEF OpToRel, Lt
<1>. QED
  BY <1>1, NatLessThanWellFounded

\* A set of numbers that is not empty has a least one.
LEMMA LeastExists ==
  ASSUME NEW T \in SUBSET Nat, T # {}
  PROVE \E x \in T : \A y \in T : x <= y
<1>1. PICK x \in T : \A y \in T : ~ (<<y, x>> \in Lt)
  BY NatsFounded, WFMin
<1>2. ASSUME NEW y \in T PROVE x <= y
  <2>1. x \in Nat /\ y \in Nat /\ ~ (<<y, x>> \in Lt)
    BY <1>1
  <2>2. <<y, x>> \in Nat \X Nat => (<<y, x>>[1] < <<y, x>>[2] => <<y, x>> \in Lt)
    BY DEF Lt
  <2>. QED
    BY <2>1, <2>2
<1>. QED
  BY <1>1, <1>2

\* Induction, over the set of the numbers for which a fact holds.
LEMMA Induction ==
  ASSUME NEW S \in SUBSET Nat, 0 \in S, \A n \in S : n + 1 \in S
  PROVE S = Nat
<1> SUFFICES ASSUME Nat \ S # {} PROVE FALSE
  OBVIOUS
<1>1. PICK m \in Nat \ S : \A y \in Nat \ S : m <= y
  BY LeastExists
<1>2. m # 0 /\ m - 1 \in Nat /\ m - 1 \in S
  BY <1>1
<1>. QED
  BY <1>1, <1>2

LEMMA LeastIs ==
  ASSUME NEW T \in SUBSET Nat, T # {}
  PROVE Least(T) \in T /\ \A y \in T : Least(T) <= y
BY LeastExists, Zenon DEF Least

\* So has one that is bounded a greatest one.
LEMMA GreatestIs ==
  ASSUME NEW n \in Nat, NEW T \in SUBSET (1 .. n), T # {}
  PROVE Greatest(T) \in T /\ \A y \in T : y <= Greatest(T)
<1> DEFINE S == {n - y : y \in T}
<1>1. S \in SUBSET Nat /\ S # {}
  <2>1. PICK t \in T : TRUE
    OBVIOUS
  <2>2. n - t \in S
    OBVIOUS
  <2>3. \A y \in T : n - y \in Nat
    OBVIOUS
  <2>. QED
    BY <2>2, <2>3
<1>2. PICK x \in S : \A y \in S : x <= y
  BY <1>1, LeastExists
<1>3. PICK z \in T : x = n - z
  BY <1>2
<1>4. \A y \in T : y <= z
  BY <1>2, <1>3
<1>. QED
  BY <1>4, Zenon DEF Greatest

\* A function that is defined by what it was before exists.
Unfolds(f, n, T, a, D) ==
  /\ f \in [0 .. n -> T]
  /\ f[0] = a
  /\ \A i \in 1 .. n : f[i] = D[<<f[i - 1], i>>]

LEMMA RecursionExists ==
  ASSUME NEW T, NEW n \in Nat, NEW a \in T, NEW D \in [T \X Nat -> T]
  PROVE \E f : Unfolds(f, n, T, a, D)
<1> DEFINE Defined(m) == \E f : Unfolds(f, m, T, a, D)
           S == {m \in Nat : Defined(m)}
<1>1. 0 \in S
  <2> DEFINE g == [i \in 0 .. 0 |-> a]
  <2>1. g \in [0 .. 0 -> T] /\ g[0] = a /\ 1 .. 0 = {}
    OBVIOUS
  <2>. HIDE DEF g
  <2>2. Unfolds(g, 0, T, a, D)
    BY <2>1 DEF Unfolds
  <2>. QED
    BY <2>2
<1>2. ASSUME NEW m \in S PROVE m + 1 \in S
  <2>1. PICK f : Unfolds(f, m, T, a, D)
    OBVIOUS
  <2>2. m \in Nat /\ f[m] \in T /\ D[<<f[m], m + 1>>] \in T
    BY <2>1 DEF Unfolds
  <2> DEFINE g == [i \in 0 .. m + 1 |-> IF i = m + 1 THEN D[<<f[m], m + 1>>] ELSE f[i]]
  <2>3. g \in [0 .. m + 1 -> T]
    BY <2>1, <2>2 DEF Unfolds
  <2>4. g[0] = a
    BY <2>1, <2>2 DEF Unfolds
  <2>5. \A i \in 1 .. m + 1 : g[i] = D[<<g[i - 1], i>>]
    BY <2>1, <2>2 DEF Unfolds
  <2>. HIDE DEF g
  <2>6. Unfolds(g, m + 1, T, a, D)
    BY <2>3, <2>4, <2>5 DEF Unfolds
  <2>. QED
    BY <2>2, <2>6
<1>3. S = Nat
  <2>. HIDE DEF S
  <2>1. S \in SUBSET Nat
    BY DEF S
  <2>. QED
    BY <1>1, <1>2, <2>1, Induction
<1>. QED
  BY <1>3

\* What every token takes follows from what the one before it takes.
LEMMA TakesIs ==
  ASSUME NEW args, Len(args) \in Nat
  PROVE /\ Takes(args) \in [0 .. Len(args) -> {0, 1}]
        /\ Takes(args)[0] = 0
        /\ \A i \in 1 .. Len(args) :
             Takes(args)[i] = IF Takes(args)[i - 1] = 0 /\ args[i] \in TakesNext THEN 1 ELSE 0
<1> DEFINE n == Len(args)
           D == [p \in {0, 1} \X Nat |-> IF p[1] = 0 /\ args[p[2]] \in TakesNext THEN 1 ELSE 0]
           Is(f) == f = [i \in 0 .. n |->
             IF i = 0 THEN 0 ELSE IF f[i - 1] = 0 /\ args[i] \in TakesNext THEN 1 ELSE 0]
<1>1. D \in [{0, 1} \X Nat -> {0, 1}]
  OBVIOUS
<1>2. PICK f : Unfolds(f, n, {0, 1}, 0, D)
  <2>1. n \in Nat /\ 0 \in {0, 1}
    OBVIOUS
  <2>. HIDE DEF D, n
  <2>. QED
    BY <1>1, <2>1, RecursionExists, Zenon
<1>3. ASSUME NEW i \in 1 .. n
      PROVE f[i] = IF f[i - 1] = 0 /\ args[i] \in TakesNext THEN 1 ELSE 0
  <2>1. f[i - 1] \in {0, 1} /\ i \in Nat
    BY <1>2 DEF Unfolds
  <2>2. f[i] = D[<<f[i - 1], i>>]
    BY <1>2 DEF Unfolds
  <2>. QED
    BY <2>1, <2>2
<1>4. Is(f)
  BY <1>2, <1>3 DEF Unfolds
<1>5. Is(Takes(args))
  BY <1>4, Zenon DEF Takes
<1>6. Takes(args) \in [0 .. n -> {0, 1}]
  BY <1>5
<1>. QED
  BY <1>5, <1>6

\* What was read up to every token follows from what was read before it.
LEMMA ReadIs ==
  ASSUME NEW V, NEW args \in Seq(V)
  PROVE /\ FilesRead(args) \in [0 .. Len(args) -> Seq(V)]
        /\ FilesRead(args)[0] = <<>>
        /\ \A i \in 1 .. Len(args) :
             FilesRead(args)[i] = IF IsFile(args, i) THEN Append(FilesRead(args)[i - 1], args[i])
                                  ELSE FilesRead(args)[i - 1]
<1> DEFINE n == Len(args)
           D == [p \in Seq(V) \X Nat |->
                   IF p[2] \in 1 .. n /\ IsFile(args, p[2]) THEN Append(p[1], args[p[2]]) ELSE p[1]]
           Is(f) == f = [i \in 0 .. n |->
             IF i = 0 THEN <<>> ELSE IF IsFile(args, i) THEN Append(f[i - 1], args[i]) ELSE f[i - 1]]
<1>0. n \in Nat
  OBVIOUS
<1>1. D \in [Seq(V) \X Nat -> Seq(V)]
  <2>1. ASSUME NEW p \in Seq(V) \X Nat PROVE D[p] \in Seq(V)
    <3>1. p[1] \in Seq(V) /\ p[2] \in Nat
      OBVIOUS
    <3>2. p[2] \in 1 .. n => Append(p[1], args[p[2]]) \in Seq(V)
      BY <3>1
    <3>. QED
      BY <3>1, <3>2
  <2>. QED
    BY <2>1
<1>2. PICK f : Unfolds(f, n, Seq(V), <<>>, D)
  <2>1. <<>> \in Seq(V)
    OBVIOUS
  <2>. HIDE DEF D, n
  <2>. QED
    BY <1>0, <1>1, <2>1, RecursionExists, Zenon
<1>3. ASSUME NEW i \in 1 .. n
      PROVE f[i] = IF IsFile(args, i) THEN Append(f[i - 1], args[i]) ELSE f[i - 1]
  <2>1. f[i - 1] \in Seq(V) /\ i \in Nat
    BY <1>0, <1>2 DEF Unfolds
  <2>2. f[i] = D[<<f[i - 1], i>>]
    BY <1>2 DEF Unfolds
  <2>. QED
    BY <2>1, <2>2
<1>4. Is(f)
  <2> DEFINE g == [i \in 0 .. n |->
             IF i = 0 THEN <<>> ELSE IF IsFile(args, i) THEN Append(f[i - 1], args[i]) ELSE f[i - 1]]
  <2>1. ASSUME NEW i \in 0 .. n PROVE f[i] = g[i]
    <3>1. CASE i = 0
      BY <1>2, <3>1 DEF Unfolds
    <3>2. CASE i # 0
      <4>1. i \in 1 .. n
        BY <1>0, <3>2
      <4>. QED
        BY <1>3, <4>1, <3>2, Zenon
    <3>. QED
      BY <3>1, <3>2
  <2>. QED
    BY <1>2, <2>1, Zenon DEF Unfolds
<1>5. Is(FilesRead(args))
  BY <1>4, Zenon DEF FilesRead
<1>. HIDE DEF D
<1>6. ASSUME NEW i \in 1 .. n
      PROVE FilesRead(args)[i] = IF IsFile(args, i) THEN Append(FilesRead(args)[i - 1], args[i])
                                 ELSE FilesRead(args)[i - 1]
  <2>1. i \in 0 .. n /\ i # 0
    BY <1>0
  <2>. QED
    BY <1>5, <2>1, Zenon
<1>7. FilesRead(args)[0] = <<>>
  BY <1>0, <1>5
<1> DEFINE S == {m \in Nat : m <= n => FilesRead(args)[m] \in Seq(V)}
<1>8. 0 \in S
  <2>1. <<>> \in Seq(V)
    OBVIOUS
  <2>. QED
    BY <1>7, <2>1
<1>9. ASSUME NEW m \in S PROVE m + 1 \in S
  <2>1. SUFFICES ASSUME m + 1 <= n PROVE FilesRead(args)[m + 1] \in Seq(V)
    OBVIOUS
  <2>2. m \in Nat /\ m + 1 \in 1 .. n /\ FilesRead(args)[m] \in Seq(V) /\ (m + 1) - 1 = m
    BY <1>0, <2>1
  <2>3. args[m + 1] \in V
    BY <2>2
  <2>4. Append(FilesRead(args)[m], args[m + 1]) \in Seq(V)
    BY <2>2, <2>3
  <2>. QED
    BY <1>6, <2>2, <2>4
<1>10. S = Nat
  <2>. HIDE DEF S
  <2>1. S \in SUBSET Nat
    BY DEF S
  <2>. QED
    BY <1>8, <1>9, <2>1, Induction
<1>11. \A i \in 0 .. n : FilesRead(args)[i] \in Seq(V)
  BY <1>0, <1>10
<1>12. FilesRead(args) \in [0 .. n -> Seq(V)]
  BY <1>5, <1>11
<1>. QED
  BY <1>6, <1>7, <1>12

\* After p and q, the next n tokens of two lines are the same.
Agree(s, p, t, q, n) ==
  /\ Len(s) \in Nat /\ Len(t) \in Nat /\ p \in Nat /\ q \in Nat /\ n \in Nat
  /\ p + n <= Len(s) /\ q + n <= Len(t)
  /\ \A i \in 1 .. n : s[p + i] = t[q + i]

\* Where lines agree, their flags take the same tokens, if they did before.
LEMMA TakesAlike ==
  ASSUME NEW s, NEW t, NEW p, NEW q, NEW n, Agree(s, p, t, q, n), Takes(s)[p] = Takes(t)[q]
  PROVE \A i \in 0 .. n : Takes(s)[p + i] = Takes(t)[q + i]
<1>0. /\ Len(s) \in Nat /\ Len(t) \in Nat /\ p \in Nat /\ q \in Nat /\ n \in Nat
      /\ p + n <= Len(s) /\ q + n <= Len(t)
      /\ \A i \in 1 .. n : s[p + i] = t[q + i]
  BY DEF Agree
<1> DEFINE S == {i \in Nat : i <= n => Takes(s)[p + i] = Takes(t)[q + i]}
<1>1. 0 \in S
  BY <1>0
<1>2. ASSUME NEW i \in S PROVE i + 1 \in S
  <2>1. SUFFICES ASSUME i + 1 <= n PROVE Takes(s)[p + (i + 1)] = Takes(t)[q + (i + 1)]
    OBVIOUS
  <2> DEFINE j == p + (i + 1)
             k == q + (i + 1)
  <2>2. i \in Nat /\ i + 1 \in 1 .. n
    BY <1>0, <2>1
  <2>3. Takes(s)[p + i] = Takes(t)[q + i]
    BY <1>0, <2>1
  <2>4. s[j] = t[k]
    BY <1>0, <2>2, Zenon
  <2>5. j \in 1 .. Len(s) /\ k \in 1 .. Len(t) /\ j - 1 = p + i /\ k - 1 = q + i
    BY <1>0, <2>1
  <2>6. Takes(s)[j] = IF Takes(s)[j - 1] = 0 /\ s[j] \in TakesNext THEN 1 ELSE 0
    BY <1>0, <2>5, TakesIs
  <2>7. Takes(t)[k] = IF Takes(t)[k - 1] = 0 /\ t[k] \in TakesNext THEN 1 ELSE 0
    BY <1>0, <2>5, TakesIs
  <2>. HIDE DEF j, k
  <2>8. Takes(s)[j - 1] = Takes(t)[k - 1]
    BY <2>3, <2>5
  <2>9. Takes(s)[j] = Takes(t)[k]
    BY <2>4, <2>6, <2>7, <2>8
  <2>. QED
    BY <2>9 DEF j, k
<1>3. S = Nat
  <2>. HIDE DEF S
  <2>1. S \in SUBSET Nat
    BY DEF S
  <2>. QED
    BY <1>1, <1>2, <2>1, Induction
<1>4. ASSUME NEW i \in 0 .. n PROVE Takes(s)[p + i] = Takes(t)[q + i]
  <2>1. i \in S
    <3>. HIDE DEF S
    <3>. QED
      BY <1>0, <1>3
  <2>. QED
    BY <1>0, <2>1
<1>. QED
  BY <1>4

\* Where no file is named, none is read.
LEMMA NoneRead ==
  ASSUME NEW V, NEW args \in Seq(V), NEW p \in Nat, NEW q \in Nat, p <= q, q <= Len(args),
         \A i \in p + 1 .. q : ~ IsFile(args, i)
  PROVE FilesRead(args)[q] = FilesRead(args)[p]
<1> DEFINE S == {i \in Nat : p + i <= q => FilesRead(args)[p + i] = FilesRead(args)[p]}
<1>1. 0 \in S
  OBVIOUS
<1>2. ASSUME NEW i \in S PROVE i + 1 \in S
  <2>1. SUFFICES ASSUME p + (i + 1) <= q
                 PROVE FilesRead(args)[p + (i + 1)] = FilesRead(args)[p]
    OBVIOUS
  <2> DEFINE j == p + (i + 1)
  <2>2. i \in Nat /\ FilesRead(args)[p + i] = FilesRead(args)[p]
    BY <2>1
  <2>3. j \in 1 .. Len(args) /\ j - 1 = p + i /\ ~ IsFile(args, j)
    BY <2>1
  <2>4. FilesRead(args)[j] = IF IsFile(args, j) THEN Append(FilesRead(args)[j - 1], args[j])
                             ELSE FilesRead(args)[j - 1]
    BY <2>3, ReadIs
  <2>. HIDE DEF j
  <2>5. FilesRead(args)[j] = FilesRead(args)[p]
    BY <2>2, <2>3, <2>4
  <2>. QED
    BY <2>5 DEF j
<1>3. S = Nat
  <2>. HIDE DEF S
  <2>1. S \in SUBSET Nat
    BY DEF S
  <2>. QED
    BY <1>1, <1>2, <2>1, Induction
<1>4. q - p \in S
  <2>. HIDE DEF S
  <2>. QED
    BY <1>3
<1>5. q - p \in Nat /\ p + (q - p) = q
  OBVIOUS
<1>. QED
  BY <1>4, <1>5

\* Two lines that begin alike name the same files there.
LEMMA ReadAlike ==
  ASSUME NEW V, NEW s \in Seq(V), NEW t \in Seq(V), NEW n \in Nat,
         Agree(s, 0, t, 0, n)
  PROVE \A i \in 0 .. n : FilesRead(s)[i] = FilesRead(t)[i]
<1> DEFINE S == {i \in Nat : i <= n => FilesRead(s)[i] = FilesRead(t)[i]}
<1>0. n <= Len(s) /\ n <= Len(t) /\ \A i \in 1 .. n : s[i] = t[i]
  BY DEF Agree
<1>1. Takes(s)[0] = Takes(t)[0]
  BY TakesIs
<1>2. \A i \in 0 .. n : Takes(s)[i] = Takes(t)[i]
  <2>2. \A i \in 0 .. n : Takes(s)[0 + i] = Takes(t)[0 + i]
    BY <1>1, TakesAlike
  <2>. QED
    BY <2>2
<1>3. \A i \in 1 .. n : IsFile(s, i) <=> IsFile(t, i)
  BY <1>0, <1>2 DEF IsFile, Starts
<1>4. 0 \in S
  BY ReadIs
<1>5. ASSUME NEW i \in S PROVE i + 1 \in S
  <2>1. SUFFICES ASSUME i + 1 <= n PROVE FilesRead(s)[i + 1] = FilesRead(t)[i + 1]
    OBVIOUS
  <2> DEFINE j == i + 1
  <2>2. i \in Nat /\ FilesRead(s)[i] = FilesRead(t)[i]
    BY <2>1
  <2>3. j \in 1 .. n /\ j \in 1 .. Len(s) /\ j \in 1 .. Len(t) /\ j - 1 = i
    BY <1>0, <2>1
  <2>4. s[j] = t[j] /\ (IsFile(s, j) <=> IsFile(t, j))
    BY <1>0, <1>3, <2>3
  <2>5. FilesRead(s)[j] = IF IsFile(s, j) THEN Append(FilesRead(s)[j - 1], s[j])
                          ELSE FilesRead(s)[j - 1]
    BY <2>3, ReadIs
  <2>6. FilesRead(t)[j] = IF IsFile(t, j) THEN Append(FilesRead(t)[j - 1], t[j])
                          ELSE FilesRead(t)[j - 1]
    BY <2>3, ReadIs
  <2>. HIDE DEF j
  <2>7. FilesRead(s)[j] = FilesRead(t)[j]
    BY <2>2, <2>3, <2>4, <2>5, <2>6
  <2>. QED
    BY <2>7 DEF j
<1>6. S = Nat
  <2>. HIDE DEF S
  <2>1. S \in SUBSET Nat
    BY DEF S
  <2>. QED
    BY <1>4, <1>5, <2>1, Induction
<1>. QED
  BY <1>6

\* Where the scan of a line stops.
ScanEnds(args, i) == Starts(args, i) /\ (~ IsFlag(args[i]) \/ args[i] \in DockerFlags)

LEMMA EndHas ==
  ASSUME NEW V, NEW args \in Seq(V), End(args) # 0
  PROVE /\ End(args) \in 1 .. Len(args) /\ ScanEnds(args, End(args))
        /\ \A i \in 1 .. End(args) - 1 : ~ ScanEnds(args, i)
<1> DEFINE S == {i \in DOMAIN args : ScanEnds(args, i)}
<1>1. End(args) = Least(S)
  BY DEF End, ScanEnds
<1>2. S \in SUBSET Nat
  OBVIOUS
<1>3. S # {}
  BY <1>1 DEF Least
<1>4. End(args) \in S /\ \A y \in S : End(args) <= y
  <2>. HIDE DEF S
  <2>. QED
    BY <1>1, <1>2, <1>3, LeastIs
<1>. QED
  BY <1>4

LEMMA EndIs ==
  ASSUME NEW V, NEW args \in Seq(V), NEW e \in 1 .. Len(args), ScanEnds(args, e),
         \A i \in 1 .. e - 1 : ~ ScanEnds(args, i)
  PROVE End(args) = e
<1> DEFINE S == {i \in DOMAIN args : ScanEnds(args, i)}
<1>1. End(args) = Least(S)
  BY DEF End, ScanEnds
<1>2. S \in SUBSET Nat /\ e \in S
  OBVIOUS
<1>3. Least(S) \in S /\ \A y \in S : Least(S) <= y
  <2>. HIDE DEF S
  <2>. QED
    BY <1>2, LeastIs
<1>4. Least(S) <= e /\ Least(S) \in Nat /\ Least(S) >= 1 /\ ScanEnds(args, Least(S))
  BY <1>2, <1>3
<1>. QED
  BY <1>1, <1>4

\* What is left of a line from a token on, and a line up to the next token.
IsPart(t, s, p) ==
  Len(t) = Len(s) - p + 1 /\ \A k \in 1 .. Len(t) : t[k] = s[p + k - 1]

LEMMA PartIs ==
  ASSUME NEW V, NEW s \in Seq(V), NEW p \in 1 .. Len(s), NEW t, t = SubSeq(s, p, Len(s))
  PROVE t \in Seq(V) /\ IsPart(t, s, p)
<1>1. Len(s) \in Nat /\ p \in Nat /\ p <= Len(s)
  OBVIOUS
<1>2. t \in Seq(V) /\ Len(t) = Len(s) - p + 1
  BY <1>1
<1>3. ASSUME NEW k \in 1 .. Len(s) - p + 1 PROVE t[k] = s[p + k - 1]
  BY <1>1
<1>. QED
  BY <1>2, <1>3 DEF IsPart

LEMMA PartLonger ==
  ASSUME NEW V, NEW s \in Seq(V), NEW k \in Nat, k + 1 <= Len(s)
  PROVE Append(SubSeq(s, 1, k), s[k + 1]) = SubSeq(s, 1, k + 1)
<1>1. Len(s) \in Nat
  OBVIOUS
<1>. QED
  BY <1>1

\* The flag of a file, and its value, where a line is otherwise the same: docker compose
\* reads the file after the others, and then the same verb and arguments.
LEMMA Inserted ==
  ASSUME NEW V, NEW args \in Seq(V), NEW run \in Seq(V), NEW b \in Nat, NEW m \in Nat,
         End(args) # 0, b < End(args), Takes(args)[b] = 0, Takes(run)[m] = 0,
         \A i \in b + 1 .. End(args) - 1 : ~ IsFile(args, i),
         \A i \in 1 .. m : ~ ScanEnds(run, i),
         Agree(run, m + 2, args, b, Len(args) - b),
         Len(run) = m + 2 + (Len(args) - b), run[m + 1] = "-f"
  PROVE /\ End(run) = m + 2 + (End(args) - b)
        /\ Files(run) = Append(FilesRead(run)[m], run[m + 2])
        /\ SubSeq(run, End(run), Len(run)) = SubSeq(args, End(args), Len(args))
<1> DEFINE e == End(args)
           n == Len(args) - b
           E == m + 2 + (e - b)
<1>1. /\ Len(args) \in Nat /\ Len(run) \in Nat /\ e \in 1 .. Len(args) /\ ScanEnds(args, e)
      /\ \A i \in 1 .. e - 1 : ~ ScanEnds(args, i)
  BY EndHas
<1>2. /\ n \in Nat /\ E \in 1 .. Len(run) /\ e - b \in 1 .. n /\ b < e
      /\ m + 1 \in 1 .. Len(run) /\ m + 2 \in 1 .. Len(run) /\ Len(run) = m + 2 + n
      /\ e \in Nat /\ E \in Nat /\ b + n = Len(args)
  <2>1. e \in Nat /\ b < e /\ e <= Len(args)
    BY <1>1
  <2>2. n \in Nat /\ e - b \in 1 .. n /\ b + n = Len(args)
    <3>. HIDE DEF e
    <3>. QED
      BY <1>1, <2>1
  <2>3. Len(run) = (m + 2) + n
    OBVIOUS
  <2>. HIDE DEF e, n
  <2>4. E \in 1 .. Len(run) /\ E \in Nat /\ m + 1 \in 1 .. Len(run) /\ m + 2 \in 1 .. Len(run)
    BY <1>1, <2>1, <2>2, <2>3
  <2>. QED
    BY <2>1, <2>2, <2>3, <2>4
<1>3. Takes(run)[m + 1] = 1
  <2>1. Takes(run)[m + 1] =
          IF Takes(run)[(m + 1) - 1] = 0 /\ run[m + 1] \in TakesNext THEN 1 ELSE 0
    BY <1>1, <1>2, TakesIs
  <2>. QED
    BY <2>1 DEF TakesNext
<1>4. Takes(run)[m + 2] = 0
  <2>1. Takes(run)[m + 2] =
          IF Takes(run)[(m + 2) - 1] = 0 /\ run[m + 2] \in TakesNext THEN 1 ELSE 0
    BY <1>1, <1>2, TakesIs
  <2>2. (m + 2) - 1 = m + 1
    OBVIOUS
  <2>. QED
    BY <1>3, <2>1, <2>2
<1>5. \A i \in 0 .. n : Takes(run)[(m + 2) + i] = Takes(args)[b + i]
  <2>1. Takes(run)[m + 2] = Takes(args)[b]
    BY <1>4
  <2> DEFINE p == m + 2
  <2>2. Agree(run, p, args, b, n) /\ Takes(run)[p] = Takes(args)[b]
    BY <2>1
  <2>3. \A i \in 0 .. n : Takes(run)[p + i] = Takes(args)[b + i]
    <3>. HIDE DEF p, n
    <3>. QED
      BY <2>2, TakesAlike
  <2>. QED
    BY <2>3
<1>6. \A i \in 1 .. n : run[(m + 2) + i] = args[b + i]
  BY DEF Agree
<1>7. ASSUME NEW i \in 1 .. n
      PROVE /\ Starts(run, (m + 2) + i) <=> Starts(args, b + i)
            /\ ScanEnds(run, (m + 2) + i) <=> ScanEnds(args, b + i)
  <2>1. i - 1 \in 0 .. n /\ (m + 2) + (i - 1) = ((m + 2) + i) - 1 /\ b + (i - 1) = (b + i) - 1
    BY <1>2
  <2>2. Takes(run)[((m + 2) + i) - 1] = Takes(args)[(b + i) - 1]
    BY <1>5, <2>1
  <2>3. Starts(run, (m + 2) + i) <=> Starts(args, b + i)
    BY <2>2 DEF Starts
  <2>4. run[(m + 2) + i] = args[b + i]
    BY <1>6
  <2>. QED
    BY <2>3, <2>4 DEF ScanEnds
<1>8. ASSUME NEW i \in 1 .. n PROVE IsFile(run, (m + 2) + i) <=> IsFile(args, b + i)
  <2>1. run[(m + 2) + i] = args[b + i]
    BY <1>6
  <2>2. CASE i = 1
    <3>1. Starts(args, b + i)
      <4>1. (b + i) - 1 = b
        BY <2>2
      <4>. QED
        BY <4>1 DEF Starts
    <3>. QED
      BY <1>7, <2>1, <3>1 DEF IsFile
  <2>3. CASE i # 1
    <3>1. i - 1 \in 1 .. n /\ (m + 2) + i > 1 /\ b + i > 1
      BY <1>2, <2>3
    <3>2. run[(m + 2) + (i - 1)] = args[b + (i - 1)]
      BY <1>6, <3>1
    <3>3. (m + 2) + (i - 1) = ((m + 2) + i) - 1 /\ b + (i - 1) = (b + i) - 1
      OBVIOUS
    <3>4. run[((m + 2) + i) - 1] = args[(b + i) - 1]
      BY <3>2, <3>3
    <3>. QED
      BY <1>7, <2>1, <3>1, <3>4 DEF IsFile
  <2>. QED
    BY <2>2, <2>3
<1>9. Starts(run, m + 1) /\ ~ Starts(run, m + 2)
  <2>1. (m + 1) - 1 = m /\ (m + 2) - 1 = m + 1
    OBVIOUS
  <2>. QED
    BY <1>3, <2>1 DEF Starts
<1>10. End(run) = E
  <2>1. ScanEnds(run, E)
    <3>1. b + (e - b) = e
      BY <1>2
    <3>. QED
      BY <1>1, <1>2, <1>7, <3>1
  <2>2. ASSUME NEW i \in 1 .. E - 1 PROVE ~ ScanEnds(run, i)
    <3>1. CASE i \in 1 .. m
      BY <3>1
    <3>2. CASE i = m + 1
      BY <3>2 DEF ScanEnds, IsFlag, FlagTokens, ComposeFlags, TakesNext, DockerFlags
    <3>3. CASE i = m + 2
      BY <1>9, <3>3 DEF ScanEnds
    <3>4. CASE i > m + 2
      <4> DEFINE j == i - (m + 2)
      <4>1. j \in 1 .. n /\ (m + 2) + j = i /\ b + j \in 1 .. e - 1
        <5>. HIDE DEF e, n
        <5>. QED
          BY <1>2, <3>4
      <4>. HIDE DEF j
      <4>. QED
        BY <1>1, <1>7, <4>1
    <3>. QED
      BY <3>1, <3>2, <3>3, <3>4
  <2>. HIDE DEF E
  <2>. QED
    BY <1>2, <2>1, <2>2, EndIs
<1>11. Files(run) = Append(FilesRead(run)[m], run[m + 2])
  <2>1. ~ IsFile(run, m + 1)
    BY <1>9 DEF IsFile
  <2>2. IsFile(run, m + 2)
    <3>1. m + 2 > 1 /\ (m + 2) - 1 = m + 1
      OBVIOUS
    <3>. QED
      BY <1>9, <3>1 DEF IsFile
  <2>3. FilesRead(run)[m + 1] = FilesRead(run)[m]
    <3>1. FilesRead(run)[m + 1] = IF IsFile(run, m + 1)
            THEN Append(FilesRead(run)[(m + 1) - 1], run[m + 1]) ELSE FilesRead(run)[(m + 1) - 1]
      BY <1>2, ReadIs
    <3>2. (m + 1) - 1 = m
      OBVIOUS
    <3>. QED
      BY <2>1, <3>1, <3>2
  <2>4. FilesRead(run)[m + 2] = Append(FilesRead(run)[m], run[m + 2])
    <3>1. FilesRead(run)[m + 2] = IF IsFile(run, m + 2)
            THEN Append(FilesRead(run)[(m + 2) - 1], run[m + 2]) ELSE FilesRead(run)[(m + 2) - 1]
      BY <1>2, ReadIs
    <3>2. (m + 2) - 1 = m + 1
      OBVIOUS
    <3>. QED
      BY <2>2, <2>3, <3>1, <3>2
  <2>5. FilesRead(run)[E - 1] = FilesRead(run)[m + 2]
    <3>1. ASSUME NEW i \in (m + 2) + 1 .. E - 1 PROVE ~ IsFile(run, i)
      <4> DEFINE j == i - (m + 2)
      <4>1. j \in 1 .. n /\ (m + 2) + j = i /\ b + j \in b + 1 .. e - 1
        <5>. HIDE DEF e, n
        <5>. QED
          BY <1>2
      <4>. HIDE DEF j
      <4>. QED
        BY <1>8, <4>1
    <3>2. m + 2 \in Nat /\ E - 1 \in Nat /\ m + 2 <= E - 1 /\ E - 1 <= Len(run)
      <4>. HIDE DEF e, n
      <4>. QED
        BY <1>2
    <3>. HIDE DEF E
    <3>. QED
      BY <3>1, <3>2, NoneRead
  <2>. QED
    BY <1>10, <2>4, <2>5 DEF Files
<1>12. SubSeq(run, E, Len(run)) = SubSeq(args, e, Len(args))
  <2>1. ASSUME NEW k \in 1 .. Len(args) - e + 1 PROVE run[E + k - 1] = args[e + k - 1]
    <3> DEFINE j == (e - b) + (k - 1)
    <3>1. j \in 1 .. n /\ (m + 2) + j = E + k - 1 /\ b + j = e + k - 1
      <4>. HIDE DEF e, n
      <4>. QED
        BY <1>2
    <3>. HIDE DEF j
    <3>. QED
      BY <1>6, <3>1
  <2>2. Len(run) - E + 1 = Len(args) - e + 1
    BY <1>1, <1>2
  <2> DEFINE s == SubSeq(run, E, Len(run))
             t == SubSeq(args, e, Len(args))
  <2>3. /\ s \in Seq(V) /\ Len(s) = Len(run) - E + 1
        /\ \A k \in 1 .. Len(s) : s[k] = run[E + k - 1]
    <3>1. s = SubSeq(run, E, Len(run)) /\ E \in 1 .. Len(run)
      BY <1>2
    <3>. HIDE DEF E, s
    <3>2. s \in Seq(V) /\ IsPart(s, run, E)
      BY <3>1, PartIs
    <3>. QED
      BY <3>2 DEF IsPart
  <2>4. /\ t \in Seq(V) /\ Len(t) = Len(args) - e + 1
        /\ \A k \in 1 .. Len(t) : t[k] = args[e + k - 1]
    <3>1. t = SubSeq(args, e, Len(args)) /\ e \in 1 .. Len(args)
      BY <1>1
    <3>. HIDE DEF e, t
    <3>2. t \in Seq(V) /\ IsPart(t, args, e)
      BY <3>1, PartIs
    <3>. QED
      BY <3>2 DEF IsPart
  <2>. HIDE DEF s, t, e, E
  <2>5. Len(s) = Len(t) /\ \A k \in 1 .. Len(s) : s[k] = t[k]
    BY <2>1, <2>2, <2>3, <2>4
  <2>6. s = t
    BY <2>3, <2>4, <2>5
  <2>. QED
    BY <2>6 DEF s, t, e, E
<1>. QED
  BY <1>10, <1>11, <1>12

LEMMA LastFileIs ==
  ASSUME NEW V, NEW args \in Seq(V), End(args) # 0
  PROVE /\ LastFile(args) \in 0 .. End(args) - 1
        /\ LastFile(args) # 0 => IsFile(args, LastFile(args))
        /\ \A i \in LastFile(args) + 1 .. End(args) - 1 : ~ IsFile(args, i)
<1> DEFINE n == End(args) - 1
           S == {i \in 1 .. n : IsFile(args, i)}
<1>1. LastFile(args) = Greatest(S)
  BY DEF LastFile
<1>2. n \in Nat
  BY EndHas
<1>3. CASE S = {}
  BY <1>1, <1>2, <1>3 DEF Greatest
<1>4. CASE S # {}
  <2>1. S \in SUBSET (1 .. n)
    OBVIOUS
  <2>2. Greatest(S) \in S /\ \A i \in S : i <= Greatest(S)
    <3>. HIDE DEF S, n
    <3>. QED
      BY <1>2, <1>4, <2>1, GreatestIs
  <2>3. LastFile(args) \in 1 .. n /\ IsFile(args, LastFile(args))
    BY <1>1, <2>2
  <2>4. ASSUME NEW i \in LastFile(args) + 1 .. n PROVE ~ IsFile(args, i)
    <3>1. i \in 1 .. n /\ i > LastFile(args)
      BY <1>2, <2>3
    <3>2. i \in S => i <= LastFile(args)
      BY <1>1, <2>2, Zenon
    <3>3. i \notin S
      BY <1>2, <2>3, <3>1, <3>2
    <3>. QED
      BY <3>1, <3>3
  <2>. QED
    BY <1>2, <2>3, <2>4
<1>. QED
  BY <1>3, <1>4

\* After the value of a file flag, a flag starts.
LEMMA FileEnds ==
  ASSUME NEW V, NEW args \in Seq(V), NEW i \in 1 .. Len(args), IsFile(args, i)
  PROVE Takes(args)[i] = 0
<1>1. Takes(args) \in [0 .. Len(args) -> {0, 1}]
      /\ Takes(args)[i] = IF Takes(args)[i - 1] = 0 /\ args[i] \in TakesNext THEN 1 ELSE 0
  BY TakesIs
<1>. QED
  BY <1>1 DEF IsFile, Starts, TakesNext

\* What the override is put into, and what docker compose is given with it.
RunTokens == Tokens \union {Override}

\* No flag of vaka's is in a line, but after "--".
Stripped(args) ==
  \A i \in DOMAIN args : args[i] \in VakaFlags => \E j \in 1 .. i - 1 : args[j] = "--"

\* What is left of a line that vaka takes is a line without its flags.
LEMMA RestIs ==
  ASSUME NEW argv \in Seq(Tokens), CommandAt(argv) # 0, ~ Misplaced(argv)
  PROVE Rest(argv) \in Seq(Tokens) /\ Stripped(Rest(argv))
<1> DEFINE at == CommandAt(argv)
           n == Len(argv)
           S == {i \in DOMAIN argv : ~ IsFlag(argv[i])}
           D == {i \in DOMAIN argv : argv[i] = "--"}
           dash == Least(D)
           rest == Rest(argv)
<1>1. n \in Nat /\ at \in 1 .. n /\ ~ IsFlag(argv[at]) /\ \A i \in 1 .. n : i < at => IsFlag(argv[i])
  <2>1. at = Least(S) /\ S \in SUBSET Nat
    BY DEF CommandAt
  <2>2. S # {}
    BY <2>1 DEF Least
  <2>3. at \in S /\ \A i \in S : at <= i
    <3>. HIDE DEF S, at
    <3>. QED
      BY <2>1, <2>2, LeastIs
  <2>. QED
    BY <2>3
<1>2. D # {} => /\ dash \in 1 .. n /\ argv[dash] = "--"
  <2>1. D \in SUBSET Nat
    OBVIOUS
  <2>2. D # {} => dash \in D
    <3>. HIDE DEF D
    <3>. QED
      BY <2>1, LeastIs
  <2>. QED
    BY <2>2
<1>3. D = {} => dash = 0
  BY DEF Least
<1>4. ASSUME NEW i \in at + 1 .. n, argv[i] \in VakaFlags PROVE D # {} /\ dash < i
  <2>1. \A k \in at + 1 .. IF dash = 0 THEN n ELSE dash : argv[k] \notin VakaFlags
    BY DEF Misplaced
  <2>. HIDE DEF D, dash, at, n
  <2>2. D # {}
    BY <1>1, <1>3, <1>4, <2>1
  <2>3. dash \in 1 .. n
    BY <1>2, <2>2
  <2>. QED
    BY <1>1, <1>4, <2>1, <2>2, <2>3
<1>5. D # {} => dash >= at
  <2>1. ~ IsFlag("--")
    BY DEF IsFlag, FlagTokens, ComposeFlags, TakesNext, HasValue, DockerFlags, VakaFlags, UnknownVaka
  <2>2. D # {} => dash \in 1 .. n /\ ~ IsFlag(argv[dash])
    BY <1>2, <2>1
  <2>. HIDE DEF D, dash, at, n
  <2>. QED
    BY <1>1, <2>2
<1>6. \A t \in VakaFlags : IsFlag(t)
  BY DEF IsFlag, FlagTokens
<1> DEFINE tail == SubSeq(argv, at, n)
<1>7. /\ tail \in Seq(Tokens) /\ Len(tail) = n - at + 1
      /\ \A i \in 1 .. n - at + 1 : tail[i] = argv[at + i - 1]
  <2>. HIDE DEF at
  <2>. QED
    BY <1>1
<1>8. PICK m \in {0, 1} :
        /\ rest \in Seq(Tokens) /\ Len(rest) = n - at + 1 - m
        /\ \A i \in 1 .. n - at + 1 - m : rest[i] = argv[at + i - 1 + m]
        /\ m = 1 => argv[at] = "compose"
  <2>1. CASE argv[at] = "compose"
    <3>1. rest = Tail(tail)
      BY <2>1 DEF Rest
    <3>2. tail # <<>>
      <4>1. Len(tail) # 0
        <5>. HIDE DEF tail, at, n
        <5>. QED
          BY <1>1, <1>7
      <4>. HIDE DEF tail
      <4>. QED
        BY <4>1
    <3>3. /\ Tail(tail) \in Seq(Tokens) /\ Len(Tail(tail)) = Len(tail) - 1
          /\ \A i \in 1 .. Len(tail) - 1 : Tail(tail)[i] = tail[i + 1]
      <4>. HIDE DEF tail
      <4>. QED
        BY <1>7, <3>2
    <3>. HIDE DEF tail, at, n, rest
    <3>4. Len(rest) = n - at + 1 - 1
      BY <1>1, <1>7, <3>1, <3>3
    <3>5. ASSUME NEW i \in 1 .. n - at + 1 - 1 PROVE rest[i] = argv[at + i - 1 + 1]
      <4>1. i \in 1 .. Len(tail) - 1 /\ i + 1 \in 1 .. n - at + 1
        BY <1>1, <1>7
      <4>2. rest[i] = tail[i + 1] /\ tail[i + 1] = argv[at + (i + 1) - 1]
        BY <1>7, <3>1, <3>3, <4>1
      <4>3. at + (i + 1) - 1 = at + i - 1 + 1
        BY <1>1
      <4>. QED
        BY <4>2, <4>3
    <3>. QED
      BY <2>1, <3>1, <3>3, <3>4, <3>5
  <2>2. CASE argv[at] # "compose"
    <3>1. rest = tail
      BY <2>2 DEF Rest
    <3>. HIDE DEF tail, at, n, rest
    <3>2. n - at + 1 - 0 = n - at + 1
      BY <1>1
    <3>3. ASSUME NEW i \in 1 .. n - at + 1 PROVE rest[i] = argv[at + i - 1 + 0]
      BY <1>1, <1>7, <3>1
    <3>. QED
      BY <1>7, <2>2, <3>1, <3>2, <3>3
  <2>. QED
    BY <2>1, <2>2
<1>. HIDE DEF rest, at, n, D, dash
<1>9. ASSUME NEW i \in 1 .. Len(rest), rest[i] \in VakaFlags
      PROVE \E j \in 1 .. i - 1 : rest[j] = "--"
  <2> DEFINE p == at + i - 1 + m
  <2>1. rest[i] = argv[p] /\ p \in at .. n
    BY <1>1, <1>8
  <2>2. p # at
    BY <1>1, <1>6, <1>9, <2>1
  <2>3. D # {} /\ dash < p
    <3>1. p \in at + 1 .. n /\ argv[p] \in VakaFlags
      BY <1>1, <1>9, <2>1, <2>2
    <3>. HIDE DEF p
    <3>. QED
      BY <1>4, <3>1
  <2>4. dash \in at .. n /\ argv[dash] = "--" /\ (m = 1 => dash # at)
    BY <1>1, <1>2, <1>5, <1>8, <2>3
  <2> DEFINE j == dash - at + 1 - m
  <2>5. j \in 1 .. i - 1 /\ at + j - 1 + m = dash /\ j \in 1 .. n - at + 1 - m
    BY <1>1, <1>8, <2>1, <2>3, <2>4
  <2>6. rest[j] = argv[at + j - 1 + m]
    <3>. HIDE DEF j
    <3>. QED
      BY <1>8, <2>5
  <2>. QED
    BY <2>4, <2>5, <2>6
<1>. QED
  BY <1>8, <1>9 DEF Stripped, rest

\* A line without vaka's flags remains one with the override in it, if there are none
\* in what comes before it.
LEMMA StaysStripped ==
  ASSUME NEW args, NEW run, NEW b, NEW m,
         Agree(run, m + 2, args, b, Len(args) - b), m \in Nat,
         DOMAIN args = 1 .. Len(args), DOMAIN run = 1 .. Len(run),
         Len(run) = m + 2 + (Len(args) - b), run[m + 1] = "-f", run[m + 2] = Override,
         Stripped(args), b = 0 \/ (b = m /\ Agree(run, 0, args, 0, m)),
         \A i \in 1 .. m : run[i] \in VakaFlags => b = m
  PROVE Stripped(run)
<1>0. Len(args) \in Nat /\ Len(run) \in Nat /\ b \in Nat /\ Len(args) - b \in Nat
  BY DEF Agree
<1>1. Override \notin VakaFlags /\ "-f" \notin VakaFlags
  BY WordsAssumption DEF VakaFlags, FlagTokens
<1>2. \A i \in 1 .. Len(args) - b : run[(m + 2) + i] = args[b + i]
  BY DEF Agree
<1>3. b # 0 => \A i \in 1 .. m : run[i] = args[i]
  BY <1>0 DEF Agree
<1>4. ASSUME NEW i \in 1 .. Len(run), run[i] \in VakaFlags
      PROVE \E j \in 1 .. i - 1 : run[j] = "--"
  <2>1. CASE i \in 1 .. m
    <3>1. b = m /\ b # 0 /\ args[i] \in VakaFlags /\ i \in 1 .. Len(args)
      BY <1>0, <1>3, <1>4, <2>1
    <3>2. PICK j \in 1 .. i - 1 : args[j] = "--"
      BY <3>1 DEF Stripped
    <3>3. j \in 1 .. m
      BY <2>1
    <3>. QED
      BY <1>3, <3>1, <3>2, <3>3
  <2>2. CASE i > m + 2
    <3> DEFINE k == i - (m + 2)
    <3>1. k \in 1 .. Len(args) - b /\ (m + 2) + k = i /\ b + k \in 1 .. Len(args)
      BY <1>0, <2>2
    <3>2. args[b + k] \in VakaFlags
      <4>. HIDE DEF k
      <4>. QED
        BY <1>2, <1>4, <3>1
    <3>3. PICK j \in 1 .. (b + k) - 1 : args[j] = "--"
      <4>. HIDE DEF k
      <4>. QED
        BY <3>1, <3>2 DEF Stripped
    <3>4. CASE j <= b
      <4>1. b # 0 /\ b = m /\ j \in 1 .. m /\ j \in 1 .. i - 1
        BY <1>0, <2>2, <3>4
      <4>. QED
        BY <1>3, <3>3, <4>1
    <3>5. CASE j > b
      <4> DEFINE l == j - b
      <4>1. l \in 1 .. Len(args) - b /\ b + l = j /\ (m + 2) + l \in 1 .. i - 1
        BY <1>0, <3>1, <3>5
      <4>2. run[(m + 2) + l] = "--"
        <5>. HIDE DEF l, k
        <5>. QED
          BY <1>2, <3>3, <4>1
      <4>. HIDE DEF l
      <4>. QED
        BY <4>1, <4>2
    <3>. QED
      BY <1>0, <3>1, <3>4, <3>5
  <2>3. CASE i = m + 1 \/ i = m + 2
    BY <1>1, <1>4, <2>3
  <2>. QED
    BY <2>1, <2>2, <2>3
<1>. QED
  BY <1>4 DEF Stripped

\* Vaka finds --build if it is among the flags of the verb.
LEMMA BuildsToo ==
  ASSUME NEW V, NEW args \in Seq(V), End(args) # 0, "--build" \in Flags(args)
  PROVE \E i \in End(args) + 1 .. Len(args) :
          args[i] = "--build" /\ \A j \in End(args) + 1 .. i : args[j] # "--"
<1> DEFINE e == End(args)
           D == {i \in e + 1 .. Len(args) : args[i] = "--"}
           dash == Least(D)
<1>2. e \in 1 .. Len(args) /\ Len(args) \in Nat /\ e \in Nat
  BY EndHas
<1>3. PICK i \in e + 1 .. IF dash = 0 THEN Len(args) ELSE dash - 1 : args[i] = "--build"
  BY DEF Flags
<1>4. D \in SUBSET Nat
  BY <1>2
<1>5. CASE D = {}
  <2>1. dash = 0
    BY <1>5 DEF Least
  <2>2. \A j \in e + 1 .. i : args[j] # "--"
    <3>1. i \in e + 1 .. Len(args)
      BY <1>3, <2>1
    <3>2. \A j \in e + 1 .. i : j \in e + 1 .. Len(args)
      BY <1>2, <3>1
    <3>. QED
      BY <1>5, <3>2
  <2>3. i \in e + 1 .. Len(args)
    BY <1>3, <2>1
  <2>. QED
    BY <1>3, <2>2, <2>3
<1>6. CASE D # {}
  <2>1. dash \in D /\ \A j \in D : dash <= j
    <3>. HIDE DEF D
    <3>. QED
      BY <1>4, <1>6, LeastIs
  <2>2. dash \in e + 1 .. Len(args) /\ dash # 0
    BY <1>2, <2>1
  <2>. HIDE DEF dash
  <2>3. i \in e + 1 .. Len(args) /\ i < dash
    <3>. HIDE DEF e
    <3>. QED
      BY <1>2, <1>3, <2>2
  <2>4. ASSUME NEW j \in e + 1 .. i PROVE args[j] # "--"
    <3>1. j \in e + 1 .. Len(args) /\ j < dash
      <4>. HIDE DEF e
      <4>. QED
        BY <1>2, <2>2, <2>3
    <3>2. j \in D => dash <= j
      BY <2>1
    <3>3. j \notin D
      <4>. HIDE DEF D, e
      <4>. QED
        BY <1>2, <2>2, <3>1, <3>2
    <3>. QED
      BY <3>1, <3>3
  <2>. QED
    BY <1>3, <2>3, <2>4
<1>. QED
  BY <1>5, <1>6

\* u is s and then t.
IsJoin(u, s, t) ==
  /\ Len(u) = Len(s) + Len(t)
  /\ \A i \in 1 .. Len(s) : u[i] = s[i]
  /\ \A i \in 1 .. Len(t) : u[Len(s) + i] = t[i]

LEMMA Joined ==
  ASSUME NEW V, NEW s \in Seq(V), NEW t \in Seq(V), NEW u, u = s \o t
  PROVE u \in Seq(V) /\ IsJoin(u, s, t)
<1>1. Len(s) \in Nat /\ Len(t) \in Nat
  OBVIOUS
<1>2. u \in Seq(V) /\ Len(u) = Len(s) + Len(t)
  OBVIOUS
<1>3. ASSUME NEW i \in 1 .. Len(s) PROVE u[i] = s[i]
  BY <1>1
<1>4. ASSUME NEW i \in 1 .. Len(t) PROVE u[Len(s) + i] = t[i]
  <2> DEFINE k == Len(s) + i
  <2>1. k \in 1 .. Len(s) + Len(t) /\ k > Len(s) /\ k - Len(s) = i
    BY <1>1
  <2>2. u[k] = t[k - Len(s)]
    <3>. HIDE DEF k
    <3>. QED
      BY <1>1, <2>1
  <2>. QED
    BY <2>1, <2>2
<1>. QED
  BY <1>2, <1>3, <1>4 DEF IsJoin

\* u is s, then x and y, and then t.
IsJoinWith(u, s, x, y, t) ==
  /\ Len(u) = Len(s) + 2 + Len(t)
  /\ \A i \in 1 .. Len(s) : u[i] = s[i]
  /\ u[Len(s) + 1] = x /\ u[Len(s) + 2] = y
  /\ \A i \in 1 .. Len(t) : u[(Len(s) + 2) + i] = t[i]

LEMMA JoinedWith ==
  ASSUME NEW V, NEW s \in Seq(V), NEW t \in Seq(V), NEW x \in V, NEW y \in V,
         NEW u, u = s \o <<x, y>> \o t
  PROVE u \in Seq(V) /\ IsJoinWith(u, s, x, y, t)
<1> DEFINE own == <<x, y>>
           first == s \o own
<1>0. Len(s) \in Nat /\ Len(t) \in Nat
  OBVIOUS
<1>1. own \in Seq(V) /\ Len(own) = 2 /\ own[1] = x /\ own[2] = y
  OBVIOUS
<1>2. first \in Seq(V) /\ IsJoin(first, s, own)
  <2>1. first = s \o own
    OBVIOUS
  <2>. HIDE DEF own, first
  <2>. QED
    BY <1>1, <2>1, Joined
<1>3. u \in Seq(V) /\ IsJoin(u, first, t)
  <2>1. u = first \o t
    OBVIOUS
  <2>. HIDE DEF first
  <2>. QED
    BY <1>2, <2>1, Joined
<1>. HIDE DEF own, first
<1>4. Len(first) = Len(s) + 2
  BY <1>1, <1>2 DEF IsJoin
<1>5. Len(u) = Len(s) + 2 + Len(t)
  BY <1>3, <1>4 DEF IsJoin
<1>6. ASSUME NEW i \in 1 .. Len(s) PROVE u[i] = s[i]
  <2>1. i \in 1 .. Len(first)
    BY <1>0, <1>4
  <2>. QED
    BY <1>2, <1>3, <2>1 DEF IsJoin
<1>7. u[Len(s) + 1] = x /\ u[Len(s) + 2] = y
  <2>1. Len(s) + 1 \in 1 .. Len(first) /\ Len(s) + 2 \in 1 .. Len(first)
    BY <1>0, <1>4
  <2>2. first[Len(s) + 1] = own[1] /\ first[Len(s) + 2] = own[2]
    BY <1>1, <1>2 DEF IsJoin
  <2>. QED
    BY <1>1, <1>3, <2>1, <2>2 DEF IsJoin
<1>8. \A i \in 1 .. Len(t) : u[(Len(s) + 2) + i] = t[i]
  BY <1>3, <1>4 DEF IsJoin
<1>. QED
  BY <1>3, <1>5, <1>6, <1>7, <1>8 DEF IsJoinWith

LEMMA GivenIs ==
  /\ Override \in RunTokens /\ "-f" \in RunTokens /\ Tokens \subseteq RunTokens
  /\ Defaults \in Seq(RunTokens) /\ Len(Defaults) \in Nat
  /\ \A k \in 1 .. Len(Defaults) : Defaults[k] \in Words /\ Defaults[k] \notin FlagTokens
<1>1. "-f" \in Tokens /\ Words \subseteq Tokens
  BY DEF Tokens, FlagTokens, ComposeFlags, TakesNext
<1>2. Defaults \in Seq(Words) /\ Words \intersect FlagTokens = {}
  BY WordsAssumption
<1>3. Words \subseteq RunTokens /\ Tokens \subseteq RunTokens /\ Override \in RunTokens
  BY <1>1 DEF RunTokens
<1>4. Defaults \in Seq(RunTokens)
  BY <1>2, <1>3
<1>. QED
  BY <1>1, <1>2, <1>3, <1>4

\* What the files that are found become.
FoundFiles == [k \in 1 .. 2 * Len(Defaults) |-> IF k % 2 = 1 THEN "-f" ELSE Defaults[k \div 2]]

LEMMA FoundIs ==
  /\ FoundFiles \in Seq(RunTokens) /\ Len(FoundFiles) = 2 * Len(Defaults)
  /\ \A k \in 0 .. Len(Defaults) - 1 :
       FoundFiles[2 * k + 1] = "-f" /\ FoundFiles[2 * k + 2] = Defaults[k + 1]
<1> DEFINE d == Len(Defaults)
<1>1. d \in Nat
  BY GivenIs
<1>2. ASSUME NEW k \in 1 .. 2 * d PROVE FoundFiles[k] \in RunTokens
  <2>1. CASE k % 2 = 1
    BY <2>1, GivenIs DEF FoundFiles
  <2>2. CASE k % 2 # 1
    <3>1. k \div 2 \in 1 .. d
      BY <1>1, <2>2
    <3>2. Defaults[k \div 2] \in RunTokens
      <4>1. Defaults \in Seq(RunTokens) /\ k \div 2 \in 1 .. Len(Defaults)
        BY <3>1, GivenIs
      <4> DEFINE h == k \div 2
      <4>. HIDE DEF h
      <4>. QED
        BY <4>1 DEF h
    <3>. QED
      BY <2>2, <3>2 DEF FoundFiles
  <2>. QED
    BY <2>1, <2>2
<1>3. FoundFiles \in Seq(RunTokens) /\ Len(FoundFiles) = 2 * d
  <2>1. 2 * d \in Nat /\ FoundFiles \in [1 .. 2 * d -> RunTokens]
    BY <1>1, <1>2 DEF FoundFiles
  <2>. HIDE DEF d
  <2>. QED
    BY <2>1
<1>4. ASSUME NEW k \in 0 .. d - 1
      PROVE FoundFiles[2 * k + 1] = "-f" /\ FoundFiles[2 * k + 2] = Defaults[k + 1]
  <2>1. /\ 2 * k + 1 \in 1 .. 2 * d /\ (2 * k + 1) % 2 = 1
        /\ 2 * k + 2 \in 1 .. 2 * d /\ (2 * k + 2) % 2 # 1 /\ (2 * k + 2) \div 2 = k + 1
    BY <1>1
  <2>. QED
    BY <2>1 DEF FoundFiles
<1>. QED
  BY <1>3, <1>4

\* A line that begins with the files that are found: they are read in their order, and
\* a flag comes after them.
LEMMA FoundRead ==
  ASSUME NEW run \in Seq(RunTokens), 2 * Len(Defaults) <= Len(run),
         \A i \in 1 .. 2 * Len(Defaults) : run[i] = FoundFiles[i]
  PROVE /\ Takes(run)[2 * Len(Defaults)] = 0
        /\ FilesRead(run)[2 * Len(Defaults)] = Defaults
        /\ \A i \in 1 .. 2 * Len(Defaults) : ~ ScanEnds(run, i)
<1> DEFINE d == Len(Defaults)
           Good(k) == /\ Takes(run)[2 * k] = 0
                      /\ FilesRead(run)[2 * k] = SubSeq(Defaults, 1, k)
                      /\ \A i \in 1 .. 2 * k : ~ ScanEnds(run, i)
           S == {k \in Nat : k <= d => Good(k)}
<1>1. d \in Nat /\ Len(run) \in Nat /\ Defaults \in Seq(RunTokens)
  BY GivenIs
<1>2. 0 \in S
  <2>1. Takes(run)[0] = 0 /\ FilesRead(run)[0] = <<>>
    BY TakesIs, ReadIs
  <2>2. SubSeq(Defaults, 1, 0) = <<>>
    BY <1>1
  <2>3. 2 * 0 = 0 /\ 1 .. 0 = {}
    OBVIOUS
  <2>4. Good(0)
    BY <2>1, <2>2, <2>3
  <2>. QED
    BY <2>4
<1>3. ASSUME NEW k \in S PROVE k + 1 \in S
  <2>0. SUFFICES ASSUME k + 1 <= d PROVE Good(k + 1)
    OBVIOUS
  <2> DEFINE i == 2 * k + 1
             j == 2 * k + 2
  <2>1. k \in Nat /\ k \in 0 .. d - 1 /\ Good(k)
    BY <1>1, <2>0
  <2>2. /\ i \in 1 .. Len(run) /\ i - 1 = 2 * k /\ i \in 1 .. 2 * d
        /\ j \in 1 .. Len(run) /\ j - 1 = i /\ j \in 1 .. 2 * d /\ j > 1 /\ j = 2 * (k + 1)
    <3>. HIDE DEF d
    <3>1. 2 * d <= Len(run)
      BY DEF d
    <3>. QED
      BY <1>1, <2>1, <3>1
  <2>3. run[i] = "-f" /\ run[j] = Defaults[k + 1]
    <3>1. FoundFiles[i] = "-f" /\ FoundFiles[j] = Defaults[k + 1]
      BY <2>1, FoundIs
    <3>. QED
      BY <2>2, <3>1
  <2>. HIDE DEF i, j
  <2>4. Takes(run)[i] = 1
    <3>1. Takes(run)[i] = IF Takes(run)[i - 1] = 0 /\ run[i] \in TakesNext THEN 1 ELSE 0
      BY <1>1, <2>2, TakesIs
    <3>. QED
      BY <2>1, <2>2, <2>3, <3>1 DEF TakesNext
  <2>5. Takes(run)[j] = 0
    <3>1. Takes(run)[j] = IF Takes(run)[j - 1] = 0 /\ run[j] \in TakesNext THEN 1 ELSE 0
      BY <1>1, <2>2, TakesIs
    <3>. QED
      BY <2>2, <2>4, <3>1
  <2>6. Starts(run, i) /\ ~ Starts(run, j)
    BY <2>1, <2>2, <2>4 DEF Starts
  <2>7. ~ IsFile(run, i) /\ IsFile(run, j)
    BY <2>2, <2>3, <2>6 DEF IsFile
  <2>8. ~ ScanEnds(run, i) /\ ~ ScanEnds(run, j)
    BY <2>3, <2>6 DEF ScanEnds, IsFlag, FlagTokens, ComposeFlags, TakesNext, DockerFlags
  <2>9. FilesRead(run)[j] = Append(SubSeq(Defaults, 1, k), Defaults[k + 1])
    <3>1. FilesRead(run)[i] = IF IsFile(run, i) THEN Append(FilesRead(run)[i - 1], run[i])
                              ELSE FilesRead(run)[i - 1]
      BY <2>2, ReadIs
    <3>2. FilesRead(run)[j] = IF IsFile(run, j) THEN Append(FilesRead(run)[j - 1], run[j])
                              ELSE FilesRead(run)[j - 1]
      BY <2>2, ReadIs
    <3>. QED
      BY <2>1, <2>2, <2>3, <2>7, <3>1, <3>2
  <2>10. Append(SubSeq(Defaults, 1, k), Defaults[k + 1]) = SubSeq(Defaults, 1, k + 1)
    <3>1. k + 1 <= Len(Defaults)
      BY <2>1
    <3>. QED
      BY <1>1, <2>1, <3>1, PartLonger
  <2>11. \A l \in 1 .. 2 * (k + 1) : l \in 1 .. 2 * k \/ l = i \/ l = j
    BY <2>1 DEF i, j
  <2>. QED
    BY <2>1, <2>2, <2>5, <2>8, <2>9, <2>10, <2>11
<1>4. S = Nat
  <2>. HIDE DEF S
  <2>1. S \in SUBSET Nat
    BY DEF S
  <2>. QED
    BY <1>2, <1>3, <2>1, Induction
<1>5. d \in S
  <2>. HIDE DEF S
  <2>. QED
    BY <1>1, <1>4
<1>6. SubSeq(Defaults, 1, d) = Defaults
  BY <1>1
<1>. QED
  BY <1>1, <1>5, <1>6

\* Neither is a flag read for another, nor a file left out or put after the override, where
\* no file was named.
LEMMA AlikeWithout ==
  ASSUME NEW args \in Seq(Tokens), End(args) # 0, Stripped(args), LastFile(args) = 0
  PROVE /\ Files(args) = <<>>
        /\ Files(Inject(args)) = Defaults \o <<Override>>
        /\ SubSeq(Inject(args), End(Inject(args)), Len(Inject(args))) =
             SubSeq(args, End(args), Len(args))
        /\ Stripped(Inject(args))
<1> DEFINE own == <<"-f", Override>>
           run == FoundFiles \o own \o args
           m == 2 * Len(Defaults)
<1>1. Inject(args) = run
  BY DEF Inject, FoundFiles
<1>2. args \in Seq(RunTokens) /\ own \in Seq(RunTokens) /\ Len(args) \in Nat /\ m \in Nat
  BY GivenIs
<1>3. FoundFiles \in Seq(RunTokens) /\ Len(FoundFiles) = m
  BY FoundIs
<1>4. /\ run \in Seq(RunTokens) /\ Len(run) = m + 2 + Len(args)
      /\ \A i \in 1 .. m : run[i] = FoundFiles[i]
      /\ run[m + 1] = "-f" /\ run[m + 2] = Override
      /\ \A i \in 1 .. Len(args) : run[(m + 2) + i] = args[i]
  <2>1. run = FoundFiles \o <<"-f", Override>> \o args
    OBVIOUS
  <2>. HIDE DEF run, m
  <2>2. run \in Seq(RunTokens) /\ IsJoinWith(run, FoundFiles, "-f", Override, args)
    BY <1>2, <1>3, <2>1, GivenIs, JoinedWith
  <2>. QED
    BY <1>3, <2>2 DEF IsJoinWith
<1>. HIDE DEF run, own
<1>5. /\ Takes(run)[m] = 0 /\ FilesRead(run)[m] = Defaults
      /\ \A i \in 1 .. m : ~ ScanEnds(run, i)
  <2>1. m <= Len(run)
    <3>. HIDE DEF m
    <3>. QED
      BY <1>2, <1>4
  <2>. QED
    BY <1>4, <2>1, FoundRead
<1>6. Takes(args)[0] = 0 /\ FilesRead(args)[0] = <<>>
  BY <1>2, TakesIs, ReadIs
<1>7. /\ End(args) \in 1 .. Len(args) /\ 0 < End(args)
      /\ \A i \in 0 + 1 .. End(args) - 1 : ~ IsFile(args, i)
  <2>1. End(args) \in 1 .. Len(args)
    BY EndHas
  <2>2. \A i \in LastFile(args) + 1 .. End(args) - 1 : ~ IsFile(args, i)
    BY LastFileIs
  <2>. QED
    BY <1>2, <2>1, <2>2
<1>. HIDE DEF m
<1>8. Len(args) - 0 = Len(args) /\ Agree(run, m + 2, args, 0, Len(args) - 0)
  BY <1>2, <1>4 DEF Agree
<1>9. /\ Files(run) = Append(FilesRead(run)[m], run[m + 2])
      /\ SubSeq(run, End(run), Len(run)) = SubSeq(args, End(args), Len(args))
  <2> DEFINE b == 0
  <2>1. /\ b \in Nat /\ b < End(args) /\ Takes(args)[b] = 0
        /\ \A i \in b + 1 .. End(args) - 1 : ~ IsFile(args, i)
        /\ Agree(run, m + 2, args, b, Len(args) - b)
        /\ Len(run) = m + 2 + (Len(args) - b)
    BY <1>2, <1>4, <1>6, <1>7, <1>8
  <2>. HIDE DEF b
  <2>. QED
    BY <1>2, <1>4, <1>5, <2>1, Inserted
<1>10. Files(args) = <<>>
  <2>1. FilesRead(args)[End(args) - 1] = FilesRead(args)[0]
    <3>1. 0 \in Nat /\ End(args) - 1 \in Nat /\ 0 <= End(args) - 1 /\ End(args) - 1 <= Len(args)
      BY <1>2, <1>7
    <3>. QED
      BY <1>2, <1>7, <3>1, NoneRead
  <2>. QED
    BY <1>6, <2>1 DEF Files
<1>11. Append(Defaults, Override) = Defaults \o <<Override>>
  BY GivenIs
<1>12. Stripped(run)
  <2>1. \A i \in 1 .. m : run[i] \notin VakaFlags
    <3>1. ASSUME NEW i \in 1 .. m PROVE FoundFiles[i] \notin VakaFlags
      <4>1. CASE i % 2 = 1
        BY <4>1 DEF FoundFiles, m, VakaFlags
      <4>2. CASE i % 2 # 1
        <5>1. i \div 2 \in 1 .. Len(Defaults)
          BY <4>2, GivenIs DEF m
        <5>2. Defaults[i \div 2] \notin VakaFlags
          BY <5>1, GivenIs DEF FlagTokens
        <5>. QED
          BY <4>2, <5>2 DEF FoundFiles, m
      <4>. QED
        BY <4>1, <4>2
    <3>. QED
      BY <1>4, <3>1
  <2> DEFINE b == 0
  <2>2. /\ Agree(run, m + 2, args, b, Len(args) - b) /\ b = 0
        /\ Len(run) = m + 2 + (Len(args) - b)
    BY <1>2, <1>4, <1>8
  <2>3. DOMAIN args = 1 .. Len(args) /\ DOMAIN run = 1 .. Len(run)
    BY <1>2, <1>4
  <2>. HIDE DEF b
  <2>. QED
    BY <1>2, <1>4, <2>1, <2>2, <2>3, StaysStripped
<1>. QED
  BY <1>1, <1>4, <1>5, <1>9, <1>10, <1>11, <1>12

\* Nor where one was.
LEMMA AlikeWith ==
  ASSUME NEW args \in Seq(Tokens), End(args) # 0, Stripped(args), LastFile(args) # 0
  PROVE /\ Files(args) # <<>>
        /\ Files(Inject(args)) = Files(args) \o <<Override>>
        /\ SubSeq(Inject(args), End(Inject(args)), Len(Inject(args))) =
             SubSeq(args, End(args), Len(args))
        /\ Stripped(Inject(args))
<1> DEFINE own == <<"-f", Override>>
           m == LastFile(args)
           pre == SubSeq(args, 1, m)
           post == SubSeq(args, m + 1, Len(args))
           run == pre \o own \o post
<1>1. Inject(args) = run
  BY DEF Inject
<1>2. args \in Seq(RunTokens) /\ own \in Seq(RunTokens) /\ Len(args) \in Nat
  BY GivenIs
<1>3. End(args) \in 1 .. Len(args) /\ \A i \in 1 .. End(args) - 1 : ~ ScanEnds(args, i)
  BY EndHas
<1>4. /\ m \in 1 .. End(args) - 1 /\ m \in Nat /\ m \in 1 .. Len(args) /\ IsFile(args, m)
      /\ \A i \in m + 1 .. End(args) - 1 : ~ IsFile(args, i)
      /\ Len(args) - m \in Nat
  <2>1. /\ m \in 0 .. End(args) - 1 /\ IsFile(args, m)
        /\ \A i \in m + 1 .. End(args) - 1 : ~ IsFile(args, i)
    BY LastFileIs
  <2>2. m # 0
    OBVIOUS
  <2>. HIDE DEF m
  <2>. QED
    BY <1>2, <1>3, <2>1, <2>2
<1>. HIDE DEF m
<1>5. /\ pre \in Seq(RunTokens) /\ Len(pre) = m /\ \A i \in 1 .. m : pre[i] = args[i]
  BY <1>2, <1>4
<1>6. /\ post \in Seq(RunTokens) /\ Len(post) = Len(args) - m
      /\ \A i \in 1 .. Len(args) - m : post[i] = args[m + i]
  BY <1>2, <1>4
<1>7. /\ run \in Seq(RunTokens) /\ Len(run) = m + 2 + (Len(args) - m)
      /\ \A i \in 1 .. m : run[i] = args[i]
      /\ run[m + 1] = "-f" /\ run[m + 2] = Override
      /\ \A i \in 1 .. Len(args) - m : run[(m + 2) + i] = args[m + i]
  <2>. HIDE DEF pre, post
  <2>1. run = pre \o <<"-f", Override>> \o post
    OBVIOUS
  <2>. HIDE DEF run
  <2>2. run \in Seq(RunTokens) /\ IsJoinWith(run, pre, "-f", Override, post)
    BY <1>5, <1>6, <2>1, GivenIs, JoinedWith
  <2>. QED
    BY <1>4, <1>5, <1>6, <2>2 DEF IsJoinWith
<1>. HIDE DEF run, own, pre, post
<1>8. Agree(run, 0, args, 0, m) /\ Agree(run, m + 2, args, m, Len(args) - m)
  BY <1>2, <1>4, <1>7 DEF Agree
<1>9. Takes(args)[m] = 0
  BY <1>2, <1>4, FileEnds
<1>10. \A i \in 0 .. m : Takes(run)[i] = Takes(args)[i]
  <2>1. Takes(run)[0] = Takes(args)[0]
    BY <1>2, <1>7, TakesIs
  <2>2. \A i \in 0 .. m : Takes(run)[0 + i] = Takes(args)[0 + i]
    BY <1>8, <2>1, TakesAlike
  <2>. QED
    BY <1>4, <2>2
<1>11. ASSUME NEW i \in 1 .. m PROVE ~ ScanEnds(run, i)
  <2>1. i - 1 \in 0 .. m /\ i \in 1 .. End(args) - 1
    BY <1>3, <1>4
  <2>2. Takes(run)[i - 1] = Takes(args)[i - 1] /\ run[i] = args[i]
    BY <1>7, <1>10, <2>1
  <2>3. ~ ScanEnds(args, i)
    BY <1>3, <2>1
  <2>. QED
    BY <2>2, <2>3 DEF ScanEnds, Starts
<1>12. m < End(args) /\ Takes(run)[m] = 0
  BY <1>3, <1>4, <1>9, <1>10
<1>13. \A i \in 1 .. m : ~ ScanEnds(run, i)
  BY <1>11
<1>14. /\ Files(run) = Append(FilesRead(run)[m], run[m + 2])
       /\ SubSeq(run, End(run), Len(run)) = SubSeq(args, End(args), Len(args))
  <2> DEFINE b == m
  <2>1. /\ b \in Nat /\ b < End(args) /\ Takes(args)[b] = 0
        /\ \A i \in b + 1 .. End(args) - 1 : ~ IsFile(args, i)
        /\ Agree(run, m + 2, args, b, Len(args) - b)
        /\ Len(run) = m + 2 + (Len(args) - b)
    BY <1>4, <1>7, <1>8, <1>9, <1>12
  <2>2. /\ args \in Seq(RunTokens) /\ run \in Seq(RunTokens) /\ m \in Nat
        /\ Takes(run)[m] = 0 /\ run[m + 1] = "-f"
    BY <1>2, <1>4, <1>7, <1>12
  <2>. HIDE DEF b
  <2>. QED
    BY <1>13, <2>1, <2>2, Inserted
<1>15. FilesRead(run)[m] = FilesRead(args)[m]
  <2>1. \A i \in 0 .. m : FilesRead(run)[i] = FilesRead(args)[i]
    BY <1>2, <1>4, <1>7, <1>8, ReadAlike
  <2>. QED
    BY <1>4, <2>1
<1>16. Files(args) = FilesRead(args)[m]
  <2>1. m <= End(args) - 1 /\ End(args) - 1 <= Len(args) /\ End(args) - 1 \in Nat
    BY <1>2, <1>3, <1>4
  <2>. QED
    BY <1>2, <1>4, <2>1, NoneRead DEF Files
<1>17. FilesRead(args)[m] # <<>> /\ FilesRead(args)[m] \in Seq(RunTokens)
  <2>1. /\ FilesRead(args) \in [0 .. Len(args) -> Seq(RunTokens)]
        /\ FilesRead(args)[m] = IF IsFile(args, m)
             THEN Append(FilesRead(args)[m - 1], args[m]) ELSE FilesRead(args)[m - 1]
    BY <1>2, <1>4, ReadIs
  <2>2. FilesRead(args)[m - 1] \in Seq(RunTokens) /\ FilesRead(args)[m] \in Seq(RunTokens)
    BY <1>4, <2>1
  <2>3. FilesRead(args)[m] = Append(FilesRead(args)[m - 1], args[m])
    BY <1>4, <2>1
  <2> DEFINE q == FilesRead(args)[m - 1]
             r == FilesRead(args)[m]
  <2>4. q \in Seq(RunTokens) /\ r = Append(q, args[m])
    BY <2>2, <2>3
  <2>5. r # <<>>
    <3>. HIDE DEF q, r
    <3>. QED
      BY <2>4
  <2>. QED
    BY <2>2, <2>5
<1>18. Append(FilesRead(args)[m], Override) = FilesRead(args)[m] \o <<Override>>
  BY <1>17
<1>19. Stripped(run)
  <2>1. DOMAIN args = 1 .. Len(args) /\ DOMAIN run = 1 .. Len(run)
    BY <1>2, <1>7
  <2>. QED
    BY <1>4, <1>7, <1>8, <2>1, StaysStripped
<1>. QED
  BY <1>1, <1>7, <1>14, <1>15, <1>16, <1>17, <1>18, <1>19

\* Whatever command line of any length vaka takes and runs a verb for, it makes of it what
\* docker compose makes of it (extractVakaFlags, scanComposeArgs, detectBuildRequested,
\* injectFDOverride).
THEOREM LinesReadAlike ==
  ASSUME NEW argv \in Seq(Tokens), CommandAt(argv) # 0, ~ Misplaced(argv),
         Verb(Rest(argv)) # ""
  PROVE Alike(Rest(argv))
<1> DEFINE args == Rest(argv)
           run == Inject(args)
<1>1. args \in Seq(Tokens) /\ Stripped(args)
  BY RestIs
<1>2. End(args) # 0
  BY Zenon DEF Verb
<1>. HIDE DEF args
<1>3. Files(run) = (IF Files(args) = <<>> THEN Defaults ELSE Files(args)) \o <<Override>>
  BY <1>1, <1>2, AlikeWith, AlikeWithout
<1>4. SubSeq(run, End(run), Len(run)) = SubSeq(args, End(args), Len(args))
  BY <1>1, <1>2, AlikeWith, AlikeWithout
<1>5. \A i \in DOMAIN run : run[i] \in VakaFlags => \E j \in 1 .. i - 1 : run[j] = "--"
  <2>1. Stripped(run)
    BY <1>1, <1>2, AlikeWith, AlikeWithout
  <2>. QED
    BY <2>1 DEF Stripped
<1>6. "--build" \in Flags(args) => BuildRequested(args)
  <2>1. Verb(args) # ""
    BY Zenon DEF args
  <2>2. ASSUME "--build" \in Flags(args)
        PROVE \E i \in End(args) + 1 .. Len(args) :
                args[i] = "--build" /\ \A j \in End(args) + 1 .. i : args[j] # "--"
    BY <1>1, <1>2, <2>2, BuildsToo
  <2>. QED
    BY <2>1, <2>2, Zenon DEF BuildRequested
<1>. QED
  BY <1>3, <1>4, <1>5, <1>6, Zenon DEF Alike, args

\* None of the lines that ReadsAlike is about is read in two ways.
THEOREM NoneMisread == Misread = {}
<1> SUFFICES ASSUME NEW args \in Run PROVE Alike(args)
  BY DEF Misread
<1>1. args \in Lines /\ Verb(args) # ""
  BY Zenon DEF Run
<1>2. PICK argv \in UNION {[1 .. n -> Tokens] : n \in 1 .. MaxTokens} :
        args = Rest(argv) /\ CommandAt(argv) # 0 /\ ~ Misplaced(argv)
  BY <1>1, Zenon DEF Lines
<1>3. argv \in Seq(Tokens)
  BY WordsAssumption
<1>. QED
  BY <1>1, <1>2, <1>3, LinesReadAlike, Zenon
\* Whenever docker compose is started, vaka and docker compose read the command line
\* alike, wherever files, verb and flags are in it, however many tokens it has
\* (extractVakaFlags, scanComposeArgs, detectBuildRequested, injectFDOverride).
THEOREM AlwaysReadsAlike == Spec => []ReadsAlike
<1>1. ReadsAlike
  BY NoneMisread DEF ReadsAlike
<1>. QED
  BY <1>1, PTL

=============================================================================
