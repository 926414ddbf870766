----------------------------- MODULE ComposeRun -----------------------------
(***************************************************************************)
(* The commands that run docker compose (cmd/vaka/compose_cmd.go,          *)
(* intercept.go, images.go, legacy_migration.go), and vaka doctor          *)
(* (doctor.go), on a Docker host that others change meanwhile: they move   *)
(* tags, remove images, change what a build gives, start and remove        *)
(* containers and recreate volumes.  A step is one call to Docker.         *)
(***************************************************************************)
EXTENDS DockerTarget, ComposeArgs

CONSTANTS
  Commands,     \* vaka processes
  Beginnings,   \* hosts to begin with, and how each command may be called there
  Upstream,     \* the images the registry may serve under a tag
  Outputs,      \* the images that a build of a service may give
  FirstTags,    \* the image of each tag to begin with
  FirstOutputs, \* and what a build of each service gives
  Helpers,      \* containers of the historical service __vaka-init
  OldImage,     \* those of them that run an image of vaka-init
  Others,       \* containers that are not of the project
  Volumes,      \* volumes that may be mounted at /opt/vaka
  HexNamed,     \* those with the name of an anonymous volume
  Failures      \* a subset of {"error", "kill"}

Containers == Services \union Helpers \union Others

\* Services stand for the tags of their images.
Tags == Services \union {"runtime"}

\* A digest is one image's, whoever gives it.
ASSUME HostAssumption ==
  /\ "runtime" \notin Services
  /\ Upstream \in [Tags -> SUBSET Images] /\ Outputs \in [Services -> SUBSET Images]
  /\ FirstTags \in [Tags -> Images \union {None}]
  /\ FirstOutputs \in [Services -> Images]
  /\ \A s \in Services : FirstOutputs[s] \in Outputs[s]
  /\ \A s \in Services : Declared[s].pinned =>
       /\ \E i \in Images : Upstream[s] = {i}
       /\ FirstTags[s] \in Upstream[s] \union {None}
       /\ Declared[s].build => Outputs[s] \subseteq Upstream[s]

ASSUME LegacyAssumption ==
  /\ IsFiniteSet(Services) /\ IsFiniteSet(Helpers) /\ IsFiniteSet(Volumes)
  /\ OldImage \subseteq Helpers /\ HexNamed \subseteq Volumes
  /\ None \notin Volumes
  /\ Services \intersect Helpers = {} /\ Others \intersect (Services \union Helpers) = {}

\* An image's vaka-init, a service's own; an entrypoint of an image, of the compose file.
ASSUME MarksAssumption ==
  "own" \notin Images \union {None} /\ "compose" \notin Images \union {None}

\* The verbs of composeCommandSpecs; any other is a render verb too.
MetadataVerbs == {"help", "ls", "version"}

ReferenceVerbs ==
  {"attach", "build", "commit", "config", "cp", "down", "events", "exec", "export",
   "images", "kill", "logs", "pause", "port", "ps", "publish", "pull", "push",
   "restart", "rm", "start", "stats", "stop", "top", "unpause", "volumes", "wait"}

RenderVerbs == {"create", "run", "scale", "up", "watch"}

\* Bug: an unknown verb is taken to create no container.
Class_Unknown(verb) ==
  IF verb \in MetadataVerbs THEN "metadata"
  ELSE IF verb \in RenderVerbs THEN "render" ELSE "reference"

\* composeCommandSpecFor.
Class(verb) ==
  IF verb \in MetadataVerbs THEN "metadata"
  ELSE IF verb \in ReferenceVerbs THEN "reference" ELSE "render"

\* What docker compose creates containers for, a verb of a later release with it.
Creating == RenderVerbs \union {"later"}

\* A verb, or "doctor", and "help" for a line without a verb and for any verb with
\* --help behind it, which docker compose is started with alike; --build;
\* --remove-orphans; --pull=always; --vaka-pull; --vaka-init-present; doctor's --fix.
CallFields == {"verb", "build", "orphans", "refresh", "policy", "present", "fix"}

\* mounted: the volume that each container has at /opt/vaka, or None; changes: bound,
\* how often others change the host.  Docker compose has no --remove-orphans for
\* other verbs.
ASSUME BeginningsAssumption ==
  \A b \in Beginnings :
    /\ DOMAIN b = {"platform", "calls", "mounted", "volumes", "changes"}
    /\ b.platform \in Platforms /\ b.changes \in Nat
    /\ DOMAIN b.calls = Commands
    /\ \A c \in Commands : \A k \in b.calls[c] :
         DOMAIN k = CallFields /\ (k.orphans => k.verb \in Creating \union {"down"})
    /\ b.mounted \in [Containers -> Volumes \union {None}]
    /\ b.volumes \in [Volumes -> {"anonymous", "named", "gone"}]

VARIABLES
  begun,       \* what it began with
  tags, store, \* the image of each tag, or None; the images that are there
  output,      \* what a build of each service gives now
  containers, volumes,
  pc, call,    \* where each command is, and how it was called
  todo,        \* the services it has to build, then those it has to inspect
  pulled,      \* the services it pulled an image for
  entry,       \* whose entrypoint and user it injects: an image's or the compose file's
  attempt,     \* what it did to have the runtime image
  image,       \* the runtime image it found
  found,       \* helpers with their volumes, to be inspected
  legacy,      \* those that it captured
  left,        \* the volumes it has to clean up
  volume,      \* the one it is at, its helpers to be removed, and whether one was kept
  results,     \* of the checks of doctor
  changed,     \* ghost: the tags and images that others changed since it started
  stray,       \* ghost: volumes whose clean-up failed or was interfered with
  changes      \* how often others changed the host

images == <<tags, store, output>>
host == <<begun, images, containers, volumes>>
prepared == <<todo, pulled, entry, attempt, image>>
migration == <<found, legacy, left, volume>>
vars == <<host, pc, call, prepared, migration, results, changed, stray, changes>>

-----------------------------------------------------------------------------
\* The versions of the Docker target and of the compose plugin.
platform == begun.platform

\* A container's image, the vaka-init it has, whose entrypoint it was given, the
\* volume at /opt/vaka, and whether nothing of its image changed meanwhile.
Container(i, init, e, v, settled) ==
  [image |-> i, init |-> init, entry |-> e, volume |-> v, settled |-> settled,
   running |-> FALSE]

Users(v) == {x \in Containers : containers[x] # None /\ containers[x].volume = v}

\* The checks of doctor, in their order.
Checks == <<"cli", "engine", "compose", "linux", "mode", "mounts", "image", "context">>

CheckNames == {Checks[k] : k \in DOMAIN Checks}

Advisory == {"mode", "context"}

\* Bug: the image is looked for only if the operating mode is known.
DependsOn_Advisory(check) ==
  CASE check = "mode" -> {"engine"}
    [] check = "mounts" -> {"engine", "compose", "linux"}
    [] check = "image" -> {"engine", "compose", "mode"}
    [] OTHER -> {}

\* The checks that one depends on.
DependsOn(check) ==
  CASE check = "mode" -> {"engine"}
    [] check = "mounts" -> {"engine", "compose", "linux"}
    [] check = "image" -> {"engine", "compose"}
    [] OTHER -> {}

\* What the probe of a check finds.
Holds(check) ==
  CASE check = "engine" -> EngineCompatible(platform)
    [] check = "compose" -> ComposeCompatible(platform)
    [] check = "linux" -> platform.linux
    [] check = "mounts" -> MountsCompatible(platform)
    [] OTHER -> TRUE

Unchecked == [k \in CheckNames |-> "pending"]

NoCall == [verb |-> None, build |-> FALSE, orphans |-> FALSE, refresh |-> FALSE,
           policy |-> "never", present |-> FALSE, fix |-> FALSE]

NoVolume == [at |-> None, helpers |-> {}, kept |-> FALSE]

Init ==
  /\ begun \in Beginnings
  /\ tags = FirstTags
  /\ store = {FirstTags[t] : t \in Tags} \ ({None} \union ContentOnly)
  /\ output = FirstOutputs
  /\ containers = [x \in Containers |->
       IF begun.mounted[x] = None THEN None
       ELSE Container(None, None, None, begun.mounted[x], FALSE)]
  /\ volumes = begun.volumes
  /\ pc = [c \in Commands |-> "idle"]
  /\ call = [c \in Commands |-> NoCall]
  /\ todo = [c \in Commands |-> {}]
  /\ pulled = [c \in Commands |-> {}]
  /\ entry = [c \in Commands |-> [s \in Services |-> None]]
  /\ attempt = [c \in Commands |-> "none"]
  /\ image = [c \in Commands |-> None]
  /\ found = [c \in Commands |-> {}]
  /\ legacy = [c \in Commands |-> {}]
  /\ left = [c \in Commands |-> {}]
  /\ volume = [c \in Commands |-> NoVolume]
  /\ results = [c \in Commands |-> Unchecked]
  /\ changed = [c \in Commands |-> {}]
  /\ stray = {}
  /\ changes = 0

Step(c, from, to) ==
  /\ pc[c] = from
  /\ pc' = [pc EXCEPT ![c] = to]

\* What other commands, the running ones, have seen change.
Noticed(c, what) ==
  [d \in Commands |-> IF d = c \/ pc[d] = "idle" THEN changed[d] ELSE changed[d] \union what]

\* A command returns, fails or is killed.
Ends(c) ==
  /\ pc' = [pc EXCEPT ![c] = "idle"]
  /\ call' = [call EXCEPT ![c] = NoCall]
  /\ todo' = [todo EXCEPT ![c] = {}]
  /\ pulled' = [pulled EXCEPT ![c] = {}]
  /\ entry' = [entry EXCEPT ![c] = [s \in Services |-> None]]
  /\ attempt' = [attempt EXCEPT ![c] = "none"]
  /\ image' = [image EXCEPT ![c] = None]
  /\ found' = [found EXCEPT ![c] = {}]
  /\ legacy' = [legacy EXCEPT ![c] = {}]
  /\ left' = [left EXCEPT ![c] = {}]
  /\ volume' = [volume EXCEPT ![c] = NoVolume]
  /\ results' = [results EXCEPT ![c] = Unchecked]

Captured(c) == {p[2] : p \in legacy[c]}

-----------------------------------------------------------------------------
\* The helpers of an old vaka, with volumes named as anonymous ones are.
Helping ==
  {p \in OldImage \X HexNamed : containers[p[1]] # None /\ containers[p[1]].volume = p[2]}

\* Missed: what a failed search leaves to be lost as an orphan.
Missed(pairs) == stray \union {p[2] : p \in pairs}

\* What a command does first: runComposeCLI and newDoctorCmd.
FirstStage(k) ==
  CASE k.verb = "doctor" -> "probing"
    [] k.verb # "doctor" /\ Class(k.verb) = "render" -> "checking"
    [] k.verb = "pull" /\ ~ k.present -> "checking"
    [] k.verb = "down" -> "capturing"
    [] OTHER -> "executing"

\* If it cannot reach Docker or tell the project, down runs without a migration.
Start(c) ==
  /\ pc[c] = "idle"
  /\ \E k \in begun.calls[c] :
       /\ call' = [call EXCEPT ![c] = k]
       /\ \/ pc' = [pc EXCEPT ![c] = FirstStage(k)] /\ UNCHANGED stray
          \/ /\ k.verb = "down" /\ "error" \in Failures
             /\ pc' = [pc EXCEPT ![c] = "executing"]
             /\ stray' = Missed(Helping)
  /\ changed' = [changed EXCEPT ![c] = {}]
  /\ UNCHANGED <<host, prepared, migration, results, changes>>

\* An error of Docker ends a command in any of these; elsewhere it does not.
Fatal == {"checking", "prebuilding", "building", "inspecting"}

\* A clean-up that is killed does not continue.
Stops(c) ==
  /\ \/ "kill" \in Failures /\ pc[c] # "idle"
     \/ "error" \in Failures /\ pc[c] \in Fatal
  /\ stray' = stray \union ({volume[c].at} \ {None})
  /\ Ends(c)
  /\ UNCHANGED <<host, changed, changes>>

\* CheckRuntimeCompatibility.
Check(c) ==
  /\ pc[c] = "checking"
  /\ IF Compatible(platform)
     THEN /\ Step(c, "checking",
                  IF Class(call[c].verb) = "render" THEN "prebuilding" ELSE "resolving")
          /\ UNCHANGED <<call, prepared, migration, results>>
     ELSE Ends(c)
  /\ UNCHANGED <<host, changed, stray, changes>>

\* servicesNeedingPrebuild.
ListPrebuild(c) ==
  LET build == {s \in Services : NeedsPrebuild(s, tags[s] # None, call[c].build)} IN
  /\ Step(c, "prebuilding", IF build = {} THEN "inspecting" ELSE "building")
  /\ todo' = [todo EXCEPT ![c] = IF build = {} THEN Services ELSE build]
  /\ UNCHANGED <<host, call, pulled, entry, attempt, image, migration, results,
                 changed, stray, changes>>

Prebuild(c) ==
  /\ Step(c, "building", "inspecting")
  /\ tags' = [t \in Tags |-> IF t \in todo[c] THEN output[t] ELSE tags[t]]
  /\ store' = store \union {output[s] : s \in todo[c]}
  /\ todo' = [todo EXCEPT ![c] = Services]
  /\ changed' = Noticed(c, todo[c])
  /\ UNCHANGED <<begun, output, containers, volumes, call, pulled, entry, attempt,
                 image, migration, results, stray, changes>>

\* The image a service's entrypoint or user is read from, None if there is none.
Inspected(s) == IF Declared[s].image THEN tags[s] ELSE None

\* Once every service is inspected: whether any still needs the runtime image.
AfterInspection(c) ==
  IF call[c].present \/ \A s \in Services : Declared[s].optOut
  THEN "capturing" ELSE "resolving"

\* The service whose image was just pulled, or else any.
Due(c) == IF todo[c] \intersect pulled[c] = {} THEN todo[c] ELSE todo[c] \intersect pulled[c]

\* ResolveRuntime: what it reads, if it reads anything.
Inspect(c) ==
  \E s \in Due(c) :
    /\ NeedsImageFallback(s) => Inspected(s) # None
    /\ Step(c, "inspecting",
            IF todo[c] = {s} THEN AfterInspection(c) ELSE "inspecting")
    /\ entry' = [entry EXCEPT ![c] = [x \in Services |->
         IF x # s THEN entry[c][x]
         ELSE IF NeedsImageFallback(s) THEN Inspected(s) ELSE "compose"]]
    /\ todo' = [todo EXCEPT ![c] = todo[c] \ {s}]
    /\ UNCHANGED <<host, call, pulled, attempt, image, migration, results, changed,
                   stray, changes>>

MayPull(c, s) ==
  /\ Declared[s].image /\ tags[s] = None
  /\ PullsMissing(call[c].policy, s) /\ s \notin pulled[c]

\* ResolveRuntime: an absent image is pulled once, if the policy permits.
InspectMissing(c) ==
  /\ pc[c] = "inspecting"
  /\ \E s \in Due(c) :
       /\ NeedsImageFallback(s) /\ Inspected(s) = None
       /\ \/ /\ MayPull(c, s)
             /\ \E i \in Upstream[s] :
                  /\ tags' = [tags EXCEPT ![s] = i]
                  /\ store' = store \union ({i} \ ContentOnly)
             /\ pulled' = [pulled EXCEPT ![c] = pulled[c] \union {s}]
             /\ changed' = Noticed(c, {s})
             /\ UNCHANGED <<pc, call, todo, entry, attempt, image, migration, results>>
          \/ /\ ~ MayPull(c, s)
             /\ Ends(c)
             /\ UNCHANGED <<tags, store, changed>>
  /\ UNCHANGED <<begun, output, containers, volumes, stray, changes>>

-----------------------------------------------------------------------------
\* doctor repairs the image only after its check failed, and looks again.
Repairing(c) == attempt[c] \in {"none", "pulled", "refreshed"}

\* Bug: the label of the tag's image will do, whether or not it can be mounted.
MayMount_AnyContent(i) == Acceptable(i)

\* validateRuntimeMountIdentity, after validateRuntimeImage.
MayMount(i) == Acceptable(i) /\ i \in store

\* Bug: it is refreshed for as long as it cannot be used.
Repairs_Endless(missing) ==
  IF missing THEN {"none"} ELSE {"none", "pulled", "refreshed"}

\* An absent image is pulled once, one that cannot be used is refreshed once.
Repairs(missing) == IF missing THEN {"none"} ELSE {"none", "pulled"}

Refetch(c, missing) ==
  /\ attempt[c] \in Repairs(missing)
  /\ attempt' = [attempt EXCEPT ![c] = IF missing THEN "pulled" ELSE "refreshed"]
  /\ pc' = [pc EXCEPT ![c] = "fetching"]
  /\ UNCHANGED <<call, todo, pulled, entry, image, migration, results>>

\* The image cannot be had: a command fails; doctor tries its fix, if it may.
GiveUp(c) ==
  \/ call[c].verb # "doctor" /\ Ends(c)
  \/ /\ call[c].verb = "doctor"
     /\ IF attempt[c] = "probed" /\ call[c].fix
        THEN /\ attempt' = [attempt EXCEPT ![c] = "none"]
             /\ pc' = [pc EXCEPT ![c] = "resolving"]
             /\ UNCHANGED results
        ELSE /\ results' = [results EXCEPT ![c]["image"] = "failed"]
             /\ pc' = [pc EXCEPT ![c] = "probing"]
             /\ UNCHANGED attempt
     /\ image' = [image EXCEPT ![c] = None]
     /\ UNCHANGED <<call, todo, pulled, entry, migration>>

Unusable(c, missing) ==
  Refetch(c, missing) \/ (attempt[c] \notin Repairs(missing) /\ GiveUp(c))

\* ResolveRuntimeImage: the tag of the runtime image.
FindRuntime(c) ==
  /\ pc[c] = "resolving"
  /\ LET i == tags["runtime"] IN
     \/ /\ i # None /\ Acceptable(i)
        /\ image' = [image EXCEPT ![c] = i]
        /\ Step(c, "resolving", "verifying")
        /\ UNCHANGED <<call, todo, pulled, entry, attempt, migration, results>>
     \/ i = None /\ Unusable(c, TRUE)
     \/ i # None /\ ~ Acceptable(i) /\ Unusable(c, FALSE)
     \/ "error" \in Failures /\ GiveUp(c)
  /\ UNCHANGED <<host, changed, stray, changes>>

\* Once the image is found: doctor looks again after a repair.
AfterRuntime(c) ==
  IF call[c].verb # "doctor"
  THEN IF Class(call[c].verb) = "render" THEN "capturing" ELSE "executing"
  ELSE IF Repairing(c) THEN "resolving" ELSE "probing"

\* The image that the tag led to is asked for by its identity.
VerifyRuntime(c) ==
  /\ pc[c] = "verifying"
  /\ \/ /\ MayMount(image[c])
        /\ Step(c, "verifying", AfterRuntime(c))
        /\ IF call[c].verb # "doctor" THEN UNCHANGED <<attempt, results>>
           ELSE IF Repairing(c)
           THEN attempt' = [attempt EXCEPT ![c] = "again"] /\ UNCHANGED results
           ELSE results' = [results EXCEPT ![c]["image"] = "ok"] /\ UNCHANGED attempt
        /\ UNCHANGED <<call, todo, pulled, entry, image, migration>>
     \/ (~ MayMount(image[c]) \/ "error" \in Failures) /\ Unusable(c, FALSE)
  /\ UNCHANGED <<host, changed, stray, changes>>

\* pullImage, for the runtime image.
PullRuntime(c) ==
  /\ pc[c] = "fetching"
  /\ \/ /\ \E i \in Upstream["runtime"] :
             /\ tags' = [tags EXCEPT !["runtime"] = i]
             /\ store' = store \union ({i} \ ContentOnly)
        /\ Step(c, "fetching", "resolving")
        /\ UNCHANGED <<call, prepared, migration, results>>
     \/ "error" \in Failures /\ GiveUp(c) /\ UNCHANGED <<tags, store>>
  /\ UNCHANGED <<begun, output, containers, volumes, changed, stray, changes>>

-----------------------------------------------------------------------------
\* A check of doctor that can be answered at once, or is skipped; one may time out.
Probe(c) ==
  /\ pc[c] = "probing"
  /\ \E k \in DOMAIN Checks :
       LET check == Checks[k]
           skipped == \E d \in DependsOn(check) : results[c][d] # "ok" IN
       /\ results[c][check] = "pending"
       /\ \A j \in 1 .. k - 1 : results[c][Checks[j]] # "pending"
       /\ IF check = "image" /\ ~ skipped
          THEN /\ attempt' = [attempt EXCEPT ![c] = "probed"]
               /\ pc' = [pc EXCEPT ![c] = "resolving"]
               /\ UNCHANGED results
          ELSE /\ \E r \in {"ok", "failed", "skipped"} :
                    /\ (r = "skipped") <=> skipped
                    /\ r = "ok" => Holds(check)
                    /\ r = "failed" => ~ Holds(check) \/ "error" \in Failures
                    /\ results' = [results EXCEPT ![c][check] = r]
               /\ pc' = [pc EXCEPT ![c] =
                    IF k = Len(Checks) THEN "reporting" ELSE "probing"]
               /\ UNCHANGED attempt
  /\ UNCHANGED <<host, call, todo, pulled, entry, image, migration, changed, stray,
                 changes>>

\* newDoctorCmd: a skipped check does not count as a failed one.
Passes(c) == \A k \in CheckNames \ Advisory : results[c][k] # "failed"

Report(c) ==
  /\ pc[c] = "reporting"
  /\ Ends(c)
  /\ UNCHANGED <<host, changed, stray, changes>>

-----------------------------------------------------------------------------
\* CaptureLegacyRuntime lists the helpers; an error is only a warning.
Capture(c) ==
  /\ \/ /\ found' = [found EXCEPT ![c] = Helping]
        /\ Step(c, "capturing", IF Helping = {} THEN "executing" ELSE "looking")
        /\ UNCHANGED stray
     \/ /\ "error" \in Failures
        /\ Step(c, "capturing", "executing")
        /\ stray' = Missed(Helping)
        /\ UNCHANGED found
  /\ UNCHANGED <<host, call, prepared, legacy, left, volume, results, changed, changes>>

\* Only a volume that Docker marks as anonymous is captured; at an error the
\* command goes on with those captured so far.
Look(c) ==
  /\ \E p \in found[c] :
       \/ /\ Step(c, "looking", IF found[c] = {p} THEN "executing" ELSE "looking")
          /\ found' = [found EXCEPT ![c] = found[c] \ {p}]
          /\ legacy' = [legacy EXCEPT ![c] =
               IF volumes[p[2]] = "anonymous" THEN legacy[c] \union {p} ELSE legacy[c]]
          /\ UNCHANGED stray
       \/ /\ "error" \in Failures
          /\ Step(c, "looking", "executing")
          /\ stray' = Missed(found[c])
          /\ found' = [found EXCEPT ![c] = {}]
          /\ UNCHANGED legacy
  /\ UNCHANGED <<host, call, prepared, left, volume, results, changed, changes>>

Injects(c) == Class(call[c].verb) = "render"

\* The vaka-init of a service's container.
InitOf(c, s) ==
  IF call[c].present \/ Declared[s].optOut THEN "own" ELSE image[c]

\* The images that docker compose may run a service with, if the compose file has no
\* pull_policy for it; what watch rebuilds later is left out.
Runs(c, s) ==
  IF Declared[s].build /\ (call[c].build \/ call[c].refresh \/ tags[s] = None)
  THEN {output[s]}
  ELSE IF call[c].refresh \/ tags[s] = None THEN Upstream[s] ELSE {tags[s]}

\* Whether docker compose can create the container of a service.
Creatable(c, s) ==
  Injects(c) /\ InitOf(c, s) # "own" =>
    image[c] \in store /\ CanMount(platform, MountSource(platform))

\* With COMPOSE_IGNORE_ORPHANS, docker compose leaves the helpers alone.
Orphans(c) == IF call[c].orphans /\ legacy[c] = {} THEN Helpers ELSE {}

\* docker compose creates, or replaces, containers of any of the services.
ComposeCreates(c) ==
  \E made \in SUBSET {s \in Services : Creatable(c, s)} :
  \E run \in [made -> Images] :
    /\ \A s \in made : run[s] \in Runs(c, s)
    /\ containers' = [x \in Containers |->
         IF x \in made
         THEN IF Injects(c)
              THEN Container(run[x], InitOf(c, x), entry[c][x], None,
                             x \notin changed[c] /\ ~ call[c].refresh)
              ELSE Container(run[x], None, None, None, FALSE)
         ELSE IF x \in Orphans(c) THEN None ELSE containers[x]]
    /\ tags' = [t \in Tags |-> IF t \in made THEN run[t] ELSE tags[t]]
    /\ store' = store \union {run[s] : s \in made}
    /\ changed' = Noticed(c, made)

\* It builds or pulls the images of any of them.
ComposeFetches(c) ==
  \E got \in SUBSET {s \in Services :
       IF call[c].verb = "build" THEN Declared[s].build ELSE Declared[s].image} :
  \E new \in [got -> Images] :
    /\ \A s \in got :
         new[s] \in IF call[c].verb = "build" THEN {output[s]} ELSE Upstream[s]
    /\ tags' = [t \in Tags |-> IF t \in got THEN new[t] ELSE tags[t]]
    /\ store' = store \union {new[s] : s \in got}
    /\ changed' = Noticed(c, got)
    /\ UNCHANGED containers

\* It removes the containers of any of them.
ComposeRemoves(c) ==
  /\ \E gone \in SUBSET Services :
       containers' = [x \in Containers |->
         IF x \in gone \union Orphans(c) THEN None ELSE containers[x]]
  /\ UNCHANGED <<tags, store, changed>>

\* execDockerCompose; whatever comes of it, the captured runtime is cleaned up.
Execute(c) ==
  /\ pc[c] = "executing"
  /\ \/ call[c].verb \in Creating /\ ComposeCreates(c)
     \/ call[c].verb \in {"build", "pull"} /\ ComposeFetches(c)
     \/ call[c].verb \in {"down", "rm"} /\ ComposeRemoves(c)
     \/ /\ call[c].verb \notin Creating \union {"build", "pull", "down", "rm"}
        /\ UNCHANGED <<containers, tags, store, changed>>
  /\ IF legacy[c] = {} THEN Ends(c)
     ELSE /\ left' = [left EXCEPT ![c] = Captured(c)]
          /\ Step(c, "executing", "listing")
          /\ UNCHANGED <<call, prepared, found, legacy, volume, results>>
  /\ UNCHANGED <<begun, output, volumes, stray, changes>>

-----------------------------------------------------------------------------
\* CleanupLegacyRuntime is done with a volume, whether or not it was removed.
Leaves(c, v) ==
  IF left[c] = {v} THEN Ends(c)
  ELSE /\ left' = [left EXCEPT ![c] = left[c] \ {v}]
       /\ volume' = [volume EXCEPT ![c] = NoVolume]
       /\ pc' = [pc EXCEPT ![c] = "listing"]
       /\ UNCHANGED <<call, prepared, found, legacy, results>>

HelpersOf(c, v) == {h \in Helpers : <<h, v>> \in legacy[c]}

\* Bug: nobody is asked whether other containers use the volume.
ListConsumers_Unasked(c) ==
  /\ pc[c] = "listing"
  /\ \E v \in left[c] :
       /\ volume' = [volume EXCEPT ![c] =
                      [at |-> v, helpers |-> HelpersOf(c, v), kept |-> FALSE]]
       /\ Step(c, "listing", "removing")
       /\ UNCHANGED <<call, prepared, found, legacy, left, results>>
  /\ UNCHANGED <<host, changed, stray, changes>>

\* A volume with other users is left for a later command.
ListConsumers(c) ==
  /\ pc[c] = "listing"
  /\ \E v \in left[c] :
       \/ /\ Users(v) \subseteq HelpersOf(c, v)
          /\ volume' = [volume EXCEPT ![c] =
                         [at |-> v, helpers |-> HelpersOf(c, v), kept |-> FALSE]]
          /\ Step(c, "listing", "removing")
          /\ UNCHANGED <<call, prepared, found, legacy, left, results>>
       \/ /\ "error" \in Failures \/ ~ (Users(v) \subseteq HelpersOf(c, v))
          /\ Leaves(c, v)
  /\ UNCHANGED <<host, changed, stray, changes>>

\* ContainerRemove without force.
Removable(h) == containers[h] # None => ~ containers[h].running

\* Its helpers are removed, one after another; if one could not be, it is left.  Of
\* two clean-ups at one volume, each may leave it for the sake of the helper that the
\* other removes.
RemoveHelper(c) ==
  /\ pc[c] = "removing"
  /\ \E h \in volume[c].helpers, kept \in BOOLEAN :
       LET rest == volume[c].helpers \ {h}
           deferred == volume[c].kept \/ kept IN
       /\ IF kept THEN /\ containers[h] # None /\ UNCHANGED containers
                       /\ ~ Removable(h) \/ "error" \in Failures
          ELSE Removable(h) /\ containers' = [containers EXCEPT ![h] = None]
       /\ stray' = stray \union
            {v \in {volume[d].at : d \in Commands \ {c}} : kept /\ v = volume[c].at}
       /\ IF rest = {} /\ deferred THEN Leaves(c, volume[c].at)
          ELSE /\ volume' = [volume EXCEPT ![c] =
                              [at |-> volume[c].at, helpers |-> rest, kept |-> deferred]]
               /\ pc' = [pc EXCEPT ![c] = IF rest = {} THEN "rechecking" ELSE "removing"]
               /\ UNCHANGED <<call, prepared, found, legacy, left, results>>
  /\ UNCHANGED <<begun, images, volumes, changed, changes>>

\* Bug: the volume is not looked at again.
Recheck_Trusting(c) ==
  /\ Step(c, "rechecking", "deleting")
  /\ UNCHANGED <<host, call, prepared, migration, results, changed, stray, changes>>

\* Docker's marker is looked at once more.
Recheck(c) ==
  /\ pc[c] = "rechecking"
  /\ LET v == volume[c].at IN
     \/ /\ volumes[v] = "anonymous"
        /\ Step(c, "rechecking", "deleting")
        /\ UNCHANGED <<call, prepared, migration, results, stray>>
     \/ /\ \/ volumes[v] # "anonymous" /\ UNCHANGED stray
           \/ "error" \in Failures /\ stray' = stray \union {v}
        /\ Leaves(c, v)
  /\ UNCHANGED <<host, changed, changes>>

\* VolumeRemove without force: a volume in use stays.
RemoveVolume(c) ==
  /\ pc[c] = "deleting"
  /\ LET v == volume[c].at IN
     /\ \/ /\ Users(v) = {}
           /\ volumes' = [volumes EXCEPT ![v] = "gone"]
           /\ UNCHANGED stray
        \/ Users(v) # {} /\ UNCHANGED <<volumes, stray>>
        \/ "error" \in Failures /\ stray' = stray \union {v} /\ UNCHANGED volumes
     /\ Leaves(c, v)
  /\ UNCHANGED <<begun, images, containers, changed, changes>>

-----------------------------------------------------------------------------
\* Others change the host, at any moment.
Elsewhere ==
  /\ changes < begun.changes
  /\ changes' = changes + 1
  /\ UNCHANGED <<begun, pc, call, prepared, migration, results>>

Seen(what) ==
  [d \in Commands |-> IF pc[d] = "idle" THEN changed[d] ELSE changed[d] \union what]

\* A tag is pulled anew or removed.
MoveTag ==
  /\ \E t \in Tags : \E i \in (Upstream[t] \union {None}) \ {tags[t]} :
       /\ tags' = [tags EXCEPT ![t] = i]
       /\ store' = store \union ({i} \ ({None} \union ContentOnly))
       /\ changed' = Seen({t})
  /\ Elsewhere
  /\ UNCHANGED <<output, containers, volumes, stray>>

\* An image that no container needs is removed, with its tags.
RemoveImage ==
  /\ \E i \in store :
       /\ \A x \in Containers : containers[x] # None =>
            i # containers[x].image /\ i # containers[x].init
       /\ store' = store \ {i}
       /\ tags' = [t \in Tags |-> IF tags[t] = i THEN None ELSE tags[t]]
       /\ changed' = Seen({i} \union {t \in Tags : tags[t] = i})
  /\ Elsewhere
  /\ UNCHANGED <<output, containers, volumes, stray>>

\* What a service is built from is edited.
Edit ==
  /\ \E s \in Services : \E i \in Outputs[s] \ {output[s]} :
       /\ output' = [output EXCEPT ![s] = i]
       /\ changed' = Seen({s})
  /\ Elsewhere
  /\ UNCHANGED <<tags, store, containers, volumes, stray>>

\* A volume that a command is about to remove.
Interfered(v) ==
  stray \union ({v} \intersect {volume[c].at : c \in Commands})

\* Another container, or a helper of an older vaka, is created with a volume; it is
\* none that was there before.
Mount ==
  /\ \E x \in Others \union OldImage, v \in Volumes :
       /\ containers[x] = None /\ volumes[v] # "gone"
       /\ \A c \in Commands : \A p \in found[c] \union legacy[c] : p[1] # x
       /\ containers' = [containers EXCEPT ![x] = Container(None, None, None, v, FALSE)]
       /\ stray' = Interfered(v)
  /\ Elsewhere
  /\ UNCHANGED <<images, volumes, changed>>

\* Another container is removed.
Unmount ==
  /\ \E x \in Others :
       /\ containers[x] # None
       /\ containers' = [containers EXCEPT ![x] = None]
  /\ Elsewhere
  /\ UNCHANGED <<images, volumes, changed, stray>>

\* A helper is started or stops.
ToggleHelper ==
  /\ \E h \in Helpers :
       /\ containers[h] # None
       /\ containers' = [containers EXCEPT ![h] =
            [image |-> containers[h].image, init |-> containers[h].init,
             entry |-> containers[h].entry, volume |-> containers[h].volume,
             settled |-> containers[h].settled, running |-> ~ containers[h].running]]
  /\ Elsewhere
  /\ UNCHANGED <<images, volumes, changed, stray>>

\* A volume is removed and created by name; not while vaka is about to remove it.
Recreate ==
  /\ \E v \in Volumes :
       /\ Users(v) = {} /\ volumes[v] = "anonymous"
       /\ \A c \in Commands : pc[c] = "deleting" => volume[c].at # v
       /\ volumes' = [volumes EXCEPT ![v] = "named"]
  /\ Elsewhere
  /\ UNCHANGED <<images, containers, changed, stray>>

Command(c) ==
  \/ Start(c) \/ Stops(c) \/ Check(c) \/ ListPrebuild(c) \/ Prebuild(c)
  \/ Inspect(c) \/ InspectMissing(c)
  \/ FindRuntime(c) \/ VerifyRuntime(c) \/ PullRuntime(c)
  \/ Probe(c) \/ Report(c)
  \/ Capture(c) \/ Look(c) \/ Execute(c)
  \/ ListConsumers(c) \/ RemoveHelper(c) \/ Recheck(c) \/ RemoveVolume(c)

HostChanges ==
  MoveTag \/ RemoveImage \/ Edit \/ Mount \/ Unmount \/ ToggleHelper \/ Recreate

Next == (\E c \in Commands : Command(c)) \/ HostChanges

Spec == Init /\ [][Next]_vars

-----------------------------------------------------------------------------
Stages ==
  {"idle", "checking", "prebuilding", "building", "inspecting", "resolving", "verifying",
   "fetching", "probing", "reporting", "capturing", "looking", "executing", "listing",
   "removing", "rechecking", "deleting"}

\* The calls that may be made.
Calls == {NoCall} \union UNION {b.calls[c] : b \in Beginnings, c \in Commands}

\* What a container may be.
ContainerStates ==
  [image : Images \union {None}, init : Images \union {None, "own"},
   entry : Images \union {None, "compose"}, volume : Volumes \union {None},
   settled : BOOLEAN, running : BOOLEAN]

ASSUME StatesAssumption == None \notin ContainerStates

\* Every variable has its type.
TypeOK ==
  /\ begun \in Beginnings
  /\ tags \in [Tags -> Images \union {None}] /\ store \subseteq Images
  /\ output \in [Services -> Images]
  /\ containers \in [Containers -> ContainerStates \union {None}]
  /\ volumes \in [Volumes -> {"anonymous", "named", "gone"}]
  /\ pc \in [Commands -> Stages] /\ call \in [Commands -> Calls]
  /\ todo \in [Commands -> SUBSET Services] /\ pulled \in [Commands -> SUBSET Services]
  /\ entry \in [Commands -> [Services -> Images \union {None, "compose"}]]
  /\ attempt \in [Commands -> {"none", "pulled", "refreshed", "probed", "again"}]
  /\ image \in [Commands -> Images \union {None}]
  /\ found \in [Commands -> SUBSET (OldImage \X HexNamed)]
  /\ legacy \in [Commands -> SUBSET (OldImage \X HexNamed)]
  /\ left \in [Commands -> SUBSET HexNamed]
  /\ volume \in [Commands -> [at : Volumes \union {None}, helpers : SUBSET OldImage,
                              kept : BOOLEAN]]
  /\ results \in [Commands -> [CheckNames -> {"pending", "ok", "failed", "skipped"}]]
  /\ changed \in [Commands -> SUBSET (Tags \union Images)]
  /\ stray \subseteq Volumes /\ changes \in 0 .. begun.changes

\* Whichever verb creates the container of a service with a policy, one that this
\* vaka does not know included, its program is started by vaka-init, and by the
\* vaka-init of the bundle that this vaka requires, unless the service or the user
\* says that the image has it (composeCommandSpecFor, ResolveRuntimeImage).
ContainersManaged ==
  \A s \in Services : LET k == containers[s] IN
    k # None /\ k.image # None =>
      /\ k.entry # None
      /\ k.init \in Images => Bundle[k.init] = Required
      /\ k.init # None

\* docker compose is only started if the image it is told to mount is there, unless
\* others removed it meanwhile, and if the target can make that mount
\* (validateRuntimeMountIdentity, selectRuntimeMountSource).
NoDoomedRun ==
  \A c \in Commands :
    pc[c] = "executing" /\ Injects(c) /\ image[c] # None =>
      /\ image[c] \in store \/ image[c] \in changed[c]
      /\ CanMount(platform, MountSource(platform))

\* The entrypoint and the user that vaka restores are those of the image that runs,
\* unless a mutable tag was moved by others or by docker compose meanwhile; pinned
\* images are immune even to that (servicesNeedingPrebuild, ResolveRuntime).
EntrypointMatches ==
  \A s \in Services : LET k == containers[s] IN
    k # None /\ k.image # None /\ k.entry \in Images /\ (k.settled \/ Declared[s].pinned)
      => k.entry = k.image

\* The clean-up removes only helpers of an old vaka that do not run, and volumes
\* that Docker marks as anonymous and nobody uses (CleanupLegacyRuntime).
OnlyLegacyRemoved ==
  [][/\ \A c \in Commands : \A h \in volume[c].helpers :
          /\ pc[c] = "removing" /\ \A d \in Commands \ {c} : pc'[d] = pc[d]
          /\ containers[h] # None /\ containers'[h] = None
          => /\ h \in OldImage /\ ~ containers[h].running
             /\ volumes[containers[h].volume] = "anonymous"
     /\ \A v \in Volumes : volumes[v] # "gone" /\ volumes'[v] = "gone" =>
          volumes[v] = "anonymous" /\ v \in HexNamed /\ Users(v) = {}]_vars

\* An anonymous volume of an old vaka keeps a helper, by which later commands find
\* it, until it is removed, unless its clean-up failed, another was at it at once,
\* or others took part in it: no partial upgrade and no orphan removal loses it
\* (CaptureLegacyRuntime, COMPOSE_IGNORE_ORPHANS, CleanupLegacyRuntime).
NothingStranded ==
  \A v \in {begun.mounted[h] : h \in OldImage} \ stray :
    v \in HexNamed /\ volumes[v] = "anonymous" =>
      \/ \E h \in OldImage : containers[h] # None /\ containers[h].volume = v
      \/ \E c \in Commands : v \in left[c]

\* If doctor reports success, the target would not be refused and can indeed mount
\* what it is told to, it runs Linux containers, and the image of the required bundle
\* was found; a check that was skipped hides no failure (newDoctorCmd,
\* runDoctorChecks).
DoctorVouches ==
  \A c \in Commands : pc[c] = "reporting" /\ Passes(c) =>
    /\ Compatible(platform) /\ CanMount(platform, MountSource(platform))
    /\ platform.linux
    /\ results[c]["image"] = "ok" /\ Bundle[image[c]] = Required

\* The order in which a command goes through its stages, the last first; between
\* those of one number it may go back and forth.
Phase ==
  [idle |-> 0, deleting |-> 1, rechecking |-> 1, removing |-> 1, listing |-> 1,
   reporting |-> 2, executing |-> 2, looking |-> 3, capturing |-> 4,
   verifying |-> 5, resolving |-> 5, fetching |-> 5, probing |-> 5,
   inspecting |-> 6, building |-> 7, prebuilding |-> 8, checking |-> 9]

\* Their order while neither a volume is left nor the image is fetched again.
Turn == [deleting |-> 0, rechecking |-> 1, removing |-> 2, listing |-> 3,
         verifying |-> 0, resolving |-> 1, fetching |-> 2]

\* What is left to do about the runtime image; doctor's probe comes first.
AttemptRank == [again |-> 0, refreshed |-> 1, pulled |-> 2, none |-> 3, probed |-> 4]

PendingChecks(c) == {k \in CheckNames : results[c][k] = "pending"}

\* How far a command is from its end: the first of these numbers counts most.
Rank(c) ==
  LET phase == Phase[pc[c]] IN
  CASE phase = 1 ->
         <<1, Cardinality(left[c]), Turn[pc[c]], Cardinality(volume[c].helpers)>>
    [] pc[c] = "probing" -> <<5, Cardinality(PendingChecks(c)), 5, 0>>
    [] phase = 5 /\ pc[c] # "probing" ->
         <<5, Cardinality(PendingChecks(c)), AttemptRank[attempt[c]], Turn[pc[c]]>>
    [] pc[c] = "inspecting" ->
         <<6, Cardinality(todo[c]), Cardinality(Services \ pulled[c]), 0>>
    [] pc[c] = "looking" -> <<3, Cardinality(found[c]), 0, 0>>
    [] phase \in {0, 2, 4, 7, 8, 9} -> <<phase, 0, 0, 0>>

Nearer(r, q) == \E k \in 1 .. 4 : r[k] < q[k] /\ \A j \in 1 .. k - 1 : r[j] = q[j]

\* Every step that others do not make starts a command or takes one nearer to its
\* end, and none takes one further from it, whatever Docker and the registry answer:
\* an image that cannot be used is pulled again once, a volume that cannot be removed
\* is left (ResolveRuntimeImage, runDoctorChecks, CleanupLegacyRuntime).
Advances ==
  [][/\ changes' = changes =>
          \E c \in Commands : \/ pc[c] = "idle" /\ pc'[c] # "idle"
                              \/ Nearer(Rank(c)', Rank(c))
     /\ \A c \in Commands : pc[c] # "idle" =>
          Rank(c)' = Rank(c) \/ Nearer(Rank(c)', Rank(c))]_vars

\* Whenever docker compose is started, vaka and docker compose read the command
\* line alike, whichever of them it is.  Wherever the user's files are named, docker
\* compose reads them, or else those it would find by itself, in their order, and
\* then the override, so that nothing overrides it; the verb and its arguments are
\* those that vaka looked at, and no flag of vaka's is among them; if docker compose
\* will build, vaka builds before it reads entrypoints (extractVakaFlags,
\* scanComposeArgs, detectBuildRequested, injectFDOverride).
ReadsAlike == \A c \in Commands : pc[c] = "executing" => Misread = {}

=============================================================================
