# TLA+ specifications of vaka

Vaka wraps `docker compose`: it installs and updates *recipes* (directories with
a compose file and an egress policy), resolves them from registries, injects its
init program into the services, and runs that program as PID 1 in each container
to load the firewall rules, drop privileges and start the workload.

These modules specify the parts of vaka whose correctness depends on the order
of steps: processes that race, are killed or lose power, files the user edits
meanwhile, caches that are refreshed while they are read.

## Inventory

| Component | State | Operations | What is hard | What makes it correct |
| --- | --- | --- | --- | --- |
| Recipe update (`pkg/recipe/update.go`, `journal.go`, `lock.go`) | the recipe tree, `.vaka-recipe.lock`, `.vaka-recipe.lock.new`, `.vaka-staging`, the flock on `.vaka-recipe.update.lock` | `UpToDate`, `Update` | concurrent gets, kills between any two steps, power losses that reorder renames, edits while an update runs, chains of interrupted updates | the user's files are never overwritten or removed; an interrupted update is finished, not mistaken for edits; the lock describes the tree |
| Recipe install (`pkg/recipe/install.go`, `rename_*.go`) | the target, `.vaka-get-*` staging siblings | `Install` | two installs of one target, failure after the rename | all or nothing, never replaces anything |
| `vaka get` (`cmd/vaka/get.go`) | none of its own | `runGet`, `installOrUpdate` | what it decided before the update lock is stale after it | routes to install or update correctly |
| Index cache (`pkg/registry/fetch.go`, `index.go`) | one cache file per registry with its validators and age | `FetchIndex`, `RefreshIndex`, `RemoveCache`, `FetchTarball` | concurrent conditional fetches, stale fallback, a re-pointed registry | never serves another source's index, never installs bytes that do not match the digest |
| Git preview registry (`pkg/registry/git.go`, `git_objects.go`) | `artifacts/`, the index cache, the refresh lock | `refreshGitIndex`, `fetchGitIndexFromCache`, prune | failed refreshes, readers of the previous index, clock-based pruning | a served index has its artifacts; a failed refresh destroys nothing |
| Registry configuration (`pkg/registry/config.go`, `cmd/vaka/registry_cmd.go`) | one YAML file | `Add`, `Remove`, `SaveConfig` | load-modify-save by two commands | no change is lost, a removed registry leaves no cache |
| Resolution (`pkg/registry/resolve.go`, `cmd/vaka/registryclient.go`) | none | `ParseRef`, `Resolve`, `selectVersion` | unavailable and stale registries | an ambiguous name is never resolved silently |
| Legacy migration (`cmd/vaka/legacy_migration.go`) | helper containers and anonymous volumes of older releases, in the daemon | `CaptureLegacyRuntime`, `CleanupLegacyRuntime` | the daemon changes between listing and removing; `--remove-orphans` takes the helpers by which volumes are found | nothing in use or not vaka's is removed, nothing is lost by a command that did not get to it |
| Runtime image (`cmd/vaka/images.go`, `pull.go`, `compatibility.go`) | tags and images of the daemon | `CheckRuntimeCompatibility`, `ResolveRuntimeImage`, `ResolveRuntime` | tags move and images vanish between two calls; some engines cannot mount what they inspect | the image mounted is the one verified, and can be mounted |
| Compose interception (`cmd/vaka/compose_cmd.go`, `intercept.go`, `invocation.go`, `inject.go`, `pkg/compose/override.go`) | none of its own | `runComposeCLI`, `runFull`, `runReference`, `buildInjectionOverride` | verbs and flags of docker compose that vaka must read as it does; builds that replace what was inspected | every container of a service starts behind vaka-init, with the entrypoint of its own image |
| Doctor (`cmd/vaka/doctor.go`) | check results | dependent checks, the fix of the image | skipped checks do not count as failed | success means that the target will do |
| Container init (`cmd/vaka-init/main.go`, `chown.go`) | rules, owners, capabilities, identity | one sequence | an error at any step | the program never starts without the rules, or with privileges it should have lost |
| Egress rules (`pkg/nft`) | one ruleset | generate, resolve | rule order | packets are accepted exactly as the policy says |
| Policy (`pkg/policy`), manifests and lint (`pkg/recipe/manifest.go`, `lint.go`), extraction (`extract.go`) | none | parse and validate | - | stateless |
| Build and release scripts | none | - | - | not modelled |

`vaka get` resolves a reference through the index cache or the Git preview,
downloads the archive, and either installs it or, when the directory carries a
lock, runs the update transaction on it. These components share only files:
caches under the user's cache directory, the configuration, and the recipe
directory; the two flocks (`.vaka-recipe.update.lock`, the Git refresh lock) are
the only exclusion. The commands that run docker compose share the Docker host
with each other and with everybody else who uses it, without any exclusion; what
they put into a container, vaka-init reads there.

## Modules

| Module | Models | How it corresponds to the code |
| --- | --- | --- |
| `RecipePlan` | `buildPlan`, `acceptedList` (`update.go`) | the decision matrix as operators on one path: `RowOf` decides the action and what the next lock says of the path |
| `RecipeMatrix` | the same, over every input | over no state: each choice of lock entry, journal entry, disk state and incoming release; its properties, on `RecipeUpdate`, say that none is an exception, at the stage of an update that relies on it |
| `RecipeUpdate` | `UpToDate`, `Update` (`update.go`, `journal.go`, `lock.go`) | `pc` is where a process stands between two durable effects; one action per effect (journal written, file renamed, directory synced, lock committed, journal removed, staging removed), plus kills, power losses and the user |
| `RecipeSwitch` | - | abstract: a directory moves between releases in one step |
| `RecipeGet` | `runGet`, `installOrUpdate` (`get.go`), `Install` (`install.go`) | one action per step of a get; the update it may route to is the one step of `RecipeSwitch` |
| `RecipeDirectory` | - | abstract: what a target directory may hold, and what may replace what |
| `RegistryResolve` | `Resolve`, `selectVersion` (`resolve.go`), `resolveGetArgs` (`get.go`), `catalogRows`, `displayName` (`registryclient.go`) | pure: what a reference means given the configuration and the indexes at hand, and what names are shown |
| `RegistryIndex` | `FetchIndex`, `CachedIndex`, `RemoveCache`, `FetchTarball` (`fetch.go`), `SaveConfigTo` (`config.go`), `loadRegistryWorld` (`registryclient.go`), `runGet` up to its archive, `search`, completion, the registry commands | one action per request, read or write of the cache file and of the configuration; sources publish, requests are answered late or not, registries are removed and re-pointed meanwhile |
| `GitPreviewCache` | `buildGitIndex` and its helpers (`git.go`), `RemoveCache` (`fetch.go`), the registry commands | one action per step under the refresh lock; artifacts with their age and content, the temporary files beside them by their number, and in it those that killed commands left (`abandoned`) |
| `EgressRules` | `resolve.go`, `generate.go`, `templates/egress.nft.tmpl` | pure: `Generate` gives the blocks of nft lines of a policy, `Verdict` what they do with a packet, `Allowed` what the policy says should be done with it |
| `VakaInit` | `main`, `applyChownActions`, `applyCapDrop`, `switchIdentity` (`cmd/vaka-init`) | `pc` is the step of `main` a container is at; one action per effect on its network namespace, its process or the owner of one path, each with its refusals; containers stop anywhere and are started again |
| `DockerTarget` | `compatibility.go`, `pull.go`, the tests `images.go` and `servicesNeedingPrebuild` make | pure: which targets and images are accepted, how the image is mounted, what has to be built or pulled first; versions are ordered as semver orders them, pre-releases before their release |
| `ComposeRun` | `runComposeCLI`, `runFull`, `runReference`, `buildInjectionOverride`, `ResolveRuntime`, `ResolveRuntimeImage`, `CaptureLegacyRuntime`, `CleanupLegacyRuntime`, `runDoctorChecks` | `pc` is the call to Docker a command is at; one action per call, with its errors; others move tags, remove images, edit what a build gives, and start, stop and create containers and volumes |
| `ComposeArgs` | `extractVakaFlags`, `scanComposeArgs`, `detectBuildRequested` (`invocation.go`), `injectFDOverride` (`inject.go`) | pure: a command line is a sequence of tokens, one for all that are treated alike. Where a scan has got to is a function of the token, defined by the one before (`Takes`, `FilesRead`). `ComposeRun` extends it, and reads every line wherever it starts docker compose (`ReadsAlike`) |
| `MCRecipeUpdate`, `MCRecipeGet`, `MCRegistryIndex`, `MCGitPreviewCache`, `MCComposeRun`, `MCVakaInit` | - | the instances TLC checks |
| `RecipeUpdateProofs`, `RecipeRecoveryProofs`, `RecipeMatrixProofs`, `RecipeGetProofs`, `GitPreviewProofs`, `VakaInitProofs`, `RegistryIndexProofs`, `ComposeRunProofs` | - | the theorems |

State is what outlives a step: files, renames and their durability, flocks, and
the local variables of a running command. Content is abstracted to what the code
compares: a file's state is its digest, an archive the set of states it ships, a
lock the map from paths to states with its generation. Definitions named
`X_Something` with a comment "Bug:" are deviations from the code used to check
that the properties can fail; no specification uses them.

`RecipeUpdate` implements `RecipeSwitch` (`SwitchesAtomically`), which is what
entitles `RecipeGet` to take an update as one step, and `RecipeGet` implements
`RecipeDirectory` (`KeepsDirectory`). `RegistryIndex` uses `RegistryResolve` and
takes the refresh of a preview as one step, which `GitPreviewCache` is the detail
of; where its get has its archive, `RecipeGet` begins. `ComposeRun` uses
`DockerTarget`, and `ComposeArgs` says what is behind the fields of its calls:
the verb, `--build`, and where the override goes. The containers it creates are
where `VakaInit` begins, which extends `EgressRules` and meets the host's side
only in the policy it is given: containers share volumes, and nothing else.

What `ComposeRun` takes for granted. Every service has a policy, and a tag of its
own. docker compose is one step, `Execute`, which may create, replace or remove
any of the containers it may, so that an interruption of docker compose is one of
its outcomes; so are the builds beforehand. The local images that
`servicesNeedingPrebuild` asks for one by one are looked at in one step. With
`COMPOSE_IGNORE_ORPHANS` the helpers are left alone
(`docs/how-it-works.md:123`), and only verbs that create containers, and `down`,
have `--remove-orphans`. A verb with `--help` behind it, like a line without a verb,
is handed to docker compose as it stands (`compose_cmd.go:44`), and is the verb
"help" here. No service has a `pull_policy`. What an engine and a plugin can mount
(`CanMount`) is stated by the versions of Docker in which it changed
(`compatibility.go:58`), apart from the bounds that vaka compares with
(`Compatible`, `MountSource`), so that a wrong bound shows. A digest is that of one image, whoever gives it, so a
service pinned to one has a single image upstream, which is also all a build of it
can give (`HostAssumption`). Services, the helpers of an old vaka and the other
containers are different containers, and there are finitely many of the first two
and of the volumes (`LegacyAssumption`). Identities of containers are not reused.
A volume is not re-created under its name between the last look at it and its
removal, which are two calls in a row: Docker has no conditional removal. Of a
command line, words and the paths of files begin with no dash, and the files found
by default are words (`WordsAssumption`).

## Runs

| Run | Question | Bounds | Answer |
| --- | --- | --- | --- |
| `update_chain` | does an update, interrupted and resumed towards ever different releases, lose an edit it could have seen, or fail half-way where nobody raced with it? | one get at a time, three releases, kills and power losses; the user edits, restores an old shipped state, obstructs a directory, copies in a foreign journal | holds |
| `update_liveness` | is everything durable before the lock is, does the lock or a journal explain every half-applied file, does the lock move along a journal that names both ends, do racing gets exclude each other, is a journal of vaka's own never refused, is an interrupted update finished, does the directory switch atomically? And is the matrix the documented one, quiet when repeated, the same when resumed? | two gets, two releases, power losses (which end every process), fairness; the matrix over one path, with every lock entry, journal entry, disk state and incoming state | holds |
| `get` | install, update and refusal against each other and the user | three gets, two recipes, two versions, errors, kills, power losses | holds |
| `registries` | is what get takes for current current, is a name alone never resolved while another registry may hold it, is a cache only used for its source, does a name that was shown keep its meaning, is what is obtained what was published? | a get or a listing, against a refresh, an addition or a removal; two registries at a time, of four sources (two over HTTP whose entity tags coincide, a directory, a preview); errors, late answers, kills | holds |
| `git_preview` | does a served index always have its artifacts, for a grace period too, with a bounded number of artifacts; do only kills leave temporary files, and only until a removal? | two commands, one get, three commits (two sharing an artifact), room for two artifacts, errors, kills, two of which leave a file | holds |
| `git_recovers` | does refreshing recover from every leftover? | two refreshing commands, three commits of which any two fit, errors, kills, damage, fairness | holds |
| `lifecycle` | whatever creates a container, does vaka-init of the right bundle start the program of the image that runs; is docker compose never started with a mount that cannot be made; does the clean-up of an old vaka remove only its own and lose nothing; does doctor promise only what it found; does every command end; does docker compose read the line as vaka does? | two commands, two services, three images of vaka-init, two of a service, one or two changes by others, errors, kills; command lines of up to four tokens | holds |
| `launch` | does a program only run behind the rules its policy means, unprivileged, as its user, with its volumes owned, and does it run at last? | two containers sharing volumes; three addresses of both families, two ports, two ICMP types; stops anywhere, restarts, fairness | holds |
| `forgets_kept_copy` | is a kept user copy carried forward for as long as the user has it? | two gets, two releases, kills, a user who edits files, also to what a release ships, and removes none | violated: a bug |
| `commit_not_durable` | is a file in a subdirectory durable before the commit, also when an earlier, killed update renamed it? | the same | violated: a bug |
| `group_zero` | does deferring SETUID and SETGID always let the switch of identity succeed? | one container with group 0 and SETGID to drop, another with any identity | violated: a bug |
| `icmp_destination` | does an ICMP rule only match its destinations? | one rule for ICMP to one address | violated |

Why the bounds are enough. The matrix is per path; a second path is there for
what relates two (one applied, the other not; one in a subdirectory, whose sync
is separate). Between two releases every action of the matrix occurs, and three
are the shortest chain in which a file comes from a release that is neither
installed nor wanted. Three generations are enough to tell the installed lock,
the one a journal starts from and the one it ends in; `Generations` bounds
nothing else, since a nonce no lock or journal holds is reused. Two processes
contend for a flock as any number do; a third get in `get` finds what two
racing ones left. In the Git cache three commits and room for two artifacts
make an old, a new and a leftover artifact compete; a grace period of one unit
distinguishes younger, at the limit and older; `MaxAbandoned` bounds the temporary
files that kills leave: with two of them, one is not taken for that of the refresh
at work. In `launch` there is an address
of each family and one of a metadata endpoint, a rule of each kind in each list
that treats it differently, an identity for every combination of user, group
and supplementary groups the deferral of capabilities distinguishes, and lists
of capabilities, to drop and given, with all, some and none of those the switch
needs; two containers are what a dispute over a volume takes. Egress policies
and identities are varied separately because the two never meet: the ruleset is
computed from the first, everything else from the second. Its rules have no
destinations on ICMP, which `icmp_destination` has.

`registries` lets one name stand for different sources in turn, so that a command
may still hold the former; two sources whose entity tags coincide are what a stale
validator takes, and a recipe that appears in, and vanishes from, the second
registry is what makes a name ambiguous. In
`lifecycle` the hosts to begin with are listed (`Hosts` in `MCComposeRun`), since
the parts of a command that they exercise never meet: doctor on targets on each
side of every version bound of engine and plugin, and on the pre-releases at them
(`Examined`), containers created while images change
and another command builds (`Created`), and the remains of an old vaka with
shared, separate and look-alike volumes (`Migrated`), cleaned up by one command or
by two at once. One change by others is
enough for what two calls disagree about; where a change must undo another, as
when a helper is started and stopped, there are two. One service takes
everything from an image that is built, the other from one that is pinned, and
needs no runtime image. Four tokens (`MaxTokens`) hold a flag with its value, a verb
and a flag behind it; that nothing new comes with more is proved (`LinesReadAlike`). That every command ends is stated as a measure
that each of its steps lowers (`Advances`), which needs no fairness: four natural
numbers, the first of which counts most (`Rank`), so that it cannot be lowered for
ever.

`update_liveness` asks for `HalfAppliedIsRecorded` and `LockFollowsJournal` under
power losses without a user; kills and edits are covered by their theorems.

The proofs lift the results about recipes, caches, registries, docker compose,
the clean-up, volumes, egress rules and identities to every value.

Symmetry is used only in runs without temporal properties that depend on which
process acts (`get`, `git_preview`, `update_chain`: their action and safety properties are
symmetric).

## Fairness

`update_liveness` and `git_recovers` assume weak fairness of each started
process's own steps, and that a get, or a refresh, is run again: the code
cannot promise anything to a directory no command is run on. `launch` assumes
the same of each container, and that one which stopped is started again, as a
restart policy or its user does. Kills, errors and the user are never fair.
`Recovers` and `RefreshSucceeds` are claimed only of behaviours in which those
eventually stop (`Starts` of those that are `Calm` at last, for policies that
are `Satisfiable`), `RefreshSucceeds` with time passing as well, since only age
makes room in the cache.

## Findings

The four violation runs are listed with their lines in `PROJECT.json`:

- A kept user copy is forgotten when an interrupted update planned its path and
  the next release does not ship it (`update.go:553`). The trace removes nothing:
  the copy comes to hold what the release ships, is adopted by an update that is
  then killed, and is edited again before the next get.
- A resumed update syncs only the directories it renames into itself, so it can
  commit a lock over a file whose rename is not durable (`update.go:423`).
- SETGID is not deferred for a user whose group is 0 without supplementary
  groups, but the switch of identity calls `setgroups` all the same, so with
  SETGID in `dropCaps` the container never starts (`cmd/vaka-init/main.go:146`).
- An ICMP rule ignores the destinations it names (`pkg/nft/generate.go:133`), and
  ports likewise.

Met while modelling, without a run of their own:

- Recovering a committed update removes its journal before the commit is known
  durable (`update.go:228`): a power loss can undo the commit and keep the
  removal, and `HalfAppliedIsRecorded` fails with both kinds of failure enabled.
  It fails with power losses alone, too, where the user makes an update stop
  half-way, by removing a file the update is about to remove: what that update
  renamed is not synced by the next (`update.go:423`), and may be undone after
  the commit. The user's edits survive both (`EditsSurvive`).
- A kill between removing the journal and the staging tree leaves the latter for
  good (`update.go:454`): no later get has a journal that would make it look.
- The capabilities deferred for the switch are dropped after it whether or not
  `dropCaps` names them (`cmd/vaka-init/main.go:166`): a service with user
  `0:1000` that drops only NET_ADMIN also loses SETGID, which is more than its
  policy asks, from every set.
- That second drop needs SETPCAP again, so a policy that drops SETPCAP itself
  fails for a user `0:1000`, if the capability library reports it:
  `Satisfiable` leaves such policies out of `Starts`. That it does report a
  missing SETPCAP is what `applyCapDrop` expects of it (`main.go:257`) and what
  the model takes for granted; a library that skipped the bounding set instead
  would break `PrivilegesDropped` for root in a container with `cap_drop: ALL`.
- Capability sets belong to a thread, and nothing locks the goroutine of `main`
  to one between the drop and the exec (`cmd/vaka-init/main.go:245`).
- The supplementary groups a compose file adds (`group_add`) are replaced by
  those of the service's user when vaka-init switches to it.
- The `type` of a rule that is not ICMP is ignored.
- `Install` reports an error when the parent cannot be synced, with the recipe in
  place (`install.go:107`), although "failure leaves nothing behind"
  (`install.go:29`). `FailureLeavesNothing` is stated of failures before the
  commit; the outcome `unsynced` is the other.
- A user who creates or edits a file between the pre-check (`update.go:403`) and
  the rename loses it. `EditsSurvive` is stated of what was there at the
  pre-check; no portable file system call closes that window for a replaced file.
- `add-git` that is killed before it saves the configuration, or a refresh that
  loaded the configuration before a concurrent `remove`, leaves a cache for a
  registry that is not configured. A registry added later under that name only
  uses it if its source is the same.
- Two registry commands that load, change and save the configuration at once lose
  the change of the first (`config.go:286`).
- A removal during a fetch is undone by it: the fetch writes the cache again
  (`fetch.go:278`), although "removing a registry also removes its cached data"
  (`docs/security.md:69`). No index is used for another source all the same
  (`IndexFromItsSource`).
- A "not modified" renews the time of the cache file that is there then, which
  may be another command's (`fetch.go:264`); it is never older than what was asked.
- A container that mounts the volume of an old vaka after the consumers were
  listed, or a kill or an error between the removal of the helpers and that of
  the volume, leaves a volume that no later command finds
  (`legacy_migration.go:147`); so does a capture that fails before
  `--remove-orphans` takes the helpers (`intercept.go:201`). `NothingStranded` is
  stated of the others.
- Two clean-ups of one volume with two helpers may each fail to remove one of
  them, each the other's, and both leave the volume to a later command, which no
  helper leads to it any more (`legacy_migration.go:135`). The proof of
  `NothingStranded` found this, and `lifecycle` has such a beginning since;
  `NothingStranded` is stated of the volumes to which it has not happened
  (`stray`).
- `--build` builds only the services that need their image's defaults
  beforehand (`intercept.go:414`), although a comment says every service with a
  build section (`intercept.go:239`); the others lose nothing by it.
- A service that is built, names no image and needs its defaults is built
  beforehand, and refused afterwards (`images.go:405`).
- `-fFILE` in one token is not seen as a file (`invocation.go:299`): the files
  found by default are added before it and the override is not last. `--build=true`
  is not seen as `--build` (`invocation.go:280`). `ComposeArgs` has neither form,
  and what is proved of command lines is proved of lines without them.
- docker compose reads the user's files again after vaka validated them
  (`intercept.go:229`); the files are outside the model.
- A refresh that is killed while it packages a recipe leaves the archive
  (`.git-artifact-*.tar.gz`, `git_objects.go:104`) in the registry's directory,
  and one killed while it writes the index leaves `.cache-*` there
  (`fetch.go:382`). Only `artifacts/` is pruned (`git.go:471`) and counted
  (`git.go:524`), so these stay, however many, until the registry is removed, and
  the 512 MiB of `docs/security.md:65` hold for `artifacts/` alone, as does
  `CacheBounded`. `OnlyKillsLeaveFiles` says that nothing but kills leaves them.
  What a killed refresh leaves of its clone and of a recipe under validation is in
  the system's temporary directory (`git.go:274`, `git.go:359`), outside the model.
- A pre-release counts as older than its release (`compatibility.go:32`), so engine
  29.0.0-rc.1 is taken for one that does not hex-encode, and plugin 5.1.0-desktop.1
  for one that does not expand. `CanMount` assumes that each does what the version
  before it did; if the pre-release has the change already, the check passes and
  the mount fails.
- `pull_policy: build` in a compose file, and the rebuilds of `watch`, give a
  service another image after its entrypoint was read (`intercept.go:241-268`
  builds beforehand for `--build` and for images that are missing). Both are
  outside `Runs`, and `EntrypointMatches` is stated without them.
- The artifacts of the served index are never pruned, so a commit that does not
  fit in the cache beside them cannot be published until the registry is removed.

## Proofs

`tlapm` checks, for every value of the constants:

- `RecipeUpdateProofs`: `HolderOwnsTheDirectory`, from `IInv` (types, typed
  locals between the steps that set and use them, and mutual exclusion);
  `LockAlwaysAccounts`, from `AccountsInv`, which carries the property from the
  plan through the writer's local copy to the lock and to the durable one; and
  `OwnJournalAlwaysRecognised`, from `JournalInv`. The last is not inductive
  alone: after a power loss the journal may be the visible or the durable one,
  and so may the lock, so the binding is stated of each pair, and it holds
  because a journal is written only over a durable lock and is durable itself
  before the lock moves. `UpdateAlwaysTyped` is read off `IInv`.
  `LockAlwaysFollowsJournal` adds `CommitInv` to `JournalInv`: without kills, the durable lock is another
  than the visible one only while the process that commits is still at it. It assumes
  `~ ({"kill", "power"} \subseteq Failures)`, because with both kinds a get after
  the kill takes that journal away (see Findings).
  `AlwaysFailsOnlyOnRace` follows from `FeasibleInv`: what is still to be applied
  can be, as the pre-check found, unless the user has changed it since. Together
  with `SyncedInv` (only the update at work leaves something that is not durable,
  and it is to sync it) it gives `AlwaysDurableBeforeCommit`, for `"kill" \notin Failures` and a user who
  writes files only (`UserEntries \subseteq Contents`), so that no update stops
  half-way. Those are the conditions of `update_liveness`; without the
  first the property is false (`commit_not_durable`).
- `RecipeRecoveryProofs`: `EditsAlwaysSurvive`, for any failures, from `EditsInv`:
  no lock or journal that counts gives an edit to vaka, and edits are durable
  (`EditedInv`), and what a holder's plan knows of each path (`RowSound`,
  `Spares`, `Extends`) adds nothing to what is recorded but the new state. A power
  loss ends every holder and keeps every edit, and where an old lock comes back
  whose content the user had restored, that content is recorded again.
  `HalfAppliedAlwaysRecorded` is the converse, that what only vaka writes is
  recorded. It is stated of whatever a power loss may bring back (`Locks`,
  `Journals`, `Found`): `ExplainedInv` says that any of these locks and journals
  explains any of these files, and `Progress` that what an update has no longer to
  do is done. Steps that leave nothing but what might have come back anyway
  (`NothingNew`) are dealt with once. It assumes that either the power never
  fails, or nothing else ends an update half-way (`Gentle`); otherwise it is false
  (see Findings).
  `AlwaysSwitchesAtomically` is the refinement of `RecipeSwitch`, in a directory the
  user leaves alone. Its invariant says that whichever of the two images each of the
  lock, the journal and the paths is found in, they fit together (`WholeInv`): where the
  journal is pending for the lock, every path is gone or in a state the journal
  records, and otherwise it is what the lock says. To keep it across a commit,
  `Course` says that an update plans the whole release (`Heads`) and that the journal it
  is to write covers what is there (`Covers`). It needs `CommitInv` and `SyncedInv`
  where the power may fail, so it assumes that
  processes are killed or the power fails, not both: with both, the lock of a killed commit
  can be undone after the next get has taken its journal away (see Findings).
- `RecipeMatrixProofs`: `AlwaysMatchesDesign`, `AlwaysQuietAgain` and
  `ResumedUpdateAlwaysAgrees`, for any set of contents and any journal. A row of
  the matrix is fixed by who owns what the disk holds (`UserOwned`), by whether the
  release ships the path, and by whether it is there already (`ActionCases`,
  `DeviationCases`); the repeated and the resumed update are then instances of
  the same cases, on the lock and journal the first one leaves.
- `RecipeGetProofs`: `GetKeepsDirectory` (refinement of `RecipeDirectory`, step
  simulation under `IInv`), `FailuresLeaveNothing`, `InstallsSurvive`. `IInv`
  says what each process knows of its staging tree at each stage, and that a
  tree at the target is complete, durable, and in the hands of a process that
  committed it. `OwnStepFrame` deals with the steps that leave the target alone,
  once for all of them.
- `GitPreviewProofs`: `IndexAlwaysComplete` and `GraceAlwaysHonoured`, from
  `IInv`: the refresh lock excludes (`Excludes`), a refresh that has built its
  artifacts finds them stored and fresh until it lets go of the lock (`Knows`),
  and what another command still relies on is stored (`Relied`). An index is
  only complete because eviction and the write of the cache happen under one
  lock, which is what the strengthening says. `CacheAlwaysBounded` follows
  from `BoundInv` and counting: the cache is measured after each artifact, so one
  is the most that exceeds the capacity, and a refresh that finds more undoes
  what it created and goes no further; temporary files are not counted, in the code
  either. `OnlyKillsAlwaysLeaveFiles` is a part of `IInv`: it needs the lock, under
  which each temporary file is made and used up, and gives that a removal finds
  no other files than those of killed commands (`RemoverAlone`).
- `VakaInitProofs`: `PrivilegesAlwaysDropped` and `AlwaysRunsAsAsked`, from
  `IInv`. That a running program lacks a capability says nothing of how it came
  to: `Bounded` says that nothing is ever inheritable or ambient, and that from
  the drop on the bounding set, from which alone root regains capabilities at
  exec, is disjoint from the list; what was deferred survives the drop in the
  effective and permitted sets only, which exec replaces. `Identified` says how
  much of the identity has been taken at each stage. The policies are assumed to
  name identities and capabilities and to be of the right shape
  (`DeploymentsAssumption`); nothing is assumed of which capabilities a container
  was given, or of the volumes.
  `VolumesAlwaysOwned` follows from `VolumesInv`: an action of a container that has
  the last word on a path (`Decides`), once it has changed it (`Made`), finds the
  path as it wants it from then on, for as long as nobody who shares it wants
  otherwise (`Agreed`). A container that starts again has made no change yet, so
  nothing is claimed of it until it has, and one that runs has made them all.
  `EgressAlwaysEnforced` has two parts. `NetworkInv` says that what is loaded is
  generated from the container's own policy and answers. `RulesetFaithful`
  says what a generated ruleset means: a rule's block is about the packets that the
  rule covers (`BlockMeaning`), a verdict is that of the first block that is
  about the packet (`VerdictYielded`), and the first block of a
  concatenation is that of its first part that has one (`Concatenation`). It
  assumes of each valid rule that it is `Meant`: no destinations or ports on
  ICMP, where they are ignored (see Findings), and no type elsewhere.

- `RegistryIndexProofs`: `AlwaysRevalidatedIsCurrent`,
  `AlwaysUnqualifiedIsUnique`, `AlwaysIndexFromItsSource`, `AlwaysBrowseIsRecent`,
  `AlwaysShownNamesResolve`, `AlwaysObtainedAsPublished` and the types, from
  `IInv`. A command's request outlives the cache entry it was made with: `Asked`
  says that the cache may since have been emptied, or have been replaced only by
  an index of the current window, and `Answered` that a "not modified" confirms
  what the request carried, not what the file holds then. `Stored` ties what is
  cached to the tag and source it was served with; together they give `Loaded`,
  of every index a command has. `Strictly` says that a get by a name alone goes on
  only with a current index of each published registry, from which `Resolved`
  follows when the reference is resolved. That a shown name means what it was
  shown for is a fact about any configuration and any indexes
  (`ShownRowResolves`).
- `ComposeRunProofs`: three inductive invariants. `RunInv` follows one command from
  its checks to docker compose: what was checked of the target (`Checked`), which
  image of vaka-init was looked at, and that it is the one mounted unless others
  changed it (`Runtime`), which entrypoints were read (`Read`) and that they are
  still the tags' unless others moved them (`Stable`), and what doctor's
  results stand for (`Probed`). `AlwaysContainersManaged`,
  `AlwaysEntrypointMatches`, `AlwaysNoDoomedRun` and `AlwaysDoctorVouches` follow,
  the latter two with `CompatibleMounts`, which compares vaka's bounds with what
  Docker does for every pair of versions.
  `CleanupInv` follows the volumes of an old vaka, from which
  `AlwaysNothingStranded` and `AlwaysOnlyLegacyRemoved`: a volume that is left for
  the sake of a helper still has that helper, or a clean-up that left none
  (`Reached`, `Deferred`), of two clean-ups at one volume not both have left a
  helper, and nobody else uses a volume whose helpers are being removed (`Alone`).
  `NothingStranded` alone is far from inductive, since it speaks of one volume and
  a clean-up that leaves it relies on what the other commands do.
  `AlwaysAdvances` goes through the actions (`CommandNearer`): a step comes to a
  later phase, or leaves one volume, helper, service or check less to deal with,
  or one attempt less at the image (`Smaller`, from the finiteness of what is
  counted). It needs that doctor looks for the image only while that check is
  open (`Awaited`), or answering it would not lower the measure. The
  beginnings are any that `BeginningsAssumption` allows, so there is any number
  of commands, helpers and volumes.
  `AlwaysReadsAlike` follows from `LinesReadAlike`, which is about command lines of
  any length. The provers cannot use an induction theorem about an operator, so the
  module derives one about sets: a set of numbers with 0, and with the successor of
  each of its members, is `Nat` (`Induction`, from the least number of what is
  missing). It gives that the functions by which a line is scanned exist
  (`RecursionExists`, `TakesIs`, `ReadIs`), that a flag takes what it took wherever
  two lines agree (`TakesAlike`), and what is read where they do (`ReadAlike`,
  `NoneRead`). The heart is `Inserted`: a file flag and its value, put where a flag
  may start and behind which no file is named before the verb, are read after
  all files and leave the verb and what is behind it as they were. The override is
  put there, since after the value of a file flag a flag starts (`FileEnds`), and so
  it does after the files found by default (`FoundRead`).

The assumptions are those the modules name: sentinels are not data, constants are
of the right shape, and, for docker compose, what `ComposeRun` takes for granted.
Nothing else is assumed.

Model-checked only: the liveness properties (`Recovers`, `RefreshSucceeds`,
`Starts`), which need fairness, and for which the provers have no rule.

## Not modelled

The parsing and validation of archives, manifests and policies (stateless; a
refusal happens before anything is written), how compose-go loads a project, the
capability delta, the encoding of a policy into a secret, the copying of streams,
`show-compose` (which builds its override as `ComposeRun` does, up to `Execute`),
Git objects and their packs, permissions, symbolic links and devices in place of
files (`vaka-init` changes the owner of a link and never follows one), the
parsing of `mountinfo`, threads, presentation, and the build scripts. Each
component of the inventory is listed with its reason in `PROJECT.json`. Platforms
without an atomic no-replace rename (`rename_other.go`) are outside `RecipeGet`:
the fallback there may replace an entry that appears in between, as its comment
says. A hostname is resolved once, before the program starts, as
`docs/policy.md:110` says: `EgressEnforced` is about the addresses it had then.

## Plan

Every safety and action property that the runs check is a theorem; so is
`LockAccountsForRelease`, which no run checks: `NewLock` establishes it, and no
other step makes a lock. What could
come next is the model's breadth: the walk of the Git objects behind a tag and the
merge of the policy's parts, which are pure, and for which an induction over sets
like that of `ComposeRunProofs` would carry the proofs.
