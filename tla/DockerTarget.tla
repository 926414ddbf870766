---------------------------- MODULE DockerTarget ----------------------------
(***************************************************************************)
(* Which Docker targets and images vaka accepts (cmd/vaka/compatibility.go,*)
(* images.go, pull.go), and what it still has to ask of an image.          *)
(***************************************************************************)
EXTENDS Integers, FiniteSets

CONSTANTS
  Images,      \* image identities
  Bundle,      \* the bundle version each image is labelled with, or None
  Required,    \* the bundle version this vaka needs
  ContentOnly, \* images a tag may lead to, but no inspection by identity
  Services,    \* the services of the project, all with a policy
  Declared,    \* what its compose file says of each
  None

ASSUME ImagesAssumption ==
  /\ None \notin Images /\ Required # None
  /\ ContentOnly \subseteq Images /\ DOMAIN Bundle = Images

\* Whether the compose file names an image, by its digest, a build, an entrypoint
\* and a user, and says that the image has vaka-init itself.
ASSUME DeclaredAssumption ==
  Declared \in [Services -> [image : BOOLEAN, pinned : BOOLEAN, build : BOOLEAN,
                             entrypoint : BOOLEAN, user : BOOLEAN, optOut : BOOLEAN]]

\* The place of major.minor.patch in semver's order; before each release, one place
\* for its pre-releases.
Version(major, minor, patch) == 2 * (10000 * major + 100 * minor + patch)

PreRelease(version) == version - 1

Platforms == [engine : Nat, api : Nat, client : Nat, compose : Nat, linux : BOOLEAN]

MinEngine == Version(28, 0, 0)
MinApi == Version(1, 48, 0)
MinCompose == Version(2, 35, 0)
BugStart == Version(29, 0, 0)
BugFix == Version(29, 2, 0)
ExpandsId == Version(5, 1, 0)

-----------------------------------------------------------------------------
EngineCompatible(p) == p.engine >= MinEngine /\ p.api >= MinApi /\ p.client >= MinApi

ComposeCompatible(p) == p.compose >= MinCompose

\* Bug: the engines between the bound and the next minor version are forgotten.
Affected_OneMinor(p) == p.engine >= BugStart /\ p.engine < Version(29, 1, 0)

\* Engines that make one file name of a mounted image's identity.
Affected(p) == p.engine >= BugStart /\ p.engine < BugFix

\* Newer plugins expand a prefix of an identity.
MountsCompatible(p) == ~ (Affected(p) /\ p.compose >= ExpandsId)

\* CheckRuntimeCompatibility.
Compatible(p) == EngineCompatible(p) /\ ComposeCompatible(p) /\ MountsCompatible(p)

\* selectRuntimeMountSource.
MountSource(p) == IF Affected(p) THEN "prefix" ELSE "identity"

\* What Docker makes of an image mount, by the first two digits of its versions: engine
\* 29.0 and 29.1 name a file for the hex code of the identity they are given, too long
\* for a whole one; compose 5.1 and later give them a whole one.  A pre-release is taken
\* to do what the version before it did.
MinorOf(version) == version \div 200

HexEncodes(engine) == MinorOf(engine) \in {2900, 2901}

GivesWhole(compose, source) == source = "identity" \/ MinorOf(compose) >= 501

CanMount(p, source) ==
  /\ MinorOf(p.engine) >= 2800 /\ MinorOf(p.compose) >= 235
  /\ ~ (HexEncodes(p.engine) /\ GivesWhole(p.compose, source))

-----------------------------------------------------------------------------
\* validateRuntimeImage.
Acceptable(i) == Bundle[i] = Required

\* What the compose file does not say comes from the image.
NeedsImageFallback(s) == ~ Declared[s].entrypoint \/ ~ Declared[s].user

PullsMissing(policy, s) ==
  policy = "missing" \/ (policy = "missing-pinned" /\ Declared[s].pinned)

\* Bug: an image that exists is never built beforehand.
NeedsPrebuild_IfAbsent(s, exists, force) ==
  NeedsImageFallback(s) /\ Declared[s].build /\ ~ (Declared[s].image /\ exists)

\* servicesNeedingPrebuild.
NeedsPrebuild(s, exists, force) ==
  NeedsImageFallback(s) /\ Declared[s].build /\ (force \/ ~ (Declared[s].image /\ exists))

=============================================================================
