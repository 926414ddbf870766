---------------------------- MODULE MCComposeRun ----------------------------
(***************************************************************************)
(* Instances of ComposeRun for TLC.                                        *)
(***************************************************************************)
EXTENDS ComposeRun, TLC

CONSTANTS c1, c2, web, db, current, old, partial, w1, w2, d1, h1, h2, other, va, vb, vc

Bundles ==
  current :> "required" @@ old :> "older" @@ partial :> "required" @@
  w1 :> None @@ w2 :> None @@ d1 :> None

\* One service is built and takes all from its image; the other is pinned.
Project ==
  web :> [image |-> TRUE, pinned |-> FALSE, build |-> TRUE, entrypoint |-> FALSE,
          user |-> FALSE, optOut |-> FALSE] @@
  db :> [image |-> TRUE, pinned |-> TRUE, build |-> FALSE, entrypoint |-> FALSE,
         user |-> TRUE, optOut |-> TRUE]

Plain == [verb |-> "up", build |-> FALSE, orphans |-> FALSE, refresh |-> FALSE,
          policy |-> "missing-pinned", present |-> FALSE, fix |-> FALSE]

P(engine, compose, linux) ==
  [engine |-> engine, api |-> MinApi, client |-> MinApi, compose |-> compose, linux |-> linux]

Clean == [x \in Containers |-> None]

NoVolumes == [v \in Volumes |-> "gone"]

\* One helper has an anonymous volume, which a service of the old vaka has too; the
\* other has a volume that only looks like one.
Partial == [Clean EXCEPT ![h1] = va, ![h2] = vb, ![web] = va]

\* Two helpers have the same volume; another container has one that was given a name.
Shared == [Clean EXCEPT ![h1] = va, ![h2] = va, ![other] = vb]

\* A helper has a volume that was given a name by its marker only.
Lookalike == [Clean EXCEPT ![h1] = va, ![h2] = vc]

\* Each helper has an anonymous volume.
Separate == [Clean EXCEPT ![h1] = va, ![h2] = vb]

AllMarked == va :> "anonymous" @@ vb :> "anonymous" @@ vc :> "named"

Marked == va :> "anonymous" @@ vb :> "named" @@ vc :> "anonymous"

Begin(p, calls1, calls2, mounted, vols, n) ==
  [platform |-> p, calls |-> c1 :> calls1 @@ c2 :> calls2, mounted |-> mounted,
   volumes |-> vols, changes |-> n]

\* Versions on both sides of each bound, and the pre-releases at the bounds.
Engines ==
  {Version(28, 0, 0), Version(28, 5, 2), Version(29, 0, 0), Version(29, 1, 9),
   Version(29, 2, 0)} \union
  {PreRelease(v) : v \in {Version(28, 0, 0), Version(29, 0, 0), Version(29, 2, 0)}}

Plugins ==
  {Version(2, 35, 0), Version(5, 0, 9), Version(5, 1, 0)} \union
  {PreRelease(v) : v \in {Version(2, 35, 0), Version(5, 1, 0)}}

Supported == P(Version(28, 0, 0), Version(5, 1, 0), TRUE)

\* doctor, on targets that are supported and not.
Doctor(p, fixes) ==
  Begin(p, {[Plain EXCEPT !.verb = "doctor", !.fix = f] : f \in fixes}, {}, Clean, NoVolumes, 1)

Examined ==
  {Doctor(P(e, k, TRUE), {FALSE}) : e \in Engines, k \in Plugins} \union
  {Doctor(p, BOOLEAN) :
     p \in {Supported, P(Version(29, 1, 0), Version(5, 1, 0), TRUE),
            P(Version(29, 2, 0), Version(5, 1, 0), FALSE),
            [Supported EXCEPT !.client = PreRelease(@)]}}

\* Containers are created while images change and others build.
Created ==
  {Begin(Supported, {[Plain EXCEPT !.build = TRUE]}, {[Plain EXCEPT !.verb = "build"]},
         Clean, NoVolumes, 1),
   Begin(Supported, {[Plain EXCEPT !.refresh = TRUE, !.policy = "missing"]},
         {[Plain EXCEPT !.verb = "build"]}, Clean, NoVolumes, 0),
   Begin(P(Version(29, 1, 0), Version(5, 0, 0), TRUE),
         {[Plain EXCEPT !.verb = "later"], [Plain EXCEPT !.verb = "pull"]}, {},
         Clean, NoVolumes, 1),
   Begin(P(Version(29, 1, 0), Version(5, 1, 0), TRUE), {Plain}, {}, Clean, NoVolumes, 1)}

\* The runtime of an old vaka is cleaned up, by one command or by two at once.
Down == [Plain EXCEPT !.verb = "down", !.orphans = TRUE]

Migrated ==
  {Begin(Supported, {[Plain EXCEPT !.present = TRUE, !.orphans = TRUE]}, {}, Partial, Marked, 1),
   Begin(Supported, {Down}, {Down, [Plain EXCEPT !.verb = "version"]}, Partial, Marked, 1),
   Begin(Supported, {Down}, {}, Shared, Marked, 2),
   Begin(Supported, {Down}, {}, Lookalike, Marked, 2),
   Begin(Supported, {Down}, {}, Separate, AllMarked, 1),
   Begin(Supported, {Down}, {Down}, Shared, Marked, 0)}

Hosts == Examined \union Created \union Migrated

Upstreams ==
  "runtime" :> {current, old, partial} @@ web :> {w1, w2} @@ db :> {d1}

Builds == web :> {w1, w2} @@ db :> {d1}

\* What the built service is built from was edited since.
Edited == web :> w2 @@ db :> d1

Tagged == "runtime" :> None @@ web :> w1 @@ db :> None

\* Two files are found.
Found == <<"compose.yaml", "compose.override.yaml">>

=============================================================================
