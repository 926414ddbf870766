--------------------------- MODULE RegistryResolve ---------------------------
(***************************************************************************)
(* Which recipe a reference means (pkg/registry/resolve.go, get.go,        *)
(* registryclient.go): a configuration maps registry names to sources, a   *)
(* world maps them to the indexes that could be loaded, and an index holds *)
(* releases of recipes.                                                    *)
(***************************************************************************)
EXTENDS Integers, FiniteSets

CONSTANTS
  Names,     \* registry names
  Sources,   \* what a registry may point to: an index URL, a Git URL and ref
  Kind,      \* of a source: "index" (https), "file" or "git"
  Versions,  \* the versions of a source's index, which are its entity tags too
  Recipes,   \* recipe names
  Releases,  \* versions of recipes, in their order; 0 is one that is not SemVer
  Holds,     \* the releases of each recipe in each version of a source's index
  None

ASSUME KindAssumption == Kind \in [Sources -> {"index", "file", "git"}]

ASSUME ReleasesAssumption == Releases \subseteq Nat

ASSUME HoldsAssumption ==
  \A s \in Sources : DOMAIN Holds[s] \subseteq Versions /\ \A v \in DOMAIN Holds[s] :
    /\ DOMAIN Holds[s][v] \subseteq Recipes
    /\ \A r \in DOMAIN Holds[s][v] : Holds[s][v][r] \subseteq Releases

Configs == [Names -> Sources \union {None}]

Indexes == [source : Sources, version : Versions]

ASSUME NamesAssumption == IsFiniteSet(Names)

ASSUME NoneAssumption ==
  /\ None \notin Names /\ None \notin Sources /\ None \notin Versions
  /\ None \notin Recipes /\ None \notin Releases /\ None \notin Indexes

Refs == [registry : Names \union {None}, name : Recipes, version : Releases \union {None}]

-----------------------------------------------------------------------------
IsGit(s) == Kind[s] = "git"

Configured(conf) == {n \in Names : conf[n] # None}

Published(conf) == {n \in Configured(conf) : ~ IsGit(conf[n])}

Catalog(i) == DOMAIN Holds[i.source][i.version]

\* The exact version asked for, or the highest that is one.
SelectVersion(ref, versions) ==
  IF ref.version # None
  THEN versions \intersect {ref.version}
  ELSE {v \in versions \ {0} : \A w \in versions : v >= w}

\* What a reference means in one registry: at most one entry.
Entries(conf, world, n, ref) ==
  IF n \notin Configured(conf) \/ world[n] = None
  THEN {}
  ELSE LET i == world[n] IN
       {[registry |-> n, source |-> conf[n], name |-> ref.name, release |-> v,
         revision |-> IF IsGit(conf[n]) THEN i.version ELSE None] :
          v \in IF ref.name \in Catalog(i)
                THEN SelectVersion(ref, Holds[i.source][i.version][ref.name]) ELSE {}}

Candidates(conf, world, name) ==
  {n \in Published(conf) : world[n] # None /\ name \in Catalog(world[n])}

\* Previews are never meant by a name alone, nor is a registry among several.
Resolve(conf, world, ref) ==
  LET candidates == Candidates(conf, world, ref.name) IN
  IF ref.registry # None
  THEN Entries(conf, world, ref.registry, ref)
  ELSE UNION {Entries(conf, world, n, ref) : n \in {m \in candidates : candidates = {m}}}

\* The reference that the arguments of vaka get give: a name, or else the recipe
\* installed in the target directory.
GetRefs(args, lock) ==
  IF args.name # None THEN {args}
  ELSE {[registry |-> l.registry, name |-> l.name, version |-> args.version] :
          l \in {lock} \ {None}}

CatalogRows(conf, world) ==
  {row \in Names \X Recipes :
     Entries(conf, world, row[1],
             [registry |-> row[1], name |-> row[2], version |-> None]) # {}}

\* Bug: the registries that could be loaded are counted, not those configured.
DisplayName_Loaded(conf, world, n, r) ==
  [registry |-> IF Cardinality({m \in Published(conf) : world[m] # None}) > 1 \/ IsGit(conf[n])
                THEN n ELSE None,
   name |-> r, version |-> None]

\* The name under which a recipe is listed and completed.
DisplayName(conf, world, n, r) ==
  [registry |-> IF Cardinality(Published(conf)) > 1 \/ IsGit(conf[n]) THEN n ELSE None,
   name |-> r, version |-> None]

=============================================================================
