---------------------------- MODULE RegistryIndex ----------------------------
(***************************************************************************)
(* The commands that use registries (cmd/vaka/registry_cmd.go, get.go,     *)
(* registryclient.go, pkg/registry/fetch.go, config.go).  They share the   *)
(* configuration file and one cached index per registry name, both         *)
(* replaced by a rename and neither guarded by a lock, while the sources   *)
(* publish new indexes.  The preview of a Git source is refreshed in one   *)
(* step here; GitPreviewCache has its steps.                               *)
(***************************************************************************)
EXTENDS RegistryResolve

CONSTANTS
  Commands,   \* vaka processes
  Operations, \* what each may be
  Arguments,  \* of vaka get: references, without a name to update in place
  Lock,       \* the registry and name in the target directory's lock, or None
  Offers,     \* the registries that may be added, and removed: names with sources
  FirstConfigs, \* the configurations to begin with
  TooNew,     \* releases that need a newer vaka
  Mirrors,    \* the kinds of URL, "https" or "file", of a source's releases
  Failures    \* a subset of {"error", "kill"}

ASSUME OperationsAssumption ==
  Operations \in [Commands -> SUBSET {"get", "browse", "refresh", "add", "remove"}]

ASSUME ArgumentsAssumption ==
  /\ Arguments \subseteq [registry : Names \union {None}, name : Recipes \union {None},
                          version : Releases \union {None}]
  /\ Lock \in [registry : Names \union {None}, name : Recipes] \union {None}
  /\ None \notin [registry : Names \union {None}, name : Recipes]

ASSUME ConfigsAssumption ==
  Offers \subseteq Names \X Sources /\ FirstConfigs \subseteq Configs

ASSUME TagsAssumption == "not modified" \notin Versions

ASSUME MirrorsAssumption == Mirrors \in [Sources -> SUBSET {"https", "file"}]

VARIABLES
  config,    \* registries.yaml
  cache,     \* the cache.yaml of each name, or None
  published, \* the version each source serves now
  pc, op,    \* where each command is, and which it is
  conf,      \* the configuration it loaded, with its own change
  ref,       \* the reference it resolves, or the registry it works on
  todo,      \* the registries whose index it still has to fetch
  request,   \* its request: for which name, with what cached, and the answer
  world,     \* the indexes it has, and how it came by them
  result,    \* what it resolved
  seen,      \* ghost: what its sources served since it started
  recent     \* ghost: what the sources served in the current window of freshness

locals == <<op, conf, ref, todo, request, world, result, seen>>
vars == <<config, cache, published, pc, locals, recent>>

Stages == {"idle", "fetching", "asking", "answered", "resolved", "obtained",
           "building", "saving", "undoing", "removing"}

\* A cached index with the source and the entity tag it belongs to, and whether
\* the file is younger than browseIndexMaxAge.
Envelopes == [source : Sources, tag : Versions, index : Indexes, fresh : BOOLEAN]

Hows == {"current", "cached", "preview", "stale"}

Entry == [registry : Names, source : Sources, name : Recipes, release : Releases,
          revision : Versions \union {None}]

\* What get resolved, and where it has the bytes from.
Results == [entry : Entry, bytes : {"none", "promised", "other"},
            via : {"none", "https", "file"}]

ASSUME LoadedAssumption ==
  None \notin Envelopes /\ None \notin Results /\ None \notin [index : Indexes, how : Hows]

TypeOK ==
  /\ config \in Configs
  /\ cache \in [Names -> Envelopes \union {None}]
  /\ published \in [Sources -> Versions]
  /\ pc \in [Commands -> Stages]
  /\ op \in [Commands -> {"get", "browse", "refresh", "add", "remove"}]
  /\ conf \in [Commands -> Configs]
  /\ ref \in [Commands -> [registry : Names \union {None}, name : Recipes \union {None},
                           version : Releases \union {None}]]
  /\ todo \in [Commands -> SUBSET Names]
  /\ request \in [Commands -> [name : Names \union {None}, sent : Envelopes \union {None},
                               answer : Versions \union {None, "not modified"}]]
  /\ world \in [Commands -> [Names -> [index : Indexes, how : Hows] \union {None}]]
  /\ result \in [Commands -> Results \union {None}]
  /\ seen \in [Commands -> SUBSET Indexes]
  /\ recent \subseteq Indexes

-----------------------------------------------------------------------------
NoRef == [registry |-> None, name |-> None, version |-> None]

NoRequest == [name |-> None, sent |-> None, answer |-> None]

NoConfig == [n \in Names |-> None]

Current(s) == [source |-> s, version |-> published[s]]

Serving == {Current(s) : s \in Sources}

\* Bug: the file under the registry's name is used whatever it was written for.
ReadIndexCache_AnySource(n, s) == cache[n]

\* readIndexCache: a cache written for another source is none.
ReadIndexCache(n, s) ==
  IF cache[n] # None /\ cache[n].source = s THEN cache[n] ELSE None

\* CachedIndex, which shell completion uses: local files only.
CachedIndex(n, s) ==
  IF Kind[s] = "file" THEN Current(s)
  ELSE LET e == ReadIndexCache(n, s) IN IF e = None THEN None ELSE e.index

\* The index of each registry, without how it was loaded.
IndexesOf(w) == [n \in Names |-> IF w[n] = None THEN None ELSE w[n].index]

\* The indexes shell completion has.
Cached == [n \in Names |-> IF config[n] = None THEN None ELSE CachedIndex(n, config[n])]

\* A row's shown name means the row's registry, if it means anything, in a world
\* where every source of the configuration is reached.
Means(cf, w, row) ==
  LET served == [n \in Names |-> IF cf[n] = None THEN None ELSE Current(cf[n])] IN
  \A e \in Resolve(cf, served, DisplayName(cf, w, row[1], row[2])) : e.registry = row[1]

Init ==
  /\ config \in FirstConfigs
  /\ cache = [n \in Names |-> None]
  /\ published \in {p \in [Sources -> Versions] : \A s \in Sources : p[s] \in DOMAIN Holds[s]}
  /\ pc = [c \in Commands |-> "idle"]
  /\ op = [c \in Commands |-> "get"]
  /\ conf = [c \in Commands |-> NoConfig]
  /\ ref = [c \in Commands |-> NoRef]
  /\ todo = [c \in Commands |-> {}]
  /\ request = [c \in Commands |-> NoRequest]
  /\ world = [c \in Commands |-> [n \in Names |-> None]]
  /\ result = [c \in Commands |-> None]
  /\ seen = [c \in Commands |-> {}]
  /\ recent = Serving

Step(c, from, to) ==
  /\ pc[c] = from
  /\ pc' = [pc EXCEPT ![c] = to]

\* A command returns, or is killed.
Ends(c) ==
  /\ pc' = [pc EXCEPT ![c] = "idle"]
  /\ op' = [op EXCEPT ![c] = "get"]
  /\ conf' = [conf EXCEPT ![c] = NoConfig]
  /\ ref' = [ref EXCEPT ![c] = NoRef]
  /\ todo' = [todo EXCEPT ![c] = {}]
  /\ request' = [request EXCEPT ![c] = NoRequest]
  /\ world' = [world EXCEPT ![c] = [n \in Names |-> None]]
  /\ result' = [result EXCEPT ![c] = None]
  /\ seen' = [seen EXCEPT ![c] = {}]

-----------------------------------------------------------------------------
\* A command that fetches loads the configuration: all of it, or one registry.
Load(c, kind, r) ==
  /\ kind \in Operations[c]
  /\ Step(c, "idle", "fetching")
  /\ op' = [op EXCEPT ![c] = kind]
  /\ conf' = [conf EXCEPT ![c] = config]
  /\ ref' = [ref EXCEPT ![c] = r]
  /\ todo' = [todo EXCEPT ![c] =
       {n \in Configured(config) : r.registry \in {None, n}}]
  /\ seen' = [seen EXCEPT ![c] = IF kind = "refresh" THEN {} ELSE Serving]
  /\ UNCHANGED <<config, cache, published, request, world, result, recent>>

Get(c) == \E args \in Arguments : \E r \in GetRefs(args, Lock) : Load(c, "get", r)

Browse(c) == Load(c, "browse", NoRef)

Refresh(c) ==
  \E n \in Configured(config) \union {None} :
    Load(c, "refresh", [registry |-> n, name |-> None, version |-> None])

\* registry add and add-git; the name must be free.  A preview is built before
\* it is added.
Add(c, n, s) ==
  /\ "add" \in Operations[c]
  /\ config[n] = None
  /\ Step(c, "idle", IF IsGit(s) THEN "building" ELSE "saving")
  /\ op' = [op EXCEPT ![c] = "add"]
  /\ conf' = [conf EXCEPT ![c] = [config EXCEPT ![n] = s]]
  /\ ref' = [ref EXCEPT ![c] = [registry |-> n, name |-> None, version |-> None]]
  /\ UNCHANGED <<config, cache, published, todo, request, world, result, seen, recent>>

Remove(c, n) ==
  /\ "remove" \in Operations[c]
  /\ \E s \in Sources : <<n, s>> \in Offers
  /\ config[n] # None
  /\ Step(c, "idle", "removing")
  /\ op' = [op EXCEPT ![c] = "remove"]
  /\ conf' = [conf EXCEPT ![c] = [config EXCEPT ![n] = None]]
  /\ ref' = [ref EXCEPT ![c] = [registry |-> n, name |-> None, version |-> None]]
  /\ UNCHANGED <<config, cache, published, todo, request, world, result, seen, recent>>

-----------------------------------------------------------------------------
\* loadRegistryWorld is strict for get only.
Strict(c) == op[c] = "get"

\* "An unqualified resolution can never prove uniqueness against only the
\* reachable registries" (registryclient.go:46); previews take no part in it.
MissingIsFatal(c, n) == Strict(c) /\ ~ (ref[c].registry = None /\ IsGit(conf[c][n]))

\* Bug: a stale index is as good as none, which is only a warning.
StaleIsFatal_Never(c) == FALSE

StaleIsFatal(c) == Strict(c) /\ ref[c].registry = None

\* An index has been loaded, or could not be.  A refresh only reports it.
Take(c, n, i, how) ==
  /\ pc' = [pc EXCEPT ![c] = "fetching"]
  /\ world' = IF op[c] = "refresh" THEN world
              ELSE [world EXCEPT ![c][n] = [index |-> i, how |-> how]]
  /\ todo' = [todo EXCEPT ![c] = @ \ {n}]
  /\ request' = [request EXCEPT ![c] = NoRequest]
  /\ UNCHANGED <<op, conf, ref, result, seen>>

Omit(c, n) ==
  IF MissingIsFatal(c, n)
  THEN Ends(c)
  ELSE /\ pc' = [pc EXCEPT ![c] = "fetching"]
       /\ todo' = [todo EXCEPT ![c] = @ \ {n}]
       /\ request' = [request EXCEPT ![c] = NoRequest]
       /\ UNCHANGED <<op, conf, ref, world, result, seen>>

\* The next registry of a command whose source is of that kind.
NextOf(c, n, kind) ==
  /\ pc[c] = "fetching"
  /\ n \in todo[c]
  /\ Kind[conf[c][n]] = kind

\* A file registry is read where it is.
ReadFile(c, n) ==
  /\ NextOf(c, n, "file")
  /\ \/ Take(c, n, Current(conf[c][n]), "current")
     \/ "error" \in Failures /\ Omit(c, n)
  /\ UNCHANGED <<config, cache, published, recent>>

\* A preview moves by refresh only.
ReadPreview(c, n) ==
  /\ NextOf(c, n, "git")
  /\ op[c] # "refresh"
  /\ LET e == ReadIndexCache(n, conf[c][n]) IN
     IF e = None THEN Omit(c, n) ELSE Take(c, n, e.index, "preview")
  /\ UNCHANGED <<config, cache, published, recent>>

Envelope(s, v) ==
  [source |-> s, tag |-> v, index |-> [source |-> s, version |-> v], fresh |-> TRUE]

\* Another command may hold the refresh lock, which is an error too.
RefreshPreview(c, n) ==
  /\ NextOf(c, n, "git")
  /\ op[c] = "refresh"
  /\ LET s == conf[c][n]
         e == ReadIndexCache(n, s)
     IN \/ /\ cache' = [cache EXCEPT ![n] = Envelope(s, published[s])]
           /\ Take(c, n, Current(s), "preview")
        \/ /\ "error" \in Failures
           /\ IF e = None THEN Omit(c, n) ELSE Take(c, n, e.index, "stale")
           /\ UNCHANGED cache
  /\ UNCHANGED <<config, published, recent>>

\* A catalog command takes a young cache for an answer; otherwise the index is
\* asked for, with the tag of the cached one.
ReadCache(c, n) ==
  /\ NextOf(c, n, "index")
  /\ LET e == ReadIndexCache(n, conf[c][n]) IN
     IF op[c] = "browse" /\ e # None /\ e.fresh
     THEN Take(c, n, e.index, "cached")
     ELSE /\ pc' = [pc EXCEPT ![c] = "asking"]
          /\ request' = [request EXCEPT ![c] = [name |-> n, sent |-> e, answer |-> None]]
          /\ UNCHANGED <<op, conf, ref, todo, world, result, seen>>
  /\ UNCHANGED <<config, cache, published, recent>>

\* The source answers from what it serves now.  It may say "not modified" only
\* of its current tag, and need not.
Answer(c) ==
  /\ Step(c, "asking", "answered")
  /\ LET q == request[c]
         v == published[conf[c][q.name]]
     IN \E a \in {v} \union (IF q.sent # None /\ q.sent.tag = v THEN {"not modified"} ELSE {}) :
          request' = [request EXCEPT ![c] = [name |-> q.name, sent |-> q.sent, answer |-> a]]
  /\ UNCHANGED <<config, cache, published, op, conf, ref, todo, world, result, seen, recent>>

\* Bug: the index is read from the cache again.
NotModified_Rereads(c) ==
  LET q == request[c]
      e == ReadIndexCache(q.name, conf[c][q.name]) IN
  /\ pc[c] = "answered"
  /\ q.answer = "not modified"
  /\ IF e = None THEN Take(c, q.name, q.sent.index, "current")
     ELSE Take(c, q.name, e.index, "current")
  /\ UNCHANGED <<config, cache, published, recent>>

\* The time of whatever file is there by now is renewed.
NotModified(c) ==
  LET q == request[c] IN
  /\ pc[c] = "answered"
  /\ q.answer = "not modified"
  /\ cache' = IF cache[q.name] = None THEN cache ELSE
       [cache EXCEPT ![q.name] = [source |-> @.source, tag |-> @.tag,
                                  index |-> @.index, fresh |-> TRUE]]
  /\ Take(c, q.name, q.sent.index, "current")
  /\ UNCHANGED <<config, published, recent>>

\* The index and its tag are written, over whatever is there by now.
NewIndex(c) ==
  LET q == request[c]
      s == conf[c][q.name]
  IN
  /\ pc[c] = "answered"
  /\ q.answer \in Versions
  /\ cache' = [cache EXCEPT ![q.name] = Envelope(s, q.answer)]
  /\ Take(c, q.name, [source |-> s, version |-> q.answer], "current")
  /\ UNCHANGED <<config, published, recent>>

\* Bug: the cache that is served stale is not tried again for a while.
StaleFallback_Renews(c) ==
  LET q == request[c] IN
  /\ IF q.sent = None THEN Omit(c, q.name)
     ELSE IF StaleIsFatal(c) THEN Ends(c)
     ELSE Take(c, q.name, q.sent.index, "stale")
  /\ cache' = IF cache[q.name] = None THEN cache ELSE
       [cache EXCEPT ![q.name] = [source |-> @.source, tag |-> @.tag,
                                  index |-> @.index, fresh |-> TRUE]]

StaleFallback(c) ==
  LET q == request[c] IN
  /\ IF q.sent = None THEN Omit(c, q.name)
     ELSE IF StaleIsFatal(c) THEN Ends(c)
     ELSE Take(c, q.name, q.sent.index, "stale")
  /\ UNCHANGED cache

\* No connection, an error status, a body that is cut off or no index.
RequestFails(c) ==
  /\ "error" \in Failures
  /\ pc[c] = "asking"
  /\ StaleFallback(c)
  /\ UNCHANGED <<config, published, recent>>

\* The new index cannot be written.
WriteFails(c) ==
  /\ "error" \in Failures
  /\ pc[c] = "answered"
  /\ request[c].answer \in Versions
  /\ Omit(c, request[c].name)
  /\ UNCHANGED <<config, cache, published, recent>>

Fetched(c) == pc[c] = "fetching" /\ todo[c] = {}

-----------------------------------------------------------------------------
\* get goes on with the entry unless there is none, or it needs a newer vaka.
\* It has no more use for the indexes.
ResolveRef(c) ==
  /\ Fetched(c)
  /\ op[c] = "get"
  /\ LET entries == {e \in Resolve(conf[c], IndexesOf(world[c]), ref[c]) :
                       e.release \notin TooNew}
     IN \/ /\ entries = {}
           /\ Ends(c)
        \/ \E e \in entries :
             /\ pc' = [pc EXCEPT ![c] = "resolved"]
             /\ result' = [result EXCEPT ![c] = [entry |-> e, bytes |-> "none", via |-> "none"]]
             /\ world' = [world EXCEPT ![c] = [n \in Names |-> None]]
             /\ UNCHANGED <<op, conf, ref, todo, request, seen>>
  /\ UNCHANGED <<config, cache, published, recent>>

\* Bug: what the last mirror sends is taken as it is.
Accepts_Anything(s, url, bytes) == url = "https" \/ Kind[s] # "index"

\* fetchTarballURL: local files are for local and preview registries only, and
\* the digest must be the entry's.
Accepts(s, url, bytes) == (url = "https" \/ Kind[s] # "index") /\ bytes = "promised"

\* FetchTarball: the first mirror that is accepted, if any is.  A directory that
\* is up to date needs none, and get is over.
FetchTarball(c) ==
  /\ pc[c] = "resolved"
  /\ LET e == result[c].entry IN
     \/ \E url \in Mirrors[e.source], bytes \in {"promised", "other"} :
          /\ Accepts(e.source, url, bytes)
          /\ pc' = [pc EXCEPT ![c] = "obtained"]
          /\ result' = [result EXCEPT ![c] = [entry |-> e, bytes |-> bytes, via |-> url]]
          /\ UNCHANGED <<op, conf, ref, todo, request, world, seen>>
     \/ Ends(c)
  /\ UNCHANGED <<config, cache, published, recent>>

\* get goes on to install (RecipeGet), a refresh or a listing is over.
Finish(c) ==
  /\ pc[c] = "obtained" \/ (Fetched(c) /\ op[c] \in {"refresh", "browse"})
  /\ Ends(c)
  /\ UNCHANGED <<config, cache, published, recent>>

-----------------------------------------------------------------------------
\* add-git builds the preview before the registry is configured; a stale one
\* will not do.
BuildPreview(c) ==
  LET n == ref[c].registry
      s == conf[c][n]
  IN
  /\ pc[c] = "building"
  /\ \/ /\ cache' = [cache EXCEPT ![n] = Envelope(s, published[s])]
        /\ pc' = [pc EXCEPT ![c] = "saving"]
        /\ UNCHANGED locals
     \/ /\ "error" \in Failures
        /\ Ends(c)
        /\ UNCHANGED cache
  /\ UNCHANGED <<config, published, recent>>

\* The file is written from what the command loaded.
Save(c) ==
  /\ pc[c] = "saving"
  /\ config' = conf[c]
  /\ Ends(c)
  /\ UNCHANGED <<cache, published, recent>>

SaveFails(c) ==
  /\ "error" \in Failures
  /\ pc[c] = "saving"
  /\ IF op[c] = "add" /\ IsGit(conf[c][ref[c].registry])
     THEN Step(c, "saving", "undoing") /\ UNCHANGED locals
     ELSE Ends(c)
  /\ UNCHANGED <<config, cache, published, recent>>

\* RemoveCache, whatever the directory of that name holds by now; for a
\* preview it needs the refresh lock.
RemoveCache(c) ==
  /\ pc[c] \in {"removing", "undoing"}
  /\ \/ /\ cache' = [cache EXCEPT ![ref[c].registry] = None]
        /\ IF pc[c] = "removing"
           THEN pc' = [pc EXCEPT ![c] = "saving"] /\ UNCHANGED locals
           ELSE Ends(c)
     \/ "error" \in Failures /\ Ends(c) /\ UNCHANGED cache
  /\ UNCHANGED <<config, published, recent>>

Killed(c) ==
  /\ "kill" \in Failures
  /\ pc[c] # "idle"
  /\ Ends(c)
  /\ UNCHANGED <<config, cache, published, recent>>

-----------------------------------------------------------------------------
\* A source publishes an index, which may be one it served before.
Publish(s, v) ==
  /\ v \in DOMAIN Holds[s] \ {published[s]}
  /\ published' = [published EXCEPT ![s] = v]
  /\ LET i == [source |-> s, version |-> v] IN
       /\ seen' = [c \in Commands |-> IF seen[c] = {} THEN {} ELSE seen[c] \union {i}]
       /\ recent' = recent \union {i}
  /\ UNCHANGED <<config, cache, pc, op, conf, ref, todo, request, world, result>>

\* The window of freshness ends.  It is long beside a command, whose requests
\* time out (fetch.go:35).
Tick ==
  /\ \A c \in Commands : pc[c] = "idle"
  /\ cache' = [n \in Names |->
       IF cache[n] = None THEN None
       ELSE [source |-> cache[n].source, tag |-> cache[n].tag,
             index |-> cache[n].index, fresh |-> FALSE]]
  /\ recent' = Serving
  /\ UNCHANGED <<config, published, pc, locals>>

Proceed(c) ==
  \/ \E n \in Names :
       ReadFile(c, n) \/ ReadPreview(c, n) \/ RefreshPreview(c, n) \/ ReadCache(c, n)
  \/ Answer(c) \/ NotModified(c) \/ NewIndex(c) \/ RequestFails(c) \/ WriteFails(c)
  \/ ResolveRef(c) \/ FetchTarball(c) \/ Finish(c)
  \/ BuildPreview(c) \/ Save(c) \/ SaveFails(c) \/ RemoveCache(c)

Start(c) ==
  \/ Get(c) \/ Browse(c) \/ Refresh(c)
  \/ (\E o \in Offers : Add(c, o[1], o[2]))
  \/ (\E n \in Names : Remove(c, n))

Next ==
  \/ \E c \in Commands : Start(c) \/ Proceed(c) \/ Killed(c)
  \/ \E s \in Sources, v \in Versions : Publish(s, v)
  \/ Tick

Spec == Init /\ [][Next]_vars

-----------------------------------------------------------------------------
\* An index that get or a listing revalidated is one its source served after the
\* command had started: neither a slower answer that another command wrote over
\* the cache meanwhile (fetch.go:267), nor the tag of another source's cache,
\* makes it take an older one for current.
RevalidatedIsCurrent ==
  \A c \in Commands, n \in Names :
    world[c][n] # None /\ world[c][n].how = "current" => world[c][n].index \in seen[c]

\* "Adding a registry can never silently hijack a name already in use"
\* (resolve.go:66): when get resolves a name alone, each other published
\* registry of its configuration did not hold that name at some moment since
\* get started, and the one chosen is no preview.
UnqualifiedIsUnique ==
  \A c \in Commands :
    result[c] # None /\ ref[c].registry = None =>
      LET e == result[c].entry IN
      /\ e.registry \in Published(conf[c])
      /\ \A n \in Published(conf[c]) \ {e.registry} :
           \E i \in seen[c] : i.source = conf[c][n] /\ e.name \notin Catalog(i)

\* However the cache of a name came about, and whatever a lost update of the
\* configuration brought back (config.go:287), no command and no completion
\* ever uses an index for another source than the one configured.
IndexFromItsSource ==
  /\ \A c \in Commands, n \in Names :
       world[c][n] # None => world[c][n].index.source = conf[c][n]
  /\ \A n \in Configured(config) :
       CachedIndex(n, config[n]) # None => CachedIndex(n, config[n]).source = config[n]

\* A catalog that is listed without a warning was being served in the current
\* window of freshness, if it is of a published registry (registryclient.go:14).
BrowseIsRecent ==
  \A c \in Commands, n \in Names :
    world[c][n] # None /\ world[c][n].how \in {"current", "cached"} =>
      world[c][n].index \in recent

\* A name that is listed or completed never means another registry's recipe,
\* whichever registries could be reached when it was shown.
ShownNamesResolve ==
  /\ \A c \in Commands : Fetched(c) /\ op[c] = "browse" =>
       \A row \in CatalogRows(conf[c], IndexesOf(world[c])) :
         Means(conf[c], IndexesOf(world[c]), row)
  /\ \A row \in CatalogRows(config, Cached) : Means(config, Cached, row)

\* What get obtained for a name alone is a release that its registry's source
\* listed after get had started, byte for byte, and no local file unless the
\* source is local (fetch.go:424).
ObtainedAsPublished ==
  \A c \in Commands :
    pc[c] = "obtained" =>
      LET e == result[c].entry IN
      /\ result[c].bytes = "promised"
      /\ result[c].via = "file" => Kind[conf[c][e.registry]] # "index"
      /\ ref[c].registry = None =>
           \E i \in seen[c] : /\ i.source = conf[c][e.registry]
                              /\ e.name \in Catalog(i)
                              /\ e.release \in Holds[i.source][i.version][e.name]

=============================================================================
