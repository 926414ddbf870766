------------------------- MODULE RegistryIndexProofs -------------------------
(***************************************************************************)
(* Proofs about RegistryIndex: which indexes a command uses, and what the  *)
(* references it resolves against them mean.                               *)
(***************************************************************************)
EXTENDS RegistryIndex, FiniteSetTheorems, TLAPS

\* Where a command still loads indexes, and where it has resolved a reference.
Loading == {"fetching", "asking", "answered"}
Settled == {"resolved", "obtained"}

\* The indexes a source can serve.
Served == {i \in Indexes : i.version \in DOMAIN Holds[i.source]}

\* A cached index is the one its tag and its source say.
Consistent(e) == e.index = [source |-> e.source, version |-> e.tag]

\* Besides, it is young only if it was served in the current window.
Stored ==
  /\ Serving \subseteq recent /\ recent \subseteq Served
  /\ \A n \in Names : cache[n] # None =>
       /\ Consistent(cache[n])
       /\ cache[n].index \in Served
       /\ cache[n].fresh => cache[n].index \in recent

\* Where a command changes the configuration.
Writing == {"building", "saving", "undoing", "removing"}

\* What a command has seen, that it has nothing before and after it loads, and which
\* registry it adds or removes.
Aware(c) ==
  /\ seen[c] \subseteq recent
  /\ pc[c] \in Loading => /\ op[c] \in {"get", "browse", "refresh"}
                          /\ op[c] # "refresh" => Serving \subseteq seen[c]
                          /\ todo[c] \subseteq Configured(conf[c])
  /\ op[c] = "get" /\ pc[c] # "idle" => pc[c] \in Loading \union Settled /\ ref[c].name \in Recipes
  /\ pc[c] \notin Loading \union Settled => seen[c] = {}
  /\ result[c] # None => pc[c] \in Settled /\ op[c] = "get"
  /\ pc[c] \in Settled => result[c] \in Results
  /\ pc[c] \notin Loading => world[c] = [n \in Names |-> None]
  /\ pc[c] \in Writing => op[c] \in {"add", "remove"} /\ ref[c].registry \in Names
  /\ pc[c] = "building" => conf[c][ref[c].registry] \in Sources

\* Every index it has is of the source it read in the configuration, and was served
\* when it says so.
Loaded(c) ==
  \A n \in Names : world[c][n] # None =>
    /\ world[c][n].index \in Served
    /\ world[c][n].index.source = conf[c][n]
    /\ world[c][n].how = "current" => world[c][n].index \in seen[c]
    /\ world[c][n].how \in {"current", "cached"} => world[c][n].index \in recent

\* A get by a name alone goes on only with a current index of each published registry.
Strictly(c) ==
  pc[c] \in Loading /\ op[c] = "get" /\ ref[c].registry = None =>
    \A n \in Published(conf[c]) \ todo[c] :
      world[c][n] # None /\ world[c][n].how = "current"

\* A request is of a registry still to be loaded; what was cached when it was made
\* belongs to its source, and has been replaced since by nothing older.
Asked(c) ==
  pc[c] \in {"asking", "answered"} =>
    LET q == request[c] IN
    /\ q.name \in todo[c]
    /\ q.sent # None =>
         /\ q.sent.source = conf[c][q.name]
         /\ Consistent(q.sent) /\ q.sent.index \in Served
         /\ \/ cache[q.name] = None
            \/ cache[q.name].index = q.sent.index
            \/ cache[q.name].index \in recent

\* What an answer confirms was served in this window, and after the command started.
Confirmed(c, i) == i \in recent /\ (op[c] # "refresh" => i \in seen[c])

Answered(c) ==
  pc[c] = "answered" =>
    LET q == request[c] IN
    /\ q.answer \in Versions \union {"not modified"}
    /\ q.answer \in Versions =>
         Confirmed(c, [source |-> conf[c][q.name], version |-> q.answer])
    /\ q.answer = "not modified" => q.sent # None /\ Confirmed(c, q.sent.index)

\* What was resolved is of the registry's source, and for a name alone no other
\* published registry had it.
Resolved(c) ==
  result[c] # None =>
    LET e == result[c].entry IN
    /\ e.registry \in Configured(conf[c]) /\ e.source = conf[c][e.registry]
    /\ ref[c].registry = None =>
         /\ e.registry \in Published(conf[c])
         /\ \A n \in Published(conf[c]) \ {e.registry} :
              \E i \in seen[c] : i.source = conf[c][n] /\ e.name \notin Catalog(i)
         /\ \E i \in seen[c] : /\ i.source = conf[c][e.registry] /\ e.name \in Catalog(i)
                               /\ e.release \in Holds[i.source][i.version][e.name]
    /\ pc[c] = "obtained" => /\ result[c].bytes = "promised"
                             /\ result[c].via = "file" => Kind[e.source] # "index"

Sound(c) ==
  Aware(c) /\ Loaded(c) /\ Strictly(c) /\ Asked(c) /\ Answered(c) /\ Resolved(c)

IInv == TypeOK /\ Stored /\ \A c \in Commands : Sound(c)

-----------------------------------------------------------------------------
\* What a step of one command leaves of the others.
Others(c) ==
  \A d \in Commands \ {c} :
    /\ pc'[d] = pc[d] /\ op'[d] = op[d] /\ conf'[d] = conf[d] /\ ref'[d] = ref[d]
    /\ todo'[d] = todo[d] /\ request'[d] = request[d] /\ world'[d] = world[d]
    /\ result'[d] = result[d] /\ seen'[d] = seen[d]

\* A cache is only replaced by one of the current window.
Replaces ==
  \A n \in Names :
    \/ cache'[n] = None
    \/ cache[n] # None /\ cache'[n].index = cache[n].index
    \/ cache'[n].index \in recent

CacheTyped == cache \in [Names -> Envelopes \union {None}]

\* The sources and the window stay, and the caches are still sound.
Steady ==
  /\ UNCHANGED <<published, recent>>
  /\ config' \in Configs /\ CacheTyped' /\ Stored' /\ Replaces

LEMMA Unmoved ==
  ASSUME IInv, UNCHANGED <<cache, published, recent>>, config' \in Configs
  PROVE  Steady
BY DEF IInv, TypeOK, Steady, Stored, Replaces, CacheTyped, Serving, Current, Served

\* An index of the window may be written for any registry.
LEMMA Written ==
  ASSUME IInv, NEW n \in Names, NEW s \in Sources, NEW v \in Versions,
         [source |-> s, version |-> v] \in recent,
         cache' = [cache EXCEPT ![n] = Envelope(s, v)],
         UNCHANGED <<config, published, recent>>
  PROVE  Steady
<1> DEFINE i == [source |-> s, version |-> v]
<1>1. /\ Envelope(s, v) \in Envelopes /\ Envelope(s, v).index = i /\ i \in Served
      /\ Envelope(s, v).source = s /\ Envelope(s, v).tag = v
  BY DEF Envelope, Envelopes, Indexes, IInv, Stored
<1>2. CacheTyped' /\ Replaces
  BY <1>1 DEF CacheTyped, Replaces, IInv, TypeOK
<1>3. Stored'
  BY <1>1 DEF Stored, IInv, TypeOK, Serving, Current, Served, Consistent
<1>. QED
  BY <1>2, <1>3 DEF Steady, IInv, TypeOK

\* A step of one command that keeps the caches sound concerns only that command.
LEMMA Frame ==
  ASSUME IInv, Steady, NEW c \in Commands, Others(c), TypeOK', Sound(c)'
  PROVE  IInv'
<1> SUFFICES ASSUME NEW d \in Commands \ {c}
             PROVE  Sound(d)'
  BY DEF IInv, Steady
<1>1. /\ Aware(d) /\ Loaded(d) /\ Strictly(d) /\ Asked(d) /\ Answered(d) /\ Resolved(d)
      /\ Replaces /\ UNCHANGED <<published, recent>>
      /\ request[d].name \in Names \union {None}
      /\ todo[d] \subseteq Names
  BY DEF IInv, Sound, Steady, TypeOK
<1>2. /\ pc'[d] = pc[d] /\ op'[d] = op[d] /\ conf'[d] = conf[d] /\ ref'[d] = ref[d]
      /\ todo'[d] = todo[d] /\ request'[d] = request[d] /\ world'[d] = world[d]
      /\ result'[d] = result[d] /\ seen'[d] = seen[d]
  BY DEF Others
<1>3. Aware(d)'
  BY <1>1, <1>2 DEF Aware, Serving, Current
<1>4. Loaded(d)'
  BY <1>1, <1>2 DEF Loaded, Served
<1>5. Strictly(d)'
  BY <1>1, <1>2 DEF Strictly
<1>6. Resolved(d)'
  BY <1>1, <1>2 DEF Resolved
<1>7. Answered(d)'
  BY <1>1, <1>2 DEF Answered, Confirmed
<1>8. Asked(d)'
  <2> SUFFICES ASSUME pc[d] \in {"asking", "answered"}
               PROVE  LET q == request[d] IN
                      /\ q.name \in todo[d]
                      /\ q.sent # None =>
                           /\ q.sent.source = conf[d][q.name]
                           /\ Consistent(q.sent) /\ q.sent.index \in Served
                           /\ \/ cache'[q.name] = None
                              \/ cache'[q.name].index = q.sent.index
                              \/ cache'[q.name].index \in recent
    BY <1>1, <1>2 DEF Asked, Served
  <2>. QED
    BY <1>1 DEF Asked, Replaces
<1>. QED
  BY <1>3, <1>4, <1>5, <1>6, <1>7, <1>8 DEF Sound

-----------------------------------------------------------------------------
\* A command that returns or is killed holds nothing.
LEMMA EndsStep ==
  ASSUME IInv, Steady, NEW c \in Commands, Ends(c)
  PROVE  IInv'
<1>1. TypeOK'
  BY DEF IInv, TypeOK, Steady, CacheTyped, Ends, NoConfig, NoRef, NoRequest, Configs, Stages
<1>2. Others(c)
  BY DEF Others, Ends, IInv, TypeOK
<1>3. /\ pc'[c] = "idle" /\ op'[c] = "get" /\ result'[c] = None /\ seen'[c] = {}
      /\ world'[c] = [n \in Names |-> None]
  BY DEF Ends, IInv, TypeOK
<1>4. Sound(c)'
  BY <1>3 DEF Sound, Aware, Loaded, Strictly, Asked, Answered, Resolved, Loading, Settled, Writing
<1>. QED
  BY <1>1, <1>2, <1>4, Frame

\* An index may be taken for the registry it was asked for if it is of its source,
\* and as current as it is said to be.
Takes(c, n, i, how) ==
  /\ i \in Served /\ i.source = conf[c][n] /\ how \in Hows
  /\ op[c] # "refresh" => /\ how = "current" => i \in seen[c]
                          /\ how \in {"current", "cached"} => i \in recent
  /\ op[c] = "get" /\ ref[c].registry = None /\ ~ IsGit(conf[c][n]) => how = "current"

LEMMA TakeStep ==
  ASSUME IInv, Steady, NEW c \in Commands, pc[c] \in Loading, NEW n \in todo[c],
         NEW i, NEW how, Takes(c, n, i, how), Take(c, n, i, how)
  PROVE  IInv'
<1>0. n \in Names /\ i \in Indexes /\ [index |-> i, how |-> how] \in [index : Indexes, how : Hows]
  BY DEF IInv, TypeOK, Takes, Served
<1>1. TypeOK'
  BY <1>0 DEF IInv, TypeOK, Steady, CacheTyped, Take, NoRequest, Stages
<1>2. Others(c)
  BY DEF Others, Take, IInv, TypeOK
<1>3. /\ pc'[c] = "fetching" /\ todo'[c] = todo[c] \ {n}
      /\ UNCHANGED <<op, conf, ref, result, seen, recent, published>>
      /\ world'[c] = IF op[c] = "refresh" THEN world[c]
                     ELSE [world[c] EXCEPT ![n] = [index |-> i, how |-> how]]
  BY DEF Take, IInv, TypeOK, Steady
<1>4. Aware(c)'
  BY <1>3 DEF IInv, Sound, Aware, Loading, Settled, Writing, Serving, Current
<1>5. Loaded(c)'
  <2> SUFFICES ASSUME NEW m \in Names, world'[c][m] # None
               PROVE  /\ world'[c][m].index \in Served
                      /\ world'[c][m].index.source = conf[c][m]
                      /\ world'[c][m].how = "current" => world'[c][m].index \in seen[c]
                      /\ world'[c][m].how \in {"current", "cached"} =>
                           world'[c][m].index \in recent
    BY <1>3 DEF Loaded, Served
  <2>1. CASE world'[c][m] = world[c][m]
    BY <2>1 DEF IInv, Sound, Loaded
  <2>2. CASE op[c] # "refresh" /\ world'[c][m] = [index |-> i, how |-> how] /\ m = n
    BY <2>2 DEF Takes
  <2>3. world[c] \in [Names -> [index : Indexes, how : Hows] \union {None}]
    BY DEF IInv, TypeOK
  <2>. QED
    BY <1>3, <2>1, <2>2, <2>3
<1>6. Strictly(c)'
  <2> SUFFICES ASSUME op[c] = "get", ref[c].registry = None,
                      NEW m \in Published(conf[c]) \ (todo[c] \ {n})
               PROVE  world'[c][m] # None /\ world'[c][m].how = "current"
    BY <1>3 DEF Strictly
  <2>1. /\ m \in Names /\ ~ IsGit(conf[c][m])
        /\ world[c] \in [Names -> [index : Indexes, how : Hows] \union {None}]
    BY DEF Published, Configured, IInv, TypeOK
  <2>2. CASE m = n
    BY <2>1, <2>2, <1>0, <1>3, LoadedAssumption DEF Takes
  <2>3. CASE m # n
    <3>1. world'[c][m] = world[c][m]
      BY <2>1, <2>3, <1>3
    <3>2. Strictly(c)
      BY DEF IInv, Sound
    <3>. QED
      BY <2>3, <3>1, <3>2 DEF Strictly
  <2>. QED
    BY <2>2, <2>3
<1>7. Asked(c)' /\ Answered(c)'
  BY <1>3 DEF Asked, Answered
<1>8. Resolved(c)'
  BY <1>3 DEF IInv, Sound, Aware, Resolved, Loading, Settled, Writing
<1>. QED
  BY <1>1, <1>2, <1>4, <1>5, <1>6, <1>7, <1>8, Frame DEF Sound

\* An index that cannot be loaded is left out, unless that is fatal.
LEMMA OmitStep ==
  ASSUME IInv, Steady, NEW c \in Commands, pc[c] \in Loading, NEW n \in todo[c], Omit(c, n)
  PROVE  IInv'
<1>1. CASE MissingIsFatal(c, n)
  BY <1>1, EndsStep DEF Omit
<1>2. CASE ~ MissingIsFatal(c, n)
  <2>0. /\ pc' = [pc EXCEPT ![c] = "fetching"]
        /\ todo' = [todo EXCEPT ![c] = @ \ {n}]
        /\ request' = [request EXCEPT ![c] = NoRequest]
        /\ UNCHANGED <<op, conf, ref, world, result, seen>>
    BY <1>2 DEF Omit
  <2>1. TypeOK'
    BY <2>0 DEF IInv, TypeOK, Steady, CacheTyped, NoRequest, Stages
  <2>2. Others(c)
    BY <1>2 DEF Others, Omit, IInv, TypeOK
  <2>3. /\ pc'[c] = "fetching" /\ todo'[c] = todo[c] \ {n}
        /\ UNCHANGED <<op, conf, ref, result, seen, recent, published, world>>
    BY <1>2 DEF Omit, IInv, TypeOK, Steady
  <2>4. Aware(c)' /\ Loaded(c)'
    BY <2>3 DEF IInv, Sound, Aware, Loaded, Loading, Settled, Writing, Serving, Current, Served
  <2>5. Strictly(c)'
    BY <2>3, <1>2 DEF IInv, Sound, Strictly, Published, MissingIsFatal, Strict
  <2>6. Asked(c)' /\ Answered(c)'
    BY <2>3 DEF Asked, Answered
  <2>7. Resolved(c)'
    BY <2>3 DEF IInv, Sound, Aware, Resolved, Loading, Settled, Writing
  <2>. QED
    BY <2>1, <2>2, <2>4, <2>5, <2>6, <2>7, Frame DEF Sound
<1>. QED
  BY <1>1, <1>2

-----------------------------------------------------------------------------
\* What is known of a registry a command still has to load.
LEMMA Pending ==
  ASSUME IInv, NEW c \in Commands, pc[c] \in Loading, NEW n \in todo[c]
  PROVE  /\ n \in Names /\ conf[c][n] \in Sources
         /\ op[c] \in {"get", "browse", "refresh"}
         /\ Current(conf[c][n]) \in Served /\ Current(conf[c][n]).source = conf[c][n]
         /\ Current(conf[c][n]) \in recent
         /\ op[c] # "refresh" => Current(conf[c][n]) \in seen[c]
<1>1. n \in Names /\ conf[c] \in Configs /\ conf[c][n] # None
  BY DEF IInv, TypeOK, Sound, Aware, Configured
<1>2. conf[c][n] \in Sources
  BY <1>1 DEF Configs
<1>3. Current(conf[c][n]) \in Serving
  BY <1>2 DEF Serving
<1>. QED
  BY <1>1, <1>2, <1>3 DEF IInv, Sound, Aware, Stored, Current

LEMMA ReadFileStep ==
  ASSUME IInv, NEW c \in Commands, NEW n \in Names, ReadFile(c, n)
  PROVE  IInv'
<1>1. Steady /\ pc[c] \in Loading /\ n \in todo[c]
  BY Unmoved DEF ReadFile, NextOf, Loading, IInv, TypeOK
<1>2. Takes(c, n, Current(conf[c][n]), "current")
  BY <1>1, Pending DEF Takes, Hows
<1>. QED
  BY <1>1, <1>2, TakeStep, OmitStep DEF ReadFile

\* A cache that is read is of the source it is read for.
LEMMA Read ==
  ASSUME IInv, NEW n \in Names, NEW s \in Sources, ReadIndexCache(n, s) # None
  PROVE  LET e == ReadIndexCache(n, s) IN
         /\ e \in Envelopes /\ e = cache[n]
         /\ e.source = s /\ Consistent(e)
         /\ e.index \in Served /\ e.index.source = s
         /\ e.fresh => e.index \in recent
<1>1. cache[n] # None /\ cache[n].source = s /\ ReadIndexCache(n, s) = cache[n]
  BY DEF ReadIndexCache
<1>2. cache[n] \in Envelopes
  BY <1>1 DEF IInv, TypeOK
<1>3. /\ Consistent(cache[n]) /\ cache[n].index \in Served
      /\ cache[n].fresh => cache[n].index \in recent
  BY <1>1 DEF IInv, Stored
<1>4. cache[n].index.source = s
  BY <1>1, <1>3 DEF Consistent
<1>. QED
  BY <1>1, <1>2, <1>3, <1>4

LEMMA ReadPreviewStep ==
  ASSUME IInv, NEW c \in Commands, NEW n \in Names, ReadPreview(c, n)
  PROVE  IInv'
<1> DEFINE e == ReadIndexCache(n, conf[c][n])
<1>1. Steady /\ pc[c] \in Loading /\ n \in todo[c] /\ Kind[conf[c][n]] = "git"
  BY Unmoved DEF ReadPreview, NextOf, Loading, IInv, TypeOK
<1>2. e # None => Takes(c, n, e.index, "preview")
  BY <1>1, Pending, Read DEF Takes, Hows, IsGit
<1>. QED
  BY <1>1, <1>2, TakeStep, OmitStep DEF ReadPreview

LEMMA RefreshPreviewStep ==
  ASSUME IInv, NEW c \in Commands, NEW n \in Names, RefreshPreview(c, n)
  PROVE  IInv'
<1> DEFINE s == conf[c][n]
           e == ReadIndexCache(n, s)
<1>1. pc[c] \in Loading /\ n \in todo[c] /\ Kind[s] = "git" /\ op[c] = "refresh"
      /\ UNCHANGED <<config, published, recent>>
  BY DEF RefreshPreview, NextOf, Loading
<1>2. CASE cache' = [cache EXCEPT ![n] = Envelope(s, published[s])]
           /\ Take(c, n, Current(s), "preview")
  <2>1. s \in Sources /\ published[s] \in Versions
        /\ [source |-> s, version |-> published[s]] \in recent
    BY <1>1, Pending DEF Current, IInv, TypeOK
  <2>2. Steady
    BY <1>1, <1>2, <2>1, Written
  <2>3. Takes(c, n, Current(s), "preview")
    BY <1>1, Pending DEF Takes, Hows
  <2>. QED
    BY <1>1, <1>2, <2>2, <2>3, TakeStep
<1>3. CASE UNCHANGED cache /\ (IF e = None THEN Omit(c, n) ELSE Take(c, n, e.index, "stale"))
  <2>1. Steady
    BY <1>1, <1>3, Unmoved DEF IInv, TypeOK
  <2>2. e # None => Takes(c, n, e.index, "stale")
    BY <1>1, Pending, Read DEF Takes, Hows
  <2>. QED
    BY <1>1, <1>3, <2>1, <2>2, TakeStep, OmitStep
<1>. QED
  BY <1>2, <1>3 DEF RefreshPreview

\* A step on the way to an index changes nothing but the request.
LEMMA Persists ==
  ASSUME IInv, NEW c \in Commands, pc[c] \in Loading, pc'[c] \in Loading,
         UNCHANGED <<op, conf, ref, todo, world, result, seen, published, recent>>
  PROVE  Aware(c)' /\ Loaded(c)' /\ Strictly(c)' /\ Resolved(c)'
<1>1. Aware(c) /\ Loaded(c) /\ Strictly(c) /\ Resolved(c)
  BY DEF IInv, Sound
<1>2. Aware(c)'
  BY <1>1 DEF Aware, Loading, Settled, Writing, Serving, Current
<1>3. Loaded(c)'
  BY <1>1 DEF Loaded, Served
<1>4. Strictly(c)'
  BY <1>1 DEF Strictly
<1>5. Resolved(c)'
  BY <1>1 DEF Aware, Resolved, Loading, Settled, Writing
<1>. QED
  BY <1>2, <1>3, <1>4, <1>5

LEMMA ReadCacheStep ==
  ASSUME IInv, NEW c \in Commands, NEW n \in Names, ReadCache(c, n)
  PROVE  IInv'
<1> DEFINE e == ReadIndexCache(n, conf[c][n])
<1>1. /\ Steady /\ pc[c] = "fetching" /\ pc[c] \in Loading
      /\ n \in todo[c] /\ Kind[conf[c][n]] = "index"
      /\ UNCHANGED <<config, cache, published, recent>>
  BY Unmoved DEF ReadCache, NextOf, Loading, IInv, TypeOK
<1>2. CASE op[c] = "browse" /\ e # None /\ e.fresh
  <2>1. Takes(c, n, e.index, "cached")
    BY <1>1, <1>2, Pending, Read DEF Takes, Hows
  <2>. QED
    BY <1>1, <1>2, <2>1, TakeStep DEF ReadCache
<1>3. CASE ~ (op[c] = "browse" /\ e # None /\ e.fresh)
  <2> DEFINE q == [name |-> n, sent |-> e, answer |-> None]
  <2>1. /\ pc' = [pc EXCEPT ![c] = "asking"]
        /\ request' = [request EXCEPT ![c] = q]
        /\ UNCHANGED <<op, conf, ref, todo, world, result, seen>>
    BY <1>3 DEF ReadCache
  <2>2. e \in Envelopes \union {None}
    BY <1>1, Pending, Read
  <2>3. TypeOK'
    BY <1>1, <2>1, <2>2 DEF IInv, TypeOK, Stages
  <2>4. Others(c)
    BY <2>1 DEF Others, IInv, TypeOK
  <2>5. pc'[c] = "asking" /\ request'[c] = q
    BY <2>1 DEF IInv, TypeOK
  <2>6. Aware(c)' /\ Loaded(c)' /\ Strictly(c)' /\ Resolved(c)'
    BY <1>1, <2>1, <2>5, Persists DEF Loading
  <2>7. Asked(c)'
    <3>1. e # None => /\ e.source = conf[c][n] /\ Consistent(e)
                      /\ e.index \in Served /\ e.index = cache[n].index
      BY <1>1, Pending, Read
    <3>2. /\ request'[c].name = n /\ request'[c].sent = e
          /\ UNCHANGED <<todo, conf, cache, recent>>
      BY <1>1, <2>1, <2>5
    <3> HIDE DEF e
    <3>3. e # None => e.index \in Served'
      BY <3>1 DEF Served
    <3>. QED
      BY <1>1, <3>1, <3>2, <3>3 DEF Asked
  <2>8. Answered(c)'
    BY <2>5 DEF Answered
  <2>. QED
    BY <1>1, <2>3, <2>4, <2>6, <2>7, <2>8, Frame DEF Sound
<1>. QED
  BY <1>2, <1>3

LEMMA AnswerStep ==
  ASSUME IInv, NEW c \in Commands, Answer(c)
  PROVE  IInv'
<1> DEFINE q == request[c]
           v == published[conf[c][q.name]]
<1>1. /\ Steady /\ pc[c] = "asking" /\ pc[c] \in Loading /\ pc' = [pc EXCEPT ![c] = "answered"]
      /\ UNCHANGED <<config, cache, published, recent, op, conf, ref, todo, world, result, seen>>
  BY Unmoved DEF Answer, Step, Loading, IInv, TypeOK
<1>2. PICK a \in {v} \union (IF q.sent # None /\ q.sent.tag = v THEN {"not modified"} ELSE {}) :
        request' = [request EXCEPT ![c] = [name |-> q.name, sent |-> q.sent, answer |-> a]]
  BY DEF Answer
<1>3. Asked(c) /\ q.name \in todo[c]
  BY <1>1 DEF IInv, Sound, Asked
<1>4. /\ q.name \in Names /\ conf[c][q.name] \in Sources /\ v \in Versions
      /\ Confirmed(c, [source |-> conf[c][q.name], version |-> v])
  BY <1>1, <1>3, Pending DEF Confirmed, Current, IInv, TypeOK
<1>5. TypeOK'
  BY <1>1, <1>2, <1>4 DEF IInv, TypeOK, Stages
<1>6. Others(c)
  BY <1>1, <1>2 DEF Others, IInv, TypeOK
<1>7. /\ pc'[c] = "answered"
      /\ request'[c] = [name |-> q.name, sent |-> q.sent, answer |-> a]
  BY <1>1, <1>2 DEF IInv, TypeOK
<1>8. Aware(c)' /\ Loaded(c)' /\ Strictly(c)' /\ Resolved(c)'
  BY <1>1, <1>7, Persists DEF Loading
<1>9. /\ request'[c].name = q.name /\ request'[c].sent = q.sent /\ request'[c].answer = a
  <2> DEFINE r == [name |-> q.name, sent |-> q.sent, answer |-> a]
  <2>1. r.name = q.name /\ r.sent = q.sent /\ r.answer = a
    OBVIOUS
  <2>2. request'[c] = r
    BY <1>7
  <2> HIDE DEF r
  <2>. QED
    BY <2>1, <2>2
<1>10. UNCHANGED <<todo, conf, cache, recent, op, seen>>
  BY <1>1
<1>11. q.sent # None => /\ q.sent.source = conf[c][q.name]
                        /\ Consistent(q.sent) /\ q.sent.index \in Served
                        /\ \/ cache[q.name] = None
                           \/ cache[q.name].index = q.sent.index
                           \/ cache[q.name].index \in recent
  <2> HIDE DEF v
  <2>. QED
    BY <1>1, <1>3 DEF Asked
<1>12. Asked(c)'
  BY <1>3, <1>7, <1>9, <1>10, <1>11 DEF Asked, Served
<1>13. Answered(c)'
  <2>1. a = v \/ (a = "not modified" /\ q.sent # None /\ q.sent.tag = v)
    BY <1>2
  <2> HIDE DEF q, v
  <2>. QED
    BY <1>4, <1>9, <1>10, <1>11, <2>1, TagsAssumption DEF Answered, Confirmed, Consistent
<1>. QED
  BY <1>1, <1>5, <1>6, <1>8, <1>12, <1>13, Frame DEF Sound

-----------------------------------------------------------------------------
\* What an answered request rests on.
LEMMA Answering ==
  ASSUME IInv, NEW c \in Commands, pc[c] \in {"asking", "answered"}
  PROVE  LET q == request[c] IN
         /\ pc[c] \in Loading /\ q.name \in todo[c] /\ q.name \in Names
         /\ conf[c][q.name] \in Sources
         /\ q.sent # None => /\ q.sent \in Envelopes /\ Consistent(q.sent)
                             /\ q.sent.source = conf[c][q.name]
                             /\ q.sent.index \in Served
                             /\ q.sent.index.source = conf[c][q.name]
<1> DEFINE q == request[c]
<1>1. Asked(c) /\ pc[c] \in Loading
  BY DEF IInv, Sound, Loading
<1>2. q.name \in todo[c]
  BY <1>1 DEF Asked
<1>3. q.sent \in Envelopes \union {None}
  BY DEF IInv, TypeOK
<1>4. q.sent # None => /\ q.sent.source = conf[c][q.name]
                       /\ Consistent(q.sent) /\ q.sent.index \in Served
  BY <1>1 DEF Asked
<1>5. q.sent # None => q.sent.index.source = conf[c][q.name]
  BY <1>4 DEF Consistent
<1>. QED
  BY <1>1, <1>2, <1>3, <1>4, <1>5, Pending

LEMMA NotModifiedStep ==
  ASSUME IInv, NEW c \in Commands, NotModified(c)
  PROVE  IInv'
<1> DEFINE q == request[c]
           n == q.name
<1>1. /\ pc[c] = "answered" /\ q.answer = "not modified"
      /\ UNCHANGED <<config, published, recent>>
      /\ Take(c, n, q.sent.index, "current")
  BY DEF NotModified
<1>2. /\ n \in todo[c] /\ n \in Names /\ pc[c] \in Loading
      /\ q.sent.index \in Served /\ q.sent.index.source = conf[c][n]
      /\ Confirmed(c, q.sent.index)
  BY <1>1, Answering DEF IInv, Sound, Answered
<1>3. Takes(c, n, q.sent.index, "current")
  BY <1>2 DEF Takes, Hows, Confirmed
<1>4. CASE cache[n] = None
  BY <1>1, <1>2, <1>3, <1>4, Unmoved, TakeStep DEF NotModified, IInv, TypeOK
<1>5. CASE cache[n] # None
  <2> DEFINE e == [source |-> cache[n].source, tag |-> cache[n].tag,
                   index |-> cache[n].index, fresh |-> TRUE]
  <2>1. cache' = [cache EXCEPT ![n] = e]
    BY <1>5 DEF NotModified
  <2>2. cache[n] \in Envelopes /\ cache[n].index \in Served /\ Consistent(cache[n])
    BY <1>2, <1>5 DEF IInv, TypeOK, Stored
  <2>3. cache[n].index \in recent
    <3>1. Asked(c) /\ Answered(c)
      BY DEF IInv, Sound
    <3>2. q.sent # None /\ q.sent.index \in recent
      BY <1>1, <3>1 DEF Answered, Confirmed
    <3>. QED
      BY <1>1, <1>5, <3>1, <3>2 DEF Asked
  <2>4. e \in Envelopes /\ e.index = cache[n].index /\ Consistent(e)
    BY <2>2 DEF Envelopes, Consistent
  <2> HIDE DEF e
  <2>5. \A m \in Names : cache'[m] = IF m = n THEN e ELSE cache[m]
    BY <2>1, <2>2 DEF IInv, TypeOK
  <2>6. CacheTyped' /\ Replaces
    BY <1>2, <1>5, <2>1, <2>4, <2>5 DEF CacheTyped, Replaces, IInv, TypeOK
  <2>7. Stored'
    <3>1. Serving' = Serving /\ Served' = Served
      BY <1>1 DEF Serving, Current, Served
    <3>. QED
      BY <1>1, <1>2, <2>2, <2>3, <2>4, <2>5, <3>1 DEF Stored, IInv, Consistent
  <2>8. Steady
    BY <1>1, <2>6, <2>7 DEF Steady, IInv, TypeOK
  <2>. QED
    BY <1>1, <1>2, <1>3, <2>8, TakeStep
<1>. QED
  BY <1>4, <1>5

LEMMA NewIndexStep ==
  ASSUME IInv, NEW c \in Commands, NewIndex(c)
  PROVE  IInv'
<1> DEFINE q == request[c]
           s == conf[c][q.name]
           i == [source |-> s, version |-> q.answer]
<1>1. /\ pc[c] = "answered" /\ q.answer \in Versions
      /\ cache' = [cache EXCEPT ![q.name] = Envelope(s, q.answer)]
      /\ UNCHANGED <<config, published, recent>>
      /\ Take(c, q.name, i, "current")
  BY DEF NewIndex
<1>2. /\ q.name \in todo[c] /\ q.name \in Names /\ pc[c] \in Loading /\ s \in Sources
      /\ Confirmed(c, i)
  BY <1>1, Answering DEF IInv, Sound, Answered
<1>3. Steady
  BY <1>1, <1>2, Written DEF Confirmed
<1>4. Takes(c, q.name, i, "current")
  BY <1>2 DEF Takes, Hows, Confirmed, IInv, Stored
<1>. QED
  BY <1>1, <1>2, <1>3, <1>4, TakeStep

LEMMA RequestFailsStep ==
  ASSUME IInv, NEW c \in Commands, RequestFails(c)
  PROVE  IInv'
<1> DEFINE q == request[c]
<1>1. /\ Steady /\ pc[c] = "asking" /\ StaleFallback(c)
  BY Unmoved DEF RequestFails, StaleFallback, IInv, TypeOK
<1>2. q.name \in todo[c] /\ pc[c] \in Loading
  BY <1>1, Answering
<1>3. q.sent # None /\ ~ StaleIsFatal(c) => Takes(c, q.name, q.sent.index, "stale")
  BY <1>1, Answering DEF Takes, Hows, StaleIsFatal, Strict
<1>. QED
  BY <1>1, <1>2, <1>3, OmitStep, EndsStep, TakeStep DEF StaleFallback

LEMMA WriteFailsStep ==
  ASSUME IInv, NEW c \in Commands, WriteFails(c)
  PROVE  IInv'
<1>1. Steady /\ pc[c] = "answered" /\ Omit(c, request[c].name)
  BY Unmoved DEF WriteFails, IInv, TypeOK
<1>. QED
  BY <1>1, Answering, OmitStep

-----------------------------------------------------------------------------
\* What a reference resolves to is an entry of one registry's index.
LEMMA ResolveEntry ==
  ASSUME NEW conf0, NEW world0, NEW r, NEW e \in Resolve(conf0, world0, r)
  PROVE  /\ e.registry \in Configured(conf0) /\ world0[e.registry] # None
         /\ e.source = conf0[e.registry] /\ e.name = r.name
         /\ r.name \in Catalog(world0[e.registry])
         /\ e.release \in
              Holds[world0[e.registry].source][world0[e.registry].version][r.name]
         /\ e.revision \in {world0[e.registry].version, None}
         /\ e = [registry |-> e.registry, source |-> e.source, name |-> e.name,
                 release |-> e.release, revision |-> e.revision]
         /\ r.registry = None => Candidates(conf0, world0, r.name) = {e.registry}
<1>1. PICK n : /\ e \in Entries(conf0, world0, n, r)
               /\ r.registry = None => Candidates(conf0, world0, r.name) = {n}
  BY DEF Resolve
<1>2. n \in Configured(conf0) /\ world0[n] # None
  BY <1>1 DEF Entries
<1> DEFINE i == world0[n]
<1>3. PICK v \in IF r.name \in Catalog(i)
                 THEN SelectVersion(r, Holds[i.source][i.version][r.name]) ELSE {} :
        e = [registry |-> n, source |-> conf0[n], name |-> r.name, release |-> v,
             revision |-> IF IsGit(conf0[n]) THEN i.version ELSE None]
  BY <1>1, <1>2 DEF Entries
<1>4. r.name \in Catalog(i) /\ v \in Holds[i.source][i.version][r.name]
  BY <1>3 DEF SelectVersion
<1>. QED
  BY <1>1, <1>2, <1>3, <1>4

LEMMA ResolveRefStep ==
  ASSUME IInv, NEW c \in Commands, ResolveRef(c)
  PROVE  IInv'
<1> DEFINE w == IndexesOf(world[c])
           cf == conf[c]
           r == ref[c]
<1>1. /\ Steady /\ pc[c] = "fetching" /\ todo[c] = {} /\ op[c] = "get"
      /\ UNCHANGED <<config, cache, published, recent>>
  BY Unmoved DEF ResolveRef, Fetched, IInv, TypeOK
<1>2. /\ Aware(c) /\ Loaded(c) /\ Strictly(c)
      /\ world[c] \in [Names -> [index : Indexes, how : Hows] \union {None}]
      /\ cf \in Configs /\ r.name \in Recipes
  BY <1>1 DEF IInv, Sound, TypeOK, Aware
<1>3. CASE Ends(c)
  BY <1>1, <1>3, EndsStep
<1>4. ASSUME NEW e \in Resolve(cf, w, r),
             pc' = [pc EXCEPT ![c] = "resolved"],
             result' = [result EXCEPT ![c] = [entry |-> e, bytes |-> "none", via |-> "none"]],
             world' = [world EXCEPT ![c] = [n \in Names |-> None]],
             UNCHANGED <<op, conf, ref, todo, request, seen>>
      PROVE  IInv'
  <2> DEFINE m == e.registry
             i == w[m]
             res == [entry |-> e, bytes |-> "none", via |-> "none"]
  <2>1. /\ m \in Configured(cf) /\ i # None /\ e.source = cf[m] /\ e.name = r.name
        /\ r.name \in Catalog(i) /\ e.release \in Holds[i.source][i.version][r.name]
        /\ e.revision \in {i.version, None}
        /\ e = [registry |-> m, source |-> e.source, name |-> e.name,
                release |-> e.release, revision |-> e.revision]
        /\ r.registry = None => Candidates(cf, w, r.name) = {m}
    BY ResolveEntry
  <2>2. /\ m \in Names /\ cf[m] \in Sources /\ world[c][m] # None
        /\ i = world[c][m].index /\ i \in Served /\ i.source = cf[m]
    BY <1>2, <2>1 DEF Configured, Configs, IndexesOf, Loaded
  <2>3. e.release \in Releases /\ i.version \in Versions
    BY <2>1, <2>2, HoldsAssumption DEF Served, Catalog, Indexes
  <2>4. e \in Entry
    <3> HIDE DEF m, i
    <3>. QED
      BY <1>2, <2>1, <2>2, <2>3 DEF Entry
  <2>5. res \in Results
    BY <2>4 DEF Results
  <2>6. TypeOK'
    BY <1>1, <1>4, <2>5 DEF IInv, TypeOK, Stages
  <2>7. Others(c)
    BY <1>4 DEF Others, IInv, TypeOK
  <2>8. /\ pc'[c] = "resolved" /\ result'[c] = res /\ result'[c].entry = e
        /\ world'[c] = [n \in Names |-> None]
    BY <1>4 DEF IInv, TypeOK
  <2>9. Aware(c)'
    BY <1>1, <1>2, <1>4, <2>5, <2>8 DEF Aware, Loading, Settled, Writing, Results, Entry, Indexes
  <2>10. Loaded(c)' /\ Strictly(c)' /\ Asked(c)' /\ Answered(c)'
    BY <2>8 DEF Loaded, Strictly, Asked, Answered, Loading
  <2>11. r.registry = None =>
           /\ m \in Published(cf)
           /\ \A n \in Published(cf) \ {m} :
                \E j \in seen[c] : j.source = cf[n] /\ e.name \notin Catalog(j)
           /\ \E j \in seen[c] : /\ j.source = cf[m] /\ e.name \in Catalog(j)
                                 /\ e.release \in Holds[j.source][j.version][e.name]
    <3> SUFFICES ASSUME r.registry = None
                 PROVE  /\ m \in Published(cf)
                        /\ \A n \in Published(cf) \ {m} :
                             \E j \in seen[c] : j.source = cf[n] /\ e.name \notin Catalog(j)
                        /\ \E j \in seen[c] :
                             /\ j.source = cf[m] /\ e.name \in Catalog(j)
                             /\ e.release \in Holds[j.source][j.version][e.name]
      OBVIOUS
    <3>1. Candidates(cf, w, r.name) = {m} /\ m \in Published(cf)
      BY <2>1 DEF Candidates
    <3>2. \A n \in Published(cf) :
            /\ n \in Names /\ world[c][n] # None /\ w[n] = world[c][n].index
            /\ w[n] \in seen[c] /\ w[n] \in Served /\ w[n].source = cf[n]
      BY <1>1, <1>2 DEF Strictly, Loaded, Published, Configured, IndexesOf, Loading
    <3>3. ASSUME NEW n \in Published(cf) \ {m}
          PROVE  \E j \in seen[c] : j.source = cf[n] /\ e.name \notin Catalog(j)
      <4>1. w[n] # None
        BY <3>2, NoneAssumption DEF Served
      <4>2. r.name \notin Catalog(w[n])
        BY <3>1, <3>3, <4>1 DEF Candidates
      <4>. QED
        BY <2>1, <3>2, <3>3, <4>2
    <3>. QED
      BY <2>1, <3>1, <3>2, <3>3
  <2>12. Resolved(c)'
    <3> HIDE DEF m, i, res
    <3>. QED
      BY <1>4, <2>1, <2>8, <2>11 DEF Resolved, m
  <2>. QED
    BY <1>1, <2>6, <2>7, <2>9, <2>10, <2>12, Frame DEF Sound
<1>. QED
  BY <1>3, <1>4 DEF ResolveRef

LEMMA FetchTarballStep ==
  ASSUME IInv, NEW c \in Commands, FetchTarball(c)
  PROVE  IInv'
<1> DEFINE e == result[c].entry
<1>1. Steady /\ pc[c] = "resolved" /\ UNCHANGED <<config, cache, published, recent>>
  BY Unmoved DEF FetchTarball, IInv, TypeOK
<1>2. CASE Ends(c)
  BY <1>1, <1>2, EndsStep
<1>3. ASSUME NEW url \in Mirrors[e.source], NEW bytes \in {"promised", "other"},
             Accepts(e.source, url, bytes),
             pc' = [pc EXCEPT ![c] = "obtained"],
             result' = [result EXCEPT ![c] = [entry |-> e, bytes |-> bytes, via |-> url]],
             UNCHANGED <<op, conf, ref, todo, request, world, seen>>
      PROVE  IInv'
  <2> DEFINE res == [entry |-> e, bytes |-> bytes, via |-> url]
  <2>1. /\ result[c] \in Results /\ Aware(c) /\ Resolved(c)
        /\ e \in Entry /\ url \in {"https", "file"}
    BY <1>1, MirrorsAssumption DEF IInv, Sound, Aware, Settled, Results, Entry
  <2>2. res \in Results /\ res.entry = e /\ res.bytes = bytes /\ res.via = url
    BY <2>1 DEF Results
  <2>3. TypeOK'
    BY <1>1, <1>3, <2>2 DEF IInv, TypeOK, Stages
  <2>4. Others(c)
    BY <1>3 DEF Others, IInv, TypeOK
  <2>5. pc'[c] = "obtained" /\ result'[c] = res
    BY <1>3 DEF IInv, TypeOK
  <2> HIDE DEF res
  <2>6. /\ UNCHANGED <<published, recent, op, conf, ref, world, seen>> /\ result[c] # None
        /\ op[c] = "get" /\ ref[c].name \in Recipes
        /\ world[c] = [n \in Names |-> None] /\ seen[c] \subseteq recent
    BY <1>1, <1>3, <2>1, LoadedAssumption DEF Aware, Loading, Settled, Writing
  <2>7. Aware(c)'
    BY <2>2, <2>5, <2>6 DEF Aware, Loading, Settled, Writing
  <2>8. Loaded(c)' /\ Strictly(c)' /\ Asked(c)' /\ Answered(c)'
    BY <1>1, <1>3, <2>1, <2>5 DEF Aware, Loaded, Strictly, Asked, Answered, Loading
  <2>9. Resolved(c)'
    <3>1. res.bytes = "promised" /\ (res.via = "file" => Kind[e.source] # "index")
      BY <1>3, <2>2 DEF Accepts
    <3>2. /\ e.registry \in Configured(conf[c]) /\ e.source = conf[c][e.registry]
          /\ ref[c].registry = None =>
               /\ e.registry \in Published(conf[c])
               /\ \A n \in Published(conf[c]) \ {e.registry} :
                    \E i \in seen[c] : i.source = conf[c][n] /\ e.name \notin Catalog(i)
               /\ \E i \in seen[c] :
                    /\ i.source = conf[c][e.registry] /\ e.name \in Catalog(i)
                    /\ e.release \in Holds[i.source][i.version][e.name]
      BY <2>1, <2>6 DEF Resolved
    <3> HIDE DEF e
    <3>. QED
      BY <2>2, <2>5, <2>6, <3>1, <3>2 DEF Resolved
  <2>. QED
    BY <1>1, <2>3, <2>4, <2>8, <2>9, <2>7, Frame DEF Sound
<1>. QED
  BY <1>2, <1>3 DEF FetchTarball

LEMMA GetRefsTyped ==
  ASSUME NEW args \in Arguments, NEW r \in GetRefs(args, Lock)
  PROVE  /\ r \in [registry : Names \union {None}, name : Recipes \union {None},
                   version : Releases \union {None}]
         /\ r.name \in Recipes
BY ArgumentsAssumption DEF GetRefs

-----------------------------------------------------------------------------
\* What a command that starts to load sees is what the sources serve now.
LEMMA LoadStep ==
  ASSUME IInv, NEW c \in Commands, NEW kind \in {"get", "browse", "refresh"},
         NEW r \in [registry : Names \union {None}, name : Recipes \union {None},
                    version : Releases \union {None}],
         kind = "get" => r.name \in Recipes,
         Load(c, kind, r)
  PROVE  IInv'
<1>1. /\ Steady /\ pc[c] = "idle"
      /\ UNCHANGED <<config, cache, published, request, world, result, recent>>
  BY Unmoved DEF Load, Step, IInv, TypeOK
<1>2. /\ config \in Configs /\ Serving \subseteq Indexes /\ Serving \subseteq recent
  BY DEF IInv, TypeOK, Stored, Serving, Current, Indexes
<1>3. TypeOK'
  BY <1>1, <1>2 DEF Load, Step, IInv, TypeOK, Stages, Configured
<1>4. Others(c)
  BY <1>1 DEF Load, Step, Others, IInv, TypeOK
<1>5. /\ pc'[c] = "fetching" /\ op'[c] = kind /\ conf'[c] = config /\ ref'[c] = r
      /\ todo'[c] = {n \in Configured(config) : r.registry \in {None, n}}
      /\ seen'[c] = IF kind = "refresh" THEN {} ELSE Serving
  BY DEF Load, Step, IInv, TypeOK
<1>6. /\ world[c] = [n \in Names |-> None] /\ result[c] = None
  BY <1>1 DEF IInv, Sound, Aware, Loading, Settled, Writing
<1>7. Aware(c)'
  BY <1>1, <1>2, <1>5, <1>6 DEF Aware, Loading, Settled, Writing, Serving, Current
<1>8. Loaded(c)' /\ Asked(c)' /\ Answered(c)' /\ Resolved(c)'
  BY <1>1, <1>5, <1>6 DEF Loaded, Asked, Answered, Resolved
<1>9. Strictly(c)'
  BY <1>1, <1>5 DEF Strictly, Published
<1>. QED
  BY <1>1, <1>3, <1>4, <1>7, <1>8, <1>9, Frame DEF Sound

\* A command that is about to change the configuration holds no index.
LEMMA WriterSound ==
  ASSUME NEW c \in Commands, IInv, pc'[c] \in Writing, op'[c] \in {"add", "remove"},
         ref'[c].registry \in Names,
         pc'[c] = "building" => conf'[c][ref'[c].registry] \in Sources,
         UNCHANGED <<seen, world, result, published, recent>>,
         pc[c] \notin Loading \union Settled
  PROVE  Sound(c)'
<1>1. /\ seen[c] = {} /\ world[c] = [n \in Names |-> None] /\ result[c] = None
  BY DEF IInv, Sound, Aware
<1>2. Aware(c)'
  BY <1>1 DEF Aware, Loading, Settled, Writing
<1>. QED
  BY <1>1, <1>2 DEF Sound, Loaded, Strictly, Asked, Answered, Resolved, Loading, Writing

LEMMA AddStep ==
  ASSUME IInv, NEW c \in Commands, NEW n \in Names, NEW s \in Sources, Add(c, n, s)
  PROVE  IInv'
<1>1. /\ Steady /\ pc[c] = "idle"
      /\ UNCHANGED <<config, cache, published, todo, request, world, result, seen, recent>>
  BY Unmoved DEF Add, Step, IInv, TypeOK
<1>2. TypeOK'
  BY DEF Add, Step, IInv, TypeOK, Stages, Configs
<1>3. Others(c)
  BY DEF Add, Step, Others, IInv, TypeOK
<1>4. /\ pc'[c] \in {"building", "saving"} /\ op'[c] = "add"
      /\ ref'[c].registry = n /\ conf'[c][n] = s
  BY DEF Add, Step, IInv, TypeOK, Configs
<1>. QED
  BY <1>1, <1>2, <1>3, <1>4, WriterSound, Frame DEF Loading, Settled, Writing

LEMMA RemoveStep ==
  ASSUME IInv, NEW c \in Commands, NEW n \in Names, Remove(c, n)
  PROVE  IInv'
<1>1. /\ Steady /\ pc[c] = "idle"
      /\ UNCHANGED <<config, cache, published, todo, request, world, result, seen, recent>>
  BY Unmoved DEF Remove, Step, IInv, TypeOK
<1>2. TypeOK'
  BY DEF Remove, Step, IInv, TypeOK, Stages, Configs
<1>3. Others(c)
  BY DEF Remove, Step, Others, IInv, TypeOK
<1>4. pc'[c] = "removing" /\ op'[c] = "remove" /\ ref'[c].registry = n
  BY DEF Remove, Step, IInv, TypeOK
<1>. QED
  BY <1>1, <1>2, <1>3, <1>4, WriterSound, Frame DEF Loading, Settled, Writing

\* What a command keeps while it changes the configuration.
LEMMA WriterGoesOn ==
  ASSUME IInv, Steady, NEW c \in Commands, NEW to \in {"saving", "undoing"},
         pc[c] \in Writing, pc' = [pc EXCEPT ![c] = to], UNCHANGED locals
  PROVE  IInv'
<1>1. UNCHANGED <<op, conf, ref, todo, request, world, result, seen, published, recent>>
  BY DEF locals, Steady
<1>2. TypeOK'
  BY <1>1 DEF IInv, TypeOK, Steady, CacheTyped, Stages
<1>3. Others(c)
  BY <1>1 DEF Others, IInv, TypeOK
<1>4. pc'[c] = to
  BY DEF IInv, TypeOK
<1>5. op[c] \in {"add", "remove"} /\ ref[c].registry \in Names
  BY DEF IInv, Sound, Aware
<1>. QED
  BY <1>1, <1>2, <1>3, <1>4, <1>5, WriterSound, Frame DEF Loading, Settled, Writing

LEMMA FinishStep ==
  ASSUME IInv, NEW c \in Commands, Finish(c)
  PROVE  IInv'
BY Unmoved, EndsStep DEF Finish, IInv, TypeOK

LEMMA KilledStep ==
  ASSUME IInv, NEW c \in Commands, Killed(c)
  PROVE  IInv'
BY Unmoved, EndsStep DEF Killed, IInv, TypeOK

LEMMA SaveStep ==
  ASSUME IInv, NEW c \in Commands, Save(c)
  PROVE  IInv'
BY Unmoved, EndsStep DEF Save, IInv, TypeOK

\* A cache may go away at any time.
LEMMA Erased ==
  ASSUME IInv, NEW n \in Names, cache' = [cache EXCEPT ![n] = None],
         UNCHANGED <<config, published, recent>>
  PROVE  Steady
<1>1. CacheTyped' /\ Replaces
  BY DEF CacheTyped, Replaces, IInv, TypeOK
<1>2. Stored'
  BY DEF Stored, IInv, TypeOK, Serving, Current, Served, Consistent
<1>. QED
  BY <1>1, <1>2 DEF Steady, IInv, TypeOK

LEMMA BuildPreviewStep ==
  ASSUME IInv, NEW c \in Commands, BuildPreview(c)
  PROVE  IInv'
<1> DEFINE n == ref[c].registry
           s == conf[c][n]
<1>1. /\ pc[c] = "building" /\ n \in Names /\ s \in Sources
      /\ UNCHANGED <<config, published, recent>>
  BY DEF BuildPreview, IInv, Sound, Aware, Writing
<1>2. CASE Ends(c) /\ UNCHANGED cache
  BY <1>1, <1>2, Unmoved, EndsStep DEF IInv, TypeOK
<1>3. CASE /\ cache' = [cache EXCEPT ![n] = Envelope(s, published[s])]
           /\ pc' = [pc EXCEPT ![c] = "saving"]
           /\ UNCHANGED locals
  <2>1. published[s] \in Versions /\ [source |-> s, version |-> published[s]] \in recent
    BY <1>1 DEF IInv, TypeOK, Stored, Serving, Current
  <2>2. Steady
    BY <1>1, <1>3, <2>1, Written
  <2>. QED
    BY <1>1, <1>3, <2>2, WriterGoesOn DEF Writing
<1>. QED
  BY <1>2, <1>3 DEF BuildPreview

LEMMA SaveFailsStep ==
  ASSUME IInv, NEW c \in Commands, SaveFails(c)
  PROVE  IInv'
<1>1. Steady /\ pc[c] = "saving"
  BY Unmoved DEF SaveFails, IInv, TypeOK
<1>. QED
  BY <1>1, EndsStep, WriterGoesOn DEF SaveFails, Step, Writing

LEMMA RemoveCacheStep ==
  ASSUME IInv, NEW c \in Commands, RemoveCache(c)
  PROVE  IInv'
<1>1. /\ pc[c] \in {"removing", "undoing"} /\ ref[c].registry \in Names
      /\ UNCHANGED <<config, published, recent>>
  BY DEF RemoveCache, IInv, Sound, Aware, Writing
<1>2. Steady
  BY <1>1, Erased, Unmoved DEF RemoveCache, IInv, TypeOK
<1>. QED
  BY <1>1, <1>2, EndsStep, WriterGoesOn DEF RemoveCache, Writing

-----------------------------------------------------------------------------
\* A new index widens what is served, and what those who look have seen.
LEMMA PublishStep ==
  ASSUME IInv, NEW s \in Sources, NEW v \in Versions, Publish(s, v)
  PROVE  IInv'
<1> DEFINE i == [source |-> s, version |-> v]
<1>1. /\ published' = [published EXCEPT ![s] = v] /\ recent' = recent \union {i}
      /\ seen' = [c \in Commands |-> IF seen[c] = {} THEN {} ELSE seen[c] \union {i}]
      /\ v \in DOMAIN Holds[s] /\ i \in Served /\ i \in Indexes
      /\ UNCHANGED <<config, cache, pc, op, conf, ref, todo, request, world, result>>
  BY DEF Publish, Served, Indexes
<1>2. TypeOK'
  BY <1>1 DEF IInv, TypeOK
<1>3. Serving' \subseteq Serving \union {i} /\ s \in Sources /\ Current(s) \in Serving
  BY <1>1 DEF Serving, Current, IInv, TypeOK
<1>4. Served' = Served /\ recent \subseteq recent'
  BY <1>1 DEF Served
<1>5. Stored'
  BY <1>1, <1>3, <1>4 DEF IInv, Stored
<1>6. ASSUME NEW c \in Commands
      PROVE  Sound(c)'
  <2>1. /\ Aware(c) /\ Loaded(c) /\ Strictly(c) /\ Asked(c) /\ Answered(c) /\ Resolved(c)
        /\ seen'[c] = IF seen[c] = {} THEN {} ELSE seen[c] \union {i}
        /\ seen[c] \subseteq seen'[c]
    BY <1>1 DEF IInv, Sound
  <2>2. pc[c] \in Loading /\ op[c] # "refresh" => Serving' \subseteq seen'[c]
    BY <1>3, <2>1 DEF Aware
  <2>3. Aware(c)'
    BY <1>1, <2>1, <2>2 DEF Aware
  <2>4. Loaded(c)'
    BY <1>1, <1>4, <2>1 DEF Loaded
  <2>5. Strictly(c)'
    BY <1>1, <2>1 DEF Strictly
  <2>6. Asked(c)'
    BY <1>1, <1>4, <2>1 DEF Asked
  <2>7. Answered(c)'
    BY <1>1, <1>4, <2>1 DEF Answered, Confirmed
  <2>8. Resolved(c)'
    BY <1>1, <2>1 DEF Resolved
  <2>. QED
    BY <2>3, <2>4, <2>5, <2>6, <2>7, <2>8 DEF Sound
<1>. QED
  BY <1>2, <1>5, <1>6 DEF IInv

\* The window ends when no command runs, so nobody relies on what was young.
LEMMA TickStep ==
  ASSUME IInv, Tick
  PROVE  IInv'
<1>1. /\ \A c \in Commands : pc[c] = "idle"
      /\ recent' = Serving
      /\ UNCHANGED <<config, published, pc, op, conf, ref, todo, request, world, result, seen>>
  BY DEF Tick, locals
<1>2. \A n \in Names :
        /\ cache'[n] = None <=> cache[n] = None
        /\ cache[n] # None =>
             /\ cache'[n] \in Envelopes /\ cache'[n].fresh = FALSE
             /\ cache'[n].index = cache[n].index /\ Consistent(cache'[n])
  <2> SUFFICES ASSUME NEW n \in Names
               PROVE  /\ cache'[n] = None <=> cache[n] = None
                      /\ cache[n] # None =>
                           /\ cache'[n] \in Envelopes /\ cache'[n].fresh = FALSE
                           /\ cache'[n].index = cache[n].index /\ Consistent(cache'[n])
    OBVIOUS
  <2>1. CASE cache[n] = None
    BY <2>1 DEF Tick
  <2>2. CASE cache[n] # None
    <3> DEFINE e == [source |-> cache[n].source, tag |-> cache[n].tag,
                     index |-> cache[n].index, fresh |-> FALSE]
    <3>1. cache'[n] = e
      BY <2>2 DEF Tick
    <3>2. cache[n] \in Envelopes /\ Consistent(cache[n])
      BY <2>2 DEF IInv, TypeOK, Stored
    <3>3. e \in Envelopes /\ e.index = cache[n].index /\ Consistent(e) /\ e.fresh = FALSE
      BY <3>2 DEF Envelopes, Consistent
    <3>. QED
      BY <2>2, <3>1, <3>3, LoadedAssumption
  <2>. QED
    BY <2>1, <2>2
<1>3. Serving \subseteq Indexes /\ Serving \subseteq recent /\ Serving' = Serving
      /\ Served' = Served
  <2>1. Serving' = Serving /\ Served' = Served
    BY <1>1 DEF Serving, Current, Served
  <2>. QED
    BY <2>1 DEF IInv, TypeOK, Stored, Serving, Current, Indexes
<1>4. CacheTyped'
  BY <1>2 DEF Tick, CacheTyped
<1>5. TypeOK'
  BY <1>1, <1>3, <1>4 DEF IInv, TypeOK, CacheTyped
<1>6. Stored'
  BY <1>1, <1>2, <1>3 DEF IInv, Stored
<1>7. ASSUME NEW c \in Commands
      PROVE  Sound(c)'
  <2>1. /\ pc'[c] = "idle" /\ Aware(c)
        /\ seen[c] = {} /\ result[c] = None /\ world[c] = [n \in Names |-> None]
    BY <1>1 DEF IInv, Sound, Aware, Loading, Settled, Writing
  <2>2. Aware(c)'
    BY <1>1, <2>1 DEF Aware, Loading, Settled, Writing
  <2>. QED
    BY <1>1, <2>1, <2>2 DEF Sound, Loaded, Strictly, Asked, Answered, Resolved, Loading
<1>. QED
  BY <1>5, <1>6, <1>7 DEF IInv

-----------------------------------------------------------------------------
LEMMA InitInv == Init => IInv
<1> SUFFICES ASSUME Init
             PROVE  IInv
  OBVIOUS
<1>1. /\ config \in Configs /\ published \in [Sources -> Versions]
      /\ \A s \in Sources : published[s] \in DOMAIN Holds[s]
  BY ConfigsAssumption DEF Init
<1>2. Serving \subseteq Indexes /\ Serving \subseteq Served /\ recent = Serving
  BY <1>1 DEF Init, Serving, Current, Indexes, Served
<1>3. TypeOK
  <2>1. NoConfig \in Configs
    BY DEF NoConfig, Configs
  <2>. QED
    BY <1>1, <1>2, <2>1 DEF Init, TypeOK, Stages, NoRef, NoRequest
<1>4. Stored
  BY <1>2 DEF Stored, Init
<1>5. ASSUME NEW c \in Commands
      PROVE  Sound(c)
  <2>1. /\ pc[c] = "idle" /\ op[c] = "get" /\ seen[c] = {} /\ result[c] = None
        /\ world[c] = [n \in Names |-> None]
    BY DEF Init
  <2>2. Aware(c)
    BY <2>1 DEF Aware, Loading, Settled, Writing
  <2>. QED
    BY <2>1, <2>2 DEF Sound, Loaded, Strictly, Asked, Answered, Resolved, Loading
<1>. QED
  BY <1>3, <1>4, <1>5 DEF IInv

LEMMA StartStep ==
  ASSUME IInv, NEW c \in Commands, Start(c)
  PROVE  IInv'
<1>1. CASE Get(c)
  BY <1>1, GetRefsTyped, LoadStep DEF Get
<1>2. NoRef \in [registry : Names \union {None}, name : Recipes \union {None},
                 version : Releases \union {None}]
  BY DEF NoRef
<1>3. CASE Browse(c)
  BY <1>2, <1>3, LoadStep DEF Browse
<1>4. CASE Refresh(c)
  <2>1. PICK n \in Configured(config) \union {None} :
          Load(c, "refresh", [registry |-> n, name |-> None, version |-> None])
    BY <1>4 DEF Refresh
  <2>2. [registry |-> n, name |-> None, version |-> None] \in
          [registry : Names \union {None}, name : Recipes \union {None},
           version : Releases \union {None}]
    BY DEF Configured
  <2>. QED
    BY <2>1, <2>2, LoadStep
<1>5. CASE \E o \in Offers : Add(c, o[1], o[2])
  BY <1>5, ConfigsAssumption, AddStep
<1>6. CASE \E n \in Names : Remove(c, n)
  BY <1>6, RemoveStep
<1>. QED
  BY <1>1, <1>3, <1>4, <1>5, <1>6 DEF Start

LEMMA ProceedStep ==
  ASSUME IInv, NEW c \in Commands, Proceed(c)
  PROVE  IInv'
<1>1. ASSUME NEW n \in Names,
             ReadFile(c, n) \/ ReadPreview(c, n) \/ RefreshPreview(c, n) \/ ReadCache(c, n)
      PROVE  IInv'
  BY <1>1, ReadFileStep, ReadPreviewStep, RefreshPreviewStep, ReadCacheStep
<1>2. CASE Answer(c) \/ NotModified(c) \/ NewIndex(c) \/ RequestFails(c) \/ WriteFails(c)
  BY <1>2, AnswerStep, NotModifiedStep, NewIndexStep, RequestFailsStep, WriteFailsStep
<1>3. CASE ResolveRef(c) \/ FetchTarball(c) \/ Finish(c)
  BY <1>3, ResolveRefStep, FetchTarballStep, FinishStep
<1>4. CASE BuildPreview(c) \/ Save(c) \/ SaveFails(c) \/ RemoveCache(c)
  BY <1>4, BuildPreviewStep, SaveStep, SaveFailsStep, RemoveCacheStep
<1>. QED
  BY <1>1, <1>2, <1>3, <1>4 DEF Proceed

LEMMA StutterStep ==
  ASSUME IInv, UNCHANGED vars
  PROVE  IInv'
<1>1. /\ UNCHANGED <<config, cache, published, pc, op, conf, ref, todo, request, world,
                     result, seen, recent>>
  BY DEF vars, locals
<1>2. TypeOK'
  BY <1>1 DEF IInv, TypeOK
<1>3. Serving' = Serving /\ Served' = Served
  BY <1>1 DEF Serving, Current, Served
<1>4. Stored'
  BY <1>1, <1>3 DEF IInv, Stored
<1>5. ASSUME NEW c \in Commands
      PROVE  Sound(c)'
  <2>1. Sound(c)
    BY DEF IInv
  <2>2. Aware(c)' /\ Loaded(c)'
    BY <1>1, <1>3, <2>1 DEF Sound, Aware, Loaded
  <2>3. Strictly(c)' /\ Resolved(c)'
    BY <1>1, <2>1 DEF Sound, Strictly, Resolved
  <2>4. Asked(c)'
    BY <1>1, <1>3, <2>1 DEF Sound, Asked
  <2>5. Answered(c)'
    BY <1>1, <2>1 DEF Sound, Answered, Confirmed
  <2>. QED
    BY <2>2, <2>3, <2>4, <2>5 DEF Sound
<1>. QED
  BY <1>2, <1>4, <1>5 DEF IInv

LEMMA NextInv ==
  ASSUME IInv, [Next]_vars
  PROVE  IInv'
<1>1. CASE \E c \in Commands : Start(c) \/ Proceed(c) \/ Killed(c)
  BY <1>1, StartStep, ProceedStep, KilledStep
<1>2. CASE \E s \in Sources, v \in Versions : Publish(s, v)
  BY <1>2, PublishStep
<1>3. CASE Tick
  BY <1>3, TickStep
<1>4. CASE UNCHANGED vars
  BY <1>4, StutterStep
<1>. QED
  BY <1>1, <1>2, <1>3, <1>4 DEF Next

-----------------------------------------------------------------------------
\* The recipes of one registry all carry its name.
LEMMA EntryNames ==
  ASSUME NEW cf, NEW w, NEW n, NEW r, NEW e \in Entries(cf, w, n, r)
  PROVE  e.registry = n
BY DEF Entries

\* A row of a catalog is shown by a name that no other registry can take: with
\* several published registries it is qualified, and with one there is no other.
LEMMA ShownRowResolves ==
  ASSUME NEW cf \in Configs, NEW w, NEW row \in CatalogRows(cf, w)
  PROVE  Means(cf, w, row)
<1> DEFINE n == row[1]
           d == DisplayName(cf, w, n, row[2])
           served == [m \in Names |-> IF cf[m] = None THEN None ELSE Current(cf[m])]
<1>1. n \in Names /\ n \in Configured(cf)
  BY DEF CatalogRows, Entries
<1>2. SUFFICES ASSUME NEW e \in Resolve(cf, served, d)
               PROVE  e.registry = n
  BY DEF Means
<1>3. CASE d.registry # None
  <2>1. d.registry = n
    BY <1>3 DEF DisplayName
  <2>2. e \in Entries(cf, served, n, d)
    BY <1>3, <2>1 DEF Resolve
  <2>. HIDE DEF n, d, served
  <2>. QED
    BY <2>2, EntryNames
<1>4. CASE d.registry = None
  <2>1. ~ (Cardinality(Published(cf)) > 1) /\ ~ IsGit(cf[n])
    BY <1>1, <1>4, NoneAssumption DEF DisplayName
  <2>2. n \in Published(cf) /\ Published(cf) \subseteq Names
    BY <1>1, <2>1 DEF Published, Configured
  <2>3. IsFiniteSet(Published(cf)) /\ Cardinality(Published(cf)) \in Nat
    BY <2>2, NamesAssumption, FS_Subset, FS_CardinalityType
  <2>4. {n} \subseteq Published(cf) /\ Cardinality({n}) = 1
    BY <2>2, FS_Singleton
  <2>5. Cardinality({n}) = Cardinality(Published(cf))
    BY <2>1, <2>3, <2>4, FS_Subset
  <2>6. Published(cf) = {n}
    BY <2>3, <2>4, <2>5, FS_Subset
  <2>7. Candidates(cf, served, d.name) = {e.registry}
    BY <1>4, ResolveEntry
  <2>. QED
    BY <2>6, <2>7 DEF Candidates
<1>. QED
  BY <1>3, <1>4

-----------------------------------------------------------------------------
THEOREM AlwaysIInv == Spec => []IInv
BY InitInv, NextInv, PTL DEF Spec

\* Every variable keeps its type.
THEOREM AlwaysTyped == Spec => []TypeOK
<1>1. IInv => TypeOK
  BY DEF IInv
<1>. QED
  BY <1>1, AlwaysIInv, PTL

\* Whatever caches, tags and answers cross (pkg/registry/fetch.go), an index that was
\* revalidated is one its source served after the command had started.
THEOREM AlwaysRevalidatedIsCurrent == Spec => []RevalidatedIsCurrent
<1>1. IInv => RevalidatedIsCurrent
  BY DEF IInv, Sound, Loaded, RevalidatedIsCurrent
<1>. QED
  BY <1>1, AlwaysIInv, PTL

\* get resolves a name alone (pkg/registry/resolve.go) only when it knows that no other
\* published registry of its configuration has it.
THEOREM AlwaysUnqualifiedIsUnique == Spec => []UnqualifiedIsUnique
<1>1. IInv => UnqualifiedIsUnique
  BY DEF IInv, Sound, Resolved, UnqualifiedIsUnique
<1>. QED
  BY <1>1, AlwaysIInv, PTL

\* No command and no completion uses an index of another source than the configured one.
THEOREM AlwaysIndexFromItsSource == Spec => []IndexFromItsSource
<1>1. ASSUME IInv
      PROVE  IndexFromItsSource
  <2>1. \A c \in Commands, n \in Names :
          world[c][n] # None => world[c][n].index.source = conf[c][n]
    BY <1>1 DEF IInv, Sound, Loaded
  <2>2. ASSUME NEW n \in Configured(config), CachedIndex(n, config[n]) # None
        PROVE  CachedIndex(n, config[n]).source = config[n]
    <3>1. n \in Names /\ config[n] \in Sources
      BY <1>1 DEF IInv, TypeOK, Configs, Configured
    <3>2. CASE Kind[config[n]] = "file"
      BY <3>2 DEF CachedIndex, Current
    <3>3. CASE Kind[config[n]] # "file"
      <4>1. ReadIndexCache(n, config[n]) # None
        BY <2>2, <3>3 DEF CachedIndex
      <4>2. ReadIndexCache(n, config[n]).index.source = config[n]
        BY <1>1, <3>1, <4>1, Read
      <4>. QED
        BY <3>3, <4>1, <4>2 DEF CachedIndex
    <3>. QED
      BY <3>2, <3>3
  <2>. QED
    BY <2>1, <2>2 DEF IndexFromItsSource
<1>. QED
  BY <1>1, AlwaysIInv, PTL

\* A catalog that is listed without a warning (cmd/vaka/registryclient.go) was being
\* served in the current window of freshness.
THEOREM AlwaysBrowseIsRecent == Spec => []BrowseIsRecent
<1>1. IInv => BrowseIsRecent
  BY DEF IInv, Sound, Loaded, BrowseIsRecent
<1>. QED
  BY <1>1, AlwaysIInv, PTL

\* A name that is listed or completed never means another registry's recipe.
THEOREM AlwaysShownNamesResolve == Spec => []ShownNamesResolve
<1>1. IInv => ShownNamesResolve
  BY ShownRowResolves DEF IInv, TypeOK, ShownNamesResolve
<1>. QED
  BY <1>1, AlwaysIInv, PTL

\* What get obtained for a name alone is what its registry listed, byte for byte
\* (pkg/registry/fetch.go), and no local file unless the source is local.
THEOREM AlwaysObtainedAsPublished == Spec => []ObtainedAsPublished
<1>1. ASSUME IInv
      PROVE  ObtainedAsPublished
  <2> SUFFICES ASSUME NEW c \in Commands, pc[c] = "obtained"
               PROVE  LET e == result[c].entry IN
                      /\ result[c].bytes = "promised"
                      /\ result[c].via = "file" => Kind[conf[c][e.registry]] # "index"
                      /\ ref[c].registry = None =>
                           \E i \in seen[c] :
                             /\ i.source = conf[c][e.registry]
                             /\ e.name \in Catalog(i)
                             /\ e.release \in Holds[i.source][i.version][e.name]
    BY DEF ObtainedAsPublished
  <2>1. result[c] # None /\ Resolved(c)
    BY <1>1, LoadedAssumption DEF IInv, Sound, Aware, Settled
  <2>. QED
    BY <2>1 DEF Resolved
<1>. QED
  BY <1>1, AlwaysIInv, PTL

=============================================================================
