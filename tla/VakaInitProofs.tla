--------------------------- MODULE VakaInitProofs ---------------------------
(***************************************************************************)
(* Proofs about VakaInit: a program runs without the capabilities it was   *)
(* to lose, as the user it was to have, with its volumes owned as it asked *)
(* and behind the rules its policy means.                                  *)
(***************************************************************************)
EXTENDS VakaInit, WellFoundedInduction, TLAPS

\* The stages before the capabilities are dropped, and those from then on.
Early == {"start", "resolve", "load", "chown", "walk"}

Late == {"groups", "gid", "uid", "again", "exec", "running"}

CapSets == [effective : SUBSET Capabilities, permitted : SUBSET Capabilities,
            inheritable : SUBSET Capabilities, bounding : SUBSET Capabilities,
            ambient : SUBSET Capabilities]

Typed ==
  /\ policy \in Deployments
  /\ pc \in [Containers -> Early \union Late \union {"failed", "stopped"}]
  /\ caps \in [Containers -> CapSets]
  /\ id \in [Containers -> Identities]

\* What a process is never given: only its bounding set can hand a capability
\* to what it executes.
Bounded(c) ==
  /\ caps[c].inheritable = {} /\ caps[c].ambient = {}
  /\ pc[c] \in Late => caps[c].bounding \intersect policy[c].drop = {}
  /\ pc[c] = "running" => /\ caps[c].effective \subseteq caps[c].bounding
                          /\ caps[c].permitted \subseteq caps[c].bounding

\* The identity, as far as it has been taken.
Identified(c) ==
  LET user == policy[c].user IN
  /\ pc[c] \in Early \union {"groups"} => id[c] = Superuser
  /\ pc[c] \in {"groups", "gid", "uid", "again"} => user \in Identities
  /\ pc[c] = "gid" => id[c] = [uid |-> 0, gid |-> 0, groups |-> user.groups]
  /\ pc[c] = "uid" => id[c] = [uid |-> 0, gid |-> user.gid, groups |-> user.groups]
  /\ pc[c] = "again" => id[c] = user
  /\ pc[c] \in {"exec", "running"} => id[c] = IF user = None THEN Superuser ELSE user

IInv == Typed /\ \A c \in Containers : Bounded(c) /\ Identified(c)

-----------------------------------------------------------------------------
\* Docker starts every container as root, with the capabilities it was given.
LEMMA FreshProcess ==
  ASSUME Typed, NEW c \in Containers
  PROVE  /\ FreshCaps(policy[c].caps) \in CapSets
         /\ FreshCaps(policy[c].caps).inheritable = {}
         /\ FreshCaps(policy[c].caps).ambient = {}
         /\ Superuser \in Identities
BY DeploymentsAssumption DEF Typed, FreshCaps, CapSets, Superuser, Identities

LEMMA InitInv == Init => IInv
<1> SUFFICES ASSUME Init PROVE IInv
  OBVIOUS
<1>1. \A c \in Containers : policy[c].caps \subseteq Capabilities
  BY DeploymentsAssumption DEF Init
<1>2. \A c \in Containers : FreshCaps(policy[c].caps) \in CapSets
                            /\ FreshCaps(policy[c].caps).inheritable = {}
                            /\ FreshCaps(policy[c].caps).ambient = {}
  BY <1>1 DEF FreshCaps, CapSets
<1>3. Superuser \in Identities
  BY DEF Superuser, Identities
<1>4. Typed
  BY <1>2, <1>3 DEF Init, Typed, Early
<1>. QED
  BY <1>2, <1>4 DEF Init, IInv, Bounded, Identified, Early, Late

-----------------------------------------------------------------------------
\* A step that leaves the process alone and stays before the drop of the
\* capabilities, or stops.
LEMMA EarlyStep ==
  ASSUME IInv, NEW c \in Containers,
         UNCHANGED <<policy, process>>,
         NEW s \in Early \union {"failed", "stopped"},
         pc' = [pc EXCEPT ![c] = s],
         s \in Early => pc[c] \in Early
  PROVE  IInv'
<1>1. Typed'
  BY DEF IInv, Typed, process
<1>2. ASSUME NEW d \in Containers
      PROVE  Bounded(d)' /\ Identified(d)'
  BY <1>2 DEF IInv, Typed, Bounded, Identified, process, Early, Late
<1>. QED
  BY <1>1, <1>2 DEF IInv

\* A step to s that changes the process of c to sets and who, and what of the
\* invariant is left to show of it.
LEMMA ProcessStep ==
  ASSUME IInv, NEW c \in Containers, NEW s, NEW sets, NEW who,
         pc' = [pc EXCEPT ![c] = s],
         caps' = [caps EXCEPT ![c] = sets],
         id' = [id EXCEPT ![c] = who],
         UNCHANGED policy,
         s \in Early \union Late \union {"failed"},
         sets \in CapSets, who \in Identities,
         Bounded(c)', Identified(c)'
  PROVE  IInv'
<1>1. Typed'
  BY DEF IInv, Typed
<1>2. ASSUME NEW d \in Containers, d # c
      PROVE  Bounded(d)' /\ Identified(d)'
  BY <1>2 DEF IInv, Typed, Bounded, Identified
<1>. QED
  BY <1>1, <1>2 DEF IInv

-----------------------------------------------------------------------------
\* The steps up to the drop of the capabilities.
LEMMA EarlySteps ==
  ASSUME IInv, NEW c \in Containers,
         \/ ReadPolicy(c) \/ ResolvePolicy(c) \/ LoadRules(c) \/ BeginChown(c)
         \/ \E p \in Paths : ChownPath(c, p)
         \/ Stops(c)
  PROVE  IInv'
<1>1. UNCHANGED <<policy, process>>
  BY DEF ReadPolicy, ResolvePolicy, LoadRules, BeginChown, ChownPath, Stops
<1>2. PICK s \in Early \union {"failed", "stopped"} :
         pc' = [pc EXCEPT ![c] = s] /\ (s \in Early => pc[c] \in Early)
  BY DEF ReadPolicy, ResolvePolicy, LoadRules, BeginChown, ChownPath, Stops, Step, Early
<1>. QED
  BY <1>1, <1>2, EarlyStep

\* Every policy names a user or none, and capabilities that exist.
LEMMA PolicyTyped ==
  ASSUME IInv, NEW c \in Containers
  PROVE  /\ policy[c].user \in Identities \union {None}
         /\ policy[c].drop \subseteq Capabilities
         /\ caps[c] \in CapSets /\ id[c] \in Identities
         /\ Bounded(c) /\ Identified(c)
BY DeploymentsAssumption DEF IInv, Typed

\* A reduction of the capability sets, whatever is deferred.
LEMMA WithoutReduces ==
  ASSUME NEW sets \in CapSets, NEW drop, NEW deferred
  PROVE  /\ Without(sets, drop, deferred) \in CapSets
         /\ Without(sets, drop, deferred).ambient = {}
         /\ Without(sets, drop, deferred).inheritable = sets.inheritable \ drop
         /\ Without(sets, drop, deferred).bounding = sets.bounding \ drop
BY DEF Without, CapSets

LEMMA DropCapsStep ==
  ASSUME IInv, NEW c \in Containers, DropCaps(c)
  PROVE  IInv'
<1> DEFINE drop == policy[c].drop
           dropped == drop # {} /\ Has(c, "SETPCAP")
           ok == drop = {} \/ Has(c, "SETPCAP")
           s == IF ok THEN IF Switches(c) THEN "groups" ELSE "exec" ELSE "failed"
           sets == IF dropped THEN Without(caps[c], drop, Deferred(c)) ELSE caps[c]
<1>1. /\ pc[c] = "chown" /\ pc' = [pc EXCEPT ![c] = s]
      /\ UNCHANGED <<policy, id>>
      /\ caps' = [caps EXCEPT ![c] = sets]
  BY DEF DropCaps, Step, IInv, Typed
<1>2. id' = [id EXCEPT ![c] = id[c]]
  BY <1>1 DEF IInv, Typed
<1>3. /\ sets \in CapSets /\ sets.ambient = {} /\ sets.inheritable = {}
      /\ ok => sets.bounding \intersect drop = {}
  BY PolicyTyped, WithoutReduces DEF Bounded
<1>4. /\ s \in {"groups", "exec", "failed"}
      /\ s = "groups" => policy[c].user \in Identities
      /\ s = "exec" => policy[c].user \in {None, Superuser}
      /\ s # "failed" => ok
  BY PolicyTyped DEF Switches
<1>5. id[c] = Superuser
  BY PolicyTyped, <1>1 DEF Identified, Early
<1> HIDE DEF s, sets, ok
<1>6. pc'[c] = s /\ caps'[c] = sets /\ id'[c] = id[c] /\ policy' = policy
  BY <1>1 DEF IInv, Typed
<1>7. Bounded(c)'
  BY <1>3, <1>4, <1>6 DEF Bounded, Late
<1>8. Identified(c)'
  BY <1>4, <1>5, <1>6 DEF Identified, Early
<1>. QED
  BY <1>1, <1>2, <1>3, <1>4, <1>7, <1>8, PolicyTyped, ProcessStep DEF Late

\* A step of the switch of identity: at most the identity and, in sets from
\* which nothing is inherited, the capabilities change.
LEMMA SwitchStep ==
  ASSUME IInv, NEW c \in Containers, pc[c] \in Late,
         NEW s \in {"gid", "uid", "again", "exec", "failed"}, NEW sets \in CapSets, NEW who \in Identities,
         pc' = [pc EXCEPT ![c] = s],
         caps' = [caps EXCEPT ![c] = sets],
         id' = [id EXCEPT ![c] = who],
         UNCHANGED policy,
         sets.ambient = {}, sets.inheritable = {}, sets.bounding \subseteq caps[c].bounding,
         Identified(c)'
  PROVE  IInv'
<1>1. pc'[c] = s /\ caps'[c] = sets /\ policy' = policy
  BY DEF IInv, Typed
<1>2. Bounded(c)'
  BY <1>1, PolicyTyped DEF Bounded
<1>. QED
  BY <1>2, ProcessStep DEF Late

LEMMA SetGroupsStep ==
  ASSUME IInv, NEW c \in Containers, SetGroups(c)
  PROVE  IInv'
<1> DEFINE user == policy[c].user
           s == IF Has(c, "SETGID") THEN "gid" ELSE "failed"
           who == IF Has(c, "SETGID")
                  THEN [uid |-> 0, gid |-> 0, groups |-> user.groups] ELSE id[c]
<1>1. pc[c] = "groups" /\ id[c] = Superuser /\ user \in Identities
  BY PolicyTyped DEF SetGroups, Step, Identified
<1>2. [id[c] EXCEPT !.groups = user.groups] = [uid |-> 0, gid |-> 0, groups |-> user.groups]
  BY <1>1 DEF Superuser
<1>3. /\ pc' = [pc EXCEPT ![c] = s] /\ UNCHANGED <<policy, caps>>
      /\ id' = [id EXCEPT ![c] = who]
  BY <1>2 DEF SetGroups, Step, IInv, Typed
<1>4. who \in Identities
  BY <1>1, PolicyTyped DEF Identities
<1>5. caps' = [caps EXCEPT ![c] = caps[c]]
  BY <1>3 DEF IInv, Typed
<1>6. pc'[c] = s /\ id'[c] = who /\ policy' = policy
  BY <1>3 DEF IInv, Typed
<1>7. Identified(c)'
  BY <1>1, <1>6 DEF Identified, Early
<1>. QED
  BY <1>1, <1>3, <1>4, <1>5, <1>7, PolicyTyped, SwitchStep DEF Late, Bounded

LEMMA SetGidStep ==
  ASSUME IInv, NEW c \in Containers, SetGid(c)
  PROVE  IInv'
<1> DEFINE user == policy[c].user
           ok == Has(c, "SETGID") \/ user.gid = id[c].gid
           s == IF ok THEN "uid" ELSE "failed"
           who == IF ok THEN [uid |-> 0, gid |-> user.gid, groups |-> user.groups] ELSE id[c]
<1>1. /\ pc[c] = "gid" /\ user \in Identities
      /\ id[c] = [uid |-> 0, gid |-> 0, groups |-> user.groups]
  BY PolicyTyped DEF SetGid, Step, Identified
<1>2. [id[c] EXCEPT !.gid = user.gid] = [uid |-> 0, gid |-> user.gid, groups |-> user.groups]
  BY <1>1 DEF Superuser
<1>3. /\ pc' = [pc EXCEPT ![c] = s] /\ UNCHANGED <<policy, caps>>
      /\ id' = [id EXCEPT ![c] = who]
  BY <1>2 DEF SetGid, Step, IInv, Typed
<1>4. who \in Identities
  BY <1>1, PolicyTyped DEF Identities
<1>5. caps' = [caps EXCEPT ![c] = caps[c]]
  BY <1>3 DEF IInv, Typed
<1>6. pc'[c] = s /\ id'[c] = who /\ policy' = policy
  BY <1>3 DEF IInv, Typed
<1>7. Identified(c)'
  BY <1>1, <1>6 DEF Identified, Early
<1>. QED
  BY <1>1, <1>3, <1>4, <1>5, <1>7, PolicyTyped, SwitchStep DEF Late, Bounded

LEMMA SetUidStep ==
  ASSUME IInv, NEW c \in Containers, SetUid(c)
  PROVE  IInv'
<1> DEFINE user == policy[c].user
           ok == Has(c, "SETUID") \/ user.uid = id[c].uid
           s == IF ok THEN "again" ELSE "failed"
           who == IF ok THEN user ELSE id[c]
           sets == IF ok /\ user.uid # 0 THEN Unprivileged(caps[c]) ELSE caps[c]
<1>1. /\ pc[c] = "uid" /\ user \in Identities
      /\ id[c] = [uid |-> 0, gid |-> user.gid, groups |-> user.groups]
  BY PolicyTyped DEF SetUid, Step, Identified
<1>2. [id[c] EXCEPT !.uid = user.uid] = user
  BY <1>1 DEF Identities
<1>3. /\ pc' = [pc EXCEPT ![c] = s] /\ UNCHANGED policy
      /\ id' = [id EXCEPT ![c] = who]
      /\ caps' = [caps EXCEPT ![c] = sets]
  BY <1>2 DEF SetUid, Step, IInv, Typed
<1>4. who \in Identities
  BY <1>1, PolicyTyped
<1>5. /\ sets \in CapSets /\ sets.ambient = {} /\ sets.inheritable = {}
      /\ sets.bounding = caps[c].bounding
  BY PolicyTyped DEF Unprivileged, CapSets, Bounded
<1>6. pc'[c] = s /\ id'[c] = who /\ policy' = policy
  BY <1>3 DEF IInv, Typed
<1>7. Identified(c)'
  BY <1>1, <1>6 DEF Identified, Early
<1>. QED
  BY <1>1, <1>3, <1>4, <1>5, <1>7, SwitchStep DEF Late

LEMMA DropDeferredStep ==
  ASSUME IInv, NEW c \in Containers, DropDeferred(c)
  PROVE  IInv'
<1> DEFINE user == policy[c].user
           drops == policy[c].drop # {} /\ user.uid = 0 /\ Deferred(c) # {}
           s == IF drops => Has(c, "SETPCAP") THEN "exec" ELSE "failed"
           sets == IF drops /\ Has(c, "SETPCAP")
                   THEN Without(caps[c], Deferred(c), {}) ELSE caps[c]
<1>1. pc[c] = "again" /\ user \in Identities /\ id[c] = user /\ user # None
  BY PolicyTyped, DeploymentsAssumption DEF DropDeferred, Step, Identified
<1>2. /\ pc' = [pc EXCEPT ![c] = s] /\ UNCHANGED <<policy, id>>
      /\ caps' = [caps EXCEPT ![c] = sets]
  BY DEF DropDeferred, Step, IInv, Typed
<1>3. id' = [id EXCEPT ![c] = id[c]]
  BY <1>2 DEF IInv, Typed
<1>4. /\ sets \in CapSets /\ sets.ambient = {} /\ sets.inheritable = {}
      /\ sets.bounding \subseteq caps[c].bounding
  BY PolicyTyped, WithoutReduces DEF Bounded
<1>5. pc'[c] = s /\ id'[c] = id[c] /\ policy' = policy
  BY <1>2 DEF IInv, Typed
<1>6. Identified(c)'
  BY <1>1, <1>5 DEF Identified, Early
<1>. QED
  BY <1>1, <1>2, <1>3, <1>4, <1>6, PolicyTyped, SwitchStep DEF Late

\* What the kernel gives the program is within the bounding set, since nothing
\* is inheritable or ambient.
LEMMA ExecStep ==
  ASSUME IInv, NEW c \in Containers, Exec(c)
  PROVE  IInv'
<1> DEFINE sets == AfterExec(caps[c], id[c].uid)
<1>1. pc[c] = "exec"
  BY DEF Exec, Step
<1>2. /\ pc' = [pc EXCEPT ![c] = "running"] /\ UNCHANGED <<policy, id>>
      /\ caps' = [caps EXCEPT ![c] = sets]
  BY DEF Exec, Step, IInv, Typed
<1>3. id' = [id EXCEPT ![c] = id[c]]
  BY <1>2 DEF IInv, Typed
<1>4. /\ sets \in CapSets /\ sets.ambient = {} /\ sets.inheritable = {}
      /\ sets.effective \subseteq caps[c].bounding
      /\ sets.permitted \subseteq caps[c].bounding
      /\ sets.bounding = caps[c].bounding
  BY PolicyTyped DEF AfterExec, CapSets, Bounded
<1> HIDE DEF sets
<1>5. pc'[c] = "running" /\ caps'[c] = sets /\ id'[c] = id[c] /\ policy' = policy
  BY <1>2 DEF IInv, Typed
<1>6. Bounded(c)'
  BY <1>1, <1>4, <1>5, PolicyTyped DEF Bounded, Late
<1>7. Identified(c)'
  BY <1>1, <1>5, PolicyTyped DEF Identified, Early
<1>. QED
  BY <1>2, <1>3, <1>4, <1>6, <1>7, PolicyTyped, ProcessStep DEF Late

LEMMA RestartStep ==
  ASSUME IInv, NEW c \in Containers, Restart(c)
  PROVE  IInv'
<1> DEFINE sets == FreshCaps(policy[c].caps)
<1>1. /\ pc' = [pc EXCEPT ![c] = "start"] /\ UNCHANGED policy
      /\ caps' = [caps EXCEPT ![c] = sets] /\ id' = [id EXCEPT ![c] = Superuser]
  BY DEF Restart
<1>2. /\ sets \in CapSets /\ sets.inheritable = {} /\ sets.ambient = {}
      /\ Superuser \in Identities
  BY FreshProcess DEF IInv
<1> HIDE DEF sets
<1>3. pc'[c] = "start" /\ caps'[c] = sets /\ id'[c] = Superuser
  BY <1>1 DEF IInv, Typed
<1>4. Bounded(c)' /\ Identified(c)'
  BY <1>2, <1>3 DEF Bounded, Identified, Early, Late
<1>. QED
  BY <1>1, <1>2, <1>4, ProcessStep DEF Early

LEMMA NextInv == IInv /\ [Next]_vars => IInv'
<1> SUFFICES ASSUME IInv, [Next]_vars PROVE IInv'
  OBVIOUS
<1>1. CASE UNCHANGED vars
  BY <1>1 DEF IInv, Typed, Bounded, Identified, vars, process
<1>2. ASSUME NEW c \in Containers, Proceed(c) \/ Stops(c) \/ Restart(c)
      PROVE  IInv'
  BY <1>2, EarlySteps, DropCapsStep, SetGroupsStep, SetGidStep, SetUidStep,
     DropDeferredStep, ExecStep, RestartStep DEF Proceed
<1>. QED
  BY <1>1, <1>2 DEF Next

-----------------------------------------------------------------------------
THEOREM AlwaysIInv == Spec => []IInv
BY InitInv, NextInv, PTL DEF Spec

\* Whatever stops and starts again, and whatever the policies ask: a running
\* program holds none of the capabilities it was to lose (main.go steps 7 to 9).
THEOREM PrivilegesAlwaysDropped == Spec => []PrivilegesDropped
<1>1. IInv => PrivilegesDropped
  <2> SUFFICES ASSUME IInv, NEW c \in Containers, pc[c] = "running",
                      NEW s \in DOMAIN caps[c]
               PROVE  caps[c][s] \intersect policy[c].drop = {}
    BY DEF PrivilegesDropped, Running
  <2>1. s \in {"effective", "permitted", "inheritable", "bounding", "ambient"}
    BY PolicyTyped DEF CapSets
  <2>. QED
    BY <2>1, PolicyTyped DEF Bounded, Late
<1>. QED
  BY <1>1, AlwaysIInv, PTL

\* A running program is the user its policy names, with its group and
\* supplementary groups, or root if it names none (switchIdentity).
THEOREM AlwaysRunsAsAsked == Spec => []RunsAsAsked
<1>1. IInv => RunsAsAsked
  BY DEF IInv, Identified, RunsAsAsked, Running
<1>. QED
  BY <1>1, AlwaysIInv, PTL

-----------------------------------------------------------------------------
(* The ownership of the volumes.                                           *)

\* A nonempty set of numbers has a least one, and a bounded one a greatest.
LEMMA Least ==
  ASSUME NEW S \in SUBSET Nat, S # {}
  PROVE  \E i \in S : \A j \in S : i <= j
<1>1. PICK i \in S : \A j \in S : ~ (<<j, i>> \in OpToRel(<, Nat))
  BY WFMin, NatLessThanWellFounded
<1>2. \A j \in S : <<j, i>> \in Nat \X Nat /\ <<j, i>>[1] = j /\ <<j, i>>[2] = i
  OBVIOUS
<1>3. \A j \in S : ~ (j < i)
  BY <1>1, <1>2, Zenon DEF OpToRel
<1>. QED
  BY <1>3

LEMMA Greatest ==
  ASSUME NEW n \in Nat, NEW S \in SUBSET (1 .. n), S # {}
  PROVE  \E i \in S : \A j \in S : j <= i
<1> DEFINE T == {n - j : j \in S}
<1>1. T \in SUBSET Nat
  OBVIOUS
<1>2. T # {}
  OBVIOUS
<1>3. PICK m \in T : \A k \in T : m <= k
  BY <1>1, <1>2, Least
<1>4. PICK i \in S : m = n - i
  BY <1>3
<1>5. ASSUME NEW j \in S PROVE j <= i
  <2>1. n - j \in T
    OBVIOUS
  <2>. QED
    BY <1>3, <1>4, <2>1
<1>. QED
  BY <1>5

\* The action of a container that has the last word on a path.
Decides(c, p, i) == i \in Concerning(c, p) /\ \A j \in Concerning(c, p) : j <= i

\* Whoever else comes to change the path gives it the same owner.
Agreed(c, p, i) ==
  \A d \in Containers \ {c} : \A j \in Concerning(d, p) :
    OwnerOf(d, Chowns(d)[j]) # None => Wants(d, j) = Wants(c, i)

\* The container has made the action's change to the path.
Made(c, p, i) ==
  \/ i < action[c]
  \/ i = action[c] /\ pc[c] = "walk" /\ p \notin todo[c]

\* What the container has settled is as it wants it.
Settled(c) ==
  pc[c] \in Early \union Late =>
    \A p \in Paths : \A i \in DOMAIN Chowns(c) :
      Decides(c, p, i) /\ Agreed(c, p, i) /\ Made(c, p, i) => owner[p] = Wants(c, i)

\* How far the container is in its list of actions.
Placed(c) ==
  /\ pc[c] \in {"start", "resolve", "load"} => action[c] = 1
  /\ pc[c] = "walk" => /\ action[c] \in DOMAIN Chowns(c)
                       /\ todo[c] \subseteq Tree(Chowns(c)[action[c]])
                       /\ OwnerOf(c, Chowns(c)[action[c]]) # None
  /\ pc[c] \in Late => action[c] \notin DOMAIN Chowns(c)

VolumesTyped ==
  /\ action \in [Containers -> Nat \ {0}]
  /\ todo \in [Containers -> SUBSET Paths]
  /\ owner \in [Paths -> (Nat \X Nat) \union {Unowned}]

VolumesInv ==
  /\ VolumesTyped
  /\ \A c \in Containers : Placed(c) /\ Settled(c)

\* The actions of a policy are numbered from 1, and name users and paths.
LEMMA ChownsTyped ==
  ASSUME Typed, NEW c \in Containers
  PROVE  /\ Len(Chowns(c)) \in Nat /\ DOMAIN Chowns(c) = 1 .. Len(Chowns(c))
         /\ \A i \in DOMAIN Chowns(c) :
              /\ Tree(Chowns(c)[i]) \subseteq Paths
              /\ OwnerOf(c, Chowns(c)[i]) \in Identities \union {None}
<1>1. Chowns(c) \in Seq(ChownActions) /\ policy[c].user \in Identities \union {None}
  BY DeploymentsAssumption DEF Typed, Chowns
<1>2. \A a \in ChownActions : /\ Tree(a) \subseteq Paths
                   /\ OwnerOf(c, a) \in Identities \union {None}
  BY <1>1, PathsAssumption DEF Tree, OwnerOf, ChownActions
<1>. QED
  BY <1>1, <1>2

\* Where the policies stay, so does what they want.
LEMMA WishesStay ==
  ASSUME UNCHANGED policy
  PROVE  \A c, p, i : /\ Decides(c, p, i)' <=> Decides(c, p, i)
                      /\ Agreed(c, p, i)' <=> Agreed(c, p, i)
                      /\ Wants(c, i)' = Wants(c, i)
                      /\ OwnerOf(c, Chowns(c)[i])' = OwnerOf(c, Chowns(c)[i])
BY DEF Decides, Agreed, Concerning, Wants, OwnerOf, Chowns, Tree

\* A step of one container that leaves the volumes and the other containers alone.
LEMMA VolumesFrame ==
  ASSUME IInv, VolumesInv, NEW c \in Containers, NEW s,
         UNCHANGED <<policy, owner>>,
         pc' = [pc EXCEPT ![c] = s],
         \A d \in Containers \ {c} : action'[d] = action[d] /\ todo'[d] = todo[d],
         VolumesTyped', Placed(c)', Settled(c)'
  PROVE  VolumesInv'
<1>1. ASSUME NEW d \in Containers \ {c}
      PROVE  Placed(d)' /\ Settled(d)'
  <2>1. pc'[d] = pc[d] /\ action'[d] = action[d] /\ todo'[d] = todo[d]
    BY DEF IInv, Typed
  <2>2. Chowns(d)' = Chowns(d)
    BY DEF Chowns
  <2>3. Placed(d) /\ Settled(d)
    BY DEF VolumesInv
  <2>4. Placed(d)'
    BY <2>1, <2>2, <2>3, WishesStay DEF Placed, Tree
  <2>5. \A p, i : Made(d, p, i)' <=> Made(d, p, i)
    BY <2>1 DEF Made
  <2>6. Settled(d)'
    BY <2>1, <2>2, <2>3, <2>5, WishesStay DEF Settled
  <2>. QED
    BY <2>4, <2>6
<1>. QED
  BY <1>1 DEF VolumesInv

\* A step that changes neither the volumes nor what is left to do: the container
\* goes on to its actions or leaves them behind, or stops.
LEMMA OtherStep ==
  ASSUME IInv, VolumesInv, NEW c \in Containers, NEW s,
         UNCHANGED <<policy, chowning, owner>>,
         pc' = [pc EXCEPT ![c] = s],
         \/ s \in {"failed", "stopped"}
         \/ s \in {"resolve", "load", "chown"} /\ pc[c] \in {"start", "resolve", "load"}
         \/ s \in Late /\ action[c] \notin DOMAIN Chowns(c) /\ pc[c] \in {"chown"} \union Late
  PROVE  VolumesInv'
<1>1. /\ pc'[c] = s /\ action' = action /\ todo' = todo
      /\ Chowns(c)' = Chowns(c) /\ Placed(c) /\ Settled(c)
  BY DEF IInv, Typed, chowning, Chowns, VolumesInv
<1>2. VolumesTyped'
  BY <1>1 DEF VolumesInv, VolumesTyped
<1>3. Placed(c)'
  BY <1>1 DEF Placed, Late
<1>4. s \in Early \union Late =>
        pc[c] \in Early \union Late /\ \A p, i : Made(c, p, i)' => Made(c, p, i)
  BY <1>1 DEF Made, Early, Late
<1>5. Settled(c)'
  BY <1>1, <1>4, WishesStay DEF Settled
<1>. QED
  BY <1>1, <1>2, <1>3, <1>5, VolumesFrame

LEMMA BeginChownStep ==
  ASSUME IInv, VolumesInv, NEW c \in Containers, BeginChown(c)
  PROVE  VolumesInv'
<1> DEFINE a == Chowns(c)[action[c]]
           ok == /\ MountOf(a.path) # Root
                 /\ Mounts[MountOf(a.path)] = "rw"
                 /\ OwnerOf(c, a) # None
           s == IF ok THEN "walk" ELSE "failed"
           left == IF ok THEN Tree(a) ELSE todo[c]
<1>1. /\ pc[c] = "chown" /\ pc' = [pc EXCEPT ![c] = s]
      /\ UNCHANGED <<policy, owner, action>>
      /\ action[c] \in DOMAIN Chowns(c)
      /\ todo' = [todo EXCEPT ![c] = left]
  BY DEF BeginChown, Step, VolumesInv, VolumesTyped
<1>2. Tree(a) \subseteq Paths
  BY <1>1, ChownsTyped DEF IInv
<1> HIDE DEF a
<1>3. s = "walk" => left = Tree(a) /\ OwnerOf(c, a) # None
  OBVIOUS
<1>4. s \in {"walk", "failed"} /\ left \subseteq Paths
  BY <1>2 DEF VolumesInv, VolumesTyped
<1> HIDE DEF ok, s, left
<1>5. /\ pc'[c] = s /\ todo'[c] = left /\ Chowns(c)' = Chowns(c)
      /\ \A d \in Containers \ {c} : action'[d] = action[d] /\ todo'[d] = todo[d]
  BY <1>1 DEF IInv, Typed, Chowns, VolumesInv, VolumesTyped
<1>6. VolumesTyped'
  BY <1>1, <1>4 DEF VolumesInv, VolumesTyped
<1>7. Placed(c)'
  BY <1>1, <1>3, <1>4, <1>5, WishesStay DEF Placed, a, Tree, Late
<1>8. ASSUME NEW p \in Paths, NEW i \in DOMAIN Chowns(c), s = "walk",
             Decides(c, p, i), Made(c, p, i)'
      PROVE  Made(c, p, i)
  <2>1. i = action[c] => p \in left
    BY <1>3, <1>8 DEF Decides, Concerning, a
  <2>. QED
    BY <1>1, <1>5, <1>8, <2>1 DEF Made
<1>9. Settled(c)'
  BY <1>1, <1>4, <1>5, <1>8, WishesStay DEF Settled, Early, Late, VolumesInv
<1>. QED
  BY <1>1, <1>5, <1>6, <1>7, <1>9, VolumesFrame

LEMMA RestartVolumes ==
  ASSUME IInv, VolumesInv, NEW c \in Containers, Restart(c)
  PROVE  VolumesInv'
<1>1. /\ pc' = [pc EXCEPT ![c] = "start"] /\ UNCHANGED <<policy, owner>>
      /\ action' = [action EXCEPT ![c] = 1] /\ todo' = [todo EXCEPT ![c] = {}]
  BY DEF Restart
<1>2. /\ pc'[c] = "start" /\ action'[c] = 1 /\ Chowns(c)' = Chowns(c)
      /\ \A d \in Containers \ {c} : action'[d] = action[d] /\ todo'[d] = todo[d]
  BY <1>1 DEF IInv, Typed, Chowns, VolumesInv, VolumesTyped
<1>3. VolumesTyped'
  BY <1>1 DEF VolumesInv, VolumesTyped
<1>4. Placed(c)'
  BY <1>2 DEF Placed, Late
<1>5. \A p : \A i \in DOMAIN Chowns(c) : ~ Made(c, p, i)'
  BY <1>2, ChownsTyped DEF Made, IInv
<1>6. Settled(c)'
  BY <1>2, <1>5 DEF Settled
<1>. QED
  BY <1>1, <1>2, <1>3, <1>4, <1>6, VolumesFrame

\* The change of one path settles it as the container wants, and disturbs only
\* those who want it otherwise.
LEMMA ChownPathStep ==
  ASSUME IInv, VolumesInv, NEW c \in Containers, NEW p \in Paths, ChownPath(c, p)
  PROVE  VolumesInv'
<1> DEFINE k == action[c]
           ok == Has(c, "CHOWN") /\ Mounts[MountOf(p)] = "rw"
           s == IF ok THEN IF todo[c] = {p} THEN "chown" ELSE "walk" ELSE "failed"
<1>1. /\ pc[c] = "walk" /\ p \in todo[c] /\ UNCHANGED policy
      /\ pc' = [pc EXCEPT ![c] = s]
      /\ todo' = [todo EXCEPT ![c] = todo[c] \ {p}]
      /\ action' = [action EXCEPT ![c] = IF todo[c] = {p} THEN k + 1 ELSE k]
      /\ owner' = IF ok THEN [owner EXCEPT ![p] = Wants(c, k)] ELSE owner
  BY DEF ChownPath, Step, Wants, VolumesInv, VolumesTyped
<1>2. /\ k \in DOMAIN Chowns(c) /\ p \in Tree(Chowns(c)[k])
      /\ OwnerOf(c, Chowns(c)[k]) # None
  BY <1>1 DEF VolumesInv, Placed
<1>3. Wants(c, k) \in Nat \X Nat
  BY <1>2, ChownsTyped DEF Wants, Identities, IInv
<1>4. s \in {"chown", "walk", "failed"} /\ (s # "failed" <=> ok) /\ (s = "chown" => todo[c] = {p})
      /\ (s = "walk" => todo[c] # {p})
  OBVIOUS
<1> HIDE DEF ok, s
<1>5. /\ pc'[c] = s /\ todo'[c] = todo[c] \ {p}
      /\ action'[c] = IF todo[c] = {p} THEN k + 1 ELSE k
      /\ \A d \in Containers \ {c} : /\ action'[d] = action[d] /\ todo'[d] = todo[d]
                                     /\ pc'[d] = pc[d]
      /\ \A q \in Paths \ {p} : owner'[q] = owner[q]
      /\ ok => owner'[p] = Wants(c, k)
      /\ \A d : Chowns(d)' = Chowns(d)
  BY <1>1 DEF IInv, Typed, Chowns, VolumesInv, VolumesTyped
<1>6. VolumesTyped'
  BY <1>1, <1>3 DEF VolumesInv, VolumesTyped
<1>7. k \in Nat
  BY DEF VolumesInv, VolumesTyped
<1>8. Placed(c)'
  BY <1>1, <1>2, <1>4, <1>5 DEF Placed, Tree, OwnerOf, Late, VolumesInv
<1>9. Settled(c)'
  <2>1. SUFFICES ASSUME s # "failed", NEW q \in Paths, NEW i \in DOMAIN Chowns(c),
                        Decides(c, q, i), Agreed(c, q, i), Made(c, q, i)'
                 PROVE  owner'[q] = Wants(c, i)
    BY <1>1, <1>5, WishesStay DEF Settled, Early, Late
  <2>2. i \in Nat
    BY ChownsTyped DEF IInv
  <2>3. CASE q = p
    <3>1. k \in Concerning(c, p)
      BY <1>2 DEF Concerning
    <3>2. k <= i
      BY <2>1, <2>3, <3>1 DEF Decides
    <3>3. i <= k
      BY <1>4, <1>5, <1>7, <2>1, <2>2 DEF Made
    <3>. QED
      BY <1>4, <1>5, <1>7, <2>1, <2>2, <2>3, <3>2, <3>3
  <2>4. CASE q # p
    <3>1. Made(c, q, i)
      BY <1>1, <1>4, <1>5, <1>7, <2>1, <2>2, <2>4 DEF Made
    <3>. QED
      BY <1>1, <1>5, <2>1, <2>4, <3>1 DEF VolumesInv, Settled, Early
  <2>. QED
    BY <2>3, <2>4
<1>10. ASSUME NEW d \in Containers \ {c}
       PROVE  Placed(d)' /\ Settled(d)'
  <2>1. Placed(d) /\ Settled(d) /\ pc'[d] = pc[d] /\ Chowns(d)' = Chowns(d)
    BY <1>5 DEF VolumesInv
  <2>2. Placed(d)'
    BY <1>1, <1>5, <2>1 DEF Placed, Tree, OwnerOf
  <2>3. \A q, i : Made(d, q, i)' <=> Made(d, q, i)
    BY <1>5 DEF Made
  <2>4. ASSUME NEW q \in Paths, NEW i \in DOMAIN Chowns(d), Agreed(d, q, i),
               owner[q] = Wants(d, i)
        PROVE  owner'[q] = Wants(d, i)
    <3>1. CASE q # p
      BY <1>5, <2>4, <3>1
    <3>2. CASE q = p /\ ok
      <4>1. k \in Concerning(c, q)
        BY <1>2, <3>2 DEF Concerning
      <4>2. Wants(c, k) = Wants(d, i)
        BY <1>2, <2>4, <4>1 DEF Agreed
      <4>. QED
        BY <1>5, <3>2, <4>2
    <3>3. CASE ~ ok
      BY <1>1, <2>4, <3>3
    <3>. QED
      BY <3>1, <3>2, <3>3
  <2>5. Settled(d)'
    BY <1>1, <2>1, <2>3, <2>4, WishesStay DEF Settled
  <2>. QED
    BY <2>2, <2>5
<1>. QED
  BY <1>6, <1>8, <1>9, <1>10 DEF VolumesInv

LEMMA NextKeepsVolumes == IInv /\ VolumesInv /\ [Next]_vars => VolumesInv'
<1> SUFFICES ASSUME IInv, VolumesInv, [Next]_vars PROVE VolumesInv'
  OBVIOUS
<1>1. CASE UNCHANGED vars
  <2>1. /\ UNCHANGED <<policy, pc, action, todo, owner>>
        /\ \A c : Chowns(c)' = Chowns(c)
        /\ \A c, p, i : Made(c, p, i)' <=> Made(c, p, i)
    BY <1>1 DEF vars, chowning, Chowns, Made
  <2>2. VolumesTyped'
    BY <2>1 DEF VolumesInv, VolumesTyped
  <2>3. ASSUME NEW c \in Containers PROVE Placed(c)' /\ Settled(c)'
    <3>1. Placed(c)'
      BY <2>1 DEF VolumesInv, Placed, Tree, OwnerOf
    <3>2. Settled(c)'
      BY <2>1, WishesStay DEF VolumesInv, Settled
    <3>. QED
      BY <3>1, <3>2
  <2>. QED
    BY <2>2, <2>3 DEF VolumesInv
<1>2. ASSUME NEW c \in Containers, ReadPolicy(c) \/ ResolvePolicy(c) \/ LoadRules(c) \/ Stops(c)
      PROVE  VolumesInv'
  <2>1. UNCHANGED <<policy, chowning, owner>>
    BY <1>2 DEF ReadPolicy, ResolvePolicy, LoadRules, Stops
  <2>2. PICK s : /\ pc' = [pc EXCEPT ![c] = s]
                 /\ \/ s \in {"failed", "stopped"}
                    \/ /\ s \in {"resolve", "load", "chown"}
                       /\ pc[c] \in {"start", "resolve", "load"}
    BY <1>2 DEF ReadPolicy, ResolvePolicy, LoadRules, Stops, Step
  <2>. QED
    BY <2>1, <2>2, OtherStep
<1>3. ASSUME NEW c \in Containers,
             \/ DropCaps(c) \/ SetGroups(c) \/ SetGid(c) \/ SetUid(c)
             \/ DropDeferred(c) \/ Exec(c)
      PROVE  VolumesInv'
  <2>1. UNCHANGED <<policy, chowning, owner>>
    BY <1>3 DEF DropCaps, SetGroups, SetGid, SetUid, DropDeferred, Exec
  <2>2. pc[c] \in {"chown"} \union Late /\ (pc[c] = "chown" => action[c] \notin DOMAIN Chowns(c))
    BY <1>3 DEF DropCaps, SetGroups, SetGid, SetUid, DropDeferred, Exec, Step, Late
  <2>3. PICK s \in Late \union {"failed"} : pc' = [pc EXCEPT ![c] = s]
    BY <1>3 DEF DropCaps, SetGroups, SetGid, SetUid, DropDeferred, Exec, Step, Late
  <2>4. action[c] \notin DOMAIN Chowns(c)
    BY <2>2 DEF VolumesInv, Placed
  <2>. QED
    BY <2>1, <2>2, <2>3, <2>4, OtherStep
<1>4. ASSUME NEW c \in Containers, Proceed(c) \/ Stops(c) \/ Restart(c)
      PROVE  VolumesInv'
  BY <1>2, <1>3, <1>4, BeginChownStep, ChownPathStep, RestartVolumes DEF Proceed
<1>. QED
  BY <1>1, <1>4 DEF Next

\* For any containers, policies and interruptions: a program that runs finds every
\* path its policy names owned as the last action says, unless a container that
\* shares it wants otherwise (applyChownActions).
THEOREM VolumesAlwaysOwned == Spec => []VolumesOwned
<1>1. Init => VolumesInv
  <2> SUFFICES ASSUME Init PROVE VolumesInv
    OBVIOUS
  <2>1. IInv
    BY InitInv
  <2>2. VolumesTyped
    BY DEF Init, VolumesTyped
  <2>3. ASSUME NEW c \in Containers PROVE Placed(c) /\ Settled(c)
    <3>1. pc[c] = "start" /\ action[c] = 1
      BY DEF Init
    <3>2. Placed(c)
      BY <3>1 DEF Placed, Late
    <3>3. \A p : \A i \in DOMAIN Chowns(c) : ~ Made(c, p, i)
      BY <2>1, <3>1, ChownsTyped DEF Made, IInv
    <3>. QED
      BY <3>2, <3>3 DEF Settled
  <2>. QED
    BY <2>2, <2>3 DEF VolumesInv
<1>2. IInv /\ VolumesInv => VolumesOwned
  <2> SUFFICES ASSUME IInv, VolumesInv, NEW c \in Containers, NEW p \in Paths,
                      Running(c), Concerning(c, p) # {}, Undisputed(c, p)
               PROVE  owner[p] = LastWish(c, p)
    BY DEF VolumesOwned
  <2>1. /\ Concerning(c, p) \subseteq 1 .. Len(Chowns(c))
        /\ DOMAIN Chowns(c) = 1 .. Len(Chowns(c)) /\ Len(Chowns(c)) \in Nat
    BY ChownsTyped DEF Concerning, IInv
  <2>2. \E i \in Concerning(c, p) : \A j \in Concerning(c, p) : j <= i
    BY <2>1, Greatest
  <2> DEFINE i == CHOOSE i \in Concerning(c, p) : \A j \in Concerning(c, p) : j <= i
  <2>3. i \in Concerning(c, p) /\ \A j \in Concerning(c, p) : j <= i
    BY <2>2
  <2>4. LastWish(c, p) = Wants(c, i)
    BY DEF LastWish
  <2> HIDE DEF i
  <2>5. Decides(c, p, i) /\ Agreed(c, p, i)
    BY <2>3, <2>4 DEF Decides, Agreed, Undisputed
  <2>6. pc[c] = "running" /\ action[c] \notin DOMAIN Chowns(c) /\ action[c] \in Nat \ {0}
    BY DEF Running, VolumesInv, VolumesTyped, Placed, Late
  <2>7. i \in DOMAIN Chowns(c) /\ i < action[c]
    BY <2>1, <2>3, <2>6
  <2>8. Made(c, p, i)
    BY <2>7 DEF Made
  <2>. QED
    BY <2>4, <2>5, <2>6, <2>7, <2>8 DEF VolumesInv, Settled, Late
<1>. QED
  BY <1>1, <1>2, AlwaysIInv, NextKeepsVolumes, PTL DEF Spec

-----------------------------------------------------------------------------
(* The fate of packets.                                                    *)

Verdicts == {"accept", "drop", "reset", "prohibited"}

Blocks ==
  SUBSET [to : SUBSET Addresses, proto : Protocols \union {"any"}, ports : SUBSET Ports,
          type : Types \union {None}, verdict : Verdicts]

\* Some line of the block, or of the ruleset, is about the packet.
Touches(block, p) == \E l \in block : Matches(l, p)

Hits(lines, p) == \E i \in DOMAIN lines : Touches(lines[i], p)

\* A verdict of the first block that is about the packet.
Yields(lines, p, v) ==
  \E i \in DOMAIN lines :
    /\ \E l \in lines[i] : Matches(l, p) /\ l.verdict = v
    /\ \A j \in DOMAIN lines : j < i => ~ Touches(lines[j], p)

\* What the model of nftables picks is such a verdict.
LEMMA VerdictYielded ==
  ASSUME NEW R \in Seq(Blocks), NEW p, ~ p.exempt, Hits(R, p)
  PROVE  Yields(R, p, Verdict(R, p))
<1> DEFINE hits == {i \in DOMAIN R : \E l \in R[i] : Matches(l, p)}
           first == CHOOSE i \in hits : \A j \in hits : i <= j
<1>1. hits \in SUBSET Nat /\ hits # {}
  BY DEF Hits, Touches
<1>2. \E i \in hits : \A j \in hits : i <= j
  BY <1>1, Least
<1>3. first \in hits /\ \A j \in hits : first <= j
  BY <1>2
<1> DEFINE l == CHOOSE l \in R[first] : Matches(l, p)
<1>4. Verdict(R, p) = l.verdict
  BY <1>1 DEF Verdict
<1> HIDE DEF first
<1>5. l \in R[first] /\ Matches(l, p)
  BY <1>3
<1>6. \A j \in DOMAIN R : j < first => ~ Touches(R[j], p)
  BY <1>1, <1>3 DEF Touches
<1>. QED
  BY <1>3, <1>4, <1>5, <1>6 DEF Yields

\* The first block of a concatenation is that of its first part, if it has one.
LEMMA Concatenation ==
  ASSUME NEW R \in Seq(Blocks), NEW S \in Seq(Blocks), NEW p
  PROVE  /\ R \o S \in Seq(Blocks)
         /\ Hits(R \o S, p) <=> Hits(R, p) \/ Hits(S, p)
         /\ \A v : Yields(R \o S, p, v) =>
                    Yields(R, p, v) \/ (~ Hits(R, p) /\ Yields(S, p, v))
<1>1. /\ R \o S \in Seq(Blocks) /\ Len(R) \in Nat /\ Len(S) \in Nat
      /\ DOMAIN R = 1 .. Len(R) /\ DOMAIN S = 1 .. Len(S)
      /\ DOMAIN (R \o S) = 1 .. Len(R) + Len(S)
  OBVIOUS
<1>2. /\ \A i \in DOMAIN R : i \in DOMAIN (R \o S) /\ (R \o S)[i] = R[i]
      /\ \A i \in DOMAIN S : /\ Len(R) + i \in DOMAIN (R \o S)
                             /\ (R \o S)[Len(R) + i] = S[i]
  BY <1>1
<1>3. \A i \in DOMAIN (R \o S) :
        i \in DOMAIN R \/ (i - Len(R) \in DOMAIN S /\ i = Len(R) + (i - Len(R)))
  BY <1>1
<1> DEFINE T == R \o S
<1> HIDE DEF T
<1>4. Hits(T, p) <=> Hits(R, p) \/ Hits(S, p)
  BY <1>2, <1>3 DEF Hits, T
<1>5. ASSUME NEW v, Yields(T, p, v)
      PROVE  Yields(R, p, v) \/ (~ Hits(R, p) /\ Yields(S, p, v))
  <2>1. PICK i \in DOMAIN T : /\ \E l \in T[i] : Matches(l, p) /\ l.verdict = v
                              /\ \A j \in DOMAIN T : j < i => ~ Touches(T[j], p)
    BY <1>5 DEF Yields
  <2>2. CASE i \in DOMAIN R
    <3>1. \A j \in DOMAIN R : j < i => ~ Touches(R[j], p)
      BY <1>2, <2>1 DEF T
    <3>2. \E l \in R[i] : Matches(l, p) /\ l.verdict = v
      BY <1>2, <2>1, <2>2 DEF T
    <3>. QED
      BY <2>2, <3>1, <3>2 DEF Yields
  <2>3. CASE i \notin DOMAIN R
    <3>1. i - Len(R) \in DOMAIN S /\ i = Len(R) + (i - Len(R)) /\ i \in Nat /\ i > Len(R)
      BY <1>1, <1>3, <2>3 DEF T
    <3>2. \A j \in DOMAIN R : ~ Touches(R[j], p)
      BY <1>1, <1>2, <2>1, <3>1 DEF T
    <3>3. ASSUME NEW j \in DOMAIN S, j < i - Len(R)
          PROVE  ~ Touches(S[j], p)
      <4>1. /\ Len(R) + j \in DOMAIN T /\ T[Len(R) + j] = S[j]
            /\ Len(R) + j < i
        BY <1>1, <1>2, <3>1, <3>3 DEF T
      <4>. QED
        BY <2>1, <4>1
    <3>4. \E l \in S[i - Len(R)] : Matches(l, p) /\ l.verdict = v
      BY <1>2, <2>1, <3>1 DEF T
    <3>. QED
      BY <3>1, <3>2, <3>3, <3>4 DEF Yields, Hits
  <2>. QED
    BY <2>2, <2>3
<1>. QED
  BY <1>1, <1>4, <1>5 DEF T

LEMMA SingleBlock ==
  ASSUME NEW b \in Blocks, NEW p, NEW v
  PROVE  /\ <<b>> \in Seq(Blocks)
         /\ Hits(<<b>>, p) <=> Touches(b, p)
         /\ Yields(<<b>>, p, v) => \E l \in b : Matches(l, p) /\ l.verdict = v
BY DEF Hits, Yields

\* A line for all protocols, or for TCP.
LEMMA BroadLine ==
  ASSUME NEW to \in SUBSET Addresses, NEW proto \in {"any", "tcp"}, NEW v \in Verdicts,
         NEW p \in Packets
  PROVE  LET b == {Line(to, proto, {}, None, v)} IN
         /\ b \in Blocks
         /\ Touches(b, p) <=> p.to \in to /\ proto \in {"any", p.proto}
         /\ \A l \in b : l.verdict = v
BY DEF Line, Blocks, Protocols, Touches, Matches

\* The lines that reject all packets to some addresses.
LEMMA RejectLinesMeaning ==
  ASSUME NEW to \in SUBSET Addresses, NEW reset \in BOOLEAN, NEW p \in Packets, NEW v
  PROVE  LET R == RejectLines(to, reset) IN
         /\ R \in Seq(Blocks)
         /\ Hits(R, p) <=> p.to \in to
         /\ Yields(R, p, v) => v = Rejected(p, reset)
<1> DEFINE b == {Line(to, "tcp", {}, None, "reset")}
           d == {Line(to, "any", {}, None, "prohibited")}
           R1 == IF reset THEN <<b>> ELSE <<>>
           R2 == <<d>>
<1>1. /\ b \in Blocks /\ d \in Blocks
      /\ Touches(b, p) <=> p.to \in to /\ p.proto = "tcp"
      /\ Touches(d, p) <=> p.to \in to
      /\ \A l \in b : l.verdict = "reset"
      /\ \A l \in d : l.verdict = "prohibited"
  BY BroadLine DEF Verdicts
<1> HIDE DEF b, d
<1>2. /\ R1 \in Seq(Blocks) /\ R2 \in Seq(Blocks)
      /\ Hits(R1, p) <=> reset /\ p.to \in to /\ p.proto = "tcp"
      /\ Hits(R2, p) <=> p.to \in to
  <2>1. /\ <<b>> \in Seq(Blocks) /\ <<d>> \in Seq(Blocks) /\ <<>> \in Seq(Blocks)
        /\ Hits(<<b>>, p) <=> p.to \in to /\ p.proto = "tcp"
        /\ Hits(<<d>>, p) <=> p.to \in to
    BY <1>1, SingleBlock
  <2>2. ~ Hits(<<>>, p)
    BY DEF Hits
  <2>. QED
    BY <2>1, <2>2
<1>3. /\ Yields(R1, p, v) => v = "reset" /\ reset /\ p.proto = "tcp"
      /\ Yields(R2, p, v) => v = "prohibited" /\ p.to \in to
  <2>1. Yields(<<b>>, p, v) => v = "reset" /\ p.proto = "tcp"
    BY <1>1, SingleBlock DEF Touches
  <2>2. ~ Yields(<<>>, p, v)
    BY DEF Yields
  <2>3. Yields(<<d>>, p, v) => v = "prohibited" /\ p.to \in to
    BY <1>1, SingleBlock DEF Touches
  <2>. QED
    BY <2>1, <2>2, <2>3
<1>4. RejectLines(to, reset) = R1 \o R2
  BY DEF RejectLines, b, d
<1> HIDE DEF R1, R2
<1>. QED
  BY <1>2, <1>3, <1>4, Concatenation DEF Rejected

\* A rule as it stands after resolution.
Resolved(x) ==
  /\ x.to \in SUBSET Addresses /\ x.ports \in SUBSET Ports
  /\ x.proto \in Protocols \union {"any"} /\ x.type \in Types \union {None}
  /\ Icmp(x.proto) => x.to = {} /\ x.ports = {}
  /\ ~ Icmp(x.proto) => x.type = None
  /\ x.proto = "any" => x.ports = {}

\* The lines of a resolved rule are about what the rule is about: splitting it by
\* family neither adds nor loses a packet.
LEMMA ExpandRuleMeaning ==
  ASSUME NEW x, Resolved(x), NEW v \in Verdicts, NEW p \in Packets
  PROVE  LET b == ExpandRule(x, v) IN
         /\ b \in Blocks
         /\ \A l \in b : l.verdict = v
         /\ Touches(b, p) <=> /\ x.to = {} \/ p.to \in x.to
                              /\ x.proto \in {"any", p.proto}
                              /\ x.ports = {} \/ p.port \in x.ports
                              /\ x.type \in {None, p.type}
<1> DEFINE b == ExpandRule(x, v)
           here == x.to = {} \/ p.to \in x.to
           same(f) == {a \in x.to : Family[a] = Family[f]}
<1>1. p.to \in Addresses
  BY DEF Packets
<1>2. CASE Icmp(x.proto)
  <2>1. b = {Line(Addresses, x.proto, {}, x.type, v)}
    BY <1>2 DEF ExpandRule
  <2>. QED
    BY <1>1, <1>2, <2>1 DEF Resolved, Line, Blocks, Touches, Matches
<1>3. CASE ~ Icmp(x.proto) /\ x.to = {}
  <2>1. b = {Line(Addresses, x.proto, x.ports, None, v)}
    BY <1>3 DEF ExpandRule, Resolved
  <2>. QED
    BY <1>1, <1>3, <2>1 DEF Resolved, Line, Blocks, Touches, Matches
<1>4. CASE ~ Icmp(x.proto) /\ x.to # {}
  <2>1. b = {Line(same(f), x.proto, x.ports, None, v) : f \in x.to}
    BY <1>4 DEF ExpandRule, Resolved
  <2>2. \A f \in x.to : same(f) \subseteq Addresses /\ same(f) \subseteq x.to
    BY DEF Resolved
  <2>3. p.to \in x.to => p.to \in same(p.to)
    OBVIOUS
  <2> HIDE DEF same, b
  <2>4. b \in Blocks /\ \A l \in b : l.verdict = v
    BY <2>1, <2>2 DEF Resolved, Line, Blocks
  <2>5. ASSUME NEW l \in b, Matches(l, p)
        PROVE  /\ p.to \in x.to /\ x.proto \in {"any", p.proto}
               /\ x.ports = {} \/ p.port \in x.ports
    BY <2>1, <2>2, <2>5 DEF Line, Matches
  <2>6. ASSUME p.to \in x.to, x.proto \in {"any", p.proto}, x.ports = {} \/ p.port \in x.ports
        PROVE  Touches(b, p)
    <3> DEFINE l == Line(same(p.to), x.proto, x.ports, None, v)
    <3>1. l \in b
      BY <2>1, <2>6
    <3>2. Matches(l, p)
      BY <2>3, <2>6 DEF Line, Matches
    <3>. QED
      BY <3>1, <3>2 DEF Touches
  <2>. QED
    BY <1>4, <2>4, <2>5, <2>6 DEF Touches, Resolved, b
<1>. QED
  BY <1>2, <1>3, <1>4

-----------------------------------------------------------------------------
\* A rule that says what it means: an ICMP rule names neither destinations nor
\* ports (generate.go:133 ignores them), another rule no ICMP type.
Meant(r) ==
  /\ ValidRule(r)
  /\ Icmp(r.proto) /\ ~ r.dns => r.literals = {} /\ r.names = {} /\ r.ports = {}
  /\ ~ Icmp(r.proto) /\ ~ r.dns => r.type = None

\* What the names and the name servers of a rule stand for.
Answered(r, h, s) ==
  /\ h \in [Names -> SUBSET Addresses] /\ s \in SUBSET Addresses
  /\ ~ r.dns => \A n \in r.names : h[n] # {}
  /\ r.dns /\ r.servers = {} => s # {}

\* The fate a rule of a list gives the packets it covers.
FateBy(r, verdict, p) ==
  IF verdict = "reject" THEN Rejected(p, r.dns \/ (r.proto = "tcp" /\ r.reset)) ELSE verdict

Block(r, verdict, h, s) ==
  UNION {ExpandRule(x, IF verdict = "reject" THEN RejectVerdict(x) ELSE verdict) :
           x \in ResolveRule(r, h, s)}

\* A rule's block is about the packets the rule covers, and gives them their fate.
LEMMA BlockMeaning ==
  ASSUME NEW r \in Rules, Meant(r), NEW h, NEW s, Answered(r, h, s),
         NEW verdict \in {"accept", "drop", "reject"}, NEW p \in Packets
  PROVE  LET b == Block(r, verdict, h, s) IN
         /\ b \in Blocks
         /\ Touches(b, p) <=> Covers(r, p, h, s)
         /\ \A l \in b : Matches(l, p) => l.verdict = FateBy(r, verdict, p)
<1> DEFINE w(x) == IF verdict = "reject" THEN RejectVerdict(x) ELSE verdict
<1>1. \A x : w(x) \in Verdicts
  BY DEF RejectVerdict, Verdicts
<1>2. CASE r.dns
  <2> DEFINE to == IF r.servers = {} THEN s ELSE r.servers
             u == DnsRule("udp", to)
             t == DnsRule("tcp", to)
  <2>1. to \in SUBSET Addresses /\ to # {}
    BY <1>2 DEF Answered, Rules
  <2>2. ResolveRule(r, h, s) = {u, t}
    BY <1>2 DEF ResolveRule
  <2>3. Block(r, verdict, h, s) = ExpandRule(u, w(u)) \union ExpandRule(t, w(t))
    BY <2>2 DEF Block
  <2> HIDE DEF to
  <2>4. Resolved(u) /\ Resolved(t)
    BY <2>1, AddressesAssumption DEF Resolved, DnsRule, Icmp, Protocols
  <2>5. /\ u.to = to /\ u.proto = "udp" /\ u.ports = {DnsPort} /\ u.type = None
        /\ t.to = to /\ t.proto = "tcp" /\ t.ports = {DnsPort} /\ t.type = None
        /\ verdict = "reject" => w(u) = "prohibited" /\ w(t) = "reset"
        /\ verdict # "reject" => w(u) = verdict /\ w(t) = verdict
    BY DEF DnsRule, RejectVerdict
  <2> HIDE DEF u, t, w
  <2>6. /\ ExpandRule(u, w(u)) \in Blocks
        /\ \A l \in ExpandRule(u, w(u)) : l.verdict = w(u)
        /\ Touches(ExpandRule(u, w(u)), p) <=>
             p.to \in to /\ p.proto = "udp" /\ p.port = DnsPort
    BY <1>1, <2>1, <2>4, <2>5, ExpandRuleMeaning
  <2>7. /\ ExpandRule(t, w(t)) \in Blocks
        /\ \A l \in ExpandRule(t, w(t)) : l.verdict = w(t)
        /\ Touches(ExpandRule(t, w(t)), p) <=>
             p.to \in to /\ p.proto = "tcp" /\ p.port = DnsPort
    BY <1>1, <2>1, <2>4, <2>5, ExpandRuleMeaning
  <2>8. Covers(r, p, h, s) <=> p.to \in to /\ p.proto \in {"udp", "tcp"} /\ p.port = DnsPort
    BY <1>2 DEF Covers, to
  <2>9. Block(r, verdict, h, s) \in Blocks
    BY <2>3, <2>6, <2>7 DEF Blocks
  <2>10. Touches(Block(r, verdict, h, s), p) <=> Covers(r, p, h, s)
    BY <2>3, <2>6, <2>7, <2>8 DEF Touches
  <2>11. ASSUME NEW l \in Block(r, verdict, h, s), Matches(l, p)
         PROVE  l.verdict = FateBy(r, verdict, p)
    BY <1>2, <2>3, <2>5, <2>6, <2>7, <2>11 DEF Touches, FateBy, Rejected
  <2>. QED
    BY <2>9, <2>10, <2>11
<1>3. CASE ~ r.dns
  <2> DEFINE to == r.literals \union UNION {h[n] : n \in r.names}
             x == [proto |-> r.proto, to |-> to, ports |-> r.ports, type |-> r.type,
                   reset |-> r.reset]
  <2>1. ResolveRule(r, h, s) = {x}
    BY <1>3 DEF ResolveRule
  <2>2. Block(r, verdict, h, s) = ExpandRule(x, w(x))
    BY <2>1 DEF Block
  <2>3. /\ to \in SUBSET Addresses
        /\ to = {} <=> r.literals \union r.names = {}
        /\ p.to \in to <=> p.to \in r.literals \/ \E n \in r.names : p.to \in h[n]
    BY <1>3 DEF Answered, Rules
  <2> HIDE DEF to
  <2>4. Resolved(x)
    BY <1>3, <2>3 DEF Resolved, Rules, Meant, ValidRule
  <2>5. /\ x.to = to /\ x.proto = r.proto /\ x.ports = r.ports /\ x.type = r.type
        /\ w(x) = IF verdict = "reject"
                  THEN IF r.proto = "tcp" /\ r.reset THEN "reset" ELSE "prohibited"
                  ELSE verdict
    BY DEF RejectVerdict
  <2> HIDE DEF x, w
  <2>6. /\ ExpandRule(x, w(x)) \in Blocks
        /\ \A l \in ExpandRule(x, w(x)) : l.verdict = w(x)
        /\ Touches(ExpandRule(x, w(x)), p) <=>
             /\ to = {} \/ p.to \in to
             /\ r.proto \in {"any", p.proto}
             /\ r.ports = {} \/ p.port \in r.ports
             /\ r.type \in {None, p.type}
    BY <1>1, <2>4, <2>5, ExpandRuleMeaning
  <2>7. Touches(Block(r, verdict, h, s), p) <=> Covers(r, p, h, s)
    BY <1>3, <2>2, <2>3, <2>6 DEF Covers
  <2>8. ASSUME NEW l \in Block(r, verdict, h, s), Matches(l, p)
        PROVE  l.verdict = FateBy(r, verdict, p)
    <3>1. r.proto \in {"any", p.proto}
      BY <2>2, <2>6, <2>8 DEF Touches
    <3>. QED
      BY <1>3, <2>2, <2>5, <2>6, <2>8, <3>1 DEF FateBy, Rejected
  <2>. QED
    BY <2>2, <2>6, <2>7, <2>8
<1>. QED
  BY <1>2, <1>3

\* The rules of a list that cover the packet.
Covering(list, p, h, s) == {r \in Range(list) : Covers(r, p, h, s)}

\* The blocks of a list of rules.
LEMMA ListMeaning ==
  ASSUME NEW list \in Seq(Rules), NEW h, NEW s,
         \A r \in Range(list) : Meant(r) /\ Answered(r, h, s),
         NEW verdict \in {"accept", "drop", "reject"}, NEW p \in Packets
  PROVE  LET R == ExpandRules(list, verdict, h, s) IN
         /\ R \in Seq(Blocks)
         /\ Hits(R, p) <=> Covering(list, p, h, s) # {}
         /\ \A v : Yields(R, p, v) =>
                    \E r \in Covering(list, p, h, s) : v = FateBy(r, verdict, p)
<1> DEFINE R == ExpandRules(list, verdict, h, s)
           covering == Covering(list, p, h, s)
<1>1. R = [i \in DOMAIN list |-> Block(list[i], verdict, h, s)]
  BY DEF ExpandRules, Block
<1>2. \A i \in DOMAIN list :
        list[i] \in Range(list) /\ list[i] \in Rules /\ Meant(list[i]) /\ Answered(list[i], h, s)
  BY DEF Range
<1>3. \A i \in DOMAIN list :
        /\ Block(list[i], verdict, h, s) \in Blocks
        /\ Touches(Block(list[i], verdict, h, s), p) <=> Covers(list[i], p, h, s)
        /\ \A l \in Block(list[i], verdict, h, s) :
             Matches(l, p) => l.verdict = FateBy(list[i], verdict, p)
  BY <1>2, BlockMeaning
<1>4. Len(list) \in Nat /\ DOMAIN list = 1 .. Len(list)
  OBVIOUS
<1> HIDE DEF R
<1>5. R \in [1 .. Len(list) -> Blocks]
  BY <1>1, <1>3, <1>4
<1>6. R \in Seq(Blocks) /\ DOMAIN R = DOMAIN list
  BY <1>4, <1>5
<1>7. Hits(R, p) <=> covering # {}
  BY <1>1, <1>2, <1>3, <1>6 DEF Hits, Range, Covering
<1>8. ASSUME NEW v, Yields(R, p, v)
      PROVE  \E r \in covering : v = FateBy(r, verdict, p)
  <2>1. PICK i \in DOMAIN list : \E l \in Block(list[i], verdict, h, s) :
                                   Matches(l, p) /\ l.verdict = v
    BY <1>1, <1>6, <1>8 DEF Yields
  <2>2. v = FateBy(list[i], verdict, p) /\ Covers(list[i], p, h, s)
    BY <1>3, <2>1 DEF Touches
  <2>. QED
    BY <1>2, <2>2 DEF Covering
<1>. QED
  BY <1>6, <1>7, <1>8 DEF R

\* Blocks of the metadata endpoints and of the default.
LEMMA MetadataMeaning ==
  ASSUME NEW e \in Policies, NEW p \in Packets, NEW v
  PROVE  LET R == MetadataRules(e) IN
         /\ R \in Seq(Blocks)
         /\ Hits(R, p) <=> p.to \in Metadata /\ e.block # "off"
         /\ Yields(R, p, v) =>
              v = IF e.block = "reject" THEN Rejected(p, e.blockReset) ELSE e.block
<1>1. Metadata \in SUBSET Addresses /\ e.blockReset \in BOOLEAN
      /\ e.block \in {"accept", "drop", "reject", "off"}
  BY AddressesAssumption DEF Policies
<1>2. CASE e.block = "off"
  <2>1. MetadataRules(e) = <<>>
    BY <1>2 DEF MetadataRules
  <2>. QED
    BY <1>2, <2>1 DEF Hits, Yields
<1>3. CASE e.block = "reject"
  <2>1. MetadataRules(e) = RejectLines(Metadata, e.blockReset)
    BY <1>3 DEF MetadataRules
  <2>. QED
    BY <1>1, <1>3, <2>1, RejectLinesMeaning
<1>4. CASE e.block \in {"accept", "drop"}
  <2> DEFINE b == {Line(Metadata, "any", {}, None, e.block)}
  <2>1. MetadataRules(e) = <<b>>
    BY <1>4 DEF MetadataRules
  <2>2. b \in Blocks /\ (Touches(b, p) <=> p.to \in Metadata) /\ \A l \in b : l.verdict = e.block
    BY <1>1, <1>4, BroadLine DEF Verdicts
  <2> HIDE DEF b
  <2>. QED
    BY <1>4, <2>1, <2>2, SingleBlock
<1>. QED
  BY <1>1, <1>2, <1>3, <1>4

LEMMA DefaultMeaning ==
  ASSUME NEW e \in Policies, NEW p \in Packets, NEW v
  PROVE  LET R == DefaultVerdictLines(e) IN
         /\ R \in Seq(Blocks)
         /\ Hits(R, p)
         /\ Yields(R, p, v) =>
              v = IF e.default = "reject" THEN Rejected(p, e.reset) ELSE e.default
<1>1. p.to \in Addresses /\ Addresses \in SUBSET Addresses /\ e.reset \in BOOLEAN
      /\ e.default \in {"accept", "drop", "reject"}
  BY DEF Policies, Packets
<1>2. CASE e.default = "reject"
  <2>1. DefaultVerdictLines(e) = RejectLines(Addresses, e.reset)
    BY <1>2 DEF DefaultVerdictLines
  <2>. QED
    BY <1>1, <1>2, <2>1, RejectLinesMeaning
<1>3. CASE e.default \in {"accept", "drop"}
  <2> DEFINE b == {Line(Addresses, "any", {}, None, e.default)}
  <2>1. DefaultVerdictLines(e) = <<b>>
    BY <1>3 DEF DefaultVerdictLines
  <2>2. b \in Blocks /\ Touches(b, p) /\ \A l \in b : l.verdict = e.default
    BY <1>1, <1>3, BroadLine DEF Verdicts
  <2> HIDE DEF b
  <2>. QED
    BY <1>3, <2>1, <2>2, SingleBlock
<1>. QED
  BY <1>1, <1>2, <1>3

\* What a resolution gives the rules of a policy.
LEMMA ResolutionAnswers ==
  ASSUME NEW e, NEW h \in Lookups(e), NEW s \in NameserversFor(e), NEW r \in RulesOf(e),
         r \in Rules
  PROVE  Answered(r, h, s)
BY DEF Lookups, NameserversFor, NeedsResolvConf, Answered, Rules

\* The generated ruleset gives each packet a fate its policy allows.
LEMMA RulesetFaithful ==
  ASSUME NEW e \in Policies, \A r \in RulesOf(e) : Meant(r),
         NEW h \in Lookups(e), NEW s \in NameserversFor(e), NEW p \in Packets
  PROVE  Verdict(Generate(e, h, s), p) \in Allowed(e, p, h, s)
<1>1. CASE p.exempt
  BY <1>1 DEF Verdict, Allowed
<1>2. CASE ~ p.exempt
  <2> DEFINE M == MetadataRules(e)
             D == ExpandRules(e.drop, "drop", h, s)
             R == ExpandRules(e.reject, "reject", h, s)
             A == ExpandRules(e.accept, "accept", h, s)
             F == DefaultVerdictLines(e)
             v == Verdict(Generate(e, h, s), p)
             On(list) == Covering(list, p, h, s)
  <2>1. /\ e.drop \in Seq(Rules) /\ e.reject \in Seq(Rules) /\ e.accept \in Seq(Rules)
        /\ \A r \in Range(e.drop) \union Range(e.reject) \union Range(e.accept) :
             Meant(r) /\ Answered(r, h, s)
    <3>1. e.drop \in Seq(Rules) /\ e.reject \in Seq(Rules) /\ e.accept \in Seq(Rules)
      BY DEF Policies
    <3>2. RulesOf(e) \subseteq Rules
      BY <3>1 DEF RulesOf, Range
    <3>. QED
      BY <3>1, <3>2, ResolutionAnswers DEF RulesOf
  <2>2. /\ M \in Seq(Blocks) /\ (Hits(M, p) <=> p.to \in Metadata /\ e.block # "off")
        /\ Yields(M, p, v) =>
             v = IF e.block = "reject" THEN Rejected(p, e.blockReset) ELSE e.block
    BY MetadataMeaning
  <2> HIDE DEF v
  <2>3. /\ D \in Seq(Blocks) /\ (Hits(D, p) <=> On(e.drop) # {})
        /\ Yields(D, p, v) => v = "drop" /\ On(e.drop) # {}
    <3>1. /\ D \in Seq(Blocks) /\ (Hits(D, p) <=> On(e.drop) # {})
          /\ Yields(D, p, v) => \E r \in On(e.drop) : v = FateBy(r, "drop", p)
      <4>1. e.drop \in Seq(Rules) /\ \A r \in Range(e.drop) : Meant(r) /\ Answered(r, h, s)
        BY <2>1
      <4>. QED
        BY <4>1, ListMeaning
    <3>2. \A r : FateBy(r, "drop", p) = "drop"
      BY DEF FateBy
    <3>. QED
      BY <3>1, <3>2
  <2>4. /\ R \in Seq(Blocks) /\ (Hits(R, p) <=> On(e.reject) # {})
        /\ Yields(R, p, v) =>
             v \in {Rejected(p, r.dns \/ (r.proto = "tcp" /\ r.reset)) : r \in On(e.reject)}
    <3>1. /\ R \in Seq(Blocks) /\ (Hits(R, p) <=> On(e.reject) # {})
          /\ Yields(R, p, v) => \E r \in On(e.reject) : v = FateBy(r, "reject", p)
      <4>1. e.reject \in Seq(Rules) /\ \A r \in Range(e.reject) : Meant(r) /\ Answered(r, h, s)
        BY <2>1
      <4>. QED
        BY <4>1, ListMeaning
    <3>2. \A r : FateBy(r, "reject", p) = Rejected(p, r.dns \/ (r.proto = "tcp" /\ r.reset))
      BY DEF FateBy
    <3>. QED
      BY <3>1, <3>2
  <2>5. /\ A \in Seq(Blocks) /\ (Hits(A, p) <=> On(e.accept) # {})
        /\ Yields(A, p, v) => v = "accept" /\ On(e.accept) # {}
    <3>1. /\ A \in Seq(Blocks) /\ (Hits(A, p) <=> On(e.accept) # {})
          /\ Yields(A, p, v) => \E r \in On(e.accept) : v = FateBy(r, "accept", p)
      <4>1. e.accept \in Seq(Rules) /\ \A r \in Range(e.accept) : Meant(r) /\ Answered(r, h, s)
        BY <2>1
      <4>. QED
        BY <4>1, ListMeaning
    <3>2. \A r : FateBy(r, "accept", p) = "accept"
      BY DEF FateBy
    <3>. QED
      BY <3>1, <3>2
  <2>6. /\ F \in Seq(Blocks) /\ Hits(F, p)
        /\ Yields(F, p, v) =>
             v = IF e.default = "reject" THEN Rejected(p, e.reset) ELSE e.default
    BY DefaultMeaning
  <2>7. Generate(e, h, s) = M \o D \o R \o A \o F
    BY DEF Generate
  <2> HIDE DEF M, D, R, A, F
  <2>8. /\ M \o D \in Seq(Blocks) /\ M \o D \o R \in Seq(Blocks)
        /\ M \o D \o R \o A \in Seq(Blocks) /\ M \o D \o R \o A \o F \in Seq(Blocks)
    BY <2>2, <2>3, <2>4, <2>5, <2>6, Concatenation
  <2>9. Hits(M \o D \o R \o A \o F, p)
    BY <2>6, <2>8, Concatenation
  <2>10. Yields(M \o D \o R \o A \o F, p, v)
    BY <1>2, <2>7, <2>8, <2>9, VerdictYielded DEF v
  <2>11. \/ Yields(M \o D \o R \o A, p, v)
         \/ ~ Hits(M \o D \o R \o A, p) /\ Yields(F, p, v)
    BY <2>6, <2>8, <2>10, Concatenation
  <2>12. Yields(M \o D \o R \o A, p, v) =>
           \/ Yields(M \o D \o R, p, v)
           \/ ~ Hits(M \o D \o R, p) /\ Yields(A, p, v)
    BY <2>5, <2>8, Concatenation
  <2>13. Yields(M \o D \o R, p, v) =>
           Yields(M \o D, p, v) \/ (~ Hits(M \o D, p) /\ Yields(R, p, v))
    BY <2>4, <2>8, Concatenation
  <2>14. Yields(M \o D, p, v) => Yields(M, p, v) \/ (~ Hits(M, p) /\ Yields(D, p, v))
    BY <2>2, <2>3, Concatenation
  <2>15. /\ Hits(M \o D, p) <=> Hits(M, p) \/ Hits(D, p)
         /\ Hits(M \o D \o R, p) <=> Hits(M \o D, p) \/ Hits(R, p)
         /\ Hits(M \o D \o R \o A, p) <=> Hits(M \o D \o R, p) \/ Hits(A, p)
    <3>1. Hits(M \o D, p) <=> Hits(M, p) \/ Hits(D, p)
      BY <2>2, <2>3, Concatenation
    <3>2. Hits(M \o D \o R, p) <=> Hits(M \o D, p) \/ Hits(R, p)
      BY <2>4, <2>8, Concatenation
    <3>3. Hits(M \o D \o R \o A, p) <=> Hits(M \o D \o R, p) \/ Hits(A, p)
      BY <2>5, <2>8, Concatenation
    <3>. QED
      BY <3>1, <3>2, <3>3
  <2> DEFINE meta == p.to \in Metadata /\ e.block # "off"
  <2>16. \/ Yields(M, p, v)
         \/ ~ meta /\ Yields(D, p, v)
         \/ ~ meta /\ On(e.drop) = {} /\ Yields(R, p, v)
         \/ ~ meta /\ On(e.drop) = {} /\ On(e.reject) = {} /\ Yields(A, p, v)
         \/ /\ ~ meta /\ On(e.drop) = {} /\ On(e.reject) = {} /\ On(e.accept) = {}
            /\ Yields(F, p, v)
    BY <2>2, <2>3, <2>4, <2>5, <2>11, <2>12, <2>13, <2>14, <2>15
  <2>17. Yields(M, p, v) => Hits(M, p)
    BY DEF Yields, Hits, Touches
  <2>18. Yields(R, p, v) => On(e.reject) # {}
    BY <2>4
  <2>19. v \in Allowed(e, p, h, s)
    <3>1. CASE meta
      BY <1>2, <2>2, <2>16, <3>1 DEF Allowed
    <3>2. CASE ~ meta
      <4>1. Allowed(e, p, h, s) =
              IF On(e.drop) # {} THEN {"drop"}
              ELSE IF On(e.reject) # {}
              THEN {Rejected(p, r.dns \/ (r.proto = "tcp" /\ r.reset)) : r \in On(e.reject)}
              ELSE IF On(e.accept) # {} THEN {"accept"}
              ELSE {IF e.default = "reject" THEN Rejected(p, e.reset) ELSE e.default}
        BY <1>2, <3>2 DEF Allowed, Covering
      <4> HIDE DEF On
      <4>. QED
        BY <2>2, <2>3, <2>4, <2>5, <2>6, <2>16, <2>17, <2>18, <3>2, <4>1
    <3>. QED
      BY <3>1, <3>2
  <2>. QED
    BY <2>19 DEF v
<1>. QED
  BY <1>1, <1>2

\* The rules of the container's network, from the policy's resolution on.
Guarded(c) ==
  LET e == policy[c].egress IN
  /\ pc[c] \in {"load", "chown", "walk"} \union Late =>
       hosts[c] \in Lookups(e) /\ nameservers[c] \in NameserversFor(e)
  /\ pc[c] \in {"chown", "walk"} \union Late =>
       ruleset[c] = Generate(e, hosts[c], nameservers[c])
  /\ pc[c] \in (Early \union Late) \ {"start"} => \A r \in RulesOf(e) : ValidRule(r)

NetworkTyped ==
  /\ hosts = [c \in Containers |-> hosts[c]]
  /\ nameservers = [c \in Containers |-> nameservers[c]]
  /\ ruleset = [c \in Containers |-> ruleset[c]]

NetworkInv == NetworkTyped /\ \A c \in Containers : Guarded(c)

\* A step changes at most what one container has resolved and loaded.
LEMMA NetworkFrame ==
  ASSUME IInv, NetworkInv, NEW c \in Containers, NEW s,
         UNCHANGED policy, pc' = [pc EXCEPT ![c] = s],
         NEW h, NEW n, NEW rules,
         hosts' = [hosts EXCEPT ![c] = h],
         nameservers' = [nameservers EXCEPT ![c] = n],
         ruleset' = [ruleset EXCEPT ![c] = rules],
         Guarded(c)'
  PROVE  NetworkInv'
<1>1. NetworkTyped'
  BY DEF NetworkInv, NetworkTyped
<1>2. ASSUME NEW d \in Containers \ {c} PROVE Guarded(d)'
  <2>1. /\ pc'[d] = pc[d] /\ hosts'[d] = hosts[d] /\ policy'[d] = policy[d]
        /\ nameservers'[d] = nameservers[d] /\ ruleset'[d] = ruleset[d]
    BY DEF IInv, Typed, NetworkInv, NetworkTyped
  <2>. QED
    BY <2>1 DEF NetworkInv, Guarded
<1>. QED
  BY <1>1, <1>2 DEF NetworkInv

\* Steps that neither resolve nor load.
LEMMA NetworkStays ==
  ASSUME IInv, NetworkInv, NEW c \in Containers, NEW s,
         UNCHANGED <<policy, resolved, ruleset>>,
         pc' = [pc EXCEPT ![c] = s],
         \/ s \in {"failed", "stopped"}
         \/ s \in {"chown", "walk"} \union Late /\ pc[c] \in {"chown", "walk"} \union Late
         \/ s = "resolve" /\ \A r \in RulesOf(policy[c].egress) : ValidRule(r)
  PROVE  NetworkInv'
<1>1. /\ hosts' = [hosts EXCEPT ![c] = hosts[c]]
      /\ nameservers' = [nameservers EXCEPT ![c] = nameservers[c]]
      /\ ruleset' = [ruleset EXCEPT ![c] = ruleset[c]]
      /\ hosts' = hosts /\ nameservers' = nameservers /\ ruleset' = ruleset
  BY DEF resolved, NetworkInv, NetworkTyped
<1>2. pc'[c] = s
  BY DEF IInv, Typed
<1>3. Guarded(c)'
  BY <1>1, <1>2 DEF NetworkInv, Guarded, Early, Late
<1>. QED
  BY <1>1, <1>3, NetworkFrame

LEMMA NextKeepsNetwork == IInv /\ NetworkInv /\ [Next]_vars => NetworkInv'
<1> SUFFICES ASSUME IInv, NetworkInv, [Next]_vars PROVE NetworkInv'
  OBVIOUS
<1>1. CASE UNCHANGED vars
  BY <1>1 DEF vars, resolved, NetworkInv, NetworkTyped, Guarded
<1>2. ASSUME NEW c \in Containers, ReadPolicy(c)
      PROVE  NetworkInv'
  <2>1. PICK s \in {"resolve", "failed"} :
          /\ pc' = [pc EXCEPT ![c] = s]
          /\ s = "resolve" => \A r \in RulesOf(policy[c].egress) : ValidRule(r)
    BY <1>2 DEF ReadPolicy, Step, ValidateInjected
  <2>. QED
    BY <1>2, <2>1, NetworkStays DEF ReadPolicy
<1>3. ASSUME NEW c \in Containers, ResolvePolicy(c)
      PROVE  NetworkInv'
  <2>1. PICK h \in Lookups(policy[c].egress) : hosts' = [hosts EXCEPT ![c] = h]
    BY <1>3 DEF ResolvePolicy
  <2>2. PICK n \in NameserversFor(policy[c].egress) :
          nameservers' = [nameservers EXCEPT ![c] = n]
    BY <1>3 DEF ResolvePolicy
  <2>3. /\ pc[c] = "resolve" /\ pc' = [pc EXCEPT ![c] = "load"] /\ UNCHANGED <<policy, ruleset>>
        /\ ruleset' = [ruleset EXCEPT ![c] = ruleset[c]]
    BY <1>3 DEF ResolvePolicy, Step, NetworkInv, NetworkTyped
  <2>4. pc'[c] = "load" /\ hosts'[c] = h /\ nameservers'[c] = n
    BY <2>1, <2>2, <2>3 DEF IInv, Typed, NetworkInv, NetworkTyped
  <2>5. Guarded(c)'
    BY <2>3, <2>4 DEF Guarded, NetworkInv, Early, Late
  <2>. QED
    BY <2>1, <2>2, <2>3, <2>5, NetworkFrame
<1>4. ASSUME NEW c \in Containers, LoadRules(c)
      PROVE  NetworkInv'
  <2> DEFINE ok == Has(c, "NET_ADMIN")
             s == IF ok THEN "chown" ELSE "failed"
             rules == IF ok THEN Generate(policy[c].egress, hosts[c], nameservers[c])
                      ELSE ruleset[c]
  <2>1. /\ pc[c] = "load" /\ pc' = [pc EXCEPT ![c] = s]
        /\ UNCHANGED <<policy, hosts, nameservers>>
        /\ ruleset' = [ruleset EXCEPT ![c] = rules]
    BY <1>4 DEF LoadRules, Step, resolved, NetworkInv, NetworkTyped
  <2>2. /\ hosts' = [hosts EXCEPT ![c] = hosts[c]]
        /\ nameservers' = [nameservers EXCEPT ![c] = nameservers[c]]
    BY <2>1 DEF NetworkInv, NetworkTyped
  <2>3. s = "failed" \/ (s = "chown" /\ rules = Generate(policy[c].egress, hosts[c], nameservers[c]))
    OBVIOUS
  <2> HIDE DEF ok, s, rules
  <2>4. pc'[c] = s /\ ruleset'[c] = rules
    BY <2>1 DEF IInv, Typed, NetworkInv, NetworkTyped
  <2>5. Guarded(c)'
    BY <2>1, <2>3, <2>4 DEF Guarded, NetworkInv, Early, Late
  <2>. QED
    BY <2>1, <2>2, <2>5, NetworkFrame
<1>5. ASSUME NEW c \in Containers,
             \/ BeginChown(c) \/ (\E p \in Paths : ChownPath(c, p)) \/ DropCaps(c)
             \/ SetGroups(c) \/ SetGid(c) \/ SetUid(c) \/ DropDeferred(c) \/ Exec(c)
             \/ Stops(c)
      PROVE  NetworkInv'
  <2>1. UNCHANGED <<policy, resolved, ruleset>>
    BY <1>5 DEF BeginChown, ChownPath, DropCaps, SetGroups, SetGid, SetUid, DropDeferred,
                Exec, Stops
  <2>2. PICK s : /\ pc' = [pc EXCEPT ![c] = s]
                 /\ \/ s \in {"failed", "stopped"}
                    \/ /\ s \in {"chown", "walk"} \union Late
                       /\ pc[c] \in {"chown", "walk"} \union Late
    BY <1>5 DEF BeginChown, ChownPath, DropCaps, SetGroups, SetGid, SetUid, DropDeferred,
                Exec, Stops, Step, Late
  <2>. QED
    BY <2>1, <2>2, NetworkStays
<1>6. ASSUME NEW c \in Containers, Restart(c)
      PROVE  NetworkInv'
  <2>1. /\ pc' = [pc EXCEPT ![c] = "start"] /\ UNCHANGED policy
        /\ hosts' = [hosts EXCEPT ![c] = [n \in Names |-> {}]]
        /\ nameservers' = [nameservers EXCEPT ![c] = {}]
        /\ ruleset' = [ruleset EXCEPT ![c] = <<>>]
    BY <1>6 DEF Restart
  <2>2. pc'[c] = "start"
    BY <2>1 DEF IInv, Typed
  <2>3. Guarded(c)'
    BY <2>2 DEF Guarded, Late
  <2>. QED
    BY <2>1, <2>3, NetworkFrame
<1>7. ASSUME NEW c \in Containers, Proceed(c) \/ Stops(c) \/ Restart(c)
      PROVE  NetworkInv'
  BY <1>2, <1>3, <1>4, <1>5, <1>6, <1>7 DEF Proceed
<1>. QED
  BY <1>1, <1>7 DEF Next

\* For any containers, policies, answers of the resolver and interruptions: what
\* the network of a running program does with a packet is what its policy says of
\* it, if its rules say what they mean.  ICMP rules with destinations do not: of
\* those it is false (generate.go:133).
THEOREM EgressAlwaysEnforced ==
  ASSUME \A d \in Deployments, c \in Containers : \A r \in RulesOf(d[c].egress) :
           ValidRule(r) => Meant(r)
  PROVE  Spec => []EgressEnforced
<1>1. Init => NetworkInv
  BY DEF Init, NetworkInv, NetworkTyped, Guarded, Early, Late
<1>2. IInv /\ NetworkInv => EgressEnforced
  <2> SUFFICES ASSUME IInv, NetworkInv, NEW c \in Containers, NEW p \in Packets, Running(c)
               PROVE  Verdict(ruleset[c], p)
                        \in Allowed(policy[c].egress, p, hosts[c], nameservers[c])
    BY DEF EgressEnforced
  <2> DEFINE e == policy[c].egress
  <2>1. policy \in Deployments /\ e \in Policies
    BY DeploymentsAssumption DEF IInv, Typed
  <2>2. /\ hosts[c] \in Lookups(e) /\ nameservers[c] \in NameserversFor(e)
        /\ ruleset[c] = Generate(e, hosts[c], nameservers[c])
        /\ \A r \in RulesOf(e) : ValidRule(r)
    BY DEF Running, NetworkInv, Guarded, Early, Late
  <2>3. \A r \in RulesOf(e) : Meant(r)
    BY <2>1, <2>2
  <2> HIDE DEF e
  <2>4. Verdict(Generate(e, hosts[c], nameservers[c]), p) \in Allowed(e, p, hosts[c], nameservers[c])
    BY <2>1, <2>2, <2>3, RulesetFaithful
  <2>. QED
    BY <2>2, <2>4 DEF e
<1>. QED
  BY <1>1, <1>2, AlwaysIInv, NextKeepsNetwork, PTL DEF Spec

=============================================================================
