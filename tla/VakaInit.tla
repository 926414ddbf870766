------------------------------ MODULE VakaInit ------------------------------
(***************************************************************************)
(* vaka-init, the entrypoint of every managed container                    *)
(* (cmd/vaka-init/main.go, chown.go): it loads the egress rules, fixes the *)
(* ownership of mounted paths, gives up capabilities, takes the identity   *)
(* of the service and executes its program, one action per effect.         *)
(* Containers share volumes, stop at any step, and are started again.      *)
(***************************************************************************)
EXTENDS EgressRules

CONSTANTS
  Containers,
  Deployments,  \* the policies the containers may be given, each a function
  Version,      \* of the runtime bundle
  Paths,
  Under,        \* the paths of the tree at a path, that path included
  Mounts,       \* "rw" or "ro" of each path a file system is mounted at
  Root,
  Unowned,      \* who owns every path at first
  MayStop       \* whether a container may stop at any time

Capabilities == {"NET_ADMIN", "SETPCAP", "SETUID", "SETGID", "CHOWN", "NET_RAW"}

ASSUME PathsAssumption ==
  /\ Under \in [Paths -> SUBSET Paths]
  /\ Root \in DOMAIN Mounts /\ DOMAIN Mounts \subseteq Paths

\* A user as the container's passwd and group files resolve it.
Identities == [uid : Nat, gid : Nat, groups : SUBSET Nat]

\* A change of ownership a policy asks for, with the service's user if it names
\* no owner.
ChownActions == [path : Paths, owner : Identities \union {None}, recursive : BOOLEAN]

\* Of a policy's user, None if it names none, its lists of capabilities, those to
\* drop and those the container is given, its chown actions and its egress rules.
ASSUME DeploymentsAssumption ==
  /\ None \notin Identities
  /\ \A d \in Deployments, c \in Containers :
       /\ d[c].user \in Identities \union {None}
       /\ d[c].drop \subseteq Capabilities /\ d[c].caps \subseteq Capabilities
       /\ d[c].chown \in Seq(ChownActions)
       /\ d[c].egress \in Policies

VARIABLES
  pc,           \* per container: the step it is at
  policy,       \* per container: the policy vaka injected
  hosts,        \* per container: what the resolver answered
  nameservers,  \* per container: what resolv.conf said
  ruleset,      \* per container: the rules of its network namespace
  caps,         \* per container: the capability sets of its process
  id,           \* per container: its user, group and supplementary groups
  action,       \* per container: the number of the chown action it is at
  todo,         \* per container: the paths that action has yet to change
  owner         \* the owner of each path of the volumes, which they share

resolved == <<hosts, nameservers>>
chowning == <<action, todo>>
process == <<caps, id>>
vars == <<pc, policy, resolved, ruleset, process, chowning, owner>>

Superuser == [uid |-> 0, gid |-> 0, groups |-> {}]

\* A container's process as Docker starts it, with the user 0:0.
FreshCaps(given) ==
  [effective |-> given, permitted |-> given, inheritable |-> {},
   bounding |-> given, ambient |-> {}]

Init ==
  /\ policy \in Deployments
  /\ pc = [c \in Containers |-> "start"]
  /\ hosts = [c \in Containers |-> [n \in Names |-> {}]]
  /\ nameservers = [c \in Containers |-> {}]
  /\ ruleset = [c \in Containers |-> <<>>]
  /\ caps = [c \in Containers |-> FreshCaps(policy[c].caps)]
  /\ id = [c \in Containers |-> Superuser]
  /\ action = [c \in Containers |-> 1]
  /\ todo = [c \in Containers |-> {}]
  /\ owner = [p \in Paths |-> Unowned]

\* fatal: the container exits before its program is executed.
Step(c, from, ok, to) ==
  /\ pc[c] = from
  /\ pc' = [pc EXCEPT ![c] = IF ok THEN to ELSE "failed"]

Has(c, cap) == cap \in caps[c].effective

-----------------------------------------------------------------------------
ValidateInjected(c) ==
  /\ policy[c].version = Version
  /\ \A r \in RulesOf(policy[c].egress) : ValidRule(r)

\* Step 1.  The policy must be valid, and for exactly this runtime.
ReadPolicy(c) ==
  /\ Step(c, "start", ValidateInjected(c), "resolve")
  /\ UNCHANGED <<policy, resolved, ruleset, process, chowning, owner>>

\* Step 2.
ResolvePolicy(c) ==
  /\ Step(c, "resolve", TRUE, "load")
  /\ \E h \in Lookups(policy[c].egress) : hosts' = [hosts EXCEPT ![c] = h]
  /\ \E s \in NameserversFor(policy[c].egress) :
       nameservers' = [nameservers EXCEPT ![c] = s]
  /\ UNCHANGED <<policy, ruleset, process, chowning, owner>>

\* Steps 3 to 5: nft applies the whole ruleset or nothing.
LoadRules(c) ==
  /\ Step(c, "load", Has(c, "NET_ADMIN"), "chown")
  /\ ruleset' = IF Has(c, "NET_ADMIN")
                THEN [ruleset EXCEPT ![c] =
                        Generate(policy[c].egress, hosts[c], nameservers[c])]
                ELSE ruleset
  /\ UNCHANGED <<policy, resolved, process, chowning, owner>>

-----------------------------------------------------------------------------
\* findMount: the innermost mount the path lies in.
MountOf(p) ==
  LET around == {m \in DOMAIN Mounts : p \in Under[m]}
  IN CHOOSE m \in around : \A n \in around : m \in Under[n]

\* An action without an owner takes that of the service.
OwnerOf(c, a) == IF a.owner = None THEN policy[c].user ELSE a.owner

Chowns(c) == policy[c].chown

Tree(a) == IF a.recursive THEN Under[a.path] ELSE {a.path}

\* Bug: a recursive action only changes the path it names.
BeginChown_PathOnly(c) ==
  /\ action[c] \in DOMAIN Chowns(c)
  /\ todo[c] = {}
  /\ LET a == Chowns(c)[action[c]]
         ok == /\ MountOf(a.path) # Root
               /\ Mounts[MountOf(a.path)] = "rw"
               /\ OwnerOf(c, a) # None
     IN /\ Step(c, "chown", ok, "walk")
        /\ todo' = IF ok THEN [todo EXCEPT ![c] = {a.path}] ELSE todo
  /\ UNCHANGED <<policy, resolved, ruleset, process, action, owner>>

\* Step 6.  The checks of an action are made when its turn comes.
BeginChown(c) ==
  /\ action[c] \in DOMAIN Chowns(c)
  /\ todo[c] = {}
  /\ LET a == Chowns(c)[action[c]]
         ok == /\ MountOf(a.path) # Root
               /\ Mounts[MountOf(a.path)] = "rw"
               /\ OwnerOf(c, a) # None
     IN /\ Step(c, "chown", ok, "walk")
        /\ todo' = IF ok THEN [todo EXCEPT ![c] = Tree(a)] ELSE todo
  /\ UNCHANGED <<policy, resolved, ruleset, process, action, owner>>

\* lchown of one path, in any order; a mount within the tree may be read-only.
ChownPath(c, p) ==
  /\ p \in todo[c]
  /\ LET ok == Has(c, "CHOWN") /\ Mounts[MountOf(p)] = "rw"
         who == OwnerOf(c, Chowns(c)[action[c]])
     IN /\ Step(c, "walk", ok, IF todo[c] = {p} THEN "chown" ELSE "walk")
        /\ owner' = IF ok THEN [owner EXCEPT ![p] = <<who.uid, who.gid>>] ELSE owner
  /\ todo' = [todo EXCEPT ![c] = @ \ {p}]
  /\ action' = [action EXCEPT ![c] = IF todo[c] = {p} THEN @ + 1 ELSE @]
  /\ UNCHANGED <<policy, resolved, ruleset, process>>

-----------------------------------------------------------------------------
\* needsIdentitySwitch
Switches(c) == policy[c].user \notin {None, Superuser}

\* Bug: nothing is deferred.
Deferred_None(c) == {}

\* The capabilities the switch itself needs stay effective until after it.
Deferred(c) ==
  IF Switches(c)
  THEN {cap \in {"SETUID", "SETGID"} :
          IF cap = "SETUID" THEN policy[c].user.uid # 0
          ELSE policy[c].user.gid # 0 \/ policy[c].user.groups # {}}
  ELSE {}

\* Bug: a deferred capability is deferred in the bounding set too.
Without_Deferring(sets, drop, deferred) ==
  [effective   |-> sets.effective \ (drop \ deferred),
   permitted   |-> sets.permitted \ (drop \ deferred),
   inheritable |-> sets.inheritable \ drop,
   bounding    |-> sets.bounding \ (drop \ deferred),
   ambient     |-> {}]

\* applyCapDrop
Without(sets, drop, deferred) ==
  [effective   |-> sets.effective \ (drop \ deferred),
   permitted   |-> sets.permitted \ (drop \ deferred),
   inheritable |-> sets.inheritable \ drop,
   bounding    |-> sets.bounding \ drop,
   ambient     |-> {}]

\* Step 7.  The bounding set can only be reduced with SETPCAP.
DropCaps(c) ==
  /\ action[c] \notin DOMAIN Chowns(c)
  /\ LET drop == policy[c].drop IN
     /\ Step(c, "chown", drop = {} \/ Has(c, "SETPCAP"),
             IF Switches(c) THEN "groups" ELSE "exec")
     /\ caps' = IF drop # {} /\ Has(c, "SETPCAP")
                THEN [caps EXCEPT ![c] = Without(@, drop, Deferred(c))] ELSE caps
  /\ UNCHANGED <<policy, resolved, ruleset, id, chowning, owner>>

\* Bug: the supplementary groups are left as they are.
SetGroups_Skipped(c) ==
  /\ Step(c, "groups", TRUE, "gid")
  /\ UNCHANGED <<policy, resolved, ruleset, process, chowning, owner>>

\* Step 8.  setgroups needs SETGID even to empty the list.
SetGroups(c) ==
  /\ Step(c, "groups", Has(c, "SETGID"), "gid")
  /\ id' = IF Has(c, "SETGID")
           THEN [id EXCEPT ![c] = [@ EXCEPT !.groups = policy[c].user.groups]] ELSE id
  /\ UNCHANGED <<policy, resolved, ruleset, caps, chowning, owner>>

SetGid(c) ==
  LET gid == policy[c].user.gid
      ok == Has(c, "SETGID") \/ gid = id[c].gid
  IN
  /\ Step(c, "gid", ok, "uid")
  /\ id' = IF ok THEN [id EXCEPT ![c] = [@ EXCEPT !.gid = gid]] ELSE id
  /\ UNCHANGED <<policy, resolved, ruleset, caps, chowning, owner>>

\* The kernel clears the capabilities of a process that is no longer root.
Unprivileged(sets) ==
  [effective |-> {}, permitted |-> {}, inheritable |-> sets.inheritable,
   bounding |-> sets.bounding, ambient |-> {}]

SetUid(c) ==
  LET uid == policy[c].user.uid
      ok == Has(c, "SETUID") \/ uid = id[c].uid
  IN
  /\ Step(c, "uid", ok, "again")
  /\ id' = IF ok THEN [id EXCEPT ![c] = [@ EXCEPT !.uid = uid]] ELSE id
  /\ caps' = IF ok /\ uid # 0
             THEN [caps EXCEPT ![c] = Unprivileged(@)] ELSE caps
  /\ UNCHANGED <<policy, resolved, ruleset, chowning, owner>>

\* What was deferred goes as well, whether or not it was on the list.
DropDeferred(c) ==
  LET drops == policy[c].drop # {} /\ policy[c].user.uid = 0 /\ Deferred(c) # {} IN
  /\ Step(c, "again", drops => Has(c, "SETPCAP"), "exec")
  /\ caps' = IF drops /\ Has(c, "SETPCAP")
             THEN [caps EXCEPT ![c] = Without(@, Deferred(c), {})] ELSE caps
  /\ UNCHANGED <<policy, resolved, ruleset, id, chowning, owner>>

\* What the kernel leaves a program: root regains whatever its bounding set has.
AfterExec(sets, uid) ==
  LET kept == IF uid = 0 THEN sets.inheritable \union sets.bounding ELSE sets.ambient
  IN [effective |-> kept, permitted |-> kept, inheritable |-> sets.inheritable,
      bounding |-> sets.bounding, ambient |-> IF uid = 0 THEN {} ELSE sets.ambient]

\* Step 9.
Exec(c) ==
  /\ Step(c, "exec", TRUE, "running")
  /\ caps' = [caps EXCEPT ![c] = AfterExec(@, id[c].uid)]
  /\ UNCHANGED <<policy, resolved, ruleset, id, chowning, owner>>

-----------------------------------------------------------------------------
\* An error of any step, a kill, or the end of the program.
Stops(c) ==
  /\ MayStop
  /\ pc[c] \notin {"failed", "stopped"}
  /\ pc' = [pc EXCEPT ![c] = "stopped"]
  /\ UNCHANGED <<policy, resolved, ruleset, process, chowning, owner>>

\* The container is started again: a new process in a new network namespace,
\* with the same policy and the volumes as they are.
Restart(c) ==
  /\ pc[c] \in {"failed", "stopped"}
  /\ pc' = [pc EXCEPT ![c] = "start"]
  /\ hosts' = [hosts EXCEPT ![c] = [n \in Names |-> {}]]
  /\ nameservers' = [nameservers EXCEPT ![c] = {}]
  /\ ruleset' = [ruleset EXCEPT ![c] = <<>>]
  /\ caps' = [caps EXCEPT ![c] = FreshCaps(policy[c].caps)]
  /\ id' = [id EXCEPT ![c] = Superuser]
  /\ action' = [action EXCEPT ![c] = 1]
  /\ todo' = [todo EXCEPT ![c] = {}]
  /\ UNCHANGED <<policy, owner>>

Proceed(c) ==
  \/ ReadPolicy(c) \/ ResolvePolicy(c) \/ LoadRules(c)
  \/ BeginChown(c) \/ (\E p \in Paths : ChownPath(c, p))
  \/ DropCaps(c) \/ SetGroups(c) \/ SetGid(c) \/ SetUid(c) \/ DropDeferred(c)
  \/ Exec(c)

Next == \E c \in Containers : Proceed(c) \/ Stops(c) \/ Restart(c)

Spec == Init /\ [][Next]_vars

\* vaka-init runs on, and a container that stopped is started again.
FairSpec == Spec /\ \A c \in Containers : WF_vars(Proceed(c)) /\ WF_vars(Restart(c))

-----------------------------------------------------------------------------
Running(c) == pc[c] = "running"

\* The program's packets meet the fate its policy gives them, with the names it
\* uses standing for what they resolved to (docs/policy.md, Rule Evaluation
\* Order): neither the grouping of rules by verdict, nor their split by family,
\* nor the expansion of dns changes what is said.
EgressEnforced ==
  \A c \in Containers : Running(c) =>
    \A p \in Packets :
      Verdict(ruleset[c], p) \in Allowed(policy[c].egress, p, hosts[c], nameservers[c])

\* The program has none of the capabilities it was to lose, in no set from
\* which it or what it executes could take them, whichever identity it has and
\* whichever of them the change of identity needed (main.go steps 7 and 8).
PrivilegesDropped ==
  \A c \in Containers : Running(c) =>
    \A s \in DOMAIN caps[c] : caps[c][s] \intersect policy[c].drop = {}

\* The program runs as the service's user, groups included, or as the one it was
\* started as if the service names none (switchIdentity).
RunsAsAsked ==
  \A c \in Containers : Running(c) =>
    id[c] = IF policy[c].user = None THEN Superuser ELSE policy[c].user

\* The chown actions of a container that concern a path.
Concerning(c, p) == {i \in DOMAIN Chowns(c) : p \in Tree(Chowns(c)[i])}

Wants(c, i) == LET who == OwnerOf(c, Chowns(c)[i]) IN <<who.uid, who.gid>>

LastWish(c, p) == Wants(c, CHOOSE i \in Concerning(c, p) :
                             \A j \in Concerning(c, p) : j <= i)

\* Nobody else, on the way to its own wish, gives the path another owner.
Undisputed(c, p) ==
  \A d \in Containers \ {c} : \A i \in Concerning(d, p) :
    OwnerOf(d, Chowns(d)[i]) # None => Wants(d, i) = LastWish(c, p)

\* The program finds its volumes owned as its policy says, whatever was cut
\* short before and whoever shares the volume with it (applyChownActions).
VolumesOwned ==
  \A c \in Containers, p \in Paths :
    Running(c) /\ Concerning(c, p) # {} /\ Undisputed(c, p) => owner[p] = LastWish(c, p)

\* A policy whose demands can be met: it is valid, its process has what
\* vaka-init needs, SETPCAP for a second drop too, and its chown actions are on
\* writable volumes.
Satisfiable(c) ==
  /\ ValidateInjected(c)
  /\ {"NET_ADMIN", "SETPCAP", "SETUID", "SETGID", "CHOWN"} \subseteq policy[c].caps
  /\ "SETPCAP" \notin policy[c].drop
  /\ \A i \in DOMAIN Chowns(c) :
       LET a == Chowns(c)[i] IN
       /\ OwnerOf(c, a) # None
       /\ \A p \in Tree(a) : MountOf(p) # Root /\ Mounts[MountOf(p)] = "rw"

\* "SETUID/SETGID can be deferred from Effective/Permitted until after switch"
\* (cmd/vaka-init/main.go:141): dropping capabilities does not keep vaka-init
\* from starting the program, once nothing else stops it.
Calm == <>[][\A c \in Containers : ~ Stops(c)]_vars

Starts == Calm => \A c \in Containers : Satisfiable(c) => []<>Running(c)

=============================================================================
