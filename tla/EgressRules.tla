----------------------------- MODULE EgressRules -----------------------------
(***************************************************************************)
(* From an egress policy to a packet's fate: the resolution of a policy    *)
(* (pkg/nft/resolve.go), the ruleset generated from it (generate.go and    *)
(* templates/egress.nft.tmpl), and what that ruleset does with a packet.   *)
(* A ruleset is a sequence of blocks, each a set of nft lines: the order   *)
(* of the lines of a block cannot matter, that of the blocks does.         *)
(***************************************************************************)
EXTENDS Naturals, Sequences, Functions

CONSTANTS
  Addresses,  \* the addresses a packet may be sent to
  Family,     \* the family, "ip" or "ip6", of each address
  Metadata,   \* those of the metadata endpoints
  Names,      \* host names a rule may use
  Ports,
  DnsPort,
  Types,      \* ICMP types
  None

ASSUME AddressesAssumption ==
  /\ Family \in [Addresses -> {"ip", "ip6"}]
  /\ Metadata \subseteq Addresses
  /\ DnsPort \in Ports
  /\ None \notin Types

Protocols == {"tcp", "udp", "icmp", "icmpv6"}

\* exempt: of an established connection, or sent over the loopback interface.
Packets ==
  {p \in [to : Addresses, proto : Protocols, port : Ports, type : Types,
          exempt : BOOLEAN] :
     /\ p.proto = "icmp" => Family[p.to] = "ip"
     /\ p.proto = "icmpv6" => Family[p.to] = "ip6"}

\* A rule as written: the literals are the addresses its to list gives, CIDRs
\* included; an empty list of ports, destinations or servers restricts nothing;
\* reset is with_tcp_reset, true when omitted.
Rules ==
  [dns : BOOLEAN, servers : SUBSET Addresses,
   proto : Protocols \union {"any"}, literals : SUBSET Addresses,
   names : SUBSET Names, ports : SUBSET Ports, type : Types \union {None},
   reset : BOOLEAN]

\* block is the action of block_metadata.
Policies ==
  [drop : Seq(Rules), reject : Seq(Rules), accept : Seq(Rules),
   default : {"accept", "drop", "reject"}, reset : BOOLEAN,
   block : {"accept", "drop", "reject", "off"}, blockReset : BOOLEAN]

\* validateRule: a port says nothing without a protocol.
ValidRule(r) == r.dns \/ r.ports = {} \/ r.proto # "any"

RulesOf(e) == Range(e.drop) \union Range(e.reject) \union Range(e.accept)

-----------------------------------------------------------------------------
\* An answer of the resolver has at least one address.
Lookups(e) ==
  {h \in [Names -> SUBSET Addresses] :
     \A n \in Names : h[n] = {} <=> \A r \in RulesOf(e) : r.dns \/ n \notin r.names}

NeedsResolvConf(e) == \E r \in RulesOf(e) : r.dns /\ r.servers = {}

\* The nameservers of resolv.conf, which is only read if it is needed.
NameserversFor(e) == {s \in SUBSET Addresses : s = {} <=> ~ NeedsResolvConf(e)}

DnsRule(proto, servers) ==
  [proto |-> proto, to |-> servers, ports |-> {DnsPort}, type |-> None, reset |-> TRUE]

\* A rule's resolution, one rule or two that no packet matches both of.
ResolveRule(r, hosts, nameservers) ==
  IF r.dns
  THEN {DnsRule(proto, IF r.servers = {} THEN nameservers ELSE r.servers) :
          proto \in {"udp", "tcp"}}
  ELSE {[proto |-> r.proto, to |-> r.literals \union UNION {hosts[n] : n \in r.names},
         ports |-> r.ports, type |-> r.type, reset |-> r.reset]}

-----------------------------------------------------------------------------
\* A line matches packets to these addresses, of this protocol, to these ports
\* (any, if empty) and of this type (any, if None).
Line(to, proto, ports, type, verdict) ==
  [to |-> to, proto |-> proto, ports |-> ports, type |-> type, verdict |-> verdict]

RejectVerdict(r) == IF r.proto = "tcp" /\ r.reset THEN "reset" ELSE "prohibited"

Icmp(proto) == proto \in {"icmp", "icmpv6"}

\* An ICMP rule has neither destinations nor ports; the others have one line
\* for each family they have addresses of, or a single one.
ExpandRule(r, verdict) ==
  IF Icmp(r.proto)
  THEN {Line(Addresses, r.proto, {}, r.type, verdict)}
  ELSE LET ports == IF r.proto = "any" THEN {} ELSE r.ports IN
       IF r.to = {}
       THEN {Line(Addresses, r.proto, ports, None, verdict)}
       ELSE {Line({a \in r.to : Family[a] = Family[b]}, r.proto, ports, None, verdict) :
               b \in r.to}

\* The blocks of a list of rules.
ExpandRules(list, verdict, hosts, nameservers) ==
  [i \in DOMAIN list |->
     UNION {ExpandRule(r, IF verdict = "reject" THEN RejectVerdict(r) ELSE verdict) :
              r \in ResolveRule(list[i], hosts, nameservers)}]

\* The lines that reject packets to the given addresses, whatever they are.
RejectLines(to, reset) ==
  (IF reset THEN <<{Line(to, "tcp", {}, None, "reset")}>> ELSE <<>>)
    \o <<{Line(to, "any", {}, None, "prohibited")}>>

MetadataRules(e) ==
  CASE e.block = "off" -> <<>>
    [] e.block = "reject" -> RejectLines(Metadata, e.blockReset)
    [] OTHER -> <<{Line(Metadata, "any", {}, None, e.block)}>>

DefaultVerdictLines(e) ==
  IF e.default = "reject"
  THEN RejectLines(Addresses, e.reset)
  ELSE <<{Line(Addresses, "any", {}, None, e.default)}>>

\* Bug: what is accepted is accepted before anything is dropped.
Generate_AcceptFirst(e, hosts, nameservers) ==
  MetadataRules(e)
    \o ExpandRules(e.accept, "accept", hosts, nameservers)
    \o ExpandRules(e.drop, "drop", hosts, nameservers)
    \o ExpandRules(e.reject, "reject", hosts, nameservers)
    \o DefaultVerdictLines(e)

\* ResolvePolicy and Generate.
Generate(e, hosts, nameservers) ==
  MetadataRules(e)
    \o ExpandRules(e.drop, "drop", hosts, nameservers)
    \o ExpandRules(e.reject, "reject", hosts, nameservers)
    \o ExpandRules(e.accept, "accept", hosts, nameservers)
    \o DefaultVerdictLines(e)

-----------------------------------------------------------------------------
Matches(l, p) ==
  /\ p.to \in l.to
  /\ l.proto \in {"any", p.proto}
  /\ l.ports # {} => p.port \in l.ports
  /\ l.type \in {None, p.type}

\* What nftables does: exempt packets first, then the first line that matches,
\* and "accept" is the policy of the chain.
Verdict(ruleset, p) ==
  LET hits == {i \in DOMAIN ruleset : \E l \in ruleset[i] : Matches(l, p)}
      first == CHOOSE i \in hits : \A j \in hits : i <= j
  IN IF p.exempt \/ hits = {}
     THEN "accept"
     ELSE (CHOOSE l \in ruleset[first] : Matches(l, p)).verdict

-----------------------------------------------------------------------------
(* The meaning of a policy (docs/policy.md), without rulesets.              *)

\* The packets a rule is about.
Covers(r, p, hosts, nameservers) ==
  IF r.dns
  THEN /\ p.proto \in {"udp", "tcp"} /\ p.port = DnsPort
       /\ p.to \in (IF r.servers = {} THEN nameservers ELSE r.servers)
  ELSE /\ r.proto \in {"any", p.proto}
       /\ r.literals \union r.names = {} \/ p.to \in r.literals
            \/ \E n \in r.names : p.to \in hosts[n]
       /\ r.ports = {} \/ p.port \in r.ports
       /\ r.type \in {None, p.type}

\* TCP packets are told by a reset, the others by an ICMP message.
Rejected(p, reset) == IF p.proto = "tcp" /\ reset THEN "reset" ELSE "prohibited"

\* What may become of a packet: how it is rejected is up to any reject rule
\* that covers it, of which one without a protocol never resets.
Allowed(e, p, hosts, nameservers) ==
  LET Covering(list) == {r \in Range(list) : Covers(r, p, hosts, nameservers)} IN
  CASE p.exempt -> {"accept"}
    [] ~ p.exempt /\ p.to \in Metadata /\ e.block # "off" ->
         {IF e.block = "reject" THEN Rejected(p, e.blockReset) ELSE e.block}
    [] ~ p.exempt /\ ~ (p.to \in Metadata /\ e.block # "off") ->
         IF Covering(e.drop) # {} THEN {"drop"}
         ELSE IF Covering(e.reject) # {}
         THEN {Rejected(p, r.dns \/ (r.proto = "tcp" /\ r.reset)) : r \in Covering(e.reject)}
         ELSE IF Covering(e.accept) # {} THEN {"accept"}
         ELSE {IF e.default = "reject" THEN Rejected(p, e.reset) ELSE e.default}

=============================================================================
