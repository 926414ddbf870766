----------------------------- MODULE MCVakaInit -----------------------------
(***************************************************************************)
(* Instances of VakaInit for TLC: three addresses (one of IPv6, one of a   *)
(* metadata endpoint), two ports, two ICMP types; a volume with a          *)
(* subdirectory, and one with a read-only mount inside it.                 *)
(***************************************************************************)
EXTENDS VakaInit, TLC

CONSTANTS c1, c2, a4, m4, a6, host, ping, quench

Families == (a4 :> "ip" @@ m4 :> "ip" @@ a6 :> "ip6")

Trees ==
  [root |-> {"root", "data", "sub", "conf", "ro"}, data |-> {"data", "sub"},
   sub |-> {"sub"}, conf |-> {"conf", "ro"}, ro |-> {"ro"}]

Volumes == [root |-> "rw", data |-> "rw", conf |-> "rw", ro |-> "ro"]

-----------------------------------------------------------------------------
Whatever == [dns |-> FALSE, servers |-> {}, proto |-> "any", literals |-> {}, names |-> {},
        ports |-> {}, type |-> None, reset |-> TRUE]

\* A rule that is valid and says what it means: no destinations on ICMP rules.
Tcp443 == [Whatever EXCEPT !.proto = "tcp", !.names = {host}, !.ports = {443}]
Udp == [Whatever EXCEPT !.proto = "udp", !.literals = {a4, m4}]
Quiet == [Whatever EXCEPT !.proto = "tcp", !.literals = {a4, a6}, !.reset = FALSE]
Resolver == [Whatever EXCEPT !.dns = TRUE]
Servers == [Whatever EXCEPT !.dns = TRUE, !.servers = {a4, a6}]
Ping == [Whatever EXCEPT !.proto = "icmp", !.type = ping]
Icmp6 == [Whatever EXCEPT !.proto = "icmpv6"]
ToA6 == [Whatever EXCEPT !.literals = {a6}]

\* A port without a protocol.
Portal == [Whatever EXCEPT !.ports = {443}]

\* ICMP to one address.
PingA4 == [Whatever EXCEPT !.proto = "icmp", !.literals = {a4}]

AtMostOne(S) == {<<>>} \union {<<r>> : r \in S}

Egresses ==
  {[drop |-> d, reject |-> r, accept |-> a, default |-> v, reset |-> b,
    block |-> m, blockReset |-> ~ b] :
     d \in AtMostOne({Ping, ToA6, Udp}),
     r \in AtMostOne({Tcp443, Servers}) \union {<<Quiet, Whatever>>},
     a \in AtMostOne({Resolver, Icmp6, Portal}) \union {<<Tcp443, Udp>>},
     v \in {"reject", "accept"}, b \in BOOLEAN, m \in {"off", "reject", "accept"}}

NoEgress ==
  [drop |-> <<>>, reject |-> <<>>, accept |-> <<>>, default |-> "reject", reset |-> FALSE,
   block |-> "off", blockReset |-> FALSE]

AllCaps == Capabilities

User(uid, gid, groups) == [uid |-> uid, gid |-> gid, groups |-> groups]

Plain == [version |-> Version, egress |-> NoEgress, user |-> None, drop |-> {"NET_ADMIN"},
          chown |-> <<>>, caps |-> AllCaps]

Action(path, who, recursive) == [path |-> path, owner |-> who, recursive |-> recursive]

Foreign == [Plain EXCEPT !.version = "other"]

\* Every egress policy, beside a container that does not start.
EgressDeployments ==
  {(c1 :> [Plain EXCEPT !.egress = e] @@ c2 :> Foreign) : e \in Egresses}

Users == {None, Superuser, User(0, 5, {}), User(0, 0, {7}), User(5, 5, {7}), User(5, 5, {})}

Drops == {{}, {"NET_ADMIN"}, {"NET_ADMIN", "SETUID", "SETGID"}, {"SETPCAP", "SETGID"}}

Chowners ==
  {<<>>, <<Action("data", User(5, 5, {}), TRUE)>>, <<Action("conf", User(5, 5, {}), TRUE)>>,
   <<Action("data", None, TRUE), Action("sub", User(5, 5, {}), TRUE)>>,
   <<Action("sub", User(6, 6, {}), FALSE), Action("sub", None, TRUE)>>}

\* Every identity, list of capabilities and ownership, beside a container that
\* shares the volume.
IdentityDeployments ==
  {(c1 :> [Plain EXCEPT !.user = u, !.drop = d, !.chown = w] @@
    c2 :> [Plain EXCEPT !.user = User(5, 5, {}), !.chown = <<Action("sub", None, FALSE)>>]) :
     u \in Users, d \in Drops, w \in Chowners}

Meagre == {{}, {"NET_ADMIN"}, {"NET_ADMIN", "SETPCAP", "CHOWN"},
           {"NET_ADMIN", "SETPCAP", "SETGID"}}

\* A container whose compose file takes capabilities away.
CapDropDeployments ==
  {(c1 :> [Plain EXCEPT !.user = u, !.drop = d, !.caps = given,
                        !.chown = <<Action("data", User(6, 6, {}), TRUE)>>] @@
    c2 :> Foreign) : u \in Users, d \in Drops, given \in Meagre}

AllDeployments == EgressDeployments \union IdentityDeployments \union CapDropDeployments

\* The group stays 0 and the list of capabilities to drop includes SETGID.
GroupZero ==
  {(c1 :> [Plain EXCEPT !.user = User(5, 0, {}), !.drop = {"NET_ADMIN", "SETGID"}] @@
    c2 :> [Plain EXCEPT !.user = u]) : u \in Users}

\* A rule that allows ICMP to one address.
IcmpDestination ==
  {(c1 :> [Plain EXCEPT !.egress = [NoEgress EXCEPT !.accept = <<PingA4>>]] @@
    c2 :> [Plain EXCEPT !.user = u]) : u \in Users}

=============================================================================
