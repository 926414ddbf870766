SPECIFICATION Spec
CONSTANTS
  c1 = c1
  c2 = c2
  a4 = a4
  m4 = m4
  a6 = a6
  host = host
  ping = ping
  quench = quench
  None = None
  Containers = {c1, c2}
  Deployments <- IcmpDestination
  Version = "this"
  Paths = {"root", "data", "sub", "conf", "ro"}
  Under <- Trees
  Mounts <- Volumes
  Root = "root"
  Unowned = Unowned
  MayStop = FALSE
  Addresses = {a4, m4, a6}
  Family <- Families
  Metadata = {m4}
  Names = {host}
  Ports = {53, 443}
  DnsPort = 53
  Types = {ping, quench}
INVARIANTS
  EgressEnforced
