SPECIFICATION FairSpec
CONSTANTS
  c1 = c1
  c2 = c2
  a4 = a4
  m4 = m4
  a6 = a6
  host = host
  ping = ping
  quench = quench
  None = None
  Containers = {c1, c2}
  Deployments <- AllDeployments
  Version = "this"
  Paths = {"root", "data", "sub", "conf", "ro"}
  Under <- Trees
  Mounts <- Volumes
  Root = "root"
  Unowned = Unowned
  MayStop = TRUE
  Addresses = {a4, m4, a6}
  Family <- Families
  Metadata = {m4}
  Names = {host}
  Ports = {53, 443}
  DnsPort = 53
  Types = {ping, quench}
INVARIANTS
  EgressEnforced
  PrivilegesDropped
  RunsAsAsked
  VolumesOwned
PROPERTIES
  Starts
