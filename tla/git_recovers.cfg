SPECIFICATION FairSpec
CONSTANTS
  c1 = c1
  c2 = c2
  r1 = r1
  d1 = d1
  d2 = d2
  d3 = d3
  Commands = {c1, c2}
  Readers = {}
  Commits = {"k1", "k2", "k3"}
  Digests = {d1, d2, d3}
  Ships <- ThreeCommits
  Capacity = 2
  Grace = 1
  Operations = {"refresh"}
  Failures = {"error", "kill", "damage"}
  MaxAbandoned = 1
  None = None
PROPERTIES
  RefreshSucceeds
