SPECIFICATION Spec
CONSTANTS
  c1 = c1
  c2 = c2
  r1 = r1
  d1 = d1
  d2 = d2
  d3 = d3
  Commands = {c1, c2}
  Readers = {r1}
  Commits = {"k1", "k2", "k3"}
  Digests = {d1, d2, d3}
  Ships <- SharedArtifact
  Capacity = 2
  Grace = 1
  Operations = {"refresh", "add", "remove"}
  Failures = {"error", "kill"}
  MaxAbandoned = 2
  None = None
SYMMETRY Symmetry
INVARIANTS
  IndexComplete
  GraceHonoured
  CacheBounded
  OnlyKillsLeaveFiles
