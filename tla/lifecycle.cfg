SPECIFICATION Spec
CONSTANTS
  c1 = c1
  c2 = c2
  web = web
  db = db
  current = current
  old = old
  partial = partial
  w1 = w1
  w2 = w2
  d1 = d1
  h1 = h1
  h2 = h2
  other = other
  va = va
  vb = vb
  vc = vc
  None = None
  Images = {current, old, partial, w1, w2, d1}
  Bundle <- Bundles
  Required = "required"
  ContentOnly = {partial}
  Services = {web, db}
  Declared <- Project
  Commands = {c1, c2}
  Beginnings <- Hosts
  Upstream <- Upstreams
  Outputs <- Builds
  FirstTags <- Tagged
  FirstOutputs <- Edited
  Helpers = {h1, h2}
  OldImage = {h1, h2}
  Others = {other}
  Volumes = {va, vb, vc}
  HexNamed = {va, vb}
  Words = {"up", "compose.yaml", "compose.override.yaml"}
  MaxTokens = 4
  Defaults <- Found
  Override = "/dev/fd/3"
  Failures = {"error", "kill"}
INVARIANTS
  ContainersManaged
  NoDoomedRun
  EntrypointMatches
  NothingStranded
  DoctorVouches
  ReadsAlike
PROPERTIES
  OnlyLegacyRemoved
  Advances
