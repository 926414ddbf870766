SPECIFICATION Spec
CONSTANTS
  u1 = u1
  u2 = u2
  g1 = g1
  g2 = g2
  g3 = g3
  s1 = s1
  s2 = s2
  a1 = a1
  a2 = a2
  b1 = b1
  b2 = b2
  mine = mine
  Contents = {a1, a2, b1, b2, mine}
  Absent = Absent
  Obstructed = Obstructed
  NoEntry = NoEntry
  None = None
  Updaters = {u1}
  Paths = {1, 2}
  Nested = {2}
  Releases = {"r1", "r2", "r3"}
  Published <- ThreeReleases
  Generations = {g1, g2, g3}
  UserEntries = {mine, a1, Obstructed}
  StrayJournals <- OneStray
  Failures = {"kill", "power"}
  Retried = {}
SYMMETRY Symmetry
INVARIANTS
  TypeOK
PROPERTIES
  EditsSurvive
  FailsOnlyOnRace
