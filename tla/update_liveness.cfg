SPECIFICATION FairSpec
CONSTANTS
  u1 = u1
  u2 = u2
  g1 = g1
  g2 = g2
  g3 = g3
  s1 = s1
  s2 = s2
  a1 = a1
  a2 = a2
  b1 = b1
  b2 = b2
  mine = mine
  Contents = {a1, a2, b1, mine}
  Absent = Absent
  Obstructed = Obstructed
  NoEntry = NoEntry
  None = None
  Updaters = {u1, u2}
  Paths = {1, 2}
  Nested = {2}
  Releases = {"r1", "r2"}
  Published <- TwoReleases
  Generations = {g1, g2, g3}
  UserEntries = {}
  StrayJournals = {}
  Failures = {"power"}
  Retried = {"r1"}
INVARIANTS
  MatchesDesign
  SecondUpdateIsQuiet
  ResumedUpdateAgrees
  HolderOwnsDirectory
  OwnJournalRecognised
  DurableBeforeCommit
  HalfAppliedIsRecorded
PROPERTIES
  Recovers
  SwitchesAtomically
  LockFollowsJournal
