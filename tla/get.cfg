SPECIFICATION Spec
CONSTANTS
  g1 = g1
  g2 = g2
  g3 = g3
  Gets = {g1, g2, g3}
  Recipes = {"a", "b"}
  Versions = {1, 2}
  Absent = Absent
  EmptyDir = EmptyDir
  file = file
  Foreign = {EmptyDir, file}
  None = None
  Failures = {"error", "kill", "power"}
SYMMETRY Symmetry
INVARIANTS
  FailureLeavesNothing
PROPERTIES
  InstalledSurvives
  KeepsDirectory
