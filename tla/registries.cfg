SPECIFICATION Spec
CONSTANTS
  c1 = c1
  c2 = c2
  Commands = {c1, c2}
  Names = {"a", "b"}
  Sources = {"x", "y", "f", "g"}
  Kind <- Kinds
  Versions = {"v1", "v2"}
  Recipes = {"r"}
  Releases = {0, 1, 2, 3}
  Holds <- Contents
  None = None
  Operations <- Roles
  Arguments <- Args
  Lock <- Installed
  Offers <- Additions
  FirstConfigs <- Beginnings
  TooNew = {3}
  Mirrors <- Urls
  Failures = {"error", "kill"}
INVARIANTS
  RevalidatedIsCurrent
  UnqualifiedIsUnique
  IndexFromItsSource
  BrowseIsRecent
  ShownNamesResolve
  ObtainedAsPublished
