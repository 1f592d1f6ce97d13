CONSTANTS
  full = full
  incremental = incremental
  targeted = targeted
  old = old
  new = new
  NoRun = NoRun
  Sources = {1, 2}
  Runs = {incremental}
  Traversals = {incremental}
  Rebuilds = {}
  Profiles = {old}
  PageSize = 1
  ActiveOnly = FALSE
  MaxRev = 2
  Scope <- ScopeOfRun
  ProfileOf <- OneProfile
  Changes <- Insertions
SPECIFICATION Spec
PROPERTY HiddenOnlyIfNotAllowed
CHECK_DEADLOCK FALSE
