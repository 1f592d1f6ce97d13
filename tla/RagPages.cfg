CONSTANTS
  full = full
  incremental = incremental
  targeted = targeted
  old = old
  new = new
  NoRun = NoRun
  Sources = {1, 2}
  Runs = {incremental, targeted}
  Traversals = {incremental}
  Rebuilds = {targeted}
  Profiles = {old, new}
  PageSize = 1
  ActiveOnly = TRUE
  MaxRev = 2
  Scope <- ScopeOfRun
  ProfileOf <- NewForRebuild
  Changes <- Updates
SPECIFICATION Spec
INVARIANT ReconciledSourceSearchable
PROPERTY HiddenOnlyIfNotAllowed
PROPERTY ProfilesReplacedByRebuilds
CHECK_DEADLOCK FALSE
