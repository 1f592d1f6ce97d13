CONSTANTS
  full = full
  incremental = incremental
  targeted = targeted
  old = old
  new = new
  NoRun = NoRun
  Sources = {1}
  Runs = {incremental, full, targeted}
  Traversals = {incremental, full}
  Rebuilds = {full, targeted}
  Profiles = {old}
  PageSize = 1
  ActiveOnly = FALSE
  MaxRev = 2
  Scope <- ScopeOfRun
  ProfileOf <- OneProfile
  Changes <- AllChanges
SYMMETRY TraversalSymmetry
SPECIFICATION Spec
INVARIANT TypeOK
INVARIANT PlansFenced
INVARIANT IndexConsistent
INVARIANT NoStaleContentServed
PROPERTY KeepsCorpusIndex
CHECK_DEADLOCK FALSE
