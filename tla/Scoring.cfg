SPECIFICATION Spec
CONSTANT None = None
CONSTANT Std <- MCStd
CONSTANT RunMax = 4
CONSTANT Bounds <- MCBounds
CONSTANT Configurations <- MCConfigurations
CONSTANT Openings <- MCOpenings
CONSTANT Observations <- MCObservations
INVARIANT TypeOK
INVARIANT StoredScoreIsReplay
INVARIANT ScorecardBalances
INVARIANT ResultFollowsInnings
INVARIANT BlockHasAnswer
INVARIANT RowsFitTables
PROPERTY StaleNeverCommits
PROPERTY ChangedCardAnnounced
CHECK_DEADLOCK FALSE
