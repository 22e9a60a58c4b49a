\* Two namespaces that come, go and are relabelled twice, a watch that breaks once.
SPECIFICATION FairSpec
CONSTANTS
    Namespaces = {n1, n2}
    MaxChanges = 2
    MaxBreaks = 1
    MaxRefreshes = 1
CHECK_DEADLOCK FALSE
INVARIANTS
    TypeOK
    AllowedFollowsStore
    StopWaitsForAll
PROPERTIES
    FollowsCluster
