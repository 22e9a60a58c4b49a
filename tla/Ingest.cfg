\* Any two of two OOM kills and an Event object, over two starts of kigeon; keys
\* expire, and kills grow too old, while the cluster still shows them.
SPECIFICATION FairSpec
CONSTANTS
    Kills = {k1, k2}
    Objects = {o1}
    None = None
    MaxAge = 1
    Lifetime = 1
    MaxTime = 3
    MaxStarts = 2
    MaxItems = 2
CHECK_DEADLOCK FALSE
INVARIANTS
    TypeOK
    ReportedOnce
    RepublishedOnlyLate
PROPERTIES
    EventuallyStored
