\* Two event objects, one of them updated and resynced, and an OOM kill,
\* over a channel of one place.
SPECIFICATION FairSpec
CONSTANTS
    Objects = {u1, u2}
    OomKills = {k1}
    None = None
    Capacity = 1
    MaxVersion = 2
    MaxResync = 1
CHECK_DEADLOCK FALSE
INVARIANTS
    TypeOK
    VersionsOnceInOrder
    EveryVersionAccounted
PROPERTIES
    ShutdownEnds
    AcceptedIsAttempted
    ObservedIsAttempted
