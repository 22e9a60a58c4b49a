\* Two pods of one name, two concurrent calls, entries that expire.
SPECIFICATION FairSpec
CONSTANTS
    Callers = {c1, c2}
    Retention = 2
    NotFoundTTL = 1
    MaxChange = 4
    MaxTime = 3
CHECK_DEADLOCK FALSE
INVARIANTS
    TypeOK
    RetainedIsReturned
    NotFoundWasTrue
    NoOlderPod
PROPERTIES
    StayingPodIsFound
