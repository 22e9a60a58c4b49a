\* The informer handler sends while Run closes the channel.
SPECIFICATION Spec
CONSTANTS
    Objects = {u1, u2}
    OomKills = {k1}
    None = None
    Capacity = 1
    MaxVersion = 1
    MaxResync = 0
CHECK_DEADLOCK FALSE
INVARIANTS
    NeverSendsOnClosed
