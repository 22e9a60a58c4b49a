\* Two versions of an Event object, which may share an identifier, and an OOM
\* kill, over a channel of one place, a stream of two messages and a restart.
SPECIFICATION KigeonSpec
CONSTANTS
    Events <- MCEvents
    NoEvent = NoEvent
    Senders = {s1}
    MaxDeliver = 1
    MaxAckPending = 1
    MaxLog = 2
    MaxRestarts = 1
    Objects = {u1}
    OomKills = {k1}
    None = None
    Capacity = 1
    MaxVersion = 2
    MaxResync = 0
CHECK_DEADLOCK FALSE
ACTION_CONSTRAINT Undelivered
VIEW Read
INVARIANTS
    NothingLostSilently
    StopCutsNoPublication
PROPERTIES
    Ships
