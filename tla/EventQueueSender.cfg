\* One sender and one event the cluster shows again and again: PublishEvent,
\* its two memories, redelivery and a restart.
SPECIFICATION FairSpec
CONSTANTS
    Events = {e1}
    NoEvent = NoEvent
    Senders = {s1}
    MaxDeliver = 2
    MaxAckPending = 1
    MaxLog = 3
    MaxRestarts = 1
INVARIANTS
    TypeOK
    RememberedWasStored
PROPERTIES
    NoDuplicateStored
    EventuallySettled
