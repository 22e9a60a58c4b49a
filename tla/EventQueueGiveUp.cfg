\* The deliveries of a message run out while it is stored.
SPECIFICATION Spec
CONSTANTS
    Events = {e1}
    NoEvent = NoEvent
    Senders = {s1}
    MaxDeliver = 2
    MaxAckPending = 1
    MaxLog = 1
    MaxRestarts = 0
INVARIANTS
    RetriedWhileStored
