\* Two senders that come and go, two messages: subscriptions, retention and
\* redelivery across a restart.
SPECIFICATION Spec
CONSTANTS
    Events = {e1, e2}
    NoEvent = NoEvent
    Senders = {s1, s2}
    MaxDeliver = 2
    MaxAckPending = 1
    MaxLog = 2
    MaxRestarts = 1
SYMMETRY Symmetry
ACTION_CONSTRAINT Recorded
INVARIANTS
    OwedIsStored
    OnlyUndeliveredRetained
PROPERTIES
    KeepsPromise
