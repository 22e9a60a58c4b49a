\* A sender with each of its settings, over the queue and a restart.
SPECIFICATION FairPipelineSpec
CONSTANTS
    Events = {e1}
    NoEvent = NoEvent
    Senders = {s1}
    MaxDeliver = 2
    MaxAckPending = 1
    MaxLog = 1
    MaxRestarts = 1
    Settings <- AllSettings
INVARIANTS
    PipelineTypeOK
    AcknowledgedIsHandled
PROPERTIES
    FairSpec
