\* One event, one sender with a hook and onError: skip, one stop.
SPECIFICATION PipelineSpec
CONSTANTS
    Events = {e1}
    NoEvent = NoEvent
    Senders = {s1}
    MaxDeliver = 2
    MaxAckPending = 1
    MaxLog = 1
    MaxRestarts = 1
    Settings <- SkipOnError
INVARIANTS
    NotLostOnStop
