SPECIFICATION FairSpec
CONSTANTS
    Files <- MCFiles
    None = None
    MaxStarts = 3
INVARIANTS
    TypeOK
    SubscribedFirst
    ReadyMeansServing
    NoPushAfterStop
    ReadyIsSound
PROPERTIES
    SubscriptionsKept
    SignalEnds
    StartupEnds
