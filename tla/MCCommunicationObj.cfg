SPECIFICATION FairSpec
CONSTANTS
    QueueCap = 2
INVARIANTS
    StartFindsNoThread
    QuietAfterStop
    NoSleepOnData
PROPERTIES
    StopReturnsUnlessMissed
    DeadLinkRestored
    ImplementsContract
