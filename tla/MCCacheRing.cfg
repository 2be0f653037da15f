SPECIFICATION FairSpec
CONSTANTS
    TotalSize = 48
    MaxFrameSize = 8
    MaxFrames = 7
INVARIANTS
    ZeroCopySafe
    NoBlockRace
    DeliveredInOrder
PROPERTIES
    LostOnlyWhenFull
    Freshness
    ImplementsDropQueue
CHECK_DEADLOCK FALSE
