SPECIFICATION FairSpec
CONSTANTS
    QueueCap = 2
PROPERTIES
    StopReturns
