SPECIFICATION FairSpec
CONSTANTS
    Interval = 1
    MaxLag = 1
    MaxNet = 2
INVARIANTS
    QuietWhenStopped
PROPERTIES
    WishReachesSniffer
    ReachableIsConnected
    GoneIsDisconnected
