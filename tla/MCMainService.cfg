SPECIFICATION FairSpec
CONSTANTS
    KeyOrder <- MCKeyOrder
    Defaults <- MCDefaults
    Payloads <- MCPayloads
    InitialFiles <- MCInitialFiles
    MaxUpdates = 3
    MaxCrashes = 2
INVARIANTS
    NoUpdateForgotten
    HandlerHasOwner
PROPERTIES
    BootRestores
    UpdateApplied
    SignalEndsProcessUnlessEarly
