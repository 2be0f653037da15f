SPECIFICATION Spec
CONSTANTS
    Rules <- MCRules
    Frames <- MCFrames
    MaxRules = 3
    MaxBatch = 4
    IdSpace = 2
    CountMod = 4
    StableLimit = 3
INVARIANTS
    TablesConsistent
PROPERTIES
    JudgedAsPromised
