SPECIFICATION FairSpec
CONSTANTS
    Classes = {}
    Timeout = 2
PROPERTIES
    SilenceEndsLogging
