SPECIFICATION FairSpec
CONSTANTS
    Classes = {c1}
    Timeout = 1
INVARIANTS
    QuietWhenDown
PROPERTIES
    LogMatchesWire
    MonitoredClientTimesOut
