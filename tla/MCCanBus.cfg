SPECIFICATION BusFairSpec
CONSTANTS
    Procs = {p1, p2, p3}
    Prompt = TRUE
INVARIANTS
    OneSlcand
    QuietAfterStop
PROPERTIES
    ServingUndisturbed
    AbsenceIsNoticed
    PluggedBusConnects
