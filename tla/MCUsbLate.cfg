SPECIFICATION BusFairSpec
CONSTANTS
    Procs = {p1, p2}
    Prompt = FALSE
PROPERTIES
    InterfaceComesUp
