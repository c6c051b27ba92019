SPECIFICATION Spec
CONSTANTS
    Hops = 3
    MinHops = 3
    Attempts = 1
    Capacity = 1
    Opens = {1}
    Plain = {}
    MaxSessions = 2
    MaxEntries = 1
INVARIANTS RoutesApproved
CHECK_DEADLOCK FALSE
