SPECIFICATION Spec
CONSTANTS
    Hops = 3
    MinHops = 3
    Attempts = 1
    Capacity = 1
    Opens = {1, 2}
    Plain = {2}
    MaxSessions = 2
    MaxEntries = 2
INVARIANTS RoutesAllowed BuildsOwned WaitersAwaited
CHECK_DEADLOCK FALSE
