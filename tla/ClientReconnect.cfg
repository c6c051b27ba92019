SPECIFICATION Spec
CONSTANTS
    Sessions = {1, 2}
    ReconnectInitial = 1
    ReconnectMax = 4
    None = None
INVARIANTS OneOwnedSession
PROPERTIES KeepsTrying CloseEnds
CHECK_DEADLOCK FALSE
