SPECIFICATION Spec
CONSTANTS
    Streams = {1}
    MaxStreams = 4
    MaxPending = 2
    Writes = 1
    Scenarios <- Every
INVARIANTS NoProtocolFailure OpensAnswered UnheldDeliversAll
PROPERTY ClosedEntriesLeave
CHECK_DEADLOCK FALSE
