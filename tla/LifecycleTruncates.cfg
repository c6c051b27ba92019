SPECIFICATION Spec
CONSTANTS
    Streams = {1}
    MaxStreams = 4
    MaxPending = 2
    Writes = 1
    Scenarios <- ShutWhileRotating
INVARIANT GracefulDeliversAll
CHECK_DEADLOCK FALSE
