SPECIFICATION Spec
CONSTANTS
    Peers = {"client", "server"}
    EpochBytes = 4
    EpochRecords = 4
    DataSizes = {4}
    ControlSize = 1
    MaxSequence = 4
    MaxEpoch = 2
    MaxConcurrentRekeys = 2
    MaxQueued = 1
    Budget <- Short
    Timed = {"client"}
    Interleave = FALSE
INVARIANTS SessionsSurvive
PROPERTIES ImplementsOrderedChannel RotationEnds EveryRecordArrives
CHECK_DEADLOCK FALSE
