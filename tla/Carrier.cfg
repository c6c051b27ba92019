CONSTANTS
    ClientRecords = 2
    ServerRecords = 1
    RecordBytes = 2
    Window = 3
    FirstWindow = 1
    MaxBuffered = 2
    Stoppers = {"client", "server"}
SPECIFICATION Spec
INVARIANTS CreditConserved SettledOnce ClosesCleanly NothingWaitsAtRest
CHECK_DEADLOCK FALSE
