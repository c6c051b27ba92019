SPECIFICATION Spec
CONSTANTS
    MaxFrame = 2
    ReturnsPerWindow = 2
    Streams = {1, 3}
    Size <- Sizes
    Packets = {3}
    Stalled = {1}
    Scenes <- MCScenes
    MaxCredit = 6
INVARIANTS WindowLedgers NeverFails
PROPERTIES ConnectionIsCreditWindow StreamsAreCreditWindows StreamsProgress
CHECK_DEADLOCK FALSE
