SPECIFICATION Spec
CONSTANTS
    Scenes <- MCScenes
    StreamWindow = 1
    MaxWindow = 2
    CircuitWindow = 3
    QueueCells = 2
    LinkRoom = 1
INVARIANTS CellsExpected EndMeansAll 
PROPERTIES HopsLetGo StreamsServed
CHECK_DEADLOCK FALSE
