\* Machine states, buffers, a viewer and its recording; crashes and dropped connections.
CONSTANTS
    Nothing = Nothing
    Frames <- MachineFrames
    Recording <- RecordedFrames
    MaxPosition = 2
    MaxNumber = 3
    MaxWire = 2
    MaxFaults = 2
SPECIFICATION FairSpec
INVARIANTS
    TypeOK
    OneConnection
    BadgeTellsOrigin
    SceneShowsSnapshot
PROPERTIES
    DrawnInOrder
    CatchesUp
