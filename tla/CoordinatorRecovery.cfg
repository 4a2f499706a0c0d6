\* A cell whose process ends and starts again at any moment, any number of times, under
\* the fairness of the periodic timer.
CONSTANTS
    None = None
    o1 = o1
    o2 = o2
    r1 = r1
    r2 = r2
    OrderIds = {o1}
    Recipes = {r1}
    MaxQuantity = 1
    SelectableModes = {"Automatic"}
    InjectableFaults = {}
    DriveTrips = {}
    StartupCheckpoints <- NoCheckpoints
    MaxParts = 1
SPECIFICATION FairLifeSpec
INVARIANTS
    Inv
    RestartWaits
    CheckpointsConsistent
    
PROPERTIES
    CellPromise
    StartedOrderEnds
    TransitionsSettle
    SettlesAtOnce
