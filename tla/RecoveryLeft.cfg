\* A command that is neither recovery, reset nor diagnostics, after a restart.
CONSTANTS
    None = None
    o1 = o1
    o2 = o2
    r1 = r1
    r2 = r2
    OrderIds = {o1}
    Recipes = {r1}
    MaxQuantity = 2
    SelectableModes = {"Manual", "Automatic"}
    InjectableFaults = {}
    DriveTrips = {}
    StartupCheckpoints <- AllCheckpoints
    MaxParts = 2
SPECIFICATION Spec
PROPERTY OnlyRecoveryLeavesRecovery
