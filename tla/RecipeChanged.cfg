\* Another recipe activated after the order was loaded.
CONSTANTS
    None = None
    o1 = o1
    o2 = o2
    r1 = r1
    r2 = r2
    OrderIds = {o1}
    Recipes = {r1, r2}
    MaxQuantity = 1
    SelectableModes = {"Manual", "Automatic"}
    InjectableFaults = {}
    DriveTrips = {}
    StartupCheckpoints <- NoCheckpoints
    MaxParts = 2
SPECIFICATION Spec
INVARIANT OrderRunsOnItsRecipe
