\* A cell that starts empty: two orders of up to two parts, a guard that opens, a drive
\* that faults when injected or of its own, a following error in any control period.
CONSTANTS
    None = None
    o1 = o1
    o2 = o2
    r1 = r1
    r2 = r2
    OrderIds = {o1, o2}
    Recipes = {r1}
    MaxQuantity = 2
    SelectableModes = {"Manual", "Automatic"}
    InjectableFaults = {"guard-open", "drive-fault-x"}
    DriveTrips = {"X"}
    StartupCheckpoints <- NoCheckpoints
    MaxParts = 2
SYMMETRY OrderSymmetry
SPECIFICATION Spec
INVARIANTS
    TypeOK
    CycleOwnsItsPart
    CycleNeverThrows
    TargetMatchesStep
    MotionOnlyWhenPermitted
    AutomaticRunsHomed
    NoOverproduction
PROPERTIES
    CellPromise
    WorkShrinks
    PartsAccounted
