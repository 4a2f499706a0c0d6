\* A retry through the file gateway after a crash or an exception.
CONSTANTS
    None = None
    Quantity = 2
    Gateways = {"File"}
    PageSize = 1
    MaxEvents = 4
    MaxCrashes = 1
    MaxFaults = 2
SPECIFICATION Spec
INVARIANTS
    RetriesLeaveNoDuplicates
