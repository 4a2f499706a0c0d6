\* Two parts through either gateway, with crashes, failed deliveries and outages.
CONSTANTS
    None = None
    Quantity = 2
    Gateways = {"Http", "File"}
    PageSize = 1
    MaxEvents = 4
    MaxCrashes = 1
    MaxFaults = 1
SPECIFICATION FairSpec
INVARIANTS
    TypeOK
    RecordedOnce
    CheckpointAfterOutbox
    CrashRepeatsOnePart
PROPERTIES
    OutboxPromise
    ResultsDelivered
