\* Overlapping runs, edits and template loads against a service that may fail once.
CONSTANTS
    None = None
    Garbled = Garbled
    Templates <- StudyTemplates
    FirstTemplate <- Baseline
    Typed <- Texts
    MachineFaults = {"increased_friction", "encoder_drift"}
    Types = {"message_delay", "packet_loss"}
    Calls = {1, 2}
    MaxJobs = 2
    MaxLoads = 1
    MaxFaults = 1
SPECIFICATION FairSpec
INVARIANTS
    TypeOK
    
    
    ButtonOffForACall
PROPERTIES
    ButtonComesBack
