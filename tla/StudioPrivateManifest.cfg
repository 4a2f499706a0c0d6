\* A run started while the editor holds a text that does not parse.
CONSTANTS
    None = None
    Garbled = Garbled
    Templates <- StudyTemplates
    FirstTemplate <- Baseline
    Typed <- Texts
    MachineFaults = {"increased_friction", "encoder_drift"}
    Types = {"message_delay", "packet_loss"}
    Calls = {1, 2}
    MaxJobs = 2
    MaxLoads = 1
    MaxFaults = 1
SPECIFICATION Spec
PROPERTIES
    RunsWhatItShows
