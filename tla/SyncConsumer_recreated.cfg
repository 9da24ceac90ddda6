SPECIFICATION Spec
CONSTANTS
    Indicators = {"i", "j"}
    Domains = {"d", "e"}
    Labels = {"malware"}
    Patterns <- Apart
    Detections = {TRUE}
    Recreates = TRUE
    Merges = FALSE
    MaxEvents = 3
    CheckpointEvery = 2
    Fresh = FALSE
    Faults = {"kill"}
    MaxFaults = 1
INVARIANTS
    ReplayIsHarmless
CHECK_DEADLOCK FALSE
