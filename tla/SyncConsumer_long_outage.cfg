SPECIFICATION Spec
CONSTANTS
    Indicators = {"i", "j"}
    Domains = {"d", "e"}
    Labels = {"malware"}
    Patterns <- Apart
    Detections = {TRUE}
    Recreates = FALSE
    Merges = FALSE
    MaxEvents = 3
    CheckpointEvery = 2
    Fresh = FALSE
    Faults = {"disconnect", "trimWaiting"}
    MaxFaults = 2
INVARIANTS
    NothingSkipped
CHECK_DEADLOCK FALSE
