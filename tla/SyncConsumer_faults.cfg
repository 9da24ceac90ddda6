SPECIFICATION Spec
CONSTANTS
    Indicators = {"i", "j"}
    Domains = {"d", "e"}
    Labels = {"malware"}
    Patterns <- Apart
    Detections = {TRUE}
    Recreates = FALSE
    Merges = TRUE
    MaxEvents = 4
    CheckpointEvery = 2
    Fresh = FALSE
    Faults = {"kill", "trimStopped"}
    MaxFaults = 3
INVARIANTS
    NothingSkipped
    ReplayIsHarmless
    MirrorsOpenCTI
PROPERTIES
    RevocationSticks
CHECK_DEADLOCK FALSE
