SPECIFICATION Spec
CONSTANTS
    Indicators = {"i", "j"}
    Domains = {"d", "e"}
    Labels = {"malware"}
    Patterns <- Together
    Detections = {TRUE}
    Recreates = FALSE
    Merges = FALSE
    MaxEvents = 3
    CheckpointEvery = 2
    Fresh = FALSE
    Faults = {}
    MaxFaults = 1
INVARIANTS
    VetoHeld
CHECK_DEADLOCK FALSE
