SPECIFICATION Spec
CONSTANTS
    Indicators = {"i", "j"}
    Domains = {"d", "e"}
    Labels = {"malware"}
    Patterns <- Apart
    Detections = {TRUE, FALSE}
    Recreates = FALSE
    Merges = FALSE
    MaxEvents = 3
    CheckpointEvery = 2
    Fresh = FALSE
    Faults = {}
    MaxFaults = 1
INVARIANTS
    AnalysisOnlyNeverBlocks
CHECK_DEADLOCK FALSE
