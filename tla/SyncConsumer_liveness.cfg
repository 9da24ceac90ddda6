SPECIFICATION FairSpec
CONSTANTS
    Indicators = {"i", "j"}
    Domains = {"d", "e"}
    Labels = {"malware"}
    Patterns <- Apart
    Detections = {TRUE}
    Recreates = FALSE
    Merges = TRUE
    MaxEvents = 3
    CheckpointEvery = 2
    Fresh = FALSE
    Faults = {"dbError", "disconnect", "stop", "trimWaiting"}
    MaxFaults = 2
PROPERTIES
    CatchesUp
CHECK_DEADLOCK FALSE
