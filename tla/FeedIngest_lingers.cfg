SPECIFICATION FairSpec
CONSTANTS
    Domains = {"a", "b"}
    Repeats = 0
    Wordings = 1
    Elsewhere = {}
    Instances = {"s1"}
    Grace = 1
    Patience = 0
    MinSample = 9
    MaxAttempts = 1
    MaxChanges = 2
    Faults = {}
    MaxFaults = 0
PROPERTIES
    DroppedLeaves
