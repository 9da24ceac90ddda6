SPECIFICATION FairSpec
CONSTANTS
    Domains = {"a", "b"}
    Repeats = 2
    Wordings = 1
    Elsewhere = {"a"}
    Instances = {"s1"}
    Grace = 1
    Patience = 1
    MinSample = 2
    MaxAttempts = 2
    MaxChanges = 2
    Faults <- Transient
    MaxFaults = 1
PROPERTIES
    NoLargeChange
    ListedIsActive
    ListedArrives
