SPECIFICATION Spec
CONSTANTS
    Domains = {"a", "b"}
    Repeats = 0
    Wordings = 1
    Elsewhere = {}
    Instances = {"s1"}
    Grace = 0
    Patience = 0
    MinSample = 9
    MaxAttempts = 1
    MaxChanges = 2
    Faults = {"finish"}
    MaxFaults = 1
PROPERTIES
    ListedIsActive
