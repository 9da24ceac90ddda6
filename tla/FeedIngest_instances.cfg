SPECIFICATION Spec
CONSTANTS
    Domains = {"a", "b"}
    Repeats = 0
    Wordings = 2
    Elsewhere = {"a"}
    Instances = {"s1", "s2"}
    Grace = 1
    Patience = 1
    MinSample = 9
    MaxAttempts = 1
    MaxChanges = 1
    Faults = {"retry", "refuse", "break", "garbage", "apply", "commit", "finish", "crash"}
    MaxFaults = 1
INVARIANTS
    ActiveIffListed
PROPERTIES
    NothingByHalves
