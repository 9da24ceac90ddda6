SPECIFICATION FairSpec
CONSTANTS
    Domains = {"d"}
    Categories = {"ads", "malware"}
    Position <- MCPosition
    Tenants = {"default"}
    Subscribed <- MCSubscribed
    Allowed <- NoneAllowed
    Denied <- NoneDenied
    Shielded = {}
    Anchor <- NoAnchor
    MaxEdits = 2
    Faults = {}
    MaxFaults = 0
PROPERTIES
    ListsFollowEvidence
