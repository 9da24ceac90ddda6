SPECIFICATION Spec
CONSTANTS
    Domains = {"d", "e"}
    Categories = {"ads", "malware"}
    Position <- MCPosition
    Tenants = {"default"}
    Subscribed <- MCSubscribed
    Allowed <- NoneAllowed
    Denied <- NoneDenied
    Shielded = {}
    Anchor <- OneAnchor
    MaxEdits = 2
    Faults = {}
    MaxFaults = 0
PROPERTIES
    ChangesRecorded
