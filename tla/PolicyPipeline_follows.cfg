SPECIFICATION FairSpec
CONSTANTS
    Domains = {"d", "e"}
    Categories = {"ads", "malware"}
    Position <- MCPosition
    Tenants = {"default", "acme"}
    Subscribed <- MCSubscribed
    Allowed <- AcmeAllows
    Denied <- AcmeDenies
    Shielded = {"d"}
    Anchor <- OneAnchor
    MaxEdits = 2
    Faults = {"run", "commit", "finish", "engine", "build", "generator"}
    MaxFaults = 1
INVARIANTS
    ProtectedOnlyIfAsked
    ListingsExplained
    DecisionsRecorded
PROPERTIES
    ListsFollowEvidence
