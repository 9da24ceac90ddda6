SPECIFICATION Spec
CONSTANTS
    Names <- MCNames
    Position <- MCPosition
    Bodies = {"x", "y"}
    Digests = {1, 2}
    ContentOf <- MCContentOf
    Stamps = {1, 2}
    Keep = 2
    Clients = {}
    Polls <- MCPolls
    MaxCrashes = 1
INVARIANTS
    BeginClearsLeftovers
CHECK_DEADLOCK FALSE
