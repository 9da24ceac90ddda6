SPECIFICATION FairSpec
CONSTANTS
    Names <- MCNames
    Position <- MCPosition
    Bodies = {"x", "y"}
    Digests = {1, 3, 4}
    ContentOf <- MCContentOf
    Stamps = {1, 2, 3}
    Keep = 2
    Clients = {blocky}
    Polls <- MCPolls
    MaxCrashes = 1
INVARIANTS
    CurrentComplete
    UndisturbedRequest
    DiskBounded
PROPERTIES
    ClientsCatchUp
    RollbackTargetKept
    PublishIsAtomic
