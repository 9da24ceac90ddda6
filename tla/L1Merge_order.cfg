SPECIFICATION MergeSpec
CONSTANTS
    Names = {"a", "b"}
    Feeds = {"f"}
    Ingestors = {"i"}
    MaxBegun = 2
    MaxFailures = 0
INVARIANTS
    OpenCTIDomainsActive
CHECK_DEADLOCK FALSE
