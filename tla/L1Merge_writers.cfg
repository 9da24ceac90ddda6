SPECIFICATION FairMergeSpec
CONSTANTS
    Names = {"a", "b"}
    Feeds = {"f", "g"}
    Ingestors = {"i"}
    MaxBegun = 4
    MaxFailures = 1
INVARIANTS
    FeedDomainsActive
PROPERTIES
    TransactionsEnd
CHECK_DEADLOCK FALSE
