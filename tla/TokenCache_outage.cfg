SPECIFICATION FairTokenSpec
CONSTANTS
    Requests = {"r1", "r2"}
    TTL = 1
    MaxStale = 3
    MaxLookup = 2
INVARIANTS
    AnswersAreFresh
    OutageBridged
PROPERTIES
    AnswersSettle
