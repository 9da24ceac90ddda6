SPECIFICATION FairSpec
CONSTANTS
    Targets = {"all"}
    Handlers = {h1, h2}
    Instances = {s1, s2}
    MaxRows = 3
    Faults = {"claim", "finish", "exit"}
    MaxFaults = 1
INVARIANTS
    RunsAtMostOnce
    DuplicatesBounded
PROPERTIES
    WaitingIsTaken
    ScheduleKept
    EveryRequestEnds
CHECK_DEADLOCK FALSE
