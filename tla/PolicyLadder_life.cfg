SPECIFICATION Spec
CONSTANTS
    Feeds = {"f", "g"}
    Categories = {"malware", "ads"}
    Covers <- Coverage
    Strengths = {30, 60}
    MinScore = 50
    SourceBonus = 10
    MaxBonus = 20
    DayPenalty = 30
    MaxPenalty = 50
    Lifetimes = {1, 2}
    Lists = {"allowed", "blocked"}
    Terms = {1}
    MaxDay = 2
INVARIANTS
    TypeOK
    VetoHolds
    EchoIsNoEvidence
PROPERTIES
    TimeOnlyUncovers
    MoreEvidenceNeverUnblocks
