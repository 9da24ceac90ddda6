SPECIFICATION Spec
CONSTANTS
    Handlers = {h1, h2, h3}
    Users = {"owner", "operator"}
    Role <- MCRole
    Licenses = {"GPL"}
    Asks <- MCAsks
    MaxId = 3
    MaxRequests = 3
SYMMETRY Symmetry
CHECK_DEADLOCK FALSE
INVARIANTS
    LogExplains
PROPERTIES
    LicenseJudged
