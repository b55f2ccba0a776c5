SPECIFICATION Spec
CONSTANTS
    Processes = {p1, p2}
    Files = {"exe"}
    Contents = {"old", "new"}
    Calls <- Metadata
    Devices = {"disk", "seconds", "remote"}
    Local = {"disk", "seconds"}
    Precise = {"disk", "remote"}
    Granule <- Ticks
    Root = "disk"
    Settle = 1
    MaxClock = 3
    MaxWrites = 2
    None = None
SYMMETRY Symmetry
INVARIANTS
    AnswersAsHashing
    EvidenceTrue
CHECK_DEADLOCK FALSE
