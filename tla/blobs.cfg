SPECIFICATION Spec
CONSTANTS
    Procs = {p1, p2}
    MaxLive = 2
    Keys = {"a", "b"}
    Puts <- Cached
    Earlier <- LeftBehind
    Names <- Generations
    Limit = 2
    Seeds = 1
    MaxPuts = 2
    MaxFaults = 2
    None = None
    Torn = Torn
SYMMETRY Symmetry
INVARIANTS
    AnswersTrue
PROPERTIES
    PublishedKept
CHECK_DEADLOCK FALSE
