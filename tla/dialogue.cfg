SPECIFICATION FairSpec
CONSTANTS
    source = source
    first = first
    second = second
    root = root
    peer = peer
    Sources = {source}
    Actions = {first, second, root, peer}
    Phase <- Phases
    Optional = {first, second}
    Batches <- Runs
    MaxAttempts = 2
    MaxEdits = 1
    MaxFaults = 1
    MaxCalls <- Calls
    Operations <- Requests
    Path = Path
    None = None
INVARIANTS
    TrueToView
    OwnAnswers
    EdgesKnown
    HalfDuplex
    UndisturbedSucceeds
PROPERTIES
    AttemptEnds
CHECK_DEADLOCK FALSE
