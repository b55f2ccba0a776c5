SPECIFICATION FairSpec
CONSTANTS
    Processes = {"build", "rival"}
    Roles <- Pairs
    MaxEdits = 1
    MaxFaults = 1
    Foreigners <- Ahead
    MaxForeign = 2
    None = None
CHECK_DEADLOCK FALSE
INVARIANTS
    AcceptedWhole
    CompiledOnce
PROPERTIES
    Ends
