SPECIFICATION FairSpec
CONSTANTS
    Workers = 3
    Builds <- All
    Source = Source
    None = None
    MaxFaults = 1
    MaxEdits = 1
CHECK_DEADLOCK FALSE
INVARIANTS
    SingleFlight
    SourceReadOnce
    NoLostWakeup
    NoFalseCycle
    VerdictRight
PROPERTIES
    Terminates
