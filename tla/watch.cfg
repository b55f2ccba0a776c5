SPECIFICATION FairSpec
CONSTANTS
    Sessions <- Usual
    Jobs = 2
    MaxEdits = 2
    MaxFaults = 1
    None = None
CHECK_DEADLOCK FALSE
INVARIANTS
    TrustedResults
    QuietIsCurrent
PROPERTIES
    BuildsFromDisk
    Answered
