SPECIFICATION FairSpec
CONSTANTS
    Configurations <- Workspaces
    Workers = 3
    Unknown = Unknown
    Handwritten = Handwritten
    MaxFailures = 2
CHECK_DEADLOCK FALSE
INVARIANTS
    AsSequential
    NeverStalled
    FailureReported
PROPERTIES
    Returns
