SPECIFICATION IncrementalSpec
CONSTANTS
    Source <- TwoSources
    Content <- Contents
    Junk = "plain"
    Habit <- Habits
    Packages <- OfChain
    MaxBuilds = 2
    MaxEdits = 1
INVARIANTS
    SkippedReconsidered
CHECK_DEADLOCK FALSE
