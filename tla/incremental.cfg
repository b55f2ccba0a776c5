SPECIFICATION IncrementalSpec
CONSTANTS
    Source <- TwoSources
    Content <- Contents
    Junk = "plain"
    Habit <- Habits
    Packages <- Usual
    MaxBuilds = 3
    MaxEdits = 3
INVARIANTS
    SameAsClean
    SettledIsQuiet
CHECK_DEADLOCK FALSE
