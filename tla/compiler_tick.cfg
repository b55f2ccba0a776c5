SPECIFICATION CompilerSpec
CONSTANTS
    Commands = {p1}
    old = old
    new = new
    fork = fork
    analyzer = analyzer
    legacy = legacy
    modern = modern
    forked = forked
    Dirs = {old, new, analyzer}
    Inside = {analyzer, new}
    Resolutions <- Choices
    Decided <- AtFirst
    Texts = {legacy, modern, alien}
    Legacy = {legacy}
    Alien = {alien}
    Original <- Releases
    Pubspec <- Specs
    Modes = {"isolated"}
    MaxChanges = 1
    MaxFaults = 0
    Selector = Selector
    Absent = Absent
    Damaged = Damaged
INVARIANTS
    RacingEditNeverMints
CHECK_DEADLOCK FALSE
