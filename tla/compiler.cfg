SPECIFICATION CompilerSpec
CONSTANTS
    Commands = {p1, p2}
    old = old
    new = new
    fork = fork
    analyzer = analyzer
    legacy = legacy
    modern = modern
    forked = forked
    Dirs = {old, new, analyzer}
    Inside = {analyzer, new}
    Resolutions <- Choices
    Decided <- AtFirst
    Texts = {legacy, modern, alien}
    Legacy = {legacy}
    Alien = {alien}
    Original <- Releases
    Pubspec <- Specs
    Modes = {"default", "isolated"}
    MaxChanges = 1
    MaxFaults = 1
    Selector = Selector
    Absent = Absent
    Damaged = Damaged
SYMMETRY Symmetry
INVARIANTS
    CopiesWhole
    ReceiptTrue
    CompiledAsLoaded
    NoneInTheWay
CHECK_DEADLOCK FALSE
