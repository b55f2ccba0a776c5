SPECIFICATION FairSpec
CONSTANTS
    Output = {o1}
    Cached = {o1}
    Source = {s1}
    Content = {c1, c2}
    Absent = Absent
    Lost = Lost
    GraphFile = GraphFile
    MaxBuilds = 2
    MaxFaults = 2
    MaxEdits = 1
    MaxDamages = 1
    MaxEvents = 4
INVARIANTS
    GraphDescribesTree
    RollbackRestoresAll
PROPERTIES
    OnlyJournaledChange
    EditsSurviveRecovery
    ReservedNamesFree
    ImplementsAtomicPublication
    InterruptionResolved
