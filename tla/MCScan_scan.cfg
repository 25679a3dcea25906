CONSTANTS
    Policies = {p1, p2}
    Sessions = {s1}
    Calls <- AllCalls
    Goroutines = {g1}
    SlowWrites = FALSE
    MaxTasks = 1
    MaxEdits = 1
    MaxFaults = 1
SPECIFICATION FairSpec
CHECK_DEADLOCK FALSE
INVARIANTS
    StopsOnViolation
    CompleteMeansApplied
    ResultsAgree
PROPERTIES
    EveryTaskEnds
