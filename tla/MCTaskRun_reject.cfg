CONSTANTS
    Flow <- ScanPlanDestroy
    TaskType = "destroy"
    AutoApprove = FALSE
    StopOnViolation = TRUE
    RetryAble = TRUE
    RetryNumber = 1
    Worker = worker
    Sessions = {s1, s2}
    Calls = {"reject"}
    MaxCrashes = 0
    MaxFaults = 2
SPECIFICATION FairSpec
CHECK_DEADLOCK FALSE
INVARIANTS
    RejectedMeansNotRun
PROPERTIES
    RejectEnds
