CONSTANTS
    Flow <- ScanPlanApply
    TaskType = "apply"
    AutoApprove = TRUE
    StopOnViolation = FALSE
    RetryAble = FALSE
    RetryNumber = 0
    Worker = worker
    Sessions = {}
    Calls = {}
    MaxCrashes = 2
    MaxFaults = 2
SPECIFICATION FairSpec
CHECK_DEADLOCK FALSE
INVARIANTS
    LaunchBound
    NoOrphan
    EnvFollowsTask
PROPERTIES
    ExitedIsFinal
    Terminates
    ImplementsPipeline
