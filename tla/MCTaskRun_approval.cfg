CONSTANTS
    Flow <- PlanApply
    TaskType = "apply"
    AutoApprove = FALSE
    StopOnViolation = TRUE
    RetryAble = FALSE
    RetryNumber = 0
    Worker = worker
    Sessions = {s1, s2}
    Calls = {"approve", "reject", "abort"}
    MaxCrashes = 1
    MaxFaults = 0
SPECIFICATION Spec
CHECK_DEADLOCK FALSE
SYMMETRY SessionSymmetry
VIEW LiveState
INVARIANTS
    ApprovedBeforeRun
    StepsInOrder
