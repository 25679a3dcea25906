CONSTANTS
    Managers = {m1, m2}
    NoManager = none
    NTasks = 3
    Envs = {"a", "b"}
    EnvOf <- Shared
    MaxLosses = 1
    MaxCrashes = 2
SPECIFICATION FairSpec
CHECK_DEADLOCK FALSE
CONSTRAINT LossAlone
INVARIANTS
    EnvExclusive
    InOrder
    FailsForCause
PROPERTIES
    RunsOnce
    EveryTaskEnds
