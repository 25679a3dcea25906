CONSTANTS
    Envs <- TwoEnvs
    Setup <- TheSetup
    Repos <- TheRepos
    Runners <- TheRunners
    TagsOf <- TheTags
    Forms <- TheForms
    Procs = {p, q}
    Starts <- TheStarts
SYMMETRY Requests
SPECIFICATION Spec
CHECK_DEADLOCK FALSE
INVARIANTS
    DeliveryIsWhole
    HookServes
    RunnersTakeTurns
    EffectIsPrepared
