CONSTANTS
    Sessions = {s1}
    Calls = {"deploy", "lock", "unlock", "drift", "update", "abort"}
    Creations <- Repeated
    Forms <- Destroy
    MaxTicks = 2
    MaxFailures = 1
SPECIFICATION FairSpec
CHECK_DEADLOCK FALSE
INVARIANTS
    AutoOnce
    LockLetsThrough
PROPERTIES
    DueIsServed
CONSTRAINT UntilStale
