CONSTANTS
    Sites = {"here", "there"}
    Orgs = {"o1", "o2"}
    Platform = ""
    Starts <- All
SPECIFICATION ExchangeSpec
CHECK_DEADLOCK FALSE
INVARIANTS
    Landed
    KeepsTheRest
    ImportFailsForCause
PROPERTIES
    UpdateSettles
