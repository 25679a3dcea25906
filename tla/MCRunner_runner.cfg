CONSTANTS
    Tasks <- Several
    Handlers = {1, 2}
    Conns = {1, 2}
SPECIFICATION FairSpec
CHECK_DEADLOCK FALSE
INVARIANTS
    OneCommand
    ResultIsTrue
    AbortStopsStarts
PROPERTIES
    TaskEnds
    NothingLeft
