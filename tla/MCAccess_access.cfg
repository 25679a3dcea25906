CONSTANTS
    Users = {"u1", "u2"}
    Units = {"d1"}
    Roles = {"admin", "member"}
    Sessions = {s1, s2}
    NoRow = NoRow
    MaxCalls = 3
SPECIFICATION MCSpec
CHECK_DEADLOCK FALSE
SYMMETRY Symmetric
INVARIANTS
    NoGhostRole
PROPERTIES
    LoginWorks
    RefreshAgrees
