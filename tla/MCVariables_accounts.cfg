CONSTANTS
    Names = {"a", "b", "c"}
    Secrets = {"a"}
    Groups = {"g", "h", "k"}
    Sessions = {"s1", "s2"}
    Setups <- Bound
SPECIFICATION Spec
CHECK_DEADLOCK FALSE
INVARIANT OneOrder
