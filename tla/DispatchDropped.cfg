SPECIFICATION CallSpec
CONSTANTS
    None = None
    Classes = {"B","D","E"}
    BaseOf <- Bases
    OneUnit = TRUE
    SharedTargets = TRUE
    OtherObjects = FALSE
    MaxGraph = 0
    Limits = {1,2,3}
INVARIANTS NoOverrideDropped
CHECK_DEADLOCK FALSE
