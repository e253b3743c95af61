SPECIFICATION Spec
CONSTANTS
    Indices <- OneIndex
    ACall = {"a1"}
    BCall = {"b1", "b2"}
    MaxGen = 1
    MaxCrash = 0
PROPERTY DuplicateLeavesFirstPending
CHECK_DEADLOCK FALSE
