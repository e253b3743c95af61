SPECIFICATION RefillSpec
CONSTANTS
    Indices <- OneIndex
    ACall = {"a1"}
    BCall = {"b1"}
    MaxGen = 3
    MaxCrash = 0
PROPERTY MismatchIsRecomputed
CHECK_DEADLOCK FALSE
