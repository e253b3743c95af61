\* One index, two joint runs whose halves may meet, one restart.
SPECIFICATION Spec
CONSTANTS
    Indices <- OneIndex
    ACall = {"a1"}
    BCall = {"b1"}
    MaxGen = 2
    MaxCrash = 1
INVARIANT RevealedCorrect
PROPERTY ImplementsJointReveal
CHECK_DEADLOCK FALSE
