\* One index, one call of Alice against two of Bob.
SPECIFICATION FairSpec
CONSTANTS
    Indices <- OneIndex
    ACall = {"a1"}
    BCall = {"b1", "b2"}
    MaxGen = 1
    MaxCrash = 0
INVARIANTS TypeOK PendingMatchesWaiter
PROPERTY CallsReturn
CHECK_DEADLOCK FALSE
