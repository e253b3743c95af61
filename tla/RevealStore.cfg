\* Two indices, the second derives the first; one joint run, one restart.
SPECIFICATION Spec
CONSTANTS
    Indices <- TwoIndices
    ACall = {"a1"}
    BCall = {"b1"}
    MaxGen = 1
    MaxCrash = 1
INVARIANTS NoUnauthorizedReveal 
PROPERTY SecretsStayDerivable
CHECK_DEADLOCK FALSE
