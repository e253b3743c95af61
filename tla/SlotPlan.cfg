SPECIFICATION Spec
CONSTANTS
    NumInputs = 1
    MaxGates = 4
    OutputLens = {1, 3}
INVARIANTS TypeOK ReadsAreRight CapacityIsExact OutputsAreRight
CHECK_DEADLOCK FALSE
