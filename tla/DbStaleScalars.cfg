SPECIFICATION Spec
CONSTANTS
    t1 = t1
    t2 = t2
    Task <- TwoTasks
    Index = {1}
    QueueCap = 2
    MaxOps = 4
    MaxFail = 0
    MaxRestart = 1
INVARIANT RegistrySurvives
CHECK_DEADLOCK FALSE
