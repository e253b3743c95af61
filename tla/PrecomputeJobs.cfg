\* Two channels and one worker, later two; cap 1, later 2, and targets of one
\* unit; two sessions, two control calls or restarts.
SPECIFICATION Spec
CONSTANTS
    c1 = c1
    c2 = c2
    t1 = t1
    t2 = t2
    Chan <- TwoChannels
    Task <- TwoTasks
    Params = {1, 2}
    WorkerCounts = {1, 2}
    Costs = {1}
    MaxTarget = 1
    MaxCmds = 1
    MaxSessions = 2
    MaxEvents = 2
SYMMETRY JobSymmetry
INVARIANTS  WorkersHold OneRunPerChannel PairedStreams 
    NoStuckTask JobsAreOwned
CHECK_DEADLOCK FALSE
