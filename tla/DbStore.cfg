\* Two tasks, a queue of two places, one failure and one restart.
SPECIFICATION FairSpec
CONSTANTS
    t1 = t1
    t2 = t2
    Task <- TwoTasks
    Index = {1}
    QueueCap = 2
    MaxOps = 3
    MaxFail = 1
    MaxRestart = 1
INVARIANTS TypeOK WritesKeepOrder DirtyCovers
PROPERTIES AckedFlushIsDurable EventuallyDurable
CHECK_DEADLOCK FALSE
