SPECIFICATION FairSpec
CONSTANT MaxStart = 4
INVARIANTS TypeOK NoMigrationLoss ServesMigrated
PROPERTY EventuallyServes
CHECK_DEADLOCK FALSE
