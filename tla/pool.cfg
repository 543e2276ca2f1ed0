CONSTANTS
    Worker = {w1, w2, w3}
    Owner = Owner
    MaxTasks = 4
    MaxSpurious = 1
SPECIFICATION FairSpec
INVARIANTS TypeOK TasksInOnePlace NobodyOversleeps DrainedAtEnd PoolInv
PROPERTIES ImplementsPool
CHECK_DEADLOCK FALSE
