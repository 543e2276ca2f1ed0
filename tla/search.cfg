CONSTANTS
    Worker = {w1, w2, w3}
    Owner = Owner
    MaxTasks = 6
    MaxSpurious = 1
    Graphs <- MCGraphs
    SerialUpTo = 2
    efConstruction = 4
    K = 2
SPECIFICATION SearchSpec
INVARIANTS SearchTypeOK NothingDangles EachScoredOnce DescentEndsAtPeak ResultIsBest
PROPERTIES SearchReturns
CHECK_DEADLOCK FALSE
