CONSTANTS
    Key = {1, 2, 3}
    Value = {"whole"}
    ValLen <- MCValLen
    MAXSIZE = 2097152
    HeadBytes = 10272
    IndexBytes = 12
    MaxLevel = 14
    L0Limit = 1
    MergeWidth = 4
    Threshold <- CodeThreshold
    MaxWrites = 6
    MaxRestarts = 2
    Ops = {"put", "del"}
    CrashPoints = {"delete", "idle"}
SPECIFICATION Spec
INVARIANTS GetReturnsLatest
CHECK_DEADLOCK FALSE
