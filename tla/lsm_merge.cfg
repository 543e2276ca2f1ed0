CONSTANTS
    Key = {1, 2, 3}
    Value = {"half", "whole"}
    ValLen <- MCValLen
    MAXSIZE = 2097152
    HeadBytes = 10272
    IndexBytes = 12
    MaxLevel = 14
    L0Limit = 2
    MergeWidth = 4
    Threshold <- CodeThreshold
    MaxWrites = 7
    MaxRestarts = 0
    Ops = {"put", "del", "reset"}
    CrashPoints = {}
SPECIFICATION Spec
INVARIANTS TypeOK GetReturnsLatest ScanFindsLatest TablesFit
CHECK_DEADLOCK FALSE
