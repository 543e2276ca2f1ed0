CONSTANTS
    Key = {1, 2, 3}
    Value = {"half", "whole"}
    ValLen <- MCValLen
    MAXSIZE = 2097152
    HeadBytes = 10272
    IndexBytes = 12
    MaxLevel = 14
    L0Limit = 0
    MergeWidth = 1
    Threshold <- OneTable
    MaxWrites = 8
    MaxRestarts = 0
    Ops = {"put"}
    CrashPoints = {}
SPECIFICATION Spec
INVARIANTS GetReturnsLatest
CHECK_DEADLOCK FALSE
