CONSTANTS
    Key = {1, 2, 3}
    Value = {"half", "whole"}
    ValLen <- MCValLen
    MAXSIZE = 2097152
    HeadBytes = 10272
    IndexBytes = 12
    MaxLevel = 14
    L0Limit = 1
    MergeWidth = 4
    Threshold <- CodeThreshold
    MaxWrites = 5
    MaxRestarts = 1
    Ops = {"put", "del"}
    CrashPoints = {"idle", "compact", "write", "delete", "finish"}
SPECIFICATION Spec
INVARIANTS FlushedIsOnDisk TimeIsAge CacheMatchesDisk EveryFileInReach InductiveInv
CHECK_DEADLOCK FALSE
