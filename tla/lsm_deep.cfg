CONSTANTS
    Key = {1, 2, 3}
    Value = {"whole"}
    ValLen <- MCValLen
    MAXSIZE = 2097152
    HeadBytes = 10272
    IndexBytes = 12
    MaxLevel = 14
    L0Limit = 1
    MergeWidth = 1
    Threshold <- OneTable
    MaxWrites = 7
    MaxRestarts = 0
    Ops = {"put", "del", "reset"}
    CrashPoints = {}
SPECIFICATION FairSpec
INVARIANTS LevelsDisjoint ShallowerIsNewer DeepestHasNoMarkers
PROPERTIES FilesAreImmutable CallsReturn
CHECK_DEADLOCK FALSE
