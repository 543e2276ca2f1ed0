CONSTANTS
    Key = {1, 2, 3}
    INF = 9
    Value <- MCValue
    None <- MCNone
    MAX_LEVEL = 3
    MaxCalls = 3
    Hash <- MCHash
    MaxRewrites = 2
SPECIFICATION TableSpec
INVARIANTS SkipInv LookupFindsFlushed HeadDescribesFile
PROPERTIES ImplementsMap CallsReturn
CHECK_DEADLOCK FALSE
