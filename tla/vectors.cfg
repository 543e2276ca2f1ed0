CONSTANTS
    Key = {1, 2}
    Value = {a, b}
    None = None
    MaxVec = MaxVec
    LoadsOverNewer = FALSE
    KillsInReset = FALSE
    MaxWrites = 5
    MaxRestarts = 2
    MaxKills = 1
SPECIFICATION Spec
INVARIANTS TypeOK IndexIsStore EmbeddingIsCurrent DurableHasVector
CHECK_DEADLOCK FALSE
