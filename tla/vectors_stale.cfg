CONSTANTS
    Key = {1, 2}
    Value = {a, b}
    None = None
    MaxVec = MaxVec
    LoadsOverNewer = TRUE
    KillsInReset = FALSE
    MaxWrites = 5
    MaxRestarts = 2
    MaxKills = 1
SPECIFICATION Spec
INVARIANT EmbeddingIsCurrent
CHECK_DEADLOCK FALSE
