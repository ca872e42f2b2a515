SPECIFICATION Spec
CONSTANTS
    w1 = w1
    w2 = w2
    Workers = {w1, w2}
    Tokens <- MCTokens
    Seeds <- MCSeeds
    Pos <- MCPos
    MaxTokens = 1
    MaxCalls = 4
    MaxCrashes = 1
CHECK_DEADLOCK FALSE
INVARIANTS
    RestoresMerged
    SealedUntilGrown
    SnapshotIsSealed
