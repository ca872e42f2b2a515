SPECIFICATION Spec
CONSTANTS
    b1 = b1
    b2 = b2
    Bits <- MCBits
    NChannels = 2
    Passes <- MCPasses
    Tfs = {1}
    Messages = {m1}
    BranchNames = {br}
    TornWrites = TRUE
    AnyMerge = FALSE
    MaxCommits = 3
    MaxFaults = 2
CHECK_DEADLOCK FALSE
INVARIANT CommitHeals
PROPERTY GcPrunesOnlyUnreachable
