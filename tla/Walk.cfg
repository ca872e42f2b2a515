SPECIFICATION Spec
CONSTANTS
    Tokens <- MCTokens
    Pad <- MCPad
    Pos <- MCPos
    Jobs <- MCJobs
    Budget = 14
CHECK_DEADLOCK FALSE
INVARIANTS
    OrderedAnswerFits
    FallbackOnlyWhenCut
    RestoresOriginal
    GridIsTensor
PROPERTIES
    Answered
