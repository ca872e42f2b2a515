SPECIFICATION Spec
CONSTANTS
    Tokens <- MCTokens
    Pad <- MCPad
    Pos <- MCPos
    Jobs <- OneToken
    Budget = 14
CHECK_DEADLOCK FALSE
INVARIANTS
    BeamNeverPanics
