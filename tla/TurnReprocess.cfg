SPECIFICATION Spec
CONSTANTS
    Turns <- MCTurns
    Bits <- MCBits
    Channels <- MCChannels
    Sketch <- MCSketch
    Capacity = 2
    SharedLut = FALSE
    MaxCalls = 3
CHECK_DEADLOCK FALSE
INVARIANT AckedDurable
