SPECIFICATION Spec
CONSTANTS
    Turns <- MCTurns
    Bits <- MCBits
    Channels <- MCChannels
    Sketch <- MCSketch
    Capacity = 2
    SharedLut = TRUE
    MaxCalls = 3
CHECK_DEADLOCK FALSE
INVARIANTS
    RestoreFaithful
    BirthsLinked
    HistoryMonotone
    LutCoversHistory
PROPERTIES
    HistoryGrows
    ImplementsMemory
