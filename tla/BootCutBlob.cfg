SPECIFICATION Spec
CONSTANTS
    Regs <- MCRegs
    Tzs <- MCTzs
    MaxCallDepth = 3
    OpId <- MCOpId
    Graphs <- MCGraphs
    Seeds = {}
    MaxSeeds = 0
    Unlimited = 99
    LogCap = 16
    Scripts <- MCScripts
    DefaultFile <- MCDefault
    FireArgs <- MCFires
    Cut <- MCCut
    MaxBoots = 3
    MaxMoves = 1
    MaxCrashes = 1
CHECK_DEADLOCK FALSE
INVARIANT PicksUpItsOwn
