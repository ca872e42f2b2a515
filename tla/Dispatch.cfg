SPECIFICATION Spec
CONSTANTS
    Regs <- MCRegs
    Tzs <- MCTzs
    MaxCallDepth = 2
    Graphs <- MCGraphs
    Seeds <- MCSeeds
    MaxSeeds = 3
    Unlimited = 99
    LogCap = 16
CHECK_DEADLOCK FALSE
INVARIANTS
    FireIffReady
    Determinate
PROPERTIES
    ImplementsDataflow
    Stops
