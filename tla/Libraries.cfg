SPECIFICATION Spec
CONSTANTS
    Bits <- MCBits
    MaxLen = 2
    Originals <- MCOriginals
    Probes <- MCProbes
    MaxPushes = 4
    Tokens <- MCTokens
    Pad <- MCPad
    Pos <- MCPos
    SceneFrames <- MCSceneFrames
    Freezes <- MCFreezes
    MaxFrames = 4
    Keys = {k1, k2, k3}
    MaxEntries = 2
    Ttl = 2
    Hs = {1, 2, 3}
    Views <- MCViews
    P = 1
    BitsPerReg = 3
    HashBits = 6
    ByteTokens <- MCByteTokens
    Murmur <- MCMurmur
    MaxFed = 3
    MaxTf = 2
CHECK_DEADLOCK FALSE
INVARIANTS
    SpanExact
    FlagExact
    CoverWithinBound
    TravelExact
    TransitionsAgree
    CacheFaithful
    TreeIdentity
    SketchFaithful
PROPERTY
    BasisChange
