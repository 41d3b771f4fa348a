SPECIFICATION Spec
CONSTANTS
    Handles = {h1}
    NoHandle = NoHandle
    Threads = {t1}
    Frontiers <- MCFrontiers
    Dead = "dead"
    Start = "q0"
    Complete <- MCComplete
    Tokens <- MCTokens
    UnknownTokens <- MCUnknown
    Placeholders <- MCPlaceholders
    EndTokens = {}
    EmptyTokens = {"nil"}
    Chunks <- MCChunks
    Step <- MCStep
    ByteLive <- MCByteLive
    SpecialLive <- MCSpecialLive
    Classes <- MCClasses
    ClassOf <- MCClassOf
    DwaDense <- MCDwaDense
    SameMask <- MCSameMask
    Backends = {"static"}
    HasControls = FALSE
    HasTemplate = TRUE
    DwaSpecialEdges = FALSE
    MaxGeneration = 4
SYMMETRY Symmetry
INVARIANTS MaskExact
