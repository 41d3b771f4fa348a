SPECIFICATION Spec
CONSTANTS
    Handles = {h1, h2}
    NoHandle = NoHandle
    Threads = {t1, t2}
    Frontiers <- MCFrontiers
    Dead = "dead"
    Start = "q0"
    Complete <- MCComplete
    Tokens <- MCTokens
    UnknownTokens <- MCUnknown
    Placeholders <- MCPlaceholders
    EndTokens <- MCEnd
    EmptyTokens = {"nil"}
    Chunks <- MCChunks
    Step <- MCStep
    ByteLive <- MCByteLive
    SpecialLive <- MCSpecialLive
    Classes <- MCClasses
    ClassOf <- MCClassOf
    DwaDense <- MCDwaDense
    SameMask <- MCSameMask
    Backends = {"dynamic", "segmented"}
    HasControls = TRUE
    HasTemplate = TRUE
    DwaSpecialEdges = FALSE
    MaxGeneration = 4
SYMMETRY Symmetry
INVARIANTS MaskExact MaskPredictsCommit AcceptingIsComplete
PROPERTY SealedSession
