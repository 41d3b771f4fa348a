SPECIFICATION MarkedSpec
CONSTANTS
    Bytes <- MixedBytes
    Terminals <- MixedTerminals
    Ignored = {"WS"}
    LexStates <- MixedLexStates
    LexStart = "l0"
    Delta <- MixedDelta
    Matched <- MixedMatched
    Stacks <- MixedStacks
    StartStack = "s0"
    Advance <- MixedAdvance
    Finished <- MixedFinished
    Tokens <- MixedTokens
    TokenBytes <- MixedTokenBytes
    TokenSpecials <- MixedTokenSpecials
    MaxText = 8
    MarkerIds = {1, 2}
    Probe <- MixedProbe
    MaxOffset = 6
INVARIANTS TypeOK FrontierSound FrontierKeepsParses MergesAgree ExclusionsJustified CompletionIsReal BatchSound BatchComplete RejectedIsSilent
