SPECIFICATION Spec
CONSTANTS
    Bytes <- MergeBytes
    Terminals <- MergeTerminals
    Ignored = {}
    LexStates <- MergeLexStates
    LexStart = "l0"
    Delta <- MergeDelta
    Matched <- MergeMatched
    Stacks <- MergeStacks
    StartStack = "s0"
    Advance <- MergeAdvance
    Finished = {"sEXY"}
    Tokens <- ByteTokens
    TokenBytes <- ByteTokenBytes
    TokenSpecials <- NoSpecials
    MaxText = 4
INVARIANT CompleteTextIsRecognised
