SPECIFICATION Spec
CONSTANTS
    Bytes = {"a", "b", "c"}
    Terminals = {"T"}
    Ignored = {}
    LexStates <- ReentrantLexStates
    LexStart = "l0"
    Delta <- ReentrantDelta
    Matched <- ReentrantMatched
    Stacks = {"s0", "sT"}
    StartStack = "s0"
    Advance <- ReentrantAdvance
    Finished = {"s0", "sT"}
    Tokens <- ByteTokens
    TokenBytes <- ByteTokenBytes
    TokenSpecials <- NoSpecials
    MaxText = 4
INVARIANT CompletionIsReal
