CONSTANTS
    a = a
    b = b
    c = c
    w1 = w1
    w2 = w2
    None = None
    Entry = {a, b, c}
    Kinds <- OneOfAnyKind
    TokenCount <- MixedTokens
    Worker = {w1, w2}
    TargetTokens = 2
    MaxItems = 2
    MaxWait = 2
    Pause = 1
    Timeout = 3
    Delay = 1
    Skew = 1
    Lead <- OneAhead
    LastArrival = 1
    Horizon = 6
    Prompt = {w1}
SPECIFICATION Spec
INVARIANTS
    TypeOK
    NoIdleWaiting
    BatchOutlivedWindow
    DropsOnlyDead
    LossIsBounded
CHECK_DEADLOCK FALSE
