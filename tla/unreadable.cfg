CONSTANTS
    a = a
    b = b
    c = c
    w1 = w1
    w2 = w2
    None = None
    Entry = {a, b}
    Kinds <- FirstUnreadable
    TokenCount <- MixedTokens
    Worker = {w1}
    TargetTokens = 2
    MaxItems = 2
    MaxWait = 2
    Pause = 1
    Timeout = 3
    Delay = 0
    Skew = 0
    Lead <- NoneAhead
    LastArrival = 1
    Horizon = 6
    Prompt = {}
SPECIFICATION FairSpec
PROPERTIES
    MalformedLeaves
CHECK_DEADLOCK FALSE
