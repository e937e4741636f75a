SPECIFICATION FairSpec
CONSTANTS
    a = a
    b = b
    c = c
    File = {a, b, c}
    NoFile = NoFile
    Volatile = {}
    Batches <- TwoBatches
    Corrupt = {c}
    Startup <- Pairs
    GaplessModes = {TRUE}
    UserActions = {"select", "toggle", "stop", "remove", "move"}
    MaxOps = 1
INVARIANTS NoStuckLoad
PROPERTIES LoadAnswered ComesToRest
CHECK_DEADLOCK FALSE
