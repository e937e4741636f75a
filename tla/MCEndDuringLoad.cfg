SPECIFICATION Spec
CONSTANTS
    a = a
    b = b
    c = c
    File = {a, b, c}
    NoFile = NoFile
    Volatile = {}
    Batches <- TwoBatches
    Corrupt = {}
    Startup <- OneAlbum
    GaplessModes = {TRUE}
    UserActions = {"select"}
    MaxOps = 1
PROPERTIES PendingPlayKept
CHECK_DEADLOCK FALSE
