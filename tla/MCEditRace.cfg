SPECIFICATION Spec
CONSTANTS
    a = a
    b = b
    c = c
    File = {a, b, c}
    NoFile = NoFile
    Volatile = {}
    Batches <- TwoBatches
    Corrupt = {}
    Startup <- OneAlbum
    GaplessModes = {TRUE}
    UserActions = {"add"}
    MaxOps = 1
PROPERTIES EditsPlayingEntry
CHECK_DEADLOCK FALSE
