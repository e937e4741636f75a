SPECIFICATION FairSpec
CONSTANTS
    a = a
    b = b
    c = c
    File = {a, b, c}
    NoFile = NoFile
    Volatile = {}
    Batches <- TwoBatches
    Corrupt = {}
    Startup <- Albums
    GaplessModes = {TRUE, FALSE}
    UserActions = {}
    MaxOps = 0
PROPERTIES AlbumStops AlbumRepeats
CHECK_DEADLOCK FALSE
