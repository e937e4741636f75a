SPECIFICATION Spec
CONSTANTS
    a = a
    b = b
    c = c
    File = {a, b, c}
    NoFile = NoFile
    Volatile = {}
    Batches <- TwoBatches
    Corrupt = {}
    Startup <- OneAlbum
    GaplessModes = {TRUE, FALSE}
    UserActions = {"add", "move", "gapless"}
    MaxOps = 2
INVARIANTS QueueMirrorsPlaylist
PROPERTIES NeverInterrupted
CHECK_DEADLOCK FALSE
