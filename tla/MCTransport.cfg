SPECIFICATION Spec
CONSTANTS
    a = a
    b = b
    c = c
    File = {a, b, c}
    NoFile = NoFile
    Volatile = {b}
    Batches <- TwoBatches
    Corrupt = {c}
    Startup <- OneAlbum
    GaplessModes = {FALSE}
    UserActions = {"select", "next", "remove", "move", "clear", "add", "open", "toggle", "stop"}
    MaxOps = 2
INVARIANTS TypeOK ViewSettles PlayingFlagExact PauseViewSound
CHECK_DEADLOCK FALSE
