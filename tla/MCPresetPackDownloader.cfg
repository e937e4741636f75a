SPECIFICATION FairSpec
CONSTANTS
    Size = 3
    Full = 3
    Many = 1
    Locals <- SomeLocals
    MaxOps = 4
INVARIANTS TypeOK InstalledIsThere
PROPERTIES HandsOverAll InstalledComplete DownloadEnds
CHECK_DEADLOCK FALSE
