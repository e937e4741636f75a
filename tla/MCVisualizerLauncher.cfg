SPECIFICATION FairSpec
CONSTANTS
    Durations = {0, 16, 600}
    Transitions = {0, 70}
    HardCuts = {0, 600}
    Looks = {"plain", "wild"}
    Disks <- SomeDisks
    MaxOps = 4
INVARIANTS TypeOK KillTimerScoped StatusTruthful
PROPERTIES SettingsSurvive ChangesApplied StopEnds
CHECK_DEADLOCK FALSE
