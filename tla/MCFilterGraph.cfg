SPECIFICATION FairSpec
CONSTANTS
    Formats <- SomeFormats
    Gains = {"flat", "loud"}
    Flat = "flat"
    Asked <- SomeAsked
    MaxOps = 2
    MaxFiles = 2
INVARIANTS TypeOK FilterSettles
PROPERTIES SourceServed SpeakersSurvive
CHECK_DEADLOCK FALSE
