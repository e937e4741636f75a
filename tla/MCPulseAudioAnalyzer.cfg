SPECIFICATION FairSpec
CONSTANTS
    MaxBlocks = 3
INVARIANTS TypeOK SnapshotWhole AvailableTruthful
PROPERTIES DestructionEnds
CHECK_DEADLOCK FALSE
