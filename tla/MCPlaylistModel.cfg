SPECIFICATION Spec
CONSTANTS
    a = a
    b = b
    c = c
    d = d
    File = {a, b, c, d}
    NoFile = NoFile
    Volatile = {d}
    Batches <- MCBatches
INVARIANTS IndexValid UniqueTracks
PROPERTIES ResyncSignalled SelectionAnnounced ImplementsPlayQueue
