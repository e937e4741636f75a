SPECIFICATION FairSpec
CONSTANTS
    Processes = {p1, p2, p3}
    NoProcess = NoProcess
    MaxAttempts = 2
INVARIANTS TypeOK PlayerReachable
PROPERTIES ImplementsFileOpening ClientsEnd RequestsServed
CHECK_DEADLOCK FALSE
