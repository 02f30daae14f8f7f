CONSTANTS
    Undefined = Undefined
    r1 = r1
    r2 = r2
    Keys = {k1, k2}
    Readers <- MCReaders
    Setups <- SnapshotFirstOnly
    MaxLines = 2
    MaxCommits = 3
    MaxSessions = 2
SPECIFICATION Spec
CHECK_DEADLOCK FALSE
INVARIANT Durable
