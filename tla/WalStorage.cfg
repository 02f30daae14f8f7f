CONSTANTS
    Undefined = Undefined
    r1 = r1
    r2 = r2
    Keys = {k1, k2}
    Readers <- MCReaders
    Setups <- SoundSetups
    MaxLines = 2
    MaxCommits = 5
    MaxSessions = 3
SPECIFICATION Spec
CHECK_DEADLOCK FALSE
INVARIANTS
    TypeOK
    Durable
    CacheIsCurrent
    HeadCompletesLog
PROPERTY SnapshotAdvances
