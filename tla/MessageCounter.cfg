\* Scaled: 2^32 - 1 -> 31, reserve -> 3.  Deadlock is not checked: the calls are bounded.
CONSTANTS
    Callers = {e1, e2}
    MAX_COUNTER_VALUE = 31
    RolloverInfoDifference = 2
    Reserve = 3
    Starts <- MCStarts
    Configs <- MCConfigs
    MaxCalls = 5
    MaxCrashes = 2
    MaxWriteFailures = 1
SPECIFICATION Spec
CHECK_DEADLOCK FALSE
INVARIANTS
    TypeOK
    RepeatedOnlyByRace
PROPERTIES
    CoveredBeforeUse
    WarnedBeforeRollover
