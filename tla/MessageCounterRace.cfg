\* Two exchanges of one secure session draw counters at the rollover warning.
CONSTANTS
    Callers = {e1, e2}
    MAX_COUNTER_VALUE = 31
    RolloverInfoDifference = 2
    Reserve = 3
    Starts <- MCStarts
    Configs <- MCSessionConfigs
    MaxCalls = 4
    MaxCrashes = 0
    MaxWriteFailures = 0
SPECIFICATION Spec
CHECK_DEADLOCK FALSE
INVARIANT DrawnOnce
