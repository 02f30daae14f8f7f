\* Deadlock is not checked: a closed session stops.
CONSTANTS
    Central = central
    Peripheral = peripheral
    SequenceSpace = 5
    WindowSize = 4
    NoAckThreshold = 1
    ImmediateThreshold = 2
    Lengths = {1, 3}
    MaxMessages <- MCMaxMessages
    MaxFailures = 0
SPECIFICATION Spec
CHECK_DEADLOCK FALSE
INVARIANT AcknowledgedInTime
