\* Deadlock is not checked: a closed session stops.
CONSTANTS
    Central = central
    Peripheral = peripheral
    SequenceSpace = 3
    WindowSize = 2
    NoAckThreshold = 1
    ImmediateThreshold = 0
    Lengths = {1, 3}
    MaxMessages <- MCMaxMessages
    MaxFailures = 1
SPECIFICATION FairSpec
CHECK_DEADLOCK FALSE
INVARIANTS
    TypeOK
    WindowsRespected
    NoProtocolError
    DeliveredInOrder
    NotBothBlocked
PROPERTY MessagesDelivered
