CONSTANTS
    Initiator = i
    Responders = {r1}
    MaxTransmissions = 2
    Bdx = TRUE
    MaxMessages <- MCMaxMessages
    MaxRefusals = 1
    MaxFaults = 1
SPECIFICATION Spec
CHECK_DEADLOCK FALSE
INVARIANTS TypeOK TransmissionBudget NothingStalls
PROPERTIES ReliablyDelivered SettledIsFinal
