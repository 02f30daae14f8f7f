SPECIFICATION FairSpec
CONSTANTS
    Subs = {s1}
    Attrs = {a}
    MaxErrors = 1
    MaxChanges = 1
    Callers = {c}
    Requests = {q1}
    Triggers = {"rollover"}
    Commands = {}
PROPERTIES
    ClosingEnds
CHECK_DEADLOCK FALSE
