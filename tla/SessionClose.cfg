SPECIFICATION FairSpec
CONSTANTS
    Subs = {s1}
    Attrs = {a}
    MaxErrors = 1
    MaxChanges = 2
    Callers = {c}
    Requests = {q1}
    Triggers = {"flush", "force"}
    Commands = {"force", "leave", "cancel"}
INVARIANTS
    TypeOK
    NoOrphans
    NothingForgotten
CHECK_DEADLOCK FALSE
PROPERTIES
    ClosingEnds
    ChangeReported
