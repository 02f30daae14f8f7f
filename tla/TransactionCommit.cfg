CONSTANTS
    Participants = {p1, p2}
    MAX_PRECOMMIT_CYCLES = 2
    MAX_CHAINED_COMMITS = 2
SPECIFICATION FairSpec
INVARIANTS
    TypeOK
    TruthfulOutcome
    PhasesInOrder
    EveryoneIsTold
PROPERTY CommitEnds
