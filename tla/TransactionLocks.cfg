\* Deadlock is not checked: the system may stop once every transaction is destroyed.
CONSTANTS
    t1 = t1
    t2 = t2
    t3 = t3
    r1 = r1
    r2 = r2
    r3 = r3
    Txs = {t1, t2, t3}
    Resources = {r1, r2, r3}
    Requested <- MCRequested
    NoTx = NoTx
    MaxCycles = 1
SPECIFICATION FairSpec
CHECK_DEADLOCK FALSE
INVARIANTS
    TypeOK
    ExclusiveHoldsAll
    NoLeakedLock
    NoLostWakeup
    NoDeadlock
PROPERTY WaitersProceed
