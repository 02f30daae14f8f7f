--------------------------- MODULE TransactionLocks ---------------------------
(***************************************************************************)
(* Resource locking of transactions: packages/general/src/transaction/     *)
(* ResourceSet.ts and the parts of Tx.ts that acquire and release locks.   *)
(*                                                                         *)
(* An action is what runs between two awaits.  An asynchronous operation   *)
(* that has not finished is the transaction's request: suspended in        *)
(* waitFor ("waiting"), its promise resolved but its continuation not yet  *)
(* run ("woken"), or its locks taken but acquireLocks() not yet returned   *)
(* to its caller ("acquired").  The user of a transaction awaits one       *)
(* operation before it starts the next.  Stand-in resources are identified *)
(* with the resources they refer to.                                       *)
(***************************************************************************)
EXTENDS Naturals, FiniteSets

CONSTANTS Txs, Resources,
          Requested,       \* the sets of resources that a transaction asks for
          NoTx,            \* lockedBy is undefined
          MaxCycles        \* bound: how often one transaction becomes exclusive

ASSUME NoTxAssumption == NoTx \notin Txs
ASSUME RequestedAssumption == Requested \in [Txs -> SUBSET SUBSET Resources]
ASSUME CyclesAssumption == MaxCycles \in Nat

VARIABLES lockedBy,        \* per resource
          status,          \* per transaction, as #status
          resources,       \* #resources
          waitingOn,       \* #waitingOn; {} when undefined
          request,         \* the asynchronous operation under way
          cycles           \* how often the transaction has become exclusive

vars == <<lockedBy, status, resources, waitingOn, request, cycles>>

\* The finalizing statuses (committing, rolling back) hold locks alike.
Statuses == {"Shared", "Waiting", "Exclusive", "Finalizing", "Destroyed"}

NoRequest == [op |-> "none", at |-> "done", set |-> {}]
Requests ==
    [op : {"none", "begin", "add"}, at : {"done", "waiting", "woken", "acquired"},
     set : SUBSET Resources]

Idle(t) == request[t] = NoRequest

-----------------------------------------------------------------------------
(* ResourceSet *)

BlockedBy(t, set) == {lockedBy[r] : r \in set} \ {NoTx, t}

LockableSync(t, set) == BlockedBy(t, set) = {}

\* Slip: the lock names the ResourceSet instead of its transaction.
AcquireForResourceSet(t, set) ==
    [r \in Resources |-> IF r \in set THEN set ELSE lockedBy[r]]

AcquireLocksSync(t, set) == [r \in Resources |-> IF r \in set THEN t ELSE lockedBy[r]]

\* Slip: locks that other transactions hold are dropped as well.
ReleaseAllLocks(t) ==
    [r \in Resources |-> IF r \in resources[t] THEN NoTx ELSE lockedBy[r]]

\* Slip: a transaction's locks survive it.
ReleaseNoLocks(t) == lockedBy

ReleaseLocks(t) ==
    [r \in Resources |->
        IF r \in resources[t] /\ lockedBy[r] = t THEN NoTx ELSE lockedBy[r]]

\* A set of transactions that contains whoever its members wait on.
Closed(set) == \A u \in set : waitingOn[u] \subseteq set

\* Slip: only the transactions that block directly are examined.
DetectDirectDeadlock(t, blockedBy) == \E u \in blockedBy : t \in waitingOn[u]

\* #detectDeadlock examines the blockers, those they wait on, and so on, and
\* fails when it meets the transaction itself.
DetectDeadlock(t, blockedBy) ==
    \A set \in SUBSET Txs : blockedBy \subseteq set /\ Closed(set) => t \in set

\* One round of the loop in acquireLocks on behalf of operation op.
AcquireLocks(t, op, set) ==
    LET blockedBy == BlockedBy(t, set) IN
    \/ /\ blockedBy = {}
       /\ lockedBy' = AcquireLocksSync(t, set)
       /\ request' = [request EXCEPT ![t] = [op |-> op, at |-> "acquired", set |-> set]]
       /\ status' = [status EXCEPT ![t] = IF op = "begin" THEN "Waiting" ELSE @]
       /\ UNCHANGED waitingOn
    \/ /\ blockedBy # {}
       /\ ~DetectDeadlock(t, blockedBy)
       /\ waitingOn' = [waitingOn EXCEPT ![t] = blockedBy]
       /\ request' = [request EXCEPT ![t] = [op |-> op, at |-> "waiting", set |-> set]]
       /\ status' = [status EXCEPT ![t] = IF op = "begin" THEN "Waiting" ELSE @]
       /\ UNCHANGED lockedBy
    \/ /\ blockedBy # {}                    \* throws TransactionDeadlockError
       /\ DetectDeadlock(t, blockedBy)
       /\ request' = [request EXCEPT ![t] = NoRequest]
       /\ status' = [status EXCEPT ![t] = IF op = "begin" THEN "Shared" ELSE @]
       /\ UNCHANGED <<lockedBy, waitingOn>>

-----------------------------------------------------------------------------
(* Tx *)

\* A call that cannot lock throws SynchronousTransactionConflictError and
\* changes nothing; it is left out here and in BeginSync.
AddResourcesSync(t, set) ==
    /\ Idle(t)
    /\ \/ status[t] = "Shared" /\ UNCHANGED lockedBy
       \/ /\ status[t] = "Exclusive"
          /\ LockableSync(t, set)
          /\ lockedBy' = AcquireLocksSync(t, set)
    /\ resources' = [resources EXCEPT ![t] = @ \cup set]
    /\ UNCHANGED <<status, waitingOn, request, cycles>>

\* addResources of an exclusive transaction; of a shared one it is AddResourcesSync.
AddResources(t, set) ==
    /\ Idle(t)
    /\ status[t] = "Exclusive"
    /\ AcquireLocks(t, "add", set)
    /\ UNCHANGED <<resources, cycles>>

Begin(t) ==
    /\ Idle(t)
    /\ status[t] = "Shared"
    /\ cycles[t] < MaxCycles
    /\ cycles' = [cycles EXCEPT ![t] = @ + 1]
    /\ AcquireLocks(t, "begin", resources[t])
    /\ UNCHANGED resources

\* beginSync, and the synchronous path of lock(...set).
BeginSync(t, set) ==
    /\ Idle(t)
    /\ status[t] = "Shared"
    /\ cycles[t] < MaxCycles
    /\ cycles' = [cycles EXCEPT ![t] = @ + 1]
    /\ LockableSync(t, resources[t] \cup set)
    /\ lockedBy' = AcquireLocksSync(t, resources[t] \cup set)
    /\ resources' = [resources EXCEPT ![t] = @ \cup set]
    /\ status' = [status EXCEPT ![t] = "Exclusive"]
    /\ UNCHANGED <<waitingOn, request>>

\* The await of waitFor continues: the loop looks at the locks again.
Continue(t) ==
    /\ request[t].at = "woken"
    /\ AcquireLocks(t, request[t].op, request[t].set)
    /\ UNCHANGED <<resources, cycles>>

\* acquireLocks() returns to begin or to addResources.
Acquired(t) ==
    /\ request[t].at = "acquired"
    /\ \/ /\ request[t].op = "begin"
          /\ status' = [status EXCEPT ![t] = "Exclusive"]
          /\ UNCHANGED resources
       \/ /\ request[t].op = "add"
          /\ resources' = [resources EXCEPT ![t] = @ \cup request[t].set]
          /\ UNCHANGED status
    /\ request' = [request EXCEPT ![t] = NoRequest]
    /\ UNCHANGED <<lockedBy, waitingOn, cycles>>

\* Slip: the listeners of onShared are not notified.
WakeNobody(t) == UNCHANGED <<waitingOn, request>>

\* #shared.emit(): t leaves the wait set of every waiter, and a waiter whose set
\* becomes empty has its promise resolved.
EmitShared(t) ==
    /\ waitingOn' = [u \in Txs |-> waitingOn[u] \ {t}]
    /\ request' = [u \in Txs |->
          IF request[u].at = "waiting" /\ waitingOn[u] \subseteq {t}
            THEN [request[u] EXCEPT !.at = "woken"] ELSE request[u]]

Reset(t, final) ==
    /\ lockedBy' = ReleaseLocks(t)
    /\ resources' = [resources EXCEPT ![t] = {}]
    /\ status' = [status EXCEPT ![t] = final]
    /\ EmitShared(t)
    /\ UNCHANGED cycles

\* commit() or rollback() enters #finalize ...
StartFinalize(t) ==
    /\ Idle(t)
    /\ status[t] \in {"Shared", "Exclusive"}
    /\ status' = [status EXCEPT ![t] = "Finalizing"]
    /\ UNCHANGED <<lockedBy, resources, waitingOn, request, cycles>>

\* ... whose finally clause resets the transaction, whatever the participants did.
FinishFinalize(t) ==
    /\ status[t] = "Finalizing"
    /\ Reset(t, "Shared")

\* [Symbol.dispose], also of a transaction abandoned while exclusive.
Dispose(t) ==
    /\ Idle(t)
    /\ status[t] \in {"Shared", "Exclusive"}
    /\ Reset(t, "Destroyed")

Init ==
    /\ lockedBy = [r \in Resources |-> NoTx]
    /\ status = [t \in Txs |-> "Shared"]
    /\ resources = [t \in Txs |-> {}]
    /\ waitingOn = [t \in Txs |-> {}]
    /\ request = [t \in Txs |-> NoRequest]
    /\ cycles = [t \in Txs |-> 0]

Next ==
    \E t \in Txs :
        \/ \E set \in Requested[t] : AddResourcesSync(t, set) \/ AddResources(t, set)
        \/ \E set \in Requested[t] \cup {{}} : BeginSync(t, set)
        \/ Begin(t) \/ Continue(t) \/ Acquired(t)
        \/ StartFinalize(t) \/ FinishFinalize(t) \/ Dispose(t)

\* Promise continuations run, commits end, and the actor of a transaction, which
\* may have become exclusive, eventually returns.
Fairness ==
    \A t \in Txs : /\ WF_vars(Continue(t) \/ Acquired(t))
                   /\ WF_vars(FinishFinalize(t))
                   /\ SF_vars(status[t] = "Exclusive" /\ (StartFinalize(t) \/ Dispose(t)))

Spec == Init /\ [][Next]_vars
FairSpec == Spec /\ Fairness

-----------------------------------------------------------------------------
\* Types of the variables: a lock names a transaction, as Resource.lockedBy does.
TypeOK ==
    /\ lockedBy \in [Resources -> Txs \cup {NoTx}]
    /\ status \in [Txs -> Statuses]
    /\ resources \in [Txs -> SUBSET Resources]
    /\ waitingOn \in [Txs -> SUBSET Txs]
    /\ request \in [Txs -> Requests]
    /\ cycles \in [Txs -> 0 .. MaxCycles]

\* A transaction that is exclusive holds the lock of every resource it has
\* joined, however its locks were acquired: no two exclusive transactions share a
\* resource (what assertResourcesAreLocked would check).
ExclusiveHoldsAll ==
    \A t \in Txs : status[t] = "Exclusive" =>
        \A r \in resources[t] : lockedBy[r] = t

\* Every lock is held by a transaction that will release it: the holder is
\* exclusive, ending, or about to become exclusive, and its reset covers the
\* resource.
NoLeakedLock ==
    \A r \in Resources : lockedBy[r] # NoTx =>
        LET t == lockedBy[r] IN
        /\ status[t] \in {"Waiting", "Exclusive", "Finalizing"}
        /\ r \in resources[t] \/ (request[t].at = "acquired" /\ r \in request[t].set)

\* No wakeup is lost: a suspended transaction waits for somebody, and whoever it
\* waits on holds a lock and will therefore still notify it.
NoLostWakeup ==
    \A t \in Txs :
        /\ request[t].at = "waiting" => waitingOn[t] # {}
        /\ \A u \in waitingOn[t] : \E r \in Resources : lockedBy[r] = u

\* No set of transactions is deadlocked, each waiting on another of them.
NoDeadlock ==
    \A set \in SUBSET Txs :
        set # {} => \E t \in set : waitingOn[t] \cap set = {}

\* A transaction that waits for locks gets them, or a deadlock error.
WaitersProceed ==
    \A t \in Txs : request[t].at = "waiting" ~> Idle(t)

=============================================================================
