------------------------ MODULE TransactionLocksProofs ------------------------
(***************************************************************************)
(* The locking protocol is correct for any number of transactions and      *)
(* resources: exclusive transactions hold what they joined, no lock leaks, *)
(* no wakeup is lost and no set of transactions deadlocks.                 *)
(***************************************************************************)
EXTENDS TransactionLocks, TLAPS

\* What a pending operation says about its transaction.
RequestOK ==
    \A t \in Txs :
        /\ request[t].op = "none" => request[t] = NoRequest
        /\ request[t].at = "done" => request[t] = NoRequest
        /\ request[t].op = "begin" <=> status[t] = "Waiting"
        /\ request[t].op = "begin" => request[t].set = resources[t]
        /\ request[t].op = "add" => status[t] = "Exclusive"
        /\ request[t].at = "waiting" <=> waitingOn[t] # {}
        /\ request[t].at = "acquired" => \A r \in request[t].set : lockedBy[r] = t

\* A transaction that becomes exclusive has no lock before it has all of them.
WaitsWithoutLocks ==
    \A t \in Txs : status[t] = "Waiting" /\ request[t].at # "acquired" =>
        \A r \in Resources : lockedBy[r] # t

\* The inductive invariant.
IInv ==
    /\ TypeOK
    /\ RequestOK
    /\ WaitsWithoutLocks
    /\ ExclusiveHoldsAll
    /\ NoLeakedLock
    /\ NoLostWakeup
    /\ NoDeadlock

\* Removing waiters deadlocks nobody.
LEMMA ShrinkingWaits ==
    ASSUME NoDeadlock, \A u \in Txs : waitingOn'[u] \subseteq waitingOn[u]
    PROVE  NoDeadlock'
<1> SUFFICES ASSUME NEW set \in SUBSET Txs, set # {}
             PROVE  \E t \in set : waitingOn'[t] \cap set = {}
  BY DEF NoDeadlock
<1>1. PICK t \in set : waitingOn[t] \cap set = {}
  BY DEF NoDeadlock
<1> QED BY <1>1

\* #detectDeadlock finds every deadlock that the new wait would create: if it
\* finds none, some closed set contains the blockers and not the transaction, and
\* a deadlocked set would have had its part in there before.
LEMMA DetectionIsComplete ==
    ASSUME TypeOK, NoDeadlock, NEW t \in Txs, NEW blockedBy \in SUBSET Txs,
           ~DetectDeadlock(t, blockedBy),
           waitingOn' = [waitingOn EXCEPT ![t] = blockedBy]
    PROVE  NoDeadlock'
<1> SUFFICES ASSUME NEW set \in SUBSET Txs, set # {},
                    \A u \in set : waitingOn'[u] \cap set # {}
             PROVE  FALSE
  BY DEF NoDeadlock
<1>1. PICK c \in SUBSET Txs : blockedBy \subseteq c /\ Closed(c) /\ t \notin c
  BY DEF DetectDeadlock
<1>2. waitingOn \in [Txs -> SUBSET Txs]
  BY DEF TypeOK
<1>3. waitingOn'[t] = blockedBy /\ \A u \in Txs \ {t} : waitingOn'[u] = waitingOn[u]
  BY <1>2
<1>4. CASE t \notin set
  <2>1. \A u \in set : waitingOn[u] \cap set # {}
    BY <1>3, <1>4
  <2> QED BY <2>1 DEF NoDeadlock
<1>5. CASE t \in set
  <2> DEFINE s == set \cap c
  <2>1. s # {}
    <3>1. PICK u \in set : u \in blockedBy
      BY <1>3, <1>5
    <3> QED BY <1>1, <3>1
  <2>2. ASSUME NEW u \in s PROVE waitingOn[u] \cap s # {}
    <3>1. u \in Txs \ {t}
      BY <1>1
    <3>2. waitingOn[u] \cap set # {}
      BY <1>3, <3>1
    <3>3. waitingOn[u] \subseteq c
      BY <1>1 DEF Closed
    <3> QED BY <3>2, <3>3
  <2>3. s \in SUBSET Txs
    OBVIOUS
  <2> QED BY <2>1, <2>2, <2>3 DEF NoDeadlock
<1> QED BY <1>4, <1>5

-----------------------------------------------------------------------------

LEMMA InitEstablishes == Init => IInv
<1> SUFFICES ASSUME Init PROVE IInv
  OBVIOUS
<1>1. /\ lockedBy = [r \in Resources |-> NoTx]
      /\ status = [t \in Txs |-> "Shared"]
      /\ resources = [t \in Txs |-> {}]
      /\ waitingOn = [t \in Txs |-> {}]
      /\ request = [t \in Txs |-> NoRequest]
      /\ cycles = [t \in Txs |-> 0]
  BY DEF Init
<1>2. NoRequest \in Requests /\ NoRequest.op = "none" /\ NoRequest.at = "done"
  BY DEF NoRequest, Requests
<1>3. TypeOK
  BY <1>1, <1>2, CyclesAssumption DEF TypeOK, Statuses
<1>4. RequestOK
  BY <1>1, <1>2 DEF RequestOK
<1>5. WaitsWithoutLocks /\ ExclusiveHoldsAll
  BY <1>1 DEF WaitsWithoutLocks, ExclusiveHoldsAll
<1>6. NoLeakedLock
  BY <1>1 DEF NoLeakedLock
<1>7. NoLostWakeup
  BY <1>1, <1>2 DEF NoLostWakeup
<1>8. NoDeadlock
  BY <1>1 DEF NoDeadlock
<1> QED BY <1>3, <1>4, <1>5, <1>6, <1>7, <1>8 DEF IInv

\* acquireLocksSync takes free locks only.
LEMMA LocksTaken ==
    ASSUME TypeOK, NEW t \in Txs, NEW set \in SUBSET Resources, LockableSync(t, set),
           lockedBy' = AcquireLocksSync(t, set)
    PROVE  /\ lockedBy' \in [Resources -> Txs \cup {NoTx}]
           /\ \A r \in set : lockedBy'[r] = t /\ lockedBy[r] \in {NoTx, t}
           /\ \A r \in Resources \ set : lockedBy'[r] = lockedBy[r]
           /\ \A u \in Txs, r \in Resources : lockedBy[r] = u => lockedBy'[r] = u
           /\ \A u \in Txs \ {t}, r \in Resources : lockedBy'[r] = u => lockedBy[r] = u
<1>1. \A r \in set : lockedBy[r] \in {NoTx, t}
  BY DEF LockableSync, BlockedBy
<1>2. lockedBy' = [r \in Resources |-> IF r \in set THEN t ELSE lockedBy[r]]
  BY DEF AcquireLocksSync
<1> QED BY <1>1, <1>2, NoTxAssumption DEF TypeOK

\* The request of one transaction changes.
LEMMA RequestChanged ==
    ASSUME TypeOK, NEW t \in Txs, NEW q \in Requests, request' = [request EXCEPT ![t] = q]
    PROVE  /\ request' \in [Txs -> Requests]
           /\ request'[t] = q
           /\ \A u \in Txs \ {t} : request'[u] = request[u]
BY DEF TypeOK

LEMMA StatusChanged ==
    ASSUME TypeOK, NEW t \in Txs, NEW x \in Statuses, status' = [status EXCEPT ![t] = x]
    PROVE  /\ status' \in [Txs -> Statuses]
           /\ status'[t] = x
           /\ \A u \in Txs \ {t} : status'[u] = status[u]
BY DEF TypeOK

\* One round of acquireLocks, for begin and for addResources.
LEMMA AcquirePreserves ==
    ASSUME IInv, NEW t \in Txs, NEW op \in {"begin", "add"}, NEW set \in SUBSET Resources,
           op = "begin" => set = resources[t] /\ status[t] \in {"Shared", "Waiting"},
           op = "add" => status[t] = "Exclusive",
           request[t].at \in {"done", "woken"},
           AcquireLocks(t, op, set),
           resources' = resources, cycles' \in [Txs -> 0 .. MaxCycles]
    PROVE  IInv'
<1> DEFINE b == BlockedBy(t, set)
<1>1. /\ TypeOK /\ RequestOK /\ WaitsWithoutLocks /\ ExclusiveHoldsAll
      /\ NoLeakedLock /\ NoLostWakeup /\ NoDeadlock
  BY DEF IInv
<1>2. /\ lockedBy \in [Resources -> Txs \cup {NoTx}] /\ status \in [Txs -> Statuses]
      /\ resources \in [Txs -> SUBSET Resources] /\ waitingOn \in [Txs -> SUBSET Txs]
      /\ request \in [Txs -> Requests]
  BY <1>1 DEF TypeOK
<1>3. waitingOn[t] = {}
  BY <1>1 DEF RequestOK
<1>4. status[t] # "Finalizing" /\ status[t] # "Destroyed"
  BY <1>2
<1>5. op = "begin" => \A r \in Resources : lockedBy[r] # t
  <2> SUFFICES ASSUME op = "begin", NEW r \in Resources, lockedBy[r] = t PROVE FALSE
    OBVIOUS
  <2>1. t # NoTx /\ status[t] \in {"Shared", "Waiting"}
    BY NoTxAssumption
  <2>2. status[t] \in {"Waiting", "Exclusive", "Finalizing"}
    BY <1>1, <2>1 DEF NoLeakedLock
  <2>3. status[t] = "Waiting" /\ request[t].at # "acquired"
    BY <2>1, <2>2
  <2> QED BY <1>1, <2>3 DEF WaitsWithoutLocks
<1> DEFINE acquired == [op |-> op, at |-> "acquired", set |-> set]
           waiting == [op |-> op, at |-> "waiting", set |-> set]
<1>6. /\ acquired \in Requests /\ waiting \in Requests /\ NoRequest \in Requests
      /\ acquired.op = op /\ acquired.at = "acquired" /\ acquired.set = set
      /\ waiting.op = op /\ waiting.at = "waiting" /\ waiting.set = set
      /\ NoRequest.op = "none" /\ NoRequest.at = "done"
  BY DEF Requests, NoRequest
<1> DEFINE begun == IF op = "begin" THEN "Waiting" ELSE status[t]
           failed == IF op = "begin" THEN "Shared" ELSE status[t]
<1>7. /\ begun \in Statuses /\ failed \in Statuses
      /\ op = "begin" => begun = "Waiting" /\ failed = "Shared"
      /\ op = "add" => begun = "Exclusive" /\ failed = "Exclusive"
  BY <1>2 DEF Statuses
<1>8. CASE /\ b = {}
           /\ lockedBy' = AcquireLocksSync(t, set)
           /\ request' = [request EXCEPT ![t] = acquired]
           /\ status' = [status EXCEPT ![t] = begun]
           /\ UNCHANGED waitingOn
  <2>1. /\ lockedBy' \in [Resources -> Txs \cup {NoTx}]
        /\ \A r \in set : lockedBy'[r] = t /\ lockedBy[r] \in {NoTx, t}
        /\ \A r \in Resources \ set : lockedBy'[r] = lockedBy[r]
        /\ \A u \in Txs, r \in Resources : lockedBy[r] = u => lockedBy'[r] = u
        /\ \A u \in Txs \ {t}, r \in Resources : lockedBy'[r] = u => lockedBy[r] = u
    BY <1>1, <1>8, LocksTaken DEF LockableSync
  <2>2. /\ request' \in [Txs -> Requests] /\ request'[t] = acquired
        /\ \A u \in Txs \ {t} : request'[u] = request[u]
    BY <1>1, <1>6, <1>8, RequestChanged
  <2>3. /\ status' \in [Txs -> Statuses] /\ status'[t] = begun
        /\ \A u \in Txs \ {t} : status'[u] = status[u]
    BY <1>1, <1>7, <1>8, StatusChanged
  <2> HIDE DEF acquired, begun
  <2>4. TypeOK'
    BY <1>2, <1>8, <2>1, <2>2, <2>3 DEF TypeOK
  <2>5. RequestOK'
    <3> SUFFICES ASSUME NEW u \in Txs PROVE
          /\ request'[u].op = "none" => request'[u] = NoRequest
          /\ request'[u].at = "done" => request'[u] = NoRequest
          /\ request'[u].op = "begin" <=> status'[u] = "Waiting"
          /\ request'[u].op = "begin" => request'[u].set = resources'[u]
          /\ request'[u].op = "add" => status'[u] = "Exclusive"
          /\ request'[u].at = "waiting" <=> waitingOn'[u] # {}
          /\ request'[u].at = "acquired" => \A r \in request'[u].set : lockedBy'[r] = u
      BY DEF RequestOK
    <3>1. CASE u = t
      BY <1>3, <1>6, <1>7, <1>8, <2>1, <2>2, <2>3, <3>1
    <3>2. CASE u # t
      <4>1. request[u].set \in SUBSET Resources
        BY <1>2 DEF Requests
      <4> QED BY <1>1, <1>8, <2>1, <2>2, <2>3, <3>2, <4>1 DEF RequestOK
    <3> QED BY <3>1, <3>2
  <2>6. WaitsWithoutLocks'
    BY <1>1, <1>6, <2>1, <2>2, <2>3 DEF WaitsWithoutLocks
  <2>7. ExclusiveHoldsAll'
    BY <1>1, <1>2, <1>7, <2>1, <2>3 DEF ExclusiveHoldsAll
  <2>8. NoLeakedLock'
    <3> SUFFICES ASSUME NEW r \in Resources, lockedBy'[r] # NoTx
                 PROVE  /\ status'[lockedBy'[r]] \in {"Waiting", "Exclusive", "Finalizing"}
                        /\ \/ r \in resources'[lockedBy'[r]]
                           \/ /\ request'[lockedBy'[r]].at = "acquired"
                              /\ r \in request'[lockedBy'[r]].set
      BY DEF NoLeakedLock
    <3>1. CASE lockedBy'[r] = t
      <4>1. CASE r \in set
        BY <1>6, <1>7, <2>2, <2>3, <3>1, <4>1
      <4>2. CASE r \notin set
        <5>1. lockedBy[r] = t /\ op = "add"
          BY <1>5, <2>1, <3>1, <4>2
        <5>2. r \in resources[t]
          BY <1>1, <5>1, NoTxAssumption DEF NoLeakedLock
        <5> QED BY <1>7, <2>3, <3>1, <5>1, <5>2
      <4> QED BY <4>1, <4>2
    <3>2. CASE lockedBy'[r] # t
      <4>1. lockedBy'[r] \in Txs \ {t} /\ lockedBy[r] = lockedBy'[r]
        BY <2>1, <3>2
      <4> QED BY <1>1, <2>2, <2>3, <4>1 DEF NoLeakedLock
    <3> QED BY <3>1, <3>2
  <2>9. NoLostWakeup'
    BY <1>1, <1>2, <1>3, <1>6, <1>8, <2>1, <2>2 DEF NoLostWakeup
  <2>10. NoDeadlock'
    BY <1>1, <1>8 DEF NoDeadlock
  <2> QED BY <2>4, <2>5, <2>6, <2>7, <2>8, <2>9, <2>10 DEF IInv
<1>9. CASE /\ b # {}
           /\ ~DetectDeadlock(t, b)
           /\ waitingOn' = [waitingOn EXCEPT ![t] = b]
           /\ request' = [request EXCEPT ![t] = waiting]
           /\ status' = [status EXCEPT ![t] = begun]
           /\ UNCHANGED lockedBy
  <2>1. b \in SUBSET Txs /\ \A u \in b : \E r \in Resources : lockedBy[r] = u
    BY <1>2 DEF BlockedBy
  <2>2. /\ request' \in [Txs -> Requests] /\ request'[t] = waiting
        /\ \A u \in Txs \ {t} : request'[u] = request[u]
    BY <1>1, <1>6, <1>9, RequestChanged
  <2>3. /\ status' \in [Txs -> Statuses] /\ status'[t] = begun
        /\ \A u \in Txs \ {t} : status'[u] = status[u]
    BY <1>1, <1>7, <1>9, StatusChanged
  <2>4. waitingOn'[t] = b /\ \A u \in Txs \ {t} : waitingOn'[u] = waitingOn[u]
    BY <1>2, <1>9
  <2>5. NoDeadlock'
    BY <1>1, <1>9, <2>1, DetectionIsComplete
  <2> HIDE DEF waiting, begun, b
  <2>6. TypeOK'
    BY <1>2, <1>9, <2>1, <2>2, <2>3 DEF TypeOK
  <2>7. RequestOK'
    BY <1>1, <1>6, <1>7, <1>9, <2>2, <2>3, <2>4 DEF RequestOK
  <2>8. WaitsWithoutLocks'
    BY <1>1, <1>5, <1>7, <1>9, <2>2, <2>3 DEF WaitsWithoutLocks
  <2>9. ExclusiveHoldsAll'
    BY <1>1, <1>7, <1>9, <2>3 DEF ExclusiveHoldsAll
  <2>10. NoLeakedLock'
    <3> SUFFICES ASSUME NEW r \in Resources, lockedBy[r] # NoTx
                 PROVE  /\ status'[lockedBy[r]] \in {"Waiting", "Exclusive", "Finalizing"}
                        /\ \/ r \in resources[lockedBy[r]]
                           \/ /\ request'[lockedBy[r]].at = "acquired"
                              /\ r \in request'[lockedBy[r]].set
      BY <1>9 DEF NoLeakedLock
    <3>1. CASE lockedBy[r] = t
      BY <1>1, <1>5, <1>7, <2>3, <3>1, NoTxAssumption DEF NoLeakedLock
    <3>2. CASE lockedBy[r] # t
      BY <1>1, <1>2, <2>2, <2>3, <3>2 DEF NoLeakedLock
    <3> QED BY <3>1, <3>2
  <2>11. NoLostWakeup'
    BY <1>1, <1>9, <2>1, <2>2, <2>4 DEF NoLostWakeup
  <2> QED BY <2>5, <2>6, <2>7, <2>8, <2>9, <2>10, <2>11 DEF IInv
<1>10. CASE /\ b # {}
            /\ DetectDeadlock(t, b)
            /\ request' = [request EXCEPT ![t] = NoRequest]
            /\ status' = [status EXCEPT ![t] = failed]
            /\ UNCHANGED <<lockedBy, waitingOn>>
  <2>2. /\ request' \in [Txs -> Requests] /\ request'[t] = NoRequest
        /\ \A u \in Txs \ {t} : request'[u] = request[u]
    BY <1>1, <1>6, <1>10, RequestChanged
  <2>3. /\ status' \in [Txs -> Statuses] /\ status'[t] = failed
        /\ \A u \in Txs \ {t} : status'[u] = status[u]
    BY <1>1, <1>7, <1>10, StatusChanged
  <2>4. lockedBy' = lockedBy /\ waitingOn' = waitingOn
    BY <1>10
  <2> HIDE DEF failed, b
  <2>5. TypeOK'
    BY <1>2, <2>2, <2>3, <2>4 DEF TypeOK
  <2>6. RequestOK'
    BY <1>1, <1>3, <1>6, <1>7, <2>2, <2>3, <2>4 DEF RequestOK
  <2>7. WaitsWithoutLocks' /\ ExclusiveHoldsAll'
    BY <1>1, <1>7, <2>2, <2>3, <2>4 DEF WaitsWithoutLocks, ExclusiveHoldsAll
  <2>8. NoLeakedLock'
    <3> SUFFICES ASSUME NEW r \in Resources, lockedBy[r] # NoTx
                 PROVE  /\ status'[lockedBy[r]] \in {"Waiting", "Exclusive", "Finalizing"}
                        /\ \/ r \in resources[lockedBy[r]]
                           \/ /\ request'[lockedBy[r]].at = "acquired"
                              /\ r \in request'[lockedBy[r]].set
      BY <2>4 DEF NoLeakedLock
    <3>1. CASE lockedBy[r] = t
      BY <1>1, <1>5, <1>7, <2>3, <3>1, NoTxAssumption DEF NoLeakedLock
    <3>2. CASE lockedBy[r] # t
      BY <1>1, <1>2, <2>2, <2>3, <3>2 DEF NoLeakedLock
    <3> QED BY <3>1, <3>2
  <2>9. NoLostWakeup'
    BY <1>1, <1>3, <1>6, <2>2, <2>4 DEF NoLostWakeup
  <2>10. NoDeadlock'
    BY <1>1, <2>4 DEF NoDeadlock
  <2> QED BY <2>5, <2>6, <2>7, <2>8, <2>9, <2>10 DEF IInv
<1>11. b = BlockedBy(t, set) /\ (LockableSync(t, set) <=> b = {})
  BY DEF LockableSync
<1> QED BY <1>2, <1>8, <1>9, <1>10 DEF AcquireLocks

-----------------------------------------------------------------------------

\* What an idle transaction looks like, and where a request leads.
LEMMA Facts ==
    ASSUME IInv, NEW t \in Txs
    PROVE  /\ Idle(t) => /\ request[t].op = "none" /\ request[t].at = "done"
                         /\ waitingOn[t] = {} /\ status[t] # "Waiting"
           /\ status[t] \in {"Shared", "Finalizing", "Destroyed"} => Idle(t)
           /\ status[t] \in {"Shared", "Destroyed"} =>
                 \A r \in Resources : lockedBy[r] # t
           /\ request[t].set \in SUBSET Resources
<1>1. TypeOK /\ RequestOK /\ NoLeakedLock
  BY DEF IInv
<1>2. request[t] \in Requests /\ lockedBy \in [Resources -> Txs \cup {NoTx}]
  BY <1>1 DEF TypeOK
<1>3. NoRequest.op = "none" /\ NoRequest.at = "done"
  BY DEF NoRequest
<1>4. Idle(t) => /\ request[t].op = "none" /\ request[t].at = "done"
                 /\ waitingOn[t] = {} /\ status[t] # "Waiting"
  BY <1>1, <1>3 DEF Idle, RequestOK
<1>5. status[t] \in {"Shared", "Finalizing", "Destroyed"} => Idle(t)
  BY <1>1, <1>2 DEF Idle, RequestOK, Requests
<1>6. status[t] \in {"Shared", "Destroyed"} => \A r \in Resources : lockedBy[r] # t
  BY <1>1, NoTxAssumption DEF NoLeakedLock
<1>7. request[t].set \in SUBSET Resources
  BY <1>2 DEF Requests
<1> QED BY <1>4, <1>5, <1>6, <1>7

\* The synchronous operations: t takes free locks, joins resources and is
\* exclusive afterwards, or joins resources while shared.
LEMMA SyncPreserves ==
    ASSUME IInv, NEW t \in Txs, Idle(t), NEW set \in SUBSET Resources,
           \/ /\ status[t] = "Shared" /\ lockedBy' = lockedBy /\ status' = status
              /\ resources' = [resources EXCEPT ![t] = @ \cup set]
           \/ /\ status[t] \in {"Shared", "Exclusive"}
              /\ LockableSync(t, resources[t] \cup set)
              /\ lockedBy' = AcquireLocksSync(t, resources[t] \cup set)
              /\ status' = [status EXCEPT ![t] = "Exclusive"]
              /\ resources' = [resources EXCEPT ![t] = @ \cup set],
           UNCHANGED <<waitingOn, request>>, cycles' \in [Txs -> 0 .. MaxCycles]
    PROVE  IInv'
<1>1. /\ TypeOK /\ RequestOK /\ WaitsWithoutLocks /\ ExclusiveHoldsAll
      /\ NoLeakedLock /\ NoLostWakeup /\ NoDeadlock
  BY DEF IInv
<1>2. /\ lockedBy \in [Resources -> Txs \cup {NoTx}] /\ status \in [Txs -> Statuses]
      /\ resources \in [Txs -> SUBSET Resources] /\ waitingOn \in [Txs -> SUBSET Txs]
      /\ request \in [Txs -> Requests]
  BY <1>1 DEF TypeOK
<1>3. /\ request[t].op = "none" /\ request[t].at = "done" /\ waitingOn[t] = {}
      /\ \A u \in Txs : request[u].set \in SUBSET Resources
      /\ waitingOn' = waitingOn /\ request' = request
  BY Facts
<1>4. /\ resources' \in [Txs -> SUBSET Resources]
      /\ resources'[t] = resources[t] \cup set
      /\ \A u \in Txs \ {t} : resources'[u] = resources[u]
  BY <1>2
<1>5. NoDeadlock'
  BY <1>1, <1>3 DEF NoDeadlock
<1>6. CASE status[t] = "Shared" /\ lockedBy' = lockedBy /\ status' = status
  <2>1. TypeOK' /\ RequestOK' /\ WaitsWithoutLocks'
    BY <1>1, <1>2, <1>3, <1>4, <1>6 DEF TypeOK, RequestOK, WaitsWithoutLocks
  <2>2. ExclusiveHoldsAll'
    BY <1>1, <1>4, <1>6 DEF ExclusiveHoldsAll
  <2>3. NoLeakedLock'
    BY <1>1, <1>2, <1>3, <1>4, <1>6 DEF NoLeakedLock
  <2>4. NoLostWakeup'
    BY <1>1, <1>3, <1>6 DEF NoLostWakeup
  <2> QED BY <1>5, <2>1, <2>2, <2>3, <2>4 DEF IInv
<1>7. CASE /\ status[t] \in {"Shared", "Exclusive"}
           /\ LockableSync(t, resources[t] \cup set)
           /\ lockedBy' = AcquireLocksSync(t, resources[t] \cup set)
           /\ status' = [status EXCEPT ![t] = "Exclusive"]
  <2>1. resources[t] \cup set \in SUBSET Resources
    BY <1>2
  <2>2. /\ lockedBy' \in [Resources -> Txs \cup {NoTx}]
        /\ \A r \in resources[t] \cup set : lockedBy'[r] = t /\ lockedBy[r] \in {NoTx, t}
        /\ \A r \in Resources \ (resources[t] \cup set) : lockedBy'[r] = lockedBy[r]
        /\ \A u \in Txs, r \in Resources : lockedBy[r] = u => lockedBy'[r] = u
        /\ \A u \in Txs \ {t}, r \in Resources : lockedBy'[r] = u => lockedBy[r] = u
    BY <1>1, <1>7, <2>1, LocksTaken
  <2>3. /\ status' \in [Txs -> Statuses] /\ status'[t] = "Exclusive"
        /\ \A u \in Txs \ {t} : status'[u] = status[u]
    BY <1>2, <1>7 DEF Statuses
  <2>4. TypeOK'
    BY <1>2, <1>3, <1>4, <2>2, <2>3 DEF TypeOK
  <2>5. RequestOK'
    BY <1>1, <1>3, <1>4, <2>2, <2>3 DEF RequestOK
  <2>6. WaitsWithoutLocks'
    BY <1>1, <1>3, <2>2, <2>3 DEF WaitsWithoutLocks
  <2>7. ExclusiveHoldsAll'
    BY <1>1, <1>2, <1>4, <2>2, <2>3 DEF ExclusiveHoldsAll
  <2>8. NoLeakedLock'
    <3> SUFFICES ASSUME NEW r \in Resources, lockedBy'[r] # NoTx
                 PROVE  /\ status'[lockedBy'[r]] \in {"Waiting", "Exclusive", "Finalizing"}
                        /\ \/ r \in resources'[lockedBy'[r]]
                           \/ /\ request'[lockedBy'[r]].at = "acquired"
                              /\ r \in request'[lockedBy'[r]].set
      BY DEF NoLeakedLock
    <3>1. CASE lockedBy'[r] = t
      <4>1. r \in resources[t] \cup set
        BY <1>1, <1>3, <2>2, <3>1, NoTxAssumption DEF NoLeakedLock
      <4> QED BY <1>4, <2>3, <3>1, <4>1
    <3>2. CASE lockedBy'[r] # t
      <4>1. lockedBy'[r] \in Txs \ {t} /\ lockedBy[r] = lockedBy'[r]
        BY <2>2, <3>2
      <4> QED BY <1>1, <1>3, <1>4, <2>3, <4>1 DEF NoLeakedLock
    <3> QED BY <3>1, <3>2
  <2>9. NoLostWakeup'
    BY <1>1, <1>2, <1>3, <2>2 DEF NoLostWakeup
  <2> QED BY <1>5, <2>4, <2>5, <2>6, <2>7, <2>8, <2>9 DEF IInv
<1> QED BY <1>6, <1>7

LEMMA AcquiredPreserves == ASSUME IInv, NEW t \in Txs, Acquired(t) PROVE IInv'
<1>1. /\ TypeOK /\ RequestOK /\ WaitsWithoutLocks /\ ExclusiveHoldsAll
      /\ NoLeakedLock /\ NoLostWakeup /\ NoDeadlock
  BY DEF IInv
<1>2. /\ lockedBy \in [Resources -> Txs \cup {NoTx}] /\ status \in [Txs -> Statuses]
      /\ resources \in [Txs -> SUBSET Resources] /\ waitingOn \in [Txs -> SUBSET Txs]
      /\ request \in [Txs -> Requests] /\ request[t].set \in SUBSET Resources
  BY <1>1, Facts DEF TypeOK
<1>3. /\ NoRequest \in Requests /\ NoRequest.op = "none" /\ NoRequest.at = "done"
      /\ NoRequest.set = {}
  BY DEF NoRequest, Requests
<1>4. /\ request[t].at = "acquired" /\ lockedBy' = lockedBy /\ waitingOn' = waitingOn
      /\ cycles' = cycles /\ request' = [request EXCEPT ![t] = NoRequest]
  BY DEF Acquired
<1>5. /\ request' \in [Txs -> Requests] /\ request'[t] = NoRequest
      /\ \A u \in Txs \ {t} : request'[u] = request[u]
  BY <1>2, <1>3, <1>4
<1>6. /\ waitingOn[t] = {} /\ \A r \in request[t].set : lockedBy[r] = t
  BY <1>1, <1>4 DEF RequestOK
<1>7. /\ resources' \in [Txs -> SUBSET Resources] /\ status' \in [Txs -> Statuses]
      /\ status'[t] = "Exclusive" /\ resources'[t] = resources[t] \cup request[t].set
      /\ \A u \in Txs \ {t} : resources'[u] = resources[u] /\ status'[u] = status[u]
  <2>1. CASE /\ request[t].op = "begin"
             /\ status' = [status EXCEPT ![t] = "Exclusive"]
             /\ UNCHANGED resources
    BY <1>1, <1>2, <2>1 DEF RequestOK, Statuses
  <2>2. CASE /\ request[t].op = "add"
             /\ resources' = [resources EXCEPT ![t] = @ \cup request[t].set]
             /\ UNCHANGED status
    BY <1>1, <1>2, <2>2 DEF RequestOK
  <2> QED BY <2>1, <2>2 DEF Acquired
<1>8. status[t] \in {"Waiting", "Exclusive"}
  BY <1>1, <1>2, <1>4 DEF RequestOK, Requests, NoRequest
<1>9. \A r \in resources'[t] : lockedBy'[r] = t
  <2>1. CASE status[t] = "Waiting"
    BY <1>1, <1>4, <1>6, <1>7, <2>1 DEF RequestOK
  <2>2. CASE status[t] = "Exclusive"
    BY <1>1, <1>4, <1>6, <1>7, <2>2 DEF ExclusiveHoldsAll
  <2> QED BY <1>8, <2>1, <2>2
<1>10. TypeOK'
  BY <1>1, <1>2, <1>4, <1>5, <1>7 DEF TypeOK
<1>11. RequestOK'
  BY <1>1, <1>3, <1>4, <1>5, <1>6, <1>7 DEF RequestOK
<1>12. WaitsWithoutLocks' /\ ExclusiveHoldsAll'
  BY <1>1, <1>4, <1>5, <1>7, <1>9 DEF WaitsWithoutLocks, ExclusiveHoldsAll
<1>13. NoLeakedLock'
  <2> SUFFICES ASSUME NEW r \in Resources, lockedBy[r] # NoTx
               PROVE  /\ status'[lockedBy[r]] \in {"Waiting", "Exclusive", "Finalizing"}
                      /\ \/ r \in resources'[lockedBy[r]]
                         \/ /\ request'[lockedBy[r]].at = "acquired"
                            /\ r \in request'[lockedBy[r]].set
    BY <1>4 DEF NoLeakedLock
  <2>1. CASE lockedBy[r] = t
    BY <1>1, <1>7, <2>1 DEF NoLeakedLock
  <2>2. CASE lockedBy[r] # t
    BY <1>1, <1>2, <1>5, <1>7, <2>2 DEF NoLeakedLock
  <2> QED BY <2>1, <2>2
<1>14. NoLostWakeup' /\ NoDeadlock'
  BY <1>1, <1>3, <1>4, <1>5 DEF NoLostWakeup, NoDeadlock
<1> QED BY <1>10, <1>11, <1>12, <1>13, <1>14 DEF IInv

LEMMA StartFinalizePreserves == ASSUME IInv, NEW t \in Txs, StartFinalize(t) PROVE IInv'
<1>1. /\ TypeOK /\ RequestOK /\ WaitsWithoutLocks /\ ExclusiveHoldsAll
      /\ NoLeakedLock /\ NoLostWakeup /\ NoDeadlock
  BY DEF IInv
<1>2. /\ Idle(t) /\ request[t].op = "none" /\ request[t].at = "done"
      /\ status' = [status EXCEPT ![t] = "Finalizing"]
      /\ UNCHANGED <<lockedBy, resources, waitingOn, request, cycles>>
  BY Facts DEF StartFinalize
<1>3. /\ status' \in [Txs -> Statuses] /\ status'[t] = "Finalizing"
      /\ \A u \in Txs \ {t} : status'[u] = status[u]
  BY <1>1, <1>2 DEF TypeOK, Statuses
<1>4. TypeOK' /\ RequestOK'
  BY <1>1, <1>2, <1>3 DEF TypeOK, RequestOK
<1>5. WaitsWithoutLocks' /\ ExclusiveHoldsAll'
  BY <1>1, <1>2, <1>3 DEF WaitsWithoutLocks, ExclusiveHoldsAll
<1>6. NoLeakedLock'
  <2>1. lockedBy \in [Resources -> Txs \cup {NoTx}]
    BY <1>1 DEF TypeOK
  <2> QED BY <1>1, <1>2, <1>3, <2>1 DEF NoLeakedLock
<1>7. NoLostWakeup' /\ NoDeadlock'
  BY <1>1, <1>2 DEF NoLostWakeup, NoDeadlock
<1> QED BY <1>4, <1>5, <1>6, <1>7 DEF IInv

\* #reset releases every lock of t and wakes those that waited for t only.
LEMMA ResetPreserves ==
    ASSUME IInv, NEW t \in Txs, NEW final \in {"Shared", "Destroyed"}, Idle(t),
           Reset(t, final)
    PROVE  IInv'
<1>1. /\ TypeOK /\ RequestOK /\ WaitsWithoutLocks /\ ExclusiveHoldsAll
      /\ NoLeakedLock /\ NoLostWakeup /\ NoDeadlock
  BY DEF IInv
<1>2. /\ lockedBy \in [Resources -> Txs \cup {NoTx}] /\ status \in [Txs -> Statuses]
      /\ resources \in [Txs -> SUBSET Resources] /\ waitingOn \in [Txs -> SUBSET Txs]
      /\ request \in [Txs -> Requests]
  BY <1>1 DEF TypeOK
<1>3. /\ request[t].op = "none" /\ request[t].at = "done" /\ waitingOn[t] = {}
      /\ request[t] = NoRequest
  BY Facts DEF Idle
<1>4. /\ lockedBy' \in [Resources -> Txs \cup {NoTx}]
      /\ \A r \in Resources : lockedBy'[r] # t
      /\ \A r \in Resources : lockedBy[r] # t => lockedBy'[r] = lockedBy[r]
      /\ \A r \in Resources : lockedBy'[r] # NoTx => lockedBy'[r] = lockedBy[r]
  <2>1. \A r \in Resources : lockedBy[r] = t => r \in resources[t]
    BY <1>1, <1>3, NoTxAssumption DEF NoLeakedLock
  <2>2. lockedBy' = [r \in Resources |->
                        IF r \in resources[t] /\ lockedBy[r] = t THEN NoTx ELSE lockedBy[r]]
    BY DEF Reset, ReleaseLocks
  <2> QED BY <1>2, <2>1, <2>2, NoTxAssumption
<1>5. /\ resources' \in [Txs -> SUBSET Resources] /\ resources'[t] = {}
      /\ status' \in [Txs -> Statuses] /\ status'[t] = final
      /\ \A u \in Txs \ {t} : resources'[u] = resources[u] /\ status'[u] = status[u]
  BY <1>2 DEF Reset, Statuses
<1>6. /\ waitingOn' \in [Txs -> SUBSET Txs]
      /\ \A u \in Txs : waitingOn'[u] = waitingOn[u] \ {t}
  BY <1>2 DEF Reset, EmitShared
<1>7. /\ request' \in [Txs -> Requests]
      /\ \A u \in Txs : /\ request'[u].op = request[u].op
                        /\ request'[u].set = request[u].set
                        /\ request[u].at = "waiting" =>
                              request'[u].at = IF waitingOn'[u] = {} THEN "woken" ELSE "waiting"
                        /\ request[u].at # "waiting" => request'[u] = request[u]
  <2>1. request' = [u \in Txs |->
          IF request[u].at = "waiting" /\ waitingOn[u] \subseteq {t}
            THEN [request[u] EXCEPT !.at = "woken"] ELSE request[u]]
    BY DEF Reset, EmitShared
  <2>2. \A u \in Txs : waitingOn'[u] = {} <=> waitingOn[u] \subseteq {t}
    BY <1>2, <1>6
  <2>3. \A u \in Txs : request[u] \in Requests
    BY <1>2
  <2>4. ASSUME NEW u \in Txs
        PROVE  LET q == [request[u] EXCEPT !.at = "woken"] IN
               q \in Requests /\ q.op = request[u].op /\ q.set = request[u].set /\ q.at = "woken"
    BY <2>3 DEF Requests
  <2> QED BY <2>1, <2>2, <2>3, <2>4
<1>8. request'[t] = NoRequest
  BY <1>3, <1>7
<1>9. \A u \in Txs : request'[u].at = "acquired" <=> request[u].at = "acquired"
  BY <1>7
<1>10. TypeOK'
  BY <1>1, <1>4, <1>5, <1>6, <1>7 DEF TypeOK, Reset
<1>11. RequestOK'
  <2> SUFFICES ASSUME NEW u \in Txs PROVE
        /\ request'[u].op = "none" => request'[u] = NoRequest
        /\ request'[u].at = "done" => request'[u] = NoRequest
        /\ request'[u].op = "begin" <=> status'[u] = "Waiting"
        /\ request'[u].op = "begin" => request'[u].set = resources'[u]
        /\ request'[u].op = "add" => status'[u] = "Exclusive"
        /\ request'[u].at = "waiting" <=> waitingOn'[u] # {}
        /\ request'[u].at = "acquired" => \A r \in request'[u].set : lockedBy'[r] = u
    BY DEF RequestOK
  <2>1. CASE u = t
    BY <1>3, <1>5, <1>6, <1>8, <2>1
  <2>2. CASE u # t
    <3>1. /\ request[u].op = "none" => request[u] = NoRequest
          /\ request[u].at = "done" => request[u] = NoRequest
          /\ request[u].op = "begin" <=> status[u] = "Waiting"
          /\ request[u].op = "begin" => request[u].set = resources[u]
          /\ request[u].op = "add" => status[u] = "Exclusive"
          /\ request[u].at = "waiting" <=> waitingOn[u] # {}
          /\ request[u].at = "acquired" => \A r \in request[u].set : lockedBy[r] = u
      BY <1>1 DEF RequestOK
    <3>2. CASE request[u].at = "waiting"
      <4>1. request[u].op # "none"
        BY <3>1, <3>2 DEF NoRequest
      <4> QED BY <1>5, <1>6, <1>7, <2>2, <3>1, <3>2, <4>1
    <3>3. CASE request[u].at # "waiting"
      <4>1. request'[u] = request[u] /\ request[u].set \in SUBSET Resources
        BY <1>7, <3>3, Facts
      <4> QED BY <1>4, <1>5, <1>6, <2>2, <3>1, <3>3, <4>1
    <3> QED BY <3>2, <3>3
  <2> QED BY <2>1, <2>2
<1>12. WaitsWithoutLocks'
  BY <1>1, <1>4, <1>5, <1>9, NoTxAssumption DEF WaitsWithoutLocks
<1>13. ExclusiveHoldsAll'
  BY <1>1, <1>2, <1>4, <1>5 DEF ExclusiveHoldsAll
<1>14. NoLeakedLock'
  <2> SUFFICES ASSUME NEW r \in Resources, lockedBy'[r] # NoTx
               PROVE  /\ status'[lockedBy'[r]] \in {"Waiting", "Exclusive", "Finalizing"}
                      /\ \/ r \in resources'[lockedBy'[r]]
                         \/ /\ request'[lockedBy'[r]].at = "acquired"
                            /\ r \in request'[lockedBy'[r]].set
    BY DEF NoLeakedLock
  <2>1. lockedBy'[r] = lockedBy[r] /\ lockedBy[r] \in Txs \ {t}
    BY <1>4
  <2> QED BY <1>1, <1>5, <1>7, <1>9, <2>1 DEF NoLeakedLock
<1>15. NoLostWakeup'
  <2>1. ASSUME NEW u \in Txs, request'[u].at = "waiting" PROVE waitingOn'[u] # {}
    BY <1>11, <2>1 DEF RequestOK
  <2>2. ASSUME NEW u \in Txs, NEW x \in waitingOn'[u]
        PROVE  \E r \in Resources : lockedBy'[r] = x
    <3>1. x \in waitingOn[u] /\ x # t
      BY <1>6
    <3>2. PICK r \in Resources : lockedBy[r] = x
      BY <1>1, <3>1 DEF NoLostWakeup
    <3> QED BY <1>4, <3>1, <3>2
  <2> QED BY <2>1, <2>2 DEF NoLostWakeup
<1>16. NoDeadlock'
  BY <1>1, <1>6, ShrinkingWaits
<1> QED BY <1>10, <1>11, <1>12, <1>13, <1>14, <1>15, <1>16 DEF IInv

LEMMA StepPreserves == IInv /\ [Next]_vars => IInv'
<1> SUFFICES ASSUME IInv, [Next]_vars PROVE IInv'
  OBVIOUS
<1>1. TypeOK /\ RequestOK /\ ExclusiveHoldsAll
  BY DEF IInv
<1>2. cycles \in [Txs -> 0 .. MaxCycles] /\ status \in [Txs -> Statuses]
      /\ resources \in [Txs -> SUBSET Resources]
      /\ lockedBy \in [Resources -> Txs \cup {NoTx}]
  BY <1>1 DEF TypeOK
<1>3. \A t \in Txs : cycles[t] < MaxCycles =>
         [cycles EXCEPT ![t] = @ + 1] \in [Txs -> 0 .. MaxCycles]
  BY <1>2, CyclesAssumption
<1>4. ASSUME NEW t \in Txs, NEW set \in Requested[t], AddResourcesSync(t, set) PROVE IInv'
  <2>1. set \in SUBSET Resources /\ Idle(t) /\ UNCHANGED <<status, waitingOn, request, cycles>>
        /\ resources' = [resources EXCEPT ![t] = @ \cup set]
    BY <1>4, RequestedAssumption DEF AddResourcesSync
  <2>2. CASE status[t] = "Shared" /\ lockedBy' = lockedBy
    BY <1>2, <2>1, <2>2, SyncPreserves
  <2>3. CASE /\ status[t] = "Exclusive" /\ LockableSync(t, set)
             /\ lockedBy' = AcquireLocksSync(t, set)
    <3>1. \A r \in resources[t] : lockedBy[r] = t
      BY <1>1, <2>3 DEF ExclusiveHoldsAll
    <3>2. LockableSync(t, resources[t] \cup set)
      BY <2>3, <3>1 DEF LockableSync, BlockedBy
    <3>3. AcquireLocksSync(t, set) = AcquireLocksSync(t, resources[t] \cup set)
      BY <3>1 DEF AcquireLocksSync
    <3>4. status' = [status EXCEPT ![t] = "Exclusive"]
      BY <1>2, <2>1, <2>3
    <3> QED BY <1>2, <2>1, <2>3, <3>2, <3>3, <3>4, SyncPreserves
  <2> QED BY <1>4, <2>2, <2>3 DEF AddResourcesSync
<1>5. ASSUME NEW t \in Txs, NEW set \in Requested[t], AddResources(t, set) PROVE IInv'
  <2>1. set \in SUBSET Resources
    BY RequestedAssumption
  <2>2. /\ request[t].at = "done" /\ status[t] = "Exclusive" /\ AcquireLocks(t, "add", set)
        /\ resources' = resources /\ cycles' = cycles
    BY <1>5, Facts DEF AddResources
  <2> QED BY <1>2, <2>1, <2>2, AcquirePreserves
<1>6. ASSUME NEW t \in Txs, NEW set \in Requested[t] \cup {{}}, BeginSync(t, set) PROVE IInv'
  <2>1. set \in SUBSET Resources
    BY RequestedAssumption
  <2> QED BY <1>3, <1>6, <2>1, SyncPreserves DEF BeginSync
<1>7. ASSUME NEW t \in Txs, Begin(t) PROVE IInv'
  <2>1. /\ request[t].at = "done" /\ status[t] = "Shared"
        /\ AcquireLocks(t, "begin", resources[t])
        /\ resources' = resources /\ resources[t] \in SUBSET Resources
        /\ cycles' \in [Txs -> 0 .. MaxCycles]
    BY <1>2, <1>3, <1>7, Facts DEF Begin
  <2> QED BY <2>1, AcquirePreserves
<1>8. ASSUME NEW t \in Txs, Continue(t) PROVE IInv'
  <2>1. /\ request[t].at = "woken" /\ AcquireLocks(t, request[t].op, request[t].set)
        /\ resources' = resources /\ cycles' = cycles
        /\ request[t].set \in SUBSET Resources
    BY <1>8, Facts DEF Continue
  <2>2. request[t] \in Requests /\ request[t].op # "none"
    BY <1>1, <2>1 DEF TypeOK, RequestOK, NoRequest
  <2>3. request[t].op \in {"begin", "add"}
    BY <2>2 DEF Requests
  <2>4. /\ request[t].op = "begin" => request[t].set = resources[t] /\ status[t] = "Waiting"
        /\ request[t].op = "add" => status[t] = "Exclusive"
    BY <1>1 DEF RequestOK
  <2> QED BY <1>2, <2>1, <2>3, <2>4, AcquirePreserves
<1>9. ASSUME NEW t \in Txs, FinishFinalize(t) \/ Dispose(t) PROVE IInv'
  BY <1>9, Facts, ResetPreserves DEF FinishFinalize, Dispose
<1>10. CASE UNCHANGED vars
  BY <1>10 DEF vars, IInv, TypeOK, RequestOK, WaitsWithoutLocks, ExclusiveHoldsAll,
               NoLeakedLock, NoLostWakeup, NoDeadlock
<1> QED BY <1>4, <1>5, <1>6, <1>7, <1>8, <1>9, <1>10, AcquiredPreserves,
           StartFinalizePreserves DEF Next

LEMMA Invariance == Spec => []IInv
BY InitEstablishes, StepPreserves, PTL DEF Spec

\* The state of the locking protocol is well formed.
THEOREM TypeCorrect == Spec => []TypeOK
BY Invariance, PTL DEF IInv

\* Mutual exclusion: an exclusive transaction holds the lock of everything it has
\* joined, whichever of begin, beginSync, lock and addResources got it there.
THEOREM MutualExclusion == Spec => []ExclusiveHoldsAll
BY Invariance, PTL DEF IInv

\* Every lock belongs to a transaction whose reset will release it.
THEOREM LocksAreReleased == Spec => []NoLeakedLock
BY Invariance, PTL DEF IInv

\* Whoever a suspended transaction waits on still holds a lock and will notify it.
THEOREM WakeupsArrive == Spec => []NoLostWakeup
BY Invariance, PTL DEF IInv

\* The check of #detectDeadlock at the start of each wait is enough: however waits
\* shrink and locks change hands later, no transactions ever wait in a circle.
THEOREM DeadlockFreedom == Spec => []NoDeadlock
BY Invariance, PTL DEF IInv
=============================================================================
