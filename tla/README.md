# matter.js in TLA+

A verification project for [matter.js](../src/README.md), a TypeScript implementation of the
Matter smart-home protocol. It holds TLA+ modules that model the parts of the code where
interleavings, failures and wrap-arounds decide about correctness, TLC configurations that
check them on small instances, and TLAPS proofs that establish the main results for every
instance.

    tlc -config MessageReceptionState.cfg MCMessageReceptionState
    tlapm MessageReceptionStateProofs.tla

`PROJECT.json` lists components, runs, mutants, the map from definitions to source lines,
findings, hazards and theorems. All paths below are relative to `src/packages/`.

## Inventory

matter.js runs on one JavaScript thread. Concurrency is that of promises: code between two
`await`s is atomic, and at every `await` anything else may run. The models follow that: an
action is what runs between two awaits.

| Part | State | Operations | Interacts with | What makes it correct |
| --- | --- | --- | --- | --- |
| Duplicate detection (`protocol/.../MessageReceptionState.ts`) | maximum counter, 32-bit bitmap | `updateMessageCounter`, three subclasses | called by sessions for every message received | a message is taken once; a late one within the window is not lost |
| Message counters (`protocol/.../MessageCounter.ts`) | counter, reserved mark, storage | `getIncrementedCounter`, construction | drawn from by every exchange; storage | no value twice, over crashes; a warning before the rollover |
| Transaction locking (`general/src/transaction/ResourceSet.ts`, `Tx.ts`) | `lockedBy` per resource; status, resources and wait set per transaction | `begin`, `beginSync`, `lock`, `addResources`, `waitFor`, `#reset`, dispose | transactions wait on each other, woken by observables | exclusion, no leaked lock, no lost wakeup, no deadlock |
| Transaction commit (`general/src/transaction/Tx.ts`, `Participant.ts`) | status, participants, commit cycles | `commit`, `rollback`, `resolve`, `reject`, the hooks | callbacks into participants (state, stores, reactors), which may write, join and fail | outcome as reported; two phases in order; everyone told once; it ends |
| BTP (`protocol/src/ble/BtpSessionHandler.ts`) | sequence and ack numbers, send queue, reassembly, three timers | `handleIncomingBleData`, `sendMatterMessage`, timers, `close` | BLE stack below, message layer above | windows respected, messages whole and in order, no mutual blocking |
| Write-ahead log (`general/src/storage/wal/`) | segments, snapshot, cache, commit ids | commit, snapshot, clean, compress, load | file system; background workers | committed data survive crashes and cleaning |
| Exchanges and MRP (`protocol/.../MessageExchange.ts`, `ExchangeManager.ts`) | message awaiting an ack, message to acknowledge, retransmission count, timers | `send`, `onMessageReceived`, retransmission, `close` | channel, session, message counter, duplicate detection | each message delivered at most once; acknowledged or reported as failed; bounded transmissions; nothing owed is forgotten |
| Sessions (`protocol/src/session/`) | closing, deferred, open exchanges and subscriptions; session table, ids, resumption records | `initiateClose`, `initiateForceClose`, `close`; create, resume, PASE, CASE | exchange manager, subscriptions, fabrics, storage | closing ends and leaves nothing behind; ids unique; limits on pairing |
| Interaction model (`node/src/node/server/`, `protocol/src/action/`) | subscriptions, changes to report, update in flight, timers | read, write, invoke, subscribe, report, cancel | transactions, exchanges, sessions | every change is reported, also one that meets a failing report or the priming |
| Peers (`protocol/src/peer/`) | connections, addresses, subscriptions | connect, retry, resubscribe | discovery, sessions | a peer that is reachable is reconnected |
| Commissioning (`protocol/src/common/Failsafe*.ts`, `protocol/.../DeviceCommissioner.ts`) | fail-safe timer, pending fabric | arm, complete, expire | fabrics, sessions | an aborted commissioning leaves nothing behind |
| BDX, discovery, groups, fabrics, codecs, crypto, data model, platform packages, tools | | | | see `PROJECT.json` |

Hard behaviours: counters and numbers at their wrap; state read before an `await` and used
after it; a timer that races with the event it waits for; a crash between a change in
memory and its write; one of several participants failing; transactions that wait on each
other. `PROJECT.json` lists each at its line under "hazards".

## Modules

| Module | Models | Run module | Proofs |
| --- | --- | --- | --- |
| `MessageReceptionState` | duplicate detection | `MCMessageReceptionState` | `MessageReceptionStateProofs` |
| `MessageCounter` | plain and persisted counters | `MCMessageCounter` | `MessageCounterProofs` |
| `TransactionLocks` | locks, waiting, deadlock detection | `MCTransactionLocks` | `TransactionLocksProofs` |
| `TransactionCommit` | how a transaction ends | `MCTransactionCommit` | `TransactionCommitProofs` |
| `BtpSession` | two BTP peers and the BLE link between them | `MCBtpSession` | `BtpSessionProofs` |
| `WalStorage` | the write-ahead log storage and its files | `MCWalStorage` | `WalStorageProofs` |
| `ReliableDelivery` | what an exchange promises for one message | | |
| `MessageExchange` | both ends of an exchange and the routing to it; implements `ReliableDelivery` | `MCMessageExchange` | `MessageExchangeProofs` |
| `ServerSubscription` | collecting and reporting changes | | |
| `SessionClose` | the end of a session with its exchanges and the subscriptions of `ServerSubscription`, which it extends | `MCSessionClose` | `SessionCloseProofs` |

Definitions whose comment begins with "Slip:" are plausible mistakes. No specification uses
them; they replace the definition that follows them to confirm that a property would notice.

### MessageReceptionState

The bitmap is the set of its 1 bits, with JavaScript's shift semantics (the count is taken
modulo the width). The three constants 2^32 - 1, 2^31 and 32 are parameters. The three classes
are one specification with the variable `variant`. The peer numbers messages with integers
that never wrap, and message n carries the counter n mod 2^32; the history variables `high`,
`seen` and `last` say which messages were taken and how the last one was judged, so that the
properties compare the code's verdict with the truth. `InHorizon` states how far a message may
be from the newest one for a 32-bit counter to identify it: half the range with rollover, the
whole remaining range for the unencrypted state, which reads anything behind its window as a
restarted peer. `ReceiveFirst`, `ReceiveNew` and `ReceiveDuplicate` are the three ways through
`updateMessageCounter`.

### MessageCounter

`pc[p]` says at which await the call of exchange p is suspended; `microtasks` keeps the order
in which resolved awaits continue. `CallbackResolved` reads the counter again after the await
of `onRollover`, as the code does. `ReserveAhead` raises the mark in memory and queues the
write; `WriteLands`, `WriteFails` and `Crash` are the environment (a crash loses pending
writes and suspended calls). `issued`, `raced` and `exposed` are history. A counter starts from what is
stored, else from the option `seed`, else from a random number, which has 28 bits and is always below the
warning value. A seed may be any counter: `SessionManager.ts:920-935` passes on the maximum that an older
version stored. Only a loaded value is compared with the warning value (line 140).

### TransactionLocks

One action per operation of `Tx` that touches locks. An asynchronous operation under way is
the transaction's `request`: "waiting" in `waitFor`, "woken" when its promise is resolved but
its continuation has not run, "acquired" when it holds the locks but `acquireLocks()` has not
returned to its caller. `DetectDeadlock` states the recursive search of `#detectDeadlock` as
its result: t is reached from the blockers exactly if every set closed under waiting that
contains the blockers contains t. Assumption: the user awaits one operation of a transaction
before the next, as the code in the repository does. Calls that throw without changing
anything are not actions.

### TransactionCommit

`pc` is the phase; a loop over participants is the position `pos` in the `roster`. The hooks of
`commit1`, `commit2` and `rollback` succeed, fail, or return a promise that settles later, in
any order. Participants may join in every phase in which the code lets them. `cycles` is the stack
of commit cycles: a post-commit handler may begin again, and the outer cycle reports after
the inner one. `ran` and `told` are history.

### BtpSession

The record `peer[p]` holds the fields of a handler. `writes` holds started writes until their
promise settles; the packet leaves (`Transmit`, the BLE stack) before the writer knows
(`WriteDone`), so the answer may come first. `caller` says what the code does after the await.
A message is measured in segments. Timers are flags; the send-ack timer may expire at any
time, the three times longer ack-received timer only when nothing else is pending (`Quiet`).
Closing ends the behaviour. The properties of windows and messages are about sessions in which no
write has failed: a failed write keeps its sequence number, so that the peer refuses the next packet
and its slot is never freed.

### WalStorage

Disk (`log`, `snapshot`, `head`) and memory are apart, so that `Crash` and `EndClose` are the loss of
memory. A commit assigns its number to a set of keys, and a store says for each key which commit
it reflects; `written` and `acked` say which one it should. `Write` is a commit up to the line in
the file and `OnCommit` its acknowledgement after the fsync; in between others run. A call of
`#loadCache` under way is `load[p]`: it reads the snapshot (`LoadSnapshot`), then the log
(`ReadLog`), goes through the lines and sets `#lastCommitId` (`ApplyLines`), then reconciles
(`FinishLoad`). The loop sets `#lastCommitId` with every line; the values before the last are not steps, since
nobody reads them while there is no cache. A reader whose load finds another under way joins
it. Replay is stated by its result: the last line that assigns a key decides. A `setup` says
which of the driver's options and callers an instance has; see the runs for why they matter.

### MessageExchange and ReliableDelivery

`ex[e]` holds the fields of an exchange object: the initiator's, and the one the responder has at a
time, which may be closed and made anew. An action is what a call, timer callback or handler does
up to its next await of the channel; `net` only grows, so any message in it can arrive late, twice,
out of order or never. `seen` is what the session's reception state has accepted
(`MessageReceptionState` shows that it accepts a message once). `OnMessageReceived`,
`ReceiveDuplicate`, `ReceiveFlowError` and `KickRetransmission` are the ways through
`onMessageReceived`; `NewExchange`, `UnsolicitedTo...` and `ReceiveConsideredClosed` those of
`ExchangeManager.#receiveMessage` around it. A send that settles returns in the same step
(`Become`). Closing has all its variants: with and without a cause, deferred by a pending message
(`closeTimer`), `destroy`, eviction. A close that awaits the ack it sends is a member of `closers` until
`CloseAcked`, whether the ack was sent or failed, so that other closes, messages and timers run in between;
likewise the close after the ack of a late message (`ReceiveConsideredClosed`, then `CloseLate`), and a close
timer that a second close has replaced still fires. Bound: of each kind of call one at a time awaits its ack
(`CloseWith`). The awaits for the message counter and of the observers of "closing" are not steps of their
own: the observers there are (`PeerExchangeProvider.ts:141`, `RemoteActorContext.ts:201`) are synchronous. The final
wait is taken to be positive.

`ReliableDelivery` is the abstract specification of one message: taken at most once, delivered at most
once, perhaps never; the sender's call ends once, with "acked" only after the message was taken.
`ReliablyDelivered` says that `MessageExchange` implements it for every message, by the mapping
`Delivery(s, i)`. What it does not promise is as telling, and the code does all of it:

* a message that crosses our unacknowledged one is refused by `onMessageReceived` (line 495) after
  the session has accepted it; its retransmission is acknowledged as a duplicate, so the sender
  reads "acked" for a message nobody got;
* a message that arrives while a temporary exchange (`ExchangeManager.ts:416`) sends its ack goes
  into a queue nobody reads;
* a handler whose stand-alone ack for the previous message is refused by the channel
  (`MessageExchange.ts:527`) ends there, the error only logged (`ExchangeManager.ts:361`): the session has
  accepted the newer message, which is never queued and whose retransmission is acknowledged as a duplicate;
  the older one still awaits its ack with the timer stopped (`ResumeReceiveFails`, `stranded`), until the next
  message, `send()` or close of the exchange takes the ack along. `NothingStalls` names this exception;
* a temporary exchange whose ack is refused is never closed and stays in the index;
* `#close` resolves a pending `send()` as if it had succeeded (outcome "closed");
* an abort while a retransmission is on its way re-arms the timer, and the message is sent again
  (`SettledIsFinal` leaves aborted sends out);
* a refused `send()` has already reset the retransmission counter of the pending message
  (`TransmissionBudget` accounts for it).

### ServerSubscription and SessionClose

`ServerSubscription` gives the fields of a subscription after each method up to its next await:
`Iterate` and `AfterSend` are the loop of `#sendUpdate`, `HandleChange` and `Notify` the change
handlers, `Activate` and `UpdateTimer` what starts reports. `stale` is history: the attributes whose
latest value the subscriber has not got. A change of an attribute takes the two phases of its transaction's
commit: `Commit1` advances the data version (`Datasource.ts:1240`), `Commit2` publishes the values (1038), and
between them the store is awaited, so that the initial report may read the cluster there
(`ReadForReport`); `Rollback` is a failed phase one, which leaves the advanced version. `Notify` comes later, when
the observers are called.

`SessionClose` runs them together with the closing of the session. A task is one asynchronous call
stack: somebody who closes the session, the handler of a request, an update loop, the worker
that closes a lingering exchange. Its record says at which await it is. The point of the module is
who waits for whom: `NodeSession.close` closes subscriptions, whose `close()` waits for the update
on its way (`CloseSubscription`, `UpdateAwaited`); an exchange that closes runs a deferred
`NodeSession.close` on its closer's stack (`CloseExchange`); and the closer may be the update loop
itself (`CloseMessenger`). `NodeSession` defers a close while exchanges are open (`DeferClose`), and `Session`
looks again after the await (`Recheck`). A subscribe request that cancels iterates over the set of
subscriptions itself, so that one added meanwhile is cancelled too. Triggers are the closes of the session from outside; commands are what
a request does: CloseSession of the peer ("force"), removal of the fabric ("leave"), a subscribe request
that cancels the old subscriptions ("cancel").

## Runs

All of them finish within three minutes; `message_exchange` (1.1 million states), `wal_storage` (1.5 million) and
`session_close` (0.3 million, with liveness) are the largest.

| Run | Shows | Bounds |
| --- | --- | --- |
| `reception_window` | `BitmapIsWindow`, `NeverTakenTwice`, `NeverLostInWindow` | modulus 8, half 4, window 3, numbers -3..12: both sides of a wrap, jumps shorter than, equal to and longer than the window |
| `message_counter` | `RepeatedOnlyByRace`, `CoveredBeforeUse`, `WarnedBeforeRollover` | range 32, reserve 3, two callers, 5 calls, 2 crashes, 1 failing write, starts just below the warning, seeds below and beyond it: calls pass the warning and the wrap. `BoundAssumption` keeps a run below half the range, so that an equal value is a repeated one |
| `transaction_locks` | `ExclusiveHoldsAll`, `NoLeakedLock`, `NoLostWakeup`, `NoDeadlock`, `WaitersProceed` | three transactions and resources, requests that allow rings of two and of three, one exclusive phase each |
| `transaction_commit` | `TruthfulOutcome`, `PhasesInOrder` (`SettledBeforeWrites`, `PointOfNoReturn`, `NoHookOutlivesLocks`), `EveryoneIsTold`, `CommitEnds` | two participants, both maxima 2, so that both are exceeded |
| `btp_session` | `WindowsRespected` (`ReceiverNotOverrun`, `AcksAdvance`), `NoProtocolError`, `DeliveredInOrder`, `NotBothBlocked`, `MessagesDelivered` | numbers modulo 3 with a window of 2, the same relation as 255 and 256; messages of 1 and 3 segments, two from one side and one from the other; one failing write |
| `wal_storage` | `Durable`, `CacheIsCurrent`, `HeadCompletesLog`, `SnapshotAdvances` | two keys, segments of two lines, 5 commits, 3 sessions: two rotations, repeated cleaning, reopening of a half-full segment. Two setups: one reader that loads beside commits, with periodic cleaning and failing snapshots; readers that load before the first commit, with periodic snapshots |
| `message_exchange` | `ReliablyDelivered`, `TransmissionBudget`, `SettledIsFinal`, `NothingStalls` (`OneDriver`, `AckIsDriven`) | two requests and one reply, so that timers and acks of one message meet the next; budget of 2 transmissions; one refused send; one abort, failing send or ack, close or forced close (with two, TLC found nothing in the 3.2 million states it reached in five minutes; the close timer that a second close replaces needs two, and is left to the proofs); BDX, which adds the early retransmission |
| `session_close` | `NoOrphans`, `NothingForgotten`, `ClosingEnds`, `ChangeReported` | one subscription, one attribute, two changes, one caller, one request at a time, repeatedly; one failed update is kept instead of two, so that giving up is reached |

Four runs are expected to find a violation, of something the repository says of itself:

* `message_counter_race`: two exchanges draw the same counter around the rollover warning,
  because `getIncrementedCounter` returns the member read again after its await.
* `session_rollover`: the close that a nearing counter rollover starts runs as a task of the mutex
  `#rolloverClose`, and `NodeSession.close` awaits that mutex, which is to wait for itself. The
  session stays closing for ever (`ClosingEnds`).
* `btp_stranded_ack`: `sendStandaloneAck` stops the send-ack timer that a packet received
  during its write relies on; the peer's timer then closes a healthy session.
* `wal_lost_commit`: with default options, a periodic snapshot that has to load the cache while
  commits go on replays a commit that awaits its fsync, undoes it by applying an older buffered
  one, and records its id; after a restart the commit is skipped.

Some properties name an exception that the code has and no promise of the repository is tied to:

* `WarnedBeforeRollover`: a counter seeded at or beyond the warning value (`MessageCounter.ts:144-148`) wraps
  without `onRollover` having been called in that process (`SeededPastWarning`); one that is loaded is compared, and
  warns.
* `NothingStalls`: when the stand-alone ack that `onMessageReceived` awaits for an older message fails
  (`MessageExchange.ts:525-528`, logged at `ExchangeManager.ts:360`), the ack of the older message stays owed with its timer stopped
  (`stranded`), until the next message, `send()` or close of the exchange takes it along.
* `NothingForgotten` and `ChangeReported`: an initial report that reads the cluster between the two phases of a
  commit sends the old value with the new version; the change handler then takes the change for one the report held
  (`ServerSubscription.ts:366-370`), and the subscriber keeps the old value until the attribute changes again
  (`halfRead`).
* `NoOrphans`: when the last exchange closes between `DeferClose` and `Recheck`, its observer closes the session and so
  does the recheck. `CloseInHands` shows that there are two closers at most. The faster may end the session while
  the slower awaits its CloseSession message, whose exchange is then the only thing left.

The passing runs state what remains true next to these and to the four violations: a repeated counter always stems from
one of two races (the other: the reserved mark is raised in memory before it is written, so a
counter issued meanwhile is issued again after a crash); a single exchange never uses a counter that storage does not cover; the
storage loses nothing in the two setups of `wal_storage`. Three other setups are left out of
`wal_storage` because TLC refutes its properties there: two readers beside commits (a commit
clears `#cacheLoading`, a second load begins, and the later one to end replaces the cache without
the commits in between: `CacheIsCurrent`), and periodic snapshots together with periodic cleaning or
with a final snapshot that fails (`#lastSnapshotCommitId` is set after the save to a commit the
snapshot does not hold, and the cleaner trusts it: `Durable`). They are listed as hazards.
`session_close` leaves out the close without shutdown logic (`Triggers = {"plain"}`: `Peer.ts:536`,
`AdministratorCommissioningServer.ts:143`): when a report is on its way, the deferred close runs inside the report's
own `messenger.close()` and waits for that report, so that `ClosingEnds` fails. Smaller things the model shows and no
property forbids: a commit whose phase one fails leaves the data version advanced (`Rollback`), although the comment at
`Datasource.ts:1101` says that rollback restores it; an update that fails for the third time with an error that is no communication error drops
its data and the subscription lives on (`dropped`); a flush that meets an update in flight only
sets a flag, and the follow-up looks for a session of its own instead of the flushing one; a trigger
between the end of the loop and the clearing of its promise waits for the next timer; and a
SubscribeResponse that fails leaves the change handlers of the subscription registered. In
`TransactionCommit`, the conclusions of finished cycles run while locks are held once post-commit handlers cascade past
the maximum, although `Participant.ts:130` promises otherwise.

### Fairness

* `TransactionLocks`: weak fairness of promise continuations (`Continue`, `Acquired`) and of the
  end of a commit, since promises that are resolved continue and participants' hooks return.
  Strong fairness of ending an exclusive transaction: its actor returns at some time, whatever
  it adds in between, and `resolve`/`reject` follow. A bounded number of exclusive phases stands
  for the absence of an endless stream of competing transactions; with one, a waiter can starve,
  since a woken waiter competes anew.
* `TransactionCommit`: weak fairness of its steps: hooks return and their promises settle. Joining
  participants and `begin` of a post-commit handler are not fair.
* `BtpSession`: weak fairness of transmission, settled writes, receipt and timers: the BLE stack
  carries packets or fails the write, and timers fire. Sending new messages, failures and the
  idle timeout are not fair.

* `SessionClose`: weak fairness of every task that is under way and of every timer that runs: promises
  settle, a send ends because MRP gives up at last (`TransmissionBudget`), handlers return. Changes,
  requests and closes come or do not.

`MessageExchange` states no fairness; that something always drives a pending send or ack is the
invariant `NothingStalls`.

Deadlock is checked except where the system may stop: bounded calls (`MessageCounter`), all
transactions destroyed (`TransactionLocks`), a closed session (`BtpSession`), the last session over
(`WalStorage`),
the messages used up (`MessageExchange`), a session that has ended (`SessionClose`).

## Proofs

`MessageReceptionStateProofs` proves, for every modulus, window width smaller than half of it,
and message history, that the bitmap is exactly the set of received messages
(`WindowCorrect`), that no message is taken twice (`ReplayProtection`) and that none within the
window is refused wrongly (`NoWrongRefusal`). The inductive invariant is the conjunction of
`TypeOK`, `BitmapIsWindow`, `HighInRange` (without rollover a maximum is set and its number lies
within the counter's range) and the two verdict properties. The argument has
three lemmas: `calculateDiff` is the true distance of the two messages in each of the three
classes (`DiffIsDistance`), one bitmap update keeps bitmap and history in step (`WindowStep`),
and `isCounterKnownInBitmap` reads the right bit (`KnownBit`). It rests on `WindowAssumption`,
which 32, 2^31 and 2^32 - 1 satisfy.

`TransactionLocksProofs` proves, for any sets of transactions and resources and any requests,
`ExclusiveHoldsAll`, `NoLeakedLock`, `NoLostWakeup` and `NoDeadlock`. The invariant adds
`RequestOK` (what a request's stage says of status, wait set and locks) and `WaitsWithoutLocks` (a
transaction that waits in `begin` holds no lock before it holds all). The central lemma is
`DetectionIsComplete`: if `#detectDeadlock` passes, a closed set holds the blockers and not the
transaction, so that a circle made by the new wait would contain an older one. Wait sets only
shrink afterwards (`ShrinkingWaits`), and shrinking creates no circle.

`MessageExchangeProofs` proves the refinement: `MessageExchange` implements `ReliableDelivery`
(`Implements`: the property `ReliablyDelivered`) for any number of messages per side and of responder
objects, any budget of transmissions and any bounds on faults. `ReliablyDelivered` alone is not inductive: that
"acked" is true of the peer depends on what travels and on what the objects hold. The invariant `Inv` (theorem
`Invariant`) adds it: a message on the wire was sent and acknowledges only what its sender has
accepted (`NetSound`); what an object owes or holds was accepted, its timers belong to messages, and
its call of `send()` belongs to a pending message whose promise is settled by an ack only if the
peer took that message (`Sound`, `ObjectsSound`); no two objects wait for, or hold, the same message (`Separate`);
a message that a suspended handler holds is not delivered yet (`DeliveredSound`). The argument goes through one
notion, `StepOf(e, z)`: a step turns one object `e` into a sound `z`, moves outcomes only forward
and only for the call of `e`, and accepts and delivers only what was sent and not yet delivered. One lemma per method
shows that it keeps an object sound (`ClosedSound`, `TakeAckSound`, `GiveUpSound`, ...), one per
action that it is such a step, and two that such a step keeps `Inv` (`StepKeepsInv`) and is a step of
`ReliableDelivery` or a stutter for every message (`StepRefines`). Of the assumptions it
needs only `ObjectsAssumption`: the initiator's object is none of the responder's.

The second half of `MessageExchangeProofs` builds on it and proves what the timers and counters of an exchange
promise: `TransmissionBudget` (`Budget`), `NothingStalls` (`NoStall`), the action property
`SettledIsFinal` (`Final`) and `TypeOK`, from `ObjectsAssumption`,
`BoundsAssumption` and `BudgetAssumption`. None of
them is inductive. The invariant `TimersInv` says of each object, besides its type, that its
transmissions are bounded by the counter and by what refused calls bought, and are at most one
while the first is under way, because its end resets the counter (`Budgeted`); that the pending
message has one driver at most, none before its first transmission is done and none once `send()`
has failed, and that a driver means room in the counter and a call that has not returned, unless
it was aborted or the exchange is closed (`Pending`); how the promise can be settled (`Promise`);
that an ack owed has somebody to send it, unless its sending has failed (`Owing`). `Driven` and `Noticed` add that a waiting call
has a driver and that a settled promise is noticed at once; the methods break these two in the
middle of an action, so the lemmas on methods carry `Base`, the invariant without them, and the
action restores them. One fact relates two objects: the message of a call is pending in no other
object (`Own`), without which the end of one call would leave a driver behind in another that
`SettledIsFinal` forbids.

`TransactionCommitProofs` proves, for any participants, any order of joining, any failing hooks and
any number of chained commits, `TruthfulOutcome` (`Truth`), `PhasesInOrder` (`Order`),
`EveryoneIsTold` (`Reports`) and `TypeOK`. The invariant says for the cycle under way, phase by phase,
which hooks have run, with which results, and whose are pending: those of the roster before the
position for the phase at hand, all for the phases before it (`Present`, with `InPreCommit`, `InSettled`,
`InCommit1`, `InCommit2`, `InRollback`); of a cycle that is over that its outcome is true and
its reportees are those its hooks reached (`Past`); of the reports that exactly the first ones of
the cycle being reported have been told, all of a concluded cycle and none of another (`Told`). `Distinct`
(no participant is twice in the roster) makes "once" true, and `Bounded` keeps the number of cycles
within the limit, where the last one is always the rollback of `reject`. The cycle that reports next
is the innermost one that is not concluded; that it exists is an argument on the least member of a set
of naturals (`LeastNatural`).

`BtpSessionProofs` proves, for every sequence space, every window smaller than it, any lengths and any
number of messages, `WindowsRespected` (`Windows`), `NoProtocolError` (`NoRefusal`),
`DeliveredInOrder` (`InOrder`), `NotBothBlocked` (`NoBlock`) and `TypeOK`. Each direction of
the session is a stream, the packets on the wire and the one being written, and the invariant `Way` says of a
direction: the numbers under way continue those received (`Numbered`); what the sender counts as
outstanding is the sum of what is acknowledged by packets under way, what the receiver has yet to
acknowledge, and the stream (`Accounted`), and it fits the window; acknowledgements under way are new and
ascend (`Acknowledged`); each segment begins where the one before it ends, the first where the
receiver stands, and the sender stands where the last one ends (`Chain`, `Collected`). `Shape` says of one
handler, also after failures, that it has one write at most and how its queue relates to it. `Talk` adds
what relates the directions: two full windows mean that an acknowledgement is under way, because the
last slot is kept for a packet that carries one. Distances are modulo the sequence space; the sum in `Accounted`
stays below one round because the window does, and this is where `SpaceAssumption` is needed. A step
sends, receives or does both; the lemmas treat sending (`SentWay`, `SentBackWay`) and receiving
(`ReceivedWay`, `ReceivedBackWay`) apart and for each direction, and `ProcessTalk` composes them.

`MessageCounterProofs` proves, for every range of the counter, every reserve, any number of exchanges
and any crashes and failing writes within the bounds, `RepeatedOnlyByRace` (`NoSilentRepeat`), the action
properties `CoveredBeforeUse` (`Covered`) and `WarnedBeforeRollover` (`WarnedFirst`, for any seed in the range), and `TypeOK`.
After a whole round of the counter values repeat by design, so the theorems are about less:
`BoundAssumption` keeps the calls and the reserves lost in crashes within half a round (2^31 values for the
code's 32 bits), and with it the counter still wraps once, anywhere. The invariant compares values by
their position in the round that begins with the first value drawn (`Pos`), of which there is one
for every state (`\E s : Round(s)`). It says how far the counter, storage, the pending writes and the
values of suspended calls are (`Positions`); that marks, or without a reserve values, reach storage in
ascending order although calls overtake each other (`Reserved`, `Unreserved`); that storage covers, once the
pending writes have landed, what a call waits to return (`Covering`); that whatever was returned and is not
exposed lies behind the counter and behind what is stored, so a restart begins above it (`Behind`); and that
the value of a suspended call is held by no other and was not returned, but for the races (`Unique`). The lemma
`CoversIs` ties the comparison modulo the range (`Covers`) to positions. A draw takes the next position
(`Fresh`), a restart the position of what is stored (`BeginInv`): both are beyond everything `Behind`
speaks of.

`SessionCloseProofs` proves, for any tasks, subscriptions and attributes, `NoOrphans`
(`NoOrphansTheorem`), `NothingForgotten` (`NothingForgottenTheorem`) and `TypeOK`, from
`SubscriptionAssumption` and `TriggersAssumption`. `NoOrphans` speaks of a session that has ended, and a step
that ends one preserves it only because of what held on the way there, so the invariant follows the close.
`TokenInv` says where it is: with the task that shuts the session down (`Shutting`), deferred
to exchanges of which one is open, with the tasks that end it (`Ending`), or done; two tasks have it only when one
initiated the close and the other closed the last exchange before the recheck (`Beside`), and once nothing keeps the
session from its end only exchanges that say goodbye are open (`Over`, `Goodbyes`). `SweepInv` says that
a task that ends the session knows each subscription that is left, `FlushInv` that a report sent through
the closing session is awaited by the task that shuts it down, `RequestInv` and `RefsInv` which
exchanges and subscriptions the tasks hold, and `SeedInv` that one task primes a subscription.
`SubsInv` speaks of each subscription: which values its fields have together (`Coherent`), and that an open one
knows of every change that its subscriber lacks and that it did not read half-committed (`Aware`), while it is primed by
the data version it has read. The actions mostly change one subscription and one task: lemmas say what the
operators on subscriptions preserve (`...Keeps`), four lemmas what a step of a task that has nothing to
do with the close, of one that has, of a closing exchange and of the end of the session preserves (`BystanderKeeps`,
`CloserKeeps`, `CloseExchangeKeeps`, `EndKeeps`), and one per action applies them. `CloseInHands` states the
safety half of `ClosingEnds`: a close that was begun and has not ended is with a task that shuts the session
down or ends it, or deferred to exchanges of which one is open, so that it is never lost (`InHands`); and no more
than two tasks perform it (`AtMostTwo`).

`WalStorageProofs` proves, for any keys, readers, setups, lengths of segments, commits and sessions, `TypeOK`
in every setup (`TypeCorrect`), and in the sound ones `Durable` (`DurableTheorem`), `CacheIsCurrent`
(`CacheTheorem`), `HeadCompletesLog` (`HeadTheorem`) and the action property `SnapshotAdvances`
(`AdvancesTheorem`). `Sound` is a condition on the setup of a behaviour, so that the four have the form
`Spec /\ Sound(setup) => []Durable`: commits overlap with at most one reader's load and with no snapshot, and
where snapshots are taken by interval neither do cleanings run beside them nor does a save fail. It excludes exactly
the setups where TLC refutes a property, named under the runs; `wal_storage` checks a setup of either
sound kind. The assumptions are `SetupsAssumption` and `UndefinedAssumption` (what is undefined
is not one of the values). The proof does not compare commit numbers. It rests on two facts: the last line that assigns a
key tells its last commit (`Tells`), and a snapshot has, for every key, the last commit or a line after its
id that assigns the key (`Good`); together they make a replay restore exactly what was written (`RestoredIs`).
A commit keeps a snapshot good because its line goes to the end of the log (`EndOf`), and the end is after every id
that a file or the memory holds: `KnownInv` says that the part of the log that stays reaches each of them. It
needs that the segments to delete are the first ones and not all (`Front`), without which a writer that reopens the log
could give out an id again. These facts (`Base`) hold in every setup. `Safe` adds what the sound setups
guarantee: the snapshots on disk and the one being saved are good (`SnapshotInv`); the cleaner goes
by the id of the snapshot on disk, and what it deletes is known to that snapshot and to the head
(`CleanInv`); one load is under way at most, and it has read, or has pending, every commit told, with the later one
pending last (`OneLoader`, `LoadInv`, `PendingInv`); the cache lacks the commit under way at most (`CacheInv`);
what is under way in which phase (`PhaseInv`); ids in memory are not before those on disk (`OrderInv`).
Deleting a segment, `BuildHeadSnapshot` (`HeadIs`) and `LastOf` need the least or greatest member of a set of
naturals or of lines (`LeastNatural`, `GreatestNatural`, `LastExists`).

What stays with TLC: liveness (`WaitersProceed`, `CommitEnds`, `MessagesDelivered`,
`ClosingEnds`, `ChangeReported`), which is out of the prover's reach. Every other property of a passing
run is stated by a theorem.

## Not modelled

Cryptography, codecs, TLV schemas and the generated data model are data without protocol.
Platform packages are I/O; where they matter they are the environment of a model (the BLE stack in
`BtpSession`, storage in `MessageCounter`). Time is abstract: a timer that runs may expire,
with the one ordering assumption `Quiet` (so the BTP ack-received timer that a late start makes expire
early, `BtpSessionHandler.ts:439`, is not seen). Exchange ids, which wrap at 16 bits without a look at the ids in use
(`ExchangeManager.ts:137`), are one id. Of exchanges, messages without acks, group messages, timed interactions
and the reader's timeout are left out; of subscriptions, events (collected by the same code) and
`establishFormerSubscription`; of sessions, the table, ids, resumption and several sessions per peer. Of the storage, compression of rotated segments, clones and
queries of past states are left out, and so are failing log writes and lines torn by a loss of
power (the restarted writer appends to such a line, and the reader then skips both). Logging and diagnostics are left out throughout.

## Plan

Done: duplicate detection, counters, transactions, BTP, the log storage; then exchanges with their
refinement and its proof, and the end of a session with its exchanges and subscriptions. What is left, in this order:

1. The client's side of subscriptions and the reconnection of peers (`protocol/src/peer/`), composed
   with the exchanges: retries that race an incoming connection.
2. The fail-safe and commissioning: what an expiry in the middle leaves behind.
3. The session table: ids, resumption records, limits on pairing.
4. BDX transfers over `MessageExchange`.
