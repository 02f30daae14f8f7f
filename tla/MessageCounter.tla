---------------------------- MODULE MessageCounter ----------------------------
(***************************************************************************)
(* The outgoing message counters of packages/protocol/src/protocol/        *)
(* MessageCounter.ts: the plain counter of a session and the persisted     *)
(* counter of the group data messages, used by several exchanges at once   *)
(* and surviving crashes of the process.                                   *)
(*                                                                         *)
(* A call of getIncrementedCounter runs without interruption between two   *)
(* awaits; pc[p] says at which await the call of exchange p is suspended.  *)
(* Storage writes of one key land in the order they were issued (external: *)
(* StorageContext); a crash loses the ones that have not landed.           *)
(***************************************************************************)
EXTENDS Integers, Sequences

CONSTANTS Callers,               \* the exchanges that draw counters
          MAX_COUNTER_VALUE,     \* MAX_COUNTER_VALUE_32BIT
          RolloverInfoDifference,
          Configs,               \* options the program constructs counters with
          Starts,                \* random start values
          MaxCalls,              \* bound: calls of getIncrementedCounter
          MaxCrashes,            \* bound: process crashes
          MaxWriteFailures       \* bound: failing storage writes

Counters == 0 .. MAX_COUNTER_VALUE
Modulus == MAX_COUNTER_VALUE + 1
NoValue == -1
Infinity == 2 * Modulus          \* #reserved before the first reservation

\* A random start is a number of 28 bits plus 1, below the warning; a seed may be any
\* counter (SessionManager passes on a maximum that an older version has stored).
ASSUME CounterAssumption ==
    /\ MAX_COUNTER_VALUE \in Nat
    /\ RolloverInfoDifference \in 0 .. MAX_COUNTER_VALUE - 1
    /\ Starts \subseteq 0 .. MAX_COUNTER_VALUE - RolloverInfoDifference - 1
    /\ Configs \subseteq [persisted : BOOLEAN, onRollover : BOOLEAN, reserve : Nat,
                         seed : Counters \cup {NoValue}]
    /\ "construction" \notin Callers

\* The bounds keep the counter from being used for a whole round, so that an
\* equal value is a repeated value.
ASSUME BoundAssumption ==
    /\ MaxCalls \in Nat /\ MaxCrashes \in Nat /\ MaxWriteFailures \in Nat
    /\ \A c \in Configs :
          2 * (MaxCalls + (MaxCrashes + 1) * c.reserve) < Modulus

VARIABLES config,          \* options; reserve = 0 and seed = NoValue: undefined
          phase,           \* "down", "starting" (construction pending) or "up"
          messageCounter,
          reserved,        \* #reserved
          stored,          \* storage: the persisted value, NoValue if none
          writes,          \* storage: pending writes <<value, owner>>
          pc, value,       \* per call: where it is suspended, its local counter
          microtasks,      \* calls whose await of super's call is settled, in order
          warned,          \* onRollover has been called in this process
          seeded,          \* this process started from the seed
          calls, crashes, failures,
          issued,          \* history: how often each value has been returned
          raced,           \* history: values read after the onRollover await
          exposed          \* history: values returned before storage covers them

state == <<messageCounter, reserved, stored, writes, pc, value, microtasks, warned,
           seeded>>
history == <<issued, raced, exposed>>
bounds == <<calls, crashes, failures>>
vars == <<config, phase, state, history, bounds>>

Owners == Callers \cup {"construction"}
Points == {"idle", "callback", "resumed", "writing", "written"}

MinOf(a, b) == IF a < b THEN a ELSE b

-----------------------------------------------------------------------------
\* A restart that finds mark resumes above v: v is not among the values ahead.
Covers(mark, v) ==
    mark # NoValue /\ ~(((v - mark - 1) % Modulus) * 2 < Modulus)

\* The call of p returns v to its exchange.
Returned(p, v) ==
    /\ issued' = [issued EXCEPT ![v] = @ + 1]
    /\ exposed' = IF config.persisted /\ ~Covers(stored, v)
                  THEN exposed \cup {v} ELSE exposed

\* The synchronous part of super.getIncrementedCounter() up to its return or to
\* "await this.onRollover()"; then the plain class returns, the persisted one
\* resumes in a later microtask.
Proceed(p, v) ==
    /\ value' = [value EXCEPT ![p] = v]
    /\ IF config.persisted
         THEN /\ pc' = [pc EXCEPT ![p] = "resumed"]
              /\ microtasks' = Append(microtasks, p)
              /\ UNCHANGED <<issued, exposed>>
         ELSE /\ pc' = [pc EXCEPT ![p] = "idle"]
              /\ Returned(p, v)
              /\ UNCHANGED microtasks

Rollover == messageCounter + 1 > MAX_COUNTER_VALUE
NearRollover(c) == c = MAX_COUNTER_VALUE - RolloverInfoDifference

\* Slip: the counter is not reset at the end of its range.
IncrementWithoutWrap(p) ==
    /\ messageCounter' = messageCounter + 1
    /\ IF config.onRollover /\ NearRollover(messageCounter + 1)
         THEN /\ warned' = TRUE
              /\ pc' = [pc EXCEPT ![p] = "callback"]
              /\ UNCHANGED <<value, microtasks, issued, exposed>>
         ELSE Proceed(p, messageCounter + 1) /\ UNCHANGED warned
    /\ UNCHANGED <<reserved, stored, writes, seeded, raced>>

\* The increment of getIncrementedCounter.  Without a callback a call at the end of the
\* range throws, and so does every later one: the counter saturates here.
Increment(p) ==
    /\ CASE Rollover /\ config.onRollover ->
              /\ messageCounter' = 0
              /\ Proceed(p, 0)
              /\ UNCHANGED warned
         [] Rollover /\ ~config.onRollover ->     \* throws InternalError
              /\ messageCounter' = MAX_COUNTER_VALUE + 1
              /\ UNCHANGED <<pc, value, microtasks, warned, issued, exposed>>
         [] ~Rollover /\ config.onRollover /\ NearRollover(messageCounter + 1) ->
              /\ messageCounter' = messageCounter + 1
              /\ warned' = TRUE
              /\ pc' = [pc EXCEPT ![p] = "callback"]
              /\ UNCHANGED <<value, microtasks, issued, exposed>>
         [] OTHER ->
              /\ messageCounter' = messageCounter + 1
              /\ Proceed(p, messageCounter + 1)
              /\ UNCHANGED warned
    /\ UNCHANGED <<reserved, stored, writes, seeded, raced>>

Call(p) ==
    /\ phase = "up" /\ pc[p] = "idle"
    /\ calls < MaxCalls /\ calls' = calls + 1
    /\ Increment(p)
    /\ UNCHANGED <<config, phase, crashes, failures>>

\* onRollover resolves; "return this.messageCounter" reads the member again.
CallbackResolved(p) ==
    /\ pc[p] = "callback"
    /\ raced' = IF NearRollover(messageCounter) THEN raced ELSE raced \cup {messageCounter}
    /\ Proceed(p, messageCounter)
    /\ UNCHANGED <<config, phase, messageCounter, reserved, stored, writes, warned, seeded,
                   bounds>>

\* #reserveAhead: raises the mark in memory, then writes it.
ReserveAhead(owner) ==
    /\ reserved' = MinOf(messageCounter + config.reserve, MAX_COUNTER_VALUE)
    /\ writes' = Append(writes, <<reserved', owner>>)

\* Slip: the wrapped-around values are not reserved.
MustReserveAtBlockEnd(v) == v >= reserved

MustReserve(v) == v >= reserved \/ v < reserved - config.reserve

\* PersistedMessageCounter.getIncrementedCounter after the await of super's.
Resume(p) ==
    /\ microtasks # <<>> /\ p = Head(microtasks)
    /\ microtasks' = Tail(microtasks)
    /\ CASE config.reserve = 0 ->
              /\ writes' = Append(writes, <<value[p], p>>)
              /\ pc' = [pc EXCEPT ![p] = "writing"]
              /\ UNCHANGED <<reserved, issued, exposed>>
         [] config.reserve # 0 /\ MustReserve(value[p]) ->
              /\ ReserveAhead(p)
              /\ pc' = [pc EXCEPT ![p] = "writing"]
              /\ UNCHANGED <<issued, exposed>>
         [] OTHER ->
              /\ pc' = [pc EXCEPT ![p] = "idle"]
              /\ Returned(p, value[p])
              /\ UNCHANGED <<reserved, writes>>
    /\ UNCHANGED <<config, phase, messageCounter, stored, value, warned, seeded,
                   raced, bounds>>

\* The awaited write of p is done and the call returns its counter.
Return(p) ==
    /\ pc[p] = "written"
    /\ pc' = [pc EXCEPT ![p] = "idle"]
    /\ Returned(p, value[p])
    /\ UNCHANGED <<config, phase, messageCounter, reserved, stored, writes, value,
                   microtasks, warned, seeded, raced, bounds>>

-----------------------------------------------------------------------------
(* Storage and process *)

Resolve(owner, point) ==
    IF owner = "construction"
      THEN phase' = (IF point = "written" THEN "up" ELSE "down") /\ pc' = pc
      ELSE pc' = [pc EXCEPT ![owner] = point] /\ phase' = phase

\* storageContext.set resolves.
WriteLands ==
    /\ writes # <<>>
    /\ stored' = Head(writes)[1]
    /\ writes' = Tail(writes)
    /\ Resolve(Head(writes)[2], "written")
    /\ UNCHANGED <<config, messageCounter, reserved, value, microtasks, warned, seeded,
                   history, bounds>>

\* storageContext.set rejects; so does the call, and its counter is not used.
WriteFails ==
    /\ writes # <<>>
    /\ failures < MaxWriteFailures /\ failures' = failures + 1
    /\ writes' = Tail(writes)
    /\ Resolve(Head(writes)[2], "idle")
    /\ UNCHANGED <<config, messageCounter, reserved, stored, value, microtasks, warned,
                   seeded, history, calls, crashes>>

\* Slip: a counter loaded close to its end does not notify.
LoadedNearRolloverIgnored(c) == FALSE

LoadedNearRollover(c) == c >= MAX_COUNTER_VALUE - RolloverInfoDifference

\* Whether the constructor starts from the stored value, and else from the seed.
Loads == config.persisted /\ stored # NoValue
TakesSeed == config.persisted /\ stored = NoValue /\ config.seed # NoValue

\* Slip: the persisted value is not loaded.
InitialCounterNotLoaded(start) == IF TakesSeed THEN config.seed ELSE start

InitialCounter(start) ==
    IF Loads THEN stored ELSE IF TakesSeed THEN config.seed ELSE start

\* The constructor.  Only a loaded counter is compared with the warning value.
Start(start) ==
    /\ phase = "down"
    /\ messageCounter' = InitialCounter(start)
    /\ warned' = (config.onRollover /\ Loads /\ LoadedNearRollover(stored))
    /\ seeded' = TakesSeed
    /\ IF config.persisted /\ config.reserve # 0
         THEN /\ reserved' = MinOf(messageCounter' + config.reserve, MAX_COUNTER_VALUE)
              /\ writes' = <<<<reserved', "construction">>>>
              /\ phase' = "starting"
         ELSE reserved' = Infinity /\ writes' = <<>> /\ phase' = "up"
    /\ UNCHANGED <<config, stored, pc, value, microtasks, history, bounds>>

\* The process dies: memory, suspended calls and pending writes are lost.
Crash ==
    /\ phase # "down" /\ config.persisted
    /\ crashes < MaxCrashes /\ crashes' = crashes + 1
    /\ phase' = "down"
    /\ writes' = <<>>
    /\ pc' = [p \in Callers |-> "idle"]
    /\ microtasks' = <<>>
    /\ UNCHANGED <<config, messageCounter, reserved, stored, value, warned, seeded, history,
                   calls, failures>>

Init ==
    /\ config \in Configs
    /\ phase = "down"
    /\ messageCounter = 0 /\ reserved = Infinity
    /\ stored = NoValue /\ writes = <<>>
    /\ pc = [p \in Callers |-> "idle"]
    /\ value = [p \in Callers |-> 0]
    /\ microtasks = <<>> /\ warned = FALSE /\ seeded = FALSE
    /\ calls = 0 /\ crashes = 0 /\ failures = 0
    /\ issued = [v \in Counters |-> 0]
    /\ raced = {} /\ exposed = {}

Next ==
    \/ \E start \in Starts : Start(start)
    \/ \E p \in Callers : Call(p) \/ CallbackResolved(p) \/ Resume(p) \/ Return(p)
    \/ WriteLands
    \/ WriteFails
    \/ Crash

Spec == Init /\ [][Next]_vars

-----------------------------------------------------------------------------
\* Types of the variables: a counter leaves its 32 bits only where the code throws.
TypeOK ==
    /\ config \in Configs
    /\ phase \in {"down", "starting", "up"}
    /\ messageCounter \in Counters \cup {MAX_COUNTER_VALUE + 1}
    /\ reserved \in Counters \cup {Infinity}
    /\ stored \in Counters \cup {NoValue}
    /\ writes \in Seq(Counters \X Owners)
    /\ pc \in [Callers -> Points]
    /\ value \in [Callers -> Counters]
    /\ microtasks \in Seq(Callers)
    /\ warned \in BOOLEAN /\ seeded \in BOOLEAN
    /\ issued \in [Counters -> Nat]
    /\ raced \subseteq Counters
    /\ exposed \subseteq Counters

\* No value is returned twice, over wraps and crashes, except the ones that an
\* overtaken onRollover await or an unfinished write of the mark lets through
\* (a second call during the await; a crash during the write).
RepeatedOnlyByRace ==
    \A v \in Counters : issued[v] > 1 => v \in raced \cup exposed

\* A value leaves getIncrementedCounter uncovered by storage only while a write
\* of another call is under way, or after a write has failed: a single exchange
\* never uses a counter that a restart could use again.
CoveredBeforeUse ==
    [][exposed' # exposed => writes # <<>> \/ failures > 0]_vars

\* This process started from a seed at or beyond the value whose passing warns.
SeededPastWarning ==
    seeded /\ config.seed >= MAX_COUNTER_VALUE - RolloverInfoDifference

\* A process whose counter wraps has called onRollover before, whether it counted up to
\* the end or loaded a value close to it, over crashes and failed writes.  The one way
\* round the callback is a seed from beyond the warning value, which the constructor
\* takes without a comparison; a process that loads what this one has stored warns again.
WarnedBeforeRollover ==
    [][phase = "up" /\ messageCounter' < messageCounter => warned \/ SeededPastWarning]_vars

\* Every call draws a counter of its own ("incremented for each message").
DrawnOnce == \A v \in Counters : issued[v] <= 1

=============================================================================
