------------------------- MODULE MessageCounterProofs -------------------------
(***************************************************************************)
(* Proofs about the outgoing message counters, for every range of the      *)
(* counter, every reserve and any number of exchanges: values repeat only  *)
(* by the two races named in RepeatedOnlyByRace, over wraps and crashes.   *)
(***************************************************************************)
EXTENDS MessageCounter, TLAPS

-----------------------------------------------------------------------------
(***************************************************************************)
(* The invariant.  Values are compared by their position in one round of   *)
(* the counter that begins with the value s the first process drew from:   *)
(* the bounds keep all that happens within the first half of that round.   *)
(***************************************************************************)

Pos(s, x) == IF x >= s THEN x - s ELSE x - s + Modulus

\* The last value that was drawn: a counter that has left its range has drawn the last.
Top == MinOf(messageCounter, MAX_COUNTER_VALUE)

Near == MAX_COUNTER_VALUE - RolloverInfoDifference

\* How far values get in a session that n processes were part of.
Reach(n) == calls + n * config.reserve

\* The calls that have drawn a value and not returned it, and those of them whose mark
\* or value was passed to storage.
Active(p) == pc[p] \in {"resumed", "writing", "written"}
Saving(p) == pc[p] \in {"writing", "written"}

\* What storage holds once all writes have landed.
Newest == IF writes = <<>> THEN stored ELSE writes[Len(writes)][1]

Excused(v) == v \in raced \cup exposed

\* Which calls are suspended where, in each phase of a process.
Control ==
    /\ calls \in 0 .. MaxCalls /\ crashes \in 0 .. MaxCrashes /\ failures \in Nat
    /\ phase # "up" => microtasks = <<>> /\ \A p \in Callers : pc[p] = "idle"
    /\ phase = "down" => writes = <<>>
    /\ phase = "starting" => /\ config.persisted /\ config.reserve # 0
                             /\ writes = <<<<reserved, "construction">>>>
    /\ phase # "down" => Near >= 1

\* The owners of writes and the calls in the queue of microtasks are suspended there, once.
Queues ==
    /\ phase = "up" => \A i \in 1 .. Len(writes) :
                          writes[i][2] \in Callers /\ pc[writes[i][2]] = "writing"
    /\ \A i, j \in 1 .. Len(writes) : writes[i][2] = writes[j][2] => i = j
    /\ \A i \in 1 .. Len(microtasks) : pc[microtasks[i]] = "resumed"
    /\ \A i, j \in 1 .. Len(microtasks) : microtasks[i] = microtasks[j] => i = j

\* The plain counter suspends only for its callback, and stores nothing.
PlainCounter ==
    ~config.persisted =>
        /\ writes = <<>> /\ microtasks = <<>> /\ stored = NoValue /\ exposed = {}
        /\ \A p \in Callers : ~Active(p)
        /\ phase = "down" => \A v \in Counters : issued[v] = 0

\* onRollover was called, or could not be because the seed was beyond its value.
Alerted == warned \/ SeededPastWarning

\* A process has called onRollover before it comes close to the end.
Warned ==
    config.onRollover =>
        /\ messageCounter <= MAX_COUNTER_VALUE
        /\ phase # "down" /\ messageCounter >= Near => Alerted

\* Where counter, storage and calls are in the round.
Positions(s) ==
    /\ phase # "down" => Pos(s, Top) <= Reach(crashes)
    /\ stored # NoValue =>
          /\ Pos(s, stored) <= Reach(IF phase = "up" THEN crashes + 1 ELSE crashes)
          /\ \A i \in 1 .. Len(writes) : Pos(s, stored) <= Pos(s, writes[i][1])
    /\ \A i, j \in 1 .. Len(writes) : i <= j => Pos(s, writes[i][1]) <= Pos(s, writes[j][1])
    /\ \A i \in 1 .. Len(writes) : Pos(s, writes[i][1]) <= Reach(crashes + 1)
    /\ \A p \in Callers : Active(p) => Pos(s, value[p]) \in 1 .. Pos(s, Top)
    /\ \A p \in Callers : pc[p] = "callback" =>
          config.onRollover /\ Pos(s, Near) \in 1 .. Pos(s, Top)

\* With a reserve: marks never go back.
Reserved(s) ==
    config.persisted /\ config.reserve # 0 /\ phase # "down" =>
        /\ reserved \in Counters
        /\ Pos(s, reserved) <= Pos(s, MinOf(Top + config.reserve, MAX_COUNTER_VALUE))
        /\ Newest # NoValue => Pos(s, Newest) <= Pos(s, reserved)
        /\ failures = 0 => Newest = reserved

\* Without a reserve: values are stored in the order they were drawn.
Unreserved(s) ==
    config.persisted /\ config.reserve = 0 /\ phase = "up" =>
        /\ Newest # NoValue => Pos(s, Newest) <= Pos(s, Top)
        /\ \A i \in 1 .. Len(microtasks) :
              Newest # NoValue => Pos(s, Newest) <= Pos(s, value[microtasks[i]])
        /\ \A i, j \in 1 .. Len(microtasks) :
              i <= j => Pos(s, value[microtasks[i]]) <= Pos(s, value[microtasks[j]])

\* While no write has failed, storage will cover what a call waits to return.
Covering(s) ==
    failures = 0 =>
        \A p \in Callers : Saving(p) => Newest # NoValue /\ Pos(s, value[p]) <= Pos(s, Newest)

\* What was returned and is not exposed lies behind the counter and what is stored.
Behind(s) ==
    \A v \in Counters : issued[v] > 0 /\ v \notin exposed =>
        /\ phase # "down" => Pos(s, v) <= Pos(s, Top)
        /\ config.persisted => stored # NoValue /\ Pos(s, v) <= Pos(s, stored)

\* Values drawn are new, but for the races.
Unique ==
    /\ \A p, q \in Callers : Active(p) /\ Active(q) /\ value[p] = value[q] =>
          p = q \/ Excused(value[p])
    /\ \A p \in Callers : Active(p) /\ issued[value[p]] > 0 => Excused(value[p])
    /\ \A p \in Callers : pc[p] = "callback" /\ messageCounter = Near =>
          /\ \A q \in Callers : pc[q] = "callback" => q = p
          /\ \A q \in Callers : Active(q) => value[q] # messageCounter
          /\ issued[messageCounter] > 0 => Excused(messageCounter)

Round(s) ==
    Positions(s) /\ Reserved(s) /\ Unreserved(s) /\ Covering(s) /\ Behind(s)

Inv ==
    /\ TypeOK /\ Control /\ Queues /\ PlainCounter /\ Warned
    /\ \E s \in Counters : Round(s)
    /\ Unique
    /\ RepeatedOnlyByRace

-----------------------------------------------------------------------------
(***************************************************************************)
(* Positions.                                                              *)
(***************************************************************************)

\* The range of the counter.
LEMMA RangeFacts ==
    /\ MAX_COUNTER_VALUE \in Nat /\ Modulus \in Nat /\ Modulus = MAX_COUNTER_VALUE + 1
    /\ RolloverInfoDifference \in 0 .. MAX_COUNTER_VALUE
    /\ Near \in Counters /\ Near + RolloverInfoDifference = MAX_COUNTER_VALUE
  BY CounterAssumption DEF Modulus, Near, Counters

\* Whether a process has warned or could not depends on three variables only.
LEMMA AlertedSame ==
    ASSUME config' = config, warned' = warned, seeded' = seeded
    PROVE  Alerted' = Alerted
  BY DEF Alerted, SeededPastWarning

\* A position is a number of the round, and different values have different ones.
LEMMA PosFacts ==
    ASSUME NEW s \in Counters, NEW x \in Counters
    PROVE  /\ Pos(s, x) \in 0 .. MAX_COUNTER_VALUE /\ Pos(s, x) \in Nat
           /\ \A y \in Counters : Pos(s, y) = Pos(s, x) => y = x
  BY RangeFacts DEF Pos, Counters

\* The round begins at s.
LEMMA PosStart ==
    ASSUME NEW s \in Counters
    PROVE  Pos(s, s) = 0
  BY RangeFacts DEF Pos, Counters

\* The next value is one further, unless the round is over.
LEMMA PosNext ==
    ASSUME NEW s \in Counters, NEW x \in Counters, Pos(s, x) < MAX_COUNTER_VALUE, NEW y,
           y = IF x = MAX_COUNTER_VALUE THEN 0 ELSE x + 1
    PROVE  y \in Counters /\ Pos(s, y) = Pos(s, x) + 1
  BY RangeFacts DEF Pos, Counters

\* A mark lies ahead of its value, by the reserve at most.
LEMMA PosMark ==
    ASSUME NEW s \in Counters, NEW x \in Counters, NEW r \in Nat, Pos(s, x) + r < Modulus
    PROVE  /\ MinOf(x + r, MAX_COUNTER_VALUE) \in Counters
           /\ Pos(s, x) <= Pos(s, MinOf(x + r, MAX_COUNTER_VALUE))
           /\ Pos(s, MinOf(x + r, MAX_COUNTER_VALUE)) <= Pos(s, x) + r
  BY RangeFacts DEF Pos, Counters, MinOf

\* Marks advance with their values.
LEMMA PosMarks ==
    ASSUME NEW s \in Counters, NEW x \in Counters, NEW y \in Counters, NEW r \in Nat,
           Pos(s, x) <= Pos(s, y), Pos(s, y) + r < Modulus
    PROVE  Pos(s, MinOf(x + r, MAX_COUNTER_VALUE)) <= Pos(s, MinOf(y + r, MAX_COUNTER_VALUE))
  BY RangeFacts DEF Pos, Counters, MinOf

\* A value of the block below a mark is behind the mark.
LEMMA PosBlock ==
    ASSUME NEW s \in Counters, NEW x \in Counters, NEW y \in Counters, NEW r \in Nat,
           x < y, x >= y - r, Pos(s, x) + r < Modulus
    PROVE  Pos(s, x) <= Pos(s, y)
  BY RangeFacts DEF Pos, Counters

\* The remainder of a number is the number up to a multiple of the divisor.
LEMMA Remainder ==
    ASSUME NEW x \in Int, NEW m \in Nat \ {0}
    PROVE  x % m \in 0 .. m - 1 /\ \E k \in Int : x = m * k + (x % m)
<1>1. x % m \in 0 .. m - 1
  BY SMT
<1>2. x \div m \in Int /\ x = m * (x \div m) + (x % m)
  BY SMT
<1> QED
  BY <1>1, <1>2

\* In the first half of the round a mark covers exactly the values that are not ahead of it.
LEMMA CoversIs ==
    ASSUME NEW s \in Counters, NEW mark \in Counters, NEW v \in Counters,
           2 * Pos(s, mark) < Modulus, 2 * Pos(s, v) < Modulus, Pos(s, v) >= 1
    PROVE  Covers(mark, v) <=> Pos(s, v) <= Pos(s, mark)
<1> DEFINE d == Pos(s, v) - Pos(s, mark) - 1
           x == v - mark - 1
           m == x % Modulus
<1>1. Pos(s, v) \in Nat /\ Pos(s, mark) \in Nat
  BY PosFacts
<1>2. d \in Int /\ 2 * d < Modulus - 1 /\ 2 * d > -Modulus
  BY <1>1, RangeFacts
<1>3. x \in Int /\ (x = d \/ x = d + Modulus \/ x = d - Modulus)
  BY RangeFacts DEF Pos, Counters
<1>4. Modulus \in Nat \ {0}
  BY RangeFacts
<1>5. m \in 0 .. Modulus - 1 /\ \E k \in Int : x = Modulus * k + m
  BY <1>3, <1>4, Remainder
<1> HIDE DEF d, x, m
<1>6. m = d \/ m = d + Modulus
  <2>1. PICK k \in Int : x = Modulus * k + m
    BY <1>5
  <2> QED
    BY <1>2, <1>3, <1>4, <1>5, <2>1, SMT
<1>7. NoValue # mark
  BY DEF NoValue, Counters
<1>8. Covers(mark, v) <=> ~(m * 2 < Modulus)
  BY <1>7 DEF Covers, m, x
<1>9. Pos(s, v) <= Pos(s, mark) <=> d < 0
  BY <1>1 DEF d
<1>10. ~(m * 2 < Modulus) <=> d < 0
  BY <1>2, <1>4, <1>5, <1>6
<1> QED
  BY <1>8, <1>9, <1>10

-----------------------------------------------------------------------------
(***************************************************************************)
(* What holds in every state.                                              *)
(***************************************************************************)

\* The options, and the bounds: nothing gets beyond the first half of the round.
LEMMA HalfRound ==
    ASSUME config \in Configs, NEW k \in 0 .. MaxCalls, NEW c \in 0 .. MaxCrashes
    PROVE  /\ config.reserve \in Nat /\ config.persisted \in BOOLEAN
           /\ config.onRollover \in BOOLEAN
           /\ k + c * config.reserve \in Nat
           /\ k + (c + 1) * config.reserve = k + c * config.reserve + config.reserve
           /\ 2 * (k + (c + 1) * config.reserve) < Modulus
<1> DEFINE r == config.reserve
<1>1. config.reserve \in Nat /\ config.persisted \in BOOLEAN /\ config.onRollover \in BOOLEAN
  BY CounterAssumption
<1>2. MaxCalls \in Nat /\ MaxCrashes \in Nat /\ 2 * (MaxCalls + (MaxCrashes + 1) * r) < Modulus
  BY BoundAssumption
<1> HIDE DEF r
<1>3. r \in Nat
  BY <1>1 DEF r
<1>4. k \in Nat /\ c \in Nat /\ k <= MaxCalls /\ c + 1 <= MaxCrashes + 1
  BY <1>2
<1>5. \A i, j, l \in Nat : i <= j => i * l <= j * l /\ i * l \in Nat /\ j * l \in Nat
  BY SMT
<1>6. (c + 1) * r <= (MaxCrashes + 1) * r /\ c * r \in Nat /\ (c + 1) * r \in Nat
      /\ (MaxCrashes + 1) * r \in Nat
  BY <1>2, <1>3, <1>4, <1>5
<1>7. (c + 1) * r = c * r + r
  BY <1>3, <1>4, SMT
<1>8. 2 * (k + (c + 1) * r) < Modulus
  BY <1>2, <1>4, <1>6, RangeFacts
<1> QED
  BY <1>1, <1>3, <1>4, <1>6, <1>7, <1>8 DEF r

\* The last value drawn is in the range.
LEMMA TopFacts ==
    ASSUME TypeOK
    PROVE  /\ Top \in Counters
           /\ messageCounter <= MAX_COUNTER_VALUE => Top = messageCounter
           /\ messageCounter > MAX_COUNTER_VALUE => Top = MAX_COUNTER_VALUE
           /\ messageCounter \in Nat /\ messageCounter <= MAX_COUNTER_VALUE + 1
  BY RangeFacts DEF TypeOK, Top, MinOf, Counters

\* The last value stored or on its way to storage.
LEMMA NewestFacts ==
    ASSUME TypeOK
    PROVE  /\ Newest \in Counters \cup {NoValue} /\ NoValue \notin Counters
           /\ writes # <<>> => Newest \in Counters /\ Len(writes) \in 1 .. Len(writes)
           /\ \A i \in 1 .. Len(writes) : writes[i][1] \in Counters /\ writes[i][2] \in Owners
           /\ Len(writes) \in Nat
<1>1. writes \in Seq(Counters \X Owners) /\ stored \in Counters \cup {NoValue}
  BY DEF TypeOK
<1>2. Len(writes) \in Nat /\ \A i \in 1 .. Len(writes) : writes[i] \in Counters \X Owners
  BY <1>1
<1>3. writes # <<>> => Len(writes) \in 1 .. Len(writes)
  BY <1>1
<1>4. NoValue \notin Counters
  BY RangeFacts DEF Counters, NoValue
<1>5. \A i \in 1 .. Len(writes) : writes[i][1] \in Counters /\ writes[i][2] \in Owners
  BY <1>2
<1> QED
  BY <1>1, <1>2, <1>3, <1>4, <1>5 DEF Newest

\* What the invariant says about numbers, in one place.
LEMMA Numbers ==
    ASSUME Inv, NEW s \in Counters
    PROVE  /\ calls \in Nat /\ crashes \in Nat /\ config.reserve \in Nat
           /\ calls \in 0 .. MaxCalls /\ crashes \in 0 .. MaxCrashes
           /\ Top \in Counters /\ Pos(s, Top) \in Nat
           /\ \A x \in Counters : Pos(s, x) \in Nat
           /\ Reach(crashes) \in Nat /\ Reach(crashes + 1) \in Nat
           /\ Reach(crashes + 1) = Reach(crashes) + config.reserve
           /\ 2 * Reach(crashes + 1) < Modulus
           /\ Reach(crashes) + config.reserve < Modulus
<1>1. TypeOK /\ calls \in 0 .. MaxCalls /\ crashes \in 0 .. MaxCrashes /\ config \in Configs
  BY DEF Inv, Control, TypeOK
<1>2. /\ config.reserve \in Nat
      /\ calls + crashes * config.reserve \in Nat
      /\ calls + (crashes + 1) * config.reserve = calls + crashes * config.reserve + config.reserve
      /\ 2 * (calls + (crashes + 1) * config.reserve) < Modulus
  BY <1>1, HalfRound
<1>3. Top \in Counters
  BY <1>1, TopFacts
<1>4. \A x \in Counters : Pos(s, x) \in Nat
  BY PosFacts
<1>5. calls \in Nat /\ crashes \in Nat
  BY <1>1
<1>6. /\ Reach(crashes) \in Nat
      /\ Reach(crashes + 1) = Reach(crashes) + config.reserve
      /\ 2 * Reach(crashes + 1) < Modulus
  BY <1>2 DEF Reach
<1>7. Reach(crashes + 1) \in Nat
  BY <1>2, <1>6
<1>8. Reach(crashes) + config.reserve < Modulus
  BY <1>6, <1>7, RangeFacts
<1> QED
  BY <1>1, <1>2, <1>3, <1>4, <1>5, <1>6, <1>7, <1>8

\* Positions have more room the more calls there were.
LEMMA ReachGrows ==
    ASSUME Inv, UNCHANGED <<config, crashes>>, calls' \in calls .. MaxCalls
    PROVE  /\ Reach(crashes)' \in Nat
           /\ Reach(crashes + 1)' = Reach(crashes)' + config.reserve
           /\ 2 * Reach(crashes + 1)' < Modulus
           /\ Reach(crashes)' >= Reach(crashes) /\ Reach(crashes + 1)' >= Reach(crashes + 1)
           /\ Reach(crashes + 1)' \in Nat
<1>type. TypeOK
  BY DEF Inv
<1>num. /\ calls \in Nat /\ crashes \in Nat /\ config.reserve \in Nat
        /\ Reach(crashes) \in Nat /\ Reach(crashes + 1) \in Nat
        /\ Reach(crashes + 1) = Reach(crashes) + config.reserve
        /\ crashes \in 0 .. MaxCrashes /\ calls \in 0 .. MaxCalls
  <2>1. 0 \in Counters
    BY RangeFacts DEF Counters
  <2> QED
    BY <2>1, Numbers
<1>max. MaxCalls \in Nat
  BY BoundAssumption
<1>1. calls' \in 0 .. MaxCalls /\ calls' >= calls
  BY <1>num, <1>max
<1>2. /\ calls' + crashes * config.reserve \in Nat
      /\ calls' + (crashes + 1) * config.reserve
           = calls' + crashes * config.reserve + config.reserve
      /\ 2 * (calls' + (crashes + 1) * config.reserve) < Modulus
  BY <1>1, <1>type, <1>num, HalfRound DEF TypeOK
<1>3. Reach(crashes)' = calls' + crashes * config.reserve
      /\ Reach(crashes + 1)' = calls' + (crashes + 1) * config.reserve
  BY DEF Reach
<1>4. Reach(crashes) = calls + crashes * config.reserve
  BY DEF Reach
<1> DEFINE m == crashes * config.reserve
<1>5. m \in Int
  BY <1>num, SMT
<1>6. Reach(crashes)' = calls' + m /\ Reach(crashes) = calls + m
  BY <1>3, <1>4
<1> HIDE DEF m
<1>7. Reach(crashes)' >= Reach(crashes)
  <2>1. calls \in Int /\ calls' \in Int
    BY <1>1, <1>num, <1>max
  <2>add. \A i, j, k \in Int : i >= j => i + k >= j + k
    OBVIOUS
  <2>2. calls' + m >= calls + m
    BY <2>1, <2>add, <1>1, <1>5, Zenon
  <2> QED
    BY <2>2, <1>6, Zenon
<1>8. /\ Reach(crashes)' \in Nat
      /\ Reach(crashes + 1)' = Reach(crashes)' + config.reserve
      /\ 2 * Reach(crashes + 1)' < Modulus
  BY <1>2, <1>3
<1> QED
  BY <1>7, <1>8, <1>num

\* A call draws v, the value of the counter, which nobody else holds but for the races: the
\* call goes on (persisted) or returns (plain).
LEMMA ProceedInv ==
    ASSUME Inv, NEW s \in Counters, Round(s), NEW p \in Callers, NEW v \in Counters,
           phase = "up", pc[p] \in {"idle", "callback"},
           Proceed(p, v), messageCounter' = v,
           UNCHANGED <<config, phase, reserved, stored, writes, crashes, failures>>,
           calls' \in calls .. MaxCalls,
           Pos(s, Top) <= Pos(s, v), Pos(s, v) >= 1, Pos(s, v) <= Reach(crashes)',
           raced \subseteq raced', raced' \subseteq Counters, warned' \in BOOLEAN, seeded' \in BOOLEAN,
           config.onRollover /\ v >= Near => Alerted',
           v \in raced' \/ \A q \in Callers : Active(q) => value[q] # v,
           issued[v] > 0 => v \in raced' \cup exposed,
           \A q \in Callers : q # p /\ pc[q] = "callback" => v # Near
    PROVE  Inv'
<1>type. TypeOK
  BY DEF Inv
<1>parts. Control /\ Queues /\ PlainCounter /\ Warned /\ Unique /\ RepeatedOnlyByRace
          /\ Positions(s) /\ Reserved(s) /\ Unreserved(s) /\ Covering(s) /\ Behind(s)
  BY DEF Inv, Round
<1>num. /\ calls \in Nat /\ crashes \in Nat /\ config.reserve \in Nat
        /\ Top \in Counters /\ Pos(s, Top) \in Nat
        /\ \A x \in Counters : Pos(s, x) \in Nat
        /\ Reach(crashes) \in Nat /\ Reach(crashes + 1) \in Nat
        /\ Reach(crashes + 1) = Reach(crashes) + config.reserve
        /\ crashes \in 0 .. MaxCrashes /\ calls \in 0 .. MaxCalls
  BY Numbers
<1>max. MaxCalls \in Nat
  BY BoundAssumption
<1>num2. /\ Reach(crashes)' \in Nat
         /\ Reach(crashes + 1)' = Reach(crashes)' + config.reserve
         /\ 2 * Reach(crashes + 1)' < Modulus
         /\ Reach(crashes)' >= Reach(crashes) /\ Reach(crashes + 1)' >= Reach(crashes + 1)
         /\ Reach(crashes + 1)' \in Nat
  BY ReachGrows
<1>top. Top' = v /\ Pos(s, v) \in Nat
  BY <1>num, RangeFacts DEF Top, MinOf, Counters
<1>same. /\ config' = config /\ phase' = "up" /\ reserved' = reserved /\ stored' = stored
         /\ writes' = writes /\ crashes' = crashes /\ failures' = failures
         /\ Newest' = Newest
  BY DEF Newest
<1>pc. /\ pc \in [Callers -> Points] /\ value \in [Callers -> Counters]
       /\ microtasks \in Seq(Callers) /\ issued \in [Counters -> Nat]
       /\ config.persisted \in BOOLEAN /\ config.onRollover \in BOOLEAN
  BY <1>type, HalfRound, <1>num DEF TypeOK
<1>val. /\ value' = [value EXCEPT ![p] = v] /\ value'[p] = v
        /\ \A q \in Callers : q # p => value'[q] = value[q] /\ pc'[q] = pc[q]
        /\ pc'[p] = IF config.persisted THEN "resumed" ELSE "idle"
        /\ value' \in [Callers -> Counters] /\ pc' \in [Callers -> Points]
  BY <1>pc DEF Proceed, Points
<1>iss. /\ config.persisted => issued' = issued
        /\ ~config.persisted => issued' = [issued EXCEPT ![v] = @ + 1]
        /\ exposed' = exposed /\ issued' \in [Counters -> Nat]
  BY <1>pc DEF Proceed, Returned
<1>mic. /\ config.persisted => microtasks' = Append(microtasks, p)
        /\ ~config.persisted => microtasks' = microtasks
        /\ microtasks' \in Seq(Callers)
  <2>1. Append(microtasks, p) \in Seq(Callers)
    BY <1>pc
  <2> QED
    BY <2>1, <1>pc DEF Proceed
<1>act. /\ \A q \in Callers : q # p => (Active(q)' <=> Active(q)) /\ (Saving(q)' <=> Saving(q))
        /\ ~Saving(p)' /\ (Active(p)' => config.persisted)
        /\ ~Active(p)
  BY <1>val DEF Active, Saving
<1>1. TypeOK'
  BY <1>type, <1>same, <1>val, <1>iss, <1>mic DEF TypeOK
<1>2. Control'
  <2>1. calls' \in 0 .. MaxCalls
    BY <1>num, <1>max
  <2> QED
    BY <2>1, <1>parts, <1>same DEF Control
<1>3. Queues'
  <2>1. ASSUME NEW i \in 1 .. Len(writes)
        PROVE  writes[i][2] \in Callers /\ pc'[writes[i][2]] = "writing"
    <3>1. writes[i][2] \in Callers /\ pc[writes[i][2]] = "writing"
      BY <1>parts DEF Queues
    <3>2. writes[i][2] # p
      BY <3>1
    <3> QED
      BY <3>1, <3>2, <1>val
  <2>2. ASSUME NEW i \in 1 .. Len(microtasks)
        PROVE  microtasks[i] # p /\ microtasks[i] \in Callers /\ pc'[microtasks[i]] = "resumed"
    <3>1. pc[microtasks[i]] = "resumed"
      BY <1>parts DEF Queues
    <3>2. microtasks[i] # p /\ microtasks[i] \in Callers
      BY <3>1, <1>pc
    <3> QED
      BY <3>1, <3>2, <1>val
  <2>ap. config.persisted =>
           /\ Len(microtasks)' = Len(microtasks) + 1 /\ Len(microtasks) \in Nat
           /\ microtasks'[Len(microtasks) + 1] = p
           /\ \A i \in 1 .. Len(microtasks) : microtasks'[i] = microtasks[i]
    <3> SUFFICES ASSUME config.persisted
                 PROVE  /\ Len(microtasks)' = Len(microtasks) + 1 /\ Len(microtasks) \in Nat
                        /\ microtasks'[Len(microtasks) + 1] = p
                        /\ \A i \in 1 .. Len(microtasks) : microtasks'[i] = microtasks[i]
      OBVIOUS
    <3>1. microtasks' = Append(microtasks, p) /\ microtasks \in Seq(Callers)
      BY <1>mic, <1>pc
    <3>2. Len(microtasks)' = Len(microtasks) + 1 /\ Len(microtasks) \in Nat
      BY <3>1
    <3>3. microtasks'[Len(microtasks) + 1] = p
      BY <3>1
    <3>4. \A i \in 1 .. Len(microtasks) : microtasks'[i] = microtasks[i]
      BY <3>1
    <3> QED
      BY <3>2, <3>3, <3>4
  <2>3. ASSUME NEW i \in (1 .. Len(microtasks))'
        PROVE  pc'[microtasks'[i]] = "resumed"
    <3>1. CASE ~config.persisted
      BY <3>1, <2>2, <1>mic
    <3>2. CASE config.persisted
      <4>1. CASE i \in 1 .. Len(microtasks)
        BY <4>1, <3>2, <2>2, <2>ap
      <4>2. CASE i = Len(microtasks) + 1
        BY <4>2, <3>2, <2>ap, <1>val
      <4> QED
        BY <4>1, <4>2, <3>2, <2>ap
    <3> QED
      BY <3>1, <3>2
  <2>4. ASSUME NEW i \in (1 .. Len(microtasks))', NEW j \in (1 .. Len(microtasks))',
               microtasks'[i] = microtasks'[j]
        PROVE  i = j
    <3>1. \A k, l \in 1 .. Len(microtasks) : microtasks[k] = microtasks[l] => k = l
      BY <1>parts DEF Queues
    <3>2. CASE ~config.persisted
      BY <3>1, <3>2, <2>4, <1>mic
    <3>3. CASE config.persisted
      BY <3>1, <3>3, <2>2, <2>4, <2>ap
    <3> QED
      BY <3>2, <3>3
  <2>5. \A i, j \in 1 .. Len(writes) : writes[i][2] = writes[j][2] => i = j
    BY <1>parts DEF Queues
  <2> QED
    BY <2>1, <2>3, <2>4, <2>5, <1>same DEF Queues
<1>4. PlainCounter'
  BY <1>parts, <1>same, <1>act, <1>iss, <1>mic DEF PlainCounter
<1>5. Warned'
  BY <1>same, RangeFacts DEF Warned, Counters
<1>6. Positions(s)'
  <2>1. (phase # "down" => Pos(s, Top) <= Reach(crashes))'
    BY <1>top
  <2>2. ASSUME stored # NoValue
        PROVE  /\ Pos(s, stored) <= Reach(crashes + 1)'
               /\ \A i \in 1 .. Len(writes) : Pos(s, stored) <= Pos(s, writes[i][1])
    <3>1. stored \in Counters
      BY <2>2, <1>type DEF TypeOK
    <3>2. /\ Pos(s, stored) <= Reach(crashes + 1)
          /\ \A i \in 1 .. Len(writes) : Pos(s, stored) <= Pos(s, writes[i][1])
      BY <2>2, <1>parts DEF Positions
    <3> QED
      BY <3>1, <3>2, <1>num, <1>num2
  <2>3. \A i, j \in 1 .. Len(writes) : i <= j => Pos(s, writes[i][1]) <= Pos(s, writes[j][1])
    BY <1>parts DEF Positions
  <2>4. \A i \in 1 .. Len(writes) : Pos(s, writes[i][1]) <= Reach(crashes + 1)'
    <3>1. \A i \in 1 .. Len(writes) : Pos(s, writes[i][1]) <= Reach(crashes + 1)
      BY <1>parts DEF Positions
    <3>2. \A i \in 1 .. Len(writes) : writes[i][1] \in Counters
      BY <1>type, NewestFacts
    <3>3. ASSUME NEW i \in 1 .. Len(writes)
          PROVE  Pos(s, writes[i][1]) <= Reach(crashes + 1)'
      <4>1. writes[i][1] \in Counters /\ Pos(s, writes[i][1]) <= Reach(crashes + 1)
        BY <3>1, <3>2
      <4>2. Pos(s, writes[i][1]) \in Nat
        BY <4>1, <1>num
      <4>3. Reach(crashes + 1) \in Nat /\ Reach(crashes + 1)' \in Nat
            /\ Reach(crashes + 1)' >= Reach(crashes + 1)
        BY <1>num, <1>num2
      <4> QED
        BY <4>1, <4>2, <4>3
    <3> QED
      BY <3>3
  <2>5. ASSUME NEW q \in Callers, Active(q)'
        PROVE  Pos(s, value'[q]) \in 1 .. Pos(s, v)
    <3>1. CASE q = p
      BY <3>1, <1>val, <1>top
    <3>2. CASE q # p
      <4>1. Pos(s, value[q]) \in 1 .. Pos(s, Top)
        BY <2>5, <3>2, <1>act, <1>parts DEF Positions
      <4>2. value'[q] = value[q]
        BY <3>2, <1>val
      <4> QED
        BY <4>1, <4>2, <1>num, <1>top
    <3> QED
      BY <3>1, <3>2
  <2>6. ASSUME NEW q \in Callers, pc'[q] = "callback"
        PROVE  config.onRollover /\ Pos(s, Near) \in 1 .. Pos(s, v)
    <3>1. q # p /\ pc[q] = "callback"
      BY <2>6, <1>val
    <3>2. config.onRollover /\ Pos(s, Near) \in 1 .. Pos(s, Top)
      BY <3>1, <1>parts DEF Positions
    <3> QED
      BY <3>2, <1>num, <1>top
  <2>7. Reach(IF phase = "up" THEN crashes + 1 ELSE crashes)' = Reach(crashes + 1)'
    BY <1>same
  <2> QED
    BY <2>1, <2>2, <2>3, <2>4, <2>5, <2>6, <2>7, <1>same, <1>top DEF Positions
<1>7. Reserved(s)'
  <2> SUFFICES ASSUME config.persisted, config.reserve # 0
               PROVE  /\ reserved \in Counters
                      /\ Pos(s, reserved) <= Pos(s, MinOf(v + config.reserve, MAX_COUNTER_VALUE))
                      /\ Newest # NoValue => Pos(s, Newest) <= Pos(s, reserved)
                      /\ failures = 0 => Newest = reserved
    BY <1>same, <1>top DEF Reserved
  <2>1. /\ reserved \in Counters
        /\ Pos(s, reserved) <= Pos(s, MinOf(Top + config.reserve, MAX_COUNTER_VALUE))
        /\ Newest # NoValue => Pos(s, Newest) <= Pos(s, reserved)
        /\ failures = 0 => Newest = reserved
    BY <1>parts DEF Reserved
  <2>2. Pos(s, v) + config.reserve < Modulus
    BY <1>top, <1>num, <1>num2, RangeFacts
  <2>3. Pos(s, MinOf(Top + config.reserve, MAX_COUNTER_VALUE))
          <= Pos(s, MinOf(v + config.reserve, MAX_COUNTER_VALUE))
    BY <2>2, <1>num, PosMarks
  <2>4. Pos(s, Top) + config.reserve < Modulus
    BY <2>2, <1>num, <1>top, RangeFacts
  <2>5. /\ MinOf(Top + config.reserve, MAX_COUNTER_VALUE) \in Counters
        /\ MinOf(v + config.reserve, MAX_COUNTER_VALUE) \in Counters
    BY <2>2, <2>4, <1>num, PosMark
  <2>6. /\ Pos(s, MinOf(Top + config.reserve, MAX_COUNTER_VALUE)) \in Nat
        /\ Pos(s, MinOf(v + config.reserve, MAX_COUNTER_VALUE)) \in Nat
        /\ Pos(s, reserved) \in Nat
    BY <2>1, <2>5, <1>num
  <2>7. Pos(s, reserved) <= Pos(s, MinOf(v + config.reserve, MAX_COUNTER_VALUE))
    BY <2>1, <2>3, <2>6
  <2> QED
    BY <2>1, <2>7
<1>8. Unreserved(s)'
  <2> SUFFICES ASSUME config.persisted, config.reserve = 0
               PROVE  /\ Newest # NoValue => Pos(s, Newest) <= Pos(s, v)
                      /\ (\A i \in 1 .. Len(microtasks) :
                            Newest # NoValue => Pos(s, Newest) <= Pos(s, value[microtasks[i]]))'
                      /\ (\A i, j \in 1 .. Len(microtasks) :
                            i <= j => Pos(s, value[microtasks[i]]) <= Pos(s, value[microtasks[j]]))'
    BY <1>same, <1>top DEF Unreserved
  <2>1. /\ Newest # NoValue => Pos(s, Newest) <= Pos(s, Top)
        /\ \A i \in 1 .. Len(microtasks) :
              Newest # NoValue => Pos(s, Newest) <= Pos(s, value[microtasks[i]])
        /\ \A i, j \in 1 .. Len(microtasks) :
              i <= j => Pos(s, value[microtasks[i]]) <= Pos(s, value[microtasks[j]])
    BY <1>parts DEF Unreserved
  <2>2. Newest # NoValue => Pos(s, Newest) <= Pos(s, v)
    <3>1. Newest # NoValue => Newest \in Counters
      BY <1>type, NewestFacts
    <3> QED
      BY <3>1, <2>1, <1>num, <1>top
  <2>3. microtasks' = Append(microtasks, p)
    BY <1>mic
  <2>4. ASSUME NEW i \in 1 .. Len(microtasks)
        PROVE  /\ microtasks'[i] = microtasks[i] /\ microtasks[i] \in Callers
               /\ value'[microtasks[i]] = value[microtasks[i]]
               /\ value[microtasks[i]] \in Counters
               /\ Pos(s, value[microtasks[i]]) <= Pos(s, v)
    <3>1. pc[microtasks[i]] = "resumed"
      BY <1>parts DEF Queues
    <3>2. microtasks[i] # p /\ microtasks[i] \in Callers
      BY <3>1, <1>pc
    <3>3. microtasks'[i] = microtasks[i]
      BY <2>3, <1>pc
    <3>4. value[microtasks[i]] \in Counters
      BY <3>2, <1>pc
    <3>5. Active(microtasks[i])
      BY <3>1 DEF Active
    <3>6. Pos(s, value[microtasks[i]]) \in 1 .. Pos(s, Top)
      BY <3>2, <3>5, <1>parts DEF Positions
    <3>7. Pos(s, value[microtasks[i]]) <= Pos(s, v)
      BY <3>4, <3>6, <1>num, <1>top
    <3> QED
      BY <3>2, <3>3, <3>4, <3>7, <1>val
  <2>5. /\ Len(microtasks)' = Len(microtasks) + 1 /\ Len(microtasks) \in Nat
        /\ microtasks'[Len(microtasks) + 1] = p
    BY <2>3, <1>pc
  <2>6. ASSUME NEW i \in (1 .. Len(microtasks))', Newest' # NoValue
        PROVE  Pos(s, Newest') <= Pos(s, value'[microtasks'[i]])
    <3>1. CASE i \in 1 .. Len(microtasks)
      BY <3>1, <2>1, <2>4, <2>6, <1>same
    <3>2. CASE i = Len(microtasks) + 1
      BY <3>2, <2>2, <2>5, <2>6, <1>same, <1>val
    <3> QED
      BY <3>1, <3>2, <2>5
  <2>7. ASSUME NEW i \in (1 .. Len(microtasks))', NEW j \in (1 .. Len(microtasks))', i <= j
        PROVE  Pos(s, value'[microtasks'[i]]) <= Pos(s, value'[microtasks'[j]])
    <3>1. CASE j \in 1 .. Len(microtasks)
      <4>1. i \in 1 .. Len(microtasks)
        BY <3>1, <2>5, <2>7
      <4> QED
        BY <4>1, <3>1, <2>1, <2>4, <2>7
    <3>2. CASE j = Len(microtasks) + 1
      <4>1. value'[microtasks'[j]] = v
        BY <3>2, <2>5, <1>val
      <4>2. CASE i \in 1 .. Len(microtasks)
        BY <4>1, <4>2, <2>4
      <4>3. CASE i = Len(microtasks) + 1
        BY <4>1, <4>3, <3>2, <1>top
      <4> QED
        BY <4>2, <4>3, <2>5
    <3> QED
      BY <3>1, <3>2, <2>5
  <2> QED
    BY <2>2, <2>6, <2>7
<1>9. Covering(s)'
  <2>1. ASSUME failures = 0, NEW q \in Callers, Saving(q)'
        PROVE  Newest # NoValue /\ Pos(s, value'[q]) <= Pos(s, Newest)
    <3>1. q # p /\ Saving(q)
      BY <2>1, <1>act
    <3> QED
      BY <2>1, <3>1, <1>parts, <1>val DEF Covering
  <2> QED
    BY <2>1, <1>same DEF Covering
<1>10. Behind(s)'
  <2>1. ASSUME NEW x \in Counters, issued'[x] > 0, x \notin exposed
        PROVE  /\ Pos(s, x) <= Pos(s, v)
               /\ config.persisted => stored # NoValue /\ Pos(s, x) <= Pos(s, stored)
    <3>1. CASE issued[x] > 0
      <4>1. /\ Pos(s, x) <= Pos(s, Top)
            /\ config.persisted => stored # NoValue /\ Pos(s, x) <= Pos(s, stored)
        BY <2>1, <3>1, <1>parts DEF Behind
      <4>2. Pos(s, x) <= Pos(s, v)
        BY <4>1, <1>num, <1>top
      <4> QED
        BY <4>1, <4>2
    <3>2. CASE ~(issued[x] > 0)
      <4>1. ~config.persisted /\ x = v
        BY <2>1, <3>2, <1>iss, <1>pc
      <4> QED
        BY <4>1, <1>top
    <3> QED
      BY <3>1, <3>2
  <2> QED
    BY <2>1, <1>same, <1>top, <1>iss DEF Behind
<1>11. Unique'
  <2>1. ASSUME NEW x, Excused(x)
        PROVE  x \in raced' \cup exposed'
    BY <2>1, <1>iss DEF Excused
  <2>2. issued[v] > 0 => v \in raced' \cup exposed'
    BY <1>iss
  <2>3. ASSUME NEW q \in Callers, Active(q), value[q] = v
        PROVE  v \in raced' \cup exposed'
    BY <2>3
  <2>4. ASSUME NEW a \in Callers, NEW b \in Callers, Active(a)', Active(b)', value'[a] = value'[b],
               a # b
        PROVE  value'[a] \in raced' \cup exposed'
    <3>1. CASE a = p
      <4>1. Active(b) /\ value[b] = v /\ value'[a] = v
        BY <3>1, <2>4, <1>act, <1>val
      <4> QED
        BY <4>1, <2>3
    <3>2. CASE b = p
      <4>1. Active(a) /\ value[a] = v /\ value'[a] = v
        BY <3>2, <2>4, <1>act, <1>val
      <4> QED
        BY <4>1, <2>3
    <3>3. CASE a # p /\ b # p
      <4>1. Active(a) /\ Active(b) /\ value'[a] = value[a] /\ value'[b] = value[b]
        BY <3>3, <2>4, <1>act, <1>val
      <4>2. Excused(value[a])
        BY <4>1, <2>4, <1>parts DEF Unique
      <4> QED
        BY <4>1, <4>2, <2>1
    <3> QED
      BY <3>1, <3>2, <3>3
  <2>5. ASSUME NEW a \in Callers, Active(a)', issued'[value'[a]] > 0
        PROVE  value'[a] \in raced' \cup exposed'
    <3>1. issued' = issued
      BY <2>5, <1>act, <1>iss, <1>parts, <1>same DEF PlainCounter
    <3>2. CASE a = p
      BY <3>1, <3>2, <2>2, <2>5, <1>val
    <3>3. CASE a # p
      <4>1. Active(a) /\ value'[a] = value[a]
        BY <3>3, <2>5, <1>act, <1>val
      <4>2. Excused(value[a])
        BY <4>1, <3>1, <2>5, <1>parts DEF Unique
      <4> QED
        BY <4>1, <4>2, <2>1
    <3> QED
      BY <3>2, <3>3
  <2>6. ASSUME NEW a \in Callers, pc'[a] = "callback", messageCounter' = Near
        PROVE  FALSE
    BY <2>6, <1>val
  <2> QED
    BY <2>4, <2>5, <2>6, ZenonT(30) DEF Unique, Excused
<1>12. RepeatedOnlyByRace'
  <2>1. ASSUME NEW x \in Counters, issued'[x] > 1
        PROVE  x \in raced' \cup exposed'
    <3>1. CASE issued'[x] = issued[x]
      BY <2>1, <3>1, <1>parts, <1>iss DEF RepeatedOnlyByRace
    <3>2. CASE x = v
      <4>1. issued[v] > 0
        BY <2>1, <3>2, <1>iss, <1>pc
      <4> QED
        BY <3>2, <4>1, <1>iss
    <3> QED
      BY <3>1, <3>2, <1>iss, <1>pc
  <2> QED
    BY <2>1 DEF RepeatedOnlyByRace
<1>13. (\E t \in Counters : Round(t))'
  BY <1>6, <1>7, <1>8, <1>9, <1>10 DEF Round
<1> QED
  BY <1>1, <1>2, <1>3, <1>4, <1>5, <1>11, <1>12, <1>13 DEF Inv

\* A call that draws no value, because it throws or because it waits for the callback.
LEMMA SuspendInv ==
    ASSUME Inv, NEW s \in Counters, Round(s), NEW p \in Callers,
           phase = "up", pc[p] = "idle",
           pc' \in [Callers -> Points], pc'[p] \in {"idle", "callback"},
           \A q \in Callers : q # p => pc'[q] = pc[q],
           messageCounter' \in Counters \cup {MAX_COUNTER_VALUE + 1},
           UNCHANGED <<config, phase, reserved, stored, writes, value, microtasks, crashes,
                       failures, issued, raced, exposed>>,
           calls' \in calls .. MaxCalls,
           Pos(s, Top) <= Pos(s, Top'), Pos(s, Top') <= Reach(crashes)',
           warned' \in BOOLEAN, seeded' \in BOOLEAN,
           config.onRollover => /\ messageCounter' <= MAX_COUNTER_VALUE
                                /\ messageCounter' >= Near => Alerted',
           pc'[p] = "callback" => /\ config.onRollover /\ Pos(s, Near) \in 1 .. Pos(s, Top'),
           config.onRollover /\ messageCounter' = Near =>
               /\ \A q \in Callers : q # p => pc[q] # "callback"
               /\ \A q \in Callers : Active(q) => value[q] # Near
               /\ issued[Near] > 0 => Excused(Near)
    PROVE  Inv'
<1>type. TypeOK
  BY DEF Inv
<1>parts. Control /\ Queues /\ PlainCounter /\ Warned /\ Unique /\ RepeatedOnlyByRace
          /\ Positions(s) /\ Reserved(s) /\ Unreserved(s) /\ Covering(s) /\ Behind(s)
  BY DEF Inv, Round
<1>num. /\ calls \in Nat /\ crashes \in Nat /\ config.reserve \in Nat
        /\ Top \in Counters /\ Pos(s, Top) \in Nat
        /\ \A x \in Counters : Pos(s, x) \in Nat
        /\ Reach(crashes) \in Nat /\ Reach(crashes + 1) \in Nat
        /\ crashes \in 0 .. MaxCrashes /\ calls \in 0 .. MaxCalls
  BY Numbers
<1>max. MaxCalls \in Nat
  BY BoundAssumption
<1>num2. /\ Reach(crashes)' \in Nat
         /\ Reach(crashes + 1)' = Reach(crashes)' + config.reserve
         /\ 2 * Reach(crashes + 1)' < Modulus
         /\ Reach(crashes)' >= Reach(crashes) /\ Reach(crashes + 1)' >= Reach(crashes + 1)
         /\ Reach(crashes + 1)' \in Nat
  BY ReachGrows
<1>top. Top' \in Counters /\ Pos(s, Top') \in Nat
  <2>1. Top' \in Counters
    BY RangeFacts DEF Top, MinOf, Counters
  <2> QED
    BY <2>1, <1>num
<1>same. /\ config' = config /\ phase' = "up" /\ reserved' = reserved /\ stored' = stored
         /\ writes' = writes /\ crashes' = crashes /\ failures' = failures
         /\ value' = value /\ microtasks' = microtasks
         /\ issued' = issued /\ raced' = raced /\ exposed' = exposed
         /\ Newest' = Newest
  BY DEF Newest
<1>pc. /\ pc \in [Callers -> Points] /\ value \in [Callers -> Counters]
       /\ microtasks \in Seq(Callers) /\ issued \in [Counters -> Nat]
  BY <1>type DEF TypeOK
<1>act. \A q \in Callers : (Active(q)' <=> Active(q)) /\ (Saving(q)' <=> Saving(q))
  BY DEF Active, Saving
<1>1. TypeOK'
  BY <1>type, <1>same DEF TypeOK
<1>2. Control'
  <2>1. calls' \in 0 .. MaxCalls
    BY <1>num, <1>max
  <2> QED
    BY <2>1, <1>parts, <1>same DEF Control
<1>3. Queues'
  <2>1. ASSUME NEW i \in 1 .. Len(writes)
        PROVE  writes[i][2] \in Callers /\ pc'[writes[i][2]] = "writing"
    <3>1. writes[i][2] \in Callers /\ pc[writes[i][2]] = "writing"
      BY <1>parts DEF Queues
    <3> QED
      BY <3>1
  <2>2. ASSUME NEW i \in 1 .. Len(microtasks)
        PROVE  pc'[microtasks[i]] = "resumed"
    <3>1. pc[microtasks[i]] = "resumed" /\ microtasks[i] \in Callers
      BY <1>parts, <1>pc DEF Queues
    <3> QED
      BY <3>1
  <2> QED
    BY <2>1, <2>2, <1>same, <1>parts DEF Queues
<1>4. PlainCounter'
  BY <1>parts, <1>same, <1>act DEF PlainCounter
<1>5. Warned'
  BY <1>same DEF Warned
<1>6. Positions(s)'
  <2>2. ASSUME stored # NoValue
        PROVE  /\ Pos(s, stored) <= Reach(crashes + 1)'
               /\ \A i \in 1 .. Len(writes) : Pos(s, stored) <= Pos(s, writes[i][1])
    <3>1. stored \in Counters
      BY <2>2, <1>type DEF TypeOK
    <3>2. /\ Pos(s, stored) <= Reach(crashes + 1)
          /\ \A i \in 1 .. Len(writes) : Pos(s, stored) <= Pos(s, writes[i][1])
      BY <2>2, <1>parts DEF Positions
    <3> QED
      BY <3>1, <3>2, <1>num, <1>num2
  <2>3. \A i, j \in 1 .. Len(writes) : i <= j => Pos(s, writes[i][1]) <= Pos(s, writes[j][1])
    BY <1>parts DEF Positions
  <2>4. ASSUME NEW i \in 1 .. Len(writes)
        PROVE  Pos(s, writes[i][1]) <= Reach(crashes + 1)'
    <3>1. writes[i][1] \in Counters /\ Pos(s, writes[i][1]) <= Reach(crashes + 1)
      BY <1>type, <1>parts, NewestFacts DEF Positions
    <3>2. Pos(s, writes[i][1]) \in Nat
      BY <3>1, <1>num
    <3>3. Reach(crashes + 1) \in Nat /\ Reach(crashes + 1)' \in Nat
          /\ Reach(crashes + 1)' >= Reach(crashes + 1)
      BY <1>num, <1>num2
    <3> QED
      BY <3>1, <3>2, <3>3
  <2>5. ASSUME NEW q \in Callers, Active(q)
        PROVE  Pos(s, value[q]) \in 1 .. Pos(s, Top')
    <3>1. Pos(s, value[q]) \in 1 .. Pos(s, Top)
      BY <2>5, <1>parts DEF Positions
    <3> QED
      BY <3>1, <1>num, <1>top
  <2>6. ASSUME NEW q \in Callers, pc'[q] = "callback"
        PROVE  config.onRollover /\ Pos(s, Near) \in 1 .. Pos(s, Top')
    <3>1. CASE q = p
      BY <2>6, <3>1
    <3>2. CASE q # p
      <4>1. config.onRollover /\ Pos(s, Near) \in 1 .. Pos(s, Top)
        BY <2>6, <3>2, <1>parts DEF Positions
      <4> QED
        BY <4>1, <1>num, <1>top
    <3> QED
      BY <3>1, <3>2
  <2>7. Reach(IF phase = "up" THEN crashes + 1 ELSE crashes)' = Reach(crashes + 1)'
    BY <1>same
  <2> QED
    BY <2>2, <2>3, <2>4, <2>5, <2>6, <2>7, <1>same, <1>act DEF Positions
<1>7. Reserved(s)'
  <2> SUFFICES ASSUME config.persisted, config.reserve # 0
               PROVE  /\ reserved \in Counters
                      /\ Pos(s, reserved) <= Pos(s, MinOf(Top' + config.reserve, MAX_COUNTER_VALUE))
                      /\ Newest # NoValue => Pos(s, Newest) <= Pos(s, reserved)
                      /\ failures = 0 => Newest = reserved
    BY <1>same DEF Reserved
  <2>1. /\ reserved \in Counters
        /\ Pos(s, reserved) <= Pos(s, MinOf(Top + config.reserve, MAX_COUNTER_VALUE))
        /\ Newest # NoValue => Pos(s, Newest) <= Pos(s, reserved)
        /\ failures = 0 => Newest = reserved
    BY <1>parts DEF Reserved
  <2>2. Pos(s, Top') + config.reserve < Modulus
    BY <1>top, <1>num, <1>num2, RangeFacts
  <2>3. Pos(s, MinOf(Top + config.reserve, MAX_COUNTER_VALUE))
          <= Pos(s, MinOf(Top' + config.reserve, MAX_COUNTER_VALUE))
    BY <2>2, <1>num, <1>top, PosMarks
  <2>4. Pos(s, Top) + config.reserve < Modulus
    BY <2>2, <1>num, <1>top, RangeFacts
  <2>5. /\ MinOf(Top + config.reserve, MAX_COUNTER_VALUE) \in Counters
        /\ MinOf(Top' + config.reserve, MAX_COUNTER_VALUE) \in Counters
    BY <2>2, <2>4, <1>num, <1>top, PosMark
  <2>6. /\ Pos(s, MinOf(Top + config.reserve, MAX_COUNTER_VALUE)) \in Nat
        /\ Pos(s, MinOf(Top' + config.reserve, MAX_COUNTER_VALUE)) \in Nat
        /\ Pos(s, reserved) \in Nat
    BY <2>1, <2>5, <1>num
  <2>7. Pos(s, reserved) <= Pos(s, MinOf(Top' + config.reserve, MAX_COUNTER_VALUE))
    BY <2>1, <2>3, <2>6
  <2> QED
    BY <2>1, <2>7
<1>8. Unreserved(s)'
  <2>1. Newest # NoValue => Newest \in Counters
    BY <1>type, NewestFacts
  <2>2. config.persisted /\ config.reserve = 0 =>
          (Newest # NoValue => Pos(s, Newest) <= Pos(s, Top'))
    <3>1. config.persisted /\ config.reserve = 0 =>
            (Newest # NoValue => Pos(s, Newest) <= Pos(s, Top))
      BY <1>parts DEF Unreserved
    <3> QED
      BY <3>1, <2>1, <1>num, <1>top
  <2> QED
    BY <2>2, <1>same, <1>parts DEF Unreserved
<1>9. Covering(s)'
  BY <1>same, <1>act, <1>parts DEF Covering
<1>10. Behind(s)'
  <2>1. ASSUME NEW x \in Counters, issued[x] > 0, x \notin exposed
        PROVE  /\ Pos(s, x) <= Pos(s, Top')
               /\ config.persisted => stored # NoValue /\ Pos(s, x) <= Pos(s, stored)
    <3>1. /\ Pos(s, x) <= Pos(s, Top)
          /\ config.persisted => stored # NoValue /\ Pos(s, x) <= Pos(s, stored)
      BY <2>1, <1>parts DEF Behind
    <3>2. Pos(s, x) <= Pos(s, Top')
      BY <3>1, <1>num, <1>top
    <3> QED
      BY <3>1, <3>2
  <2> QED
    BY <2>1, <1>same DEF Behind
<1>11. Unique'
  <2>1. /\ \A a, b \in Callers : Active(a) /\ Active(b) /\ value[a] = value[b] =>
              a = b \/ value[a] \in raced \cup exposed
        /\ \A a \in Callers : Active(a) /\ issued[value[a]] > 0 => value[a] \in raced \cup exposed
    BY <1>parts DEF Unique, Excused
  <2>2. ASSUME NEW a \in Callers, pc'[a] = "callback", messageCounter' = Near
        PROVE  /\ \A q \in Callers : pc'[q] = "callback" => q = a
               /\ \A q \in Callers : Active(q) => value[q] # messageCounter'
               /\ issued[messageCounter'] > 0 => messageCounter' \in raced \cup exposed
    <3>1. config.onRollover
      BY <2>2, <1>parts DEF Positions
    <3>2. /\ \A q \in Callers : q # p => pc[q] # "callback"
          /\ \A q \in Callers : Active(q) => value[q] # Near
          /\ issued[Near] > 0 => Near \in raced \cup exposed
      BY <3>1, <2>2 DEF Excused
    <3>3. \A q \in Callers : pc'[q] = "callback" => q = p
      BY <3>2
    <3> QED
      BY <3>2, <3>3, <2>2
  <2> QED
    BY <2>1, <2>2, <1>same, <1>act, ZenonT(30) DEF Unique, Excused
<1>12. RepeatedOnlyByRace'
  BY <1>parts, <1>same DEF RepeatedOnlyByRace
<1>13. (\E t \in Counters : Round(t))'
  BY <1>6, <1>7, <1>8, <1>9, <1>10 DEF Round
<1> QED
  BY <1>1, <1>2, <1>3, <1>4, <1>5, <1>11, <1>12, <1>13 DEF Inv

\* The value after the last one is new: nobody holds it, and it was returned only if it is
\* one that storage did not cover.
LEMMA Fresh ==
    ASSUME Inv, NEW s \in Counters, Round(s), phase = "up", NEW y \in Counters,
           Pos(s, y) = Pos(s, Top) + 1
    PROVE  /\ \A q \in Callers : Active(q) => value[q] # y
           /\ issued[y] > 0 => y \in exposed
           /\ \A q \in Callers : pc[q] = "callback" => y # Near
<1>num. Pos(s, Top) \in Nat /\ \A x \in Counters : Pos(s, x) \in Nat
  BY Numbers
<1>parts. Positions(s) /\ Behind(s)
  BY DEF Round
<1>1. ASSUME NEW q \in Callers, Active(q)
      PROVE  value[q] # y
  <2>1. Pos(s, value[q]) \in 1 .. Pos(s, Top)
    BY <1>1, <1>parts DEF Positions
  <2> QED
    BY <2>1, <1>num
<1>2. ASSUME issued[y] > 0, y \notin exposed
      PROVE  FALSE
  <2>1. Pos(s, y) <= Pos(s, Top)
    BY <1>2, <1>parts DEF Behind
  <2> QED
    BY <2>1, <1>num
<1>3. ASSUME NEW q \in Callers, pc[q] = "callback"
      PROVE  y # Near
  <2>1. Pos(s, Near) \in 1 .. Pos(s, Top)
    BY <1>3, <1>parts DEF Positions
  <2> QED
    BY <2>1, <1>num
<1> QED
  BY <1>1, <1>2, <1>3

\* getIncrementedCounter up to its first await.
LEMMA CallInv ==
    ASSUME Inv, NEW p \in Callers, Call(p)
    PROVE  Inv'
<1>1. PICK s \in Counters : Round(s)
  BY DEF Inv
<1>type. TypeOK /\ Control /\ Warned
  BY DEF Inv
<1>parts. Positions(s) /\ Behind(s)
  BY <1>1 DEF Round
<1>num. /\ calls \in Nat /\ crashes \in Nat /\ config.reserve \in Nat
        /\ Top \in Counters /\ Pos(s, Top) \in Nat
        /\ \A x \in Counters : Pos(s, x) \in Nat
        /\ Reach(crashes) \in Nat
  BY Numbers
<1>call. /\ phase = "up" /\ pc[p] = "idle" /\ calls < MaxCalls /\ calls' = calls + 1
         /\ UNCHANGED <<config, phase, crashes, failures, reserved, stored, writes, seeded, raced>>
         /\ Increment(p)
  BY DEF Call, Increment
<1>same. config' = config /\ crashes' = crashes /\ raced' = raced /\ seeded' = seeded
  BY <1>call
<1>range. calls' \in calls .. MaxCalls
  BY <1>call, <1>num, BoundAssumption
<1>num2. /\ Reach(crashes)' \in Nat /\ 2 * Reach(crashes + 1)' < Modulus
         /\ Reach(crashes + 1)' = Reach(crashes)' + config.reserve
  BY <1>same, <1>range, ReachGrows
<1>step. Reach(crashes)' = Reach(crashes) + 1
  <2> DEFINE m == crashes * config.reserve
  <2>1. Reach(crashes)' = (calls + 1) + m /\ Reach(crashes) = calls + m
    BY <1>call, <1>same DEF Reach
  <2>2. m \in Int
    BY <1>num, SMT
  <2> HIDE DEF m
  <2>3. \A i, j \in Int : (i + 1) + j = (i + j) + 1
    OBVIOUS
  <2>4. (calls + 1) + m = (calls + m) + 1
    BY <2>2, <2>3, <1>num
  <2> QED
    BY <2>1, <2>4, Zenon
<1>room. /\ Pos(s, Top) + 1 <= Reach(crashes)' /\ Pos(s, Top) < MAX_COUNTER_VALUE
         /\ Pos(s, Top) <= Reach(crashes)'
  <2>1. Pos(s, Top) <= Reach(crashes)
    BY <1>call, <1>parts DEF Positions
  <2> QED
    BY <2>1, <1>step, <1>num, <1>num2, RangeFacts
<1>mc. /\ messageCounter \in Nat /\ messageCounter <= MAX_COUNTER_VALUE + 1
       /\ messageCounter <= MAX_COUNTER_VALUE => Top = messageCounter
       /\ messageCounter > MAX_COUNTER_VALUE => Top = MAX_COUNTER_VALUE
  BY <1>type, TopFacts
<1>pct. pc \in [Callers -> Points] /\ warned \in BOOLEAN /\ seeded \in BOOLEAN /\ raced \subseteq Counters
  BY <1>type DEF TypeOK
<1>near. Near >= 1 /\ Near \in Nat
  BY <1>call, <1>type, RangeFacts DEF Control, Counters
<1>draw. ASSUME NEW y, y = IF Top = MAX_COUNTER_VALUE THEN 0 ELSE Top + 1
         PROVE  /\ y \in Counters /\ Pos(s, y) = Pos(s, Top) + 1
                /\ Pos(s, Top) <= Pos(s, y) /\ Pos(s, y) >= 1 /\ Pos(s, y) <= Reach(crashes)'
                /\ \A q \in Callers : Active(q) => value[q] # y
                /\ issued[y] > 0 => y \in exposed
                /\ \A q \in Callers : pc[q] = "callback" => y # Near
  <2>1. y \in Counters /\ Pos(s, y) = Pos(s, Top) + 1
    BY <1>draw, <1>num, <1>room, PosNext
  <2>2. Pos(s, Top) <= Pos(s, y) /\ Pos(s, y) >= 1 /\ Pos(s, y) <= Reach(crashes)'
    BY <2>1, <1>num, <1>room
  <2>3. /\ \A q \in Callers : Active(q) => value[q] # y
        /\ issued[y] > 0 => y \in exposed
        /\ \A q \in Callers : pc[q] = "callback" => y # Near
    BY <2>1, <1>1, <1>call, Fresh
  <2> QED
    BY <2>1, <2>2, <2>3
<1>2. ASSUME NEW y \in Counters, y = IF Top = MAX_COUNTER_VALUE THEN 0 ELSE Top + 1,
             messageCounter' = y, Proceed(p, y), warned' = warned, seeded' = seeded,
             config.onRollover /\ y >= Near => Alerted
      PROVE  Inv'
  <2>1. /\ Pos(s, Top) <= Pos(s, y) /\ Pos(s, y) >= 1 /\ Pos(s, y) <= Reach(crashes)'
        /\ \A q \in Callers : Active(q) => value[q] # y
        /\ issued[y] > 0 => y \in raced' \cup exposed
        /\ \A q \in Callers : q # p /\ pc[q] = "callback" => y # Near
    BY <1>2, <1>draw
  <2>2. pc[p] \in {"idle", "callback"}
    BY <1>call
  <2>3. raced \subseteq raced' /\ raced' \subseteq Counters /\ warned' \in BOOLEAN /\ seeded' \in BOOLEAN
        /\ (config.onRollover /\ y >= Near => Alerted')
    BY <1>2, <1>same, <1>pct, AlertedSame
  <2>4. y \in raced' \/ \A q \in Callers : Active(q) => value[q] # y
    BY <2>1
  <2>5. UNCHANGED <<config, phase, reserved, stored, writes, crashes, failures>>
    BY <1>call
  <2> QED
    BY <2>1, <2>2, <2>3, <2>4, <2>5, <1>1, <1>2, <1>call, <1>range, ProceedInv
<1>3. CASE Rollover /\ config.onRollover
  <2>1. messageCounter = MAX_COUNTER_VALUE
    BY <1>3, <1>type, <1>mc, RangeFacts DEF Rollover, Warned
  <2>2. Top = MAX_COUNTER_VALUE
    BY <2>1, <1>mc, RangeFacts
  <2>3. messageCounter' = 0 /\ Proceed(p, 0) /\ warned' = warned /\ seeded' = seeded
    BY <1>3, <1>call, <1>same DEF Increment
  <2>4. 0 \in Counters /\ ~(0 >= Near)
    BY <1>near, RangeFacts DEF Counters
  <2> QED
    BY <2>2, <2>3, <2>4, <1>2
<1>4. CASE Rollover /\ ~config.onRollover
  <2>1. messageCounter > MAX_COUNTER_VALUE \/ messageCounter = MAX_COUNTER_VALUE
    BY <1>4, <1>mc, RangeFacts DEF Rollover
  <2>2. Top = MAX_COUNTER_VALUE
    BY <2>1, <1>mc, RangeFacts
  <2>3. /\ messageCounter' = MAX_COUNTER_VALUE + 1
        /\ UNCHANGED <<pc, value, microtasks, warned, seeded, issued, exposed>>
    BY <1>4, <1>call, <1>same DEF Increment
  <2>4. Top' = Top
    BY <2>2, <2>3, RangeFacts DEF Top, MinOf
  <2>5. Pos(s, Top) <= Pos(s, Top') /\ Pos(s, Top') <= Reach(crashes)'
    BY <2>4, <1>num, <1>room
  <2>6. /\ pc' \in [Callers -> Points] /\ pc'[p] = "idle"
        /\ \A q \in Callers : q # p => pc'[q] = pc[q]
        /\ warned' \in BOOLEAN /\ seeded' \in BOOLEAN
    BY <2>3, <1>pct, <1>call
  <2>7. UNCHANGED <<config, phase, reserved, stored, writes, value, microtasks, crashes,
                    failures, issued, raced, exposed>>
    BY <2>3, <1>call
  <2>8. messageCounter' \in Counters \cup {MAX_COUNTER_VALUE + 1}
    BY <2>3
  <2> QED
    BY <2>5, <2>6, <2>7, <2>8, <1>1, <1>4, <1>call, <1>range, SuspendInv
<1>5. CASE ~Rollover /\ config.onRollover /\ NearRollover(messageCounter + 1)
  <2>1. messageCounter + 1 <= MAX_COUNTER_VALUE /\ messageCounter + 1 = Near
    BY <1>5, <1>mc, RangeFacts DEF Rollover, NearRollover, Near
  <2>2. Top = messageCounter /\ Top # MAX_COUNTER_VALUE
    BY <2>1, <1>mc, RangeFacts
  <2>3. /\ messageCounter' = messageCounter + 1 /\ warned' = TRUE
        /\ pc' = [pc EXCEPT ![p] = "callback"]
        /\ UNCHANGED <<value, microtasks, issued, exposed>>
    BY <1>5, <1>call DEF Increment
  <2>4. Near = IF Top = MAX_COUNTER_VALUE THEN 0 ELSE Top + 1
    BY <2>1, <2>2
  <2>5. /\ Near \in Counters
        /\ Pos(s, Top) <= Pos(s, Near) /\ Pos(s, Near) >= 1 /\ Pos(s, Near) <= Reach(crashes)'
        /\ \A q \in Callers : Active(q) => value[q] # Near
        /\ issued[Near] > 0 => Near \in exposed
        /\ \A q \in Callers : pc[q] # "callback"
    BY <2>4, <1>draw
  <2>6. Top' = Near
    BY <2>1, <2>3, RangeFacts DEF Top, MinOf
  <2>7. /\ pc' \in [Callers -> Points] /\ pc'[p] = "callback"
        /\ \A q \in Callers : q # p => pc'[q] = pc[q]
        /\ warned' \in BOOLEAN /\ seeded' \in BOOLEAN /\ Alerted'
    BY <2>3, <1>same, <1>pct DEF Points, Alerted
  <2>8. UNCHANGED <<config, phase, reserved, stored, writes, value, microtasks, crashes,
                    failures, issued, raced, exposed>>
    BY <2>3, <1>call
  <2>9. messageCounter' \in Counters \cup {MAX_COUNTER_VALUE + 1}
        /\ messageCounter' <= MAX_COUNTER_VALUE
    BY <2>1, <2>3, <2>5
  <2>10. Pos(s, Near) \in 1 .. Pos(s, Top')
    BY <2>5, <2>6, <1>num
  <2>11. issued[Near] > 0 => Excused(Near)
    BY <2>5 DEF Excused
  <2>12. Pos(s, Top) <= Pos(s, Top') /\ Pos(s, Top') <= Reach(crashes)'
    BY <2>5, <2>6
  <2> QED
    BY <2>3, <2>5, <2>7, <2>8, <2>9, <2>10, <2>11, <2>12, <1>1, <1>5, <1>call, <1>range, SuspendInv
<1>6. CASE ~Rollover /\ ~(config.onRollover /\ NearRollover(messageCounter + 1))
  <2>1. messageCounter + 1 <= MAX_COUNTER_VALUE
    BY <1>6, <1>mc, RangeFacts DEF Rollover
  <2>2. Top = messageCounter /\ Top # MAX_COUNTER_VALUE
    BY <2>1, <1>mc, RangeFacts
  <2>3. /\ messageCounter' = messageCounter + 1 /\ Proceed(p, messageCounter + 1)
        /\ warned' = warned /\ seeded' = seeded
    BY <1>6, <1>call, <1>same DEF Increment
  <2>4. messageCounter + 1 \in Counters
    BY <2>1, <1>mc, RangeFacts DEF Counters
  <2>5. config.onRollover /\ messageCounter + 1 >= Near => Alerted
    <3>1. config.onRollover => messageCounter + 1 # Near
      BY <1>6 DEF NearRollover, Near
    <3>2. config.onRollover /\ messageCounter >= Near => Alerted
      BY <1>call, <1>type DEF Warned
    <3> QED
      BY <3>1, <3>2, <1>mc, <1>near
  <2> QED
    BY <2>2, <2>3, <2>4, <2>5, <1>2
<1> QED
  BY <1>3, <1>4, <1>5, <1>6

\* The callback of a call resolves and the call reads the counter again.
LEMMA CallbackInv ==
    ASSUME Inv, NEW p \in Callers, CallbackResolved(p)
    PROVE  Inv'
<1>1. PICK s \in Counters : Round(s)
  BY DEF Inv
<1>type. TypeOK /\ Control /\ Warned /\ Unique
  BY DEF Inv
<1>parts. Positions(s)
  BY <1>1 DEF Round
<1>step. /\ pc[p] = "callback" /\ Proceed(p, messageCounter)
         /\ raced' = IF NearRollover(messageCounter) THEN raced ELSE raced \cup {messageCounter}
         /\ UNCHANGED <<config, phase, messageCounter, reserved, stored, writes, warned, seeded,
                        calls, crashes, failures>>
  BY DEF CallbackResolved, bounds
<1>2. phase = "up"
  BY <1>step, <1>type DEF Control
<1>num. /\ calls \in Nat /\ Pos(s, Top) \in Nat /\ Top \in Counters
        /\ \A x \in Counters : Pos(s, x) \in Nat
  BY Numbers
<1>3. config.onRollover /\ Pos(s, Near) \in 1 .. Pos(s, Top) /\ Pos(s, Top) <= Reach(crashes)
  BY <1>2, <1>step, <1>parts DEF Positions
<1>4. Top = messageCounter
  BY <1>3, <1>type, TopFacts DEF Warned
<1>5. Pos(s, messageCounter) >= 1 /\ Pos(s, Top) <= Pos(s, messageCounter)
  BY <1>3, <1>4, <1>num, RangeFacts
<1>6. calls' \in calls .. MaxCalls
  BY <1>step, <1>type, <1>num, BoundAssumption DEF Control
<1>7. Reach(crashes)' = Reach(crashes)
  BY <1>step DEF Reach
<1>8. raced \subseteq raced' /\ raced' \subseteq Counters /\ warned' \in BOOLEAN /\ seeded' \in BOOLEAN
  BY <1>step, <1>type, <1>4, <1>num DEF TypeOK
<1>9. config.onRollover /\ messageCounter >= Near => Alerted'
  BY <1>2, <1>step, <1>type, AlertedSame DEF Warned
<1>10. NearRollover(messageCounter) <=> messageCounter = Near
  BY DEF NearRollover, Near
<1>11. messageCounter # Near => messageCounter \in raced'
  BY <1>10, <1>step
<1>12. messageCounter = Near =>
         /\ \A q \in Callers : Active(q) => value[q] # messageCounter
         /\ issued[messageCounter] > 0 => messageCounter \in raced \cup exposed
         /\ \A q \in Callers : pc[q] = "callback" => q = p
  BY <1>step, <1>type DEF Unique, Excused
<1>13. messageCounter \in raced' \/ \A q \in Callers : Active(q) => value[q] # messageCounter
  BY <1>11, <1>12
<1>14. issued[messageCounter] > 0 => messageCounter \in raced' \cup exposed
  BY <1>8, <1>11, <1>12
<1>15. \A q \in Callers : q # p /\ pc[q] = "callback" => messageCounter # Near
  BY <1>12
<1>16. UNCHANGED <<config, phase, reserved, stored, writes, crashes, failures>>
       /\ messageCounter' = messageCounter /\ messageCounter \in Counters
       /\ pc[p] \in {"idle", "callback"} /\ Pos(s, messageCounter) <= Reach(crashes)'
  BY <1>step, <1>3, <1>4, <1>7, <1>num
<1> QED
  BY <1>1, <1>2, <1>step, <1>5, <1>6, <1>8, <1>9, <1>13, <1>14, <1>15, <1>16, ProceedInv

\* What storage covers, in positions.
LEMMA StoredCovers ==
    ASSUME Inv, NEW s \in Counters, Round(s), phase = "up", NEW p \in Callers, Active(p)
    PROVE  Covers(stored, value[p]) <=> stored # NoValue /\ Pos(s, value[p]) <= Pos(s, stored)
<1>num. /\ Pos(s, Top) \in Nat /\ \A x \in Counters : Pos(s, x) \in Nat
        /\ Reach(crashes) \in Nat /\ Reach(crashes + 1) \in Nat /\ config.reserve \in Nat
        /\ Reach(crashes + 1) = Reach(crashes) + config.reserve
        /\ 2 * Reach(crashes + 1) < Modulus
  BY Numbers
<1>type. value[p] \in Counters /\ stored \in Counters \cup {NoValue}
  BY DEF Inv, TypeOK
<1>1. CASE stored = NoValue
  BY <1>1 DEF Covers
<1>2. CASE stored # NoValue
  <2>1. stored \in Counters
    BY <1>2, <1>type
  <2>2. Pos(s, stored) <= Reach(crashes + 1)
    BY <1>2 DEF Round, Positions
  <2>3. Pos(s, value[p]) \in 1 .. Pos(s, Top) /\ Pos(s, Top) <= Reach(crashes)
    BY DEF Round, Positions
  <2>4. Pos(s, stored) \in Nat /\ Pos(s, value[p]) \in Nat
    BY <2>1, <1>type, <1>num
  <2>5. 2 * Pos(s, stored) < Modulus
    BY <2>2, <2>4, <1>num, RangeFacts
  <2>6. 2 * Pos(s, value[p]) < Modulus /\ Pos(s, value[p]) >= 1
    BY <2>3, <2>4, <1>num, RangeFacts
  <2>7. Covers(stored, value[p]) <=> Pos(s, value[p]) <= Pos(s, stored)
    BY <2>1, <2>5, <2>6, <1>type, CoversIs
  <2> QED
    BY <2>7, <1>2
<1> QED
  BY <1>1, <1>2

\* A call of the persisted counter returns its value; k tells whether it comes from the queue
\* of microtasks (1) or from its write (0).
LEMMA ReturnInv ==
    ASSUME Inv, NEW s \in Counters, Round(s), phase = "up", NEW p \in Callers,
           pc[p] \in {"resumed", "written"},
           pc' = [pc EXCEPT ![p] = "idle"], Returned(p, value[p]),
           UNCHANGED <<config, phase, messageCounter, reserved, stored, writes, value, warned, seeded,
                       raced, calls, crashes, failures>>,
           microtasks' \in Seq(Callers), NEW k \in {0, 1},
           \A i \in 1 .. Len(microtasks') :
               /\ i + k \in 1 .. Len(microtasks)
               /\ microtasks'[i] = microtasks[i + k] /\ microtasks'[i] # p
    PROVE  Inv'
<1> DEFINE v == value[p]
<1>type. TypeOK
  BY DEF Inv
<1>parts. Control /\ Queues /\ PlainCounter /\ Warned /\ Unique /\ RepeatedOnlyByRace
          /\ Positions(s) /\ Reserved(s) /\ Unreserved(s) /\ Covering(s) /\ Behind(s)
  BY DEF Inv, Round
<1>num. /\ Pos(s, Top) \in Nat /\ \A x \in Counters : Pos(s, x) \in Nat
  BY Numbers
<1>pc. /\ pc \in [Callers -> Points] /\ value \in [Callers -> Counters]
       /\ microtasks \in Seq(Callers) /\ issued \in [Counters -> Nat] /\ exposed \subseteq Counters
  BY <1>type DEF TypeOK
<1>pers. Active(p) /\ config.persisted
  BY <1>parts DEF Active, PlainCounter
<1>same. /\ config' = config /\ phase' = phase /\ reserved' = reserved /\ stored' = stored
         /\ writes' = writes /\ crashes' = crashes /\ failures' = failures /\ calls' = calls
         /\ value' = value /\ messageCounter' = messageCounter /\ warned' = warned /\ seeded' = seeded
         /\ raced' = raced /\ Newest' = Newest /\ Top' = Top
  BY DEF Newest, Top
<1>reach. Reach(crashes)' = Reach(crashes) /\ Reach(crashes + 1)' = Reach(crashes + 1)
  BY <1>same DEF Reach
<1>val. /\ v \in Counters /\ pc' \in [Callers -> Points] /\ pc'[p] = "idle"
        /\ \A q \in Callers : q # p => pc'[q] = pc[q]
  BY <1>pc DEF Points
<1>act. /\ ~Active(p)' /\ ~Saving(p)'
        /\ \A q \in Callers : q # p => (Active(q)' <=> Active(q)) /\ (Saving(q)' <=> Saving(q))
  BY <1>val DEF Active, Saving
<1>iss. /\ issued' = [issued EXCEPT ![v] = @ + 1] /\ issued' \in [Counters -> Nat]
        /\ exposed' = IF Covers(stored, v) THEN exposed ELSE exposed \cup {v}
        /\ exposed \subseteq exposed' /\ exposed' \subseteq Counters
  BY <1>pc, <1>pers, <1>val DEF Returned
<1>iss2. issued'[v] = issued[v] + 1 /\ \A x \in Counters : x # v => issued'[x] = issued[x]
  BY <1>iss, <1>pc, <1>val
<1> HIDE DEF v
<1>1. TypeOK'
  BY <1>type, <1>same, <1>val, <1>iss DEF TypeOK
<1>2. Control'
  BY <1>parts, <1>same DEF Control
<1>3. Queues'
  <2>1. ASSUME NEW i \in 1 .. Len(writes)
        PROVE  writes[i][2] \in Callers /\ pc'[writes[i][2]] = "writing"
    <3>1. writes[i][2] \in Callers /\ pc[writes[i][2]] = "writing"
      BY <1>parts DEF Queues
    <3> QED
      BY <3>1, <1>val
  <2>2. ASSUME NEW i \in (1 .. Len(microtasks))'
        PROVE  pc'[microtasks'[i]] = "resumed"
    <3>1. /\ i + k \in 1 .. Len(microtasks)
          /\ microtasks'[i] = microtasks[i + k] /\ microtasks'[i] # p
      OBVIOUS
    <3>2. pc[microtasks[i + k]] = "resumed" /\ microtasks[i + k] \in Callers
      BY <3>1, <1>parts, <1>pc DEF Queues
    <3> QED
      BY <3>1, <3>2, <1>val
  <2>3. ASSUME NEW i \in (1 .. Len(microtasks))', NEW j \in (1 .. Len(microtasks))',
               microtasks'[i] = microtasks'[j]
        PROVE  i = j
    <3>1. i + k \in 1 .. Len(microtasks) /\ microtasks'[i] = microtasks[i + k]
          /\ j + k \in 1 .. Len(microtasks) /\ microtasks'[j] = microtasks[j + k]
      OBVIOUS
    <3>2. i + k = j + k
      BY <2>3, <3>1, <1>parts DEF Queues
    <3> QED
      BY <3>2
  <2>4. \A i, j \in 1 .. Len(writes) : writes[i][2] = writes[j][2] => i = j
    BY <1>parts DEF Queues
  <2> QED
    BY <2>1, <2>2, <2>3, <2>4, <1>same DEF Queues
<1>4. PlainCounter'
  BY <1>same, <1>pers DEF PlainCounter
<1>5. Warned'
  BY <1>parts, <1>same, AlertedSame DEF Warned
<1>6. Positions(s)'
  <2>1. ASSUME NEW q \in Callers, Active(q)'
        PROVE  Pos(s, value[q]) \in 1 .. Pos(s, Top)
    <3>1. Active(q)
      BY <2>1, <1>act
    <3> QED
      BY <3>1, <1>parts DEF Positions
  <2>2. ASSUME NEW q \in Callers, pc'[q] = "callback"
        PROVE  config.onRollover /\ Pos(s, Near) \in 1 .. Pos(s, Top)
    <3>1. pc[q] = "callback"
      BY <2>2, <1>val
    <3> QED
      BY <3>1, <1>parts DEF Positions
  <2>3. Reach(IF phase = "up" THEN crashes + 1 ELSE crashes)'
          = Reach(IF phase = "up" THEN crashes + 1 ELSE crashes)
    BY <1>same, <1>reach
  <2> QED
    BY <2>1, <2>2, <2>3, <1>parts, <1>same, <1>reach DEF Positions
<1>7. Reserved(s)'
  BY <1>parts, <1>same DEF Reserved
<1>8. Unreserved(s)'
  <2> SUFFICES ASSUME config.persisted, config.reserve = 0
               PROVE  /\ Newest # NoValue => Pos(s, Newest) <= Pos(s, Top)
                      /\ \A i \in (1 .. Len(microtasks))' :
                            Newest # NoValue => Pos(s, Newest) <= Pos(s, value[microtasks'[i]])
                      /\ \A i, j \in (1 .. Len(microtasks))' :
                            i <= j => Pos(s, value[microtasks'[i]]) <= Pos(s, value[microtasks'[j]])
    BY <1>same DEF Unreserved
  <2>1. /\ Newest # NoValue => Pos(s, Newest) <= Pos(s, Top)
        /\ \A i \in 1 .. Len(microtasks) :
              Newest # NoValue => Pos(s, Newest) <= Pos(s, value[microtasks[i]])
        /\ \A i, j \in 1 .. Len(microtasks) :
              i <= j => Pos(s, value[microtasks[i]]) <= Pos(s, value[microtasks[j]])
    BY <1>parts DEF Unreserved
  <2>2. ASSUME NEW i \in (1 .. Len(microtasks))', NEW j \in (1 .. Len(microtasks))', i <= j
        PROVE  Pos(s, value[microtasks'[i]]) <= Pos(s, value[microtasks'[j]])
    <3>1. i + k \in 1 .. Len(microtasks) /\ microtasks'[i] = microtasks[i + k]
          /\ j + k \in 1 .. Len(microtasks) /\ microtasks'[j] = microtasks[j + k]
          /\ i + k <= j + k
      BY <2>2
    <3> QED
      BY <2>1, <3>1
  <2>3. ASSUME NEW i \in (1 .. Len(microtasks))', Newest # NoValue
        PROVE  Pos(s, Newest) <= Pos(s, value[microtasks'[i]])
    <3>1. i + k \in 1 .. Len(microtasks) /\ microtasks'[i] = microtasks[i + k]
      OBVIOUS
    <3> QED
      BY <2>1, <2>3, <3>1
  <2> QED
    BY <2>1, <2>2, <2>3
<1>9. Covering(s)'
  <2>1. ASSUME failures = 0, NEW q \in Callers, Saving(q)'
        PROVE  Newest # NoValue /\ Pos(s, value[q]) <= Pos(s, Newest)
    <3>1. Saving(q)
      BY <2>1, <1>act
    <3> QED
      BY <2>1, <3>1, <1>parts DEF Covering
  <2> QED
    BY <2>1, <1>same DEF Covering
<1>10. Behind(s)'
  <2>1. ASSUME NEW x \in Counters, issued'[x] > 0, x \notin exposed'
        PROVE  Pos(s, x) <= Pos(s, Top) /\ stored # NoValue /\ Pos(s, x) <= Pos(s, stored)
    <3>1. CASE x = v
      <4>1. Covers(stored, v)
        BY <2>1, <3>1, <1>iss
      <4>2. stored # NoValue /\ Pos(s, v) <= Pos(s, stored)
        BY <4>1, <1>pers, StoredCovers DEF v
      <4>3. Pos(s, v) \in 1 .. Pos(s, Top)
        BY <1>pers, <1>parts DEF Positions, v
      <4> QED
        BY <3>1, <4>2, <4>3, <1>num
    <3>2. CASE x # v
      <4>1. issued[x] > 0 /\ x \notin exposed
        BY <2>1, <3>2, <1>iss, <1>iss2
      <4> QED
        BY <4>1, <1>parts, <1>pers DEF Behind
    <3> QED
      BY <3>1, <3>2
  <2> QED
    BY <2>1, <1>same DEF Behind
<1>11. Unique'
  <2>1. ASSUME NEW a \in Callers, NEW b \in Callers, Active(a)', Active(b)', value[a] = value[b],
               a # b
        PROVE  value[a] \in raced \cup exposed'
    <3>1. Active(a) /\ Active(b)
      BY <2>1, <1>act
    <3>2. value[a] \in raced \cup exposed
      BY <2>1, <3>1, <1>parts DEF Unique, Excused
    <3> QED
      BY <3>2, <1>iss
  <2>2. ASSUME NEW a \in Callers, Active(a)', issued'[value[a]] > 0
        PROVE  value[a] \in raced \cup exposed'
    <3>1. a # p /\ Active(a) /\ value[a] \in Counters
      BY <2>2, <1>act, <1>pc
    <3>2. CASE value[a] = v
      <4>1. value[a] \in raced \cup exposed
        BY <3>1, <3>2, <1>pers, <1>parts DEF Unique, Excused, v
      <4> QED
        BY <4>1, <1>iss
    <3>3. CASE value[a] # v
      <4>1. issued[value[a]] > 0
        BY <2>2, <3>1, <3>3, <1>iss2
      <4>2. value[a] \in raced \cup exposed
        BY <3>1, <4>1, <1>parts DEF Unique, Excused
      <4> QED
        BY <4>2, <1>iss
    <3> QED
      BY <3>2, <3>3
  <2>3. ASSUME NEW a \in Callers, pc'[a] = "callback", messageCounter = Near
        PROVE  /\ \A q \in Callers : pc'[q] = "callback" => q = a
               /\ \A q \in Callers : Active(q)' => value[q] # messageCounter
               /\ issued'[messageCounter] > 0 => messageCounter \in raced \cup exposed'
    <3>1. pc[a] = "callback"
      BY <2>3, <1>val
    <3>2. /\ \A q \in Callers : pc[q] = "callback" => q = a
          /\ \A q \in Callers : Active(q) => value[q] # messageCounter
          /\ issued[messageCounter] > 0 => messageCounter \in raced \cup exposed
      BY <2>3, <3>1, <1>parts DEF Unique, Excused
    <3>3. messageCounter # v /\ messageCounter \in Counters
      BY <2>3, <3>2, <1>pers, RangeFacts DEF v
    <3>4. issued'[messageCounter] = issued[messageCounter]
      BY <3>3, <1>iss2
    <3>5. issued'[messageCounter] > 0 => messageCounter \in raced \cup exposed'
      BY <3>2, <3>4, <1>iss
    <3>6. ASSUME NEW q \in Callers
          PROVE  (pc'[q] = "callback" => q = a) /\ (Active(q)' => value[q] # messageCounter)
      BY <3>2, <1>val, <1>act
    <3> QED
      BY <3>5, <3>6
  <2> QED
    BY <2>1, <2>2, <2>3, <1>same, ZenonT(30) DEF Unique, Excused
<1>12. RepeatedOnlyByRace'
  <2>1. ASSUME NEW x \in Counters, issued'[x] > 1
        PROVE  x \in raced \cup exposed'
    <3>1. CASE x = v
      <4>1. issued[v] > 0
        BY <2>1, <3>1, <1>iss2, <1>pc, <1>val
      <4>2. v \in raced \cup exposed
        BY <4>1, <1>pers, <1>parts DEF Unique, Excused, v
      <4> QED
        BY <3>1, <4>2, <1>iss
    <3>2. CASE x # v
      <4>1. x \in raced \cup exposed
        BY <2>1, <3>2, <1>iss2, <1>parts DEF RepeatedOnlyByRace
      <4> QED
        BY <4>1, <1>iss
    <3> QED
      BY <3>1, <3>2
  <2> QED
    BY <2>1, <1>same DEF RepeatedOnlyByRace
<1>13. (\E t \in Counters : Round(t))'
  BY <1>6, <1>7, <1>8, <1>9, <1>10 DEF Round
<1> QED
  BY <1>1, <1>2, <1>3, <1>4, <1>5, <1>11, <1>12, <1>13 DEF Inv

\* The call at the head of the queue of microtasks leaves it.
LEMMA Dequeue ==
    ASSUME Inv, microtasks # <<>>, NEW p, p = Head(microtasks), microtasks' = Tail(microtasks)
    PROVE  /\ p \in Callers /\ p = microtasks[1] /\ 1 \in 1 .. Len(microtasks)
           /\ pc[p] = "resumed" /\ Active(p) /\ phase = "up" /\ config.persisted
           /\ microtasks' \in Seq(Callers)
           /\ \A i \in 1 .. Len(microtasks') :
                 /\ i + 1 \in 1 .. Len(microtasks)
                 /\ microtasks'[i] = microtasks[i + 1] /\ microtasks'[i] # p
<1>1. microtasks \in Seq(Callers)
  BY DEF Inv, TypeOK
<1>2. p \in Callers /\ p = microtasks[1] /\ 1 \in 1 .. Len(microtasks)
  BY <1>1
<1>3. pc[p] = "resumed"
  BY <1>2 DEF Inv, Queues
<1>4. phase = "up"
  BY DEF Inv, Control
<1>5. config.persisted
  BY DEF Inv, PlainCounter
<1>6. microtasks' \in Seq(Callers) /\ Len(microtasks') = Len(microtasks) - 1
      /\ Len(microtasks) \in Nat
      /\ \A i \in 1 .. Len(microtasks') : microtasks'[i] = microtasks[i + 1]
  BY <1>1
<1>7. ASSUME NEW i \in 1 .. Len(microtasks')
      PROVE  /\ i + 1 \in 1 .. Len(microtasks)
             /\ microtasks'[i] = microtasks[i + 1] /\ microtasks'[i] # p
  <2>1. i + 1 \in 1 .. Len(microtasks) /\ i + 1 # 1
    BY <1>6
  <2>2. microtasks'[i] = microtasks[i + 1]
    BY <1>6
  <2>3. microtasks[i + 1] # microtasks[1]
    BY <2>1, <1>2 DEF Inv, Queues
  <2> QED
    BY <2>1, <2>2, <2>3, <1>2
<1>8. Active(p)
  BY <1>3 DEF Active
<1> QED
  BY <1>2, <1>3, <1>4, <1>5, <1>6, <1>7, <1>8

\* A pending write that is appended becomes the newest.
LEMMA Enqueue ==
    ASSUME TypeOK, NEW w \in Counters, NEW p \in Callers, writes' = Append(writes, <<w, p>>)
    PROVE  /\ writes' \in Seq(Counters \X Owners) /\ Newest' = w
           /\ Len(writes)' = Len(writes) + 1 /\ Len(writes) \in Nat
           /\ writes'[Len(writes) + 1] = <<w, p>>
           /\ \A i \in 1 .. Len(writes) : writes'[i] = writes[i]
           /\ \A i \in (1 .. Len(writes))' : i \in 1 .. Len(writes) \/ i = Len(writes) + 1
<1>1. writes \in Seq(Counters \X Owners) /\ <<w, p>> \in Counters \X Owners
  BY DEF TypeOK, Owners
<1>2. writes' \in Seq(Counters \X Owners)
  BY <1>1
<1>3. Len(writes') = Len(writes) + 1 /\ Len(writes) \in Nat
  BY <1>1
<1>4. writes'[Len(writes) + 1] = <<w, p>>
  BY <1>1
<1>5. \A i \in 1 .. Len(writes) : writes'[i] = writes[i]
  BY <1>1
<1>6. \A i \in 1 .. Len(writes') : i \in 1 .. Len(writes) \/ i = Len(writes) + 1
  BY <1>3
<1>7. writes' # <<>>
  BY <1>1, <1>3
<1>8. Newest' = w
  BY <1>3, <1>4, <1>7 DEF Newest
<1> QED
  BY <1>2, <1>3, <1>4, <1>5, <1>6, <1>8

\* Nothing that storage holds or will hold is ahead of the newest write.
LEMMA UpToNewest ==
    ASSUME Inv, NEW s \in Counters, Round(s)
    PROVE  /\ stored # NoValue => Newest # NoValue /\ Pos(s, stored) <= Pos(s, Newest)
           /\ \A i \in 1 .. Len(writes) :
                 writes[i][1] \in Counters /\ Newest \in Counters
                 /\ Pos(s, writes[i][1]) <= Pos(s, Newest)
<1>type. TypeOK
  BY DEF Inv
<1>1. CASE writes = <<>>
  <2>1. Newest = stored /\ Len(writes) = 0
    BY <1>1 DEF Newest
  <2>2. stored # NoValue => Pos(s, stored) \in Nat
    BY <1>type, PosFacts DEF TypeOK
  <2> QED
    BY <2>1, <2>2
<1>2. CASE writes # <<>>
  <2>1. Newest = writes[Len(writes)][1] /\ Newest \in Counters /\ Newest # NoValue
        /\ Len(writes) \in 1 .. Len(writes) /\ Len(writes) \in Nat
        /\ \A i \in 1 .. Len(writes) : writes[i][1] \in Counters
    BY <1>2, <1>type, NewestFacts DEF Newest
  <2>2. stored # NoValue => Pos(s, stored) <= Pos(s, Newest)
    BY <2>1 DEF Round, Positions
  <2>3. ASSUME NEW i \in 1 .. Len(writes)
        PROVE  Pos(s, writes[i][1]) <= Pos(s, Newest)
    <3>1. i <= Len(writes)
      BY <2>1
    <3> QED
      BY <3>1, <2>1 DEF Round, Positions
  <2> QED
    BY <2>1, <2>2, <2>3
<1> QED
  BY <1>1, <1>2

\* The call at the head of the queue passes its value, or the next mark, to storage.
LEMMA SaveInv ==
    ASSUME Inv, NEW s \in Counters, Round(s),
           microtasks # <<>>, NEW p, p = Head(microtasks), microtasks' = Tail(microtasks),
           NEW w, w = IF config.reserve = 0 THEN value[p]
                      ELSE MinOf(Top + config.reserve, MAX_COUNTER_VALUE),
           reserved' = IF config.reserve = 0 THEN reserved ELSE w,
           writes' = Append(writes, <<w, p>>), pc' = [pc EXCEPT ![p] = "writing"],
           UNCHANGED <<config, phase, messageCounter, stored, value, warned, seeded, issued, raced,
                       exposed, calls, crashes, failures>>
    PROVE  Inv'
<1>type. TypeOK
  BY DEF Inv
<1>parts. Control /\ Queues /\ PlainCounter /\ Warned /\ Unique /\ RepeatedOnlyByRace
          /\ Positions(s) /\ Reserved(s) /\ Unreserved(s) /\ Covering(s) /\ Behind(s)
  BY DEF Inv, Round
<1>num. /\ config.reserve \in Nat /\ Top \in Counters /\ Pos(s, Top) \in Nat
        /\ \A x \in Counters : Pos(s, x) \in Nat
        /\ Reach(crashes) \in Nat /\ Reach(crashes + 1) \in Nat
        /\ Reach(crashes + 1) = Reach(crashes) + config.reserve
        /\ Reach(crashes) + config.reserve < Modulus
  BY Numbers
<1>deq. /\ p \in Callers /\ p = microtasks[1] /\ 1 \in 1 .. Len(microtasks)
        /\ pc[p] = "resumed" /\ Active(p) /\ phase = "up" /\ config.persisted
        /\ microtasks' \in Seq(Callers)
        /\ \A i \in 1 .. Len(microtasks') :
              /\ i + 1 \in 1 .. Len(microtasks)
              /\ microtasks'[i] = microtasks[i + 1] /\ microtasks'[i] # p
  BY Dequeue
<1>pc. /\ pc \in [Callers -> Points] /\ value \in [Callers -> Counters]
       /\ microtasks \in Seq(Callers)
  BY <1>type DEF TypeOK
<1>val. /\ pc' \in [Callers -> Points] /\ pc'[p] = "writing" /\ value[p] \in Counters
        /\ \A q \in Callers : q # p => pc'[q] = pc[q]
  BY <1>pc, <1>deq DEF Points
<1>act. /\ \A q \in Callers : Active(q)' <=> Active(q)
        /\ \A q \in Callers : q # p => (Saving(q)' <=> Saving(q))
        /\ \A q \in Callers : pc'[q] = "callback" <=> pc[q] = "callback"
  BY <1>val, <1>deq DEF Active, Saving
<1>pos. Pos(s, value[p]) \in 1 .. Pos(s, Top) /\ Pos(s, Top) <= Reach(crashes)
        /\ Pos(s, value[p]) \in Nat
  BY <1>deq, <1>val, <1>num, <1>parts DEF Positions
<1>new. Newest # NoValue => Newest \in Counters /\ Pos(s, Newest) \in Nat
  BY <1>type, <1>num, NewestFacts
<1>w. /\ w \in Counters /\ Pos(s, w) \in Nat
      /\ Pos(s, value[p]) <= Pos(s, w) /\ Pos(s, w) <= Reach(crashes + 1)
      /\ Newest # NoValue => Pos(s, Newest) <= Pos(s, w)
  <2>1. CASE config.reserve = 0
    <3>1. Newest # NoValue => Pos(s, Newest) <= Pos(s, value[p])
      BY <2>1, <1>deq, <1>parts DEF Unreserved
    <3>2. w = value[p]
      BY <2>1
    <3>3. Pos(s, value[p]) <= Reach(crashes + 1)
      BY <1>pos, <1>num
    <3> QED
      BY <3>1, <3>2, <3>3, <1>val, <1>pos
  <2>2. CASE config.reserve # 0
    <3>1. w = MinOf(Top + config.reserve, MAX_COUNTER_VALUE)
      BY <2>2
    <3>2. Pos(s, Top) + config.reserve < Modulus
      BY <1>num, <1>pos, RangeFacts
    <3>3. w \in Counters /\ Pos(s, Top) <= Pos(s, w) /\ Pos(s, w) <= Pos(s, Top) + config.reserve
      BY <3>1, <3>2, <1>num, PosMark
    <3>4. reserved \in Counters /\ Pos(s, reserved) <= Pos(s, w)
          /\ (Newest # NoValue => Pos(s, Newest) <= Pos(s, reserved))
      BY <2>2, <3>1, <1>deq, <1>parts DEF Reserved
    <3>5. Pos(s, w) \in Nat /\ Pos(s, reserved) \in Nat
      BY <3>3, <3>4, <1>num
    <3>6. Pos(s, value[p]) <= Pos(s, w) /\ Pos(s, w) <= Reach(crashes + 1)
      BY <3>3, <3>5, <1>pos, <1>num
    <3>7. Newest # NoValue => Pos(s, Newest) <= Pos(s, w)
      BY <3>4, <3>5, <1>new
    <3> QED
      BY <3>3, <3>5, <3>6, <3>7
  <2> QED
    BY <2>1, <2>2
<1>enq. /\ writes' \in Seq(Counters \X Owners) /\ Newest' = w
        /\ Len(writes)' = Len(writes) + 1 /\ Len(writes) \in Nat
        /\ writes'[Len(writes) + 1] = <<w, p>>
        /\ \A i \in 1 .. Len(writes) : writes'[i] = writes[i]
        /\ \A i \in (1 .. Len(writes))' : i \in 1 .. Len(writes) \/ i = Len(writes) + 1
  BY <1>type, <1>w, <1>deq, Enqueue
<1>same. /\ config' = config /\ phase' = "up" /\ stored' = stored /\ value' = value
         /\ messageCounter' = messageCounter /\ warned' = warned /\ seeded' = seeded /\ issued' = issued
         /\ raced' = raced /\ exposed' = exposed /\ calls' = calls /\ crashes' = crashes
         /\ failures' = failures /\ Top' = Top
  BY <1>deq DEF Top
<1>reach. Reach(crashes)' = Reach(crashes) /\ Reach(crashes + 1)' = Reach(crashes + 1)
  BY <1>same DEF Reach
<1>noval. w # NoValue
  BY <1>w, <1>type, NewestFacts
<1>1. TypeOK'
  <2>1. reserved' \in Counters \cup {Infinity}
    BY <1>w, <1>type DEF TypeOK
  <2> QED
    BY <2>1, <1>type, <1>same, <1>val, <1>enq, <1>deq DEF TypeOK
<1>2. Control'
  BY <1>parts, <1>same, <1>deq DEF Control
<1>3. Queues'
  <2>1. ASSUME NEW i \in 1 .. Len(writes)
        PROVE  writes[i][2] # p /\ writes[i][2] \in Callers /\ pc'[writes[i][2]] = "writing"
    <3>1. writes[i][2] \in Callers /\ pc[writes[i][2]] = "writing"
      BY <1>parts, <1>deq DEF Queues
    <3> QED
      BY <3>1, <1>val, <1>deq
  <2>2. ASSUME NEW i \in (1 .. Len(writes))'
        PROVE  writes'[i][2] \in Callers /\ pc'[writes'[i][2]] = "writing"
    <3>1. CASE i \in 1 .. Len(writes)
      BY <3>1, <2>1, <1>enq
    <3>2. CASE i = Len(writes) + 1
      BY <3>2, <1>enq, <1>val, <1>deq
    <3> QED
      BY <3>1, <3>2, <1>enq
  <2>3. ASSUME NEW i \in (1 .. Len(writes))', NEW j \in (1 .. Len(writes))',
               writes'[i][2] = writes'[j][2]
        PROVE  i = j
    <3>1. CASE i \in 1 .. Len(writes) /\ j \in 1 .. Len(writes)
      BY <3>1, <2>3, <1>enq, <1>parts DEF Queues
    <3>2. CASE i = Len(writes) + 1 /\ j = Len(writes) + 1
      BY <3>2
    <3>3. CASE i \in 1 .. Len(writes) /\ j = Len(writes) + 1
      BY <3>3, <2>1, <2>3, <1>enq
    <3>4. CASE j \in 1 .. Len(writes) /\ i = Len(writes) + 1
      BY <3>4, <2>1, <2>3, <1>enq
    <3> QED
      BY <3>1, <3>2, <3>3, <3>4, <1>enq
  <2>4. ASSUME NEW i \in (1 .. Len(microtasks))'
        PROVE  pc'[microtasks'[i]] = "resumed"
    <3>1. /\ i + 1 \in 1 .. Len(microtasks)
          /\ microtasks'[i] = microtasks[i + 1] /\ microtasks'[i] # p
      BY <1>deq
    <3>2. pc[microtasks[i + 1]] = "resumed" /\ microtasks[i + 1] \in Callers
      BY <3>1, <1>parts, <1>pc DEF Queues
    <3> QED
      BY <3>1, <3>2, <1>val
  <2>5. ASSUME NEW i \in (1 .. Len(microtasks))', NEW j \in (1 .. Len(microtasks))',
               microtasks'[i] = microtasks'[j]
        PROVE  i = j
    <3>1. i + 1 \in 1 .. Len(microtasks) /\ microtasks'[i] = microtasks[i + 1]
          /\ j + 1 \in 1 .. Len(microtasks) /\ microtasks'[j] = microtasks[j + 1]
      BY <1>deq
    <3>2. i + 1 = j + 1
      BY <2>5, <3>1, <1>parts DEF Queues
    <3> QED
      BY <3>2
  <2> QED
    BY <2>2, <2>3, <2>4, <2>5 DEF Queues
<1>4. PlainCounter'
  BY <1>same, <1>deq DEF PlainCounter
<1>5. Warned'
  BY <1>parts, <1>same, <1>deq, AlertedSame DEF Warned
<1>new2. /\ stored # NoValue => Newest # NoValue /\ Pos(s, stored) <= Pos(s, Newest)
         /\ \A i \in 1 .. Len(writes) :
               writes[i][1] \in Counters /\ Newest \in Counters
               /\ Pos(s, writes[i][1]) <= Pos(s, Newest)
  BY UpToNewest
<1>6. Positions(s)'
  <2>1. ASSUME NEW i \in 1 .. Len(writes)
        PROVE  Pos(s, writes[i][1]) <= Pos(s, w)
    <3>1. /\ writes[i][1] \in Counters /\ Newest \in Counters
          /\ Pos(s, writes[i][1]) <= Pos(s, Newest)
      BY <1>new2
    <3>2. Newest # NoValue
      BY <3>1, <1>type, NewestFacts
    <3>3. Pos(s, Newest) <= Pos(s, w) /\ Pos(s, Newest) \in Nat /\ Pos(s, writes[i][1]) \in Nat
      BY <3>1, <3>2, <1>w, <1>num
    <3> QED
      BY <3>1, <3>3, <1>w
  <2>2. ASSUME stored # NoValue
        PROVE  Pos(s, stored) <= Pos(s, w)
    <3>1. stored \in Counters /\ Newest # NoValue /\ Pos(s, stored) <= Pos(s, Newest)
      BY <2>2, <1>new2, <1>type DEF TypeOK
    <3>2. Pos(s, Newest) <= Pos(s, w) /\ Pos(s, Newest) \in Nat /\ Pos(s, stored) \in Nat
      BY <3>1, <1>w, <1>new, <1>num
    <3> QED
      BY <3>1, <3>2, <1>w
  <2>3. ASSUME stored # NoValue, NEW i \in (1 .. Len(writes))'
        PROVE  Pos(s, stored) <= Pos(s, writes'[i][1])
    <3>1. CASE i \in 1 .. Len(writes)
      BY <2>3, <3>1, <1>enq, <1>parts DEF Positions
    <3>2. CASE i = Len(writes) + 1
      BY <2>2, <2>3, <3>2, <1>enq
    <3> QED
      BY <3>1, <3>2, <1>enq
  <2>4. ASSUME NEW i \in (1 .. Len(writes))', NEW j \in (1 .. Len(writes))', i <= j
        PROVE  Pos(s, writes'[i][1]) <= Pos(s, writes'[j][1])
    <3>1. CASE i \in 1 .. Len(writes) /\ j \in 1 .. Len(writes)
      BY <2>4, <3>1, <1>enq, <1>parts DEF Positions
    <3>2. CASE i \in 1 .. Len(writes) /\ j = Len(writes) + 1
      BY <2>1, <3>2, <1>enq
    <3>3. CASE i = Len(writes) + 1 /\ j = Len(writes) + 1
      BY <3>3, <1>enq, <1>w
    <3>4. CASE i = Len(writes) + 1 /\ j \in 1 .. Len(writes)
      BY <2>4, <3>4, <1>enq
    <3> QED
      BY <3>1, <3>2, <3>3, <3>4, <1>enq
  <2>5. ASSUME NEW i \in (1 .. Len(writes))'
        PROVE  Pos(s, writes'[i][1]) <= Reach(crashes + 1)
    <3>1. CASE i \in 1 .. Len(writes)
      BY <3>1, <1>enq, <1>parts DEF Positions
    <3>2. CASE i = Len(writes) + 1
      BY <3>2, <1>enq, <1>w
    <3> QED
      BY <3>1, <3>2, <1>enq
  <2>6. stored # NoValue => Pos(s, stored) <= Reach(crashes + 1)
    BY <1>deq, <1>parts DEF Positions
  <2>7. Reach(IF phase = "up" THEN crashes + 1 ELSE crashes)' = Reach(crashes + 1)
    BY <1>same, <1>reach
  <2>8. /\ \A q \in Callers : Active(q)' => Pos(s, value[q]) \in 1 .. Pos(s, Top)
        /\ \A q \in Callers : pc'[q] = "callback" =>
              config.onRollover /\ Pos(s, Near) \in 1 .. Pos(s, Top)
    BY <1>act, <1>parts DEF Positions
  <2> QED
    BY <2>3, <2>4, <2>5, <2>6, <2>7, <2>8, <1>pos, <1>same, <1>reach DEF Positions
<1>7. Reserved(s)'
  <2> SUFFICES ASSUME config.reserve # 0
               PROVE  /\ w \in Counters
                      /\ Pos(s, w) <= Pos(s, MinOf(Top + config.reserve, MAX_COUNTER_VALUE))
                      /\ Pos(s, w) <= Pos(s, w)
    BY <1>same, <1>enq DEF Reserved
  <2> QED
    BY <1>w
<1>8. Unreserved(s)'
  <2> SUFFICES ASSUME config.reserve = 0
               PROVE  /\ Pos(s, w) <= Pos(s, Top)
                      /\ \A i \in (1 .. Len(microtasks))' :
                            Pos(s, w) <= Pos(s, value[microtasks'[i]])
                      /\ \A i, j \in (1 .. Len(microtasks))' :
                            i <= j => Pos(s, value[microtasks'[i]]) <= Pos(s, value[microtasks'[j]])
    BY <1>same, <1>enq DEF Unreserved
  <2>1. w = value[microtasks[1]]
    BY <1>deq
  <2>2. \A i, j \in 1 .. Len(microtasks) :
              i <= j => Pos(s, value[microtasks[i]]) <= Pos(s, value[microtasks[j]])
    BY <1>deq, <1>parts DEF Unreserved
  <2>3. ASSUME NEW i \in (1 .. Len(microtasks))', NEW j \in (1 .. Len(microtasks))', i <= j
        PROVE  Pos(s, value[microtasks'[i]]) <= Pos(s, value[microtasks'[j]])
    <3>1. i + 1 \in 1 .. Len(microtasks) /\ microtasks'[i] = microtasks[i + 1]
          /\ j + 1 \in 1 .. Len(microtasks) /\ microtasks'[j] = microtasks[j + 1]
          /\ i + 1 <= j + 1
      BY <2>3, <1>deq
    <3> QED
      BY <2>2, <3>1
  <2>4. ASSUME NEW i \in (1 .. Len(microtasks))'
        PROVE  Pos(s, w) <= Pos(s, value[microtasks'[i]])
    <3>1. i + 1 \in 1 .. Len(microtasks) /\ microtasks'[i] = microtasks[i + 1] /\ 1 <= i + 1
      BY <1>deq
    <3> QED
      BY <2>1, <2>2, <3>1, <1>deq
  <2>5. Pos(s, w) <= Pos(s, Top)
    BY <2>1, <1>deq, <1>pos, <1>num
  <2> QED
    BY <2>3, <2>4, <2>5
<1>9. Covering(s)'
  <2>1. ASSUME failures = 0, NEW q \in Callers, Saving(q)'
        PROVE  Pos(s, value[q]) <= Pos(s, w)
    <3>1. CASE q = p
      BY <3>1, <1>w
    <3>2. CASE q # p
      <4>1. Newest # NoValue /\ Pos(s, value[q]) <= Pos(s, Newest)
        BY <2>1, <3>2, <1>act, <1>parts DEF Covering
      <4>2. Pos(s, value[q]) \in Nat /\ Pos(s, Newest) \in Nat
        BY <4>1, <1>new, <1>num, <1>pc
      <4> QED
        BY <4>1, <4>2, <1>w
    <3> QED
      BY <3>1, <3>2
  <2> QED
    BY <2>1, <1>same, <1>enq, <1>noval DEF Covering
<1>10. Behind(s)'
  BY <1>parts, <1>same, <1>deq DEF Behind
<1>11. Unique'
  BY <1>parts, <1>same, <1>act, ZenonT(30) DEF Unique, Excused
<1>12. RepeatedOnlyByRace'
  BY <1>parts, <1>same DEF RepeatedOnlyByRace
<1>13. (\E t \in Counters : Round(t))'
  BY <1>6, <1>7, <1>8, <1>9, <1>10 DEF Round
<1> QED
  BY <1>1, <1>2, <1>3, <1>4, <1>5, <1>11, <1>12, <1>13 DEF Inv

\* getIncrementedCounter of the persisted counter, after the await of super's.
LEMMA ResumeInv ==
    ASSUME Inv, NEW p \in Callers, Resume(p)
    PROVE  Inv'
<1>1. PICK s \in Counters : Round(s)
  BY DEF Inv
<1>step. /\ microtasks # <<>> /\ p = Head(microtasks) /\ microtasks' = Tail(microtasks)
         /\ UNCHANGED <<config, phase, messageCounter, stored, value, warned, seeded, raced,
                        calls, crashes, failures>>
  BY DEF Resume, bounds
<1>deq. /\ pc[p] = "resumed" /\ phase = "up" /\ microtasks' \in Seq(Callers)
        /\ \A i \in 1 .. Len(microtasks') :
              /\ i + 1 \in 1 .. Len(microtasks)
              /\ microtasks'[i] = microtasks[i + 1] /\ microtasks'[i] # p
  BY <1>step, Dequeue
<1>2. CASE config.reserve = 0
  <2>1. /\ writes' = Append(writes, <<value[p], p>>) /\ pc' = [pc EXCEPT ![p] = "writing"]
        /\ UNCHANGED <<reserved, issued, exposed>>
    BY <1>2 DEF Resume
  <2> DEFINE w == IF config.reserve = 0 THEN value[p]
                  ELSE MinOf(Top + config.reserve, MAX_COUNTER_VALUE)
  <2>2. w = value[p]
    BY <1>2
  <2>3. /\ reserved' = IF config.reserve = 0 THEN reserved ELSE w
        /\ writes' = Append(writes, <<w, p>>)
    BY <2>1, <2>2, <1>2
  <2>4. UNCHANGED <<config, phase, messageCounter, stored, value, warned, seeded, issued, raced,
                    exposed, calls, crashes, failures>>
    BY <2>1, <1>step
  <2> QED
    BY <2>1, <2>3, <2>4, <1>1, <1>step, SaveInv
<1>3. CASE config.reserve # 0 /\ MustReserve(value[p])
  <2>1. /\ ReserveAhead(p) /\ pc' = [pc EXCEPT ![p] = "writing"]
        /\ UNCHANGED <<issued, exposed>>
    BY <1>3 DEF Resume
  <2> DEFINE w == IF config.reserve = 0 THEN value[p]
                  ELSE MinOf(Top + config.reserve, MAX_COUNTER_VALUE)
  <2>2. w = MinOf(messageCounter + config.reserve, MAX_COUNTER_VALUE)
    <3>1. /\ messageCounter \in Nat
          /\ messageCounter <= MAX_COUNTER_VALUE => Top = messageCounter
          /\ messageCounter > MAX_COUNTER_VALUE => Top = MAX_COUNTER_VALUE
      BY TopFacts DEF Inv
    <3>2. config.reserve \in Nat
      BY <1>1, Numbers
    <3>3. MinOf(Top + config.reserve, MAX_COUNTER_VALUE)
            = MinOf(messageCounter + config.reserve, MAX_COUNTER_VALUE)
      BY <3>1, <3>2, RangeFacts DEF MinOf
    <3> QED
      BY <3>3, <1>3
  <2>3. /\ reserved' = IF config.reserve = 0 THEN reserved ELSE w
        /\ writes' = Append(writes, <<w, p>>)
    BY <2>1, <2>2, <1>3 DEF ReserveAhead
  <2>4. UNCHANGED <<config, phase, messageCounter, stored, value, warned, seeded, issued, raced,
                    exposed, calls, crashes, failures>>
    BY <2>1, <1>step
  <2> QED
    BY <2>1, <2>3, <2>4, <1>1, <1>step, SaveInv
<1>4. CASE config.reserve # 0 /\ ~MustReserve(value[p])
  <2>1. /\ pc' = [pc EXCEPT ![p] = "idle"] /\ Returned(p, value[p])
        /\ UNCHANGED <<reserved, writes>>
    BY <1>4 DEF Resume
  <2>2. UNCHANGED <<config, phase, messageCounter, reserved, stored, writes, value, warned, seeded,
                    raced, calls, crashes, failures>>
    BY <2>1, <1>step
  <2>3. pc[p] \in {"resumed", "written"}
    BY <1>deq
  <2> QED
    BY <2>1, <2>2, <2>3, <1>1, <1>deq, ReturnInv
<1> QED
  BY <1>2, <1>3, <1>4

\* A call whose write has landed returns.
LEMMA ReturnStepInv ==
    ASSUME Inv, NEW p \in Callers, Return(p)
    PROVE  Inv'
<1>1. PICK s \in Counters : Round(s)
  BY DEF Inv
<1>2. /\ pc[p] = "written" /\ pc' = [pc EXCEPT ![p] = "idle"] /\ Returned(p, value[p])
      /\ UNCHANGED <<config, phase, messageCounter, reserved, stored, writes, value, warned, seeded,
                     raced, calls, crashes, failures>>
      /\ microtasks' = microtasks
  BY DEF Return, bounds
<1>3. phase = "up"
  BY <1>2 DEF Inv, Control
<1>4. microtasks \in Seq(Callers) /\ \A i \in 1 .. Len(microtasks) : pc[microtasks[i]] = "resumed"
  BY DEF Inv, TypeOK, Queues
<1>5. \A i \in 1 .. Len(microtasks') :
         /\ i + 0 \in 1 .. Len(microtasks)
         /\ microtasks'[i] = microtasks[i + 0] /\ microtasks'[i] # p
  <2> SUFFICES ASSUME NEW i \in 1 .. Len(microtasks)
               PROVE  /\ i + 0 \in 1 .. Len(microtasks)
                      /\ microtasks[i] = microtasks[i + 0] /\ microtasks[i] # p
    BY <1>2
  <2>1. i + 0 = i
    OBVIOUS
  <2> QED
    BY <2>1, <1>2, <1>4
<1>6. microtasks' \in Seq(Callers) /\ pc[p] \in {"resumed", "written"}
  BY <1>2, <1>4
<1> QED
  BY <1>1, <1>2, <1>3, <1>5, <1>6, ReturnInv

-----------------------------------------------------------------------------
(***************************************************************************)
(* Storage.                                                                *)
(***************************************************************************)

\* The oldest pending write leaves the queue of writes.
LEMMA Settle ==
    ASSUME Inv, NEW s \in Counters, Round(s), writes # <<>>, writes' = Tail(writes),
           stored' = Head(writes)[1] \/ stored' = stored
    PROVE  /\ Head(writes) = writes[1] /\ 1 \in 1 .. Len(writes)
           /\ writes[1][1] \in Counters /\ writes[1][2] \in Owners
           /\ writes' \in Seq(Counters \X Owners)
           /\ \A i \in (1 .. Len(writes))' :
                 i + 1 \in 1 .. Len(writes) /\ writes'[i] = writes[i + 1]
           /\ stored' = Head(writes)[1] => Newest' = Newest
           /\ Newest' # NoValue => Newest # NoValue /\ Pos(s, Newest') <= Pos(s, Newest)
                                   /\ Newest' \in Counters /\ Newest \in Counters
<1>type. TypeOK
  BY DEF Inv
<1>1. writes \in Seq(Counters \X Owners) /\ stored \in Counters \cup {NoValue}
  BY <1>type DEF TypeOK
<1>2. Head(writes) = writes[1] /\ 1 \in 1 .. Len(writes)
  BY <1>1
<1>3. writes[1][1] \in Counters /\ writes[1][2] \in Owners /\ Len(writes) \in Nat
  BY <1>2, <1>type, NewestFacts
<1>4. /\ writes' \in Seq(Counters \X Owners) /\ Len(writes') = Len(writes) - 1
      /\ \A i \in 1 .. Len(writes') : writes'[i] = writes[i + 1]
  BY <1>1
<1>5. \A i \in 1 .. Len(writes') : i + 1 \in 1 .. Len(writes)
  BY <1>3, <1>4
<1>6. Newest = writes[Len(writes)][1] /\ Newest \in Counters /\ Newest # NoValue
  BY <1>type, NewestFacts DEF Newest
<1>7. CASE Len(writes) = 1
  <2>1. writes' = <<>>
    BY <1>4, <1>7
  <2>2. Newest' = stored'
    BY <2>1 DEF Newest
  <2>3. Newest = Head(writes)[1]
    BY <1>2, <1>6, <1>7
  <2>4. stored # NoValue => Pos(s, stored) <= Pos(s, Newest)
    BY UpToNewest
  <2>5. stored' = stored =>
          (Newest' # NoValue => Newest' \in Counters /\ Pos(s, Newest') <= Pos(s, Newest))
    BY <2>2, <2>4, <1>1
  <2>6. Pos(s, Newest) \in Nat
    BY <1>6, PosFacts
  <2>7. stored' = Head(writes)[1] => Newest' = Newest
    BY <2>2, <2>3
  <2>8. Newest' = Newest => Pos(s, Newest') <= Pos(s, Newest) /\ Newest' \in Counters
    BY <2>6, <1>6
  <2> QED
    BY <2>5, <2>7, <2>8, <1>2, <1>3, <1>4, <1>5, <1>6
<1>8. CASE Len(writes) # 1
  <2>1. Len(writes') \in 1 .. Len(writes') /\ Len(writes') + 1 = Len(writes)
    BY <1>2, <1>3, <1>4, <1>8
  <2>2. writes' # <<>>
    <3> SUFFICES ASSUME writes' = <<>>
                 PROVE  FALSE
      OBVIOUS
    <3>len. Len(<<>>) = 0
      OBVIOUS
    <3>1. Len(writes') = 0
      BY <3>len, Zenon
    <3> QED
      BY <3>1, <2>1
  <2>3. Newest' = writes'[Len(writes')][1]
    BY <2>2 DEF Newest
  <2>4. Newest' = Newest
    BY <2>1, <2>3, <1>4, <1>6
  <2>5. Pos(s, Newest) \in Nat
    BY <1>6, PosFacts
  <2>6. Pos(s, Newest') <= Pos(s, Newest)
    BY <2>4, <2>5
  <2> QED
    BY <2>4, <2>6, <1>2, <1>3, <1>4, <1>5, <1>6
<1> QED
  BY <1>7, <1>8

\* A write of a call lands, or fails: then the call rejects.
LEMMA SettleInv ==
    ASSUME Inv, NEW s \in Counters, Round(s), phase = "up", writes # <<>>,
           writes' = Tail(writes), NEW o, o = Head(writes)[2],
           \/ /\ stored' = Head(writes)[1] /\ failures' = failures
              /\ pc' = [pc EXCEPT ![o] = "written"]
           \/ /\ stored' = stored /\ failures' = failures + 1
              /\ pc' = [pc EXCEPT ![o] = "idle"],
           UNCHANGED <<config, phase, messageCounter, reserved, value, microtasks, warned, seeded,
                       issued, raced, exposed, calls, crashes>>
    PROVE  Inv'
<1>type. TypeOK
  BY DEF Inv
<1>parts. Control /\ Queues /\ PlainCounter /\ Warned /\ Unique /\ RepeatedOnlyByRace
          /\ Positions(s) /\ Reserved(s) /\ Unreserved(s) /\ Covering(s) /\ Behind(s)
  BY DEF Inv, Round
<1>num. /\ Top \in Counters /\ Pos(s, Top) \in Nat /\ \A x \in Counters : Pos(s, x) \in Nat
  BY Numbers
<1>set. /\ Head(writes) = writes[1] /\ 1 \in 1 .. Len(writes)
        /\ writes[1][1] \in Counters
        /\ writes' \in Seq(Counters \X Owners)
        /\ \A i \in (1 .. Len(writes))' :
              i + 1 \in 1 .. Len(writes) /\ writes'[i] = writes[i + 1]
        /\ stored' = Head(writes)[1] => Newest' = Newest
        /\ Newest' # NoValue => Newest # NoValue /\ Pos(s, Newest') <= Pos(s, Newest)
                                /\ Newest' \in Counters /\ Newest \in Counters
  BY Settle
<1>o. o \in Callers /\ o = writes[1][2] /\ pc[o] = "writing"
  BY <1>set, <1>parts DEF Queues
<1>pers. config.persisted
  BY <1>parts DEF PlainCounter
<1>fail. /\ failures \in Nat /\ failures' \in Nat
         /\ failures' = 0 => stored' = Head(writes)[1] /\ failures = 0 /\ Newest' = Newest
  <2>1. failures \in Nat
    BY <1>parts DEF Control
  <2> QED
    BY <2>1, <1>set
<1>pc. pc \in [Callers -> Points] /\ value \in [Callers -> Counters] /\ microtasks \in Seq(Callers)
  BY <1>type DEF TypeOK
<1>val. /\ pc' \in [Callers -> Points] /\ pc'[o] \in {"written", "idle"}
        /\ \A q \in Callers : q # o => pc'[q] = pc[q]
  BY <1>pc, <1>o DEF Points
<1>act. /\ \A q \in Callers : Active(q)' => Active(q)
        /\ \A q \in Callers : Saving(q)' => Saving(q)
        /\ \A q \in Callers : pc'[q] = "callback" => pc[q] = "callback"
  BY <1>val, <1>o DEF Active, Saving
<1>same. /\ config' = config /\ phase' = "up" /\ reserved' = reserved /\ value' = value
         /\ messageCounter' = messageCounter /\ warned' = warned /\ seeded' = seeded /\ issued' = issued
         /\ microtasks' = microtasks
         /\ raced' = raced /\ exposed' = exposed /\ calls' = calls /\ crashes' = crashes
         /\ Top' = Top
  BY DEF Top
<1>reach. Reach(crashes)' = Reach(crashes) /\ Reach(crashes + 1)' = Reach(crashes + 1)
  BY <1>same DEF Reach
<1>sto. stored' = writes[1][1] \/ stored' = stored
  BY <1>set
<1>noval. writes[1][1] # NoValue
  BY <1>set, <1>type, NewestFacts
<1>1. TypeOK'
  <2>1. stored' \in Counters \cup {NoValue}
    BY <1>sto, <1>set, <1>type DEF TypeOK
  <2> QED
    BY <2>1, <1>type, <1>same, <1>val, <1>set DEF TypeOK
<1>2. Control'
  BY <1>parts, <1>same, <1>fail DEF Control
<1>3. Queues'
  <2>1. ASSUME NEW i \in (1 .. Len(writes))'
        PROVE  writes'[i][2] \in Callers /\ pc'[writes'[i][2]] = "writing"
    <3>1. i + 1 \in 1 .. Len(writes) /\ writes'[i] = writes[i + 1] /\ i + 1 # 1
      BY <1>set
    <3>2. writes[i + 1][2] \in Callers /\ pc[writes[i + 1][2]] = "writing"
      BY <3>1, <1>parts DEF Queues
    <3>3. writes[i + 1][2] # o
      BY <3>1, <1>set, <1>o, <1>parts DEF Queues
    <3> QED
      BY <3>1, <3>2, <3>3, <1>val
  <2>2. ASSUME NEW i \in (1 .. Len(writes))', NEW j \in (1 .. Len(writes))',
               writes'[i][2] = writes'[j][2]
        PROVE  i = j
    <3>1. i + 1 \in 1 .. Len(writes) /\ writes'[i] = writes[i + 1]
          /\ j + 1 \in 1 .. Len(writes) /\ writes'[j] = writes[j + 1]
      BY <1>set
    <3>2. i + 1 = j + 1
      BY <2>2, <3>1, <1>parts DEF Queues
    <3> QED
      BY <3>2
  <2>3. ASSUME NEW i \in 1 .. Len(microtasks)
        PROVE  pc'[microtasks[i]] = "resumed"
    <3>1. pc[microtasks[i]] = "resumed" /\ microtasks[i] \in Callers
      BY <1>parts, <1>pc DEF Queues
    <3> QED
      BY <3>1, <1>val, <1>o
  <2>4. \A i, j \in 1 .. Len(microtasks) : microtasks[i] = microtasks[j] => i = j
    BY <1>parts DEF Queues
  <2> QED
    BY <2>1, <2>2, <2>3, <2>4, <1>same DEF Queues
<1>4. PlainCounter'
  BY <1>same, <1>pers DEF PlainCounter
<1>5. Warned'
  BY <1>parts, <1>same, AlertedSame DEF Warned
<1>up. /\ \A i \in 1 .. Len(writes) : Pos(s, writes[1][1]) <= Pos(s, writes[i][1])
       /\ stored # NoValue => Pos(s, stored) <= Pos(s, writes[1][1])
  <2>1. ASSUME NEW i \in 1 .. Len(writes)
        PROVE  Pos(s, writes[1][1]) <= Pos(s, writes[i][1])
    BY <1>set, <1>parts DEF Positions
  <2> QED
    BY <2>1, <1>set, <1>parts DEF Positions
<1>6. Positions(s)'
  <2>1. ASSUME stored' # NoValue
        PROVE  /\ Pos(s, stored') <= Reach(crashes + 1)
               /\ \A i \in 1 .. Len(writes) : Pos(s, stored') <= Pos(s, writes[i][1])
    <3>1. CASE stored' = stored
      BY <2>1, <3>1, <1>parts DEF Positions
    <3>2. CASE stored' = writes[1][1]
      BY <3>2, <1>up, <1>set, <1>parts DEF Positions
    <3> QED
      BY <3>1, <3>2, <1>sto
  <2>2. ASSUME stored' # NoValue, NEW i \in (1 .. Len(writes))'
        PROVE  Pos(s, stored') <= Pos(s, writes'[i][1])
    BY <2>1, <2>2, <1>set
  <2>3. ASSUME NEW i \in (1 .. Len(writes))', NEW j \in (1 .. Len(writes))', i <= j
        PROVE  Pos(s, writes'[i][1]) <= Pos(s, writes'[j][1])
    <3>1. i + 1 \in 1 .. Len(writes) /\ writes'[i] = writes[i + 1]
          /\ j + 1 \in 1 .. Len(writes) /\ writes'[j] = writes[j + 1] /\ i + 1 <= j + 1
      BY <2>3, <1>set
    <3> QED
      BY <3>1, <1>parts DEF Positions
  <2>4. ASSUME NEW i \in (1 .. Len(writes))'
        PROVE  Pos(s, writes'[i][1]) <= Reach(crashes + 1)
    <3>1. i + 1 \in 1 .. Len(writes) /\ writes'[i] = writes[i + 1]
      BY <1>set
    <3> QED
      BY <3>1, <1>parts DEF Positions
  <2>5. Reach(IF phase = "up" THEN crashes + 1 ELSE crashes)' = Reach(crashes + 1)
    BY <1>same, <1>reach
  <2>6. /\ Pos(s, Top) <= Reach(crashes)
        /\ \A q \in Callers : Active(q)' => Pos(s, value[q]) \in 1 .. Pos(s, Top)
        /\ \A q \in Callers : pc'[q] = "callback" =>
              config.onRollover /\ Pos(s, Near) \in 1 .. Pos(s, Top)
    BY <1>act, <1>parts DEF Positions
  <2> QED
    BY <2>1, <2>2, <2>3, <2>4, <2>5, <2>6, <1>same, <1>reach DEF Positions
<1>7. Reserved(s)'
  <2> SUFFICES ASSUME config.reserve # 0
               PROVE  /\ reserved \in Counters
                      /\ Pos(s, reserved) <= Pos(s, MinOf(Top + config.reserve, MAX_COUNTER_VALUE))
                      /\ Newest' # NoValue => Pos(s, Newest') <= Pos(s, reserved)
                      /\ failures' = 0 => Newest' = reserved
    BY <1>same DEF Reserved
  <2>1. /\ reserved \in Counters
        /\ Pos(s, reserved) <= Pos(s, MinOf(Top + config.reserve, MAX_COUNTER_VALUE))
        /\ Newest # NoValue => Pos(s, Newest) <= Pos(s, reserved)
        /\ failures = 0 => Newest = reserved
    BY <1>pers, <1>parts DEF Reserved
  <2>2. ASSUME Newest' # NoValue
        PROVE  Pos(s, Newest') <= Pos(s, reserved)
    <3>1. Pos(s, Newest') <= Pos(s, Newest) /\ Pos(s, Newest) <= Pos(s, reserved)
      BY <2>1, <2>2, <1>set
    <3>2. Pos(s, Newest') \in Nat /\ Pos(s, Newest) \in Nat /\ Pos(s, reserved) \in Nat
      BY <2>1, <2>2, <1>set, <1>num
    <3> QED
      BY <3>1, <3>2
  <2> QED
    BY <2>1, <2>2, <1>fail
<1>8. Unreserved(s)'
  <2> SUFFICES ASSUME config.reserve = 0
               PROVE  /\ Newest' # NoValue => Pos(s, Newest') <= Pos(s, Top)
                      /\ \A i \in 1 .. Len(microtasks) :
                            Newest' # NoValue => Pos(s, Newest') <= Pos(s, value[microtasks[i]])
                      /\ \A i, j \in 1 .. Len(microtasks) :
                            i <= j => Pos(s, value[microtasks[i]]) <= Pos(s, value[microtasks[j]])
    BY <1>same DEF Unreserved
  <2>1. /\ Newest # NoValue => Pos(s, Newest) <= Pos(s, Top)
        /\ \A i \in 1 .. Len(microtasks) :
              Newest # NoValue => Pos(s, Newest) <= Pos(s, value[microtasks[i]])
        /\ \A i, j \in 1 .. Len(microtasks) :
              i <= j => Pos(s, value[microtasks[i]]) <= Pos(s, value[microtasks[j]])
    BY <1>pers, <1>parts DEF Unreserved
  <2>2. ASSUME Newest' # NoValue
        PROVE  /\ Pos(s, Newest') \in Nat /\ Pos(s, Newest) \in Nat
               /\ Pos(s, Newest') <= Pos(s, Newest)
    BY <2>2, <1>set, <1>num
  <2>3. ASSUME Newest' # NoValue
        PROVE  Pos(s, Newest') <= Pos(s, Top)
    BY <2>1, <2>2, <2>3, <1>set, <1>num
  <2>4. ASSUME Newest' # NoValue, NEW i \in 1 .. Len(microtasks)
        PROVE  Pos(s, Newest') <= Pos(s, value[microtasks[i]])
    <3>1. Pos(s, Newest) <= Pos(s, value[microtasks[i]])
      BY <2>1, <2>4, <1>set
    <3>2. Pos(s, value[microtasks[i]]) \in Nat
      BY <1>pc, <1>num
    <3> QED
      BY <2>2, <2>4, <3>1, <3>2
  <2> QED
    BY <2>1, <2>3, <2>4
<1>9. Covering(s)'
  <2>1. ASSUME failures' = 0, NEW q \in Callers, Saving(q)'
        PROVE  Newest' # NoValue /\ Pos(s, value[q]) <= Pos(s, Newest')
    BY <2>1, <1>act, <1>fail, <1>parts DEF Covering
  <2> QED
    BY <2>1, <1>same DEF Covering
<1>10. Behind(s)'
  <2>1. ASSUME NEW x \in Counters, issued[x] > 0, x \notin exposed
        PROVE  Pos(s, x) <= Pos(s, Top) /\ stored' # NoValue /\ Pos(s, x) <= Pos(s, stored')
    <3>1. Pos(s, x) <= Pos(s, Top) /\ stored # NoValue /\ Pos(s, x) <= Pos(s, stored)
      BY <2>1, <1>pers, <1>parts DEF Behind
    <3>2. stored \in Counters /\ Pos(s, stored) <= Pos(s, writes[1][1])
      BY <3>1, <1>up, <1>type DEF TypeOK
    <3>3. Pos(s, x) \in Nat /\ Pos(s, stored) \in Nat /\ Pos(s, writes[1][1]) \in Nat
      BY <3>2, <1>set, <1>num
    <3>4. Pos(s, x) <= Pos(s, writes[1][1])
      BY <3>1, <3>2, <3>3
    <3> QED
      BY <3>1, <3>4, <1>sto, <1>noval
  <2> QED
    BY <2>1, <1>same DEF Behind
<1>11. Unique'
  BY <1>parts, <1>same, <1>act, ZenonT(30) DEF Unique, Excused
<1>12. RepeatedOnlyByRace'
  BY <1>parts, <1>same DEF RepeatedOnlyByRace
<1>13. (\E t \in Counters : Round(t))'
  BY <1>6, <1>7, <1>8, <1>9, <1>10 DEF Round
<1> QED
  BY <1>1, <1>2, <1>3, <1>4, <1>5, <1>11, <1>12, <1>13 DEF Inv

\* In a state in which no call is suspended, calls are no concern of the invariant.
LEMMA QuietInv ==
    ASSUME Inv, \A p \in Callers : pc'[p] = "idle", pc' \in [Callers -> Points],
           microtasks' = <<>>, phase' # "up" \/ Len(writes') = 0,
           \A i, j \in (1 .. Len(writes))' : i = j,
           UNCHANGED <<issued, raced, exposed>>
    PROVE  /\ Queues' /\ Unique' /\ RepeatedOnlyByRace'
           /\ \A p \in Callers : ~Active(p)' /\ ~Saving(p)'
<1>1. Len(microtasks)' = 0
  <2>1. Len(<<>>) = 0
    OBVIOUS
  <2> QED
    BY <2>1, Zenon
<1>2. \A p \in Callers : ~Active(p)' /\ ~Saving(p)' /\ pc'[p] # "callback"
  BY DEF Active, Saving
<1>3. Unique'
  BY <1>2, Zenon DEF Unique
<1>4. RepeatedOnlyByRace'
  BY DEF Inv, RepeatedOnlyByRace
<1>5. Queues'
  <2>1. (1 .. Len(microtasks))' = {}
    BY <1>1
  <2>2. phase' = "up" => (1 .. Len(writes))' = {}
    OBVIOUS
  <2> QED
    BY <2>1, <2>2 DEF Queues
<1> QED
  BY <1>2, <1>3, <1>4, <1>5

\* The write of a construction: the counter is ready when it lands.
LEMMA ConstructedInv ==
    ASSUME Inv, phase = "starting", WriteLands
    PROVE  Inv'
<1>1. PICK s \in Counters : Round(s)
  BY DEF Inv
<1>type. TypeOK
  BY DEF Inv
<1>parts. Control /\ Queues /\ PlainCounter /\ Warned /\ Unique /\ RepeatedOnlyByRace
          /\ Positions(s) /\ Reserved(s) /\ Unreserved(s) /\ Covering(s) /\ Behind(s)
  BY <1>1 DEF Inv, Round
<1>w. /\ config.persisted /\ config.reserve # 0 /\ writes = <<<<reserved, "construction">>>>
      /\ \A p \in Callers : pc[p] = "idle" /\ microtasks = <<>>
      /\ microtasks = <<>>
  BY <1>parts DEF Control
<1>h. Head(writes) = <<reserved, "construction">> /\ Tail(writes) = <<>> /\ Len(writes) = 1
      /\ writes[1] = <<reserved, "construction">> /\ writes # <<>>
  BY <1>w
<1>r. reserved \in Counters
  BY <1>w, <1>parts DEF Reserved
<1>step. /\ stored' = reserved /\ writes' = <<>> /\ phase' = "up" /\ pc' = pc
         /\ UNCHANGED <<config, messageCounter, reserved, value, microtasks, warned, seeded,
                        issued, raced, exposed, calls, crashes, failures>>
  BY <1>h DEF WriteLands, Resolve, history, bounds
<1>same. /\ config' = config /\ phase' = "up" /\ reserved' = reserved /\ value' = value
         /\ messageCounter' = messageCounter /\ warned' = warned /\ seeded' = seeded /\ issued' = issued
         /\ microtasks' = microtasks /\ failures' = failures
         /\ raced' = raced /\ exposed' = exposed /\ calls' = calls /\ crashes' = crashes
         /\ Top' = Top
  BY <1>step DEF Top
<1>pc. pc \in [Callers -> Points]
  BY <1>type DEF TypeOK
<1>len. Len(<<>>) = 0
  OBVIOUS
<1>len2. Len(writes)' = 0
  BY <1>len, <1>step, Zenon
<1>empty. (1 .. Len(writes))' = {}
  BY <1>len2
<1>quiet. Queues' /\ Unique' /\ RepeatedOnlyByRace' /\ \A p \in Callers : ~Active(p)' /\ ~Saving(p)'
  BY <1>w, <1>step, <1>pc, <1>len2, <1>empty, QuietInv
<1>new. Newest' = reserved /\ Newest = reserved /\ reserved # NoValue
  <2>1. Newest = reserved
    BY <1>h DEF Newest
  <2>2. Newest' = reserved
    BY <1>step DEF Newest
  <2> QED
    BY <2>1, <2>2, <1>r, <1>type, NewestFacts
<1>num. /\ Top \in Counters /\ Pos(s, Top) \in Nat /\ \A x \in Counters : Pos(s, x) \in Nat
  BY Numbers
<1>reach. Reach(crashes)' = Reach(crashes) /\ Reach(crashes + 1)' = Reach(crashes + 1)
  BY <1>same DEF Reach
<1>2. TypeOK'
  <2>1. <<>> \in Seq(Counters \X Owners)
    OBVIOUS
  <2> QED
    BY <2>1, <1>type, <1>step, <1>r DEF TypeOK
<1>3. Control'
  BY <1>parts, <1>step DEF Control
<1>4. PlainCounter'
  BY <1>same, <1>w DEF PlainCounter
<1>5. Warned'
  BY <1>parts, <1>same, AlertedSame DEF Warned
<1>6. Positions(s)'
  <2>1. Pos(s, reserved) <= Reach(crashes + 1)
    <3>1. 1 \in 1 .. Len(writes) /\ writes[1][1] = reserved
      BY <1>h
    <3> QED
      BY <3>1, <1>parts DEF Positions
  <2>2. Pos(s, Top) <= Reach(crashes)
    BY <1>parts DEF Positions
  <2>3. Reach(IF phase = "up" THEN crashes + 1 ELSE crashes)' = Reach(crashes + 1)
    BY <1>same, <1>reach
  <2>4. \A p \in Callers : pc'[p] # "callback"
    BY <1>w, <1>step
  <2> QED
    BY <2>1, <2>2, <2>3, <2>4, <1>same, <1>reach, <1>step, <1>quiet, <1>empty DEF Positions
<1>7. Reserved(s)'
  BY <1>parts, <1>same, <1>new, <1>w, <1>num, <1>r DEF Reserved
<1>8. Unreserved(s)'
  BY <1>same, <1>w DEF Unreserved
<1>9. Covering(s)'
  BY <1>quiet DEF Covering
<1>10. Behind(s)'
  <2>1. ASSUME NEW x \in Counters, issued[x] > 0, x \notin exposed
        PROVE  Pos(s, x) <= Pos(s, Top) /\ Pos(s, x) <= Pos(s, reserved)
    <3>1. Pos(s, x) <= Pos(s, Top) /\ stored # NoValue /\ Pos(s, x) <= Pos(s, stored)
      BY <2>1, <1>w, <1>parts DEF Behind
    <3>2. stored \in Counters /\ Pos(s, stored) <= Pos(s, reserved)
      BY <3>1, <1>1, <1>type, <1>new, UpToNewest DEF TypeOK
    <3>3. Pos(s, x) \in Nat /\ Pos(s, stored) \in Nat /\ Pos(s, reserved) \in Nat
      BY <3>2, <1>r, <1>num
    <3> QED
      BY <3>1, <3>2, <3>3
  <2> QED
    BY <2>1, <1>same, <1>step, <1>new DEF Behind
<1>11. (\E t \in Counters : Round(t))'
  BY <1>6, <1>7, <1>8, <1>9, <1>10 DEF Round
<1> QED
  BY <1>2, <1>3, <1>4, <1>5, <1>quiet, <1>11 DEF Inv

\* No call is suspended and nothing is pending in a process that is down: what the invariant
\* says about storage is enough.
LEMMA DownInv ==
    ASSUME Inv, NEW s \in Counters, Round(s), config.persisted,
           phase' = "down", writes' = <<>>, microtasks' = <<>>,
           \A p \in Callers : pc'[p] = "idle", pc' \in [Callers -> Points],
           UNCHANGED <<config, messageCounter, reserved, stored, value, warned, seeded, calls,
                       issued, raced, exposed>>,
           crashes' \in 0 .. MaxCrashes, failures' \in Nat,
           stored # NoValue => Pos(s, stored) <= Reach(crashes)'
    PROVE  Inv'
<1>type. TypeOK
  BY DEF Inv
<1>parts. Control /\ Queues /\ PlainCounter /\ Warned /\ Unique /\ RepeatedOnlyByRace
          /\ Positions(s) /\ Behind(s)
  BY DEF Inv, Round
<1>len. Len(<<>>) = 0
  OBVIOUS
<1>len2. Len(writes)' = 0
  BY <1>len, Zenon
<1>empty. (1 .. Len(writes))' = {}
  BY <1>len2
<1>quiet. Queues' /\ Unique' /\ RepeatedOnlyByRace' /\ \A p \in Callers : ~Active(p)' /\ ~Saving(p)'
  BY <1>len2, <1>empty, QuietInv
<1>1. TypeOK'
  <2>1. <<>> \in Seq(Counters \X Owners) /\ <<>> \in Seq(Callers)
    OBVIOUS
  <2> QED
    BY <2>1, <1>type DEF TypeOK
<1>2. Control'
  BY <1>parts DEF Control
<1>3. PlainCounter'
  BY DEF PlainCounter
<1>4. Warned'
  BY <1>parts, AlertedSame DEF Warned
<1>5. Positions(s)'
  <2>1. \A p \in Callers : pc'[p] # "callback"
    OBVIOUS
  <2>2. Reach(IF phase = "up" THEN crashes + 1 ELSE crashes)' = Reach(crashes)'
    OBVIOUS
  <2> QED
    BY <2>1, <2>2, <1>quiet, <1>empty DEF Positions
<1>6. Reserved(s)' /\ Unreserved(s)'
  BY DEF Reserved, Unreserved
<1>7. Covering(s)'
  BY <1>quiet DEF Covering
<1>8. Behind(s)'
  BY <1>parts DEF Behind
<1>9. (\E t \in Counters : Round(t))'
  BY <1>5, <1>6, <1>7, <1>8 DEF Round
<1> QED
  BY <1>1, <1>2, <1>3, <1>4, <1>quiet, <1>9 DEF Inv

\* Writes are pending in a process that is up, and belong to its calls, or in its construction.
LEMMA Pending ==
    ASSUME Inv, writes # <<>>
    PROVE  \/ phase = "up" /\ Head(writes)[2] \in Callers /\ Head(writes)[2] # "construction"
           \/ /\ phase = "starting" /\ writes = <<<<reserved, "construction">>>>
              /\ Head(writes)[2] = "construction" /\ Tail(writes) = <<>> /\ config.persisted
<1>1. phase \in {"starting", "up"}
  BY DEF Inv, TypeOK, Control
<1>2. CASE phase = "up"
  <2>1. 1 \in 1 .. Len(writes) /\ Head(writes) = writes[1]
    BY DEF Inv, TypeOK
  <2>2. writes[1][2] \in Callers
    BY <1>2, <2>1 DEF Inv, Queues
  <2> QED
    BY <1>2, <2>1, <2>2, CounterAssumption
<1>3. CASE phase = "starting"
  BY <1>3 DEF Inv, Control
<1> QED
  BY <1>1, <1>2, <1>3

\* A write lands.
LEMMA WriteLandsInv ==
    ASSUME Inv, WriteLands
    PROVE  Inv'
<1>1. PICK s \in Counters : Round(s)
  BY DEF Inv
<1>2. writes # <<>>
  BY DEF WriteLands
<1>3. CASE phase = "starting"
  BY <1>3, ConstructedInv
<1>4. CASE phase = "up" /\ Head(writes)[2] # "construction"
  <2>1. /\ writes' = Tail(writes) /\ stored' = Head(writes)[1] /\ failures' = failures
        /\ pc' = [pc EXCEPT ![Head(writes)[2]] = "written"]
        /\ UNCHANGED <<config, phase, messageCounter, reserved, value, microtasks, warned, seeded,
                       issued, raced, exposed, calls, crashes>>
    BY <1>4 DEF WriteLands, Resolve, history, bounds
  <2> QED
    BY <2>1, <1>1, <1>2, <1>4, SettleInv
<1> QED
  BY <1>2, <1>3, <1>4, Pending

\* A write fails.
LEMMA WriteFailsInv ==
    ASSUME Inv, WriteFails
    PROVE  Inv'
<1>1. PICK s \in Counters : Round(s)
  BY DEF Inv
<1>2. writes # <<>> /\ failures' = failures + 1 /\ failures \in Nat
  BY DEF WriteFails, Inv, Control
<1>3. CASE phase = "starting" /\ Head(writes)[2] = "construction" /\ Tail(writes) = <<>>
           /\ config.persisted
  <2>1. /\ writes' = <<>> /\ pc' = pc /\ phase' = "down"
        /\ UNCHANGED <<config, messageCounter, reserved, stored, value, microtasks, warned, seeded,
                       issued, raced, exposed, calls, crashes>>
    BY <1>3 DEF WriteFails, Resolve, history
  <2>2. /\ microtasks' = <<>> /\ \A p \in Callers : pc'[p] = "idle"
        /\ pc' \in [Callers -> Points] /\ crashes' \in 0 .. MaxCrashes
    BY <2>1, <1>3 DEF Inv, Control, TypeOK
  <2>3. stored # NoValue => Pos(s, stored) <= Reach(crashes)'
    <3>1. stored # NoValue => Pos(s, stored) <= Reach(crashes)
      BY <1>1, <1>3 DEF Round, Positions
    <3>2. Reach(crashes)' = Reach(crashes)
      BY <2>1 DEF Reach
    <3> QED
      BY <3>1, <3>2
  <2>4. failures' \in Nat
    BY <1>2
  <2>5. UNCHANGED <<config, messageCounter, reserved, stored, value, warned, seeded, calls,
                    issued, raced, exposed>>
    BY <2>1
  <2> QED
    BY <2>1, <2>2, <2>3, <2>4, <2>5, <1>1, <1>3, DownInv
<1>4. CASE phase = "up" /\ Head(writes)[2] # "construction"
  <2>1. /\ writes' = Tail(writes) /\ stored' = stored
        /\ pc' = [pc EXCEPT ![Head(writes)[2]] = "idle"]
        /\ UNCHANGED <<config, phase, messageCounter, reserved, value, microtasks, warned, seeded,
                       issued, raced, exposed, calls, crashes>>
    BY <1>4 DEF WriteFails, Resolve, history
  <2> QED
    BY <2>1, <1>1, <1>2, <1>4, SettleInv
<1> QED
  BY <1>2, <1>3, <1>4, Pending

\* The process dies.
LEMMA CrashInv ==
    ASSUME Inv, Crash
    PROVE  Inv'
<1>1. PICK s \in Counters : Round(s)
  BY DEF Inv
<1>step. /\ config.persisted /\ crashes < MaxCrashes /\ crashes' = crashes + 1
         /\ phase' = "down" /\ writes' = <<>> /\ microtasks' = <<>>
         /\ pc' = [p \in Callers |-> "idle"] /\ failures' = failures
         /\ UNCHANGED <<config, messageCounter, reserved, stored, value, warned, seeded, calls,
                        issued, raced, exposed>>
  BY DEF Crash, history
<1>num. /\ calls \in Nat /\ crashes \in Nat
        /\ crashes \in 0 .. MaxCrashes /\ calls \in 0 .. MaxCalls
        /\ config.reserve \in Nat /\ \A x \in Counters : Pos(s, x) \in Nat
        /\ Reach(crashes) \in Nat /\ Reach(crashes + 1) \in Nat
        /\ Reach(crashes + 1) = Reach(crashes) + config.reserve
  BY Numbers
<1>2. crashes' \in 0 .. MaxCrashes /\ failures' \in Nat
  <2>1. failures \in Nat
    BY DEF Inv, Control
  <2> QED
    BY <2>1, <1>step, <1>num, BoundAssumption
<1>3. Reach(crashes)' = Reach(crashes + 1)
  BY <1>step DEF Reach
<1>4. ASSUME stored # NoValue
      PROVE  Pos(s, stored) <= Reach(crashes + 1)
  <2>1. Pos(s, stored) <= Reach(crashes) \/ Pos(s, stored) <= Reach(crashes + 1)
    BY <1>4, <1>1 DEF Round, Positions
  <2>2. Pos(s, stored) \in Nat
    BY <1>4, <1>num DEF Inv, TypeOK
  <2> QED
    BY <2>1, <2>2, <1>num
<1>5. (\A p \in Callers : pc'[p] = "idle") /\ pc' \in [Callers -> Points]
  BY <1>step DEF Points
<1> QED
  BY <1>1, <1>step, <1>2, <1>3, <1>4, <1>5, DownInv

\* A process begins with the counter m, which is the value stored if there is one.
LEMMA BeginInv ==
    ASSUME Inv, phase = "down", NEW t \in Counters, NEW m \in Counters, messageCounter' = m,
           Pos(t, m) <= Reach(crashes), Near >= 1,
           stored # NoValue => stored = m,
           \A x \in Counters : issued[x] > 0 /\ x \notin exposed =>
               config.persisted /\ stored # NoValue /\ Pos(t, x) <= Pos(t, m),
           warned' \in BOOLEAN, seeded' \in BOOLEAN, config.onRollover /\ m >= Near => Alerted',
           IF config.persisted /\ config.reserve # 0
             THEN /\ reserved' = MinOf(m + config.reserve, MAX_COUNTER_VALUE)
                  /\ writes' = <<<<reserved', "construction">>>>
                  /\ phase' = "starting"
             ELSE reserved' = Infinity /\ writes' = <<>> /\ phase' = "up",
           UNCHANGED <<config, stored, pc, value, microtasks, issued, raced, exposed,
                       calls, crashes, failures>>
    PROVE  Inv'
<1>type. TypeOK
  BY DEF Inv
<1>parts. Control /\ PlainCounter
  BY DEF Inv
<1>num. /\ calls \in Nat /\ crashes \in Nat /\ config.reserve \in Nat
        /\ \A x \in Counters : Pos(t, x) \in Nat
        /\ Reach(crashes) \in Nat /\ Reach(crashes + 1) \in Nat
        /\ Reach(crashes + 1) = Reach(crashes) + config.reserve
        /\ 2 * Reach(crashes + 1) < Modulus
  BY Numbers
<1>idle. /\ microtasks = <<>> /\ microtasks' = <<>> /\ pc' = pc /\ pc \in [Callers -> Points]
         /\ \A p \in Callers : pc'[p] = "idle"
  BY <1>type, <1>parts DEF Control, TypeOK
<1>same. /\ config' = config /\ stored' = stored /\ value' = value /\ issued' = issued
         /\ raced' = raced /\ exposed' = exposed /\ calls' = calls /\ crashes' = crashes
         /\ failures' = failures
  OBVIOUS
<1>top. Top' = m
  BY RangeFacts DEF Top, MinOf, Counters
<1>reach. Reach(crashes)' = Reach(crashes) /\ Reach(crashes + 1)' = Reach(crashes + 1)
  BY <1>same DEF Reach
<1>sto. stored # NoValue => Pos(t, stored) = Pos(t, m)
  OBVIOUS
<1>len. Len(<<>>) = 0
  OBVIOUS
<1>noval. NoValue \notin Counters
  BY <1>type, NewestFacts
<1>w. /\ phase' # "up" \/ Len(writes') = 0
      /\ \A i, j \in (1 .. Len(writes))' : i = j
      /\ writes' \in Seq(Counters \X Owners)
      /\ reserved' \in Counters \cup {Infinity}
      /\ \A i \in (1 .. Len(writes))' :
            /\ config.persisted /\ config.reserve # 0 /\ reserved' \in Counters
            /\ writes'[i][1] = reserved'
      /\ config.persisted /\ config.reserve # 0 =>
            /\ reserved' \in Counters /\ Newest' = reserved'
            /\ Pos(t, m) <= Pos(t, reserved') /\ Pos(t, reserved') <= Reach(crashes + 1)
      /\ ~(config.persisted /\ config.reserve # 0) => Newest' = stored
  <2>1. CASE config.persisted /\ config.reserve # 0
    <3>1. /\ reserved' = MinOf(m + config.reserve, MAX_COUNTER_VALUE)
          /\ writes' = <<<<reserved', "construction">>>> /\ phase' = "starting"
      BY <2>1
    <3>2. Pos(t, m) + config.reserve < Modulus
      BY <1>num, RangeFacts
    <3>3. /\ reserved' \in Counters /\ Pos(t, m) <= Pos(t, reserved')
          /\ Pos(t, reserved') <= Pos(t, m) + config.reserve
      BY <3>1, <3>2, <1>num, PosMark
    <3>4. Pos(t, reserved') \in Nat
      BY <3>3, <1>num
    <3>5. Pos(t, reserved') <= Reach(crashes + 1)
      BY <3>3, <3>4, <1>num
    <3>6. <<reserved', "construction">> \in Counters \X Owners
      BY <3>3 DEF Owners
    <3>7. writes' \in Seq(Counters \X Owners) /\ Len(writes') = 1 /\ writes' # <<>>
          /\ writes'[1] = <<reserved', "construction">>
      BY <3>1, <3>6
    <3>8. Newest' = reserved'
      BY <3>7 DEF Newest
    <3>9. \A i \in (1 .. Len(writes))' : i = 1
      BY <3>7
    <3> QED
      BY <2>1, <3>1, <3>3, <3>5, <3>7, <3>8, <3>9
  <2>2. CASE ~(config.persisted /\ config.reserve # 0)
    <3>1. reserved' = Infinity /\ writes' = <<>> /\ phase' = "up"
      BY <2>2
    <3>2. Len(writes') = 0
      BY <3>1, <1>len, Zenon
    <3>3. (1 .. Len(writes))' = {}
      BY <3>2
    <3>4. Newest' = stored
      BY <3>1 DEF Newest
    <3>5. <<>> \in Seq(Counters \X Owners)
      OBVIOUS
    <3> QED
      BY <2>2, <3>1, <3>2, <3>3, <3>4, <3>5
  <2> QED
    BY <2>1, <2>2
<1>quiet. Queues' /\ Unique' /\ RepeatedOnlyByRace' /\ \A p \in Callers : ~Active(p)' /\ ~Saving(p)'
  BY <1>idle, <1>w, QuietInv
<1>phase. phase' \in {"starting", "up"}
          /\ (phase' = "starting" => /\ config.persisted /\ config.reserve # 0
                                    /\ writes' = <<<<reserved', "construction">>>>)
          /\ (phase' = "up" => ~(config.persisted /\ config.reserve # 0) /\ writes' = <<>>)
  OBVIOUS
<1>1. TypeOK'
  <2>1. <<>> \in Seq(Callers)
    OBVIOUS
  <2> QED
    BY <2>1, <1>type, <1>w, <1>phase, <1>idle DEF TypeOK
<1>2. Control'
  BY <1>parts, <1>phase, <1>same, <1>idle DEF Control
<1>3. PlainCounter'
  BY <1>parts, <1>phase, <1>same, <1>idle, <1>quiet DEF PlainCounter
<1>4. Warned'
  BY <1>same, RangeFacts DEF Warned, Counters
<1>5. Positions(t)'
  <2>1. ASSUME stored # NoValue
        PROVE  Pos(t, stored) <= Reach(crashes) /\ Pos(t, stored) <= Reach(crashes + 1)
    BY <2>1, <1>num
  <2>2. ASSUME NEW i \in (1 .. Len(writes))'
        PROVE  /\ Pos(t, writes'[i][1]) <= Reach(crashes + 1)
               /\ stored # NoValue => Pos(t, stored) <= Pos(t, writes'[i][1])
    BY <1>w, <1>sto
  <2>3. ASSUME NEW i \in (1 .. Len(writes))', NEW j \in (1 .. Len(writes))'
        PROVE  Pos(t, writes'[i][1]) <= Pos(t, writes'[j][1])
    <3>1. Pos(t, writes'[i][1]) \in Nat /\ i = j
      BY <1>w, <1>num
    <3> QED
      BY <3>1
  <2>4. Reach(IF phase = "up" THEN crashes + 1 ELSE crashes)'
          \in {Reach(crashes), Reach(crashes + 1)}
    BY <1>reach, <1>same
  <2>5. \A p \in Callers : pc'[p] # "callback"
    BY <1>idle
  <2> QED
    BY <2>1, <2>2, <2>3, <2>4, <2>5, <1>top, <1>same, <1>reach, <1>quiet DEF Positions
<1>6. Reserved(t)'
  <2> SUFFICES ASSUME config.persisted, config.reserve # 0
               PROVE  /\ reserved' \in Counters
                      /\ Pos(t, reserved') <= Pos(t, MinOf(m + config.reserve, MAX_COUNTER_VALUE))
                      /\ Pos(t, reserved') <= Pos(t, reserved')
    BY <1>same, <1>top, <1>w DEF Reserved
  <2>1. reserved' \in Counters /\ reserved' = MinOf(m + config.reserve, MAX_COUNTER_VALUE)
    BY <1>w
  <2>2. Pos(t, reserved') \in Nat
    BY <2>1, <1>num
  <2> QED
    BY <2>1, <2>2
<1>7. Unreserved(t)'
  <2>1. (1 .. Len(microtasks))' = {}
    <3>1. Len(microtasks') = 0
      BY <1>idle, <1>len, Zenon
    <3> QED
      BY <3>1
  <2>2. config.persisted /\ config.reserve = 0 =>
          (Newest' # NoValue => Pos(t, Newest') <= Pos(t, m))
    BY <1>w, <1>sto, <1>num
  <2> QED
    BY <2>1, <2>2, <1>same, <1>top DEF Unreserved
<1>8. Covering(t)'
  BY <1>quiet DEF Covering
<1>9. Behind(t)'
  <2>1. ASSUME NEW x \in Counters, issued[x] > 0, x \notin exposed
        PROVE  Pos(t, x) <= Pos(t, m) /\ stored # NoValue /\ Pos(t, x) <= Pos(t, stored)
    BY <2>1, <1>sto
  <2> QED
    BY <2>1, <1>same, <1>top DEF Behind
<1>10. (\E z \in Counters : Round(z))'
  BY <1>5, <1>6, <1>7, <1>8, <1>9 DEF Round
<1> QED
  BY <1>1, <1>2, <1>3, <1>4, <1>quiet, <1>10 DEF Inv

\* The constructor.
LEMMA StartInv ==
    ASSUME Inv, NEW start \in Starts, Start(start)
    PROVE  Inv'
<1>1. PICK s \in Counters : Round(s)
  BY DEF Inv
<1>type. TypeOK /\ Control /\ PlainCounter
  BY DEF Inv
<1>step. /\ phase = "down" /\ messageCounter' = InitialCounter(start)
         /\ warned' = (config.onRollover /\ Loads /\ LoadedNearRollover(stored))
         /\ seeded' = TakesSeed
         /\ IF config.persisted /\ config.reserve # 0
              THEN /\ reserved' = MinOf(messageCounter' + config.reserve, MAX_COUNTER_VALUE)
                   /\ writes' = <<<<reserved', "construction">>>>
                   /\ phase' = "starting"
              ELSE reserved' = Infinity /\ writes' = <<>> /\ phase' = "up"
         /\ UNCHANGED <<config, stored, pc, value, microtasks, issued, raced, exposed,
                        calls, crashes, failures>>
  BY DEF Start, history, bounds
<1>2. start \in Counters /\ Near \in Counters /\ Near >= 1 /\ start < Near
  BY CounterAssumption, RangeFacts DEF Counters, Near
<1>num. Reach(crashes) \in Nat /\ \A x \in Counters : Pos(s, x) \in Nat
  BY Numbers
<1>opts. /\ config.onRollover \in BOOLEAN /\ config.persisted \in BOOLEAN
         /\ config.seed \in Counters \cup {NoValue}
  BY <1>type, CounterAssumption DEF TypeOK
<1>bool. warned' \in BOOLEAN /\ seeded' \in BOOLEAN
  BY <1>step, <1>opts DEF Loads, TakesSeed, LoadedNearRollover
<1>3. CASE config.persisted /\ stored # NoValue
  <2>1. messageCounter' = stored /\ stored \in Counters
    BY <1>3, <1>step, <1>type DEF InitialCounter, Loads, TypeOK
  <2>2. Pos(s, stored) <= Reach(crashes)
    BY <1>1, <1>3, <1>step DEF Round, Positions
  <2>3. \A x \in Counters : issued[x] > 0 /\ x \notin exposed =>
           config.persisted /\ stored # NoValue /\ Pos(s, x) <= Pos(s, stored)
    BY <1>1, <1>3 DEF Round, Behind
  <2>4. config.onRollover /\ stored >= Near => Alerted'
    BY <1>3, <1>step DEF LoadedNearRollover, Loads, Alerted, Near
  <2>5. IF config.persisted /\ config.reserve # 0
          THEN /\ reserved' = MinOf(stored + config.reserve, MAX_COUNTER_VALUE)
               /\ writes' = <<<<reserved', "construction">>>>
               /\ phase' = "starting"
          ELSE reserved' = Infinity /\ writes' = <<>> /\ phase' = "up"
    BY <2>1, <1>step
  <2> QED
    BY <2>1, <2>2, <2>3, <2>4, <2>5, <1>1, <1>2, <1>step, <1>bool, BeginInv
<1>4. CASE ~(config.persisted /\ stored # NoValue)
  <2> DEFINE m == IF TakesSeed THEN config.seed ELSE start
  <2>1. messageCounter' = m /\ stored = NoValue
    BY <1>4, <1>step, <1>type DEF InitialCounter, Loads, PlainCounter
  <2>m. m \in Counters
    BY <1>2, <1>opts DEF TakesSeed
  <2>4. config.onRollover /\ m >= Near => Alerted'
    <3>1. CASE TakesSeed
      BY <3>1, <1>step DEF Alerted, SeededPastWarning, Near
    <3>2. CASE ~TakesSeed
      <4>1. ~(start >= Near)
        BY <1>2, RangeFacts DEF Counters
      <4> QED
        BY <3>2, <4>1
    <3> QED
      BY <3>1, <3>2
  <2> HIDE DEF m
  <2>2. Pos(m, m) <= Reach(crashes)
    <3>1. Pos(m, m) = 0
      BY <2>m, PosStart
    <3> QED
      BY <3>1, <1>num
  <2>3. ASSUME NEW x \in Counters, issued[x] > 0, x \notin exposed
        PROVE  FALSE
    <3>1. CASE config.persisted
      BY <2>1, <2>3, <3>1, <1>1 DEF Round, Behind
    <3>2. CASE ~config.persisted
      <4>1. issued[x] = 0
        BY <3>2, <1>type, <1>step DEF PlainCounter
      <4> QED
        BY <4>1, <2>3
    <3> QED
      BY <3>1, <3>2
  <2>5. IF config.persisted /\ config.reserve # 0
          THEN /\ reserved' = MinOf(m + config.reserve, MAX_COUNTER_VALUE)
               /\ writes' = <<<<reserved', "construction">>>>
               /\ phase' = "starting"
          ELSE reserved' = Infinity /\ writes' = <<>> /\ phase' = "up"
    BY <2>1, <1>step
  <2> QED
    BY <2>1, <2>m, <2>2, <2>3, <2>4, <2>5, <1>2, <1>step, <1>bool, BeginInv
<1> QED
  BY <1>3, <1>4

-----------------------------------------------------------------------------
(***************************************************************************)
(* The theorems.                                                           *)
(***************************************************************************)

\* Initially.
LEMMA InitInv == Init => Inv
<1> SUFFICES ASSUME Init
             PROVE  Inv
  OBVIOUS
<1>len. Len(<<>>) = 0
  OBVIOUS
<1>empty. 1 .. Len(writes) = {} /\ 1 .. Len(microtasks) = {}
  <2>1. Len(writes) = 0 /\ Len(microtasks) = 0
    BY <1>len, Zenon DEF Init
  <2> QED
    BY <2>1
<1>pc. \A p \in Callers : pc[p] = "idle"
  BY DEF Init
<1>act. \A p \in Callers : ~Active(p) /\ ~Saving(p) /\ pc[p] # "callback"
  BY <1>pc DEF Active, Saving
<1>iss. \A v \in Counters : issued[v] = 0
  BY DEF Init
<1>1. TypeOK
  BY RangeFacts DEF Init, TypeOK, Counters, Points
<1>2. Control
  BY <1>pc, BoundAssumption DEF Init, Control
<1>3. Queues
  BY <1>empty DEF Queues
<1>4. PlainCounter
  BY <1>act, <1>iss DEF Init, PlainCounter
<1>5. Warned
  BY RangeFacts DEF Init, Warned
<1>6. 0 \in Counters
  BY RangeFacts DEF Counters
<1>7. Round(0)
  <2>1. Positions(0)
    BY <1>empty, <1>act DEF Init, Positions
  <2>2. Reserved(0) /\ Unreserved(0)
    BY DEF Init, Reserved, Unreserved
  <2>3. Covering(0)
    BY <1>act DEF Covering
  <2>4. Behind(0)
    BY <1>iss DEF Behind
  <2> QED
    BY <2>1, <2>2, <2>3, <2>4 DEF Round
<1>8. Unique
  BY <1>act DEF Unique
<1>9. RepeatedOnlyByRace
  BY <1>iss DEF RepeatedOnlyByRace
<1> QED
  BY <1>1, <1>2, <1>3, <1>4, <1>5, <1>6, <1>7, <1>8, <1>9 DEF Inv

\* Every step.
LEMMA NextInv == Inv /\ [Next]_vars => Inv'
<1> SUFFICES ASSUME Inv, [Next]_vars
             PROVE  Inv'
  OBVIOUS
<1>1. ASSUME NEW start \in Starts, Start(start)
      PROVE  Inv'
  BY <1>1, StartInv
<1>2. ASSUME NEW p \in Callers, Call(p) \/ CallbackResolved(p) \/ Resume(p) \/ Return(p)
      PROVE  Inv'
  BY <1>2, CallInv, CallbackInv, ResumeInv, ReturnStepInv
<1>3. CASE WriteLands
  BY <1>3, WriteLandsInv
<1>4. CASE WriteFails
  BY <1>4, WriteFailsInv
<1>5. CASE Crash
  BY <1>5, CrashInv
<1>6. CASE UNCHANGED vars
  <2>1. /\ UNCHANGED <<config, phase, messageCounter, reserved, stored, writes, pc, value>>
        /\ UNCHANGED <<microtasks, warned, seeded, issued, raced, exposed, calls, crashes, failures>>
    BY <1>6 DEF vars, state, history, bounds
  <2>2. /\ TypeOK' = TypeOK /\ Control' = Control /\ Queues' = Queues
        /\ PlainCounter' = PlainCounter /\ Warned' = Warned
        /\ RepeatedOnlyByRace' = RepeatedOnlyByRace
    BY <2>1, AlertedSame DEF TypeOK, Control, Queues, PlainCounter, Warned, RepeatedOnlyByRace, Active
  <2>3. Unique' = Unique
    BY <2>1 DEF Unique, Active, Excused
  <2>4. ASSUME NEW s \in Counters
        PROVE  Round(s)' = Round(s)
    <3>1. Top' = Top /\ Newest' = Newest
      BY <2>1 DEF Top, Newest
    <3>2. Positions(s)' = Positions(s)
      BY <2>1, <3>1 DEF Positions, Reach, Active
    <3>3. Reserved(s)' = Reserved(s) /\ Unreserved(s)' = Unreserved(s)
      BY <2>1, <3>1 DEF Reserved, Unreserved
    <3>4. Covering(s)' = Covering(s) /\ Behind(s)' = Behind(s)
      BY <2>1, <3>1 DEF Covering, Saving, Behind
    <3> QED
      BY <3>2, <3>3, <3>4 DEF Round
  <2> QED
    BY <2>2, <2>3, <2>4, Zenon DEF Inv
<1> QED
  BY <1>1, <1>2, <1>3, <1>4, <1>5, <1>6 DEF Next

\* The invariant holds in every state, for every range, reserve, start and number of exchanges.
THEOREM Invariance == Spec => []Inv
  BY InitInv, NextInv, PTL DEF Spec

\* The type invariant: the counter leaves its 32 bits only where getIncrementedCounter throws.
THEOREM TypeCorrect == Spec => []TypeOK
<1>1. Inv => TypeOK
  BY DEF Inv
<1> QED
  BY <1>1, Invariance, PTL

\* No counter value is returned twice, over wraps, failed writes and crashes, except after the
\* overtaken await of onRollover and the ones that were returned before storage covered them.
THEOREM NoSilentRepeat == Spec => []RepeatedOnlyByRace
<1>1. Inv => RepeatedOnlyByRace
  BY DEF Inv
<1> QED
  BY <1>1, Invariance, PTL

\* A call that returns when no write is pending and none has failed returns a value that
\* storage covers.
LEMMA ReturnsCovered ==
    ASSUME Inv, NEW p \in Callers, writes = <<>>, failures = 0, phase = "up",
           \/ pc[p] = "written"
           \/ pc[p] = "resumed" /\ config.reserve # 0 /\ ~MustReserve(value[p])
    PROVE  Covers(stored, value[p])
<1>1. PICK s \in Counters : Round(s)
  BY DEF Inv
<1>2. Active(p) /\ config.persisted
  BY DEF Inv, PlainCounter, Active
<1>3. Newest = stored
  BY DEF Newest
<1>4. CASE pc[p] = "written"
  <2>1. stored # NoValue /\ Pos(s, value[p]) <= Pos(s, stored)
    BY <1>1, <1>3, <1>4 DEF Round, Covering, Saving
  <2> QED
    BY <2>1, <1>1, <1>2, StoredCovers
<1>5. CASE config.reserve # 0 /\ ~MustReserve(value[p])
  <2>1. reserved \in Counters /\ stored = reserved
    BY <1>1, <1>2, <1>3, <1>5 DEF Round, Reserved
  <2>num. /\ config.reserve \in Nat /\ Pos(s, Top) \in Nat
          /\ Reach(crashes) \in Nat /\ Reach(crashes + 1) = Reach(crashes) + config.reserve
          /\ 2 * Reach(crashes + 1) < Modulus
    BY <1>1, Numbers
  <2>2. Pos(s, value[p]) \in 1 .. Pos(s, Top) /\ Pos(s, Top) <= Reach(crashes)
    BY <1>1, <1>2 DEF Round, Positions
  <2>3. value[p] \in Counters
    BY DEF Inv, TypeOK
  <2>4. value[p] < reserved /\ value[p] >= reserved - config.reserve
    BY <2>1, <2>3, <2>num, <1>5, RangeFacts DEF MustReserve, Counters
  <2>5. Pos(s, value[p]) + config.reserve < Modulus
    BY <2>2, <2>num, RangeFacts
  <2>6. Pos(s, value[p]) <= Pos(s, reserved)
    BY <2>1, <2>3, <2>4, <2>5, <2>num, PosBlock
  <2>7. stored # NoValue
    BY <2>1, NewestFacts DEF Inv
  <2> QED
    BY <2>1, <2>6, <2>7, <1>1, <1>2, StoredCovers
<1> QED
  BY <1>4, <1>5

\* A value leaves getIncrementedCounter uncovered by storage only while a write of another call
\* is under way or after a write has failed.
THEOREM Covered == Spec => CoveredBeforeUse
<1>1. ASSUME Inv, [Next]_vars
      PROVE  [exposed' # exposed => writes # <<>> \/ failures > 0]_vars
  <2> SUFFICES ASSUME Next, writes = <<>>, failures = 0
               PROVE  exposed' = exposed
    <3>1. failures \in Nat
      BY <1>1 DEF Inv, Control
    <3>2. ~(failures > 0) => failures = 0
      BY <3>1
    <3> QED
      BY <1>1, <3>2, Zenon
  <2>1. ASSUME NEW p \in Callers, Call(p) \/ CallbackResolved(p)
        PROVE  exposed' = exposed
    BY <2>1 DEF Call, Increment, CallbackResolved, Proceed, Returned
  <2>2. ASSUME NEW p \in Callers, Resume(p)
        PROVE  exposed' = exposed
    <3>1. microtasks # <<>> /\ p = Head(microtasks) /\ microtasks' = Tail(microtasks)
      BY <2>2 DEF Resume
    <3>2. pc[p] = "resumed" /\ phase = "up"
      BY <3>1, <1>1, Dequeue
    <3>3. CASE config.reserve # 0 /\ ~MustReserve(value[p])
      <4>1. Covers(stored, value[p])
        BY <3>2, <3>3, <1>1, ReturnsCovered
      <4>2. Returned(p, value[p])
        BY <2>2, <3>3 DEF Resume
      <4> QED
        BY <4>1, <4>2 DEF Returned
    <3>4. CASE ~(config.reserve # 0 /\ ~MustReserve(value[p]))
      BY <2>2, <3>4 DEF Resume
    <3> QED
      BY <3>3, <3>4
  <2>3. ASSUME NEW p \in Callers, Return(p)
        PROVE  exposed' = exposed
    <3>1. pc[p] = "written" /\ Returned(p, value[p])
      BY <2>3 DEF Return
    <3>2. phase = "up"
      BY <3>1, <1>1 DEF Inv, Control
    <3>3. Covers(stored, value[p])
      BY <3>1, <3>2, <1>1, ReturnsCovered
    <3> QED
      BY <3>1, <3>3 DEF Returned
  <2>4. CASE (\E start \in Starts : Start(start)) \/ WriteLands \/ WriteFails \/ Crash
    BY <2>4 DEF Start, WriteLands, WriteFails, Crash, history
  <2> QED
    BY <2>1, <2>2, <2>3, <2>4 DEF Next
<1> QED
  BY <1>1, Invariance, PTL DEF Spec, CoveredBeforeUse

\* The counter goes back to the beginning of its range only in a process that has called
\* onRollover before, or that started from a seed at or beyond the value that warns.
THEOREM WarnedFirst == Spec => WarnedBeforeRollover
<1>1. ASSUME Inv, [Next]_vars
      PROVE  [phase = "up" /\ messageCounter' < messageCounter
                => warned \/ SeededPastWarning]_vars
  <2> SUFFICES ASSUME Next, phase = "up", messageCounter' < messageCounter
               PROVE  Alerted
    BY <1>1, Zenon DEF Alerted
  <2>mc. /\ messageCounter \in Nat /\ messageCounter <= MAX_COUNTER_VALUE + 1
    BY <1>1, TopFacts DEF Inv
  <2>1. ASSUME NEW p \in Callers, Call(p)
        PROVE  Alerted
    <3>1. Increment(p)
      BY <2>1 DEF Call
    <3>2. CASE Rollover /\ config.onRollover
      <4>1. messageCounter >= Near
        BY <3>2, <2>mc, RangeFacts DEF Rollover, Counters
      <4>2. phase # "down"
        OBVIOUS
      <4> QED
        BY <3>2, <4>1, <4>2, <1>1, Zenon DEF Inv, Warned
    <3>3. CASE ~(Rollover /\ config.onRollover)
      <4>1. messageCounter' = messageCounter + 1
            \/ messageCounter' = MAX_COUNTER_VALUE + 1
        BY <3>1, <3>3 DEF Increment
      <4>2. FALSE
        BY <4>1, <2>mc, RangeFacts
      <4> QED
        BY <4>2
    <3> QED
      BY <3>2, <3>3
  <2>2. CASE UNCHANGED messageCounter
    <3>1. FALSE
      BY <2>2, <2>mc
    <3> QED
      BY <3>1
  <2>3. CASE \E start \in Starts : Start(start)
    BY <2>3 DEF Start
  <2> QED
    BY <2>1, <2>2, <2>3 DEF Next, CallbackResolved, Resume, Return, WriteLands, WriteFails, Crash
<1> QED
  BY <1>1, Invariance, PTL DEF Spec, WarnedBeforeRollover
=============================================================================
