--------------------- MODULE MessageReceptionStateProofs ---------------------
(***************************************************************************)
(* For every width of the window and every even counter range, the bitmap  *)
(* of a reception state is exactly the set of messages received, so no     *)
(* message is taken twice and none within the window is refused wrongly.   *)
(***************************************************************************)
EXTENDS MessageReceptionState, TLAPS

\* A shift count below the width is not reduced, and one bit is one position.
LEMMA SmallModulo ==
    ASSUME NEW w \in Nat \ {0}, NEW n \in 0 .. w - 1
    PROVE  n % w = n
OBVIOUS

\* Division with remainder.
LEMMA Division ==
    ASSUME NEW m \in Nat \ {0}, NEW a \in Int
    PROVE  /\ a % m \in 0 .. m - 1
           /\ \E q \in Int : a = m * q + (a % m)
<1>1. a % m \in 0 .. m - 1
  OBVIOUS
<1>2. a \div m \in Int /\ a = m * (a \div m) + (a % m)
  OBVIOUS
<1> QED BY <1>1, <1>2

\* Two numbers that are less than a modulus apart differ by their counters and
\* at most one round.
LEMMA Rounds ==
    ASSUME NEW m \in Nat \ {0}, NEW a \in Int, NEW b \in Int,
           b - a < m, a - b < m
    PROVE  \/ b - a = (b % m) - (a % m)
           \/ b - a = (b % m) - (a % m) + m
           \/ b - a = (b % m) - (a % m) - m
<1>1. PICK qa \in Int : a = m * qa + (a % m)
  BY Division
<1>2. PICK qb \in Int : b = m * qb + (b % m)
  BY Division
<1>3. a % m \in 0 .. m - 1 /\ b % m \in 0 .. m - 1
  BY Division
<1>4. PICK ra \in 0 .. m - 1 : ra = a % m
  BY <1>3
<1>5. PICK rb \in 0 .. m - 1 : rb = b % m
  BY <1>3
<1>6. b - a = m * (qb - qa) + (rb - ra)
  BY <1>1, <1>2, <1>4, <1>5
<1>7. SUFFICES ASSUME NEW k \in Int, b - a = m * k + (rb - ra)
               PROVE  m * k \in {-m, 0, m}
  <2>1. m * (qb - qa) \in {-m, 0, m}
    BY <1>6, <1>7
  <2> QED BY <1>4, <1>5, <1>6, <2>1
<1>8. ~(k >= 2)
  <2>1. SUFFICES ASSUME k >= 2 PROVE FALSE
    OBVIOUS
  <2>2. m * k >= m * 2
    BY <2>1
  <2> QED BY <1>7, <2>2
<1>9. ~(k <= -2)
  <2>1. SUFFICES ASSUME k <= -2 PROVE FALSE
    OBVIOUS
  <2>2. m * k <= m * (-2)
    BY <2>1
  <2> QED BY <1>7, <2>2
<1>10. k \in {-1, 0, 1}
  BY <1>8, <1>9
<1> QED BY <1>10

-----------------------------------------------------------------------------

\* Without rollover the message numbers are the counters.
HighInRange ==
    variant = "EncryptedWithoutRollover" =>
        high \in Counters /\ maximumMessageCounter # NoCounter

\* The inductive invariant.
IInv ==
    /\ TypeOK
    /\ BitmapIsWindow
    /\ HighInRange
    /\ NeverTakenTwice
    /\ NeverLostInWindow

LEMMA Widths ==
    /\ Modulus \in Nat \ {0}
    /\ Modulus = 2 * MAX_COUNTER_INCREASE
    /\ Modulus = MAX_COUNTER_VALUE + 1
    /\ MAX_COUNTER_VALUE \in Nat
    /\ MSG_COUNTER_WINDOW_SIZE \in Nat \ {0}
    /\ MAX_COUNTER_INCREASE \in Nat
    /\ MSG_COUNTER_WINDOW_SIZE < MAX_COUNTER_INCREASE
BY WindowAssumption DEF Modulus

\* calculateDiff is the distance between the numbers of the messages, for the
\* three classes and on both sides of a wrap.
LEMMA DiffIsDistance ==
    ASSUME TypeOK, BitmapIsWindow, HighInRange, maximumMessageCounter # NoCounter,
           NEW n \in Int, NEW c \in Counters, Carries(n, c), InHorizon(n)
    PROVE  /\ c = maximumMessageCounter <=> n = high
           /\ CalculateDiff(c) = n - high
<1>1. /\ c = n % Modulus /\ maximumMessageCounter = high % Modulus
      /\ high \in Int /\ maximumMessageCounter \in Counters /\ variant \in Variants
  BY DEF TypeOK, BitmapIsWindow, Carries
<1>2. CASE variant = "EncryptedWithoutRollover"
  <2>1. n \in 0 .. Modulus - 1 /\ high \in 0 .. Modulus - 1
    BY <1>2, Widths DEF InHorizon, HighInRange, Counters
  <2>2. c = n /\ maximumMessageCounter = high
    BY <1>1, <2>1, SmallModulo, Widths
  <2> QED BY <1>1, <1>2, <2>1, <2>2, Widths DEF CalculateDiff, DiffWithoutRollover
<1>3. CASE variant # "EncryptedWithoutRollover"
  <2>1. /\ n - high < Modulus /\ high - n < Modulus
    <3>1. CASE variant = "EncryptedWithRollover"
      BY <1>1, <3>1, Widths DEF InHorizon
    <3>2. CASE variant = "UnencryptedWithRollover"
      BY <1>1, <3>2, Widths DEF InHorizon
    <3> QED BY <1>1, <1>3, <3>1, <3>2 DEF Variants
  <2>2. \/ n - high = c - maximumMessageCounter
        \/ n - high = c - maximumMessageCounter + Modulus
        \/ n - high = c - maximumMessageCounter - Modulus
    <3>1. \/ n - high = (n % Modulus) - (high % Modulus)
          \/ n - high = (n % Modulus) - (high % Modulus) + Modulus
          \/ n - high = (n % Modulus) - (high % Modulus) - Modulus
      BY <1>1, <2>1, Rounds, Widths
    <3> QED BY <1>1, <3>1
  <2>3. c \in 0 .. Modulus - 1 /\ maximumMessageCounter \in 0 .. Modulus - 1
    BY <1>1, Widths DEF Counters
  <2>4. c = maximumMessageCounter <=> n = high
    BY <1>1, <2>1, <2>2, <2>3, Widths
  <2>5. CASE variant = "EncryptedWithRollover"
    <3>1. n - high >= -MAX_COUNTER_INCREASE /\ n - high < MAX_COUNTER_INCREASE
      BY <1>1, <2>5, Widths DEF InHorizon
    <3>2. DiffWithRollover(c) = n - high
      BY <1>1, <2>2, <2>3, <3>1, Widths DEF DiffWithRollover
    <3> QED BY <2>4, <2>5, <3>2 DEF CalculateDiff
  <2>6. CASE variant = "UnencryptedWithRollover"
    <3>1. /\ n - high >= -MSG_COUNTER_WINDOW_SIZE
          /\ n - high <= MAX_COUNTER_VALUE - MSG_COUNTER_WINDOW_SIZE
      BY <1>1, <2>6, Widths DEF InHorizon
    <3>2. DiffUnencrypted(c) = n - high
      BY <1>1, <2>2, <2>3, <3>1, Widths DEF DiffUnencrypted
    <3> QED BY <2>4, <2>6, <3>2 DEF CalculateDiff
  <2> QED BY <1>1, <1>3, <2>5, <2>6 DEF Variants
<1> QED BY <1>2, <1>3

\* One step of the window: if the bitmap described the messages before message n
\* was taken, calculateMessageCounterBitmap makes it describe them afterwards.
LEMMA WindowStep ==
    ASSUME NEW bits \in SUBSET Bits, NEW h \in Int, NEW s \in SUBSET Int,
           h \in s, \A x \in s : x <= h,
           \A i \in Bits : i \in bits <=> h - 1 - i \in s,
           NEW n \in Int, n # h, n >= h - MSG_COUNTER_WINDOW_SIZE,
           NEW t \in Int, t = IF n > h THEN n ELSE h
    PROVE  /\ CalculateMessageCounterBitmap(bits, n - h) \in SUBSET Bits
           /\ \A i \in Bits : i \in CalculateMessageCounterBitmap(bits, n - h)
                                 <=> t - 1 - i \in s \cup {n}
<1> DEFINE W == MSG_COUNTER_WINDOW_SIZE
           d == n - h
<1>1. W \in Nat \ {0} /\ d \in Int
  BY Widths
<1>2. \A k \in 0 .. W - 1 : Bit(k) = {k}
  BY <1>1, SmallModulo DEF Bit
<1>3. CASE d < 0
  <2>1. -d - 1 \in 0 .. W - 1
    BY <1>1, <1>3
  <2>2. CalculateMessageCounterBitmap(bits, d) = bits \cup {-d - 1}
    BY <1>1, <1>2, <1>3, <2>1 DEF CalculateMessageCounterBitmap
  <2>3. ASSUME NEW i \in Bits
        PROVE  i \in bits \cup {-d - 1} <=> t - 1 - i \in s \cup {n}
    <3>1. i \in Int /\ t = h /\ (i = -d - 1 <=> t - 1 - i = n)
      BY <1>1, <1>3 DEF Bits
    <3>2. i \in bits <=> t - 1 - i \in s
      BY <3>1
    <3> QED BY <3>1, <3>2
  <2>4. bits \cup {-d - 1} \in SUBSET Bits
    BY <2>1 DEF Bits
  <2> QED BY <2>2, <2>3, <2>4
<1>4. CASE d > 0 /\ d < W
  <2>1. d - 1 \in 0 .. W - 1 /\ d \in 0 .. W - 1
    BY <1>1, <1>4
  <2>2. d % W = d
    BY <1>1, <2>1, SmallModulo
  <2>3. CalculateMessageCounterBitmap(bits, d) = Shl(bits, d) \cup {d - 1}
    BY <1>1, <1>2, <1>4, <2>1 DEF CalculateMessageCounterBitmap
  <2>4. Shl(bits, d) = {b + d : b \in bits} \cap Bits
    BY <2>2 DEF Shl
  <2>5. ASSUME NEW i \in Bits
        PROVE  i \in Shl(bits, d) <=> i >= d /\ i - d \in bits
    BY <1>1, <1>4, <2>4 DEF Bits
  <2>6. ASSUME NEW i \in Bits
        PROVE  i \in CalculateMessageCounterBitmap(bits, d) <=> t - 1 - i \in s \cup {n}
    <3>1. i \in Nat /\ i < W /\ t = n
      BY <1>1, <1>4 DEF Bits
    <3>2. CASE i < d - 1
      BY <1>1, <1>4, <2>3, <2>5, <3>1, <3>2
    <3>3. CASE i = d - 1
      BY <1>1, <1>4, <2>3, <3>1, <3>3
    <3>4. CASE i > d - 1
      <4>1. i - d \in Bits
        BY <1>1, <1>4, <3>1, <3>4 DEF Bits
      <4>2. i \in CalculateMessageCounterBitmap(bits, d) <=> i - d \in bits
        BY <1>1, <1>4, <2>3, <2>5, <3>1, <3>4
      <4>3. h - 1 - (i - d) = t - 1 - i /\ t - 1 - i # n
        BY <1>1, <3>1
      <4> QED BY <4>1, <4>2, <4>3
    <3> QED BY <1>1, <3>1, <3>2, <3>3, <3>4
  <2> QED BY <1>1, <2>1, <2>3, <2>4, <2>6 DEF Bits
<1>5. CASE d > 0 /\ d = W
  <2>1. CalculateMessageCounterBitmap(bits, d) = {d - 1}
    BY <1>1, <1>2, <1>5 DEF CalculateMessageCounterBitmap
  <2> QED BY <1>1, <1>5, <2>1 DEF Bits
<1>6. CASE d > 0 /\ d > W
  <2>1. CalculateMessageCounterBitmap(bits, d) = {}
    BY <1>1, <1>6 DEF CalculateMessageCounterBitmap
  <2> QED BY <1>1, <1>6, <2>1 DEF Bits
<1> QED BY <1>1, <1>3, <1>4, <1>5, <1>6

\* isCounterKnownInBitmap reads the bit of the message.
LEMMA KnownBit ==
    ASSUME NEW n \in Int, n < high, n >= high - MSG_COUNTER_WINDOW_SIZE,
           TypeOK, BitmapIsWindow, maximumMessageCounter # NoCounter
    PROVE  IsCounterKnownInBitmap(n - high) <=> n \in seen
<1>1. high \in Int /\ MSG_COUNTER_WINDOW_SIZE \in Nat \ {0}
  BY Widths DEF TypeOK
<1>2. -(n - high) - 1 \in Bits /\ high - 1 - (-(n - high) - 1) = n
  BY <1>1 DEF Bits
<1>3. Bit(-(n - high) - 1) = {-(n - high) - 1}
  BY <1>1, <1>2, SmallModulo DEF Bit, Bits
<1> QED BY <1>2, <1>3 DEF IsCounterKnownInBitmap, BitmapIsWindow

-----------------------------------------------------------------------------

\* What the history records of a message is a verdict on it.
LEMMA JudgeRecords ==
    ASSUME NEW n \in Int, NEW accepted \in BOOLEAN, Judge(n, accepted)
    PROVE  /\ last' \in Verdict
           /\ last'.accepted = accepted
           /\ last'.repeated = (n \in seen)
           /\ last'.behind = (n < high - MSG_COUNTER_WINDOW_SIZE)
<1>1. /\ (n \in seen) \in BOOLEAN
      /\ (n < high - MSG_COUNTER_WINDOW_SIZE) \in BOOLEAN
  OBVIOUS
<1> QED BY <1>1, Zenon DEF Judge, Verdict

LEMMA InitEstablishes == Init => IInv
<1> SUFFICES ASSUME Init PROVE IInv
  OBVIOUS
<1>1. /\ variant \in Variants /\ high = 0 /\ last = NoVerdict
      /\ messageCounterBitmap = InitialBitmap(variant)
  BY DEF Init
<1>2. NeverTakenTwice /\ NeverLostInWindow /\ last \in Verdict
  BY <1>1 DEF NoVerdict, NeverTakenTwice, NeverLostInWindow, Verdict
<1>3. 0 \in Counters /\ 0 # NoCounter /\ InitialBitmap(variant) \subseteq Bits
  BY Widths DEF Counters, NoCounter, InitialBitmap
<1>4. CASE variant = "EncryptedWithoutRollover"
  <2>1. /\ maximumMessageCounter = 0 /\ seen = 0 - MSG_COUNTER_WINDOW_SIZE .. 0
        /\ messageCounterBitmap = Bits
    BY <1>1, <1>4 DEF Init, InitiallySeen, InitialBitmap
  <2>2. Carries(high, maximumMessageCounter)
    BY <1>1, <2>1, SmallModulo, Widths DEF Carries
  <2>3. BitmapIsWindow
    BY <1>1, <2>1, <2>2, Widths DEF BitmapIsWindow, Bits
  <2>4. TypeOK /\ HighInRange
    BY <1>1, <1>2, <1>3, <2>1, Widths DEF TypeOK, HighInRange
  <2> QED BY <1>2, <2>3, <2>4 DEF IInv
<1>5. CASE variant # "EncryptedWithoutRollover"
  <2>1. maximumMessageCounter = NoCounter /\ seen = {}
    BY <1>5 DEF Init
  <2> QED BY <1>1, <1>2, <1>3, <1>5, <2>1
          DEF IInv, TypeOK, BitmapIsWindow, HighInRange
<1> QED BY <1>4, <1>5

LEMMA FirstPreserves ==
    ASSUME IInv, NEW n \in Int, NEW c \in Counters, Carries(n, c), ReceiveFirst(n, c)
    PROVE  IInv'
<1>1. /\ variant' = variant /\ maximumMessageCounter' = c /\ high' = n
      /\ messageCounterBitmap' = InitialBitmap(variant)
      /\ seen' = InitiallySeen(variant, n) /\ last' = NoVerdict
      /\ variant \in Variants /\ maximumMessageCounter = NoCounter
  BY DEF ReceiveFirst, IInv, TypeOK
<1>2. (NeverTakenTwice /\ NeverLostInWindow)' /\ last' \in Verdict
  BY <1>1 DEF NoVerdict, NeverTakenTwice, NeverLostInWindow, Verdict
<1>3. variant # "EncryptedWithoutRollover"
  BY <1>1 DEF IInv, HighInRange
<1>4. \/ InitialBitmap(variant) = {} /\ InitiallySeen(variant, n) = {n}
      \/ /\ InitialBitmap(variant) = Bits
         /\ InitiallySeen(variant, n) = n - MSG_COUNTER_WINDOW_SIZE .. n
  BY DEF InitialBitmap, InitiallySeen
<1>5. BitmapIsWindow'
  <2>1. Carries(high, maximumMessageCounter)'
    BY <1>1 DEF Carries
  <2>2. (high \in seen /\ \A x \in seen : x <= high)'
    BY <1>1, <1>4, Widths
  <2>3. (\A i \in Bits : i \in messageCounterBitmap <=> high - 1 - i \in seen)'
    BY <1>1, <1>4, Widths DEF Bits
  <2> QED BY <2>1, <2>2, <2>3 DEF BitmapIsWindow
<1>6. TypeOK'
  BY <1>1, <1>2, <1>4, Widths DEF TypeOK
<1> QED BY <1>1, <1>2, <1>3, <1>5, <1>6 DEF IInv, HighInRange

LEMMA DuplicatePreserves ==
    ASSUME IInv, NEW n \in Int, NEW c \in Counters, Carries(n, c), ReceiveDuplicate(n, c)
    PROVE  IInv'
<1>1. /\ TypeOK /\ BitmapIsWindow /\ HighInRange /\ maximumMessageCounter # NoCounter
      /\ InHorizon(n) /\ IsDuplicate(c) /\ Judge(n, FALSE)
      /\ UNCHANGED <<variant, maximumMessageCounter, messageCounterBitmap, high, seen>>
  BY DEF ReceiveDuplicate, IInv
<1>2. /\ c = maximumMessageCounter <=> n = high
      /\ CalculateDiff(c) = n - high
  BY <1>1, DiffIsDistance
<1>3. high \in Int /\ high \in seen /\ MSG_COUNTER_WINDOW_SIZE \in Nat
  BY <1>1, Widths DEF TypeOK, BitmapIsWindow
<1>4. n \in seen \/ n < high - MSG_COUNTER_WINDOW_SIZE
  <2>1. CASE c = maximumMessageCounter
    BY <1>2, <1>3, <2>1
  <2>2. CASE /\ n - high < 0
             /\ \/ n - high < -MSG_COUNTER_WINDOW_SIZE
                \/ IsCounterKnownInBitmap(n - high)
    <3>1. CASE n >= high - MSG_COUNTER_WINDOW_SIZE
      <4>1. n < high /\ IsCounterKnownInBitmap(n - high)
        BY <1>3, <2>2, <3>1
      <4> QED BY <1>1, <3>1, <4>1, KnownBit
    <3> QED BY <1>3, <3>1
  <2> QED BY <1>1, <1>2, <2>1, <2>2 DEF IsDuplicate
<1>5. last' \in Verdict /\ (NeverTakenTwice /\ NeverLostInWindow)'
  BY <1>1, <1>4, JudgeRecords, Zenon DEF NeverTakenTwice, NeverLostInWindow
<1>6. TypeOK' /\ BitmapIsWindow' /\ HighInRange'
  BY <1>1, <1>5 DEF TypeOK, BitmapIsWindow, HighInRange, Carries
<1> QED BY <1>5, <1>6 DEF IInv

LEMMA NewPreserves ==
    ASSUME IInv, NEW n \in Int, NEW c \in Counters, Carries(n, c), ReceiveNew(n, c)
    PROVE  IInv'
<1>1. /\ TypeOK /\ BitmapIsWindow /\ HighInRange /\ maximumMessageCounter # NoCounter
      /\ InHorizon(n) /\ ~IsDuplicate(c) /\ Judge(n, TRUE) /\ variant' = variant
      /\ high' = (IF n > high THEN n ELSE high) /\ seen' = seen \cup {n}
  BY DEF ReceiveNew, IInv
<1>2. /\ c = maximumMessageCounter <=> n = high
      /\ CalculateDiff(c) = n - high
  BY <1>1, DiffIsDistance
<1>3. /\ high \in Int /\ high \in seen /\ seen \in SUBSET Int
      /\ MSG_COUNTER_WINDOW_SIZE \in Nat /\ messageCounterBitmap \in SUBSET Bits
      /\ \A x \in seen : x <= high
      /\ \A i \in Bits : i \in messageCounterBitmap <=> high - 1 - i \in seen
  BY <1>1, Widths DEF TypeOK, BitmapIsWindow
<1>4. /\ n # high
      /\ n - high < 0 => /\ ~(n - high < -MSG_COUNTER_WINDOW_SIZE)
                         /\ ~IsCounterKnownInBitmap(n - high)
  BY <1>1, <1>2 DEF IsDuplicate
<1>5. n >= high - MSG_COUNTER_WINDOW_SIZE
  BY <1>3, <1>4
<1>6. n \notin seen
  <2>1. CASE n < high
    BY <1>1, <1>3, <1>4, <1>5, <2>1, KnownBit
  <2>2. CASE n > high
    BY <1>3, <2>2
  <2> QED BY <1>3, <1>4, <2>1, <2>2
<1>7. /\ messageCounterBitmap' = CalculateMessageCounterBitmap(messageCounterBitmap, n - high)
      /\ maximumMessageCounter' = IF n - high > 0 THEN c ELSE maximumMessageCounter
  BY <1>2 DEF ReceiveNew
<1>8. high' \in Int
  BY <1>1, <1>3
<1>9. /\ messageCounterBitmap' \in SUBSET Bits
      /\ \A i \in Bits : i \in messageCounterBitmap' <=> high' - 1 - i \in seen'
  BY <1>1, <1>3, <1>4, <1>5, <1>7, <1>8, WindowStep
<1>10. maximumMessageCounter' \in Counters /\ Carries(high, maximumMessageCounter)'
  BY <1>1, <1>3, <1>7 DEF Carries, BitmapIsWindow, TypeOK
<1>11. high' \in seen' /\ \A x \in seen' : x <= high'
  BY <1>1, <1>3
<1>12. last' \in Verdict /\ (NeverTakenTwice /\ NeverLostInWindow)'
  BY <1>1, <1>6, JudgeRecords, Zenon DEF NeverTakenTwice, NeverLostInWindow
<1>13. TypeOK'
  BY <1>1, <1>3, <1>8, <1>9, <1>10, <1>12 DEF TypeOK
<1>14. BitmapIsWindow'
  BY <1>9, <1>10, <1>11 DEF BitmapIsWindow
<1>15. HighInRange'
  BY <1>1, <1>10, Widths DEF HighInRange, InHorizon, Counters, NoCounter
<1> QED BY <1>12, <1>13, <1>14, <1>15 DEF IInv

LEMMA StepPreserves == IInv /\ [Next]_vars => IInv'
<1> SUFFICES ASSUME IInv, [Next]_vars PROVE IInv'
  OBVIOUS
<1>1. CASE Next
  <2>1. PICK n \in Numbers, c \in Counters : Carries(n, c) /\ Receive(n, c)
    BY <1>1 DEF Next
  <2>2. n \in Int
    BY NumbersAssumption
  <2> QED BY <2>1, <2>2, FirstPreserves, NewPreserves, DuplicatePreserves DEF Receive
<1>2. CASE UNCHANGED vars
  BY <1>2 DEF vars, IInv, TypeOK, BitmapIsWindow, HighInRange, NeverTakenTwice,
              NeverLostInWindow, Carries
<1> QED BY <1>1, <1>2

LEMMA Invariance == Spec => []IInv
BY InitEstablishes, StepPreserves, PTL DEF Spec

\* The reception state is well formed: the maximum is a counter and the bitmap
\* stays within the width of the window.
THEOREM TypeCorrect == Spec => []TypeOK
BY Invariance, PTL DEF IInv

\* For every counter range and window width, the bitmap updateMessageCounter
\* maintains is exactly the set of messages received.
THEOREM WindowCorrect == Spec => []BitmapIsWindow
BY Invariance, PTL DEF IInv

\* updateMessageCounter takes no message twice.
THEOREM ReplayProtection == Spec => []NeverTakenTwice
BY Invariance, PTL DEF IInv

\* updateMessageCounter refuses no new message that is within the window.
THEOREM NoWrongRefusal == Spec => []NeverLostInWindow
BY Invariance, PTL DEF IInv
=============================================================================
