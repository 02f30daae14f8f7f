------------------------ MODULE MessageReceptionState ------------------------
(***************************************************************************)
(* Duplicate detection of received message counters: the three reception   *)
(* states of packages/protocol/src/protocol/MessageReceptionState.ts, as   *)
(* the sessions of the program construct them.                             *)
(*                                                                         *)
(* The 32-bit bitmap is the set of the positions of its 1 bits; a shift    *)
(* count is taken modulo the width, as JavaScript does.  The two constants *)
(* 2^32 - 1 and 2^31 and the width 32 are parameters.                      *)
(*                                                                         *)
(* The peer numbers its messages with integers that never wrap; message n  *)
(* travels with the counter n modulo 2^32.  The variables high, seen and   *)
(* last are history: they record which messages the receiver has taken.    *)
(***************************************************************************)
EXTENDS Integers

CONSTANTS MAX_COUNTER_VALUE,         \* MAX_COUNTER_VALUE_32BIT
          MAX_COUNTER_INCREASE,      \* MAX_COUNTER_INCREASE_2POW31
          MSG_COUNTER_WINDOW_SIZE,
          Numbers                    \* the message numbers the peer may use

ASSUME WindowAssumption ==
    /\ MSG_COUNTER_WINDOW_SIZE \in Nat \ {0}
    /\ MAX_COUNTER_INCREASE \in Nat
    /\ MSG_COUNTER_WINDOW_SIZE < MAX_COUNTER_INCREASE
    /\ MAX_COUNTER_VALUE = 2 * MAX_COUNTER_INCREASE - 1

ASSUME NumbersAssumption == Numbers \subseteq Int

VARIABLES variant,                \* which class implements the state
          maximumMessageCounter,
          messageCounterBitmap,
          high,                   \* history: number of the maximum message
          seen,                   \* history: numbers that count as received
          last                    \* history: the verdict on the last message

vars == <<variant, maximumMessageCounter, messageCounterBitmap, high, seen, last>>

Modulus == MAX_COUNTER_VALUE + 1
Counters == 0 .. MAX_COUNTER_VALUE
Bits == 0 .. MSG_COUNTER_WINDOW_SIZE - 1

NoCounter == -1                   \* maximumMessageCounter is undefined

Variants == {"EncryptedWithoutRollover", "EncryptedWithRollover",
             "UnencryptedWithRollover"}

Verdict == [accepted : BOOLEAN, repeated : BOOLEAN, behind : BOOLEAN]

-----------------------------------------------------------------------------
(* The algorithm *)

\* Slip: the shifted word keeps the bits that leave the window.
ShlUnbounded(bits, n) == {b + (n % MSG_COUNTER_WINDOW_SIZE) : b \in bits}

\* bits << n on a word of the window's width
Shl(bits, n) == {b + (n % MSG_COUNTER_WINDOW_SIZE) : b \in bits} \cap Bits

\* 1 << n
Bit(n) == {n % MSG_COUNTER_WINDOW_SIZE}

InitialBitmap(v) == IF v = "UnencryptedWithRollover" THEN {} ELSE Bits

DiffWithoutRollover(c) == c - maximumMessageCounter

DiffWithRollover(c) ==
    LET diff == c - maximumMessageCounter IN
    CASE diff > 0 /\ diff >= MAX_COUNTER_INCREASE -> diff - MAX_COUNTER_VALUE - 1
      [] diff < 0 /\ diff < -MAX_COUNTER_INCREASE -> diff + MAX_COUNTER_VALUE + 1
      [] OTHER -> diff

DiffUnencrypted(c) ==
    LET diff == c - maximumMessageCounter IN
    CASE diff > 0 /\ -diff + MAX_COUNTER_VALUE < MSG_COUNTER_WINDOW_SIZE ->
                                            diff - MAX_COUNTER_VALUE - 1
      [] diff < 0 /\ diff < -MSG_COUNTER_WINDOW_SIZE ->
                                            MAX_COUNTER_VALUE + 1 + diff
      [] OTHER -> diff

CalculateDiff(c) ==
    CASE variant = "EncryptedWithoutRollover" -> DiffWithoutRollover(c)
      [] variant = "EncryptedWithRollover"    -> DiffWithRollover(c)
      [] variant = "UnencryptedWithRollover"  -> DiffUnencrypted(c)

\* Slip: a jump of exactly the window size shifts by 32, which is no shift.
BitmapShiftedByWidth(bits, diff) ==
    CASE diff < 0 -> bits \cup Bit(-diff - 1)
      [] diff > 0 /\ diff <= MSG_COUNTER_WINDOW_SIZE ->
             Shl(bits, diff) \cup Bit(diff - 1)
      [] diff > 0 /\ diff > MSG_COUNTER_WINDOW_SIZE -> {}
      [] OTHER -> bits

\* Slip: the shift forgets the bit of the old maximum.
BitmapWithoutOldMaximum(bits, diff) ==
    CASE diff < 0 -> bits \cup Bit(-diff - 1)
      [] diff > 0 /\ diff < MSG_COUNTER_WINDOW_SIZE -> Shl(bits, diff)
      [] diff > 0 /\ diff >= MSG_COUNTER_WINDOW_SIZE -> {}
      [] OTHER -> bits

CalculateMessageCounterBitmap(bits, diff) ==
    CASE diff < 0 -> bits \cup Bit(-diff - 1)
      [] diff > 0 /\ diff < MSG_COUNTER_WINDOW_SIZE ->
             Shl(bits, diff) \cup Bit(diff - 1)
      [] diff > 0 /\ diff = MSG_COUNTER_WINDOW_SIZE -> Bit(diff - 1)
      [] diff > 0 /\ diff > MSG_COUNTER_WINDOW_SIZE -> {}
      [] OTHER -> bits

IsCounterKnownInBitmap(diff) == Bit(-diff - 1) \cap messageCounterBitmap # {}

IsDuplicate(c) ==
    \/ c = maximumMessageCounter
    \/ LET diff == CalculateDiff(c) IN
       /\ diff < 0
       /\ \/ diff < -MSG_COUNTER_WINDOW_SIZE
          \/ IsCounterKnownInBitmap(diff)

-----------------------------------------------------------------------------
(* What the peer may have in flight, relative to the last message taken.   *)
(* Without rollover a session never uses a counter twice.  With rollover a *)
(* message may be half the counter range late or early; the unencrypted    *)
(* state reads whatever is behind its window as a new start of the peer.   *)

Carries(n, c) == c = n % Modulus

InHorizon(n) ==
    CASE variant = "EncryptedWithoutRollover" -> n \in Counters
      [] variant = "EncryptedWithRollover" ->
             n - high \in -MAX_COUNTER_INCREASE .. MAX_COUNTER_INCREASE - 1
      [] variant = "UnencryptedWithRollover" ->
             n - high \in -MSG_COUNTER_WINDOW_SIZE
                              .. MAX_COUNTER_VALUE - MSG_COUNTER_WINDOW_SIZE

\* Everything below the first counter counts as received when encrypted.
InitiallySeen(v, n) ==
    IF v = "UnencryptedWithRollover" THEN {n} ELSE n - MSG_COUNTER_WINDOW_SIZE .. n

NoVerdict == [accepted |-> TRUE, repeated |-> FALSE, behind |-> FALSE]

Judge(n, accepted) ==
    last' = [accepted |-> accepted,
             repeated |-> n \in seen,
             behind   |-> n < high - MSG_COUNTER_WINDOW_SIZE]

-----------------------------------------------------------------------------
\* NodeSession starts at 0; UnsecuredSession and the groups' messaging state
\* start without a counter.
Init ==
    /\ variant \in Variants
    /\ IF variant = "EncryptedWithoutRollover"
         THEN maximumMessageCounter = 0 /\ seen = InitiallySeen(variant, 0)
         ELSE maximumMessageCounter = NoCounter /\ seen = {}
    /\ messageCounterBitmap = InitialBitmap(variant)
    /\ high = 0
    /\ last = NoVerdict

\* The first message anchors the window.
ReceiveFirst(n, c) ==
    /\ maximumMessageCounter = NoCounter
    /\ maximumMessageCounter' = c
    /\ messageCounterBitmap' = InitialBitmap(variant)
    /\ high' = n
    /\ seen' = InitiallySeen(variant, n)
    /\ last' = NoVerdict
    /\ UNCHANGED variant

\* updateMessageCounter returns: the message is new.
ReceiveNew(n, c) ==
    /\ maximumMessageCounter # NoCounter
    /\ InHorizon(n)
    /\ ~IsDuplicate(c)
    /\ LET diff == CalculateDiff(c) IN
       /\ messageCounterBitmap' =
              CalculateMessageCounterBitmap(messageCounterBitmap, diff)
       /\ maximumMessageCounter' = IF diff > 0 THEN c ELSE maximumMessageCounter
    /\ high' = IF n > high THEN n ELSE high
    /\ seen' = seen \cup {n}
    /\ Judge(n, TRUE)
    /\ UNCHANGED variant

\* updateMessageCounter throws DuplicateMessageError and changes nothing.
ReceiveDuplicate(n, c) ==
    /\ maximumMessageCounter # NoCounter
    /\ InHorizon(n)
    /\ IsDuplicate(c)
    /\ Judge(n, FALSE)
    /\ UNCHANGED <<variant, maximumMessageCounter, messageCounterBitmap, high, seen>>

Receive(n, c) == ReceiveFirst(n, c) \/ ReceiveNew(n, c) \/ ReceiveDuplicate(n, c)

Next == \E n \in Numbers, c \in Counters : Carries(n, c) /\ Receive(n, c)

Spec == Init /\ [][Next]_vars

-----------------------------------------------------------------------------
\* Types of the variables: the counter and the bitmap stay 32-bit numbers.
TypeOK ==
    /\ variant \in Variants
    /\ maximumMessageCounter \in Counters \cup {NoCounter}
    /\ messageCounterBitmap \subseteq Bits
    /\ high \in Int
    /\ seen \subseteq Int
    /\ last \in Verdict

\* The bitmap and the maximum describe exactly the messages received: bit i is
\* set if and only if the message i + 1 before the maximum has been taken, over
\* every shift, wrap-around and jump of updateMessageCounter.
BitmapIsWindow ==
    maximumMessageCounter # NoCounter =>
        /\ Carries(high, maximumMessageCounter)
        /\ high \in seen
        /\ \A n \in seen : n <= high
        /\ \A i \in Bits : i \in messageCounterBitmap <=> high - 1 - i \in seen

\* No message is taken twice, however often and however late it is repeated
\* (replay protection; also what keeps an MRP retransmission from being
\* processed again).
NeverTakenTwice == last.accepted => ~last.repeated

\* A message is refused only when it has been taken before or is behind the
\* window: reordering within the window never loses a message.
NeverLostInWindow == ~last.accepted => last.repeated \/ last.behind

=============================================================================
