\* Scaled: 2^32 - 1 -> 7, 2^31 -> 4, window 32 -> 3.  Numbers reach both sides of a wrap.
CONSTANTS
    MAX_COUNTER_VALUE = 7
    MAX_COUNTER_INCREASE = 4
    MSG_COUNTER_WINDOW_SIZE = 3
    BelowZero = 3
    MaxNumber = 12
    Numbers <- MCNumbers
SPECIFICATION Spec
INVARIANTS
    TypeOK
    BitmapIsWindow
    NeverTakenTwice
    NeverLostInWindow
