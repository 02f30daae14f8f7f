----------------------- MODULE MCMessageReceptionState -----------------------
(* Small counters for TLC: a modulus of 8, a window of 3, and enough message *)
(* numbers for the counter to wrap.                                          *)
EXTENDS MessageReceptionState

CONSTANTS BelowZero, MaxNumber

MCNumbers == -BelowZero .. MaxNumber
=============================================================================
