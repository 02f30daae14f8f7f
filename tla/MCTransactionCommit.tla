------------------------- MODULE MCTransactionCommit -------------------------
(* Two participants tell apart one that fails from one that does not; both   *)
(* maxima are small enough to be exceeded.                                   *)
EXTENDS TransactionCommit
=============================================================================
