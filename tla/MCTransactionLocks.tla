-------------------------- MODULE MCTransactionLocks --------------------------
(* Three transactions that ask for three resources one by one.  Two of them  *)
(* can wait on each other, and all three in a ring that no pair closes.      *)
EXTENDS TransactionLocks

CONSTANTS t1, t2, t3, r1, r2, r3

MCRequested ==
    [t \in Txs |-> CASE t = t1 -> {{r1}, {r2}}
                     [] t = t2 -> {{r1}, {r2}, {r3}}
                     [] t = t3 -> {{r3}, {r1}}]
=============================================================================
