----------------------------- MODULE MCBtpSession -----------------------------
(* The largest window that the numbers allow, as in the code (255 of 256), so *)
(* that distances use the whole range and the numbers wrap within a run.  One *)
(* peer sends two messages, to tell their order, and the other answers.       *)
EXTENDS BtpSession

MCMaxMessages == [p \in {Central, Peripheral} |-> IF p = Central THEN 2 ELSE 1]
=============================================================================
