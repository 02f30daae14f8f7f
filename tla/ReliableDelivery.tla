--------------------------- MODULE ReliableDelivery ---------------------------
(***************************************************************************)
(* What an exchange promises for one message that it sends reliably, and   *)
(* what it does not.  The peer accepts the message at most once and hands  *)
(* it to its reader at most once, perhaps never.  The sender's call ends   *)
(* exactly once, and is told of an acknowledgement only if the peer has    *)
(* accepted the message.                                                   *)
(***************************************************************************)
EXTENDS Naturals

VARIABLES outcome,   \* what the sender knows
          taken,     \* whether the peer has accepted the message
          delivered  \* how often the peer's reader got it

vars == <<outcome, taken, delivered>>

Init == outcome = "unsent" /\ taken = FALSE /\ delivered = 0

Submit ==
    /\ outcome = "unsent" /\ outcome' = "pending"
    /\ UNCHANGED <<taken, delivered>>

\* The reader may get the message at once, later or never.
Take ==
    /\ outcome # "unsent" /\ ~taken
    /\ taken' = TRUE
    /\ delivered' \in {0, 1}
    /\ UNCHANGED outcome

Deliver ==
    /\ taken /\ delivered = 0
    /\ delivered' = 1
    /\ UNCHANGED <<outcome, taken>>

Report ==
    /\ outcome = "pending"
    /\ outcome' \in {"acked", "closed", "failed", "aborted", "error"}
    /\ outcome' = "acked" => taken
    /\ UNCHANGED <<taken, delivered>>

Next == Submit \/ Take \/ Deliver \/ Report

Spec == Init /\ [][Next]_vars
=============================================================================
