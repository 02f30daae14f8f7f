--------------------------- MODULE MCMessageExchange ---------------------------
(***************************************************************************)
(* Two requests of the initiator and one reply.  A second request is what  *)
(* makes stale timers, acks of an older message and temporary exchanges    *)
(* possible.                                                               *)
(***************************************************************************)
EXTENDS MessageExchange

MCMaxMessages == [s \in {"initiator", "responder"} |-> IF s = "initiator" THEN 2 ELSE 1]
=============================================================================
