--------------------------- MODULE MCMessageCounter ---------------------------
(* The counters the program constructs: the plain one of secure sessions     *)
(* (with a callback) and of unsecured ones (without), and the persisted one  *)
(* with and without a reserve.                                               *)
EXTENDS MessageCounter

CONSTANTS Reserve

Plain(callback) ==
    [persisted |-> FALSE, onRollover |-> callback, reserve |-> 0, seed |-> NoValue]
Persisted(callback, reserve, seed) ==
    [persisted |-> TRUE, onRollover |-> callback, reserve |-> reserve, seed |-> seed]

\* A seed below the warning, and one beyond it.
MCConfigs == {Plain(TRUE), Plain(FALSE), Persisted(TRUE, Reserve, NoValue),
              Persisted(TRUE, 0, NoValue), Persisted(FALSE, 0, NoValue),
              Persisted(TRUE, Reserve, MAX_COUNTER_VALUE - 4),
              Persisted(TRUE, Reserve, MAX_COUNTER_VALUE - 1)}
MCSessionConfigs == {Plain(TRUE)}

\* Just below the rollover warning, so that a few calls pass it and wrap.
MCStarts == {MAX_COUNTER_VALUE - 5, MAX_COUNTER_VALUE - 3}
=============================================================================
