---------------------------- MODULE MessageExchange ----------------------------
(***************************************************************************)
(* One exchange of reliable messages (MRP) over an unreliable network: the *)
(* exchange object of its initiator and the objects its peer creates for   *)
(* it, packages/protocol/src/protocol/MessageExchange.ts, together with    *)
(* the routing of received messages by ExchangeManager.#receiveMessage.    *)
(*                                                                         *)
(* An action is what one handler, timer or call does until it awaits the   *)
(* channel.  "net" only grows: a message in it may be received at any      *)
(* time, any number of times or never, so it is lost, delayed, duplicated  *)
(* and reordered.  Timers fire at any time while they run.                 *)
(*                                                                         *)
(* A message that wants an acknowledgement is numbered, per side, in the   *)
(* order of its sending; a stand-alone ack has the number 0.  Repeating a  *)
(* stand-alone ack needs no duplicate check: the second copy no longer     *)
(* matches a pending message and is ignored either way.                    *)
(***************************************************************************)
EXTENDS Integers, FiniteSets

CONSTANTS Initiator,         \* the initiator's exchange object
          Responders,        \* objects the responder can have at one time
          MaxTransmissions,  \* MRP.MAX_TRANSMISSIONS (5)
          Bdx,               \* whether the exchange's protocol is BDX
          MaxMessages,       \* bound: messages sent, per side
          MaxRefusals,       \* bound: sends refused while a message is pending
          MaxFaults          \* bound: failing sends, aborts, closes

ASSUME ObjectsAssumption == Initiator \notin Responders
ASSUME BudgetAssumption == MaxTransmissions \in Nat \ {0} /\ Bdx \in BOOLEAN
ASSUME BoundsAssumption == /\ MaxMessages \in [{"initiator", "responder"} -> Nat]
                           /\ MaxRefusals \in Nat /\ MaxFaults \in Nat

VARIABLES ex,            \* the fields of the exchange objects
          net,           \* messages handed to a channel
          seen,          \* numbers the session's MessageReceptionState has accepted
          delivered,     \* times a message was written to the queue of a handled exchange
          outcome,       \* what the caller of send() learned of a message
          faults         \* failing sends, aborts and closes so far

vars == <<ex, net, seen, delivered, outcome, faults>>

Sides == {"initiator", "responder"}
Other(s) == IF s = "initiator" THEN "responder" ELSE "initiator"
Exchanges == {Initiator} \cup Responders
Side(e) == IF e = Initiator THEN "initiator" ELSE "responder"
Numbers(s) == 1 .. MaxMessages[s]

NoMessage == [id |-> 0, ack |-> 0]
NoTimer == [id |-> 0, last |-> FALSE]
StandaloneAck(s, i) == [from |-> s, id |-> 0, ack |-> i]

\* A timer of #retransmitMessage(message, expectedProcessingTime): "last" when
\* the processing time is undefined, so that no further wait follows.
Timers(s) == [id : 0 .. MaxMessages[s], last : BOOLEAN]

(***************************************************************************)
(* The fields of an exchange object:                                       *)
(*   kind      "free", "handled" by a protocol handler or an application,  *)
(*             or "temporary", made only to acknowledge a message;         *)
(*   sent      #sentMessageToAck;     armed: the ack callbacks are set;    *)
(*   call      the send() in progress: "sending" awaits the channel,       *)
(*             "waiting" the ack promise, whose state is "settled";        *)
(*   timer     #retransmissionTimer, which runs iff it is in "running";    *)
(*             running timers it no longer refers to are in "running" too; *)
(*   inFlight  retransmissions that await the channel;                     *)
(*   toAck     #receivedMessageToAck, and ackTimer its running timer;      *)
(*   suspended messages whose handler awaits the ack of an older one;      *)
(*   closers   calls of close() without or with a cause and of destroy()   *)
(*             that await their ack; "late", a close() that follows the    *)
(*             ack of a late message; "timer", a running close timer that  *)
(*             #closeTimer no longer refers to;                            *)
(*   sends, refusals, stranded  how often the message in "sent" was        *)
(*             transmitted, other sends refused because of it, and the     *)
(*             message whose ack failed (all three for the properties);    *)
(*   the others are the fields of the same name.                           *)
(***************************************************************************)
NewObject(kind, used) ==
    [kind |-> kind, used |-> used, closing |-> FALSE, closed |-> FALSE,
     closeCause |-> FALSE, isDestroyed |-> FALSE, closeTimer |-> "undefined",
     sent |-> NoMessage, armed |-> FALSE, call |-> "none", settled |-> "no",
     counter |-> 0, timer |-> NoTimer, running |-> {}, inFlight |-> {},
     toAck |-> 0, ackTimer |-> FALSE, suspended |-> {}, closers |-> {},
     sends |-> 0, refusals |-> 0, stranded |-> 0]

considerClosed(e) == ex[e].closed \/ (e = Initiator /\ ex[e].closing)

\* #exchanges: an object is indexed from its creation until it is closed.
Routed(s) == {e \in Exchanges : Side(e) = s /\ ex[e].kind # "free" /\ ~ex[e].closed}

\* Settle the ack promise of the send in progress, once.
Settle(x, how) ==
    IF x.armed /\ x.call # "none" /\ x.settled = "no"
      THEN [x EXCEPT !.settled = how] ELSE x

\* #close.  The pending message stays in #sentMessageToAck.
Closed(x, cause) ==
    [Settle(x, "closed") EXCEPT
        !.closeCause = @ \/ cause,
        !.running = @ \ {x.timer},
        !.ackTimer = FALSE,
        !.closeTimer = IF @ = "undefined" THEN @ ELSE "stopped",
        !.closed = TRUE]

\* The object becomes x; a send() whose promise settled returns in the same turn.
Become(e, x) ==
    IF x.call = "waiting" /\ x.settled # "no" THEN
        /\ ex' = [ex EXCEPT ![e] =
                    [x EXCEPT !.call = "none", !.settled = "no", !.armed = FALSE,
                              !.running = IF x.settled = "failed" THEN @ \ {x.timer} ELSE @]]
        /\ outcome' = [outcome EXCEPT ![Side(e)][x.timer.id] = x.settled]
    ELSE ex' = [ex EXCEPT ![e] = x] /\ UNCHANGED outcome

Transmit(msgs) == net' = net \cup msgs
Ack(e, i) == IF i = 0 THEN {} ELSE {StandaloneAck(Side(e), i)}
Fault == faults < MaxFaults /\ faults' = faults + 1

Init ==
    /\ ex = [e \in Exchanges |->
                IF e = Initiator THEN NewObject("handled", FALSE) ELSE NewObject("free", TRUE)]
    /\ net = {}
    /\ seen = [s \in Sides |-> {}]
    /\ delivered = [s \in Sides |-> [i \in Numbers(Other(s)) |-> 0]]
    /\ outcome = [s \in Sides |-> [i \in Numbers(s) |-> "unsent"]]
    /\ faults = 0

-----------------------------------------------------------------------------
(***************************************************************************)
(* send() and its continuations.                                           *)
(***************************************************************************)

\* An application holds the object and has no send in progress on it.
Idle(e) == ex[e].kind = "handled" /\ ex[e].call = "none" /\ ~ex[e].closeCause

\* The pending ack is carried along; the timer is made and not started yet.
Send(e) ==
    LET s == Side(e)
        x == ex[e] IN
    \E i \in Numbers(s) :
        /\ Idle(e) /\ x.sent = NoMessage
        /\ outcome[s][i] = "unsent" /\ \A j \in 1 .. i - 1 : outcome[s][j] # "unsent"
        /\ ex' = [ex EXCEPT ![e] =
                    [x EXCEPT !.used = TRUE, !.counter = 0,
                              !.toAck = 0, !.ackTimer = IF x.toAck # 0 THEN FALSE ELSE @,
                              !.sent = [id |-> i, ack |-> x.toAck],
                              !.timer = [id |-> i, last |-> FALSE],
                              !.armed = TRUE, !.call = "sending", !.settled = "no",
                              !.sends = 1, !.refusals = 0]]
        /\ Transmit({[from |-> s, id |-> i, ack |-> x.toAck]})
        /\ outcome' = [outcome EXCEPT ![s][i] = "pending"]
        /\ UNCHANGED <<seen, delivered, faults>>

\* A send while a message is unacknowledged is refused, but only after it has
\* reset the retransmission counter of that message.
SendRefused(e) ==
    /\ Idle(e) /\ ex[e].sent # NoMessage
    /\ ex[e].refusals < MaxRefusals
    /\ ex' = [ex EXCEPT ![e].counter = 0, ![e].refusals = @ + 1]
    /\ UNCHANGED <<net, seen, delivered, outcome, faults>>

\* channel.send is done: the timer starts, also when the ack was faster.
Transmitted(e) ==
    /\ ex[e].call = "sending"
    /\ Become(e, [ex[e] EXCEPT !.call = "waiting", !.counter = 0,
                               !.running = @ \cup {ex[e].timer}])
    /\ UNCHANGED <<net, seen, delivered, faults>>

\* The call of send() ends early; the message stays pending.
Leave(e, x, how) ==
    /\ ex' = [ex EXCEPT ![e] = [x EXCEPT !.call = "none", !.settled = "no"]]
    /\ outcome' = [outcome EXCEPT ![Side(e)][x.timer.id] = how]
    /\ UNCHANGED <<net, seen, delivered>>

\* channel.send fails, and the error reaches the caller.
TransmitFails(e) ==
    /\ ex[e].call = "sending" /\ Fault
    /\ Leave(e, ex[e], "error")

\* The caller's own abort.
Abort(e) ==
    LET x == ex[e] IN
    /\ x.call # "none" /\ Fault
    /\ Leave(e, [x EXCEPT !.running = IF x.call = "waiting" THEN @ \ {x.timer} ELSE @],
              "aborted")

-----------------------------------------------------------------------------
(***************************************************************************)
(* Retransmission.                                                         *)
(***************************************************************************)

\* The last attempt got no answer: the send fails, and a closing exchange closes.
GiveUp(x) ==
    LET failed == IF x.armed THEN [Settle(x, "failed") EXCEPT !.toAck = 0, !.armed = FALSE]
                             ELSE x
    IN IF x.closeTimer # "undefined" THEN Closed(failed, FALSE) ELSE failed

\* Slip: one transmission more than the budget.
MutantSpent(e, x) == considerClosed(e) \/ x.counter + 1 > MaxTransmissions

Spent(e, x) == considerClosed(e) \/ x.counter + 1 >= MaxTransmissions

\* Slip: it is not asked whether the message is still the pending one.
MutantStillPending(x, t) == TRUE

StillPending(x, t) == x.sent.id = t.id

\* Slip: the counter is not taken back before the final wait.
MutantFinalWait(x, t) ==
    LET wait == [id |-> t.id, last |-> TRUE] IN
    [x EXCEPT !.counter = @ + 1, !.timer = wait, !.running = @ \cup {wait}]

\* The wait after the last transmission, taken to be positive (finalWaitTime > 0).
FinalWait(x, t) ==
    LET wait == [id |-> t.id, last |-> TRUE] IN
    [x EXCEPT !.timer = wait, !.running = @ \cup {wait}]

\* #retransmitMessage for a timer t that is no longer running in x.
RetransmitMessage(e, x, t) ==
    /\ Become(e,
         IF ~StillPending(x, t) THEN x
         ELSE IF ~Spent(e, x)
           THEN [x EXCEPT !.counter = @ + 1, !.inFlight = @ \cup {t}, !.sends = @ + 1]
         ELSE IF ~t.last /\ ~considerClosed(e) THEN FinalWait(x, t)
         ELSE GiveUp([x EXCEPT !.counter = @ + 1]))
    /\ UNCHANGED <<net, delivered, faults>>

RetransmissionTimer(e) ==
    \E t \in ex[e].running :
        /\ RetransmitMessage(e, [ex[e] EXCEPT !.running = @ \ {t}], t)
        /\ UNCHANGED seen

\* #initializeResubmission after channel.send succeeded or failed.
Retransmitted(e) ==
    \E t \in ex[e].inFlight :
        LET x == [ex[e] EXCEPT !.inFlight = @ \ {t}] IN
        /\ ex' = [ex EXCEPT ![e] =
                    IF StillPending(x, t)
                      THEN [x EXCEPT !.timer = t, !.running = @ \cup {t}] ELSE x]
        /\ UNCHANGED <<net, seen, delivered, outcome, faults>>

\* channel.send failed because the session is closed.
RetransmitSessionClosed(e) ==
    \E t \in ex[e].inFlight :
        /\ Fault
        /\ Become(e, Closed([ex[e] EXCEPT !.inFlight = @ \ {t}], FALSE))
        /\ UNCHANGED <<net, seen, delivered>>

-----------------------------------------------------------------------------
(***************************************************************************)
(* Receiving.                                                              *)
(***************************************************************************)

Duplicate(m) == m.id \in seen[Other(m.from)]

\* session.updateMessageCounter, before anything else is decided.
Accept(m) ==
    seen' = [seen EXCEPT ![Other(m.from)] = @ \cup ({m.id} \ {0})]

\* The message reaches the object e and the object is not considered closed.
Reaches(m, e) ==
    /\ m \in net /\ e \in Routed(Other(m.from))
    /\ m.id = 0 \/ ~considerClosed(e)

\* A message whose ack does not fit the message that awaits one is thrown away.
FlowError(x, m) == x.sent # NoMessage /\ m.id # 0 /\ m.ack # x.sent.id

\* The ack of the pending message.
Acked(x) ==
    [Settle(x, "acked") EXCEPT !.running = @ \ {x.timer}, !.counter = 0,
                               !.armed = FALSE, !.sent = NoMessage,
                               !.sends = 0, !.refusals = 0]

\* Slip: the ack is not compared with the message that awaits one.
MutantTakeAck(x, m) ==
    IF x.sent = NoMessage \/ m.ack = 0 THEN x
    ELSE IF m.id = 0 /\ x.closeTimer # "undefined" THEN Closed(Acked(x), FALSE)
    ELSE Acked(x)

TakeAck(x, m) ==
    IF x.sent = NoMessage \/ m.ack # x.sent.id THEN x
    ELSE IF m.id = 0 /\ x.closeTimer # "undefined" THEN Closed(Acked(x), FALSE)
    ELSE Acked(x)

\* The end of onMessageReceived: the message is queued to be acknowledged and read.
Enqueue(x, i) == [x EXCEPT !.toAck = i, !.ackTimer = TRUE]
Delivered(e, i) ==
    delivered' = IF ex[e].kind = "handled" /\ ~ex[e].closed
                   THEN [delivered EXCEPT ![Side(e)][i] = @ + 1] ELSE delivered

\* onMessageReceived for a message that is no duplicate.  (It cannot be the one
\* that the pending message acknowledges, which the session has accepted before.)
OnMessageReceived(e, m) ==
    LET x == TakeAck(ex[e], m) IN
    /\ Reaches(m, e) /\ ~Duplicate(m) /\ ~FlowError(ex[e], m)
    /\ Accept(m)
    /\ IF m.id = 0 THEN
            /\ Become(e, x)
            /\ UNCHANGED <<net, delivered>>
       ELSE IF x.toAck # 0 THEN
            /\ Become(e, [x EXCEPT !.ackTimer = FALSE, !.suspended = @ \cup {m.id}])
            /\ Transmit(Ack(e, x.toAck))
            /\ UNCHANGED delivered
       ELSE
            /\ Become(e, Enqueue(x, m.id))
            /\ Delivered(e, m.id)
            /\ UNCHANGED net
    /\ UNCHANGED faults

\* The ack of the older message is sent; the queue may have closed meanwhile.
ResumeReceive(e) ==
    \E i \in ex[e].suspended :
        /\ ex' = [ex EXCEPT ![e] = Enqueue([ex[e] EXCEPT !.suspended = @ \ {i}], i)]
        /\ Delivered(e, i)
        /\ UNCHANGED <<net, seen, outcome, faults>>

\* The ack of the older message cannot be sent.  The error is logged: the newer
\* message is not queued, the older one still awaits its ack, its timer stopped.
ResumeReceiveFails(e) ==
    LET x == ex[e] IN
    \E i \in x.suspended :
        /\ Fault
        /\ ex' = [ex EXCEPT ![e] =
                    [x EXCEPT !.suspended = @ \ {i},
                              !.stranded = IF x.ackTimer THEN @ ELSE x.toAck]]
        /\ UNCHANGED <<net, seen, delivered, outcome>>

\* onMessageReceived throws; the session has accepted the message all the same.
ReceiveFlowError(e, m) ==
    /\ Reaches(m, e) /\ ~Duplicate(m) /\ FlowError(ex[e], m)
    /\ Accept(m)
    /\ UNCHANGED <<ex, net, delivered, outcome, faults>>

\* A duplicate is acknowledged and goes no further.
ReceiveDuplicate(e, m) ==
    /\ Reaches(m, e) /\ Duplicate(m)
    /\ Transmit(Ack(e, m.id))
    /\ UNCHANGED <<ex, seen, delivered, outcome, faults>>

\* Slip: the running timer is not stopped.
MutantKickRetransmission(e, m) ==
    LET x == ex[e] IN
    /\ Bdx
    /\ Reaches(m, e) /\ Duplicate(m)
    /\ x.sent # NoMessage /\ x.timer \in x.running /\ x.sent.ack = m.id
    /\ x.counter + 1 < MaxTransmissions
    /\ RetransmitMessage(e, x, [id |-> x.sent.id, last |-> FALSE])
    /\ UNCHANGED seen

\* #kickRetransmissionForLiveness.  Its conditions on time may hold or not.
KickRetransmission(e, m) ==
    LET x == ex[e] IN
    /\ Bdx
    /\ Reaches(m, e) /\ Duplicate(m)
    /\ x.sent # NoMessage /\ x.timer \in x.running /\ x.sent.ack = m.id
    /\ x.counter + 1 < MaxTransmissions
    /\ RetransmitMessage(e, [x EXCEPT !.running = @ \ {x.timer}],
                         [id |-> x.sent.id, last |-> FALSE])
    /\ UNCHANGED seen

\* The stand-alone ack timer.
ReceivedMessageAckTimer(e) ==
    /\ ex[e].ackTimer
    /\ ex' = [ex EXCEPT ![e].ackTimer = FALSE, ![e].toAck = 0]
    /\ Transmit(Ack(e, ex[e].toAck))
    /\ UNCHANGED <<seen, delivered, outcome, faults>>

-----------------------------------------------------------------------------
(***************************************************************************)
(* Closing.                                                                *)
(***************************************************************************)

\* The end of close(): a pending message gets the time of its retransmissions.
CloseOrWait(x, cause) ==
    IF cause \/ x.sent = NoMessage THEN Closed(x, cause)
    ELSE [x EXCEPT !.closeTimer = "running",
                   !.closers = IF x.closeTimer = "running" THEN @ \cup {"timer"} ELSE @]

\* close() passes its early returns and sends the ack that the exchange owes.
AwaitsAck(x) ==
    ~x.isDestroyed /\ x.closeTimer = "undefined" /\ x.used /\ ~x.closed /\ x.toAck # 0

CloseCall(cause) == IF cause THEN "force" ELSE "close"

\* The ack is sent from here on: it is owed no more, and its timer stands.
AckTaken(x, call) ==
    [x EXCEPT !.toAck = 0, !.ackTimer = FALSE, !.closers = @ \cup {call}]

\* close(), until it has ended or awaits its ack.  (The observers of "closing"
\* are synchronous: awaiting them is no more than a turn of the event loop.)
CloseObject(x, cause) ==
    IF x.isDestroyed THEN x
    ELSE IF x.closeTimer # "undefined" THEN IF cause THEN Closed(x, TRUE) ELSE x
    ELSE IF ~x.used THEN Closed(x, cause)
    ELSE IF x.closed THEN x
    ELSE IF x.toAck # 0 THEN AckTaken([x EXCEPT !.closing = TRUE], CloseCall(cause))
    ELSE CloseOrWait([x EXCEPT !.closing = TRUE], cause)

\* Bound: of the calls that close with, or without, a cause one awaits its ack.
CloseWith(e, x, cause) ==
    /\ AwaitsAck(x) => CloseCall(cause) \notin x.closers
    /\ Become(e, CloseObject(x, cause))
    /\ Transmit(IF AwaitsAck(x) THEN Ack(e, x.toAck) ELSE {})
    /\ UNCHANGED <<seen, delivered>>

\* The application is done, or the manager evicts the exchange.
Close(e) == ex[e].kind = "handled" /\ CloseWith(e, ex[e], FALSE) /\ Fault

\* A cause is given: the node shuts down or the connection dropped.
ForceClose(e) == ex[e].kind = "handled" /\ CloseWith(e, ex[e], TRUE) /\ Fault

Destroy(e) ==
    LET x == [ex[e] EXCEPT !.isDestroyed = TRUE]
        acks == x.closeTimer = "undefined" /\ x.toAck # 0 IN
    /\ ex[e].kind = "handled" /\ ~ex[e].isDestroyed /\ Fault
    /\ Become(e, IF acks THEN AckTaken(x, "destroy") ELSE Closed(x, FALSE))
    /\ Transmit(IF acks THEN Ack(e, x.toAck) ELSE {})
    /\ UNCHANGED <<seen, delivered>>

\* The ack is sent, or has failed, which is only logged.
CloseAcked(e) ==
    \E call \in ex[e].closers \cap {"close", "force", "destroy"} :
        LET x == [ex[e] EXCEPT !.closers = @ \ {call}] IN
        /\ Become(e, IF call = "destroy" THEN Closed(x, FALSE)
                                         ELSE CloseOrWait(x, call = "force"))
        /\ UNCHANGED <<net, seen, delivered, faults>>

\* A close timer fires, #closeTimer or one that a second close() replaced.
CloseTimer(e) ==
    LET x == ex[e]
        current == IF x.closeTimer = "running" THEN {"current"} ELSE {} IN
    \E t \in current \cup (x.closers \cap {"timer"}) :
        /\ Become(e, Closed([x EXCEPT !.closers = @ \ {t}], FALSE))
        /\ UNCHANGED <<net, seen, delivered, faults>>

-----------------------------------------------------------------------------
(***************************************************************************)
(* ExchangeManager.#receiveMessage where no open exchange takes the        *)
(* message.  A protocol handler is registered.                             *)
(***************************************************************************)

\* An exchange that is considered closed acknowledges the message.  Bound: one
\* such ack is awaited at a time.
ReceiveConsideredClosed(e, m) ==
    /\ m \in net /\ e \in Routed(Other(m.from))
    /\ m.id # 0 /\ considerClosed(e)
    /\ "late" \notin ex[e].closers
    /\ Accept(m)
    /\ ex' = [ex EXCEPT ![e].used = TRUE, ![e].closers = @ \cup {"late"}]
    /\ Transmit(Ack(e, m.id))
    /\ UNCHANGED <<delivered, outcome, faults>>

\* Then, whether the ack was sent or failed, the exchange is closed.
CloseLate(e) ==
    /\ "late" \in ex[e].closers
    /\ CloseWith(e, [ex[e] EXCEPT !.closers = @ \ {"late"}], FALSE)
    /\ UNCHANGED faults

\* An object nothing refers to any more.
Available(e) ==
    LET x == ex[e] IN
    \/ x.kind = "free"
    \/ /\ x.closed /\ x.call = "none" /\ ~x.ackTimer
       /\ x.closeTimer # "running" /\ x.closers = {}
       /\ x.running = {} /\ x.inFlight = {} /\ x.suspended = {}

Unrouted(m) == m \in net /\ m.id # 0 /\ Routed(Other(m.from)) = {}

\* A new exchange for the protocol handler.
NewExchange(e, m) ==
    /\ Unrouted(m) /\ m.from = "initiator" /\ ~Duplicate(m)
    /\ e \in Responders /\ Available(e)
    /\ Accept(m)
    /\ ex' = [ex EXCEPT ![e] = Enqueue(NewObject("handled", TRUE), m.id)]
    /\ delivered' = [delivered EXCEPT !["responder"][m.id] = @ + 1]
    /\ UNCHANGED <<net, outcome, faults>>

\* A temporary exchange sends the ack; it is indexed while it does, and stays
\* so when the ack fails, for then it is not closed.
UnsolicitedToResponder(e, m) ==
    /\ Unrouted(m) /\ m.from = "initiator" /\ Duplicate(m)
    /\ e \in Responders /\ Available(e)
    /\ ex' = [ex EXCEPT ![e] = NewObject("temporary", TRUE)]
    /\ Transmit(Ack(e, m.id))
    /\ UNCHANGED <<seen, delivered, outcome, faults>>

CloseTemporary(e) ==
    /\ ex[e].kind = "temporary" /\ ~ex[e].closed
    /\ CloseWith(e, ex[e], FALSE) /\ UNCHANGED faults

\* On the initiator's side the temporary exchange never takes a message: it is
\* no initiator, and so the manager refuses to route the peer's messages to it.
UnsolicitedToInitiator(m) ==
    /\ Unrouted(m) /\ m.from = "responder"
    /\ Accept(m)
    /\ Transmit(Ack(Initiator, m.id))
    /\ UNCHANGED <<ex, delivered, outcome, faults>>

-----------------------------------------------------------------------------
Receive(e, m) ==
    \/ OnMessageReceived(e, m)
    \/ ReceiveFlowError(e, m)
    \/ ReceiveDuplicate(e, m)
    \/ KickRetransmission(e, m)
    \/ ReceiveConsideredClosed(e, m)
    \/ NewExchange(e, m)
    \/ UnsolicitedToResponder(e, m)

\* What goes on by itself once it has begun: timers and pending promises.
Progress(e) ==
    \/ Transmitted(e) \/ TransmitFails(e)
    \/ RetransmissionTimer(e) \/ Retransmitted(e) \/ RetransmitSessionClosed(e)
    \/ ResumeReceive(e) \/ ResumeReceiveFails(e) \/ ReceivedMessageAckTimer(e)
    \/ CloseAcked(e) \/ CloseTimer(e) \/ CloseLate(e) \/ CloseTemporary(e)

Application(e) ==
    \/ Send(e) \/ SendRefused(e) \/ Abort(e)
    \/ Close(e) \/ ForceClose(e) \/ Destroy(e)

Next ==
    \/ \E e \in Exchanges : Application(e) \/ Progress(e)
    \/ \E m \in net : (\E e \in Exchanges : Receive(e, m)) \/ UnsolicitedToInitiator(m)

Spec == Init /\ [][Next]_vars

-----------------------------------------------------------------------------
Messages ==
    UNION {[from : {s}, id : 0 .. MaxMessages[s], ack : 0 .. MaxMessages[Other(s)]] :
            s \in Sides}

\* The fields of every object have the values that the code gives them; the
\* retransmission counter never passes the budget, not even in the final wait.
TypeOK ==
    /\ \A e \in Exchanges :
          LET s == Side(e)
              x == ex[e] IN
          /\ DOMAIN x = DOMAIN NewObject("free", TRUE)
          /\ x.kind \in {"free", "handled", "temporary"}
          /\ {x.used, x.closing, x.closed, x.closeCause, x.isDestroyed,
              x.armed, x.ackTimer} \subseteq BOOLEAN
          /\ x.closeTimer \in {"undefined", "running", "stopped"}
          /\ x.sent \in [id : 0 .. MaxMessages[s], ack : 0 .. MaxMessages[Other(s)]]
          /\ x.call \in {"none", "sending", "waiting"}
          /\ x.settled \in {"no", "acked", "closed", "failed"}
          /\ x.counter \in 0 .. MaxTransmissions
          /\ {x.timer} \cup x.running \cup x.inFlight \subseteq Timers(s)
          /\ x.toAck \in 0 .. MaxMessages[Other(s)]
          /\ x.suspended \subseteq Numbers(Other(s))
          /\ x.closers \subseteq {"close", "force", "destroy", "late", "timer"}
          /\ x.stranded \in 0 .. MaxMessages[Other(s)]
          /\ x.sends \in Nat /\ x.refusals \in 0 .. MaxRefusals
    /\ net \subseteq Messages
    /\ \A s \in Sides :
          /\ seen[s] \subseteq Numbers(Other(s))
          /\ delivered[s] \in [Numbers(Other(s)) -> Nat]
          /\ outcome[s] \in [Numbers(s) -> {"unsent", "pending", "acked", "closed",
                                            "failed", "aborted", "error"}]
    /\ faults \in 0 .. MaxFaults

\* What ReliableDelivery sees of message i of side s.
Delivery(s, i) == INSTANCE ReliableDelivery WITH
    outcome <- outcome[s][i],
    taken <- (i \in seen[Other(s)]),
    delivered <- delivered[Other(s)][i]

\* Each message is delivered as ReliableDelivery allows, although the network
\* loses, repeats and reorders and either side closes at any time: the peer takes
\* it at most once and hands it to at most one reader, the sender's call ends
\* once, and "acked" is reported only after the peer has taken the message.
ReliablyDelivered ==
    /\ \A s \in Sides : \A i \in Numbers(s) : Delivery(s, i)!Init
    /\ [][\A s \in Sides : \A i \in Numbers(s) :
             [Delivery(s, i)!Next]_(Delivery(s, i)!vars)]_vars

\* A pending message is transmitted at most MAX_TRANSMISSIONS times, whatever
\* timers, early retransmissions and late completions of the channel interleave.
\* Only a refused send(), which resets the counter before it throws, buys more.
TransmissionBudget ==
    \A e \in Exchanges :
        ex[e].sends <= MaxTransmissions + ex[e].refusals * (MaxTransmissions - 1)

\* A send() that waits for its ack always has something that will end it: the
\* timer #retransmissionTimer refers to, or one transmission on its way; never
\* both, and never a second timer that no stop() reaches.
OneDriver ==
    \A e \in Exchanges :
        LET x == ex[e]
            armedTimers == {t \in x.running : t.id = x.sent.id}
            onTheWay == {t \in x.inFlight : t.id = x.sent.id}
        IN
        /\ x.sent # NoMessage =>
              /\ armedTimers \subseteq {x.timer}
              /\ armedTimers = {} \/ onTheWay = {}
              /\ Cardinality(onTheWay) <= 1
        /\ x.call = "waiting" => x.sent # NoMessage /\ armedTimers \cup onTheWay # {}

\* Once send() has returned or failed the message is not transmitted again, also
\* when the ack, the close or the failure raced a transmission.  An aborted send
\* is the exception: a transmission that was under way arms the timer again.
SettledIsFinal ==
    [][\A e \in Exchanges : \A t \in ex'[e].inFlight \ ex[e].inFlight :
          outcome[Side(e)][t.id] \in {"pending", "aborted"}]_vars

\* A message that awaits our acknowledgement is driven: the stand-alone ack timer
\* runs, or the handler that stopped it is sending that ack, or the exchange is
\* closed.  The one exception is a message whose ack failed to be sent: it waits
\* for the next message, send() or close() of the exchange to take it along.
AckIsDriven ==
    \A e \in Exchanges :
        LET x == ex[e] IN
        x.toAck # 0 => x.ackTimer \/ x.suspended # {} \/ x.closed \/ x.toAck = x.stranded

\* Nothing an exchange owes is left to nobody: neither the end of a send() nor,
\* but for one whose sending failed, an acknowledgement.
NothingStalls == OneDriver /\ AckIsDriven
=============================================================================
