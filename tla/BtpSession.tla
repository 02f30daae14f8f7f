------------------------------ MODULE BtpSession ------------------------------
(***************************************************************************)
(* A BTP session between a central and a peripheral, both of them          *)
(* packages/protocol/src/ble/BtpSessionHandler.ts, over a BLE connection.  *)
(*                                                                         *)
(* An action is what one handler does until it awaits a write: only there  *)
(* do others get to run, since the callbacks that take a complete message  *)
(* (NobleBleChannel, BlenoBleServer) settle at once.  A started write is   *)
(* in "writes" until its promise settles; its packet reaches the wire at   *)
(* some moment in between, and the peer may answer before the writer       *)
(* learns that the write is done.  The wire keeps order.                   *)
(* Matter messages are numbered in the order they are queued and measured  *)
(* in segments.  Closing either session drops the BLE connection and with  *)
(* it the other session, and ends the behaviour.                           *)
(***************************************************************************)
EXTENDS Integers, Sequences, FiniteSets

CONSTANTS Central, Peripheral,
          SequenceSpace,      \* 256 in the code
          WindowSize,         \* clientWindowSize, as negotiated
          NoAckThreshold,     \* BTP_WINDOW_NO_ACK_SEND_THRESHOLD (1)
          ImmediateThreshold, \* BTP_IMMEDIATE_ACK_WINDOW_THRESHOLD (2)
          Lengths,            \* lengths of the messages sent, in segments
          MaxMessages,        \* bound: messages queued, per peer
          MaxFailures         \* bound: failing writes

ASSUME PeersAssumption == Central # Peripheral
ASSUME SpaceAssumption == /\ SequenceSpace \in Nat /\ WindowSize \in Nat \ {0}
                          /\ WindowSize < SequenceSpace
ASSUME ThresholdAssumption == NoAckThreshold \in Nat \ {0} /\ ImmediateThreshold \in Nat
ASSUME LengthsAssumption == Lengths \subseteq Nat \ {0}
ASSUME BoundsAssumption == /\ MaxMessages \in [{Central, Peripheral} -> Nat]
                           /\ MaxFailures \in Nat

VARIABLES peer,          \* the fields of both BtpSessionHandlers
          wire,          \* packets sent by a peer and not yet received
          delivered,     \* messages handed to handleMatterMessagePayload
          queuedCount,   \* messages passed to sendMatterMessage
          failures,      \* writes that failed so far
          session        \* "open", or why it was closed

vars == <<peer, wire, delivered, queuedCount, failures, session>>

Peers == {Central, Peripheral}
Other(p) == IF p = Central THEN Peripheral ELSE Central

Unset == -1                          \* the initial value of several numbers
Numbers == Unset .. SequenceSpace - 1
NoAck == -2                          \* a packet without an ack number
NoSegment == [msg |-> 0, index |-> 0, len |-> 0]

Segments == [msg : Nat, index : Nat, len : Lengths \cup {0}]
Packets == [seq : 0 .. SequenceSpace - 1, ack : Numbers \cup {NoAck}, segment : Segments]

\* A started write.  "undo" restores prevAcked when it fails.  "caller" tells who
\* awaits the send: a receiving handler that has yet to look at its window, such a
\* handler in its last await, or a timer or sendMatterMessage.
Writes == [packet : Packets, undo : Numbers, onWire : BOOLEAN,
           caller : {"handler", "handlerEnd", "other"}]

-----------------------------------------------------------------------------
(* Sequence numbers and windows.  s is the state of one handler. *)

\* Slip: the number passes its maximum before it starts again.
NextSequenceNumberTooLarge(s) == (s.seq + 1) % (SequenceSpace + 1)

GetNextSequenceNumber(s) == (s.seq + 1) % SequenceSpace

\* Slip: a distance across the wrap comes out negative.
SignedDistance(from, to) == to - from

ModularDistance(from, to) == (to - from) % SequenceSpace

Outstanding(s) == ModularDistance(s.prevIncomingAck, s.seq)
RemoteWindowFreeSlots(s) == WindowSize - Outstanding(s)

LocalWindowFreeSlots(s) == WindowSize - ModularDistance(s.prevAcked, s.prevIncoming)

CanSend(s, carriesAck) ==
    LET free == RemoteWindowFreeSlots(s) IN free > 0 /\ (carriesAck \/ free > NoAckThreshold)

HasAckNumber(s) == s.prevIncoming # s.prevAcked

-----------------------------------------------------------------------------
(* Sending *)

NewWrite(s, ack, segment, caller) ==
    [packet |-> [seq |-> GetNextSequenceNumber(s), ack |-> ack, segment |-> segment],
     undo |-> s.prevAcked, onWire |-> FALSE, caller |-> caller]

\* What precedes the await of writeBleCallback: the ack counts as sent.
StartWrite(s, ack, segment, caller) ==
    [s EXCEPT !.seq = GetNextSequenceNumber(s),
              !.prevAcked = IF ack = NoAck THEN @ ELSE ack,
              !.sendInProgress = TRUE,
              !.writes = @ \cup {NewWrite(s, ack, segment, caller)}]

\* Slip: the ack is sent next to a write that is under way.
SendStandaloneAckConcurrently(s, caller) ==
    IF ~HasAckNumber(s) \/ ~CanSend(s, TRUE)
      THEN s
      ELSE StartWrite(s, s.prevIncoming, NoSegment, caller)

SendStandaloneAck(s, caller) ==
    IF s.sendInProgress \/ ~HasAckNumber(s) \/ ~CanSend(s, TRUE)
      THEN s
      ELSE StartWrite(s, s.prevIncoming, NoSegment, caller)

\* Slip: a segment that may use the last slot, since an ack is due, leaves without it.
SendRoundWithoutAck(s, caller) ==
    IF s.queue # <<>> /\ CanSend(s, HasAckNumber(s))
      THEN LET segment == [Head(s.queue) EXCEPT !.index = @ + 1]
           IN StartWrite([s EXCEPT !.queue[1] = segment], NoAck, segment, caller)
      ELSE SendStandaloneAck([s EXCEPT !.sendInProgress = FALSE], caller)

\* One round of the loop in processSendQueue: a segment of the first message, or the
\* end of the loop and the acknowledgement that follows it.
SendRound(s, caller) ==
    IF s.queue # <<>> /\ CanSend(s, HasAckNumber(s))
      THEN LET hasAck == HasAckNumber(s)
               segment == [Head(s.queue) EXCEPT !.index = @ + 1]
           IN StartWrite([s EXCEPT !.sendAckTimer = @ /\ ~hasAck, !.queue[1] = segment],
                         IF hasAck THEN s.prevIncoming ELSE NoAck, segment, caller)
      ELSE SendStandaloneAck([s EXCEPT !.sendInProgress = FALSE], caller)

\* sendImmediateAckIfWindowLow, which a receiving handler calls once its send returns.
SendImmediateAckIfWindowLow(s) ==
    IF s.queue # <<>> \/ s.sendInProgress \/ LocalWindowFreeSlots(s) > ImmediateThreshold
      THEN s
      ELSE SendStandaloneAck(s, "handlerEnd")

\* After a SendRound that sends nothing SendImmediateAckIfWindowLow would not either.
ProcessSendQueue(s, caller) ==
    IF ~s.sendInProgress /\ s.queue # <<>>
      THEN SendRound(s, caller)
      ELSE IF caller = "handler" THEN SendImmediateAckIfWindowLow(s) ELSE s

\* The await of writeBleCallback continues.
FinishWrite(p, w) ==
    LET s == [peer[p] EXCEPT !.writes = @ \ {w}, !.ackReceiveTimer = TRUE] IN
    IF w.packet.segment = NoSegment
      THEN ProcessSendQueue([s EXCEPT !.sendAckTimer = FALSE, !.sendInProgress = FALSE],
                            w.caller)
      ELSE SendRound([s EXCEPT !.idleTimer = p = Central,
                               !.queue = IF w.packet.segment.index = w.packet.segment.len
                                           THEN Tail(@) ELSE @],
                     w.caller)

\* ... and the catch clause, which rolls back and raises the error again.
RollbackWrite(p, w) ==
    [peer[p] EXCEPT !.writes = @ \ {w}, !.sendInProgress = FALSE,
                    !.prevAcked = w.undo,
                    !.queue = IF w.packet.segment = NoSegment THEN @ ELSE <<>>]

-----------------------------------------------------------------------------
(* Receiving *)

SequenceExpected(s, packet) == packet.seq = (s.prevIncoming + 1) % SequenceSpace

AckValid(s, packet) ==
    packet.ack # NoAck => ModularDistance(s.prevIncomingAck, packet.ack) <= Outstanding(s)

\* Slip: the new segment is put in front.
ReassembledInFront(s, packet) ==
    IF packet.segment = NoSegment THEN s.partial ELSE <<packet.segment>> \o s.partial

\* What the segment does to the message being reassembled, if it is legal.
Reassembled(s, packet) ==
    IF packet.segment = NoSegment THEN s.partial ELSE Append(s.partial, packet.segment)

SegmentValid(s, packet) ==
    LET segment == packet.segment
        payload == Reassembled(s, packet)
    IN segment # NoSegment =>
         /\ segment.index = 1 <=> s.partial = <<>>
         /\ Len(payload) <= payload[1].len
         /\ segment.index = segment.len => Len(payload) = payload[1].len

Acceptable(s, packet) ==
    SequenceExpected(s, packet) /\ AckValid(s, packet) /\ SegmentValid(s, packet)

IsEndingSegment(packet) == packet.segment # NoSegment /\ packet.segment.index = packet.segment.len

\* The state at the end of the synchronous part of handleIncomingBleData.
Accept(s, packet) ==
    [s EXCEPT !.prevIncoming = packet.seq,
              !.sendAckTimer = TRUE,
              !.prevIncomingAck = IF packet.ack = NoAck THEN @ ELSE packet.ack,
              !.ackReceiveTimer = IF packet.ack = NoAck THEN @ ELSE packet.ack # s.seq,
              !.partial = IF IsEndingSegment(packet) THEN <<>> ELSE Reassembled(s, packet)]

-----------------------------------------------------------------------------
SetPeer(p, s) == peer' = [peer EXCEPT ![p] = s]

SendMatterMessage(p) ==
    /\ session = "open"
    /\ queuedCount[p] < MaxMessages[p]
    /\ queuedCount' = [queuedCount EXCEPT ![p] = @ + 1]
    /\ \E len \in Lengths :
          LET message == [msg |-> queuedCount[p] + 1, index |-> 0, len |-> len] IN
          SetPeer(p, ProcessSendQueue([peer[p] EXCEPT !.queue = Append(@, message)], "other"))
    /\ UNCHANGED <<wire, delivered, failures, session>>

\* The packet of a write leaves; the writer does not know yet.
Transmit(p) ==
    /\ session = "open"
    /\ \E w \in peer[p].writes :
          /\ ~w.onWire
          /\ wire' = [wire EXCEPT ![p] = Append(@, w.packet)]
          /\ SetPeer(p, [peer[p] EXCEPT !.writes = (@ \ {w}) \cup {[w EXCEPT !.onWire = TRUE]}])
    /\ UNCHANGED <<delivered, queuedCount, failures, session>>

WriteDone(p) ==
    /\ session = "open"
    /\ \E w \in peer[p].writes : w.onWire /\ SetPeer(p, FinishWrite(p, w))
    /\ UNCHANGED <<wire, delivered, queuedCount, failures, session>>

\* A write fails although the connection lives on.  A receiving handler closes the
\* session; sendMatterMessage raises to its caller.
WriteFails(p) ==
    /\ session = "open"
    /\ failures < MaxFailures
    /\ failures' = failures + 1
    /\ \E w \in peer[p].writes :
          /\ ~w.onWire
          /\ SetPeer(p, RollbackWrite(p, w))
          /\ session' = IF w.caller = "other" THEN "open" ELSE "writeFailed"
    /\ UNCHANGED <<wire, delivered, queuedCount>>

\* handleIncomingBleData of an acceptable packet.
Receive(p) ==
    LET packet == Head(wire[Other(p)]) IN
    /\ session = "open"
    /\ wire[Other(p)] # <<>>
    /\ wire' = [wire EXCEPT ![Other(p)] = Tail(@)]
    /\ Acceptable(peer[p], packet)
    /\ SetPeer(p, ProcessSendQueue(Accept(peer[p], packet), "handler"))
    /\ delivered' = IF IsEndingSegment(packet)
                      THEN [delivered EXCEPT ![p] = Append(@, Reassembled(peer[p], packet))]
                      ELSE delivered
    /\ UNCHANGED <<queuedCount, failures, session>>

\* handleIncomingBleData throws BtpProtocolError and closes the session.
ReceiveInvalid(p) ==
    /\ session = "open"
    /\ wire[Other(p)] # <<>>
    /\ ~Acceptable(peer[p], Head(wire[Other(p)]))
    /\ session' = "protocolError"
    /\ UNCHANGED <<peer, wire, delivered, queuedCount, failures>>

BtpSendAckTimeoutTriggered(p) ==
    /\ session = "open"
    /\ peer[p].sendAckTimer
    /\ SetPeer(p, SendStandaloneAck([peer[p] EXCEPT !.sendAckTimer = FALSE], "other"))
    /\ UNCHANGED <<wire, delivered, queuedCount, failures, session>>

\* Timing: the timer runs three times as long as the send-ack timer, and writes,
\* transmission and handlers are quick.  It expires only when all of them are through.
Quiet ==
    \A p \in Peers : /\ wire[p] = <<>>
                     /\ peer[p].writes = {}
                     /\ ~peer[p].sendAckTimer

\* Slip: the expiry is not acted upon.
BtpAckTimeoutIgnored(p) ==
    /\ session = "open"
    /\ peer[p].ackReceiveTimer
    /\ Quiet
    /\ SetPeer(p, [peer[p] EXCEPT !.ackReceiveTimer = FALSE])
    /\ UNCHANGED <<wire, delivered, queuedCount, failures, session>>

BtpAckTimeoutTriggered(p) ==
    /\ session = "open"
    /\ peer[p].ackReceiveTimer
    /\ Quiet
    /\ SetPeer(p, [peer[p] EXCEPT !.ackReceiveTimer = FALSE])
    /\ session' = IF peer[p].prevIncomingAck # peer[p].seq THEN "ackTimeout" ELSE "open"
    /\ UNCHANGED <<wire, delivered, queuedCount, failures>>

\* The central has sent no data for a minute.
IdleTimeout ==
    /\ session = "open"
    /\ peer[Central].idleTimer
    /\ session' = "idle"
    /\ UNCHANGED <<peer, wire, delivered, queuedCount, failures>>

\* The constructor, after the handshake.  The response took sequence number 0 of the
\* peripheral; the central still has to acknowledge it.
Init ==
    /\ peer = [p \in Peers |->
          [seq |-> IF p = Central THEN Unset ELSE 0,
           prevIncomingAck |-> Unset,
           prevIncoming |-> IF p = Central THEN 0 ELSE SequenceSpace - 1,
           prevAcked |-> IF p = Central THEN Unset ELSE SequenceSpace - 1,
           queue |-> <<>>, sendInProgress |-> FALSE, writes |-> {}, partial |-> <<>>,
           sendAckTimer |-> p = Central, ackReceiveTimer |-> p = Peripheral,
           idleTimer |-> FALSE]]
    /\ wire = [p \in Peers |-> <<>>]
    /\ delivered = [p \in Peers |-> <<>>]
    /\ queuedCount = [p \in Peers |-> 0]
    /\ failures = 0
    /\ session = "open"

Next ==
    \/ \E p \in Peers : \/ SendMatterMessage(p) \/ Transmit(p) \/ WriteDone(p)
                        \/ WriteFails(p) \/ Receive(p) \/ ReceiveInvalid(p)
                        \/ BtpSendAckTimeoutTriggered(p) \/ BtpAckTimeoutTriggered(p)
    \/ IdleTimeout

\* The BLE stack carries packets, promises settle and timers expire.
Fairness ==
    \A p \in Peers : /\ WF_vars(Transmit(p)) /\ WF_vars(WriteDone(p))
                     /\ WF_vars(Receive(p)) /\ WF_vars(ReceiveInvalid(p))
                     /\ WF_vars(BtpSendAckTimeoutTriggered(p))
                     /\ WF_vars(BtpAckTimeoutTriggered(p))

Spec == Init /\ [][Next]_vars
FairSpec == Spec /\ Fairness

-----------------------------------------------------------------------------
\* Types of the variables: every number on the wire is an 8-bit sequence number.
Handlers ==
    [seq : Numbers, prevIncomingAck : Numbers, prevIncoming : Numbers, prevAcked : Numbers,
     queue : Seq(Segments), sendInProgress : BOOLEAN, writes : SUBSET Writes,
     partial : Seq(Segments), sendAckTimer : BOOLEAN, ackReceiveTimer : BOOLEAN,
     idleTimer : BOOLEAN]

TypeOK ==
    /\ peer \in [Peers -> Handlers]
    /\ wire \in [Peers -> Seq(Packets)]
    /\ delivered \in [Peers -> Seq(Seq(Segments))]
    /\ queuedCount \in [Peers -> Nat]
    /\ failures \in 0 .. MaxFailures
    /\ session \in {"open", "protocolError", "ackTimeout", "writeFailed", "idle"}

\* Packets of p that its peer has not received yet.
InFlight(p) == Len(wire[p]) + Cardinality({w \in peer[p].writes : ~w.onWire})

\* The receiver is never overrun: what it has received and not acknowledged, with all
\* that is still under way to it, fits its window, across the wrap of the numbers.
ReceiverNotOverrun ==
    failures = 0 =>
        \A p \in Peers : InFlight(p) <= LocalWindowFreeSlots(peer[Other(p)])

\* Two handlers never refuse each other's packets: a sequence, ack or reassembly error
\* needs a failed write.
NoProtocolError == session = "protocolError" => failures > 0

\* The acknowledgements on their way to p acknowledge new packets, and only packets
\* p has sent: none is a duplicate.
AcksAdvance ==
    failures = 0 =>
        \A p \in Peers :
            LET s == peer[p]
                in == wire[Other(p)]
                acks == {i \in 1 .. Len(in) : in[i].ack # NoAck}
                distance(i) == ModularDistance(s.prevIncomingAck, in[i].ack)
            IN \A i \in acks :
                  /\ distance(i) \in 1 .. Outstanding(s)
                  /\ \A j \in acks : j < i => distance(j) < distance(i)

\* Both directions of the window protocol hold across the wrap of the numbers: no side
\* sends more than the other has room for, and no side is acknowledged what it has not
\* sent or what was acknowledged before.
WindowsRespected == ReceiverNotOverrun /\ AcksAdvance

\* Messages arrive whole, once and in the order they were queued.
DeliveredInOrder ==
    failures = 0 =>
        \A p \in Peers : \A i \in 1 .. Len(delivered[p]) :
            \A j \in 1 .. Len(delivered[p][i]) :
                /\ Len(delivered[p][i]) = delivered[p][i][j].len
                /\ delivered[p][i][j].msg = i /\ delivered[p][i][j].index = j

\* The peers never block each other with two full windows: a peer that can send an
\* acknowledgement is left, unless packets are still under way.  A write that fails
\* uses up a slot that no acknowledgement frees.
NotBothBlocked ==
    failures = 0 /\ (\A p \in Peers : InFlight(p) = 0) =>
        \E p \in Peers : CanSend(peer[p], TRUE)

\* Every message that was queued is delivered, unless the session ends.
MessagesDelivered ==
    \A p \in Peers : \A n \in 1 .. MaxMessages[p] :
        queuedCount[p] >= n ~> Len(delivered[Other(p)]) >= n \/ session # "open" \/ failures > 0

\* While both peers work, acknowledgements arrive before the acknowledgement timer
\* of the sender expires.
AcknowledgedInTime == session # "ackTimeout"

=============================================================================
