--------------------------- MODULE BtpSessionProofs ---------------------------
(***************************************************************************)
(* Proofs about BTP sessions, for every sequence space, window size and    *)
(* length of messages: sequence numbers, acknowledgements and segments     *)
(* always fit together, across the wrap of the numbers, while no write     *)
(* has failed.                                                             *)
(*                                                                         *)
(* Each direction of the session is seen as a stream: the packets on the   *)
(* wire and the one being written.  A handler appends to its stream and    *)
(* takes the head of the other one, and both often happen in one action,   *)
(* as a handler that receives may send: the lemmas treat the two apart.    *)
(***************************************************************************)
EXTENDS BtpSession, FiniteSetTheorems, TLAPS

-----------------------------------------------------------------------------
(***************************************************************************)
(* What is under way.                                                      *)
(***************************************************************************)

D(from, to) == ModularDistance(from, to)

Unsent(s) == {w \in s.writes : ~w.onWire}

\* The packets that the handler s has sent and its peer has not received, in order: those
\* on the wire, and the one whose write has begun.
Stream(s, onWire) ==
    IF Unsent(s) = {} THEN onWire ELSE Append(onWire, (CHOOSE w \in s.writes : TRUE).packet)

Out(p) == Stream(peer[p], wire[p])

-----------------------------------------------------------------------------
(***************************************************************************)
(* The invariant of one handler s whose caller has passed it n messages.   *)
(***************************************************************************)

\* One write at a time, and sendInProgress says whether there is one.
OneWriter(s) ==
    /\ \A v, w \in s.writes : v = w
    /\ s.sendInProgress <=> s.writes # {}

\* The queue holds the last messages in order.  Only the first has begun, and it is
\* complete only while its last segment is being written.
Queued(s, n) ==
    /\ n \in Nat /\ Len(s.queue) <= n
    /\ \A i \in 1 .. Len(s.queue) :
          LET m == s.queue[i] IN
          /\ m.msg = n - Len(s.queue) + i
          /\ m.len \in Lengths /\ m.index \in 0 .. m.len
          /\ i > 1 => m.index = 0
          /\ i = 1 /\ m.index = m.len => s.writes # {}
    /\ \A w \in s.writes :
          w.packet.segment # NoSegment => s.queue # <<>> /\ s.queue[1] = w.packet.segment
    /\ \A w \in s.writes :
          w.packet.segment = NoSegment /\ s.queue # <<>> => s.queue[1].index < s.queue[1].len

Shape(s, n) == OneWriter(s) /\ Queued(s, n)

-----------------------------------------------------------------------------
(***************************************************************************)
(* The invariant of one direction while no write has failed: packets go    *)
(* from a to b by out, and acknowledgements from b to a by back.           *)
(***************************************************************************)

\* The packets under way continue the numbers that b has received, up to those a has sent.
Numbered(a, b, out) ==
    /\ \A i \in 1 .. Len(out) : D(b.prevIncoming, out[i].seq) = i
    /\ D(b.prevIncoming, a.seq) = Len(out)

\* What a counts as outstanding are the packets whose acknowledgement is under way, those
\* b has yet to acknowledge, and those b has yet to receive.
Accounted(a, b, out) ==
    /\ Outstanding(a) = D(a.prevIncomingAck, b.prevAcked)
                        + D(b.prevAcked, b.prevIncoming) + Len(out)
    /\ Outstanding(a) <= WindowSize
    /\ HasAckNumber(b) => D(b.prevAcked, b.prevIncoming) > 0

\* The acknowledgements under way to a are new, and in order.
Acknowledged(a, b, back) ==
    \A i \in 1 .. Len(back) : back[i].ack # NoAck =>
        /\ D(a.prevIncomingAck, back[i].ack) \in 1 .. D(a.prevIncomingAck, b.prevAcked)
        /\ \A j \in 1 .. i - 1 : back[j].ack # NoAck =>
              D(a.prevIncomingAck, back[j].ack) < D(a.prevIncomingAck, back[i].ack)

Window(a, b, out, back) == Numbered(a, b, out) /\ Accounted(a, b, out) /\ Acknowledged(a, b, back)

-----------------------------------------------------------------------------
(***************************************************************************)
(* Positions in the stream of segments: messages completed, segments of    *)
(* the next one, and its length once it has begun.                         *)
(***************************************************************************)

Position(msgs, index, len) == <<msgs, index, IF index = 0 THEN 0 ELSE len>>
Before(g) == Position(g.msg - 1, g.index - 1, g.len)
After(g) == IF g.index = g.len THEN Position(g.msg, 0, 0) ELSE Position(g.msg - 1, g.index, g.len)

\* How far a has sent and b has received, where a was passed n messages and b has
\* delivered d.
SentTo(a, n) == IF a.queue # <<>> /\ a.queue[1].index > 0 THEN After(a.queue[1])
                ELSE Position(n - Len(a.queue), 0, 0)
ReceivedTo(b, d) == IF b.partial = <<>> THEN Position(d, 0, 0)
                    ELSE Position(d, Len(b.partial), b.partial[1].len)

IsData(out, i) == out[i].segment # NoSegment

WellFormed(g) == g.msg > 0 /\ g.len \in Lengths /\ g.index \in 1 .. g.len

\* Each segment on the way begins where the one before it ends, the first one where b is,
\* and a is where the last one ends.
Chain(out, from, to) ==
    /\ \A i \in 1 .. Len(out) : IsData(out, i) => WellFormed(out[i].segment)
    /\ \A i, j \in 1 .. Len(out) :
          /\ IsData(out, i) /\ IsData(out, j) /\ i < j
          /\ \A k \in 1 .. Len(out) : i < k /\ k < j => ~IsData(out, k)
          => After(out[i].segment) = Before(out[j].segment)
    /\ \A i \in 1 .. Len(out) :
          IsData(out, i) /\ (\A k \in 1 .. Len(out) : k < i => ~IsData(out, k)) =>
              from = Before(out[i].segment)
    /\ \A i \in 1 .. Len(out) :
          IsData(out, i) /\ (\A k \in 1 .. Len(out) : i < k => ~IsData(out, k)) =>
              After(out[i].segment) = to
    /\ (\A k \in 1 .. Len(out) : ~IsData(out, k)) => from = to

\* What b has of the message under way, when it has delivered d.
Collected(b, d) ==
    \A i \in 1 .. Len(b.partial) :
        /\ b.partial[i].msg = d + 1 /\ b.partial[i].index = i
        /\ b.partial[i].len = b.partial[1].len /\ b.partial[i].len \in Lengths
        /\ Len(b.partial) < b.partial[i].len

\* All of one direction, where a was passed n messages and b has delivered d.
Way(a, b, out, back, n, d) ==
    /\ Window(a, b, out, back)
    /\ Chain(out, ReceivedTo(b, d), SentTo(a, n))
    /\ Collected(b, d)

-----------------------------------------------------------------------------
Full(s) == Outstanding(s) = WindowSize
CarriesAck(out) == \E i \in 1 .. Len(out) : out[i].ack # NoAck

\* Both directions, seen from a, where a was passed na messages and has delivered da, and
\* so b.  Two full windows are opened by an acknowledgement that is under way.
Talk(a, b, out, back, na, nb, da, db) ==
    /\ Way(a, b, out, back, na, db)
    /\ Way(b, a, back, out, nb, da)
    /\ Full(a) /\ Full(b) => CarriesAck(out) \/ CarriesAck(back)

TalkOf(p) == Talk(peer[p], peer[Other(p)], Out(p), Out(Other(p)),
                  queuedCount[p], queuedCount[Other(p)],
                  Len(delivered[p]), Len(delivered[Other(p)]))

Sound == TalkOf(Central) /\ session # "protocolError"

Inv ==
    /\ TypeOK
    /\ \A p \in Peers : Shape(peer[p], queuedCount[p])
    /\ failures = 0 => Sound
    /\ DeliveredInOrder

-----------------------------------------------------------------------------
(***************************************************************************)
(* Distances.                                                              *)
(***************************************************************************)

\* The remainder of a number is the number up to a multiple of the divisor.
LEMMA Remainder ==
    ASSUME NEW x \in Int, NEW m \in Nat \ {0}
    PROVE  x % m \in 0 .. m - 1 /\ \E k \in Int : x = m * k + (x % m)
<1>1. x % m \in 0 .. m - 1
  BY SMT
<1>2. x \div m \in Int /\ x = m * (x \div m) + (x % m)
  BY SMT
<1> QED
  BY <1>1, <1>2

\* A remainder of a number less than one divisor away from 0 .. m - 1.
LEMMA NearRemainder ==
    ASSUME NEW m \in Nat \ {0}, NEW x \in -m .. 2 * m - 1
    PROVE  x % m \in 0 .. m - 1 /\ (x % m = x \/ x % m = x + m \/ x % m = x - m)
<1>0. x \in Int
  OBVIOUS
<1>1. PICK k \in Int : x = m * k + (x % m)
  BY <1>0, Remainder
<1>2. PICK r \in 0 .. m - 1 : r = x % m
  BY Remainder
<1>3. x = m * k + r /\ -m <= x /\ x < 2 * m
  BY <1>1, <1>2
<1>4. CASE k >= 2
  <2>1. m * k >= m * 2
    BY <1>4, SMT
  <2> QED
    BY <2>1, <1>3
<1>5. CASE k <= -2
  <2>1. m * k <= m * (-2)
    BY <1>5, SMT
  <2> QED
    BY <2>1, <1>3
<1>6. CASE k = 0
  BY <1>6, <1>3, <1>2
<1>7. CASE k = 1
  BY <1>7, <1>3, <1>2
<1>8. CASE k = -1
  BY <1>8, <1>3, <1>2
<1> QED
  BY <1>4, <1>5, <1>6, <1>7, <1>8

\* A distance is a difference, up to one round.
LEMMA DistanceIs ==
    ASSUME NEW a \in Numbers, NEW b \in Numbers
    PROVE  /\ D(a, b) \in 0 .. SequenceSpace - 1
           /\ D(a, b) = b - a \/ D(a, b) = b - a + SequenceSpace \/ D(a, b) = b - a - SequenceSpace
<1>1. SequenceSpace \in Nat \ {0} /\ b - a \in -SequenceSpace .. 2 * SequenceSpace - 1
  BY SpaceAssumption DEF Numbers, Unset
<1>2. (b - a) % SequenceSpace \in 0 .. SequenceSpace - 1
  BY <1>1, NearRemainder
<1>3. \/ (b - a) % SequenceSpace = b - a
      \/ (b - a) % SequenceSpace = b - a + SequenceSpace
      \/ (b - a) % SequenceSpace = b - a - SequenceSpace
  BY <1>1, NearRemainder
<1> QED
  BY <1>2, <1>3 DEF D, ModularDistance

\* A distance is a natural number.
LEMMA DistanceNat ==
    ASSUME NEW a \in Numbers, NEW b \in Numbers
    PROVE  D(a, b) \in Nat
<1>1. D(a, b) \in 0 .. SequenceSpace - 1
  BY DistanceIs
<1> QED
  BY <1>1, SpaceAssumption

\* The number after b.
LEMMA Successor ==
    ASSUME NEW b \in Numbers
    PROVE  /\ (b + 1) % SequenceSpace \in 0 .. SequenceSpace - 1
           /\ (b + 1) % SequenceSpace = b + 1 \/ (b + 1) % SequenceSpace = b + 1 - SequenceSpace
<1>1. PICK y \in -SequenceSpace .. 2 * SequenceSpace - 1 : y = b + 1
  BY SpaceAssumption DEF Numbers, Unset
<1>2. SequenceSpace \in Nat \ {0} /\ 0 <= y /\ y <= SequenceSpace
  BY <1>1, SpaceAssumption DEF Numbers, Unset
<1>3. /\ y % SequenceSpace \in 0 .. SequenceSpace - 1
      /\ \/ y % SequenceSpace = y
         \/ y % SequenceSpace = y + SequenceSpace
         \/ y % SequenceSpace = y - SequenceSpace
  BY <1>2, NearRemainder
<1>4. y % SequenceSpace = y \/ y % SequenceSpace = y - SequenceSpace
  BY <1>2, <1>3
<1>5. (b + 1) % SequenceSpace = y % SequenceSpace
  BY <1>1, Zenon
<1>6. b + 1 = y /\ b + 1 - SequenceSpace = y - SequenceSpace
  BY <1>1, SpaceAssumption DEF Numbers
<1> QED
  BY <1>3, <1>4, <1>5, <1>6, Zenon

\* Distances add up, if they are less than a round.
LEMMA DistanceAdds ==
    ASSUME NEW a \in Numbers, NEW b \in Numbers, NEW c \in Numbers,
           D(a, b) + D(b, c) < SequenceSpace \/ D(a, b) <= D(a, c)
    PROVE  D(a, c) = D(a, b) + D(b, c)
<1>1. D(a, b) \in 0 .. SequenceSpace - 1 /\ D(b, c) \in 0 .. SequenceSpace - 1
      /\ D(a, c) \in 0 .. SequenceSpace - 1
  BY DistanceIs
<1>2. D(a, b) = b - a \/ D(a, b) = b - a + SequenceSpace \/ D(a, b) = b - a - SequenceSpace
  BY DistanceIs
<1>3. D(b, c) = c - b \/ D(b, c) = c - b + SequenceSpace \/ D(b, c) = c - b - SequenceSpace
  BY DistanceIs
<1>4. D(a, c) = c - a \/ D(a, c) = c - a + SequenceSpace \/ D(a, c) = c - a - SequenceSpace
  BY DistanceIs
<1> QED
  BY <1>1, <1>2, <1>3, <1>4, SpaceAssumption DEF Numbers, Unset

\* A number has no distance to itself.
LEMMA DistanceToSelf ==
    ASSUME NEW a \in Numbers
    PROVE  D(a, a) = 0
<1>1. D(a, a) \in 0 .. SequenceSpace - 1
  BY DistanceIs
<1>2. D(a, a) = a - a \/ D(a, a) = a - a + SequenceSpace \/ D(a, a) = a - a - SequenceSpace
  BY DistanceIs
<1> QED
  BY <1>1, <1>2, SpaceAssumption DEF Numbers, Unset

\* The number after b is at distance 1 from it, and it alone.
LEMMA DistanceToNext ==
    ASSUME NEW b \in Numbers
    PROVE  /\ D(b, (b + 1) % SequenceSpace) = 1
           /\ (b + 1) % SequenceSpace \in Numbers
           /\ \A c \in 0 .. SequenceSpace - 1 : D(b, c) = 1 => c = (b + 1) % SequenceSpace
<1> DEFINE n == (b + 1) % SequenceSpace
<1>0. n \in 0 .. SequenceSpace - 1 /\ (n = b + 1 \/ n = b + 1 - SequenceSpace)
  BY Successor
<1>1. n \in Numbers
  BY <1>0, SpaceAssumption DEF Numbers, Unset
<1> HIDE DEF n
<1>2. D(b, n) = 1
  <2>1. D(b, n) \in 0 .. SequenceSpace - 1
    BY <1>1, DistanceIs
  <2>2. D(b, n) = n - b \/ D(b, n) = n - b + SequenceSpace \/ D(b, n) = n - b - SequenceSpace
    BY <1>1, DistanceIs
  <2> QED
    BY <2>1, <2>2, <1>0, SpaceAssumption DEF Numbers, Unset
<1>3. ASSUME NEW c \in 0 .. SequenceSpace - 1, D(b, c) = 1
      PROVE  c = n
  <2>1. c \in Numbers
    BY SpaceAssumption DEF Numbers, Unset
  <2>2. D(b, c) = c - b \/ D(b, c) = c - b + SequenceSpace \/ D(b, c) = c - b - SequenceSpace
    BY <2>1, DistanceIs
  <2> QED
    BY <2>2, <1>0, <1>3, SpaceAssumption DEF Numbers, Unset
<1> QED
  BY <1>1, <1>2, <1>3 DEF n
-----------------------------------------------------------------------------
(***************************************************************************)
(* Windows.  A handler a that sends a packet k becomes z; one that         *)
(* receives becomes y.                                                     *)
(***************************************************************************)

SendsPacket(a, z, k) ==
    /\ z.seq = (a.seq + 1) % SequenceSpace /\ k.seq = z.seq
    /\ z.prevIncomingAck = a.prevIncomingAck /\ z.prevIncoming = a.prevIncoming
    /\ k.ack = NoAck => z.prevAcked = a.prevAcked /\ RemoteWindowFreeSlots(a) > NoAckThreshold
    /\ k.ack # NoAck => /\ k.ack = a.prevIncoming /\ z.prevAcked = a.prevIncoming
                        /\ HasAckNumber(a) /\ RemoteWindowFreeSlots(a) > 0

\* Appending to a sequence and taking its tail.
LEMMA AppendFacts ==
    ASSUME NEW S, NEW t \in Seq(S), NEW k \in S
    PROVE  /\ Append(t, k) \in Seq(S) /\ Len(Append(t, k)) = Len(t) + 1 /\ Len(t) \in Nat
           /\ \A i \in 1 .. Len(t) : Append(t, k)[i] = t[i]
           /\ Append(t, k)[Len(t) + 1] = k
  OBVIOUS

\* The tail of a sequence that is not empty.
LEMMA TailFacts ==
    ASSUME NEW S, NEW t \in Seq(S), t # <<>>
    PROVE  /\ Tail(t) \in Seq(S) /\ Len(t) \in Nat /\ Len(t) > 0 /\ Len(Tail(t)) = Len(t) - 1
           /\ \A i \in 1 .. Len(Tail(t)) : Tail(t)[i] = t[i + 1]
           /\ Head(t) = t[1] /\ Head(t) \in S
  OBVIOUS

\* A packet's numbers.
LEMMA PacketFacts ==
    ASSUME NEW k \in Packets
    PROVE  /\ k.seq \in 0 .. SequenceSpace - 1 /\ k.seq \in Numbers
           /\ k.ack # NoAck => k.ack \in Numbers
           /\ k.segment \in Segments
  BY SpaceAssumption DEF Packets, Numbers, Unset

\* A handler's numbers.
LEMMA HandlerFacts ==
    ASSUME NEW s \in Handlers
    PROVE  /\ s.seq \in Numbers /\ s.prevIncomingAck \in Numbers
           /\ s.prevIncoming \in Numbers /\ s.prevAcked \in Numbers
           /\ s.queue \in Seq(Segments) /\ s.partial \in Seq(Segments)
           /\ s.writes \subseteq Writes
  BY DEF Handlers

\* Sending uses one slot of the window, and keeps the numbers of the stream in order.  The
\* last slot is used only by a packet that carries an acknowledgement.
LEMMA SentWindow ==
    ASSUME NEW a \in Handlers, NEW b \in Handlers, NEW z \in Handlers, NEW k \in Packets,
           NEW out \in Seq(Packets), NEW back \in Seq(Packets),
           Window(a, b, out, back), SendsPacket(a, z, k)
    PROVE  /\ Window(z, b, Append(out, k), back)
           /\ Full(z) => k.ack # NoAck
<1> USE HandlerFacts, SpaceAssumption
<1> DEFINE o == Append(out, k)
<1>1. /\ Len(o) = Len(out) + 1 /\ Len(out) \in Nat /\ o[Len(out) + 1] = k
      /\ \A i \in 1 .. Len(out) : o[i] = out[i]
  BY AppendFacts
<1> HIDE DEF o
<1>2. z.seq = (a.seq + 1) % SequenceSpace /\ k.seq = z.seq /\ z.prevIncomingAck = a.prevIncomingAck
  BY DEF SendsPacket
<1>3. D(a.seq, z.seq) = 1
  BY <1>2, DistanceToNext
<1>4. D(a.prevIncomingAck, a.seq) < WindowSize
  <2>1. RemoteWindowFreeSlots(a) > 0
    <3>1. RemoteWindowFreeSlots(a) > 0 \/ RemoteWindowFreeSlots(a) > NoAckThreshold
      BY DEF SendsPacket
    <3>2. D(a.prevIncomingAck, a.seq) \in Int
      BY DistanceIs
    <3> QED
      BY <3>1, <3>2, ThresholdAssumption DEF RemoteWindowFreeSlots, Outstanding, D
  <2>2. D(a.prevIncomingAck, a.seq) \in Int
    BY DistanceIs
  <2> QED
    BY <2>1, <2>2 DEF RemoteWindowFreeSlots, Outstanding, D
<1>5. D(a.prevIncomingAck, a.seq) \in 0 .. SequenceSpace - 1
  BY DistanceIs
<1>6. D(z.prevIncomingAck, z.seq) = D(a.prevIncomingAck, a.seq) + 1
  <2>1. D(a.prevIncomingAck, a.seq) + D(a.seq, z.seq) < SequenceSpace
    BY <1>3, <1>4, <1>5
  <2>2. D(a.prevIncomingAck, z.seq) = D(a.prevIncomingAck, a.seq) + D(a.seq, z.seq)
    BY <2>1, DistanceAdds
  <2> QED
    BY <2>2, <1>2, <1>3
<1>7. D(b.prevIncoming, a.seq) = Len(out)
  BY DEF Window, Numbered
<1>8. /\ D(a.prevIncomingAck, b.prevAcked) \in Nat /\ D(b.prevAcked, b.prevIncoming) \in Nat
  BY DistanceIs
<1>9. D(a.prevIncomingAck, a.seq) = D(a.prevIncomingAck, b.prevAcked)
                        + D(b.prevAcked, b.prevIncoming) + Len(out)
  BY DEF Window, Accounted, Outstanding, D
<1>10. Len(out) < WindowSize
  BY <1>1, <1>4, <1>5, <1>8, <1>9
<1>11. D(b.prevIncoming, z.seq) = Len(out) + 1
  <2>1. D(b.prevIncoming, a.seq) + D(a.seq, z.seq) < SequenceSpace
    BY <1>1, <1>3, <1>7, <1>10
  <2>2. D(b.prevIncoming, z.seq) = D(b.prevIncoming, a.seq) + D(a.seq, z.seq)
    BY <2>1, DistanceAdds
  <2> QED
    BY <2>2, <1>3, <1>7
<1>12. Numbered(z, b, o)
  <2>1. ASSUME NEW i \in 1 .. Len(o)
        PROVE  D(b.prevIncoming, o[i].seq) = i
    <3>1. CASE i = Len(out) + 1
      BY <3>1, <1>1, <1>2, <1>11
    <3>2. CASE i \in 1 .. Len(out)
      <4>1. o[i] = out[i]
        BY <3>2, <1>1
      <4>2. D(b.prevIncoming, out[i].seq) = i
        BY <3>2 DEF Window, Numbered
      <4> QED
        BY <4>1, <4>2
    <3> QED
      BY <3>1, <3>2, <1>1
  <2> QED
    BY <2>1, <1>1, <1>11 DEF Numbered
<1>13. Accounted(z, b, o)
  <2>1. HasAckNumber(b) => D(b.prevAcked, b.prevIncoming) > 0
    BY DEF Window, Accounted
  <2>2. D(z.prevIncomingAck, z.seq) = D(z.prevIncomingAck, b.prevAcked)
                        + D(b.prevAcked, b.prevIncoming) + Len(o)
    BY <1>1, <1>2, <1>6, <1>8, <1>9
  <2>3. D(z.prevIncomingAck, z.seq) <= WindowSize
    BY <1>4, <1>5, <1>6
  <2> QED
    BY <2>1, <2>2, <2>3 DEF Accounted, Outstanding, D
<1>14. Acknowledged(z, b, back)
  BY <1>2 DEF Window, Acknowledged
<1>15. Full(z) => k.ack # NoAck
  <2>1. SUFFICES ASSUME k.ack = NoAck PROVE ~Full(z)
    OBVIOUS
  <2>2. RemoteWindowFreeSlots(a) > NoAckThreshold
    BY <2>1 DEF SendsPacket
  <2>3. WindowSize - D(a.prevIncomingAck, a.seq) > NoAckThreshold
    BY <2>2 DEF RemoteWindowFreeSlots, Outstanding, D
  <2>4. D(z.prevIncomingAck, z.seq) # WindowSize
    BY <2>3, <1>5, <1>6, ThresholdAssumption
  <2> QED
    BY <2>4 DEF Full, Outstanding, D
<1> QED
  BY <1>12, <1>13, <1>14, <1>15 DEF Window, o
\* For the other direction, what a sends may acknowledge all that it has received.
LEMMA SentBackWindow ==
    ASSUME NEW a \in Handlers, NEW b \in Handlers, NEW z \in Handlers, NEW k \in Packets,
           NEW out \in Seq(Packets), NEW back \in Seq(Packets),
           Window(b, a, back, out), SendsPacket(a, z, k)
    PROVE  Window(b, z, back, Append(out, k))
<1> USE HandlerFacts, SpaceAssumption
<1> DEFINE o == Append(out, k)
<1>1. /\ Len(o) = Len(out) + 1 /\ Len(out) \in Nat /\ o[Len(out) + 1] = k
      /\ \A i \in 1 .. Len(out) : o[i] = out[i]
  BY AppendFacts
<1> HIDE DEF o
<1>2. z.prevIncoming = a.prevIncoming
  BY DEF SendsPacket
<1>3. Numbered(b, z, back)
  BY <1>2 DEF Window, Numbered
<1>4. CASE k.ack = NoAck
  <2>1. z.prevAcked = a.prevAcked
    BY <1>4 DEF SendsPacket
  <2>2. Accounted(b, z, back)
    BY <1>2, <2>1 DEF Window, Accounted, HasAckNumber
  <2>3. Acknowledged(b, z, o)
    <3>1. \A i \in 1 .. Len(o) : o[i].ack # NoAck => i \in 1 .. Len(out) /\ o[i] = out[i]
      BY <1>1, <1>4
    <3>2. ASSUME NEW i \in 1 .. Len(o), o[i].ack # NoAck
          PROVE  /\ D(b.prevIncomingAck, o[i].ack) \in 1 .. D(b.prevIncomingAck, z.prevAcked)
                 /\ \A j \in 1 .. i - 1 : o[j].ack # NoAck =>
                       D(b.prevIncomingAck, o[j].ack) < D(b.prevIncomingAck, o[i].ack)
      <4>1. i \in 1 .. Len(out) /\ o[i] = out[i]
        BY <3>1, <3>2
      <4>2. \A j \in 1 .. i - 1 : o[j] = out[j]
        BY <1>1, <4>1
      <4> QED
        BY <2>1, <3>2, <4>1, <4>2 DEF Window, Acknowledged
    <3> QED
      BY <3>2 DEF Acknowledged
  <2> QED
    BY <1>3, <2>2, <2>3 DEF Window, o
<1>5. CASE k.ack # NoAck
  <2>1. k.ack = a.prevIncoming /\ z.prevAcked = a.prevIncoming /\ HasAckNumber(a)
    BY <1>5 DEF SendsPacket
  <2>2. D(a.prevAcked, a.prevIncoming) > 0
    BY <2>1 DEF Window, Accounted
  <2>3. /\ D(b.prevIncomingAck, a.prevAcked) \in Nat /\ D(a.prevAcked, a.prevIncoming) \in Nat
        /\ Len(back) \in Nat
    BY DistanceIs
  <2>4. /\ Outstanding(b) = D(b.prevIncomingAck, a.prevAcked)
                            + D(a.prevAcked, a.prevIncoming) + Len(back)
        /\ Outstanding(b) <= WindowSize
    BY DEF Window, Accounted
  <2>5. D(b.prevIncomingAck, a.prevAcked) + D(a.prevAcked, a.prevIncoming) < SequenceSpace
    BY <2>3, <2>4
  <2>6. D(b.prevIncomingAck, a.prevIncoming)
            = D(b.prevIncomingAck, a.prevAcked) + D(a.prevAcked, a.prevIncoming)
    BY <2>5, DistanceAdds
  <2>7. D(a.prevIncoming, a.prevIncoming) = 0
    BY DistanceToSelf
  <2>8. Accounted(b, z, back)
    <3>1. ~HasAckNumber(z)
      BY <1>2, <2>1 DEF HasAckNumber
    <3> QED
      BY <1>2, <2>1, <2>3, <2>4, <2>6, <2>7, <3>1 DEF Accounted
  <2>9. Acknowledged(b, z, o)
    <3>1. ASSUME NEW i \in 1 .. Len(out), out[i].ack # NoAck
          PROVE  /\ D(b.prevIncomingAck, out[i].ack) \in 1 .. D(b.prevIncomingAck, z.prevAcked)
                 /\ D(b.prevIncomingAck, out[i].ack) < D(b.prevIncomingAck, k.ack)
      <4>1. D(b.prevIncomingAck, out[i].ack) \in 1 .. D(b.prevIncomingAck, a.prevAcked)
        BY <3>1 DEF Window, Acknowledged
      <4> QED
        BY <4>1, <2>1, <2>2, <2>3, <2>6
    <3>2. D(b.prevIncomingAck, k.ack) \in 1 .. D(b.prevIncomingAck, z.prevAcked)
      BY <2>1, <2>2, <2>3, <2>6
    <3>3. ASSUME NEW i \in 1 .. Len(o), o[i].ack # NoAck
          PROVE  /\ D(b.prevIncomingAck, o[i].ack) \in 1 .. D(b.prevIncomingAck, z.prevAcked)
                 /\ \A j \in 1 .. i - 1 : o[j].ack # NoAck =>
                       D(b.prevIncomingAck, o[j].ack) < D(b.prevIncomingAck, o[i].ack)
      <4>1. CASE i = Len(out) + 1
        BY <4>1, <1>1, <3>1, <3>2
      <4>2. CASE i \in 1 .. Len(out)
        <5>1. \A j \in 1 .. i - 1 : j \in 1 .. Len(out) /\ o[j] = out[j]
          BY <4>2, <1>1
        <5>2. o[i] = out[i]
          BY <4>2, <1>1
        <5>3. \A j \in 1 .. i - 1 : out[j].ack # NoAck =>
                 D(b.prevIncomingAck, out[j].ack) < D(b.prevIncomingAck, out[i].ack)
          BY <4>2, <5>2, <3>3 DEF Window, Acknowledged
        <5> QED
          BY <4>2, <5>1, <5>2, <5>3, <3>1, <3>3
      <4> QED
        BY <4>1, <4>2, <1>1
    <3> QED
      BY <3>3 DEF Acknowledged
  <2> QED
    BY <1>3, <2>8, <2>9 DEF Window, o
<1> QED
  BY <1>4, <1>5

\* Receiving moves a packet from those under way to those to be acknowledged.  It has the
\* number that is expected.
LEMMA ReceivedWindow ==
    ASSUME NEW a \in Handlers, NEW b \in Handlers, NEW y \in Handlers,
           NEW out \in Seq(Packets), NEW back \in Seq(Packets), out # <<>>,
           Window(a, b, out, back),
           y.prevIncoming = Head(out).seq, y.prevAcked = b.prevAcked
    PROVE  /\ Window(a, y, Tail(out), back)
           /\ SequenceExpected(b, Head(out))
<1> USE HandlerFacts, SpaceAssumption
<1> DEFINE o == Tail(out)
<1>1. /\ Len(o) = Len(out) - 1 /\ Len(out) \in Nat /\ Len(out) > 0 /\ Head(out) = out[1]
      /\ \A i \in 1 .. Len(o) : o[i] = out[i + 1]
      /\ Head(out) \in Packets /\ o \in Seq(Packets)
  BY TailFacts
<1> HIDE DEF o
<1>2. \A i \in 1 .. Len(out) : out[i] \in Packets
  OBVIOUS
<1>3. y.prevIncoming \in 0 .. SequenceSpace - 1 /\ D(b.prevIncoming, y.prevIncoming) = 1
  BY <1>1, <1>2, PacketFacts DEF Window, Numbered
<1>4. SequenceExpected(b, Head(out))
  BY <1>3, DistanceToNext DEF SequenceExpected
<1>5. ASSUME NEW n \in Numbers, D(b.prevIncoming, n) >= 1
      PROVE  D(y.prevIncoming, n) = D(b.prevIncoming, n) - 1
  <2>1. D(b.prevIncoming, n) \in Nat /\ D(y.prevIncoming, n) \in Nat
    BY DistanceIs
  <2>2. D(b.prevIncoming, n) = D(b.prevIncoming, y.prevIncoming) + D(y.prevIncoming, n)
    BY <1>3, <1>5, <2>1, DistanceAdds
  <2> QED
    BY <2>1, <2>2, <1>3
<1>6. Numbered(a, y, o)
  <2>1. ASSUME NEW i \in 1 .. Len(o)
        PROVE  D(y.prevIncoming, o[i].seq) = i
    <3>1. o[i] = out[i + 1] /\ i + 1 \in 1 .. Len(out)
      BY <1>1
    <3>2. D(b.prevIncoming, out[i + 1].seq) = i + 1
      BY <3>1 DEF Window, Numbered
    <3>3. out[i + 1].seq \in Numbers
      BY <1>2, <3>1, PacketFacts
    <3> QED
      BY <3>1, <3>2, <3>3, <1>5
  <2>2. D(b.prevIncoming, a.seq) = Len(out)
    BY DEF Window, Numbered
  <2>3. D(y.prevIncoming, a.seq) = D(b.prevIncoming, a.seq) - 1
    <3>1. a.seq \in Numbers /\ D(b.prevIncoming, a.seq) >= 1
      BY <1>1, <2>2
    <3> QED
      BY <3>1, <1>5
  <2> QED
    BY <2>1, <2>2, <2>3, <1>1 DEF Numbered
<1>7. Accounted(a, y, o)
  <2>1. /\ Outstanding(a) = D(a.prevIncomingAck, b.prevAcked)
                            + D(b.prevAcked, b.prevIncoming) + Len(out)
        /\ Outstanding(a) <= WindowSize
    BY DEF Window, Accounted
  <2>2. /\ D(a.prevIncomingAck, b.prevAcked) \in Nat /\ D(b.prevAcked, b.prevIncoming) \in Nat
    BY DistanceIs, SMTT(30)
  <2>3. D(b.prevAcked, b.prevIncoming) + D(b.prevIncoming, y.prevIncoming) < SequenceSpace
    BY <1>1, <1>3, <2>1, <2>2
  <2>4. D(b.prevAcked, y.prevIncoming) = D(b.prevAcked, b.prevIncoming) + 1
    BY <2>3, <1>3, DistanceAdds
  <2>5. /\ Outstanding(a) = D(a.prevIncomingAck, y.prevAcked)
                            + D(y.prevAcked, y.prevIncoming) + Len(o)
        /\ D(y.prevAcked, y.prevIncoming) > 0
    <3>1. D(y.prevAcked, y.prevIncoming) = D(b.prevAcked, b.prevIncoming) + 1
      BY <2>4
    <3>2. D(a.prevIncomingAck, y.prevAcked) = D(a.prevIncomingAck, b.prevAcked)
      OBVIOUS
    <3>3. D(b.prevAcked, b.prevIncoming) + Len(out)
             = (D(b.prevAcked, b.prevIncoming) + 1) + Len(o)
      BY <1>1, <2>2
    <3>4. Outstanding(a) = D(a.prevIncomingAck, b.prevAcked)
                           + (D(b.prevAcked, b.prevIncoming) + 1) + Len(o)
      BY <1>1, <2>1, <2>2, <3>3
    <3>5. D(b.prevAcked, b.prevIncoming) + 1 > 0
      BY <2>2
    <3> QED
      BY <3>1, <3>2, <3>4, <3>5, Zenon
  <2> QED
    BY <2>1, <2>5 DEF Accounted
<1>8. Acknowledged(a, y, back)
  BY DEF Window, Acknowledged
<1> QED
  BY <1>4, <1>6, <1>7, <1>8 DEF Window, o

\* An acknowledgement that arrives is valid, and opens the window.
LEMMA ReceivedBackWindow ==
    ASSUME NEW a \in Handlers, NEW b \in Handlers, NEW y \in Handlers,
           NEW out \in Seq(Packets), NEW back \in Seq(Packets), back # <<>>,
           Window(a, b, out, back),
           y.seq = a.seq,
           y.prevIncomingAck = IF Head(back).ack = NoAck THEN a.prevIncomingAck ELSE Head(back).ack
    PROVE  /\ Window(y, b, out, Tail(back))
           /\ AckValid(a, Head(back))
           /\ Full(y) => Full(a) /\ Head(back).ack = NoAck
<1> USE HandlerFacts, SpaceAssumption
<1> DEFINE t == Tail(back)
           h == Head(back).ack
<1>1. /\ Len(t) = Len(back) - 1 /\ Len(back) \in Nat /\ Len(back) > 0 /\ Head(back) = back[1]
      /\ \A i \in 1 .. Len(t) : t[i] = back[i + 1]
  BY TailFacts
<1>2. \A i \in 1 .. Len(back) : back[i] \in Packets
  OBVIOUS
<1>3. Numbered(y, b, out)
  BY DEF Window, Numbered
<1>4. h = back[1].ack
  BY <1>1
<1> HIDE DEF t
<1>5. CASE h = NoAck
  <2>1. y.prevIncomingAck = a.prevIncomingAck
    BY <1>5
  <2>2. Accounted(y, b, out)
    BY <2>1 DEF Window, Accounted, Outstanding
  <2>3. Acknowledged(y, b, t)
    <3>1. ASSUME NEW i \in 1 .. Len(t), t[i].ack # NoAck
          PROVE  /\ D(y.prevIncomingAck, t[i].ack) \in 1 .. D(y.prevIncomingAck, b.prevAcked)
                 /\ \A j \in 1 .. i - 1 : t[j].ack # NoAck =>
                       D(y.prevIncomingAck, t[j].ack) < D(y.prevIncomingAck, t[i].ack)
      <4>1. i + 1 \in 1 .. Len(back) /\ t[i] = back[i + 1]
        BY <1>1
      <4>2. \A j \in 1 .. i - 1 : j + 1 \in 1 .. (i + 1) - 1 /\ t[j] = back[j + 1]
        BY <1>1, SMTT(30)
      <4> QED
        BY <2>1, <3>1, <4>1, <4>2 DEF Window, Acknowledged
    <3> QED
      BY <3>1 DEF Acknowledged
  <2>4. AckValid(a, Head(back))
    BY <1>5 DEF AckValid
  <2>5. Full(y) => Full(a)
    BY <2>1 DEF Full, Outstanding
  <2> QED
    BY <1>3, <1>5, <2>2, <2>3, <2>4, <2>5 DEF Window, t
<1>6. CASE h # NoAck
  <2>1. y.prevIncomingAck = h /\ h \in Numbers
    BY <1>6, <1>2, <1>1, PacketFacts
  <2>2. D(a.prevIncomingAck, h) \in 1 .. D(a.prevIncomingAck, b.prevAcked)
    BY <1>1, <1>4, <1>6 DEF Window, Acknowledged
  <2>3. /\ Outstanding(a) = D(a.prevIncomingAck, b.prevAcked)
                            + D(b.prevAcked, b.prevIncoming) + Len(out)
        /\ Outstanding(a) <= WindowSize
        /\ Outstanding(a) = D(a.prevIncomingAck, a.seq)
        /\ HasAckNumber(b) => D(b.prevAcked, b.prevIncoming) > 0
    BY DEF Window, Accounted, Outstanding, D
  <2>4. /\ D(a.prevIncomingAck, b.prevAcked) \in Nat /\ D(b.prevAcked, b.prevIncoming) \in Nat
        /\ D(a.prevIncomingAck, a.seq) \in Nat /\ Len(out) \in Nat
        /\ D(a.prevIncomingAck, h) \in Nat
    <3>1. /\ a.prevIncomingAck \in Numbers /\ b.prevAcked \in Numbers /\ a.seq \in Numbers
          /\ b.prevIncoming \in Numbers /\ h \in Numbers /\ Len(out) \in Nat
      BY <2>1
    <3> HIDE DEF h
    <3> QED
      BY <3>1, DistanceNat
  <2> HIDE DEF h
  <2>5. ASSUME NEW n \in Numbers, D(a.prevIncomingAck, h) <= D(a.prevIncomingAck, n)
        PROVE  D(h, n) = D(a.prevIncomingAck, n) - D(a.prevIncomingAck, h)
    <3>1. D(a.prevIncomingAck, n) = D(a.prevIncomingAck, h) + D(h, n)
      BY <2>1, <2>5, DistanceAdds
    <3>2. D(h, n) \in Nat
      BY <2>1, DistanceIs
    <3> QED
      BY <3>1, <3>2, <2>4
  <2>6. D(h, b.prevAcked) = D(a.prevIncomingAck, b.prevAcked) - D(a.prevIncomingAck, h)
    BY <2>2, <2>4, <2>5
  <2>7. D(h, a.seq) = D(a.prevIncomingAck, a.seq) - D(a.prevIncomingAck, h)
    BY <2>2, <2>3, <2>4, <2>5
  <2>8. Outstanding(y) = D(h, a.seq)
    BY <2>1 DEF Outstanding, D
  <2>9. Accounted(y, b, out)
    BY <2>1, <2>2, <2>3, <2>4, <2>6, <2>7, <2>8 DEF Accounted
  <2>10. ASSUME NEW i \in 1 .. Len(t), t[i].ack # NoAck
         PROVE  /\ t[i] = back[i + 1] /\ i + 1 \in 1 .. Len(back) /\ t[i].ack \in Numbers
                /\ D(a.prevIncomingAck, t[i].ack) \in 1 .. D(a.prevIncomingAck, b.prevAcked)
                /\ D(a.prevIncomingAck, h) < D(a.prevIncomingAck, t[i].ack)
                /\ D(h, t[i].ack) = D(a.prevIncomingAck, t[i].ack) - D(a.prevIncomingAck, h)
    <3>1. t[i] = back[i + 1] /\ i + 1 \in 1 .. Len(back) /\ 1 \in 1 .. (i + 1) - 1
      BY <1>1
    <3>2. t[i].ack \in Numbers
      BY <3>1, <1>2, <2>10, PacketFacts
    <3>3. D(a.prevIncomingAck, t[i].ack) \in 1 .. D(a.prevIncomingAck, b.prevAcked)
      BY <3>1, <2>10 DEF Window, Acknowledged
    <3>4. D(a.prevIncomingAck, h) < D(a.prevIncomingAck, t[i].ack)
      BY <3>1, <2>10, <1>4, <1>6 DEF Window, Acknowledged
    <3>5. D(h, t[i].ack) = D(a.prevIncomingAck, t[i].ack) - D(a.prevIncomingAck, h)
      BY <3>2, <3>3, <3>4, <2>4, <2>5
    <3> QED
      BY <3>1, <3>2, <3>3, <3>4, <3>5
  <2>11. Acknowledged(y, b, t)
    <3>1. ASSUME NEW i \in 1 .. Len(t), t[i].ack # NoAck
          PROVE  D(y.prevIncomingAck, t[i].ack) \in 1 .. D(y.prevIncomingAck, b.prevAcked)
      BY <3>1, <2>1, <2>4, <2>6, <2>10
    <3>2. ASSUME NEW i \in 1 .. Len(t), t[i].ack # NoAck,
                 NEW j \in 1 .. i - 1, t[j].ack # NoAck
          PROVE  D(y.prevIncomingAck, t[j].ack) < D(y.prevIncomingAck, t[i].ack)
      <4>1. j \in 1 .. Len(t)
        BY <1>1
      <4>2. D(a.prevIncomingAck, t[j].ack) < D(a.prevIncomingAck, t[i].ack)
        <5>1. /\ t[i] = back[i + 1] /\ i + 1 \in 1 .. Len(back)
              /\ t[j] = back[j + 1] /\ j + 1 \in 1 .. (i + 1) - 1
          BY <1>1, <4>1
        <5> QED
          BY <5>1, <3>2 DEF Window, Acknowledged
      <4>3. /\ D(h, t[i].ack) = D(a.prevIncomingAck, t[i].ack) - D(a.prevIncomingAck, h)
            /\ D(h, t[j].ack) = D(a.prevIncomingAck, t[j].ack) - D(a.prevIncomingAck, h)
            /\ D(a.prevIncomingAck, t[i].ack) \in Nat /\ D(a.prevIncomingAck, t[j].ack) \in Nat
        BY <3>2, <4>1, <2>4, <2>10, SMTT(30)
      <4> QED
        BY <4>2, <4>3, <2>1, <2>4
    <3> QED
      BY <3>1, <3>2 DEF Acknowledged
  <2>12. AckValid(a, Head(back))
    <3>1. D(a.prevIncomingAck, h) <= Outstanding(a)
      BY <2>2, <2>3, <2>4
    <3> QED
      BY <3>1, <1>1, <1>4 DEF AckValid, D
  <2>13. ~Full(y)
    BY <2>2, <2>3, <2>4, <2>7, <2>8 DEF Full
  <2> QED
    BY <1>3, <2>9, <2>11, <2>12, <2>13 DEF Window, t
<1> QED
  BY <1>5, <1>6
-----------------------------------------------------------------------------
(***************************************************************************)
(* The stream of segments.                                                 *)
(***************************************************************************)

\* A stand-alone acknowledgement leaves the stream of segments as it is.
LEMMA ChainAppendAck ==
    ASSUME NEW out \in Seq(Packets), NEW k \in Packets, NEW from, NEW to,
           Chain(out, from, to), k.segment = NoSegment
    PROVE  Chain(Append(out, k), from, to)
<1> DEFINE o == Append(out, k)
<1>1. /\ Len(o) = Len(out) + 1 /\ Len(out) \in Nat /\ o[Len(out) + 1] = k
      /\ \A i \in 1 .. Len(out) : o[i] = out[i]
  BY AppendFacts
<1> HIDE DEF o
<1>2. \A i \in 1 .. Len(o) : IsData(o, i) => i \in 1 .. Len(out) /\ o[i] = out[i] /\ IsData(out, i)
  BY <1>1 DEF IsData
<1>3. \A i \in 1 .. Len(out) : i \in 1 .. Len(o) /\ o[i] = out[i] /\ (IsData(out, i) => IsData(o, i))
  BY <1>1 DEF IsData
<1>4. \A i \in 1 .. Len(o) : IsData(o, i) => WellFormed(o[i].segment)
  BY <1>2 DEF Chain
<1>5. ASSUME NEW i \in 1 .. Len(o), NEW j \in 1 .. Len(o), IsData(o, i), IsData(o, j), i < j,
             \A n \in 1 .. Len(o) : i < n /\ n < j => ~IsData(o, n)
      PROVE  After(o[i].segment) = Before(o[j].segment)
  <2>1. \A n \in 1 .. Len(out) : i < n /\ n < j => ~IsData(out, n)
    BY <1>3, <1>5
  <2> QED
    BY <1>2, <1>5, <2>1 DEF Chain
<1>6. ASSUME NEW i \in 1 .. Len(o), IsData(o, i), \A n \in 1 .. Len(o) : n < i => ~IsData(o, n)
      PROVE  from = Before(o[i].segment)
  <2>1. \A n \in 1 .. Len(out) : n < i => ~IsData(out, n)
    BY <1>3, <1>6
  <2> QED
    BY <1>2, <1>6, <2>1 DEF Chain
<1>7. ASSUME NEW i \in 1 .. Len(o), IsData(o, i), \A n \in 1 .. Len(o) : i < n => ~IsData(o, n)
      PROVE  After(o[i].segment) = to
  <2>1. \A n \in 1 .. Len(out) : i < n => ~IsData(out, n)
    BY <1>3, <1>7
  <2> QED
    BY <1>2, <1>7, <2>1 DEF Chain
<1>8. ASSUME \A n \in 1 .. Len(o) : ~IsData(o, n)
      PROVE  from = to
  <2>1. \A n \in 1 .. Len(out) : ~IsData(out, n)
    BY <1>3, <1>8
  <2> QED
    BY <2>1 DEF Chain
<1> QED
  BY <1>4, <1>5, <1>6, <1>7, <1>8 DEF Chain, o

\* A segment is sent where the stream ends.
LEMMA ChainAppendData ==
    ASSUME NEW out \in Seq(Packets), NEW k \in Packets, NEW from, NEW to,
           Chain(out, from, to), k.segment # NoSegment,
           WellFormed(k.segment), Before(k.segment) = to
    PROVE  Chain(Append(out, k), from, After(k.segment))
<1> DEFINE o == Append(out, k)
           m == Len(out) + 1
<1>1. /\ Len(o) = m /\ Len(out) \in Nat /\ o[m] = k
      /\ \A i \in 1 .. Len(out) : o[i] = out[i]
  BY AppendFacts
<1> HIDE DEF o
<1>2. \A i \in 1 .. Len(o) : i = m \/ (i \in 1 .. Len(out) /\ i < m)
  BY <1>1
<1>3. \A i \in 1 .. Len(out) : i \in 1 .. Len(o) /\ o[i] = out[i] /\ (IsData(out, i) <=> IsData(o, i))
  BY <1>1 DEF IsData
<1>4. m \in 1 .. Len(o) /\ IsData(o, m) /\ m \in Nat
  BY <1>1 DEF IsData
<1> HIDE DEF m
<1>5. \A i \in 1 .. Len(o) : IsData(o, i) => WellFormed(o[i].segment)
  BY <1>1, <1>2, <1>3 DEF Chain
<1>6. ASSUME NEW i \in 1 .. Len(o), NEW j \in 1 .. Len(o), IsData(o, i), IsData(o, j), i < j,
             \A n \in 1 .. Len(o) : i < n /\ n < j => ~IsData(o, n)
      PROVE  After(o[i].segment) = Before(o[j].segment)
  <2>1. i \in 1 .. Len(out) /\ o[i] = out[i] /\ IsData(out, i)
    <3>1. i # m
      BY <1>2, <1>4, <1>6
    <3> QED
      BY <3>1, <1>2, <1>3, <1>6
  <2>2. CASE j = m
    <3>1. \A n \in 1 .. Len(out) : i < n => ~IsData(out, n)
      <4>1. \A n \in 1 .. Len(out) : n < m /\ n \in 1 .. Len(o)
        BY <1>1, <1>3 DEF m
      <4> QED
        BY <4>1, <2>2, <1>3, <1>6
    <3>2. After(out[i].segment) = to
      BY <2>1, <3>1 DEF Chain
    <3> QED
      BY <2>1, <2>2, <3>2, <1>1
  <2>3. CASE j \in 1 .. Len(out)
    <3>1. \A n \in 1 .. Len(out) : i < n /\ n < j => ~IsData(out, n)
      BY <1>3, <1>6
    <3>2. IsData(out, j) /\ o[j] = out[j]
      BY <2>3, <1>3, <1>6
    <3> QED
      BY <2>1, <2>3, <3>1, <3>2, <1>6 DEF Chain
  <2> QED
    BY <2>2, <2>3, <1>2
<1>7. ASSUME NEW i \in 1 .. Len(o), IsData(o, i), \A n \in 1 .. Len(o) : n < i => ~IsData(o, n)
      PROVE  from = Before(o[i].segment)
  <2>1. CASE i = m
    <3>1. \A n \in 1 .. Len(out) : ~IsData(out, n)
      <4>1. \A n \in 1 .. Len(out) : n < m /\ n \in 1 .. Len(o)
        BY <1>1, <1>3 DEF m
      <4> QED
        BY <4>1, <2>1, <1>3, <1>7
    <3> QED
      BY <2>1, <3>1, <1>1 DEF Chain
  <2>2. CASE i \in 1 .. Len(out)
    <3>1. \A n \in 1 .. Len(out) : n < i => ~IsData(out, n)
      BY <1>3, <1>7
    <3>2. IsData(out, i) /\ o[i] = out[i]
      BY <2>2, <1>3, <1>7
    <3> QED
      BY <2>2, <3>1, <3>2 DEF Chain
  <2> QED
    BY <2>1, <2>2, <1>2
<1>8. ASSUME NEW i \in 1 .. Len(o), IsData(o, i), \A n \in 1 .. Len(o) : i < n => ~IsData(o, n)
      PROVE  After(o[i].segment) = After(k.segment)
  <2>1. i = m
    BY <1>2, <1>4, <1>8
  <2> QED
    BY <2>1, <1>1
<1>9. ~(\A n \in 1 .. Len(o) : ~IsData(o, n))
  BY <1>4
<1> QED
  BY <1>5, <1>6, <1>7, <1>8, <1>9 DEF Chain, o

\* An acknowledgement without data that arrives leaves the stream of segments as it is.
LEMMA ChainTailAck ==
    ASSUME NEW out \in Seq(Packets), NEW from, NEW to,
           Chain(out, from, to), out # <<>>, Head(out).segment = NoSegment
    PROVE  Chain(Tail(out), from, to)
<1> DEFINE o == Tail(out)
<1>1. /\ Len(o) = Len(out) - 1 /\ Len(out) \in Nat /\ Len(out) > 0 /\ Head(out) = out[1]
      /\ \A i \in 1 .. Len(o) : o[i] = out[i + 1]
  BY TailFacts
<1> HIDE DEF o
<1>2. \A i \in 1 .. Len(o) : /\ i + 1 \in 1 .. Len(out) /\ o[i] = out[i + 1]
                             /\ (IsData(o, i) <=> IsData(out, i + 1))
  BY <1>1 DEF IsData
<1>3. \A n \in 1 .. Len(out) : IsData(out, n) => n - 1 \in 1 .. Len(o) /\ IsData(o, n - 1)
  BY <1>1 DEF IsData
<1>4. \A i \in 1 .. Len(o) : IsData(o, i) => WellFormed(o[i].segment)
  BY <1>2 DEF Chain
<1>5. ASSUME NEW i \in 1 .. Len(o), NEW j \in 1 .. Len(o), IsData(o, i), IsData(o, j), i < j,
             \A n \in 1 .. Len(o) : i < n /\ n < j => ~IsData(o, n)
      PROVE  After(o[i].segment) = Before(o[j].segment)
  <2>1. \A n \in 1 .. Len(out) : i + 1 < n /\ n < j + 1 => ~IsData(out, n)
    BY <1>3, <1>5
  <2> QED
    BY <1>2, <1>5, <2>1 DEF Chain
<1>6. ASSUME NEW i \in 1 .. Len(o), IsData(o, i), \A n \in 1 .. Len(o) : n < i => ~IsData(o, n)
      PROVE  from = Before(o[i].segment)
  <2>1. \A n \in 1 .. Len(out) : n < i + 1 => ~IsData(out, n)
    BY <1>3, <1>6
  <2> QED
    BY <1>2, <1>6, <2>1 DEF Chain
<1>7. ASSUME NEW i \in 1 .. Len(o), IsData(o, i), \A n \in 1 .. Len(o) : i < n => ~IsData(o, n)
      PROVE  After(o[i].segment) = to
  <2>1. \A n \in 1 .. Len(out) : i + 1 < n => ~IsData(out, n)
    BY <1>3, <1>7
  <2> QED
    BY <1>2, <1>7, <2>1 DEF Chain
<1>8. ASSUME \A n \in 1 .. Len(o) : ~IsData(o, n)
      PROVE  from = to
  <2>1. \A n \in 1 .. Len(out) : ~IsData(out, n)
    BY <1>3, <1>8
  <2> QED
    BY <2>1 DEF Chain
<1> QED
  BY <1>4, <1>5, <1>6, <1>7, <1>8 DEF Chain, o

\* A segment that arrives begins where the receiver is, and moves it to its end.
LEMMA ChainTailData ==
    ASSUME NEW out \in Seq(Packets), NEW from, NEW to,
           Chain(out, from, to), out # <<>>, Head(out).segment # NoSegment
    PROVE  /\ from = Before(Head(out).segment) /\ WellFormed(Head(out).segment)
           /\ Chain(Tail(out), After(Head(out).segment), to)
<1> DEFINE o == Tail(out)
<1>1. /\ Len(o) = Len(out) - 1 /\ Len(out) \in Nat /\ Len(out) > 0 /\ Head(out) = out[1]
      /\ \A i \in 1 .. Len(o) : o[i] = out[i + 1]
  BY TailFacts
<1> HIDE DEF o
<1>2. \A i \in 1 .. Len(o) : /\ i + 1 \in 1 .. Len(out) /\ o[i] = out[i + 1]
                             /\ (IsData(o, i) <=> IsData(out, i + 1))
  BY <1>1 DEF IsData
<1>3. \A n \in 1 .. Len(out) : n > 1 => n - 1 \in 1 .. Len(o) /\ (IsData(out, n) => IsData(o, n - 1))
  BY <1>1 DEF IsData
<1>4. 1 \in 1 .. Len(out) /\ IsData(out, 1) /\ \A n \in 1 .. Len(out) : ~(n < 1)
  BY <1>1 DEF IsData
<1>5. from = Before(out[1].segment) /\ WellFormed(out[1].segment)
  BY <1>4 DEF Chain
<1>6. \A i \in 1 .. Len(o) : IsData(o, i) => WellFormed(o[i].segment)
  BY <1>2 DEF Chain
<1>7. ASSUME NEW i \in 1 .. Len(o), NEW j \in 1 .. Len(o), IsData(o, i), IsData(o, j), i < j,
             \A n \in 1 .. Len(o) : i < n /\ n < j => ~IsData(o, n)
      PROVE  After(o[i].segment) = Before(o[j].segment)
  <2>1. \A n \in 1 .. Len(out) : i + 1 < n /\ n < j + 1 => ~IsData(out, n)
    BY <1>3, <1>7
  <2> QED
    BY <1>2, <1>7, <2>1 DEF Chain
<1>8. ASSUME NEW i \in 1 .. Len(o), IsData(o, i), \A n \in 1 .. Len(o) : n < i => ~IsData(o, n)
      PROVE  After(out[1].segment) = Before(o[i].segment)
  <2>1. \A n \in 1 .. Len(out) : 1 < n /\ n < i + 1 => ~IsData(out, n)
    BY <1>3, <1>8
  <2>2. 1 < i + 1
    OBVIOUS
  <2> QED
    BY <1>2, <1>4, <1>8, <2>1, <2>2 DEF Chain
<1>9. ASSUME NEW i \in 1 .. Len(o), IsData(o, i), \A n \in 1 .. Len(o) : i < n => ~IsData(o, n)
      PROVE  After(o[i].segment) = to
  <2>1. \A n \in 1 .. Len(out) : i + 1 < n => ~IsData(out, n)
    BY <1>3, <1>9
  <2> QED
    BY <1>2, <1>9, <2>1 DEF Chain
<1>10. ASSUME \A n \in 1 .. Len(o) : ~IsData(o, n)
       PROVE  After(out[1].segment) = to
  <2>1. \A n \in 1 .. Len(out) : 1 < n => ~IsData(out, n)
    BY <1>3, <1>10
  <2> QED
    BY <2>1, <1>4 DEF Chain
<1>11. Chain(o, After(out[1].segment), to)
  BY <1>6, <1>7, <1>8, <1>9, <1>10 DEF Chain
<1> QED
  BY <1>1, <1>5, <1>11 DEF o
-----------------------------------------------------------------------------
(***************************************************************************)
(* Sending.  A handler s without a write under way sends at most one       *)
(* packet and becomes z.                                                   *)
(***************************************************************************)

AwaitedBy == {"handler", "handlerEnd", "other"}

\* What the windows and the segments depend on is the same in s and z.
Kept(s, z) ==
    /\ z.seq = s.seq /\ z.prevIncomingAck = s.prevIncomingAck
    /\ z.prevIncoming = s.prevIncoming /\ z.prevAcked = s.prevAcked
    /\ z.queue = s.queue /\ z.partial = s.partial

SentBy(s, z, k) ==
    /\ SendsPacket(s, z, k)
    /\ z.partial = s.partial /\ z.sendInProgress
    /\ \E w \in Writes : z.writes = {w} /\ w.packet = k /\ ~w.onWire
    /\ k.segment = NoSegment => z.queue = s.queue
    /\ k.segment # NoSegment =>
          /\ s.queue # <<>> /\ k.segment = [s.queue[1] EXCEPT !.index = @ + 1]
          /\ z.queue = [s.queue EXCEPT ![1] = k.segment]

Result(s, z) ==
    /\ z \in Handlers
    /\ (Kept(s, z) /\ z.writes = {} /\ ~z.sendInProgress) \/ \E k \in Packets : SentBy(s, z, k)

\* No number is NoAck.
LEMMA NumbersAreNoNoAck ==
    NoAck \notin Numbers
  BY SpaceAssumption DEF NoAck, Numbers, Unset

\* No segment at all is a segment.
LEMMA NoSegmentType ==
    NoSegment \in Segments
  BY DEF NoSegment, Segments

\* What starting a write does.
LEMMA StartWriteFacts ==
    ASSUME NEW s \in Handlers, s.writes = {}, NEW ack \in Numbers \cup {NoAck},
           NEW segment \in Segments, NEW caller \in AwaitedBy,
           NEW z, z = StartWrite(s, ack, segment, caller)
    PROVE  /\ z \in Handlers
           /\ z.seq = (s.seq + 1) % SequenceSpace
           /\ z.prevIncomingAck = s.prevIncomingAck /\ z.prevIncoming = s.prevIncoming
           /\ z.prevAcked = IF ack = NoAck THEN s.prevAcked ELSE ack
           /\ z.partial = s.partial /\ z.queue = s.queue /\ z.sendInProgress
           /\ \E w \in Writes : /\ z.writes = {w} /\ ~w.onWire /\ w.packet \in Packets
                                /\ w.packet.seq = z.seq /\ w.packet.ack = ack
                                /\ w.packet.segment = segment
<1> DEFINE q == (s.seq + 1) % SequenceSpace
           k == [seq |-> q, ack |-> ack, segment |-> segment]
           w == [packet |-> k, undo |-> s.prevAcked, onWire |-> FALSE, caller |-> caller]
           e == IF ack = NoAck THEN s.prevAcked ELSE ack
<1>1. s.seq \in Numbers /\ s.prevAcked \in Numbers
  BY HandlerFacts
<1>2. q \in 0 .. SequenceSpace - 1
  BY <1>1, Successor
<1>3. q \in Numbers
  BY <1>2, SpaceAssumption DEF Numbers, Unset
<1>4. e \in Numbers
  BY <1>1
<1>5. z = [s EXCEPT !.seq = q, !.prevAcked = e, !.sendInProgress = TRUE, !.writes = {w}]
  BY DEF StartWrite, NewWrite, GetNextSequenceNumber
<1> HIDE DEF q, e
<1>6. k \in Packets
  BY <1>2 DEF Packets
<1>7. k.seq = q /\ k.ack = ack /\ k.segment = segment
  OBVIOUS
<1> HIDE DEF k
<1>8. w \in Writes
  BY <1>1, <1>6 DEF Writes, AwaitedBy
<1>9. w.packet = k /\ ~w.onWire
  OBVIOUS
<1> HIDE DEF w
<1>10. z \in Handlers
  <2> DEFINE ws == {w}
  <2>1. ws \in SUBSET Writes
    BY <1>8
  <2>2. z = [s EXCEPT !.seq = q, !.prevAcked = e, !.sendInProgress = TRUE, !.writes = ws]
    BY <1>5
  <2> HIDE DEF ws
  <2> QED
    BY <1>3, <1>4, <2>1, <2>2 DEF Handlers
<1>11. /\ z.seq = q /\ z.prevIncomingAck = s.prevIncomingAck /\ z.prevIncoming = s.prevIncoming
       /\ z.prevAcked = e /\ z.partial = s.partial /\ z.queue = s.queue /\ z.sendInProgress
       /\ z.writes = {w}
  BY <1>5 DEF Handlers
<1>12. \E v \in Writes : /\ z.writes = {v} /\ ~v.onWire /\ v.packet \in Packets
                         /\ v.packet.seq = z.seq /\ v.packet.ack = ack
                         /\ v.packet.segment = segment
  <2>1. w.packet.seq = z.seq /\ w.packet.ack = ack /\ w.packet.segment = segment
    BY <1>7, <1>9, <1>11
  <2> QED
    BY <1>6, <1>8, <1>9, <1>11, <2>1
<1> QED
  BY <1>10, <1>11, <1>12 DEF q, e

\* sendStandaloneAck
LEMMA AckResult ==
    ASSUME NEW s \in Handlers, s.writes = {}, ~s.sendInProgress, NEW caller \in AwaitedBy
    PROVE  Result(s, SendStandaloneAck(s, caller))
<1> DEFINE z == SendStandaloneAck(s, caller)
<1>1. CASE ~HasAckNumber(s) \/ ~CanSend(s, TRUE)
  <2>1. z = s
    BY <1>1 DEF SendStandaloneAck
  <2> QED
    BY <2>1 DEF Result, Kept
<1>2. CASE HasAckNumber(s) /\ CanSend(s, TRUE)
  <2>1. z = StartWrite(s, s.prevIncoming, NoSegment, caller)
    BY <1>2 DEF SendStandaloneAck
  <2>2. s.prevIncoming \in Numbers /\ s.prevIncoming # NoAck
    BY HandlerFacts, NumbersAreNoNoAck
  <2> HIDE DEF z
  <2>3. /\ z \in Handlers
        /\ z.seq = (s.seq + 1) % SequenceSpace
        /\ z.prevIncomingAck = s.prevIncomingAck /\ z.prevIncoming = s.prevIncoming
        /\ z.prevAcked = s.prevIncoming
        /\ z.partial = s.partial /\ z.queue = s.queue /\ z.sendInProgress
    BY <2>1, <2>2, StartWriteFacts, NoSegmentType
  <2>4. PICK w \in Writes : /\ z.writes = {w} /\ ~w.onWire /\ w.packet \in Packets
                            /\ w.packet.seq = z.seq /\ w.packet.ack = s.prevIncoming
                            /\ w.packet.segment = NoSegment
    BY <2>1, <2>2, StartWriteFacts, NoSegmentType
  <2>5. RemoteWindowFreeSlots(s) > 0
    BY <1>2 DEF CanSend
  <2>6. SendsPacket(s, z, w.packet)
    BY <1>2, <2>2, <2>3, <2>4, <2>5 DEF SendsPacket
  <2>7. SentBy(s, z, w.packet)
    BY <2>3, <2>4, <2>6 DEF SentBy
  <2> QED
    BY <2>3, <2>4, <2>7 DEF Result, z
<1> QED
  BY <1>1, <1>2

\* One round of processSendQueue, with or without sendInProgress.
LEMMA RoundResult ==
    ASSUME NEW s \in Handlers, s.writes = {}, NEW caller \in AwaitedBy
    PROVE  Result(s, SendRound(s, caller))
<1> DEFINE z == SendRound(s, caller)
           idle == [s EXCEPT !.sendInProgress = FALSE]
<1>1. CASE ~(s.queue # <<>> /\ CanSend(s, HasAckNumber(s)))
  <2>1. z = SendStandaloneAck(idle, caller)
    BY <1>1 DEF SendRound
  <2>2. idle \in Handlers /\ idle.writes = {} /\ ~idle.sendInProgress
    BY DEF Handlers
  <2>3. /\ idle.seq = s.seq /\ idle.prevIncomingAck = s.prevIncomingAck
        /\ idle.prevIncoming = s.prevIncoming /\ idle.prevAcked = s.prevAcked
        /\ idle.queue = s.queue /\ idle.partial = s.partial
    BY DEF Handlers
  <2> HIDE DEF idle, z
  <2>4. Result(idle, z)
    BY <2>1, <2>2, AckResult
  <2>5. Kept(idle, z) => Kept(s, z)
    BY <2>3 DEF Kept
  <2>6. \A k \in Packets : SentBy(idle, z, k) => SentBy(s, z, k)
    <3>1. \A k \in Packets : SendsPacket(idle, z, k) => SendsPacket(s, z, k)
      BY <2>3 DEF SendsPacket, HasAckNumber, RemoteWindowFreeSlots, Outstanding
    <3> QED
      BY <3>1, <2>3 DEF SentBy
  <2> QED
    BY <2>4, <2>5, <2>6 DEF Result, z
<1>2. CASE s.queue # <<>> /\ CanSend(s, HasAckNumber(s))
  <2> DEFINE hasAck == HasAckNumber(s)
             g == [Head(s.queue) EXCEPT !.index = @ + 1]
             busy == [s EXCEPT !.sendAckTimer = @ /\ ~hasAck, !.queue[1] = g]
             ack == IF hasAck THEN s.prevIncoming ELSE NoAck
  <2>1. z = StartWrite(busy, ack, g, caller)
    BY <1>2 DEF SendRound
  <2>2. s.queue \in Seq(Segments) /\ s.queue # <<>>
    BY <1>2, HandlerFacts
  <2>3. s.queue[1] \in Segments /\ Head(s.queue) = s.queue[1]
    BY <2>2
  <2>4. g \in Segments /\ g = [s.queue[1] EXCEPT !.index = @ + 1]
    BY <2>3 DEF Segments
  <2>5. g # NoSegment
    <3>1. g.index = s.queue[1].index + 1 /\ s.queue[1].index \in Nat
      BY <2>3 DEF Segments
    <3> QED
      BY <3>1 DEF NoSegment
  <2> HIDE DEF g
  <2>6. [s.queue EXCEPT ![1] = g] \in Seq(Segments)
    BY <2>2, <2>4
  <2>7. busy \in Handlers
    <3>1. (s.sendAckTimer /\ ~hasAck) \in BOOLEAN
      OBVIOUS
    <3> QED
      BY <2>6, <3>1 DEF Handlers
  <2>8. /\ busy.seq = s.seq /\ busy.prevIncomingAck = s.prevIncomingAck
        /\ busy.prevIncoming = s.prevIncoming /\ busy.prevAcked = s.prevAcked
        /\ busy.queue = [s.queue EXCEPT ![1] = g] /\ busy.partial = s.partial
        /\ busy.writes = {}
    BY DEF Handlers
  <2> HIDE DEF busy, z
  <2>9. s.prevIncoming \in Numbers /\ s.prevIncoming # NoAck
    BY HandlerFacts, NumbersAreNoNoAck
  <2>10. ack \in Numbers \cup {NoAck} /\ (ack = NoAck <=> ~hasAck) /\ (hasAck => ack = s.prevIncoming)
    BY <2>9
  <2> HIDE DEF ack
  <2>11. /\ z \in Handlers
         /\ z.seq = (s.seq + 1) % SequenceSpace
         /\ z.prevIncomingAck = s.prevIncomingAck /\ z.prevIncoming = s.prevIncoming
         /\ z.prevAcked = IF ack = NoAck THEN s.prevAcked ELSE ack
         /\ z.partial = s.partial /\ z.queue = [s.queue EXCEPT ![1] = g] /\ z.sendInProgress
    BY <2>1, <2>4, <2>7, <2>8, <2>10, StartWriteFacts
  <2>12. PICK w \in Writes : /\ z.writes = {w} /\ ~w.onWire /\ w.packet \in Packets
                             /\ w.packet.seq = z.seq /\ w.packet.ack = ack
                             /\ w.packet.segment = g
    BY <2>1, <2>4, <2>7, <2>8, <2>10, StartWriteFacts, SMTT(30)
  <2>13. /\ hasAck => RemoteWindowFreeSlots(s) > 0
         /\ ~hasAck => RemoteWindowFreeSlots(s) > NoAckThreshold
    BY <1>2 DEF CanSend
  <2>14. SendsPacket(s, z, w.packet)
    BY <2>10, <2>11, <2>12, <2>13 DEF SendsPacket
  <2>15. SentBy(s, z, w.packet)
    BY <2>2, <2>4, <2>5, <2>11, <2>12, <2>14 DEF SentBy
  <2> QED
    BY <2>11, <2>12, <2>15 DEF Result, z
<1> QED
  BY <1>1, <1>2

\* processSendQueue leaves a handler alone whose write is under way ...
LEMMA ProcessWaits ==
    ASSUME NEW s, NEW caller, s.sendInProgress
    PROVE  ProcessSendQueue(s, caller) = s
  BY DEF ProcessSendQueue, SendImmediateAckIfWindowLow

\* ... and else sends at most one packet.
LEMMA ProcessResult ==
    ASSUME NEW s \in Handlers, s.writes = {}, ~s.sendInProgress, NEW caller \in AwaitedBy
    PROVE  Result(s, ProcessSendQueue(s, caller))
<1> DEFINE z == ProcessSendQueue(s, caller)
<1>1. Result(s, s)
  BY DEF Result, Kept
<1>2. "handlerEnd" \in AwaitedBy
  BY DEF AwaitedBy
<1>3. CASE s.queue # <<>>
  BY <1>3, RoundResult DEF ProcessSendQueue
<1>4. CASE s.queue = <<>>
  <2>1. z = s \/ z = SendStandaloneAck(s, "handlerEnd")
    BY <1>4 DEF ProcessSendQueue, SendImmediateAckIfWindowLow
  <2>2. Result(s, SendStandaloneAck(s, "handlerEnd"))
    BY <1>2, AckResult
  <2> QED
    BY <1>1, <2>1, <2>2
<1> QED
  BY <1>3, <1>4
-----------------------------------------------------------------------------
(***************************************************************************)
(* A handler sends.                                                        *)
(***************************************************************************)

\* The message that is being sent, in a handler without a write under way.
LEMMA FirstQueued ==
    ASSUME NEW s \in Handlers, NEW n, Queued(s, n), s.writes = {}, s.queue # <<>>
    PROVE  /\ s.queue[1] \in Segments /\ s.queue[1].msg = n - Len(s.queue) + 1
           /\ s.queue[1].len \in Lengths /\ s.queue[1].len \in Nat \ {0}
           /\ s.queue[1].index \in Nat /\ s.queue[1].index < s.queue[1].len
           /\ n \in Nat /\ Len(s.queue) \in Nat /\ Len(s.queue) >= 1 /\ Len(s.queue) <= n
<1>1. s.queue \in Seq(Segments)
  BY HandlerFacts
<1>2. 1 \in 1 .. Len(s.queue) /\ Len(s.queue) \in Nat /\ Len(s.queue) >= 1
  BY <1>1
<1>3. /\ s.queue[1].msg = n - Len(s.queue) + 1
      /\ s.queue[1].len \in Lengths /\ s.queue[1].index \in 0 .. s.queue[1].len
      /\ s.queue[1].index # s.queue[1].len
      /\ n \in Nat /\ Len(s.queue) <= n
  BY <1>2 DEF Queued
<1>4. s.queue[1].len \in Nat \ {0}
  BY <1>3, LengthsAssumption
<1> QED
  BY <1>1, <1>2, <1>3, <1>4

\* The segment that follows in the first message: it begins where the handler is.
LEMMA NextSegment ==
    ASSUME NEW s \in Handlers, NEW n, Queued(s, n), s.writes = {}, s.queue # <<>>,
           NEW g, g = [s.queue[1] EXCEPT !.index = @ + 1],
           NEW z, z.queue = [s.queue EXCEPT ![1] = g]
    PROVE  /\ WellFormed(g) /\ Before(g) = SentTo(s, n) /\ After(g) = SentTo(z, n)
           /\ Len(z.queue) = Len(s.queue) /\ z.queue # <<>> /\ z.queue[1] = g
           /\ \A i \in 2 .. Len(s.queue) : z.queue[i] = s.queue[i]
           /\ g.msg = s.queue[1].msg /\ g.len = s.queue[1].len /\ g.index = s.queue[1].index + 1
<1> DEFINE m == s.queue[1]
<1>1. /\ m \in Segments /\ m.msg = n - Len(s.queue) + 1
      /\ m.len \in Lengths /\ m.len \in Nat \ {0} /\ m.index \in Nat /\ m.index < m.len
      /\ n \in Nat /\ Len(s.queue) \in Nat /\ Len(s.queue) >= 1 /\ Len(s.queue) <= n
  BY FirstQueued
<1>2. g.msg = m.msg /\ g.len = m.len /\ g.index = m.index + 1
  BY <1>1 DEF Segments
<1>3. /\ Len(z.queue) = Len(s.queue) /\ z.queue # <<>> /\ z.queue[1] = g
      /\ \A i \in 2 .. Len(s.queue) : z.queue[i] = s.queue[i]
  <2>1. s.queue \in Seq(Segments)
    BY HandlerFacts
  <2> QED
    BY <1>1, <2>1
<1> HIDE DEF m
<1>4. WellFormed(g)
  <2>1. m.msg > 0 /\ m.index + 1 \in 1 .. m.len
    BY <1>1
  <2> QED
    BY <1>1, <1>2, <2>1, Zenon DEF WellFormed
<1>5. Before(g) = Position(n - Len(s.queue), m.index, m.len)
  <2>1. m.msg - 1 = n - Len(s.queue)
    BY <1>1
  <2>2. (m.index + 1) - 1 = m.index
    BY <1>1
  <2>3. g.msg - 1 = n - Len(s.queue) /\ g.index - 1 = m.index
    BY <1>2, <2>1, <2>2, Zenon
  <2> QED
    BY <1>2, <2>3 DEF Before
<1>6. SentTo(s, n) = Position(n - Len(s.queue), m.index, m.len)
  <2>1. CASE m.index > 0
    <3>1. SentTo(s, n) = After(m)
      BY <2>1 DEF SentTo, m
    <3>2. m.msg - 1 = n - Len(s.queue)
      BY <1>1
    <3>3. m.index # m.len
      BY <1>1
    <3> QED
      BY <3>1, <3>2, <3>3 DEF After
  <2>2. CASE m.index = 0
    <3>1. SentTo(s, n) = Position(n - Len(s.queue), 0, 0)
      BY <2>2 DEF SentTo, m
    <3> QED
      BY <3>1, <2>2 DEF Position
  <2> QED
    BY <1>1, <2>1, <2>2
<1>7. After(g) = SentTo(z, n)
  <2>1. g.index > 0
    BY <1>1, <1>2
  <2> QED
    BY <1>3, <2>1 DEF SentTo
<1> QED
  BY <1>2, <1>3, <1>4, <1>5, <1>6, <1>7 DEF m

\* A handler that has sent has one write under way, and its queue is in order.
LEMMA SentShape ==
    ASSUME NEW s \in Handlers, NEW z \in Handlers, NEW n, NEW k \in Packets,
           Queued(s, n), s.writes = {}, SentBy(s, z, k)
    PROVE  Shape(z, n)
<1>1. PICK w \in Writes : z.writes = {w} /\ w.packet = k
  BY DEF SentBy
<1>2. OneWriter(z)
  BY <1>1 DEF SentBy, OneWriter
<1>3. s.queue \in Seq(Segments)
  BY HandlerFacts
<1>4. CASE k.segment = NoSegment
  <2>1. z.queue = s.queue
    BY <1>4 DEF SentBy
  <2>2. s.queue # <<>> => s.queue[1].index < s.queue[1].len
    BY FirstQueued
  <2> QED
    BY <1>1, <1>2, <1>4, <2>1, <2>2 DEF Shape, Queued
<1>5. CASE k.segment # NoSegment
  <2> DEFINE g == k.segment
  <2>1. /\ s.queue # <<>> /\ g = [s.queue[1] EXCEPT !.index = @ + 1]
        /\ z.queue = [s.queue EXCEPT ![1] = g]
    BY <1>5 DEF SentBy
  <2>2. /\ WellFormed(g) /\ Len(z.queue) = Len(s.queue) /\ z.queue # <<>> /\ z.queue[1] = g
        /\ \A i \in 2 .. Len(s.queue) : z.queue[i] = s.queue[i]
        /\ g.msg = s.queue[1].msg
    BY <2>1, NextSegment
  <2>3. /\ s.queue[1].msg = n - Len(s.queue) + 1 /\ n \in Nat /\ Len(s.queue) \in Nat
        /\ Len(s.queue) <= n
    BY <2>1, FirstQueued
  <2> HIDE DEF g
  <2>4. ASSUME NEW i \in 1 .. Len(z.queue)
        PROVE  /\ z.queue[i].msg = n - Len(z.queue) + i
               /\ z.queue[i].len \in Lengths /\ z.queue[i].index \in 0 .. z.queue[i].len
               /\ i > 1 => z.queue[i].index = 0
    <3>1. CASE i = 1
      <4>1. g.index \in 0 .. g.len
        BY <2>2 DEF WellFormed
      <4> QED
        BY <2>2, <2>3, <3>1, <4>1 DEF WellFormed
    <3>2. CASE i \in 2 .. Len(s.queue)
      <4>1. z.queue[i] = s.queue[i] /\ i \in 1 .. Len(s.queue)
        BY <2>2, <3>2
      <4> QED
        BY <2>2, <4>1 DEF Queued
    <3> QED
      BY <2>2, <2>3, <3>1, <3>2
  <2>5. z.writes # {}
    BY <1>1
  <2>6. \A v \in z.writes : v.packet.segment = g /\ g # NoSegment
    BY <1>1, <1>5 DEF g
  <2>7. Queued(z, n)
    BY <2>2, <2>3, <2>4, <2>5, <2>6 DEF Queued
  <2> QED
    BY <1>2, <2>7 DEF Shape
<1> QED
  BY <1>4, <1>5

\* Sending keeps the direction in which the packet goes ...
LEMMA SentWay ==
    ASSUME NEW a \in Handlers, NEW b \in Handlers, NEW z \in Handlers, NEW k \in Packets,
           NEW out \in Seq(Packets), NEW back \in Seq(Packets), NEW n, NEW d,
           Way(a, b, out, back, n, d), Queued(a, n), a.writes = {}, SentBy(a, z, k)
    PROVE  /\ Way(z, b, Append(out, k), back, n, d)
           /\ Full(z) => k.ack # NoAck
<1>1. SendsPacket(a, z, k)
  BY DEF SentBy
<1>2. Window(z, b, Append(out, k), back) /\ (Full(z) => k.ack # NoAck)
  BY <1>1, SentWindow DEF Way
<1>3. Chain(out, ReceivedTo(b, d), SentTo(a, n))
  BY DEF Way
<1>4. CASE k.segment = NoSegment
  <2>1. z.queue = a.queue
    BY <1>4 DEF SentBy
  <2>2. SentTo(z, n) = SentTo(a, n)
    BY <2>1 DEF SentTo
  <2>3. Chain(Append(out, k), ReceivedTo(b, d), SentTo(z, n))
    BY <1>3, <1>4, <2>2, ChainAppendAck
  <2> QED
    BY <1>2, <2>3 DEF Way
<1>5. CASE k.segment # NoSegment
  <2>1. /\ a.queue # <<>> /\ k.segment = [a.queue[1] EXCEPT !.index = @ + 1]
        /\ z.queue = [a.queue EXCEPT ![1] = k.segment]
    BY <1>5 DEF SentBy
  <2>2. /\ WellFormed(k.segment) /\ Before(k.segment) = SentTo(a, n)
        /\ After(k.segment) = SentTo(z, n)
    BY <2>1, NextSegment
  <2>3. Chain(Append(out, k), ReceivedTo(b, d), After(k.segment))
    BY <1>3, <1>5, <2>2, ChainAppendData
  <2> QED
    BY <1>2, <2>2, <2>3 DEF Way
<1> QED
  BY <1>4, <1>5

\* ... and the one it may acknowledge.
LEMMA SentBackWay ==
    ASSUME NEW a \in Handlers, NEW b \in Handlers, NEW z \in Handlers, NEW k \in Packets,
           NEW out \in Seq(Packets), NEW back \in Seq(Packets), NEW n, NEW d,
           Way(b, a, back, out, n, d), SentBy(a, z, k)
    PROVE  Way(b, z, back, Append(out, k), n, d)
<1>1. SendsPacket(a, z, k) /\ z.partial = a.partial
  BY DEF SentBy
<1>2. Window(b, z, back, Append(out, k))
  BY <1>1, SentBackWindow DEF Way
<1>3. ReceivedTo(z, d) = ReceivedTo(a, d) /\ (Collected(a, d) => Collected(z, d))
  BY <1>1 DEF ReceivedTo, Collected
<1> QED
  BY <1>2, <1>3 DEF Way

\* What keeps the fields of a handler keeps both directions.
LEMMA KeptWay ==
    ASSUME NEW a, NEW b, NEW z, NEW out, NEW back, NEW n, NEW d, Kept(a, z)
    PROVE  /\ Way(a, b, out, back, n, d) => Way(z, b, out, back, n, d)
           /\ Way(b, a, back, out, n, d) => Way(b, z, back, out, n, d)
           /\ Full(z) <=> Full(a)
<1>1. /\ z.seq = a.seq /\ z.prevIncomingAck = a.prevIncomingAck
      /\ z.prevIncoming = a.prevIncoming /\ z.prevAcked = a.prevAcked
      /\ z.queue = a.queue /\ z.partial = a.partial
  BY DEF Kept
<1>2. Window(a, b, out, back) => Window(z, b, out, back)
  BY <1>1 DEF Window, Numbered, Accounted, Acknowledged, Outstanding
<1>3. Window(b, a, back, out) => Window(b, z, back, out)
  BY <1>1 DEF Window, Numbered, Accounted, Acknowledged, HasAckNumber
<1>4. SentTo(z, n) = SentTo(a, n) /\ ReceivedTo(z, d) = ReceivedTo(a, d)
  BY <1>1 DEF SentTo, ReceivedTo
<1>5. Collected(a, d) => Collected(z, d)
  BY <1>1 DEF Collected
<1>6. Full(z) <=> Full(a)
  BY <1>1 DEF Full, Outstanding
<1> QED
  BY <1>2, <1>3, <1>4, <1>5, <1>6 DEF Way
-----------------------------------------------------------------------------
(***************************************************************************)
(* A handler receives.                                                     *)
(***************************************************************************)

\* The payload is message i, whole and in order.
Whole(payload, i) ==
    \A j \in 1 .. Len(payload) :
        /\ Len(payload) = payload[j].len /\ payload[j].msg = i /\ payload[j].index = j

\* The numbers of a segment.
LEMMA WellFormedFacts ==
    ASSUME NEW g \in Segments, WellFormed(g)
    PROVE  /\ g.msg \in Nat /\ g.index \in Nat /\ g.len \in Nat /\ g.len \in Lengths
           /\ g.index >= 1 /\ g.index <= g.len
<1>1. g.len \in Lengths /\ g.index \in 1 .. g.len
  BY DEF WellFormed
<1>2. g.len \in Nat
  BY <1>1, LengthsAssumption
<1>3. g.msg \in Nat /\ g.index \in Nat
  BY DEF Segments
<1> QED
  BY <1>1, <1>2, <1>3

\* A segment that begins where the receiver is continues what it has collected.
LEMMA SegmentFits ==
    ASSUME NEW b \in Handlers, NEW g \in Segments, NEW d \in Nat,
           Collected(b, d), WellFormed(g), ReceivedTo(b, d) = Before(g)
    PROVE  LET payload == Append(b.partial, g) IN
           /\ g.msg = d + 1 /\ g.index = Len(b.partial) + 1
           /\ payload \in Seq(Segments) /\ payload # <<>> /\ Len(payload) = g.index
           /\ payload[1].len = g.len
           /\ \A i \in 1 .. Len(payload) :
                 payload[i].msg = d + 1 /\ payload[i].index = i /\ payload[i].len = g.len
           /\ (g.index = 1 <=> b.partial = <<>>)
<1> DEFINE payload == Append(b.partial, g)
           r == Len(b.partial)
<1>1. b.partial \in Seq(Segments)
  BY HandlerFacts
<1>2. /\ payload \in Seq(Segments) /\ Len(payload) = r + 1 /\ r \in Nat
      /\ \A i \in 1 .. r : payload[i] = b.partial[i]
      /\ payload[r + 1] = g
  BY <1>1, AppendFacts
<1>3. b.partial = <<>> <=> r = 0
  BY <1>1
<1>4. g.msg \in Nat /\ g.index \in Nat /\ g.len \in Nat /\ g.index >= 1 /\ g.index <= g.len
  BY WellFormedFacts
<1>5. Before(g) = <<g.msg - 1, g.index - 1, IF g.index - 1 = 0 THEN 0 ELSE g.len>>
  BY DEF Before, Position
<1>6. ReceivedTo(b, d) = <<d, r, IF r = 0 THEN 0 ELSE b.partial[1].len>>
  <2>1. CASE r = 0
    <3>1. ReceivedTo(b, d) = Position(d, 0, 0)
      BY <1>3, <2>1 DEF ReceivedTo
    <3> QED
      BY <2>1, <3>1 DEF Position
  <2>2. CASE r # 0
    <3>1. ReceivedTo(b, d) = Position(d, r, b.partial[1].len)
      BY <1>3, <2>2 DEF ReceivedTo
    <3> QED
      BY <2>2, <3>1 DEF Position
  <2> QED
    BY <2>1, <2>2
<1> HIDE DEF payload, r
<1>7. d = g.msg - 1 /\ r = g.index - 1
  BY <1>5, <1>6
<1>8. r # 0 => b.partial[1].len = g.len
  <2>1. (IF r = 0 THEN 0 ELSE b.partial[1].len) = (IF g.index - 1 = 0 THEN 0 ELSE g.len)
    BY <1>5, <1>6
  <2> QED
    BY <1>7, <2>1
<1>9. ASSUME NEW i \in 1 .. r
      PROVE  b.partial[i].msg = d + 1 /\ b.partial[i].index = i /\ b.partial[i].len = g.len
  <2>1. /\ b.partial[i].msg = d + 1 /\ b.partial[i].index = i
        /\ b.partial[i].len = b.partial[1].len
    BY DEF Collected, r
  <2> QED
    BY <1>2, <1>8, <2>1
<1>10. g.msg = d + 1 /\ g.index = r + 1
  BY <1>2, <1>4, <1>7
<1>11. ASSUME NEW i \in 1 .. Len(payload)
       PROVE  payload[i].msg = d + 1 /\ payload[i].index = i /\ payload[i].len = g.len
  <2>1. CASE i = r + 1
    BY <1>2, <1>10, <2>1
  <2>2. CASE i \in 1 .. r
    BY <1>2, <1>9, <2>2
  <2> QED
    BY <1>2, <2>1, <2>2
<1>12. 1 \in 1 .. Len(payload) /\ payload # <<>>
  BY <1>2
<1> QED
  BY <1>2, <1>3, <1>10, <1>11, <1>12 DEF payload, r

\* Receiving keeps the direction from which the packet comes; its number and its segment
\* are the expected ones, and a message that it completes is the next one, and whole.
LEMMA ReceivedWay ==
    ASSUME NEW a \in Handlers, NEW b \in Handlers, NEW y \in Handlers,
           NEW out \in Seq(Packets), NEW back \in Seq(Packets), NEW n, NEW d \in Nat,
           out # <<>>, Way(a, b, out, back, n, d),
           NEW h, h = Head(out),
           y.prevIncoming = h.seq, y.prevAcked = b.prevAcked,
           y.partial = IF IsEndingSegment(h) THEN <<>> ELSE Reassembled(b, h)
    PROVE  /\ SequenceExpected(b, h) /\ SegmentValid(b, h)
           /\ Way(a, y, Tail(out), back, n, IF IsEndingSegment(h) THEN d + 1 ELSE d)
           /\ Reassembled(b, h) \in Seq(Segments)
           /\ IsEndingSegment(h) => Whole(Reassembled(b, h), d + 1)
<1>1. Window(a, y, Tail(out), back) /\ SequenceExpected(b, h)
  BY ReceivedWindow DEF Way
<1>2. /\ Chain(out, ReceivedTo(b, d), SentTo(a, n)) /\ Collected(b, d)
      /\ b.partial \in Seq(Segments)
  BY HandlerFacts DEF Way
<1>3. CASE h.segment = NoSegment
  <2>1. ~IsEndingSegment(h) /\ Reassembled(b, h) = b.partial /\ SegmentValid(b, h)
    BY <1>3 DEF IsEndingSegment, Reassembled, SegmentValid
  <2>2. y.partial = b.partial
    BY <2>1
  <2>3. ReceivedTo(y, d) = ReceivedTo(b, d) /\ Collected(y, d)
    BY <1>2, <2>2 DEF ReceivedTo, Collected
  <2>4. Chain(Tail(out), ReceivedTo(y, d), SentTo(a, n))
    BY <1>2, <1>3, <2>3, ChainTailAck
  <2> QED
    BY <1>1, <1>2, <2>1, <2>3, <2>4 DEF Way
<1>4. CASE h.segment # NoSegment
  <2> DEFINE g == h.segment
             payload == Append(b.partial, g)
  <2>1. /\ ReceivedTo(b, d) = Before(g) /\ WellFormed(g)
        /\ Chain(Tail(out), After(g), SentTo(a, n))
    BY <1>2, <1>4, ChainTailData
  <2>2. g \in Segments
    <3>1. h \in Packets
      BY TailFacts
    <3> QED
      BY <3>1, PacketFacts
  <2>3. Reassembled(b, h) = payload
    BY <1>4 DEF Reassembled
  <2> HIDE DEF g
  <2>4. /\ g.msg = d + 1 /\ g.index = Len(b.partial) + 1
        /\ payload \in Seq(Segments) /\ payload # <<>> /\ Len(payload) = g.index
        /\ payload[1].len = g.len
        /\ \A i \in 1 .. Len(payload) :
              payload[i].msg = d + 1 /\ payload[i].index = i /\ payload[i].len = g.len
        /\ (g.index = 1 <=> b.partial = <<>>)
    BY <1>2, <2>1, <2>2, SegmentFits
  <2>5. g.index <= g.len /\ g.index \in Nat /\ g.len \in Nat /\ g.len \in Lengths /\ g.index >= 1
    BY <2>1, <2>2, WellFormedFacts
  <2> HIDE DEF payload
  <2>6. SegmentValid(b, h)
    <3>1. /\ Len(payload) <= payload[1].len
          /\ g.index = g.len => Len(payload) = payload[1].len
      BY <2>4, <2>5
    <3> QED
      BY <2>3, <2>4, <3>1 DEF SegmentValid, g
  <2>7. CASE g.index = g.len
    <3>1. IsEndingSegment(h)
      BY <1>4, <2>7 DEF IsEndingSegment, g
    <3>2. y.partial = <<>>
      BY <3>1
    <3>3. ReceivedTo(y, d + 1) = After(g)
      <4>1. After(g) = Position(d + 1, 0, 0)
        BY <2>4, <2>7 DEF After
      <4> QED
        BY <3>2, <4>1 DEF ReceivedTo
    <3>4. Collected(y, d + 1)
      BY <3>2 DEF Collected
    <3>5. Whole(payload, d + 1)
      BY <2>4, <2>7 DEF Whole
    <3>6. Way(a, y, Tail(out), back, n, d + 1)
      BY <1>1, <2>1, <3>3, <3>4 DEF Way
    <3> QED
      BY <1>1, <2>3, <2>4, <2>6, <3>1, <3>5, <3>6
  <2>8. CASE g.index # g.len
    <3>1. ~IsEndingSegment(h)
      BY <2>8 DEF IsEndingSegment, g
    <3>2. y.partial = payload
      BY <2>3, <3>1
    <3>3. ReceivedTo(y, d) = After(g)
      <4>1. After(g) = Position(d, g.index, g.len)
        <5>1. g.msg - 1 = d
          BY <2>4
        <5> QED
          BY <2>8, <5>1 DEF After
      <4> QED
        BY <2>4, <3>2, <4>1 DEF ReceivedTo
    <3>4. Collected(y, d)
      <4>1. Len(payload) < g.len
        BY <2>4, <2>5, <2>8
      <4> QED
        BY <2>4, <2>5, <3>2, <4>1 DEF Collected
    <3>5. Way(a, y, Tail(out), back, n, d)
      BY <1>1, <2>1, <3>3, <3>4 DEF Way
    <3> QED
      BY <1>1, <2>3, <2>4, <2>6, <3>1, <3>5
  <2> QED
    BY <2>7, <2>8
<1> QED
  BY <1>3, <1>4

\* Receiving keeps the other direction, and an acknowledgement that arrives is valid.
LEMMA ReceivedBackWay ==
    ASSUME NEW a \in Handlers, NEW b \in Handlers, NEW y \in Handlers,
           NEW out \in Seq(Packets), NEW back \in Seq(Packets), NEW n, NEW d,
           back # <<>>, Way(a, b, out, back, n, d),
           y.seq = a.seq, y.queue = a.queue,
           y.prevIncomingAck = IF Head(back).ack = NoAck THEN a.prevIncomingAck ELSE Head(back).ack
    PROVE  /\ Way(y, b, out, Tail(back), n, d)
           /\ AckValid(a, Head(back))
           /\ Full(y) => Full(a) /\ Head(back).ack = NoAck
<1>1. /\ Window(y, b, out, Tail(back)) /\ AckValid(a, Head(back))
      /\ Full(y) => Full(a) /\ Head(back).ack = NoAck
  BY ReceivedBackWindow DEF Way
<1>2. SentTo(y, n) = SentTo(a, n)
  BY DEF SentTo
<1> QED
  BY <1>1, <1>2 DEF Way
-----------------------------------------------------------------------------
(***************************************************************************)
(* Streams.                                                                *)
(***************************************************************************)

\* The stream of a handler whose packets are all on the wire.
LEMMA StreamOnWire ==
    ASSUME NEW s, NEW onWire, \A w \in s.writes : w.onWire
    PROVE  Stream(s, onWire) = onWire
  BY DEF Stream, Unsent

\* The stream of a handler that has begun to write.
LEMMA StreamUnsent ==
    ASSUME NEW s, NEW onWire, NEW w, s.writes = {w}, ~w.onWire
    PROVE  Stream(s, onWire) = Append(onWire, w.packet)
<1>1. Unsent(s) # {}
  BY DEF Unsent
<1>2. (CHOOSE v \in s.writes : TRUE) = w
  OBVIOUS
<1> QED
  BY <1>1, <1>2 DEF Stream

\* A stream is a sequence of packets, as long as what is in flight.
LEMMA StreamType ==
    ASSUME NEW s \in Handlers, OneWriter(s), NEW onWire \in Seq(Packets)
    PROVE  /\ Stream(s, onWire) \in Seq(Packets)
           /\ Len(Stream(s, onWire)) = Len(onWire) + Cardinality(Unsent(s))
           /\ \A i \in 1 .. Len(onWire) : /\ i \in 1 .. Len(Stream(s, onWire))
                                          /\ Stream(s, onWire)[i] = onWire[i]
<1>1. CASE Unsent(s) = {}
  <2>1. Stream(s, onWire) = onWire
    BY <1>1 DEF Stream
  <2>2. Cardinality(Unsent(s)) = 0
    BY <1>1, FS_EmptySet
  <2> QED
    BY <2>1, <2>2
<1>2. CASE Unsent(s) # {}
  <2>1. PICK w \in s.writes : ~w.onWire
    BY <1>2 DEF Unsent
  <2>2. s.writes = {w}
    BY DEF OneWriter
  <2>3. Stream(s, onWire) = Append(onWire, w.packet)
    BY <2>1, <2>2, StreamUnsent
  <2>4. w.packet \in Packets
    BY <2>1, HandlerFacts DEF Writes
  <2>5. Unsent(s) = {w}
    BY <2>1, <2>2 DEF Unsent
  <2>6. Cardinality({w}) = 1
    BY FS_Singleton
  <2> HIDE DEF Stream
  <2>7. /\ Append(onWire, w.packet) \in Seq(Packets)
        /\ Len(Append(onWire, w.packet)) = Len(onWire) + 1 /\ Len(onWire) \in Nat
        /\ \A i \in 1 .. Len(onWire) : Append(onWire, w.packet)[i] = onWire[i]
    BY <2>4, AppendFacts
  <2> QED
    BY <2>3, <2>5, <2>6, <2>7
<1> QED
  BY <1>1, <1>2

\* The stream depends on the writes only.
LEMMA StreamSame ==
    ASSUME NEW s, NEW z, NEW onWire, z.writes = s.writes
    PROVE  Stream(z, onWire) = Stream(s, onWire)
  BY DEF Stream, Unsent

\* Taking the head from the wire takes it from the stream.
LEMMA StreamTail ==
    ASSUME NEW s \in Handlers, OneWriter(s), NEW onWire \in Seq(Packets), onWire # <<>>
    PROVE  /\ Stream(s, onWire) # <<>> /\ Head(Stream(s, onWire)) = Head(onWire)
           /\ Stream(s, Tail(onWire)) = Tail(Stream(s, onWire))
<1>1. CASE Unsent(s) = {}
  BY <1>1 DEF Stream
<1>2. CASE Unsent(s) # {}
  <2>1. PICK w \in s.writes : ~w.onWire
    BY <1>2 DEF Unsent
  <2>2. s.writes = {w}
    BY DEF OneWriter
  <2>3. /\ Stream(s, onWire) = Append(onWire, w.packet)
        /\ Stream(s, Tail(onWire)) = Append(Tail(onWire), w.packet)
    BY <2>1, <2>2, StreamUnsent
  <2>4. w.packet \in Packets
    BY <2>1, HandlerFacts DEF Writes
  <2>5. /\ Append(onWire, w.packet) # <<>> /\ Head(Append(onWire, w.packet)) = Head(onWire)
        /\ Append(Tail(onWire), w.packet) = Tail(Append(onWire, w.packet))
    BY <2>4
  <2> QED
    BY <2>3, <2>5
<1> QED
  BY <1>1, <1>2

-----------------------------------------------------------------------------
(***************************************************************************)
(* Both directions.                                                        *)
(***************************************************************************)

\* The other peer's other is the first.
LEMMA Others ==
    ASSUME NEW p \in Peers
    PROVE  /\ Other(p) \in Peers /\ Other(p) # p /\ Other(Other(p)) = p
           /\ \A r \in Peers : r = p \/ r = Other(p)
           /\ Central \in Peers
  BY PeersAssumption DEF Peers, Other

\* It does not matter from which side one looks.
LEMMA TalkSymmetric ==
    ASSUME NEW a, NEW b, NEW out, NEW back, NEW na, NEW nb, NEW da, NEW db,
           Talk(a, b, out, back, na, nb, da, db)
    PROVE  Talk(b, a, back, out, nb, na, db, da)
  BY DEF Talk

\* Both directions are kept by what keeps a handler's numbers and how far it has sent.
LEMMA MovedTalk ==
    ASSUME NEW a, NEW b, NEW y, NEW out, NEW back, NEW n, NEW m, NEW nb, NEW da, NEW db,
           Talk(a, b, out, back, n, nb, da, db),
           y.seq = a.seq, y.prevIncomingAck = a.prevIncomingAck,
           y.prevIncoming = a.prevIncoming, y.prevAcked = a.prevAcked, y.partial = a.partial,
           SentTo(y, m) = SentTo(a, n)
    PROVE  Talk(y, b, out, back, m, nb, da, db)
<1>1. Window(a, b, out, back) /\ Window(b, a, back, out)
  BY DEF Talk, Way
<1>2. Window(y, b, out, back) /\ Window(b, y, back, out)
  BY <1>1 DEF Window, Numbered, Accounted, Acknowledged, Outstanding, HasAckNumber
<1>3. ReceivedTo(y, da) = ReceivedTo(a, da) /\ (Collected(a, da) => Collected(y, da))
  BY DEF ReceivedTo, Collected
<1>4. Full(y) <=> Full(a)
  BY DEF Full, Outstanding
<1> QED
  BY <1>2, <1>3, <1>4 DEF Talk, Way

\* A handler that may have sent keeps its shape.
LEMMA ResultShape ==
    ASSUME NEW s \in Handlers, NEW z, NEW n, Queued(s, n), s.writes = {}, Result(s, z)
    PROVE  z \in Handlers /\ Shape(z, n)
<1>1. z \in Handlers
  BY DEF Result
<1>2. CASE Kept(s, z) /\ z.writes = {} /\ ~z.sendInProgress
  <2>1. z.queue = s.queue /\ z.writes = s.writes
    BY <1>2 DEF Kept
  <2>2. Queued(z, n)
    BY <2>1 DEF Queued
  <2>3. OneWriter(z)
    BY <1>2 DEF OneWriter
  <2> QED
    BY <1>1, <2>2, <2>3 DEF Shape
<1>3. CASE \E k \in Packets : SentBy(s, z, k)
  BY <1>1, <1>3, SentShape
<1> QED
  BY <1>2, <1>3 DEF Result

\* A handler that may have sent keeps both directions.
LEMMA ResultTalk ==
    ASSUME NEW a \in Handlers, NEW b \in Handlers, NEW z \in Handlers,
           NEW onWire \in Seq(Packets), NEW back \in Seq(Packets),
           NEW na, NEW nb, NEW da, NEW db,
           Queued(a, na), a.writes = {}, Result(a, z),
           Talk(a, b, onWire, back, na, nb, da, db)
    PROVE  Talk(z, b, Stream(z, onWire), back, na, nb, da, db)
<1>1. Way(a, b, onWire, back, na, db) /\ Way(b, a, back, onWire, nb, da)
  BY DEF Talk
<1>2. CASE Kept(a, z) /\ z.writes = {} /\ ~z.sendInProgress
  <2>1. Stream(z, onWire) = onWire
    BY <1>2, StreamOnWire
  <2>2. /\ Way(z, b, onWire, back, na, db) /\ Way(b, z, back, onWire, nb, da)
        /\ Full(z) <=> Full(a)
    BY <1>1, <1>2, KeptWay
  <2> QED
    BY <2>1, <2>2 DEF Talk
<1>3. ASSUME NEW k \in Packets, SentBy(a, z, k)
      PROVE  Talk(z, b, Stream(z, onWire), back, na, nb, da, db)
  <2>1. PICK w \in Writes : z.writes = {w} /\ w.packet = k /\ ~w.onWire
    BY <1>3 DEF SentBy
  <2>2. Stream(z, onWire) = Append(onWire, k)
    BY <2>1, StreamUnsent
  <2>3. Way(z, b, Append(onWire, k), back, na, db) /\ (Full(z) => k.ack # NoAck)
    BY <1>1, <1>3, SentWay
  <2>4. Way(b, z, back, Append(onWire, k), nb, da)
    BY <1>1, <1>3, SentBackWay
  <2>5. k.ack # NoAck => CarriesAck(Append(onWire, k))
    BY AppendFacts DEF CarriesAck
  <2> QED
    BY <2>2, <2>3, <2>4, <2>5 DEF Talk
<1> QED
  BY <1>2, <1>3 DEF Result

\* processSendQueue keeps shape and directions.
LEMMA ProcessTalk ==
    ASSUME NEW a \in Handlers, NEW n, Shape(a, n), NEW caller \in AwaitedBy,
           NEW z, z = ProcessSendQueue(a, caller)
    PROVE  /\ z \in Handlers /\ Shape(z, n)
           /\ \A b \in Handlers : \A onWire, back \in Seq(Packets) : \A nb, da, db :
                 Talk(a, b, Stream(a, onWire), back, n, nb, da, db) =>
                     Talk(z, b, Stream(z, onWire), back, n, nb, da, db)
<1>1. OneWriter(a) /\ Queued(a, n)
  BY DEF Shape
<1>2. CASE a.sendInProgress
  BY <1>2, ProcessWaits
<1>3. CASE ~a.sendInProgress
  <2>1. a.writes = {}
    BY <1>1, <1>3 DEF OneWriter
  <2>2. Result(a, z)
    BY <1>3, <2>1, ProcessResult
  <2>3. z \in Handlers /\ Shape(z, n)
    BY <1>1, <2>1, <2>2, ResultShape
  <2>4. \A onWire : Stream(a, onWire) = onWire
    BY <2>1, StreamOnWire
  <2> QED
    BY <1>1, <2>1, <2>2, <2>3, <2>4, ResultTalk
<1> QED
  BY <1>2, <1>3
-----------------------------------------------------------------------------
(***************************************************************************)
(* The steps.                                                              *)
(***************************************************************************)

\* What the invariant says of either peer.
LEMMA InvFacts ==
    ASSUME Inv, NEW p \in Peers
    PROVE  /\ peer[p] \in Handlers /\ Shape(peer[p], queuedCount[p])
           /\ wire[p] \in Seq(Packets) /\ queuedCount[p] \in Nat
           /\ delivered[p] \in Seq(Seq(Segments)) /\ Len(delivered[p]) \in Nat
           /\ Out(p) \in Seq(Packets)
           /\ failures = 0 => TalkOf(p)
<1>1. /\ peer[p] \in Handlers /\ Shape(peer[p], queuedCount[p])
      /\ wire[p] \in Seq(Packets) /\ queuedCount[p] \in Nat
      /\ delivered[p] \in Seq(Seq(Segments))
  BY DEF Inv, TypeOK
<1>2. Out(p) \in Seq(Packets)
  BY <1>1, StreamType DEF Out, Shape
<1>3. ASSUME failures = 0 PROVE TalkOf(p)
  <2>1. TalkOf(Central)
    BY <1>3 DEF Inv, Sound
  <2>2. CASE p = Central
    BY <2>1, <2>2
  <2>3. CASE p # Central
    <3>1. p = Other(Central) /\ Other(p) = Central
      BY <2>3, Others
    <3>2. Talk(peer[Other(Central)], peer[Central], Out(Other(Central)), Out(Central),
               queuedCount[Other(Central)], queuedCount[Central],
               Len(delivered[Other(Central)]), Len(delivered[Central]))
      BY <2>1, TalkSymmetric DEF TalkOf
    <3> QED
      BY <3>1, <3>2 DEF TalkOf
  <2> QED
    BY <2>2, <2>3
<1>4. Len(delivered[p]) \in Nat
  BY <1>1
<1> QED
  BY <1>1, <1>2, <1>3, <1>4

\* A step of peer p that makes it z.
LEMMA StepOf ==
    ASSUME Inv, NEW p \in Peers, NEW z \in Handlers, peer' = [peer EXCEPT ![p] = z],
           wire' \in [Peers -> Seq(Packets)],
           delivered' \in [Peers -> Seq(Seq(Segments))],
           queuedCount' \in [Peers -> Nat],
           queuedCount'[Other(p)] = queuedCount[Other(p)],
           failures' = failures, session' \in {"open", "ackTimeout"},
           Shape(z, queuedCount'[p]), DeliveredInOrder',
           failures = 0 =>
               Talk(z, peer[Other(p)], Stream(z, wire'[p]), Stream(peer[Other(p)], wire'[Other(p)]),
                    queuedCount'[p], queuedCount[Other(p)],
                    Len(delivered'[p]), Len(delivered'[Other(p)]))
    PROVE  Inv'
<1> DEFINE q == Other(p)
<1>1. /\ q \in Peers /\ q # p /\ Other(q) = p /\ \A r \in Peers : r = p \/ r = q
      /\ Central \in Peers
  BY Others
<1>2. peer \in [Peers -> Handlers] /\ failures \in 0 .. MaxFailures
  BY DEF Inv, TypeOK
<1>3. peer' \in [Peers -> Handlers] /\ peer'[p] = z /\ peer'[q] = peer[q]
  BY <1>1, <1>2
<1>4. TypeOK'
  BY <1>2, <1>3 DEF TypeOK
<1>5. ASSUME NEW r \in Peers PROVE Shape(peer'[r], queuedCount'[r])
  <2>1. Shape(peer[q], queuedCount[q])
    BY <1>1, InvFacts
  <2> QED
    BY <1>1, <1>3, <2>1
<1>6. ASSUME failures' = 0 PROVE Sound'
  <2>1. Talk(peer'[p], peer'[q], Out(p)', Out(q)', queuedCount'[p], queuedCount'[q],
             Len(delivered'[p]), Len(delivered'[q]))
    BY <1>3, <1>6 DEF Out
  <2>2. TalkOf(Central)'
    <3>1. CASE Central = p
      BY <2>1, <3>1 DEF TalkOf
    <3>2. CASE Central = q
      <4>1. Talk(peer'[q], peer'[p], Out(q)', Out(p)', queuedCount'[q], queuedCount'[p],
                 Len(delivered'[q]), Len(delivered'[p]))
        BY <2>1, TalkSymmetric
      <4> QED
        BY <3>2, <4>1, <1>1 DEF TalkOf
    <3> QED
      BY <1>1, <3>1, <3>2
  <2> QED
    BY <2>2 DEF Sound
<1> QED
  BY <1>4, <1>5, <1>6 DEF Inv

\* Nothing is delivered but in handleIncomingBleData.
LEMMA DeliveredSame ==
    ASSUME Inv, UNCHANGED <<delivered, failures>>
    PROVE  DeliveredInOrder'
<1>1. delivered' = delivered /\ failures' = failures /\ DeliveredInOrder
  BY DEF Inv
<1>2. ASSUME failures' = 0, NEW p \in Peers, NEW i \in 1 .. Len(delivered'[p]),
             NEW j \in 1 .. Len(delivered'[p][i])
      PROVE  /\ Len(delivered'[p][i]) = delivered'[p][i][j].len
             /\ delivered'[p][i][j].msg = i /\ delivered'[p][i][j].index = j
  <2>1. failures = 0 /\ i \in 1 .. Len(delivered[p]) /\ j \in 1 .. Len(delivered[p][i])
    BY <1>1, <1>2
  <2> QED
    BY <1>1, <2>1 DEF DeliveredInOrder
<1> QED
  BY <1>2 DEF DeliveredInOrder

\* A message is queued, and perhaps its first segment sent.
LEMMA SendMatterMessageInv ==
    ASSUME Inv, NEW p \in Peers, SendMatterMessage(p)
    PROVE  Inv'
<1> DEFINE q == Other(p)
           a == peer[p]
           n == queuedCount[p]
<1>1. /\ a \in Handlers /\ Shape(a, n) /\ wire[p] \in Seq(Packets) /\ n \in Nat
      /\ q \in Peers /\ peer[q] \in Handlers /\ Out(q) \in Seq(Packets) /\ q # p
      /\ failures = 0 => TalkOf(p)
  BY InvFacts, Others
<1>2. PICK len \in Lengths :
         peer' = [peer EXCEPT ![p] =
            ProcessSendQueue([a EXCEPT !.queue = Append(@, [msg |-> n + 1, index |-> 0, len |-> len])],
                             "other")]
  BY DEF SendMatterMessage, SetPeer
<1> DEFINE m == [msg |-> n + 1, index |-> 0, len |-> len]
           t == Append(a.queue, m)
           y == [a EXCEPT !.queue = t]
           z == ProcessSendQueue(y, "other")
<1>3. m \in Segments /\ m.msg = n + 1 /\ m.index = 0 /\ m.len = len
  BY <1>1 DEF Segments
<1> HIDE DEF m
<1>4. a.queue \in Seq(Segments)
  BY <1>1, HandlerFacts
<1>5. /\ t \in Seq(Segments) /\ Len(t) = Len(a.queue) + 1 /\ Len(a.queue) \in Nat
      /\ \A i \in 1 .. Len(a.queue) : t[i] = a.queue[i]
      /\ t[Len(a.queue) + 1] = m /\ t # <<>>
  <2>1. /\ t \in Seq(Segments) /\ Len(t) = Len(a.queue) + 1 /\ Len(a.queue) \in Nat
        /\ \A i \in 1 .. Len(a.queue) : t[i] = a.queue[i]
        /\ t[Len(a.queue) + 1] = m
    BY <1>3, <1>4, AppendFacts
  <2> QED
    BY <2>1
<1> HIDE DEF t
<1>6. y \in Handlers
  BY <1>1, <1>5 DEF Handlers
<1>7. /\ y.queue = t /\ y.writes = a.writes /\ y.sendInProgress = a.sendInProgress
      /\ y.seq = a.seq /\ y.prevIncomingAck = a.prevIncomingAck
      /\ y.prevIncoming = a.prevIncoming /\ y.prevAcked = a.prevAcked /\ y.partial = a.partial
  BY <1>1 DEF Handlers
<1>8. peer' = [peer EXCEPT ![p] = z]
  BY <1>2 DEF m, t
<1> HIDE DEF y
<1>9. a.queue # <<>> => t[1] = a.queue[1] /\ 1 \in 1 .. Len(a.queue)
  BY <1>4, <1>5
<1>10. a.queue = <<>> => t[1] = m
  BY <1>5
<1>20. (n + 1) - Len(t) = n - Len(a.queue)
  <2>1. n \in Nat /\ Len(a.queue) \in Nat /\ Len(t) = Len(a.queue) + 1
    BY <1>1, <1>5
  <2> HIDE DEF n, a
  <2> QED
    BY <2>1
<1>11. Shape(y, n + 1)
  <2>1. OneWriter(y)
    BY <1>1, <1>7 DEF Shape, OneWriter
  <2>2. Queued(a, n)
    BY <1>1 DEF Shape
  <2>3. Len(t) <= n + 1
    BY <1>1, <1>5, <2>2 DEF Queued
  <2>4. len \in Nat \ {0}
    BY LengthsAssumption
  <2>5. ASSUME NEW i \in 1 .. Len(t)
        PROVE  /\ t[i].msg = (n + 1) - Len(t) + i
               /\ t[i].len \in Lengths /\ t[i].index \in 0 .. t[i].len
               /\ i > 1 => t[i].index = 0
               /\ i = 1 /\ t[i].index = t[i].len => a.writes # {}
    <3>1. CASE i = Len(a.queue) + 1
      <4>1. t[i] = m /\ m.index # m.len /\ m.index \in 0 .. m.len
        BY <1>3, <1>5, <2>4, <3>1
      <4>2. m.msg = (n + 1) - Len(t) + i
        BY <1>1, <1>3, <1>5, <3>1
      <4> QED
        BY <1>3, <4>1, <4>2
    <3>2. CASE i \in 1 .. Len(a.queue)
      <4>1. t[i] = a.queue[i]
        BY <1>5, <3>2
      <4>2. (n + 1) - Len(t) + i = n - Len(a.queue) + i
        BY <1>20
      <4> QED
        BY <2>2, <3>2, <4>1, <4>2 DEF Queued
    <3> QED
      BY <1>5, <3>1, <3>2
  <2>6. \A w \in a.writes :
           w.packet.segment # NoSegment => t # <<>> /\ t[1] = w.packet.segment
    BY <1>5, <1>9, <2>2 DEF Queued
  <2>7. \A w \in a.writes : w.packet.segment = NoSegment => t[1].index < t[1].len
    <3>1. m.index < m.len
      BY <1>3, <2>4
    <3> QED
      BY <1>9, <1>10, <2>2, <3>1 DEF Queued
  <2>8. Queued(y, n + 1)
    BY <1>1, <1>7, <2>3, <2>5, <2>6, <2>7 DEF Queued
  <2> QED
    BY <2>1, <2>8 DEF Shape
<1>12. SentTo(y, n + 1) = SentTo(a, n)
  <2>2. CASE a.queue # <<>>
    BY <1>5, <1>7, <1>9, <1>20, <2>2 DEF SentTo
  <2>3. CASE a.queue = <<>>
    <3>1. ~(t[1].index > 0)
      BY <1>3, <1>10, <2>3
    <3> QED
      BY <1>7, <1>20, <2>3, <3>1 DEF SentTo
  <2> QED
    BY <2>2, <2>3
<1>13. /\ wire' = wire /\ delivered' = delivered /\ failures' = failures /\ session' = session
       /\ session = "open" /\ queuedCount' = [queuedCount EXCEPT ![p] = n + 1]
  BY DEF SendMatterMessage
<1>14. queuedCount' \in [Peers -> Nat] /\ queuedCount'[p] = n + 1 /\ queuedCount'[q] = queuedCount[q]
  BY <1>1, <1>13 DEF Inv, TypeOK
<1>15. "other" \in AwaitedBy
  BY DEF AwaitedBy
<1>16. z \in Handlers /\ Shape(z, n + 1)
  BY <1>6, <1>11, <1>15, ProcessTalk
<1>17. ASSUME failures = 0
       PROVE  Talk(z, peer[q], Stream(z, wire[p]), Out(q), n + 1, queuedCount[q],
                   Len(delivered[p]), Len(delivered[q]))
  <2>1. Talk(a, peer[q], Out(p), Out(q), n, queuedCount[q], Len(delivered[p]), Len(delivered[q]))
    BY <1>1, <1>17 DEF TalkOf
  <2>2. Stream(y, wire[p]) = Out(p)
    BY <1>7, StreamSame DEF Out
  <2>3. Talk(y, peer[q], Out(p), Out(q), n + 1, queuedCount[q],
             Len(delivered[p]), Len(delivered[q]))
    BY <1>7, <1>12, <2>1, MovedTalk
  <2> QED
    BY <1>1, <1>6, <1>11, <1>15, <2>2, <2>3, ProcessTalk
<1> HIDE DEF z
<1>18. DeliveredInOrder'
  BY <1>13, DeliveredSame
<1>19. wire' \in [Peers -> Seq(Packets)] /\ delivered' \in [Peers -> Seq(Seq(Segments))]
  BY <1>13 DEF Inv, TypeOK
<1> QED
  BY <1>8, <1>13, <1>14, <1>16, <1>17, <1>18, <1>19, StepOf DEF Out

\* The packet of a write moves to the wire, at the end of its stream, where it was.
LEMMA TransmitInv ==
    ASSUME Inv, NEW p \in Peers, Transmit(p)
    PROVE  Inv'
<1> DEFINE q == Other(p)
           a == peer[p]
           n == queuedCount[p]
<1>1. /\ a \in Handlers /\ Shape(a, n) /\ wire[p] \in Seq(Packets)
      /\ q \in Peers /\ q # p
      /\ failures = 0 => TalkOf(p)
  BY InvFacts, Others
<1>2. PICK w \in a.writes :
         /\ ~w.onWire
         /\ wire' = [wire EXCEPT ![p] = Append(@, w.packet)]
         /\ peer' = [peer EXCEPT ![p] =
               [a EXCEPT !.writes = (@ \ {w}) \cup {[w EXCEPT !.onWire = TRUE]}]]
  BY DEF Transmit, SetPeer
<1> DEFINE v == [w EXCEPT !.onWire = TRUE]
           ws == {v}
           z == [a EXCEPT !.writes = ws]
<1>3. a.writes = {w} /\ w \in Writes
  BY <1>1, HandlerFacts DEF Shape, OneWriter
<1>4. v \in Writes /\ v.packet = w.packet /\ v.onWire /\ w.packet \in Packets
  BY <1>3 DEF Writes
<1> HIDE DEF v
<1>5. (a.writes \ {w}) \cup {v} = ws
  BY <1>3
<1>6. peer' = [peer EXCEPT ![p] = z]
  BY <1>2, <1>5 DEF v
<1>7. ws \in SUBSET Writes
  BY <1>4
<1>8. /\ \A u \in ws : u.onWire /\ u.packet = w.packet
      /\ \A t, u \in ws : t = u
      /\ ws # {}
  BY <1>4
<1> HIDE DEF ws
<1>9. z \in Handlers
  BY <1>1, <1>7 DEF Handlers
<1>10. /\ z.queue = a.queue /\ z.writes = ws /\ z.sendInProgress = a.sendInProgress
       /\ z.seq = a.seq /\ z.prevIncomingAck = a.prevIncomingAck
       /\ z.prevIncoming = a.prevIncoming /\ z.prevAcked = a.prevAcked /\ z.partial = a.partial
  BY <1>1 DEF Handlers
<1> HIDE DEF z
<1>11. Shape(z, n)
  <2>1. OneWriter(z)
    <3>1. a.sendInProgress <=> a.writes # {}
      BY <1>1 DEF Shape, OneWriter
    <3> QED
      BY <1>2, <1>8, <1>10, <3>1 DEF OneWriter
  <2>2. Queued(z, n)
    BY <1>1, <1>3, <1>8, <1>10 DEF Shape, Queued
  <2> QED
    BY <2>1, <2>2 DEF Shape
<1>12. /\ delivered' = delivered /\ failures' = failures /\ session' = session
       /\ session = "open" /\ queuedCount' = queuedCount
  BY DEF Transmit
<1>13. wire' \in [Peers -> Seq(Packets)] /\ wire'[p] = Append(wire[p], w.packet) /\ wire'[q] = wire[q]
  <2>1. Append(wire[p], w.packet) \in Seq(Packets)
    BY <1>1, <1>4
  <2> QED
    BY <1>1, <1>2, <2>1 DEF Inv, TypeOK
<1>14. Stream(z, wire'[p]) = Out(p)
  <2>1. Stream(z, wire'[p]) = wire'[p]
    BY <1>8, <1>10, StreamOnWire
  <2>2. Out(p) = Append(wire[p], w.packet)
    BY <1>2, <1>3, StreamUnsent DEF Out
  <2> QED
    BY <2>1, <2>2, <1>13
<1>15. ASSUME failures = 0
       PROVE  Talk(z, peer[q], Out(p), Out(q), n, queuedCount[q],
                   Len(delivered[p]), Len(delivered[q]))
  <2>1. Talk(a, peer[q], Out(p), Out(q), n, queuedCount[q], Len(delivered[p]), Len(delivered[q]))
    BY <1>1, <1>15 DEF TalkOf
  <2>2. SentTo(z, n) = SentTo(a, n)
    BY <1>10 DEF SentTo
  <2> QED
    BY <1>10, <2>1, <2>2, MovedTalk
<1>16. DeliveredInOrder'
  BY <1>12, DeliveredSame
<1>17. delivered' \in [Peers -> Seq(Seq(Segments))] /\ queuedCount' \in [Peers -> Nat]
  BY <1>12 DEF Inv, TypeOK
<1>18. Stream(peer[q], wire'[q]) = Out(q)
  BY <1>13 DEF Out
<1> QED
  BY <1>6, <1>9, <1>11, <1>12, <1>13, <1>14, <1>15, <1>16, <1>17, <1>18, StepOf

\* A handler whose write is done: the queue without a message that is complete.
LEMMA DoneQueue ==
    ASSUME NEW a \in Handlers, NEW y \in Handlers, NEW n, NEW w \in a.writes, Shape(a, n),
           y.writes = {},
           y.queue = IF w.packet.segment # NoSegment
                        /\ w.packet.segment.index = w.packet.segment.len
                     THEN Tail(a.queue) ELSE a.queue
    PROVE  Queued(y, n) /\ SentTo(y, n) = SentTo(a, n)
<1> DEFINE g == w.packet.segment
           t == Tail(a.queue)
<1>1. /\ a.queue \in Seq(Segments) /\ Queued(a, n) /\ n \in Nat /\ Len(a.queue) <= n
      /\ Len(a.queue) \in Nat
  <2>1. a.queue \in Seq(Segments)
    BY HandlerFacts
  <2>2. Queued(a, n)
    BY DEF Shape
  <2>3. n \in Nat /\ Len(a.queue) <= n
    BY <2>2 DEF Queued
  <2> QED
    BY <2>1, <2>2, <2>3
<1>2. CASE g # NoSegment /\ g.index = g.len
  <2>1. y.queue = t
    BY <1>2
  <2>2. a.queue # <<>> /\ a.queue[1] = g
    BY <1>1, <1>2 DEF Queued
  <2> HIDE DEF g
  <2>3. /\ t \in Seq(Segments) /\ Len(t) = Len(a.queue) - 1 /\ Len(a.queue) > 0
        /\ \A i \in 1 .. Len(t) : t[i] = a.queue[i + 1] /\ i + 1 \in 1 .. Len(a.queue)
    BY <1>1, <2>2
  <2> HIDE DEF t
  <2>4. ASSUME NEW i \in 1 .. Len(t)
        PROVE  /\ t[i].msg = n - Len(t) + i
               /\ t[i].len \in Lengths /\ t[i].index \in 0 .. t[i].len
               /\ t[i].index = 0 /\ t[i].index # t[i].len
    <3>1. t[i] = a.queue[i + 1] /\ i + 1 \in 1 .. Len(a.queue) /\ i + 1 > 1
      BY <2>3
    <3>2. /\ t[i].msg = n - Len(a.queue) + (i + 1)
          /\ t[i].len \in Lengths /\ t[i].index \in 0 .. t[i].len
          /\ t[i].index = 0
      BY <1>1, <3>1 DEF Queued
    <3>3. n - Len(a.queue) + (i + 1) = n - Len(t) + i
      BY <1>1, <2>3
    <3>4. t[i].len \in Nat \ {0}
      BY <3>2, LengthsAssumption
    <3> QED
      BY <3>2, <3>3, <3>4
  <2>5. Len(t) <= n
    BY <1>1, <2>3
  <2>6. Queued(y, n)
    BY <1>1, <2>1, <2>4, <2>5 DEF Queued
  <2>7. SentTo(y, n) = Position(n - Len(t), 0, 0)
    <3>1. y.queue # <<>> => 1 \in 1 .. Len(t)
      BY <2>1, <2>3
    <3>2. y.queue # <<>> => y.queue[1].index = 0
      BY <2>1, <2>4, <3>1
    <3>3. ~(y.queue # <<>> /\ y.queue[1].index > 0)
      BY <3>2
    <3> QED
      BY <2>1, <3>3 DEF SentTo
  <2>8. SentTo(a, n) = Position(n - Len(t), 0, 0)
    <3>1. 1 \in 1 .. Len(a.queue)
      BY <1>1, <2>3
    <3>2. g.msg = n - Len(a.queue) + 1 /\ g.len \in Lengths
      BY <1>1, <2>2, <3>1 DEF Queued
    <3>3. g.index > 0
      <4>1. g.len \in Nat \ {0}
        BY <3>2, LengthsAssumption
      <4>2. g.index = g.len
        BY <1>2
      <4> QED
        BY <4>1, <4>2
    <3>4. g.msg = n - Len(t)
      BY <1>1, <2>3, <3>2
    <3> QED
      BY <1>2, <2>2, <3>3, <3>4 DEF SentTo, After
  <2> QED
    BY <2>6, <2>7, <2>8
<1>3. CASE ~(g # NoSegment /\ g.index = g.len)
  <2>1. y.queue = a.queue
    BY <1>3
  <2>2. a.queue # <<>> => a.queue[1].index # a.queue[1].len
    <3>1. CASE g = NoSegment
      <4>1. a.queue # <<>> => a.queue[1].index < a.queue[1].len
        BY <1>1, <3>1 DEF Queued
      <4>2. a.queue # <<>> => a.queue[1] \in Segments
        BY <1>1
      <4> QED
        BY <4>1, <4>2 DEF Segments
    <3>2. CASE g # NoSegment
      BY <1>1, <1>3, <3>2 DEF Queued
    <3> QED
      BY <3>1, <3>2
  <2>3. 1 \in 1 .. Len(a.queue) => a.queue # <<>>
    BY <1>1
  <2>4. Queued(y, n)
    BY <1>1, <2>1, <2>2, <2>3 DEF Queued
  <2> QED
    BY <2>1, <2>4 DEF SentTo
<1> QED
  BY <1>2, <1>3

\* A step that changes a handler, and at most closes the session.
LEMMA HandlerStep ==
    ASSUME Inv, NEW p \in Peers, NEW z \in Handlers, peer' = [peer EXCEPT ![p] = z],
           UNCHANGED <<wire, delivered, queuedCount, failures>>,
           session' \in {"open", "ackTimeout"}, Shape(z, queuedCount[p]),
           failures = 0 => Talk(z, peer[Other(p)], Stream(z, wire[p]), Out(Other(p)),
                                queuedCount[p], queuedCount[Other(p)],
                                Len(delivered[p]), Len(delivered[Other(p)]))
    PROVE  Inv'
<1>1. DeliveredInOrder'
  BY DeliveredSame
<1>2. /\ wire' = wire /\ delivered' = delivered /\ queuedCount' = queuedCount
      /\ failures' = failures
  OBVIOUS
<1>3. /\ wire' \in [Peers -> Seq(Packets)] /\ delivered' \in [Peers -> Seq(Seq(Segments))]
      /\ queuedCount' \in [Peers -> Nat]
  BY <1>2 DEF Inv, TypeOK
<1>4. Stream(peer[Other(p)], wire'[Other(p)]) = Out(Other(p))
  BY <1>2 DEF Out
<1> QED
  BY <1>1, <1>2, <1>3, <1>4, StepOf

\* A write ends: the loop of processSendQueue goes on, or an acknowledgement is through and
\* what waited for it is sent.
LEMMA WriteDoneInv ==
    ASSUME Inv, NEW p \in Peers, WriteDone(p)
    PROVE  Inv'
<1> DEFINE q == Other(p)
           a == peer[p]
           n == queuedCount[p]
<1>1. /\ a \in Handlers /\ Shape(a, n) /\ wire[p] \in Seq(Packets)
      /\ q \in Peers /\ peer[q] \in Handlers /\ Out(q) \in Seq(Packets)
      /\ failures = 0 => TalkOf(p)
  BY InvFacts, Others
<1>2. PICK w \in a.writes : w.onWire /\ peer' = [peer EXCEPT ![p] = FinishWrite(p, w)]
  BY DEF WriteDone, SetPeer
<1> DEFINE g == w.packet.segment
           z == FinishWrite(p, w)
           s == [a EXCEPT !.writes = {}, !.ackReceiveTimer = TRUE]
           t == IF g.index = g.len THEN Tail(a.queue) ELSE a.queue
           quiet == [s EXCEPT !.sendAckTimer = FALSE, !.sendInProgress = FALSE]
           on == [s EXCEPT !.idleTimer = p = Central, !.queue = t]
<1>3. a.writes = {w} /\ w \in Writes
  BY <1>1, HandlerFacts DEF Shape, OneWriter
<1>4. w.caller \in AwaitedBy
  BY <1>3 DEF Writes, AwaitedBy
<1>5. a.writes \ {w} = {}
  BY <1>3
<1>6. z = IF g = NoSegment THEN ProcessSendQueue(quiet, w.caller) ELSE SendRound(on, w.caller)
  <2> DEFINE r == [a EXCEPT !.writes = a.writes \ {w}, !.ackReceiveTimer = TRUE]
  <2>1. r = s
    BY <1>5
  <2>2. r.queue = a.queue
    BY <1>1 DEF Handlers
  <2>3. z = IF g = NoSegment
              THEN ProcessSendQueue([r EXCEPT !.sendAckTimer = FALSE, !.sendInProgress = FALSE], w.caller)
              ELSE SendRound([r EXCEPT !.idleTimer = p = Central,
                                       !.queue = IF g.index = g.len THEN Tail(@) ELSE @],
                             w.caller)
    BY DEF FinishWrite
  <2>4. [r EXCEPT !.idleTimer = p = Central, !.queue = IF g.index = g.len THEN Tail(@) ELSE @]
          = [r EXCEPT !.idleTimer = p = Central, !.queue = t]
    BY <2>2
  <2> HIDE DEF r, z, t, g, s
  <2> QED
    BY <2>1, <2>3, <2>4
<1>7. peer' = [peer EXCEPT ![p] = z]
  BY <1>2
<1> HIDE DEF z
<1>8. s \in Handlers
  BY <1>1 DEF Handlers
<1>9. /\ s.queue = a.queue /\ s.writes = {} /\ s.seq = a.seq /\ s.partial = a.partial
      /\ s.prevIncomingAck = a.prevIncomingAck
      /\ s.prevIncoming = a.prevIncoming /\ s.prevAcked = a.prevAcked
  BY <1>1 DEF Handlers
<1> HIDE DEF s
<1>10. ASSUME failures = 0
       PROVE  Talk(a, peer[q], wire[p], Out(q), n, queuedCount[q],
                   Len(delivered[p]), Len(delivered[q]))
  <2>1. \A v \in a.writes : v.onWire
    BY <1>2, <1>3
  <2>2. Out(p) = wire[p]
    BY <2>1, StreamOnWire DEF Out
  <2> QED
    BY <1>1, <1>10, <2>2 DEF TalkOf
<1>11. z \in Handlers /\ Shape(z, n)
       /\ (failures = 0 => Talk(z, peer[q], Stream(z, wire[p]), Out(q), n, queuedCount[q],
                                Len(delivered[p]), Len(delivered[q])))
  <2>1. CASE g = NoSegment
    <3>1. quiet \in Handlers
      BY <1>8 DEF Handlers
    <3>2. /\ quiet.queue = a.queue /\ quiet.writes = {} /\ quiet.seq = a.seq
          /\ quiet.partial = a.partial /\ quiet.prevIncomingAck = a.prevIncomingAck
          /\ quiet.prevIncoming = a.prevIncoming /\ quiet.prevAcked = a.prevAcked
          /\ ~quiet.sendInProgress
      BY <1>8, <1>9 DEF Handlers
    <3>3. z = ProcessSendQueue(quiet, w.caller)
      BY <1>6, <2>1
    <3> HIDE DEF quiet
    <3>4. Queued(quiet, n) /\ SentTo(quiet, n) = SentTo(a, n)
      BY <1>1, <2>1, <3>1, <3>2, DoneQueue
    <3>5. Shape(quiet, n)
      <4>1. OneWriter(quiet)
        BY <3>2 DEF OneWriter
      <4> QED
        BY <3>4, <4>1 DEF Shape
    <3>6. ASSUME failures = 0
          PROVE  Talk(quiet, peer[q], Stream(quiet, wire[p]), Out(q), n, queuedCount[q],
                      Len(delivered[p]), Len(delivered[q]))
      <4>1. Stream(quiet, wire[p]) = wire[p]
        BY <3>2, StreamOnWire
      <4>2. Talk(quiet, peer[q], wire[p], Out(q), n, queuedCount[q],
                 Len(delivered[p]), Len(delivered[q]))
        BY <1>10, <3>2, <3>4, <3>6, MovedTalk
      <4> QED
        BY <4>1, <4>2
    <3> QED
      BY <1>1, <1>4, <3>1, <3>3, <3>5, <3>6, ProcessTalk
  <2>2. CASE g # NoSegment
    <3>1. t \in Seq(Segments)
      <4>1. a.queue \in Seq(Segments) /\ a.queue # <<>>
        <5>1. Queued(a, n)
          BY <1>1 DEF Shape
        <5>2. a.queue # <<>>
          BY <2>2, <5>1 DEF Queued
        <5> QED
          BY <1>1, <5>2, HandlerFacts
      <4> QED
        BY <4>1
    <3>2. t = IF g # NoSegment /\ g.index = g.len THEN Tail(a.queue) ELSE a.queue
      BY <2>2
    <3>3. z = SendRound(on, w.caller)
      BY <1>6, <2>2
    <3> HIDE DEF t
    <3>4. on \in Handlers
      <4>1. (p = Central) \in BOOLEAN
        OBVIOUS
      <4> QED
        BY <1>8, <3>1, <4>1 DEF Handlers
    <3>5. /\ on.queue = t /\ on.writes = {} /\ on.seq = a.seq
          /\ on.partial = a.partial /\ on.prevIncomingAck = a.prevIncomingAck
          /\ on.prevIncoming = a.prevIncoming /\ on.prevAcked = a.prevAcked
      BY <1>8, <1>9 DEF Handlers
    <3> HIDE DEF on
    <3>6. Queued(on, n) /\ SentTo(on, n) = SentTo(a, n)
      <4>1. on.queue = IF g # NoSegment /\ g.index = g.len THEN Tail(a.queue) ELSE a.queue
        BY <3>2, <3>5
      <4> QED
        BY <1>1, <3>4, <3>5, <4>1, DoneQueue, Zenon
    <3>7. Result(on, z)
      BY <1>4, <3>3, <3>4, <3>5, RoundResult
    <3>8. z \in Handlers /\ Shape(z, n)
      BY <3>4, <3>5, <3>6, <3>7, ResultShape
    <3>9. ASSUME failures = 0
          PROVE  Talk(on, peer[q], wire[p], Out(q), n, queuedCount[q],
                      Len(delivered[p]), Len(delivered[q]))
      BY <1>10, <3>5, <3>6, <3>9, MovedTalk
    <3> QED
      BY <1>1, <3>4, <3>5, <3>6, <3>7, <3>8, <3>9, ResultTalk
  <2> QED
    BY <2>1, <2>2
<1>12. UNCHANGED <<wire, delivered, queuedCount, failures>> /\ session' = "open"
  BY DEF WriteDone
<1> QED
  BY <1>7, <1>11, <1>12, HandlerStep

\* A handler whose write failed.
LEMMA RolledBack ==
    ASSUME NEW a \in Handlers, NEW n, NEW w \in a.writes, Shape(a, n), NEW z,
           z = [a EXCEPT !.writes = @ \ {w}, !.sendInProgress = FALSE, !.prevAcked = w.undo,
                         !.queue = IF w.packet.segment = NoSegment THEN @ ELSE <<>>]
    PROVE  z \in Handlers /\ Shape(z, n)
<1> DEFINE t == IF w.packet.segment = NoSegment THEN a.queue ELSE <<>>
<1>1. a.writes \ {w} = {} /\ w \in Writes
  BY HandlerFacts DEF Shape, OneWriter
<1>2. w.undo \in Numbers
  BY <1>1 DEF Writes
<1>3. a.queue \in Seq(Segments)
  BY HandlerFacts
<1>4. t \in Seq(Segments)
  BY <1>3
<1>5. z = [a EXCEPT !.writes = {}, !.sendInProgress = FALSE, !.prevAcked = w.undo, !.queue = t]
  BY <1>1
<1> HIDE DEF t
<1>6. z \in Handlers
  BY <1>2, <1>4, <1>5 DEF Handlers
<1>7. z.writes = {} /\ ~z.sendInProgress /\ z.queue = t
  BY <1>5 DEF Handlers
<1>8. Queued(z, n)
  <2>1. CASE w.packet.segment = NoSegment
    <3>1. z.queue = a.queue
      BY <1>7, <2>1 DEF t
    <3>2. z.queue = IF w.packet.segment # NoSegment /\ w.packet.segment.index = w.packet.segment.len
                      THEN Tail(a.queue) ELSE a.queue
      BY <2>1, <3>1
    <3> QED
      BY <1>6, <1>7, <3>2, DoneQueue, Zenon
  <2>2. CASE w.packet.segment # NoSegment
    <3>1. z.queue = <<>> /\ Len(z.queue) = 0
      BY <1>7, <2>2 DEF t
    <3>2. n \in Nat
      BY DEF Shape, Queued
    <3> QED
      BY <1>7, <3>1, <3>2 DEF Queued
  <2> QED
    BY <2>1, <2>2
<1>9. OneWriter(z)
  BY <1>7 DEF OneWriter
<1> QED
  BY <1>6, <1>8, <1>9 DEF Shape

\* A write fails: the handlers keep their shape, and nothing is promised of what follows.
LEMMA WriteFailsInv ==
    ASSUME Inv, NEW p \in Peers, WriteFails(p)
    PROVE  Inv'
<1> DEFINE a == peer[p]
           n == queuedCount[p]
           z(w) == [a EXCEPT !.writes = @ \ {w}, !.sendInProgress = FALSE, !.prevAcked = w.undo,
                         !.queue = IF w.packet.segment = NoSegment THEN @ ELSE <<>>]
<1>1. a \in Handlers /\ Shape(a, n)
  BY InvFacts
<1>2. PICK w \in a.writes : /\ peer' = [peer EXCEPT ![p] = z(w)]
                            /\ session' = IF w.caller = "other" THEN "open" ELSE "writeFailed"
  BY DEF WriteFails, SetPeer, RollbackWrite
<1>3. z(w) \in Handlers /\ Shape(z(w), n)
  BY <1>1, RolledBack
<1> HIDE DEF z
<1>4. /\ wire' = wire /\ delivered' = delivered /\ queuedCount' = queuedCount
      /\ failures < MaxFailures /\ failures' = failures + 1
  BY DEF WriteFails
<1>5. TypeOK /\ failures \in 0 .. MaxFailures /\ peer \in [Peers -> Handlers]
  BY DEF Inv, TypeOK
<1>6. failures' \in 0 .. MaxFailures /\ failures' # 0
  BY <1>4, <1>5, BoundsAssumption
<1>7. peer' \in [Peers -> Handlers] /\ \A r \in Peers : peer'[r] = IF r = p THEN z(w) ELSE peer[r]
  BY <1>2, <1>3, <1>5
<1>8. TypeOK'
  BY <1>2, <1>4, <1>5, <1>6, <1>7 DEF TypeOK
<1>9. \A r \in Peers : Shape(peer'[r], queuedCount'[r])
  BY <1>3, <1>4, <1>7, InvFacts
<1>10. DeliveredInOrder'
  BY <1>6 DEF DeliveredInOrder
<1> QED
  BY <1>6, <1>8, <1>9, <1>10 DEF Inv

\* The handler that has taken a packet.
LEMMA AcceptFacts ==
    ASSUME NEW b \in Handlers, NEW h \in Packets, NEW y, y = Accept(b, h)
    PROVE  /\ y \in Handlers /\ Reassembled(b, h) \in Seq(Segments)
           /\ y.prevIncoming = h.seq /\ y.prevAcked = b.prevAcked /\ y.seq = b.seq
           /\ y.prevIncomingAck = IF h.ack = NoAck THEN b.prevIncomingAck ELSE h.ack
           /\ y.partial = IF IsEndingSegment(h) THEN <<>> ELSE Reassembled(b, h)
           /\ y.queue = b.queue /\ y.writes = b.writes /\ y.sendInProgress = b.sendInProgress
<1> DEFINE e == IF h.ack = NoAck THEN b.prevIncomingAck ELSE h.ack
           r == IF h.ack = NoAck THEN b.ackReceiveTimer ELSE h.ack # b.seq
           t == IF IsEndingSegment(h) THEN <<>> ELSE Reassembled(b, h)
<1>1. h.seq \in Numbers /\ h.segment \in Segments /\ b.partial \in Seq(Segments)
  BY PacketFacts, HandlerFacts
<1>2. e \in Numbers
  BY PacketFacts, HandlerFacts
<1>3. r \in BOOLEAN
  BY DEF Handlers
<1>4. Reassembled(b, h) \in Seq(Segments)
  BY <1>1 DEF Reassembled
<1>5. t \in Seq(Segments)
  BY <1>4
<1>6. y = [b EXCEPT !.prevIncoming = h.seq, !.sendAckTimer = TRUE, !.prevIncomingAck = e,
                    !.ackReceiveTimer = r, !.partial = t]
  BY DEF Accept
<1> HIDE DEF e, r, t
<1>7. y \in Handlers
  BY <1>1, <1>2, <1>3, <1>5, <1>6 DEF Handlers
<1>8. /\ y.prevIncoming = h.seq /\ y.prevAcked = b.prevAcked /\ y.seq = b.seq
      /\ y.prevIncomingAck = e /\ y.partial = t
      /\ y.queue = b.queue /\ y.writes = b.writes /\ y.sendInProgress = b.sendInProgress
  BY <1>6 DEF Handlers
<1> QED
  BY <1>4, <1>7, <1>8 DEF e, t

\* While no write has failed, a handler b accepts the packet at the head of the other
\* stream, and the conversation goes on with the handler y that has taken it.
LEMMA AcceptTalk ==
    ASSUME NEW b \in Handlers, NEW c \in Handlers, NEW out \in Seq(Packets),
           NEW in \in Seq(Packets), in # <<>>, NEW n, NEW m, NEW d \in Nat, NEW dc,
           Talk(b, c, out, in, n, m, d, dc),
           NEW h, h = Head(in), NEW y \in Handlers,
           y.prevIncoming = h.seq, y.prevAcked = b.prevAcked, y.seq = b.seq,
           y.prevIncomingAck = IF h.ack = NoAck THEN b.prevIncomingAck ELSE h.ack,
           y.partial = IF IsEndingSegment(h) THEN <<>> ELSE Reassembled(b, h),
           y.queue = b.queue
    PROVE  /\ Acceptable(b, h)
           /\ Talk(y, c, out, Tail(in), n, m, IF IsEndingSegment(h) THEN d + 1 ELSE d, dc)
           /\ IsEndingSegment(h) => Whole(Reassembled(b, h), d + 1)
<1> DEFINE e == IF IsEndingSegment(h) THEN d + 1 ELSE d
<1>1. /\ Way(b, c, out, in, n, dc) /\ Way(c, b, in, out, m, d)
      /\ Full(b) /\ Full(c) => CarriesAck(out) \/ CarriesAck(in)
  BY DEF Talk
<1>2. /\ SequenceExpected(b, h) /\ SegmentValid(b, h)
      /\ Way(c, y, Tail(in), out, m, e)
      /\ IsEndingSegment(h) => Whole(Reassembled(b, h), d + 1)
  BY <1>1, ReceivedWay
<1>3. /\ Way(y, c, out, Tail(in), n, dc) /\ AckValid(b, h)
      /\ Full(y) => Full(b) /\ h.ack = NoAck
  BY <1>1, ReceivedBackWay
<1>4. ASSUME Full(y), Full(c)
      PROVE  CarriesAck(out) \/ CarriesAck(Tail(in))
  <2>1. CASE CarriesAck(out)
    BY <2>1
  <2>2. CASE CarriesAck(in)
    <3>1. PICK i \in 1 .. Len(in) : in[i].ack # NoAck
      BY <2>2 DEF CarriesAck
    <3>2. /\ Len(in) \in Nat /\ Len(Tail(in)) = Len(in) - 1 /\ h = in[1]
          /\ \A j \in 1 .. Len(Tail(in)) : Tail(in)[j] = in[j + 1]
      BY TailFacts
    <3>3. i # 1
      BY <1>3, <1>4, <3>1, <3>2
    <3>4. i - 1 \in 1 .. Len(Tail(in)) /\ (i - 1) + 1 = i
      BY <3>1, <3>2, <3>3
    <3>5. Tail(in)[i - 1] = in[i]
      BY <3>2, <3>4
    <3> QED
      BY <3>1, <3>4, <3>5 DEF CarriesAck
  <2> QED
    BY <1>1, <1>3, <1>4, <2>1, <2>2
<1>5. Talk(y, c, out, Tail(in), n, m, e, dc)
  BY <1>2, <1>3, <1>4 DEF Talk
<1> QED
  BY <1>2, <1>3, <1>5 DEF Acceptable

\* What happens to the packet that p finds on the wire, while no write has failed.
LEMMA ArrivingTalk ==
    ASSUME Inv, failures = 0, NEW p \in Peers, wire[Other(p)] # <<>>,
           NEW h, h = Head(wire[Other(p)]), NEW y, y = Accept(peer[p], h)
    PROVE  /\ Acceptable(peer[p], h)
           /\ Talk(y, peer[Other(p)], Out(p), Stream(peer[Other(p)], Tail(wire[Other(p)])),
                   queuedCount[p], queuedCount[Other(p)],
                   IF IsEndingSegment(h) THEN Len(delivered[p]) + 1 ELSE Len(delivered[p]),
                   Len(delivered[Other(p)]))
           /\ IsEndingSegment(h) => Whole(Reassembled(peer[p], h), Len(delivered[p]) + 1)
<1> DEFINE q == Other(p)
           b == peer[p]
           c == peer[q]
<1>1. /\ b \in Handlers /\ Len(delivered[p]) \in Nat /\ Out(p) \in Seq(Packets)
      /\ q \in Peers /\ c \in Handlers /\ wire[q] \in Seq(Packets) /\ Out(q) \in Seq(Packets)
      /\ Shape(c, queuedCount[q]) /\ TalkOf(p)
  BY InvFacts, Others
<1>2. OneWriter(c)
  BY <1>1 DEF Shape
<1>3. /\ Out(q) # <<>> /\ h = Head(Out(q))
      /\ Stream(c, Tail(wire[q])) = Tail(Out(q))
  BY <1>1, <1>2, StreamTail DEF Out
<1>4. h \in Packets
  BY <1>1
<1>5. Talk(b, c, Out(p), Out(q), queuedCount[p], queuedCount[q],
           Len(delivered[p]), Len(delivered[q]))
  BY <1>1 DEF TalkOf
<1> HIDE DEF q, b, c
<1>6. PICK k \in Packets : k = h
  BY <1>4
<1>7. y = Accept(b, k)
  BY <1>6 DEF b
<1>8. /\ y \in Handlers
      /\ y.prevIncoming = k.seq /\ y.prevAcked = b.prevAcked /\ y.seq = b.seq
      /\ y.prevIncomingAck = IF k.ack = NoAck THEN b.prevIncomingAck ELSE k.ack
      /\ y.partial = IF IsEndingSegment(k) THEN <<>> ELSE Reassembled(b, k)
      /\ y.queue = b.queue
  BY <1>1, <1>7, AcceptFacts
<1>9. /\ Acceptable(b, k)
      /\ Talk(y, c, Out(p), Tail(Out(q)), queuedCount[p], queuedCount[q],
              IF IsEndingSegment(k) THEN Len(delivered[p]) + 1 ELSE Len(delivered[p]),
              Len(delivered[q]))
      /\ IsEndingSegment(k) => Whole(Reassembled(b, k), Len(delivered[p]) + 1)
  BY <1>1, <1>3, <1>5, <1>6, <1>8, AcceptTalk
<1> QED
  BY <1>3, <1>6, <1>9 DEF q, b, c

\* While no write has failed, a packet is not refused.
LEMMA ReceiveInvalidInv ==
    ASSUME Inv, NEW p \in Peers, ReceiveInvalid(p)
    PROVE  Inv'
<1>1. /\ wire[Other(p)] # <<>> /\ ~Acceptable(peer[p], Head(wire[Other(p)]))
      /\ session' = "protocolError"
      /\ peer' = peer /\ wire' = wire /\ delivered' = delivered /\ queuedCount' = queuedCount
      /\ failures' = failures
  BY DEF ReceiveInvalid
<1>2. failures # 0
  BY <1>1, ArrivingTalk
<1>3. DeliveredInOrder'
  BY <1>1, DeliveredSame
<1>4. TypeOK'
  BY <1>1 DEF Inv, TypeOK
<1>5. \A r \in Peers : Shape(peer'[r], queuedCount'[r])
  BY <1>1 DEF Inv
<1> QED
  BY <1>1, <1>2, <1>3, <1>4, <1>5 DEF Inv

\* A message that is whole is delivered after those before it.
LEMMA DeliveredNext ==
    ASSUME Inv, NEW p \in Peers, NEW payload \in Seq(Segments), failures' = failures,
           delivered' = [delivered EXCEPT ![p] = Append(@, payload)],
           failures = 0 => Whole(payload, Len(delivered[p]) + 1)
    PROVE  DeliveredInOrder' /\ delivered' \in [Peers -> Seq(Seq(Segments))]
<1>1. delivered \in [Peers -> Seq(Seq(Segments))] /\ delivered[p] \in Seq(Seq(Segments))
  BY DEF Inv, TypeOK
<1> DEFINE t == Append(delivered[p], payload)
<1>2. /\ t \in Seq(Seq(Segments)) /\ Len(t) = Len(delivered[p]) + 1 /\ Len(delivered[p]) \in Nat
      /\ \A i \in 1 .. Len(delivered[p]) : t[i] = delivered[p][i]
      /\ t[Len(delivered[p]) + 1] = payload
  BY <1>1, AppendFacts
<1>3. delivered' = [delivered EXCEPT ![p] = t]
  OBVIOUS
<1> HIDE DEF t
<1>4. delivered' \in [Peers -> Seq(Seq(Segments))]
  BY <1>1, <1>2, <1>3
<1>5. delivered'[p] = t /\ \A r \in Peers : r # p => delivered'[r] = delivered[r]
  BY <1>1, <1>3
<1>6. ASSUME failures' = 0, NEW r \in Peers, NEW i \in 1 .. Len(delivered'[r]),
             NEW j \in 1 .. Len(delivered'[r][i])
      PROVE  /\ Len(delivered'[r][i]) = delivered'[r][i][j].len
             /\ delivered'[r][i][j].msg = i /\ delivered'[r][i][j].index = j
  <2>1. failures = 0
    BY <1>6
  <2>2. CASE r = p /\ i = Len(delivered[p]) + 1
    <3>1. delivered'[r][i] = payload
      BY <1>2, <1>5, <2>2
    <3> QED
      BY <1>6, <2>1, <2>2, <3>1 DEF Whole
  <2>3. CASE r # p \/ i # Len(delivered[p]) + 1
    <3>1. i \in 1 .. Len(delivered[r]) /\ delivered'[r][i] = delivered[r][i]
      BY <1>2, <1>5, <1>6, <2>3
    <3>2. \A k \in 1 .. Len(delivered[r]) : \A l \in 1 .. Len(delivered[r][k]) :
             /\ Len(delivered[r][k]) = delivered[r][k][l].len
             /\ delivered[r][k][l].msg = k /\ delivered[r][k][l].index = l
      BY <2>1 DEF Inv, DeliveredInOrder
    <3>3. j \in 1 .. Len(delivered[r][i])
      BY <1>6, <3>1
    <3>4. /\ Len(delivered[r][i]) = delivered[r][i][j].len
          /\ delivered[r][i][j].msg = i /\ delivered[r][i][j].index = j
      BY <3>1, <3>2, <3>3, Zenon
    <3> QED
      BY <3>1, <3>4
  <2> QED
    BY <2>2, <2>3
<1> QED
  BY <1>4, <1>6 DEF DeliveredInOrder

\* A packet is taken, a complete message delivered, and what waited is sent.
LEMMA ReceiveInv ==
    ASSUME Inv, NEW p \in Peers, Receive(p)
    PROVE  Inv'
<1> DEFINE q == Other(p)
           b == peer[p]
           n == queuedCount[p]
           h == Head(wire[q])
           y == Accept(b, h)
           z == ProcessSendQueue(y, "handler")
           payload == Reassembled(b, h)
           ends == IsEndingSegment(h)
<1>1. /\ b \in Handlers /\ Shape(b, n) /\ wire[p] \in Seq(Packets) /\ Len(delivered[p]) \in Nat
      /\ q \in Peers /\ q # p /\ peer[q] \in Handlers /\ wire[q] \in Seq(Packets)
      /\ Shape(peer[q], queuedCount[q])
  BY InvFacts, Others
<1>2. /\ wire[q] # <<>> /\ wire' = [wire EXCEPT ![q] = Tail(@)]
      /\ peer' = [peer EXCEPT ![p] = z]
      /\ delivered' = IF ends THEN [delivered EXCEPT ![p] = Append(@, payload)] ELSE delivered
      /\ queuedCount' = queuedCount /\ failures' = failures /\ session' = "open"
  BY DEF Receive, SetPeer
<1>3. h \in Packets /\ Tail(wire[q]) \in Seq(Packets)
  BY <1>1, <1>2
<1>4. failures = 0 =>
         /\ Talk(y, peer[q], Out(p), Stream(peer[q], Tail(wire[q])), n, queuedCount[q],
                 IF ends THEN Len(delivered[p]) + 1 ELSE Len(delivered[p]), Len(delivered[q]))
         /\ ends => Whole(payload, Len(delivered[p]) + 1)
  BY <1>2, ArrivingTalk
<1>5. wire' \in [Peers -> Seq(Packets)] /\ wire'[p] = wire[p] /\ wire'[q] = Tail(wire[q])
  <2> DEFINE t == Tail(wire[q])
  <2>1. wire \in [Peers -> Seq(Packets)]
    BY DEF Inv, TypeOK
  <2>2. wire' = [wire EXCEPT ![q] = t] /\ t \in Seq(Packets)
    BY <1>2, <1>3
  <2> HIDE DEF t, q, h
  <2>3. wire' \in [Peers -> Seq(Packets)] /\ wire'[p] = wire[p] /\ wire'[q] = t
    BY <1>1, <2>1, <2>2
  <2> QED
    BY <2>3 DEF t
<1> HIDE DEF h
<1>6. /\ y \in Handlers /\ payload \in Seq(Segments) /\ y.queue = b.queue /\ y.writes = b.writes
      /\ y.sendInProgress = b.sendInProgress
  <2>1. y = Accept(b, h)
    OBVIOUS
  <2> HIDE DEF b, y, q, n, payload
  <2>2. y \in Handlers
    BY <1>1, <1>3, <2>1, AcceptFacts
  <2>3. payload \in Seq(Segments)
    BY <1>1, <1>3, AcceptFacts DEF payload
  <2>4. y.queue = b.queue
    BY <1>1, <1>3, <2>1, AcceptFacts
  <2>5. y.writes = b.writes
    BY <1>1, <1>3, <2>1, AcceptFacts
  <2>6. y.sendInProgress = b.sendInProgress
    BY <1>1, <1>3, <2>1, AcceptFacts
  <2> QED
    BY <2>2, <2>3, <2>4, <2>5, <2>6
<1> HIDE DEF y
<1>7. Shape(y, n)
  <2>1. OneWriter(y)
    BY <1>1, <1>6 DEF Shape, OneWriter
  <2>2. Queued(y, n)
    BY <1>1, <1>6 DEF Shape, Queued
  <2> QED
    BY <2>1, <2>2 DEF Shape
<1>8. "handler" \in AwaitedBy
  BY DEF AwaitedBy
<1>9. z \in Handlers /\ Shape(z, n)
  BY <1>6, <1>7, <1>8, ProcessTalk
<1>10. /\ DeliveredInOrder' /\ delivered' \in [Peers -> Seq(Seq(Segments))]
       /\ Len(delivered'[p]) = IF ends THEN Len(delivered[p]) + 1 ELSE Len(delivered[p])
       /\ delivered'[q] = delivered[q]
  <2> HIDE DEF ends, payload
  <2>0. delivered \in [Peers -> Seq(Seq(Segments))]
    BY DEF Inv, TypeOK
  <2>1. CASE ends
    <3>1. delivered' = [delivered EXCEPT ![p] = Append(@, payload)]
      BY <1>2, <2>1
    <3>2. DeliveredInOrder' /\ delivered' \in [Peers -> Seq(Seq(Segments))]
      BY <1>2, <1>4, <1>6, <2>1, <3>1, DeliveredNext
    <3>3. delivered'[p] = Append(delivered[p], payload) /\ delivered'[q] = delivered[q]
      BY <1>1, <2>0, <3>1
    <3>4. Len(Append(delivered[p], payload)) = Len(delivered[p]) + 1
      BY <1>1, <1>6, <2>0
    <3> QED
      BY <2>1, <3>2, <3>3, <3>4
  <2>2. CASE ~ends
    <3>1. delivered' = delivered
      BY <1>2, <2>2
    <3>2. DeliveredInOrder'
      BY <1>2, <3>1, DeliveredSame
    <3> QED
      BY <2>0, <2>2, <3>1, <3>2
  <2> QED
    BY <2>1, <2>2
<1>11. ASSUME failures = 0
       PROVE  Talk(z, peer[q], Stream(z, wire'[p]), Stream(peer[q], wire'[q]), n, queuedCount[q],
                   Len(delivered'[p]), Len(delivered'[q]))
  <2> DEFINE in == Stream(peer[q], Tail(wire[q]))
             d == Len(delivered'[p])
  <2>1. Stream(y, wire[p]) = Out(p)
    BY <1>6, StreamSame DEF Out
  <2>2. Talk(y, peer[q], Stream(y, wire[p]), in, n, queuedCount[q], d, Len(delivered[q]))
    BY <1>4, <1>10, <1>11, <2>1
  <2>3. in \in Seq(Packets)
    <3>1. OneWriter(peer[q])
      BY <1>1 DEF Shape
    <3> QED
      BY <1>1, <1>3, <3>1, StreamType
  <2> HIDE DEF in, d
  <2>4. Talk(z, peer[q], Stream(z, wire[p]), in, n, queuedCount[q], d, Len(delivered[q]))
    BY <1>1, <1>6, <1>7, <1>8, <2>2, <2>3, ProcessTalk
  <2> QED
    BY <1>5, <1>10, <2>4 DEF in, d
<1> HIDE DEF z
<1>12. queuedCount' \in [Peers -> Nat] /\ queuedCount'[p] = n /\ queuedCount'[q] = queuedCount[q]
  BY <1>2 DEF Inv, TypeOK
<1> QED
  BY <1>2, <1>5, <1>9, <1>10, <1>11, <1>12, StepOf

\* The timers are no part of the invariant.
LEMMA SameButTimers ==
    ASSUME NEW a \in Handlers, NEW y \in Handlers, NEW n, Shape(a, n),
           y.seq = a.seq, y.prevIncomingAck = a.prevIncomingAck,
           y.prevIncoming = a.prevIncoming, y.prevAcked = a.prevAcked, y.partial = a.partial,
           y.queue = a.queue, y.writes = a.writes, y.sendInProgress = a.sendInProgress
    PROVE  /\ Shape(y, n)
           /\ \A b, onWire, back, nb, da, db :
                 Talk(a, b, Stream(a, onWire), back, n, nb, da, db) =>
                     Talk(y, b, Stream(y, onWire), back, n, nb, da, db)
<1>1. OneWriter(y)
  BY DEF Shape, OneWriter
<1>2. Queued(y, n)
  BY DEF Shape, Queued
<1>3. SentTo(y, n) = SentTo(a, n)
  BY DEF SentTo
<1>4. ASSUME NEW b, NEW onWire, NEW back, NEW nb, NEW da, NEW db,
             Talk(a, b, Stream(a, onWire), back, n, nb, da, db)
      PROVE  Talk(y, b, Stream(y, onWire), back, n, nb, da, db)
  <2>1. Stream(y, onWire) = Stream(a, onWire)
    BY StreamSame
  <2>2. Talk(y, b, Stream(a, onWire), back, n, nb, da, db)
    BY <1>3, <1>4, MovedTalk
  <2> QED
    BY <2>1, <2>2
<1> QED
  BY <1>1, <1>2, <1>4 DEF Shape

\* The send-ack timer expires: an acknowledgement is sent, unless a write is under way.
LEMMA BtpSendAckTimeoutTriggeredInv ==
    ASSUME Inv, NEW p \in Peers, BtpSendAckTimeoutTriggered(p)
    PROVE  Inv'
<1> DEFINE q == Other(p)
           a == peer[p]
           n == queuedCount[p]
           y == [a EXCEPT !.sendAckTimer = FALSE]
           z == SendStandaloneAck(y, "other")
<1>1. /\ a \in Handlers /\ Shape(a, n) /\ wire[p] \in Seq(Packets)
      /\ q \in Peers /\ peer[q] \in Handlers /\ Out(q) \in Seq(Packets)
      /\ failures = 0 => TalkOf(p)
  BY InvFacts, Others
<1>2. /\ peer' = [peer EXCEPT ![p] = z] /\ session' = "open"
      /\ UNCHANGED <<wire, delivered, queuedCount, failures>>
  BY DEF BtpSendAckTimeoutTriggered, SetPeer
<1>3. y \in Handlers
  BY <1>1 DEF Handlers
<1>4. /\ y.seq = a.seq /\ y.prevIncomingAck = a.prevIncomingAck
      /\ y.prevIncoming = a.prevIncoming /\ y.prevAcked = a.prevAcked /\ y.partial = a.partial
      /\ y.queue = a.queue /\ y.writes = a.writes /\ y.sendInProgress = a.sendInProgress
  BY <1>1 DEF Handlers
<1> HIDE DEF y
<1>5. Shape(y, n)
  BY <1>1, <1>3, <1>4, SameButTimers
<1>6. ASSUME failures = 0
      PROVE  Talk(y, peer[q], Stream(y, wire[p]), Out(q), n, queuedCount[q],
                  Len(delivered[p]), Len(delivered[q]))
  <2>1. Talk(a, peer[q], Stream(a, wire[p]), Out(q), n, queuedCount[q],
             Len(delivered[p]), Len(delivered[q]))
    BY <1>1, <1>6 DEF TalkOf, Out
  <2> QED
    BY <1>1, <1>3, <1>4, <2>1, SameButTimers
<1>7. z \in Handlers /\ Shape(z, n)
      /\ (failures = 0 => Talk(z, peer[q], Stream(z, wire[p]), Out(q), n, queuedCount[q],
                               Len(delivered[p]), Len(delivered[q])))
  <2>1. CASE y.sendInProgress
    <3>1. z = y
      BY <2>1 DEF SendStandaloneAck
    <3> QED
      BY <1>3, <1>5, <1>6, <3>1
  <2>2. CASE ~y.sendInProgress
    <3>1. y.writes = {} /\ Queued(y, n)
      BY <1>5, <2>2 DEF Shape, OneWriter
    <3>2. "other" \in AwaitedBy
      BY DEF AwaitedBy
    <3>3. Result(y, z)
      BY <1>3, <2>2, <3>1, <3>2, AckResult
    <3>4. Stream(y, wire[p]) = wire[p]
      BY <3>1, StreamOnWire
    <3> HIDE DEF z
    <3>5. z \in Handlers /\ Shape(z, n)
      BY <1>3, <3>1, <3>3, ResultShape
    <3> QED
      BY <1>1, <1>3, <1>6, <3>1, <3>3, <3>4, <3>5, ResultTalk
  <2> QED
    BY <2>1, <2>2
<1> HIDE DEF z
<1> QED
  BY <1>2, <1>7, HandlerStep

\* The timer that waits for an acknowledgement expires.
LEMMA BtpAckTimeoutTriggeredInv ==
    ASSUME Inv, NEW p \in Peers, BtpAckTimeoutTriggered(p)
    PROVE  Inv'
<1> DEFINE q == Other(p)
           a == peer[p]
           n == queuedCount[p]
           y == [a EXCEPT !.ackReceiveTimer = FALSE]
<1>1. /\ a \in Handlers /\ Shape(a, n)
      /\ failures = 0 => TalkOf(p)
  BY InvFacts
<1>2. /\ peer' = [peer EXCEPT ![p] = y] /\ session' \in {"open", "ackTimeout"}
      /\ UNCHANGED <<wire, delivered, queuedCount, failures>>
  BY DEF BtpAckTimeoutTriggered, SetPeer
<1>3. y \in Handlers
  BY <1>1 DEF Handlers
<1>4. /\ y.seq = a.seq /\ y.prevIncomingAck = a.prevIncomingAck
      /\ y.prevIncoming = a.prevIncoming /\ y.prevAcked = a.prevAcked /\ y.partial = a.partial
      /\ y.queue = a.queue /\ y.writes = a.writes /\ y.sendInProgress = a.sendInProgress
  BY <1>1 DEF Handlers
<1> HIDE DEF y
<1>5. Shape(y, n)
  BY <1>1, <1>3, <1>4, SameButTimers
<1>6. ASSUME failures = 0
      PROVE  Talk(y, peer[q], Stream(y, wire[p]), Out(q), n, queuedCount[q],
                  Len(delivered[p]), Len(delivered[q]))
  <2>1. Talk(a, peer[q], Stream(a, wire[p]), Out(q), n, queuedCount[q],
             Len(delivered[p]), Len(delivered[q]))
    BY <1>1, <1>6 DEF TalkOf, Out
  <2> QED
    BY <1>1, <1>3, <1>4, <2>1, SameButTimers
<1> QED
  BY <1>2, <1>3, <1>5, <1>6, HandlerStep

\* A step that leaves all but the session alone.
LEMMA SessionStep ==
    ASSUME Inv, UNCHANGED <<peer, wire, delivered, queuedCount, failures>>,
           session' \in {session, "idle"}
    PROVE  Inv'
<1>1. /\ peer' = peer /\ wire' = wire /\ delivered' = delivered /\ queuedCount' = queuedCount
      /\ failures' = failures
  OBVIOUS
<1>2. DeliveredInOrder'
  BY DeliveredSame
<1>3. TypeOK'
  BY <1>1 DEF Inv, TypeOK
<1>4. \A r \in Peers : Shape(peer'[r], queuedCount'[r])
  BY <1>1 DEF Inv
<1>5. failures' = 0 => Sound'
  <2>1. TalkOf(Central) <=> TalkOf(Central)'
    BY <1>1 DEF TalkOf, Out
  <2> QED
    BY <1>1, <2>1 DEF Inv, Sound
<1> QED
  BY <1>2, <1>3, <1>4, <1>5 DEF Inv

\* One direction at the start of the session.
LEMMA InitialWay ==
    ASSUME NEW a \in Handlers, NEW b \in Handlers, a.queue = <<>>, b.partial = <<>>,
           D(b.prevIncoming, a.seq) = 0,
           Outstanding(a) = D(a.prevIncomingAck, b.prevAcked) + D(b.prevAcked, b.prevIncoming),
           Outstanding(a) <= WindowSize,
           HasAckNumber(b) => D(b.prevAcked, b.prevIncoming) > 0
    PROVE  Way(a, b, <<>>, <<>>, 0, 0)
<1>1. Len(<<>>) = 0 /\ 1 .. 0 = {} /\ 0 - 0 = 0
  OBVIOUS
<1>2. D(a.prevIncomingAck, b.prevAcked) \in Nat /\ D(b.prevAcked, b.prevIncoming) \in Nat
  BY HandlerFacts, DistanceNat
<1>3. Numbered(a, b, <<>>)
  BY <1>1 DEF Numbered
<1>4. Accounted(a, b, <<>>)
  BY <1>1, <1>2 DEF Accounted
<1>5. Acknowledged(a, b, <<>>)
  BY <1>1 DEF Acknowledged
<1>6. ReceivedTo(b, 0) = Position(0, 0, 0) /\ SentTo(a, 0) = Position(0, 0, 0)
  BY <1>1 DEF ReceivedTo, SentTo
<1>7. Chain(<<>>, Position(0, 0, 0), Position(0, 0, 0))
  BY <1>1 DEF Chain
<1>8. Collected(b, 0)
  BY <1>1 DEF Collected
<1> QED
  BY <1>3, <1>4, <1>5, <1>6, <1>7, <1>8 DEF Way, Window

\* After the handshake the central has one packet to acknowledge.
LEMMA InitInv ==
    ASSUME Init
    PROVE  Inv
<1> DEFINE a == peer[Central]
           b == peer[Peripheral]
<1>1. /\ a.seq = Unset /\ a.prevIncomingAck = Unset /\ a.prevIncoming = 0 /\ a.prevAcked = Unset
      /\ a.queue = <<>> /\ a.writes = {} /\ a.partial = <<>> /\ ~a.sendInProgress
  BY DEF Init, Peers
<1>2. /\ b.seq = 0 /\ b.prevIncomingAck = Unset /\ b.prevIncoming = SequenceSpace - 1
      /\ b.prevAcked = SequenceSpace - 1
      /\ b.queue = <<>> /\ b.writes = {} /\ b.partial = <<>> /\ ~b.sendInProgress
  BY PeersAssumption DEF Init, Peers
<1>3. Unset \in Numbers /\ 0 \in Numbers /\ SequenceSpace - 1 \in Numbers
  BY SpaceAssumption DEF Numbers, Unset
<1>4. ASSUME NEW p \in Peers PROVE peer[p] \in Handlers
  <2> DEFINE s == IF p = Central THEN Unset ELSE 0
             r == IF p = Central THEN 0 ELSE SequenceSpace - 1
             u == IF p = Central THEN Unset ELSE SequenceSpace - 1
             e == p = Central
             f == p = Peripheral
  <2>1. peer[p] = [seq |-> s, prevIncomingAck |-> Unset, prevIncoming |-> r, prevAcked |-> u,
                   queue |-> <<>>, sendInProgress |-> FALSE, writes |-> {}, partial |-> <<>>,
                   sendAckTimer |-> e, ackReceiveTimer |-> f, idleTimer |-> FALSE]
    BY <1>4 DEF Init
  <2>3. s \in Numbers /\ r \in Numbers /\ u \in Numbers
    BY <1>3
  <2>4. e \in BOOLEAN /\ f \in BOOLEAN
    OBVIOUS
  <2>2. <<>> \in Seq(Segments) /\ {} \in SUBSET Writes
    OBVIOUS
  <2> HIDE DEF s, r, u, e, f
  <2> QED
    BY <1>3, <2>1, <2>2, <2>3, <2>4 DEF Handlers
<1>5. /\ peer \in [Peers -> Handlers] /\ wire \in [Peers -> Seq(Packets)]
      /\ delivered \in [Peers -> Seq(Seq(Segments))] /\ queuedCount \in [Peers -> Nat]
      /\ failures \in 0 .. MaxFailures
  <2>1. peer \in [Peers -> Handlers]
    BY <1>4 DEF Init
  <2>2. wire \in [Peers -> Seq(Packets)] /\ delivered \in [Peers -> Seq(Seq(Segments))]
    BY DEF Init
  <2>3. queuedCount \in [Peers -> Nat] /\ failures \in 0 .. MaxFailures
    BY BoundsAssumption DEF Init
  <2> QED
    BY <2>1, <2>2, <2>3
<1>6. TypeOK
  BY <1>5 DEF TypeOK, Init
<1>7. ASSUME NEW p \in Peers PROVE Shape(peer[p], queuedCount[p])
  <2>1. peer[p].queue = <<>> /\ peer[p].writes = {} /\ ~peer[p].sendInProgress /\ queuedCount[p] = 0
    BY <1>7 DEF Init
  <2> QED
    BY <2>1 DEF Shape, OneWriter, Queued
<1>8. DeliveredInOrder
  <2>1. \A p \in Peers : Len(delivered[p]) = 0
    BY DEF Init
  <2> QED
    BY <2>1 DEF DeliveredInOrder
<1>9. /\ D(Unset, Unset) = 0 /\ D(0, 0) = 0 /\ D(SequenceSpace - 1, SequenceSpace - 1) = 0
  BY <1>3, DistanceToSelf
<1>10. D(Unset, 0) = 1 /\ D(Unset, SequenceSpace - 1) = 0 /\ D(SequenceSpace - 1, Unset) = 0
  <2> DEFINE last == SequenceSpace - 1
  <2>1. \A x, y \in Numbers : D(x, y) \in 0 .. SequenceSpace - 1
    BY DistanceIs
  <2>2. \A x, y \in Numbers :
           D(x, y) = y - x \/ D(x, y) = y - x + SequenceSpace \/ D(x, y) = y - x - SequenceSpace
    BY DistanceIs
  <2>3. last \in Numbers
    BY <1>3
  <2>4. last = SequenceSpace - 1 /\ SequenceSpace \in Nat /\ SequenceSpace > 1 /\ Unset = -1
    BY SpaceAssumption DEF Unset
  <2> HIDE DEF last
  <2>5. D(Unset, 0) = 1
    <3>1. /\ D(Unset, 0) \in 0 .. SequenceSpace - 1
          /\ \/ D(Unset, 0) = 0 - Unset \/ D(Unset, 0) = 0 - Unset + SequenceSpace
             \/ D(Unset, 0) = 0 - Unset - SequenceSpace
      BY <1>3, <2>1, <2>2
    <3> QED
      BY <2>4, <3>1
  <2>6. D(Unset, last) = 0
    <3>1. /\ D(Unset, last) \in 0 .. SequenceSpace - 1
          /\ \/ D(Unset, last) = last - Unset \/ D(Unset, last) = last - Unset + SequenceSpace
             \/ D(Unset, last) = last - Unset - SequenceSpace
      BY <1>3, <2>1, <2>2, <2>3
    <3> QED
      BY <2>4, <3>1
  <2>7. D(last, Unset) = 0
    <3>1. /\ D(last, Unset) \in 0 .. SequenceSpace - 1
          /\ \/ D(last, Unset) = Unset - last \/ D(last, Unset) = Unset - last + SequenceSpace
             \/ D(last, Unset) = Unset - last - SequenceSpace
      BY <1>3, <2>1, <2>2, <2>3
    <3> QED
      BY <2>4, <3>1
  <2> QED
    BY <2>5, <2>6, <2>7 DEF last
<1>11. Outstanding(a) = 0 /\ Outstanding(b) = 1
  BY <1>1, <1>2, <1>9, <1>10 DEF Outstanding, D
<1>12. Central \in Peers /\ Peripheral \in Peers /\ Other(Central) = Peripheral
  BY DEF Peers, Other
<1>13. a \in Handlers /\ b \in Handlers
  BY <1>4, <1>12
<1>14. /\ Out(Central) = <<>> /\ Out(Peripheral) = <<>>
       /\ queuedCount[Central] = 0 /\ queuedCount[Peripheral] = 0
       /\ Len(delivered[Central]) = 0 /\ Len(delivered[Peripheral]) = 0
  <2>1. wire[Central] = <<>> /\ wire[Peripheral] = <<>>
    BY <1>12 DEF Init
  <2>2. Out(Central) = <<>> /\ Out(Peripheral) = <<>>
    BY <1>1, <1>2, <2>1, StreamOnWire DEF Out
  <2> QED
    BY <1>12, <2>2 DEF Init
<1>15. HasAckNumber(b) <=> FALSE
  BY <1>2 DEF HasAckNumber
<1> HIDE DEF a, b
<1>16. Way(a, b, <<>>, <<>>, 0, 0)
  BY <1>1, <1>2, <1>9, <1>10, <1>11, <1>13, <1>15, SpaceAssumption, InitialWay
<1>17. Way(b, a, <<>>, <<>>, 0, 0)
  BY <1>1, <1>2, <1>9, <1>10, <1>11, <1>13, SpaceAssumption, InitialWay
<1>18. ~Full(a)
  BY <1>11, SpaceAssumption DEF Full
<1>19. TalkOf(Central)
  BY <1>12, <1>14, <1>16, <1>17, <1>18 DEF TalkOf, Talk, a, b
<1>20. Sound
  BY <1>19 DEF Sound, Init
<1> QED
  BY <1>6, <1>7, <1>8, <1>20 DEF Inv

-----------------------------------------------------------------------------
(***************************************************************************)
(* The theorems.                                                           *)
(***************************************************************************)

\* Every step keeps the invariant.
LEMMA NextInv ==
    Inv /\ [Next]_vars => Inv'
<1> SUFFICES ASSUME Inv, [Next]_vars PROVE Inv'
  OBVIOUS
<1>1. ASSUME NEW p \in Peers,
             \/ SendMatterMessage(p) \/ Transmit(p) \/ WriteDone(p) \/ WriteFails(p)
             \/ Receive(p) \/ ReceiveInvalid(p) \/ BtpSendAckTimeoutTriggered(p)
             \/ BtpAckTimeoutTriggered(p)
      PROVE  Inv'
  BY <1>1, SendMatterMessageInv, TransmitInv, WriteDoneInv, WriteFailsInv, ReceiveInv,
     ReceiveInvalidInv, BtpSendAckTimeoutTriggeredInv, BtpAckTimeoutTriggeredInv
<1>2. CASE IdleTimeout
  <2>1. UNCHANGED <<peer, wire, delivered, queuedCount, failures>> /\ session' = "idle"
    BY <1>2 DEF IdleTimeout
  <2> QED
    BY <2>1, SessionStep
<1>3. CASE UNCHANGED vars
  <2>1. UNCHANGED <<peer, wire, delivered, queuedCount, failures>> /\ session' = session
    BY <1>3 DEF vars
  <2> QED
    BY <2>1, SessionStep
<1> QED
  BY <1>1, <1>2, <1>3 DEF Next

\* Numbers, acknowledgements and segments fit together at every moment: the numbers under
\* way continue those received, what counts as outstanding is accounted for, each segment
\* begins where the last one ends, and two full windows are never left to each other.
THEOREM Invariance == Spec => []Inv
<1>1. Init => Inv
  BY InitInv
<1> QED
  BY <1>1, NextInv, PTL DEF Spec

\* Every number that a handler keeps or sends is a sequence number.
THEOREM TypeCorrect == Spec => []TypeOK
<1>1. Inv => TypeOK
  BY DEF Inv
<1> QED
  BY <1>1, Invariance, PTL

\* What one direction says of its sender a and receiver b.
LEMMA WindowBounds ==
    ASSUME Inv, failures = 0, NEW p \in Peers
    PROVE  /\ InFlight(p) = Len(Out(p)) /\ Len(Out(p)) \in Nat
           /\ Outstanding(peer[p]) \in 0 .. WindowSize
           /\ D(peer[p].prevIncomingAck, peer[Other(p)].prevAcked) \in 0 .. Outstanding(peer[p])
           /\ D(peer[Other(p)].prevAcked, peer[Other(p)].prevIncoming) + InFlight(p) <= WindowSize
<1> DEFINE a == peer[p]
           b == peer[Other(p)]
<1>1. /\ a \in Handlers /\ Shape(a, queuedCount[p]) /\ wire[p] \in Seq(Packets)
      /\ Other(p) \in Peers /\ b \in Handlers /\ TalkOf(p)
  BY InvFacts, Others
<1>2. OneWriter(a)
  BY <1>1 DEF Shape
<1>3. InFlight(p) = Len(Out(p))
  BY <1>1, <1>2, StreamType DEF InFlight, Out, Unsent
<1>4. Len(Out(p)) \in Nat
  BY InvFacts
<1>5. Accounted(a, b, Out(p))
  BY <1>1 DEF TalkOf, Talk, Way, Window
<1>6. /\ D(a.prevIncomingAck, b.prevAcked) \in Nat /\ D(b.prevAcked, b.prevIncoming) \in Nat
  BY <1>1, HandlerFacts, DistanceNat
<1> HIDE DEF a, b
<1>7. /\ Outstanding(a) = D(a.prevIncomingAck, b.prevAcked)
                          + D(b.prevAcked, b.prevIncoming) + Len(Out(p))
      /\ Outstanding(a) <= WindowSize
  BY <1>5 DEF Accounted
<1>8. /\ Outstanding(a) \in 0 .. WindowSize
      /\ D(a.prevIncomingAck, b.prevAcked) \in 0 .. Outstanding(a)
      /\ D(b.prevAcked, b.prevIncoming) + Len(Out(p)) <= WindowSize
  BY <1>4, <1>6, <1>7, SpaceAssumption
<1> QED
  BY <1>3, <1>4, <1>8 DEF a, b

\* The windows hold in both directions and across the wrap of the numbers: a sender never
\* has more under way than the receiver has room for, and every acknowledgement that
\* arrives acknowledges something sent and not acknowledged before.
THEOREM Windows == Spec => []WindowsRespected
<1>1. ASSUME Inv PROVE ReceiverNotOverrun
  <2>1. ASSUME failures = 0, NEW p \in Peers
        PROVE  InFlight(p) <= LocalWindowFreeSlots(peer[Other(p)])
    <3> DEFINE b == peer[Other(p)]
               x == D(b.prevAcked, b.prevIncoming)
    <3>1. b \in Handlers
      BY <1>1, InvFacts, Others
    <3>2. x \in Nat
      BY <3>1, HandlerFacts, DistanceNat
    <3>3. InFlight(p) \in Nat /\ x + InFlight(p) <= WindowSize
      BY <1>1, <2>1, WindowBounds
    <3>4. LocalWindowFreeSlots(b) = WindowSize - x
      BY DEF LocalWindowFreeSlots, D
    <3> HIDE DEF x
    <3> QED
      BY <3>2, <3>3, <3>4, SpaceAssumption
  <2> QED
    BY <2>1 DEF ReceiverNotOverrun
<1>2. ASSUME Inv PROVE AcksAdvance
  <2> DEFINE dist(p, i) == ModularDistance(peer[p].prevIncomingAck, wire[Other(p)][i].ack)
  <2>1. ASSUME failures = 0, NEW p \in Peers, NEW i \in 1 .. Len(wire[Other(p)]),
               wire[Other(p)][i].ack # NoAck
        PROVE  /\ dist(p, i) \in 1 .. Outstanding(peer[p])
               /\ \A j \in 1 .. Len(wire[Other(p)]) :
                     wire[Other(p)][j].ack # NoAck /\ j < i => dist(p, j) < dist(p, i)
    <3> DEFINE q == Other(p)
               a == peer[p]
               b == peer[q]
               in == wire[q]
               back == Out(q)
    <3>1. /\ q \in Peers /\ b \in Handlers /\ Shape(b, queuedCount[q]) /\ in \in Seq(Packets)
          /\ TalkOf(p)
      BY <1>2, <2>1, InvFacts, Others
    <3>2. OneWriter(b)
      BY <3>1 DEF Shape
    <3>3. \A j \in 1 .. Len(in) : j \in 1 .. Len(back) /\ back[j] = in[j]
      BY <3>1, <3>2, StreamType DEF Out
    <3>4. Acknowledged(a, b, back)
      BY <3>1 DEF TalkOf, Talk, Way, Window
    <3>5. /\ D(a.prevIncomingAck, b.prevAcked) \in 0 .. Outstanding(a)
          /\ Outstanding(a) \in 0 .. WindowSize
      BY <1>2, <2>1, WindowBounds
    <3>6. \A j \in 1 .. Len(in) : dist(p, j) = D(a.prevIncomingAck, back[j].ack)
      BY <3>3 DEF D
    <3> HIDE DEF a, b, in, back, q, dist
    <3>7. i \in 1 .. Len(in) /\ i \in 1 .. Len(back) /\ back[i].ack # NoAck
      BY <2>1, <3>3 DEF in, q
    <3>8. D(a.prevIncomingAck, back[i].ack) \in 1 .. D(a.prevIncomingAck, b.prevAcked)
      BY <3>4, <3>7 DEF Acknowledged
    <3>9. dist(p, i) \in 1 .. Outstanding(a)
      BY <3>5, <3>6, <3>7, <3>8
    <3>10. ASSUME NEW j \in 1 .. Len(in), in[j].ack # NoAck, j < i
           PROVE  dist(p, j) < dist(p, i)
      <4>1. j \in 1 .. i - 1 /\ back[j].ack # NoAck
        BY <3>3, <3>7, <3>10
      <4>2. D(a.prevIncomingAck, back[j].ack) < D(a.prevIncomingAck, back[i].ack)
        BY <3>4, <3>7, <4>1 DEF Acknowledged
      <4> QED
        BY <3>6, <3>7, <4>2
    <3> QED
      BY <3>9, <3>10 DEF a, in, q
  <2> QED
    BY <2>1 DEF AcksAdvance
<1> QED
  BY <1>1, <1>2, Invariance, PTL DEF WindowsRespected

\* A handler never refuses a packet of its peer, unless a write has failed.
THEOREM NoRefusal == Spec => []NoProtocolError
<1>1. ASSUME Inv PROVE NoProtocolError
  <2>1. failures \in 0 .. MaxFailures /\ (failures = 0 => session # "protocolError")
    BY <1>1 DEF Inv, Sound, TypeOK
  <2> QED
    BY <2>1, BoundsAssumption DEF NoProtocolError
<1> QED
  BY <1>1, Invariance, PTL

\* Messages are delivered whole, once and in the order they were queued, unless a write
\* has failed.
THEOREM InOrder == Spec => []DeliveredInOrder
<1>1. Inv => DeliveredInOrder
  BY DEF Inv
<1> QED
  BY <1>1, Invariance, PTL

\* Two full windows never block both peers: the last slot of a window goes only to a
\* packet that carries an acknowledgement, and that one opens the other window.
THEOREM NoBlock == Spec => []NotBothBlocked
<1>1. ASSUME Inv, failures = 0, \A p \in Peers : InFlight(p) = 0
      PROVE  \E p \in Peers : CanSend(peer[p], TRUE)
  <2> DEFINE q == Other(Central)
  <2>1. Central \in Peers /\ q \in Peers
    BY Others DEF Peers
  <2>2. \A p \in Peers : Len(Out(p)) = 0 /\ Outstanding(peer[p]) \in 0 .. WindowSize
    BY <1>1, WindowBounds
  <2>3. ~CarriesAck(Out(Central)) /\ ~CarriesAck(Out(q))
    BY <2>1, <2>2 DEF CarriesAck
  <2>4. ~(Full(peer[Central]) /\ Full(peer[q]))
    BY <1>1, <2>3 DEF Inv, Sound, TalkOf, Talk
  <2>5. PICK p \in Peers : Outstanding(peer[p]) # WindowSize
    BY <2>1, <2>4 DEF Full
  <2>6. RemoteWindowFreeSlots(peer[p]) > 0
    BY <2>2, <2>5, SpaceAssumption DEF RemoteWindowFreeSlots
  <2> QED
    BY <2>6 DEF CanSend
<1>2. Inv => NotBothBlocked
  BY <1>1 DEF NotBothBlocked
<1> QED
  BY <1>2, Invariance, PTL
=============================================================================
