------------------------- MODULE MessageExchangeProofs -------------------------
(***************************************************************************)
(* MessageExchange implements ReliableDelivery, and what its timers, its   *)
(* retransmission budget and its acknowledgements keep to, for any number  *)
(* of messages and of objects, any budget and any bounds.                  *)
(***************************************************************************)
EXTENDS MessageExchange, FiniteSetTheorems, TLAPS

Fields == {"kind", "used", "closing", "closed", "closeCause", "isDestroyed", "closeTimer",
           "sent", "armed", "call", "settled", "counter", "timer", "running", "inFlight",
           "toAck", "ackTimer", "suspended", "closers", "sends", "refusals", "stranded"}

\* The calls and timers that go on closing an object.
Closers == {"close", "force", "destroy", "late", "timer"}

\* What the fields of an object x of side s have to do with the outcomes "out" and
\* the accepted messages "sn": whatever it owes an ack for is accepted; timers
\* belong to messages; a call of send() belongs to a pending message, and its
\* promise is settled by an ack only if the peer has accepted that message.
Sound(s, x, out, sn) ==
    /\ DOMAIN x = Fields
    /\ x.toAck \in {0} \cup sn[s]
    /\ x.suspended \subseteq sn[s]
    /\ x.sent = NoMessage \/ x.sent.id \in Numbers(s)
    /\ \A t \in x.running \cup x.inFlight : t.id \in Numbers(s)
    /\ x.settled \in {"no", "acked", "closed", "failed"}
    /\ x.call # "none" =>
          /\ x.timer.id \in Numbers(s)
          /\ out[s][x.timer.id] = "pending"
          /\ x.sent = NoMessage \/ x.sent.id = x.timer.id
          /\ x.settled = "acked" => x.timer.id \in sn[Other(s)]

Shape ==
    /\ DOMAIN ex = Exchanges
    /\ DOMAIN outcome = Sides /\ \A s \in Sides : DOMAIN outcome[s] = Numbers(s)
    /\ DOMAIN delivered = Sides
    /\ \A s \in Sides : delivered[s] \in [Numbers(Other(s)) -> {0, 1}]
    /\ seen \in [Sides -> SUBSET Nat]
    /\ \A s \in Sides : seen[s] \subseteq Numbers(Other(s))

\* A message on the wire was sent, and acknowledges what its sender has accepted.
NetSound ==
    \A m \in net :
        /\ m.from \in Sides
        /\ m.id \in {0} \cup Numbers(m.from)
        /\ m.id # 0 => outcome[m.from][m.id] # "unsent"
        /\ m.ack \in {0} \cup seen[m.from]

ObjectsSound == \A e \in Exchanges : Sound(Side(e), ex[e], outcome, seen)

\* No two calls wait for the same message, and no two handlers hold one.
Separate ==
    \A e, f \in Exchanges : e # f /\ Side(e) = Side(f) =>
        /\ ex[e].call # "none" /\ ex[f].call # "none" => ex[e].timer.id # ex[f].timer.id
        /\ ex[e].suspended \cap ex[f].suspended = {}

\* A message is delivered after it was accepted, and not while a handler holds it.
DeliveredSound ==
    /\ \A s \in Sides : \A i \in Numbers(Other(s)) : delivered[s][i] = 1 => i \in seen[s]
    /\ \A e \in Exchanges : \A i \in ex[e].suspended : delivered[Side(e)][i] = 0

Inv == Shape /\ NetSound /\ ObjectsSound /\ Separate /\ DeliveredSound

-----------------------------------------------------------------------------
(***************************************************************************)
(* What the methods do to an object.                                       *)
(***************************************************************************)

\* y comes of x by a method: no handler is suspended or resumed, and a call in
\* progress is that of x.
Kin(x, y) ==
    /\ y.suspended = x.suspended
    /\ y.call # "none" => x.call # "none" /\ y.timer.id = x.timer.id

\* Settling the promise keeps an object sound, if an ack is a true one.
LEMMA SettleSound ==
    ASSUME NEW s, NEW x, NEW out, NEW sn, Sound(s, x, out, sn),
           NEW how \in {"acked", "closed", "failed"},
           how = "acked" /\ x.call # "none" => x.timer.id \in sn[Other(s)]
    PROVE  /\ Sound(s, Settle(x, how), out, sn) /\ Kin(x, Settle(x, how))
           /\ \A f \in Fields \ {"settled"} : Settle(x, how)[f] = x[f]
  BY DEF Sound, Settle, Kin, Fields

\* #close keeps an object sound.
LEMMA ClosedSound ==
    ASSUME NEW s, NEW x, NEW out, NEW sn, Sound(s, x, out, sn), NEW cause
    PROVE  Sound(s, Closed(x, cause), out, sn) /\ Kin(x, Closed(x, cause))
<1> DEFINE y == Settle(x, "closed")
<1>1. Sound(s, y, out, sn) /\ Kin(x, y) /\ \A f \in Fields \ {"settled"} : y[f] = x[f]
  BY SettleSound
<1> HIDE DEF y
<1> QED
  BY <1>1 DEF Sound, Kin, Fields, Closed, y

\* An acknowledgement the peer really gave keeps an object sound.
LEMMA AckedSound ==
    ASSUME NEW s, NEW x, NEW out, NEW sn, Sound(s, x, out, sn),
           x.call # "none" => x.timer.id \in sn[Other(s)]
    PROVE  Sound(s, Acked(x), out, sn) /\ Kin(x, Acked(x))
<1> DEFINE y == Settle(x, "acked")
<1>1. Sound(s, y, out, sn) /\ Kin(x, y) /\ \A f \in Fields \ {"settled"} : y[f] = x[f]
  BY SettleSound
<1> HIDE DEF y
<1> QED
  BY <1>1 DEF Sound, Kin, Fields, Acked, y

\* A message that acknowledges what the peer has accepted settles soundly.
LEMMA TakeAckSound ==
    ASSUME NEW s \in Sides, NEW x, NEW out, NEW sn, Sound(s, x, out, sn), NEW m,
           m.ack \in {0} \cup sn[Other(s)]
    PROVE  Sound(s, TakeAck(x, m), out, sn) /\ Kin(x, TakeAck(x, m))
<1>1. CASE x.sent = NoMessage \/ m.ack # x.sent.id
  BY <1>1 DEF TakeAck, Kin
<1>2. CASE x.sent # NoMessage /\ m.ack = x.sent.id
  <2>1. x.sent.id \in sn[Other(s)]
    BY <1>2 DEF Sound, Numbers
  <2>2. Sound(s, Acked(x), out, sn) /\ Kin(x, Acked(x))
    BY <1>2, <2>1, AckedSound DEF Sound
  <2>3. Sound(s, Closed(Acked(x), FALSE), out, sn) /\ Kin(Acked(x), Closed(Acked(x), FALSE))
    BY <2>2, ClosedSound
  <2> QED
    BY <1>2, <2>2, <2>3 DEF TakeAck, Kin
<1> QED
  BY <1>1, <1>2

\* Giving a message up keeps an object sound.
LEMMA GiveUpSound ==
    ASSUME NEW s, NEW x, NEW out, NEW sn, Sound(s, x, out, sn)
    PROVE  Sound(s, GiveUp(x), out, sn) /\ Kin(x, GiveUp(x))
<1> DEFINE y == Settle(x, "failed")
           z == IF x.armed THEN [y EXCEPT !.toAck = 0, !.armed = FALSE] ELSE x
<1>1. Sound(s, y, out, sn) /\ Kin(x, y) /\ \A f \in Fields \ {"settled"} : y[f] = x[f]
  BY SettleSound
<1>2. Sound(s, z, out, sn) /\ Kin(x, z)
  <2> HIDE DEF y
  <2> QED
    BY <1>1 DEF Sound, Kin, Fields
<1>3. Sound(s, Closed(z, FALSE), out, sn) /\ Kin(z, Closed(z, FALSE))
  <2> HIDE DEF z
  <2> QED
    BY <1>2, ClosedSound
<1>4. GiveUp(x) = IF x.closeTimer # "undefined" THEN Closed(z, FALSE) ELSE z
  BY DEF GiveUp
<1> HIDE DEF z
<1> QED
  BY <1>2, <1>3, <1>4 DEF Kin

\* So does the end of close().
LEMMA CloseOrWaitSound ==
    ASSUME NEW s, NEW x, NEW out, NEW sn, Sound(s, x, out, sn), NEW cause
    PROVE  Sound(s, CloseOrWait(x, cause), out, sn) /\ Kin(x, CloseOrWait(x, cause))
<1> DEFINE w == [x EXCEPT !.closeTimer = "running",
                          !.closers = IF x.closeTimer = "running" THEN @ \cup {"timer"} ELSE @]
<1>1. Sound(s, w, out, sn) /\ Kin(x, w)
  BY DEF Sound, Kin, Fields
<1>2. Sound(s, Closed(x, cause), out, sn) /\ Kin(x, Closed(x, cause))
  BY ClosedSound
<1>3. CloseOrWait(x, cause) \in {w, Closed(x, cause)}
  BY DEF CloseOrWait
<1> HIDE DEF w
<1> QED
  BY <1>1, <1>2, <1>3

\* close() keeps an object sound.
LEMMA CloseObjectSound ==
    ASSUME NEW s, NEW x, NEW out, NEW sn, Sound(s, x, out, sn), NEW cause
    PROVE  Sound(s, CloseObject(x, cause), out, sn) /\ Kin(x, CloseObject(x, cause))
<1> DEFINE y == [x EXCEPT !.closing = TRUE]
           w == AckTaken(y, CloseCall(cause))
<1>1. Sound(s, y, out, sn) /\ Kin(x, y) /\ Sound(s, w, out, sn) /\ Kin(x, w)
  BY DEF Sound, Kin, Fields, AckTaken
<1>2. Sound(s, CloseOrWait(y, cause), out, sn) /\ Kin(y, CloseOrWait(y, cause))
  <2> HIDE DEF y
  <2> QED
    BY <1>1, CloseOrWaitSound
<1>3. /\ Sound(s, Closed(x, cause), out, sn) /\ Kin(x, Closed(x, cause))
      /\ Sound(s, Closed(x, TRUE), out, sn) /\ Kin(x, Closed(x, TRUE))
  BY ClosedSound
<1>4. CloseObject(x, cause)
        \in {x, w, Closed(x, TRUE), Closed(x, cause), CloseOrWait(y, cause)}
  BY DEF CloseObject
<1> HIDE DEF y, w
<1> QED
  BY <1>1, <1>2, <1>3, <1>4 DEF Kin

\* So does the wait after the last transmission: it belongs to the same message.
LEMMA FinalWaitSound ==
    ASSUME NEW s, NEW x, NEW out, NEW sn, Sound(s, x, out, sn),
           NEW t, t.id \in Numbers(s), StillPending(x, t)
    PROVE  Sound(s, FinalWait(x, t), out, sn) /\ Kin(x, FinalWait(x, t))
  BY DEF Sound, Kin, Fields, FinalWait, StillPending, NoMessage, Numbers

-----------------------------------------------------------------------------
(***************************************************************************)
(* The shape of a step.  Every step changes one object e, begins or ends   *)
(* at most the call of send() of that object, and accepts or delivers at   *)
(* the side of e.                                                          *)
(***************************************************************************)

ObjectBecomes(e, z) ==
    /\ DOMAIN ex' = Exchanges
    /\ \A f \in Exchanges : ex'[f] = IF f = e THEN z ELSE ex[f]

\* A call in progress is the one there was, or it sends a new message.
CallKept(e, z) ==
    z.call # "none" => \/ ex[e].call # "none" /\ z.timer.id = ex[e].timer.id
                       \/ outcome[Side(e)][z.timer.id] = "unsent"

OutcomeShape ==
    DOMAIN outcome = Sides /\ \A s \in Sides : DOMAIN outcome[s] = Numbers(s)

Ended == {"acked", "closed", "failed", "aborted", "error"}

OutcomeMoves(e) ==
    /\ OutcomeShape'
    /\ outcome'[Other(Side(e))] = outcome[Other(Side(e))]
    /\ \A i \in Numbers(Side(e)) :
          \/ outcome'[Side(e)][i] = outcome[Side(e)][i]
          \/ outcome[Side(e)][i] = "unsent" /\ outcome'[Side(e)][i] = "pending"
          \/ /\ ex[e].call # "none" /\ i = ex[e].timer.id
             /\ outcome[Side(e)][i] = "pending" /\ outcome'[Side(e)][i] \in Ended
             /\ outcome'[Side(e)][i] = "acked" => i \in seen[Other(Side(e))]

SeenMoves(e) ==
    /\ seen' \in [Sides -> SUBSET Nat]
    /\ seen'[Other(Side(e))] = seen[Other(Side(e))]
    /\ seen[Side(e)] \subseteq seen'[Side(e)]
    /\ seen'[Side(e)] \subseteq Numbers(Other(Side(e)))

\* Messages are accepted that were sent; one is delivered when it is accepted or
\* when the handler that holds it resumes.
DeliveryMoves(e, z) ==
    LET a == Side(e) IN
    /\ DOMAIN delivered' = Sides /\ delivered'[Other(a)] = delivered[Other(a)]
    /\ delivered'[a] \in [Numbers(Other(a)) -> {0, 1}]
    /\ \A i \in seen'[a] \ seen[a] : outcome[Other(a)][i] # "unsent"
    /\ \A i \in Numbers(Other(a)) :
          \/ delivered'[a][i] = delivered[a][i]
          \/ delivered'[a][i] = 1 /\ i \in seen'[a] \ seen[a]
          \/ delivered'[a][i] = 1 /\ i \in ex[e].suspended \ z.suspended
    /\ \A i \in z.suspended : i \in ex[e].suspended \/ (i \notin seen[a] /\ delivered'[a][i] = 0)

NetMoves(e) ==
    \A m \in net' \ net :
        /\ m.from = Side(e) /\ m.ack \in {0} \cup seen'[Side(e)]
        /\ m.id = 0 \/ (m.id \in Numbers(Side(e)) /\ outcome'[Side(e)][m.id] # "unsent")

StepOf(e, z) ==
    /\ ObjectBecomes(e, z) /\ CallKept(e, z) /\ Sound(Side(e), z, outcome', seen')
    /\ OutcomeMoves(e) /\ SeenMoves(e) /\ DeliveryMoves(e, z) /\ NetMoves(e)

\* There are two sides, and every object is on one of them.
LEMMA SidesFacts ==
    /\ \A e \in Exchanges : Side(e) \in Sides
    /\ \A s \in Sides : Other(s) \in Sides /\ Other(s) # s /\ Other(Other(s)) = s
    /\ \A s, r \in Sides : r = s \/ r = Other(s)
  BY DEF Side, Sides, Other

\* A step of this shape keeps the invariant.
LEMMA StepKeepsInv ==
    ASSUME Inv, NEW e \in Exchanges, NEW z, StepOf(e, z)
    PROVE  Inv'
<1> DEFINE a == Side(e)
<1>0. a \in Sides /\ Other(a) \in Sides /\ Other(a) # a /\ Other(Other(a)) = a
  BY SidesFacts
<1>1. Shape'
  <2>1. \A s \in Sides : /\ delivered'[s] \in [Numbers(Other(s)) -> {0, 1}]
                         /\ seen'[s] \subseteq Numbers(Other(s))
    BY <1>0, SidesFacts DEF StepOf, DeliveryMoves, SeenMoves, Inv, Shape
  <2> QED
    BY <2>1 DEF StepOf, ObjectBecomes, OutcomeMoves, OutcomeShape, SeenMoves, DeliveryMoves, Shape
<1>2. \A s \in Sides : seen[s] \subseteq seen'[s]
  BY <1>0, SidesFacts DEF StepOf, SeenMoves
<1>3. \A s \in Sides : \A i \in Numbers(s) : outcome[s][i] # "unsent" => outcome'[s][i] # "unsent"
  <2> SUFFICES ASSUME NEW s \in Sides, NEW i \in Numbers(s), outcome[s][i] # "unsent"
               PROVE  outcome'[s][i] # "unsent"
    OBVIOUS
  <2>1. CASE s = a
    BY <2>1 DEF StepOf, OutcomeMoves, Ended
  <2>2. CASE s = Other(a)
    BY <2>2 DEF StepOf, OutcomeMoves
  <2> QED
    BY <1>0, <2>1, <2>2, SidesFacts
<1>4. NetSound'
  <2> SUFFICES ASSUME NEW m \in net'
               PROVE  /\ m.from \in Sides
                      /\ m.id \in {0} \cup Numbers(m.from)
                      /\ m.id # 0 => outcome'[m.from][m.id] # "unsent"
                      /\ m.ack \in {0} \cup seen'[m.from]
    BY DEF NetSound
  <2>1. CASE m \in net
    BY <2>1, <1>2, <1>3 DEF Inv, NetSound
  <2>2. CASE m \notin net
    BY <2>2, <1>0 DEF StepOf, NetMoves
  <2> QED
    BY <2>1, <2>2
<1>5. ObjectsSound'
  <2> SUFFICES ASSUME NEW f \in Exchanges
               PROVE  Sound(Side(f), ex'[f], outcome', seen')
    BY DEF ObjectsSound
  <2>1. CASE f = e
    BY <2>1 DEF StepOf, ObjectBecomes
  <2>2. CASE f # e
    <3>1. ex'[f] = ex[f] /\ Sound(Side(f), ex[f], outcome, seen)
      BY <2>2 DEF StepOf, ObjectBecomes, Inv, ObjectsSound
    <3>2. ex[f].call # "none" => outcome'[Side(f)][ex[f].timer.id] = "pending"
      <4> SUFFICES ASSUME ex[f].call # "none"
                   PROVE  outcome'[Side(f)][ex[f].timer.id] = "pending"
        OBVIOUS
      <4>1. ex[f].timer.id \in Numbers(Side(f)) /\ outcome[Side(f)][ex[f].timer.id] = "pending"
        BY <3>1 DEF Sound
      <4>2. CASE Side(f) = a
        <5>1. ~(ex[e].call # "none" /\ ex[f].timer.id = ex[e].timer.id)
          BY <2>2, <4>2 DEF Inv, Separate
        <5> QED
          BY <4>1, <4>2, <5>1 DEF StepOf, OutcomeMoves
      <4>3. CASE Side(f) = Other(a)
        BY <4>1, <4>3 DEF StepOf, OutcomeMoves
      <4> QED
        BY <1>0, <4>2, <4>3, SidesFacts
    <3>3. Side(f) \in Sides /\ Other(Side(f)) \in Sides
      BY SidesFacts
    <3> QED
      BY <1>2, <3>1, <3>2, <3>3 DEF Sound
  <2> QED
    BY <2>1, <2>2
<1>6. Separate'
  <2> SUFFICES ASSUME NEW f \in Exchanges, f # e, Side(f) = a
               PROVE  /\ z.call # "none" /\ ex[f].call # "none" => z.timer.id # ex[f].timer.id
                      /\ z.suspended \cap ex[f].suspended = {}
    BY DEF Separate, StepOf, ObjectBecomes, Inv
  <2>1. z.call # "none" /\ ex[f].call # "none" => z.timer.id # ex[f].timer.id
    BY DEF StepOf, CallKept, Inv, Separate, ObjectsSound, Sound
  <2>2. ex[f].suspended \subseteq seen[a]
    BY DEF Inv, ObjectsSound, Sound
  <2>3. ex[e].suspended \cap ex[f].suspended = {}
    BY DEF Inv, Separate
  <2> QED
    BY <2>1, <2>2, <2>3 DEF StepOf, DeliveryMoves
<1>7. DeliveredSound'
  <2>1. \A s \in Sides : \A i \in Numbers(Other(s)) : delivered'[s][i] = 1 => i \in seen'[s]
    <3> SUFFICES ASSUME NEW s \in Sides, NEW i \in Numbers(Other(s)), delivered'[s][i] = 1
                 PROVE  i \in seen'[s]
      OBVIOUS
    <3>1. ex[e].suspended \subseteq seen[a]
      BY DEF Inv, ObjectsSound, Sound
    <3>2. CASE s = a
      BY <1>2, <3>1, <3>2 DEF StepOf, DeliveryMoves, Inv, DeliveredSound
    <3>3. CASE s = Other(a)
      BY <1>2, <3>3 DEF StepOf, DeliveryMoves, Inv, DeliveredSound
    <3> QED
      BY <1>0, <3>2, <3>3, SidesFacts
  <2>2. ASSUME NEW f \in Exchanges, NEW i \in ex'[f].suspended
        PROVE  delivered'[Side(f)][i] = 0
    <3>1. CASE f = e
      <4>1. ex'[f] = z /\ i \in z.suspended
        BY <3>1, <2>2 DEF StepOf, ObjectBecomes
      <4>2. i \in ex[e].suspended => delivered[a][i] = 0 /\ i \in seen[a]
        BY DEF Inv, DeliveredSound, ObjectsSound, Sound
      <4>3. i \in Numbers(Other(a))
        BY <4>1, <1>0 DEF StepOf, Sound, SeenMoves
      <4> QED
        BY <3>1, <4>1, <4>2, <4>3 DEF StepOf, DeliveryMoves
    <3>2. CASE f # e
      <4>1. i \in ex[f].suspended /\ i \in seen[Side(f)] /\ delivered[Side(f)][i] = 0
        BY <3>2, <2>2 DEF StepOf, ObjectBecomes, Inv, DeliveredSound, ObjectsSound, Sound
      <4>2. CASE Side(f) = a
        <5>1. i \notin ex[e].suspended
          BY <3>2, <4>1, <4>2 DEF Inv, Separate
        <5>2. i \in Numbers(Other(a))
          BY <1>0, <4>1, <4>2 DEF Inv, Shape
        <5> QED
          BY <4>1, <4>2, <5>1, <5>2 DEF StepOf, DeliveryMoves
      <4>3. CASE Side(f) = Other(a)
        BY <4>1, <4>3 DEF StepOf, DeliveryMoves
      <4> QED
        BY <1>0, <4>2, <4>3, SidesFacts
    <3> QED
      BY <3>1, <3>2
  <2> QED
    BY <2>1, <2>2 DEF DeliveredSound
<1> QED
  BY <1>1, <1>4, <1>5, <1>6, <1>7 DEF Inv

Refines == \A s \in Sides : \A i \in Numbers(s) : [Delivery(s, i)!Next]_(Delivery(s, i)!vars)

\* A step of this shape is a step of ReliableDelivery, or none, for every message.
LEMMA StepRefines ==
    ASSUME Inv, NEW e \in Exchanges, NEW z, StepOf(e, z)
    PROVE  Refines
<1> DEFINE a == Side(e)
<1>0. a \in Sides /\ Other(a) \in Sides /\ Other(a) # a /\ Other(Other(a)) = a
  BY SidesFacts
<1> SUFFICES ASSUME NEW s \in Sides, NEW i \in Numbers(s)
             PROVE  [Delivery(s, i)!Next]_(Delivery(s, i)!vars)
  BY DEF Refines
<1>1. CASE s = a
  <2>1. /\ (i \in seen'[Other(s)]) = (i \in seen[Other(s)])
        /\ delivered'[Other(s)][i] = delivered[Other(s)][i]
    BY <1>1 DEF StepOf, SeenMoves, DeliveryMoves
  <2>2. \/ outcome'[s][i] = outcome[s][i]
        \/ outcome[s][i] = "unsent" /\ outcome'[s][i] = "pending"
        \/ /\ outcome[s][i] = "pending" /\ outcome'[s][i] \in Ended
           /\ outcome'[s][i] = "acked" => i \in seen[Other(s)]
    BY <1>1 DEF StepOf, OutcomeMoves
  <2> QED
    BY <2>1, <2>2 DEF Delivery!Next, Delivery!vars, Delivery!Submit, Delivery!Report, Ended
<1>2. CASE s = Other(a)
  <2>1. outcome'[s][i] = outcome[s][i]
    BY <1>2 DEF StepOf, OutcomeMoves
  <2>2. i \in Numbers(Other(a)) /\ Other(s) = a
    BY <1>0, <1>2
  <2>3. delivered[a][i] \in {0, 1} /\ delivered'[a][i] \in {0, 1}
    BY <1>0, <2>2 DEF StepOf, DeliveryMoves, Inv, Shape
  <2>4. ex[e].suspended \subseteq seen[a] /\ \A j \in ex[e].suspended : delivered[a][j] = 0
    BY DEF Inv, ObjectsSound, Sound, DeliveredSound
  <2>5. CASE i \in seen'[a] \ seen[a]
    BY <1>2, <2>1, <2>2, <2>3, <2>5
       DEF StepOf, DeliveryMoves, Delivery!Next, Delivery!Take
  <2>6. CASE i \notin seen'[a] \ seen[a]
    <3>1. i \in seen[a] <=> i \in seen'[a]
      BY <2>6 DEF StepOf, SeenMoves
    <3>2. \/ delivered'[a][i] = delivered[a][i]
          \/ delivered'[a][i] = 1 /\ delivered[a][i] = 0 /\ i \in seen[a]
      BY <2>2, <2>4, <2>6 DEF StepOf, DeliveryMoves
    <3> QED
      BY <2>1, <2>2, <3>1, <3>2 DEF Delivery!Next, Delivery!vars, Delivery!Deliver
  <2> QED
    BY <2>5, <2>6
<1> QED
  BY <1>0, <1>1, <1>2, SidesFacts

\* What Become makes of a sound object.
LEMMA BecomeMoves ==
    ASSUME Inv, NEW e \in Exchanges, NEW y, Sound(Side(e), y, outcome, seen'),
           CallKept(e, y), seen'[Other(Side(e))] = seen[Other(Side(e))], Become(e, y)
    PROVE  \E z : /\ ObjectBecomes(e, z) /\ CallKept(e, z) /\ Sound(Side(e), z, outcome', seen')
                  /\ OutcomeMoves(e) /\ z.suspended = y.suspended
<1> DEFINE a == Side(e)
           r == [y EXCEPT !.call = "none", !.settled = "no", !.armed = FALSE,
                          !.running = IF y.settled = "failed" THEN @ \ {y.timer} ELSE @]
<1>0. a \in Sides /\ Other(a) \in Sides /\ Other(a) # a
  BY SidesFacts
<1>1. CASE y.call = "waiting" /\ y.settled # "no"
  <2>1. ex' = [ex EXCEPT ![e] = r] /\ outcome' = [outcome EXCEPT ![a][y.timer.id] = y.settled]
    BY <1>1 DEF Become
  <2>2. ObjectBecomes(e, r)
    BY <2>1 DEF ObjectBecomes, Inv, Shape
  <2>3. r.call = "none" /\ r.suspended = y.suspended
    BY DEF Sound, Fields
  <2>4. Sound(a, r, outcome', seen')
    BY DEF Sound, Fields
  <2>5. OutcomeMoves(e)
    <3>1. /\ y.timer.id \in Numbers(a) /\ outcome[a][y.timer.id] = "pending"
          /\ y.timer.id = ex[e].timer.id /\ ex[e].call # "none"
          /\ y.settled \in {"acked", "closed", "failed"}
          /\ y.settled = "acked" => y.timer.id \in seen[Other(a)]
      BY <1>1 DEF Sound, CallKept
    <3>2. OutcomeShape'
      BY <1>0, <2>1, <3>1 DEF OutcomeShape, Inv, Shape
    <3> QED
      BY <1>0, <2>1, <3>1, <3>2 DEF OutcomeMoves, Ended, Inv, Shape
  <2> QED
    BY <2>2, <2>3, <2>4, <2>5 DEF CallKept
<1>2. CASE ~(y.call = "waiting" /\ y.settled # "no")
  <2>1. ex' = [ex EXCEPT ![e] = y] /\ outcome' = outcome
    BY <1>2 DEF Become
  <2>2. ObjectBecomes(e, y)
    BY <2>1 DEF ObjectBecomes, Inv, Shape
  <2>3. OutcomeMoves(e)
    BY <1>0, <2>1 DEF OutcomeMoves, OutcomeShape, Inv, Shape
  <2> QED
    BY <2>1, <2>2, <2>3
<1> QED
  BY <1>1, <1>2

-----------------------------------------------------------------------------
(***************************************************************************)
(* The steps.                                                              *)
(***************************************************************************)

\* A step that accepts and delivers nothing, and holds no further message.
LEMMA NothingReceived ==
    ASSUME Inv, NEW e \in Exchanges, NEW z, z.suspended \subseteq ex[e].suspended,
           UNCHANGED <<seen, delivered>>
    PROVE  SeenMoves(e) /\ DeliveryMoves(e, z)
<1>1. Side(e) \in Sides /\ Other(Side(e)) \in Sides
  BY SidesFacts
<1> QED
  BY <1>1 DEF SeenMoves, DeliveryMoves, Inv, Shape

\* A method runs on an object, and a send() that has settled returns.
LEMMA MethodStep ==
    ASSUME Inv, NEW e \in Exchanges, NEW y, Sound(Side(e), y, outcome, seen), Kin(ex[e], y),
           Become(e, y), UNCHANGED <<seen, delivered>>, NetMoves(e)
    PROVE  \E z : StepOf(e, z)
<1>1. PICK z : /\ ObjectBecomes(e, z) /\ CallKept(e, z) /\ Sound(Side(e), z, outcome', seen')
               /\ OutcomeMoves(e) /\ z.suspended = y.suspended
  BY BecomeMoves DEF Kin, CallKept
<1>2. SeenMoves(e) /\ DeliveryMoves(e, z)
  BY <1>1, NothingReceived DEF Kin
<1> QED
  BY <1>1, <1>2 DEF StepOf

\* An object changes and no send() returns.
LEMMA DirectMoves ==
    ASSUME Inv, NEW e \in Exchanges, NEW y, ex' = [ex EXCEPT ![e] = y], UNCHANGED outcome
    PROVE  ObjectBecomes(e, y) /\ OutcomeMoves(e)
<1>1. Side(e) \in Sides /\ Other(Side(e)) \in Sides
  BY SidesFacts
<1> QED
  BY <1>1 DEF ObjectBecomes, OutcomeMoves, OutcomeShape, Inv, Shape

\* Such a change of a sound object, when nothing is received, has the shape of a step.
LEMMA DirectStep ==
    ASSUME Inv, NEW e \in Exchanges, NEW y, Sound(Side(e), y, outcome, seen), Kin(ex[e], y),
           ex' = [ex EXCEPT ![e] = y], UNCHANGED <<outcome, seen, delivered>>, NetMoves(e)
    PROVE  \E z : StepOf(e, z)
<1>1. SeenMoves(e) /\ DeliveryMoves(e, y)
  BY NothingReceived DEF Kin
<1> QED
  BY <1>1, DirectMoves DEF StepOf, Kin, CallKept

\* Every object is sound, and related to itself.
LEMMA ObjectSound ==
    ASSUME Inv, NEW e \in Exchanges
    PROVE  Sound(Side(e), ex[e], outcome, seen) /\ Kin(ex[e], ex[e])
  BY DEF Inv, ObjectsSound, Kin

\* Methods run one after the other.
LEMMA KinTransitive ==
    ASSUME NEW x, NEW y, NEW z, Kin(x, y), Kin(y, z)
    PROVE  Kin(x, z)
  BY DEF Kin

\* A stand-alone ack for an accepted message is a sound message.
LEMMA AckMoves ==
    ASSUME NEW e \in Exchanges, NEW i, i \in {0} \cup seen'[Side(e)],
           Transmit(Ack(e, i))
    PROVE  NetMoves(e)
  BY DEF Transmit, Ack, StandaloneAck, NetMoves

\* A refused send() touches only the counter.
LEMMA SendRefusedStep ==
    ASSUME Inv, NEW e \in Exchanges, SendRefused(e)
    PROVE  \E z : StepOf(e, z)
<1> DEFINE y == [ex[e] EXCEPT !.counter = 0, !.refusals = @ + 1]
<1>1. Sound(Side(e), y, outcome, seen) /\ Kin(ex[e], y)
  BY ObjectSound DEF Sound, Kin, Fields
<1>2. ex' = [ex EXCEPT ![e] = y] /\ UNCHANGED <<outcome, seen, delivered>> /\ NetMoves(e)
  BY DEF SendRefused, NetMoves, Inv, Shape
<1> QED
  BY <1>1, <1>2, DirectStep

\* The channel has taken the message.
LEMMA TransmittedStep ==
    ASSUME Inv, NEW e \in Exchanges, Transmitted(e)
    PROVE  \E z : StepOf(e, z)
<1> DEFINE y == [ex[e] EXCEPT !.call = "waiting", !.counter = 0,
                              !.running = @ \cup {ex[e].timer}]
<1>1. Sound(Side(e), y, outcome, seen) /\ Kin(ex[e], y)
  BY ObjectSound DEF Sound, Kin, Fields, Transmitted
<1>2. Become(e, y) /\ UNCHANGED <<seen, delivered>> /\ NetMoves(e)
  BY DEF Transmitted, NetMoves
<1> QED
  BY <1>1, <1>2, MethodStep

\* A call of send() that ends early reports its own message.
LEMMA LeaveStep ==
    ASSUME Inv, NEW e \in Exchanges, NEW x, Sound(Side(e), x, outcome, seen),
           Kin(ex[e], x), x.call # "none", NEW how \in {"aborted", "error"}, Leave(e, x, how)
    PROVE  \E z : StepOf(e, z)
<1> DEFINE a == Side(e)
           z == [x EXCEPT !.call = "none", !.settled = "no"]
<1>0. a \in Sides /\ Other(a) \in Sides /\ Other(a) # a
  BY SidesFacts
<1>1. ex' = [ex EXCEPT ![e] = z] /\ outcome' = [outcome EXCEPT ![a][x.timer.id] = how]
  BY DEF Leave
<1>2. ObjectBecomes(e, z)
  BY <1>1 DEF ObjectBecomes, Inv, Shape
<1>3. z.call = "none" /\ z.suspended = ex[e].suspended /\ Sound(a, z, outcome', seen')
  BY DEF Sound, Fields, Kin, Leave
<1>4. OutcomeMoves(e)
  <2>1. /\ x.timer.id \in Numbers(a) /\ outcome[a][x.timer.id] = "pending"
        /\ x.timer.id = ex[e].timer.id /\ ex[e].call # "none"
    BY DEF Sound, Kin
  <2>2. OutcomeShape'
    BY <1>0, <1>1, <2>1 DEF OutcomeShape, Inv, Shape
  <2> QED
    BY <1>0, <1>1, <2>1, <2>2 DEF OutcomeMoves, Ended, Inv, Shape
<1>5. SeenMoves(e) /\ DeliveryMoves(e, z) /\ NetMoves(e)
  BY <1>3, NothingReceived DEF Leave, NetMoves
<1> QED
  BY <1>2, <1>3, <1>4, <1>5 DEF StepOf, CallKept

\* The channel failed.
LEMMA TransmitFailsStep ==
    ASSUME Inv, NEW e \in Exchanges, TransmitFails(e)
    PROVE  \E z : StepOf(e, z)
  BY ObjectSound, LeaveStep DEF TransmitFails

\* The caller aborted.
LEMMA AbortStep ==
    ASSUME Inv, NEW e \in Exchanges, Abort(e)
    PROVE  \E z : StepOf(e, z)
<1> DEFINE x == ex[e]
           y == [x EXCEPT !.running = IF x.call = "waiting" THEN @ \ {x.timer} ELSE @]
<1>1. Sound(Side(e), y, outcome, seen) /\ Kin(ex[e], y) /\ y.call = x.call
  BY ObjectSound DEF Sound, Kin, Fields
<1>2. x.call # "none" /\ Leave(e, y, "aborted")
  BY DEF Abort
<1> HIDE DEF y
<1> QED
  BY <1>1, <1>2, LeaveStep

\* #retransmitMessage, by whichever timer or duplicate.
LEMMA RetransmitStep ==
    ASSUME Inv, NEW e \in Exchanges, NEW x, Sound(Side(e), x, outcome, seen), Kin(ex[e], x),
           NEW t, t.id \in Numbers(Side(e)), RetransmitMessage(e, x, t), UNCHANGED seen
    PROVE  \E z : StepOf(e, z)
<1> DEFINE again == [x EXCEPT !.counter = @ + 1, !.inFlight = @ \cup {t}, !.sends = @ + 1]
           counted == [x EXCEPT !.counter = @ + 1]
           y == IF ~StillPending(x, t) THEN x
                ELSE IF ~Spent(e, x) THEN again
                ELSE IF ~t.last /\ ~considerClosed(e) THEN FinalWait(x, t)
                ELSE GiveUp(counted)
<1>1. Sound(Side(e), again, outcome, seen) /\ Kin(x, again)
  BY DEF Sound, Kin, Fields
<1>2. Sound(Side(e), counted, outcome, seen) /\ Kin(x, counted)
  BY DEF Sound, Kin, Fields
<1>3. Sound(Side(e), GiveUp(counted), outcome, seen) /\ Kin(counted, GiveUp(counted))
  <2> HIDE DEF counted
  <2> QED
    BY <1>2, GiveUpSound
<1>4. StillPending(x, t) =>
         Sound(Side(e), FinalWait(x, t), outcome, seen) /\ Kin(x, FinalWait(x, t))
  BY FinalWaitSound
<1>5. Sound(Side(e), y, outcome, seen) /\ Kin(ex[e], y)
  <2> HIDE DEF again, counted
  <2> QED
    BY <1>1, <1>2, <1>3, <1>4 DEF Kin
<1>6. Become(e, y) /\ UNCHANGED <<seen, delivered>> /\ NetMoves(e)
  BY DEF RetransmitMessage, NetMoves
<1> HIDE DEF y
<1> QED
  BY <1>5, <1>6, MethodStep

\* A retransmission timer fires.
LEMMA RetransmissionTimerStep ==
    ASSUME Inv, NEW e \in Exchanges, RetransmissionTimer(e)
    PROVE  \E z : StepOf(e, z)
<1>1. PICK t \in ex[e].running :
          /\ RetransmitMessage(e, [ex[e] EXCEPT !.running = @ \ {t}], t) /\ UNCHANGED seen
  BY DEF RetransmissionTimer
<1> DEFINE x == [ex[e] EXCEPT !.running = @ \ {t}]
<1>2. Sound(Side(e), x, outcome, seen) /\ Kin(ex[e], x) /\ t.id \in Numbers(Side(e))
  BY ObjectSound DEF Sound, Kin, Fields
<1> HIDE DEF x
<1> QED
  BY <1>1, <1>2, RetransmitStep DEF x

\* A duplicate makes a BDX exchange retransmit early.
LEMMA KickRetransmissionStep ==
    ASSUME Inv, NEW e \in Exchanges, NEW m, KickRetransmission(e, m)
    PROVE  \E z : StepOf(e, z)
<1> DEFINE x == [ex[e] EXCEPT !.running = @ \ {ex[e].timer}]
           t == [id |-> ex[e].sent.id, last |-> FALSE]
<1>1. Sound(Side(e), x, outcome, seen) /\ Kin(ex[e], x) /\ t.id \in Numbers(Side(e))
  BY ObjectSound DEF Sound, Kin, Fields, KickRetransmission
<1>2. RetransmitMessage(e, x, t) /\ UNCHANGED seen
  BY DEF KickRetransmission
<1> HIDE DEF x, t
<1> QED
  BY <1>1, <1>2, RetransmitStep

\* The channel has taken a retransmission, and the timer is armed again.
LEMMA RetransmittedStep ==
    ASSUME Inv, NEW e \in Exchanges, Retransmitted(e)
    PROVE  \E z : StepOf(e, z)
<1>1. PICK t \in ex[e].inFlight :
         LET x == [ex[e] EXCEPT !.inFlight = @ \ {t}] IN
         /\ ex' = [ex EXCEPT ![e] =
                    IF StillPending(x, t)
                      THEN [x EXCEPT !.timer = t, !.running = @ \cup {t}] ELSE x]
         /\ UNCHANGED <<net, seen, delivered, outcome, faults>>
  BY DEF Retransmitted
<1> DEFINE x == [ex[e] EXCEPT !.inFlight = @ \ {t}]
           y == IF StillPending(x, t) THEN [x EXCEPT !.timer = t, !.running = @ \cup {t}] ELSE x
<1>2. Sound(Side(e), x, outcome, seen) /\ Kin(ex[e], x) /\ t.id \in Numbers(Side(e))
  BY ObjectSound DEF Sound, Kin, Fields
<1>3. Sound(Side(e), y, outcome, seen) /\ Kin(x, y)
  <2> HIDE DEF x
  <2> QED
    BY <1>2 DEF Sound, Kin, Fields, StillPending, NoMessage, Numbers
<1>4. ex' = [ex EXCEPT ![e] = y] /\ UNCHANGED <<outcome, seen, delivered>> /\ NetMoves(e)
  BY <1>1 DEF NetMoves
<1> HIDE DEF x, y
<1> QED
  BY <1>2, <1>3, <1>4, DirectStep, KinTransitive

\* A retransmission finds the session closed.
LEMMA RetransmitSessionClosedStep ==
    ASSUME Inv, NEW e \in Exchanges, RetransmitSessionClosed(e)
    PROVE  \E z : StepOf(e, z)
<1>1. PICK t \in ex[e].inFlight :
         /\ Become(e, Closed([ex[e] EXCEPT !.inFlight = @ \ {t}], FALSE))
         /\ UNCHANGED <<net, seen, delivered>>
  BY DEF RetransmitSessionClosed
<1> DEFINE x == [ex[e] EXCEPT !.inFlight = @ \ {t}]
<1>2. Sound(Side(e), x, outcome, seen) /\ Kin(ex[e], x)
  BY ObjectSound DEF Sound, Kin, Fields
<1> HIDE DEF x
<1>3. Sound(Side(e), Closed(x, FALSE), outcome, seen) /\ Kin(x, Closed(x, FALSE))
  BY <1>2, ClosedSound
<1>4. NetMoves(e)
  BY <1>1 DEF NetMoves
<1> QED
  BY <1>1, <1>2, <1>3, <1>4, MethodStep, KinTransitive DEF x

\* The stand-alone ack timer fires.
LEMMA ReceivedMessageAckTimerStep ==
    ASSUME Inv, NEW e \in Exchanges, ReceivedMessageAckTimer(e)
    PROVE  \E z : StepOf(e, z)
<1> DEFINE y == [ex[e] EXCEPT !.ackTimer = FALSE, !.toAck = 0]
<1>1. Sound(Side(e), y, outcome, seen) /\ Kin(ex[e], y)
  BY ObjectSound DEF Sound, Kin, Fields
<1>2. ex' = [ex EXCEPT ![e] = y] /\ UNCHANGED <<outcome, seen, delivered>>
  BY DEF ReceivedMessageAckTimer, Inv, Shape
<1>3. NetMoves(e)
  BY ObjectSound, AckMoves DEF Sound, ReceivedMessageAckTimer
<1> QED
  BY <1>1, <1>2, <1>3, DirectStep

\* Only the calls that close an object change.
LEMMA ClosersSound ==
    ASSUME Inv, NEW e \in Exchanges, NEW calls
    PROVE  /\ Sound(Side(e), [ex[e] EXCEPT !.closers = calls], outcome, seen)
           /\ Kin(ex[e], [ex[e] EXCEPT !.closers = calls])
           /\ [ex[e] EXCEPT !.closers = calls].toAck = ex[e].toAck
  BY ObjectSound DEF Sound, Kin, Fields

\* close(), with a cause or without.
LEMMA CloseStep ==
    ASSUME Inv, NEW e \in Exchanges, NEW x, NEW cause, CloseWith(e, x, cause),
           Sound(Side(e), x, outcome, seen), Kin(ex[e], x)
    PROVE  \E z : StepOf(e, z)
<1>1. Sound(Side(e), CloseObject(x, cause), outcome, seen) /\ Kin(x, CloseObject(x, cause))
  BY CloseObjectSound
<1>2. Become(e, CloseObject(x, cause)) /\ UNCHANGED <<seen, delivered>>
  BY DEF CloseWith
<1>3. NetMoves(e)
  <2>1. x.toAck \in {0} \cup seen'[Side(e)]
    BY <1>2 DEF Sound
  <2> QED
    BY <2>1 DEF CloseWith, Transmit, Ack, StandaloneAck, NetMoves
<1> QED
  BY <1>1, <1>2, <1>3, MethodStep, KinTransitive

\* The calls of close().
LEMMA ClosesStep ==
    ASSUME Inv, NEW e \in Exchanges,
           Close(e) \/ ForceClose(e) \/ CloseTemporary(e) \/ CloseLate(e)
    PROVE  \E z : StepOf(e, z)
<1>1. CASE Close(e) \/ ForceClose(e) \/ CloseTemporary(e)
  BY <1>1, ObjectSound, CloseStep DEF Close, ForceClose, CloseTemporary
<1>2. CASE CloseLate(e)
  BY <1>2, ClosersSound, CloseStep DEF CloseLate
<1> QED
  BY <1>1, <1>2

\* destroy().
LEMMA DestroyStep ==
    ASSUME Inv, NEW e \in Exchanges, Destroy(e)
    PROVE  \E z : StepOf(e, z)
<1> DEFINE x == [ex[e] EXCEPT !.isDestroyed = TRUE]
           acks == x.closeTimer = "undefined" /\ x.toAck # 0
           w == AckTaken(x, "destroy")
<1>1. /\ Sound(Side(e), x, outcome, seen) /\ Kin(ex[e], x) /\ x.toAck = ex[e].toAck
      /\ Sound(Side(e), w, outcome, seen) /\ Kin(ex[e], w)
  BY ObjectSound DEF Sound, Kin, Fields, AckTaken
<1>2. /\ Become(e, IF acks THEN w ELSE Closed(x, FALSE)) /\ UNCHANGED <<seen, delivered>>
      /\ Transmit(IF acks THEN Ack(e, x.toAck) ELSE {})
  BY DEF Destroy
<1> HIDE DEF x, w, acks
<1>3. NetMoves(e)
  <2>1. x.toAck \in {0} \cup seen'[Side(e)]
    BY <1>1, <1>2 DEF Sound
  <2> QED
    BY <1>2, <2>1 DEF Transmit, Ack, StandaloneAck, NetMoves
<1>4. Sound(Side(e), Closed(x, FALSE), outcome, seen) /\ Kin(x, Closed(x, FALSE))
  BY <1>1, ClosedSound
<1>5. Kin(ex[e], Closed(x, FALSE))
  BY <1>1, <1>4, KinTransitive
<1> QED
  BY <1>1, <1>2, <1>3, <1>4, <1>5, MethodStep

\* A call that closes has sent its ack.
LEMMA CloseAckedStep ==
    ASSUME Inv, NEW e \in Exchanges, CloseAcked(e)
    PROVE  \E z : StepOf(e, z)
<1>1. PICK call \in ex[e].closers :
         LET x == [ex[e] EXCEPT !.closers = @ \ {call}] IN
         /\ Become(e, IF call = "destroy" THEN Closed(x, FALSE)
                                          ELSE CloseOrWait(x, call = "force"))
         /\ UNCHANGED <<net, seen, delivered>>
  BY DEF CloseAcked
<1> DEFINE x == [ex[e] EXCEPT !.closers = @ \ {call}]
<1>2. /\ Become(e, IF call = "destroy" THEN Closed(x, FALSE) ELSE CloseOrWait(x, call = "force"))
      /\ UNCHANGED <<net, seen, delivered>>
  BY <1>1
<1>3. Sound(Side(e), x, outcome, seen) /\ Kin(ex[e], x)
  BY ClosersSound
<1> HIDE DEF x
<1>4. /\ Sound(Side(e), Closed(x, FALSE), outcome, seen) /\ Kin(x, Closed(x, FALSE))
      /\ Sound(Side(e), CloseOrWait(x, call = "force"), outcome, seen)
      /\ Kin(x, CloseOrWait(x, call = "force"))
  BY <1>3, ClosedSound, CloseOrWaitSound
<1>5. NetMoves(e)
  BY <1>2 DEF NetMoves
<1>6. CASE call = "destroy"
  BY <1>2, <1>3, <1>4, <1>5, <1>6, MethodStep, KinTransitive
<1>7. CASE call # "destroy"
  BY <1>2, <1>3, <1>4, <1>5, <1>7, MethodStep, KinTransitive
<1> QED
  BY <1>6, <1>7

\* A close timer fires.
LEMMA CloseTimerStep ==
    ASSUME Inv, NEW e \in Exchanges, CloseTimer(e)
    PROVE  \E z : StepOf(e, z)
<1>1. PICK t : /\ Become(e, Closed([ex[e] EXCEPT !.closers = @ \ {t}], FALSE))
               /\ UNCHANGED <<net, seen, delivered>>
  BY DEF CloseTimer
<1> DEFINE x == [ex[e] EXCEPT !.closers = @ \ {t}]
<1>2. Sound(Side(e), x, outcome, seen) /\ Kin(ex[e], x)
  BY ClosersSound
<1>3. Become(e, Closed(x, FALSE)) /\ UNCHANGED <<seen, delivered>> /\ NetMoves(e)
  BY <1>1 DEF NetMoves
<1> HIDE DEF x
<1>4. Sound(Side(e), Closed(x, FALSE), outcome, seen) /\ Kin(x, Closed(x, FALSE))
  BY <1>2, ClosedSound
<1> QED
  BY <1>2, <1>3, <1>4, MethodStep, KinTransitive

-----------------------------------------------------------------------------
\* More accepted messages keep an object sound.
LEMMA MoreSeen ==
    ASSUME NEW s \in Sides, NEW x, NEW out, NEW sn, NEW more, Sound(s, x, out, sn),
           \A r \in Sides : sn[r] \subseteq more[r]
    PROVE  Sound(s, x, out, more)
<1>1. Other(s) \in Sides
  BY SidesFacts
<1> QED
  BY <1>1 DEF Sound

\* What the session accepts was sent.
LEMMA AcceptMoves ==
    ASSUME Inv, NEW e \in Exchanges, NEW m \in net, Side(e) = Other(m.from), Accept(m)
    PROVE  /\ SeenMoves(e)
           /\ \A r \in Sides : seen[r] \subseteq seen'[r]
           /\ m.id \in {0} \cup seen'[Side(e)]
           /\ m.ack \in {0} \cup seen'[Other(Side(e))]
           /\ m.from = Other(Side(e))
           /\ \A i \in seen'[Side(e)] \ seen[Side(e)] :
                 i = m.id /\ i # 0 /\ outcome[Other(Side(e))][i] # "unsent"
<1>1. m.from \in Sides /\ m.id \in {0} \cup Numbers(m.from)
      /\ (m.id # 0 => outcome[m.from][m.id] # "unsent") /\ m.ack \in {0} \cup seen[m.from]
  BY DEF Inv, NetSound
<1>2. Side(e) \in Sides /\ m.from = Other(Side(e)) /\ Other(Side(e)) # Side(e)
  BY <1>1, SidesFacts
<1>3. seen' = [seen EXCEPT ![Side(e)] = @ \cup ({m.id} \ {0})]
  BY DEF Accept
<1>4. m.id \in Nat
  BY <1>1 DEF Numbers, Sides, Inv, Shape
<1>5. /\ seen \in [Sides -> SUBSET Nat]
      /\ seen[Side(e)] \subseteq Numbers(Other(Side(e)))
  BY <1>2 DEF Inv, Shape
<1>6. seen' \in [Sides -> SUBSET Nat]
  BY <1>2, <1>3, <1>4, <1>5
<1>7. /\ seen'[Side(e)] = seen[Side(e)] \cup ({m.id} \ {0})
      /\ \A r \in Sides \ {Side(e)} : seen'[r] = seen[r]
  BY <1>2, <1>3, <1>5
<1>8. Other(Side(e)) \in Sides \ {Side(e)}
  BY <1>1, <1>2
<1> QED
  BY <1>1, <1>2, <1>5, <1>6, <1>7, <1>8 DEF SeenMoves

\* A message is delivered, or held by a handler, only when it is accepted first.
LEMMA AcceptDelivers ==
    ASSUME Inv, NEW e \in Exchanges, NEW m \in net, Side(e) = Other(m.from), Accept(m), NEW z,
           \/ delivered' = delivered
           \/ /\ m.id # 0 /\ m.id \notin seen[Side(e)]
              /\ delivered' = [delivered EXCEPT ![Side(e)][m.id] = @ + 1],
           \A i \in z.suspended :
              \/ i \in ex[e].suspended
              \/ i = m.id /\ m.id # 0 /\ m.id \notin seen[Side(e)] /\ delivered' = delivered
    PROVE  DeliveryMoves(e, z)
<1> DEFINE a == Side(e)
<1>0. a \in Sides /\ Other(a) \in Sides /\ Other(a) # a
  BY SidesFacts
<1>1. /\ m.id \in {0} \cup seen'[a] /\ SeenMoves(e)
      /\ \A i \in seen'[a] \ seen[a] : outcome[Other(a)][i] # "unsent"
  BY AcceptMoves
<1>2. delivered[a] \in [Numbers(Other(a)) -> {0, 1}] /\ DOMAIN delivered = Sides
  BY <1>0 DEF Inv, Shape
<1>3. \A i \in Numbers(Other(a)) : i \notin seen[a] => delivered[a][i] = 0
  BY <1>0, <1>2 DEF Inv, DeliveredSound
<1>4. m.id # 0 => m.id \in Numbers(Other(a))
  BY <1>1 DEF SeenMoves
<1>5. CASE delivered' = delivered
  BY <1>0, <1>1, <1>2, <1>3, <1>4, <1>5 DEF DeliveryMoves
<1>6. CASE /\ m.id # 0 /\ m.id \notin seen[a] /\ delivered' # delivered
           /\ delivered' = [delivered EXCEPT ![a][m.id] = @ + 1]
  <2>1. /\ DOMAIN delivered' = Sides /\ delivered'[Other(a)] = delivered[Other(a)]
        /\ delivered'[a] = [delivered[a] EXCEPT ![m.id] = delivered[a][m.id] + 1]
    BY <1>0, <1>2, <1>6
  <2>2. delivered'[a] = [delivered[a] EXCEPT ![m.id] = 1]
    BY <1>3, <1>4, <1>6, <2>1
  <2> QED
    BY <1>0, <1>1, <1>2, <1>4, <1>6, <2>1, <2>2 DEF DeliveryMoves
<1> QED
  BY <1>5, <1>6

\* onMessageReceived for a message that no other case takes.
LEMMA OnMessageReceivedStep ==
    ASSUME Inv, NEW e \in Exchanges, NEW m \in net, OnMessageReceived(e, m)
    PROVE  \E z : StepOf(e, z)
<1> DEFINE a == Side(e)
           x == TakeAck(ex[e], m)
           w == [x EXCEPT !.ackTimer = FALSE, !.suspended = @ \cup {m.id}]
<1>0. a \in Sides
  BY SidesFacts
<1>1. a = Other(m.from) /\ Accept(m) /\ m.id \notin seen[a]
  BY DEF OnMessageReceived, Reaches, Routed, Duplicate
<1>2. /\ SeenMoves(e) /\ m.id \in {0} \cup seen'[a] /\ m.ack \in {0} \cup seen'[Other(a)]
      /\ \A r \in Sides : seen[r] \subseteq seen'[r]
  BY <1>1, AcceptMoves
<1>3. Sound(a, ex[e], outcome, seen')
  BY <1>0, <1>2, ObjectSound, MoreSeen
<1>4. Sound(a, x, outcome, seen') /\ Kin(ex[e], x)
  BY <1>0, <1>2, <1>3, TakeAckSound
<1> HIDE DEF x
<1>5. CASE m.id = 0
  <2>1. Become(e, x) /\ UNCHANGED <<net, delivered>>
    BY <1>5 DEF OnMessageReceived, x
  <2>2. PICK z : /\ ObjectBecomes(e, z) /\ CallKept(e, z) /\ Sound(a, z, outcome', seen')
                 /\ OutcomeMoves(e) /\ z.suspended = x.suspended
    BY <1>2, <1>4, <2>1, BecomeMoves DEF Kin, CallKept, SeenMoves
  <2>3. DeliveryMoves(e, z)
    BY <1>1, <1>4, <2>1, <2>2, AcceptDelivers DEF Kin
  <2> QED
    BY <1>2, <2>1, <2>2, <2>3 DEF StepOf, NetMoves
<1>6. CASE m.id # 0 /\ x.toAck # 0
  <2>1. Become(e, w) /\ Transmit(Ack(e, x.toAck)) /\ UNCHANGED delivered
    BY <1>6 DEF OnMessageReceived, x
  <2>2. Sound(a, w, outcome, seen') /\ CallKept(e, w) /\ w.suspended = x.suspended \cup {m.id}
    BY <1>2, <1>4, <1>6 DEF Sound, Fields, Kin, CallKept
  <2> HIDE DEF w
  <2>3. PICK z : /\ ObjectBecomes(e, z) /\ CallKept(e, z) /\ Sound(a, z, outcome', seen')
                 /\ OutcomeMoves(e) /\ z.suspended = w.suspended
    BY <1>2, <2>1, <2>2, BecomeMoves DEF SeenMoves
  <2>4. DeliveryMoves(e, z)
    BY <1>1, <1>4, <1>6, <2>1, <2>2, <2>3, AcceptDelivers DEF Kin
  <2>5. NetMoves(e)
    BY <1>4, <2>1, AckMoves DEF Sound
  <2> QED
    BY <1>2, <2>3, <2>4, <2>5 DEF StepOf
<1>7. CASE m.id # 0 /\ x.toAck = 0
  <2>1. Become(e, Enqueue(x, m.id)) /\ Delivered(e, m.id) /\ UNCHANGED net
    BY <1>7 DEF OnMessageReceived, x
  <2>2. /\ Sound(a, Enqueue(x, m.id), outcome, seen') /\ CallKept(e, Enqueue(x, m.id))
        /\ Enqueue(x, m.id).suspended = x.suspended
    BY <1>2, <1>4, <1>7 DEF Sound, Fields, Kin, CallKept, Enqueue
  <2>3. PICK z : /\ ObjectBecomes(e, z) /\ CallKept(e, z) /\ Sound(a, z, outcome', seen')
                 /\ OutcomeMoves(e) /\ z.suspended = Enqueue(x, m.id).suspended
    BY <1>2, <2>1, <2>2, BecomeMoves DEF SeenMoves
  <2>4. \/ delivered' = delivered
        \/ delivered' = [delivered EXCEPT ![a][m.id] = @ + 1]
    BY <2>1 DEF Delivered
  <2>5. DeliveryMoves(e, z)
    BY <1>1, <1>4, <1>7, <2>2, <2>3, <2>4, AcceptDelivers DEF Kin
  <2> QED
    BY <1>2, <2>1, <2>3, <2>5 DEF StepOf, NetMoves
<1> QED
  BY <1>5, <1>6, <1>7

\* send(): a message that was not sent before.
LEMMA SendStep ==
    ASSUME Inv, NEW e \in Exchanges, Send(e)
    PROVE  \E z : StepOf(e, z)
<1> DEFINE a == Side(e)
           x == ex[e]
           z(i) == [x EXCEPT !.used = TRUE, !.counter = 0,
                             !.toAck = 0, !.ackTimer = IF x.toAck # 0 THEN FALSE ELSE @,
                             !.sent = [id |-> i, ack |-> x.toAck],
                             !.timer = [id |-> i, last |-> FALSE],
                             !.armed = TRUE, !.call = "sending", !.settled = "no",
                             !.sends = 1, !.refusals = 0]
<1>0. a \in Sides /\ Other(a) \in Sides /\ Other(a) # a
  BY SidesFacts
<1>1. PICK i \in Numbers(a) :
         /\ outcome[a][i] = "unsent"
         /\ ex' = [ex EXCEPT ![e] = z(i)]
         /\ Transmit({[from |-> a, id |-> i, ack |-> x.toAck]})
         /\ outcome' = [outcome EXCEPT ![a][i] = "pending"]
         /\ UNCHANGED <<seen, delivered>>
  BY DEF Send
<1>2. ObjectBecomes(e, z(i))
  BY <1>1 DEF ObjectBecomes, Inv, Shape
<1>3. /\ outcome'[a][i] = "pending" /\ outcome'[Other(a)] = outcome[Other(a)]
      /\ OutcomeShape' /\ \A j \in Numbers(a) \ {i} : outcome'[a][j] = outcome[a][j]
  BY <1>0, <1>1 DEF OutcomeShape, Inv, Shape
<1>4. OutcomeMoves(e)
  BY <1>1, <1>3 DEF OutcomeMoves
<1>5. /\ z(i).suspended = x.suspended /\ z(i).timer.id = i
      /\ Sound(a, z(i), outcome', seen')
  BY <1>1, <1>3, ObjectSound DEF Sound, Fields
<1>6. CallKept(e, z(i))
  BY <1>1, <1>5 DEF CallKept
<1>7. SeenMoves(e) /\ DeliveryMoves(e, z(i))
  BY <1>1, <1>5, NothingReceived
<1>8. NetMoves(e)
  <2>1. x.toAck \in {0} \cup seen'[a]
    BY <1>1, ObjectSound DEF Sound
  <2> QED
    BY <1>1, <1>3, <2>1 DEF Transmit, NetMoves
<1> QED
  BY <1>2, <1>4, <1>5, <1>6, <1>7, <1>8 DEF StepOf

\* The handler that held a message goes on and delivers it.
LEMMA ResumeReceiveStep ==
    ASSUME Inv, NEW e \in Exchanges, ResumeReceive(e)
    PROVE  \E z : StepOf(e, z)
<1> DEFINE a == Side(e)
<1>0. a \in Sides /\ Other(a) \in Sides /\ Other(a) # a
  BY SidesFacts
<1>1. PICK i \in ex[e].suspended :
         /\ ex' = [ex EXCEPT ![e] = Enqueue([ex[e] EXCEPT !.suspended = @ \ {i}], i)]
         /\ Delivered(e, i)
         /\ UNCHANGED <<net, seen, outcome>>
  BY DEF ResumeReceive
<1> DEFINE z == Enqueue([ex[e] EXCEPT !.suspended = @ \ {i}], i)
<1>2. ex' = [ex EXCEPT ![e] = z]
  BY <1>1
<1>3. Sound(a, z, outcome, seen) /\ z.suspended = ex[e].suspended \ {i} /\ CallKept(e, z)
  BY ObjectSound DEF Sound, Fields, Enqueue, CallKept
<1> HIDE DEF z
<1>4. ObjectBecomes(e, z) /\ OutcomeMoves(e)
  BY <1>1, <1>2, DirectMoves
<1>5. /\ i \in seen[a] /\ i \in Numbers(Other(a)) /\ delivered[a][i] = 0
      /\ delivered[a] \in [Numbers(Other(a)) -> {0, 1}] /\ DOMAIN delivered = Sides
      /\ seen \in [Sides -> SUBSET Nat] /\ seen[a] \subseteq Numbers(Other(a))
  BY <1>0, ObjectSound DEF Sound, Inv, Shape, DeliveredSound
<1>6. \A j \in z.suspended : j \in ex[e].suspended /\ j # i
  BY <1>3
<1>7. DeliveryMoves(e, z)
  <2>1. CASE delivered' = delivered
    BY <1>0, <1>1, <1>5, <1>6, <2>1 DEF DeliveryMoves
  <2>2. CASE delivered' = [delivered EXCEPT ![a][i] = @ + 1]
    <3>1. /\ DOMAIN delivered' = Sides /\ delivered'[Other(a)] = delivered[Other(a)]
          /\ delivered'[a] = [delivered[a] EXCEPT ![i] = delivered[a][i] + 1]
      BY <1>0, <1>5, <2>2
    <3>2. delivered'[a] = [delivered[a] EXCEPT ![i] = 1]
      BY <1>5, <3>1
    <3> QED
      BY <1>0, <1>1, <1>3, <1>5, <1>6, <3>1, <3>2 DEF DeliveryMoves
  <2> QED
    BY <1>1, <2>1, <2>2 DEF Delivered
<1>8. SeenMoves(e) /\ NetMoves(e)
  BY <1>1, <1>5 DEF SeenMoves, NetMoves
<1> QED
  BY <1>1, <1>3, <1>4, <1>7, <1>8 DEF StepOf

\* The handler ends without its message, which stays accepted and not delivered.
LEMMA ResumeReceiveFailsStep ==
    ASSUME Inv, NEW e \in Exchanges, ResumeReceiveFails(e)
    PROVE  \E z : StepOf(e, z)
<1>1. PICK i \in ex[e].suspended :
         /\ ex' = [ex EXCEPT ![e] =
                     [ex[e] EXCEPT !.suspended = @ \ {i},
                                   !.stranded = IF ex[e].ackTimer THEN @ ELSE ex[e].toAck]]
         /\ UNCHANGED <<net, seen, delivered, outcome>>
  BY DEF ResumeReceiveFails
<1> DEFINE z == [ex[e] EXCEPT !.suspended = @ \ {i},
                              !.stranded = IF ex[e].ackTimer THEN @ ELSE ex[e].toAck]
<1>2. ex' = [ex EXCEPT ![e] = z]
  BY <1>1
<1>3. Sound(Side(e), z, outcome, seen) /\ z.suspended = ex[e].suspended \ {i} /\ CallKept(e, z)
  BY ObjectSound DEF Sound, Fields, CallKept
<1> HIDE DEF z
<1>4. ObjectBecomes(e, z) /\ OutcomeMoves(e)
  BY <1>1, <1>2, DirectMoves
<1>5. z.suspended \subseteq ex[e].suspended
  BY <1>3
<1>6. SeenMoves(e) /\ DeliveryMoves(e, z)
  BY <1>1, <1>5, NothingReceived
<1>7. NetMoves(e)
  BY <1>1 DEF NetMoves
<1> QED
  BY <1>1, <1>3, <1>4, <1>6, <1>7 DEF StepOf

\* No object changes.
LEMMA SameObjects ==
    ASSUME Inv, NEW e \in Exchanges, UNCHANGED <<ex, outcome>>
    PROVE  ObjectBecomes(e, ex[e]) /\ CallKept(e, ex[e]) /\ OutcomeMoves(e)
  BY SidesFacts DEF ObjectBecomes, CallKept, OutcomeMoves, OutcomeShape, Inv, Shape

\* A message is accepted and changes no object.
LEMMA AcceptStep ==
    ASSUME Inv, NEW e \in Exchanges, NEW m \in net, Side(e) = Other(m.from), Accept(m),
           UNCHANGED <<ex, delivered, outcome>>, NetMoves(e)
    PROVE  \E z : StepOf(e, z)
<1>1. SeenMoves(e) /\ \A r \in Sides : seen[r] \subseteq seen'[r]
  BY AcceptMoves
<1>2. Sound(Side(e), ex[e], outcome, seen')
  BY <1>1, ObjectSound, MoreSeen, SidesFacts
<1>3. DeliveryMoves(e, ex[e])
  BY AcceptDelivers
<1> QED
  BY <1>1, <1>2, <1>3, SameObjects DEF StepOf

\* A message that is thrown away has been accepted all the same.
LEMMA ReceiveFlowErrorStep ==
    ASSUME Inv, NEW e \in Exchanges, NEW m \in net, ReceiveFlowError(e, m)
    PROVE  \E z : StepOf(e, z)
<1>1. Side(e) = Other(m.from) /\ Accept(m) /\ UNCHANGED <<ex, delivered, outcome>> /\ NetMoves(e)
  BY DEF ReceiveFlowError, Reaches, Routed, NetMoves
<1> QED
  BY <1>1, AcceptStep

\* A duplicate is acknowledged, which is true: it was accepted before.
LEMMA ReceiveDuplicateStep ==
    ASSUME Inv, NEW e \in Exchanges, NEW m \in net, ReceiveDuplicate(e, m)
    PROVE  \E z : StepOf(e, z)
<1>1. Side(e) = Other(m.from) /\ UNCHANGED <<ex, seen, delivered, outcome>>
  BY DEF ReceiveDuplicate, Reaches, Routed
<1>2. NetMoves(e)
  BY <1>1, AckMoves DEF ReceiveDuplicate, Duplicate
<1>3. SeenMoves(e) /\ DeliveryMoves(e, ex[e])
  BY <1>1, NothingReceived
<1> QED
  BY <1>1, <1>2, <1>3, ObjectSound, SameObjects DEF StepOf

\* An exchange considered closed accepts and acknowledges the message.
LEMMA ReceiveConsideredClosedStep ==
    ASSUME Inv, NEW e \in Exchanges, NEW m \in net, ReceiveConsideredClosed(e, m)
    PROVE  \E z : StepOf(e, z)
<1> DEFINE a == Side(e)
           z == [ex[e] EXCEPT !.used = TRUE, !.closers = @ \cup {"late"}]
<1>0. a \in Sides
  BY SidesFacts
<1>1. /\ a = Other(m.from) /\ Accept(m) /\ ex' = [ex EXCEPT ![e] = z]
      /\ UNCHANGED <<delivered, outcome>>
  BY DEF ReceiveConsideredClosed, Routed, Inv, Shape
<1>2. /\ SeenMoves(e) /\ m.id \in {0} \cup seen'[a]
      /\ \A r \in Sides : seen[r] \subseteq seen'[r]
  BY <1>1, AcceptMoves
<1>3. Sound(a, ex[e], outcome, seen')
  BY <1>0, <1>2, ObjectSound, MoreSeen
<1>4. Sound(a, z, outcome', seen') /\ Kin(ex[e], z)
  BY <1>1, <1>3 DEF Sound, Kin, Fields
<1> HIDE DEF z
<1>5. ObjectBecomes(e, z) /\ OutcomeMoves(e)
  BY <1>1, DirectMoves
<1>6. DeliveryMoves(e, z)
  BY <1>1, <1>4, AcceptDelivers DEF Kin
<1>7. NetMoves(e)
  BY <1>1, <1>2, AckMoves DEF ReceiveConsideredClosed
<1> QED
  BY <1>2, <1>4, <1>5, <1>6, <1>7 DEF StepOf, Kin, CallKept

\* A new object has nothing to do with what was there before.
LEMMA NewObjectSound ==
    ASSUME NEW s, NEW out, NEW sn, NEW kind, NEW used
    PROVE  /\ Sound(s, NewObject(kind, used), out, sn)
           /\ NewObject(kind, used).call = "none" /\ NewObject(kind, used).suspended = {}
  BY DEF Sound, NewObject, Fields

\* The peer's objects are all on the responder's side.
LEMMA ResponderSide ==
    ASSUME NEW e \in Responders
    PROVE  e \in Exchanges /\ Side(e) = "responder"
  BY ObjectsAssumption DEF Exchanges, Side

\* A message opens a new exchange and is delivered to its handler.
LEMMA NewExchangeStep ==
    ASSUME Inv, NEW e \in Exchanges, NEW m \in net, NewExchange(e, m)
    PROVE  \E z : StepOf(e, z)
<1> DEFINE n == NewObject("handled", TRUE)
           z == Enqueue(n, m.id)
<1>0. Side(e) = "responder" /\ Side(e) = Other(m.from)
  BY ResponderSide DEF NewExchange, Other
<1>1. /\ Accept(m) /\ ex' = [ex EXCEPT ![e] = z] /\ UNCHANGED <<net, outcome>>
      /\ m.id # 0 /\ m.id \notin seen[Side(e)]
      /\ delivered' = [delivered EXCEPT ![Side(e)][m.id] = @ + 1]
  BY <1>0 DEF NewExchange, Unrouted, Duplicate
<1>2. SeenMoves(e) /\ m.id \in {0} \cup seen'[Side(e)]
  BY <1>0, <1>1, AcceptMoves
<1>3. Sound(Side(e), n, outcome, seen') /\ n.call = "none" /\ n.suspended = {}
  BY NewObjectSound
<1> HIDE DEF n
<1>4. Sound(Side(e), z, outcome', seen') /\ z.call = "none" /\ z.suspended = {}
  BY <1>1, <1>2, <1>3 DEF Sound, Fields, Enqueue
<1> HIDE DEF z
<1>5. DeliveryMoves(e, z)
  BY <1>0, <1>1, <1>4, AcceptDelivers
<1>6. ObjectBecomes(e, z) /\ OutcomeMoves(e)
  BY <1>1, DirectMoves
<1> QED
  BY <1>1, <1>2, <1>4, <1>5, <1>6 DEF StepOf, CallKept, NetMoves

\* A temporary exchange of the responder acknowledges a duplicate.
LEMMA UnsolicitedToResponderStep ==
    ASSUME Inv, NEW e \in Exchanges, NEW m \in net, UnsolicitedToResponder(e, m)
    PROVE  \E z : StepOf(e, z)
<1> DEFINE z == NewObject("temporary", TRUE)
<1>0. Side(e) = "responder" /\ Side(e) = Other(m.from)
  BY ResponderSide DEF UnsolicitedToResponder, Other
<1>1. ex' = [ex EXCEPT ![e] = z] /\ UNCHANGED <<seen, delivered, outcome>>
  BY DEF UnsolicitedToResponder
<1>2. Sound(Side(e), z, outcome', seen') /\ z.call = "none" /\ z.suspended = {}
  BY NewObjectSound
<1> HIDE DEF z
<1>3. SeenMoves(e) /\ DeliveryMoves(e, z)
  BY <1>1, <1>2, NothingReceived
<1>4. ObjectBecomes(e, z) /\ OutcomeMoves(e)
  BY <1>1, DirectMoves
<1>5. NetMoves(e)
  BY <1>0, <1>1, AckMoves DEF UnsolicitedToResponder, Duplicate
<1> QED
  BY <1>2, <1>3, <1>4, <1>5 DEF StepOf, CallKept

\* A temporary exchange of the initiator acknowledges and drops a message.
LEMMA UnsolicitedToInitiatorStep ==
    ASSUME Inv, NEW m \in net, UnsolicitedToInitiator(m)
    PROVE  Initiator \in Exchanges /\ \E z : StepOf(Initiator, z)
<1>0. Initiator \in Exchanges /\ Side(Initiator) = "initiator" /\ Side(Initiator) = Other(m.from)
  BY DEF UnsolicitedToInitiator, Other, Side, Exchanges
<1>1. Accept(m) /\ UNCHANGED <<ex, delivered, outcome>> /\ Transmit(Ack(Initiator, m.id))
  BY DEF UnsolicitedToInitiator
<1>2. NetMoves(Initiator)
  BY <1>0, <1>1, AcceptMoves, AckMoves
<1> QED
  BY <1>0, <1>1, <1>2, AcceptStep

-----------------------------------------------------------------------------
(***************************************************************************)
(* The refinement.                                                         *)
(***************************************************************************)

\* Every action is a step of one object.
LEMMA NextStep ==
    ASSUME Inv, Next
    PROVE  \E e \in Exchanges : \E z : StepOf(e, z)
<1>1. ASSUME NEW e \in Exchanges, Application(e)
      PROVE  \E z : StepOf(e, z)
  BY <1>1, SendStep, SendRefusedStep, AbortStep, ClosesStep, DestroyStep DEF Application
<1>2. ASSUME NEW e \in Exchanges, Progress(e)
      PROVE  \E z : StepOf(e, z)
  BY <1>2, TransmittedStep, TransmitFailsStep, RetransmissionTimerStep, RetransmittedStep,
     RetransmitSessionClosedStep, ResumeReceiveStep, ResumeReceiveFailsStep,
     ReceivedMessageAckTimerStep, CloseAckedStep, CloseTimerStep, ClosesStep DEF Progress
<1>3. ASSUME NEW m \in net, NEW e \in Exchanges, Receive(e, m)
      PROVE  \E z : StepOf(e, z)
  BY <1>3, OnMessageReceivedStep, ReceiveFlowErrorStep, ReceiveDuplicateStep,
     KickRetransmissionStep, ReceiveConsideredClosedStep, NewExchangeStep,
     UnsolicitedToResponderStep DEF Receive
<1>4. ASSUME NEW m \in net, UnsolicitedToInitiator(m)
      PROVE  \E e \in Exchanges : \E z : StepOf(e, z)
  BY <1>4, UnsolicitedToInitiatorStep
<1> QED
  BY <1>1, <1>2, <1>3, <1>4 DEF Next

\* The invariant holds at first.
LEMMA InitInv ==
    ASSUME Init
    PROVE  Inv
<1>1. ex = [e \in Exchanges |-> IF e = Initiator THEN NewObject("handled", FALSE)
                                                 ELSE NewObject("free", TRUE)]
  BY DEF Init
<1>2. \A s \in Sides : Other(s) \in Sides /\ seen[s] = {}
  BY SidesFacts DEF Init
<1>3. \A s \in Sides : delivered[s] = [i \in Numbers(Other(s)) |-> 0]
  BY DEF Init
<1>4. Shape
  BY <1>1, <1>2, <1>3 DEF Init, Shape
<1>5. NetSound
  BY DEF Init, NetSound
<1>6. \A e \in Exchanges : /\ Sound(Side(e), ex[e], outcome, seen)
                           /\ ex[e].call = "none" /\ ex[e].suspended = {}
  <2> SUFFICES ASSUME NEW e \in Exchanges
               PROVE  /\ Sound(Side(e), ex[e], outcome, seen)
                      /\ ex[e].call = "none" /\ ex[e].suspended = {}
    OBVIOUS
  <2>1. \/ ex[e] = NewObject("handled", FALSE)
        \/ ex[e] = NewObject("free", TRUE)
    BY <1>1
  <2> QED
    BY <2>1, NewObjectSound
<1>7. ObjectsSound /\ Separate
  BY <1>6 DEF ObjectsSound, Separate
<1>8. DeliveredSound
  <2>1. \A s \in Sides : \A i \in Numbers(Other(s)) : delivered[s][i] = 0
    BY <1>3
  <2> QED
    BY <1>6, <2>1 DEF DeliveredSound
<1> QED
  BY <1>4, <1>5, <1>7, <1>8 DEF Inv

\* A step that changes nothing keeps it.
LEMMA Stutter ==
    ASSUME Inv, UNCHANGED vars
    PROVE  Inv'
  BY DEF vars, Inv, Shape, NetSound, ObjectsSound, Separate, DeliveredSound

\* The inductive invariant: what an object owes was accepted, what travels was
\* sent, a call of send() and its message belong together, and a message that a
\* handler holds is held by that handler alone and not delivered yet.
THEOREM Invariant == Spec => []Inv
<1>1. Inv /\ [Next]_vars => Inv'
  BY NextStep, StepKeepsInv, Stutter
<1> QED
  BY <1>1, InitInv, PTL DEF Spec

\* However many messages, objects and transmissions there are, and whatever the
\* network and the callers do: an exchange delivers each message as
\* ReliableDelivery allows.  In particular send() reports an acknowledgement only
\* of a message the peer has accepted, and no reader gets a message twice.
THEOREM Implements == Spec => ReliablyDelivered
<1>1. Init => \A s \in Sides : \A i \in Numbers(s) : Delivery(s, i)!Init
  <2> SUFFICES ASSUME Init, NEW s \in Sides, NEW i \in Numbers(s)
               PROVE  Delivery(s, i)!Init
    OBVIOUS
  <2>1. Other(s) \in Sides /\ Other(Other(s)) = s
    BY SidesFacts
  <2>2. outcome[s][i] = "unsent" /\ i \notin seen[Other(s)] /\ delivered[Other(s)][i] = 0
    BY <2>1 DEF Init
  <2> QED
    BY <2>2 DEF Delivery!Init
<1>2. Inv /\ [Next]_vars => [Refines]_vars
  BY NextStep, StepRefines
<1> QED
  BY <1>1, <1>2, Invariant, PTL DEF Spec, ReliablyDelivered, Refines

-----------------------------------------------------------------------------
(***************************************************************************)
(* The timers, the retransmission budget and the acknowledgements.  The    *)
(* proofs rest on the invariant above.                                     *)
(***************************************************************************)

\* What will go on with the pending message: its timers, and its transmissions that
\* await the channel.
Armed(x) == {t \in x.running : t.id = x.sent.id}
OnTheWay(x) == {t \in x.inFlight : t.id = x.sent.id}
Undriven(x) == Armed(x) = {} /\ OnTheWay(x) = {}

\* The transmissions that refused sends have bought.
Bought(x) == x.refusals * (MaxTransmissions - 1)

-----------------------------------------------------------------------------
(***************************************************************************)
(* The invariant of one object x of side s, where "out" are the outcomes.  *)
(***************************************************************************)

Typed(s, x) ==
    /\ DOMAIN x = Fields
    /\ x.kind \in {"free", "handled", "temporary"}
    /\ x.used \in BOOLEAN /\ x.closing \in BOOLEAN /\ x.closed \in BOOLEAN
    /\ x.closeCause \in BOOLEAN /\ x.isDestroyed \in BOOLEAN
    /\ x.armed \in BOOLEAN /\ x.ackTimer \in BOOLEAN
    /\ x.closeTimer \in {"undefined", "running", "stopped"}
    /\ x.sent \in [id : 0 .. MaxMessages[s], ack : 0 .. MaxMessages[Other(s)]]
    /\ x.call \in {"none", "sending", "waiting"}
    /\ x.settled \in {"no", "acked", "closed", "failed"}
    /\ x.counter \in 0 .. MaxTransmissions
    /\ x.timer \in Timers(s) /\ x.running \subseteq Timers(s) /\ x.inFlight \subseteq Timers(s)
    /\ x.toAck \in 0 .. MaxMessages[Other(s)]
    /\ x.suspended \subseteq Numbers(Other(s))
    /\ x.closers \subseteq Closers /\ x.stranded \in 0 .. MaxMessages[Other(s)]
    /\ x.sends \in Nat /\ x.refusals \in 0 .. MaxRefusals

\* No more transmissions than the counter tells, nor than the budget allows; the counter
\* is reset when the first transmission is done, which must then be the only one.
Budgeted(x) ==
    /\ x.sends <= 1 + x.counter + Bought(x)
    /\ x.sends <= MaxTransmissions + Bought(x)
    /\ x.call = "sending" => x.sends <= 1

\* Timers belong to messages that were sent.  The pending message has one driver at most,
\* none before its first transmission is done, and none once its send() has failed; while
\* it has one, the counter has room and send() has not returned, unless it was aborted or
\* the exchange is closed.
Pending(s, x, out) ==
    /\ \A t \in x.running \cup x.inFlight : t.id \in Numbers(s) /\ out[s][t.id] # "unsent"
    /\ x.sent # NoMessage =>
          /\ x.sent.id \in Numbers(s) /\ out[s][x.sent.id] # "unsent"
          /\ x.timer.id = x.sent.id
          /\ Armed(x) \subseteq {x.timer}
          /\ Armed(x) = {} \/ OnTheWay(x) = {}
          /\ \A t, u \in OnTheWay(x) : t = u
          /\ x.call = "sending" => Undriven(x)
          /\ x.settled = "failed" => Undriven(x)
          /\ ~Undriven(x) => /\ x.counter < MaxTransmissions
                             /\ x.closed \/ out[s][x.sent.id] \in {"pending", "aborted"}

\* How the promise of the call can be settled.
Promise(x) ==
    /\ x.call # "none" /\ x.settled = "no" => x.armed /\ x.sent # NoMessage
    /\ x.call = "sending" => x.settled # "failed"
    /\ x.settled = "closed" => x.closed
    /\ x.settled = "acked" => x.sent = NoMessage

\* An acknowledgement that is owed is somebody's business, or could not be sent.
Owing(x) ==
    x.toAck # 0 => x.ackTimer \/ x.suspended # {} \/ x.closed \/ x.toAck = x.stranded

Base(s, x, out) ==
    Typed(s, x) /\ Budgeted(x) /\ Pending(s, x, out) /\ Promise(x) /\ Owing(x)

\* A send() that waits is driven.
Driven(x) == x.call = "waiting" /\ x.settled = "no" => ~Undriven(x)

\* A promise that has settled is noticed at once.
Noticed(x) == x.call = "waiting" => x.settled = "no"

Good(s, x, out) == Base(s, x, out) /\ Driven(x) /\ Noticed(x)

-----------------------------------------------------------------------------
(***************************************************************************)
(* The invariant.                                                          *)
(***************************************************************************)

ObjectsGood == \A e \in Exchanges : Good(Side(e), ex[e], outcome)

\* The message of a call is pending in no other object.
Own ==
    \A e, f \in Exchanges :
        e # f /\ Side(e) = Side(f) /\ ex[e].sent # NoMessage /\ ex[f].call # "none" =>
            ex[e].sent.id # ex[f].timer.id

NetTyped == net \subseteq Messages /\ faults \in 0 .. MaxFaults

OutcomesTyped ==
    \A s \in Sides : outcome[s] \in [Numbers(s) -> {"unsent", "pending"} \cup Ended]

TimersInv == Inv /\ ObjectsGood /\ Own /\ NetTyped /\ OutcomesTyped

-----------------------------------------------------------------------------
(***************************************************************************)
(* What the methods do to the fields of an object.                         *)
(***************************************************************************)

\* y differs from x in the given fields at most.
SameBut(x, y, changed) == DOMAIN y = Fields /\ \A f \in Fields \ changed : y[f] = x[f]

\* The bounds are natural numbers, for either side.
LEMMA BoundsFacts ==
    ASSUME NEW s \in Sides
    PROVE  /\ Other(s) \in Sides /\ MaxMessages[s] \in Nat /\ MaxMessages[Other(s)] \in Nat
           /\ Numbers(s) \subseteq 0 .. MaxMessages[s] /\ 0 \notin Numbers(s)
           /\ MaxTransmissions \in Nat /\ MaxTransmissions >= 1 /\ MaxRefusals \in Nat
<1>1. Other(s) \in Sides
  BY SidesFacts
<1>2. MaxMessages[s] \in Nat /\ MaxMessages[Other(s)] \in Nat
  BY <1>1, BoundsAssumption DEF Sides
<1> QED
  BY <1>1, <1>2, BoundsAssumption, BudgetAssumption DEF Numbers

\* What refused sends buy is a number, and one more buys a budget less one.
LEMMA BoughtFacts ==
    ASSUME NEW r \in Nat
    PROVE  /\ r * (MaxTransmissions - 1) \in Nat
           /\ (r + 1) * (MaxTransmissions - 1) = r * (MaxTransmissions - 1) + MaxTransmissions - 1
<1>1. MaxTransmissions - 1 \in Nat
  BY BudgetAssumption
<1> QED
  BY <1>1

\* Settling the promise of a call in progress.
LEMMA SettleFields ==
    ASSUME NEW x, DOMAIN x = Fields, NEW how
    PROVE  /\ SameBut(x, Settle(x, how), {"settled"})
           /\ Settle(x, how).settled =
                 IF x.armed /\ x.call # "none" /\ x.settled = "no" THEN how ELSE x.settled
  BY DEF Settle, SameBut, Fields

\* The pending message is acknowledged.
LEMMA AckedFields ==
    ASSUME NEW x, DOMAIN x = Fields
    PROVE  /\ SameBut(x, Acked(x),
                      {"settled", "running", "counter", "armed", "sent", "sends", "refusals"})
           /\ Acked(x).settled =
                 IF x.armed /\ x.call # "none" /\ x.settled = "no" THEN "acked" ELSE x.settled
           /\ Acked(x).running = x.running \ {x.timer}
           /\ Acked(x).counter = 0 /\ Acked(x).armed = FALSE /\ Acked(x).sent = NoMessage
           /\ Acked(x).sends = 0 /\ Acked(x).refusals = 0
<1> DEFINE y == Settle(x, "acked")
<1>1. /\ SameBut(x, y, {"settled"})
      /\ y.settled = IF x.armed /\ x.call # "none" /\ x.settled = "no" THEN "acked" ELSE x.settled
  BY SettleFields
<1>2. Acked(x) = [y EXCEPT !.running = @ \ {x.timer}, !.counter = 0, !.armed = FALSE,
                           !.sent = NoMessage, !.sends = 0, !.refusals = 0]
  BY DEF Acked
<1>3. DOMAIN y = Fields /\ \A f \in Fields \ {"settled"} : y[f] = x[f]
  BY <1>1 DEF SameBut
<1> HIDE DEF y
<1>4. /\ Acked(x).running = y.running \ {x.timer} /\ Acked(x).counter = 0
      /\ Acked(x).armed = FALSE /\ Acked(x).sent = NoMessage /\ Acked(x).sends = 0
      /\ Acked(x).refusals = 0 /\ Acked(x).settled = y.settled /\ DOMAIN Acked(x) = Fields
  BY <1>2, <1>3 DEF Fields
<1>5. \A f \in Fields \ {"running", "counter", "armed", "sent", "sends", "refusals"} :
         Acked(x)[f] = y[f]
  BY <1>2, <1>3
<1>6. y.running = x.running
  BY <1>3 DEF Fields
<1>7. SameBut(x, Acked(x),
              {"settled", "running", "counter", "armed", "sent", "sends", "refusals"})
  BY <1>3, <1>4, <1>5 DEF SameBut
<1> QED
  BY <1>1, <1>4, <1>6, <1>7

-----------------------------------------------------------------------------
(***************************************************************************)
(* What the methods preserve.                                              *)
(***************************************************************************)

\* A closed exchange is good in itself, and has settled the promise of its call.
LEMMA ClosedBase ==
    ASSUME NEW s \in Sides, NEW x, NEW out, Base(s, x, out), NEW cause \in BOOLEAN
    PROVE  /\ Base(s, Closed(x, cause), out) /\ Driven(Closed(x, cause))
           /\ Closed(x, cause).sent = x.sent /\ Closed(x, cause).inFlight = x.inFlight
<1> DEFINE w == Settle(x, "closed")
           y == Closed(x, cause)
<1>0. DOMAIN x = Fields
  BY DEF Base, Typed
<1>w. /\ SameBut(x, w, {"settled"})
      /\ w.settled = IF x.armed /\ x.call # "none" /\ x.settled = "no" THEN "closed" ELSE x.settled
  BY <1>0, SettleFields
<1>y. y = [w EXCEPT !.closeCause = @ \/ cause, !.running = @ \ {x.timer}, !.ackTimer = FALSE,
                    !.closeTimer = IF @ = "undefined" THEN @ ELSE "stopped", !.closed = TRUE]
  BY DEF Closed
<1> HIDE DEF w, y
<1>1. /\ SameBut(x, y, {"settled", "closeCause", "running", "ackTimer", "closeTimer", "closed"})
      /\ y.settled = IF x.armed /\ x.call # "none" /\ x.settled = "no" THEN "closed" ELSE x.settled
      /\ y.closeCause \in BOOLEAN /\ y.running = x.running \ {x.timer}
      /\ y.ackTimer = FALSE /\ y.closed = TRUE
      /\ y.closeTimer = IF x.closeTimer = "undefined" THEN x.closeTimer ELSE "stopped"
  BY <1>w, <1>y DEF SameBut, Fields
<1>2. /\ y.kind = x.kind /\ y.used = x.used /\ y.closing = x.closing
      /\ y.isDestroyed = x.isDestroyed /\ y.sent = x.sent /\ y.armed = x.armed
      /\ y.closers = x.closers /\ y.stranded = x.stranded
      /\ y.call = x.call /\ y.counter = x.counter /\ y.timer = x.timer
      /\ y.inFlight = x.inFlight /\ y.toAck = x.toAck /\ y.suspended = x.suspended
      /\ y.sends = x.sends /\ y.refusals = x.refusals /\ DOMAIN y = Fields
  BY <1>1 DEF SameBut, Fields
<1>3. Typed(s, y)
  <2>1. y.closeCause \in BOOLEAN
    BY <1>1
  <2>2. y.settled \in {"no", "acked", "closed", "failed"}
    BY <1>1 DEF Base, Typed
  <2>3. y.closeTimer \in {"undefined", "running", "stopped"}
    BY <1>1 DEF Base, Typed
  <2>4. y.closed \in BOOLEAN /\ y.ackTimer \in BOOLEAN
    BY <1>1
  <2>5. y.running \subseteq Timers(s)
    BY <1>1 DEF Base, Typed
  <2> QED
    BY <1>2, <2>1, <2>2, <2>3, <2>4, <2>5 DEF Base, Typed
<1>4. Budgeted(y)
  BY <1>2 DEF Base, Budgeted, Bought
<1>5. Pending(s, y, out)
  <2>1. Armed(y) \subseteq Armed(x) /\ OnTheWay(y) = OnTheWay(x) /\ y.running \subseteq x.running
    BY <1>1, <1>2 DEF Armed, OnTheWay
  <2>2. Undriven(x) => Undriven(y)
    BY <2>1 DEF Undriven
  <2>3. y.settled = "failed" => x.settled = "failed"
    BY <1>1
  <2> QED
    BY <1>1, <1>2, <2>1, <2>2, <2>3 DEF Base, Pending
<1>6. Promise(y) /\ Owing(y) /\ Driven(y)
  BY <1>1, <1>2 DEF Base, Promise, Owing, Driven
<1> QED
  BY <1>2, <1>3, <1>4, <1>5, <1>6 DEF Base, y

\* So is one whose message was acknowledged.
LEMMA AckedBase ==
    ASSUME NEW s \in Sides, NEW x, NEW out, Base(s, x, out)
    PROVE  /\ Base(s, Acked(x), out) /\ Driven(Acked(x))
           /\ Acked(x).sent = NoMessage /\ Acked(x).inFlight = x.inFlight
<1> DEFINE y == Acked(x)
<1>1. /\ SameBut(x, y, {"settled", "running", "counter", "armed", "sent", "sends", "refusals"})
      /\ y.settled = IF x.armed /\ x.call # "none" /\ x.settled = "no" THEN "acked" ELSE x.settled
      /\ y.running = x.running \ {x.timer} /\ y.counter = 0 /\ y.armed = FALSE
      /\ y.sent = NoMessage /\ y.sends = 0 /\ y.refusals = 0
  BY AckedFields DEF Base, Typed
<1> HIDE DEF y
<1>2. /\ y.kind = x.kind /\ y.used = x.used /\ y.closing = x.closing /\ y.closed = x.closed
      /\ y.closeCause = x.closeCause /\ y.isDestroyed = x.isDestroyed
      /\ y.closers = x.closers /\ y.stranded = x.stranded
      /\ y.closeTimer = x.closeTimer /\ y.ackTimer = x.ackTimer
      /\ y.call = x.call /\ y.timer = x.timer /\ y.inFlight = x.inFlight
      /\ y.toAck = x.toAck /\ y.suspended = x.suspended /\ DOMAIN y = Fields
  BY <1>1 DEF SameBut, Fields
<1>0. /\ MaxMessages[s] \in Nat /\ MaxMessages[Other(s)] \in Nat
      /\ MaxTransmissions \in Nat /\ MaxRefusals \in Nat
  BY BoundsFacts
<1>3. Typed(s, y)
  <2>1. y.settled \in {"no", "acked", "closed", "failed"}
    BY <1>1 DEF Base, Typed
  <2>2. y.running \subseteq Timers(s)
    BY <1>1 DEF Base, Typed
  <2>3. y.sent \in [id : 0 .. MaxMessages[s], ack : 0 .. MaxMessages[Other(s)]]
    BY <1>0, <1>1 DEF NoMessage
  <2>4. /\ y.counter \in 0 .. MaxTransmissions /\ y.sends \in Nat /\ y.refusals \in 0 .. MaxRefusals
    BY <1>0, <1>1
  <2>5. y.armed \in BOOLEAN
    BY <1>1
  <2> QED
    BY <1>2, <2>1, <2>2, <2>3, <2>4, <2>5 DEF Base, Typed
<1>4. Budgeted(y)
  <2>1. Bought(y) \in Nat
    BY <1>1, BoughtFacts DEF Bought
  <2> QED
    BY <1>0, <1>1, <2>1 DEF Budgeted
<1>5. Pending(s, y, out)
  BY <1>1, <1>2 DEF Base, Pending
<1>6. Promise(y) /\ Owing(y) /\ Driven(y)
  BY <1>1, <1>2 DEF Base, Promise, Owing, Driven
<1> QED
  BY <1>1, <1>2, <1>3, <1>4, <1>5, <1>6 DEF Base, y

\* An acknowledgement, whether it fits the pending message or not.
LEMMA TakeAckBase ==
    ASSUME NEW s \in Sides, NEW x, NEW out, Base(s, x, out), Driven(x), NEW m
    PROVE  /\ Base(s, TakeAck(x, m), out) /\ Driven(TakeAck(x, m))
           /\ TakeAck(x, m).sent \in {NoMessage, x.sent}
           /\ TakeAck(x, m).inFlight = x.inFlight
<1>1. /\ Base(s, Acked(x), out) /\ Driven(Acked(x))
      /\ Acked(x).sent = NoMessage /\ Acked(x).inFlight = x.inFlight
  BY AckedBase
<1>2. /\ Base(s, Closed(Acked(x), FALSE), out) /\ Driven(Closed(Acked(x), FALSE))
      /\ Closed(Acked(x), FALSE).sent = Acked(x).sent
      /\ Closed(Acked(x), FALSE).inFlight = Acked(x).inFlight
  BY <1>1, ClosedBase
<1>3. TakeAck(x, m) \in {x, Acked(x), Closed(Acked(x), FALSE)}
  BY DEF TakeAck
<1> QED
  BY <1>1, <1>2, <1>3

\* A message is given up whose timers and transmissions are all done.
LEMMA GiveUpBase ==
    ASSUME NEW s \in Sides, NEW x, NEW out, Base(s, x, out), Undriven(x),
           x.sent # NoMessage, x.call # "sending"
    PROVE  /\ Base(s, GiveUp(x), out) /\ Driven(GiveUp(x))
           /\ GiveUp(x).sent = x.sent /\ GiveUp(x).inFlight = x.inFlight
<1> DEFINE w == Settle(x, "failed")
           y == IF x.armed THEN [w EXCEPT !.toAck = 0, !.armed = FALSE] ELSE x
<1>1. GiveUp(x) = IF x.closeTimer # "undefined" THEN Closed(y, FALSE) ELSE y
  BY DEF GiveUp
<1>2. DOMAIN x = Fields /\ Typed(s, x)
  BY DEF Base, Typed
<1>3. /\ SameBut(x, w, {"settled"})
      /\ w.settled = IF x.armed /\ x.call # "none" /\ x.settled = "no" THEN "failed" ELSE x.settled
  BY <1>2, SettleFields
<1> HIDE DEF w
<1>4. /\ SameBut(x, y, {"settled", "toAck", "armed"})
      /\ y.toAck \in {0, x.toAck} /\ y.armed \in {FALSE, x.armed}
      /\ y.settled \in {x.settled, "failed"}
      /\ y.call # "none" => y.settled # "no"
  BY <1>2, <1>3 DEF SameBut, Fields, Base, Promise
<1> HIDE DEF y
<1>5. /\ y.kind = x.kind /\ y.used = x.used /\ y.closing = x.closing /\ y.closed = x.closed
      /\ y.closeCause = x.closeCause /\ y.isDestroyed = x.isDestroyed
      /\ y.closers = x.closers /\ y.stranded = x.stranded
      /\ y.closeTimer = x.closeTimer /\ y.ackTimer = x.ackTimer /\ y.sent = x.sent
      /\ y.call = x.call /\ y.counter = x.counter /\ y.timer = x.timer
      /\ y.running = x.running /\ y.inFlight = x.inFlight /\ y.suspended = x.suspended
      /\ y.sends = x.sends /\ y.refusals = x.refusals /\ DOMAIN y = Fields
  BY <1>4 DEF SameBut, Fields
<1>6. Typed(s, y)
  <2>1. y.toAck \in 0 .. MaxMessages[Other(s)]
    BY <1>2, <1>4, BoundsFacts DEF Typed
  <2>2. y.armed \in BOOLEAN
    BY <1>2, <1>4 DEF Typed
  <2>3. y.settled \in {"no", "acked", "closed", "failed"}
    BY <1>2, <1>4 DEF Typed
  <2> QED
    BY <1>2, <1>5, <2>1, <2>2, <2>3 DEF Typed
<1>7. Budgeted(y)
  BY <1>5 DEF Base, Budgeted, Bought
<1>8. Pending(s, y, out)
  <2>1. Armed(y) = Armed(x) /\ OnTheWay(y) = OnTheWay(x)
    BY <1>5 DEF Armed, OnTheWay
  <2>2. Undriven(y)
    BY <2>1 DEF Undriven
  <2> QED
    BY <1>5, <2>1, <2>2 DEF Base, Pending
<1>9. Promise(y) /\ Owing(y) /\ Driven(y)
  BY <1>4, <1>5 DEF Base, Promise, Owing, Driven
<1>10. Base(s, y, out)
  BY <1>6, <1>7, <1>8, <1>9 DEF Base
<1>11. /\ Base(s, Closed(y, FALSE), out) /\ Driven(Closed(y, FALSE))
       /\ Closed(y, FALSE).sent = y.sent /\ Closed(y, FALSE).inFlight = y.inFlight
  BY <1>10, ClosedBase
<1> QED
  BY <1>1, <1>5, <1>9, <1>10, <1>11

\* Changes of an object that leave the sending of messages alone.
LEMMA OtherFieldsBase ==
    ASSUME NEW s \in Sides, NEW x, NEW out, Base(s, x, out), NEW y,
           SameBut(x, y, {"used", "closing", "closeTimer", "isDestroyed", "toAck", "ackTimer",
                          "suspended", "closers", "stranded"}),
           y.used \in BOOLEAN, y.closing \in BOOLEAN, y.isDestroyed \in BOOLEAN,
           y.ackTimer \in BOOLEAN, y.closeTimer \in {"undefined", "running", "stopped"},
           y.toAck \in 0 .. MaxMessages[Other(s)], y.suspended \subseteq Numbers(Other(s)),
           y.closers \subseteq Closers, y.stranded \in 0 .. MaxMessages[Other(s)], Owing(y)
    PROVE  /\ Base(s, y, out) /\ (Driven(x) => Driven(y))
           /\ y.sent = x.sent /\ y.inFlight = x.inFlight
<1>1. /\ y.kind = x.kind /\ y.closed = x.closed /\ y.closeCause = x.closeCause
      /\ y.sent = x.sent /\ y.armed = x.armed /\ y.call = x.call /\ y.settled = x.settled
      /\ y.counter = x.counter /\ y.timer = x.timer /\ y.running = x.running
      /\ y.inFlight = x.inFlight /\ y.sends = x.sends /\ y.refusals = x.refusals
      /\ DOMAIN y = Fields
  BY DEF SameBut, Fields
<1>2. Typed(s, y)
  BY <1>1 DEF Base, Typed
<1>3. Budgeted(y)
  BY <1>1 DEF Base, Budgeted, Bought
<1>4. Armed(y) = Armed(x) /\ OnTheWay(y) = OnTheWay(x) /\ (Undriven(y) <=> Undriven(x))
  BY <1>1 DEF Armed, OnTheWay, Undriven
<1>5. Pending(s, y, out) /\ Promise(y) /\ (Driven(x) => Driven(y))
  BY <1>1, <1>4 DEF Base, Pending, Promise, Driven
<1> QED
  BY <1>1, <1>2, <1>3, <1>5 DEF Base

\* Nor do calls and timers that close it.
LEMMA ClosersBase ==
    ASSUME NEW s \in Sides, NEW x, NEW out, Base(s, x, out), Driven(x), NEW y,
           SameBut(x, y, {"closing", "closeTimer", "closers"}), y.closing \in BOOLEAN,
           y.closeTimer \in {"undefined", "running", "stopped"}, y.closers \subseteq Closers
    PROVE  Base(s, y, out) /\ Driven(y) /\ y.sent = x.sent /\ y.inFlight = x.inFlight
<1>1. /\ SameBut(x, y, {"used", "closing", "closeTimer", "isDestroyed", "toAck", "ackTimer",
                        "suspended", "closers", "stranded"})
      /\ y.used = x.used /\ y.isDestroyed = x.isDestroyed /\ y.toAck = x.toAck
      /\ y.ackTimer = x.ackTimer /\ y.suspended = x.suspended /\ y.stranded = x.stranded
      /\ y.closed = x.closed
  BY DEF SameBut, Fields
<1>2. /\ y.used \in BOOLEAN /\ y.isDestroyed \in BOOLEAN /\ y.ackTimer \in BOOLEAN
      /\ y.toAck \in 0 .. MaxMessages[Other(s)] /\ y.suspended \subseteq Numbers(Other(s))
      /\ y.stranded \in 0 .. MaxMessages[Other(s)] /\ Owing(y)
  BY <1>1 DEF Base, Typed, Owing
<1> QED
  BY <1>1, <1>2, OtherFieldsBase

\* The ack that an exchange owes is being sent by a call that closes it.
LEMMA AckTakenBase ==
    ASSUME NEW s \in Sides, NEW x, NEW out, Base(s, x, out), Driven(x), NEW call \in Closers
    PROVE  /\ Base(s, AckTaken(x, call), out) /\ Driven(AckTaken(x, call))
           /\ AckTaken(x, call).sent = x.sent /\ AckTaken(x, call).inFlight = x.inFlight
<1> DEFINE y == AckTaken(x, call)
<1>1. DOMAIN x = Fields /\ Typed(s, x) /\ 0 \in 0 .. MaxMessages[Other(s)]
  BY BoundsFacts DEF Base, Typed
<1>2. /\ SameBut(x, y, {"used", "closing", "closeTimer", "isDestroyed", "toAck", "ackTimer",
                        "suspended", "closers", "stranded"})
      /\ y.used = x.used /\ y.closing = x.closing /\ y.isDestroyed = x.isDestroyed
      /\ y.closeTimer = x.closeTimer /\ y.suspended = x.suspended
      /\ y.stranded = x.stranded /\ y.toAck = 0 /\ y.ackTimer = FALSE
      /\ y.closers = x.closers \cup {call}
  BY <1>1 DEF AckTaken, SameBut, Fields
<1> HIDE DEF y
<1>3. y.ackTimer \in BOOLEAN /\ Owing(y)
  BY <1>2 DEF Owing
<1>4. /\ y.used \in BOOLEAN /\ y.closing \in BOOLEAN /\ y.isDestroyed \in BOOLEAN
      /\ y.closeTimer \in {"undefined", "running", "stopped"}
      /\ y.toAck \in 0 .. MaxMessages[Other(s)] /\ y.suspended \subseteq Numbers(Other(s))
      /\ y.stranded \in 0 .. MaxMessages[Other(s)]
  BY <1>1, <1>2 DEF Typed
<1>5. y.closers \subseteq Closers
  BY <1>1, <1>2 DEF Typed
<1>6. Base(s, y, out) /\ Driven(y) /\ y.sent = x.sent /\ y.inFlight = x.inFlight
  BY <1>2, <1>3, <1>4, <1>5, OtherFieldsBase
<1> QED
  BY <1>6 DEF y

\* The end of close().
LEMMA CloseOrWaitBase ==
    ASSUME NEW s \in Sides, NEW x, NEW out, Base(s, x, out), Driven(x), NEW cause \in BOOLEAN
    PROVE  /\ Base(s, CloseOrWait(x, cause), out) /\ Driven(CloseOrWait(x, cause))
           /\ CloseOrWait(x, cause).sent = x.sent /\ CloseOrWait(x, cause).inFlight = x.inFlight
<1> DEFINE w == [x EXCEPT !.closeTimer = "running",
                          !.closers = IF x.closeTimer = "running" THEN @ \cup {"timer"} ELSE @]
<1>1. CloseOrWait(x, cause) \in {w, Closed(x, cause)}
  BY DEF CloseOrWait
<1>2. DOMAIN x = Fields /\ Typed(s, x)
  BY DEF Base, Typed
<1>3. /\ SameBut(x, w, {"closing", "closeTimer", "closers"}) /\ w.closing = x.closing
      /\ w.closeTimer = "running" /\ w.closers \subseteq x.closers \cup {"timer"}
  BY <1>2 DEF SameBut, Fields
<1> HIDE DEF w
<1>4. /\ w.closing \in BOOLEAN /\ w.closers \subseteq Closers
      /\ w.closeTimer \in {"undefined", "running", "stopped"}
  BY <1>2, <1>3 DEF Typed, Closers
<1>5. Base(s, w, out) /\ Driven(w) /\ w.sent = x.sent /\ w.inFlight = x.inFlight
  BY <1>3, <1>4, ClosersBase
<1>6. /\ Base(s, Closed(x, cause), out) /\ Driven(Closed(x, cause))
      /\ Closed(x, cause).sent = x.sent /\ Closed(x, cause).inFlight = x.inFlight
  BY ClosedBase
<1> QED
  BY <1>1, <1>5, <1>6

\* close(), with a cause or without.
LEMMA CloseObjectBase ==
    ASSUME NEW s \in Sides, NEW x, NEW out, Base(s, x, out), Driven(x), NEW cause \in BOOLEAN
    PROVE  /\ Base(s, CloseObject(x, cause), out) /\ Driven(CloseObject(x, cause))
           /\ CloseObject(x, cause).sent = x.sent /\ CloseObject(x, cause).inFlight = x.inFlight
<1> DEFINE y == [x EXCEPT !.closing = TRUE]
           w == AckTaken(y, CloseCall(cause))
           v == CloseOrWait(y, cause)
<1>1. CloseObject(x, cause) \in {x, w, v, Closed(x, TRUE), Closed(x, cause)}
  BY DEF CloseObject
<1>2. DOMAIN x = Fields /\ Typed(s, x)
  BY DEF Base, Typed
<1>3. /\ SameBut(x, y, {"closing", "closeTimer", "closers"}) /\ y.closing = TRUE
      /\ y.closeTimer = x.closeTimer /\ y.closers = x.closers
  BY <1>2 DEF SameBut, Fields
<1> HIDE DEF y
<1>4. y.closing \in BOOLEAN
  BY <1>3
<1>5. y.closers \subseteq Closers /\ y.closeTimer \in {"undefined", "running", "stopped"}
  BY <1>2, <1>3 DEF Typed
<1>6. Base(s, y, out) /\ Driven(y) /\ y.sent = x.sent /\ y.inFlight = x.inFlight
  BY <1>3, <1>4, <1>5, ClosersBase
<1>7. CloseCall(cause) \in Closers
  BY DEF CloseCall, Closers
<1>8. Base(s, w, out) /\ Driven(w) /\ w.sent = y.sent /\ w.inFlight = y.inFlight
  BY <1>6, <1>7, AckTakenBase
<1>9. Base(s, v, out) /\ Driven(v) /\ v.sent = y.sent /\ v.inFlight = y.inFlight
  BY <1>6, CloseOrWaitBase
<1>10. /\ Base(s, Closed(x, cause), out) /\ Driven(Closed(x, cause))
       /\ Closed(x, cause).sent = x.sent /\ Closed(x, cause).inFlight = x.inFlight
  BY ClosedBase
<1>11. /\ Base(s, Closed(x, TRUE), out) /\ Driven(Closed(x, TRUE))
       /\ Closed(x, TRUE).sent = x.sent /\ Closed(x, TRUE).inFlight = x.inFlight
  BY ClosedBase
<1> HIDE DEF w, v
<1> QED
  BY <1>1, <1>6, <1>8, <1>9, <1>10, <1>11

-----------------------------------------------------------------------------
(***************************************************************************)
(* Retransmission.                                                         *)
(***************************************************************************)

\* A timer t of side s has fired in x, which it has left: if the message is still
\* pending nothing else drives it, its call waits, and the counter has room.
Fired(s, x, out, t) ==
    /\ Base(s, x, out)
    /\ t \in Timers(s) /\ t.id \in Numbers(s) /\ out[s][t.id] # "unsent"
    /\ StillPending(x, t) =>
          /\ Undriven(x) /\ x.call # "sending" /\ x.settled # "failed"
          /\ x.counter < MaxTransmissions
          /\ x.closed \/ out[s][t.id] \in {"pending", "aborted"}
    /\ ~StillPending(x, t) => Driven(x)

\* A timer belongs to a message, and so one still pending has a message pending.
LEMMA FiredPending ==
    ASSUME NEW s \in Sides, NEW x, NEW out, NEW t, Fired(s, x, out, t), StillPending(x, t)
    PROVE  x.sent # NoMessage /\ x.sent.id = t.id
<1>1. t.id # 0
  BY BoundsFacts DEF Fired
<1> QED
  BY <1>1 DEF StillPending, NoMessage

\* The message is transmitted again.
LEMMA AgainBase ==
    ASSUME NEW s \in Sides, NEW x, NEW out, NEW t, Fired(s, x, out, t), StillPending(x, t),
           x.counter + 1 < MaxTransmissions, NEW y,
           SameBut(x, y, {"counter", "inFlight", "sends"}), y.counter = x.counter + 1,
           y.inFlight = x.inFlight \cup {t}, y.sends = x.sends + 1
    PROVE  Base(s, y, out) /\ Driven(y) /\ y.sent = x.sent
<1>0. DOMAIN x = Fields /\ Typed(s, x) /\ x.sent # NoMessage /\ x.sent.id = t.id
  BY FiredPending DEF Fired, Base, Typed
<1>1. /\ y.kind = x.kind /\ y.used = x.used /\ y.closing = x.closing /\ y.closed = x.closed
      /\ y.closeCause = x.closeCause /\ y.isDestroyed = x.isDestroyed
      /\ y.closers = x.closers /\ y.stranded = x.stranded
      /\ y.closeTimer = x.closeTimer /\ y.ackTimer = x.ackTimer /\ y.sent = x.sent
      /\ y.armed = x.armed /\ y.call = x.call /\ y.settled = x.settled /\ y.timer = x.timer
      /\ y.running = x.running /\ y.toAck = x.toAck /\ y.suspended = x.suspended
      /\ y.refusals = x.refusals /\ DOMAIN y = Fields
      /\ y.counter = x.counter + 1 /\ y.sends = x.sends + 1 /\ y.inFlight = x.inFlight \cup {t}
  BY DEF SameBut, Fields
<1>2. Typed(s, y)
  <2>1. y.counter \in 0 .. MaxTransmissions /\ y.sends \in Nat
    BY <1>0, <1>1, BoundsFacts DEF Typed
  <2>2. y.inFlight \subseteq Timers(s)
    BY <1>0, <1>1 DEF Typed, Fired
  <2> QED
    BY <1>0, <1>1, <2>1, <2>2 DEF Typed
<1>3. Budgeted(y)
  <2>1. /\ Bought(y) = Bought(x) /\ x.refusals \in Nat /\ x.sends \in Nat /\ x.counter \in Nat
        /\ MaxTransmissions \in Nat
    BY <1>0, <1>1, BoundsFacts DEF Typed, Bought
  <2>2. Bought(x) \in Nat
    BY <2>1, BoughtFacts DEF Bought
  <2>3. x.sends <= 1 + x.counter + Bought(x) /\ y.call # "sending"
    BY <1>1 DEF Fired, Base, Budgeted
  <2> QED
    BY <1>1, <2>1, <2>2, <2>3 DEF Budgeted
<1>4. Armed(y) = {} /\ OnTheWay(y) = {t}
  BY <1>0, <1>1 DEF Fired, Undriven, Armed, OnTheWay
<1>5. ~Undriven(y) /\ y.call # "sending" /\ y.settled # "failed"
  BY <1>1, <1>4 DEF Undriven, Fired
<1>6. Pending(s, y, out)
  <2>1. \A u \in y.running \cup y.inFlight : u.id \in Numbers(s) /\ out[s][u.id] # "unsent"
    BY <1>1 DEF Fired, Base, Pending
  <2>2. y.counter < MaxTransmissions
    BY <1>1
  <2> QED
    BY <1>0, <1>1, <1>4, <1>5, <2>1, <2>2 DEF Fired, Base, Pending
<1>7. Promise(y) /\ Owing(y) /\ Driven(y)
  BY <1>1, <1>5 DEF Fired, Base, Promise, Owing, Driven
<1> QED
  BY <1>1, <1>2, <1>3, <1>6, <1>7 DEF Base

\* A timer that is armed for the pending message drives it.
LEMMA ArmedBase ==
    ASSUME NEW s \in Sides, NEW x, NEW out, NEW t, Fired(s, x, out, t), StillPending(x, t),
           NEW y, SameBut(x, y, {"timer", "running"}), y.timer \in Timers(s), y.timer.id = t.id,
           y.running = x.running \cup {y.timer}
    PROVE  Base(s, y, out) /\ Driven(y) /\ y.sent = x.sent /\ y.inFlight = x.inFlight
<1>0. DOMAIN x = Fields /\ Typed(s, x) /\ x.sent # NoMessage /\ x.sent.id = t.id
  BY FiredPending DEF Fired, Base, Typed
<1>1. /\ y.kind = x.kind /\ y.used = x.used /\ y.closing = x.closing /\ y.closed = x.closed
      /\ y.closeCause = x.closeCause /\ y.isDestroyed = x.isDestroyed
      /\ y.closers = x.closers /\ y.stranded = x.stranded
      /\ y.closeTimer = x.closeTimer /\ y.ackTimer = x.ackTimer /\ y.sent = x.sent
      /\ y.armed = x.armed /\ y.call = x.call /\ y.settled = x.settled
      /\ y.counter = x.counter /\ y.inFlight = x.inFlight /\ y.toAck = x.toAck
      /\ y.suspended = x.suspended /\ y.sends = x.sends /\ y.refusals = x.refusals
      /\ DOMAIN y = Fields
  BY DEF SameBut, Fields
<1>2. Typed(s, y)
  <2>1. y.timer \in Timers(s) /\ y.running \subseteq Timers(s)
    BY <1>0, <1>1 DEF Typed
  <2> QED
    BY <1>0, <1>1, <2>1 DEF Typed
<1>3. Budgeted(y)
  BY <1>1 DEF Fired, Base, Budgeted, Bought
<1>4. Armed(y) = {y.timer} /\ OnTheWay(y) = {}
  BY <1>0, <1>1 DEF Fired, Undriven, Armed, OnTheWay
<1>5. ~Undriven(y) /\ y.call # "sending" /\ y.settled # "failed"
  BY <1>1, <1>4 DEF Undriven, Fired
<1>6. Pending(s, y, out)
  <2>1. \A u \in y.running \cup y.inFlight : u.id \in Numbers(s) /\ out[s][u.id] # "unsent"
    BY <1>1 DEF Fired, Base, Pending
  <2> QED
    BY <1>0, <1>1, <1>4, <1>5, <2>1 DEF Fired, Base, Pending
<1>7. Promise(y) /\ Owing(y) /\ Driven(y)
  BY <1>1, <1>5 DEF Fired, Base, Promise, Owing, Driven
<1> QED
  BY <1>1, <1>2, <1>3, <1>6, <1>7 DEF Base

\* The wait after the last transmission is such a timer.
LEMMA FinalWaitBase ==
    ASSUME NEW s \in Sides, NEW x, NEW out, NEW t, Fired(s, x, out, t), StillPending(x, t),
           NEW y, y = FinalWait(x, t)
    PROVE  Base(s, y, out) /\ Driven(y) /\ y.sent = x.sent /\ y.inFlight = x.inFlight
<1> DEFINE w == [id |-> t.id, last |-> TRUE]
<1>1. w \in Timers(s) /\ w.id = t.id
  <2>1. t.id \in 0 .. MaxMessages[s]
    BY BoundsFacts DEF Fired
  <2>2. TRUE \in BOOLEAN
    OBVIOUS
  <2> QED
    BY <2>1, <2>2 DEF Timers
<1>2. SameBut(x, y, {"timer", "running"}) /\ y.timer = w /\ y.running = x.running \cup {w}
  BY DEF FinalWait, SameBut, Fields, Fired, Base, Typed
<1> HIDE DEF w
<1> QED
  BY <1>1, <1>2, ArmedBase

\* The last attempt is counted before the message is given up.
LEMMA CountedBase ==
    ASSUME NEW s \in Sides, NEW x, NEW out, NEW t, Fired(s, x, out, t), StillPending(x, t),
           NEW y, SameBut(x, y, {"counter"}), y.counter = x.counter + 1
    PROVE  /\ Base(s, y, out) /\ Undriven(y) /\ y.sent # NoMessage /\ y.call # "sending"
           /\ y.sent = x.sent /\ y.inFlight = x.inFlight
<1>0. DOMAIN x = Fields /\ Typed(s, x) /\ x.sent # NoMessage
  BY FiredPending DEF Fired, Base, Typed
<1>1. /\ y.kind = x.kind /\ y.used = x.used /\ y.closing = x.closing /\ y.closed = x.closed
      /\ y.closeCause = x.closeCause /\ y.isDestroyed = x.isDestroyed
      /\ y.closers = x.closers /\ y.stranded = x.stranded
      /\ y.closeTimer = x.closeTimer /\ y.ackTimer = x.ackTimer /\ y.sent = x.sent
      /\ y.armed = x.armed /\ y.call = x.call /\ y.settled = x.settled /\ y.timer = x.timer
      /\ y.running = x.running /\ y.inFlight = x.inFlight /\ y.toAck = x.toAck
      /\ y.suspended = x.suspended /\ y.sends = x.sends /\ y.refusals = x.refusals
      /\ DOMAIN y = Fields /\ y.counter = x.counter + 1
  BY DEF SameBut, Fields
<1>2. Typed(s, y)
  <2>1. y.counter \in 0 .. MaxTransmissions
    BY <1>0, <1>1, BoundsFacts DEF Typed, Fired
  <2> QED
    BY <1>0, <1>1, <2>1 DEF Typed
<1>3. Budgeted(y)
  <2>1. /\ Bought(y) = Bought(x) /\ x.refusals \in Nat /\ x.sends \in Nat /\ x.counter \in Nat
    BY <1>0, <1>1, BoundsFacts DEF Typed, Bought
  <2>2. Bought(x) \in Nat
    BY <2>1, BoughtFacts DEF Bought
  <2>3. Budgeted(x)
    BY DEF Fired, Base
  <2> QED
    BY <1>1, <2>1, <2>2, <2>3 DEF Budgeted
<1>4. Armed(y) = Armed(x) /\ OnTheWay(y) = OnTheWay(x) /\ Undriven(y)
  BY <1>1 DEF Fired, Undriven, Armed, OnTheWay
<1>5. Pending(s, y, out)
  BY <1>1, <1>4 DEF Fired, Base, Pending
<1>6. Promise(y) /\ Owing(y) /\ y.call # "sending"
  BY <1>1 DEF Fired, Base, Promise, Owing
<1> QED
  BY <1>0, <1>1, <1>2, <1>3, <1>4, <1>5, <1>6 DEF Base

-----------------------------------------------------------------------------
(***************************************************************************)
(* The shape of a step, as far as timers go.                               *)
(***************************************************************************)

\* The pending message of e is the one there was, or it is a new one.
SentKept(e) ==
    \/ ex'[e].sent \in {NoMessage, ex[e].sent}
    \/ outcome[Side(e)][ex'[e].sent.id] = "unsent"

\* Only messages whose send() still waits, or was aborted, are transmitted again.
AgainPending(e, inFlight) ==
    \A t \in inFlight \ ex[e].inFlight : outcome[Side(e)][t.id] \in {"pending", "aborted"}

\* At most one outcome is set.
OutcomeSet(e) ==
    \/ outcome' = outcome
    \/ \E i, v : /\ v \in {"unsent", "pending"} \cup Ended
                 /\ outcome' = [outcome EXCEPT ![Side(e)][i] = v]

\* The object e stays good.
TimedStep(e) ==
    /\ Good(Side(e), ex'[e], outcome') /\ OutcomeSet(e)
    /\ SentKept(e) /\ AgainPending(e, ex'[e].inFlight)

\* Every object is good, and its parts.
LEMMA ObjectGood ==
    ASSUME TimersInv, NEW e \in Exchanges
    PROVE  /\ Side(e) \in Sides /\ Other(Side(e)) \in Sides /\ Other(Side(e)) # Side(e)
           /\ Good(Side(e), ex[e], outcome) /\ Base(Side(e), ex[e], outcome)
           /\ Typed(Side(e), ex[e]) /\ DOMAIN ex[e] = Fields /\ Driven(ex[e])
           /\ Sound(Side(e), ex[e], outcome, seen)
  BY SidesFacts DEF TimersInv, ObjectsGood, Good, Base, Typed, Inv, ObjectsSound

\* What Become makes of an object: a send() that has settled returns.
LEMMA BecomeGood ==
    ASSUME TimersInv, NEW e \in Exchanges, NEW y, Base(Side(e), y, outcome), Driven(y),
           y.sent \in {NoMessage, ex[e].sent}, AgainPending(e, y.inFlight), Become(e, y)
    PROVE  TimedStep(e)
<1> DEFINE s == Side(e)
           r == [y EXCEPT !.call = "none", !.settled = "no", !.armed = FALSE,
                          !.running = IF y.settled = "failed" THEN @ \ {y.timer} ELSE @]
<1>0. /\ s \in Sides /\ DOMAIN ex = Exchanges /\ DOMAIN outcome = Sides
      /\ DOMAIN outcome[s] = Numbers(s) /\ DOMAIN y = Fields /\ Typed(s, y)
  BY SidesFacts DEF TimersInv, Inv, Shape, Base, Typed
<1>1. CASE ~(y.call = "waiting" /\ y.settled # "no")
  <2>1. ex'[e] = y /\ outcome' = outcome
    BY <1>0, <1>1 DEF Become
  <2>2. Noticed(y)
    BY <1>1 DEF Noticed
  <2> QED
    BY <2>1, <2>2 DEF TimedStep, Good, SentKept, OutcomeSet
<1>2. CASE y.call = "waiting" /\ y.settled # "no"
  <2>1. ex' = [ex EXCEPT ![e] = r] /\ outcome' = [outcome EXCEPT ![s][y.timer.id] = y.settled]
    BY <1>2 DEF Become
  <2>2. ex'[e] = r
    BY <1>0, <2>1
  <2>3. \A i \in Numbers(s) : outcome'[s][i] = IF i = y.timer.id THEN y.settled ELSE outcome[s][i]
    BY <1>0, <2>1
  <2>4. /\ r.kind = y.kind /\ r.used = y.used /\ r.closing = y.closing /\ r.closed = y.closed
        /\ r.closeCause = y.closeCause /\ r.isDestroyed = y.isDestroyed
        /\ r.closers = y.closers /\ r.stranded = y.stranded
        /\ r.closeTimer = y.closeTimer /\ r.ackTimer = y.ackTimer /\ r.sent = y.sent
        /\ r.counter = y.counter /\ r.timer = y.timer /\ r.inFlight = y.inFlight
        /\ r.toAck = y.toAck /\ r.suspended = y.suspended /\ r.sends = y.sends
        /\ r.refusals = y.refusals /\ DOMAIN r = Fields
        /\ r.call = "none" /\ r.settled = "no" /\ r.armed = FALSE
        /\ r.running \subseteq y.running
    BY <1>0 DEF Fields
  <2> HIDE DEF r
  <2>5. Typed(s, r)
    <3>1. r.armed \in BOOLEAN
      BY <2>4
    <3> QED
      BY <1>0, <2>4, <3>1 DEF Typed
  <2>6. Budgeted(r)
    BY <2>4 DEF Base, Budgeted, Bought
  <2>7. Armed(r) \subseteq Armed(y) /\ OnTheWay(r) = OnTheWay(y)
    BY <2>4 DEF Armed, OnTheWay
  <2>8. Undriven(y) => Undriven(r)
    BY <2>7 DEF Undriven
  <2>9. y.settled \in {"acked", "closed", "failed"}
    BY <1>0, <1>2 DEF Typed
  <2>10. Pending(s, r, outcome')
    <3>1. \A t \in r.running \cup r.inFlight : t.id \in Numbers(s) /\ outcome'[s][t.id] # "unsent"
      BY <2>3, <2>4, <2>9 DEF Base, Pending
    <3>2. r.sent # NoMessage /\ ~Undriven(r) => r.closed
      BY <2>4, <2>8, <2>9 DEF Base, Promise, Pending
    <3>3. r.sent # NoMessage => r.sent.id \in Numbers(s) /\ outcome'[s][r.sent.id] # "unsent"
      BY <2>3, <2>4, <2>9 DEF Base, Pending
    <3> QED
      BY <2>4, <2>7, <2>8, <3>1, <3>2, <3>3 DEF Base, Pending
  <2>11. Promise(r) /\ Owing(r) /\ Driven(r) /\ Noticed(r)
    BY <2>4 DEF Base, Promise, Owing, Driven, Noticed
  <2>12. OutcomeSet(e)
    BY <2>1, <2>9 DEF OutcomeSet, Ended
  <2> QED
    BY <2>2, <2>4, <2>5, <2>6, <2>10, <2>11, <2>12 DEF TimedStep, Good, Base, SentKept
<1> QED
  BY <1>1, <1>2

\* A step that leaves the objects alone.
LEMMA UnchangedGood ==
    ASSUME TimersInv, NEW e \in Exchanges, UNCHANGED <<ex, outcome>>
    PROVE  TimedStep(e)
  BY ObjectGood DEF TimedStep, SentKept, AgainPending, OutcomeSet

\* An object changes and no send() returns.
LEMMA DirectGood ==
    ASSUME TimersInv, NEW e \in Exchanges, NEW y, Good(Side(e), y, outcome),
           y.sent \in {NoMessage, ex[e].sent}, y.inFlight \subseteq ex[e].inFlight,
           ex' = [ex EXCEPT ![e] = y], UNCHANGED outcome
    PROVE  TimedStep(e)
<1>1. ex'[e] = y
  BY DEF TimersInv, Inv, Shape
<1> QED
  BY <1>1 DEF TimedStep, SentKept, AgainPending, OutcomeSet

\* The other objects do not notice: the message whose outcome changes is not theirs.
LEMMA OthersGood ==
    ASSUME TimersInv, NEW e \in Exchanges, NEW z, StepOf(e, z), NEW f \in Exchanges, f # e
    PROVE  Good(Side(f), ex'[f], outcome')
<1> DEFINE s == Side(f)
<1>1. ex'[f] = ex[f] /\ Good(s, ex[f], outcome)
  BY ObjectGood DEF StepOf, ObjectBecomes
<1>2. /\ \A i \in Numbers(s) : outcome[s][i] # "unsent" => outcome'[s][i] # "unsent"
      /\ ex[f].sent # NoMessage => outcome'[s][ex[f].sent.id] = outcome[s][ex[f].sent.id]
  <2>1. CASE s = Side(e)
    <3>1. ex[f].sent # NoMessage =>
             /\ ex[f].sent.id \in Numbers(s) /\ outcome[s][ex[f].sent.id] # "unsent"
             /\ ex[e].call # "none" => ex[f].sent.id # ex[e].timer.id
      BY <1>1, <2>1 DEF Good, Base, Pending, TimersInv, Own
    <3>2. OutcomeMoves(e)
      BY DEF StepOf
    <3> QED
      BY <2>1, <3>1, <3>2 DEF OutcomeMoves, Ended
  <2>2. CASE s = Other(Side(e))
    BY <2>2 DEF StepOf, OutcomeMoves
  <2> QED
    BY <2>1, <2>2, SidesFacts
<1>3. Pending(s, ex[f], outcome')
  BY <1>1, <1>2 DEF Good, Base, Pending
<1> QED
  BY <1>1, <1>3 DEF Good, Base

\* The message of a call stays the object's own.
LEMMA OwnKept ==
    ASSUME TimersInv, NEW e \in Exchanges, NEW z, StepOf(e, z), SentKept(e)
    PROVE  Own'
<1>0. /\ ex'[e] = z /\ \A f \in Exchanges : f # e => ex'[f] = ex[f]
  BY DEF StepOf, ObjectBecomes
<1> SUFFICES ASSUME NEW f \in Exchanges, NEW g \in Exchanges, f # g, Side(f) = Side(g),
                    ex'[f].sent # NoMessage, ex'[g].call # "none"
             PROVE  ex'[f].sent.id # ex'[g].timer.id
  BY DEF Own
<1>1. Own
  BY DEF TimersInv
<1>2. CASE f # e /\ g # e
  BY <1>0, <1>1, <1>2 DEF Own
<1>3. CASE f = e
  <2>1. ex'[g] = ex[g] /\ outcome[Side(g)][ex[g].timer.id] = "pending"
    BY <1>0, <1>3, ObjectGood DEF Sound
  <2> QED
    BY <1>1, <1>3, <2>1 DEF SentKept, Own
<1>4. CASE g = e
  <2>1. ex'[f] = ex[f] /\ outcome[Side(f)][ex[f].sent.id] # "unsent"
    BY <1>0, <1>4, ObjectGood DEF Base, Pending
  <2> QED
    BY <1>0, <1>1, <1>4, <2>1 DEF StepOf, CallKept, Own
<1> QED
  BY <1>2, <1>3, <1>4

\* Outcomes stay what they can be.
LEMMA OutcomesKept ==
    ASSUME TimersInv, NEW e \in Exchanges, OutcomeSet(e)
    PROVE  OutcomesTyped'
<1>0. CASE outcome' = outcome
  BY <1>0 DEF TimersInv, OutcomesTyped
<1>1. CASE outcome' # outcome
  <2>1. PICK i, v : /\ v \in {"unsent", "pending"} \cup Ended
                    /\ outcome' = [outcome EXCEPT ![Side(e)][i] = v]
    BY <1>1 DEF OutcomeSet
  <2> SUFFICES ASSUME NEW s \in Sides
               PROVE  outcome'[s] \in [Numbers(s) -> {"unsent", "pending"} \cup Ended]
    BY DEF OutcomesTyped
  <2>2. outcome[s] \in [Numbers(s) -> {"unsent", "pending"} \cup Ended] /\ DOMAIN outcome = Sides
    BY DEF TimersInv, OutcomesTyped, Inv, Shape
  <2>3. outcome'[s] = IF s = Side(e) THEN [outcome[s] EXCEPT ![i] = v] ELSE outcome[s]
    BY <2>1, <2>2
  <2> QED
    BY <2>1, <2>2, <2>3
<1> QED
  BY <1>0, <1>1

\* A step of this shape keeps the invariant.
LEMMA TimedStepKeeps ==
    ASSUME TimersInv, NEW e \in Exchanges, NEW z, StepOf(e, z), TimedStep(e), NetTyped'
    PROVE  TimersInv'
<1>1. Inv'
  BY StepKeepsInv DEF TimersInv
<1>2. ObjectsGood'
  BY OthersGood DEF ObjectsGood, TimedStep
<1>3. Own'
  BY OwnKept DEF TimedStep
<1>4. OutcomesTyped'
  BY OutcomesKept DEF TimedStep
<1> QED
  BY <1>1, <1>2, <1>3, <1>4 DEF TimersInv

-----------------------------------------------------------------------------
(***************************************************************************)
(* The steps of the calls of send().                                       *)
(***************************************************************************)

\* An object with fewer timers and transmissions is good in itself.
LEMMA FewerBase ==
    ASSUME NEW s \in Sides, NEW x, NEW out, Base(s, x, out), NEW y,
           SameBut(x, y, {"running", "inFlight"}),
           y.running \subseteq x.running, y.inFlight \subseteq x.inFlight
    PROVE  Base(s, y, out)
<1>1. /\ y.kind = x.kind /\ y.used = x.used /\ y.closing = x.closing /\ y.closed = x.closed
      /\ y.closeCause = x.closeCause /\ y.isDestroyed = x.isDestroyed
      /\ y.closers = x.closers /\ y.stranded = x.stranded
      /\ y.closeTimer = x.closeTimer /\ y.ackTimer = x.ackTimer /\ y.sent = x.sent
      /\ y.armed = x.armed /\ y.call = x.call /\ y.settled = x.settled /\ y.timer = x.timer
      /\ y.counter = x.counter /\ y.toAck = x.toAck
      /\ y.suspended = x.suspended /\ y.sends = x.sends /\ y.refusals = x.refusals
      /\ DOMAIN y = Fields
  BY DEF SameBut, Fields
<1>2. Typed(s, y)
  <2>1. y.running \subseteq Timers(s) /\ y.inFlight \subseteq Timers(s)
    BY DEF Base, Typed
  <2> QED
    BY <1>1, <2>1 DEF Base, Typed
<1>3. Budgeted(y) /\ Promise(y) /\ Owing(y)
  BY <1>1 DEF Base, Budgeted, Bought, Promise, Owing
<1>4. Armed(y) \subseteq Armed(x) /\ OnTheWay(y) \subseteq OnTheWay(x)
  BY <1>1 DEF Armed, OnTheWay
<1>5. Undriven(x) => Undriven(y)
  BY <1>4 DEF Undriven
<1>6. Pending(s, y, out)
  BY <1>1, <1>4, <1>5 DEF Base, Pending
<1> QED
  BY <1>2, <1>3, <1>6 DEF Base

\* send() begins with a message that nothing drives yet.
LEMMA SendTimed ==
    ASSUME TimersInv, NEW e \in Exchanges, Send(e)
    PROVE  TimedStep(e) /\ NetTyped'
<1> DEFINE s == Side(e)
           x == ex[e]
<1>1. PICK i \in Numbers(s) :
         /\ outcome[s][i] = "unsent"
         /\ ex' = [ex EXCEPT ![e] =
                    [x EXCEPT !.used = TRUE, !.counter = 0,
                              !.toAck = 0, !.ackTimer = IF x.toAck # 0 THEN FALSE ELSE @,
                              !.sent = [id |-> i, ack |-> x.toAck],
                              !.timer = [id |-> i, last |-> FALSE],
                              !.armed = TRUE, !.call = "sending", !.settled = "no",
                              !.sends = 1, !.refusals = 0]]
         /\ net' = net \cup {[from |-> s, id |-> i, ack |-> x.toAck]}
         /\ outcome' = [outcome EXCEPT ![s][i] = "pending"]
         /\ faults' = faults
  BY DEF Send, Transmit
<1>2. /\ s \in Sides /\ DOMAIN x = Fields /\ Typed(s, x) /\ Base(s, x, outcome)
      /\ DOMAIN ex = Exchanges /\ DOMAIN outcome = Sides /\ DOMAIN outcome[s] = Numbers(s)
  BY ObjectGood DEF TimersInv, Inv, Shape
<1>3. /\ MaxMessages[s] \in Nat /\ i \in 0 .. MaxMessages[s] /\ i # 0
      /\ 0 \in 0 .. MaxMessages[Other(s)] /\ 0 \in 0 .. MaxTransmissions
      /\ 0 \in 0 .. MaxRefusals /\ MaxTransmissions \in Nat /\ MaxTransmissions >= 1
      /\ x.toAck \in 0 .. MaxMessages[Other(s)]
  BY <1>2, BoundsFacts DEF Typed
<1> DEFINE y == ex'[e]
<1>4. /\ y.kind = x.kind /\ y.closing = x.closing /\ y.closed = x.closed
      /\ y.closeCause = x.closeCause /\ y.isDestroyed = x.isDestroyed
      /\ y.closers = x.closers /\ y.stranded = x.stranded
      /\ y.closeTimer = x.closeTimer /\ y.running = x.running /\ y.inFlight = x.inFlight
      /\ y.suspended = x.suspended /\ DOMAIN y = Fields /\ y.used = TRUE /\ y.counter = 0
      /\ y.toAck = 0 /\ y.ackTimer = IF x.toAck # 0 THEN FALSE ELSE x.ackTimer
      /\ y.sent = [id |-> i, ack |-> x.toAck] /\ y.timer = [id |-> i, last |-> FALSE]
      /\ y.armed = TRUE /\ y.call = "sending" /\ y.settled = "no"
      /\ y.sends = 1 /\ y.refusals = 0
  BY <1>1, <1>2 DEF Fields
<1>5. /\ outcome'[s][i] = "pending" /\ \A j \in Numbers(s) \ {i} : outcome'[s][j] = outcome[s][j]
  BY <1>1, <1>2
<1> HIDE DEF y
<1>6. Typed(s, y)
  <2>1. y.used \in BOOLEAN /\ y.armed \in BOOLEAN
    BY <1>4
  <2>2. y.ackTimer \in BOOLEAN
    BY <1>2, <1>4 DEF Typed
  <2>3. y.sent \in [id : 0 .. MaxMessages[s], ack : 0 .. MaxMessages[Other(s)]]
    BY <1>3, <1>4
  <2>4. y.timer \in Timers(s)
    <3>1. FALSE \in BOOLEAN
      OBVIOUS
    <3> QED
      BY <1>3, <1>4, <3>1 DEF Timers
  <2>5. y.call \in {"none", "sending", "waiting"} /\ y.settled \in {"no", "acked", "closed", "failed"}
        /\ y.counter \in 0 .. MaxTransmissions /\ y.toAck \in 0 .. MaxMessages[Other(s)]
        /\ y.sends \in Nat /\ y.refusals \in 0 .. MaxRefusals
    BY <1>3, <1>4
  <2> QED
    BY <1>2, <1>4, <2>1, <2>2, <2>3, <2>4, <2>5 DEF Typed
<1>7. Budgeted(y)
  <2>1. Bought(y) \in Nat
    BY <1>4, BoughtFacts DEF Bought
  <2> QED
    BY <1>3, <1>4, <2>1 DEF Budgeted
<1>8. y.sent # NoMessage /\ y.sent.id = i /\ y.timer.id = i
  BY <1>3, <1>4 DEF NoMessage
<1>9. \A t \in x.running \cup x.inFlight :
         t.id # i /\ t.id \in Numbers(s) /\ outcome'[s][t.id] # "unsent"
  BY <1>1, <1>2, <1>5 DEF Base, Pending
<1>10. Armed(y) = {} /\ OnTheWay(y) = {}
  BY <1>4, <1>8, <1>9 DEF Armed, OnTheWay
<1>11. Undriven(y)
  BY <1>10 DEF Undriven
<1>12. Pending(s, y, outcome')
  BY <1>4, <1>5, <1>8, <1>9, <1>10, <1>11 DEF Pending
<1>13. Promise(y) /\ Owing(y) /\ Driven(y) /\ Noticed(y)
  BY <1>4, <1>8 DEF Promise, Owing, Driven, Noticed
<1>14. OutcomeSet(e)
  BY <1>1 DEF OutcomeSet
<1>15. SentKept(e) /\ AgainPending(e, y.inFlight)
  BY <1>1, <1>4, <1>8 DEF SentKept, AgainPending, y
<1>16. NetTyped'
  <2>1. [from |-> s, id |-> i, ack |-> x.toAck] \in Messages
    BY <1>2, <1>3 DEF Messages
  <2> QED
    BY <1>1, <2>1 DEF NetTyped, TimersInv
<1> QED
  BY <1>6, <1>7, <1>12, <1>13, <1>14, <1>15, <1>16 DEF TimedStep, Good, Base, y

\* A refused send() resets the counter, and buys as many transmissions at most.
LEMMA SendRefusedTimed ==
    ASSUME TimersInv, NEW e \in Exchanges, SendRefused(e)
    PROVE  TimedStep(e) /\ NetTyped'
<1> DEFINE s == Side(e)
           x == ex[e]
           y == [x EXCEPT !.counter = 0, !.refusals = @ + 1]
<1>1. /\ x.call = "none" /\ x.sent # NoMessage /\ x.refusals < MaxRefusals
      /\ ex' = [ex EXCEPT ![e] = y] /\ UNCHANGED <<net, outcome, faults>>
  BY DEF SendRefused, Idle, TimersInv, Inv, Shape
<1>2. s \in Sides /\ DOMAIN x = Fields /\ Typed(s, x) /\ Base(s, x, outcome)
  BY ObjectGood
<1>3. /\ y.kind = x.kind /\ y.used = x.used /\ y.closing = x.closing /\ y.closed = x.closed
      /\ y.closeCause = x.closeCause /\ y.isDestroyed = x.isDestroyed
      /\ y.closers = x.closers /\ y.stranded = x.stranded
      /\ y.closeTimer = x.closeTimer /\ y.ackTimer = x.ackTimer /\ y.sent = x.sent
      /\ y.armed = x.armed /\ y.call = x.call /\ y.settled = x.settled /\ y.timer = x.timer
      /\ y.running = x.running /\ y.inFlight = x.inFlight /\ y.toAck = x.toAck
      /\ y.suspended = x.suspended /\ y.sends = x.sends /\ DOMAIN y = Fields
      /\ y.counter = 0 /\ y.refusals = x.refusals + 1
  BY <1>2 DEF Fields
<1> HIDE DEF y
<1>4. /\ x.refusals \in Nat /\ MaxRefusals \in Nat /\ x.sends \in Nat
      /\ MaxTransmissions \in Nat /\ MaxTransmissions >= 1
  BY <1>2, BoundsFacts DEF Typed
<1>5. Typed(s, y)
  <2>1. y.counter \in 0 .. MaxTransmissions /\ y.refusals \in 0 .. MaxRefusals
    BY <1>1, <1>3, <1>4
  <2> QED
    BY <1>2, <1>3, <2>1 DEF Typed
<1>6. Budgeted(y)
  <2>1. Bought(x) \in Nat /\ Bought(y) = Bought(x) + MaxTransmissions - 1
    BY <1>3, <1>4, BoughtFacts DEF Bought
  <2>2. x.sends <= MaxTransmissions + Bought(x) /\ y.call # "sending"
    BY <1>1, <1>2, <1>3 DEF Base, Budgeted
  <2> QED
    BY <1>3, <1>4, <2>1, <2>2 DEF Budgeted
<1>7. Armed(y) = Armed(x) /\ OnTheWay(y) = OnTheWay(x) /\ (Undriven(y) <=> Undriven(x))
  BY <1>3 DEF Armed, OnTheWay, Undriven
<1>8. Pending(s, y, outcome)
  <2>1. y.counter < MaxTransmissions
    BY <1>3, <1>4
  <2> QED
    BY <1>2, <1>3, <1>7, <2>1 DEF Base, Pending
<1>9. Promise(y) /\ Owing(y) /\ Driven(y) /\ Noticed(y)
  BY <1>1, <1>2, <1>3 DEF Base, Promise, Owing, Driven, Noticed
<1>10. TimedStep(e)
  BY <1>1, <1>3, <1>5, <1>6, <1>8, <1>9, DirectGood DEF Good, Base
<1> QED
  BY <1>1, <1>10 DEF NetTyped, TimersInv

\* The channel has taken the message, whose timer becomes its only driver.
LEMMA TransmittedTimed ==
    ASSUME TimersInv, NEW e \in Exchanges, Transmitted(e)
    PROVE  TimedStep(e) /\ NetTyped'
<1> DEFINE s == Side(e)
           x == ex[e]
           y == [x EXCEPT !.call = "waiting", !.counter = 0, !.running = @ \cup {x.timer}]
<1>1. x.call = "sending" /\ Become(e, y) /\ UNCHANGED <<net, faults>>
  BY DEF Transmitted
<1>2. /\ s \in Sides /\ DOMAIN x = Fields /\ Typed(s, x) /\ Base(s, x, outcome)
      /\ x.timer.id \in Numbers(s) /\ outcome[s][x.timer.id] = "pending"
  BY <1>1, ObjectGood DEF Sound
<1>3. /\ y.kind = x.kind /\ y.used = x.used /\ y.closing = x.closing /\ y.closed = x.closed
      /\ y.closeCause = x.closeCause /\ y.isDestroyed = x.isDestroyed
      /\ y.closers = x.closers /\ y.stranded = x.stranded
      /\ y.closeTimer = x.closeTimer /\ y.ackTimer = x.ackTimer /\ y.sent = x.sent
      /\ y.armed = x.armed /\ y.settled = x.settled /\ y.timer = x.timer
      /\ y.inFlight = x.inFlight /\ y.toAck = x.toAck /\ y.suspended = x.suspended
      /\ y.sends = x.sends /\ y.refusals = x.refusals /\ DOMAIN y = Fields
      /\ y.counter = 0 /\ y.call = "waiting" /\ y.running = x.running \cup {x.timer}
  BY <1>2 DEF Fields
<1> HIDE DEF y
<1>4. x.refusals \in Nat /\ x.sends \in Nat /\ MaxTransmissions \in Nat /\ MaxTransmissions >= 1
  BY <1>2, BoundsFacts DEF Typed
<1>5. Typed(s, y)
  <2>1. y.counter \in 0 .. MaxTransmissions
    BY <1>3, <1>4
  <2>2. y.running \subseteq Timers(s) /\ y.call \in {"none", "sending", "waiting"}
    BY <1>2, <1>3 DEF Typed
  <2> QED
    BY <1>2, <1>3, <2>1, <2>2 DEF Typed
<1>6. Budgeted(y)
  <2>1. Bought(y) \in Nat
    BY <1>3, <1>4, BoughtFacts DEF Bought
  <2>2. x.sends <= 1
    BY <1>1, <1>2 DEF Base, Budgeted
  <2> QED
    BY <1>3, <1>4, <2>1, <2>2 DEF Budgeted
<1>7. x.sent # NoMessage => Armed(y) = {x.timer} /\ OnTheWay(y) = {}
  BY <1>1, <1>2, <1>3 DEF Base, Pending, Undriven, Armed, OnTheWay
<1>8. Pending(s, y, outcome)
  <2>1. y.counter < MaxTransmissions
    BY <1>3, <1>4
  <2>2. y.settled # "failed"
    BY <1>1, <1>2, <1>3 DEF Base, Promise
  <2>3. \A t \in y.running \cup y.inFlight : t.id \in Numbers(s) /\ outcome[s][t.id] # "unsent"
    BY <1>2, <1>3 DEF Base, Pending
  <2> QED
    BY <1>2, <1>3, <1>7, <2>1, <2>2, <2>3 DEF Base, Pending
<1>9. Promise(y) /\ Owing(y) /\ Driven(y)
  BY <1>1, <1>2, <1>3, <1>7 DEF Base, Promise, Owing, Driven, Undriven
<1>10. TimedStep(e)
  BY <1>1, <1>3, <1>5, <1>6, <1>8, <1>9, BecomeGood DEF Base, AgainPending
<1> QED
  BY <1>1, <1>10 DEF NetTyped, TimersInv

\* The call ends early.  An aborted message may still be driven, one whose first
\* transmission failed is not.
LEMMA LeaveTimed ==
    ASSUME TimersInv, NEW e \in Exchanges, NEW x, Base(Side(e), x, outcome),
           x.sent = ex[e].sent, x.inFlight = ex[e].inFlight,
           NEW how \in {"aborted", "error"}, Leave(e, x, how),
           x.timer.id \in Numbers(Side(e)),
           how = "error" => x.sent = NoMessage \/ Undriven(x)
    PROVE  TimedStep(e)
<1> DEFINE s == Side(e)
           y == [x EXCEPT !.call = "none", !.settled = "no"]
<1>1. ex' = [ex EXCEPT ![e] = y] /\ outcome' = [outcome EXCEPT ![s][x.timer.id] = how]
  BY DEF Leave
<1>2. /\ s \in Sides /\ DOMAIN x = Fields /\ Typed(s, x)
      /\ DOMAIN ex = Exchanges /\ DOMAIN outcome = Sides /\ DOMAIN outcome[s] = Numbers(s)
  BY ObjectGood DEF TimersInv, Inv, Shape, Base, Typed
<1>3. /\ y.kind = x.kind /\ y.used = x.used /\ y.closing = x.closing /\ y.closed = x.closed
      /\ y.closeCause = x.closeCause /\ y.isDestroyed = x.isDestroyed
      /\ y.closers = x.closers /\ y.stranded = x.stranded
      /\ y.closeTimer = x.closeTimer /\ y.ackTimer = x.ackTimer /\ y.sent = x.sent
      /\ y.armed = x.armed /\ y.timer = x.timer /\ y.counter = x.counter
      /\ y.running = x.running /\ y.inFlight = x.inFlight /\ y.toAck = x.toAck
      /\ y.suspended = x.suspended /\ y.sends = x.sends /\ y.refusals = x.refusals
      /\ DOMAIN y = Fields /\ y.call = "none" /\ y.settled = "no"
  BY <1>2 DEF Fields
<1>4. ex'[e] = y
  BY <1>1, <1>2
<1>5. \A i \in Numbers(s) : outcome'[s][i] = IF i = x.timer.id THEN how ELSE outcome[s][i]
  BY <1>1, <1>2
<1> HIDE DEF y
<1>6. Typed(s, y)
  BY <1>2, <1>3 DEF Typed
<1>7. Budgeted(y) /\ Promise(y) /\ Owing(y) /\ Driven(y) /\ Noticed(y)
  BY <1>3 DEF Base, Budgeted, Bought, Promise, Owing, Driven, Noticed
<1>8. Armed(y) = Armed(x) /\ OnTheWay(y) = OnTheWay(x) /\ (Undriven(y) <=> Undriven(x))
  BY <1>3 DEF Armed, OnTheWay, Undriven
<1>9. Pending(s, y, outcome')
  <2>1. \A t \in y.running \cup y.inFlight : t.id \in Numbers(s) /\ outcome'[s][t.id] # "unsent"
    BY <1>3, <1>5 DEF Base, Pending
  <2>2. y.sent # NoMessage => /\ y.sent.id \in Numbers(s) /\ outcome'[s][y.sent.id] # "unsent"
                              /\ outcome'[s][y.sent.id] = how
    BY <1>3, <1>5 DEF Base, Pending
  <2> QED
    BY <1>3, <1>8, <2>1, <2>2 DEF Base, Pending
<1>10. OutcomeSet(e)
  BY <1>1 DEF OutcomeSet, Ended
<1> QED
  BY <1>3, <1>4, <1>6, <1>7, <1>9, <1>10 DEF TimedStep, Good, Base, SentKept, AgainPending

\* faults stays within its bound.
LEMMA FaultTyped ==
    ASSUME TimersInv, Fault
    PROVE  faults' \in 0 .. MaxFaults
  BY BoundsAssumption DEF TimersInv, NetTyped, Fault

\* The channel failed.
LEMMA TransmitFailsTimed ==
    ASSUME TimersInv, NEW e \in Exchanges, TransmitFails(e)
    PROVE  TimedStep(e) /\ NetTyped'
<1>1. ex[e].call = "sending" /\ Leave(e, ex[e], "error") /\ Fault /\ UNCHANGED net
  BY DEF TransmitFails, Leave
<1>2. /\ Base(Side(e), ex[e], outcome) /\ ex[e].timer.id \in Numbers(Side(e))
      /\ ex[e].sent = NoMessage \/ Undriven(ex[e])
  BY <1>1, ObjectGood DEF Sound, Base, Pending
<1>3. TimedStep(e)
  BY <1>1, <1>2, LeaveTimed
<1> QED
  BY <1>1, <1>3, FaultTyped DEF NetTyped, TimersInv

\* The caller aborted.
LEMMA AbortTimed ==
    ASSUME TimersInv, NEW e \in Exchanges, Abort(e)
    PROVE  TimedStep(e) /\ NetTyped'
<1> DEFINE x == ex[e]
           y == [x EXCEPT !.running = IF x.call = "waiting" THEN @ \ {x.timer} ELSE @]
<1>1. x.call # "none" /\ Leave(e, y, "aborted") /\ Fault /\ UNCHANGED net
  BY DEF Abort, Leave
<1>2. /\ Base(Side(e), x, outcome) /\ x.timer.id \in Numbers(Side(e)) /\ DOMAIN x = Fields
      /\ Side(e) \in Sides
  BY <1>1, ObjectGood DEF Sound
<1>3. /\ SameBut(x, y, {"running", "inFlight"}) /\ y.sent = x.sent /\ y.inFlight = x.inFlight
      /\ y.timer = x.timer /\ y.running \subseteq x.running
  BY <1>2 DEF SameBut, Fields
<1> HIDE DEF y
<1>4. Base(Side(e), y, outcome)
  BY <1>2, <1>3, FewerBase
<1>5. TimedStep(e)
  BY <1>1, <1>2, <1>3, <1>4, LeaveTimed
<1> QED
  BY <1>1, <1>5, FaultTyped DEF NetTyped, TimersInv

\* #retransmitMessage, by whichever timer or duplicate.
LEMMA RetransmitTimed ==
    ASSUME TimersInv, NEW e \in Exchanges, NEW x, NEW t, Fired(Side(e), x, outcome, t),
           x.sent = ex[e].sent, x.inFlight = ex[e].inFlight, x.closed = ex[e].closed,
           RetransmitMessage(e, x, t)
    PROVE  TimedStep(e) /\ NetTyped'
<1> DEFINE s == Side(e)
           again == [x EXCEPT !.counter = @ + 1, !.inFlight = @ \cup {t}, !.sends = @ + 1]
           wait == FinalWait(x, t)
           counted == [x EXCEPT !.counter = @ + 1]
           failed == GiveUp(counted)
           y == IF ~StillPending(x, t) THEN x
                ELSE IF ~Spent(e, x) THEN again
                ELSE IF ~t.last /\ ~considerClosed(e) THEN wait
                ELSE failed
<1>0. s \in Sides /\ Base(s, x, outcome)
  BY ObjectGood DEF Fired
<1>d. DOMAIN x = Fields
  BY <1>0 DEF Base, Typed
<1>1. Become(e, y) /\ UNCHANGED <<net, faults>>
  BY DEF RetransmitMessage
<1>2. StillPending(x, t) =>
         Base(s, wait, outcome) /\ Driven(wait) /\ wait.sent = x.sent /\ wait.inFlight = x.inFlight
  BY <1>0, FinalWaitBase
<1>3. StillPending(x, t) =>
         /\ Base(s, failed, outcome) /\ Driven(failed)
         /\ failed.sent = x.sent /\ failed.inFlight = x.inFlight
  <2> SUFFICES ASSUME StillPending(x, t)
               PROVE  /\ Base(s, failed, outcome) /\ Driven(failed)
                      /\ failed.sent = x.sent /\ failed.inFlight = x.inFlight
    OBVIOUS
  <2>1. /\ Base(s, counted, outcome) /\ Undriven(counted) /\ counted.sent # NoMessage
        /\ counted.call # "sending"
        /\ counted.sent = x.sent /\ counted.inFlight = x.inFlight
    <3>1. SameBut(x, counted, {"counter"}) /\ counted.counter = x.counter + 1
      BY <1>d DEF SameBut, Fields
    <3> HIDE DEF counted
    <3> QED
      BY <1>0, <3>1, CountedBase
  <2> HIDE DEF counted
  <2> QED
    BY <1>0, <2>1, GiveUpBase
<1>4. StillPending(x, t) /\ ~Spent(e, x) =>
         /\ Base(s, again, outcome) /\ Driven(again) /\ again.sent = x.sent
         /\ again.inFlight = x.inFlight \cup {t}
         /\ outcome[s][t.id] \in {"pending", "aborted"}
  <2> SUFFICES ASSUME StillPending(x, t), ~Spent(e, x)
               PROVE  /\ Base(s, again, outcome) /\ Driven(again) /\ again.sent = x.sent
                      /\ again.inFlight = x.inFlight \cup {t}
                      /\ outcome[s][t.id] \in {"pending", "aborted"}
    OBVIOUS
  <2>1. x.counter + 1 < MaxTransmissions /\ ~x.closed
    BY <1>0, BoundsFacts DEF Spent, considerClosed, Base, Typed
  <2>2. outcome[s][t.id] \in {"pending", "aborted"}
    BY <2>1 DEF Fired
  <2>3. /\ SameBut(x, again, {"counter", "inFlight", "sends"}) /\ again.counter = x.counter + 1
        /\ again.inFlight = x.inFlight \cup {t} /\ again.sends = x.sends + 1
    BY <1>d DEF SameBut, Fields
  <2> HIDE DEF again
  <2> QED
    BY <1>0, <2>1, <2>2, <2>3, AgainBase
<1> HIDE DEF wait, failed, again
<1>5. Base(s, y, outcome) /\ Driven(y) /\ y.sent = ex[e].sent /\ AgainPending(e, y.inFlight)
  BY <1>0, <1>2, <1>3, <1>4 DEF Fired, AgainPending
<1> HIDE DEF y
<1>6. TimedStep(e)
  BY <1>1, <1>5, BecomeGood
<1> QED
  BY <1>1, <1>6 DEF NetTyped, TimersInv

\* A retransmission timer fires.
LEMMA RetransmissionTimerTimed ==
    ASSUME TimersInv, NEW e \in Exchanges, RetransmissionTimer(e)
    PROVE  TimedStep(e) /\ NetTyped'
<1> DEFINE s == Side(e)
<1>1. PICK t \in ex[e].running : RetransmitMessage(e, [ex[e] EXCEPT !.running = @ \ {t}], t)
  BY DEF RetransmissionTimer
<1> DEFINE x == [ex[e] EXCEPT !.running = @ \ {t}]
<1>2. /\ s \in Sides /\ Base(s, ex[e], outcome) /\ Driven(ex[e]) /\ DOMAIN ex[e] = Fields
      /\ t \in Timers(s) /\ t.id \in Numbers(s) /\ outcome[s][t.id] # "unsent"
  BY ObjectGood DEF Base, Typed, Pending
<1>3. /\ SameBut(ex[e], x, {"running", "inFlight"}) /\ x.running = ex[e].running \ {t}
      /\ x.inFlight = ex[e].inFlight /\ x.sent = ex[e].sent /\ x.call = ex[e].call
      /\ x.settled = ex[e].settled /\ x.counter = ex[e].counter /\ x.closed = ex[e].closed
  BY <1>2 DEF SameBut, Fields
<1> HIDE DEF x
<1>4. Base(s, x, outcome)
  BY <1>2, <1>3, FewerBase
<1>5. ASSUME StillPending(x, t)
      PROVE  /\ Undriven(x) /\ x.call # "sending" /\ x.settled # "failed"
             /\ x.counter < MaxTransmissions
             /\ x.closed \/ outcome[s][t.id] \in {"pending", "aborted"}
  <2>1. ex[e].sent # NoMessage /\ ex[e].sent.id = t.id
    BY <1>2, <1>3, <1>5, BoundsFacts DEF StillPending, NoMessage
  <2>2. t \in Armed(ex[e]) /\ ~Undriven(ex[e])
    BY <2>1 DEF Armed, Undriven
  <2>3. Armed(ex[e]) = {t} /\ OnTheWay(ex[e]) = {}
    BY <1>2, <2>1, <2>2 DEF Base, Pending
  <2>4. Undriven(x)
    BY <1>3, <2>3 DEF Armed, OnTheWay, Undriven
  <2> QED
    BY <1>2, <1>3, <2>1, <2>2, <2>4 DEF Base, Pending
<1>6. ASSUME ~StillPending(x, t)
      PROVE  Driven(x)
  <2>1. Armed(x) = Armed(ex[e]) /\ OnTheWay(x) = OnTheWay(ex[e])
    BY <1>3, <1>6 DEF StillPending, Armed, OnTheWay
  <2> QED
    BY <1>2, <1>3, <2>1 DEF Driven, Undriven
<1>7. Fired(s, x, outcome, t)
  BY <1>2, <1>4, <1>5, <1>6 DEF Fired
<1> QED
  BY <1>1, <1>3, <1>7, RetransmitTimed DEF x

\* A duplicate makes a BDX exchange retransmit early: its timer is stopped first.
LEMMA KickRetransmissionTimed ==
    ASSUME TimersInv, NEW e \in Exchanges, NEW m, KickRetransmission(e, m)
    PROVE  TimedStep(e) /\ NetTyped'
<1> DEFINE s == Side(e)
           x == [ex[e] EXCEPT !.running = @ \ {ex[e].timer}]
           t == [id |-> ex[e].sent.id, last |-> FALSE]
<1>1. /\ RetransmitMessage(e, x, t)
      /\ ex[e].sent # NoMessage /\ ex[e].timer \in ex[e].running
  BY DEF KickRetransmission
<1>2. /\ s \in Sides /\ Base(s, ex[e], outcome) /\ DOMAIN ex[e] = Fields
      /\ ex[e].sent.id \in Numbers(s) /\ outcome[s][ex[e].sent.id] # "unsent"
      /\ ex[e].timer.id = ex[e].sent.id
  BY <1>1, ObjectGood DEF Base, Pending
<1>3. /\ SameBut(ex[e], x, {"running", "inFlight"}) /\ x.running = ex[e].running \ {ex[e].timer}
      /\ x.inFlight = ex[e].inFlight /\ x.sent = ex[e].sent /\ x.call = ex[e].call
      /\ x.settled = ex[e].settled /\ x.counter = ex[e].counter /\ x.closed = ex[e].closed
  BY <1>2 DEF SameBut, Fields
<1>4. t \in Timers(s) /\ t.id = ex[e].sent.id
  <2>1. FALSE \in BOOLEAN /\ ex[e].sent.id \in 0 .. MaxMessages[s]
    BY <1>2, BoundsFacts
  <2> QED
    BY <2>1 DEF Timers
<1> HIDE DEF x, t
<1>5. Base(s, x, outcome)
  BY <1>2, <1>3, FewerBase
<1>6. ex[e].timer \in Armed(ex[e]) /\ ~Undriven(ex[e])
  BY <1>1, <1>2 DEF Armed, Undriven
<1>7. Armed(ex[e]) = {ex[e].timer} /\ OnTheWay(ex[e]) = {}
  BY <1>1, <1>2, <1>6 DEF Base, Pending
<1>8. Undriven(x)
  BY <1>3, <1>7 DEF Armed, OnTheWay, Undriven
<1>9. /\ x.call # "sending" /\ x.settled # "failed" /\ x.counter < MaxTransmissions
      /\ x.closed \/ outcome[s][t.id] \in {"pending", "aborted"}
  BY <1>1, <1>2, <1>3, <1>4, <1>6 DEF Base, Pending
<1>10. Fired(s, x, outcome, t)
  BY <1>2, <1>3, <1>4, <1>5, <1>8, <1>9 DEF Fired, StillPending
<1> QED
  BY <1>1, <1>3, <1>10, RetransmitTimed

\* The channel has taken a retransmission, and the timer is armed again.
LEMMA RetransmittedTimed ==
    ASSUME TimersInv, NEW e \in Exchanges, Retransmitted(e)
    PROVE  TimedStep(e) /\ NetTyped'
<1> DEFINE s == Side(e)
<1>1. PICK t \in ex[e].inFlight :
         LET x == [ex[e] EXCEPT !.inFlight = @ \ {t}] IN
         /\ ex' = [ex EXCEPT ![e] =
                    IF StillPending(x, t)
                      THEN [x EXCEPT !.timer = t, !.running = @ \cup {t}] ELSE x]
         /\ UNCHANGED <<net, seen, delivered, outcome, faults>>
  BY DEF Retransmitted
<1> DEFINE x == [ex[e] EXCEPT !.inFlight = @ \ {t}]
           y == IF StillPending(x, t) THEN [x EXCEPT !.timer = t, !.running = @ \cup {t}] ELSE x
<1>2. /\ s \in Sides /\ Base(s, ex[e], outcome) /\ Driven(ex[e]) /\ Noticed(ex[e])
      /\ DOMAIN ex[e] = Fields
      /\ t \in Timers(s) /\ t.id \in Numbers(s) /\ outcome[s][t.id] # "unsent"
  BY ObjectGood DEF Good, Base, Typed, Pending
<1>3. /\ SameBut(ex[e], x, {"running", "inFlight"}) /\ x.running = ex[e].running
      /\ x.inFlight = ex[e].inFlight \ {t} /\ x.sent = ex[e].sent /\ x.call = ex[e].call
      /\ x.settled = ex[e].settled /\ x.counter = ex[e].counter /\ x.closed = ex[e].closed
      /\ DOMAIN x = Fields
  BY <1>2 DEF SameBut, Fields
<1>4. ex' = [ex EXCEPT ![e] = y] /\ UNCHANGED <<net, outcome, faults>>
  BY <1>1
<1> HIDE DEF x
<1>5. Base(s, x, outcome)
  BY <1>2, <1>3, FewerBase
<1>6. ASSUME StillPending(x, t)
      PROVE  Good(s, y, outcome) /\ y.sent = ex[e].sent /\ y.inFlight \subseteq ex[e].inFlight
  <2>1. ex[e].sent # NoMessage /\ ex[e].sent.id = t.id
    BY <1>2, <1>3, <1>6, BoundsFacts DEF StillPending, NoMessage
  <2>2. t \in OnTheWay(ex[e]) /\ ~Undriven(ex[e])
    BY <2>1 DEF OnTheWay, Undriven
  <2>3. Armed(ex[e]) = {} /\ OnTheWay(ex[e]) = {t}
    BY <1>2, <2>1, <2>2 DEF Base, Pending
  <2>4. Undriven(x)
    BY <1>3, <2>3 DEF Armed, OnTheWay, Undriven
  <2>5. Fired(s, x, outcome, t)
    BY <1>2, <1>3, <1>5, <1>6, <2>1, <2>2, <2>4 DEF Fired, Base, Pending
  <2>6. /\ SameBut(x, y, {"timer", "running"}) /\ y.timer = t /\ y.running = x.running \cup {t}
        /\ y.call = x.call /\ y.settled = x.settled
    BY <1>3, <1>6 DEF SameBut, Fields
  <2> HIDE DEF y
  <2>7. Base(s, y, outcome) /\ Driven(y) /\ y.sent = x.sent /\ y.inFlight = x.inFlight
    BY <1>2, <1>6, <2>5, <2>6, ArmedBase
  <2> QED
    BY <1>2, <1>3, <2>6, <2>7 DEF Good, Noticed
<1>7. ASSUME ~StillPending(x, t)
      PROVE  Good(s, y, outcome) /\ y.sent = ex[e].sent /\ y.inFlight \subseteq ex[e].inFlight
  <2>1. Armed(x) = Armed(ex[e]) /\ OnTheWay(x) = OnTheWay(ex[e])
    BY <1>3, <1>7 DEF StillPending, Armed, OnTheWay
  <2>2. Driven(x) /\ Noticed(x)
    BY <1>2, <1>3, <2>1 DEF Driven, Noticed, Undriven
  <2> QED
    BY <1>3, <1>5, <1>7, <2>2 DEF Good
<1> HIDE DEF y
<1>8. TimedStep(e)
  BY <1>4, <1>6, <1>7, DirectGood
<1> QED
  BY <1>4, <1>8 DEF NetTyped, TimersInv

\* A retransmission finds the session closed.
LEMMA RetransmitSessionClosedTimed ==
    ASSUME TimersInv, NEW e \in Exchanges, RetransmitSessionClosed(e)
    PROVE  TimedStep(e) /\ NetTyped'
<1> DEFINE s == Side(e)
<1>1. PICK t \in ex[e].inFlight : Become(e, Closed([ex[e] EXCEPT !.inFlight = @ \ {t}], FALSE))
  BY DEF RetransmitSessionClosed
<1> DEFINE x == [ex[e] EXCEPT !.inFlight = @ \ {t}]
           y == Closed(x, FALSE)
<1>2. s \in Sides /\ Base(s, ex[e], outcome) /\ DOMAIN ex[e] = Fields
  BY ObjectGood
<1>3. /\ SameBut(ex[e], x, {"running", "inFlight"}) /\ x.running = ex[e].running
      /\ x.inFlight = ex[e].inFlight \ {t} /\ x.sent = ex[e].sent
  BY <1>2 DEF SameBut, Fields
<1>4. Become(e, y)
  BY <1>1
<1> HIDE DEF x
<1>5. Base(s, x, outcome)
  BY <1>2, <1>3, FewerBase
<1>6. Base(s, y, outcome) /\ Driven(y) /\ y.sent = x.sent /\ y.inFlight = x.inFlight
  BY <1>2, <1>5, ClosedBase
<1> HIDE DEF y
<1>7. TimedStep(e)
  BY <1>3, <1>4, <1>6, BecomeGood DEF AgainPending
<1>8. Fault /\ UNCHANGED net
  BY DEF RetransmitSessionClosed
<1> QED
  BY <1>7, <1>8, FaultTyped DEF NetTyped, TimersInv

-----------------------------------------------------------------------------
(***************************************************************************)
(* The steps of receiving and closing.                                     *)
(***************************************************************************)

\* Acknowledgements of numbers that exist are messages.
LEMMA AckTyped ==
    ASSUME TimersInv, NEW e \in Exchanges, NEW i \in 0 .. MaxMessages[Other(Side(e))]
    PROVE  Ack(e, i) \subseteq Messages
<1>1. Side(e) \in Sides /\ 0 \in 0 .. MaxMessages[Side(e)]
  BY ObjectGood, BoundsFacts
<1>2. StandaloneAck(Side(e), i) \in Messages
  BY <1>1 DEF StandaloneAck, Messages
<1> QED
  BY <1>2 DEF Ack

\* What arrives for an object has a number of the other side.
LEMMA ArrivalFacts ==
    ASSUME TimersInv, NEW e \in Exchanges, NEW m \in net, Side(e) = Other(m.from)
    PROVE  /\ m.from = Other(Side(e)) /\ m.id \in {0} \cup Numbers(Other(Side(e)))
           /\ m.id \in 0 .. MaxMessages[Other(Side(e))]
<1>1. m.from \in Sides /\ m.id \in {0} \cup Numbers(m.from)
  BY DEF TimersInv, Inv, NetSound
<1>2. m.from = Other(Side(e)) /\ Side(e) \in Sides
  BY <1>1, SidesFacts
<1>3. 0 \in 0 .. MaxMessages[m.from] /\ Numbers(m.from) \subseteq 0 .. MaxMessages[m.from]
  BY <1>1, BoundsFacts
<1> QED
  BY <1>1, <1>2, <1>3

\* A message is received, and acknowledges what it acknowledges.
LEMMA OnMessageReceivedTimed ==
    ASSUME TimersInv, NEW e \in Exchanges, NEW m \in net, OnMessageReceived(e, m)
    PROVE  TimedStep(e) /\ NetTyped'
<1> DEFINE s == Side(e)
           x == TakeAck(ex[e], m)
<1>1. s \in Sides /\ Base(s, ex[e], outcome) /\ Driven(ex[e])
  BY ObjectGood
<1>2. /\ Base(s, x, outcome) /\ Driven(x) /\ x.sent \in {NoMessage, ex[e].sent}
      /\ x.inFlight = ex[e].inFlight
  BY <1>1, TakeAckBase
<1>3. m.id \in {0} \cup Numbers(Other(s)) /\ m.id \in 0 .. MaxMessages[Other(s)]
  BY ArrivalFacts DEF OnMessageReceived, Reaches, Routed
<1>4. /\ IF m.id = 0 THEN Become(e, x) /\ UNCHANGED net
         ELSE IF x.toAck # 0 THEN
              /\ Become(e, [x EXCEPT !.ackTimer = FALSE, !.suspended = @ \cup {m.id}])
              /\ Transmit(Ack(e, x.toAck))
         ELSE Become(e, Enqueue(x, m.id)) /\ UNCHANGED net
      /\ UNCHANGED faults
  BY DEF OnMessageReceived
<1> HIDE DEF x
<1>5. DOMAIN x = Fields /\ Typed(s, x)
  BY <1>2 DEF Base, Typed
<1>6. CASE m.id = 0
  <2>1. TimedStep(e)
    BY <1>2, <1>4, <1>6, BecomeGood DEF AgainPending
  <2> QED
    BY <1>4, <1>6, <2>1 DEF NetTyped, TimersInv
<1>7. CASE m.id # 0 /\ x.toAck # 0
  <2> DEFINE y == [x EXCEPT !.ackTimer = FALSE, !.suspended = @ \cup {m.id}]
  <2>1. Become(e, y) /\ Transmit(Ack(e, x.toAck))
    BY <1>4, <1>7
  <2>2. /\ SameBut(x, y, {"used", "closing", "closeTimer", "isDestroyed", "toAck", "ackTimer",
                          "suspended", "closers", "stranded"})
        /\ y.used = x.used /\ y.closing = x.closing /\ y.isDestroyed = x.isDestroyed
        /\ y.closers = x.closers /\ y.stranded = x.stranded
        /\ y.closeTimer = x.closeTimer /\ y.toAck = x.toAck /\ y.ackTimer = FALSE
        /\ y.suspended = x.suspended \cup {m.id}
    BY <1>5 DEF SameBut, Fields
  <2> HIDE DEF y
  <2>3. y.ackTimer \in BOOLEAN
    BY <2>2
  <2>4. y.suspended \subseteq Numbers(Other(s)) /\ Owing(y)
    BY <1>3, <1>5, <1>7, <2>2 DEF Typed, Owing
  <2>5. /\ y.used \in BOOLEAN /\ y.closing \in BOOLEAN /\ y.isDestroyed \in BOOLEAN
        /\ y.closeTimer \in {"undefined", "running", "stopped"}
        /\ y.toAck \in 0 .. MaxMessages[Other(s)]
        /\ y.closers \subseteq Closers /\ y.stranded \in 0 .. MaxMessages[Other(s)]
    BY <1>5, <2>2 DEF Typed
  <2>6. Base(s, y, outcome) /\ Driven(y) /\ y.sent = x.sent /\ y.inFlight = x.inFlight
    BY <1>1, <1>2, <2>2, <2>3, <2>4, <2>5, OtherFieldsBase
  <2>7. TimedStep(e)
    BY <1>2, <2>1, <2>6, BecomeGood DEF AgainPending
  <2>8. Ack(e, x.toAck) \subseteq Messages
    BY <1>5, AckTyped DEF Typed
  <2> QED
    BY <1>4, <2>1, <2>7, <2>8 DEF NetTyped, TimersInv, Transmit
<1>8. CASE m.id # 0 /\ x.toAck = 0
  <2> DEFINE y == Enqueue(x, m.id)
  <2>1. Become(e, y) /\ UNCHANGED net
    BY <1>4, <1>8
  <2>2. /\ SameBut(x, y, {"used", "closing", "closeTimer", "isDestroyed", "toAck", "ackTimer",
                          "suspended", "closers", "stranded"})
        /\ y.used = x.used /\ y.closing = x.closing /\ y.isDestroyed = x.isDestroyed
        /\ y.closers = x.closers /\ y.stranded = x.stranded
        /\ y.closeTimer = x.closeTimer /\ y.toAck = m.id /\ y.ackTimer = TRUE
        /\ y.suspended = x.suspended
    BY <1>5 DEF SameBut, Fields, Enqueue
  <2> HIDE DEF y
  <2>3. y.ackTimer \in BOOLEAN /\ Owing(y)
    BY <2>2 DEF Owing
  <2>4. /\ y.used \in BOOLEAN /\ y.closing \in BOOLEAN /\ y.isDestroyed \in BOOLEAN
        /\ y.closeTimer \in {"undefined", "running", "stopped"}
        /\ y.toAck \in 0 .. MaxMessages[Other(s)] /\ y.suspended \subseteq Numbers(Other(s))
        /\ y.closers \subseteq Closers /\ y.stranded \in 0 .. MaxMessages[Other(s)]
    BY <1>3, <1>5, <2>2 DEF Typed
  <2>5. Base(s, y, outcome) /\ Driven(y) /\ y.sent = x.sent /\ y.inFlight = x.inFlight
    BY <1>1, <1>2, <2>2, <2>3, <2>4, OtherFieldsBase
  <2>6. TimedStep(e)
    BY <1>2, <2>1, <2>5, BecomeGood DEF AgainPending
  <2> QED
    BY <1>4, <2>1, <2>6 DEF NetTyped, TimersInv
<1> QED
  BY <1>6, <1>7, <1>8

\* The handler that held a message goes on: the ack timer is started.
LEMMA ResumeReceiveTimed ==
    ASSUME TimersInv, NEW e \in Exchanges, ResumeReceive(e)
    PROVE  TimedStep(e) /\ NetTyped'
<1> DEFINE s == Side(e)
           x == ex[e]
<1>1. PICK i \in x.suspended :
         /\ ex' = [ex EXCEPT ![e] = Enqueue([x EXCEPT !.suspended = @ \ {i}], i)]
         /\ UNCHANGED <<net, outcome, faults>>
  BY DEF ResumeReceive
<1> DEFINE y == Enqueue([x EXCEPT !.suspended = @ \ {i}], i)
<1>2. /\ s \in Sides /\ Base(s, x, outcome) /\ Driven(x) /\ Noticed(x) /\ DOMAIN x = Fields
      /\ Typed(s, x)
  BY ObjectGood DEF Good
<1>3. /\ SameBut(x, y, {"used", "closing", "closeTimer", "isDestroyed", "toAck", "ackTimer",
                        "suspended", "closers", "stranded"})
      /\ y.used = x.used /\ y.closing = x.closing /\ y.isDestroyed = x.isDestroyed
      /\ y.closers = x.closers /\ y.stranded = x.stranded
      /\ y.closeTimer = x.closeTimer /\ y.toAck = i /\ y.ackTimer = TRUE
      /\ y.suspended = x.suspended \ {i} /\ y.call = x.call /\ y.settled = x.settled
  BY <1>2 DEF SameBut, Fields, Enqueue
<1>4. ex' = [ex EXCEPT ![e] = y]
  BY <1>1
<1> HIDE DEF y
<1>5. y.ackTimer \in BOOLEAN /\ Owing(y)
  BY <1>3 DEF Owing
<1>6. i \in 0 .. MaxMessages[Other(s)]
  BY <1>2, BoundsFacts DEF Typed, Numbers
<1>7. /\ y.used \in BOOLEAN /\ y.closing \in BOOLEAN /\ y.isDestroyed \in BOOLEAN
      /\ y.closeTimer \in {"undefined", "running", "stopped"}
      /\ y.toAck \in 0 .. MaxMessages[Other(s)] /\ y.suspended \subseteq Numbers(Other(s))
      /\ y.closers \subseteq Closers /\ y.stranded \in 0 .. MaxMessages[Other(s)]
  BY <1>2, <1>3, <1>6 DEF Typed
<1>8. Base(s, y, outcome) /\ Driven(y) /\ y.sent = x.sent /\ y.inFlight = x.inFlight
  BY <1>2, <1>3, <1>5, <1>7, OtherFieldsBase
<1>9. Good(s, y, outcome)
  BY <1>2, <1>3, <1>8 DEF Good, Noticed
<1>10. TimedStep(e)
  BY <1>1, <1>4, <1>8, <1>9, DirectGood
<1> QED
  BY <1>1, <1>10 DEF NetTyped, TimersInv

\* The stand-alone ack timer fires.
LEMMA ReceivedMessageAckTimerTimed ==
    ASSUME TimersInv, NEW e \in Exchanges, ReceivedMessageAckTimer(e)
    PROVE  TimedStep(e) /\ NetTyped'
<1> DEFINE s == Side(e)
           x == ex[e]
           y == [x EXCEPT !.ackTimer = FALSE, !.toAck = 0]
<1>1. /\ ex' = [ex EXCEPT ![e] = y] /\ Transmit(Ack(e, x.toAck)) /\ UNCHANGED <<outcome, faults>>
  BY DEF ReceivedMessageAckTimer, TimersInv, Inv, Shape
<1>2. /\ s \in Sides /\ Base(s, x, outcome) /\ Driven(x) /\ Noticed(x) /\ DOMAIN x = Fields
      /\ Typed(s, x) /\ 0 \in 0 .. MaxMessages[Other(s)]
  BY ObjectGood, BoundsFacts DEF Good
<1>3. /\ SameBut(x, y, {"used", "closing", "closeTimer", "isDestroyed", "toAck", "ackTimer",
                        "suspended", "closers", "stranded"})
      /\ y.used = x.used /\ y.closing = x.closing /\ y.isDestroyed = x.isDestroyed
      /\ y.closers = x.closers /\ y.stranded = x.stranded
      /\ y.closeTimer = x.closeTimer /\ y.toAck = 0 /\ y.ackTimer = FALSE
      /\ y.suspended = x.suspended /\ y.call = x.call /\ y.settled = x.settled
  BY <1>2 DEF SameBut, Fields
<1> HIDE DEF y
<1>4. y.ackTimer \in BOOLEAN /\ Owing(y)
  BY <1>3 DEF Owing
<1>5. /\ y.used \in BOOLEAN /\ y.closing \in BOOLEAN /\ y.isDestroyed \in BOOLEAN
      /\ y.closeTimer \in {"undefined", "running", "stopped"}
      /\ y.toAck \in 0 .. MaxMessages[Other(s)] /\ y.suspended \subseteq Numbers(Other(s))
      /\ y.closers \subseteq Closers /\ y.stranded \in 0 .. MaxMessages[Other(s)]
  BY <1>2, <1>3 DEF Typed
<1>6. Base(s, y, outcome) /\ Driven(y) /\ y.sent = x.sent /\ y.inFlight = x.inFlight
  BY <1>2, <1>3, <1>4, <1>5, OtherFieldsBase
<1>7. Good(s, y, outcome)
  BY <1>2, <1>3, <1>6 DEF Good, Noticed
<1>8. TimedStep(e)
  BY <1>1, <1>6, <1>7, DirectGood
<1>9. Ack(e, x.toAck) \subseteq Messages
  BY <1>2, AckTyped DEF Typed
<1> QED
  BY <1>1, <1>8, <1>9 DEF NetTyped, TimersInv, Transmit

\* The handler ends without its message; the ack that it could not send stays owed.
LEMMA ResumeReceiveFailsTimed ==
    ASSUME TimersInv, NEW e \in Exchanges, ResumeReceiveFails(e)
    PROVE  TimedStep(e) /\ NetTyped'
<1> DEFINE s == Side(e)
           x == ex[e]
<1>1. PICK i \in x.suspended :
         /\ Fault
         /\ ex' = [ex EXCEPT ![e] =
                     [x EXCEPT !.suspended = @ \ {i},
                               !.stranded = IF x.ackTimer THEN @ ELSE x.toAck]]
         /\ UNCHANGED <<net, outcome>>
  BY DEF ResumeReceiveFails
<1> DEFINE y == [x EXCEPT !.suspended = @ \ {i},
                          !.stranded = IF x.ackTimer THEN @ ELSE x.toAck]
<1>2. /\ s \in Sides /\ Base(s, x, outcome) /\ Driven(x) /\ Noticed(x) /\ DOMAIN x = Fields
      /\ Typed(s, x)
  BY ObjectGood DEF Good
<1>3. /\ SameBut(x, y, {"used", "closing", "closeTimer", "isDestroyed", "toAck", "ackTimer",
                        "suspended", "closers", "stranded"})
      /\ y.used = x.used /\ y.closing = x.closing /\ y.isDestroyed = x.isDestroyed
      /\ y.closeTimer = x.closeTimer /\ y.toAck = x.toAck /\ y.ackTimer = x.ackTimer
      /\ y.suspended = x.suspended \ {i} /\ y.closers = x.closers
      /\ y.stranded = IF x.ackTimer THEN x.stranded ELSE x.toAck
      /\ y.call = x.call /\ y.settled = x.settled
  BY <1>2 DEF SameBut, Fields
<1>4. ex' = [ex EXCEPT ![e] = y]
  BY <1>1
<1> HIDE DEF y
<1>5. Owing(y)
  BY <1>3 DEF Owing
<1>6. /\ y.used \in BOOLEAN /\ y.closing \in BOOLEAN /\ y.isDestroyed \in BOOLEAN
      /\ y.closeTimer \in {"undefined", "running", "stopped"} /\ y.ackTimer \in BOOLEAN
      /\ y.toAck \in 0 .. MaxMessages[Other(s)] /\ y.suspended \subseteq Numbers(Other(s))
      /\ y.closers \subseteq Closers
  BY <1>2, <1>3 DEF Typed
<1>7. y.stranded \in 0 .. MaxMessages[Other(s)]
  BY <1>2, <1>3 DEF Typed
<1>8. Base(s, y, outcome) /\ Driven(y) /\ y.sent = x.sent /\ y.inFlight = x.inFlight
  BY <1>2, <1>3, <1>5, <1>6, <1>7, OtherFieldsBase
<1>9. Good(s, y, outcome)
  BY <1>2, <1>3, <1>8 DEF Good, Noticed
<1>10. TimedStep(e)
  BY <1>1, <1>4, <1>8, <1>9, DirectGood
<1> QED
  BY <1>1, <1>10, FaultTyped DEF NetTyped, TimersInv

\* Of the calls that close an object one goes on.
LEMMA FewerClosersBase ==
    ASSUME TimersInv, NEW e \in Exchanges, NEW c
    PROVE  /\ Base(Side(e), [ex[e] EXCEPT !.closers = @ \ {c}], outcome)
           /\ Driven([ex[e] EXCEPT !.closers = @ \ {c}])
           /\ [ex[e] EXCEPT !.closers = @ \ {c}].sent = ex[e].sent
           /\ [ex[e] EXCEPT !.closers = @ \ {c}].inFlight = ex[e].inFlight
<1> DEFINE w == ex[e]
           x == [w EXCEPT !.closers = @ \ {c}]
<1>1. /\ Side(e) \in Sides /\ Base(Side(e), w, outcome) /\ Driven(w)
      /\ DOMAIN w = Fields /\ Typed(Side(e), w)
  BY ObjectGood
<1>2. /\ SameBut(w, x, {"closing", "closeTimer", "closers"})
      /\ x.closing = w.closing /\ x.closeTimer = w.closeTimer /\ x.closers = w.closers \ {c}
  BY <1>1 DEF SameBut, Fields
<1> HIDE DEF x
<1>3. /\ x.closing \in BOOLEAN /\ x.closeTimer \in {"undefined", "running", "stopped"}
      /\ x.closers \subseteq Closers
  BY <1>1, <1>2 DEF Typed
<1>4. Base(Side(e), x, outcome) /\ Driven(x) /\ x.sent = w.sent /\ x.inFlight = w.inFlight
  BY <1>1, <1>2, <1>3, ClosersBase
<1> QED
  BY <1>4 DEF x

\* close(), with a cause or without.
LEMMA CloseWithTimed ==
    ASSUME TimersInv, NEW e \in Exchanges, NEW x, NEW cause \in BOOLEAN, CloseWith(e, x, cause),
           Base(Side(e), x, outcome), Driven(x), x.sent = ex[e].sent,
           x.inFlight = ex[e].inFlight, faults' \in 0 .. MaxFaults
    PROVE  TimedStep(e) /\ NetTyped'
<1> DEFINE y == CloseObject(x, cause)
<1>1. Side(e) \in Sides
  BY SidesFacts
<1>2. Base(Side(e), y, outcome) /\ Driven(y) /\ y.sent = x.sent /\ y.inFlight = x.inFlight
  BY <1>1, CloseObjectBase
<1>3. Become(e, y) /\ Transmit(IF AwaitsAck(x) THEN Ack(e, x.toAck) ELSE {})
  BY DEF CloseWith
<1> HIDE DEF y
<1>4. TimedStep(e)
  BY <1>2, <1>3, BecomeGood DEF AgainPending
<1>5. Ack(e, x.toAck) \subseteq Messages
  BY AckTyped DEF Base, Typed
<1> QED
  BY <1>3, <1>4, <1>5 DEF NetTyped, TimersInv, Transmit

\* Every way to close().
LEMMA CloseTimed ==
    ASSUME TimersInv, NEW e \in Exchanges,
           Close(e) \/ ForceClose(e) \/ CloseTemporary(e) \/ CloseLate(e)
    PROVE  TimedStep(e) /\ NetTyped'
<1>0. Base(Side(e), ex[e], outcome) /\ Driven(ex[e])
  BY ObjectGood
<1>1. CASE Close(e)
  BY <1>0, <1>1, FaultTyped, CloseWithTimed DEF Close
<1>2. CASE ForceClose(e)
  BY <1>0, <1>2, FaultTyped, CloseWithTimed DEF ForceClose
<1>3. CASE CloseTemporary(e)
  <2>1. faults' \in 0 .. MaxFaults /\ CloseWith(e, ex[e], FALSE)
    BY <1>3 DEF CloseTemporary, NetTyped, TimersInv
  <2> QED
    BY <1>0, <2>1, CloseWithTimed
<1>4. CASE CloseLate(e)
  <2> DEFINE x == [ex[e] EXCEPT !.closers = @ \ {"late"}]
  <2>1. faults' \in 0 .. MaxFaults /\ CloseWith(e, x, FALSE)
    BY <1>4 DEF CloseLate, NetTyped, TimersInv
  <2>2. /\ Base(Side(e), x, outcome) /\ Driven(x)
        /\ x.sent = ex[e].sent /\ x.inFlight = ex[e].inFlight
    BY FewerClosersBase
  <2> HIDE DEF x
  <2> QED
    BY <2>1, <2>2, CloseWithTimed
<1> QED
  BY <1>1, <1>2, <1>3, <1>4

\* destroy().
LEMMA DestroyTimed ==
    ASSUME TimersInv, NEW e \in Exchanges, Destroy(e)
    PROVE  TimedStep(e) /\ NetTyped'
<1> DEFINE s == Side(e)
           w == ex[e]
           x == [w EXCEPT !.isDestroyed = TRUE]
           acks == x.closeTimer = "undefined" /\ x.toAck # 0
           y == AckTaken(x, "destroy")
           z == Closed(x, FALSE)
<1>1. /\ Become(e, IF acks THEN y ELSE z) /\ Transmit(IF acks THEN Ack(e, x.toAck) ELSE {})
      /\ Fault
  BY DEF Destroy
<1>2. /\ s \in Sides /\ Base(s, w, outcome) /\ Driven(w) /\ DOMAIN w = Fields /\ Typed(s, w)
  BY ObjectGood
<1>3. /\ SameBut(w, x, {"used", "closing", "closeTimer", "isDestroyed", "toAck", "ackTimer",
                        "suspended", "closers", "stranded"})
      /\ x.used = w.used /\ x.closing = w.closing /\ x.isDestroyed = TRUE
      /\ x.closeTimer = w.closeTimer /\ x.toAck = w.toAck /\ x.ackTimer = w.ackTimer
      /\ x.suspended = w.suspended /\ x.closed = w.closed
      /\ x.closers = w.closers /\ x.stranded = w.stranded
  BY <1>2 DEF SameBut, Fields
<1> HIDE DEF x, acks
<1>4. x.isDestroyed \in BOOLEAN
  BY <1>3
<1>5. /\ x.used \in BOOLEAN /\ x.closing \in BOOLEAN /\ x.ackTimer \in BOOLEAN
      /\ x.closeTimer \in {"undefined", "running", "stopped"}
      /\ x.toAck \in 0 .. MaxMessages[Other(s)] /\ x.suspended \subseteq Numbers(Other(s))
      /\ x.closers \subseteq Closers /\ x.stranded \in 0 .. MaxMessages[Other(s)]
  BY <1>2, <1>3 DEF Typed
<1>6. Owing(x)
  BY <1>2, <1>3 DEF Base, Owing
<1>7. Base(s, x, outcome) /\ Driven(x) /\ x.sent = w.sent /\ x.inFlight = w.inFlight
  BY <1>2, <1>3, <1>4, <1>5, <1>6, OtherFieldsBase
<1>8. Base(s, z, outcome) /\ Driven(z) /\ z.sent = x.sent /\ z.inFlight = x.inFlight
  BY <1>2, <1>7, ClosedBase
<1>9. Base(s, y, outcome) /\ Driven(y) /\ y.sent = x.sent /\ y.inFlight = x.inFlight
  BY <1>2, <1>7, AckTakenBase DEF Closers
<1> HIDE DEF y, z
<1>10. TimedStep(e)
  <2>1. CASE acks
    BY <1>1, <1>7, <1>9, <2>1, BecomeGood DEF AgainPending
  <2>2. CASE ~acks
    BY <1>1, <1>7, <1>8, <2>2, BecomeGood DEF AgainPending
  <2> QED
    BY <2>1, <2>2
<1>11. Ack(e, x.toAck) \subseteq Messages
  BY <1>5, AckTyped
<1> QED
  BY <1>1, <1>10, <1>11, FaultTyped DEF NetTyped, TimersInv, Transmit

\* A call that closes has sent its ack.
LEMMA CloseAckedTimed ==
    ASSUME TimersInv, NEW e \in Exchanges, CloseAcked(e)
    PROVE  TimedStep(e) /\ NetTyped'
<1>1. PICK call \in ex[e].closers :
         LET x == [ex[e] EXCEPT !.closers = @ \ {call}] IN
         /\ Become(e, IF call = "destroy" THEN Closed(x, FALSE)
                                          ELSE CloseOrWait(x, call = "force"))
         /\ UNCHANGED <<net, faults>>
  BY DEF CloseAcked
<1> DEFINE s == Side(e)
           x == [ex[e] EXCEPT !.closers = @ \ {call}]
           y == Closed(x, FALSE)
           z == CloseOrWait(x, call = "force")
<1>2. Become(e, IF call = "destroy" THEN y ELSE z) /\ UNCHANGED <<net, faults>>
  BY <1>1
<1>3. /\ s \in Sides /\ Base(s, x, outcome) /\ Driven(x)
      /\ x.sent = ex[e].sent /\ x.inFlight = ex[e].inFlight
  BY FewerClosersBase, SidesFacts
<1> HIDE DEF x
<1>4. Base(s, y, outcome) /\ Driven(y) /\ y.sent = x.sent /\ y.inFlight = x.inFlight
  BY <1>3, ClosedBase
<1>5. (call = "force") \in BOOLEAN
  OBVIOUS
<1>6. Base(s, z, outcome) /\ Driven(z) /\ z.sent = x.sent /\ z.inFlight = x.inFlight
  BY <1>3, <1>5, CloseOrWaitBase
<1> HIDE DEF y, z
<1>7. TimedStep(e)
  <2>1. CASE call = "destroy"
    BY <1>2, <1>3, <1>4, <2>1, BecomeGood DEF AgainPending
  <2>2. CASE call # "destroy"
    BY <1>2, <1>3, <1>6, <2>2, BecomeGood DEF AgainPending
  <2> QED
    BY <2>1, <2>2
<1> QED
  BY <1>2, <1>7 DEF NetTyped, TimersInv

\* A close timer fires.
LEMMA CloseTimerTimed ==
    ASSUME TimersInv, NEW e \in Exchanges, CloseTimer(e)
    PROVE  TimedStep(e) /\ NetTyped'
<1>1. PICK t : /\ Become(e, Closed([ex[e] EXCEPT !.closers = @ \ {t}], FALSE))
               /\ UNCHANGED <<net, faults>>
  BY DEF CloseTimer
<1> DEFINE x == [ex[e] EXCEPT !.closers = @ \ {t}]
           y == Closed(x, FALSE)
<1>2. Become(e, y)
  BY <1>1
<1>3. /\ Side(e) \in Sides /\ Base(Side(e), x, outcome)
      /\ x.sent = ex[e].sent /\ x.inFlight = ex[e].inFlight
  BY FewerClosersBase, SidesFacts
<1> HIDE DEF x
<1>4. /\ Base(Side(e), y, outcome) /\ Driven(y) /\ y.sent = x.sent /\ y.inFlight = x.inFlight
  BY <1>3, ClosedBase
<1> HIDE DEF y
<1>5. TimedStep(e)
  BY <1>2, <1>3, <1>4, BecomeGood DEF AgainPending
<1> QED
  BY <1>1, <1>5 DEF NetTyped, TimersInv

\* An exchange considered closed accepts and acknowledges the message.
LEMMA ReceiveConsideredClosedTimed ==
    ASSUME TimersInv, NEW e \in Exchanges, NEW m \in net, ReceiveConsideredClosed(e, m)
    PROVE  TimedStep(e) /\ NetTyped'
<1> DEFINE s == Side(e)
           w == ex[e]
           x == [w EXCEPT !.used = TRUE, !.closers = @ \cup {"late"}]
<1>1. ex' = [ex EXCEPT ![e] = x] /\ Transmit(Ack(e, m.id)) /\ UNCHANGED <<outcome, faults>>
  BY DEF ReceiveConsideredClosed, TimersInv, Inv, Shape
<1>2. /\ s \in Sides /\ Base(s, w, outcome) /\ Driven(w) /\ Noticed(w) /\ DOMAIN w = Fields
      /\ Typed(s, w)
  BY ObjectGood DEF Good
<1>3. /\ SameBut(w, x, {"used", "closing", "closeTimer", "isDestroyed", "toAck", "ackTimer",
                        "suspended", "closers", "stranded"})
      /\ x.used = TRUE /\ x.closing = w.closing /\ x.isDestroyed = w.isDestroyed
      /\ x.closers = w.closers \cup {"late"} /\ x.stranded = w.stranded
      /\ x.closeTimer = w.closeTimer /\ x.toAck = w.toAck /\ x.ackTimer = w.ackTimer
      /\ x.suspended = w.suspended /\ x.closed = w.closed
      /\ x.call = w.call /\ x.settled = w.settled
  BY <1>2 DEF SameBut, Fields
<1> HIDE DEF x
<1>4. x.used \in BOOLEAN
  BY <1>3
<1>5. /\ x.isDestroyed \in BOOLEAN /\ x.closing \in BOOLEAN /\ x.ackTimer \in BOOLEAN
      /\ x.closeTimer \in {"undefined", "running", "stopped"}
      /\ x.toAck \in 0 .. MaxMessages[Other(s)] /\ x.suspended \subseteq Numbers(Other(s))
      /\ x.stranded \in 0 .. MaxMessages[Other(s)]
  BY <1>2, <1>3 DEF Typed
<1>6. Owing(x)
  BY <1>2, <1>3 DEF Base, Owing
<1>7. x.closers \subseteq Closers
  BY <1>2, <1>3 DEF Typed, Closers
<1>8. Base(s, x, outcome) /\ Driven(x) /\ x.sent = w.sent /\ x.inFlight = w.inFlight
  BY <1>2, <1>3, <1>4, <1>5, <1>6, <1>7, OtherFieldsBase
<1>9. Good(s, x, outcome)
  BY <1>2, <1>3, <1>8 DEF Good, Noticed
<1>10. TimedStep(e)
  BY <1>1, <1>8, <1>9, DirectGood
<1>11. m.id \in 0 .. MaxMessages[Other(s)]
  BY ArrivalFacts DEF ReceiveConsideredClosed, Routed
<1>12. Ack(e, m.id) \subseteq Messages
  BY <1>11, AckTyped
<1> QED
  BY <1>1, <1>10, <1>12 DEF NetTyped, TimersInv, Transmit

\* A new object is good, also one that owes its first acknowledgement.
LEMMA NewObjectGood ==
    ASSUME NEW s \in Sides, NEW out, NEW kind \in {"free", "handled", "temporary"},
           NEW used \in BOOLEAN, NEW i \in 0 .. MaxMessages[Other(s)], NEW y,
           y \in {NewObject(kind, used), Enqueue(NewObject(kind, used), i)}
    PROVE  Good(s, y, out) /\ y.sent = NoMessage /\ y.inFlight = {} /\ y.call = "none"
<1>0. /\ 0 \in 0 .. MaxMessages[s] /\ 0 \in 0 .. MaxMessages[Other(s)]
      /\ 0 \in 0 .. MaxTransmissions /\ 0 \in 0 .. MaxRefusals
  BY BoundsFacts
<1> DEFINE n == NewObject(kind, used)
<1>n. /\ n.kind = kind /\ n.used \in BOOLEAN
      /\ n.closing = FALSE /\ n.closed = FALSE
      /\ n.closeCause = FALSE /\ n.isDestroyed = FALSE /\ n.armed = FALSE
      /\ n.closeTimer = "undefined" /\ n.sent = NoMessage /\ n.call = "none"
      /\ n.settled = "no" /\ n.counter = 0 /\ n.timer = NoTimer /\ n.running = {}
      /\ n.inFlight = {} /\ n.suspended = {} /\ n.sends = 0 /\ n.refusals = 0
      /\ n.closers = {} /\ n.stranded = 0
      /\ DOMAIN n = Fields
      /\ n.toAck = 0 /\ n.ackTimer = FALSE
  BY DEF NewObject, Fields
<1>m. y \in {n, Enqueue(n, i)}
  OBVIOUS
<1> HIDE DEF n
<1>1. /\ y.kind = kind /\ y.used \in BOOLEAN
      /\ y.closing = FALSE /\ y.closed = FALSE
      /\ y.closeCause = FALSE /\ y.isDestroyed = FALSE /\ y.armed = FALSE
      /\ y.closeTimer = "undefined" /\ y.sent = NoMessage /\ y.call = "none"
      /\ y.settled = "no" /\ y.counter = 0 /\ y.timer = NoTimer /\ y.running = {}
      /\ y.inFlight = {} /\ y.suspended = {} /\ y.sends = 0 /\ y.refusals = 0
      /\ y.closers = {} /\ y.stranded = 0
      /\ DOMAIN y = Fields
      /\ \/ y.toAck = 0 /\ y.ackTimer = FALSE
         \/ y.toAck = i /\ y.ackTimer = TRUE
  <2>1. CASE y = n
    BY <1>n, <2>1
  <2>2. CASE y = Enqueue(n, i)
    <3>1. SameBut(n, y, {"toAck", "ackTimer"}) /\ y.toAck = i /\ y.ackTimer = TRUE
      BY <1>n, <2>2 DEF Enqueue, SameBut, Fields
    <3>2. y.used = n.used
      BY <3>1 DEF SameBut, Fields
    <3>3. y.used \in BOOLEAN
      BY <1>n, <3>2
    <3> QED
      BY <1>n, <3>1, <3>3 DEF SameBut, Fields
  <2> QED
    BY <1>m, <2>1, <2>2
<1>2. Typed(s, y)
  <2>1. /\ y.used \in BOOLEAN /\ y.closing \in BOOLEAN /\ y.closed \in BOOLEAN
        /\ y.closeCause \in BOOLEAN /\ y.isDestroyed \in BOOLEAN /\ y.armed \in BOOLEAN
        /\ y.ackTimer \in BOOLEAN
    BY <1>1
  <2>2. y.sent \in [id : 0 .. MaxMessages[s], ack : 0 .. MaxMessages[Other(s)]]
    BY <1>0, <1>1 DEF NoMessage
  <2>3. y.timer \in Timers(s)
    <3>1. FALSE \in BOOLEAN
      OBVIOUS
    <3> QED
      BY <1>0, <1>1, <3>1 DEF NoTimer, Timers
  <2> QED
    BY <1>0, <1>1, <2>1, <2>2, <2>3 DEF Typed
<1>3. Budgeted(y)
  <2>1. Bought(y) \in Nat
    BY <1>1, BoughtFacts DEF Bought
  <2> QED
    BY <1>1, <2>1, BudgetAssumption DEF Budgeted
<1>4. Pending(s, y, out) /\ Promise(y) /\ Owing(y) /\ Driven(y) /\ Noticed(y)
  BY <1>1 DEF Pending, Promise, Owing, Driven, Noticed
<1> QED
  BY <1>1, <1>2, <1>3, <1>4 DEF Good, Base

\* A message opens a new exchange.
LEMMA NewExchangeTimed ==
    ASSUME TimersInv, NEW e \in Exchanges, NEW m \in net, NewExchange(e, m)
    PROVE  TimedStep(e) /\ NetTyped'
<1> DEFINE y == Enqueue(NewObject("handled", TRUE), m.id)
<1>0. Side(e) \in Sides /\ Side(e) = Other(m.from)
  BY ResponderSide, SidesFacts DEF NewExchange, Other
<1>1. ex' = [ex EXCEPT ![e] = y] /\ UNCHANGED <<net, outcome, faults>>
  BY DEF NewExchange
<1>2. m.id \in 0 .. MaxMessages[Other(Side(e))]
  BY <1>0, ArrivalFacts
<1>3. Good(Side(e), y, outcome) /\ y.sent = NoMessage /\ y.inFlight = {}
  BY <1>0, <1>2, NewObjectGood
<1> HIDE DEF y
<1>4. TimedStep(e)
  BY <1>1, <1>3, DirectGood
<1> QED
  BY <1>1, <1>4 DEF NetTyped, TimersInv

\* A temporary exchange of the responder acknowledges a duplicate.
LEMMA UnsolicitedToResponderTimed ==
    ASSUME TimersInv, NEW e \in Exchanges, NEW m \in net, UnsolicitedToResponder(e, m)
    PROVE  TimedStep(e) /\ NetTyped'
<1> DEFINE y == NewObject("temporary", TRUE)
<1>0. Side(e) \in Sides /\ Side(e) = Other(m.from)
  BY ResponderSide, SidesFacts DEF UnsolicitedToResponder, Other
<1>1. ex' = [ex EXCEPT ![e] = y] /\ Transmit(Ack(e, m.id)) /\ UNCHANGED <<outcome, faults>>
  BY DEF UnsolicitedToResponder
<1>2. m.id \in 0 .. MaxMessages[Other(Side(e))]
  BY <1>0, ArrivalFacts
<1>3. Good(Side(e), y, outcome) /\ y.sent = NoMessage /\ y.inFlight = {}
  BY <1>0, <1>2, NewObjectGood
<1> HIDE DEF y
<1>4. TimedStep(e)
  BY <1>1, <1>3, DirectGood
<1>5. Ack(e, m.id) \subseteq Messages
  BY <1>2, AckTyped
<1> QED
  BY <1>1, <1>4, <1>5 DEF NetTyped, TimersInv, Transmit

\* A message is thrown away, or a duplicate is acknowledged.
LEMMA UnchangedTimed ==
    ASSUME TimersInv, NEW e \in Exchanges, NEW m \in net,
           ReceiveFlowError(e, m) \/ ReceiveDuplicate(e, m)
    PROVE  TimedStep(e) /\ NetTyped'
<1>1. Side(e) = Other(m.from) /\ UNCHANGED <<ex, outcome, faults>>
  BY DEF ReceiveFlowError, ReceiveDuplicate, Reaches, Routed
<1>2. TimedStep(e)
  BY <1>1, UnchangedGood
<1>3. Ack(e, m.id) \subseteq Messages
  BY <1>1, ArrivalFacts, AckTyped
<1>4. net' = net \/ net' = net \cup Ack(e, m.id)
  BY DEF ReceiveFlowError, ReceiveDuplicate, Transmit
<1> QED
  BY <1>1, <1>2, <1>3, <1>4 DEF NetTyped, TimersInv

\* The initiator has no object for the message, and acknowledges it.
LEMMA UnsolicitedToInitiatorTimed ==
    ASSUME TimersInv, NEW m \in net, UnsolicitedToInitiator(m)
    PROVE  TimedStep(Initiator) /\ NetTyped'
<1>0. Initiator \in Exchanges /\ Side(Initiator) = Other(m.from)
  BY DEF UnsolicitedToInitiator, Other, Side, Exchanges
<1>1. UNCHANGED <<ex, outcome, faults>> /\ net' = net \cup Ack(Initiator, m.id)
  BY DEF UnsolicitedToInitiator, Transmit
<1>2. TimedStep(Initiator)
  BY <1>0, <1>1, UnchangedGood
<1>3. Ack(Initiator, m.id) \subseteq Messages
  BY <1>0, ArrivalFacts, AckTyped
<1> QED
  BY <1>1, <1>2, <1>3 DEF NetTyped, TimersInv

-----------------------------------------------------------------------------
(***************************************************************************)
(* The theorems.                                                           *)
(***************************************************************************)

\* Every action is a timed step of one object.
LEMMA NextTimed ==
    ASSUME TimersInv, Next
    PROVE  \E e \in Exchanges : (\E z : StepOf(e, z)) /\ TimedStep(e) /\ NetTyped'
<1>0. Inv
  BY DEF TimersInv
<1>1. ASSUME NEW e \in Exchanges, Application(e)
      PROVE  (\E z : StepOf(e, z)) /\ TimedStep(e) /\ NetTyped'
  <2>1. \E z : StepOf(e, z)
    BY <1>0, <1>1, SendStep, SendRefusedStep, AbortStep, ClosesStep, DestroyStep
       DEF Application
  <2>2. TimedStep(e) /\ NetTyped'
    BY <1>1, SendTimed, SendRefusedTimed, AbortTimed, CloseTimed, DestroyTimed DEF Application
  <2> QED
    BY <2>1, <2>2
<1>2. ASSUME NEW e \in Exchanges, Progress(e)
      PROVE  (\E z : StepOf(e, z)) /\ TimedStep(e) /\ NetTyped'
  <2>1. \E z : StepOf(e, z)
    BY <1>0, <1>2, TransmittedStep, TransmitFailsStep, RetransmissionTimerStep,
       RetransmittedStep, RetransmitSessionClosedStep, ResumeReceiveStep,
       ResumeReceiveFailsStep, ReceivedMessageAckTimerStep, CloseAckedStep, CloseTimerStep,
       ClosesStep DEF Progress
  <2>2. TimedStep(e) /\ NetTyped'
    BY <1>2, TransmittedTimed, TransmitFailsTimed, RetransmissionTimerTimed,
       RetransmittedTimed, RetransmitSessionClosedTimed, ResumeReceiveTimed,
       ResumeReceiveFailsTimed, ReceivedMessageAckTimerTimed, CloseAckedTimed,
       CloseTimerTimed, CloseTimed DEF Progress
  <2> QED
    BY <2>1, <2>2
<1>3. ASSUME NEW m \in net, NEW e \in Exchanges, Receive(e, m)
      PROVE  (\E z : StepOf(e, z)) /\ TimedStep(e) /\ NetTyped'
  <2>1. \E z : StepOf(e, z)
    BY <1>0, <1>3, OnMessageReceivedStep, ReceiveFlowErrorStep, ReceiveDuplicateStep,
       KickRetransmissionStep, ReceiveConsideredClosedStep, NewExchangeStep,
       UnsolicitedToResponderStep DEF Receive
  <2>2. TimedStep(e) /\ NetTyped'
    BY <1>3, OnMessageReceivedTimed, UnchangedTimed, KickRetransmissionTimed,
       ReceiveConsideredClosedTimed, NewExchangeTimed, UnsolicitedToResponderTimed DEF Receive
  <2> QED
    BY <2>1, <2>2
<1>4. ASSUME NEW m \in net, UnsolicitedToInitiator(m)
      PROVE  \E e \in Exchanges : (\E z : StepOf(e, z)) /\ TimedStep(e) /\ NetTyped'
  BY <1>0, <1>4, UnsolicitedToInitiatorStep, UnsolicitedToInitiatorTimed
<1> QED
  BY <1>1, <1>2, <1>3, <1>4 DEF Next

\* The invariant holds at first.
LEMMA InitTimers ==
    ASSUME Init
    PROVE  TimersInv
<1>1. Inv
  BY InitInv
<1>2. \A e \in Exchanges : /\ Good(Side(e), ex[e], outcome) /\ ex[e].sent = NoMessage
                           /\ ex[e].call = "none"
  <2> SUFFICES ASSUME NEW e \in Exchanges
               PROVE  /\ Good(Side(e), ex[e], outcome) /\ ex[e].sent = NoMessage
                      /\ ex[e].call = "none"
    OBVIOUS
  <2>1. \/ ex[e] = NewObject("handled", FALSE)
        \/ ex[e] = NewObject("free", TRUE)
    BY DEF Init
  <2>2. Side(e) \in Sides /\ 0 \in 0 .. MaxMessages[Other(Side(e))]
    BY SidesFacts, BoundsFacts
  <2>3. CASE ex[e] = NewObject("handled", FALSE)
    BY <2>2, <2>3, NewObjectGood
  <2>4. CASE ex[e] = NewObject("free", TRUE)
    BY <2>2, <2>4, NewObjectGood
  <2> QED
    BY <2>1, <2>3, <2>4
<1>3. ObjectsGood /\ Own
  BY <1>2 DEF ObjectsGood, Own
<1>4. NetTyped
  BY BoundsAssumption DEF Init, NetTyped
<1>5. OutcomesTyped
  BY DEF Init, OutcomesTyped
<1> QED
  BY <1>1, <1>3, <1>4, <1>5 DEF TimersInv

\* The inductive invariant: the pending message of an object has one driver at most,
\* a call that waits has one, the counter tells how often the message was
\* transmitted, and an acknowledgement that is owed is somebody's business, unless
\* it could not be sent.
THEOREM TimersInvariant == Spec => []TimersInv
<1>1. ASSUME TimersInv, [Next]_vars
      PROVE  TimersInv'
  <2>1. CASE Next
    <3>1. PICK e \in Exchanges : (\E z : StepOf(e, z)) /\ TimedStep(e) /\ NetTyped'
      BY <1>1, <2>1, NextTimed
    <3> QED
      BY <1>1, <3>1, TimedStepKeeps
  <2>2. CASE UNCHANGED vars
    <3>1. Inv'
      BY <1>1, <2>2, Stutter DEF TimersInv
    <3> QED
      BY <1>1, <2>2, <3>1 DEF vars, TimersInv, ObjectsGood, Own, NetTyped, OutcomesTyped
  <2> QED
    BY <1>1, <2>1, <2>2
<1> QED
  BY <1>1, InitTimers, PTL DEF Spec

\* The fields of the objects have the values the code gives them; in particular the
\* retransmission counter never passes the budget.
THEOREM TypeCorrect == Spec => []TypeOK
<1>1. TimersInv => TypeOK
  <2> SUFFICES ASSUME TimersInv
               PROVE  TypeOK
    OBVIOUS
  <2>1. \A e \in Exchanges : Typed(Side(e), ex[e])
    BY ObjectGood
  <2>2. \A s \in Sides : seen[s] \subseteq Numbers(Other(s))
    BY DEF TimersInv, Inv, Shape
  <2>3. \A s \in Sides : delivered[s] \in [Numbers(Other(s)) -> Nat]
    BY DEF TimersInv, Inv, Shape
  <2>4. \A s \in Sides : outcome[s] \in [Numbers(s) -> {"unsent", "pending", "acked", "closed",
                                                        "failed", "aborted", "error"}]
    BY DEF TimersInv, OutcomesTyped, Ended
  <2>5. DOMAIN NewObject("free", TRUE) = Fields
    BY DEF NewObject, Fields
  <2>6. net \subseteq Messages /\ faults \in 0 .. MaxFaults
    BY DEF TimersInv, NetTyped
  <2> QED
    BY <2>1, <2>2, <2>3, <2>4, <2>5, <2>6 DEF TypeOK, Typed, Closers
<1> QED
  BY <1>1, TimersInvariant, PTL

\* No message is transmitted more often than MAX_TRANSMISSIONS, whatever timers, early
\* retransmissions and late completions of the channel interleave, unless refused
\* sends have bought it more.
THEOREM Budget == Spec => []TransmissionBudget
<1>1. TimersInv => TransmissionBudget
  BY ObjectGood DEF TransmissionBudget, Base, Budgeted, Bought
<1> QED
  BY <1>1, TimersInvariant, PTL

\* A send() that waits always has exactly one thing that will end it, and no
\* acknowledgement that is owed is left to nobody, but for one whose sending failed.
THEOREM NoStall == Spec => []NothingStalls
<1>1. TimersInv => NothingStalls
  <2> SUFFICES ASSUME TimersInv
               PROVE  OneDriver /\ AckIsDriven
    BY DEF NothingStalls
  <2>1. AckIsDriven
    BY ObjectGood DEF AckIsDriven, Base, Owing
  <2>2. ASSUME NEW e \in Exchanges
        PROVE  /\ ex[e].sent # NoMessage =>
                     /\ Armed(ex[e]) \subseteq {ex[e].timer}
                     /\ Armed(ex[e]) = {} \/ OnTheWay(ex[e]) = {}
                     /\ Cardinality(OnTheWay(ex[e])) <= 1
               /\ ex[e].call = "waiting" =>
                     ex[e].sent # NoMessage /\ Armed(ex[e]) \cup OnTheWay(ex[e]) # {}
    <3>0. Good(Side(e), ex[e], outcome)
      BY ObjectGood
    <3>1. ex[e].sent # NoMessage =>
             /\ Armed(ex[e]) \subseteq {ex[e].timer}
             /\ Armed(ex[e]) = {} \/ OnTheWay(ex[e]) = {}
             /\ \A t, u \in OnTheWay(ex[e]) : t = u
      BY <3>0 DEF Good, Base, Pending
    <3>2. ASSUME \A t, u \in OnTheWay(ex[e]) : t = u
          PROVE  Cardinality(OnTheWay(ex[e])) <= 1
      <4>1. CASE OnTheWay(ex[e]) = {}
        BY <4>1, FS_EmptySet
      <4>2. CASE OnTheWay(ex[e]) # {}
        <5>1. PICK t : OnTheWay(ex[e]) = {t}
          BY <3>2, <4>2
        <5>2. Cardinality({t}) = 1
          BY FS_Singleton
        <5> QED
          BY <5>1, <5>2
      <4> QED
        BY <4>1, <4>2
    <3>3. ex[e].call = "waiting" =>
             ex[e].sent # NoMessage /\ Armed(ex[e]) \cup OnTheWay(ex[e]) # {}
      BY <3>0 DEF Good, Base, Noticed, Driven, Promise, Undriven
    <3> QED
      BY <3>1, <3>2, <3>3
  <2>3. OneDriver
    BY <2>2 DEF OneDriver, Armed, OnTheWay
  <2> QED
    BY <2>1, <2>3
<1> QED
  BY <1>1, TimersInvariant, PTL

\* Once send() has returned or failed the message is not transmitted again, unless the
\* caller aborted it.
THEOREM Final == Spec => SettledIsFinal
<1> DEFINE A == \A e \in Exchanges : \A t \in ex'[e].inFlight \ ex[e].inFlight :
                   outcome[Side(e)][t.id] \in {"pending", "aborted"}
<1>1. TimersInv /\ [Next]_vars => [A]_vars
  <2> SUFFICES ASSUME TimersInv, Next
               PROVE  A
    OBVIOUS
  <2>1. PICK e \in Exchanges : (\E z : StepOf(e, z)) /\ TimedStep(e)
    BY NextTimed
  <2>2. \A f \in Exchanges : f # e => ex'[f] = ex[f]
    BY <2>1 DEF StepOf, ObjectBecomes
  <2> QED
    BY <2>1, <2>2 DEF TimedStep, AgainPending
<1> QED
  BY <1>1, TimersInvariant, PTL DEF Spec, SettledIsFinal
=============================================================================
