--------------------------- MODULE SessionCloseProofs ---------------------------
(***************************************************************************)
(* What SessionClose promises, for any tasks, subscriptions and attributes.*)
(***************************************************************************)
EXTENDS SessionClose, TLAPS

\* The sets a subscription's and a task's fields range over.
Subscriptions ==
    [state : {"new", "seeding", "established"}, listening : BOOLEAN, activated : BOOLEAN,
     registered : BOOLEAN, isClosed : BOOLEAN, isTerminated : BOOLEAN,
     seeded : Unseeded .. MaxChanges, outstanding : SUBSET Attrs, stale : SUBSET Attrs,
     delay : BOOLEAN, loop : {"none", "sending", "closing", "settling"},
     carried : SUBSET Attrs, fresh : SUBSET Attrs, dropped : SUBSET Attrs,
     halfRead : SUBSET Attrs, place : {"here", "nowhere"}, viaSession : BOOLEAN,
     result : {"sent", "unreachable", "other"}, next : BOOLEAN, errors : 0 .. MaxErrors + 1]

TaskStates ==
    [at : {"idle", "done", "decide", "subscriptions", "flushing", "updating", "exchanges",
           "recheck", "rollover", "goodbye", "closed", "handling", "cancel", "seeding"},
     kind : {"none", "plain", "flush", "force", "rollover", "leave"},
     currentExchange : Exchanges \cup {None},
     part : {"none", "shutdown", "close", "cancel"},
     todo : SUBSET Subs, awaited : Subs \cup {None}, rest : SUBSET (Exchanges \cup Subs),
     then : {"idle", "done", "closed", "subscriptions", "exchanges"}]

\* How the fields of one subscription belong together.
Coherent(x) ==
    /\ x \in Subscriptions
    /\ x.fresh \subseteq x.carried
    /\ x.loop \in {"none", "settling"} => x.carried = {}
    /\ x.activated => x.registered /\ x.listening /\ ~x.isClosed
    /\ x.registered \/ x.delay \/ x.loop # "none" => x.state = "established"
    /\ x.state # "seeding" => x.seeded = Unseeded
    /\ x.state = "seeding" /\ ~x.isClosed => x.listening
    /\ x.state = "new" => ~x.isClosed
    /\ x.loop = "none" => ~x.viaSession

\* What an open subscription knows of the attributes its subscriber has not got, when
\* those in "notices" are about to be notified and the data version is v.
Aware(x, notices, v) ==
    /\ x.activated /\ ~x.isTerminated =>
         /\ x.stale \subseteq x.outstanding \cup x.carried \cup x.dropped \cup x.halfRead \cup notices
         /\ x.stale \cap (x.carried \ x.fresh) \subseteq
              x.outstanding \cup x.dropped \cup x.halfRead \cup notices
         /\ x.loop = "closing" /\ x.result = "sent" => x.fresh = {}
    /\ x.state = "seeding" /\ x.seeded # Unseeded /\ ~x.isClosed =>
         /\ x.stale \subseteq x.outstanding \cup x.halfRead \cup notices
         /\ x.seeded <= v
         /\ x.seeded = v => x.stale \subseteq x.halfRead

Notices == {a \in Attrs : pending[a] > 0}

Established == {s \in Subs : sub[s].state = "established"}

\* A task in the shutdown logic of initiateClose or initiateForceClose, one that has not yet
\* left initiateClose, and one in NodeSession.close.
Shutting(t) == \/ t.at \in {"decide", "exchanges", "flushing"}
               \/ t.at \in {"subscriptions", "updating"} /\ t.part = "shutdown"
Initiating(t) == Shutting(t) \/ t.at = "recheck"
Ending(t) == \/ t.at \in {"rollover", "goodbye"}
             \/ t.at \in {"subscriptions", "updating"} /\ t.part = "close"
Engaged(t) == Initiating(t) \/ Ending(t)

\* The changes of attribute a that a transaction is committing.
Unpublished(a) == IF a \in committing THEN 1 ELSE 0

SubsInv ==
    /\ sub \in [Subs -> Subscriptions]
    /\ version \in 0 .. MaxChanges
    /\ committing \subseteq Attrs
    /\ pending \in [Attrs -> 0 .. MaxChanges]
    /\ \A a \in Attrs : pending[a] + Unpublished(a) <= version
    /\ \A s \in Subs : Coherent(sub[s]) /\ Aware(sub[s], Notices, version)

\* The types of the session's side.
TypesInv ==
    /\ session \in [closing : BOOLEAN, deferredClose : BOOLEAN, isPeerLost : BOOLEAN,
                    ended : BOOLEAN]
    /\ exchanges \subseteq Exchanges
    /\ task \in [Tasks -> TaskStates]

\* What tasks refer to.
RefsInv ==
    \A p \in Tasks :
        LET t == task[p] IN
        /\ t.at \in {"flushing", "updating", "seeding"} => t.awaited \in Subs
        /\ t.at = "flushing" => t.part = "shutdown"
        /\ t.at = "exchanges" => t.rest \subseteq Exchanges
        /\ t.todo \subseteq Established
        /\ t.at \in {"handling", "cancel"} \/ t.part = "cancel" => t.rest \subseteq Established

\* One task primes a subscription.
SeedInv ==
    /\ \A p \in Tasks : task[p].at = "seeding" =>
          sub[task[p].awaited].state = "seeding" /\ ~sub[task[p].awaited].isClosed
    /\ \A p, q \in Tasks : task[p].at = "seeding" /\ task[q].at = "seeding"
                             /\ task[p].awaited = task[q].awaited => p = q

\* Two tasks, of which one becomes t and the other is u, may close the session at once when one
\* of them is the task that initiated the close and the other closed the last exchange.
Beside(u, t) ==
    /\ ~(Initiating(u) /\ Initiating(t))
    /\ Initiating(u) /\ Ending(t) => t.then # "done"
    /\ Ending(u) /\ Initiating(t) => u.then # "done"
    /\ Ending(u) /\ Ending(t) => (u.then = "done" <=> t.then # "done")

\* Nothing keeps the session from its end: it is shut down, and no exchange defers its close.
Over == session.closing /\ ~session.deferredClose /\ \A p \in Tasks : ~Shutting(task[p])

\* The exchanges by which tasks tell the peer of the close.
Goodbyes == {Goodbye(p) : p \in {u \in Tasks : task[u].at = "goodbye"}}

\* The close of the session is with the task that shuts it down, deferred to the exchanges that are
\* open, with the tasks that end it, or done.
TokenInv ==
    /\ session.deferredClose \/ session.ended => session.closing
    /\ session.deferredClose => ~session.ended /\ exchanges # {}
    /\ \A p \in Tasks : Engaged(task[p]) => session.closing
    /\ \A p, q \in Tasks : Engaged(task[p]) /\ Engaged(task[q]) => p = q \/ Beside(task[p], task[q])
    /\ session.closing =>
         session.ended \/ session.deferredClose \/ \E p \in Tasks : Engaged(task[p])
    /\ \A p \in Tasks : Shutting(task[p]) =>
          /\ session.deferredClose => task[p].at = "exchanges" /\ task[p].currentExchange # None
          /\ task[p].currentExchange # None =>
                task[p].currentExchange = Request(p) /\ Request(p) \in exchanges
    /\ \A p \in Tasks : Ending(task[p]) => Over /\ task[p].then # "exchanges"
    /\ session.ended => Over
    /\ Over => exchanges \subseteq Goodbyes

RequestInv ==
    \A q \in Requests : task[q].at = "handling" /\ ~session.closing => Request(q) \in exchanges

\* A report that goes by the closing session is awaited by the task that shuts it down, which
\* has closed its subscription.
FlushInv ==
    /\ \A s \in Subs : sub[s].viaSession =>
          \E p \in Tasks : task[p].at = "flushing" /\ task[p].awaited = s
    /\ \A p \in Tasks : task[p].at = "flushing" => sub[task[p].awaited].isClosed

\* Who ends the session knows every subscription that is left.
SweepInv ==
    /\ \A p \in Tasks : task[p].at \in {"subscriptions", "updating"} /\ task[p].part = "close" =>
          \A s \in Subs : sub[s].registered /\ ~sub[s].isClosed => s \in task[p].todo
    /\ session.ended => \A s \in Subs : sub[s].registered => sub[s].isClosed

Inv == TypesInv /\ SubsInv /\ RefsInv /\ SeedInv /\ TokenInv /\ RequestInv /\ FlushInv /\ SweepInv
-----------------------------------------------------------------------------
(***************************************************************************)
(* What the operators on subscriptions keep.                               *)
(***************************************************************************)

\* x becomes y in a step that neither registers a subscription nor reopens one.
Advances(x, y) ==
    /\ y.state = x.state
    /\ x.isClosed => y.isClosed
    /\ y.registered => x.registered

\* Iterate sends what is outstanding, or has nothing to send.
LEMMA IterateKeeps ==
    ASSUME NEW x, NEW N, NEW v \in Int, NEW o \in BOOLEAN, NEW via \in BOOLEAN, NEW c \in BOOLEAN,
           Coherent(x), Aware(x, N, v), x.state = "established", x.carried = {}
    PROVE  LET y == Iterate(x, o, via, c) IN
           /\ Coherent(y) /\ Aware(y, N, v) /\ Advances(x, y)
           /\ y.isClosed = x.isClosed
           /\ y.viaSession => x.viaSession \/ via
           /\ y.loop = "sending" /\ y.place = "here" => via \/ ~c
           /\ y.loop # "none"
<1> DEFINE y == Iterate(x, o, via, c)
<1>1. CASE o /\ x.outstanding = {}
  <2>1. y = [x EXCEPT !.loop = "settling"]
    BY <1>1 DEF Iterate
  <2>2. y \in Subscriptions
    BY <2>1 DEF Coherent, Subscriptions
  <2>. QED
    BY <2>1, <2>2 DEF Coherent, Aware, Advances, Subscriptions
<1>2. CASE ~(o /\ x.outstanding = {})
  <2> DEFINE O == x.outstanding
             here == IF via \/ ~c THEN "here" ELSE "nowhere"
  <2>1. y = [x EXCEPT !.outstanding = {}, !.carried = O, !.fresh = O,
                      !.loop = "sending", !.viaSession = via, !.place = here]
    BY <1>2 DEF Iterate
  <2>2. y \in Subscriptions
    <3>1. x \in Subscriptions /\ O \in SUBSET Attrs /\ here \in {"here", "nowhere"}
      BY DEF Coherent, Subscriptions
    <3>. HIDE DEF O, here, y
    <3>. QED
      BY <2>1, <3>1 DEF Subscriptions
  <2>. QED
    BY <2>1, <2>2 DEF Coherent, Aware, Advances, Subscriptions
<1>. QED
  BY <1>1, <1>2

LEMMA TriggerKeeps ==
    ASSUME NEW x, NEW N, NEW v \in Int, NEW o \in BOOLEAN, NEW via \in BOOLEAN, NEW c \in BOOLEAN,
           Coherent(x), Aware(x, N, v), x.state = "established"
    PROVE  LET y == Trigger(x, o, via, c) IN
           /\ Coherent(y) /\ Aware(y, N, v) /\ Advances(x, y)
           /\ y.isClosed = x.isClosed
           /\ y.viaSession => x.viaSession \/ (via /\ x.loop = "none")
           /\ x.loop = "none" /\ y.loop = "sending" /\ y.place = "here" => via \/ ~c
           /\ x.loop # "none" => y.loop = x.loop /\ y.place = x.place
           /\ y.loop # "none"
<1> DEFINE y == Trigger(x, o, via, c)
<1>1. CASE x.loop # "none"
  <2>1. y = [x EXCEPT !.next = TRUE]
    BY <1>1 DEF Trigger
  <2>2. y \in Subscriptions
    BY <2>1 DEF Coherent, Subscriptions
  <2>. QED
    BY <1>1, <2>1, <2>2 DEF Coherent, Aware, Advances, Subscriptions
<1>2. CASE x.loop = "none"
  <2>1. y = Iterate(x, o, via, c)
    BY <1>2 DEF Trigger
  <2>2. x.carried = {}
    BY <1>2 DEF Coherent
  <2>. HIDE DEF y
  <2>3. /\ Coherent(y) /\ Aware(y, N, v) /\ Advances(x, y)
        /\ y.isClosed = x.isClosed
        /\ y.viaSession => x.viaSession \/ via
        /\ y.loop = "sending" /\ y.place = "here" => via \/ ~c
        /\ y.loop # "none"
    BY <2>1, <2>2, IterateKeeps
  <2>. QED
    BY <1>2, <2>3 DEF y
<1>. QED
  BY <1>1, <1>2

LEMMA PrepareKeeps ==
    ASSUME NEW x, NEW N, NEW v \in Int, NEW r \in BOOLEAN, Coherent(x), Aware(x, N, v)
    PROVE  LET y == PrepareDataUpdate(x, r) IN
           /\ Coherent(y) /\ Aware(y, N, v) /\ Advances(x, y)
           /\ y.isClosed = x.isClosed /\ y.viaSession = x.viaSession
<1> DEFINE y == PrepareDataUpdate(x, r)
<1>1. CASE x.delay \/ x.isClosed \/ ~x.activated \/ r
  BY <1>1 DEF PrepareDataUpdate, Advances
<1>2. CASE ~(x.delay \/ x.isClosed \/ ~x.activated \/ r)
  <2>1. y = [x EXCEPT !.delay = TRUE]
    BY <1>2 DEF PrepareDataUpdate
  <2>2. y \in Subscriptions
    BY <2>1 DEF Coherent, Subscriptions
  <2>. QED
    BY <1>2, <2>1, <2>2 DEF Coherent, Aware, Advances, Subscriptions
<1>. QED
  BY <1>1, <1>2

\* A subscription that is closed, and no longer registered or still to be flushed.
LEMMA StopKeeps ==
    ASSUME NEW x, NEW N, NEW v \in Int, NEW d \in BOOLEAN, Coherent(x), d => x.delay,
           x.state # "new"
    PROVE  LET y == StopListening([x EXCEPT !.isClosed = TRUE, !.delay = d]) IN
           /\ Coherent(y) /\ Aware(y, N, v) /\ Advances(x, y)
           /\ y.isClosed /\ y.viaSession = x.viaSession /\ y.loop = x.loop /\ y.place = x.place
           /\ y.outstanding = x.outstanding
<1> DEFINE w == [x EXCEPT !.isClosed = TRUE, !.delay = d]
           y == StopListening(w)
<1>1. /\ w \in Subscriptions /\ w.isClosed /\ w.delay = d /\ w.state = x.state
      /\ w.registered = x.registered /\ w.seeded = x.seeded /\ w.loop = x.loop
      /\ w.place = x.place /\ w.viaSession = x.viaSession /\ w.carried = x.carried
      /\ w.outstanding = x.outstanding
  BY DEF Coherent, Subscriptions
<1>. HIDE DEF w
<1>2. y = [w EXCEPT !.activated = FALSE, !.listening = FALSE, !.isTerminated = FALSE,
                    !.stale = {}, !.fresh = {}, !.dropped = {}, !.halfRead = {},
                    !.errors = 0]
  BY DEF StopListening
<1>3. 0 \in 0 .. MaxErrors + 1
  BY SubscriptionAssumption
<1>4. w \in Subscriptions
  BY <1>1
<1>5. y \in Subscriptions
  BY <1>2, <1>3, <1>4 DEF Subscriptions
<1>6. /\ ~y.activated /\ y.isClosed /\ y.fresh = {} /\ y.state = x.state /\ y.delay = d
      /\ y.registered = x.registered /\ y.seeded = x.seeded /\ y.loop = x.loop
      /\ y.place = x.place /\ y.viaSession = x.viaSession /\ y.carried = x.carried
      /\ y.outstanding = x.outstanding
  BY <1>1, <1>2 DEF Subscriptions
<1>. HIDE DEF y
<1>7. Coherent(y) /\ Aware(y, N, v) /\ Advances(x, y)
  BY <1>5, <1>6 DEF Coherent, Aware, Advances
<1>. QED
  BY <1>6, <1>7 DEF y, w

LEMMA UnregisterKeeps ==
    ASSUME NEW x, NEW N, NEW v \in Int, Coherent(x), Aware(x, N, v), ~x.activated
    PROVE  LET y == Unregister(x) IN
           /\ Coherent(y) /\ Aware(y, N, v) /\ Advances(x, y) /\ ~y.registered
           /\ y.isClosed = x.isClosed /\ y.viaSession = x.viaSession /\ y.loop = x.loop
           /\ y.place = x.place /\ ~y.activated
<1> DEFINE y == Unregister(x)
<1>1. y = [x EXCEPT !.delay = FALSE, !.registered = FALSE]
  BY DEF Unregister
<1>2. y \in Subscriptions
  BY <1>1 DEF Coherent, Subscriptions
<1>. QED
  BY <1>1, <1>2 DEF Coherent, Aware, Advances, Subscriptions

LEMMA StopUnregisterKeeps ==
    ASSUME NEW x, NEW N, NEW v \in Int, Coherent(x), x.state # "new"
    PROVE  LET y == Unregister(StopListening([x EXCEPT !.isClosed = TRUE])) IN
           /\ Coherent(y) /\ Aware(y, N, v) /\ Advances(x, y) /\ ~y.registered /\ ~y.activated
           /\ y.isClosed /\ y.viaSession = x.viaSession /\ y.loop = x.loop /\ y.place = x.place
<1> DEFINE w == StopListening([x EXCEPT !.isClosed = TRUE])
<1> DEFINE d == x.delay
           u == StopListening([x EXCEPT !.isClosed = TRUE, !.delay = d])
<1>1. d \in BOOLEAN /\ [x EXCEPT !.isClosed = TRUE] = [x EXCEPT !.isClosed = TRUE, !.delay = d]
  BY DEF Coherent, Subscriptions
<1>2. w = u
  BY <1>1
<1>3. d => x.delay
  OBVIOUS
<1>. HIDE DEF d
<1>4. /\ Coherent(u) /\ Aware(u, N, v) /\ Advances(x, u)
      /\ u.isClosed /\ u.viaSession = x.viaSession /\ u.loop = x.loop /\ u.place = x.place
  BY <1>1, <1>3, StopKeeps
<1>5. ~u.activated
  BY <1>4 DEF Coherent
<1>. HIDE DEF u, w
<1>6. LET y == Unregister(w) IN
      /\ Coherent(y) /\ Aware(y, N, v) /\ Advances(w, y) /\ ~y.registered
      /\ y.isClosed = w.isClosed /\ y.viaSession = w.viaSession /\ y.loop = w.loop
      /\ y.place = w.place /\ ~y.activated
  BY <1>2, <1>4, <1>5, UnregisterKeeps
<1>. QED
  BY <1>2, <1>4, <1>6 DEF Advances, w

LEMMA CloseFromUpdateKeeps ==
    ASSUME NEW x, NEW N, NEW v \in Int, Coherent(x), Aware(x, N, v), x.state # "new"
    PROVE  LET y == CloseFromUpdate(x) IN
           /\ Coherent(y) /\ Aware(y, N, v) /\ Advances(x, y) /\ y.isClosed /\ ~y.activated
           /\ y.viaSession = x.viaSession /\ y.loop = x.loop /\ y.place = x.place
<1>1. CASE x.isClosed
  BY <1>1 DEF CloseFromUpdate, Coherent, Advances
<1>2. CASE ~x.isClosed
  <2>1. CloseFromUpdate(x) = Unregister(StopListening([x EXCEPT !.isClosed = TRUE]))
    BY <1>2 DEF CloseFromUpdate
  <2>. QED
    BY <2>1, StopUnregisterKeeps
<1>. QED
  BY <1>1, <1>2 DEF Coherent, Subscriptions

\* The end of a report: it got through, was refused, or failed.
LEMMA SentKeeps ==
    ASSUME NEW x, NEW N, NEW v \in Int, Coherent(x), Aware(x, N, v), x.loop = "sending"
    PROVE  LET y == [Sent(x) EXCEPT !.loop = "closing"] IN
           /\ Coherent(y) /\ Aware(y, N, v) /\ Advances(x, y)
           /\ y.isClosed = x.isClosed /\ y.viaSession = x.viaSession
<1> DEFINE y == [Sent(x) EXCEPT !.loop = "closing"]
           rest == x.stale \ x.fresh
<1>1. y = [x EXCEPT !.result = "sent", !.stale = rest, !.fresh = {}, !.errors = 0,
                    !.loop = "closing"]
  BY DEF Sent, Coherent, Subscriptions
<1>2. x \in Subscriptions /\ 0 \in 0 .. MaxErrors + 1 /\ rest \in SUBSET Attrs
  BY SubscriptionAssumption DEF Coherent, Subscriptions
<1>. HIDE DEF y, rest
<1>3. y \in Subscriptions
  BY <1>1, <1>2 DEF Subscriptions
<1>4. /\ y.stale = rest /\ y.fresh = {} /\ y.loop = "closing" /\ y.carried = x.carried
      /\ y.outstanding = x.outstanding /\ y.dropped = x.dropped /\ y.halfRead = x.halfRead /\ y.isTerminated = x.isTerminated
      /\ y.activated = x.activated /\ y.state = x.state /\ y.isClosed = x.isClosed
      /\ y.registered = x.registered /\ y.listening = x.listening /\ y.seeded = x.seeded
      /\ y.viaSession = x.viaSession /\ y.delay = x.delay
  BY <1>1, <1>2 DEF Subscriptions
<1>. QED
  BY <1>3, <1>4 DEF Coherent, Aware, Advances, y, rest

LEMMA RefusedKeeps ==
    ASSUME NEW x, NEW N, NEW v \in Int, Coherent(x), Aware(x, N, v), x.loop = "sending"
    PROVE  LET y == [Refused(x) EXCEPT !.loop = "closing"] IN
           /\ Coherent(y) /\ Aware(y, N, v) /\ Advances(x, y) /\ y.viaSession = x.viaSession
<1> DEFINE w == [x EXCEPT !.result = "sent"]
           u == CloseFromUpdate(w)
           y == [Refused(x) EXCEPT !.loop = "closing"]
<1>1. w \in Subscriptions
  BY DEF Coherent, Subscriptions
<1>2. Coherent(w) /\ Aware(w, N, v) /\ Advances(x, w) /\ w.loop = "sending" /\ w.viaSession = x.viaSession
  BY <1>1 DEF Coherent, Aware, Advances, Subscriptions
<1>3. Refused(x) = u
  BY DEF Refused
<1>. HIDE DEF w
<1>4. /\ Coherent(u) /\ Aware(u, N, v) /\ Advances(w, u) /\ u.isClosed /\ ~u.activated
      /\ u.viaSession = w.viaSession /\ u.loop = w.loop
  BY <1>2, CloseFromUpdateKeeps DEF Coherent
<1>. HIDE DEF u
<1>5. y = [u EXCEPT !.loop = "closing"]
  BY <1>3
<1>6. y \in Subscriptions
  BY <1>4, <1>5 DEF Coherent, Subscriptions
<1>. QED
  BY <1>2, <1>4, <1>5, <1>6 DEF Coherent, Aware, Advances, Subscriptions

LEMMA FailedKeeps ==
    ASSUME NEW x, NEW N, NEW v \in Int, Coherent(x), Aware(x, N, v), x.loop = "sending",
           NEW r \in {"unreachable", "other"}
    PROVE  LET y == [x EXCEPT !.loop = "closing", !.result = r] IN
           /\ Coherent(y) /\ Aware(y, N, v) /\ Advances(x, y)
           /\ y.isClosed = x.isClosed /\ y.viaSession = x.viaSession
<1> DEFINE y == [x EXCEPT !.loop = "closing", !.result = r]
<1>1. y \in Subscriptions
  BY DEF Coherent, Subscriptions
<1>. QED
  BY <1>1 DEF Coherent, Aware, Advances, Subscriptions

\* Another round of the loop, or its end.
LEMMA AgainKeeps ==
    ASSUME NEW z, NEW N, NEW v \in Int, NEW c \in BOOLEAN,
           Coherent(z), Aware(z, N, v), z.loop # "none", z.carried = {}
    PROVE  LET y == IF z.next THEN Iterate([z EXCEPT !.next = FALSE], TRUE, z.viaSession, c)
                    ELSE [z EXCEPT !.loop = "settling"] IN
           /\ Coherent(y) /\ Aware(y, N, v) /\ Advances(z, y)
           /\ y.viaSession => z.viaSession
           /\ y.loop = "sending" /\ y.place = "here" => z.viaSession \/ ~c
<1> DEFINE y == IF z.next THEN Iterate([z EXCEPT !.next = FALSE], TRUE, z.viaSession, c)
                ELSE [z EXCEPT !.loop = "settling"]
<1>1. CASE z.next
  <2> DEFINE w == [z EXCEPT !.next = FALSE]
             via == z.viaSession
             o == TRUE
  <2>1. w \in Subscriptions /\ via \in BOOLEAN /\ o \in BOOLEAN
    BY DEF Coherent, Subscriptions
  <2>2. Coherent(w) /\ Aware(w, N, v) /\ Advances(z, w) /\ w.viaSession = via /\ w.carried = {}
    BY <2>1 DEF Coherent, Aware, Advances, Subscriptions
  <2>3. w.state = "established"
    BY <2>2 DEF Coherent, Advances
  <2>4. y = Iterate(w, o, via, c)
    BY <1>1
  <2>. HIDE DEF w, via, y, o
  <2>5. /\ Coherent(y) /\ Aware(y, N, v) /\ Advances(w, y)
        /\ y.viaSession => w.viaSession \/ via
        /\ y.loop = "sending" /\ y.place = "here" => via \/ ~c
    BY <2>1, <2>2, <2>3, <2>4, IterateKeeps
  <2>. QED
    BY <2>2, <2>5 DEF Advances, via, y
<1>2. CASE ~z.next
  <2>1. y = [z EXCEPT !.loop = "settling"]
    BY <1>2
  <2>. HIDE DEF y
  <2>2. y \in Subscriptions
    BY <2>1 DEF Coherent, Subscriptions
  <2>3. Coherent(y) /\ Aware(y, N, v) /\ Advances(z, y) /\ y.viaSession = z.viaSession /\ y.loop = "settling"
    BY <2>1, <2>2 DEF Coherent, Aware, Advances, Subscriptions
  <2>. QED
    BY <2>3 DEF y
<1>. QED
  BY <1>1, <1>2

\* A subscription whose report is over, with the attributes it carried put elsewhere.
OverWith(x, O, D, e, n, l) ==
    [x EXCEPT !.carried = {}, !.fresh = {}, !.result = "sent", !.outstanding = O, !.dropped = D,
              !.errors = e, !.next = n, !.loop = l]

\* With O outstanding and D dropped nothing is forgotten.
Keeps(x, O, D, N) ==
    /\ O \in SUBSET Attrs /\ D \in SUBSET Attrs
    /\ x.activated /\ ~x.isTerminated => x.stale \subseteq O \cup D \cup x.halfRead \cup N

LEMMA OverKeeps ==
    ASSUME NEW x, NEW N, NEW v \in Int, Coherent(x), Aware(x, N, v), x.loop # "none",
           NEW O, NEW D, Keeps(x, O, D, N), NEW e \in 0 .. MaxErrors + 1,
           NEW n \in BOOLEAN, NEW l \in {"sending", "closing", "settling"}
    PROVE  LET y == OverWith(x, O, D, e, n, l) IN
           /\ Coherent(y) /\ Aware(y, N, v) /\ Advances(x, y)
           /\ y.viaSession = x.viaSession /\ y.loop = l /\ y.carried = {}
           /\ y.next = n
<1> DEFINE y == OverWith(x, O, D, e, n, l)
<1>1. y = [x EXCEPT !.carried = {}, !.fresh = {}, !.result = "sent", !.outstanding = O,
                    !.dropped = D, !.errors = e, !.next = n, !.loop = l]
  BY DEF OverWith
<1>2. /\ x \in Subscriptions /\ l \in {"none", "sending", "closing", "settling"}
      /\ O \in SUBSET Attrs /\ D \in SUBSET Attrs
  BY DEF Coherent, Keeps
<1>. HIDE DEF y
<1>3. y \in Subscriptions
  BY <1>1, <1>2 DEF Subscriptions
<1>4. /\ y.stale = x.stale /\ y.fresh = {} /\ y.loop = l /\ y.carried = {}
      /\ y.outstanding = O /\ y.dropped = D /\ y.halfRead = x.halfRead
      /\ y.isTerminated = x.isTerminated
      /\ y.activated = x.activated /\ y.state = x.state /\ y.isClosed = x.isClosed
      /\ y.registered = x.registered /\ y.listening = x.listening /\ y.seeded = x.seeded
      /\ y.viaSession = x.viaSession /\ y.delay = x.delay /\ y.next = n
  BY <1>1, <1>2 DEF Subscriptions
<1>5. x.state = "established"
  BY DEF Coherent
<1>. QED
  BY <1>3, <1>4, <1>5 DEF Coherent, Aware, Advances, Keeps, y

\* The loop goes on after a report, whatever became of it.
LEMMA AfterSendKeeps ==
    ASSUME NEW x, NEW N, NEW v \in Int, NEW c \in BOOLEAN,
           Coherent(x), Aware(x, N, v), x.loop # "none", x.result = "sent" => x.loop = "closing"
    PROVE  LET y == AfterSend(x, c) IN
           /\ Coherent(y) /\ Aware(y, N, v) /\ Advances(x, y)
           /\ y.viaSession => x.viaSession
           /\ y.loop = "sending" /\ y.place = "here" => x.viaSession \/ ~c
<1> DEFINE Goal(y) == /\ Coherent(y) /\ Aware(y, N, v) /\ Advances(x, y)
                      /\ y.viaSession => x.viaSession
                      /\ y.loop = "sending" /\ y.place = "here" => x.viaSession \/ ~c
           again(z) == IF z.next
                         THEN Iterate([z EXCEPT !.next = FALSE], TRUE, z.viaSession, c)
                         ELSE [z EXCEPT !.loop = "settling"]
           y0 == [x EXCEPT !.carried = {}, !.fresh = {}, !.result = "sent"]
           e == IF x.errors <= MaxErrors THEN x.errors + 1 ELSE x.errors
           failed == [y0 EXCEPT !.errors = e]
           O == x.outstanding
           D == x.dropped
           C == x.carried
           n == x.next
           l == x.loop
           m == x.errors
<1>1. /\ x \in Subscriptions
      /\ O \in SUBSET Attrs /\ D \in SUBSET Attrs /\ C \in SUBSET Attrs
      /\ n \in BOOLEAN /\ l \in {"sending", "closing", "settling"}
      /\ m \in 0 .. MaxErrors + 1
  BY DEF Coherent, Subscriptions
<1>2. l # "none"
  OBVIOUS
<1>3. e \in 0 .. MaxErrors + 1
  BY <1>1, SubscriptionAssumption
<1>4. failed.errors = e
  BY <1>1 DEF Subscriptions
<1>5. AfterSend(x, c) =
        IF x.result = "sent" THEN again(y0)
        ELSE IF x.isClosed \/ x.isTerminated THEN [y0 EXCEPT !.loop = "settling"]
        ELSE IF e <= MaxErrors THEN again([failed EXCEPT !.outstanding = @ \cup x.carried])
        ELSE IF x.result = "unreachable"
          THEN CloseFromUpdate([failed EXCEPT !.next = FALSE, !.loop = "settling"])
        ELSE [failed EXCEPT !.next = FALSE, !.loop = "settling", !.dropped = @ \cup x.carried]
  BY <1>1, <1>4 DEF AfterSend, Subscriptions
<1>6. ASSUME NEW z, Coherent(z), Aware(z, N, v), Advances(x, z), z.loop # "none", z.carried = {},
             z.viaSession = x.viaSession
      PROVE  Goal(again(z))
  <2> DEFINE y == again(z)
  <2>1. /\ Coherent(y) /\ Aware(y, N, v) /\ Advances(z, y)
        /\ y.viaSession => z.viaSession
        /\ y.loop = "sending" /\ y.place = "here" => z.viaSession \/ ~c
    BY <1>6, AgainKeeps
  <2>. HIDE DEF y
  <2>2. Goal(y)
    BY <1>6, <2>1 DEF Advances
  <2>. QED
    BY <2>2 DEF y
<1>. HIDE DEF again, e, Goal
<1>7. CASE x.result = "sent"
  <2>1. y0 = OverWith(x, O, D, m, n, l)
    BY <1>1 DEF OverWith, Subscriptions
  <2>2. Keeps(x, O, D, N)
    BY <1>1, <1>7 DEF Aware, Keeps
  <2>. HIDE DEF O, D, m, n, l, y0
  <2>3. /\ Coherent(y0) /\ Aware(y0, N, v) /\ Advances(x, y0)
        /\ y0.viaSession = x.viaSession /\ y0.loop = l /\ y0.carried = {}
    BY <1>1, <2>1, <2>2, OverKeeps
  <2>4. Goal(again(y0))
    BY <1>2, <1>6, <2>3
  <2>. QED
    BY <1>5, <1>7, <2>4 DEF Goal
<1>8. CASE x.result # "sent" /\ (x.isClosed \/ x.isTerminated)
  <2> DEFINE y == [y0 EXCEPT !.loop = "settling"]
             k == "settling"
  <2>1. y = OverWith(x, O, D, m, n, k)
    BY <1>1 DEF OverWith, Subscriptions
  <2>2. Keeps(x, O, D, N)
    BY <1>1, <1>8 DEF Coherent, Keeps
  <2>3. k \in {"sending", "closing", "settling"}
    OBVIOUS
  <2>. HIDE DEF O, D, m, n, y, k
  <2>4. /\ Coherent(y) /\ Aware(y, N, v) /\ Advances(x, y)
        /\ y.viaSession = x.viaSession /\ y.loop = k
    BY <1>1, <2>1, <2>2, <2>3, OverKeeps
  <2>5. Goal(y)
    BY <2>4 DEF Goal, k
  <2>. QED
    BY <1>5, <1>8, <2>5 DEF Goal, y
<1>9. CASE x.result # "sent" /\ ~(x.isClosed \/ x.isTerminated) /\ e <= MaxErrors
  <2> DEFINE z == [failed EXCEPT !.outstanding = @ \cup x.carried]
             B == O \cup C
  <2>1. z = OverWith(x, B, D, e, n, l)
    BY <1>1 DEF OverWith, Subscriptions
  <2>2. Keeps(x, B, D, N)
    BY <1>1 DEF Aware, Keeps
  <2>. HIDE DEF B, D, n, l, z
  <2>3. /\ Coherent(z) /\ Aware(z, N, v) /\ Advances(x, z)
        /\ z.viaSession = x.viaSession /\ z.loop = l /\ z.carried = {}
    BY <1>1, <1>3, <2>1, <2>2, OverKeeps
  <2>4. Goal(again(z))
    BY <1>2, <1>6, <2>3
  <2>. QED
    BY <1>5, <1>9, <2>4 DEF Goal, z
<1>10. CASE x.result # "sent" /\ ~(x.isClosed \/ x.isTerminated) /\ ~(e <= MaxErrors)
  <2> DEFINE z == [failed EXCEPT !.next = FALSE, !.loop = "settling"]
             y == [failed EXCEPT !.next = FALSE, !.loop = "settling", !.dropped = @ \cup x.carried]
             B == D \cup C
             f == FALSE
             k == "settling"
  <2>1. y = OverWith(x, O, B, e, f, k)
    BY <1>1 DEF OverWith, Subscriptions
  <2>2. Keeps(x, O, B, N)
    BY <1>1 DEF Aware, Keeps
  <2>3. k \in {"sending", "closing", "settling"} /\ f \in BOOLEAN
    OBVIOUS
  <2>4. CASE x.result # "unreachable"
    <3>. HIDE DEF O, B, f, y, k
    <3>1. /\ Coherent(y) /\ Aware(y, N, v) /\ Advances(x, y)
          /\ y.viaSession = x.viaSession /\ y.loop = k
      BY <1>1, <1>3, <2>1, <2>2, <2>3, OverKeeps
    <3>2. Goal(y)
      BY <3>1 DEF Goal, k
    <3>. QED
      BY <1>5, <1>10, <2>4, <3>2 DEF Goal, y
  <2>5. CASE x.result = "unreachable"
    <3> DEFINE u == CloseFromUpdate(z)
    <3>1. Coherent(z) /\ Advances(x, z) /\ z.viaSession = x.viaSession /\ z.loop = "settling" /\ ~z.isClosed
            /\ z.state # "new"
      <4>1. x.state = "established" /\ ~x.isClosed
        BY <1>10 DEF Coherent
      <4>2. z = OverWith(x, O, D, e, f, k)
        BY <1>1 DEF OverWith, Subscriptions
      <4>. HIDE DEF z
      <4>3. z = [x EXCEPT !.carried = {}, !.fresh = {}, !.result = "sent", !.outstanding = O, !.dropped = D,
              !.errors = e, !.next = FALSE, !.loop = "settling"]
        BY <4>2 DEF OverWith
      <4>. HIDE DEF O, D
      <4>4. z \in Subscriptions
        BY <1>1, <1>3, <4>3 DEF Subscriptions
      <4>5. /\ z.fresh = {} /\ z.loop = "settling" /\ z.carried = {}
            /\ z.activated = x.activated /\ z.state = x.state /\ z.isClosed = x.isClosed
            /\ z.registered = x.registered /\ z.listening = x.listening /\ z.seeded = x.seeded
            /\ z.viaSession = x.viaSession /\ z.delay = x.delay
        BY <1>1, <4>3 DEF Subscriptions
      <4>. QED
        BY <4>1, <4>4, <4>5 DEF Coherent, Advances
    <3>2. u = Unregister(StopListening([z EXCEPT !.isClosed = TRUE]))
      BY <3>1 DEF CloseFromUpdate
    <3>. HIDE DEF z, u
    <3>3. /\ Coherent(u) /\ Aware(u, N, v) /\ Advances(z, u)
          /\ u.viaSession = z.viaSession /\ u.loop = z.loop
      BY <3>1, <3>2, StopUnregisterKeeps
    <3>4. Goal(u)
      BY <3>1, <3>3 DEF Goal, Advances
    <3>. QED
      BY <1>5, <1>10, <2>5, <3>4 DEF Goal, u, z
  <2>. QED
    BY <2>4, <2>5
<1>. QED
  BY <1>7, <1>8, <1>9, <1>10

\* Nothing but a notice of attribute a has come.
With(N, M, a) == N \cup {a} \subseteq M

\* A change makes attribute a stale, and a notice of it is on its way.
Changed(x, a) ==
    IF x.isClosed THEN x
    ELSE [x EXCEPT !.stale = @ \cup {a}, !.fresh = @ \ {a}, !.dropped = @ \ {a},
                   !.halfRead = IF ReadAhead(x) THEN @ \cup {a} ELSE @ \ {a}]

LEMMA ChangeKeeps ==
    ASSUME NEW x, NEW N, NEW M, version \in Int, NEW a \in Attrs, Coherent(x),
           Aware(x, N, version), With(N, M, a)
    PROVE  LET y == Changed(x, a) IN
           /\ Coherent(y) /\ Aware(y, M, version) /\ Advances(x, y)
           /\ y.isClosed = x.isClosed /\ y.viaSession = x.viaSession
<1> DEFINE y == Changed(x, a)
<1>1. CASE x.isClosed
  BY <1>1 DEF Changed, Coherent, Aware, Advances
<1>2. CASE ~x.isClosed
  <2> DEFINE S == x.stale \cup {a}
             F == x.fresh \ {a}
             D == x.dropped \ {a}
             H == IF ReadAhead(x) THEN x.halfRead \cup {a} ELSE x.halfRead \ {a}
  <2>1. y = [x EXCEPT !.stale = S, !.fresh = F, !.dropped = D, !.halfRead = H]
    BY <1>2 DEF Changed, Coherent, Subscriptions
  <2>2. /\ x \in Subscriptions /\ S \in SUBSET Attrs /\ F \in SUBSET Attrs /\ D \in SUBSET Attrs
        /\ H \in SUBSET Attrs
    BY DEF Coherent, Subscriptions
  <2>. HIDE DEF y, S, F, D, H
  <2>3. y \in Subscriptions
    BY <2>1, <2>2 DEF Subscriptions
  <2>4. /\ y.stale = S /\ y.fresh = F /\ y.dropped = D /\ y.halfRead = H
        /\ y.loop = x.loop /\ y.carried = x.carried
        /\ y.outstanding = x.outstanding /\ y.isTerminated = x.isTerminated
        /\ y.activated = x.activated /\ y.state = x.state /\ y.isClosed = x.isClosed
        /\ y.registered = x.registered /\ y.listening = x.listening /\ y.seeded = x.seeded
        /\ y.viaSession = x.viaSession /\ y.delay = x.delay /\ y.result = x.result
    BY <2>1, <2>2 DEF Subscriptions
  <2>5. Coherent(y)
    BY <2>3, <2>4 DEF Coherent, F
  <2>6. x.halfRead \ {a} \subseteq H
    BY DEF H
  <2>7. y.activated /\ ~y.isTerminated =>
         /\ y.stale \subseteq y.outstanding \cup y.carried \cup y.dropped \cup y.halfRead \cup M
         /\ y.stale \cap (y.carried \ y.fresh) \subseteq
              y.outstanding \cup y.dropped \cup y.halfRead \cup M
         /\ y.loop = "closing" /\ y.result = "sent" => y.fresh = {}
    BY <2>4, <2>6 DEF Aware, With, S, F, D
  <2>8. y.state = "seeding" /\ y.seeded # Unseeded /\ ~y.isClosed =>
         /\ y.stale \subseteq y.outstanding \cup y.halfRead \cup M
         /\ y.seeded <= version
         /\ y.seeded = version => y.stale \subseteq y.halfRead
    BY <2>4, <2>6 DEF Aware, With, S, H, ReadAhead
  <2>9. Aware(y, M, version)
    BY <2>7, <2>8 DEF Aware
  <2>. QED
    BY <2>4, <2>5, <2>9 DEF Advances, y
<1>. QED
  BY <1>1, <1>2

\* The data version advances.
LEMMA VersionKeeps ==
    ASSUME NEW x, NEW N, NEW v \in Int, Coherent(x), Aware(x, N, v)
    PROVE  Aware(x, N, v + 1)
<1>1. x.seeded \in Int
  BY SubscriptionAssumption DEF Coherent, Subscriptions, Unseeded
<1>. QED
  BY <1>1 DEF Aware

\* Nothing but a notice of attribute a is gone.
Without(N, M, a) == N \subseteq M \cup {a}

\* A notice of attribute a is handled.
LEMMA HandleChangeKeeps ==
    ASSUME NEW x, NEW N, NEW M, NEW a \in Attrs, NEW r \in BOOLEAN, version \in Int,
           Coherent(x), Aware(x, N, version), Without(N, M, a)
    PROVE  LET y == HandleChange(x, a, r) IN
           /\ Coherent(y) /\ Aware(y, M, version) /\ Advances(x, y)
           /\ y.isClosed = x.isClosed /\ y.viaSession = x.viaSession
<1>1. CASE ~x.listening \/ x.isClosed
  BY <1>1 DEF HandleChange, Coherent, Aware, Advances
<1>2. CASE x.state = "seeding" /\ x.seeded = version
  BY <1>2 DEF HandleChange, Coherent, Aware, Advances
<1>3. CASE ~(~x.listening \/ x.isClosed \/ (x.state = "seeding" /\ x.seeded = version))
  <2> DEFINE O == x.outstanding \cup {a}
             H == x.halfRead \ {a}
             w == [x EXCEPT !.outstanding = O, !.halfRead = H]
  <2>1. HandleChange(x, a, r) = PrepareDataUpdate(w, r)
    BY <1>3 DEF HandleChange, Coherent, Subscriptions
  <2>2. x \in Subscriptions /\ O \in SUBSET Attrs /\ H \in SUBSET Attrs
    BY DEF Coherent, Subscriptions
  <2>. HIDE DEF O, H
  <2>3. w \in Subscriptions
    BY <2>2 DEF Subscriptions
  <2>4. /\ w.stale = x.stale /\ w.fresh = x.fresh /\ w.dropped = x.dropped /\ w.loop = x.loop
        /\ w.carried = x.carried /\ w.outstanding = O /\ w.halfRead = H
        /\ w.isTerminated = x.isTerminated
        /\ w.activated = x.activated /\ w.state = x.state /\ w.isClosed = x.isClosed
        /\ w.registered = x.registered /\ w.listening = x.listening /\ w.seeded = x.seeded
        /\ w.viaSession = x.viaSession /\ w.delay = x.delay /\ w.result = x.result
    BY <2>2 DEF Subscriptions
  <2>. HIDE DEF w
  <2>5. Coherent(w)
    BY <2>3, <2>4 DEF Coherent
  <2>6. Aware(w, M, version)
    BY <1>3, <2>4 DEF Aware, O, H, Without
  <2>. QED
    BY <2>1, <2>4, <2>5, <2>6, PrepareKeeps DEF Advances
<1>. QED
  BY <1>1, <1>2, <1>3

LEMMA ReadKeeps ==
    ASSUME NEW x, NEW N, NEW v \in 0 .. MaxChanges, Coherent(x), x.state = "seeding"
    PROVE  LET y == [x EXCEPT !.stale = {}, !.seeded = v] IN
           /\ Coherent(y) /\ Aware(y, N, v) /\ Advances(x, y)
           /\ y.isClosed = x.isClosed /\ y.viaSession = x.viaSession
<1> DEFINE y == [x EXCEPT !.stale = {}, !.seeded = v]
<1>1. x \in Subscriptions /\ v \in Unseeded .. MaxChanges
  BY SubscriptionAssumption DEF Coherent, Unseeded
<1>2. y \in Subscriptions
  BY <1>1 DEF Subscriptions
<1>3. ~x.registered
  BY DEF Coherent
<1>. QED
  BY <1>2, <1>3, SubscriptionAssumption DEF Coherent, Aware, Advances, Subscriptions

LEMMA SettleKeeps ==
    ASSUME NEW x, NEW N, NEW v \in Int, Coherent(x), Aware(x, N, v), x.loop = "settling"
    PROVE  LET y == [x EXCEPT !.loop = "none", !.viaSession = FALSE, !.place = "here"] IN
           /\ Coherent(y) /\ Aware(y, N, v) /\ Advances(x, y)
           /\ y.isClosed = x.isClosed /\ ~y.viaSession
<1> DEFINE y == [x EXCEPT !.loop = "none", !.viaSession = FALSE, !.place = "here"]
<1>1. x \in Subscriptions
  BY DEF Coherent
<1>2. y \in Subscriptions
  BY <1>1 DEF Subscriptions
<1>. QED
  BY <1>2 DEF Coherent, Aware, Advances, Subscriptions

\* sendInitialReport registers the change handlers.
LEMMA InitialKeeps ==
    ASSUME NEW x, NEW N, NEW v \in Int, Coherent(x), x.state = "new", ~x.isClosed
    PROVE  LET y == [x EXCEPT !.state = "seeding", !.listening = TRUE] IN
           /\ Coherent(y) /\ Aware(y, N, v) /\ ~y.registered /\ y.state = "seeding"
           /\ ~y.isClosed /\ y.viaSession = x.viaSession
<1> DEFINE y == [x EXCEPT !.state = "seeding", !.listening = TRUE]
<1>1. x \in Subscriptions
  BY DEF Coherent
<1>2. y \in Subscriptions
  BY <1>1 DEF Subscriptions
<1>. QED
  BY <1>2 DEF Coherent, Aware, Advances, Subscriptions

LEMMA TerminateKeeps ==
    ASSUME NEW x, NEW N, NEW v \in Int, Coherent(x), Aware(x, N, v)
    PROVE  LET y == [x EXCEPT !.isTerminated = ~x.isClosed] IN
           /\ Coherent(y) /\ Aware(y, N, v) /\ Advances(x, y)
           /\ y.isClosed = x.isClosed /\ y.viaSession = x.viaSession
<1> DEFINE b == ~x.isClosed
           y == [x EXCEPT !.isTerminated = b]
<1>1. x \in Subscriptions /\ b \in BOOLEAN
  BY DEF Coherent
<1>2. x.activated => b
  BY DEF Coherent
<1>. HIDE DEF b
<1>3. y \in Subscriptions
  BY <1>1 DEF Subscriptions
<1>. QED
  BY <1>2, <1>3 DEF Coherent, Aware, Advances, Subscriptions, b

\* activate(): what the initial report missed goes into the first update.
LEMMA ActivateKeeps ==
    ASSUME NEW x, NEW N, NEW v \in Int, NEW c \in BOOLEAN, Coherent(x), Aware(x, N, v),
           x.state = "seeding", x.seeded # Unseeded, ~x.isClosed
    PROVE  LET y == Activate(x, c) IN
           /\ Coherent(y) /\ Aware(y, N, v)
           /\ y.state = "established" /\ ~y.viaSession
           /\ c => y.isClosed /\ ~y.registered /\ y.loop = "none"
           /\ y.loop = "sending" /\ y.place = "here" => ~c
<1>1. /\ x \in Subscriptions /\ Unseeded \in Unseeded .. MaxChanges
      /\ 0 \in 0 .. MaxErrors + 1
  BY SubscriptionAssumption DEF Coherent, Unseeded
<1>2. /\ x.loop = "none" /\ x.carried = {} /\ x.fresh = {} /\ ~x.viaSession /\ x.listening
      /\ ~x.registered /\ ~x.delay /\ ~x.activated
  BY DEF Coherent, Subscriptions
<1>3. x.stale \subseteq x.outstanding \cup x.halfRead \cup N
  BY DEF Aware
<1>4. CASE c
  <2> DEFINE w == [x EXCEPT !.state = "established", !.isClosed = TRUE, !.seeded = Unseeded]
             y == Activate(x, c)
  <2>1. y = StopListening(w)
    BY <1>4 DEF Activate
  <2>2. w \in Subscriptions
    BY <1>1 DEF Subscriptions
  <2>3. /\ w.state = "established" /\ w.isClosed /\ w.seeded = Unseeded /\ w.loop = "none"
        /\ w.carried = {} /\ ~w.viaSession /\ ~w.registered /\ ~w.delay
    BY <1>1, <1>2 DEF Subscriptions
  <2>. HIDE DEF w, y
  <2>4. y = [w EXCEPT !.activated = FALSE, !.listening = FALSE, !.isTerminated = FALSE,
                      !.stale = {}, !.fresh = {}, !.dropped = {}, !.halfRead = {},
                    !.errors = 0]
    BY <2>1 DEF StopListening
  <2>5. 0 \in 0 .. MaxErrors + 1
    BY <1>1
  <2>6. y \in Subscriptions
    BY <2>2, <2>4, <2>5 DEF Subscriptions
  <2>7. /\ y.state = "established" /\ y.isClosed /\ y.seeded = Unseeded /\ y.loop = "none"
        /\ y.carried = {} /\ ~y.viaSession /\ ~y.registered /\ ~y.delay /\ y.fresh = {} /\ ~y.activated
    BY <2>2, <2>3, <2>4 DEF Subscriptions
  <2>8. Coherent(y) /\ Aware(y, N, v)
    BY <2>6, <2>7 DEF Coherent, Aware
  <2>. QED
    BY <2>7, <2>8 DEF y
<1>5. CASE ~c
  <2> DEFINE w == [x EXCEPT !.state = "established", !.registered = TRUE, !.activated = TRUE,
                            !.seeded = Unseeded]
             y == Activate(x, c)
  <2>1. y = IF x.outstanding # {} THEN Trigger(w, FALSE, FALSE, c) ELSE w
    BY <1>5 DEF Activate
  <2>2. w \in Subscriptions
    BY <1>1 DEF Subscriptions
  <2>3. /\ w.state = "established" /\ w.isClosed = x.isClosed /\ w.seeded = Unseeded
        /\ w.loop = "none" /\ w.carried = {} /\ ~w.viaSession /\ w.registered /\ ~w.delay
        /\ w.listening /\ w.activated /\ w.fresh = {} /\ w.stale = x.stale
        /\ w.outstanding = x.outstanding /\ w.halfRead = x.halfRead
    BY <1>1, <1>2 DEF Subscriptions
  <2>. HIDE DEF w, y
  <2>4. Coherent(w) /\ Aware(w, N, v)
    BY <1>3, <2>2, <2>3 DEF Coherent, Aware
  <2>5. CASE x.outstanding = {}
    BY <1>5, <2>1, <2>3, <2>4, <2>5 DEF y
  <2>6. CASE x.outstanding # {}
    <3> DEFINE o == FALSE
    <3>1. y = Trigger(w, o, o, c) /\ o \in BOOLEAN
      BY <2>1, <2>6
    <3>. HIDE DEF o
    <3>2. /\ Coherent(y) /\ Aware(y, N, v) /\ Advances(w, y)
          /\ y.viaSession => w.viaSession \/ (o /\ w.loop = "none")
      BY <2>3, <2>4, <3>1, TriggerKeeps
    <3>. QED
      BY <1>5, <2>3, <3>2 DEF Advances, y, o
  <2>. QED
    BY <2>5, <2>6
<1>. QED
  BY <1>4, <1>5

-----------------------------------------------------------------------------
(***************************************************************************)
(* What steps keep that leave the tasks that close the session alone.      *)
(***************************************************************************)

\* A task that closes the session, before or after the step, is where it was.
EngagedStay == \A q \in Tasks : Engaged(task[q]) \/ Engaged(task'[q]) => task'[q] = task[q]

\* The step leaves the fields alone that tell how far the close is.
SessionStays ==
    /\ session'.closing = session.closing
    /\ session'.deferredClose = session.deferredClose
    /\ session'.ended = session.ended

LEMMA TokenKeeps ==
    ASSUME TokenInv, EngagedStay, SessionStays,
           \A q \in Tasks : Shutting(task[q]) /\ Request(q) \in exchanges => Request(q) \in exchanges',
           Over => exchanges' \subseteq exchanges,
           session.deferredClose => exchanges' # {}
    PROVE  TokenInv'
<1>1. \A q \in Tasks : Engaged(task'[q]) => task'[q] = task[q] /\ Engaged(task[q])
  BY DEF EngagedStay
<1>2. \A q \in Tasks : Shutting(task'[q]) => task'[q] = task[q] /\ Shutting(task[q])
  BY <1>1 DEF EngagedStay, Engaged, Initiating
<1>3. \A q \in Tasks : Ending(task'[q]) => task'[q] = task[q] /\ Ending(task[q])
  BY <1>1 DEF EngagedStay, Engaged
<1>4. \A q \in Tasks : Shutting(task[q]) => Shutting(task'[q])
  BY DEF EngagedStay, Engaged, Initiating
<1>5. Over' <=> Over
  BY <1>2, <1>4 DEF Over, SessionStays
<1>6. Goodbyes \subseteq Goodbyes'
  BY DEF Goodbyes, EngagedStay, Engaged, Ending
<1>7. (session.deferredClose \/ session.ended => session.closing)'
  BY DEF TokenInv, SessionStays
<1>8. (session.deferredClose => ~session.ended /\ exchanges # {})'
  BY DEF TokenInv, SessionStays
<1>9. (\A p \in Tasks : Engaged(task[p]) => session.closing)'
  BY <1>1 DEF TokenInv, SessionStays
<1>10. (\A p, q \in Tasks : Engaged(task[p]) /\ Engaged(task[q]) => p = q \/ Beside(task[p], task[q]))'
  BY <1>1 DEF TokenInv
<1>11. (session.closing =>
          session.ended \/ session.deferredClose \/ \E p \in Tasks : Engaged(task[p]))'
  BY DEF TokenInv, EngagedStay, SessionStays
<1>12. (\A p \in Tasks : Shutting(task[p]) =>
          /\ session.deferredClose => task[p].at = "exchanges" /\ task[p].currentExchange # None
          /\ task[p].currentExchange # None =>
                task[p].currentExchange = Request(p) /\ Request(p) \in exchanges)'
  BY <1>2 DEF TokenInv, SessionStays
<1>13. (\A p \in Tasks : Ending(task[p]) => Over /\ task[p].then # "exchanges")'
  BY <1>3, <1>5 DEF TokenInv
<1>14. (session.ended => Over)'
  BY <1>5 DEF TokenInv, SessionStays
<1>15. (Over => exchanges \subseteq Goodbyes)'
  BY <1>5, <1>6 DEF TokenInv
<1>. QED
  BY <1>7, <1>8, <1>9, <1>10, <1>11, <1>12, <1>13, <1>14, <1>15 DEF TokenInv

Sweeping(t) == t.at \in {"subscriptions", "updating"} /\ t.part = "close"

LEMMA SweepKeeps ==
    ASSUME TokenInv, SweepInv, session'.ended = session.ended,
           \A q \in Tasks : Sweeping(task'[q]) => Sweeping(task[q]) /\ task'[q].todo = task[q].todo,
           session.closing => \A s \in Subs : sub'[s].registered /\ ~sub'[s].isClosed =>
                                              sub[s].registered /\ ~sub[s].isClosed
    PROVE  SweepInv'
<1>1. \A q \in Tasks : Sweeping(task[q]) => session.closing
  BY DEF TokenInv, Sweeping, Engaged, Ending
<1>2. session.ended => session.closing
  BY DEF TokenInv
<1>. QED
  BY <1>1, <1>2 DEF SweepInv, Sweeping

LEMMA FlushKeeps ==
    ASSUME RefsInv, FlushInv,
           \A q \in Tasks : task[q].at = "flushing" \/ task'[q].at = "flushing" => task'[q] = task[q],
           \A s \in Subs : sub'[s].viaSession => sub[s].viaSession,
           \A s \in Subs : sub[s].isClosed => sub'[s].isClosed
    PROVE  FlushInv'
<1>1. \A q \in Tasks : task'[q].at = "flushing" => task'[q] = task[q] /\ task[q].awaited \in Subs
  BY DEF RefsInv
<1>. QED
  BY <1>1 DEF FlushInv

LEMMA SeedKeeps ==
    ASSUME RefsInv, SeedInv, \A q \in Tasks : task'[q].at = "seeding" => task'[q] = task[q],
           \A s \in Subs : sub[s].state = "seeding" /\ ~sub[s].isClosed =>
                           sub'[s].state = "seeding" /\ ~sub'[s].isClosed
    PROVE  SeedInv'
<1>1. \A q \in Tasks : task'[q].at = "seeding" => task'[q] = task[q] /\ task[q].awaited \in Subs
  BY DEF RefsInv
<1>. QED
  BY <1>1 DEF SeedInv

LEMMA RequestKeeps ==
    ASSUME RequestInv, session.closing => session'.closing,
           \A q \in Requests : task'[q].at = "handling" =>
              task[q].at = "handling" /\ (Request(q) \in exchanges => Request(q) \in exchanges')
    PROVE  RequestInv'
BY DEF RequestInv

\* What RefsInv says of one task.
Refers(t, established) ==
    /\ t.at \in {"flushing", "updating", "seeding"} => t.awaited \in Subs
    /\ t.at = "flushing" => t.part = "shutdown"
    /\ t.at = "exchanges" => t.rest \subseteq Exchanges
    /\ t.todo \subseteq established
    /\ t.at \in {"handling", "cancel"} \/ t.part = "cancel" => t.rest \subseteq established

LEMMA RefsKeeps ==
    ASSUME RefsInv, \A s \in Subs : sub[s].state = "established" => sub'[s].state = "established",
           \A q \in Tasks : task'[q] = task[q] \/ Refers(task'[q], Established')
    PROVE  RefsInv'
<1>1. Established \subseteq Established'
  BY DEF Established
<1>2. ASSUME NEW q \in Tasks PROVE Refers(task'[q], Established')
  <2>1. Refers(task[q], Established)
    BY DEF RefsInv, Refers
  <2>. QED
    BY <1>1, <2>1 DEF Refers
<1>. QED
  BY <1>2 DEF RefsInv, Refers

-----------------------------------------------------------------------------
(***************************************************************************)
(* Steps of subscriptions.                                                 *)
(***************************************************************************)

\* What a step leaves of a subscription that neither primes, activates nor flushes it.
Evolves(x, y) ==
    /\ Advances(x, y)
    /\ y.viaSession => x.viaSession
    /\ x.state = "seeding" => y.isClosed = x.isClosed

Outer == RefsInv /\ SeedInv /\ TokenInv /\ RequestInv /\ FlushInv /\ SweepInv

\* Steps of subscriptions, and of tasks that do not close the session.
LEMMA BystanderKeeps ==
    ASSUME Outer, EngagedStay, SessionStays,
           \A s \in Subs : Evolves(sub[s], sub'[s]),
           \A q \in Tasks :
              /\ task'[q].at \in {"seeding", "handling"} => task'[q] = task[q]
              /\ task'[q] = task[q] \/ Refers(task'[q], Established'),
           \A q : Request(q) \in exchanges => Request(q) \in exchanges',
           Over => exchanges' \subseteq exchanges,
           session.deferredClose => exchanges' # {}
    PROVE  Outer'
<1>1. TokenInv'
  BY TokenKeeps DEF Outer
<1>2. SweepInv'
  <2>1. \A q \in Tasks : Sweeping(task'[q]) => Sweeping(task[q]) /\ task'[q].todo = task[q].todo
    BY DEF EngagedStay, Engaged, Ending, Sweeping
  <2>. QED
    BY <2>1, SweepKeeps DEF Outer, Evolves, Advances, SessionStays
<1>3. FlushInv'
  BY FlushKeeps DEF Outer, EngagedStay, Engaged, Initiating, Shutting, Evolves, Advances
<1>4. SeedInv'
  BY SeedKeeps DEF Outer, Evolves, Advances
<1>5. RequestInv'
  <2>1. Requests \subseteq Tasks
    BY DEF Tasks
  <2>. QED
    BY <2>1, RequestKeeps DEF Outer, SessionStays
<1>6. RefsInv'
  BY RefsKeeps DEF Outer, Evolves, Advances
<1>. QED
  BY <1>1, <1>2, <1>3, <1>4, <1>5, <1>6 DEF Outer

\* One subscription becomes y.
LEMMA OneSub ==
    ASSUME SubsInv, NEW s \in Subs, NEW y, sub' = [sub EXCEPT ![s] = y],
           UNCHANGED <<version, committing, pending>>, Coherent(y), Aware(y, Notices, version)
    PROVE  /\ SubsInv'
           /\ sub'[s] = y
           /\ \A u \in Subs : u # s => sub'[u] = sub[u]
<1>1. sub'[s] = y /\ \A u \in Subs : u # s => sub'[u] = sub[u]
  BY DEF SubsInv
<1>2. sub' \in [Subs -> Subscriptions]
  BY DEF SubsInv, Coherent
<1>3. Notices' = Notices
  BY DEF Notices
<1>4. \A u \in Subs : Coherent(sub'[u]) /\ Aware(sub'[u], Notices, version)
  BY <1>1 DEF SubsInv
<1>. QED
  BY <1>1, <1>2, <1>3, <1>4 DEF SubsInv, Unpublished

LEMMA VersionType == SubsInv => version \in Int
BY SubscriptionAssumption DEF SubsInv

\* Steps of one subscription during which nothing else changes.
LEMMA QuietSub ==
    ASSUME SubsInv, Outer, NEW s \in Subs, NEW y, sub' = [sub EXCEPT ![s] = y],
           UNCHANGED <<version, committing, pending, session, exchanges, task>>,
           Coherent(y), Aware(y, Notices, version), Evolves(sub[s], y)
    PROVE  SubsInv' /\ Outer'
<1>1. SubsInv' /\ sub'[s] = y /\ \A u \in Subs : u # s => sub'[u] = sub[u]
  BY OneSub
<1>2. \A u \in Subs : Evolves(sub[u], sub'[u])
  BY <1>1 DEF Evolves, Advances
<1>3. EngagedStay /\ SessionStays
  BY DEF EngagedStay, SessionStays
<1>4. session.deferredClose => exchanges' # {}
  BY DEF Outer, TokenInv
<1>5. Outer'
  BY <1>2, <1>3, <1>4, BystanderKeeps
<1>. QED
  BY <1>1, <1>5

\* Phase one of a commit, or its failure: no subscription knows.
LEMMA CommitStep ==
    ASSUME SubsInv, Outer, NEW a \in Attrs, Commit1(a) \/ Rollback(a),
           UNCHANGED <<session, exchanges, task>>
    PROVE  SubsInv' /\ Outer'
<1>1. sub' = sub /\ pending' = pending
  BY DEF Commit1, Rollback
<1>2. /\ version \in 0 .. MaxChanges /\ pending \in [Attrs -> 0 .. MaxChanges]
      /\ \A b \in Attrs : pending[b] + Unpublished(b) <= version
  BY DEF SubsInv
<1>3. Notices' = Notices
  BY <1>1 DEF Notices
<1>4. /\ version' \in 0 .. MaxChanges /\ committing' \subseteq Attrs
      /\ \A b \in Attrs : pending[b] + Unpublished(b)' <= version'
      /\ \A s \in Subs : Aware(sub[s], Notices, version')
  <2>1. CASE Commit1(a)
    <3>1. version < MaxChanges /\ version' = version + 1 /\ committing = {} /\ committing' = {a}
      BY <2>1 DEF Commit1
    <3>2. \A s \in Subs : Aware(sub[s], Notices, version + 1)
      BY VersionType, VersionKeeps DEF SubsInv
    <3>. QED
      BY <1>2, <3>1, <3>2, SubscriptionAssumption DEF Unpublished
  <2>2. CASE Rollback(a)
    BY <1>2, <2>2, SubscriptionAssumption DEF Rollback, Unpublished, SubsInv
  <2>. QED
    BY <2>1, <2>2
<1>5. SubsInv'
  BY <1>1, <1>2, <1>3, <1>4 DEF SubsInv
<1>6. \A s \in Subs : Evolves(sub[s], sub'[s])
  BY <1>1 DEF Evolves, Advances
<1>7. EngagedStay /\ SessionStays
  BY DEF EngagedStay, SessionStays
<1>8. session.deferredClose => exchanges' # {}
  BY DEF Outer, TokenInv
<1>9. Outer'
  BY <1>6, <1>7, <1>8, BystanderKeeps
<1>. QED
  BY <1>5, <1>9

\* Phase two publishes the change.
LEMMA PublishStep ==
    ASSUME SubsInv, Outer, NEW a \in Attrs, Commit2(a), UNCHANGED <<session, exchanges, task>>
    PROVE  SubsInv' /\ Outer'
<1> DEFINE N == Notices
           M == Notices'
<1>1. /\ version' = version /\ a \in committing /\ committing' = {}
      /\ pending' = [pending EXCEPT ![a] = @ + 1]
  BY DEF Commit2
<1>2. sub' = [s \in Subs |-> Changed(sub[s], a)]
  BY DEF Commit2, Changed
<1>3. /\ version \in 0 .. MaxChanges /\ pending \in [Attrs -> 0 .. MaxChanges]
      /\ \A b \in Attrs : pending[b] + Unpublished(b) <= version
  BY DEF SubsInv
<1>4. /\ version' \in 0 .. MaxChanges /\ committing' \subseteq Attrs
      /\ pending' \in [Attrs -> 0 .. MaxChanges]
      /\ \A b \in Attrs : pending'[b] + Unpublished(b)' <= version'
  BY <1>1, <1>3, SubscriptionAssumption DEF Unpublished
<1>5. With(N, M, a)
  BY <1>1, <1>3, SubscriptionAssumption DEF Notices, With
<1>. HIDE DEF N, M
<1>6. ASSUME NEW s \in Subs
      PROVE  Coherent(sub'[s]) /\ Aware(sub'[s], M, version') /\ Evolves(sub[s], sub'[s])
  <2> DEFINE x == sub[s]
             y == sub'[s]
  <2>1. y = Changed(x, a)
    BY <1>2
  <2>2. Coherent(x) /\ Aware(x, N, version)
    BY DEF SubsInv, N
  <2>3. version \in Int
    BY VersionType
  <2>. HIDE DEF x, y
  <2>4. /\ Coherent(y) /\ Aware(y, M, version) /\ Advances(x, y)
        /\ y.isClosed = x.isClosed /\ y.viaSession = x.viaSession
    BY <1>5, <2>1, <2>2, <2>3, ChangeKeeps
  <2>. QED
    BY <1>1, <2>4 DEF Evolves, x, y
<1>7. sub' \in [Subs -> Subscriptions]
  BY <1>2, <1>6 DEF Coherent
<1>8. SubsInv'
  BY <1>4, <1>6, <1>7 DEF SubsInv, M
<1>9. EngagedStay /\ SessionStays
  BY DEF EngagedStay, SessionStays
<1>10. session.deferredClose => exchanges' # {}
  BY DEF Outer, TokenInv
<1>11. Outer'
  BY <1>6, <1>9, <1>10, BystanderKeeps
<1>. QED
  BY <1>8, <1>11

\* The subscriptions are notified of one.
LEMMA NotifyStep ==
    ASSUME SubsInv, Outer, NEW a \in Attrs, Notify(a), UNCHANGED <<session, exchanges, task>>
    PROVE  SubsInv' /\ Outer'
<1> DEFINE N == Notices
           M == Notices'
<1>1. PICK recent \in SUBSET Subs : sub' = [s \in Subs |-> HandleChange(sub[s], a, s \in recent)]
  BY DEF Notify
<1>2. /\ version' = version /\ committing' = committing /\ pending[a] > 0
      /\ pending' = [pending EXCEPT ![a] = @ - 1]
  BY DEF Notify
<1>3. /\ version' \in 0 .. MaxChanges /\ committing' \subseteq Attrs
      /\ pending' \in [Attrs -> 0 .. MaxChanges]
      /\ \A b \in Attrs : pending'[b] + Unpublished(b)' <= version'
  BY <1>2, SubscriptionAssumption DEF SubsInv, Unpublished
<1>4. Without(N, M, a)
  BY <1>2, SubscriptionAssumption DEF Notices, SubsInv, Without
<1>. HIDE DEF N, M
<1>5. ASSUME NEW s \in Subs
      PROVE  Coherent(sub'[s]) /\ Aware(sub'[s], M, version) /\ Evolves(sub[s], sub'[s])
  <2> DEFINE x == sub[s]
             r == s \in recent
  <2>1. sub'[s] = HandleChange(x, a, r)
    BY <1>1
  <2>2. Coherent(x) /\ Aware(x, N, version)
    BY DEF SubsInv, N
  <2>3. version \in Int
    BY VersionType
  <2>4. r \in BOOLEAN
    OBVIOUS
  <2>. HIDE DEF x, r
  <2>5. LET y == HandleChange(x, a, r) IN
        /\ Coherent(y) /\ Aware(y, M, version) /\ Advances(x, y)
        /\ y.isClosed = x.isClosed /\ y.viaSession = x.viaSession
    BY <1>4, <2>2, <2>3, <2>4, HandleChangeKeeps
  <2>. QED
    BY <2>1, <2>5 DEF Evolves, x
<1>6. sub' \in [Subs -> Subscriptions]
  <2>1. \A s \in Subs : HandleChange(sub[s], a, s \in recent) \in Subscriptions
    BY <1>1, <1>5 DEF Coherent
  <2>. QED
    BY <1>1, <2>1
<1>7. SubsInv'
  BY <1>2, <1>3, <1>5, <1>6 DEF SubsInv, M
<1>8. EngagedStay /\ SessionStays
  BY DEF EngagedStay, SessionStays
<1>9. session.deferredClose => exchanges' # {}
  BY DEF Outer, TokenInv
<1>10. Outer'
  BY <1>5, <1>8, <1>9, BystanderKeeps
<1>. QED
  BY <1>7, <1>10

LEMMA ObserveStep ==
    ASSUME SubsInv, Outer, Observe
    PROVE  SubsInv' /\ Outer'
<1>1. UNCHANGED <<session, exchanges, task>>
  BY DEF Observe
<1>2. ASSUME NEW a \in Attrs, Commit1(a) \/ Commit2(a) \/ Rollback(a) \/ Notify(a)
      PROVE  SubsInv' /\ Outer'
  BY <1>1, <1>2, CommitStep, PublishStep, NotifyStep
<1>3. ASSUME NEW s \in Subs, ReadForReport(s) PROVE SubsInv' /\ Outer'
  <2> DEFINE x == sub[s]
             v == version
             y == [x EXCEPT !.stale = {}, !.seeded = v]
  <2>1. x.state = "seeding" /\ sub' = [sub EXCEPT ![s] = y] /\ UNCHANGED <<version, committing, pending>>
    BY <1>3 DEF ReadForReport, SubsInv, data
  <2>2. Coherent(x) /\ v \in 0 .. MaxChanges
    BY DEF SubsInv
  <2>. HIDE DEF x, v
  <2>3. /\ Coherent(y) /\ Aware(y, Notices, v) /\ Advances(x, y)
        /\ y.isClosed = x.isClosed /\ y.viaSession = x.viaSession
    BY <2>1, <2>2, ReadKeeps
  <2>. HIDE DEF y
  <2>4. Evolves(sub[s], y) /\ Aware(y, Notices, version)
    BY <2>3 DEF Evolves, x, v
  <2>. QED
    BY <1>1, <2>1, <2>3, <2>4, QuietSub
<1>4. ASSUME NEW s \in Subs, UpdateTimer(s) PROVE SubsInv' /\ Outer'
  <2> DEFINE x == sub[s]
             r == FALSE
             y == PrepareDataUpdate(x, r)
  <2>1. sub' = [sub EXCEPT ![s] = y] /\ UNCHANGED <<version, committing, pending>>
    BY <1>4 DEF UpdateTimer, SubsInv, data
  <2>2. Coherent(x) /\ Aware(x, Notices, version) /\ version \in Int /\ r \in BOOLEAN
    BY VersionType DEF SubsInv
  <2>. HIDE DEF x, r
  <2>3. /\ Coherent(y) /\ Aware(y, Notices, version) /\ Advances(x, y)
        /\ y.isClosed = x.isClosed /\ y.viaSession = x.viaSession
    BY <2>2, PrepareKeeps
  <2>. HIDE DEF y
  <2>4. Evolves(sub[s], y)
    BY <2>3 DEF Evolves, x
  <2>. QED
    BY <1>1, <2>1, <2>3, <2>4, QuietSub
<1>5. ASSUME NEW s \in Subs, Settle(s) PROVE SubsInv' /\ Outer'
  <2> DEFINE x == sub[s]
             y == [x EXCEPT !.loop = "none", !.viaSession = FALSE, !.place = "here"]
  <2>1. x.loop = "settling" /\ sub' = [sub EXCEPT ![s] = y] /\ UNCHANGED <<version, committing, pending>>
    BY <1>5 DEF Settle, SubsInv, data
  <2>2. Coherent(x) /\ Aware(x, Notices, version) /\ version \in Int
    BY VersionType DEF SubsInv
  <2>. HIDE DEF x
  <2>3. /\ Coherent(y) /\ Aware(y, Notices, version) /\ Advances(x, y)
        /\ y.isClosed = x.isClosed /\ ~y.viaSession
    BY <2>1, <2>2, SettleKeeps
  <2>. HIDE DEF y
  <2>4. Evolves(sub[s], y)
    BY <2>3 DEF Evolves, x
  <2>. QED
    BY <1>1, <2>1, <2>3, <2>4, QuietSub
<1>. QED
  BY <1>2, <1>3, <1>4, <1>5 DEF Observe, Collect

-----------------------------------------------------------------------------
(***************************************************************************)
(* Steps of the update loop.                                               *)
(***************************************************************************)

\* Once the session is shut down no report of it is under way or will begin.
LEMMA NoLateReports ==
    ASSUME Outer, Over
    PROVE  /\ session.closing /\ isClosing
           /\ \A s \in Subs : ~sub[s].viaSession
           /\ \A z : Report(z) \notin exchanges /\ Lingering(z) \notin exchanges
                       /\ Request(z) \notin exchanges
<1>1. session.closing /\ \A q \in Tasks : task[q].at # "flushing"
  BY DEF Over, Shutting
<1>2. \A s \in Subs : ~sub[s].viaSession
  BY <1>1 DEF Outer, FlushInv
<1>3. exchanges \subseteq Goodbyes
  BY DEF Outer, TokenInv
<1>4. \A z : Report(z) \notin exchanges /\ Lingering(z) \notin exchanges /\ Request(z) \notin exchanges
  BY <1>3 DEF Goodbyes, Report, Lingering, Request, Goodbye
<1>. QED
  BY <1>1, <1>2, <1>4 DEF isClosing

\* Subscription s becomes y, and the exchanges of its reports change.
LEMMA LoopKeeps ==
    ASSUME SubsInv, TypesInv, Outer, NEW s \in Subs, NEW y, sub' = [sub EXCEPT ![s] = y],
           UNCHANGED <<version, committing, pending, session>>,
           task' = task \/ (task[s].at \in {"idle", "closed"} /\ task' = [task EXCEPT ![s] = Idle]),
           Coherent(y), Aware(y, Notices, version), Evolves(sub[s], y),
           y.loop = "sending" /\ y.place = "here" => sub[s].viaSession \/ ~isClosing,
           NEW E, E \subseteq {Lingering(s)}, E # {} => Report(s) \in exchanges,
           NEW R, R \subseteq {Report(s)},
           exchanges' = (exchanges \ R) \cup Opened(s, y) \cup E,
           session.deferredClose => exchanges' # {}
    PROVE  SubsInv' /\ TypesInv' /\ Outer'
<1>1. SubsInv' /\ sub'[s] = y /\ \A u \in Subs : u # s => sub'[u] = sub[u]
  BY OneSub
<1>2. \A u \in Subs : Evolves(sub[u], sub'[u])
  BY <1>1 DEF Evolves, Advances
<1>3. s \in Tasks /\ task \in [Tasks -> TaskStates] /\ Idle \in TaskStates
  BY DEF Tasks, TypesInv, TaskStates, Idle
<1>4. \A q \in Tasks : task'[q] = task[q] \/ (task'[q] = Idle /\ task[q].at \in {"idle", "closed"})
  BY <1>3
<1>5. Idle.at = "idle" /\ Idle.part = "none" /\ Idle.todo = {}
  BY DEF Idle
<1>6. EngagedStay /\ SessionStays
  BY <1>4, <1>5 DEF EngagedStay, SessionStays, Engaged, Initiating, Shutting, Ending
<1>7. \A q \in Tasks : task'[q].at \in {"seeding", "handling"} => task'[q] = task[q]
  BY <1>4, <1>5
<1>8. \A q \in Tasks : task'[q] = task[q] \/ Refers(task'[q], Established')
  BY <1>4, <1>5 DEF Refers
<1>9. \A q : Request(q) \in exchanges => Request(q) \in exchanges'
  BY DEF Request, Report
<1>10. Over => exchanges' \subseteq exchanges
  <2>. SUFFICES ASSUME Over PROVE exchanges' \subseteq exchanges
    OBVIOUS
  <2>1. isClosing /\ ~sub[s].viaSession /\ Report(s) \notin exchanges
    BY NoLateReports
  <2>2. Opened(s, y) = {} /\ E = {}
    BY <2>1 DEF Opened
  <2>. QED
    BY <2>1, <2>2
<1>11. Outer'
  BY <1>2, <1>6, <1>7, <1>8, <1>9, <1>10, BystanderKeeps
<1>12. exchanges' \subseteq Exchanges
  BY DEF TypesInv, Exchanges, Opened
<1>13. task' \in [Tasks -> TaskStates]
  BY <1>3
<1>14. TypesInv'
  BY <1>12, <1>13 DEF TypesInv
<1>. QED
  BY <1>1, <1>11, <1>14

\* What the update loop does of itself, without a change of the tasks.
LEMMA UpdateStep ==
    ASSUME SubsInv, TypesInv, Outer, NEW s \in Subs,
           DelayTimer(s) \/ SendUpdateEnds(s) \/ NoSessionForUpdate(s) \/ LeaveExchangeOpen(s)
    PROVE  SubsInv' /\ TypesInv' /\ Outer'
<1> DEFINE x == sub[s]
           c == isClosing
           o == FALSE
           N == Notices
<1>1. Coherent(x) /\ Aware(x, N, version) /\ version \in Int /\ o \in BOOLEAN
  BY VersionType DEF SubsInv
<1>2. c \in BOOLEAN
  BY DEF TypesInv, isClosing
<1>3. session.deferredClose => exchanges # {}
  BY DEF Outer, TokenInv
<1>4. CASE DelayTimer(s)
  <2> DEFINE w == [x EXCEPT !.delay = FALSE]
             y == Trigger(w, o, o, c)
  <2>1. /\ x.delay /\ sub' = [sub EXCEPT ![s] = y]
        /\ exchanges' = exchanges \cup (IF w.loop = "none" THEN Opened(s, y) ELSE {})
        /\ UNCHANGED <<version, committing, pending, session, task>>
    BY <1>4 DEF DelayTimer, Becomes, data
  <2>2. w \in Subscriptions
    BY <1>1 DEF Coherent, Subscriptions
  <2>3. Coherent(w) /\ Aware(w, N, version) /\ Evolves(x, w) /\ w.state = "established"
          /\ w.viaSession = x.viaSession
    BY <1>1, <2>1, <2>2 DEF Coherent, Aware, Evolves, Advances, Subscriptions
  <2>. HIDE DEF w, c, o, N, x
  <2>4. /\ Coherent(y) /\ Aware(y, N, version) /\ Advances(w, y)
        /\ y.isClosed = w.isClosed
        /\ y.viaSession => w.viaSession \/ (o /\ w.loop = "none")
        /\ w.loop = "none" /\ y.loop = "sending" /\ y.place = "here" => o \/ ~c
        /\ w.loop # "none" => y.loop = w.loop /\ y.place = w.place
    BY <1>1, <1>2, <2>3, TriggerKeeps
  <2>. HIDE DEF y
  <2>5. Evolves(x, y) /\ ~o
    BY <2>3, <2>4 DEF Evolves, Advances, o
  <2>6. CASE w.loop = "none"
    <3>1. y.loop = "sending" /\ y.place = "here" => sub[s].viaSession \/ ~isClosing
      BY <2>4, <2>5, <2>6 DEF c
    <3> DEFINE R == {}
               E == {}
    <3>2. exchanges' = (exchanges \ R) \cup Opened(s, y) \cup E
      BY <2>1, <2>6
    <3>3. E \subseteq {Lingering(s)} /\ (E # {} => Report(s) \in exchanges) /\ R \subseteq {Report(s)}
      OBVIOUS
    <3>4. session.deferredClose => exchanges' # {}
      BY <1>3, <2>1
    <3>. HIDE DEF R, E
    <3>. QED
      BY <2>1, <2>4, <2>5, <3>1, <3>2, <3>3, <3>4, LoopKeeps DEF N, x
  <2>7. CASE w.loop # "none"
    <3>1. exchanges' = exchanges
      BY <2>1, <2>7
    <3>2. SubsInv' /\ Outer'
      BY <2>1, <2>4, <2>5, <3>1, QuietSub DEF N, x
    <3>. QED
      BY <2>1, <3>1, <3>2 DEF TypesInv
  <2>. QED
    BY <2>6, <2>7
<1>5. CASE SendUpdateEnds(s)
  <2>1. x.loop = "sending" /\ UNCHANGED <<version, committing, pending, session, exchanges, task>>
    BY <1>5 DEF SendUpdateEnds, data
  <2>2. PICK y : /\ sub' = [sub EXCEPT ![s] = y]
                 /\ \/ y = [Sent(x) EXCEPT !.loop = "closing"]
                    \/ y = [Refused(x) EXCEPT !.loop = "closing"]
                    \/ \E r \in {"unreachable", "other"} : y = [x EXCEPT !.loop = "closing", !.result = r]
    BY <1>5 DEF SendUpdateEnds
  <2>3. Coherent(y) /\ Aware(y, N, version) /\ Advances(x, y) /\ y.viaSession = x.viaSession
    <3>1. CASE y = [Sent(x) EXCEPT !.loop = "closing"]
      BY <1>1, <2>1, <3>1, SentKeeps
    <3>2. CASE y = [Refused(x) EXCEPT !.loop = "closing"]
      BY <1>1, <2>1, <3>2, RefusedKeeps
    <3>3. ASSUME NEW r \in {"unreachable", "other"}, y = [x EXCEPT !.loop = "closing", !.result = r]
          PROVE  Coherent(y) /\ Aware(y, N, version) /\ Advances(x, y) /\ y.viaSession = x.viaSession
      BY <1>1, <2>1, <3>3, FailedKeeps
    <3>. QED
      BY <2>2, <3>1, <3>2, <3>3
  <2>4. x.state # "seeding"
    BY <1>1, <2>1 DEF Coherent
  <2>5. Evolves(x, y)
    BY <2>3, <2>4 DEF Evolves
  <2>6. SubsInv' /\ Outer'
    BY <2>1, <2>2, <2>3, <2>5, QuietSub
  <2>. QED
    BY <2>1, <2>6 DEF TypesInv
<1>6. CASE NoSessionForUpdate(s)
  <2> DEFINE w == [x EXCEPT !.result = "unreachable"]
             y == AfterSend(w, c)
  <2>1. /\ x.loop = "sending" /\ sub' = [sub EXCEPT ![s] = y]
        /\ exchanges' = exchanges \cup Opened(s, y)
        /\ UNCHANGED <<version, committing, pending, session, task>>
    BY <1>6 DEF NoSessionForUpdate, Becomes, data
  <2>2. w \in Subscriptions
    BY <1>1 DEF Coherent, Subscriptions
  <2>3. /\ Coherent(w) /\ Aware(w, N, version) /\ Advances(x, w) /\ w.viaSession = x.viaSession
        /\ w.loop # "none" /\ w.result # "sent" /\ x.state # "seeding"
    BY <1>1, <2>1, <2>2 DEF Coherent, Aware, Advances, Subscriptions
  <2>. HIDE DEF w, c, N, x
  <2>4. /\ Coherent(y) /\ Aware(y, N, version) /\ Advances(w, y)
        /\ y.viaSession => w.viaSession
        /\ y.loop = "sending" /\ y.place = "here" => w.viaSession \/ ~c
    BY <1>1, <1>2, <2>3, AfterSendKeeps
  <2>. HIDE DEF y
  <2>5. Evolves(x, y)
    BY <2>3, <2>4 DEF Evolves, Advances
  <2> DEFINE R == {}
             E == {}
  <2>6. exchanges' = (exchanges \ R) \cup Opened(s, y) \cup E
    BY <2>1
  <2>7. E \subseteq {Lingering(s)} /\ (E # {} => Report(s) \in exchanges) /\ R \subseteq {Report(s)}
    OBVIOUS
  <2>8. session.deferredClose => exchanges' # {}
    BY <1>3, <2>1
  <2>. HIDE DEF R, E
  <2>9. y.loop = "sending" /\ y.place = "here" => sub[s].viaSession \/ ~isClosing
    BY <2>3, <2>4 DEF c, x
  <2>. QED
    BY <2>1, <2>4, <2>5, <2>6, <2>7, <2>8, <2>9, LoopKeeps DEF N, x
<1>7. CASE LeaveExchangeOpen(s)
  <2> DEFINE y == AfterSend(x, c)
             R == {Report(s)}
             E == {Lingering(s)}
  <2>1. /\ x.loop = "closing" /\ sub' = [sub EXCEPT ![s] = y]
        /\ Report(s) \in exchanges
        /\ exchanges' = (exchanges \ R) \cup Opened(s, y) \cup E
        /\ UNCHANGED <<version, committing, pending, session, task>>
    BY <1>7 DEF LeaveExchangeOpen, data
  <2>2. x.loop # "none" /\ x.state # "seeding"
    BY <1>1, <2>1 DEF Coherent
  <2>3. session.deferredClose => exchanges' # {}
    BY <2>1
  <2>4. E \subseteq {Lingering(s)} /\ (E # {} => Report(s) \in exchanges) /\ R \subseteq {Report(s)}
    BY <2>1
  <2>. HIDE DEF c, N, x, R, E
  <2>5. /\ Coherent(y) /\ Aware(y, N, version) /\ Advances(x, y)
        /\ y.viaSession => x.viaSession
        /\ y.loop = "sending" /\ y.place = "here" => x.viaSession \/ ~c
    BY <1>1, <1>2, <2>1, <2>2, AfterSendKeeps
  <2>. HIDE DEF y
  <2>6. Evolves(x, y)
    BY <2>2, <2>5 DEF Evolves
  <2>7. y.loop = "sending" /\ y.place = "here" => sub[s].viaSession \/ ~isClosing
    BY <2>5 DEF c, x
  <2>. QED
    BY <2>1, <2>3, <2>4, <2>5, <2>6, <2>7, LoopKeeps DEF N, x
<1>. QED
  BY <1>4, <1>5, <1>6, <1>7

-----------------------------------------------------------------------------
(***************************************************************************)
(* Closing an exchange.                                                    *)
(***************************************************************************)

\* Whoever closes the last exchange of a deferred close goes on to end the session.
LEMMA EndKeeps ==
    ASSUME TypesInv, Outer, NEW p \in Tasks, NEW t \in TaskStates, NEW x,
           EndsSession(x), CloseExchange(p, x, t),
           ~Engaged(task[p]), t.at \in {"idle", "closed", "subscriptions"},
           Refers(t, Established'),
           \A s \in Subs : Evolves(sub[s], sub'[s]),
           \A q \in Tasks : Shutting(task[q]) => x # Request(q)
    PROVE  TypesInv' /\ Outer'
<1> DEFINE u == [t EXCEPT !.at = "rollover", !.then = t.at]
<1>1. /\ session.deferredClose /\ exchanges = {x} /\ exchanges' = {}
      /\ session' = [session EXCEPT !.deferredClose = FALSE]
      /\ task' = [task EXCEPT ![p] = u]
  BY DEF EndsSession, CloseExchange, TypesInv
<1>2. u \in TaskStates
  <2> DEFINE l == t.at
  <2>1. l \in {"idle", "done", "closed", "subscriptions", "exchanges"}
    OBVIOUS
  <2>. HIDE DEF l
  <2>2. [t EXCEPT !.at = "rollover", !.then = l] \in TaskStates
    BY <2>1 DEF TaskStates
  <2>. QED
    BY <2>2 DEF l
<1>3. /\ u.at = "rollover" /\ u.awaited = t.awaited /\ u.then = t.at /\ u.todo = t.todo
       /\ u.part = t.part /\ u.rest = t.rest
  BY DEF TaskStates
<1>. HIDE DEF u
<1>4. \A q \in Tasks : task'[q] = IF q = p THEN u ELSE task[q]
  BY <1>1 DEF TypesInv
<1>5. \A q \in Tasks : ~Shutting(task[q]) /\ ~Ending(task[q])
  BY <1>1 DEF Outer, TokenInv, Over
<1>6. session.closing /\ ~session.ended
  BY <1>1 DEF Outer, TokenInv
<1>7. session'.closing /\ ~session'.deferredClose /\ ~session'.ended /\ session'.ended = session.ended
  BY <1>1, <1>6 DEF TypesInv
<1>8. TypesInv'
  BY <1>1, <1>2, <1>3 DEF TypesInv
<1>9. Ending(u) /\ Engaged(u) /\ ~Initiating(u)
  BY <1>2, <1>3 DEF Engaged, Initiating, Ending, Shutting
<1>10. \A q \in Tasks : /\ ~Shutting(task'[q])
                        /\ Ending(task'[q]) => q = p
                        /\ q # p => task'[q] = task[q] /\ ~Ending(task'[q])
  BY <1>4, <1>5, <1>9 DEF Initiating
<1>11. TokenInv'
  <2>1. Over' /\ exchanges' = {} /\ Engaged(task'[p])
    BY <1>1, <1>4, <1>7, <1>9, <1>10 DEF Over
  <2>2. u.then # "exchanges" /\ u.then # "done"
    BY <1>3
  <2>3. \A q, r \in Tasks : Engaged(task'[q]) /\ Engaged(task'[r]) =>
                              q = r \/ Beside(task'[q], task'[r])
    <3>1. \A q, r \in Tasks : Initiating(task[q]) /\ Initiating(task[r]) => q = r
      BY DEF Outer, TokenInv, Engaged, Beside
    <3>2. \A q \in Tasks : q # p /\ Engaged(task'[q]) => Initiating(task[q]) /\ task'[q] = task[q]
      BY <1>10 DEF Engaged
    <3>. QED
      BY <1>4, <1>9, <1>10, <2>2, <3>1, <3>2 DEF Beside
  <2>4. \A q \in Tasks : Ending(task'[q]) => task'[q].then # "exchanges"
    BY <1>4, <1>10, <2>2
  <2>. QED
    BY <1>7, <1>10, <2>1, <2>3, <2>4 DEF TokenInv
<1>12. SweepInv'
  <2>1. \A q \in Tasks : ~Sweeping(task'[q])
    BY <1>2, <1>3, <1>4, <1>5 DEF Sweeping, Ending
  <2>. QED
    BY <1>6, <1>7, <2>1, SweepKeeps DEF Outer, Evolves, Advances
<1>13. FlushInv'
  <2>1. \A q \in Tasks : task[q].at # "flushing" /\ task'[q].at # "flushing"
    BY <1>2, <1>3, <1>4, <1>5 DEF Shutting
  <2>. QED
    BY <2>1, FlushKeeps DEF Outer, Evolves, Advances
<1>14. SeedInv'
  <2>1. \A q \in Tasks : task'[q].at = "seeding" => task'[q] = task[q]
    BY <1>2, <1>3, <1>4
  <2>. QED
    BY <2>1, SeedKeeps DEF Outer, Evolves, Advances
<1>15. RequestInv'
  BY <1>7 DEF RequestInv
<1>16. RefsInv'
  <2>1. Refers(u, Established')
    BY <1>2, <1>3 DEF Refers
  <2>. QED
    BY <1>4, <2>1, RefsKeeps DEF Outer, Evolves, Advances
<1>. QED
  BY <1>8, <1>11, <1>12, <1>13, <1>14, <1>15, <1>16 DEF Outer

\* A task that does not close the session closes an exchange.
LEMMA CloseExchangeKeeps ==
    ASSUME TypesInv, Outer, NEW p \in Tasks, NEW t \in TaskStates, NEW x,
           CloseExchange(p, x, t),
           ~Engaged(task[p]), ~Engaged(t), t.at \in {"idle", "closed", "subscriptions"},
           Refers(t, Established'),
           \A s \in Subs : Evolves(sub[s], sub'[s]),
           \A q \in Tasks : q # p => x # Request(q)
    PROVE  TypesInv' /\ Outer'
<1>1. \A q \in Tasks : Shutting(task[q]) => q # p
  BY DEF Engaged, Initiating
<1>2. CASE EndsSession(x)
  BY <1>1, <1>2, EndKeeps
<1>3. CASE ~EndsSession(x)
  <2>1. /\ exchanges' = exchanges \ {x} /\ session' = session
        /\ task' = [task EXCEPT ![p] = t]
    BY <1>3 DEF CloseExchange, TypesInv
  <2>2. \A q \in Tasks : task'[q] = IF q = p THEN t ELSE task[q]
    BY <2>1 DEF TypesInv
  <2>3. EngagedStay /\ SessionStays
    BY <2>1, <2>2 DEF EngagedStay, SessionStays
  <2>4. session.deferredClose => exchanges' # {}
    BY <1>3, <2>1 DEF Outer, TokenInv, EndsSession
  <2>5. Over => exchanges' \subseteq exchanges
    BY <2>1
  <2>6. TokenInv'
    BY <1>1, <2>1, <2>3, <2>4, <2>5, TokenKeeps DEF Outer
  <2>7. SweepInv'
    <3>1. \A q \in Tasks : Sweeping(task'[q]) => Sweeping(task[q]) /\ task'[q].todo = task[q].todo
      BY <2>3 DEF EngagedStay, Engaged, Ending, Sweeping
    <3>. QED
      BY <2>1, <3>1, SweepKeeps DEF Outer, Evolves, Advances
  <2>8. FlushInv'
    BY <2>3, FlushKeeps DEF Outer, EngagedStay, Engaged, Initiating, Shutting, Evolves, Advances
  <2>9. SeedInv'
    BY <2>2, SeedKeeps DEF Outer, Evolves, Advances
  <2>10. RequestInv'
    <3>1. Requests \subseteq Tasks
      BY DEF Tasks
    <3>2. \A q \in Requests : task'[q].at = "handling" => q # p /\ task'[q] = task[q]
      BY <2>2, <3>1
    <3>. QED
      BY <2>1, <3>1, <3>2, RequestKeeps DEF Outer
  <2>11. RefsInv'
    BY <2>2, RefsKeeps DEF Outer, Evolves, Advances
  <2>12. TypesInv'
    BY <2>1 DEF TypesInv
  <2>. QED
    BY <2>6, <2>7, <2>8, <2>9, <2>10, <2>11, <2>12 DEF Outer
<1>. QED
  BY <1>2, <1>3

\* Subscriptions that are registered are established.
LEMMA RegisteredEstablished == SubsInv => Registered \subseteq Established
BY DEF SubsInv, Coherent, Registered, Established

LEMMA TaskFacts ==
    /\ Subs \subseteq Tasks /\ Callers \subseteq Tasks /\ Requests \subseteq Tasks
    /\ \A s \in Subs : Worker(s) \in Tasks
    /\ Idle \in TaskStates /\ Idle.at = "idle" /\ Idle.part = "none" /\ Idle.todo = {}
    /\ Idle.kind = "none" /\ Idle.currentExchange = None /\ Idle.rest = {}
    /\ ~Engaged(Idle)
BY DEF Tasks, Idle, TaskStates, Engaged, Initiating, Shutting, Ending

\* messenger.close(), by the update loop.
LEMMA CloseMessengerStep ==
    ASSUME SubsInv, TypesInv, Outer, NEW s \in Subs, CloseMessenger(s)
    PROVE  SubsInv' /\ TypesInv' /\ Outer'
<1>1. /\ sub[s].loop = "closing" /\ task[s].at \in {"idle", "closed"}
      /\ UNCHANGED <<version, committing, pending>> /\ s \in Tasks
  BY TaskFacts DEF CloseMessenger, data
<1>2. CASE EndsSession(Report(s))
  <2> DEFINE t == [Idle EXCEPT !.at = "closed"]
  <2>1. CloseExchange(s, Report(s), t) /\ sub' = sub
    BY <1>2 DEF CloseMessenger
  <2>2. t \in TaskStates /\ t.at = "closed" /\ t.part = "none" /\ t.todo = {}
    BY DEF Idle, TaskStates
  <2>. HIDE DEF t
  <2>3. ~Engaged(task[s]) /\ ~Engaged(t)
    BY <1>1, <2>2 DEF Engaged, Initiating, Shutting, Ending
  <2>4. Refers(t, Established')
    BY <2>2 DEF Refers
  <2>5. \A u \in Subs : Evolves(sub[u], sub'[u])
    BY <2>1 DEF Evolves, Advances
  <2>6. \A q : Report(s) # Goodbye(q) /\ Report(s) # Request(q)
    BY DEF Report, Goodbye, Request
  <2>7. TypesInv' /\ Outer'
    BY <1>1, <2>1, <2>2, <2>3, <2>4, <2>5, <2>6, CloseExchangeKeeps
  <2>8. SubsInv'
    BY <1>1, <2>1 DEF SubsInv, Notices, Unpublished
  <2>. QED
    BY <2>7, <2>8
<1>3. CASE ~EndsSession(Report(s))
  <2> DEFINE x == sub[s]
             c == isClosing
             N == Notices
             y == AfterSend(x, c)
             R == {Report(s)}
             E == {}
  <2>1. /\ sub' = [sub EXCEPT ![s] = y]
        /\ exchanges' = (exchanges \ R) \cup Opened(s, y) \cup E
        /\ task' = [task EXCEPT ![s] = Idle]
        /\ UNCHANGED session
    BY <1>3 DEF CloseMessenger, MessengerClosed
  <2>2. Coherent(x) /\ Aware(x, N, version) /\ version \in Int
    BY VersionType DEF SubsInv
  <2>3. c \in BOOLEAN
    BY DEF TypesInv, isClosing
  <2>4. x.loop = "closing" /\ x.loop # "none" /\ x.state # "seeding"
    BY <1>1, <2>2 DEF Coherent
  <2>5. session.deferredClose => exchanges' # {}
    BY <1>3, <2>1 DEF Outer, TokenInv, EndsSession
  <2>6. E \subseteq {Lingering(s)} /\ (E # {} => Report(s) \in exchanges) /\ R \subseteq {Report(s)}
    OBVIOUS
  <2>. HIDE DEF c, N, x, R, E
  <2>7. /\ Coherent(y) /\ Aware(y, N, version) /\ Advances(x, y)
        /\ y.viaSession => x.viaSession
        /\ y.loop = "sending" /\ y.place = "here" => x.viaSession \/ ~c
    BY <2>2, <2>3, <2>4, AfterSendKeeps
  <2>. HIDE DEF y
  <2>8. Evolves(x, y)
    BY <2>4, <2>7 DEF Evolves
  <2>9. y.loop = "sending" /\ y.place = "here" => sub[s].viaSession \/ ~isClosing
    BY <2>7 DEF c, x
  <2>. QED
    BY <1>1, <2>1, <2>5, <2>6, <2>7, <2>8, <2>9, LoopKeeps DEF N, x
<1>. QED
  BY <1>2, <1>3

LEMMA CloseTimerStep ==
    ASSUME SubsInv, TypesInv, Outer, NEW s \in Subs, CloseTimer(s)
    PROVE  SubsInv' /\ TypesInv' /\ Outer'
<1> DEFINE p == Worker(s)
           t == Idle
           x == Lingering(s)
<1>1. task[p] = Idle /\ CloseExchange(p, x, t) /\ UNCHANGED <<sub, version, committing, pending>>
  BY DEF CloseTimer, data
<1>2. /\ p \in Tasks /\ t \in TaskStates /\ t.at = "idle" /\ ~Engaged(task[p]) /\ ~Engaged(t)
      /\ t.part = "none" /\ t.todo = {}
  BY <1>1, TaskFacts
<1>3. \A q : x # Goodbye(q) /\ x # Request(q)
  BY DEF Lingering, Goodbye, Request
<1>4. \A u \in Subs : Evolves(sub[u], sub'[u])
  BY <1>1 DEF Evolves, Advances
<1>. HIDE DEF p, t, x
<1>5. Refers(t, Established')
  BY <1>2 DEF Refers
<1>6. TypesInv' /\ Outer'
  BY <1>1, <1>2, <1>3, <1>4, <1>5, CloseExchangeKeeps
<1>7. SubsInv'
  BY <1>1 DEF SubsInv, Notices, Unpublished
<1>. QED
  BY <1>6, <1>7

LEMMA FinishRequestStep ==
    ASSUME SubsInv, TypesInv, Outer, NEW q \in Requests, FinishRequest(q)
    PROVE  SubsInv' /\ TypesInv' /\ Outer'
<1> DEFINE t == Idle
           x == Request(q)
<1>1. /\ task[q].at \in {"handling", "cancel", "done"} \/ (task[q].at = "subscriptions" /\ task[q].part = "cancel")
      /\ CloseExchange(q, x, t) /\ UNCHANGED <<sub, version, committing, pending>>
  BY DEF FinishRequest, Cancelled, AllClosed, data
<1>2. /\ q \in Tasks /\ t \in TaskStates /\ t.at = "idle" /\ ~Engaged(t)
      /\ t.part = "none" /\ t.todo = {}
  BY TaskFacts
<1>3. ~Engaged(task[q])
  BY <1>1 DEF Engaged, Initiating, Shutting, Ending
<1>4. (\A p : x # Goodbye(p)) /\ \A p : p # q => x # Request(p)
  BY DEF Goodbye, Request
<1>5. \A u \in Subs : Evolves(sub[u], sub'[u])
  BY <1>1 DEF Evolves, Advances
<1>. HIDE DEF t, x
<1>6. Refers(t, Established')
  BY <1>2 DEF Refers
<1>7. TypesInv' /\ Outer'
  BY <1>1, <1>2, <1>3, <1>4, <1>5, <1>6, CloseExchangeKeeps
<1>8. SubsInv'
  BY <1>1 DEF SubsInv, Notices, Unpublished
<1>. QED
  BY <1>7, <1>8

\* A subscription is cancelled, and its report's exchange closed.
LEMMA HandlePeerCancelStep ==
    ASSUME SubsInv, TypesInv, Outer, NEW q \in Requests, HandlePeerCancel(q)
    PROVE  SubsInv' /\ TypesInv' /\ Outer'
<1> DEFINE k == task[q]
<1>1. /\ k.at = "cancel" \/ (k.at = "subscriptions" /\ k.part = "cancel")
      /\ UNCHANGED <<version, committing, pending>> /\ q \in Tasks
  BY TaskFacts DEF HandlePeerCancel, AllClosed, data
<1>2. k \in TaskStates /\ k.rest \subseteq Established
  BY <1>1 DEF TypesInv, Outer, RefsInv
<1>3. PICK s \in Registered \ k.rest :
         /\ sub' = [sub EXCEPT ![s].isTerminated = ~sub[s].isClosed]
         /\ CloseExchange(q, Report(s), [k EXCEPT !.at = "subscriptions", !.part = "cancel",
                                                  !.todo = {s}, !.rest = @ \cup {s}])
  BY DEF HandlePeerCancel
<1> DEFINE T == {s}
           B == k.rest \cup {s}
           t == [k EXCEPT !.at = "subscriptions", !.part = "cancel", !.todo = T, !.rest = B]
           x == sub[s]
           y == [x EXCEPT !.isTerminated = ~x.isClosed]
<1>4. s \in Subs /\ T \subseteq Subs /\ T \subseteq Established /\ B \subseteq Established
        /\ B \subseteq Exchanges \cup Subs
  BY <1>2, <1>3, RegisteredEstablished DEF Established
<1>5. CloseExchange(q, Report(s), t)
  BY <1>2, <1>3 DEF TaskStates
<1>. HIDE DEF T, B, k
<1>6. t \in TaskStates
  BY <1>2, <1>4 DEF TaskStates
<1>7. t.at = "subscriptions" /\ t.part = "cancel" /\ t.todo = T /\ t.rest = B
  BY <1>2 DEF TaskStates
<1>. HIDE DEF t
<1>8. sub' = [sub EXCEPT ![s] = y]
  BY <1>3, <1>4 DEF SubsInv
<1>9. Coherent(x) /\ Aware(x, Notices, version) /\ version \in Int
  BY <1>4, VersionType DEF SubsInv
<1>. HIDE DEF x
<1>10. /\ Coherent(y) /\ Aware(y, Notices, version) /\ Advances(x, y)
       /\ y.isClosed = x.isClosed /\ y.viaSession = x.viaSession
  BY <1>9, TerminateKeeps
<1>. HIDE DEF y
<1>11. SubsInv' /\ sub'[s] = y /\ \A u \in Subs : u # s => sub'[u] = sub[u]
  BY <1>1, <1>4, <1>8, <1>10, OneSub
<1>12. \A u \in Subs : Evolves(sub[u], sub'[u])
  BY <1>10, <1>11 DEF Evolves, Advances, x
<1>13. Established \subseteq Established'
  BY <1>12 DEF Established, Evolves, Advances
<1>14. Refers(t, Established')
  BY <1>4, <1>7, <1>13 DEF Refers
<1>15. ~Engaged(task[q]) /\ ~Engaged(t)
  BY <1>1, <1>7 DEF Engaged, Initiating, Shutting, Ending, k
<1>16. \A p : Report(s) # Goodbye(p) /\ Report(s) # Request(p)
  BY DEF Report, Goodbye, Request
<1>17. TypesInv' /\ Outer'
  BY <1>1, <1>5, <1>6, <1>7, <1>12, <1>14, <1>15, <1>16, CloseExchangeKeeps
<1>. QED
  BY <1>11, <1>17

-----------------------------------------------------------------------------
(***************************************************************************)
(* Steps of requests.                                                      *)
(***************************************************************************)

LEMMA IsClosing == TypesInv /\ Outer => (isClosing <=> session.closing) /\ isClosing \in BOOLEAN
BY DEF TypesInv, Outer, TokenInv, isClosing

LEMMA SubsUnchanged == SubsInv /\ UNCHANGED <<sub, version, committing, pending>> => SubsInv'
BY DEF SubsInv, Notices, Unpublished

LEMMA OpenRequestStep ==
    ASSUME SubsInv, TypesInv, Outer, NEW q \in Requests, OpenRequest(q)
    PROVE  SubsInv' /\ TypesInv' /\ Outer'
<1> DEFINE t == [Idle EXCEPT !.at = "handling"]
<1>1. /\ task[q].at = "idle" /\ ~isClosing /\ exchanges' = exchanges \cup {Request(q)}
      /\ task' = [task EXCEPT ![q] = t]
      /\ UNCHANGED <<sub, version, committing, pending, session>> /\ q \in Tasks
  BY TaskFacts DEF OpenRequest, data
<1>2. t \in TaskStates /\ t.at = "handling" /\ t.todo = {} /\ t.part = "none" /\ t.rest = {}
  BY DEF Idle, TaskStates
<1>. HIDE DEF t
<1>3. \A p \in Tasks : task'[p] = IF p = q THEN t ELSE task[p]
  BY <1>1 DEF TypesInv
<1>4. ~session.closing
  BY <1>1 DEF isClosing
<1>5. ~Engaged(task[q]) /\ ~Engaged(t)
  BY <1>1, <1>2 DEF Engaged, Initiating, Shutting, Ending
<1>6. EngagedStay /\ SessionStays
  BY <1>1, <1>3, <1>5 DEF EngagedStay, SessionStays
<1>7. TokenInv'
  <2>1. ~Over
    BY <1>4 DEF Over
  <2>. QED
    BY <1>1, <1>6, <2>1, TokenKeeps DEF Outer
<1>8. SweepInv'
  <2>1. \A p \in Tasks : Sweeping(task'[p]) => Sweeping(task[p]) /\ task'[p].todo = task[p].todo
    BY <1>6 DEF EngagedStay, Engaged, Ending, Sweeping
  <2>. QED
    BY <1>1, <2>1, SweepKeeps DEF Outer
<1>9. FlushInv'
  BY <1>1, <1>6, FlushKeeps DEF Outer, EngagedStay, Engaged, Initiating, Shutting
<1>10. SeedInv'
  BY <1>1, <1>2, <1>3, SeedKeeps DEF Outer
<1>11. RequestInv'
  BY <1>1, <1>3, TaskFacts DEF Outer, RequestInv
<1>12. RefsInv'
  <2>1. Refers(t, Established')
    BY <1>2 DEF Refers
  <2>. QED
    BY <1>1, <1>3, <2>1, RefsKeeps DEF Outer
<1>13. TypesInv'
  BY <1>1, <1>2 DEF TypesInv, Exchanges
<1>. QED
  BY <1>1, <1>7, <1>8, <1>9, <1>10, <1>11, <1>12, <1>13, SubsUnchanged DEF Outer

\* Task p becomes t, and neither closes the session.
LEMMA OneTask ==
    ASSUME SubsInv, TypesInv, Outer, NEW p \in Tasks, NEW t \in TaskStates,
           task' = [task EXCEPT ![p] = t], ~Engaged(task[p]), ~Engaged(t),
           t.at \notin {"seeding", "handling"}, Refers(t, Established),
           session' \in [closing : BOOLEAN, deferredClose : BOOLEAN, isPeerLost : BOOLEAN,
                         ended : BOOLEAN],
           SessionStays, UNCHANGED <<sub, version, committing, pending, exchanges>>
    PROVE  SubsInv' /\ TypesInv' /\ Outer'
<1>1. \A q \in Tasks : task'[q] = IF q = p THEN t ELSE task[q]
  BY DEF TypesInv
<1>2. EngagedStay
  BY <1>1 DEF EngagedStay
<1>3. \A s \in Subs : Evolves(sub[s], sub'[s])
  BY DEF Evolves, Advances
<1>4. Established' = Established
  BY DEF Established
<1>5. session.deferredClose => exchanges' # {}
  BY DEF Outer, TokenInv
<1>6. Outer'
  BY <1>1, <1>2, <1>3, <1>4, <1>5, BystanderKeeps
<1>7. TypesInv'
  BY DEF TypesInv
<1>. QED
  BY <1>6, <1>7, SubsUnchanged

LEMMA FabricDeletedStep ==
    ASSUME SubsInv, TypesInv, Outer, NEW q \in Requests, FabricDeleted(q)
    PROVE  SubsInv' /\ TypesInv' /\ Outer'
<1> DEFINE k == task[q]
           t == [k EXCEPT !.kind = "force"]
<1>1. /\ k.at = "done" /\ session' = [session EXCEPT !.isPeerLost = TRUE]
      /\ task' = [task EXCEPT ![q] = t]
      /\ UNCHANGED <<sub, version, committing, pending, exchanges>> /\ q \in Tasks
  BY TaskFacts DEF FabricDeleted, TypesInv, data
<1>2. k \in TaskStates /\ Refers(k, Established)
  BY <1>1 DEF TypesInv, Outer, RefsInv, Refers
<1>3. ~Engaged(task[q])
  BY <1>1 DEF Engaged, Initiating, Shutting, Ending
<1>. HIDE DEF k
<1>4. t \in TaskStates
  BY <1>2 DEF TaskStates
<1>5. /\ t.at = k.at /\ t.part = k.part /\ t.todo = k.todo /\ t.rest = k.rest
      /\ t.awaited = k.awaited
  BY <1>2 DEF TaskStates
<1>. HIDE DEF t
<1>6. ~Engaged(t) /\ t.at \notin {"seeding", "handling"} /\ Refers(t, Established)
  BY <1>1, <1>2, <1>5 DEF Engaged, Initiating, Shutting, Ending, Refers
<1>7. SessionStays /\ session' \in [closing : BOOLEAN, deferredClose : BOOLEAN,
                                    isPeerLost : BOOLEAN, ended : BOOLEAN]
  BY <1>1 DEF SessionStays, TypesInv
<1>. QED
  BY <1>1, <1>3, <1>4, <1>6, <1>7, OneTask

LEMMA CancelSubscriptionsStep ==
    ASSUME SubsInv, TypesInv, Outer, NEW q \in Requests, CancelSubscriptions(q)
    PROVE  SubsInv' /\ TypesInv' /\ Outer'
<1> DEFINE k == task[q]
           t == [k EXCEPT !.at = "cancel"]
<1>1. /\ k.at = "handling"
      /\ task' = [task EXCEPT ![q] = t]
      /\ UNCHANGED <<sub, version, committing, pending, session, exchanges>> /\ q \in Tasks
  BY TaskFacts DEF CancelSubscriptions, data, TypesInv
<1>2. k \in TaskStates /\ Refers(k, Established)
  BY <1>1 DEF TypesInv, Outer, RefsInv, Refers
<1>3. ~Engaged(task[q])
  BY <1>1 DEF Engaged, Initiating, Shutting, Ending
<1>. HIDE DEF k
<1>4. t \in TaskStates
  BY <1>2 DEF TaskStates
<1>5. t.at = "cancel" /\ t.part = k.part /\ t.todo = k.todo /\ t.rest = k.rest
  BY <1>2 DEF TaskStates
<1>. HIDE DEF t
<1>6. ~Engaged(t) /\ t.at \notin {"seeding", "handling"} /\ Refers(t, Established)
  BY <1>1, <1>2, <1>5 DEF Engaged, Initiating, Shutting, Ending, Refers
<1>7. SessionStays /\ session' \in [closing : BOOLEAN, deferredClose : BOOLEAN,
                                    isPeerLost : BOOLEAN, ended : BOOLEAN]
  BY <1>1 DEF SessionStays, TypesInv
<1>. QED
  BY <1>1, <1>3, <1>4, <1>6, <1>7, OneTask

\* A new subscription is primed.
LEMMA SubscribeStep ==
    ASSUME SubsInv, TypesInv, Outer, NEW q \in Requests, NEW s \in Subs, Subscribe(q, s)
    PROVE  SubsInv' /\ TypesInv' /\ Outer'
<1> DEFINE x == sub[s]
           y == [x EXCEPT !.state = "seeding", !.listening = TRUE]
           t == [Idle EXCEPT !.at = "seeding", !.awaited = s]
<1>1. /\ task[q].at \in {"handling", "cancel"} \/ (task[q].at = "subscriptions" /\ task[q].part = "cancel")
      /\ x.state = "new" /\ task' = [task EXCEPT ![q] = t]
      /\ UNCHANGED <<version, committing, pending, session, exchanges>> /\ q \in Tasks
  BY TaskFacts DEF Subscribe, SendInitialReport, Cancelled, AllClosed, data
<1>2. sub' = [sub EXCEPT ![s] = y]
  BY DEF Subscribe, SendInitialReport, SubsInv
<1>3. Coherent(x) /\ version \in Int
  BY VersionType DEF SubsInv
<1>4. ~x.isClosed /\ ~x.registered
  BY <1>1, <1>3 DEF Coherent
<1>5. t \in TaskStates /\ t.at = "seeding" /\ t.awaited = s /\ t.todo = {} /\ t.part = "none"
  BY DEF Idle, TaskStates
<1>. HIDE DEF x, t
<1>6. /\ Coherent(y) /\ Aware(y, Notices, version) /\ ~y.registered /\ y.state = "seeding"
      /\ ~y.isClosed /\ y.viaSession = x.viaSession
  BY <1>1, <1>3, <1>4, InitialKeeps
<1>. HIDE DEF y
<1>7. SubsInv' /\ sub'[s] = y /\ \A u \in Subs : u # s => sub'[u] = sub[u]
  BY <1>1, <1>2, <1>6, OneSub
<1>8. \A p \in Tasks : task'[p] = IF p = q THEN t ELSE task[p]
  BY <1>1 DEF TypesInv
<1>9. ~Engaged(task[q]) /\ ~Engaged(t)
  BY <1>1, <1>5 DEF Engaged, Initiating, Shutting, Ending
<1>10. EngagedStay /\ SessionStays
  BY <1>1, <1>8, <1>9 DEF EngagedStay, SessionStays
<1>11. TokenInv'
  <2>1. session.deferredClose => exchanges' # {}
    BY <1>1 DEF Outer, TokenInv
  <2>. QED
    BY <1>1, <1>10, <2>1, TokenKeeps DEF Outer
<1>12. SweepInv'
  <2>1. \A p \in Tasks : Sweeping(task'[p]) => Sweeping(task[p]) /\ task'[p].todo = task[p].todo
    BY <1>10 DEF EngagedStay, Engaged, Ending, Sweeping
  <2>. QED
    BY <1>1, <1>6, <1>7, <2>1, SweepKeeps DEF Outer
<1>13. FlushInv'
  BY <1>4, <1>6, <1>7, <1>10, FlushKeeps DEF Outer, EngagedStay, Engaged, Initiating, Shutting, x
<1>14. SeedInv'
  <2>1. \A p \in Tasks : p # q /\ task'[p].at = "seeding" =>
           /\ task'[p] = task[p] /\ task[p].awaited \in Subs
           /\ sub[task[p].awaited].state = "seeding" /\ ~sub[task[p].awaited].isClosed
    BY <1>8 DEF Outer, SeedInv, RefsInv
  <2>2. \A p \in Tasks : p # q /\ task'[p].at = "seeding" =>
           task[p].awaited # s /\ sub'[task[p].awaited] = sub[task[p].awaited]
    BY <1>1, <1>7, <2>1 DEF x
  <2>3. task'[q].awaited = s /\ sub'[s].state = "seeding" /\ ~sub'[s].isClosed
    BY <1>1, <1>5, <1>6, <1>7, <1>8
  <2>. QED
    BY <2>1, <2>2, <2>3 DEF Outer, SeedInv
<1>15. RequestInv'
  BY <1>1, <1>5, <1>8, TaskFacts, RequestKeeps DEF Outer
<1>16. RefsInv'
  <2>1. Refers(t, Established')
    BY <1>5 DEF Refers
  <2>2. \A u \in Subs : sub[u].state = "established" => sub'[u].state = "established"
    BY <1>1, <1>7 DEF x
  <2>. QED
    BY <1>8, <2>1, <2>2, RefsKeeps DEF Outer
<1>17. TypesInv'
  BY <1>1, <1>5 DEF TypesInv
<1>. QED
  BY <1>7, <1>11, <1>12, <1>13, <1>14, <1>15, <1>16, <1>17 DEF Outer

\* The subscription a request has primed becomes y, and the request is done with it.
LEMMA PrimedKeeps ==
    ASSUME SubsInv, TypesInv, Outer, NEW q \in Requests, task[q].at = "seeding", NEW s,
           s = task[q].awaited, NEW y, sub' = [sub EXCEPT ![s] = y],
           task' = [task EXCEPT ![q] = [Idle EXCEPT !.at = "done"]],
           UNCHANGED <<version, committing, pending, session>>,
           Coherent(y), Aware(y, Notices, version), ~y.viaSession,
           session.closing => (y.registered => y.isClosed) /\ exchanges' = exchanges,
           exchanges \subseteq exchanges', exchanges' \subseteq Exchanges
    PROVE  SubsInv' /\ TypesInv' /\ Outer'
<1> DEFINE t == [Idle EXCEPT !.at = "done"]
<1>1. q \in Tasks /\ s \in Subs /\ sub[s].state = "seeding" /\ ~sub[s].isClosed
  BY TaskFacts DEF Outer, RefsInv, SeedInv
<1>2. t \in TaskStates /\ t.at = "done" /\ t.todo = {} /\ t.part = "none"
  BY DEF Idle, TaskStates
<1>. HIDE DEF t
<1>3. SubsInv' /\ sub'[s] = y /\ \A u \in Subs : u # s => sub'[u] = sub[u]
  BY <1>1, OneSub
<1>4. \A p \in Tasks : task'[p] = IF p = q THEN t ELSE task[p]
  BY DEF TypesInv, t
<1>5. ~Engaged(task[q]) /\ ~Engaged(t)
  BY <1>2 DEF Engaged, Initiating, Shutting, Ending
<1>6. EngagedStay /\ SessionStays
  BY <1>4, <1>5 DEF EngagedStay, SessionStays
<1>7. TokenInv'
  <2>1. session.deferredClose => exchanges' # {}
    BY DEF Outer, TokenInv
  <2>2. Over => exchanges' \subseteq exchanges
    BY DEF Over
  <2>. QED
    BY <1>6, <2>1, <2>2, TokenKeeps DEF Outer
<1>8. SweepInv'
  <2>1. \A p \in Tasks : Sweeping(task'[p]) => Sweeping(task[p]) /\ task'[p].todo = task[p].todo
    BY <1>6 DEF EngagedStay, Engaged, Ending, Sweeping
  <2>. QED
    BY <1>3, <2>1, SweepKeeps DEF Outer
<1>9. FlushInv'
  BY <1>1, <1>3, <1>6, FlushKeeps DEF Outer, EngagedStay, Engaged, Initiating, Shutting
<1>10. SeedInv'
  <2>1. \A p \in Tasks : task'[p].at = "seeding" =>
           /\ p # q /\ task'[p] = task[p] /\ task[p].awaited \in Subs /\ task[p].awaited # s
    BY <1>2, <1>4, TaskFacts DEF Outer, SeedInv, RefsInv
  <2>. QED
    BY <1>3, <2>1 DEF Outer, SeedInv
<1>11. RequestInv'
  BY <1>2, <1>4, TaskFacts, RequestKeeps DEF Outer
<1>12. RefsInv'
  <2>1. Refers(t, Established')
    BY <1>2 DEF Refers
  <2>2. \A u \in Subs : sub[u].state = "established" => sub'[u].state = "established"
    BY <1>1, <1>3
  <2>. QED
    BY <1>4, <2>1, <2>2, RefsKeeps DEF Outer
<1>13. TypesInv'
  BY <1>2 DEF TypesInv, t
<1>. QED
  BY <1>3, <1>7, <1>8, <1>9, <1>10, <1>11, <1>12, <1>13 DEF Outer

LEMMA SubscribedStep ==
    ASSUME SubsInv, TypesInv, Outer, NEW q \in Requests, Subscribed(q)
    PROVE  SubsInv' /\ TypesInv' /\ Outer'
<1> DEFINE s == task[q].awaited
           x == sub[s]
           c == isClosing
           N == Notices
           y == Activate(x, c)
<1>1. /\ task[q].at = "seeding" /\ x.seeded # Unseeded
      /\ sub' = [sub EXCEPT ![s] = y] /\ exchanges' = exchanges \cup Opened(s, y)
      /\ task' = [task EXCEPT ![q] = [Idle EXCEPT !.at = "done"]]
      /\ UNCHANGED <<version, committing, pending, session>>
  BY DEF Subscribed, Becomes, data
<1>2. s \in Subs /\ x.state = "seeding" /\ ~x.isClosed
  BY <1>1, TaskFacts DEF Outer, RefsInv, SeedInv
<1>3. Coherent(x) /\ Aware(x, N, version) /\ version \in Int /\ c \in BOOLEAN
  BY <1>2, VersionType, IsClosing DEF SubsInv
<1>4. session.closing => c
  BY DEF isClosing
<1>. HIDE DEF s, x, c, N
<1>5. /\ Coherent(y) /\ Aware(y, N, version)
      /\ y.state = "established" /\ ~y.viaSession
      /\ c => y.isClosed /\ ~y.registered /\ y.loop = "none"
  BY <1>1, <1>2, <1>3, ActivateKeeps
<1>. HIDE DEF y
<1>6. session.closing => (y.registered => y.isClosed) /\ exchanges' = exchanges
  BY <1>1, <1>4, <1>5 DEF Opened
<1>7. exchanges \subseteq exchanges' /\ exchanges' \subseteq Exchanges
  BY <1>1, <1>2 DEF Opened, Exchanges, TypesInv
<1>. QED
  BY <1>1, <1>5, <1>6, <1>7, PrimedKeeps DEF N, s

LEMMA SubscribeFailsStep ==
    ASSUME SubsInv, TypesInv, Outer, NEW q \in Requests, SubscribeFails(q)
    PROVE  SubsInv' /\ TypesInv' /\ Outer'
<1> DEFINE s == task[q].awaited
           x == sub[s]
           N == Notices
<1>1. /\ task[q].at = "seeding"
      /\ task' = [task EXCEPT ![q] = [Idle EXCEPT !.at = "done"]]
      /\ UNCHANGED <<version, committing, pending, session, exchanges>>
  BY DEF SubscribeFails, data
<1>2. s \in Subs /\ x.state = "seeding"
  BY <1>1, TaskFacts DEF Outer, RefsInv, SeedInv
<1>3. Coherent(x) /\ Aware(x, N, version) /\ version \in Int
  BY <1>2, VersionType DEF SubsInv
<1>4. ~x.viaSession /\ ~x.registered
  BY <1>2, <1>3 DEF Coherent
<1>5. exchanges \subseteq exchanges' /\ exchanges' \subseteq Exchanges
  BY <1>1 DEF TypesInv
<1>6. CASE UNCHANGED sub
  <2>1. sub' = [sub EXCEPT ![s] = x]
    BY <1>2, <1>6 DEF SubsInv
  <2>. HIDE DEF s, x, N
  <2>. QED
    BY <1>1, <1>3, <1>4, <1>5, <2>1, PrimedKeeps DEF s, N
<1>7. CASE sub' = [sub EXCEPT ![s] = Unregister(StopListening([@ EXCEPT !.isClosed = TRUE]))]
  <2> DEFINE y == Unregister(StopListening([x EXCEPT !.isClosed = TRUE]))
  <2>1. sub' = [sub EXCEPT ![s] = y]
    BY <1>2, <1>7 DEF SubsInv
  <2>. HIDE DEF s, x, N
  <2>2. /\ Coherent(y) /\ Aware(y, N, version) /\ ~y.registered /\ y.viaSession = x.viaSession
    BY <1>2, <1>3, StopUnregisterKeeps
  <2>. HIDE DEF y
  <2>. QED
    BY <1>1, <1>4, <1>5, <2>1, <2>2, PrimedKeeps DEF s, N
<1>. QED
  BY <1>6, <1>7 DEF SubscribeFails

-----------------------------------------------------------------------------
(***************************************************************************)
(* Steps of the task that closes the session.                              *)
(***************************************************************************)

SessionStates == [closing : BOOLEAN, deferredClose : BOOLEAN, isPeerLost : BOOLEAN,
                  ended : BOOLEAN]

\* Task t may be where it is, for the exchanges there are.
Placed(p, t, ss, ex) ==
    /\ Shutting(t) =>
         /\ ~ss.ended
         /\ ss.deferredClose => t.at = "exchanges" /\ t.currentExchange # None
         /\ t.currentExchange # None => t.currentExchange = Request(p) /\ Request(p) \in ex
    /\ Ending(t) => ~ss.deferredClose /\ t.then # "exchanges"

\* The exchanges that may be open when task p, being t, does not hold up the session's end.
Farewells(p, t) ==
    {Goodbye(q) : q \in {u \in Tasks : u # p /\ task[u].at = "goodbye"}}
        \cup (IF t.at = "goodbye" THEN {Goodbye(p)} ELSE {})

\* What a step leaves of a subscription that is not primed.
Remains(x, y) == Advances(x, y) /\ (x.state = "seeding" => y.isClosed = x.isClosed)

\* The tasks that close the session beside task p, which becomes t.
Company(p, t) ==
    \A q \in Tasks : q # p /\ Engaged(task[q]) => ~Shutting(task[q]) /\ Beside(task[q], t)

LEMMA CloserKeeps ==
    ASSUME TypesInv, Outer, NEW p \in Tasks, NEW t \in TaskStates, task' = [task EXCEPT ![p] = t],
           Company(p, t),
           \A q \in Tasks : q # p /\ Ending(task[q]) => ~session'.deferredClose /\ ~Shutting(t),
           session' \in SessionStates, session'.closing,
           session'.deferredClose => ~session'.ended /\ exchanges' # {},
           \/ session'.ended \/ session'.deferredClose \/ Engaged(t)
           \/ \E q \in Tasks : q # p /\ Engaged(task[q]),
           session'.ended => \A s \in Subs : sub'[s].registered => sub'[s].isClosed,
           ~session'.deferredClose /\ ~Shutting(t) => exchanges' \subseteq Farewells(p, t),
           exchanges' \subseteq Exchanges,
           Placed(p, t, session', exchanges'),
           Refers(t, Established'), t.at # "seeding",
           \A s \in Subs : Remains(sub[s], sub'[s]),
           \A s \in Subs : sub'[s].viaSession => t.at = "flushing" /\ t.awaited = s,
           t.at = "flushing" => sub'[t.awaited].isClosed,
           Sweeping(t) => \A s \in Subs : sub'[s].registered /\ ~sub'[s].isClosed => s \in t.todo
    PROVE  TypesInv' /\ Outer'
<1>1. \A q \in Tasks : task'[q] = IF q = p THEN t ELSE task[q]
  BY DEF TypesInv
<1>2. \A q \in Tasks : Shutting(task'[q]) => q = p /\ task'[q] = t
  BY <1>1 DEF Company, Engaged, Initiating
<1>3. TokenInv'
  <2>1. Over' <=> ~session'.deferredClose /\ ~Shutting(t)
    BY <1>1, <1>2 DEF Over
  <2>2. \A q, r \in Tasks : Engaged(task'[q]) /\ Engaged(task'[r]) =>
                              q = r \/ Beside(task'[q], task'[r])
    <3>1. \A q, r \in Tasks : Engaged(task[q]) /\ Engaged(task[r]) =>
                                q = r \/ Beside(task[q], task[r])
      BY DEF Outer, TokenInv
    <3>2. \A q \in Tasks : q # p /\ Engaged(task[q]) => Beside(task[q], t) /\ Beside(t, task[q])
      BY DEF Company, Beside
    <3>. QED
      BY <1>1, <3>1, <3>2
  <2>3. \A q \in Tasks : Shutting(task'[q]) =>
          /\ session'.deferredClose => task'[q].at = "exchanges" /\ task'[q].currentExchange # None
          /\ task'[q].currentExchange # None =>
                task'[q].currentExchange = Request(q) /\ Request(q) \in exchanges'
    BY <1>2 DEF Placed
  <2>4. \A q \in Tasks : Ending(task'[q]) => Over' /\ task'[q].then # "exchanges"
    <3>1. Ending(t) => ~Shutting(t)
      BY DEF Ending, Shutting, TaskStates
    <3>. QED
      BY <1>1, <2>1, <3>1 DEF Placed, Outer, TokenInv
  <2>5. session'.ended \/ session'.deferredClose \/ \E q \in Tasks : Engaged(task'[q])
    BY <1>1
  <2>6. session'.ended => Over'
    BY <2>1 DEF Placed
  <2>7. Farewells(p, t) \subseteq Goodbyes'
    BY <1>1 DEF Farewells, Goodbyes
  <2>. QED
    BY <2>1, <2>2, <2>3, <2>4, <2>5, <2>6, <2>7 DEF TokenInv
<1>4. SweepInv'
  <2>1. \A q \in Tasks : Sweeping(task'[q]) => task'[q] = t \/ (task'[q] = task[q] /\ Sweeping(task[q]))
    BY <1>1
  <2>2. \A q \in Tasks : Sweeping(task[q]) =>
           \A s \in Subs : sub[s].registered /\ ~sub[s].isClosed => s \in task[q].todo
    BY DEF Outer, SweepInv, Sweeping
  <2>3. \A s \in Subs : sub'[s].registered /\ ~sub'[s].isClosed => sub[s].registered /\ ~sub[s].isClosed
    BY DEF Remains, Advances
  <2>. QED
    BY <2>1, <2>2, <2>3 DEF SweepInv, Sweeping
<1>5. FlushInv'
  <2>1. \A q \in Tasks : task'[q].at = "flushing" => task'[q] = t
    BY <1>2 DEF Shutting
  <2>. QED
    BY <1>1, <2>1 DEF FlushInv
<1>6. SeedInv'
  BY <1>1, SeedKeeps DEF Outer, Remains, Advances
<1>7. RequestInv'
  BY DEF RequestInv
<1>8. RefsInv'
  BY <1>1, RefsKeeps DEF Outer, Remains, Advances
<1>9. TypesInv'
  BY DEF TypesInv, SessionStates
<1>. QED
  BY <1>3, <1>4, <1>5, <1>6, <1>7, <1>8, <1>9 DEF Outer

\* Who shuts the session down is alone, who ends it may have company, and a report goes by the
\* session only while the task that shuts it down waits for it.
LEMMA CloserFacts ==
    ASSUME TypesInv, Outer, NEW p \in Tasks, Engaged(task[p])
    PROVE  /\ task[p] \in TaskStates /\ Refers(task[p], Established)
           /\ Placed(p, task[p], session, exchanges)
           /\ session \in SessionStates /\ session.closing
           /\ session.deferredClose => ~session.ended /\ exchanges # {}
           /\ Company(p, task[p])
           /\ Shutting(task[p]) => \A q \in Tasks : Engaged(task[q]) => q = p
           /\ \A q \in Tasks : Ending(task[q]) => ~session.deferredClose
           /\ ~session.deferredClose /\ ~Shutting(task[p]) => exchanges \subseteq Farewells(p, task[p])
           /\ session.ended => \A s \in Subs : sub[s].registered => sub[s].isClosed
           /\ \A s \in Subs : sub[s].viaSession => task[p].at = "flushing" /\ task[p].awaited = s
<1>1. task[p] \in TaskStates /\ session \in SessionStates
  BY DEF TypesInv, SessionStates
<1>2. Refers(task[p], Established)
  BY DEF Outer, RefsInv, Refers
<1>3. /\ session.closing /\ (session.deferredClose => ~session.ended /\ exchanges # {})
      /\ \A q \in Tasks : Ending(task[q]) => Over /\ ~session.deferredClose
  BY DEF Outer, TokenInv, Over
<1>4. \A q \in Tasks : Engaged(task[q]) => q = p \/ Beside(task[q], task[p])
  BY DEF Outer, TokenInv
<1>5. \A q \in Tasks : q # p => ~Shutting(task[q])
  BY <1>3, <1>4 DEF Engaged, Initiating, Over, Beside
<1>6. Shutting(task[p]) => \A q \in Tasks : Engaged(task[q]) => q = p
  BY <1>3, <1>4 DEF Engaged, Initiating, Over, Beside
<1>7. Placed(p, task[p], session, exchanges)
  <2>1. Shutting(task[p]) => ~session.ended
    BY DEF Outer, TokenInv, Over
  <2>. QED
    BY <1>3, <2>1 DEF Outer, TokenInv, Placed
<1>8. Company(p, task[p])
  BY <1>4, <1>5 DEF Company
<1>9. ~session.deferredClose /\ ~Shutting(task[p]) => exchanges \subseteq Farewells(p, task[p])
  <2>1. ~session.deferredClose /\ ~Shutting(task[p]) => exchanges \subseteq Goodbyes
    BY <1>3, <1>5 DEF Outer, TokenInv, Over
  <2>2. Goodbyes \subseteq Farewells(p, task[p])
    BY DEF Goodbyes, Farewells
  <2>. QED
    BY <2>1, <2>2
<1>10. \A q \in Tasks : task[q].at = "flushing" => q = p
  BY <1>5 DEF Shutting
<1>11. \A s \in Subs : sub[s].viaSession => task[p].at = "flushing" /\ task[p].awaited = s
  BY <1>10 DEF Outer, FlushInv
<1>12. session.ended => \A s \in Subs : sub[s].registered => sub[s].isClosed
  BY DEF Outer, SweepInv
<1>. QED
  BY <1>1, <1>2, <1>3, <1>6, <1>7, <1>8, <1>9, <1>11, <1>12

\* The task that closes the session goes on as t, and subscriptions stay as they are.
LEMMA CloserGoesOn ==
    ASSUME SubsInv, TypesInv, Outer, NEW p \in Tasks, Engaged(task[p]), task[p].at # "flushing",
           NEW t \in TaskStates, task' = [task EXCEPT ![p] = t], Company(p, t),
           UNCHANGED <<sub, version, committing, pending>>,
           \A q \in Tasks : q # p /\ Ending(task[q]) => ~session'.deferredClose /\ ~Shutting(t),
           session' \in SessionStates, session'.closing, session'.ended = session.ended,
           session'.deferredClose => ~session'.ended /\ exchanges' # {},
           session'.deferredClose \/ Engaged(t),
           ~session'.deferredClose /\ ~Shutting(t) => exchanges' \subseteq Farewells(p, t),
           exchanges' \subseteq Exchanges,
           Placed(p, t, session', exchanges'),
           Refers(t, Established), t.at \notin {"seeding", "flushing"},
           Sweeping(t) => \A s \in Subs : sub[s].registered /\ ~sub[s].isClosed => s \in t.todo
    PROVE  SubsInv' /\ TypesInv' /\ Outer'
<1>1. /\ \A s \in Subs : ~sub[s].viaSession
      /\ session.ended => \A s \in Subs : sub[s].registered => sub[s].isClosed
  BY CloserFacts
<1>2. \A s \in Subs : Remains(sub[s], sub'[s])
  BY DEF Remains, Advances
<1>3. Established' = Established
  BY DEF Established
<1>4. session'.ended => \A s \in Subs : sub'[s].registered => sub'[s].isClosed
  BY <1>1
<1>5. \A s \in Subs : ~sub'[s].viaSession
  BY <1>1
<1>6. Sweeping(t) => \A s \in Subs : sub'[s].registered /\ ~sub'[s].isClosed => s \in t.todo
  OBVIOUS
<1>7. TypesInv' /\ Outer'
  BY <1>2, <1>3, <1>4, <1>5, <1>6, CloserKeeps
<1>. QED
  BY <1>7, SubsUnchanged

\* Somebody closes the session: the first who does shuts it down.
LEMMA InitiateStep ==
    ASSUME SubsInv, TypesInv, Outer, NEW p \in Tasks, task[p].at \in {"idle", "handling"},
           NEW kind \in {"plain", "flush", "force", "rollover", "leave"},
           NEW x, x = None \/ (p \in Requests /\ x = Request(p) /\ task[p].at = "handling"),
           Initiate(p, kind, x)
    PROVE  SubsInv' /\ TypesInv' /\ Outer'
<1>1. /\ session' = [session EXCEPT !.closing = TRUE, !.isPeerLost = @ \/ kind = "force"]
      /\ UNCHANGED <<sub, version, committing, pending, exchanges>>
  BY DEF Initiate, data
<1>2. session \in SessionStates /\ session' \in SessionStates
  BY <1>1 DEF TypesInv, SessionStates
<1>3. /\ session'.closing /\ session'.deferredClose = session.deferredClose
      /\ session'.ended = session.ended
  BY <1>1 DEF TypesInv
<1>4. ~Engaged(task[p])
  BY DEF Engaged, Initiating, Shutting, Ending
<1>5. CASE isClosing
  <2> DEFINE t == [Idle EXCEPT !.at = "done", !.kind = kind]
  <2>1. task' = [task EXCEPT ![p] = t]
    BY <1>5 DEF Initiate
  <2>2. t \in TaskStates /\ t.at = "done" /\ t.todo = {} /\ t.part = "none"
    BY DEF Idle, TaskStates
  <2>. HIDE DEF t
  <2>3. ~Engaged(t) /\ Refers(t, Established)
    BY <2>2 DEF Engaged, Initiating, Shutting, Ending, Refers
  <2>4. SessionStays
    BY <1>2, <1>3, <1>5, IsClosing DEF SessionStays, SessionStates
  <2>. QED
    BY <1>1, <1>2, <1>4, <2>1, <2>2, <2>3, <2>4, OneTask DEF SessionStates
<1>6. CASE ~isClosing
  <2> DEFINE G == Registered
             t == [Shutdown(kind) EXCEPT !.kind = kind, !.currentExchange = x]
  <2>1. task' = [task EXCEPT ![p] = t]
    BY <1>6 DEF Initiate
  <2>2. G \subseteq Established /\ G \subseteq Subs
    BY RegisteredEstablished DEF Established
  <2>3. ~session.closing /\ ~session.deferredClose /\ ~session.ended
    BY <1>6 DEF isClosing, Outer, TokenInv
  <2>4. (\A q \in Tasks : ~Engaged(task[q])) /\ \A s \in Subs : ~sub[s].viaSession
    BY <2>3 DEF Outer, TokenInv, FlushInv, Engaged, Initiating, Shutting
  <2>5. x \in Exchanges \cup {None} /\ (x # None => x = Request(p) /\ Request(p) \in exchanges)
    BY <2>3 DEF Exchanges, Outer, RequestInv
  <2> DEFINE u == Shutdown(kind)
  <2>6. /\ u \in TaskStates /\ u.todo \subseteq Established
        /\ (u.at = "decide" /\ u.part = "none") \/ (u.at = "subscriptions" /\ u.part = "shutdown")
    <3>1. CASE kind = "plain"
      <4>1. u = [Idle EXCEPT !.at = "decide"]
        BY <3>1 DEF Shutdown
      <4>. QED
        BY <4>1 DEF Idle, TaskStates
    <3>2. CASE kind # "plain"
      <4>1. u = [Idle EXCEPT !.at = "subscriptions", !.part = "shutdown", !.todo = G]
        BY <3>2 DEF Shutdown
      <4>. HIDE DEF G
      <4>. QED
        BY <2>2, <4>1 DEF Idle, TaskStates
    <3>. QED
      BY <3>1, <3>2
  <2>. HIDE DEF G, u
  <2>7. /\ t \in TaskStates /\ t.todo = u.todo /\ t.currentExchange = x
        /\ t.at = u.at /\ t.part = u.part
    BY <2>5, <2>6 DEF TaskStates, u
  <2>. HIDE DEF t
  <2>8. Placed(p, t, session', exchanges')
    BY <1>1, <1>3, <2>3, <2>5, <2>6, <2>7 DEF Placed, Ending
  <2>9. Refers(t, Established') /\ ~Sweeping(t)
    BY <1>1, <2>6, <2>7 DEF Refers, Sweeping, Established
  <2>10. Engaged(t) /\ Shutting(t) /\ Company(p, t)
    BY <2>4, <2>6, <2>7 DEF Engaged, Initiating, Shutting, Company
  <2>11. \A s \in Subs : Remains(sub[s], sub'[s])
    BY <1>1 DEF Remains, Advances
  <2>12. exchanges' \subseteq Exchanges
    BY <1>1 DEF TypesInv
  <2>13. /\ \A q \in Tasks : ~Ending(task[q])
         /\ t.at \notin {"seeding", "flushing"} /\ \A s \in Subs : ~sub'[s].viaSession
    BY <1>1, <2>4, <2>6, <2>7 DEF Engaged
  <2>14. TypesInv' /\ Outer'
    BY <1>1, <1>2, <1>3, <2>1, <2>3, <2>7, <2>8, <2>9, <2>10, <2>11, <2>12, <2>13, CloserKeeps
  <2>. QED
    BY <1>1, <2>14, SubsUnchanged
<1>. QED
  BY <1>5, <1>6

LEMMA InitiateCloseStep ==
    ASSUME SubsInv, TypesInv, Outer, NEW p \in Callers, InitiateClose(p)
    PROVE  SubsInv' /\ TypesInv' /\ Outer'
<1>1. PICK kind \in Triggers : Initiate(p, kind, None)
  BY DEF InitiateClose
<1>2. kind \in {"plain", "flush", "force", "rollover", "leave"} /\ p \in Tasks
  BY TriggersAssumption, TaskFacts
<1>3. task[p].at \in {"idle", "handling"}
  BY DEF InitiateClose
<1>. QED
  BY <1>1, <1>2, <1>3, InitiateStep

LEMMA CloseByCommandStep ==
    ASSUME SubsInv, TypesInv, Outer, NEW q \in Requests, CloseByCommand(q)
    PROVE  SubsInv' /\ TypesInv' /\ Outer'
<1>1. PICK kind \in Commands \ {"cancel"} :
         Initiate(q, kind, IF kind = "force" THEN Request(q) ELSE None)
  BY DEF CloseByCommand
<1> DEFINE x == IF kind = "force" THEN Request(q) ELSE None
<1>2. kind \in {"plain", "flush", "force", "rollover", "leave"} /\ q \in Tasks
  BY TriggersAssumption, TaskFacts
<1>3. task[q].at = "handling" /\ task[q].at \in {"idle", "handling"}
  BY DEF CloseByCommand
<1>4. x = None \/ (q \in Requests /\ x = Request(q) /\ task[q].at = "handling")
  BY <1>3
<1>. HIDE DEF x
<1>. QED
  BY <1>1, <1>2, <1>3, <1>4, InitiateStep DEF x

\* initiateForceClose goes on to the exchanges.
LEMMA SubscriptionsClosedStep ==
    ASSUME SubsInv, TypesInv, Outer, NEW p \in Tasks, SubscriptionsClosed(p)
    PROVE  SubsInv' /\ TypesInv' /\ Outer'
<1> DEFINE k == task[p]
           E == exchanges
           t == [k EXCEPT !.at = "exchanges", !.rest = E, !.todo = {}]
<1>1. /\ k.at = "subscriptions" /\ k.part = "shutdown" /\ task' = [task EXCEPT ![p] = t]
      /\ UNCHANGED <<sub, version, committing, pending, session, exchanges>>
  BY DEF SubscriptionsClosed, AllClosed, data
<1>2. Engaged(k) /\ Shutting(k)
  BY <1>1 DEF Engaged, Initiating, Shutting
<1>3. /\ k \in TaskStates /\ Refers(k, Established) /\ Placed(p, k, session, exchanges)
      /\ session \in SessionStates /\ session.closing /\ ~session.ended
      /\ session.deferredClose => exchanges # {}
      /\ \A q \in Tasks : Engaged(task[q]) => q = p
  BY <1>2, CloserFacts DEF Placed
<1>4. E \subseteq Exchanges
  BY DEF TypesInv
<1>. HIDE DEF k, E
<1>5. t \in TaskStates
  BY <1>3, <1>4 DEF TaskStates
<1>6. /\ t.at = "exchanges" /\ t.rest = E /\ t.todo = {} /\ t.part = "shutdown"
      /\ t.currentExchange = k.currentExchange
  BY <1>1, <1>3 DEF TaskStates
<1>. HIDE DEF t
<1>7. Placed(p, t, session, exchanges)
  BY <1>1, <1>2, <1>3, <1>6 DEF Placed, Ending
<1>8. Refers(t, Established) /\ ~Sweeping(t) /\ Engaged(t) /\ Shutting(t) /\ Company(p, t)
  BY <1>3, <1>4, <1>6 DEF Refers, Sweeping, Engaged, Initiating, Shutting, Company
<1>9. \A q \in Tasks : q # p => ~Ending(task[q])
  BY <1>3 DEF Engaged
<1>. QED
  BY <1>1, <1>2, <1>3, <1>4, <1>5, <1>6, <1>7, <1>8, <1>9, CloserGoesOn DEF k, E

\* initiateForceClose closes an exchange, or leaves the one it runs on.
LEMMA ForceCloseExchangeStep ==
    ASSUME SubsInv, TypesInv, Outer, NEW p \in Tasks, ForceCloseExchange(p)
    PROVE  SubsInv' /\ TypesInv' /\ Outer'
<1> DEFINE k == task[p]
<1>1. k.at = "exchanges" /\ UNCHANGED <<sub, version, committing, pending>>
  BY DEF ForceCloseExchange, data
<1>2. Engaged(k) /\ Shutting(k)
  BY <1>1 DEF Engaged, Initiating, Shutting
<1>3. /\ k \in TaskStates /\ Refers(k, Established) /\ Placed(p, k, session, exchanges)
      /\ session \in SessionStates /\ session.closing /\ ~session.ended
      /\ session.deferredClose => exchanges # {}
      /\ \A q \in Tasks : Engaged(task[q]) => q = p
  BY <1>2, CloserFacts DEF Placed
<1>4. PICK x \in k.rest :
         IF x = k.currentExchange THEN
            /\ session' = [session EXCEPT !.deferredClose = TRUE]
            /\ task' = [task EXCEPT ![p].rest = @ \ {x}]
            /\ UNCHANGED exchanges
         ELSE CloseExchange(p, x, [k EXCEPT !.rest = @ \ {x}])
  BY DEF ForceCloseExchange
<1> DEFINE B == k.rest \ {x}
           t == [k EXCEPT !.rest = B]
<1>5. x \in Exchanges /\ x # None /\ B \subseteq Exchanges /\ B \subseteq k.rest
  BY <1>1, <1>3 DEF Refers, Exchanges, Report, Lingering, Request, Goodbye, None
<1>6. k.currentExchange # None => k.currentExchange = Request(p) /\ Request(p) \in exchanges
  BY <1>2, <1>3 DEF Placed
<1>7. /\ exchanges' \subseteq exchanges /\ task' = [task EXCEPT ![p] = t]
      /\ session' \in SessionStates /\ session'.closing /\ ~session'.ended
      /\ session'.deferredClose => k.currentExchange # None
      /\ k.currentExchange # None => Request(p) \in exchanges'
  <2>1. CASE x = k.currentExchange
    BY <1>3, <1>4, <1>5, <1>6, <2>1 DEF SessionStates, TypesInv
  <2>2. CASE x # k.currentExchange
    <3>1. CloseExchange(p, x, t)
      BY <1>4, <2>2
    <3>2. session.deferredClose => k.currentExchange # None
      BY <1>2, <1>3 DEF Placed
    <3>3. ~EndsSession(x)
      BY <1>6, <2>2, <3>2 DEF EndsSession
    <3>. HIDE DEF t
    <3>4. exchanges' = exchanges \ {x} /\ session' = session /\ task' = [task EXCEPT ![p] = t]
      BY <1>3, <3>1, <3>3 DEF CloseExchange, SessionStates
    <3>. QED
      BY <1>3, <1>6, <2>2, <3>2, <3>4
  <2>. QED
    BY <2>1, <2>2
<1>. HIDE DEF k, B
<1>8. t \in TaskStates
  BY <1>3, <1>5 DEF TaskStates
<1>9. /\ t.at = "exchanges" /\ t.rest = B /\ t.todo = k.todo /\ t.part = k.part
      /\ t.currentExchange = k.currentExchange
  BY <1>1, <1>3 DEF TaskStates
<1>. HIDE DEF t
<1>10. Placed(p, t, session', exchanges')
  BY <1>6, <1>7, <1>9 DEF Placed, Ending
<1>11. Refers(t, Established) /\ ~Sweeping(t) /\ Engaged(t) /\ Shutting(t) /\ Company(p, t)
  BY <1>1, <1>3, <1>5, <1>9 DEF Refers, Sweeping, Engaged, Initiating, Shutting, Company
<1>12. exchanges' \subseteq Exchanges /\ (session'.deferredClose => exchanges' # {})
  BY <1>7 DEF TypesInv
<1>13. \A q \in Tasks : q # p => ~Ending(task[q])
  BY <1>3 DEF Engaged
<1>14. session'.ended = session.ended
  BY <1>3, <1>7 DEF SessionStates
<1>. QED
  BY <1>1, <1>2, <1>7, <1>8, <1>9, <1>10, <1>11, <1>12, <1>13, <1>14, CloserGoesOn DEF k

LEMMA ThenType ==
    ASSUME NEW k \in TaskStates, NEW l \in {"idle", "done", "closed", "subscriptions"}
    PROVE  [k EXCEPT !.then = l] \in TaskStates
BY DEF TaskStates

\* The end of the shutdown logic: the close is deferred to the exchanges there are.
LEMMA DeferCloseStep ==
    ASSUME SubsInv, TypesInv, Outer, NEW p \in Tasks, DeferClose(p)
    PROVE  SubsInv' /\ TypesInv' /\ Outer'
<1> DEFINE k == task[p]
           T == {}
           t == [k EXCEPT !.at = "recheck", !.todo = T]
<1>1. /\ k.at \in {"decide", "exchanges"} \/ (k.at = "subscriptions" /\ k.part = "shutdown")
      /\ UNCHANGED <<sub, version, committing, pending, exchanges>>
      /\ session' = [session EXCEPT !.deferredClose = @ \/ exchanges # {}]
      /\ task' = [task EXCEPT ![p] = t]
  BY DEF DeferClose, AllClosed, data
<1>2. Engaged(k) /\ Shutting(k) /\ k.at # "flushing"
  BY <1>1 DEF Engaged, Initiating, Shutting
<1>3. /\ k \in TaskStates /\ Refers(k, Established)
      /\ session \in SessionStates /\ session.closing /\ ~session.ended
      /\ session.deferredClose => exchanges # {}
      /\ \A q \in Tasks : Engaged(task[q]) => q = p
  BY <1>2, CloserFacts DEF Placed
<1>4. exchanges' \subseteq Exchanges
  BY <1>1 DEF TypesInv
<1>5. T \in SUBSET Subs
  OBVIOUS
<1>. HIDE DEF k, T
<1>6. t \in TaskStates
  BY <1>3, <1>5 DEF TaskStates
<1>7. t.at = "recheck" /\ t.todo = T /\ t.part = k.part /\ t.rest = k.rest
  BY <1>3 DEF TaskStates
<1>. HIDE DEF t
<1>8. /\ session' \in SessionStates /\ session'.closing /\ session'.ended = session.ended
      /\ session'.deferredClose <=> exchanges # {}
  BY <1>1, <1>3 DEF SessionStates
<1>9. Placed(p, t, session', exchanges') /\ ~Sweeping(t) /\ Engaged(t) /\ ~Shutting(t)
  BY <1>7 DEF Placed, Sweeping, Engaged, Initiating, Shutting, Ending
<1>10. Refers(t, Established)
  BY <1>3, <1>7 DEF Refers, T
<1>11. Company(p, t) /\ \A q \in Tasks : q # p => ~Ending(task[q])
  BY <1>3 DEF Company, Engaged
<1>12. ~session'.deferredClose /\ ~Shutting(t) => exchanges' \subseteq Farewells(p, t)
  BY <1>1, <1>8
<1>. QED
  BY <1>1, <1>2, <1>3, <1>4, <1>6, <1>7, <1>8, <1>9, <1>10, <1>11, <1>12, CloserGoesOn DEF k

\* Session.initiateClose leaves the close to the exchanges, or closes the session.
LEMMA RecheckStep ==
    ASSUME SubsInv, TypesInv, Outer, NEW p \in Tasks, Recheck(p)
    PROVE  SubsInv' /\ TypesInv' /\ Outer'
<1> DEFINE k == task[p]
<1>1. /\ k.at = "recheck" /\ UNCHANGED <<sub, version, committing, pending, session, exchanges>>
  BY DEF Recheck, data
<1>2. Engaged(k) /\ Initiating(k) /\ ~Shutting(k) /\ k.at # "flushing"
  BY <1>1 DEF Engaged, Initiating, Shutting
<1>3. /\ k \in TaskStates /\ Refers(k, Established) /\ Company(p, k)
      /\ session \in SessionStates /\ session.closing
      /\ session.deferredClose => ~session.ended /\ exchanges # {}
      /\ \A q \in Tasks : Ending(task[q]) => ~session.deferredClose
      /\ ~session.deferredClose => exchanges \subseteq Farewells(p, k)
  BY <1>2, CloserFacts
<1>4. exchanges' \subseteq Exchanges
  BY <1>1 DEF TypesInv
<1>5. CASE MustWait
  <2> DEFINE t == Done(k)
  <2>1. session.deferredClose /\ task' = [task EXCEPT ![p] = t]
    BY <1>5 DEF Recheck, MustWait
  <2>. HIDE DEF k
  <2>2. t \in TaskStates /\ t.at = "done" /\ t.todo = {} /\ t.part = "none"
    BY <1>3 DEF Done, Idle, TaskStates
  <2>. HIDE DEF t
  <2>3. /\ Placed(p, t, session', exchanges') /\ Refers(t, Established) /\ ~Sweeping(t)
        /\ ~Initiating(t) /\ ~Ending(t)
    BY <2>2 DEF Placed, Initiating, Shutting, Ending, Refers, Sweeping
  <2>4. Company(p, t)
    BY <1>3, <2>3 DEF Company, Beside
  <2>5. \A q \in Tasks : ~Ending(task[q])
    BY <1>3, <2>1
  <2>. QED
    BY <1>1, <1>2, <1>3, <1>4, <2>1, <2>2, <2>3, <2>4, <2>5, CloserGoesOn DEF k
<1>6. CASE ~MustWait
  <2> DEFINE t == [k EXCEPT !.at = "rollover", !.then = "done"]
  <2>1. task' = [task EXCEPT ![p] = t] /\ ~session.deferredClose
    BY <1>3, <1>6 DEF Recheck, MustWait
  <2>. HIDE DEF k
  <2>2. t \in TaskStates
    <3> DEFINE v == [k EXCEPT !.at = "rollover"]
    <3>1. v \in TaskStates
      BY <1>3 DEF TaskStates
    <3>2. t = [v EXCEPT !.then = "done"]
      BY <1>3 DEF TaskStates
    <3>. HIDE DEF v, t
    <3>. QED
      BY <3>1, <3>2, ThenType
  <2>3. /\ t.at = "rollover" /\ t.then = "done" /\ t.todo = k.todo /\ t.part = k.part
        /\ t.rest = k.rest
    BY <1>3 DEF TaskStates
  <2>. HIDE DEF t
  <2>4. Placed(p, t, session', exchanges')
    BY <1>1, <2>1, <2>3 DEF Placed, Shutting
  <2>5. Refers(t, Established) /\ ~Sweeping(t) /\ Engaged(t) /\ Ending(t) /\ ~Initiating(t) /\ ~Shutting(t)
    BY <1>3, <2>3 DEF Refers, Sweeping, Engaged, Initiating, Shutting, Ending
  <2>6. Company(p, t)
    BY <1>2, <1>3, <2>3, <2>5 DEF Company, Beside, Engaged
  <2>7. exchanges' \subseteq Farewells(p, t)
    BY <1>1, <1>3, <2>1, <2>3 DEF Farewells
  <2>. QED
    BY <1>1, <1>2, <1>3, <1>4, <2>1, <2>2, <2>3, <2>4, <2>5, <2>6, <2>7, CloserGoesOn DEF k
<1>. QED
  BY <1>5, <1>6

\* Task t is in the same part of the close as k.
Like(k, t) ==
    /\ Shutting(t) <=> Shutting(k)
    /\ Initiating(t) <=> Initiating(k)
    /\ Ending(t) <=> Ending(k)
    /\ t.then = k.then

LEMMA LikeKeeps ==
    ASSUME NEW p, NEW k, NEW t, Company(p, k), Like(k, t)
    PROVE  Company(p, t)
BY DEF Company, Beside, Like

\* What CloseSubscriptions makes of a task that ends the session.
LEMMA SweepBegins ==
    ASSUME SubsInv, NEW k \in TaskStates
    PROVE  LET t == CloseSubscriptions(k) IN
           /\ t \in TaskStates /\ t.at = "subscriptions" /\ t.part = "close"
           /\ t.then = k.then /\ Refers(t, Established) /\ Ending(t) /\ ~Initiating(t)
           /\ \A s \in Subs : sub[s].registered => s \in t.todo
<1> DEFINE G == Registered
           t == [k EXCEPT !.at = "subscriptions", !.part = "close", !.todo = G]
<1>1. G \subseteq Established /\ G \subseteq Subs /\ \A s \in Subs : sub[s].registered => s \in G
  BY RegisteredEstablished DEF Established, Registered
<1>2. CloseSubscriptions(k) = t
  BY DEF CloseSubscriptions
<1>. HIDE DEF G
<1>3. t \in TaskStates
  BY <1>1 DEF TaskStates
<1>4. t.at = "subscriptions" /\ t.part = "close" /\ t.todo = G /\ t.then = k.then
  BY DEF TaskStates
<1>. HIDE DEF t
<1>. QED
  BY <1>1, <1>2, <1>3, <1>4 DEF Refers, Ending, Initiating, Shutting

\* NodeSession.close tells the peer, or goes on to the subscriptions.
LEMMA RolloverAwaitedStep ==
    ASSUME SubsInv, TypesInv, Outer, NEW p \in Tasks, RolloverAwaited(p)
    PROVE  SubsInv' /\ TypesInv' /\ Outer'
<1> DEFINE k == task[p]
<1>1. k.at = "rollover" /\ UNCHANGED <<sub, version, committing, pending, session>>
  BY DEF RolloverAwaited, data
<1>2. Engaged(k) /\ Ending(k) /\ ~Initiating(k) /\ ~Shutting(k) /\ k.at # "flushing"
  BY <1>1 DEF Engaged, Initiating, Shutting, Ending
<1>3. /\ k \in TaskStates /\ Refers(k, Established) /\ Placed(p, k, session, exchanges)
      /\ session \in SessionStates /\ session.closing /\ Company(p, k)
      /\ ~session.deferredClose => exchanges \subseteq Farewells(p, k)
  BY <1>2, CloserFacts
<1>4. ~session.deferredClose /\ k.then # "exchanges"
  BY <1>2, <1>3 DEF Placed
<1>5. CASE session.isPeerLost \/ session.ended
  <2> DEFINE t == CloseSubscriptions(k)
  <2>1. exchanges' = exchanges /\ task' = [task EXCEPT ![p] = t]
    BY <1>5 DEF RolloverAwaited
  <2>. HIDE DEF k
  <2>2. /\ t \in TaskStates /\ t.at = "subscriptions" /\ t.part = "close"
        /\ t.then = k.then /\ Refers(t, Established) /\ Ending(t) /\ ~Initiating(t)
        /\ \A s \in Subs : sub[s].registered => s \in t.todo
    BY <1>3, SweepBegins
  <2>. HIDE DEF t
  <2>3. Placed(p, t, session', exchanges') /\ ~Shutting(t) /\ Engaged(t)
    BY <1>1, <1>4, <2>1, <2>2 DEF Placed, Initiating, Engaged
  <2>4. exchanges' \subseteq Exchanges
    BY <2>1 DEF TypesInv
  <2>5. Company(p, t)
    BY <1>2, <1>3, <2>2, <2>3, LikeKeeps DEF Like
  <2>6. exchanges' \subseteq Farewells(p, t)
    BY <1>1, <1>3, <1>4, <2>1 DEF Farewells
  <2>. QED
    BY <1>1, <1>2, <1>3, <1>4, <2>1, <2>2, <2>3, <2>4, <2>5, <2>6, CloserGoesOn DEF k
<1>6. CASE ~(session.isPeerLost \/ session.ended)
  <2> DEFINE t == [k EXCEPT !.at = "goodbye"]
  <2>1. exchanges' = exchanges \cup {Goodbye(p)} /\ task' = [task EXCEPT ![p] = t]
    BY <1>6 DEF RolloverAwaited, TypesInv
  <2>. HIDE DEF k
  <2>2. t \in TaskStates
    BY <1>3 DEF TaskStates
  <2>3. /\ t.at = "goodbye" /\ t.then = k.then /\ t.part = k.part
        /\ t.rest = k.rest /\ t.todo = k.todo
    BY <1>3 DEF TaskStates
  <2>. HIDE DEF t
  <2>4. Ending(t) /\ ~Initiating(t) /\ ~Shutting(t) /\ Engaged(t)
    BY <2>3 DEF Engaged, Initiating, Shutting, Ending
  <2>5. Placed(p, t, session', exchanges')
    BY <1>1, <1>4, <2>3, <2>4 DEF Placed
  <2>6. Refers(t, Established) /\ ~Sweeping(t)
    BY <1>3, <2>3 DEF Refers, Sweeping
  <2>7. exchanges' \subseteq Exchanges
    BY <2>1 DEF Exchanges, TypesInv
  <2>8. Company(p, t)
    BY <1>2, <1>3, <2>3, <2>4, LikeKeeps DEF Like
  <2>9. exchanges' \subseteq Farewells(p, t)
    BY <1>1, <1>3, <1>4, <2>1, <2>3 DEF Farewells
  <2>. QED
    BY <1>1, <1>2, <1>3, <1>4, <2>1, <2>2, <2>3, <2>4, <2>5, <2>6, <2>7, <2>8, <2>9, CloserGoesOn
    DEF k
<1>. QED
  BY <1>5, <1>6

LEMMA GoodbyeSentStep ==
    ASSUME SubsInv, TypesInv, Outer, NEW p \in Tasks, GoodbyeSent(p)
    PROVE  SubsInv' /\ TypesInv' /\ Outer'
<1> DEFINE k == task[p]
           t == CloseSubscriptions(k)
<1>1. /\ k.at = "goodbye" /\ UNCHANGED <<sub, version, committing, pending>>
      /\ CloseExchange(p, Goodbye(p), t)
  BY DEF GoodbyeSent, data
<1>2. Engaged(k) /\ Ending(k) /\ ~Initiating(k) /\ ~Shutting(k) /\ k.at # "flushing"
  BY <1>1 DEF Engaged, Initiating, Shutting, Ending
<1>3. /\ k \in TaskStates /\ Refers(k, Established) /\ Placed(p, k, session, exchanges)
      /\ session \in SessionStates /\ session.closing /\ Company(p, k)
      /\ ~session.deferredClose => exchanges \subseteq Farewells(p, k)
  BY <1>2, CloserFacts
<1>4. ~session.deferredClose /\ k.then # "exchanges"
  BY <1>2, <1>3 DEF Placed
<1>. HIDE DEF k
<1>5. /\ t \in TaskStates /\ t.at = "subscriptions" /\ t.part = "close"
      /\ t.then = k.then /\ Refers(t, Established) /\ Ending(t) /\ ~Initiating(t)
      /\ \A s \in Subs : sub[s].registered => s \in t.todo
  BY <1>3, SweepBegins
<1>. HIDE DEF t
<1>6. exchanges' = exchanges \ {Goodbye(p)} /\ session' = session /\ task' = [task EXCEPT ![p] = t]
  BY <1>1, <1>3, <1>4 DEF CloseExchange, EndsSession, SessionStates
<1>7. Placed(p, t, session', exchanges') /\ ~Shutting(t) /\ Engaged(t)
  BY <1>4, <1>5, <1>6 DEF Placed, Initiating, Engaged
<1>8. exchanges' \subseteq Exchanges
  BY <1>6 DEF TypesInv
<1>9. Company(p, t)
  BY <1>2, <1>3, <1>5, <1>7, LikeKeeps DEF Like
<1>10. exchanges' \subseteq Farewells(p, t)
  BY <1>3, <1>4, <1>6 DEF Farewells
<1>. QED
  BY <1>1, <1>2, <1>3, <1>4, <1>5, <1>6, <1>7, <1>8, <1>9, <1>10, CloserGoesOn DEF k

\* The session is over, and every subscription of it closed.
LEMMA EndStep ==
    ASSUME SubsInv, TypesInv, Outer, NEW p \in Tasks, End(p)
    PROVE  SubsInv' /\ TypesInv' /\ Outer'
<1> DEFINE k == task[p]
           t == IF k.then = "done" THEN Done(k)
                ELSE [k EXCEPT !.at = k.then, !.part = "none", !.todo = {}, !.then = "idle"]
<1>1. /\ k.at = "subscriptions" /\ k.part = "close" /\ \A s \in k.todo : sub[s].isClosed
      /\ session' = [session EXCEPT !.ended = TRUE]
      /\ task' = [task EXCEPT ![p] = t]
      /\ UNCHANGED <<sub, version, committing, pending, exchanges>>
  BY DEF End, AllClosed, TypesInv, data
<1>2. Engaged(k) /\ Ending(k) /\ Sweeping(k) /\ ~Shutting(k)
  BY <1>1 DEF Engaged, Ending, Sweeping, Shutting
<1>3. /\ k \in TaskStates /\ Placed(p, k, session, exchanges)
      /\ session \in SessionStates /\ session.closing
      /\ Company(p, k)
      /\ ~session.deferredClose => exchanges \subseteq Farewells(p, k)
      /\ \A s \in Subs : ~sub[s].viaSession
  BY <1>1, <1>2, CloserFacts
<1>4. ~session.deferredClose /\ k.then # "exchanges"
  BY <1>2, <1>3 DEF Placed
<1>5. \A s \in Subs : sub[s].registered => sub[s].isClosed
  BY <1>1 DEF Outer, SweepInv
<1>. HIDE DEF k
<1>6. /\ t \in TaskStates /\ t.todo = {} /\ t.part = "none"
      /\ t.at \in {"idle", "done", "closed", "subscriptions"}
  <2>1. CASE k.then = "done"
    BY <1>3, <2>1 DEF Done, Idle, TaskStates
  <2>2. CASE k.then # "done"
    <3> DEFINE l == k.then
               u == [k EXCEPT !.at = l, !.part = "none", !.todo = {}, !.then = "idle"]
    <3>1. t = u /\ l \in {"idle", "done", "closed", "subscriptions"}
      BY <1>3, <1>4, <2>2 DEF TaskStates
    <3>. HIDE DEF l, t
    <3>2. u \in TaskStates
      <4> DEFINE T == {}
      <4>1. l \in {"idle", "done", "closed", "subscriptions"} /\ k \in TaskStates
              /\ T \in SUBSET Subs
        BY <1>3, <3>1
      <4>. HIDE DEF T
      <4> DEFINE v == [k EXCEPT !.at = l, !.part = "none", !.todo = T]
      <4>2. v \in TaskStates
        BY <4>1 DEF TaskStates
      <4>3. u = [v EXCEPT !.then = "idle"]
        BY <4>1 DEF T, TaskStates
      <4>. HIDE DEF v, u
      <4>. QED
        BY <4>2, <4>3, ThenType
    <3>3. u.at = l /\ u.part = "none" /\ u.todo = {}
      BY <1>3 DEF TaskStates
    <3>. QED
      BY <3>1, <3>2, <3>3
  <2>. QED
    BY <2>1, <2>2
<1>. HIDE DEF t
<1>7. /\ ~Sweeping(t) /\ Placed(p, t, session', exchanges') /\ Refers(t, Established')
      /\ ~Initiating(t) /\ ~Ending(t) /\ ~Shutting(t)
  BY <1>6 DEF Sweeping, Placed, Initiating, Shutting, Ending, Refers
<1>8. /\ session' \in SessionStates /\ session'.closing /\ ~session'.deferredClose
      /\ session'.ended
  BY <1>1, <1>3, <1>4 DEF SessionStates
<1>9. \A s \in Subs : Remains(sub[s], sub'[s]) /\ ~sub'[s].viaSession
  BY <1>1, <1>3 DEF Remains, Advances
<1>10. exchanges' \subseteq Farewells(p, t) /\ exchanges' \subseteq Exchanges
  BY <1>1, <1>3, <1>4 DEF Farewells, TypesInv, k
<1>11. Company(p, t)
  BY <1>3, <1>7 DEF Company, Beside
<1>12. \A s \in Subs : sub'[s].registered => sub'[s].isClosed
  BY <1>1, <1>5
<1>13. TypesInv' /\ Outer'
  BY <1>1, <1>6, <1>7, <1>8, <1>9, <1>10, <1>11, <1>12, CloserKeeps
<1>. QED
  BY <1>1, <1>13, SubsUnchanged

\* The update that close() waited for is over.
LEMMA UpdateAwaitedStep ==
    ASSUME SubsInv, TypesInv, Outer, NEW p \in Tasks, UpdateAwaited(p)
    PROVE  SubsInv' /\ TypesInv' /\ Outer'
<1> DEFINE k == task[p]
           s == k.awaited
           x == sub[s]
           t == [k EXCEPT !.at = "subscriptions", !.awaited = None]
<1>1. /\ k.at \in {"flushing", "updating"} /\ x.loop = "none"
      /\ task' = [task EXCEPT ![p] = t]
      /\ UNCHANGED <<version, committing, pending, session, exchanges>>
  BY DEF UpdateAwaited, data
<1>2. k \in TaskStates /\ Refers(k, Established) /\ s \in Subs /\ exchanges \subseteq Exchanges
  BY <1>1 DEF TypesInv, Outer, RefsInv, Refers
<1>. HIDE DEF k
<1>3. t \in TaskStates
  BY <1>2 DEF TaskStates
<1>4. /\ t.at = "subscriptions" /\ t.part = k.part /\ t.todo = k.todo /\ t.rest = k.rest
      /\ t.currentExchange = k.currentExchange /\ t.then = k.then
  BY <1>2 DEF TaskStates
<1>. HIDE DEF t
<1>5. Refers(t, Established) /\ t.at \notin {"seeding", "flushing", "handling"}
  BY <1>2, <1>4 DEF Refers
<1>6. CASE ~Engaged(k)
  <2>1. sub' = sub
    BY <1>1, <1>6 DEF UpdateAwaited, Engaged, Initiating, Shutting, k
  <2>2. ~Engaged(t)
    BY <1>1, <1>4, <1>6 DEF Engaged, Initiating, Shutting, Ending
  <2>3. session \in SessionStates /\ SessionStays
    BY <1>1 DEF TypesInv, SessionStates, SessionStays
  <2>. QED
    BY <1>1, <1>3, <1>5, <1>6, <2>1, <2>2, <2>3, OneTask DEF SessionStates, k
<1>7. CASE Engaged(k)
  <2>1. /\ Placed(p, k, session, exchanges)
        /\ session \in SessionStates /\ session.closing
        /\ session.deferredClose => ~session.ended /\ exchanges # {}
        /\ Company(p, k)
        /\ Shutting(k) => \A q \in Tasks : Engaged(task[q]) => q = p
        /\ \A q \in Tasks : Ending(task[q]) => ~session.deferredClose
        /\ ~session.deferredClose /\ ~Shutting(k) => exchanges \subseteq Farewells(p, k)
        /\ \A u \in Subs : sub[u].viaSession => k.at = "flushing" /\ s = u
    BY <1>7, CloserFacts DEF k
  <2>2. Like(k, t)
    BY <1>1, <1>2, <1>4, <1>7 DEF Like, Engaged, Initiating, Shutting, Ending, Refers
  <2>3. Placed(p, t, session, exchanges) /\ Engaged(t)
    BY <1>1, <1>2, <1>4, <1>7, <2>1, <2>2 DEF Placed, Like, Engaged, Shutting, Refers
  <2>4. Company(p, t)
    BY <2>1, <2>2, LikeKeeps
  <2>5. ~session.deferredClose /\ ~Shutting(t) => exchanges \subseteq Farewells(p, t)
    BY <1>1, <1>4, <2>1, <2>2 DEF Farewells, Like
  <2>6. \A q \in Tasks : q # p /\ Ending(task[q]) => ~session.deferredClose /\ ~Shutting(t)
    BY <2>1, <2>2 DEF Like, Engaged
  <2>7. CASE k.at = "updating"
    <3>1. sub' = sub
      BY <2>7 DEF UpdateAwaited, k
    <3>2. Sweeping(t) => \A u \in Subs : sub[u].registered /\ ~sub[u].isClosed => u \in t.todo
      BY <1>4, <2>7 DEF Outer, SweepInv, Sweeping, k
    <3>. QED
      BY <1>1, <1>2, <1>3, <1>5, <1>7, <2>1, <2>3, <2>4, <2>5, <2>6, <2>7, <3>1, <3>2, CloserGoesOn
      DEF k
  <2>8. CASE k.at = "flushing"
    <3> DEFINE y == Unregister(x)
               N == Notices
    <3>1. sub' = [sub EXCEPT ![s] = y]
      BY <1>2, <2>8 DEF UpdateAwaited, SubsInv, k
    <3>2. Coherent(x) /\ Aware(x, N, version) /\ version \in Int
      BY <1>2, VersionType DEF SubsInv
    <3>3. x.isClosed /\ k.part = "shutdown"
      BY <1>2, <2>8 DEF Outer, FlushInv, Refers, k
    <3>. HIDE DEF s, x, N
    <3>4. ~x.activated /\ ~x.viaSession
      BY <1>1, <3>2, <3>3 DEF Coherent
    <3>5. /\ Coherent(y) /\ Aware(y, N, version) /\ Advances(x, y)
          /\ y.isClosed = x.isClosed /\ y.viaSession = x.viaSession
      BY <3>2, <3>4, UnregisterKeeps
    <3>. HIDE DEF y
    <3>6. SubsInv' /\ sub'[s] = y /\ \A u \in Subs : u # s => sub'[u] = sub[u]
      BY <1>1, <1>2, <3>1, <3>5, OneSub DEF N
    <3>7. \A u \in Subs : Remains(sub[u], sub'[u]) /\ ~sub'[u].viaSession
      BY <2>1, <3>4, <3>5, <3>6 DEF Remains, Advances, x
    <3>8. Established \subseteq Established'
      BY <3>7 DEF Established, Remains, Advances
    <3>9. Refers(t, Established') /\ ~Sweeping(t)
      BY <1>4, <1>5, <3>3, <3>8 DEF Refers, Sweeping
    <3>10. Shutting(t) /\ ~session'.ended
      BY <1>1, <1>4, <2>3, <3>3 DEF Shutting, Placed
    <3>11. TypesInv' /\ Outer'
      BY <1>1, <1>2, <1>3, <1>5, <2>1, <2>3, <2>4, <2>6, <3>7, <3>9, <3>10, CloserKeeps
    <3>. QED
      BY <3>6, <3>11
  <2>. QED
    BY <1>1, <2>7, <2>8
<1>. QED
  BY <1>6, <1>7

\* close() of a subscription, by the task that closes the session or by a request.
LEMMA CloseSubscriptionStep ==
    ASSUME SubsInv, TypesInv, Outer, NEW p \in Tasks, CloseSubscription(p)
    PROVE  SubsInv' /\ TypesInv' /\ Outer'
<1> DEFINE k == task[p]
           flush == k.part = "shutdown" /\ k.kind # "force"
<1>1. k.at = "subscriptions" /\ UNCHANGED <<version, committing, pending, session>>
  BY DEF CloseSubscription, data
<1>2. k \in TaskStates /\ Refers(k, Established)
  BY <1>1 DEF TypesInv, Outer, RefsInv, Refers
<1>3. PICK s \in {u \in k.todo : ~sub[u].isClosed} :
         LET x == sub[s]
             stopped == StopListening([x EXCEPT !.isClosed = TRUE,
                                                !.delay = IF flush THEN FALSE ELSE @])
             flushing == flush /\ x.outstanding # {}
             y == IF flushing THEN Trigger(stopped, TRUE, TRUE, isClosing) ELSE stopped
         IN
         /\ sub' = [sub EXCEPT ![s] = IF flushing THEN y ELSE Unregister(y)]
         /\ exchanges' = exchanges \cup (Opened(s, y) \ Opened(s, x))
         /\ task' = [task EXCEPT ![p] =
                       IF y.loop = "none" THEN k
                       ELSE [k EXCEPT !.awaited = s,
                                      !.at = IF flushing THEN "flushing" ELSE "updating"]]
  BY DEF CloseSubscription
<1> DEFINE x == sub[s]
           d == IF flush THEN FALSE ELSE x.delay
           w == StopListening([x EXCEPT !.isClosed = TRUE, !.delay = d])
           N == Notices
           c == isClosing
           o == TRUE
<1>4. s \in Subs /\ s \in k.todo /\ x.state = "established" /\ ~x.isClosed
  BY <1>2, <1>3 DEF Refers, Established
<1>5. Coherent(x) /\ Aware(x, N, version) /\ version \in Int /\ c \in BOOLEAN /\ o \in BOOLEAN
  BY <1>4, VersionType, IsClosing DEF SubsInv
<1>6. d \in BOOLEAN /\ (d => x.delay) /\ x.state # "new"
  BY <1>4, <1>5 DEF Coherent, Subscriptions
<1>7. w = StopListening([x EXCEPT !.isClosed = TRUE, !.delay = IF flush THEN FALSE ELSE @])
  BY <1>5 DEF Coherent, Subscriptions
<1>. HIDE DEF k, d, N, c, o
<1>8. /\ Coherent(w) /\ Aware(w, N, version) /\ Advances(x, w)
      /\ w.isClosed /\ w.viaSession = x.viaSession /\ w.loop = x.loop /\ w.place = x.place
  <2>. HIDE DEF x
  <2>. QED
    BY <1>5, <1>6, StopKeeps
<1>9. ~w.activated /\ w.state = "established"
  BY <1>4, <1>8 DEF Coherent, Advances
<1>10. CASE ~(flush /\ x.outstanding # {})
  <2> DEFINE y == Unregister(w)
             m == IF x.loop = "none" THEN "subscriptions" ELSE "updating"
             a == IF x.loop = "none" THEN k.awaited ELSE s
             t == [k EXCEPT !.at = m, !.awaited = a]
  <2>1. sub' = [sub EXCEPT ![s] = y] /\ exchanges' = exchanges \cup (Opened(s, w) \ Opened(s, x))
    BY <1>3, <1>7, <1>10
  <2>2. task' = [task EXCEPT ![p] = t]
    <3>1. task' = [task EXCEPT ![p] =
                     IF w.loop = "none" THEN k ELSE [k EXCEPT !.awaited = s, !.at = "updating"]]
      BY <1>3, <1>7, <1>10
    <3>2. CASE x.loop = "none"
      <4>1. t = k
        BY <1>1, <1>2, <3>2 DEF TaskStates
      <4>. QED
        BY <1>8, <3>1, <3>2, <4>1
    <3>3. CASE x.loop # "none"
      <4>1. t = [k EXCEPT !.awaited = s, !.at = "updating"]
        BY <1>2, <3>3 DEF TaskStates
      <4>. QED
        BY <1>8, <3>1, <3>3, <4>1
    <3>. QED
      BY <3>2, <3>3
  <2>3. exchanges' = exchanges
    BY <1>8, <2>1 DEF Opened
  <2>. HIDE DEF x, w
  <2>4. /\ Coherent(y) /\ Aware(y, N, version) /\ Advances(w, y) /\ y.isClosed = w.isClosed
        /\ y.viaSession = w.viaSession
    BY <1>5, <1>8, <1>9, UnregisterKeeps
  <2>. HIDE DEF y
  <2>5. Evolves(x, y)
    BY <1>4, <1>8, <2>4 DEF Evolves, Advances
  <2>6. SubsInv' /\ sub'[s] = y /\ \A u \in Subs : u # s => sub'[u] = sub[u]
    BY <1>1, <1>4, <2>1, <2>4, OneSub DEF N
  <2>7. \A u \in Subs : Evolves(sub[u], sub'[u])
    BY <2>5, <2>6 DEF Evolves, Advances, x
  <2>8. /\ m \in {"subscriptions", "updating"} /\ a \in Subs \cup {None}
        /\ m = "updating" => a \in Subs
    BY <1>2, <1>4 DEF TaskStates
  <2>. HIDE DEF m, a
  <2>9. t \in TaskStates
    BY <1>2, <2>8 DEF TaskStates
  <2>10. /\ t.at = m /\ t.part = k.part /\ t.todo = k.todo /\ t.rest = k.rest /\ t.awaited = a
         /\ t.currentExchange = k.currentExchange /\ t.then = k.then
    BY <1>2 DEF TaskStates
  <2>. HIDE DEF t
  <2>11. Established \subseteq Established'
    BY <2>7 DEF Established, Evolves, Advances
  <2>12. Refers(t, Established') /\ t.at \notin {"seeding", "flushing", "handling"}
    BY <1>2, <2>8, <2>10, <2>11 DEF Refers
  <2>13. exchanges' \subseteq Exchanges
    BY <2>3 DEF TypesInv
  <2>14. CASE ~Engaged(k)
    <3>1. ~Engaged(t)
      BY <1>1, <2>8, <2>10, <2>14 DEF Engaged, Initiating, Shutting, Ending
    <3>2. \A q \in Tasks : task'[q] = IF q = p THEN t ELSE task[q]
      BY <2>2 DEF TypesInv
    <3>3. EngagedStay /\ SessionStays
      BY <1>1, <2>14, <3>1, <3>2 DEF EngagedStay, SessionStays, k
    <3>4. session.deferredClose => exchanges' # {}
      BY <2>3 DEF Outer, TokenInv
    <3>5. \A q \in Tasks : /\ task'[q].at \in {"seeding", "handling"} => task'[q] = task[q]
                           /\ task'[q] = task[q] \/ Refers(task'[q], Established')
      BY <2>12, <3>2
    <3>6. Outer'
      BY <2>3, <2>7, <3>3, <3>4, <3>5, BystanderKeeps
    <3>7. TypesInv'
      BY <1>1, <2>2, <2>3, <2>9 DEF TypesInv
    <3>. QED
      BY <2>6, <3>6, <3>7
  <2>15. CASE Engaged(k)
    <3>1. /\ Placed(p, k, session, exchanges)
          /\ session \in SessionStates /\ session.closing
          /\ session.deferredClose => ~session.ended /\ exchanges # {}
          /\ Company(p, k)
          /\ Shutting(k) => \A q \in Tasks : Engaged(task[q]) => q = p
          /\ \A q \in Tasks : Ending(task[q]) => ~session.deferredClose
          /\ ~session.deferredClose /\ ~Shutting(k) => exchanges \subseteq Farewells(p, k)
          /\ session.ended => \A u \in Subs : sub[u].registered => sub[u].isClosed
          /\ \A u \in Subs : sub[u].viaSession => k.at = "flushing"
      BY <2>15, CloserFacts DEF k
    <3>2. Like(k, t)
      BY <1>1, <2>8, <2>10, <2>15 DEF Like, Engaged, Initiating, Shutting, Ending
    <3>3. Placed(p, t, session, exchanges) /\ Engaged(t)
      BY <1>1, <2>10, <2>15, <3>1, <3>2 DEF Placed, Like, Engaged, Shutting
    <3>4. Company(p, t)
      BY <3>1, <3>2, LikeKeeps
    <3>5. ~session.deferredClose /\ ~Shutting(t) => exchanges \subseteq Farewells(p, t)
      BY <1>1, <2>8, <2>10, <3>1, <3>2 DEF Farewells, Like
    <3>6. \A q \in Tasks : q # p /\ Ending(task[q]) => ~session.deferredClose /\ ~Shutting(t)
      BY <3>1, <3>2 DEF Like, Engaged
    <3>7. session.ended => \A u \in Subs : sub'[u].registered => sub'[u].isClosed
      BY <2>7, <3>1 DEF Evolves, Advances
    <3>8. \A u \in Subs : Remains(sub[u], sub'[u]) /\ ~sub'[u].viaSession
      BY <1>1, <2>7, <3>1 DEF Remains, Evolves
    <3>9. Sweeping(t) => \A u \in Subs : sub'[u].registered /\ ~sub'[u].isClosed => u \in t.todo
      <4>1. Sweeping(t) => Sweeping(k) /\ t.todo = k.todo
        BY <1>1, <2>10 DEF Sweeping
      <4>2. Sweeping(k) => \A u \in Subs : sub[u].registered /\ ~sub[u].isClosed => u \in k.todo
        BY DEF Outer, SweepInv, Sweeping, k
      <4>. QED
        BY <2>7, <4>1, <4>2 DEF Evolves, Advances
    <3>10. TypesInv' /\ Outer'
      BY <1>1, <2>2, <2>3, <2>9, <2>12, <2>13, <3>1, <3>8, <3>9, <3>3, <3>4, <3>5, <3>6, <3>7,
         CloserKeeps
    <3>. QED
      BY <2>6, <3>10
  <2>. QED
    BY <2>14, <2>15
<1>11. CASE flush /\ x.outstanding # {}
  <2> DEFINE y == Trigger(w, o, o, c)
             t == [k EXCEPT !.awaited = s, !.at = "flushing"]
  <2>1. sub' = [sub EXCEPT ![s] = y] /\ exchanges' = exchanges \cup (Opened(s, y) \ Opened(s, x))
    BY <1>3, <1>7, <1>11 DEF o, c
  <2>2. Engaged(k) /\ Shutting(k)
    BY <1>1, <1>11 DEF Engaged, Initiating, Shutting
  <2>3. /\ Placed(p, k, session, exchanges)
        /\ session \in SessionStates /\ session.closing /\ ~session.ended
        /\ \A q \in Tasks : Engaged(task[q]) => q = p
        /\ \A u \in Subs : sub[u].viaSession => k.at = "flushing"
    BY <2>2, CloserFacts DEF k, Placed
  <2>4. Coherent(w) /\ Aware(w, N, version) /\ w.state = "established"
    BY <1>8, <1>9
  <2>. HIDE DEF w, x
  <2>5. /\ Coherent(y) /\ Aware(y, N, version) /\ Advances(w, y)
        /\ y.isClosed = w.isClosed /\ y.loop # "none"
    BY <1>5, <2>4, TriggerKeeps
  <2>6. task' = [task EXCEPT ![p] = t]
    BY <1>3, <1>7, <1>11, <2>5 DEF w, x, o, c
  <2>. HIDE DEF y
  <2>7. SubsInv' /\ sub'[s] = y /\ \A u \in Subs : u # s => sub'[u] = sub[u]
    BY <1>1, <1>4, <2>1, <2>5, OneSub DEF N
  <2>8. Remains(x, y) /\ y.isClosed
    BY <1>4, <1>8, <2>5 DEF Remains, Advances
  <2>9. \A u \in Subs : Remains(sub[u], sub'[u]) /\ (sub'[u].viaSession => u = s)
    BY <1>1, <2>3, <2>7, <2>8 DEF Remains, Advances, x
  <2>10. t \in TaskStates
    BY <1>2, <1>4 DEF TaskStates
  <2>11. /\ t.at = "flushing" /\ t.part = k.part /\ t.todo = k.todo /\ t.rest = k.rest
         /\ t.awaited = s /\ t.currentExchange = k.currentExchange
    BY <1>2 DEF TaskStates
  <2>. HIDE DEF t
  <2>12. Established \subseteq Established'
    BY <2>9 DEF Established, Remains, Advances
  <2>13. Refers(t, Established') /\ ~Sweeping(t)
    BY <1>2, <1>4, <1>11, <2>11, <2>12 DEF Refers, Sweeping
  <2>14. exchanges \subseteq exchanges' /\ exchanges' \subseteq Exchanges
    BY <1>4, <2>1 DEF Opened, Exchanges, TypesInv
  <2>15. /\ ~session.deferredClose /\ Placed(p, t, session, exchanges') /\ Engaged(t)
         /\ Shutting(t)
    BY <1>1, <2>2, <2>3, <2>11, <2>14 DEF Placed, Ending, Engaged, Initiating, Shutting
  <2>16. Company(p, t) /\ \A q \in Tasks : q # p => ~Ending(task[q])
    BY <2>3 DEF Company, Engaged
  <2>17. TypesInv' /\ Outer'
    BY <1>1, <2>3, <2>6, <2>7, <2>8, <2>9, <2>10, <2>11, <2>13, <2>14, <2>15, <2>16,
       CloserKeeps
  <2>. QED
    BY <2>7, <2>17
<1>. QED
  BY <1>10, <1>11

-----------------------------------------------------------------------------
(***************************************************************************)
(* The theorems.                                                           *)
(***************************************************************************)

LEMMA InitHolds == Init => Inv
<1>. SUFFICES ASSUME Init PROVE Inv
  OBVIOUS
<1> DEFINE x == NewSubscription
<1>1. /\ sub = [s \in Subs |-> x] /\ version = 0 /\ committing = {}
      /\ pending = [a \in Attrs |-> 0]
      /\ session = [closing |-> FALSE, deferredClose |-> FALSE, isPeerLost |-> FALSE, ended |-> FALSE]
      /\ exchanges = {} /\ task = [p \in Tasks |-> Idle]
  BY DEF Init, SubInit
<1>2. 0 \in 0 .. MaxChanges /\ 0 \in 0 .. MaxErrors + 1 /\ Unseeded \in Unseeded .. MaxChanges
  BY SubscriptionAssumption DEF Unseeded
<1>3. x \in Subscriptions
  BY <1>2 DEF NewSubscription, Subscriptions
<1>4. /\ ~x.activated /\ ~x.registered /\ ~x.delay /\ x.loop = "none" /\ x.state = "new"
      /\ x.seeded = Unseeded /\ ~x.viaSession /\ x.carried = {} /\ x.fresh = {} /\ ~x.isClosed
  BY DEF NewSubscription
<1>. HIDE DEF x
<1>5. Coherent(x) /\ \A N, v : Aware(x, N, v)
  BY <1>3, <1>4 DEF Coherent, Aware
<1>6. SubsInv
  BY <1>1, <1>2, <1>3, <1>5 DEF SubsInv, Unpublished
<1>7. \A s \in Subs : ~sub[s].registered /\ ~sub[s].viaSession
  BY <1>1, <1>4
<1>8. \A p \in Tasks : /\ task[p] = Idle /\ task[p].at = "idle" /\ task[p].part = "none"
                       /\ task[p].todo = {} /\ ~Engaged(task[p])
  BY <1>1, TaskFacts
<1>9. TypesInv
  BY <1>1, TaskFacts DEF TypesInv
<1>10. RefsInv /\ SeedInv
  BY <1>8 DEF RefsInv, SeedInv
<1>11. TokenInv
  BY <1>1, <1>8 DEF TokenInv, Engaged, Initiating, Over
<1>12. RequestInv
  BY <1>8, TaskFacts DEF RequestInv
<1>13. FlushInv /\ SweepInv
  BY <1>1, <1>7, <1>8 DEF FlushInv, SweepInv
<1>. QED
  BY <1>6, <1>9, <1>10, <1>11, <1>12, <1>13 DEF Inv

LEMMA NextKeeps == Inv /\ [Next]_vars => Inv'
<1>. SUFFICES ASSUME SubsInv, TypesInv, Outer, [Next]_vars
              PROVE  SubsInv' /\ TypesInv' /\ Outer'
  BY DEF Inv, Outer
<1>1. CASE UNCHANGED vars
  <2>1. /\ sub' = sub /\ version' = version /\ committing' = committing /\ pending' = pending
        /\ session' = session /\ exchanges' = exchanges /\ task' = task
    BY <1>1 DEF vars, data
  <2>2. SubsInv'
    BY <2>1, SubsUnchanged
  <2>3. TypesInv'
    BY <2>1 DEF TypesInv
  <2>4. Outer'
    BY <2>1 DEF Outer, RefsInv, SeedInv, TokenInv, RequestInv, FlushInv, SweepInv, Established,
                Over, Goodbyes
  <2>. QED
    BY <2>2, <2>3, <2>4
<1>2. CASE Observe
  <2>1. SubsInv' /\ Outer'
    BY <1>2, ObserveStep
  <2>. QED
    BY <1>2, <2>1 DEF Observe, TypesInv
<1>3. ASSUME NEW p \in Tasks, Continue(p) PROVE SubsInv' /\ TypesInv' /\ Outer'
  <2>1. CASE CloseSubscription(p)
    BY <2>1, CloseSubscriptionStep
  <2>2. CASE UpdateAwaited(p)
    BY <2>2, UpdateAwaitedStep
  <2>3. CASE SubscriptionsClosed(p)
    BY <2>3, SubscriptionsClosedStep
  <2>4. CASE ForceCloseExchange(p)
    BY <2>4, ForceCloseExchangeStep
  <2>5. CASE DeferClose(p)
    BY <2>5, DeferCloseStep
  <2>6. CASE Recheck(p)
    BY <2>6, RecheckStep
  <2>7. CASE RolloverAwaited(p)
    BY <2>7, RolloverAwaitedStep
  <2>8. CASE GoodbyeSent(p)
    BY <2>8, GoodbyeSentStep
  <2>9. CASE End(p)
    BY <2>9, EndStep
  <2>. QED
    BY <1>3, <2>1, <2>2, <2>3, <2>4, <2>5, <2>7, <2>8, <2>9, <2>6 DEF Continue
<1>4. ASSUME NEW c \in Callers, InitiateClose(c) PROVE SubsInv' /\ TypesInv' /\ Outer'
  BY <1>4, InitiateCloseStep
<1>5. ASSUME NEW q \in Requests,
             OpenRequest(q) \/ CloseByCommand(q) \/ CancelSubscriptions(q) \/ Handle(q)
      PROVE  SubsInv' /\ TypesInv' /\ Outer'
  <2>1. CASE OpenRequest(q)
    BY <2>1, OpenRequestStep
  <2>2. CASE CloseByCommand(q)
    BY <2>2, CloseByCommandStep
  <2>3. CASE CancelSubscriptions(q)
    BY <2>3, CancelSubscriptionsStep
  <2>4. CASE FabricDeleted(q)
    BY <2>4, FabricDeletedStep
  <2>5. CASE HandlePeerCancel(q)
    BY <2>5, HandlePeerCancelStep
  <2>6. CASE Subscribed(q)
    BY <2>6, SubscribedStep
  <2>7. CASE SubscribeFails(q)
    BY <2>7, SubscribeFailsStep
  <2>8. CASE FinishRequest(q)
    BY <2>8, FinishRequestStep
  <2>. QED
    BY <1>5, <2>1, <2>2, <2>3, <2>4, <2>5, <2>6, <2>7, <2>8 DEF Handle
<1>6. ASSUME NEW q \in Requests, NEW s \in Subs, Subscribe(q, s)
      PROVE  SubsInv' /\ TypesInv' /\ Outer'
  BY <1>6, SubscribeStep
<1>7. ASSUME NEW s \in Subs, DelayTimer(s) \/ Update(s) \/ CloseTimer(s)
      PROVE  SubsInv' /\ TypesInv' /\ Outer'
  <2>1. CASE CloseMessenger(s)
    BY <2>1, CloseMessengerStep
  <2>2. CASE CloseTimer(s)
    BY <2>2, CloseTimerStep
  <2>3. CASE DelayTimer(s) \/ SendUpdateEnds(s) \/ NoSessionForUpdate(s) \/ LeaveExchangeOpen(s)
    BY <2>3, UpdateStep
  <2>. QED
    BY <1>7, <2>1, <2>2, <2>3 DEF Update
<1>. QED
  BY <1>1, <1>2, <1>3, <1>4, <1>5, <1>6, <1>7 DEF Next

\* The inductive invariant of SessionClose: whatever closes the session, and whatever is in
\* flight, its close is with the task that initiated it, with the exchanges it is deferred to, or
\* with whom they left it to.
THEOREM Invariance == Spec => []Inv
<1>1. Init => Inv
  BY InitHolds
<1>2. Inv /\ [Next]_vars => Inv'
  BY NextKeeps
<1>. QED
  BY <1>1, <1>2, PTL DEF Spec

\* Types, and how the fields of an update belong together, for any tasks, subscriptions and
\* attributes.
THEOREM TypeCorrect == Spec => []TypeOK
<1>1. Inv => TypeOK
  <2>. SUFFICES ASSUME TypesInv, SubsInv PROVE TypeOK
    BY DEF Inv
  <2>1. \A s \in Subs : Coherent(sub[s])
    BY DEF SubsInv
  <2>2. ASSUME NEW s \in Subs
        PROVE  LET x == sub[s] IN
         /\ x.state \in {"new", "seeding", "established"}
         /\ x.loop \in {"none", "sending", "closing", "settling"}
         /\ x.place \in {"here", "nowhere"} /\ x.result \in {"sent", "unreachable", "other"}
         /\ x.seeded \in Unseeded .. MaxChanges /\ x.errors \in 0 .. MaxErrors + 1
         /\ x.outstanding \subseteq Attrs /\ x.stale \subseteq Attrs /\ x.dropped \subseteq Attrs
         /\ x.halfRead \subseteq Attrs
         /\ x.fresh \subseteq x.carried /\ x.carried \subseteq Attrs
         /\ x.loop \in {"none", "settling"} => x.carried = {}
         /\ x.activated => x.registered /\ x.listening
    <3> DEFINE x == sub[s]
    <3>1. x \in Subscriptions /\ Coherent(x)
      BY <2>1 DEF Coherent
    <3>. HIDE DEF x
    <3>2. /\ x.state \in {"new", "seeding", "established"}
          /\ x.loop \in {"none", "sending", "closing", "settling"}
          /\ x.place \in {"here", "nowhere"} /\ x.result \in {"sent", "unreachable", "other"}
          /\ x.seeded \in Unseeded .. MaxChanges /\ x.errors \in 0 .. MaxErrors + 1
          /\ x.outstanding \subseteq Attrs /\ x.stale \subseteq Attrs /\ x.dropped \subseteq Attrs
          /\ x.halfRead \subseteq Attrs /\ x.carried \subseteq Attrs
      BY <3>1 DEF Subscriptions
    <3>3. /\ x.fresh \subseteq x.carried
          /\ x.loop \in {"none", "settling"} => x.carried = {}
          /\ x.activated => x.registered /\ x.listening
      BY <3>1 DEF Coherent
    <3>. QED
      BY <3>2, <3>3 DEF x
  <2>3. \A p \in Tasks : task[p].todo \subseteq Subs /\ task[p].rest \subseteq Exchanges \cup Subs
    BY DEF TypesInv, TaskStates
  <2>. QED
    BY <2>2, <2>3 DEF TypeOK, TypesInv, SubsInv
<1>. QED
  BY <1>1, Invariance, PTL

\* No orphans: when NodeSession.close has ended the session, by whichever of the ways that lead
\* there and even while it runs a second time, no subscription goes on with the session, and no
\* exchange of it is open but the notice a second NodeSession.close is sending to the peer.
THEOREM NoOrphansTheorem == Spec => []NoOrphans
<1>1. Inv => NoOrphans
  <2>. SUFFICES ASSUME SubsInv, TokenInv, SweepInv, session.ended PROVE NoOrphans
    BY DEF Inv, NoOrphans
  <2>1. \A s \in Subs : sub[s].registered => sub[s].isClosed
    BY DEF SweepInv
  <2>2. \A s \in Subs : sub[s].activated => sub[s].registered
    BY DEF SubsInv, Coherent
  <2>3. exchanges \subseteq Goodbyes
    BY DEF TokenInv
  <2>. QED
    BY <2>1, <2>2, <2>3 DEF NoOrphans, Goodbyes
<1>. QED
  BY <1>1, Invariance, PTL

\* An active subscription forgets no change: ServerSubscription keeps every change its subscriber
\* has not got as outstanding, in the report on its way or still to be notified, while updates fail,
\* overlap and are flushed by the closing session.  It loses one only where the code gives it up:
\* after too many failed updates, or when the initial report read the cluster between the two
\* phases of the change's commit.
THEOREM NothingForgottenTheorem == Spec => []NothingForgotten
<1>1. Inv => NothingForgotten
  BY DEF Inv, SubsInv, Aware, Notices, NothingForgotten, GivenUp
<1>. QED
  BY <1>1, Invariance, PTL

\* The close of a session is in somebody's hands until it has ended: of a task that initiates
\* or performs it, or of the exchanges it was deferred to, of which one is open.
InHands ==
    session.closing /\ ~session.ended =>
        \/ session.deferredClose /\ exchanges # {}
        \/ \E p \in Tasks : Engaged(task[p])

\* One task initiates the close.  NodeSession.close is performed by none while the close is
\* shut down or deferred, and then by at most two: the one that initiated the close, which continues to
\* the end of initiateClose, and the one that closed the last exchange.
AtMostTwo ==
    /\ \A p, q \in Tasks : Initiating(task[p]) /\ Initiating(task[q]) => p = q
    /\ \A p, q \in Tasks : Ending(task[p]) /\ Ending(task[q])
                             /\ (task[p].then = "done" <=> task[q].then = "done") => p = q
    /\ \A p, q \in Tasks : Initiating(task[p]) /\ Ending(task[q]) => task[q].then # "done"
    /\ session.deferredClose \/ (\E p \in Tasks : Shutting(task[p])) =>
          ~session.ended /\ \A q \in Tasks : ~Ending(task[q])

\* Session.initiateClose, initiateForceClose and NodeSession.close never lose the close of a
\* session, and at most two tasks close it at once: one that initiated the close and one that closed
\* the last exchange between the deferral of the close and the recheck of initiateClose.
THEOREM CloseInHands == Spec => [](InHands /\ AtMostTwo)
<1>1. Inv => InHands
  BY DEF Inv, TokenInv, InHands
<1>2. Inv => AtMostTwo
  <2>. SUFFICES ASSUME TokenInv PROVE AtMostTwo
    BY DEF Inv
  <2>1. \A p, q \in Tasks : Engaged(task[p]) /\ Engaged(task[q]) => p = q \/ Beside(task[p], task[q])
    BY DEF TokenInv
  <2>2. \A p, q \in Tasks : /\ Initiating(task[p]) /\ Initiating(task[q]) => p = q
                            /\ Initiating(task[p]) /\ Ending(task[q]) /\ p # q => task[q].then # "done"
                            /\ Ending(task[p]) /\ Ending(task[q])
                                 /\ (task[p].then = "done" <=> task[q].then = "done") => p = q
    BY <2>1 DEF Engaged, Beside
  <2>3. \A p \in Tasks : ~(Initiating(task[p]) /\ Ending(task[p]))
    BY DEF Initiating, Shutting, Ending
  <2>4. session.deferredClose \/ (\E p \in Tasks : Shutting(task[p])) =>
          ~session.ended /\ \A q \in Tasks : ~Ending(task[q])
    BY DEF TokenInv, Over
  <2>. QED
    BY <2>2, <2>3, <2>4 DEF AtMostTwo
<1>. QED
  BY <1>1, <1>2, Invariance, PTL
=============================================================================
