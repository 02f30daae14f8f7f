----------------------------- MODULE SessionClose -----------------------------
(***************************************************************************)
(* How a secure session ends while its exchanges and subscriptions are in  *)
(* use: Session.initiateClose and initiateForceClose, NodeSession.close,   *)
(* and the subscriptions of ServerSubscription, whose closing waits for    *)
(* the report that is on its way.                                          *)
(*                                                                         *)
(* A task is one asynchronous call stack: a caller that closes the         *)
(* session, the handler of a request, the update loop of a subscription,   *)
(* or the worker that closes an exchange later.  A task that closes an     *)
(* exchange awaits its "closed" observers, and so runs NodeSession.close   *)
(* itself when a deferred close was waiting for that exchange.             *)
(*                                                                         *)
(* This is the only session of the subscriber.  Reports do not report peer *)
(* loss (suppressPeerLoss), so the exchange a closer runs on is never the  *)
(* exchange of a report.                                                   *)
(***************************************************************************)
EXTENDS ServerSubscription

CONSTANTS Callers,       \* tasks that close the session from outside
          Requests,      \* tasks that handle a request of the peer
          Triggers,      \* what callers do: "plain", "flush", "force", "rollover"
          Commands       \* what requests make the server do: "force", "leave", "cancel"

ASSUME TriggersAssumption ==
    /\ Triggers \subseteq {"plain", "flush", "force", "rollover"}
    /\ Commands \subseteq {"force", "leave", "cancel"}

VARIABLES session,    \* fields of the session
          exchanges,  \* the session's open exchanges
          task        \* what each task is doing

vars == <<sub, data, session, exchanges, task>>

isClosing == session.closing \/ session.deferredClose

Report(s) == <<"report", s>>
Lingering(s) == <<"lingering", s>>
Request(q) == <<"request", q>>
Goodbye(p) == <<"goodbye", p>>
None == <<"none">>

Worker(s) == <<"worker", s>>
Tasks == Callers \cup Requests \cup Subs \cup {Worker(s) : s \in Subs}

(***************************************************************************)
(* The fields of a task:                                                   *)
(*   at    the await it is at;  kind, currentExchange: of the close it     *)
(*         performs;                                                       *)
(*   part  whether it closes subscriptions in the "shutdown" logic, in     *)
(*         NodeSession.close, or to "cancel" them;                         *)
(*   todo  subscriptions it has still to close;  awaited: the one whose    *)
(*         update or initial report it waits for;                          *)
(*   rest  the exchanges it has still to close, or the subscriptions that  *)
(*         its loop has already visited to cancel them;                    *)
(*   then  where it continues after NodeSession.close.                     *)
(***************************************************************************)
Idle == [at |-> "idle", kind |-> "none", currentExchange |-> None, part |-> "none",
         todo |-> {}, awaited |-> None, rest |-> {}, then |-> "idle"]

Done(t) == [Idle EXCEPT !.at = "done", !.kind = t.kind]

\* close() returns at once for a subscription that is already closed.
AllClosed(t, part) ==
    t.at = "subscriptions" /\ t.part = part /\ \A s \in t.todo : sub[s].isClosed

Registered == {s \in Subs : sub[s].registered}

Init ==
    /\ SubInit
    /\ session = [closing |-> FALSE, deferredClose |-> FALSE, isPeerLost |-> FALSE, ended |-> FALSE]
    /\ exchanges = {}
    /\ task = [p \in Tasks |-> Idle]

\* The exchange of a report that begins by this session is opened with it.
Opened(s, x) == IF x.loop = "sending" /\ x.place = "here" THEN {Report(s)} ELSE {}

-----------------------------------------------------------------------------
(***************************************************************************)
(* Closing an exchange, and the observer that NodeSession.addExchange adds.*)
(***************************************************************************)

\* Slip: nobody looks whether a deferred close waits.
MutantEndsSession(x) == FALSE

\* A deferred close was waiting for exchange x.
EndsSession(x) == session.deferredClose /\ exchanges = {x}

\* Task p closes exchange x and goes on as t, perhaps after closing the session.
CloseExchange(p, x, t) ==
    /\ exchanges' = exchanges \ {x}
    /\ session' = [session EXCEPT !.deferredClose = @ /\ ~EndsSession(x)]
    /\ task' = [task EXCEPT ![p] =
                  IF EndsSession(x) THEN [t EXCEPT !.at = "rollover", !.then = t.at] ELSE t]

-----------------------------------------------------------------------------
(***************************************************************************)
(* initiateClose and initiateForceClose.                                   *)
(***************************************************************************)

Shutdown(kind) ==
    CASE kind = "plain" -> [Idle EXCEPT !.at = "decide"]
      [] kind \in {"flush", "rollover", "leave", "force"} ->
            [Idle EXCEPT !.at = "subscriptions", !.part = "shutdown", !.todo = Registered]

Initiate(p, kind, currentExchange) ==
    /\ session' = [session EXCEPT !.closing = TRUE, !.isPeerLost = @ \/ kind = "force"]
    /\ task' = [task EXCEPT ![p] =
                  IF isClosing THEN [Idle EXCEPT !.at = "done", !.kind = kind]
                  ELSE [Shutdown(kind) EXCEPT !.kind = kind,
                                              !.currentExchange = currentExchange]]
    /\ UNCHANGED <<sub, data, exchanges>>

InitiateClose(p) ==
    /\ task[p].at = "idle"
    /\ \E kind \in Triggers : Initiate(p, kind, None)

\* closeSubscriptions calls close() of the next subscription, which may wait for
\* the report that flushes it, or for the one that was on its way.
CloseSubscription(p) ==
    LET t == task[p]
        flush == t.part = "shutdown" /\ t.kind # "force" IN
    /\ t.at = "subscriptions"
    /\ \E s \in {u \in t.todo : ~sub[u].isClosed} :
         LET x == sub[s]
             stopped == StopListening([x EXCEPT !.isClosed = TRUE,
                                                !.delay = IF flush THEN FALSE ELSE @])
             flushing == flush /\ x.outstanding # {}
             y == IF flushing THEN Trigger(stopped, TRUE, TRUE, isClosing) ELSE stopped
         IN
         /\ sub' = [sub EXCEPT ![s] = IF flushing THEN y ELSE Unregister(y)]
         /\ exchanges' = exchanges \cup (Opened(s, y) \ Opened(s, x))
         /\ task' = [task EXCEPT ![p] =
                       IF y.loop = "none" THEN t
                       ELSE [t EXCEPT !.awaited = s,
                                      !.at = IF flushing THEN "flushing" ELSE "updating"]]
    /\ UNCHANGED <<data, session>>

\* The update that close() waited for is over.
UpdateAwaited(p) ==
    LET t == task[p] IN
    /\ t.at \in {"flushing", "updating"} /\ sub[t.awaited].loop = "none"
    /\ sub' = IF t.at = "flushing" THEN [sub EXCEPT ![t.awaited] = Unregister(@)] ELSE sub
    /\ task' = [task EXCEPT ![p] = [t EXCEPT !.at = "subscriptions", !.awaited = None]]
    /\ UNCHANGED <<data, session, exchanges>>

\* initiateForceClose goes on to the exchanges there are when the subscriptions
\* are closed.
SubscriptionsClosed(p) ==
    LET t == task[p] IN
    /\ AllClosed(t, "shutdown") /\ t.kind = "force"
    /\ task' = [task EXCEPT ![p] = [t EXCEPT !.at = "exchanges", !.rest = exchanges, !.todo = {}]]
    /\ UNCHANGED <<sub, data, session, exchanges>>

\* initiateForceClose closes the other exchanges with the cause.
ForceCloseExchange(p) ==
    LET t == task[p] IN
    /\ t.at = "exchanges"
    /\ \E x \in t.rest :
         IF x = t.currentExchange THEN
            /\ session' = [session EXCEPT !.deferredClose = TRUE]
            /\ task' = [task EXCEPT ![p].rest = @ \ {x}]
            /\ UNCHANGED exchanges
         ELSE CloseExchange(p, x, [t EXCEPT !.rest = @ \ {x}])
    /\ UNCHANGED <<sub, data>>

\* The end of the shutdown logic: while exchanges are active the close is deferred.
DeferClose(p) ==
    LET t == task[p] IN
    /\ \/ t.at = "decide"
       \/ AllClosed(t, "shutdown") /\ t.kind # "force"
       \/ t.at = "exchanges" /\ t.rest = {}
    /\ session' = [session EXCEPT !.deferredClose = @ \/ exchanges # {}]
    /\ task' = [task EXCEPT ![p] = [t EXCEPT !.at = "recheck", !.todo = {}]]
    /\ UNCHANGED <<sub, data, exchanges>>

\* Slip: it is not asked whether the close is deferred.
MutantMustWait == FALSE

\* Session.initiateClose, after the await of the shutdown logic.
MustWait == session.deferredClose /\ exchanges # {}

\* The last exchange may have closed in between and its observer may close the session;
\* then the session is closed here all the same, a second time.
Recheck(p) ==
    LET t == task[p] IN
    /\ t.at = "recheck"
    /\ task' = [task EXCEPT ![p] = IF MustWait THEN Done(t)
                                   ELSE [t EXCEPT !.at = "rollover", !.then = "done"]]
    /\ UNCHANGED <<sub, data, session, exchanges>>

-----------------------------------------------------------------------------
(***************************************************************************)
(* NodeSession.close.                                                      *)
(***************************************************************************)

CloseSubscriptions(t) == [t EXCEPT !.at = "subscriptions", !.part = "close", !.todo = Registered]

\* await this.#rolloverClose, the mutex in which a rollover closes the session.  Then the
\* peer is told, unless it is lost or the session manager has let go of the session.
RolloverAwaited(p) ==
    LET t == task[p] IN
    /\ t.at = "rollover"
    /\ \A c \in Callers : task[c].kind = "rollover" => task[c].at = "done"
    /\ IF session.isPeerLost \/ session.ended THEN
            /\ task' = [task EXCEPT ![p] = CloseSubscriptions(t)]
            /\ UNCHANGED exchanges
       ELSE
            /\ exchanges' = exchanges \cup {Goodbye(p)}
            /\ task' = [task EXCEPT ![p].at = "goodbye"]
    /\ UNCHANGED <<sub, data, session>>

\* ExchangeManager.#sendCloseSession is done and its exchange destroyed.
GoodbyeSent(p) ==
    /\ task[p].at = "goodbye"
    /\ CloseExchange(p, Goodbye(p), CloseSubscriptions(task[p]))
    /\ UNCHANGED <<sub, data>>

\* The session leaves its fabric, its channel and the session manager.
End(p) ==
    /\ AllClosed(task[p], "close")
    /\ session' = [session EXCEPT !.ended = TRUE]
    /\ task' = [task EXCEPT ![p] = IF task[p].then = "done" THEN Done(task[p])
                                   ELSE [@ EXCEPT !.at = task[p].then, !.part = "none",
                                                  !.todo = {}, !.then = "idle"]]
    /\ UNCHANGED <<sub, data, exchanges>>

-----------------------------------------------------------------------------
(***************************************************************************)
(* The update loop of subscription s, which is task s.                     *)
(***************************************************************************)

\* Subscription s becomes x, the report it may begin included.
Becomes(s, x) ==
    /\ sub' = [sub EXCEPT ![s] = x]
    /\ exchanges' = exchanges \cup Opened(s, x)

\* #sendDelayTimer fires.
DelayTimer(s) ==
    /\ sub[s].delay
    /\ LET x == [sub[s] EXCEPT !.delay = FALSE] IN
       IF x.loop = "none" THEN Becomes(s, Trigger(x, FALSE, FALSE, isClosing))
       ELSE /\ sub' = [sub EXCEPT ![s] = Trigger(x, FALSE, FALSE, isClosing)]
            /\ UNCHANGED exchanges
    /\ UNCHANGED <<data, session, task>>

\* #sendUpdateMessage up to the closing of the messenger.  A report whose exchange
\* was closed under it fails.
SendUpdateEnds(s) ==
    LET x == sub[s] IN
    /\ x.loop = "sending" /\ x.place = "here"
    /\ \/ /\ Report(s) \in exchanges
          /\ \E y \in {Sent(x), Refused(x)} :
               sub' = [sub EXCEPT ![s] = [y EXCEPT !.loop = "closing"]]
       \/ \E r \in {"unreachable", "other"} :
               sub' = [sub EXCEPT ![s] = [x EXCEPT !.loop = "closing", !.result = r]]
    /\ UNCHANGED <<data, session, exchanges, task>>

\* There is no session to open an exchange by.
NoSessionForUpdate(s) ==
    /\ sub[s].loop = "sending" /\ sub[s].place = "nowhere"
    /\ Becomes(s, AfterSend([sub[s] EXCEPT !.result = "unreachable"], isClosing))
    /\ UNCHANGED <<data, session, task>>

\* The messenger is closed, its exchange is out of the way, and the loop goes on.
MessengerClosed(s) ==
    LET x == AfterSend(sub[s], isClosing) IN
    /\ sub' = [sub EXCEPT ![s] = x]
    /\ exchanges' = (exchanges \ {Report(s)}) \cup Opened(s, x)
    /\ task' = [task EXCEPT ![s] = Idle]
    /\ UNCHANGED session

\* messenger.close() closes the exchange, and with it perhaps the session.
CloseMessenger(s) ==
    /\ sub[s].loop = "closing" /\ task[s].at \in {"idle", "closed"}
    /\ IF EndsSession(Report(s)) THEN
            /\ CloseExchange(s, Report(s), [Idle EXCEPT !.at = "closed"])
            /\ UNCHANGED sub
       ELSE MessengerClosed(s)
    /\ UNCHANGED data

\* While a report is unacknowledged its exchange stays open for retransmissions.
LeaveExchangeOpen(s) ==
    /\ sub[s].loop = "closing" /\ Report(s) \in exchanges
    /\ sub[s].result # "sent" \/ sub[s].isClosed
    /\ Lingering(s) \notin exchanges
    /\ LET x == AfterSend(sub[s], isClosing) IN
         /\ sub' = [sub EXCEPT ![s] = x]
         /\ exchanges' = (exchanges \ {Report(s)}) \cup Opened(s, x) \cup {Lingering(s)}
    /\ UNCHANGED <<data, session, task>>

CloseTimer(s) ==
    /\ Lingering(s) \in exchanges /\ task[Worker(s)] = Idle
    /\ CloseExchange(Worker(s), Lingering(s), Idle)
    /\ UNCHANGED <<sub, data>>

-----------------------------------------------------------------------------
(***************************************************************************)
(* Requests of the peer.                                                   *)
(***************************************************************************)

\* ExchangeManager declines new exchanges on a session that is closing.
OpenRequest(q) ==
    /\ task[q].at = "idle" /\ ~isClosing
    /\ exchanges' = exchanges \cup {Request(q)}
    /\ task' = [task EXCEPT ![q] = [Idle EXCEPT !.at = "handling"]]
    /\ UNCHANGED <<sub, data, session>>

\* handlePeerClose on a CloseSession message; removeFabric, where the fabric is
\* left and then its sessions are closed by force.
CloseByCommand(q) ==
    /\ task[q].at = "handling"
    /\ \E kind \in Commands \ {"cancel"} :
         Initiate(q, kind, IF kind = "force" THEN Request(q) ELSE None)

FabricDeleted(q) ==
    /\ task[q].at = "done" /\ task[q].kind = "leave"
    /\ session' = [session EXCEPT !.isPeerLost = TRUE]
    /\ task' = [task EXCEPT ![q].kind = "force"]
    /\ UNCHANGED <<sub, data, exchanges>>

\* handleSubscribeRequest without keepSubscriptions cancels the subscriptions there
\* are, one after the other; the loop is over the set itself, so those that are added
\* meanwhile are cancelled too.
CancelSubscriptions(q) ==
    /\ task[q].at = "handling" /\ "cancel" \in Commands
    /\ task' = [task EXCEPT ![q].at = "cancel"]
    /\ UNCHANGED <<sub, data, session, exchanges>>

HandlePeerCancel(q) ==
    LET t == task[q] IN
    /\ t.at = "cancel" \/ AllClosed(t, "cancel")
    /\ \E s \in Registered \ t.rest :
         /\ sub' = [sub EXCEPT ![s].isTerminated = ~sub[s].isClosed]
         /\ CloseExchange(q, Report(s), [t EXCEPT !.at = "subscriptions", !.part = "cancel",
                                                  !.todo = {s}, !.rest = @ \cup {s}])
    /\ UNCHANGED data

Cancelled(t) == (t.at = "cancel" \/ AllClosed(t, "cancel")) /\ Registered \subseteq t.rest

\* Then it primes and activates a new one.
Subscribe(q, s) ==
    /\ task[q].at = "handling" \/ Cancelled(task[q])
    /\ SendInitialReport(s)
    /\ task' = [task EXCEPT ![q] = [Idle EXCEPT !.at = "seeding", !.awaited = s]]
    /\ UNCHANGED <<session, exchanges>>

Subscribed(q) ==
    LET s == task[q].awaited IN
    /\ task[q].at = "seeding" /\ sub[s].seeded # Unseeded
    /\ Becomes(s, Activate(sub[s], isClosing))
    /\ task' = [task EXCEPT ![q] = [Idle EXCEPT !.at = "done"]]
    /\ UNCHANGED <<data, session>>

\* The initial report fails, and the subscription is closed; or the response does,
\* and its change handlers stay registered.
SubscribeFails(q) ==
    LET s == task[q].awaited IN
    /\ task[q].at = "seeding"
    /\ \/ sub' = [sub EXCEPT ![s] = Unregister(StopListening([@ EXCEPT !.isClosed = TRUE]))]
       \/ sub[s].seeded # Unseeded /\ UNCHANGED sub
    /\ task' = [task EXCEPT ![q] = [Idle EXCEPT !.at = "done"]]
    /\ UNCHANGED <<data, session, exchanges>>

\* The handler is done and closes its exchange.
FinishRequest(q) ==
    LET t == task[q] IN
    /\ \/ t.at = "handling"
       \/ Cancelled(t)
       \/ t.at = "done" /\ t.kind # "leave"
    /\ CloseExchange(q, Request(q), Idle)
    /\ UNCHANGED <<sub, data>>

-----------------------------------------------------------------------------
\* Steps of tasks that are under way.
Continue(p) ==
    \/ CloseSubscription(p) \/ UpdateAwaited(p) \/ SubscriptionsClosed(p)
    \/ ForceCloseExchange(p) \/ DeferClose(p) \/ Recheck(p)
    \/ RolloverAwaited(p) \/ GoodbyeSent(p) \/ End(p)

Handle(q) ==
    \/ FabricDeleted(q) \/ HandlePeerCancel(q) \/ Subscribed(q) \/ SubscribeFails(q)
    \/ FinishRequest(q)

Update(s) ==
    \/ SendUpdateEnds(s) \/ NoSessionForUpdate(s) \/ CloseMessenger(s)
    \/ LeaveExchangeOpen(s)

Observe == Collect /\ UNCHANGED <<session, exchanges, task>>

Next ==
    \/ Observe
    \/ \E p \in Tasks : Continue(p)
    \/ \E c \in Callers : InitiateClose(c)
    \/ \E q \in Requests :
         \/ OpenRequest(q) \/ CloseByCommand(q) \/ CancelSubscriptions(q) \/ Handle(q)
         \/ \E s \in Subs : Subscribe(q, s)
    \/ \E s \in Subs : DelayTimer(s) \/ Update(s) \/ CloseTimer(s)

Spec == Init /\ [][Next]_vars

Step(A) == A /\ UNCHANGED <<session, exchanges, task>>

(***************************************************************************)
(* Every task goes on while it can: timers fire, promises settle, sends    *)
(* end (MRP gives up) and handlers return.  Nothing makes attributes       *)
(* change, peers send requests or anybody close the session.               *)
(***************************************************************************)
Fairness ==
    /\ \A p \in Tasks : WF_vars(Continue(p))
    /\ \A q \in Requests : WF_vars(Handle(q))
    /\ \A s \in Subs : /\ WF_vars(Update(s)) /\ WF_vars(CloseTimer(s)) /\ WF_vars(DelayTimer(s)) 
                       /\ WF_vars(Step(ReadForReport(s))) /\ WF_vars(Step(UpdateTimer(s)))
                       /\ WF_vars(Step(Settle(s)))
    /\ \A a \in Attrs : WF_vars(Step(Notify(a)))

FairSpec == Spec /\ Fairness

-----------------------------------------------------------------------------
Exchanges == {Report(s) : s \in Subs} \cup {Lingering(s) : s \in Subs}
                \cup {Request(q) : q \in Requests} \cup {Goodbye(p) : p \in Tasks}

\* The types, and how the fields of one update belong together: what is carried
\* is carried by a running update, and what is fresh is carried.
TypeOK ==
    /\ \A s \in Subs :
         LET x == sub[s] IN
         /\ x.state \in {"new", "seeding", "established"}
         /\ x.loop \in {"none", "sending", "closing", "settling"}
         /\ x.place \in {"here", "nowhere"} /\ x.result \in {"sent", "unreachable", "other"}
         /\ x.seeded \in Unseeded .. MaxChanges /\ x.errors \in 0 .. MaxErrors + 1
         /\ x.outstanding \subseteq Attrs /\ x.stale \subseteq Attrs /\ x.dropped \subseteq Attrs
         /\ x.halfRead \subseteq Attrs
         /\ x.fresh \subseteq x.carried /\ x.carried \subseteq Attrs
         /\ x.loop \in {"none", "settling"} => x.carried = {}
         /\ x.activated => x.registered /\ x.listening
    /\ version \in 0 .. MaxChanges /\ committing \subseteq Attrs
    /\ pending \in [Attrs -> 0 .. MaxChanges]
    /\ exchanges \subseteq Exchanges
    /\ \A p \in Tasks : task[p].todo \subseteq Subs /\ task[p].rest \subseteq Exchanges \cup Subs

\* A session that has ended leaves nothing behind: no subscription goes on with
\* it (one may still be closing, its last report cut off), and none of its
\* exchanges is open.  When the last exchange closes between the deferral of a
\* close and its recheck the session is closed twice, and only the notice to the peer
\* that the slower of the two is sending may outlive the session.
NoOrphans ==
    session.ended =>
        /\ \A s \in Subs : sub[s].registered \/ sub[s].activated => sub[s].isClosed
        /\ exchanges \subseteq {Goodbye(p) : p \in {u \in Tasks : task[u].at = "goodbye"}}

\* What subscription s may not know of for good: an update gave it up, or the initial
\* report had read the cluster between the two phases of the change's commit.
GivenUp(s) == sub[s].dropped \cup sub[s].halfRead

\* An active subscription forgets no other change: what the subscriber does not know is
\* outstanding, on its way or about to be notified, unless it has cancelled the
\* subscription.
NothingForgotten ==
    \A s \in Subs : sub[s].activated /\ ~sub[s].isTerminated =>
        sub[s].stale \subseteq sub[s].outstanding \cup sub[s].carried \cup GivenUp(s)
                              \cup {a \in Attrs : pending[a] > 0}

\* Whatever starts it, and whatever is in flight then, the closing of a session
\* comes to its end.
ClosingEnds == session.closing ~> session.ended

\* Every change is reported to the subscriber in the end, if the subscription
\* lives on and the change was not given up.
ChangeReported ==
    \A s \in Subs : \A a \in Attrs :
        (sub[s].activated /\ a \in sub[s].stale)
            ~> (a \notin sub[s].stale \/ sub[s].isClosed \/ a \in GivenUp(s))
=============================================================================
