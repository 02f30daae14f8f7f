-------------------------- MODULE ServerSubscription --------------------------
(***************************************************************************)
(* The subscriptions a server holds for one subscriber: how changes of     *)
(* attributes are collected and reported, node/server/ServerSubscription.  *)
(* The operators give the fields of a subscription after a method ran up   *)
(* to its next await; SessionClose makes them the steps of tasks that run  *)
(* interleaved with the closing of the session.                            *)
(*                                                                         *)
(* The attributes belong to one cluster with one data version.  Values are *)
(* not modelled: "stale" is the set of attributes whose latest value the   *)
(* subscriber of an open subscription has not got.  Events are collected   *)
(* by the same code in the same way.                                       *)
(***************************************************************************)
EXTENDS Integers, FiniteSets

CONSTANTS Subs,         \* subscriptions
          Attrs,        \* attributes of the subscribed cluster
          MaxErrors,    \* failed updates whose data is kept, 2 in the code
          MaxChanges    \* bound: changes of attributes

ASSUME SubscriptionAssumption == MaxErrors \in Nat /\ MaxChanges \in Nat

VARIABLES sub,       \* the fields of the subscriptions
          version,   \* data version of the cluster
          committing, \* the attributes whose change is between the phases of its commit
          pending    \* for each attribute, the committed changes not yet notified

data == <<version, committing, pending>>

Unseeded == -1

(***************************************************************************)
(* The fields of a subscription:                                           *)
(*   state       "new", "seeding" until activate(), or "established";      *)
(*   listening   #changeHandlers; registered: in session.subscriptions;    *)
(*   seeded      the version in #seededClusterDetails;                     *)
(*   delay       #sendDelayTimer runs.  (#updateTimer runs from activate() *)
(*               to #cancel: its interval is longer than the delay.)       *)
(*   loop        #currentUpdatePromise: "none", or where #sendUpdate is:   *)
(*               "sending", "closing" the messenger, or "settling" when it *)
(*               has returned and the promise is not yet cleared;          *)
(*   carried     the attributes taken into the report; fresh: those whose  *)
(*               value in the report is still the latest; dropped: those   *)
(*               an update threw away;                                     *)
(*   halfRead    the attributes whose old value the initial report read    *)
(*               under the data version of the new one;                    *)
(*   place       whether the report goes by this session or the subscriber *)
(*               has no session that could carry it;                       *)
(*   viaSession  the session parameter of #sendUpdate;                     *)
(*   result      how the report ended;  next: #sendNextUpdateImmediately;  *)
(*   the others are the fields of the same name.                           *)
(***************************************************************************)
NewSubscription ==
    [state |-> "new", listening |-> FALSE, activated |-> FALSE, registered |-> FALSE,
     isClosed |-> FALSE, isTerminated |-> FALSE, seeded |-> Unseeded,
     outstanding |-> {}, stale |-> Attrs, delay |-> FALSE,
     loop |-> "none", carried |-> {}, fresh |-> {}, dropped |-> {}, halfRead |-> {},
     place |-> "here", viaSession |-> FALSE, result |-> "sent", next |-> FALSE, errors |-> 0]

SubInit ==
    /\ sub = [s \in Subs |-> NewSubscription]
    /\ version = 0 /\ committing = {}
    /\ pending = [a \in Attrs |-> 0]

-----------------------------------------------------------------------------
(***************************************************************************)
(* The update loop.                                                        *)
(***************************************************************************)

\* #sendUpdate from the top of its loop.  Without a session to flush through
\* the report goes by a session of the peer that is not closing.
Iterate(x, onlyWithData, viaSession, isClosing) ==
    IF onlyWithData /\ x.outstanding = {} THEN [x EXCEPT !.loop = "settling"]
    ELSE [x EXCEPT !.outstanding = {}, !.carried = x.outstanding, !.fresh = x.outstanding,
                   !.loop = "sending", !.viaSession = viaSession,
                   !.place = IF viaSession \/ ~isClosing THEN "here" ELSE "nowhere"]

\* #triggerSendUpdate
Trigger(x, onlyWithData, viaSession, isClosing) ==
    IF x.loop # "none" THEN [x EXCEPT !.next = TRUE]
    ELSE Iterate(x, onlyWithData, viaSession, isClosing)

\* #prepareDataUpdate.  When the last update is too recent for the interval that the
\* subscriber asked for it only sets #updateTimer.
PrepareDataUpdate(x, recent) ==
    IF x.delay \/ x.isClosed \/ ~x.activated \/ recent THEN x
    ELSE [x EXCEPT !.delay = TRUE]

\* #cancel but for the flush.  What is not read any more once a subscription is
\* closed is not kept.
StopListening(x) == [x EXCEPT !.activated = FALSE, !.listening = FALSE, !.isTerminated = FALSE,
                              !.stale = {}, !.fresh = {}, !.dropped = {}, !.halfRead = {},
                              !.errors = 0]
Unregister(x) == [x EXCEPT !.delay = FALSE, !.registered = FALSE]

CloseFromUpdate(x) ==
    IF x.isClosed THEN x ELSE Unregister(StopListening([x EXCEPT !.isClosed = TRUE]))

\* Slip: what the report carries is cleared before the update is over.
MutantSent(x) == [x EXCEPT !.result = "sent", !.stale = @ \ x.fresh, !.carried = {}, !.errors = 0]

\* The report got through, or the subscriber answered with a status.
Sent(x) == [x EXCEPT !.result = "sent", !.stale = @ \ x.fresh, !.fresh = {}, !.errors = 0]
Refused(x) == CloseFromUpdate([x EXCEPT !.result = "sent"])

\* Slip: the data of a failed update is not put back.
MutantAfterSend(x, isClosing) ==
    LET y == [x EXCEPT !.carried = {}, !.fresh = {}, !.result = "sent"] IN
    IF y.next THEN Iterate([y EXCEPT !.next = FALSE], TRUE, y.viaSession, isClosing)
    ELSE [y EXCEPT !.loop = "settling"]

\* The rest of the loop once the messenger is closed.
AfterSend(x, isClosing) ==
    LET y == [x EXCEPT !.carried = {}, !.fresh = {}, !.result = "sent"]
        failed == [y EXCEPT !.errors = IF @ <= MaxErrors THEN @ + 1 ELSE @]
        again(z) == IF z.next
                      THEN Iterate([z EXCEPT !.next = FALSE], TRUE, z.viaSession, isClosing)
                      ELSE [z EXCEPT !.loop = "settling"]
    IN
    IF x.result = "sent" THEN again(y)
    ELSE IF x.isClosed \/ x.isTerminated THEN [y EXCEPT !.loop = "settling"]
    ELSE IF failed.errors <= MaxErrors THEN again([failed EXCEPT !.outstanding = @ \cup x.carried])
    ELSE IF x.result = "unreachable"
      THEN CloseFromUpdate([failed EXCEPT !.next = FALSE, !.loop = "settling"])
    ELSE [failed EXCEPT !.next = FALSE, !.loop = "settling", !.dropped = @ \cup x.carried]

-----------------------------------------------------------------------------
(***************************************************************************)
(* Changes of attributes.                                                  *)
(***************************************************************************)

\* Datasource commit1: a change of attribute a advances the data version, and the values
\* go to the store.  The transaction holds the lock of the cluster until it ends.
Commit1(a) ==
    /\ committing = {} /\ version < MaxChanges
    /\ version' = version + 1
    /\ committing' = {a}
    /\ UNCHANGED <<sub, pending>>

\* Whether the initial report has read the version of a change that is not published.
ReadAhead(x) == x.state = "seeding" /\ x.seeded = version

\* commit2: the values are published, and the observers will be notified.
Commit2(a) ==
    /\ a \in committing
    /\ committing' = {}
    /\ pending' = [pending EXCEPT ![a] = @ + 1]
    /\ sub' = [s \in Subs |->
                 IF sub[s].isClosed THEN sub[s]
                 ELSE [sub[s] EXCEPT !.stale = @ \cup {a}, !.fresh = @ \ {a},
                                     !.dropped = @ \ {a},
                                     !.halfRead = IF ReadAhead(sub[s]) THEN @ \cup {a}
                                                  ELSE @ \ {a}]]
    /\ UNCHANGED version

\* Phase one fails: the values stay, and so does the advanced version.
Rollback(a) ==
    /\ a \in committing
    /\ committing' = {}
    /\ UNCHANGED <<sub, version, pending>>

\* #handleClusterStateChanges, with the version at the time of the call.
HandleChange(x, a, recent) ==
    IF ~x.listening \/ x.isClosed \/ (x.state = "seeding" /\ x.seeded = version) THEN x
    ELSE PrepareDataUpdate([x EXCEPT !.outstanding = @ \cup {a}, !.halfRead = @ \ {a}], recent)

Notify(a) ==
    /\ pending[a] > 0
    /\ pending' = [pending EXCEPT ![a] = @ - 1]
    /\ \E recent \in SUBSET Subs :
         sub' = [s \in Subs |-> HandleChange(sub[s], a, s \in recent)]
    /\ UNCHANGED <<version, committing>>

-----------------------------------------------------------------------------
\* sendInitialReport: first the change handlers are registered.
SendInitialReport(s) ==
    /\ sub[s].state = "new"
    /\ sub' = [sub EXCEPT ![s].state = "seeding", ![s].listening = TRUE]
    /\ UNCHANGED data

\* #processAttributesAndEventsReport reads the cluster in one go.
ReadForReport(s) ==
    /\ sub[s].state = "seeding" /\ sub[s].seeded = Unseeded /\ ~sub[s].isClosed
    /\ sub' = [sub EXCEPT ![s].stale = {}, ![s].seeded = version]
    /\ UNCHANGED data

\* activate(), when the initial report and the response have been sent.
Activate(x, isClosing) ==
    IF isClosing
      THEN StopListening([x EXCEPT !.state = "established", !.isClosed = TRUE, !.seeded = Unseeded])
    ELSE LET y == [x EXCEPT !.state = "established", !.registered = TRUE,
                            !.activated = TRUE, !.seeded = Unseeded]
         IN IF x.outstanding # {} THEN Trigger(y, FALSE, FALSE, isClosing) ELSE y

\* Slip: the timer is not started again after an update that failed.
MutantUpdateTimer(s) ==
    /\ sub[s].activated /\ ~sub[s].delay /\ sub[s].errors = 0
    /\ sub' = [sub EXCEPT ![s] = PrepareDataUpdate(@, FALSE)]
    /\ UNCHANGED data

\* #updateTimer fires when the interval is over.
UpdateTimer(s) ==
    /\ sub[s].activated /\ ~sub[s].delay
    /\ sub' = [sub EXCEPT ![s] = PrepareDataUpdate(@, FALSE)]
    /\ UNCHANGED data

\* The promise of the update is cleared.
Settle(s) ==
    /\ sub[s].loop = "settling"
    /\ sub' = [sub EXCEPT ![s] = [@ EXCEPT !.loop = "none", !.viaSession = FALSE, !.place = "here"]]
    /\ UNCHANGED data

Collect ==
    \/ \E a \in Attrs : Commit1(a) \/ Commit2(a) \/ Rollback(a) \/ Notify(a)
    \/ \E s \in Subs : ReadForReport(s) \/ UpdateTimer(s) \/ Settle(s)
=============================================================================
