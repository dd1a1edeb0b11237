-------------------------- MODULE ServerPublishing --------------------------
(***************************************************************************)
(* The publishing side of an OPC UA server: the publish engine of every    *)
(* session, the subscriptions it feeds, and the engine that keeps the      *)
(* subscriptions whose session is gone (the orphans).                      *)
(*                                                                         *)
(*   packages/node-opcua-server/source/server_publish_engine.ts            *)
(*   packages/node-opcua-server/source/server_subscription.ts              *)
(*   packages/node-opcua-server/source/i_server_side_publish_engine.ts     *)
(*                                                                         *)
(* A client queues PublishRequests on its session.  A subscription spends  *)
(* one of them whenever its publishing timer finds something to say: a     *)
(* NotificationMessage, or a keep-alive after MaxKeepAliveCount silent     *)
(* cycles.  When it finds no request it becomes LATE, and after            *)
(* LifeTimeCount LATE cycles it expires.                                   *)
(*                                                                         *)
(* The program is one JavaScript thread: an action is one callback run to  *)
(* completion (a service handler, a timer, a setImmediate callback).       *)
(***************************************************************************)
EXTENDS Integers, Sequences, FiniteSets, SequencePick

CONSTANTS
    Sessions,       \* the sessions, each with its own publish engine
    Orphan,         \* the engine of the subscriptions without a session
    NoEngine,       \* the place of a subscription that no engine holds
    Subs,           \* subscription ids, handed out in increasing order
    Requests,       \* identities of PublishRequests in flight
    Hinted,         \* the requests that carry a timeoutHint
    Priority,       \* the priority each subscription was created with
    MaxKeepAliveCount, LifeTimeCount, MaxNotificationsPerPublish,
    MaxPublishRequestInQueue,
    MaxSentMessages,  \* maxNotificationMessagesInQueue
    MaxData,          \* bound: notifications a subscription's items produce
    MaxCalls,         \* bound: service calls other than Publish and Create
    MaxImmediates     \* bound: setImmediate callbacks waiting to run

Engines == Sessions \cup {Orphan}

\* _adjust_maxKeepAliveCount and _adjust_lifeTimeCount enforce the two
\* inequalities on the counts, _adjust_maxNotificationsPerPublish the third.
ASSUME PublishingAssumption ==
    /\ Orphan \notin Sessions
    /\ NoEngine \notin Engines
    /\ Subs \subseteq Nat /\ IsFiniteSet(Subs)
    /\ Hinted \subseteq Requests
    /\ Priority \in [Subs -> 0..255]
    /\ MaxKeepAliveCount \in Nat /\ MaxKeepAliveCount >= 2
    /\ LifeTimeCount \in Nat /\ LifeTimeCount >= 3 * MaxKeepAliveCount
    /\ MaxNotificationsPerPublish \in Nat \ {0}
    /\ MaxPublishRequestInQueue \in Nat \ {0}
    /\ MaxSentMessages \in Nat \ {0}
    /\ MaxData \in Nat /\ MaxCalls \in Nat /\ MaxImmediates \in Nat

VARIABLES
    sub,            \* every subscription, one record each
    queue,          \* _publish_request_queue of every engine
    closed,         \* _closed_subscriptions of every engine
    sessionClosed,  \* isSessionClosed
    immediates,     \* the setImmediate callbacks waiting, oldest first
    due,            \* how many of them run before the loop turns
    fired,          \* the timers that fired since the loop turned
    calls,          \* service calls made so far, up to MaxCalls
    out             \* the responses sent by the latest step

vars == <<sub, queue, closed, sessionClosed, immediates, due, fired, calls, out>>

-----------------------------------------------------------------------------
(***************************************************************************)
(* A definition named X_Word is X with the slip its comment names: nothing *)
(* uses it, it is there to see that the properties would notice.           *)
(***************************************************************************)

(***************************************************************************)
(* What the state is made of.                                              *)
(***************************************************************************)

\* "NONE" is an id not handed out yet.  TERMINATED is never assigned.
SubscriptionState ==
    {"NONE", "CREATING", "NORMAL", "LATE", "KEEPALIVE", "CLOSED"}

\* The status of a StatusChangeNotification.
Status == {"GoodSubscriptionTransferred", "BadTimeout"}

\* What waits in _pending_notifications: the value-th notification of the
\* monitored items, or a StatusChangeNotification (value 0).
Notification == [type : {"data"}, value : Nat] \cup [type : Status, value : {0}]

Data(n)       == [type |-> "data", value |-> n]
StatusOf(st)  == [type |-> st, value |-> 0]
IsStatus(n)   == n.type \in Status

\* A subscription.  items: notifications still in the monitored items' queues;
\* flag: _hasUncollectedMonitoredItemNotifications; sent: the sequence numbers
\* of _sent_notification_messages, which the array keeps in increasing order;
\* next: the sequence number generator; unacked: unacknowledgedMessageCount.
\* produced and delivered are history: the last notification the items made
\* and the last one a NotificationMessage carried.
Subscription ==
    [state : SubscriptionState, engine : Engines \cup {NoEngine},
     enabled : BOOLEAN, messageSent : BOOLEAN,
     keepAlive : 0..MaxKeepAliveCount, lifeTime : 0..(LifeTimeCount - 1),
     flag : BOOLEAN, items : Seq(Nat), pending : Seq(Notification),
     sent : SUBSET Nat, next : Nat, unacked : Int,
     produced : Nat, delivered : Nat]

\* An entry of _closed_subscriptions is a dead subscription, or a
\* TransferredSubscription, with the StatusChangeNotifications it still owes;
\* they leave one by one, so the model lists the notifications themselves.
Farewell == [sub : Subs, type : Status]

\* A response: a NotificationMessage (body not empty), a keep-alive (body
\* empty), or a ServiceFault with its service result.
FaultCode == {"BadTimeout", "BadTooManyPublishRequests", "BadNoSubscription",
              "BadSessionClosed", "BadSecureChannelClosed"}
Response ==
    [req : Requests, result : {"Good"}, sub : Subs, seq : Nat,
     body : Seq(Notification)]
    \cup [req : Requests, result : FaultCode]

Reply(r, s, n, body) ==
    [req |-> r, result |-> "Good", sub |-> s, seq |-> n, body |-> body]
Faults(q, code) == [i \in 1..Len(q) |-> [req |-> q[i], result |-> code]]

\* A setImmediate callback: #_feed_late_subscription of an engine, or the
\* extra _tick of a subscription.
Immediate == ({"feed"} \X Sessions) \cup ({"tick"} \X Subs)

Live(s)     == sub[s].state \notin {"NONE", "CLOSED"}
OwnedBy(e)  == {s \in Subs : sub[s].engine = e}
Queued(e)   == {queue[e][i] : i \in DOMAIN queue[e]}
InFlight    == UNION {Queued(e) : e \in Engines}

-----------------------------------------------------------------------------
(***************************************************************************)
(* One subscription at a time: what the methods of Subscription do to it.  *)
(***************************************************************************)
AtMost(n, max) == IF n <= max THEN n ELSE max

Unborn ==
    [state |-> "NONE", engine |-> NoEngine, enabled |-> FALSE,
     messageSent |-> FALSE, keepAlive |-> 0, lifeTime |-> 0, flag |-> FALSE,
     items |-> <<>>, pending |-> <<>>, sent |-> {}, next |-> 1, unacked |-> 0,
     produced |-> 0, delivered |-> 0]

\* The constructor; _start_timer leaves the keep-alive counter one short of
\* its limit, so that the first cycle has a message to send.
Created(e, enabled) ==
    [Unborn EXCEPT !.state = "CREATING", !.engine = e, !.enabled = enabled,
                   !.keepAlive = MaxKeepAliveCount - 1]

\* (slip: on_close_subscription does not take it off the engine's list)
Dead_StillListed(u) ==
    [Unborn EXCEPT !.state = "CLOSED", !.engine = u.engine, !.next = u.next]

\* What is left of a subscription that was terminated: its number generator.
\* Its unsent StatusChangeNotifications move to the engine's closed list.
Dead(u) ==
    [Unborn EXCEPT !.state = "CLOSED", !.next = u.next]

ResetCounters(u) == [u EXCEPT !.lifeTime = 0, !.keepAlive = 0]

\* (slip: the counter is not increased)
IncreaseKeepAlive_Never(u) == u

\* The counter is only compared with its limit: it is not counted beyond it.
IncreaseKeepAlive(u) ==
    [u EXCEPT !.keepAlive = AtMost(@ + 1, MaxKeepAliveCount)]

\* (slip: a subscription that never spoke does not age)
Aged_OnceServed(u) ==
    [u EXCEPT !.lifeTime = IF u.state = "LATE" /\ u.messageSent THEN @ + 1 ELSE @]

Aged(u) == [u EXCEPT !.lifeTime = IF u.state = "LATE" THEN @ + 1 ELSE @]

\* (slip: one cycle too many)
LifeTimeExpired_OneLate(u) == u.lifeTime > LifeTimeCount

LifeTimeExpired(u) == u.lifeTime >= LifeTimeCount

KeepAliveExpired(u) == u.keepAlive >= MaxKeepAliveCount \/ u.state = "LATE"

\* (slip: the monitored items are not asked)
Uncollected_FlagOnly(u) == u.flag

Uncollected(u) == u.flag \/ u.items # <<>>

\* The getter hasUncollectedMonitoredItemNotifications remembers its answer.
Asked(u) == [u EXCEPT !.flag = Uncollected(u)]

\* A monitored item puts a notification in its queue.
Notified(u) ==
    [u EXCEPT !.items = Append(@, u.produced + 1), !.produced = @ + 1]

\* (slip: what is pending is overwritten)
Harvest_Overwriting(u) ==
    [u EXCEPT !.pending = [i \in 1..Len(u.items) |-> Data(u.items[i])],
              !.items = <<>>, !.flag = FALSE]

\* _harvestMonitoredItems
Harvest(u) ==
    [u EXCEPT !.pending = @ \o [i \in 1..Len(u.items) |-> Data(u.items[i])],
              !.items = <<>>, !.flag = FALSE]

\* _popNotificationToSend: a StatusChangeNotification travels alone, data
\* notifications together, up to MaxNotificationsPerPublish of them.
BatchLength(p) ==
    IF IsStatus(p[1]) THEN 1
    ELSE Cardinality({i \in 1..AtMost(MaxNotificationsPerPublish, Len(p)) :
                         \A j \in 1..i : ~IsStatus(p[j])})

Batch(u) == SubSeq(u.pending, 1, BatchLength(u.pending))

\* The subscription after _publish_pending_notifications.
Published(u) ==
    LET n == BatchLength(u.pending)
    IN  [ResetCounters(u) EXCEPT
            !.pending = SubSeq(u.pending, n + 1, Len(u.pending)),
            !.sent = @ \cup {u.next}, !.next = @ + 1, !.unacked = @ + 1,
            !.messageSent = TRUE, !.state = "NORMAL",
            !.delivered = IF IsStatus(u.pending[n]) THEN @
                          ELSE u.pending[n].value]

\* The subscription after _sendKeepAliveResponse succeeded.
KeptAlive(u) ==
    [ResetCounters(u) EXCEPT !.messageSent = TRUE, !.state = "KEEPALIVE"]

\* discardOldSentNotifications: the retransmission queue keeps the latest.
DiscardOldSent(u) ==
    [u EXCEPT !.sent = {n \in @ :
         Cardinality({m \in u.sent : m > n}) < MaxSentMessages}]

\* A StatusChangeNotification joins the pending notifications.
Told(u, status) == [u EXCEPT !.pending = Append(@, StatusOf(status))]

\* The StatusChangeNotifications among the pending notifications.  They are
\* all that is left once the monitored items are removed.
Statuses(p) == Pick(p, {i \in DOMAIN p : IsStatus(p[i])})

-----------------------------------------------------------------------------
(***************************************************************************)
(* _closed_subscriptions.  Feeding n farewells spends the n oldest         *)
(* requests; each takes a number from its subscription's generator, which  *)
(* a TransferredSubscription shares with the subscription that moved on.   *)
(***************************************************************************)
Before(cl, i, s) == Cardinality({j \in 1..i : cl[j].sub = s})

FarewellReplies(f, cl, q, n) ==
    [i \in 1..n |-> Reply(q[i], cl[i].sub,
                          f[cl[i].sub].next + Before(cl, i - 1, cl[i].sub),
                          <<StatusOf(cl[i].type)>>)]

Numbered(f, cl, n) ==
    [s \in Subs |-> [f[s] EXCEPT !.next = @ + Before(cl, n, s)]]

From(q, n) == SubSeq(q, n + 1, Len(q))

\* (slip: the farewell is left where it is)
Purged_Nothing(cl, gone) == cl

\* _purge_dangling_subscription
Purged(cl, gone) == Pick(cl, {i \in DOMAIN cl : cl[i].sub \notin gone})

-----------------------------------------------------------------------------
(***************************************************************************)
(* Handlers shared by several actions.  u is the subscription and q the    *)
(* request queue as the handler has left them so far, pre the responses    *)
(* it has already sent, im the setImmediate callbacks that stay waiting.   *)
(***************************************************************************)

\* _process_keepAlive
ProcessKeepAlive(s, u, q, pre) ==
    LET e == sub[s].engine
        v == IncreaseKeepAlive(u)
        canSend == q # <<>> /\ v.pending = <<>>
    IN  \/ /\ ~KeepAliveExpired(v)
           /\ sub' = [sub EXCEPT ![s] = v]
           /\ queue' = [queue EXCEPT ![e] = q]
           /\ out' = pre
        \/ /\ KeepAliveExpired(v)
           /\ canSend
           /\ sub' = [sub EXCEPT ![s] = KeptAlive(v)]
           /\ queue' = [queue EXCEPT ![e] = Tail(q)]
           /\ out' = Append(pre, Reply(Head(q), s, v.next, <<>>))
        \/ /\ KeepAliveExpired(v)
           /\ ~canSend
           /\ sub' = [sub EXCEPT ![s] = [v EXCEPT !.state = "LATE"]]
           /\ queue' = [queue EXCEPT ![e] = q]
           /\ out' = pre

\* process_subscription, called with a request in the queue
ProcessSubscription(s, u, q, pre, im) ==
    LET e == sub[s].engine
        v == IF u.pending = <<>> /\ Uncollected(u) THEN Harvest(u) ELSE u
    IN  \/ /\ ~u.enabled
           /\ ProcessKeepAlive(s, u, q, pre)
           /\ immediates' = im
        \/ /\ u.enabled
           /\ v.pending # <<>>
           /\ sub' = [sub EXCEPT ![s] = Published(v)]
           /\ queue' = [queue EXCEPT ![e] = Tail(q)]
           /\ out' = Append(pre, Reply(Head(q), s, v.next, Batch(v)))
           /\ immediates' = Append(im, <<"tick", s>>)
        \/ /\ u.enabled
           /\ v.pending = <<>>
           /\ ProcessKeepAlive(s, v, q, pre)
           /\ immediates' = im

\* (slip: nothing is fed)
Feedable_None(cl, q) == 0

\* on_close_subscription feeds farewells for as long as there are requests.
Feedable(cl, q) == AtMost(Len(cl), Len(q))

\* (slip: a deletion does not refuse them)
Abandoned_NotDeleting(cl, deleting) == ~deleting /\ cl = <<>>

\* Once the last subscription is gone the requests that are left are refused:
\* by the engine when no farewell waits, by ServerSession.deleteSubscription
\* always.  cl is what waits.
Abandoned(cl, deleting) == deleting \/ cl = <<>>

\* terminate, and on_close_subscription of the engine; deleting is TRUE when
\* ServerSession.deleteSubscription runs it.
Terminate(s, u, q, pre, deleting) ==
    LET e    == sub[s].engine
        owed == Statuses(u.pending)
        cl   == closed[e] \o
                [i \in 1..Len(owed) |-> [sub |-> s, type |-> owed[i].type]]
        n    == Feedable(cl, q)
        rest == From(q, n)
        dead == [sub EXCEPT ![s] = Dead(u)]
        alone == OwnedBy(e) = {s} /\ Abandoned(From(cl, n), deleting)
    IN  /\ sub' = Numbered(dead, cl, n)
        /\ closed' = [closed EXCEPT ![e] = From(cl, n)]
        /\ queue' = [queue EXCEPT ![e] = IF alone THEN <<>> ELSE rest]
        /\ out' = pre \o FarewellReplies(dead, cl, q, n) \o
                  (IF alone THEN Faults(rest, "BadNoSubscription") ELSE <<>>)

\* _tick: late is the set of the queued requests whose timeoutHint has passed.
Tick(s, late, im) ==
    LET e    == sub[s].engine
        q0   == queue[e]
        gone == {i \in DOMAIN q0 : q0[i] \in late}
        q    == Pick(q0, DOMAIN q0 \ gone)
        pre  == Faults(Pick(q0, gone), "BadTimeout")
        u    == Aged(DiscardOldSent(sub[s]))
        ready == u.pending # <<>> \/ Uncollected(u)
        \* the getter is only evaluated when nothing is pending
        v    == IF u.pending = <<>> THEN Asked(u) ELSE u
    IN  \/ /\ LifeTimeExpired(u)
           /\ Terminate(s, Told(u, "BadTimeout"), q, pre, FALSE)
           /\ immediates' = im
        \/ /\ ~LifeTimeExpired(u)
           /\ UNCHANGED closed
           /\ \/ /\ q = <<>> /\ ready
                 /\ sub' = [sub EXCEPT ![s] = [v EXCEPT !.state = "LATE"]]
                 /\ queue' = [queue EXCEPT ![e] = q]
                 /\ out' = pre
                 /\ immediates' = im
              \/ /\ q = <<>> /\ ~ready /\ u.state # "LATE"
                 /\ ProcessKeepAlive(s, v, q, pre)
                 /\ immediates' = im
              \/ /\ q = <<>> /\ ~ready /\ u.state = "LATE"
                 /\ sub' = [sub EXCEPT ![s] = [v EXCEPT !.keepAlive = 0]]
                 /\ queue' = [queue EXCEPT ![e] = q]
                 /\ out' = pre
                 /\ immediates' = im
              \/ /\ q # <<>> /\ ready
                 /\ ProcessSubscription(s, v, q, pre, im)
              \/ /\ q # <<>> /\ ~ready
                 /\ ProcessKeepAlive(s, v, q, pre)
                 /\ immediates' = im

-----------------------------------------------------------------------------
(***************************************************************************)
(* Service handlers.                                                       *)
(***************************************************************************)
Init ==
    /\ sub = [s \in Subs |-> Unborn]
    /\ queue = [e \in Engines |-> <<>>]
    /\ closed = [e \in Engines |-> <<>>]
    /\ sessionClosed = [e \in Sessions |-> FALSE]
    /\ immediates = <<>>
    /\ due = 0
    /\ fired = {}
    /\ calls = 0
    /\ out = <<>>

\* CreateSubscription: ids are handed out in increasing order.
CreateSubscription(e, s, enabled) ==
    /\ ~sessionClosed[e]
    /\ sub[s].state = "NONE"
    /\ \A t \in Subs : t < s => sub[t].state # "NONE"
    /\ sub' = [sub EXCEPT ![s] = Created(e, enabled)]
    /\ out' = <<>>
    /\ UNCHANGED <<queue, closed, sessionClosed, immediates, due, fired, calls>>

\* (slip: the subscription is found wherever it is)
Acknowledged_Anywhere(e, acks) ==
    [s \in Subs |->
        LET gone == {n \in sub[s].sent : <<s, n>> \in acks}
        IN  [sub[s] EXCEPT !.sent = @ \ gone,
                           !.unacked = @ - Cardinality(gone)]]

\* process_subscriptionAcknowledgements: only the subscriptions of this
\* engine are looked up.
Acknowledged(e, acks) ==
    [s \in Subs |->
        LET gone == {n \in sub[s].sent : <<s, n>> \in acks}
        IN  IF sub[s].engine = e
            THEN [sub[s] EXCEPT !.sent = @ \ gone,
                                !.unacked = @ - Cardinality(gone)]
            ELSE sub[s]]

\* _on_PublishRequest on an engine without subscriptions
PublishWithoutSubscription(e, r, acks) ==
    /\ OwnedBy(e) = {}
    /\ sub' = Numbered(Acknowledged(e, acks), closed[e], AtMost(1, Len(closed[e])))
    /\ closed' = [closed EXCEPT ![e] = From(@, AtMost(1, Len(@)))]
    /\ \/ /\ closed[e] # <<>>
          /\ queue' = [queue EXCEPT ![e] = Tail(Append(@, r))]
          /\ out' = FarewellReplies(sub, closed[e], Append(queue[e], r), 1)
       \/ /\ closed[e] = <<>>
          /\ UNCHANGED queue
          /\ out' = Faults(<<r>>, "BadNoSubscription")
    /\ UNCHANGED <<immediates, due>>

\* (slip: the request refused stays in the queue)
Kept_Forgotten(q) == q

\* #_handle_too_many_requests takes the oldest request out of the queue.
Crowded(q) == Len(q) > MaxPublishRequestInQueue
Kept(q)    == IF Crowded(q) THEN Tail(q) ELSE q
Refused(q) == IF Crowded(q) THEN Faults(<<Head(q)>>, "BadTooManyPublishRequests")
                              ELSE <<>>

\* _on_PublishRequest on an engine with subscriptions: queue the request,
\* feed a closed subscription, have a late one fed, refuse the oldest request
\* when there are too many.
PublishToSubscriptions(e, r, acks) ==
    LET n == AtMost(1, Len(closed[e]))
        q == From(Append(queue[e], r), n)
        fed == FarewellReplies(sub, closed[e], Append(queue[e], r), n)
    IN  /\ OwnedBy(e) # {}
        /\ sub' = Numbered(Acknowledged(e, acks), closed[e], n)
        /\ closed' = [closed EXCEPT ![e] = From(@, n)]
        /\ immediates' = Append(immediates, <<"feed", e>>)
        /\ due' = Len(immediates) + 1
        /\ queue' = [queue EXCEPT ![e] = Kept(q)]
        /\ out' = fed \o Refused(q)

PublishRequest(e, r, acks) ==
    /\ ~sessionClosed[e]
    /\ r \notin InFlight
    /\ Len(immediates) < MaxImmediates
    /\ \/ PublishWithoutSubscription(e, r, acks)
       \/ PublishToSubscriptions(e, r, acks)
    /\ UNCHANGED <<sessionClosed, fired, calls>>

\* A service call that names a subscription of the caller's session.
Called(s) ==
    /\ Live(s)
    /\ sub[s].engine \in Sessions
    /\ calls < MaxCalls
    /\ calls' = calls + 1
    /\ out' = <<>>
    /\ UNCHANGED <<queue, closed, sessionClosed, immediates, due, fired>>

\* _apply_on_Subscription: Republish, CreateMonitoredItems, SetMonitoringMode
\* and the other services on one subscription reset its counters first.
CallOnSubscription(s) ==
    /\ Called(s)
    /\ sub' = [sub EXCEPT ![s] = ResetCounters(@)]

\* DeleteMonitoredItems, of all the items: their notifications are dropped.
ItemsDeleted(u) ==
    [ResetCounters(u) EXCEPT !.items = <<>>, !.pending = Statuses(u.pending),
                             !.delivered = u.produced]

DeleteMonitoredItems(s) ==
    /\ Called(s)
    /\ sub' = [sub EXCEPT ![s] = ItemsDeleted(@)]

\* ModifySubscription: modify restarts the timer.
ModifySubscription(s) ==
    /\ Called(s)
    /\ sub' = [sub EXCEPT ![s] =
                  [@ EXCEPT !.lifeTime = 0,
                            !.keepAlive = MaxKeepAliveCount - 1]]

\* setPublishingMode: a disabled subscription is put in the state NORMAL.
ModeSet(u, enabled) ==
    [u EXCEPT !.enabled = enabled, !.lifeTime = 0,
              !.state = IF enabled THEN u.state ELSE "NORMAL"]

SetPublishingMode(s, enabled) ==
    /\ Called(s)
    /\ sub' = [sub EXCEPT ![s] = ModeSet(@, enabled)]

\* DeleteSubscriptions, also on an orphan.
DeleteSubscription(s) ==
    /\ Live(s)
    /\ \E e \in Sessions : ~sessionClosed[e]
    /\ Terminate(s, sub[s], queue[sub[s].engine], <<>>, sub[s].engine # Orphan)
    /\ UNCHANGED <<sessionClosed, immediates, due, fired, calls>>

\* notifyTransfer queues the farewell on the subscription itself ...
Transferring(u) == Told(u, "GoodSubscriptionTransferred")

\* (slip: it starts a new generator there)
Moved_Renumbered(u, d) == [u EXCEPT !.engine = d, !.lifeTime = 0, !.next = 1]

\* ... and the subscription moves to the engine d.
Moved(u, d) == [u EXCEPT !.engine = d, !.lifeTime = 0]

\* resendInitialValues: fresh is 1 when the item has no value queued and its
\* last value is sent again, as a notification of its own.
Resent(u, fresh) ==
    LET v == IF fresh = 1 THEN Notified(u) ELSE u
    IN  Harvest([v EXCEPT !.keepAlive = MaxKeepAliveCount - 1, !.state = "NORMAL"])

TransferSubscription(s, d, resend, fresh) ==
    LET e == sub[s].engine
        arrived(u) == IF resend THEN Resent(Moved(u, d), fresh) ELSE Moved(u, d)
        swept == [closed EXCEPT ![d] = Purged(@, {s})]
    IN  /\ Live(s)
        /\ ~sessionClosed[d]
        /\ e # d
        /\ fresh = 1 => resend /\ sub[s].items = <<>> /\ sub[s].produced < MaxData
        /\ calls < MaxCalls
        /\ calls' = calls + 1
        /\ \/ /\ queue[e] # <<>>
              /\ sub' = [sub EXCEPT ![s] = arrived(Published(Transferring(@)))]
              /\ queue' = [queue EXCEPT ![e] = Tail(@)]
              /\ closed' = swept
              /\ out' = <<Reply(Head(queue[e]), s, sub[s].next, Batch(Transferring(sub[s])))>>
           \/ /\ queue[e] = <<>>
              /\ sub' = [sub EXCEPT ![s] = arrived(@)]
              /\ UNCHANGED queue
              /\ closed' = [swept EXCEPT ![e] =
                              Append(@, [sub |-> s, type |-> "GoodSubscriptionTransferred"])]
              /\ out' = <<>>
        /\ UNCHANGED <<sessionClosed, immediates, due, fired>>

\* CloseSession with deleteSubscriptions: the requests are cancelled first,
\* the farewells are thrown away with the engine.
CloseSessionAndSubscriptions(e) ==
    /\ ~sessionClosed[e]
    /\ sessionClosed' = [sessionClosed EXCEPT ![e] = TRUE]
    /\ sub' = [s \in Subs |-> IF sub[s].engine = e THEN Dead(sub[s]) ELSE sub[s]]
    /\ queue' = [queue EXCEPT ![e] = <<>>]
    /\ closed' = [closed EXCEPT ![e] = <<>>]
    /\ out' = Faults(queue[e], "BadSessionClosed")
    /\ UNCHANGED <<immediates, due, fired, calls>>

\* CloseSession without deleteSubscriptions, or the session's timeout: every
\* subscription, in the order of the ids, tells the session if a request is
\* left, and becomes an orphan.
CloseSessionOnly(e) ==
    LET own  == OwnedBy(e)
        q    == queue[e]
        n    == AtMost(Cardinality(own), Len(q))
        nth(i) == CHOOSE s \in own : Rank(own, s) = i
    IN  /\ ~sessionClosed[e]
        /\ sessionClosed' = [sessionClosed EXCEPT ![e] = TRUE]
        /\ sub' = [s \in Subs |->
                     IF s \notin own THEN sub[s]
                     ELSE IF Rank(own, s) <= n
                          THEN Moved(Published(Transferring(sub[s])), Orphan)
                          ELSE Moved(sub[s], Orphan)]
        /\ queue' = [queue EXCEPT ![e] = <<>>]
        /\ closed' = [closed EXCEPT ![e] = <<>>, ![Orphan] = Purged(@, own)]
        /\ out' = [i \in 1..n |-> Reply(q[i], nth(i), sub[nth(i)].next,
                                        Batch(Transferring(sub[nth(i)])))]
                  \o Faults(From(q, n), "BadSessionClosed")
        /\ UNCHANGED <<immediates, due, fired, calls>>

\* moveSessionToChannel: the session is activated on another channel.
ChangeChannel(e) ==
    /\ ~sessionClosed[e]
    /\ queue[e] # <<>>
    /\ calls < MaxCalls
    /\ calls' = calls + 1
    /\ queue' = [queue EXCEPT ![e] = <<>>]
    /\ out' = Faults(queue[e], "BadSecureChannelClosed")
    /\ UNCHANGED <<sub, closed, sessionClosed, immediates, due, fired>>

-----------------------------------------------------------------------------
(***************************************************************************)
(* Monitored items, timers and setImmediate callbacks.                     *)
(***************************************************************************)

Notify(s) ==
    /\ Live(s)
    /\ sub[s].produced < MaxData
    /\ sub' = [sub EXCEPT ![s] = Notified(@)]
    /\ out' = <<>>
    /\ UNCHANGED <<queue, closed, sessionClosed, immediates, due, fired, calls>>

(***************************************************************************)
(* The event loop turns through timers, messages and setImmediate          *)
(* callbacks.  A timer fires at most once in a turn; the callbacks queued  *)
(* when their phase begins all run in it, those they queue themselves wait *)
(* for the next turn.  Without callbacks the turns cannot be told apart.   *)
(***************************************************************************)
TimerTick(s, late) ==
    /\ Live(s)
    /\ late \subseteq Queued(sub[s].engine)
    /\ due = 0 /\ s \notin fired
    /\ Tick(s, late, immediates)
    /\ fired' = IF immediates' = <<>> THEN {} ELSE fired \cup {s}
    /\ UNCHANGED <<sessionClosed, due, calls>>

\* The oldest setImmediate callback runs.
NextImmediate(cb) ==
    /\ immediates # <<>>
    /\ Head(immediates) = cb
    /\ due' = (IF due = 0 THEN Len(immediates) ELSE due) - 1
    /\ fired' = IF due' = 0 THEN {} ELSE fired
    /\ UNCHANGED <<sessionClosed, calls>>

RunTick(s, late) ==
    /\ NextImmediate(<<"tick", s>>)
    /\ \/ /\ Live(s)
          /\ late \subseteq Queued(sub[s].engine)
          /\ Tick(s, late, Tail(immediates))
       \/ /\ ~Live(s)
          /\ late = {}
          /\ immediates' = Tail(immediates)
          /\ out' = <<>>
          /\ UNCHANGED <<sub, queue, closed>>

\* (slip: && for ||)
Starving_FirstOnly(e) ==
    {s \in OwnedBy(e) : /\ sub[s].state = "LATE" /\ ~sub[s].messageSent
                        /\ sub[s].enabled}

\* findLateSubscriptions
Starving(e) ==
    {s \in OwnedBy(e) : /\ sub[s].state = "LATE" \/ ~sub[s].messageSent
                        /\ sub[s].enabled}

\* #_find_starving_subscription.  Its comparison function never answers a
\* negative number, and Array.sort leaves an array alone that no comparison
\* finds descending: the list stays in the order of the ids.
Chosen(e) == CHOOSE s \in Starving(e) : \A t \in Starving(e) : t <= s

RunFeedLate(e) ==
    /\ NextImmediate(<<"feed", e>>)
    /\ UNCHANGED closed
    /\ \/ /\ queue[e] # <<>>
          /\ Starving(e) # {}
          /\ ProcessSubscription(Chosen(e), sub[Chosen(e)], queue[e], <<>>,
                                 Tail(immediates))
       \/ /\ queue[e] = <<>> \/ Starving(e) = {}
          /\ immediates' = Tail(immediates)
          /\ out' = <<>>
          /\ UNCHANGED <<sub, queue>>

-----------------------------------------------------------------------------
\* A client acknowledges nothing, or one message it has not acknowledged yet.
Acks == {{}} \cup {{<<s, n>>} : s \in Subs, n \in UNION {sub[t].sent : t \in Subs}}

Timers == \/ \E s \in Subs, late \in SUBSET Hinted : TimerTick(s, late)
          \/ \E s \in Subs, late \in SUBSET Hinted : RunTick(s, late)
          \/ \E e \in Sessions : RunFeedLate(e)

Services ==
    \/ \E e \in Sessions, s \in Subs, b \in BOOLEAN : CreateSubscription(e, s, b)
    \/ \E e \in Sessions, r \in Requests, acks \in Acks : PublishRequest(e, r, acks)
    \/ \E s \in Subs : CallOnSubscription(s)
    \/ \E s \in Subs : DeleteMonitoredItems(s)
    \/ \E s \in Subs : ModifySubscription(s)
    \/ \E s \in Subs, b \in BOOLEAN : SetPublishingMode(s, b)
    \/ \E s \in Subs : DeleteSubscription(s)
    \/ \E s \in Subs, d \in Sessions, b \in BOOLEAN, fresh \in {0, 1} :
          TransferSubscription(s, d, b, fresh)
    \/ \E e \in Sessions : CloseSessionAndSubscriptions(e)
    \/ \E e \in Sessions : CloseSessionOnly(e)
    \/ \E e \in Sessions : ChangeChannel(e)

Next == Timers \/ Services \/ \E s \in Subs : Notify(s)

Spec == Init /\ [][Next]_vars

(***************************************************************************)
(* The event loop serves its callbacks, and an interval timer fires again  *)
(* and again for as long as it is not cleared.  The timers phase always    *)
(* comes round, but messages may come between: strong fairness.            *)
(***************************************************************************)
FairSpec ==
    /\ Spec
    /\ WF_vars(\E s \in Subs, late \in SUBSET Hinted : RunTick(s, late))
    /\ WF_vars(\E e \in Sessions : RunFeedLate(e))
    /\ \A s \in Subs : SF_vars(\E late \in SUBSET Hinted : TimerTick(s, late))

-----------------------------------------------------------------------------
\* Every variable has its type: the counters of a subscription stay within
\* their limits, no queue exceeds MaxPublishRequestInQueue, and a number in
\* the retransmission queue was handed out by the generator.
TypeOK ==
    /\ sub \in [Subs -> Subscription]
    /\ \A s \in Subs : sub[s].sent \subseteq 1..(sub[s].next - 1)
    /\ queue \in [Engines -> Seq(Requests)]
    /\ \A e \in Engines : Len(queue[e]) <= MaxPublishRequestInQueue
    /\ closed \in [Engines -> Seq(Farewell)]
    /\ sessionClosed \in [Sessions -> BOOLEAN]
    /\ immediates \in Seq(Immediate)
    /\ due \in 0..Len(immediates)
    /\ fired \subseteq Subs
    /\ calls \in 0..MaxCalls
    /\ out \in Seq(Response)
=============================================================================
