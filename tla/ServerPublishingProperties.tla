--------------------- MODULE ServerPublishingProperties ---------------------
(***************************************************************************)
(* What makes the publishing side of the server correct.                   *)
(***************************************************************************)
EXTENDS ServerPublishing

-----------------------------------------------------------------------------
(***************************************************************************)
(* Requests.                                                               *)
(***************************************************************************)

\* A farewell never waits while the client's requests do: whatever order
\* requests, transfers and closures come in, #_feed_closed_subscription has
\* joined them (the assert on hasPendingNotifications relies on it).
ClosedDrainsQueue ==
    \A e \in Engines : closed[e] # <<>> => queue[e] = <<>>

\* How often the responses of a step answer the request r.
Answers(r, responses) ==
    Cardinality({i \in DOMAIN responses : responses[i].req = r})

\* A request leaves the queue of its session with one response, never without
\* and never with two, and none is answered that stays in the queue: over all
\* the ways out (notification, keep-alive, farewell, timeout, too many
\* requests, no subscription, session closed, channel changed).
AnsweredOnce ==
    [][\A r \in Requests :
         LET before == r \in InFlight
             after  == r \in InFlight'
         IN  /\ before /\ ~after => Answers(r, out') = 1
             /\ after => Answers(r, out') = 0
             /\ ~before => Answers(r, out') <= 1]_vars

\* The engine holds requests that no subscription of its own will spend.
Idle(e) == OwnedBy(e) = {} /\ queue[e] # <<>>

\* The last subscription of a session takes the requests with it when it is
\* deleted, expires or is closed (terminate, cancelPendingPublishRequest): an
\* engine becomes idle only when its last subscription, alive, is transferred
\* to another session, which does not look at what the old engine still holds
\* (transferSubscription).
IdleByTransferOnly ==
    [][\A e \in Engines : ~Idle(e) /\ Idle(e)' =>
         \E s \in Subs, d \in Sessions \ {e} :
            OwnedBy(e) = {s} /\ Live(s)' /\ sub'[s].engine = d]_vars

-----------------------------------------------------------------------------
(***************************************************************************)
(* Notifications and sequence numbers.                                     *)
(***************************************************************************)

\* The data a live subscription still holds, in the order it will be sent.
Backlog(u) ==
    LET waiting == Pick(u.pending, {i \in DOMAIN u.pending : ~IsStatus(u.pending[i])})
    IN  [i \in 1..Len(waiting) |-> waiting[i].value] \o u.items

\* No notification is lost, repeated or overtaken between a monitored item
\* and the NotificationMessages: what is held is all that was produced and
\* not yet delivered, in order, through disabled publishing, LATE states,
\* transfers, orphanage and resent initial values.
NoNotificationLost ==
    \A s \in Subs : Live(s) =>
        Backlog(sub[s]) = [i \in 1..(sub[s].produced - sub[s].delivered) |->
                              sub[s].delivered + i]

\* A live subscription keeps a sent message for Republish until its owner
\* acknowledges it or MaxSentMessages younger ones are kept; a transfer keeps
\* them all, and what was dropped never comes back.
RetransmissionQueue ==
    [][\A s \in Subs : (Live(s) /\ Live(s)') =>
         /\ sub'[s].sent \ sub[s].sent \subseteq sub[s].next..(sub'[s].next - 1)
         /\ \A n \in sub[s].sent \ sub'[s].sent :
              \/ Cardinality({m \in sub[s].sent : m > n}) >= MaxSentMessages
              \/ \E e \in Sessions, r \in Requests :
                    sub[s].engine = e /\ PublishRequest(e, r, {<<s, n>>})]_vars

-----------------------------------------------------------------------------
(***************************************************************************)
(* What a client may rely on, seen from one subscription.                  *)
(***************************************************************************)

\* The messages the latest step sent for s, on whatever session.
Said(s) ==
    LET mine == Pick(out, {i \in DOMAIN out : out[i].result = "Good" /\ out[i].sub = s})
    IN  [i \in DOMAIN mine |->
            [seq |-> mine[i].seq,
             body |-> [j \in DOMAIN mine[i].body |-> mine[i].body[j].value]]]

Phase(s) ==
    CASE sub[s].state = "NONE"   -> "unborn"
      [] sub[s].state = "CLOSED" -> "ended"
      [] OTHER                   -> "open"

Stream(s) == INSTANCE NotificationStream WITH
    MaxPerMessage <- MaxNotificationsPerPublish, MaxKept <- MaxSentMessages,
    phase <- Phase(s), next <- sub[s].next, kept <- sub[s].sent,
    produced <- sub[s].produced, delivered <- sub[s].delivered, said <- Said(s)

\* Every subscription is the stream of notifications its clients rely on: the
\* data of its NotificationMessages, put together over all the sessions it
\* has been with, is 1, 2, 3, ... under consecutive numbers; a step sends
\* two messages of one subscription only at its end; a farewell fed on an
\* engine concerns no subscription that the same request acknowledges.
StreamsImplemented ==
    /\ \A s \in Subs : Stream(s)!Init
    /\ [][\A s \in Subs : Stream(s)!Next \/ UNCHANGED Stream(s)!vars]_vars

-----------------------------------------------------------------------------
(***************************************************************************)
(* Ownership and the states of a subscription.                             *)
(***************************************************************************)

\* A subscription is with one engine exactly while it lives, a closed session
\* keeps no subscription, no request and no farewell, and the orphan engine
\* has no request (its subscriptions are LATE, then expire).
OwnershipConsistent ==
    /\ \A s \in Subs : Live(s) <=> sub[s].engine # NoEngine
    /\ \A e \in Sessions : sessionClosed[e] =>
          OwnedBy(e) = {} /\ queue[e] = <<>> /\ closed[e] = <<>>
    /\ queue[Orphan] = <<>>

\* A live subscription has no farewell waiting on the session that owns it:
\* coming back, it sweeps away the StatusChangeNotification that told this
\* session of its departure.
FarewellsElsewhere ==
    \A e \in Engines : \A i \in DOMAIN closed[e] :
        Live(closed[e][i].sub) => sub[closed[e][i].sub].engine # e

\* The step is the expiry of subscription s.
Expires(s) ==
    /\ Live(s) /\ ~Live(s)'
    /\ \E late \in SUBSET Hinted : TimerTick(s, late) \/ RunTick(s, late)

\* An enabled subscription expires only on a session that has no request to
\* offer: nothing but timeouts is answered when it does.
ExpiresWithoutRequests ==
    [][\A s \in Subs :
         (sub[s].enabled /\ Expires(s)) =>
            /\ queue'[sub[s].engine] = <<>>
            /\ \A i \in DOMAIN out' : out'[i].result = "BadTimeout"]_vars

-----------------------------------------------------------------------------
(***************************************************************************)
(* Progress, under FairSpec.                                               *)
(***************************************************************************)

\* A PublishRequest is answered, sooner or later, although services reset the
\* keep-alive counter again and again, once those calls have come to an end
\* (here they are MaxCalls).  A transfer of the last subscription may leave it
\* on an engine without subscription (IdleByTransferOnly); with one session
\* there is no such transfer and nothing is excepted.
RequestsAnswered ==
    \A r \in Requests :
        r \in InFlight ~> r \notin InFlight \/ \E e \in Sessions : Idle(e) /\ r \in Queued(e)

\* A subscription that is not fed comes to its end: on a session whose client
\* fell silent, and as an orphan nobody claims.
StarvedSubscriptionsEnd ==
    \A s \in Subs :
        Live(s) ~> (~Live(s) \/ (sub[s].engine \in Sessions /\ queue[sub[s].engine] # <<>>))

\* While requests are available, an enabled subscription delivers what its
\* items produced.
DataDelivered ==
    \A s \in Subs : \A k \in 1..MaxData :
        (Live(s) /\ sub[s].produced >= k)
            ~> (\/ sub[s].delivered >= k
                \/ ~Live(s) \/ ~sub[s].enabled
                \/ sub[s].engine = Orphan
                \/ queue[sub[s].engine] = <<>>)
=============================================================================
