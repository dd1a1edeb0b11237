-------------------------- MODULE ClientPublishing --------------------------
(***************************************************************************)
(* The publishing of a client's session: the engine that keeps the server  *)
(* supplied with publish requests (client_publish_engine.ts), a            *)
(* subscription of that session (client_subscription_impl.ts), and what    *)
(* happens to both when the connection is lost and the session repaired    *)
(* (reconnection.ts, client_publish_engine_reconnection.ts).               *)
(*                                                                         *)
(* An action is what one event of node's loop runs: a timer, a message, a  *)
(* connection that is lost or replaced. ClientConnection models how the    *)
(* connection is repaired; here it is up or down. The server is what the   *)
(* client sees of it; ServerPublishing models its inside.                  *)
(***************************************************************************)
EXTENDS Integers, Sequences, FiniteSets

CONSTANTS
    Ids,            \* ids the server gives to subscriptions
    Pipeline,       \* publishRequestCountInPipeline
    MaxAccepted,    \* first value of nbMaxPublishRequestsAcceptedByServer
    Capacity,       \* publish requests the server queues for a session
    MaxMessages,    \* bound on notifications of a subscription
    MaxLosses,      \* bound on connections that are lost
    MaxForgotten,   \* bound on sessions the server forgets
    MaxExpired,     \* bound on subscriptions that expire
    MaxRefusals     \* bound on services that fail

ASSUME PublishingAssumption ==
    /\ Ids \subseteq Nat \ {0} /\ IsFiniteSet(Ids)
    /\ Pipeline \in Nat \ {0} /\ Capacity \in Nat \ {0}
    /\ MaxAccepted \in Nat /\ MaxAccepted >= Capacity
    /\ {MaxMessages, MaxLosses, MaxForgotten, MaxExpired, MaxRefusals} \subseteq Nat

VARIABLES
    client,     \* the engine, the subscription and the repair of the session
    server,     \* the session and its subscriptions
    toServer, toClient,     \* messages on the connection
    faults      \* losses, forgotten sessions, expiries and refusals so far

vars == <<client, server, toServer, toClient, faults>>

\* subscriptionId while the subscription has none of the server
Pending     == 0
Terminating == -1
Terminated  == -2

\* What the repair of the session waits for
Steps == {"idle", "begin", "activate", "session", "reactivate", "close", "transfer",
          "recreate", "pause", "republish", "replace", "retry"}

-----------------------------------------------------------------------------
(***************************************************************************)
(* The engine. soon and waiting count the calls of setImmediate and of     *)
(* setTimeout under way; out is what the step at hand sends.               *)
(***************************************************************************)

\* send_publish_request, n times
Requested(c, n) ==
    IF c.suspended \/ c.pending >= c.limit THEN c
    ELSE IF c.up THEN [c EXCEPT !.soon = @ + n]
    ELSE [c EXCEPT !.waiting = @ + n]

\* replenish_publish_request_queue
Replenished(c) == Requested(c, Pipeline)

\* registerSubscription
Registered(c, id) == Replenished([c EXCEPT !.active = @ + 1, !.subs = @ \cup {id}])

\* unregisterSubscription
Unregistered(c, id) == [c EXCEPT !.active = @ - 1, !.subs = @ \ {id}]

\* suspend(false)
Resumed(c) == IF c.suspended THEN Replenished([c EXCEPT !.suspended = FALSE]) ELSE c

\* The end of the callback of a publish request
Renewed(c, active) ==
    IF active /\ ~c.suspended /\ c.active > 0 THEN Requested(c, 1) ELSE c

\* (slip: the request stays counted)
Rejected_Counted(c, code) == Renewed(c, code = "no subscription" /\ c.active < 1)

\* The callback of a publish request that the server refused
Rejected(c, code) ==
    LET d == [c EXCEPT !.pending = @ - 1]
    IN  IF code = "too many" /\ d.pending < d.limit THEN [d EXCEPT !.limit = d.pending]
        ELSE Renewed(d, code = "no subscription" /\ d.active < 1)

Request(c, r) == [c EXCEPT !.out = Append(@, r)]

\* (slip: the request is not counted)
PublishSent_Uncounted(c) ==
    IF c.up THEN Request([c EXCEPT !.acks = {}], [kind |-> "publish", acks |-> c.acks])
    ELSE Renewed([c EXCEPT !.acks = {}], TRUE)

\* internalSendPublishRequest: acknowledgements go with the request, whatever becomes of it.
PublishSent(c) ==
    LET d == [c EXCEPT !.acks = {}]
    IN  IF c.up THEN Request([d EXCEPT !.pending = @ + 1], [kind |-> "publish", acks |-> c.acks])
        ELSE Renewed(d, TRUE)

-----------------------------------------------------------------------------
(***************************************************************************)
(* The subscription.                                                       *)
(***************************************************************************)

\* terminate: PENDING_SUBSCRIPTION_ID is a number like any other, and so a subscription that
\* waits for its id is unregistered and deleted under that one.
Terminates(c) ==
    IF c.id \in {Terminated, Terminating} THEN c
    ELSE IF c.up THEN Request(Unregistered([c EXCEPT !.id = Terminating], c.id),
                              [kind |-> "delete", id |-> c.id])
    ELSE Unregistered([c EXCEPT !.id = Terminated], c.id)

\* onNotificationMessage: a keep-alive has the number of the next notification.
Notified(c, m) ==
    LET d == [c EXCEPT !.last = m.number]
    IN  IF m.content = "timeout" THEN Terminates(d) ELSE d

\* (slip: the number a keep-alive announces is acknowledged)
Received_AcknowledgesAll(c, m) ==
    LET data == IF m.content = "keepalive" THEN {} ELSE {<<m.id, m.number>>}
        d == [c EXCEPT !.pending = @ - 1, !.acks = @ \cup {<<m.id, m.number>>},
                       !.received = @ \cup data]
    IN  Renewed(IF m.id \in d.subs THEN Notified(d, m) ELSE d, TRUE)

\* _receive_publish_response, and the callback around it
Received(c, m) ==
    LET data == IF m.content = "keepalive" THEN {} ELSE {<<m.id, m.number>>}
        d == [c EXCEPT !.pending = @ - 1, !.acks = @ \cup data, !.received = @ \cup data]
    IN  Renewed(IF m.id \in d.subs THEN Notified(d, m) ELSE d, TRUE)

-----------------------------------------------------------------------------
(***************************************************************************)
(* The repair of the session. fresh: it goes by a new session, and not by  *)
(* the reactivation of the old one; todo: the subscriptions to recreate.   *)
(***************************************************************************)

\* (slip: the queue is not replenished)
Repaired_Rests(c) ==
    [(IF c.fresh THEN Resumed(c) ELSE c) EXCEPT !.step = "idle", !.todo = {}]

\* What follows the republishing: publishing resumes.
Repaired(c) ==
    LET d == IF c.subs = {} THEN c ELSE Replenished(c)
    IN  [(IF c.fresh THEN Resumed(d) ELSE d) EXCEPT !.step = "idle", !.todo = {}]

\* republish: the pause before the first Republish request
Republishing(c) ==
    IF c.subs = {} THEN Repaired(c) ELSE [c EXCEPT !.step = "pause"]

\* recreateSubscriptionAndMonitoredItem, up to the service it calls
Recreating(c, step) ==
    Request(Unregistered([c EXCEPT !.step = step], c.id), [kind |-> "create"])

\* recreateSubscriptions
RecreatingNext(c) ==
    IF c.todo \cap c.subs = {} \/ c.id = Terminated THEN Republishing(c)
    ELSE LET id == CHOOSE id \in c.todo \cap c.subs : TRUE
         IN  Recreating([c EXCEPT !.todo = @ \ {id}], "recreate")

\* _repair_client_session
Activating(c) ==
    Request([c EXCEPT !.step = "activate", !.fresh = FALSE], [kind |-> "activate"])

\* attempt_subscription_transfer
Transferring(c) ==
    IF c.subs = {} THEN Republishing(c)
    ELSE Request([c EXCEPT !.step = "transfer"], [kind |-> "transfer", ids |-> c.subs])

\* repair_client_session_by_recreating_a_new_session
Reopening(c) ==
    Request([c EXCEPT !.step = "session", !.fresh = TRUE, !.suspended = TRUE], [kind |-> "session"])

\* __create_subscription, when the server has answered
Created(c, a) ==
    LET d == IF a.result = "good" THEN Registered([c EXCEPT !.id = a.id], a.id) ELSE c
    IN  CASE c.step = "recreate" -> RecreatingNext(d)
          [] c.step = "replace"  -> Repaired(d)
          [] OTHER               -> d

\* __askSubscriptionRepublish, when the server has answered
Republished(c, a) ==
    CASE a.result = "good" ->
            [Notified(c, a.message) EXCEPT !.step = "pause",
                                           !.received = @ \cup {<<a.message.id, a.message.number>>}]
      [] a.result = "no such subscription" /\ c.id # Terminated -> Recreating(c, "replace")
      [] OTHER -> Repaired(c)

\* What the answer to a service of the session or of the repair does
Answered(c, a) ==
    LET good == a.result = "good"
    IN  CASE a.to = "activate" /\ good -> IF c.fresh THEN Transferring(c) ELSE Republishing(c)
          [] a.to = "activate" /\ ~good ->
                IF c.fresh THEN Request([c EXCEPT !.step = "close"], [kind |-> "close"])
                ELSE Reopening(c)
          [] a.to = "session" /\ good ->
                Request([c EXCEPT !.step = "reactivate"], [kind |-> "activate"])
          [] a.to = "transfer" ->
                RecreatingNext([c EXCEPT !.todo = IF good THEN c.subs \ a.ids ELSE c.subs])
          [] a.to = "create" -> Created(c, a)
          [] a.to = "republish" -> Republished(c, a)
          [] a.to = "delete" -> [c EXCEPT !.id = Terminated]
          [] OTHER -> [c EXCEPT !.step = "retry"]

-----------------------------------------------------------------------------
(***************************************************************************)
(* The server, as the client sees it. bound: the session is that of the    *)
(* channel; queue: its publish requests; here: the subscription is in it.  *)
(***************************************************************************)

Here(s) == {i \in Ids : s.subs[i].phase = "live" /\ s.subs[i].here}
Live(s) == {i \in Ids : s.subs[i].phase = "live"}

Answer(to, result) == [kind |-> "answer", to |-> to, result |-> result]
Fault(code) == [kind |-> "fault", code |-> code]
MessageOf(i, number, content) ==
    [kind |-> "message", id |-> i, number |-> number, content |-> content]

\* process_subscriptionAcknowledgements
Acknowledged(s, acks) ==
    [s EXCEPT !.subs = [i \in Ids |->
        IF i \in Here(s) THEN [s.subs[i] EXCEPT !.sent = {n \in @ : <<i, n>> \notin acks}]
        ELSE s.subs[i]]]

\* A pair: the server when it has processed a request, and what it sends
PublishReceived(s, r) ==
    LET t == Acknowledged(s, r.acks)
    IN  IF ~s.session THEN <<s, <<Fault("session")>>>>
        ELSE IF ~s.bound THEN <<s, <<Fault("channel")>>>>
        ELSE IF t.farewells # {} THEN
            LET i == CHOOSE i \in t.farewells : TRUE
            IN  <<[t EXCEPT !.farewells = @ \ {i}], <<MessageOf(i, t.subs[i].next, "timeout")>>>>
        ELSE IF Here(t) = {} THEN <<t, <<Fault("no subscription")>>>>
        ELSE IF t.queue = Capacity THEN <<t, <<Fault("too many")>>>>
        ELSE <<[t EXCEPT !.queue = @ + 1], <<>>>>

Activated(s) ==
    IF s.session THEN <<[s EXCEPT !.bound = TRUE, !.queue = 0], <<Answer("activate", "good")>>>>
    ELSE <<s, <<Answer("activate", "bad")>>>>

\* The subscriptions of the session that goes have no session.
SessionGone(s) ==
    [s EXCEPT !.session = FALSE, !.bound = FALSE, !.queue = 0, !.farewells = {},
              !.subs = [i \in Ids |-> [s.subs[i] EXCEPT !.here = FALSE]]]

Transferred(s, ids) ==
    LET good == {i \in ids : i \in Live(s) \ Here(s)}
    IN  <<[s EXCEPT !.subs = [i \in Ids |-> [s.subs[i] EXCEPT !.here = @ \/ i \in good]]],
          <<[kind |-> "answer", to |-> "transfer", result |-> "good", ids |-> good]>>>>

SubscriptionCreated(s) ==
    LET free == {i \in Ids : s.subs[i].phase = "none"}
        i == CHOOSE i \in free : \A j \in free : i <= j
    IN  IF free = {} THEN <<s, <<Answer("create", "bad")>>>>
        ELSE <<[s EXCEPT !.subs[i].phase = "live", !.subs[i].here = TRUE],
               <<[kind |-> "answer", to |-> "create", result |-> "good", id |-> i]>>>>

\* The subscription that goes last takes the publish requests with it.
SubscriptionDeleted(s, i) ==
    LET t == [s EXCEPT !.subs[i].phase = "gone", !.subs[i].here = FALSE]
    IN  IF i \notin Here(s) THEN <<s, <<Answer("delete", "bad")>>>>
        ELSE IF Here(t) = {} /\ t.farewells = {} THEN
            <<[t EXCEPT !.queue = 0],
              Append([n \in 1 .. s.queue |-> Fault("no subscription")], Answer("delete", "good"))>>
        ELSE <<t, <<Answer("delete", "good")>>>>

RepublishReceived(s, r) ==
    IF r.id \notin Here(s) THEN <<s, <<Answer("republish", "no such subscription")>>>>
    ELSE IF r.number \notin s.subs[r.id].sent THEN <<s, <<Answer("republish", "not available")>>>>
    ELSE <<s, <<[kind |-> "answer", to |-> "republish", result |-> "good",
                 message |-> MessageOf(r.id, r.number, "data")]>>>>

Served(s, r) ==
    CASE r.kind = "publish"   -> PublishReceived(s, r)
      [] r.kind = "activate"  -> Activated(s)
      [] r.kind = "session"   -> <<[SessionGone(s) EXCEPT !.session = TRUE],
                                   <<Answer("session", "good")>>>>
      [] r.kind = "close"     -> <<SessionGone(s), <<Answer("close", "good")>>>>
      [] r.kind = "transfer"  -> Transferred(s, r.ids)
      [] r.kind = "create"    -> SubscriptionCreated(s)
      [] r.kind = "delete"    -> SubscriptionDeleted(s, r.id)
      [] r.kind = "republish" -> RepublishReceived(s, r)

-----------------------------------------------------------------------------
(***************************************************************************)
(* The actions.                                                            *)
(***************************************************************************)

\* The session is active, and the subscription has just asked the server to create it.
Init ==
    /\ client = [up |-> TRUE, suspended |-> FALSE, pending |-> 0, limit |-> MaxAccepted,
                 acks |-> {}, active |-> 0, subs |-> {}, soon |-> 0, waiting |-> 0,
                 id |-> Pending, last |-> -1, received |-> {},
                 step |-> "idle", fresh |-> FALSE, todo |-> {}, out |-> <<>>]
    /\ server = [session |-> TRUE, bound |-> TRUE, queue |-> 0, farewells |-> {},
                 subs |-> [i \in Ids |-> [phase |-> "none", here |-> FALSE,
                                          next |-> 1, sent |-> {}]]]
    /\ toServer = <<[kind |-> "create"]>>
    /\ toClient = <<>>
    /\ faults = [losses |-> 0, forgotten |-> 0, expired |-> 0, refusals |-> 0]

\* The client's state after a step, and what it sent in it
Becomes(c) ==
    /\ client' = [c EXCEPT !.out = <<>>]
    /\ toServer' = toServer \o c.out

\* The callback of setImmediate in send_publish_request
SendsNow ==
    /\ client.soon > 0
    /\ LET c == [client EXCEPT !.soon = @ - 1]
       IN  Becomes(IF c.suspended THEN c ELSE PublishSent(c))
    /\ UNCHANGED <<server, toClient, faults>>

\* The timer of send_publish_request
LooksAgain ==
    /\ client.waiting > 0
    /\ LET c == [client EXCEPT !.waiting = @ - 1]
       IN  Becomes(IF c.subs = {} THEN c ELSE Requested(c, 1))
    /\ UNCHANGED <<server, toClient, faults>>

\* The application terminates its subscription, whose id may not have come yet.
Terminate ==
    /\ client.id \in Ids \cup {Pending}
    /\ client.step = "idle"
    /\ Becomes(Terminates(client))
    /\ UNCHANGED <<server, toClient, faults>>

ClientReceives ==
    /\ toClient # <<>>
    /\ LET m == Head(toClient)
       IN  Becomes(CASE m.kind = "message" -> Received(client, m)
                     [] m.kind = "fault"   -> Rejected(client, m.code)
                     [] m.kind = "answer"  -> Answered(client, m))
    /\ toClient' = Tail(toClient)
    /\ UNCHANGED <<server, faults>>

\* The loop of _republish asks for the message that follows the last it has seen.
AsksRepublish ==
    /\ client.step = "pause"
    /\ Becomes(Request([client EXCEPT !.step = "republish"],
                       [kind |-> "republish", id |-> client.id, number |-> client.last + 1]))
    /\ UNCHANGED <<server, toClient, faults>>

\* The connection is lost. Publish requests are called back: those of a connection that breaks
\* are not sent again, those of one the server ends wait for another. (#_on_transport_closed)
Lost(how) ==
    /\ client.up
    /\ faults.losses < MaxLosses
    /\ LET renewed == IF how = "break" \/ client.suspended \/ client.active < 1 THEN 0
                      ELSE IF client.pending < client.limit THEN client.pending ELSE client.limit
       IN  client' = [client EXCEPT !.up = FALSE, !.pending = 0, !.waiting = @ + renewed,
                                    !.step = IF @ = "retry" THEN @ ELSE "idle", !.todo = {},
                                    !.id = IF @ = Terminating THEN Terminated ELSE @]
    /\ LET answers == {toClient[n] : n \in 1 .. Len(toClient)}
       IN  server' = [server EXCEPT !.bound = FALSE,
                                    !.session = @ /\ Answer("session", "good") \notin answers]
    /\ toServer' = <<>> /\ toClient' = <<>>
    /\ faults' = [faults EXCEPT !.losses = @ + 1]

\* A new channel is in place.
Reconnects ==
    /\ ~client.up
    /\ client' = [client EXCEPT !.up = TRUE, !.step = IF @ = "idle" THEN "begin" ELSE @]
    /\ UNCHANGED <<server, toServer, toClient, faults>>

\* repair_client_session
RepairBegins ==
    /\ client.step = "begin"
    /\ Becomes(Activating(client))
    /\ UNCHANGED <<server, toClient, faults>>

\* The timer of a repair that failed
RepairsAgain ==
    /\ client.step = "retry"
    /\ Becomes(IF client.up THEN Activating(client) ELSE [client EXCEPT !.step = "idle"])
    /\ UNCHANGED <<server, toClient, faults>>

ServerReceives ==
    /\ toServer # <<>>
    /\ LET served == Served(server, Head(toServer))
       IN  server' = served[1] /\ toClient' = toClient \o served[2]
    /\ toServer' = Tail(toServer)
    /\ UNCHANGED <<client, faults>>

\* The server answers a service with an error.
Refused ==
    /\ toServer # <<>>
    /\ Head(toServer).kind \notin {"publish", "delete", "close"}
    /\ faults.refusals < MaxRefusals
    /\ toClient' = Append(toClient, Answer(Head(toServer).kind, "refused"))
    /\ toServer' = Tail(toServer)
    /\ faults' = [faults EXCEPT !.refusals = @ + 1]
    /\ UNCHANGED <<client, server>>

\* The response to a publish request; the channel of the session may be gone.
Responds(s, m) ==
    /\ server.queue > 0
    /\ server' = [s EXCEPT !.queue = @ - 1]
    /\ toClient' = IF server.bound THEN Append(toClient, m) ELSE toClient
    /\ UNCHANGED <<client, toServer, faults>>

\* _publish_pending_notifications
Notifies(i) ==
    LET sub == server.subs[i]
    IN  /\ i \in Here(server)
        /\ sub.next <= MaxMessages
        /\ Responds([server EXCEPT !.subs[i].next = @ + 1, !.subs[i].sent = @ \cup {sub.next}],
                    MessageOf(i, sub.next, "data"))

\* _sendKeepAliveResponse
KeepsAlive(i) ==
    /\ i \in Here(server)
    /\ Responds(server, MessageOf(i, server.subs[i].next, "keepalive"))

\* A subscription that found no publish request for its lifetime is closed.
Expires(i) ==
    /\ i \in Live(server)
    /\ server.queue = 0 \/ ~server.subs[i].here
    /\ faults.expired < MaxExpired
    /\ server' = [server EXCEPT !.subs[i].phase = "gone", !.subs[i].here = FALSE,
                                !.farewells = IF server.subs[i].here THEN @ \cup {i} ELSE @]
    /\ faults' = [faults EXCEPT !.expired = @ + 1]
    /\ UNCHANGED <<client, toServer, toClient>>

\* The session has been without a channel for too long.
Forgets ==
    /\ server.session /\ ~server.bound
    /\ faults.forgotten < MaxForgotten
    /\ server' = SessionGone(server)
    /\ faults' = [faults EXCEPT !.forgotten = @ + 1]
    /\ UNCHANGED <<client, toServer, toClient>>

Next ==
    \/ SendsNow \/ LooksAgain \/ Terminate \/ ClientReceives \/ AsksRepublish
    \/ Lost("break") \/ Lost("ended") \/ Reconnects \/ RepairBegins \/ RepairsAgain
    \/ ServerReceives \/ Refused \/ Forgets
    \/ \E i \in Ids : Notifies(i) \/ KeepsAlive(i) \/ Expires(i)

Spec == Init /\ [][Next]_vars

\* Timers fire, messages arrive, the server keeps its subscriptions alive, and the client
\* reconnects; the application, the faults and the notifications owe nothing.
FairSpec ==
    /\ Spec
    /\ WF_vars(SendsNow) /\ WF_vars(LooksAgain) /\ WF_vars(ClientReceives)
    /\ WF_vars(AsksRepublish) /\ WF_vars(Reconnects) /\ WF_vars(RepairBegins)
    /\ WF_vars(RepairsAgain) /\ WF_vars(ServerReceives)
    /\ \A i \in Ids : WF_vars(KeepsAlive(i))
=============================================================================
