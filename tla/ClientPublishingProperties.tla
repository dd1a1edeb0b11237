--------------------- MODULE ClientPublishingProperties ---------------------
(***************************************************************************)
(* What the client's publish engine and its subscription promise, to the   *)
(* application and to the server, across losses of the connection.         *)
(***************************************************************************)
EXTENDS ClientPublishing

\* The messages of the connection, and the requests of the server, that will call the
\* callback of a publish request
Outstanding ==
    Cardinality({n \in 1 .. Len(toServer) : toServer[n].kind = "publish"})
      + (IF server.bound THEN server.queue ELSE 0)
      + Cardinality({n \in 1 .. Len(toClient) : toClient[n].kind \in {"message", "fault"}})

Numbers == 0 .. MaxMessages + 1

(***************************************************************************)
(* The state is what its comments say.                                     *)
(***************************************************************************)
TypeOK ==
    /\ client \in [up : BOOLEAN, suspended : BOOLEAN, pending : Nat, limit : Nat,
                   acks : SUBSET (Ids \X Numbers), active : Int, subs : SUBSET Ids,
                   soon : Nat, waiting : Nat, id : Ids \cup {Pending, Terminating, Terminated},
                   last : Numbers \cup {-1}, received : SUBSET (Ids \X Numbers),
                   step : Steps, fresh : BOOLEAN, todo : SUBSET Ids, out : {<<>>}]
    /\ server \in [session : BOOLEAN, bound : BOOLEAN, queue : 0 .. Capacity,
                   farewells : SUBSET Ids,
                   subs : [Ids -> [phase : {"none", "live", "gone"}, here : BOOLEAN,
                                   next : Numbers, sent : SUBSET Numbers]]]
    /\ ~client.up => toServer = <<>> /\ toClient = <<>>
    /\ server.bound => server.session

(***************************************************************************)
(* The client counts the publish requests it waits for: each that ends,    *)
(* one way or another, is counted off, once (client_publish_engine.ts:269).*)
(* The limit it takes from this count when the server has too many, which  *)
(* only decreases (318), is not below what the server has room for: the    *)
(* client is never silenced by its own estimate.                           *)
(***************************************************************************)
PendingCounted ==
    /\ client.pending = (IF client.up THEN Outstanding ELSE 0)
    /\ client.limit >= Capacity

(***************************************************************************)
(* The server forgets a notification the client acknowledges, and so the   *)
(* client has received each that is forgotten: it does not acknowledge the *)
(* number a keep-alive announces (client_publish_engine.ts:380).           *)
(***************************************************************************)
AcknowledgedReceived ==
    \A i \in Here(server) :
        LET sub == server.subs[i]
        IN  \A n \in 1 .. sub.next - 1 : n \in sub.sent \/ <<i, n>> \in client.received

(***************************************************************************)
(* A subscription the engine knows and the server has is fed with publish  *)
(* requests for ever, once the connection stays up, unless the engine is   *)
(* suspended (reconnection.ts:164, issue 1524) or the subscription has     *)
(* been terminated: one that comes back, or comes in spite of it, was      *)
(* unregistered once too often (client_publish_engine.ts:185), and with a  *)
(* count of active subscriptions of 0 no request is renewed (351).         *)
(***************************************************************************)
Fed == client.up /\ ~client.suspended /\ client.id \in client.subs \cap Here(server)

NeverTerminated == [](client.id \notin {Terminating, Terminated})

RegisteredFed == NeverTerminated /\ <>[]Fed => []<>(server.queue > 0)

(***************************************************************************)
(* The client republishes in a loop that starts "with the next expected    *)
(* sequence number" (client_publish_engine_reconnection.ts:170), so that   *)
(* once a session is repaired nothing the server keeps has been skipped.   *)
(***************************************************************************)
NothingSkipped ==
    client.up /\ client.step = "idle" /\ client.id \in Here(server) =>
        \A n \in server.subs[client.id].sent :
            \/ <<client.id, n>> \in client.received
            \/ \E k \in 1 .. Len(toClient) :
                  toClient[k].kind = "message" /\ toClient[k].number = n
=============================================================================
