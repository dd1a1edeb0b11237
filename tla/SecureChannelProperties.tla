----------------------- MODULE SecureChannelProperties -----------------------
(***************************************************************************)
(* What a secure channel promises, and what the code says of it.           *)
(***************************************************************************)
EXTENDS SecureChannel

MessageType ==
    [type : {"OPN", "MSG", "CLO", "ERR", "END"}, id : Nat, who : Transactions \cup {"create", "renew", "close"},
     token : 0 .. Len(server.asked), key : 0 .. Len(server.asked), start : 0 .. now]

TokenType == [id : 1 .. Len(server.asked), date : 0 .. 2 * now]

\* Types: only tokens that were issued are named, kept or in use, and what nobody waits for is
\* not in the table of requests.
TypeOK ==
    /\ now \in 0 .. MaxTime /\ secured \in BOOLEAN
    /\ client.transport \in {"open", "ending", "closed"}
    /\ client.opened \in BOOLEAN /\ client.deaf \in BOOLEAN
    /\ client.active \in 0 .. Len(server.asked)
    /\ client.tokens \in Seq(TokenType)
    /\ client.renewal \in Nat
    /\ \A r \in client.requests : /\ r.id \in 1 .. client.lastId
                                  /\ r.who \in Transactions => calls[r.who] = "pending"
                                  /\ r.who = "create" => client.create = "pending"
                                  /\ r.who = "close" => client.close = "asked"
    /\ client.create \in {"connected", "pending", "done", "failed"}
    /\ client.close \in {"no", "asked", "transport", "done"}
    /\ server.status \in {"waiting", "connecting", "open", "refusing", "refused", "closed"}
    /\ server.aborted \in BOOLEAN /\ server.secured \in BOOLEAN
    /\ server.tokens \in Seq(TokenType)
    /\ server.held \subseteq MessageType /\ server.checking \subseteq MessageType
    /\ server.taken \subseteq Transactions
    /\ toServer \in Seq(MessageType) /\ toClient \in Seq(MessageType)
    /\ calls \in [Transactions -> {"idle", "pending", "answered", "failed"}]

\* A token is alive for certain as long as 125 % of its life have not passed since the client
\* asked for it: the two ends date it later.
Alive(id) == id > 0 /\ 4 * (now - server.asked[id]) <= 5 * Lifetime

\* Tokens overlap: while a token is alive a message secured with it can be read at the other
\* end, also when it was sent before a renewal and arrives after it, or answers a request that
\* was. (A server that refuses a renewal secures nothing any more.)
TokensHonoured ==
    secured =>
        /\ \A m \in Carried(toServer) :
            m.type \in {"MSG", "CLO"} /\ Alive(m.token) => Readable(server.tokens, m)
        /\ \A m \in Carried(toClient) :
            m.type = "MSG" /\ Alive(m.token) /\ server.secured => Readable(client.tokens, m)

Renewals == {r \in client.requests : r.type = "OPN"}

\* Renewals do not overlap, and one is asked for only while the channel is open: the timer of a
\* token stops with close(), dispose() and the loss of the connection. When the transport is
\* closed nobody is left waiting: create(), close(), a renewal or a transaction.
Settled ==
    /\ Cardinality(Renewals) <= 1
    /\ Renewals # {} => client.renewal = None
    /\ client.renewal # None => IsValid(client) /\ client.opened /\ client.close = "no"
    /\ client.transport = "closed" =>
        client.requests = {} /\ client.create # "pending" /\ client.close \in {"no", "done"}

\* Seen by its user, a channel is a service of remote calls: a request is taken once at most,
\* called back once, answered only if it was taken, whatever comes late.
Service == INSTANCE RemoteCalls
             WITH asked <- calls, taken <- server.taken, up <- client.transport # "closed"

CallsImplemented == Service!Spec

\* Every transaction, create() and close() call back, also when the server does not answer or
\* cannot be understood any more; and an end that has closed does not leave the other open.
CallsReturn ==
    /\ \A t \in Transactions : calls[t] = "pending" ~> calls[t] \in {"answered", "failed"}
    /\ <>(client.create \in {"done", "failed"})
    /\ client.close # "no" ~> client.close = "done"
    /\ client.transport = "closed" ~> server.aborted
    /\ server.aborted ~> client.transport = "closed"
=============================================================================
