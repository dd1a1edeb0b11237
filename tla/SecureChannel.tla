---------------------------- MODULE SecureChannel ----------------------------
(***************************************************************************)
(* A secure channel, both ends: ClientSecureChannelLayer with its          *)
(* transactions, ServerSecureChannelLayer with the requests it holds, the  *)
(* security tokens each keeps (TokenStack) and renews, and the transport   *)
(* between them, which delivers in order until it ends.                    *)
(*                                                                         *)
(* It starts with the transport established (Hello and Acknowledge         *)
(* exchanged) and the first OpenSecureChannel about to be sent. An action  *)
(* is one callback of one process. Time is counted in units; a security    *)
(* token lives for Lifetime of them.                                       *)
(***************************************************************************)
EXTENDS Integers, Sequences, FiniteSets, SequencePick

CONSTANTS
    Transactions,   \* what the application asks of the server
    Secured,        \* may messages be signed? (securityMode is not None)
    Lifetime,       \* revisedLifetime of a security token
    MaxTime,        \* bound on the time
    MaxLosses,      \* bound on connections the network breaks
    MaxRefusals     \* bound on OpenSecureChannel requests the server refuses

ASSUME ChannelAssumption ==
    /\ Secured \subseteq BOOLEAN
    /\ Lifetime \in Nat \ {0} /\ Lifetime % 4 = 0
    /\ MaxTime \in Nat /\ MaxLosses \in Nat /\ MaxRefusals \in Nat
    /\ {"create", "renew", "close"} \cap Transactions = {}

VARIABLES
    now,        \* the time
    secured,    \* is the security mode Sign or SignAndEncrypt?
    client,     \* the client's end
    server,     \* the server's end
    toServer,   \* what the transport carries, in order
    toClient,
    calls,      \* what became of each transaction, as the application knows it
    faults      \* losses and refusals so far

vars == <<now, secured, client, server, toServer, toClient, calls, faults>>

None == 0

\* A message names the token its header names and the token whose keys secured it (or none).
\* start is the time its request was made, for OpenSecureChannel; END is the transport's end.
Message(type, id, who, token, key) ==
    [type |-> type, id |-> id, who |-> who, token |-> token, key |-> key, start |-> 0]

END == Message("END", 0, "close", None, None)
ERR == Message("ERR", 0, "close", None, None)

Carried(wire) == {wire[i] : i \in DOMAIN wire}

-----------------------------------------------------------------------------
(***************************************************************************)
(* TokenStack. A token is dated by twice the time of its creation, because *)
(* the client takes the middle between its request and the answer.         *)
(***************************************************************************)
Token(id, date) == [id |-> id, date |-> date]

\* hasTokenReallyExpired: later than 125 % of its life
Expired(token) == 4 * (2 * now - token.date) > 10 * Lifetime

\* removeOldTokens
Kept(stack) == Pick(stack, {i \in DOMAIN stack : ~Expired(stack[i])})

\* (slip: a new token takes the place of the old ones)
Pushed_Replaces(stack, token) == <<token>>

\* pushNewToken
Pushed(stack, token) == Append(Kept(stack), token)

\* getToken, getTokenDerivedKeys
Holds(stack, id)   == \E i \in DOMAIN stack : stack[i].id = id
HasKeys(stack, id) == \E i \in DOMAIN stack : stack[i].id = id /\ ~Expired(stack[i])

\* getLatestTokenDerivedKeys
LatestKeys(stack) == IF Kept(stack) = <<>> THEN None ELSE Kept(stack)[Len(Kept(stack))].id

\* #_decrypt_MSG: the receiver needs the keys of the token that is named, and they must fit.
Readable(stack, m) == secured => HasKeys(stack, m.token) /\ m.key = m.token

-----------------------------------------------------------------------------
(***************************************************************************)
(* The client. requests are those without an answer yet, each with the one *)
(* who is called back: a transaction, create(), a renewal, close().        *)
(***************************************************************************)
Pending(type, id, who, start) == [type |-> type, id |-> id, who |-> who, start |-> start]

\* Is the transport usable? (isValid)
IsValid(c) == c.transport = "open"

\* The socket is destroyed; its "close" event will follow.
Disconnected(c) == [c EXCEPT !.transport = IF @ = "open" THEN "ending" ELSE @]

\* The callback of close()'s own transaction
CloseDone(c) ==
    IF IsValid(c) THEN [Disconnected(c) EXCEPT !.close = "transport"]
    ELSE [c EXCEPT !.close = "done"]

\* (slip: the request stays in the table)
CalledBack_Stays(c, r) ==
    CASE r.who = "create" -> [c EXCEPT !.create = "failed"]
      [] r.who = "close"  -> CloseDone(c)
      [] OTHER            -> c

\* A request is called back with an error, or without an answer: modified_callback
CalledBack(c, r) ==
    LET d == [c EXCEPT !.requests = @ \ {r}]
    IN  CASE r.who = "create" -> [d EXCEPT !.create = "failed"]
          [] r.who = "close"  -> CloseDone(d)
          [] OTHER            -> d

\* (slip: the table is emptied, and nobody told)
AllCalledBack_Forgets(c) == [c EXCEPT !.requests = {}]

\* cancelPendingTransactions, #_cancel_pending_transactions: all requests are.
AllCalledBack(c) ==
    LET d == [c EXCEPT !.requests = {},
                       !.create   = IF @ = "pending" THEN "failed" ELSE @]
    IN  IF \E r \in c.requests : r.who = "close" THEN CloseDone(d) ELSE d

\* and what becomes of the transactions among them
Failed(R) == [t \in Transactions |-> IF \E r \in R : r.who = t THEN "failed" ELSE calls[t]]

\* (slip: the watchdog of the security token is left running)
TransportClosed_Rests(c) ==
    LET d == AllCalledBack([c EXCEPT !.transport = "closed"])
    IN  [d EXCEPT !.close = IF @ = "transport" THEN "done" ELSE @]

\* #_on_transport_closed; and the callback of the transport's disconnect() follows.
TransportClosed(c) ==
    LET d == AllCalledBack([c EXCEPT !.transport = "closed", !.renewal = None])
    IN  [d EXCEPT !.close = IF @ = "transport" THEN "done" ELSE @]

\* #_internal_perform_transaction, on a transport that is valid
Sent(c, type, who, start) ==
    [c EXCEPT !.lastId = @ + 1, !.requests = @ \cup {Pending(type, c.lastId + 1, who, start)}]

\* #_send_open_secure_channel_request, secured with certificates
OpenRequest(c, who) == [Message("OPN", c.lastId + 1, who, None, None) EXCEPT !.start = now]

\* #_get_security_options: the active token, and its keys if there are any
SecuredRequest(c, type, who) ==
    Message(type, c.lastId + 1, who, c.active,
            IF secured /\ HasKeys(c.tokens, c.active) THEN c.active ELSE None)

\* The callback of an OpenSecureChannel that is answered, with
\* #_install_security_token_watchdog
Opened(c, r, token) ==
    [c EXCEPT !.requests = @ \ {r},
              !.tokens   = Pushed(@, Token(token, r.start + now)),
              !.renewal  = now + (3 * Lifetime) \div 4,
              !.active   = token,
              !.opened   = TRUE,
              !.create   = IF r.who = "create" THEN "done" ELSE @]

-----------------------------------------------------------------------------
(***************************************************************************)
(* The server. It keeps the requests it holds, and OpenSecureChannel while *)
(* the certificates are checked. asked (when the request of each token was *)
(* made) and taken (the transactions received) are history.                *)
(***************************************************************************)

\* close, #_abort: the requests it holds will not be answered.
Closed(s) == [s EXCEPT !.status = "closed", !.aborted = TRUE, !.held = {}]

\* #_get_security_options_for_MSG: the token of the request, or else the latest
ResponseKey(s, token) ==
    IF ~s.secured THEN None
    ELSE IF HasKeys(s.tokens, token) THEN token
    ELSE LatestKeys(s.tokens)

\* #_prepare_security_token
Issued(s, m) ==
    [s EXCEPT !.asked    = Append(@, m.start),
              !.tokens   = Pushed(@, Token(Len(s.asked) + 1, 2 * now)),
              !.status   = "open",
              !.checking = {}]

\* #_on_OpenSecureChannelRequestError, its first part
Refusing(s) == [s EXCEPT !.secured = FALSE, !.status = "refusing", !.checking = {}]

-----------------------------------------------------------------------------
Init ==
    /\ now = 0
    /\ secured \in Secured
    /\ client = [transport |-> "open", opened |-> FALSE, active |-> None, tokens |-> <<>>,
                 renewal |-> None, requests |-> {}, lastId |-> 0, deaf |-> FALSE,
                 create |-> "connected", close |-> "no"]
    /\ server = [status |-> "waiting", aborted |-> FALSE, secured |-> secured, tokens |-> <<>>,
                 checking |-> {}, held |-> {}, asked |-> <<>>, taken |-> {}]
    /\ toServer = <<>> /\ toClient = <<>>
    /\ calls = [t \in Transactions |-> "idle"]
    /\ faults = [losses |-> 0, refusals |-> 0]

-----------------------------------------------------------------------------
(***************************************************************************)
(* The client acts: it becomes c and says something. Once its socket is    *)
(* destroyed nothing is read from it, and the server sees the end.         *)
(***************************************************************************)
ClientActs(c, messages) ==
    LET ending == client.transport = "open" /\ c.transport # "open"
    IN  /\ client' = c
        /\ toServer' = IF server.aborted THEN <<>>
                       ELSE toServer \o messages \o IF ending THEN <<END>> ELSE <<>>
        /\ toClient' = IF c.transport = "open" THEN toClient ELSE <<>>
        /\ UNCHANGED <<now, secured, server, faults>>

\* The setImmediate of #_on_connection
Create ==
    /\ client.create = "connected"
    /\ IF IsValid(client)
       THEN ClientActs([Sent(client, "OPN", "create", now) EXCEPT !.create = "pending"],
                       <<OpenRequest(client, "create")>>)
       ELSE ClientActs([client EXCEPT !.create = "failed"], <<>>)
    /\ UNCHANGED calls

\* performMessageTransaction, once the channel has been opened
Call(t) ==
    /\ calls[t] = "idle"
    /\ client.opened
    /\ IF IsValid(client)
       THEN /\ ClientActs(Sent(client, "MSG", t, 0), <<SecuredRequest(client, "MSG", t)>>)
            /\ calls' = [calls EXCEPT ![t] = "pending"]
       ELSE /\ ClientActs(client, <<>>)
            /\ calls' = [calls EXCEPT ![t] = "failed"]

\* close: everything that is pending is canceled first.
Close ==
    /\ client.close = "no"
    /\ LET c == AllCalledBack([client EXCEPT !.renewal = None])
       IN  IF IsValid(c) /\ c.opened
           THEN ClientActs([Sent(c, "CLO", "close", 0) EXCEPT !.close = "asked"],
                           <<SecuredRequest(c, "CLO", "close")>>)
           ELSE ClientActs([Disconnected(c) EXCEPT !.close = IF IsValid(c) THEN "transport" ELSE "done"],
                           <<>>)
    /\ calls' = Failed(client.requests)

\* dispose, by the owner
Dispose ==
    /\ client.transport = "open"
    /\ ClientActs([Disconnected(client) EXCEPT !.renewal = None], <<>>)
    /\ UNCHANGED calls

\* The timer of a transaction, of #_make_timeout_callback or (100 ms) of #_send_chunk
TimedOut ==
    \E r \in client.requests :
        /\ ClientActs(CalledBack(client, r), <<>>)
        /\ calls' = Failed({r})

\* The "close" event of a socket that was destroyed
SocketClosed ==
    /\ client.transport = "ending"
    /\ ClientActs(TransportClosed(client), <<>>)
    /\ calls' = Failed(client.requests)

\* The watchdog of the security token: #_renew_security_token
Renew ==
    /\ client.renewal # None /\ now >= client.renewal
    /\ LET c == [client EXCEPT !.renewal = None]
       IN  IF IsValid(c) THEN ClientActs(Sent(c, "OPN", "renew", now), <<OpenRequest(c, "renew")>>)
           ELSE ClientActs(c, <<>>)
    /\ UNCHANGED calls

\* #_on_message_received: a response nobody waits for any more is ignored.
Answered(m) ==
    LET waiting == {r \in client.requests : r.id = m.id}
    IN  \/ /\ waiting = {}
           /\ UNCHANGED <<client, calls>>
        \/ /\ m.type = "OPN"
           /\ \E r \in waiting : client' = Opened(client, r, m.token)
           /\ UNCHANGED calls
        \/ /\ m.type = "MSG"
           /\ \E r \in waiting : /\ client' = [client EXCEPT !.requests = @ \ {r}]
                                 /\ calls' = [calls EXCEPT ![r.who] = "answered"]

\* The message builder. An error is reported for the request of the message before, which is
\* not pending any more: nothing ends, but the builder has stopped reading.
ClientReceives ==
    /\ IsValid(client)
    /\ toClient # <<>>
    /\ LET m == Head(toClient)
       IN  IF m.type = "END"
           THEN client' = TransportClosed(client) /\ calls' = Failed(client.requests)
           ELSE IF client.deaf THEN UNCHANGED <<client, calls>>
           ELSE IF m.type = "ERR" \/ (m.type = "MSG" /\ ~Readable(client.tokens, m))
           THEN client' = [client EXCEPT !.deaf = TRUE] /\ UNCHANGED calls
           ELSE Answered(m)
    /\ toClient' = Tail(toClient)
    /\ toServer' = IF client'.transport = "closed" /\ ~server.aborted THEN Append(toServer, END) ELSE toServer
    /\ UNCHANGED <<now, secured, server, faults>>

-----------------------------------------------------------------------------
(***************************************************************************)
(* The server acts: it becomes s and says something. Once it has closed    *)
(* nothing is read any more, and the client sees the end.                  *)
(***************************************************************************)
ServerActs(s, messages) ==
    LET ending == ~server.aborted /\ s.aborted
    IN  /\ server' = s
        /\ toClient' = IF ~IsValid(client) \/ server.aborted THEN toClient
                       ELSE toClient \o messages \o IF ending THEN <<END>> ELSE <<>>
        /\ UNCHANGED <<now, secured, client, calls>>

\* #_handle_OpenSecureChannelRequest: the token is issued, and the answer sent.
OpenHandled(m) ==
    \/ /\ ServerActs(Issued(server, m), <<Message("OPN", m.id, m.who, Len(server.asked) + 1, None)>>)
       /\ UNCHANGED faults
    \/ /\ faults.refusals < MaxRefusals
       /\ ServerActs(Refusing(server), <<>>)
       /\ faults' = [faults EXCEPT !.refusals = @ + 1]

\* #_sendFatalErrorAndAbort, and what an error of the message builder does
Fatal == ServerActs(Closed(server), <<ERR>>) /\ UNCHANGED faults

Received(m) ==
    \/ /\ m.type = "OPN" /\ m.who = "create"
       /\ ServerActs([server EXCEPT !.status = "connecting", !.checking = {m}], <<>>)
       /\ UNCHANGED faults
    \/ /\ m.type = "OPN" /\ m.who = "renew"
       /\ OpenHandled(m)
    \/ /\ m.type = "MSG" /\ Readable(server.tokens, m) /\ Holds(server.tokens, m.token)
       /\ ServerActs([server EXCEPT !.held = @ \cup {m}, !.taken = @ \cup {m.who}], <<>>)
       /\ UNCHANGED faults
    \/ /\ m.type = "MSG" /\ ~(Readable(server.tokens, m) /\ Holds(server.tokens, m.token))
       /\ Fatal
    \/ /\ m.type = "CLO" /\ ~Readable(server.tokens, m)
       /\ Fatal
    \/ /\ m.type = "END" \/ (m.type = "CLO" /\ Readable(server.tokens, m))
       /\ ServerActs(Closed(server), <<>>)
       /\ UNCHANGED faults

\* The message builder, #_on_initial_open_secure_channel_request, #_on_common_message, and
\* the transport's "close" event
ServerReceives ==
    /\ ~server.aborted
    /\ toServer # <<>>
    /\ Received(Head(toServer))
    /\ toServer' = IF server'.aborted THEN <<>> ELSE Tail(toServer)

\* The certificates of the first OpenSecureChannel are checked, maybe after the channel has
\* been aborted.
OpenChecked ==
    /\ \E m \in server.checking : OpenHandled(m)
    /\ UNCHANGED toServer

\* send_response: in any order
Respond ==
    /\ \E m \in server.held :
        ServerActs([server EXCEPT !.held = @ \ {m}],
                   <<Message("MSG", m.id, m.who, m.token, ResponseKey(server, m.token))>>)
    /\ UNCHANGED <<toServer, faults>>

\* The timers of #_on_OpenSecureChannelRequestError
RefusalSent ==
    /\ server.status = "refusing"
    /\ ServerActs([server EXCEPT !.status = "refused"], <<ERR>>)
    /\ UNCHANGED <<toServer, faults>>

\* The last of them, and the watchdog that waits for the first OpenSecureChannel
ServerCloses ==
    /\ server.status \in {"refused", "waiting"}
    /\ ServerActs(Closed(server), <<>>)
    /\ toServer' = <<>>
    /\ UNCHANGED faults

-----------------------------------------------------------------------------
\* The connection breaks: what was on its way may be lost.
Lost ==
    /\ IsValid(client) /\ ~server.aborted
    /\ faults.losses < MaxLosses
    /\ \E i \in 0 .. Len(toServer) : toServer' = Append(SubSeq(toServer, 1, i), END)
    /\ \E i \in 0 .. Len(toClient) : toClient' = Append(SubSeq(toClient, 1, i), END)
    /\ faults' = [faults EXCEPT !.losses = @ + 1]
    /\ UNCHANGED <<now, secured, client, server, calls>>

\* A timer that is due, an immediate and the event of a destroyed socket run before time goes
\* on. Time matters as long as one end is there.
Tick ==
    /\ now < MaxTime
    /\ client.create # "connected" /\ client.transport # "ending"
    /\ ~(client.transport = "closed" /\ server.aborted)
    /\ client.renewal # None => now < client.renewal
    /\ now' = now + 1
    /\ UNCHANGED <<secured, client, server, toServer, toClient, calls, faults>>

Next ==
    \/ Create \/ Close \/ Dispose \/ TimedOut \/ SocketClosed \/ Renew \/ ClientReceives
    \/ \E t \in Transactions : Call(t)
    \/ ServerReceives \/ OpenChecked \/ Respond \/ RefusalSent \/ ServerCloses
    \/ Lost \/ Tick

Spec == Init /\ [][Next]_vars

\* Timers end, sockets close, and the transport delivers or ends; the server's application
\* owes nobody an answer.
Fairness ==
    /\ WF_vars(Create) /\ WF_vars(TimedOut) /\ WF_vars(SocketClosed) /\ WF_vars(ClientReceives)
    /\ WF_vars(ServerReceives) /\ WF_vars(OpenChecked) /\ WF_vars(RefusalSent)
    /\ WF_vars(ServerCloses)

FairSpec == Spec /\ Fairness
=============================================================================
