-------------------------- MODULE ClientConnection --------------------------
(***************************************************************************)
(* The connection of a client to its server (client_base_impl.ts): its     *)
(* state, the secure channel it holds and replaces, connect() and          *)
(* disconnect(), the repair of a connection that is lost, and the repair   *)
(* of the session that used it (reconnection.ts, client_session_impl.ts).  *)
(*                                                                         *)
(* An action is what one event of node's loop runs, promises that are      *)
(* settled included: an answer, a socket that closes, a timer, a call of   *)
(* the application. A secure channel is what its owner sees of it          *)
(* (client_secure_channel_layer.ts); SecureChannel models its inside.      *)
(*                                                                         *)
(* The application does as client_base.ts:262 asks: it does not connect a  *)
(* client again once it has called disconnect().                           *)
(***************************************************************************)
EXTENDS Naturals, Sequences

CONSTANTS
    Connects,       \* calls of connect()
    Disconnects,    \* calls of disconnect()
    Requests,       \* requests of the session
    Channels,       \* secure channels there may be at once
    MaxLosses,      \* bound on connections the network breaks
    MaxRefusals,    \* bound on attempts and services that fail
    MaxForgotten,   \* bound on sessions the server forgets
    Retries,        \* may be the connection repaired? (reconnectOnFailure)
    Keeps           \* keepPendingSessionsOnDisconnect

ASSUME ConnectionAssumption ==
    /\ MaxLosses \in Nat /\ MaxRefusals \in Nat /\ MaxForgotten \in Nat
    /\ Retries \subseteq BOOLEAN /\ Keeps \subseteq BOOLEAN

VARIABLES
    client,     \* the client: its state, channels, calls and session
    server,     \* does the server know the session?
    faults      \* losses, refusals and forgotten sessions so far

vars == <<client, server, faults>>

None == 0
Repair == "repair"      \* the maker of a channel that replaces another

ASSUME NamesAssumption ==
    /\ None \notin Channels
    /\ Repair \notin Connects
    /\ {"client", "user"} \cap (Requests \cup Disconnects \cup Connects) = {}

States == {"disconnected", "connecting", "connected", "reconnecting",
           "reconnecting_newchannel_connected", "disconnecting", "panic"}

\* The stages of a channel's creation, for the one who makes it: in create(), in
\* getEndpoints(), in abortConnection() after a failure; then it is over.
ChannelType == [phase : {"dialing", "opening", "open", "closing", "dead"},
                maker : Connects \cup {Repair},
                stage : {"create", "endpoints", "abort", "over"}]

\* repairing: who asked for the repair under way; reconnecting is repairing # {}.
SessionType == [state     : {"none", "open", "closed", "removed"},
                repairing : SUBSET (Requests \cup {"client"}),
                step      : {"none", "activate", "recreate", "wait"},
                closers   : SUBSET (Disconnects \cup {"user"})]

isUnusable(c) == c.state \in {"disconnected", "disconnecting", "panic"}

\* isReconnecting
isReconnecting(c) ==
    \/ c.state \in {"reconnecting", "reconnecting_newchannel_connected"}
    \/ c.channel # None /\ c.channels[c.channel].phase = "dialing"

\* The client can send a request of its session. (performMessageTransaction)
CanSend(c) ==
    /\ c.channel # None
    /\ c.channels[c.channel].phase = "open"
    /\ c.state \in {"connected", "reconnecting_newchannel_connected", "connecting", "reconnecting"}

-----------------------------------------------------------------------------
(***************************************************************************)
(* Secure channels.                                                        *)
(***************************************************************************)

\* Channels nothing refers to any more, whose place a new one may take
Unused(c) == {k \in Channels : /\ c.channels[k].phase = "dead"
                               /\ c.channels[k].stage = "over"
                               /\ \A d \in Disconnects : c.closes[d] # k}

\* _internal_create_secure_channel, up to the call of create()
ChannelMade(c, maker) ==
    LET k == CHOOSE k \in Unused(c) : TRUE
    IN  [c EXCEPT !.channel = k,
                  !.channels[k] = [phase |-> "dialing", maker |-> maker, stage |-> "create"]]

\* _destroy_secure_channel: the socket's "close" event will call the requests back.
Destroyed(c) ==
    IF c.channel = None THEN c
    ELSE [c EXCEPT !.channel = None, !.channels[c.channel].phase = "dead",
                   !.requests = [r \in Requests |-> IF @[r] \in {"sent", "resent"} THEN "dropped"
                                                    ELSE @[r]]]

-----------------------------------------------------------------------------
(***************************************************************************)
(* The repair of the connection. repair is where it stands: its channel is *)
(* being made ("channel"), will be made again at once ("retry"), or its    *)
(* sessions are being repaired; insideRepairConnection is repair # "none". *)
(* overtaken is history: a repair began while a channel was in place,      *)
(* which is reported as an internal error. So is crossed: one began while  *)
(* connect() had not made its channel yet. The timer of a connection that  *)
(* was lost before the endpoints were known does so; its repair gives up   *)
(* and calls the client disconnected, and another connect() may begin      *)
(* beside the first.                                                       *)
(***************************************************************************)

\* _repairConnection: a timer that runs __innerRepairConnection
RepairScheduled(c) ==
    IF isUnusable(c) THEN c ELSE [c EXCEPT !.timers = Append(@, "inner")]

\* What __innerRepairConnection does when the channel could not be made.
RepairFailed(c) ==
    LET d == [c EXCEPT !.repair = "none", !.again = FALSE]
    IN  IF c.again THEN RepairScheduled(d) ELSE [d EXCEPT !.state = "disconnected"]

\* (slip: it does not ask whether the reconnection was canceled)
Attempted_Goes(c) ==
    IF c.channel # None THEN RepairFailed(c)
    ELSE ChannelMade(c, Repair)

\* _attempt_to_recreate_secure_channel
Attempted(c) ==
    IF c.canceled THEN RepairFailed(c)
    ELSE IF c.channel # None THEN RepairFailed(c)
    ELSE ChannelMade(c, Repair)

\* _recreate_secure_channel
Recreated(c) ==
    IF ~c.known THEN RepairFailed(c)
    ELSE Attempted([c EXCEPT !.state = "reconnecting"])

\* __innerRepairConnection
InnerRepair(c) ==
    IF isUnusable(c) THEN c
    ELSE IF c.repair # "none" THEN [c EXCEPT !.again = TRUE]
    ELSE Recreated([c EXCEPT !.repair = "channel", !.overtaken = @ \/ c.channel # None,
                               !.crossed = @ \/ \E i \in Connects : c.connects[i] = "initializing"])

\* _failAndRetry, and what comes before it when a channel is in place
RepairChannelFailed(c) ==
    IF c.channel # None THEN RepairFailed(c)
    ELSE IF c.canceled THEN RepairFailed(c)
    ELSE [c EXCEPT !.repair = "retry"]

\* (slip: nobody tries again)
SessionsFailed_Rests(c) == Destroyed([c EXCEPT !.repair = "none", !.again = FALSE])

\* _finalReconnectionStep has failed
SessionsFailed(c) ==
    LET d == Destroyed([c EXCEPT !.repair = "none", !.again = FALSE])
    IN  [d EXCEPT !.timers = Append(@, "repair")]

\* (slip: the errors of the sessions are not reported)
SessionsDone_Blind(c, failed) ==
    [c EXCEPT !.repair = "none", !.again = FALSE, !.state = "connected"]

\* The end of repair_client_sessions: it asks _shouldNotContinue3 first.
SessionsDone(c, failed) ==
    IF failed \/ c.channel = None THEN SessionsFailed(c)
    ELSE [c EXCEPT !.repair = "none", !.again = FALSE, !.state = "connected"]

-----------------------------------------------------------------------------
(***************************************************************************)
(* The repair of the session. A request the server refuses because it does *)
(* not know the session any more waits while a repair is under way         *)
(* ("parked"), or asks for one itself ("repairing") and is sent once more. *)
(***************************************************************************)

\* _shouldNotContinue
ShouldNotContinue(c) ==
    \/ c.session.state # "open"
    \/ c.channel = None
    \/ isUnusable(c)

\* What becomes of the requests of a set that are sent again.
SentAgain(c, R, how) ==
    [c EXCEPT !.requests = [r \in Requests |-> IF r \notin R THEN @[r]
                                               ELSE IF CanSend(c) THEN how ELSE "error"]]

Stage(c, stage) == {r \in Requests : c.requests[r] = stage}

\* (slip: "session_restored" is not emitted)
SessionRepairOver_Silent(c, failed) ==
    LET e    == [c EXCEPT !.session.repairing = {}, !.session.step = "none"]
        asks == c.session.repairing
        f    == IF failed THEN [e EXCEPT !.requests = [r \in Requests |->
                                                        IF r \in asks THEN "error" ELSE @[r]]]
                          ELSE SentAgain(e, asks \cap Requests, "resent")
    IN  IF "client" \in asks THEN SessionsDone(f, failed) ELSE f

\* The end of repair_client_session: "session_restored", and everyone's callback.
SessionRepairOver(c, failed) ==
    LET d    == [c EXCEPT !.session.repairing = {}, !.session.step = "none"]
        e    == IF failed THEN d ELSE SentAgain(d, Stage(d, "parked"), "sent")
        asks == c.session.repairing
        f    == IF failed THEN [e EXCEPT !.requests = [r \in Requests |->
                                                        IF r \in asks THEN "error" ELSE @[r]]]
                          ELSE SentAgain(e, asks \cap Requests, "resent")
    IN  IF "client" \in asks THEN SessionsDone(f, failed) ELSE f

\* (slip: nothing happens after services that failed at once)
SessionRepairStep_Rests(c) ==
    IF ShouldNotContinue(c) THEN SessionRepairOver(c, TRUE)
    ELSE [c EXCEPT !.session.step = IF CanSend(c) THEN "activate" ELSE "none"]

\* repeatedAction: on a channel that is not open yet its services fail at once.
SessionRepairStep(c) ==
    IF ShouldNotContinue(c) THEN SessionRepairOver(c, TRUE)
    ELSE [c EXCEPT !.session.step = IF CanSend(c) THEN "activate" ELSE "wait"]

\* repair_client_session
SessionRepair(c, who) ==
    IF c.session.state # "open"
    THEN IF who = "client" THEN SessionsDone(c, FALSE) ELSE SentAgain(c, {who}, "resent")
    ELSE IF c.session.repairing # {} THEN [c EXCEPT !.session.repairing = @ \cup {who}]
    ELSE SessionRepairStep([c EXCEPT !.session.repairing = {who}])

\* _removeSession, dispose: with its listeners go the requests that wait for one.
SessionRemoved(c) ==
    IF c.session.state = "none" THEN c
    ELSE [c EXCEPT !.session.state = "removed",
                   !.requests = [r \in Requests |-> IF @[r] = "parked" THEN "lost" ELSE @[r]]]

-----------------------------------------------------------------------------
(***************************************************************************)
(* How the creation of a channel ends for its maker.                       *)
(***************************************************************************)

\* _handleUnrecoverableConnectionFailure, _handleDisconnectionWhileConnecting
ConnectFailed(c, i) == [c EXCEPT !.state = "disconnected", !.connects[i] = "failed"]

\* _when_connected, _finalReconnectionStep
WhenConnected(c) ==
    LET d == [c EXCEPT !.state = "reconnecting_newchannel_connected", !.repair = "sessions"]
    IN  IF c.session.state \in {"open", "closed"} THEN SessionRepair(d, "client")
        ELSE SessionsDone(d, FALSE)

\* The callback of _internal_create_secure_channel, without an error
Created(c, k) ==
    LET d == [c EXCEPT !.channels[k].stage = "over"]
        i == c.channels[k].maker
    IN  IF i = Repair THEN WhenConnected(d)
        ELSE [d EXCEPT !.state = "connected", !.connects[i] = "connected"]

\* and with one
MakerFailed(c, k) ==
    LET d == [c EXCEPT !.channels[k].stage = "over"]
        i == c.channels[k].maker
    IN  IF i = Repair THEN RepairChannelFailed(d) ELSE ConnectFailed(d, i)

\* The .catch of _internal_create_secure_channel: whatever channel is in place is aborted.
Rejected(c, k) ==
    IF c.channel = None THEN MakerFailed(c, k)
    ELSE [c EXCEPT !.channels[c.channel].phase = "closing", !.channels[k].stage = "abort"]

\* The requests that wait on channel k, which is gone, are called back with an error.
\* Those of a session that is being closed end it, and the disconnects that wait for it.
PendingCanceled(c, k) ==
    LET making  == c.channels[k].stage \in {"create", "endpoints"}
        d       == IF making THEN Rejected(c, k) ELSE c
        e       == IF d.session.step \in {"activate", "recreate"}
                   THEN SessionRepairOver(d, TRUE) ELSE d
        f       == [e EXCEPT !.requests = [r \in Requests |->
                                            IF @[r] \in {"sent", "resent", "dropped"} THEN "error"
                                            ELSE @[r]]]
        closers == f.session.closers
        g       == IF closers = {} THEN f ELSE SessionRemoved([f EXCEPT !.session.closers = {}])
        ended   == closers \cap Disconnects
    IN  [g EXCEPT !.disconnects = [i \in Disconnects |-> IF i \in ended THEN "done" ELSE @[i]],
                  !.state = IF ended # {} /\ @ # "disconnecting" THEN "disconnected" ELSE @]

-----------------------------------------------------------------------------
(***************************************************************************)
(* disconnect() and the closing of the session.                            *)
(***************************************************************************)

\* The channel is closed; the client does not hold it any more.
ChannelTaken(c, d) ==
    LET k == c.channel
    IN  PendingCanceled([c EXCEPT !.channel = None, !.channels[k].phase = "closing",
                                  !.closes[d] = k, !.disconnects[d] = "channel"], k)

\* disconnect, once no session is left to close
DisconnectGoesOn(c, d) ==
    IF c.state \in {"disconnected", "disconnecting"} THEN [c EXCEPT !.disconnects[d] = "done"]
    ELSE LET e == SessionRemoved([c EXCEPT !.state = "disconnecting"])
         IN  IF c.channel = None
             THEN [e EXCEPT !.state = "disconnected", !.disconnects[d] = "done"]
             ELSE ChannelTaken(e, d)

\* The answer to CloseSession, for the one who closes the session
CloseAnswered(c, who) ==
    LET d == SessionRemoved([c EXCEPT !.session.closers = @ \ {who}])
    IN  IF who \in Disconnects THEN DisconnectGoesOn(d, who) ELSE d

\* closeSession: without a channel it is over at once.
SessionClosed(c, who) ==
    IF CanSend(c)
    THEN [c EXCEPT !.session.state = "closed", !.session.closers = @ \cup {who}]
    ELSE CloseAnswered(c, who)

-----------------------------------------------------------------------------
(***************************************************************************)
(* Calls of the application.                                               *)
(***************************************************************************)

Init ==
    /\ \E retry \in Retries, keep \in Keeps :
        client = [state       |-> "disconnected",
                  retry       |-> retry,
                  keep        |-> keep,
                  channel     |-> None,
                  channels    |-> [k \in Channels |-> [phase |-> "dead", maker |-> Repair, stage |-> "over"]],
                  known       |-> FALSE,
                  canceled    |-> FALSE,
                  connects    |-> [i \in Connects |-> "idle"],
                  disconnects |-> [d \in Disconnects |-> "idle"],
                  closes      |-> [d \in Disconnects |-> None],
                  repair      |-> "none",
                  again       |-> FALSE,
                  overtaken   |-> FALSE,
                  crossed     |-> FALSE,
                  timers      |-> <<>>,
                  session     |-> [state |-> "none", repairing |-> {}, step |-> "none", closers |-> {}],
                  requests    |-> [r \in Requests |-> "idle"]]
    /\ server = [knows |-> FALSE]
    /\ faults = [losses |-> 0, refusals |-> 0, forgotten |-> 0]

Becomes(c) == client' = c /\ UNCHANGED <<server, faults>>

Refused(c) ==
    /\ faults.refusals < MaxRefusals
    /\ client' = c
    /\ faults' = [faults EXCEPT !.refusals = @ + 1]
    /\ UNCHANGED server

Connect(i) ==
    /\ client.connects[i] = "idle"
    /\ ~client.canceled
    /\ Becomes(IF client.state # "disconnected" \/ client.channel # None
               THEN [client EXCEPT !.connects[i] = "failed"]
               ELSE [client EXCEPT !.state = "connecting", !.connects[i] = "initializing"])

\* initializeCM is over: connect goes on with _connectStep2, whose assertion may fail.
Initialized(i) ==
    /\ client.connects[i] = "initializing"
    /\ Unused(client) # {}
    /\ \/ IF client.state \in {"disconnecting", "disconnected"} \/ client.channel # None
          THEN Becomes(ConnectFailed(client, i))
          ELSE Becomes(ChannelMade([client EXCEPT !.connects[i] = "channel"], i))
       \/ Refused(ConnectFailed(client, i))

\* disconnect; it closes the sessions first, unless it is to keep them.
Disconnect(d) ==
    /\ client.disconnects[d] = "idle"
    /\ LET c == [client EXCEPT !.canceled = TRUE, !.disconnects[d] = "session"]
       IN  Becomes(IF /\ c.state \notin {"disconnected", "disconnecting"}
                      /\ c.session.state \in {"open", "closed"}
                      /\ ~c.keep
                   THEN SessionClosed(c, d)
                   ELSE DisconnectGoesOn(c, d))

\* CreateSession and ActivateSession, both answered
CreateSession ==
    /\ client.session.state = "none"
    /\ client.state = "connected"
    /\ client' = [client EXCEPT !.session.state = "open"]
    /\ server' = [server EXCEPT !.knows = TRUE]
    /\ UNCHANGED faults

CloseSession ==
    /\ client.session.state = "open"
    /\ Becomes(SessionClosed(client, "user"))

\* performMessageTransaction of the session
Send(r) ==
    /\ client.session.state = "open"
    /\ client.requests[r] = "idle"
    /\ Becomes(SentAgain(client, {r}, "sent"))

-----------------------------------------------------------------------------
(***************************************************************************)
(* What comes from the network.                                            *)
(***************************************************************************)

\* The transport is connected: OpenSecureChannel is sent.
Dialed(k) ==
    /\ client.channels[k].phase = "dialing"
    /\ Becomes([client EXCEPT !.channels[k].phase = "opening"])

\* create() fails, because the server cannot be reached or does not open the channel.
CreateFails(k) ==
    /\ client.channels[k].phase \in {"dialing", "opening"}
    /\ Refused(Rejected(client, k))

\* create() succeeds: getEndpoints is next, if the client does not know them.
Opened(k) ==
    /\ client.channels[k].phase = "opening"
    /\ LET c == [client EXCEPT !.channels[k].phase = "open"]
       IN  Becomes(IF c.channel = None THEN Rejected(c, k)
                   ELSE IF c.known THEN Created(c, k)
                   ELSE [c EXCEPT !.state = "connecting", !.channels[k].stage = "endpoints"])

EndpointsAnswered(k) ==
    /\ client.channels[k].phase = "open"
    /\ client.channels[k].stage = "endpoints"
    /\ \/ Becomes(Created([client EXCEPT !.known = TRUE], k))
       \/ Refused(Rejected(client, k))

\* The callback of abortConnection
Aborted(k) ==
    /\ client.channels[k].stage = "abort"
    /\ Becomes(MakerFailed(Destroyed(client), k))

\* The handler of the channel's "close" event, when the connection is lost, and what
\* #_on_transport_closed does next
Lost(k) ==
    /\ client.channels[k].phase = "open"
    /\ faults.losses < MaxLosses
    /\ LET c == Destroyed(client)
           d == IF c.retry THEN RepairScheduled([c EXCEPT !.state = "reconnecting"])
                ELSE [c EXCEPT !.state = "panic"]
       IN  client' = PendingCanceled(d, k)
    /\ faults' = [faults EXCEPT !.losses = @ + 1]
    /\ UNCHANGED server

\* The callback of the channel's close(), for disconnect
Disconnected(d) ==
    /\ client.closes[d] # None
    /\ Becomes([Destroyed([client EXCEPT !.channel = client.closes[d], !.closes[d] = None])
                 EXCEPT !.state = "disconnected", !.disconnects[d] = "done"])

SessionCloseAnswered(who) ==
    /\ who \in client.session.closers
    /\ Becomes(CloseAnswered(client, who))

\* #reprocessRequest, #_recreate_session_and_reperform_transaction
Answered(r) ==
    /\ client.requests[r] \in {"sent", "resent"}
    /\ Becomes(
        IF server.knows THEN [client EXCEPT !.requests[r] = "answered"]
        ELSE IF client.requests[r] = "resent" THEN [client EXCEPT !.requests[r] = "error"]
        ELSE IF isReconnecting(client) \/ client.session.repairing # {}
        THEN [client EXCEPT !.requests[r] = IF client.session.state = "removed" THEN "lost" ELSE "parked"]
        ELSE IF Stage(client, "repairing") # {} THEN [client EXCEPT !.requests[r] = "error"]
        ELSE SessionRepair([client EXCEPT !.requests[r] = "repairing"], r))

\* The "close" event of a channel that was destroyed
Dropped(r) ==
    /\ client.requests[r] = "dropped"
    /\ Becomes([client EXCEPT !.requests[r] = "error"])

\* ActivateSession of _repair_client_session
ActivateAnswered ==
    /\ client.session.step = "activate"
    /\ Becomes(IF ShouldNotContinue(client) THEN SessionRepairOver(client, TRUE)
               ELSE IF server.knows THEN SessionRepairOver(client, FALSE)
               ELSE [client EXCEPT !.session.step = "recreate"])

\* repair_client_session_by_recreating_a_new_session: another attempt follows a failure.
RecreateAnswered ==
    /\ client.session.step = "recreate"
    /\ \/ /\ client' = SessionRepairOver(client, ShouldNotContinue(client))
          /\ server' = [server EXCEPT !.knows = TRUE]
          /\ UNCHANGED faults
       \/ Refused(IF ShouldNotContinue(client) THEN SessionRepairOver(client, TRUE)
                  ELSE [client EXCEPT !.session.step = "wait"])

-----------------------------------------------------------------------------
(***************************************************************************)
(* Timers, and what the environment does to the server.                    *)
(***************************************************************************)

\* The timers of the repair all take retryDelay: they end in the order they were set.
TimerEnds ==
    /\ client.timers # <<>>
    /\ Unused(client) # {}
    /\ LET c == [client EXCEPT !.timers = Tail(@)]
       IN  Becomes(IF Head(client.timers) = "inner" THEN InnerRepair(c) ELSE RepairScheduled(c))

\* The setImmediate of _failAndRetry
RetryRepair ==
    /\ client.repair = "retry"
    /\ Unused(client) # {}
    /\ Becomes(Attempted([client EXCEPT !.repair = "channel"]))

SessionWaitEnds ==
    /\ client.session.step = "wait"
    /\ Becomes(SessionRepairStep(client))

ServerForgets ==
    /\ server.knows
    /\ faults.forgotten < MaxForgotten
    /\ server' = [server EXCEPT !.knows = FALSE]
    /\ faults' = [faults EXCEPT !.forgotten = @ + 1]
    /\ UNCHANGED client

Next ==
    \/ \E i \in Connects : Connect(i) \/ Initialized(i)
    \/ \E d \in Disconnects : Disconnect(d) \/ Disconnected(d)
    \/ \E k \in Channels : \/ Dialed(k) \/ CreateFails(k) \/ Opened(k)
                           \/ EndpointsAnswered(k) \/ Aborted(k) \/ Lost(k)
    \/ \E who \in Disconnects \cup {"user"} : SessionCloseAnswered(who)
    \/ \E r \in Requests : Send(r) \/ Answered(r) \/ Dropped(r)
    \/ CreateSession \/ CloseSession
    \/ ActivateAnswered \/ RecreateAnswered
    \/ TimerEnds \/ RetryRepair \/ SessionWaitEnds
    \/ ServerForgets

Spec == Init /\ [][Next]_vars

\* What node's loop and the server owe the client: timers end, callbacks are called, and
\* a server that refuses or is away only does so for a while.
Fairness ==
    /\ \A i \in Connects : WF_vars(Initialized(i))
    /\ \A d \in Disconnects : WF_vars(Disconnected(d))
    /\ \A k \in Channels : WF_vars(Dialed(k)) /\ WF_vars(Opened(k)) /\ WF_vars(Aborted(k))
                           /\ WF_vars(EndpointsAnswered(k))
    /\ \A who \in Disconnects \cup {"user"} : WF_vars(SessionCloseAnswered(who))
    /\ \A r \in Requests : WF_vars(Answered(r)) /\ WF_vars(Dropped(r))
    /\ WF_vars(ActivateAnswered) /\ WF_vars(RecreateAnswered)
    /\ WF_vars(TimerEnds) /\ WF_vars(RetryRepair) /\ WF_vars(SessionWaitEnds)

FairSpec == Spec /\ Fairness
=============================================================================
