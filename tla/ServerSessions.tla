--------------------------- MODULE ServerSessions ---------------------------
(***************************************************************************)
(* The sessions of a server and the channels they live on: the end point   *)
(* that admits connections (OPCUAServerEndPoint), the session services     *)
(* (CreateSession, ActivateSession, CloseSession, and the check every      *)
(* other service begins with), the engine that holds the sessions, the     *)
(* watchdog that ends the silent ones, and shutdown().                     *)
(*                                                                         *)
(* A handler that waits (for a user to be authorized, for the application  *)
(* to be told of monitored items, for a session that makes room to close)  *)
(* is a record in handlers; what it finds when it goes on may have         *)
(* changed. Each socket is one connection, with the channel made for it.   *)
(***************************************************************************)
EXTENDS Integers, FiniteSets

CONSTANTS
    MaxConnections, \* of the end point
    MaxSessions,    \* serverCapabilities.maxSessions
    Timeout,        \* sessionTimeout, in ticks
    Sockets,        \* bound on the connections clients make
    Creations,      \* bound on the sessions that are created
    MaxRequests     \* bound on the requests clients send

ASSUME SessionsAssumption ==
    /\ MaxConnections \in Nat \ {0} /\ MaxSessions \in Nat \ {0}
    /\ Timeout \in Nat \ {0}
    /\ Sockets \in Nat /\ Creations \in Nat /\ MaxRequests \in Nat

VARIABLES
    phase,      \* how far shutdown() has come
    sockets,    \* the connections, each with its channel
    channels,   \* _channels of the end point
    sessions,   \* the sessions made so far, live or disposed of
    engine,     \* _sessions, and the count of them the engine keeps
    handlers,   \* requests whose handler waits
    requests    \* how many requests came

vars == <<phase, sockets, channels, sessions, engine, handlers, requests>>

Connections == 1..Sockets
Sessions    == 1..Creations
Nobody      == 0      \* no channel, no session; and the token of a session that was disposed of

Phases == {"running", "leaving", "tasks", "disposed", "closing", "stopped", "failed"}

Socket == [state  : {"unseen", "knocking", "init", "open", "closing", "gone"},
           key    : Nat,                         \* channelId, while it is in channels
           victim : Connections \cup {Nobody},   \* the channel whose end it waits for
           tokens : SUBSET (Sessions \cup {Nobody})]

Session == [status  : {"none", "new", "active", "screwed", "disposed"},
            channel : Connections \cup {Nobody},
            age     : 0..Timeout]                \* ticks since the client was seen

Engine == [sessions : SUBSET Sessions, count : Nat, created : 0..Creations]

Handler == [id : 1..MaxRequests, kind : {"create", "activate", "close"},
            channel : Connections, session : Sessions \cup {Nobody}]

Init ==
    /\ phase = "running"
    /\ sockets = [c \in Connections |->
                    [state |-> "unseen", key |-> 0, victim |-> Nobody, tokens |-> {}]]
    /\ channels = {}
    /\ sessions = [s \in Sessions |-> [status |-> "none", channel |-> Nobody, age |-> 0]]
    /\ engine = [sessions |-> {}, count |-> 0, created |-> 0]
    /\ handlers = {}
    /\ requests = 0

serverVars  == <<sessions, engine>>
socketVars  == <<sockets, channels>>
requestVars == <<handlers, requests>>

Alive == phase # "failed"

\* _started
Started == phase \in {"running", "leaving", "tasks", "disposed"}

\* Handlers that go on as soon as the current callback returns: before any other callback.
Resuming == {h \in handlers : h.kind = "create"}

\* A callback of its own begins.
Turn == Alive /\ Resuming = {}

-----------------------------------------------------------------------------
(***************************************************************************)
(* The end point.                                                          *)
(***************************************************************************)
\* channelIds increase: the number of sockets whose fate was decided gives the next one.
NextKey == 1 + Cardinality({c \in Connections : sockets[c].state \notin {"unseen", "knocking"}})

Full == Cardinality(channels) >= MaxConnections

\* hasSession
Unused == {c \in channels : sockets[c].tokens = {}}

\* unused_channels[0], if there is one
OldestUnused == {c \in Unused : \A d \in Unused : sockets[c].key <= sockets[d].key}

Denied(c) ==
    /\ sockets' = [sockets EXCEPT ![c].state = "gone", ![c].victim = Nobody]
    /\ UNCHANGED channels

\* _on_client_connection and _prevent_DDOS_Attack: when the end point is full, the oldest
\* channel without a session is closed, and the newcomer waits for its end.
Connect(c) ==
    /\ Turn
    /\ sockets[c].state = "unseen" /\ \A d \in 1..(c - 1) : sockets[d].state # "unseen"
    /\ \/ /\ ~Started \/ (Full /\ Unused = {})
          /\ Denied(c)
       \/ /\ Started /\ ~Full
          /\ sockets' = [sockets EXCEPT ![c].state = "knocking"]
          /\ UNCHANGED channels
       \/ /\ Started /\ Full
          /\ \E victim \in OldestUnused :
                 \/ /\ sockets[victim].state # "closing"
                    /\ sockets' = [sockets EXCEPT ![c].state      = "knocking",
                                                  ![c].victim     = victim,
                                                  ![victim].state = "closing"]
                    /\ UNCHANGED channels
                 \* it is closing already: close() calls back at once, and c is established
                 \/ /\ sockets[victim].state = "closing"
                    /\ sockets' = [sockets EXCEPT ![c].state = "init", ![c].key = NextKey,
                                                  ![victim].state = "gone", ![victim].key = 0]
                    /\ channels' = (channels \ {victim}) \cup {c}
    /\ UNCHANGED <<phase, serverVars, requestVars>>

\* establish_connection: the number of channels is checked again, and
\* _preregisterChannel asserts that the end point has not been shut down meanwhile.
Establish(c) ==
    /\ Turn
    /\ sockets[c].state = "knocking"
    /\ sockets[c].victim # Nobody => sockets[sockets[c].victim].state = "gone"
    /\ \/ Full /\ Denied(c) /\ UNCHANGED phase
       \/ /\ ~Full /\ Started
          /\ sockets' = [sockets EXCEPT ![c].state = "init", ![c].key = NextKey,
                                        ![c].victim = Nobody]
          /\ channels' = channels \cup {c}
          /\ UNCHANGED phase
       \/ ~Full /\ ~Started /\ phase' = "failed" /\ UNCHANGED socketVars
    /\ UNCHANGED <<serverVars, requestVars>>

\* Hello, Acknowledge, and the first OpenSecureChannel: _registerChannel
Opened(c) ==
    /\ Turn
    /\ sockets[c].state = "init"
    /\ sockets' = [sockets EXCEPT ![c].state = "open"]
    /\ UNCHANGED <<phase, channels, serverVars, requestVars>>

\* _abort, and _unregisterChannel (or _un_pre_registerChannel) that listens to it. The sessions
\* of the channel keep it, and it keeps them.
Gone(c) ==
    /\ sockets' = [sockets EXCEPT ![c].state = "gone", ![c].key = 0]
    /\ channels' = channels \ {c}

\* The client, the network or a timer ends the connection.
Lost(c) ==
    /\ Turn
    /\ sockets[c].state \in {"init", "open"}
    /\ Gone(c)
    /\ UNCHANGED <<phase, serverVars, requestVars>>

\* The socket of a channel that the server closes has closed.
SocketClosed(c) ==
    /\ Turn
    /\ sockets[c].state = "closing"
    /\ Gone(c)
    /\ UNCHANGED <<phase, serverVars, requestVars>>

-----------------------------------------------------------------------------
(***************************************************************************)
(* The engine.                                                             *)
(***************************************************************************)
\* closeSession, one after the other: close(), _detach_channel, dispose()
Closed(S) ==
    /\ sessions' = [s \in Sessions |-> IF s \in S
                      THEN [status |-> "disposed", channel |-> Nobody, age |-> 0]
                      ELSE sessions[s]]
    /\ engine' = [engine EXCEPT !.sessions = @ \ S, !.count = @ - Cardinality(S)]
    /\ sockets' = [c \in Connections |-> [sockets[c] EXCEPT !.tokens = @ \ S]]

\* createSession, and _attach_channel
Created(c) ==
    LET s == engine.created + 1
    IN  /\ sessions' = [sessions EXCEPT ![s] = [status |-> "new", channel |-> c, age |-> 0]]
        /\ engine' = [sessions |-> engine.sessions \cup {s}, count |-> engine.count + 1,
                      created |-> s]
        /\ sockets' = [sockets EXCEPT ![c].tokens = @ \cup {s}]

\* getOldestInactiveSession: a screwed one, otherwise a new one
Inactive ==
    LET With(status) == {s \in engine.sessions : sessions[s].status = status}
    IN  IF With("screwed") # {} THEN With("screwed") ELSE With("new")

OldestInactive == {s \in Inactive : \A t \in Inactive : s <= t}

-----------------------------------------------------------------------------
(***************************************************************************)
(* The session services. A request comes on an open channel; several may   *)
(* come in one piece, before a handler of the first resumes.               *)
(***************************************************************************)
Arrives(c) ==
    /\ Alive /\ \A h \in Resuming : h.channel = c
    /\ sockets[c].state = "open"
    /\ requests < MaxRequests
    /\ requests' = requests + 1

Waits(kind, c, s) ==
    handlers' = handlers \cup {[id |-> requests + 1, kind |-> kind, channel |-> c, session |-> s]}

Known(s) == s <= engine.created

NoRoom == engine.count >= MaxSessions

\* _on_CreateSessionRequest, to the answer or to its await
CreateSession(c) ==
    /\ Arrives(c)
    /\ engine.created + Cardinality(Resuming) < Creations
    /\ \/ ~NoRoom /\ Created(c) /\ UNCHANGED handlers
       \/ /\ NoRoom
          /\ Closed(OldestInactive)
          /\ Waits("create", c, Nobody)
    /\ UNCHANGED <<phase, channels>>

\* (slip: the room that was made is taken for granted)
CreateResumes_Trusting(h) ==
    /\ Alive /\ h.kind = "create" /\ \A g \in Resuming : h.id <= g.id
    /\ Created(h.channel)
    /\ handlers' = handlers \ {h}
    /\ UNCHANGED <<phase, channels, requests>>

\* and from there on: the number of sessions is checked again
CreateResumes(h) ==
    /\ Alive /\ h.kind = "create" /\ \A g \in Resuming : h.id <= g.id
    /\ \/ NoRoom /\ UNCHANGED <<sessions, engine, sockets>>
       \/ ~NoRoom /\ Created(h.channel)
    /\ handlers' = handlers \ {h}
    /\ UNCHANGED <<phase, channels, requests>>

\* keepAlive of a session the watchdog attends
KeptAlive(s) == sessions' = [sessions EXCEPT ![s].age = IF s \in engine.sessions THEN 0 ELSE @]

\* May s be activated on c, as far as its status tells?
Activable(s, c) ==
    /\ s \in engine.sessions
    /\ sessions[s].status = "new" => sessions[s].channel = c
    /\ sessions[s].status # "screwed"

\* _on_ActivateSessionRequest, to a refusal or until the user is authorized
ActivateSession(c, s) ==
    /\ Arrives(c) /\ Known(s)
    /\ KeptAlive(s)
    /\ \/ Activable(s, c) /\ Waits("activate", c, s)
       \/ ~Activable(s, c) /\ UNCHANGED handlers
    /\ UNCHANGED <<phase, sockets, channels, engine>>

\* isValidUserIdentityToken or isUserAuthorized says no.
UserDenied(h) ==
    /\ Turn /\ h.kind = "activate"
    /\ handlers' = handlers \ {h}
    /\ UNCHANGED <<phase, socketVars, serverVars, requests>>

\* the key of a session in sessionTokens: dispose() takes its token away
Token(s) == IF s \in engine.sessions THEN s ELSE Nobody

\* (slip: the old channel keeps the session)
Moved_Copied(s, c) == [sockets EXCEPT ![c].tokens = @ \cup {Token(s)}]

\* moveSessionToChannel: _detach_channel, _attach_channel
Moved(s, c) ==
    [d \in Connections |->
        [sockets[d] EXCEPT !.tokens = (IF d = sessions[s].channel THEN @ \ {Token(s)} ELSE @)
                                      \cup (IF d = c THEN {Token(s)} ELSE {})]]

\* They say yes: what has become of the session meanwhile is not looked at again.
UserAuthorized(h) ==
    LET s == h.session
    IN  /\ Turn /\ h.kind = "activate"
        /\ \/ /\ sessions[s].status = "active"
              /\ sockets' = Moved(s, h.channel)
              /\ sessions' = [sessions EXCEPT ![s].channel = h.channel]
           \/ /\ sessions[s].status # "active"
              /\ sessions' = [sessions EXCEPT ![s].status = "active"]
              /\ UNCHANGED sockets
        /\ handlers' = handlers \ {h}
        /\ UNCHANGED <<phase, channels, engine, requests>>

\* prepare and _apply_on_SessionObject: any other service. A session that was never activated
\* is marked, a session that is active is kept alive.
OtherService(c, s) ==
    /\ Arrives(c) /\ Known(s)
    /\ \/ /\ s \notin engine.sessions \/ sessions[s].channel # c
          /\ UNCHANGED sessions
       \/ /\ s \in engine.sessions /\ sessions[s].channel = c
          /\ IF sessions[s].status = "active" THEN KeptAlive(s)
             ELSE sessions' = [sessions EXCEPT ![s].status = "screwed"]
    /\ UNCHANGED <<phase, socketVars, engine, handlers>>

\* _on_CloseSessionRequest and _closeSession, to the answer or until the application has been
\* told of the monitored items
CloseSession(c, s) ==
    /\ Arrives(c) /\ Known(s)
    /\ \/ s \notin engine.sessions /\ UNCHANGED <<handlers, sessions, engine, sockets>>
       \/ s \in engine.sessions /\ Closed({s}) /\ UNCHANGED handlers
       \/ /\ s \in engine.sessions
          /\ Waits("close", c, s)
          /\ UNCHANGED <<sessions, engine, sockets>>
    /\ UNCHANGED <<phase, channels>>

\* (slip: the session is taken for still there)
CloseResumes_Trusting(h) ==
    /\ Turn /\ h.kind = "close"
    /\ Closed({h.session})
    /\ handlers' = handlers \ {h}
    /\ UNCHANGED <<phase, channels, requests>>

\* and from there on; closeSession throws when the session has gone.
CloseResumes(h) ==
    /\ Turn /\ h.kind = "close"
    /\ Closed({h.session} \cap engine.sessions)
    /\ handlers' = handlers \ {h}
    /\ UNCHANGED <<phase, channels, requests>>

-----------------------------------------------------------------------------
(***************************************************************************)
(* The watchdog, which visits its subscribers once a second.               *)
(***************************************************************************)
Tick ==
    /\ Turn
    /\ \E s \in engine.sessions : sessions[s].age < Timeout
    /\ sessions' = [s \in Sessions |->
                      IF s \in engine.sessions /\ sessions[s].age < Timeout
                      THEN [sessions[s] EXCEPT !.age = @ + 1] ELSE sessions[s]]
    /\ UNCHANGED <<phase, socketVars, engine, requestVars>>

\* (slip: a session whose channel is open counts as alive)
Expired_Disconnected ==
    {s \in engine.sessions : /\ sessions[s].age = Timeout
                             /\ sockets[sessions[s].channel].state # "open"}

\* hasExpired
Expired == {s \in engine.sessions : sessions[s].age = Timeout}

\* _visit_subscriber: all that expired are closed, in one callback
Visit ==
    /\ Turn
    /\ Expired # {}
    /\ Closed(Expired)
    /\ UNCHANGED <<phase, channels, requestVars>>

-----------------------------------------------------------------------------
(***************************************************************************)
(* shutdown(). Requests are served, and connections admitted, until the    *)
(* end points are shut down, after the sessions and the engine.            *)
(***************************************************************************)
Shutdown ==
    /\ Turn
    /\ phase = "running"
    /\ phase' = "leaving"
    /\ UNCHANGED <<socketVars, serverVars, requestVars>>

\* shutdown of the engine, to the first shutdown task
EngineShutdown ==
    /\ Turn
    /\ phase = "leaving"
    /\ Closed(engine.sessions)
    /\ phase' = "tasks"
    /\ UNCHANGED <<channels, requestVars>>

\* The tasks are done: dispose of the engine asserts that there are no sessions.
TasksDone ==
    /\ Turn
    /\ phase = "tasks"
    /\ phase' = IF engine.sessions = {} THEN "disposed" ELSE "failed"
    /\ UNCHANGED <<socketVars, serverVars, requestVars>>

\* shutdown of the end point: every channel is closed; one that is closing calls back at once.
EndpointShutdown ==
    /\ Turn
    /\ phase = "disposed"
    /\ LET closing == {c \in channels : sockets[c].state = "closing"}
       IN  /\ sockets' = [c \in Connections |->
                            CASE c \in closing            -> [sockets[c] EXCEPT !.state = "gone", !.key = 0]
                              [] c \in channels \ closing -> [sockets[c] EXCEPT !.state = "closing"]
                              [] OTHER                    -> sockets[c]]
           /\ channels' = channels \ closing
    /\ phase' = "closing"
    /\ UNCHANGED <<serverVars, requestVars>>

\* All channels are closed: the server is disposed of, and its engine once more.
Stop ==
    /\ Turn
    /\ phase = "closing" /\ channels = {}
    /\ phase' = IF engine.sessions = {} THEN "stopped" ELSE "failed"
    /\ UNCHANGED <<socketVars, serverVars, requestVars>>

-----------------------------------------------------------------------------
Next ==
    \/ \E c \in Connections : \/ Connect(c) \/ Establish(c) \/ Opened(c)
                              \/ Lost(c) \/ SocketClosed(c) \/ CreateSession(c)
    \/ \E c \in Connections, s \in Sessions :
          \/ ActivateSession(c, s) \/ OtherService(c, s) \/ CloseSession(c, s)
    \/ \E h \in handlers : \/ CreateResumes(h) \/ UserDenied(h) \/ UserAuthorized(h)
                           \/ CloseResumes(h)
    \/ Tick \/ Visit
    \/ Shutdown \/ EngineShutdown \/ TasksDone \/ EndpointShutdown \/ Stop

Spec == Init /\ [][Next]_vars

\* Callbacks that were queued run, timers fire, sockets that are destroyed close; the application
\* answers when it is asked who may connect, told of items, and given shutdown tasks. A channel
\* that does not open is closed by a timer. Clients owe the server nothing.
Fairness ==
    /\ WF_vars(\E c \in Connections : Establish(c))
    /\ WF_vars(\E c \in Connections : SocketClosed(c))
    /\ WF_vars(\E c \in Connections : Opened(c) \/ (sockets[c].state = "init" /\ Lost(c)))
    /\ WF_vars(\E h \in handlers : \/ CreateResumes(h) \/ UserDenied(h) \/ UserAuthorized(h)
                                   \/ CloseResumes(h))
    /\ WF_vars(Tick) /\ WF_vars(Visit)
    /\ WF_vars(EngineShutdown \/ TasksDone \/ EndpointShutdown \/ Stop)

FairSpec == Spec /\ Fairness
=============================================================================
