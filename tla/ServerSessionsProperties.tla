---------------------- MODULE ServerSessionsProperties ----------------------
(***************************************************************************)
(* What the sessions and the channels of a server promise.                 *)
(***************************************************************************)
EXTENDS ServerSessions

\* The state has its type; the count of sessions that closeSession decreases, also when a
\* CloseSession that was waiting goes on after the session has expired, is never negative.
TypeOK ==
    /\ phase \in Phases
    /\ sockets \in [Connections -> Socket]
    /\ channels \subseteq Connections
    /\ sessions \in [Sessions -> Session]
    /\ engine \in Engine
    /\ handlers \subseteq Handler
    /\ requests \in 0..MaxRequests

\* There are never more sessions than maxSessions nor channels than maxConnections, although
\* CreateSession and establish_connection wait for room; currentSessionCount is the number of
\* sessions, and each connection that is up or being closed has its place in _channels.
WithinLimits ==
    /\ engine.count = Cardinality(engine.sessions) /\ engine.count <= MaxSessions
    /\ channels = {c \in Connections : sockets[c].state \in {"init", "open", "closing"}}
    /\ Cardinality(channels) <= MaxConnections

\* A channel has a session in its sessionTokens exactly when the engine has that session and
\* the session has that channel, whatever activations, moves, closes and expiries have met.
ChannelsAgree ==
    \A s \in Sessions, c \in Connections :
        s \in sockets[c].tokens <=> s \in engine.sessions /\ sessions[s].channel = c

AtRest ==
    /\ engine.sessions = {} /\ handlers = {}
    /\ \A c \in Connections : sockets[c].state \notin {"knocking", "init", "closing"}
    /\ phase \in {"running", "stopped"}

\* Clients that fall silent keep nothing: their sessions expire, each request they made is
\* answered, connections that wait are decided and those that close are gone, and a shutdown
\* comes to its end, unless an assertion stopped the server (watchdog, end point, shutdown).
NothingHangs == []<>(AtRest \/ ~Alive)

\* The engine has no session when it is disposed of, as dispose() asserts, although shutdown()
\* closes the sessions before it awaits the shutdown tasks.
NothingLeftAtDispose == [][phase = "tasks" => phase' # "failed"]_vars
=============================================================================
