------------------------ MODULE ServerSessionsProofs ------------------------
(***************************************************************************)
(* Proofs that the sessions and channels of a server keep their types and  *)
(* limits, and that channels and sessions agree on who has whom, for any   *)
(* number of connections, sessions and requests. The invariants are not    *)
(* inductive as they stand: that a session can be created needs a number   *)
(* for it, which the handlers that wait for room have set aside.           *)
(***************************************************************************)
EXTENDS ServerSessionsProperties, FiniteSetTheorems, TLAPS

\* The end point: a connection has its place in channels while it is up, and no other has one.
PlacesInv ==
    /\ sockets \in [Connections -> Socket]
    /\ channels = {c \in Connections : sockets[c].state \in {"init", "open", "closing"}}
    /\ Cardinality(channels) <= MaxConnections

\* The engine: its count is right, and a session that is not made yet is not in it.
EngineInv ==
    /\ sessions \in [Sessions -> Session]
    /\ engine \in Engine
    /\ engine.sessions \subseteq 1..engine.created
    /\ engine.count = Cardinality(engine.sessions)
    /\ engine.count <= MaxSessions

\* The handlers that wait: those that activate or close have a session in mind.
HandlersInv ==
    /\ handlers \subseteq Handler
    /\ IsFiniteSet(handlers)
    /\ \A h \in handlers : h.kind # "create" => h.session \in Sessions
    /\ requests \in 0..MaxRequests

\* Each CreateSession that waits for room has a session to create.
BudgetInv == engine.created + Cardinality(Resuming) <= Creations

IInv ==
    /\ phase \in Phases
    /\ PlacesInv
    /\ EngineInv
    /\ HandlersInv
    /\ BudgetInv
    /\ ChannelsAgree

-----------------------------------------------------------------------------
\* The connections and the sessions are finite sets: what the end point and the engine hold
\* can be counted (channels, _sessions).
LEMMA Countable ==
    ASSUME NEW S, S \subseteq Connections \/ S \subseteq Sessions
    PROVE  IsFiniteSet(S) /\ Cardinality(S) \in Nat
<1>1. IsFiniteSet(Connections) /\ IsFiniteSet(Sessions)
    <2>1. Sockets \in Int /\ Creations \in Int
        BY SessionsAssumption
    <2> QED  BY <2>1, FS_Interval DEF Connections, Sessions
<1>2. IsFiniteSet(S)
    BY <1>1, FS_Subset
<1> QED  BY <1>2, FS_CardinalityType

\* A part of the state whose variables do not change keeps its part of the invariant.
LEMMA Untouched ==
    /\ PlacesInv /\ UNCHANGED socketVars => PlacesInv'
    /\ EngineInv /\ UNCHANGED serverVars => EngineInv'
    /\ HandlersInv /\ UNCHANGED requestVars => HandlersInv'
    /\ BudgetInv /\ UNCHANGED <<engine, handlers>> => BudgetInv'
    /\ ChannelsAgree /\ UNCHANGED <<sockets, serverVars>> => ChannelsAgree'
BY DEF PlacesInv, EngineInv, HandlersInv, BudgetInv, ChannelsAgree, Resuming,
       socketVars, serverVars, requestVars

\* closeSession of sessions that the engine has keeps its count right, and takes their tokens
\* from the channels.
LEMMA ClosedKeeps ==
    ASSUME PlacesInv, EngineInv, ChannelsAgree,
           NEW S \in SUBSET engine.sessions, Closed(S)
    PROVE  /\ EngineInv' /\ engine'.created = engine.created
           /\ sockets' \in [Connections -> Socket]
           /\ \A c \in Connections : sockets'[c].state = sockets[c].state
           /\ ChannelsAgree'
<1>1. S \subseteq Sessions /\ engine.sessions \subseteq Sessions
    BY DEF EngineInv, Engine
<1>2. /\ engine'.sessions = engine.sessions \ S
      /\ engine'.count = engine.count - Cardinality(S)
      /\ engine'.created = engine.created
      /\ engine' = [sessions |-> engine'.sessions, count |-> engine'.count,
                    created |-> engine'.created]
    BY DEF Closed, EngineInv, Engine
<1>3. /\ Cardinality(engine.sessions \ S) = Cardinality(engine.sessions) - Cardinality(S)
      /\ Cardinality(engine.sessions \ S) \in Nat /\ Cardinality(S) \in Nat
    <2>1. /\ IsFiniteSet(engine.sessions) /\ IsFiniteSet(S)
          /\ Cardinality(S) \in Nat /\ Cardinality(engine.sessions \ S) \in Nat
        BY <1>1, Countable
    <2>2. engine.sessions \cap S = S
        OBVIOUS
    <2> QED  BY <2>1, <2>2, FS_Difference
<1>4. sessions' \in [Sessions -> Session]
    <2>1. [status |-> "disposed", channel |-> Nobody, age |-> 0] \in Session
        BY SessionsAssumption DEF Session, Nobody
    <2> QED  BY <2>1 DEF Closed, EngineInv
<1>5. EngineInv'
    BY <1>2, <1>3, <1>4, SessionsAssumption DEF EngineInv, Engine
<1>6. /\ sockets' \in [Connections -> Socket]
      /\ \A c \in Connections : /\ sockets'[c].state = sockets[c].state
                                /\ sockets'[c].tokens = sockets[c].tokens \ S
    BY DEF Closed, PlacesInv, Socket
<1>7. ChannelsAgree'
    <2> SUFFICES ASSUME NEW s \in Sessions, NEW c \in Connections
                 PROVE  s \in sockets'[c].tokens
                          <=> s \in engine'.sessions /\ sessions'[s].channel = c
        BY DEF ChannelsAgree
    <2>1. s \notin S => sessions'[s] = sessions[s]
        BY DEF Closed
    <2> QED  BY <1>2, <1>6, <2>1 DEF ChannelsAgree
<1> QED  BY <1>2, <1>5, <1>6, <1>7

\* createSession, when there is room and a session to create, makes one that the engine
\* counts and that the channel of the request, and no other, has.
LEMMA CreatedKeeps ==
    ASSUME PlacesInv, EngineInv, ChannelsAgree, ~NoRoom, engine.created < Creations,
           NEW c \in Connections, Created(c)
    PROVE  /\ EngineInv' /\ engine'.created = engine.created + 1
           /\ sockets' \in [Connections -> Socket]
           /\ \A d \in Connections : sockets'[d].state = sockets[d].state
           /\ ChannelsAgree'
<1> DEFINE s == engine.created + 1
<1>1. s \in Sessions /\ s \notin engine.sessions /\ engine.created \in Nat
    BY SessionsAssumption DEF EngineInv, Engine, Sessions
<1>2. /\ engine' = [sessions |-> engine.sessions \cup {s}, count |-> engine.count + 1,
                    created |-> s]
      /\ sessions' = [sessions EXCEPT ![s] = [status |-> "new", channel |-> c, age |-> 0]]
      /\ sockets' = [sockets EXCEPT ![c].tokens = @ \cup {s}]
    BY DEF Created
<1>3. /\ Cardinality(engine.sessions \cup {s}) = Cardinality(engine.sessions) + 1
      /\ Cardinality(engine.sessions) \in Nat
    <2>1. engine.sessions \subseteq Sessions
        BY DEF EngineInv, Engine
    <2>2. IsFiniteSet(engine.sessions) /\ Cardinality(engine.sessions) \in Nat
        BY <2>1, Countable
    <2> QED  BY <1>1, <2>2, FS_AddElement
<1>4. sessions' \in [Sessions -> Session]
    <2>1. [status |-> "new", channel |-> c, age |-> 0] \in Session
        BY SessionsAssumption DEF Session
    <2> QED  BY <1>2, <2>1 DEF EngineInv
<1>5. EngineInv'
    <2>1. engine' \in Engine
        BY <1>1, <1>2, SessionsAssumption DEF EngineInv, Engine, Sessions
    <2>2. engine'.sessions \subseteq 1..engine'.created
        BY <1>1, <1>2 DEF EngineInv
    <2>3. engine'.count = Cardinality(engine'.sessions) /\ engine'.count <= MaxSessions
        BY <1>2, <1>3, SessionsAssumption DEF EngineInv, NoRoom
    <2> QED  BY <1>4, <2>1, <2>2, <2>3 DEF EngineInv
<1>6. /\ sockets' \in [Connections -> Socket]
      /\ \A d \in Connections :
            /\ sockets'[d].state = sockets[d].state
            /\ sockets'[d].tokens = sockets[d].tokens \cup (IF d = c THEN {s} ELSE {})
    BY <1>1, <1>2 DEF PlacesInv, Socket
<1>7. ChannelsAgree'
    <2> SUFFICES ASSUME NEW t \in Sessions, NEW d \in Connections
                 PROVE  t \in sockets'[d].tokens
                          <=> t \in engine'.sessions /\ sessions'[t].channel = d
        BY DEF ChannelsAgree
    <2>1. t \in sockets[d].tokens <=> t \in engine.sessions /\ sessions[t].channel = d
        BY DEF ChannelsAgree
    <2>2. CASE t = s
        <3>1. sessions'[t].channel = c
            BY <1>1, <1>2, <2>2 DEF EngineInv
        <3> QED  BY <1>1, <1>2, <1>6, <2>1, <2>2, <3>1
    <2>3. CASE t # s
        <3>1. sessions'[t] = sessions[t]
            BY <1>2, <2>3 DEF EngineInv
        <3> QED  BY <1>2, <1>6, <2>1, <2>3, <3>1
    <2> QED  BY <2>2, <2>3
<1> QED  BY <1>2, <1>5, <1>6, <1>7

\* Places are kept when neither channels nor the state of a socket changes.
LEMMA PlacesKept ==
    ASSUME PlacesInv, UNCHANGED channels, sockets' \in [Connections -> Socket],
           \A c \in Connections : sockets'[c].state = sockets[c].state
    PROVE  PlacesInv'
BY DEF PlacesInv

\* Handlers that wait can be counted, and so can those of them that resume at once.
LEMMA ResumingCountable ==
    ASSUME HandlersInv
    PROVE  IsFiniteSet(Resuming) /\ Cardinality(Resuming) \in Nat
<1>1. IsFiniteSet(Resuming)
    BY FS_Subset DEF HandlersInv, Resuming
<1> QED  BY <1>1, FS_CardinalityType

\* A handler begins to wait.
LEMMA WaitsKeeps ==
    ASSUME HandlersInv, NEW kind \in {"create", "activate", "close"},
           NEW c \in Connections, NEW s \in Sessions \cup {Nobody},
           kind # "create" => s \in Sessions,
           requests < MaxRequests, requests' = requests + 1, Waits(kind, c, s)
    PROVE  /\ HandlersInv'
           /\ kind # "create" => Resuming' = Resuming
           /\ Cardinality(Resuming') <= Cardinality(Resuming) + 1
<1> DEFINE h == [id |-> requests + 1, kind |-> kind, channel |-> c, session |-> s]
<1>1. h \in Handler /\ requests' \in 0..MaxRequests
    BY SessionsAssumption DEF HandlersInv, Handler
<1>2. handlers' = handlers \cup {h}
    BY DEF Waits
<1>3. IsFiniteSet(handlers')
    BY <1>2, FS_AddElement DEF HandlersInv
<1>4. HandlersInv'
    BY <1>1, <1>2, <1>3 DEF HandlersInv
<1>5. kind # "create" => Resuming' = Resuming
    BY <1>2 DEF Resuming
<1>6. kind = "create" => Resuming' = Resuming \cup {h}
    BY <1>2 DEF Resuming
<1>7. Cardinality(Resuming') <= Cardinality(Resuming) + 1
    <2>1. IsFiniteSet(Resuming) /\ Cardinality(Resuming) \in Nat
        BY ResumingCountable
    <2>2. \/ Cardinality(Resuming \cup {h}) = Cardinality(Resuming)
          \/ Cardinality(Resuming \cup {h}) = Cardinality(Resuming) + 1
        BY <2>1, FS_AddElement
    <2>3. CASE kind # "create"
        BY <1>5, <2>1, <2>3
    <2>4. CASE kind = "create"
        <3>1. Resuming' = Resuming \cup {h}
            BY <1>6, <2>4
        <3>2. Cardinality(Resuming') = Cardinality(Resuming \cup {h})
            BY <3>1
        <3> QED  BY <2>1, <2>2, <3>2
    <2> QED  BY <2>3, <2>4
<1> QED  BY <1>4, <1>5, <1>7

\* A handler goes on.
LEMMA ResumedKeeps ==
    ASSUME HandlersInv, NEW h \in handlers, handlers' = handlers \ {h}, UNCHANGED requests
    PROVE  /\ HandlersInv'
           /\ h.kind # "create" => Resuming' = Resuming
           /\ h.kind = "create" => Cardinality(Resuming') = Cardinality(Resuming) - 1
                                   /\ Cardinality(Resuming) > 0
<1>1. HandlersInv'
    BY FS_RemoveElement DEF HandlersInv
<1>2. h.kind # "create" => Resuming' = Resuming
    BY DEF Resuming
<1>3. ASSUME h.kind = "create"
      PROVE  Cardinality(Resuming') = Cardinality(Resuming) - 1 /\ Cardinality(Resuming) > 0
    <2>1. Resuming' = Resuming \ {h} /\ h \in Resuming
        BY <1>3 DEF Resuming
    <2>2. IsFiniteSet(Resuming) /\ Cardinality(Resuming) \in Nat
        BY ResumingCountable
    <2>3. Cardinality(Resuming \ {h}) = Cardinality(Resuming) - 1
        BY <2>1, <2>2, FS_RemoveElement
    <2>4. Cardinality(Resuming \ {h}) \in Nat
        BY <2>2, FS_RemoveElement, FS_CardinalityType
    <2> QED  BY <2>1, <2>2, <2>3, <2>4
<1> QED  BY <1>1, <1>2, <1>3

-----------------------------------------------------------------------------
\* A server that starts has nothing.
LEMMA Initially == Init => IInv
<1> SUFFICES ASSUME Init PROVE IInv
    OBVIOUS
<1>1. Cardinality({}) = 0 /\ IsFiniteSet({})
    BY FS_EmptySet
<1>2. PlacesInv
    <2>1. [state |-> "unseen", key |-> 0, victim |-> Nobody, tokens |-> {}] \in Socket
        BY DEF Socket
    <2>2. channels = {c \in Connections : sockets[c].state \in {"init", "open", "closing"}}
        BY DEF Init
    <2> QED  BY <1>1, <2>1, <2>2, SessionsAssumption DEF Init, PlacesInv
<1>3. EngineInv
    <2>1. [status |-> "none", channel |-> Nobody, age |-> 0] \in Session
        BY SessionsAssumption DEF Session
    <2>2. engine \in Engine
        BY SessionsAssumption DEF Init, Engine
    <2> QED  BY <1>1, <2>1, <2>2, SessionsAssumption DEF Init, EngineInv
<1>4. HandlersInv /\ BudgetInv
    <2>1. Resuming = {}
        BY DEF Init, Resuming
    <2> QED  BY <1>1, <2>1, SessionsAssumption DEF Init, HandlersInv, BudgetInv
<1>5. ChannelsAgree /\ phase \in Phases
    BY DEF Init, ChannelsAgree, Phases
<1> QED  BY <1>2, <1>3, <1>4, <1>5 DEF IInv

\* channelIds are numbers.
LEMMA KeyIsNumber == NextKey \in Nat
<1> DEFINE D == {c \in Connections : sockets[c].state \notin {"unseen", "knocking"}}
<1>1. Cardinality(D) \in Nat
    BY Countable
<1> QED  BY <1>1 DEF NextKey

\* The end point: whoever takes a place finds one free, or takes that of a channel that goes.
LEMMA EndpointStep ==
    ASSUME IInv, NEW c \in Connections,
           Connect(c) \/ Establish(c) \/ Opened(c) \/ Lost(c) \/ SocketClosed(c)
    PROVE  IInv'
<1>1. phase' \in Phases
    BY DEF IInv, Phases, Connect, Establish, Opened, Lost, SocketClosed
<1>2. UNCHANGED serverVars /\ UNCHANGED requestVars
    BY DEF Connect, Establish, Opened, Lost, SocketClosed
<1>3. EngineInv' /\ HandlersInv' /\ BudgetInv'
    BY <1>2, Untouched DEF IInv, serverVars, requestVars
<1>4. /\ PlacesInv /\ ChannelsAgree /\ NextKey \in Nat
      /\ channels \subseteq Connections /\ IsFiniteSet(channels)
      /\ Cardinality(channels) \in Nat
    BY KeyIsNumber, Countable DEF IInv, PlacesInv
<1>5. ASSUME sockets' \in [Connections -> Socket],
             \A d \in Connections : sockets'[d].tokens = sockets[d].tokens
      PROVE  ChannelsAgree'
    BY <1>2, <1>4, <1>5 DEF ChannelsAgree, serverVars
<1>6. ASSUME Gone(c), c \in channels PROVE PlacesInv' /\ ChannelsAgree'
    <2>1. /\ sockets' \in [Connections -> Socket]
          /\ \A d \in Connections : sockets'[d].tokens = sockets[d].tokens
          /\ channels' = {d \in Connections : sockets'[d].state \in {"init", "open", "closing"}}
        BY <1>4, <1>6 DEF PlacesInv, Gone, Socket
    <2>2. Cardinality(channels') <= MaxConnections
        <3>1. Cardinality(channels \ {c}) = Cardinality(channels) - 1
            BY <1>4, <1>6, FS_RemoveElement
        <3>2. Cardinality(channels') = Cardinality(channels \ {c})
            BY <1>6 DEF Gone
        <3> QED  BY <1>4, <3>1, <3>2, SessionsAssumption DEF PlacesInv
    <2> QED  BY <1>5, <2>1, <2>2 DEF PlacesInv
<1>7. ASSUME sockets[c].state \in {"unseen", "knocking"}, UNCHANGED channels,
             Denied(c) \/ sockets' = [sockets EXCEPT ![c].state = "knocking"]
      PROVE  PlacesInv' /\ ChannelsAgree'
    <2>1. /\ sockets' \in [Connections -> Socket]
          /\ \A d \in Connections : sockets'[d].tokens = sockets[d].tokens
          /\ channels' = {d \in Connections : sockets'[d].state \in {"init", "open", "closing"}}
        BY <1>4, <1>7 DEF PlacesInv, Denied, Socket, Nobody
    <2> QED  BY <1>4, <1>5, <1>7, <2>1 DEF PlacesInv
<1>8. CASE Connect(c)
    <2>1. ASSUME NEW victim \in OldestUnused, sockets[victim].state # "closing",
                 sockets' = [sockets EXCEPT ![c].state      = "knocking",
                                            ![c].victim     = victim,
                                            ![victim].state = "closing"],
                 UNCHANGED channels
          PROVE  PlacesInv' /\ ChannelsAgree'
        <3>1. victim \in channels /\ victim # c
            BY <1>4, <1>8 DEF OldestUnused, Unused, Connect, PlacesInv
        <3>2. /\ sockets' \in [Connections -> Socket]
              /\ \A d \in Connections : sockets'[d].tokens = sockets[d].tokens
            BY <1>4, <2>1, <3>1 DEF PlacesInv, Socket
        <3>3. channels' = {d \in Connections : sockets'[d].state \in {"init", "open", "closing"}}
            <4>1. /\ sockets'[c].state = "knocking" /\ sockets'[victim].state = "closing"
                  /\ \A d \in Connections \ {c, victim} : sockets'[d] = sockets[d]
                BY <1>4, <2>1, <3>1 DEF PlacesInv, Socket
            <4>2. sockets[c].state = "unseen"
                BY <1>8 DEF Connect
            <4> QED  BY <1>4, <2>1, <3>1, <4>1, <4>2 DEF PlacesInv
        <3> QED  BY <1>4, <1>5, <2>1, <3>2, <3>3 DEF PlacesInv
    <2>2. ASSUME NEW victim \in OldestUnused,
                 sockets' = [sockets EXCEPT ![c].state = "init", ![c].key = NextKey,
                                            ![victim].state = "gone", ![victim].key = 0],
                 channels' = (channels \ {victim}) \cup {c}
          PROVE  PlacesInv' /\ ChannelsAgree'
        <3>1. victim \in channels /\ victim # c /\ c \notin channels
            BY <1>4, <1>8 DEF OldestUnused, Unused, Connect, PlacesInv
        <3> DEFINE new == [sockets[c] EXCEPT !.state = "init", !.key = NextKey]
                   old == [sockets[victim] EXCEPT !.state = "gone", !.key = 0]
        <3>2. /\ sockets' = [sockets EXCEPT ![c] = new, ![victim] = old]
              /\ sockets'[c] = new /\ sockets'[victim] = old
              /\ \A d \in Connections \ {c, victim} : sockets'[d] = sockets[d]
            BY <1>4, <2>2, <3>1 DEF PlacesInv
        <3>3. /\ new \in Socket /\ old \in Socket
              /\ new.state = "init" /\ old.state = "gone"
              /\ new.tokens = sockets[c].tokens /\ old.tokens = sockets[victim].tokens
            <4>1. sockets[c] \in Socket /\ sockets[victim] \in Socket
                BY <1>4, <3>1 DEF PlacesInv
            <4>2. new \in Socket /\ new.state = "init" /\ new.tokens = sockets[c].tokens
                BY <1>4, <4>1 DEF Socket
            <4>3. /\ old \in Socket /\ old.state = "gone"
                  /\ old.tokens = sockets[victim].tokens
                BY <4>1 DEF Socket
            <4> QED  BY <4>2, <4>3
        <3>4. /\ sockets' \in [Connections -> Socket]
              /\ \A d \in Connections : sockets'[d].tokens = sockets[d].tokens
            <4> HIDE DEF new, old
            <4> QED  BY <1>4, <3>2, <3>3 DEF PlacesInv
        <3>5. channels' = {d \in Connections : sockets'[d].state \in {"init", "open", "closing"}}
            <4> HIDE DEF new, old
            <4> QED  BY <1>4, <2>2, <3>1, <3>2, <3>3 DEF PlacesInv
        <3>6. Cardinality(channels') = Cardinality(channels)
            <4>1. /\ IsFiniteSet(channels \ {victim})
                  /\ Cardinality(channels \ {victim}) = Cardinality(channels) - 1
                BY <1>4, <3>1, FS_RemoveElement
            <4>2. Cardinality(channels') = Cardinality(channels \ {victim}) + 1
                BY <2>2, <3>1, <4>1, FS_AddElement
            <4> QED  BY <1>4, <4>1, <4>2
        <3> QED  BY <1>4, <1>5, <3>4, <3>5, <3>6 DEF PlacesInv
    <2> QED  BY <1>1, <1>3, <1>7, <1>8, <2>1, <2>2 DEF Connect, Denied, IInv
<1>9. CASE Establish(c)
    <2>1. ASSUME ~Full, channels' = channels \cup {c},
                 sockets' = [sockets EXCEPT ![c].state = "init", ![c].key = NextKey,
                                            ![c].victim = Nobody]
          PROVE  PlacesInv' /\ ChannelsAgree'
        <3>1. /\ sockets' \in [Connections -> Socket]
              /\ \A d \in Connections : sockets'[d].tokens = sockets[d].tokens
              /\ channels' = {d \in Connections : sockets'[d].state \in {"init", "open", "closing"}}
            <4> DEFINE old == sockets[c]
                       new == [old EXCEPT !.state = "init", !.key = NextKey, !.victim = Nobody]
            <4>1. sockets' = [sockets EXCEPT ![c] = new]
                BY <2>1
            <4>2. old \in Socket
                BY <1>4 DEF PlacesInv
            <4>3. new \in Socket /\ new.state = "init" /\ new.tokens = old.tokens
                <5> HIDE DEF old
                <5> QED  BY <1>4, <4>2 DEF Socket
            <4> HIDE DEF new
            <4>4. /\ sockets' \in [Connections -> Socket]
                  /\ \A d \in Connections : sockets'[d] = IF d = c THEN new ELSE sockets[d]
                BY <1>4, <4>1, <4>3 DEF PlacesInv
            <4> QED  BY <1>4, <2>1, <4>3, <4>4 DEF PlacesInv
        <3>2. Cardinality(channels') <= MaxConnections
            <4>1. \/ Cardinality(channels \cup {c}) = Cardinality(channels)
                  \/ Cardinality(channels \cup {c}) = Cardinality(channels) + 1
                BY <1>4, FS_AddElement
            <4>2. Cardinality(channels') = Cardinality(channels \cup {c})
                BY <2>1
            <4> QED  BY <1>4, <2>1, <4>1, <4>2, SessionsAssumption DEF Full
        <3> QED  BY <1>5, <3>1, <3>2 DEF PlacesInv
    <2>2. ASSUME UNCHANGED socketVars PROVE PlacesInv' /\ ChannelsAgree'
        BY <1>2, <1>4, <2>2, Untouched DEF socketVars, serverVars
    <2> QED  BY <1>1, <1>3, <1>7, <1>9, <2>1, <2>2 DEF Establish, Denied, IInv
<1>10. CASE Opened(c)
    <2>1. /\ sockets' \in [Connections -> Socket]
          /\ \A d \in Connections : sockets'[d].tokens = sockets[d].tokens
          /\ channels' = {d \in Connections : sockets'[d].state \in {"init", "open", "closing"}}
        BY <1>4, <1>10 DEF Opened, PlacesInv, Socket
    <2> QED  BY <1>1, <1>3, <1>4, <1>5, <1>10, <2>1 DEF Opened, PlacesInv, IInv
<1>11. CASE Lost(c) \/ SocketClosed(c)
    <2>1. Gone(c) /\ c \in channels
        BY <1>4, <1>11 DEF Lost, SocketClosed, PlacesInv
    <2> QED  BY <1>1, <1>3, <1>6, <2>1 DEF IInv
<1> QED  BY <1>8, <1>9, <1>10, <1>11

\* CreateSession: the sessions that make room are the engine's, and each that waits for room
\* has set a session aside.
LEMMA CreateSessionStep ==
    ASSUME IInv, NEW c \in Connections, CreateSession(c)
    PROVE  IInv'
<1>1. /\ PlacesInv /\ EngineInv /\ HandlersInv /\ BudgetInv /\ ChannelsAgree
      /\ Cardinality(Resuming) \in Nat /\ engine.created \in 0..Creations
    BY ResumingCountable DEF IInv, EngineInv, Engine
<1>2. /\ phase' \in Phases /\ UNCHANGED channels
      /\ requests < MaxRequests /\ requests' = requests + 1
      /\ engine.created + Cardinality(Resuming) < Creations
    BY DEF CreateSession, Arrives, IInv
<1>3. CASE ~NoRoom /\ Created(c) /\ UNCHANGED handlers
    <2>1. engine.created < Creations
        BY <1>1, <1>2, SessionsAssumption
    <2>2. /\ EngineInv' /\ engine'.created = engine.created + 1 /\ ChannelsAgree'
          /\ sockets' \in [Connections -> Socket]
          /\ \A d \in Connections : sockets'[d].state = sockets[d].state
        BY <1>1, <1>3, <2>1, CreatedKeeps
    <2>3. PlacesInv'
        BY <1>1, <1>2, <2>2, PlacesKept
    <2>4. HandlersInv'
        BY <1>1, <1>2, <1>3, SessionsAssumption DEF HandlersInv
    <2>5. BudgetInv'
        <3>1. Resuming' = Resuming
            BY <1>3 DEF Resuming
        <3> QED  BY <1>1, <1>2, <2>2, <3>1, SessionsAssumption DEF BudgetInv
    <2> QED  BY <1>2, <2>2, <2>3, <2>4, <2>5 DEF IInv
<1>4. CASE Closed(OldestInactive) /\ Waits("create", c, Nobody)
    <2>1. OldestInactive \subseteq engine.sessions
        BY DEF OldestInactive, Inactive
    <2>2. /\ EngineInv' /\ engine'.created = engine.created /\ ChannelsAgree'
          /\ sockets' \in [Connections -> Socket]
          /\ \A d \in Connections : sockets'[d].state = sockets[d].state
        BY <1>1, <1>4, <2>1, ClosedKeeps
    <2>3. PlacesInv'
        BY <1>1, <1>2, <2>2, PlacesKept
    <2>4. HandlersInv' /\ Cardinality(Resuming') <= Cardinality(Resuming) + 1
        BY <1>1, <1>2, <1>4, WaitsKeeps
    <2>5. Cardinality(Resuming') \in Nat
        <3>1. IsFiniteSet(Resuming')
            BY <2>4, FS_Subset DEF HandlersInv, Resuming
        <3> QED  BY <3>1, FS_CardinalityType
    <2>6. BudgetInv'
        BY <1>1, <1>2, <2>2, <2>4, <2>5, SessionsAssumption DEF BudgetInv
    <2> QED  BY <1>2, <2>2, <2>3, <2>4, <2>6 DEF IInv
<1> QED  BY <1>3, <1>4 DEF CreateSession

\* The CreateSession that goes on takes the session it has set aside.
LEMMA CreateResumesStep ==
    ASSUME IInv, NEW h \in handlers, CreateResumes(h)
    PROVE  IInv'
<1>1. /\ PlacesInv /\ EngineInv /\ HandlersInv /\ BudgetInv /\ ChannelsAgree
      /\ Cardinality(Resuming) \in Nat /\ engine.created \in 0..Creations
    BY ResumingCountable DEF IInv, EngineInv, Engine
<1>2. /\ phase' \in Phases /\ UNCHANGED <<channels, requests>>
      /\ h.kind = "create" /\ handlers' = handlers \ {h}
    BY DEF CreateResumes, IInv
<1>3. /\ HandlersInv'
      /\ Cardinality(Resuming') = Cardinality(Resuming) - 1 /\ Cardinality(Resuming) > 0
    BY <1>1, <1>2, ResumedKeeps
<1>4. CASE UNCHANGED <<sessions, engine, sockets>>
    <2>1. PlacesInv' /\ EngineInv' /\ ChannelsAgree'
        BY <1>1, <1>2, <1>4, Untouched DEF socketVars, serverVars
    <2>2. BudgetInv'
        BY <1>1, <1>3, <1>4, SessionsAssumption DEF BudgetInv
    <2> QED  BY <1>2, <1>3, <2>1, <2>2 DEF IInv
<1>5. CASE ~NoRoom /\ Created(h.channel)
    <2>1. engine.created < Creations
        BY <1>1, <1>3, SessionsAssumption DEF BudgetInv
    <2>2. h.channel \in Connections
        BY <1>1 DEF HandlersInv, Handler
    <2>3. /\ EngineInv' /\ engine'.created = engine.created + 1 /\ ChannelsAgree'
          /\ sockets' \in [Connections -> Socket]
          /\ \A d \in Connections : sockets'[d].state = sockets[d].state
        BY <1>1, <1>5, <2>1, <2>2, CreatedKeeps
    <2>4. PlacesInv'
        BY <1>1, <1>2, <2>3, PlacesKept
    <2>5. BudgetInv'
        BY <1>1, <1>3, <2>3, SessionsAssumption DEF BudgetInv
    <2> QED  BY <1>2, <1>3, <2>3, <2>4, <2>5 DEF IInv
<1> QED  BY <1>4, <1>5 DEF CreateResumes

\* The status and the age of sessions are no part of what channels and sessions agree on.
LEMMA SessionsMarked ==
    ASSUME EngineInv, ChannelsAgree, UNCHANGED <<sockets, engine>>,
           sessions' \in [Sessions -> Session],
           \A s \in Sessions : sessions'[s].channel = sessions[s].channel
    PROVE  EngineInv' /\ ChannelsAgree'
BY DEF EngineInv, ChannelsAgree

\* keepAlive changes the age of one session at most.
LEMMA KeptAliveMarks ==
    ASSUME EngineInv, NEW s \in Sessions, KeptAlive(s)
    PROVE  /\ sessions' \in [Sessions -> Session]
           /\ \A t \in Sessions : sessions'[t].channel = sessions[t].channel
BY SessionsAssumption DEF EngineInv, KeptAlive, Session

\* A request of a session: ActivateSession, CloseSession or any other service.
LEMMA ServiceStep ==
    ASSUME IInv, NEW c \in Connections, NEW s \in Sessions,
           ActivateSession(c, s) \/ OtherService(c, s) \/ CloseSession(c, s)
    PROVE  IInv'
<1>1. PlacesInv /\ EngineInv /\ HandlersInv /\ BudgetInv /\ ChannelsAgree
    BY DEF IInv
<1>2. /\ phase' \in Phases /\ UNCHANGED channels
      /\ requests < MaxRequests /\ requests' = requests + 1
    BY DEF ActivateSession, OtherService, CloseSession, Arrives, IInv, socketVars
<1>3. ASSUME UNCHANGED handlers PROVE HandlersInv' /\ Resuming' = Resuming
    BY <1>1, <1>2, <1>3, SessionsAssumption DEF HandlersInv, Resuming
<1>4. ASSUME NEW kind \in {"activate", "close"}, Waits(kind, c, s)
      PROVE  HandlersInv' /\ Resuming' = Resuming
    BY <1>1, <1>2, <1>4, WaitsKeeps
<1>5. ASSUME Resuming' = Resuming, engine'.created = engine.created PROVE BudgetInv'
    BY <1>1, <1>5 DEF BudgetInv
<1>6. CASE ActivateSession(c, s)
    <2>1. UNCHANGED <<sockets, channels, engine>> /\ KeptAlive(s)
        BY <1>6 DEF ActivateSession
    <2>2. HandlersInv' /\ Resuming' = Resuming
        BY <1>3, <1>4, <1>6 DEF ActivateSession
    <2>3. PlacesInv' /\ EngineInv' /\ ChannelsAgree'
        BY <1>1, <2>1, Untouched, KeptAliveMarks, SessionsMarked DEF socketVars
    <2> QED  BY <1>2, <1>5, <2>1, <2>2, <2>3 DEF IInv
<1>7. CASE OtherService(c, s)
    <2>1. UNCHANGED <<sockets, channels, engine, handlers>>
        BY <1>7 DEF OtherService, socketVars
    <2>2. /\ sessions' \in [Sessions -> Session]
          /\ \A t \in Sessions : sessions'[t].channel = sessions[t].channel
        <3>1. CASE UNCHANGED sessions
            BY <1>1, <3>1 DEF EngineInv
        <3>2. CASE KeptAlive(s)
            BY <1>1, <3>2, KeptAliveMarks
        <3>3. CASE sessions' = [sessions EXCEPT ![s].status = "screwed"]
            BY <1>1, <3>3 DEF EngineInv, Session
        <3> QED  BY <1>7, <3>1, <3>2, <3>3 DEF OtherService
    <2>3. PlacesInv' /\ EngineInv' /\ ChannelsAgree'
        BY <1>1, <2>1, <2>2, Untouched, SessionsMarked DEF socketVars
    <2> QED  BY <1>2, <1>3, <1>5, <2>1, <2>3 DEF IInv
<1>8. CASE CloseSession(c, s)
    <2>1. CASE UNCHANGED <<sessions, engine, sockets>>
        <3>1. PlacesInv' /\ EngineInv' /\ ChannelsAgree'
            BY <1>1, <1>2, <2>1, Untouched DEF socketVars, serverVars
        <3>2. HandlersInv' /\ Resuming' = Resuming
            <4>1. UNCHANGED handlers \/ Waits("close", c, s)
                BY <1>8 DEF CloseSession
            <4> QED  BY <1>3, <1>4, <4>1
        <3> QED  BY <1>2, <1>5, <2>1, <3>1, <3>2 DEF IInv
    <2>2. CASE s \in engine.sessions /\ Closed({s}) /\ UNCHANGED handlers
        <3>1. /\ EngineInv' /\ engine'.created = engine.created /\ ChannelsAgree'
              /\ sockets' \in [Connections -> Socket]
              /\ \A d \in Connections : sockets'[d].state = sockets[d].state
            <4>1. {s} \in SUBSET engine.sessions
                BY <2>2
            <4> QED  BY <1>1, <2>2, <4>1, ClosedKeeps
        <3>2. PlacesInv'
            BY <1>1, <1>2, <3>1, PlacesKept
        <3> QED  BY <1>2, <1>3, <1>5, <2>2, <3>1, <3>2 DEF IInv
    <2> QED  BY <1>8, <2>1, <2>2 DEF CloseSession
<1> QED  BY <1>6, <1>7, <1>8

\* A move takes the token of the session from its old channel to the new one, and a session
\* that was disposed of leaves no token that counts (moveSessionToChannel).
LEMMA MoveKeeps ==
    ASSUME PlacesInv, EngineInv, ChannelsAgree, UNCHANGED engine,
           NEW s \in Sessions, NEW c \in Connections,
           sockets' = Moved(s, c), sessions' = [sessions EXCEPT ![s].channel = c]
    PROVE  /\ EngineInv' /\ ChannelsAgree'
           /\ sockets' \in [Connections -> Socket]
           /\ \A d \in Connections : sockets'[d].state = sockets[d].state
<1>1. EngineInv'
    BY DEF EngineInv, Session
<1>2. Token(s) \in Sessions \cup {Nobody}
    BY DEF Token
<1>3. /\ sockets' \in [Connections -> Socket]
      /\ \A d \in Connections :
            /\ sockets'[d].state = sockets[d].state
            /\ sockets'[d].tokens =
                  (IF d = sessions[s].channel THEN sockets[d].tokens \ {Token(s)}
                                              ELSE sockets[d].tokens)
                  \cup (IF d = c THEN {Token(s)} ELSE {})
    <2> DEFINE T(d) == (IF d = sessions[s].channel THEN sockets[d].tokens \ {Token(s)}
                                                   ELSE sockets[d].tokens)
                       \cup (IF d = c THEN {Token(s)} ELSE {})
    <2>1. sockets' = [d \in Connections |-> [sockets[d] EXCEPT !.tokens = T(d)]]
        BY DEF Moved
    <2>2. \A d \in Connections : sockets[d] \in Socket /\ T(d) \subseteq Sessions \cup {Nobody}
        BY <1>2 DEF PlacesInv, Socket
    <2>3. \A d \in Connections : /\ sockets'[d] \in Socket
                                 /\ sockets'[d].state = sockets[d].state
                                 /\ sockets'[d].tokens = T(d)
        <3> HIDE DEF T
        <3> QED  BY <2>1, <2>2 DEF Socket
    <2>4. sockets' \in [Connections -> Socket]
        <3> HIDE DEF T
        <3> QED  BY <2>1, <2>3
    <2> QED  BY <2>3, <2>4
<1>4. ChannelsAgree'
    <2> SUFFICES ASSUME NEW t \in Sessions, NEW d \in Connections
                 PROVE  t \in sockets'[d].tokens
                          <=> t \in engine'.sessions /\ sessions'[t].channel = d
        BY DEF ChannelsAgree
    <2>1. t \in sockets[d].tokens <=> t \in engine.sessions /\ sessions[t].channel = d
        BY DEF ChannelsAgree
    <2>2. CASE t = s /\ s \in engine.sessions
        <3>1. sessions'[t].channel = c /\ Token(s) = s
            BY <2>2 DEF EngineInv, Session, Token
        <3> QED  BY <1>3, <2>1, <2>2, <3>1
    <2>3. CASE t # s \/ s \notin engine.sessions
        <3>1. Token(s) # t
            BY <2>3 DEF Token, Sessions, Nobody
        <3>2. t # s => sessions'[t].channel = sessions[t].channel
            BY DEF EngineInv
        <3> QED  BY <1>3, <2>1, <2>3, <3>1, <3>2
    <2> QED  BY <2>2, <2>3
<1> QED  BY <1>1, <1>3, <1>4

\* A handler that waited for the application goes on, whatever became of its session.
LEMMA ResumeStep ==
    ASSUME IInv, NEW h \in handlers, UserDenied(h) \/ UserAuthorized(h) \/ CloseResumes(h)
    PROVE  IInv'
<1>1. PlacesInv /\ EngineInv /\ HandlersInv /\ BudgetInv /\ ChannelsAgree
    BY DEF IInv
<1>2. /\ phase' \in Phases /\ UNCHANGED <<channels, requests>>
      /\ h.kind # "create" /\ handlers' = handlers \ {h}
    BY DEF UserDenied, UserAuthorized, CloseResumes, IInv, socketVars
<1>3. HandlersInv' /\ Resuming' = Resuming
    BY <1>1, <1>2, ResumedKeeps
<1>4. h.session \in Sessions /\ h.channel \in Connections
    BY <1>1, <1>2 DEF HandlersInv, Handler
<1>5. ASSUME engine'.created = engine.created PROVE BudgetInv'
    BY <1>1, <1>3, <1>5 DEF BudgetInv
<1>6. CASE UserDenied(h)
    <2>1. UNCHANGED <<sockets, channels, sessions, engine>>
        BY <1>6 DEF UserDenied, socketVars, serverVars
    <2> QED  BY <1>1, <1>2, <1>3, <1>5, <2>1, Untouched DEF IInv, socketVars, serverVars
<1>7. CASE UserAuthorized(h)
    <2>1. UNCHANGED engine
        BY <1>7 DEF UserAuthorized
    <2>2. CASE /\ sockets' = Moved(h.session, h.channel)
               /\ sessions' = [sessions EXCEPT ![h.session].channel = h.channel]
        <3>1. /\ EngineInv' /\ ChannelsAgree'
              /\ sockets' \in [Connections -> Socket]
              /\ \A d \in Connections : sockets'[d].state = sockets[d].state
            BY <1>1, <1>4, <2>1, <2>2, MoveKeeps
        <3>2. PlacesInv'
            BY <1>1, <1>2, <3>1, PlacesKept
        <3> QED  BY <1>2, <1>3, <1>5, <2>1, <3>1, <3>2 DEF IInv
    <2>3. CASE /\ sessions' = [sessions EXCEPT ![h.session].status = "active"]
               /\ UNCHANGED sockets
        <3>1. /\ sessions' \in [Sessions -> Session]
              /\ \A t \in Sessions : sessions'[t].channel = sessions[t].channel
            BY <1>1, <1>4, <2>3 DEF EngineInv, Session
        <3>2. PlacesInv' /\ EngineInv' /\ ChannelsAgree'
            BY <1>1, <1>2, <2>1, <2>3, <3>1, Untouched, SessionsMarked DEF socketVars
        <3> QED  BY <1>2, <1>3, <1>5, <2>1, <3>2 DEF IInv
    <2> QED  BY <1>7, <2>2, <2>3 DEF UserAuthorized
<1>8. CASE CloseResumes(h)
    <2>1. Closed({h.session} \cap engine.sessions)
        BY <1>8 DEF CloseResumes
    <2>2. /\ EngineInv' /\ engine'.created = engine.created /\ ChannelsAgree'
          /\ sockets' \in [Connections -> Socket]
          /\ \A d \in Connections : sockets'[d].state = sockets[d].state
        <3>1. {h.session} \cap engine.sessions \in SUBSET engine.sessions
            OBVIOUS
        <3> QED  BY <1>1, <2>1, <3>1, ClosedKeeps
    <2>3. PlacesInv'
        BY <1>1, <1>2, <2>2, PlacesKept
    <2> QED  BY <1>2, <1>3, <1>5, <2>2, <2>3 DEF IInv
<1> QED  BY <1>6, <1>7, <1>8

\* The watchdog, and shutdown of the server down to its engine.
LEMMA ServerStep ==
    ASSUME IInv,
           Tick \/ Visit \/ Shutdown \/ EngineShutdown \/ TasksDone \/ EndpointShutdown \/ Stop
    PROVE  IInv'
<1>1. PlacesInv /\ EngineInv /\ HandlersInv /\ BudgetInv /\ ChannelsAgree /\ phase \in Phases
    BY DEF IInv
<1>2. HandlersInv' /\ Resuming' = Resuming
    <2>1. UNCHANGED <<handlers, requests>>
        BY DEF Tick, Visit, Shutdown, EngineShutdown, TasksDone, EndpointShutdown, Stop,
               requestVars
    <2> QED  BY <1>1, <2>1 DEF HandlersInv, Resuming
<1>3. phase' \in Phases
    BY <1>1 DEF Tick, Visit, Shutdown, EngineShutdown, TasksDone, EndpointShutdown, Stop, Phases
<1>4. ASSUME engine'.created = engine.created PROVE BudgetInv'
    BY <1>1, <1>2, <1>4 DEF BudgetInv
<1>5. CASE Tick
    <2>1. UNCHANGED <<sockets, channels, engine>>
        BY <1>5 DEF Tick, socketVars
    <2>2. /\ sessions' \in [Sessions -> Session]
          /\ \A t \in Sessions : sessions'[t].channel = sessions[t].channel
        <3>1. sessions' = [s \in Sessions |->
                              IF s \in engine.sessions /\ sessions[s].age < Timeout
                              THEN [sessions[s] EXCEPT !.age = @ + 1] ELSE sessions[s]]
            BY <1>5 DEF Tick
        <3>2. \A s \in Sessions : /\ sessions'[s] \in Session
                                  /\ sessions'[s].channel = sessions[s].channel
            <4> SUFFICES ASSUME NEW s \in Sessions
                         PROVE  /\ sessions'[s] \in Session
                                /\ sessions'[s].channel = sessions[s].channel
                OBVIOUS
            <4>1. sessions[s] \in Session
                BY <1>1 DEF EngineInv
            <4>2. CASE s \in engine.sessions /\ sessions[s].age < Timeout
                <5>1. sessions'[s] = [sessions[s] EXCEPT !.age = @ + 1]
                    BY <3>1, <4>2
                <5>2. sessions[s].age + 1 \in 0..Timeout
                    BY <4>1, <4>2, SessionsAssumption DEF Session
                <5> QED  BY <4>1, <5>1, <5>2 DEF Session
            <4>3. CASE ~(s \in engine.sessions /\ sessions[s].age < Timeout)
                BY <3>1, <4>1, <4>3
            <4> QED  BY <4>2, <4>3
        <3> QED  BY <3>1, <3>2
    <2>3. PlacesInv' /\ EngineInv' /\ ChannelsAgree'
        BY <1>1, <2>1, <2>2, Untouched, SessionsMarked DEF socketVars
    <2> QED  BY <1>2, <1>3, <1>4, <2>1, <2>3 DEF IInv
<1>6. CASE Visit \/ EngineShutdown
    <2>1. UNCHANGED channels /\ \E S \in SUBSET engine.sessions : Closed(S)
        BY <1>6 DEF Visit, EngineShutdown, Expired
    <2>2. /\ EngineInv' /\ engine'.created = engine.created /\ ChannelsAgree'
          /\ sockets' \in [Connections -> Socket]
          /\ \A d \in Connections : sockets'[d].state = sockets[d].state
        BY <1>1, <2>1, ClosedKeeps
    <2>3. PlacesInv'
        BY <1>1, <2>1, <2>2, PlacesKept
    <2> QED  BY <1>2, <1>3, <1>4, <2>2, <2>3 DEF IInv
<1>7. CASE Shutdown \/ TasksDone \/ Stop
    <2>1. UNCHANGED <<sockets, channels, sessions, engine>>
        BY <1>7 DEF Shutdown, TasksDone, Stop, socketVars, serverVars
    <2> QED  BY <1>1, <1>2, <1>3, <1>4, <2>1, Untouched DEF IInv, socketVars, serverVars
<1>8. CASE EndpointShutdown
    <2> DEFINE closing == {c \in channels : sockets[c].state = "closing"}
    <2>1. UNCHANGED <<sessions, engine>> /\ channels' = channels \ closing
        BY <1>8 DEF EndpointShutdown, serverVars
    <2>2. \A c \in Connections :
              sockets'[c] =
                  CASE c \in closing            -> [sockets[c] EXCEPT !.state = "gone", !.key = 0]
                    [] c \in channels \ closing -> [sockets[c] EXCEPT !.state = "closing"]
                    [] OTHER                    -> sockets[c]
        BY <1>8 DEF EndpointShutdown
    <2>3. \A c \in Connections :
              /\ sockets'[c] \in Socket
              /\ sockets'[c].tokens = sockets[c].tokens
              /\ c \in closing => sockets'[c].state = "gone"
              /\ c \in channels \ closing => sockets'[c].state = "closing"
              /\ c \notin channels => sockets'[c].state = sockets[c].state
        <3> SUFFICES ASSUME NEW c \in Connections
                     PROVE  /\ sockets'[c] \in Socket
                            /\ sockets'[c].tokens = sockets[c].tokens
                            /\ c \in closing => sockets'[c].state = "gone"
                            /\ c \in channels \ closing => sockets'[c].state = "closing"
                            /\ c \notin channels => sockets'[c].state = sockets[c].state
            OBVIOUS
        <3> HIDE DEF closing
        <3>1. sockets[c] \in Socket
            BY <1>1 DEF PlacesInv
        <3>2. closing \subseteq channels
            BY DEF closing
        <3>3. CASE c \in closing
            <4> DEFINE old == [sockets[c] EXCEPT !.state = "gone", !.key = 0]
            <4>1. old \in Socket /\ old.state = "gone" /\ old.tokens = sockets[c].tokens
                BY <3>1 DEF Socket
            <4>2. sockets'[c] = old
                BY <2>2, <3>3
            <4> HIDE DEF old
            <4> QED  BY <3>2, <3>3, <4>1, <4>2
        <3>4. CASE c \in channels \ closing
            BY <2>2, <3>1, <3>4 DEF Socket
        <3>5. CASE c \notin channels
            BY <2>2, <3>1, <3>2, <3>5
        <3> QED  BY <3>3, <3>4, <3>5
    <2>4. sockets' \in [Connections -> Socket]
        BY <1>8, <2>3 DEF EndpointShutdown
    <2>5. ChannelsAgree'
        BY <1>1, <2>1, <2>3 DEF ChannelsAgree
    <2>6. PlacesInv'
        <3>1. channels' = {c \in Connections : sockets'[c].state \in {"init", "open", "closing"}}
            BY <1>1, <2>1, <2>3 DEF PlacesInv
        <3>2. Cardinality(channels') <= MaxConnections
            <4>1. channels \subseteq Connections
                BY <1>1 DEF PlacesInv
            <4>2. IsFiniteSet(channels) /\ Cardinality(channels) \in Nat
                BY <4>1, Countable
            <4>3. channels' \subseteq channels
                BY <2>1
            <4>4. Cardinality(channels') <= Cardinality(channels) /\ Cardinality(channels') \in Nat
                BY <4>2, <4>3, FS_Subset, FS_CardinalityType
            <4> QED  BY <1>1, <4>2, <4>4, SessionsAssumption DEF PlacesInv
        <3> QED  BY <2>4, <3>1, <3>2 DEF PlacesInv
    <2>7. EngineInv'
        BY <1>1, <2>1 DEF EngineInv
    <2> QED  BY <1>2, <1>3, <1>4, <2>1, <2>5, <2>6, <2>7 DEF IInv
<1> QED  BY <1>5, <1>6, <1>7, <1>8

-----------------------------------------------------------------------------
\* The inductive invariant holds in every reachable state of the session services, the end
\* point, the watchdog and shutdown.
THEOREM Invariance == Spec => []IInv
<1>1. ASSUME IInv, [Next]_vars PROVE IInv'
    <2>1. CASE UNCHANGED vars
        <3>1. /\ UNCHANGED phase /\ UNCHANGED socketVars /\ UNCHANGED serverVars
              /\ UNCHANGED requestVars /\ UNCHANGED <<engine, handlers>>
              /\ UNCHANGED <<sockets, serverVars>>
            BY <2>1 DEF vars, socketVars, serverVars, requestVars
        <3> QED  BY <1>1, <3>1, Untouched DEF IInv
    <2>2. CASE Next
        BY <1>1, <2>2, EndpointStep, CreateSessionStep, CreateResumesStep, ServiceStep,
           ResumeStep, ServerStep DEF Next
    <2> QED  BY <1>1, <2>1, <2>2
<1> QED  BY Initially, <1>1, PTL DEF Spec

\* Every reachable state has its type; the count of sessions never falls below zero, whatever
\* closes and expiries have met (closeSession, currentSessionCount).
THEOREM TypeCorrect == Spec => []TypeOK
<1>1. IInv => TypeOK
    BY DEF IInv, PlacesInv, EngineInv, HandlersInv, TypeOK
<1> QED  BY Invariance, <1>1, PTL

\* The sessions stay within maxSessions and the channels within maxConnections, for every limit
\* and every number of clients (CreateSession, establish_connection).
THEOREM LimitsKept == Spec => []WithinLimits
<1>1. IInv => WithinLimits
    BY DEF IInv, PlacesInv, EngineInv, WithinLimits
<1> QED  BY Invariance, <1>1, PTL

\* A channel has a session exactly when the session, if the engine still has it, has the
\* channel (_attach_channel, _detach_channel, moveSessionToChannel, dispose).
THEOREM AgreementKept == Spec => []ChannelsAgree
<1>1. IInv => ChannelsAgree
    BY DEF IInv
<1> QED  BY Invariance, <1>1, PTL
=============================================================================
