------------------------- MODULE RegistrationProofs -------------------------
(***************************************************************************)
(* Proofs that the registration of a server keeps its type and forgets no  *)
(* client, however many failures there are. Neither is inductive as it     *)
(* stands: that a client in its place, _registration_client, is never      *)
(* replaced by another needs to know which of the loop, the renewal and    *)
(* stop() can be under way together, and in which states.                  *)
(***************************************************************************)
EXTENDS RegistrationProperties, TLAPS

\* Clients that nobody has disconnected
Live == {"preparing", "dialing", "open"}

Tasks(a) == CASE a = "loop"    -> {"none", "initial", "register", "pause", "over"}
              [] a = "renewal" -> {"none", "register", "over"}
              [] a = "stop"    -> {"none", "cancel", "background", "register", "over"}

\* An activity awaits what its task is about: its client, which is in its place
\* unless the server stops, or the end of a client that it has taken from it.
Shape(m, a) ==
    /\ m.activity[a].task \in Tasks(a)
    /\ m.activity[a].at = "none" <=> m.activity[a].task \in {"none", "pause", "background", "over"}
    /\ m.activity[a].at = "close" <=> m.activity[a].closing # None
    /\ m.activity[a].task = "cancel" => m.activity[a].at = "close"
    /\ m.client[a] \in {"preparing", "dialing"} => m.activity[a].at = "connect"
    /\ m.client[a] = "open" => m.activity[a].at = "call"
    /\ m.activity[a].at \in {"connect", "call"} => (m.holder = a \/ IsTerminating(m))

\* Each client that is closing is awaited once.
ClosingInv(m) ==
    /\ \A a \in Activities :
          m.client[a] = "closing" <=> \E b \in Activities : m.activity[b].closing = a
    /\ \A a, b \in Activities :
          (m.activity[a].closing = m.activity[b].closing /\ a # b) => m.activity[a].closing = None

\* The client that is in its place is the one that nobody has disconnected.
ClientsInv(m) ==
    /\ \A a \in Activities : m.client[a] \in Live <=> m.holder = a
    /\ ClosingInv(m)

\* The renewal is not under way with the loop, and takes the client of no other
\* before the server stops; the client of stop() comes last.
AloneInv(m) ==
    /\ ~IsTerminating(m) => \A a \in Activities : m.activity[a].closing \in {None, a}
    /\ m.activity["stop"].task \in {"none", "cancel", "background"} => m.client["stop"] = "none"
    /\ (m.timer \/ m.activity["renewal"].task = "register") => m.activity["loop"].task = "over"
    /\ m.timer => m.activity["renewal"].task # "register"

\* The server stops: no timer is left, and only stop() has a client in its place.
StopInv(m) ==
    /\ IsTerminating(m) <=> m.activity["stop"].task # "none"
    /\ IsTerminating(m) => (~m.timer /\ m.holder \in {None, "stop"})

Good(m) ==
    /\ m \in Manager
    /\ \A a \in Activities : Shape(m, a)
    /\ ClientsInv(m) /\ AloneInv(m) /\ StopInv(m)

IInv == Good(manager) /\ lds \in BOOLEAN /\ faults \in 0 .. MaxFaults

\* a is between two awaits, and has no client.
Loose(m, a) ==
    /\ m \in Manager
    /\ \A b \in Activities \ {a} : Shape(m, b)
    /\ ClientsInv(m) /\ AloneInv(m)
    /\ m.activity[a].closing = None
    /\ m.holder # a
    /\ ~IsTerminating(m) => m.holder = None
    /\ IF a = "stop" THEN IsTerminating(m) /\ ~m.timer /\ m.holder = None ELSE StopInv(m)

-----------------------------------------------------------------------------
(***************************************************************************)
(* The parts of the manager.                                               *)
(***************************************************************************)
TaskNames == {"none", "initial", "register", "pause", "cancel", "background", "over"}
Places    == {"none", "connect", "call", "close"}

\* The manager, where a does v
Put(m, a, v) == [m EXCEPT !.activity[a] = v]

\* t is m, but for what a does.
Moved(m, t, a) ==
    /\ t \in Manager /\ t.state = m.state /\ t.holder = m.holder
    /\ (t.timer <=> m.timer) /\ (t.endpoint <=> m.endpoint) /\ t.client = m.client
    /\ \A b \in Activities \ {a} : t.activity[b] = m.activity[b]

LEMMA PutIs ==
    ASSUME NEW m \in Manager, NEW a \in Activities, NEW v \in Activity
    PROVE  Moved(m, Put(m, a, v), a) /\ Put(m, a, v).activity[a] = v
<1> DEFINE activity == [m.activity EXCEPT ![a] = v]
           t == [m EXCEPT !.activity = activity]
<1>1. m.activity \in [Activities -> Activity]
    BY DEF Manager
<1>2. /\ activity \in [Activities -> Activity] /\ activity[a] = v
      /\ \A b \in Activities \ {a} : activity[b] = m.activity[b]
    BY <1>1
<1>3. Put(m, a, v) = t
    BY DEF Put
<1> HIDE DEF activity
<1>4. /\ t \in Manager /\ t.state = m.state /\ t.holder = m.holder /\ t.timer = m.timer
      /\ t.endpoint = m.endpoint /\ t.client = m.client /\ t.activity = activity
    BY <1>2 DEF Manager
<1> HIDE DEF t
<1> QED
    BY <1>2, <1>3, <1>4 DEF Moved

LEMMA ActivityIs ==
    ASSUME NEW m \in Manager, NEW a \in Activities
    PROVE  /\ m.activity[a] \in Activity /\ m.client[a] \in Clients
           /\ m.activity[a].closing \in Activities \cup {None}
           /\ m.activity[a].at \in Places /\ m.activity[a].task \in TaskNames
           /\ m.activity[a].failed \in BOOLEAN
BY DEF Manager, Activity, Places, TaskNames

LEMMA TurnIs ==
    ASSUME NEW m \in Manager, NEW a \in Activities, NEW task \in TaskNames, NEW at \in Places
    PROVE  /\ Moved(m, Turn(m, a, task, at), a)
           /\ Turn(m, a, task, at).activity[a].task = task
           /\ Turn(m, a, task, at).activity[a].at = at
           /\ Turn(m, a, task, at).activity[a].closing = m.activity[a].closing
<1> DEFINE v == [m.activity[a] EXCEPT !.task = task, !.at = at]
<1>1. m.activity[a] \in Activity
    BY ActivityIs
<1>2. v \in Activity /\ v.task = task /\ v.at = at /\ v.closing = m.activity[a].closing
    BY <1>1 DEF Activity, TaskNames, Places
<1>3. Turn(m, a, task, at) = Put(m, a, v)
    BY <1>1 DEF Turn, Put, Manager, Activity
<1> HIDE DEF v
<1> QED
    BY <1>2, <1>3, PutIs

LEMMA DisconnectedIs ==
    ASSUME NEW m \in Manager, NEW c \in Activities
    PROVE  LET d == Disconnected(m, c)
           IN  /\ d \in Manager /\ d.state = m.state /\ d.holder = m.holder
               /\ d.timer = m.timer /\ d.endpoint = m.endpoint /\ d.activity = m.activity
               /\ d.client[c] = IF m.client[c] \in {"dialing", "open"} THEN "closing" ELSE "closed"
               /\ \A b \in Activities \ {c} : d.client[b] = m.client[b]
<1> DEFINE e == IF m.client[c] \in {"dialing", "open"} THEN "closing" ELSE "closed"
           client == [m.client EXCEPT ![c] = e]
           d == [m EXCEPT !.client = client]
<1>1. m.client \in [Activities -> Clients] /\ e \in Clients
    BY DEF Manager, Clients
<1>2. Disconnected(m, c) = d
    BY DEF Disconnected
<1> HIDE DEF e
<1>3. /\ client \in [Activities -> Clients] /\ client[c] = e
      /\ \A b \in Activities \ {c} : client[b] = m.client[b]
    BY <1>1
<1> HIDE DEF client
<1>4. /\ d \in Manager /\ d.state = m.state /\ d.holder = m.holder /\ d.timer = m.timer
      /\ d.endpoint = m.endpoint /\ d.activity = m.activity /\ d.client = client
    BY <1>3 DEF Manager
<1> QED
    BY <1>2, <1>3, <1>4 DEF e

-----------------------------------------------------------------------------
(***************************************************************************)
(* How an activity goes on from where it is.                               *)
(***************************************************************************)
\* An activity that awaits nothing more
LEMMA RestsGood ==
    ASSUME NEW a \in Activities, NEW m, Loose(m, a), NEW task \in {"pause", "background", "over"},
           task \in Tasks(a), a = "stop" => (task = "over" \/ m.client["stop"] = "none"),
           a = "loop" => (task = "over" \/ m.activity["loop"].task # "over")
    PROVE  Good(Turn(m, a, task, "none"))
<1> DEFINE t == Turn(m, a, task, "none")
<1>1. m \in Manager /\ ClientsInv(m) /\ AloneInv(m)
    BY DEF Loose
<1>2. /\ Moved(m, t, a) /\ t.activity[a].task = task /\ t.activity[a].at = "none"
      /\ t.activity[a].closing = m.activity[a].closing
    <2>1. task \in TaskNames /\ "none" \in Places
        BY DEF TaskNames, Places
    <2> QED
        BY <1>1, <2>1, TurnIs
<1> HIDE DEF t
<1>3. /\ t \in Manager /\ t.state = m.state /\ t.holder = m.holder /\ t.client = m.client
      /\ (IsTerminating(t) <=> IsTerminating(m)) /\ (t.timer <=> m.timer)
      /\ \A b \in Activities : t.activity[b].closing = m.activity[b].closing
    BY <1>2 DEF Moved, IsTerminating
<1>4. \A b \in Activities \ {a} : t.activity[b] = m.activity[b]
    BY <1>2 DEF Moved
<1>5. m.client[a] \notin Live /\ m.activity[a].closing = None
    BY <1>1 DEF Loose, ClientsInv, ClosingInv
<1>6. \A b \in Activities : Shape(t, b)
    <2>1. ASSUME NEW b \in Activities, b # a
          PROVE  Shape(t, b)
        BY <1>3, <1>4, <2>1 DEF Loose, Shape
    <2>2. Shape(t, a)
        BY <1>2, <1>3, <1>5 DEF Shape, Live
    <2> QED
        BY <2>1, <2>2
<1>7. ClientsInv(t)
    BY <1>1, <1>3 DEF ClientsInv, ClosingInv
<1>8. AloneInv(t)
    <2>1. t.activity["stop"].task \in {"none", "cancel", "background"} => t.client["stop"] = "none"
        BY <1>1, <1>2, <1>3, <1>4 DEF AloneInv, Activities
    <2>2. t.activity["renewal"].task = "register" => m.activity["renewal"].task = "register"
        BY <1>2, <1>4 DEF Activities
    <2>3. m.activity["loop"].task = "over" => t.activity["loop"].task = "over"
        BY <1>2, <1>4 DEF Activities
    <2> QED
        BY <1>1, <1>3, <2>1, <2>2, <2>3 DEF AloneInv
<1>9. StopInv(t)
    <2>1. CASE a = "stop"
        BY <1>2, <1>3, <2>1 DEF Loose, StopInv
    <2>2. CASE a # "stop"
        BY <1>3, <1>4, <2>2 DEF Loose, StopInv, Activities
    <2> QED
        BY <2>1, <2>2
<1> QED
    BY <1>3, <1>6, <1>7, <1>8, <1>9 DEF Good, t

LEMMA OverGood ==
    ASSUME NEW a \in Activities, NEW m, Loose(m, a)
    PROVE  /\ Good(Over(m, a)) /\ Over(m, a).activity[a].task = "over"
           /\ Moved(m, Over(m, a), a)
<1>1. "over" \in Tasks(a) /\ "over" \in TaskNames /\ "none" \in Places
    BY DEF Activities, Tasks, TaskNames, Places
<1>2. m \in Manager
    BY DEF Loose
<1> QED
    BY <1>1, <1>2, RestsGood, TurnIs DEF Over

\* A state that does not stop the server, or the end of stop()
LEMMA StateGood ==
    ASSUME NEW m, Good(m), NEW state \in States, NEW announced \in {"nothing", "registered", "unregistered"},
           NEW timer \in BOOLEAN, NEW t,
           t = [m EXCEPT !.state = state, !.timer = timer, !.announced = announced],
           timer => (m.activity["renewal"].task # "register" /\ m.activity["loop"].task = "over"),
           IsTerminating(m) <=> state \in {"UNREGISTERING", "DISPOSING"},
           timer => ~IsTerminating(m)
    PROVE  Good(t)
<1>1. m \in Manager
    BY DEF Good
<1>2. /\ t \in Manager /\ t.holder = m.holder /\ t.client = m.client /\ t.activity = m.activity
      /\ (t.timer <=> timer) /\ t.state = state
    BY <1>1 DEF Manager
<1>3. IsTerminating(t) <=> IsTerminating(m)
    BY <1>2 DEF IsTerminating
<1>4. \A a \in Activities : Shape(t, a)
    BY <1>2, <1>3 DEF Good, Shape
<1>5. ClientsInv(t)
    BY <1>2 DEF Good, ClientsInv, ClosingInv
<1>6. AloneInv(t)
    BY <1>2, <1>3 DEF Good, AloneInv
<1>7. StopInv(t)
    BY <1>2, <1>3 DEF Good, StopInv
<1> QED
    BY <1>2, <1>4, <1>5, <1>6, <1>7 DEF Good

LEMMA TriggerNextGood ==
    ASSUME NEW m, Good(m), ~IsTerminating(m), m.activity["renewal"].task # "register",
           m.activity["loop"].task = "over"
    PROVE  Good(TriggerNext(m))
<1> DEFINE timer == TRUE
           state == "WAITING"
           announced == "registered"
           t == [m EXCEPT !.state = state, !.timer = timer, !.announced = announced]
<1>1. TriggerNext(m) = t
    BY DEF TriggerNext
<1>2. /\ timer \in BOOLEAN /\ state \in States /\ state \notin {"UNREGISTERING", "DISPOSING"}
      /\ announced \in {"nothing", "registered", "unregistered"}
    BY DEF States
<1> HIDE DEF timer, state, announced
<1>3. Good(t)
    BY <1>2, StateGood
<1> QED
    BY <1>1, <1>3

\* A client is created and takes its place.
LEMMA DialedGood ==
    ASSUME NEW a \in Activities, NEW m, Loose(m, a), m.holder = None,
           NEW task \in {"initial", "register"}, task \in Tasks(a),
           m.client[a] \in {"none", "closed"}, a = "stop" <=> IsTerminating(m),
           a = "loop" => ~m.timer /\ m.activity["renewal"].task # "register",
           a = "renewal" => ~m.timer /\ m.activity["loop"].task = "over"
    PROVE  Good(Dialed(m, a, task))
<1> DEFINE u == Turn(m, a, task, "connect")
           client == [m.client EXCEPT ![a] = "preparing"]
           t == [u EXCEPT !.client = client, !.holder = a]
<1>1. m \in Manager /\ ClientsInv(m) /\ AloneInv(m)
    BY DEF Loose
<1>2. /\ Moved(m, u, a) /\ u.activity[a].task = task /\ u.activity[a].at = "connect"
      /\ u.activity[a].closing = m.activity[a].closing
    <2>1. task \in TaskNames /\ "connect" \in Places
        BY DEF TaskNames, Places
    <2> QED
        BY <1>1, <2>1, TurnIs
<1>3. Dialed(m, a, task) = t
    <2>1. u.client = m.client
        BY <1>2 DEF Moved
    <2>2. Dialed(m, a, task) = [u EXCEPT !.client[a] = "preparing", !.holder = a]
        BY DEF Dialed
    <2> HIDE DEF u
    <2> QED
        BY <2>1, <2>2
<1>4. /\ client \in [Activities -> Clients] /\ client[a] = "preparing"
      /\ \A b \in Activities \ {a} : client[b] = m.client[b]
    BY <1>1 DEF Manager, Clients
<1> HIDE DEF u, client
<1>5. /\ t \in Manager /\ t.state = m.state /\ t.holder = a /\ (t.timer <=> m.timer)
      /\ t.client = client /\ t.activity = u.activity
    <2>1. u \in Manager /\ u.state = m.state /\ (u.timer <=> m.timer)
        BY <1>2 DEF Moved
    <2> QED
        BY <1>4, <2>1 DEF Manager
<1> HIDE DEF t
<1>6. /\ IsTerminating(t) <=> IsTerminating(m)
      /\ \A b \in Activities : t.activity[b].closing = m.activity[b].closing
      /\ \A b \in Activities \ {a} : t.activity[b] = m.activity[b] /\ t.client[b] = m.client[b]
      /\ t.activity[a].task = task /\ t.activity[a].at = "connect"
      /\ t.client[a] = "preparing" /\ t.activity[a].closing = None
    BY <1>2, <1>4, <1>5 DEF Moved, IsTerminating, Loose
<1>7. \A b \in Activities : Shape(t, b)
    <2>1. ASSUME NEW b \in Activities, b # a
          PROVE  Shape(t, b)
        <3>1. Shape(m, b) /\ m.holder # b
            BY <2>1 DEF Loose, Activities, None
        <3>2. m.activity[b].at \in {"connect", "call"} => IsTerminating(m)
            BY <3>1 DEF Shape
        <3> QED
            BY <1>5, <1>6, <2>1, <3>1, <3>2 DEF Shape
    <2>2. Shape(t, a)
        BY <1>5, <1>6 DEF Shape
    <2> QED
        BY <2>1, <2>2
<1>8. ClientsInv(t)
    <2>1. ASSUME NEW b \in Activities
          PROVE  t.client[b] \in Live <=> t.holder = b
        <3>1. m.client[b] \notin Live
            BY <1>1 DEF ClientsInv, ClosingInv, Activities, None
        <3> QED
            BY <1>5, <1>6, <3>1 DEF Live
    <2>2. ASSUME NEW b \in Activities
          PROVE  t.client[b] = "closing" <=> \E c \in Activities : t.activity[c].closing = b
        BY <1>1, <1>6 DEF ClientsInv, ClosingInv
    <2>3. \A b, c \in Activities :
              (t.activity[b].closing = t.activity[c].closing /\ b # c) => t.activity[b].closing = None
        BY <1>1, <1>6 DEF ClientsInv, ClosingInv
    <2> QED
        BY <2>1, <2>2, <2>3 DEF ClientsInv, ClosingInv
<1>9. AloneInv(t)
    <2>1. t.activity["stop"].task \in {"none", "cancel", "background"} => t.client["stop"] = "none"
        BY <1>1, <1>6 DEF AloneInv, Activities
    <2>2. ~IsTerminating(t) => \A b \in Activities : t.activity[b].closing \in {None, b}
        BY <1>1, <1>6 DEF AloneInv
    <2>3. /\ (t.timer \/ t.activity["renewal"].task = "register") => t.activity["loop"].task = "over"
          /\ t.timer => t.activity["renewal"].task # "register"
        BY <1>1, <1>5, <1>6 DEF AloneInv, Activities
    <2> QED
        BY <2>1, <2>2, <2>3 DEF AloneInv
<1>10. StopInv(t)
    <2>1. CASE a = "stop"
        BY <1>5, <1>6, <2>1 DEF Loose, StopInv
    <2>2. CASE a # "stop"
        BY <1>5, <1>6, <2>2 DEF Loose, StopInv, Activities
    <2> QED
        BY <2>1, <2>2
<1> QED
    BY <1>3, <1>5, <1>7, <1>8, <1>9, <1>10 DEF Good

-----------------------------------------------------------------------------
(***************************************************************************)
(* A registration that ends, and what follows it.                          *)
(***************************************************************************)
\* What an activity that goes on leaves under way
LEMMA LooseIs ==
    ASSUME NEW a \in Activities, NEW m, Loose(m, a)
    PROVE  /\ m.client[a] \in {"none", "closing", "closed"}
           /\ ~IsTerminating(m) => m.client[a] \in {"none", "closed"}
           /\ m.activity["renewal"].task = "register" => m.activity["loop"].task = "over"
<1>1. m \in Manager /\ ClientsInv(m) /\ AloneInv(m)
    BY DEF Loose
<1>2. m.client[a] \notin Live /\ m.client[a] \in Clients
    BY <1>1, ActivityIs DEF Loose, ClientsInv, ClosingInv
<1>3. ~IsTerminating(m) => \A b \in Activities : m.activity[b].closing # a
    BY <1>1 DEF AloneInv, Loose, Activities, None
<1> QED
    BY <1>1, <1>2, <1>3 DEF Clients, Live, ClientsInv, ClosingInv, AloneInv

LEMMA RegisterOverGood ==
    ASSUME NEW a \in Activities, NEW m, Loose(m, a),
           a = "loop" => m.activity["renewal"].task # "register",
           a = "renewal" => m.activity["loop"].task = "over"
    PROVE  Good(RegisterOver(m, a))
<1> DEFINE o == Over(m, a)
<1>1. /\ Good(o) /\ o.activity[a].task = "over" /\ o.state = m.state
      /\ \A b \in Activities \ {a} : o.activity[b] = m.activity[b]
    BY OverGood DEF Moved
<1> HIDE DEF o
<1>2. IsTerminating(o) <=> IsTerminating(m)
    BY <1>1 DEF IsTerminating
<1>3. a \in {"loop", "renewal"} /\ ~IsTerminating(m) => Good(TriggerNext(o))
    BY <1>1, <1>2, TriggerNextGood DEF Activities
<1>4. CASE a = "loop"
    <2>1. RegisterOver(m, a) = IF m.state # "REGISTERING" THEN o ELSE TriggerNext(o)
        BY <1>4 DEF RegisterOver, Registered, o
    <2>2. m.state = "REGISTERING" => ~IsTerminating(m)
        BY DEF IsTerminating
    <2> QED
        BY <1>1, <1>3, <1>4, <2>1, <2>2
<1>5. CASE a = "renewal"
    <2>1. RegisterOver(m, a) = IF IsTerminating(m) THEN o ELSE TriggerNext(o)
        BY <1>5 DEF RegisterOver, Renewed, o
    <2> QED
        BY <1>1, <1>3, <1>5, <2>1
<1>6. CASE a = "stop"
    <2> DEFINE state == "DISPOSING"
               announced == "unregistered"
               timer == FALSE
               t == [o EXCEPT !.state = state, !.timer = timer, !.announced = announced]
    <2>1. RegisterOver(m, a) = [o EXCEPT !.state = state, !.announced = announced]
        BY <1>6 DEF RegisterOver, Unregistered, o
    <2>2. IsTerminating(o) /\ o \in Manager /\ o.timer = FALSE
        <3>1. o \in Manager /\ IsTerminating(m)
            BY <1>1, <1>6 DEF Good, Loose
        <3>2. ~o.timer
            BY <1>1, <1>2, <3>1 DEF Good, StopInv
        <3> QED
            BY <1>2, <3>1, <3>2 DEF Manager
    <2>3. RegisterOver(m, a) = t
        BY <2>1, <2>2 DEF Manager
    <2>4. /\ timer \in BOOLEAN /\ ~timer /\ state \in States /\ state \in {"UNREGISTERING", "DISPOSING"}
          /\ announced \in {"nothing", "registered", "unregistered"}
        BY DEF States
    <2> HIDE DEF timer, state, announced
    <2>5. Good(t)
        BY <1>1, <2>2, <2>4, StateGood
    <2> QED
        BY <2>3, <2>5
<1> QED
    BY <1>4, <1>5, <1>6 DEF Activities

LEMMA RegisterGood ==
    ASSUME NEW a \in Activities, NEW m, Loose(m, a), m.holder = None,
           m.client[a] \in {"none", "closed"} \/ (a # "stop" /\ IsTerminating(m)),
           a = "loop" => ~m.timer /\ m.activity["renewal"].task # "register",
           a = "renewal" => ~m.timer /\ m.activity["loop"].task = "over"
    PROVE  Good(Register(m, a))
<1> DEFINE wanted == IF a = "stop" THEN "UNREGISTERING" ELSE "REGISTERING"
<1>1. CASE m.state # wanted
    BY <1>1, RegisterOverGood DEF Register
<1>2. CASE m.state = wanted
    <2>1. a = "stop" <=> IsTerminating(m)
        BY <1>2 DEF IsTerminating
    <2>2. "register" \in Tasks(a)
        BY DEF Tasks, Activities
    <2>3. m.client[a] \in {"none", "closed"}
        BY <2>1
    <2>4. Good(Dialed(m, a, "register"))
        BY <2>1, <2>2, <2>3, DialedGood
    <2>5. Register(m, a) = Dialed(m, a, "register")
        BY <1>2 DEF Register
    <2> QED
        BY <2>4, <2>5
<1> QED
    BY <1>1, <1>2

\* The manager, in another state
Set(m, state, endpoint, timer) ==
    [m EXCEPT !.state = state, !.endpoint = endpoint, !.timer = timer]

\* No timer starts.
Lets(m, timer) == timer => m.timer

\* The state changes, between two awaits of the loop or the renewal.
LEMMA StateLoose ==
    ASSUME NEW a \in {"loop", "renewal"}, NEW m, Loose(m, a), ~IsTerminating(m),
           NEW state \in States, state \notin {"UNREGISTERING", "DISPOSING"},
           NEW endpoint \in BOOLEAN, NEW timer \in BOOLEAN, Lets(m, timer), NEW t,
           t = Set(m, state, endpoint, timer)
    PROVE  /\ Loose(t, a) /\ ~IsTerminating(t) /\ t.holder = m.holder /\ (t.timer <=> timer)
           /\ t.activity = m.activity /\ t.state = state
<1>1. m \in Manager /\ m.timer \in BOOLEAN
    BY DEF Loose, Manager
<1>2. /\ t \in Manager /\ t.holder = m.holder /\ t.client = m.client /\ t.activity = m.activity
      /\ (t.timer <=> timer) /\ t.state = state /\ (t.timer => m.timer)
    BY <1>1 DEF Manager, Set, Lets
<1>3. ~IsTerminating(t)
    BY <1>2 DEF IsTerminating
<1>4. \A b \in Activities \ {a} : Shape(t, b)
    BY <1>2, <1>3 DEF Loose, Shape
<1>5. ClientsInv(t) /\ AloneInv(t) /\ StopInv(t)
    BY <1>2, <1>3 DEF Loose, ClientsInv, ClosingInv, AloneInv, StopInv
<1> QED
    BY <1>2, <1>3, <1>4, <1>5 DEF Loose

LEMMA LoopAlone ==
    ASSUME NEW m, Loose(m, "loop"), m.activity["loop"].task # "over"
    PROVE  ~m.timer /\ m.activity["renewal"].task # "register"
BY DEF Loose, AloneInv

LEMMA LoopFailedGood ==
    ASSUME NEW m, Loose(m, "loop"), m.activity["loop"].task # "over"
    PROVE  Good(LoopFailed(m))
<1>1. m \in Manager /\ "loop" \in Activities
    BY DEF Loose, Activities
<1>2. CASE IsTerminating(m)
    BY <1>1, <1>2, OverGood DEF LoopFailed
<1>3. CASE ~IsTerminating(m)
    <2> DEFINE state == "INACTIVE"
               endpoint == m.endpoint
               timer == m.timer
               t == Set(m, state, endpoint, timer)
    <2>1. LoopFailed(m) = Turn([m EXCEPT !.state = state], "loop", "pause", "none")
        BY <1>3 DEF LoopFailed
    <2>2. [m EXCEPT !.state = state] = t
        BY <1>1 DEF Manager, Set
    <2>3. /\ state \in States /\ state \notin {"UNREGISTERING", "DISPOSING"}
          /\ endpoint \in BOOLEAN /\ timer \in BOOLEAN /\ Lets(m, timer)
        BY <1>1 DEF States, Manager, Lets
    <2> HIDE DEF state, endpoint, timer
    <2>4. Loose(t, "loop") /\ t.activity = m.activity
        BY <1>3, <2>3, StateLoose
    <2> HIDE DEF t
    <2>5. t.activity["loop"].task # "over" /\ "pause" \in Tasks("loop")
        BY <2>4 DEF Tasks
    <2>6. Good(Turn(t, "loop", "pause", "none"))
        BY <1>1, <2>4, <2>5, RestsGood
    <2> QED
        BY <2>1, <2>2, <2>6
<1> QED
    BY <1>2, <1>3

LEMMA LoopTurnsGood ==
    ASSUME NEW m, Loose(m, "loop"), m.activity["loop"].task # "over"
    PROVE  Good(LoopTurns(m))
<1>1. m \in Manager /\ "loop" \in Activities
    BY DEF Loose, Activities
<1>2. CASE IsTerminating(m)
    BY <1>1, <1>2, OverGood DEF LoopTurns
<1>3. CASE ~IsTerminating(m)
    <2> DEFINE state == "INITIALIZING"
               endpoint == FALSE
               timer == m.timer
               t == Set(m, state, endpoint, timer)
    <2>1. LoopTurns(m) = Dialed([m EXCEPT !.state = state, !.endpoint = endpoint], "loop", "initial")
        BY <1>3 DEF LoopTurns
    <2>2. [m EXCEPT !.state = state, !.endpoint = endpoint] = t
        BY <1>1 DEF Manager, Set
    <2>3. /\ state \in States /\ state \notin {"UNREGISTERING", "DISPOSING"}
          /\ endpoint \in BOOLEAN /\ timer \in BOOLEAN /\ Lets(m, timer)
        BY <1>1 DEF States, Manager, Lets
    <2>4. ~timer /\ m.activity["renewal"].task # "register" /\ m.holder = None
        BY <1>3, LoopAlone DEF Loose
    <2> HIDE DEF state, endpoint, timer
    <2>5. /\ Loose(t, "loop") /\ ~IsTerminating(t) /\ t.activity = m.activity
          /\ t.holder = m.holder /\ (t.timer <=> timer)
        BY <1>3, <2>3, StateLoose
    <2> HIDE DEF t
    <2>6. t.client["loop"] \in {"none", "closed"} /\ "initial" \in Tasks("loop")
        BY <1>1, <2>5, LooseIs DEF Tasks
    <2>7. Good(Dialed(t, "loop", "initial"))
        BY <1>1, <2>4, <2>5, <2>6, DialedGood
    <2> QED
        BY <2>1, <2>2, <2>7
<1> QED
    BY <1>2, <1>3

LEMMA InitialOverGood ==
    ASSUME NEW m, Loose(m, "loop"), m.activity["loop"].task # "over"
    PROVE  Good(InitialOver(m))
<1>1. m \in Manager /\ "loop" \in Activities
    BY DEF Loose, Activities
<1>2. CASE m.activity["loop"].failed \/ (m.state = "INITIALIZING" /\ ~m.endpoint)
    BY <1>2, LoopFailedGood DEF InitialOver
<1>3. CASE ~m.activity["loop"].failed /\ m.state # "INITIALIZING"
    BY <1>1, <1>3, OverGood DEF InitialOver
<1>4. CASE ~m.activity["loop"].failed /\ m.state = "INITIALIZING" /\ m.endpoint
    <2> DEFINE state == "REGISTERING"
               endpoint == m.endpoint
               timer == m.timer
               t == Set(m, state, endpoint, timer)
    <2>1. InitialOver(m) = Register([m EXCEPT !.state = state], "loop")
        BY <1>4 DEF InitialOver
    <2>2. [m EXCEPT !.state = state] = t
        BY <1>1 DEF Manager, Set
    <2>3. /\ state \in States /\ state \notin {"UNREGISTERING", "DISPOSING"}
          /\ endpoint \in BOOLEAN /\ timer \in BOOLEAN /\ Lets(m, timer)
        BY <1>1 DEF States, Manager, Lets
    <2>4. ~IsTerminating(m)
        BY <1>4 DEF IsTerminating
    <2>5. ~timer /\ m.activity["renewal"].task # "register" /\ m.holder = None
        BY <2>4, LoopAlone DEF Loose
    <2> HIDE DEF state, endpoint, timer
    <2>6. /\ Loose(t, "loop") /\ ~IsTerminating(t) /\ t.activity = m.activity
          /\ t.holder = m.holder /\ (t.timer <=> timer)
        BY <2>3, <2>4, StateLoose
    <2> HIDE DEF t
    <2>7. t.client["loop"] \in {"none", "closed"}
        BY <1>1, <2>6, LooseIs
    <2>8. Good(Register(t, "loop"))
        BY <1>1, <2>5, <2>6, <2>7, RegisterGood
    <2> QED
        BY <2>1, <2>2, <2>8
<1> QED
    BY <1>2, <1>3, <1>4

LEMMA GoesOnGood ==
    ASSUME NEW a \in Activities, NEW m, Loose(m, a),
           m.activity[a].task \in {"initial", "register"} \cap Tasks(a)
    PROVE  Good(GoesOn(m, a))
<1>1. CASE m.activity[a].task = "initial"
    <2>1. a = "loop"
        BY <1>1 DEF Activities, Tasks
    <2> QED
        BY <1>1, <2>1, InitialOverGood DEF GoesOn
<1>2. CASE m.activity[a].task = "register"
    <2>1. a = "loop" => m.activity["renewal"].task # "register"
        BY <1>2, LoopAlone
    <2>2. a = "renewal" => m.activity["loop"].task = "over"
        BY <1>2, LooseIs
    <2>3. Good(RegisterOver(m, a))
        BY <2>1, <2>2, RegisterOverGood
    <2> QED
        BY <1>2, <2>3 DEF GoesOn
<1> QED
    BY <1>1, <1>2

-----------------------------------------------------------------------------
(***************************************************************************)
(* The finally clauses, and stop().                                        *)
(***************************************************************************)
\* a has what it awaited, or will not have it: its client may have failed.
Ready(m, a) ==
    /\ m \in Manager
    /\ \A b \in Activities \ {a} : Shape(m, b)
    /\ \A b \in Activities : /\ m.client[b] \in Live => m.holder = b
                             /\ m.holder = b => m.client[b] \in Live \cup {"closed"}
    /\ ClosingInv(m) /\ AloneInv(m)
    /\ m.activity[a].closing = None
    /\ m.holder = a \/ IsTerminating(m)
    /\ IF a = "stop" THEN IsTerminating(m) /\ ~m.timer ELSE StopInv(m)

\* The client c, which was in its place, is disconnected.
LEMMA TakenIs ==
    ASSUME NEW m \in Manager, NEW c \in Activities, m.holder = c,
           NEW n, n = [m EXCEPT !.holder = None]
    PROVE  LET d == Disconnected(n, c)
           IN  /\ d \in Manager /\ d.state = m.state /\ d.holder = None
               /\ (d.timer <=> m.timer) /\ (d.endpoint <=> m.endpoint) /\ d.activity = m.activity
               /\ d.client[c] = IF m.client[c] \in {"dialing", "open"} THEN "closing" ELSE "closed"
               /\ \A b \in Activities \ {c} : d.client[b] = m.client[b]
<1>1. /\ n \in Manager /\ n.state = m.state /\ n.holder = None /\ n.timer = m.timer
      /\ n.endpoint = m.endpoint /\ n.activity = m.activity /\ n.client = m.client
    BY DEF Manager
<1> DEFINE d == Disconnected(n, c)
<1>2. /\ d \in Manager /\ d.state = n.state /\ d.holder = n.holder
      /\ d.timer = n.timer /\ d.endpoint = n.endpoint /\ d.activity = n.activity
      /\ d.client[c] = IF n.client[c] \in {"dialing", "open"} THEN "closing" ELSE "closed"
      /\ \A b \in Activities \ {c} : d.client[b] = n.client[b]
    BY <1>1, DisconnectedIs
<1> HIDE DEF d
<1>3. /\ d \in Manager /\ d.state = m.state /\ d.holder = None
      /\ (d.timer <=> m.timer) /\ (d.endpoint <=> m.endpoint) /\ d.activity = m.activity
      /\ d.client[c] = IF m.client[c] \in {"dialing", "open"} THEN "closing" ELSE "closed"
      /\ \A b \in Activities \ {c} : d.client[b] = m.client[b]
    BY <1>1, <1>2
<1> QED
    BY <1>3 DEF d

\* t is m, with no client in its place, and none but c disconnected.
Taken(m, t, a) ==
    /\ t \in Manager /\ t.state = m.state /\ t.holder = None /\ (t.timer <=> m.timer)
    /\ \A b \in Activities \ {a} : t.activity[b] = m.activity[b]
    /\ t.activity[a].task = m.activity[a].task
    /\ t.activity[a].closing = m.activity[a].closing
    /\ \A b \in Activities \ {m.holder} : t.client[b] = m.client[b]

\* Once what was in its place is closed, a goes on.
LEMMA TakenLoose ==
    ASSUME NEW a \in Activities, NEW m, Ready(m, a), NEW t, Taken(m, t, a),
           m.holder # None => t.client[m.holder] = "closed"
    PROVE  Loose(t, a) /\ t.activity[a].task = m.activity[a].task
<1>1. /\ IsTerminating(t) <=> IsTerminating(m)
      /\ \A b \in Activities : /\ t.activity[b].closing = m.activity[b].closing
                               /\ t.activity[b].task = m.activity[b].task
    BY DEF Taken, IsTerminating
<1>2. \A b \in Activities : m.client[b] = "closing" => t.client[b] = "closing"
    BY DEF Taken, Ready, Live
<1>3. \A b \in Activities : t.client[b] # m.client[b] => (b = m.holder /\ t.client[b] = "closed")
    BY DEF Taken, None, Activities
<1>4. ASSUME NEW b \in Activities \ {a}
      PROVE  Shape(t, b)
    <2>1. Shape(m, b) /\ t.activity[b] = m.activity[b]
        BY DEF Ready, Taken
    <2>2. t.client[b] \in Live => t.client[b] = m.client[b]
        BY <1>3 DEF Live
    <2>3. m.activity[b].at \in {"connect", "call"} => IsTerminating(m)
        BY <2>1 DEF Shape, Ready
    <2> QED
        BY <1>1, <2>1, <2>2, <2>3 DEF Shape, Live
<1>5. ClientsInv(t)
    <2>1. ASSUME NEW b \in Activities
          PROVE  t.client[b] \notin Live
        <3>1. t.client[b] \in Live => (t.client[b] = m.client[b] /\ m.holder = b)
            BY <1>3 DEF Live, Ready
        <3>2. m.holder = b => t.client[b] = "closed"
            BY DEF Activities, None
        <3> QED
            BY <3>1, <3>2 DEF Live
    <2>2. \A b \in Activities : t.holder # b
        BY DEF Taken, None, Activities
    <2>3. \A b \in Activities : t.client[b] = "closing" <=> m.client[b] = "closing"
        BY <1>2, <1>3
    <2>4. ClosingInv(t)
        BY <1>1, <2>3 DEF Ready, ClosingInv
    <2> QED
        BY <2>1, <2>2, <2>4 DEF ClientsInv
<1>6. AloneInv(t)
    <2>1. t.activity["stop"].task \in {"none", "cancel", "background"} => t.client["stop"] = "none"
        <3>1. ASSUME t.activity["stop"].task \in {"none", "cancel", "background"}
              PROVE  t.client["stop"] = "none"
            <4>1. m.client["stop"] = "none"
                BY <1>1, <3>1 DEF Ready, AloneInv, Activities
            <4>2. m.holder # "stop"
                BY <4>1 DEF Ready, Live, Activities
            <4> QED
                BY <1>3, <4>1, <4>2 DEF Activities
        <3> QED
            BY <3>1
    <2> QED
        BY <1>1, <2>1 DEF Ready, AloneInv, Taken, Activities
<1>7. IF a = "stop" THEN IsTerminating(t) /\ ~t.timer /\ t.holder = None ELSE StopInv(t)
    <2>1. CASE a = "stop"
        BY <1>1, <2>1 DEF Ready, Taken
    <2>2. CASE a # "stop"
        BY <1>1, <2>2 DEF Ready, StopInv, Taken, Activities
    <2> QED
        BY <2>1, <2>2
<1>8. t \in Manager /\ t.holder = None /\ t.activity[a].closing = None
    BY DEF Taken, Ready
<1>9. t.holder # a
    BY <1>8 DEF None, Activities
<1> QED
    BY <1>1, <1>4, <1>5, <1>6, <1>7, <1>8, <1>9 DEF Loose, Ready

\* Until what was in its place is closed, a awaits that.
LEMMA TakenGood ==
    ASSUME NEW a \in Activities, NEW m, Ready(m, a), NEW t, NEW c \in Activities, m.holder = c,
           Taken(m, t, a), t.client[c] = "closing", m.client[c] \in Live,
           m.activity[a].task \in {"initial", "register", "cancel"} \cap Tasks(a)
    PROVE  Good([t EXCEPT !.activity[a].at = "close", !.activity[a].closing = c])
<1> DEFINE v == [t.activity[a] EXCEPT !.at = "close", !.closing = c]
           u == Put(t, a, v)
<1>1. t \in Manager
    BY DEF Taken
<1>2. t.activity[a] \in Activity
    BY <1>1, ActivityIs
<1>3. v \in Activity /\ v.at = "close" /\ v.closing = c /\ v.task = t.activity[a].task
    BY <1>2 DEF Activity
<1>4. [t EXCEPT !.activity[a].at = "close", !.activity[a].closing = c] = u
    BY <1>1, <1>2 DEF Put, Manager, Activity
<1> HIDE DEF v
<1>5. Moved(t, u, a) /\ u.activity[a] = v
    BY <1>1, <1>3, PutIs
<1> HIDE DEF u
<1>6. /\ u \in Manager /\ u.state = m.state /\ u.holder = None /\ (u.timer <=> m.timer)
      /\ IsTerminating(u) <=> IsTerminating(m)
      /\ u.client[c] = "closing" /\ \A b \in Activities \ {c} : u.client[b] = m.client[b]
      /\ \A b \in Activities : u.activity[b].task = m.activity[b].task
      /\ \A b \in Activities \ {a} : u.activity[b] = m.activity[b]
      /\ u.activity[a].at = "close" /\ u.activity[a].closing = c
    BY <1>3, <1>5 DEF Moved, Taken, IsTerminating
<1>7. m.activity[a].closing = None /\ \A b \in Activities : m.activity[b].closing # c
    BY DEF Ready, ClosingInv, Live
<1>8. IsTerminating(m) \/ c = a
    BY DEF Ready
<1>9. \A b \in Activities : Shape(u, b)
    <2>1. ASSUME NEW b \in Activities, b # a
          PROVE  Shape(u, b)
        <3>1. Shape(m, b) /\ u.activity[b] = m.activity[b]
            BY <1>6, <2>1 DEF Ready
        <3>2. u.client[b] \in Live => u.client[b] = m.client[b]
            BY <1>6 DEF Live
        <3>3. m.activity[b].at \in {"connect", "call"} => IsTerminating(m)
            BY <1>8, <2>1, <3>1 DEF Shape
        <3> QED
            BY <1>6, <3>1, <3>2, <3>3 DEF Shape, Live
    <2>2. Shape(u, a)
        <3>1. u.client[a] \notin Live
            BY <1>6 DEF Ready, Live
        <3>2. c # None
            BY DEF None, Activities
        <3> QED
            BY <1>6, <3>1, <3>2 DEF Shape, Live
    <2> QED
        BY <2>1, <2>2
<1>10. ClientsInv(u)
    <2>1. \A b \in Activities : u.client[b] \notin Live /\ u.holder # b
        BY <1>6 DEF Ready, Live, None, Activities
    <2>2. ASSUME NEW b \in Activities
          PROVE  u.client[b] = "closing" <=> \E d \in Activities : u.activity[d].closing = b
        <3>1. CASE b = c
            BY <1>6, <3>1
        <3>2. CASE b # c
            <4>1. u.client[b] = "closing" <=> \E d \in Activities : m.activity[d].closing = b
                BY <1>6, <3>2 DEF Ready, ClosingInv
            <4>2. \A d \in Activities : u.activity[d].closing = b <=> m.activity[d].closing = b
                BY <1>6, <1>7, <3>2 DEF None, Activities
            <4> QED
                BY <4>1, <4>2
        <3> QED
            BY <3>1, <3>2
    <2>3. ASSUME NEW b \in Activities, NEW d \in Activities, b # d,
                 u.activity[b].closing = u.activity[d].closing
          PROVE  u.activity[b].closing = None
        BY <1>6, <1>7, <2>3 DEF Ready, ClosingInv
    <2> QED
        BY <2>1, <2>2, <2>3 DEF ClientsInv, ClosingInv
<1>11. AloneInv(u)
    <2>1. AloneInv(m)
        BY DEF Ready
    <2>2. ~IsTerminating(u) => \A b \in Activities : u.activity[b].closing \in {None, b}
        BY <1>6, <1>8, <2>1 DEF AloneInv
    <2>3. u.activity["stop"].task \in {"none", "cancel", "background"} => u.client["stop"] = "none"
        BY <1>6, <2>1 DEF AloneInv, Live, Activities
    <2> QED
        BY <1>6, <2>1, <2>2, <2>3 DEF AloneInv, Activities
<1>12. StopInv(u)
    BY <1>6 DEF Ready, StopInv, Activities
<1> QED
    BY <1>4, <1>6, <1>9, <1>10, <1>11, <1>12 DEF Good

LEMMA FinallyGood ==
    ASSUME NEW a \in Activities, NEW m, Ready(m, a), NEW failed \in BOOLEAN,
           m.activity[a].task \in {"initial", "register"} \cap Tasks(a)
    PROVE  Good(Finally(m, a, failed))
<1> DEFINE c == m.holder
           v == [m.activity[a] EXCEPT !.failed = failed]
           p == Put(m, a, v)
           n == [p EXCEPT !.holder = None]
           d == Disconnected(n, c)
<1>1. m \in Manager /\ m.activity[a] \in Activity
    <2>1. m \in Manager
        BY DEF Ready
    <2> QED
        BY <2>1, ActivityIs
<1>2. /\ v \in Activity /\ v.task = m.activity[a].task /\ v.closing = m.activity[a].closing
    BY <1>1 DEF Activity
<1>3. Finally(m, a, failed) =
          IF c = None THEN GoesOn(n, a)
          ELSE IF d.client[c] = "closed" THEN GoesOn(d, a)
          ELSE [d EXCEPT !.activity[a].at = "close", !.activity[a].closing = c]
    <2>1. [m EXCEPT !.activity[a].failed = failed, !.holder = None] = n
        BY <1>1 DEF Put, Manager, Activity
    <2> HIDE DEF n
    <2> QED
        BY <2>1 DEF Finally
<1> HIDE DEF v
<1>4. Moved(m, p, a) /\ p.activity[a] = v
    BY <1>1, <1>2, PutIs
<1> HIDE DEF p
<1>5. /\ p \in Manager /\ p.holder = c /\ p.state = m.state /\ (p.timer <=> m.timer)
      /\ p.client = m.client /\ \A b \in Activities \ {a} : p.activity[b] = m.activity[b]
    BY <1>4 DEF Moved
<1>6. CASE c = None
    <2>1. /\ n \in Manager /\ n.holder = None /\ n.state = p.state /\ (n.timer <=> p.timer)
          /\ n.client = p.client /\ n.activity = p.activity
        BY <1>5 DEF Manager
    <2> HIDE DEF n
    <2>2. Taken(m, n, a)
        BY <1>2, <1>4, <1>5, <2>1 DEF Taken
    <2>3. Loose(n, a) /\ n.activity[a].task = m.activity[a].task
        BY <1>6, <2>2, TakenLoose
    <2> QED
        BY <1>3, <1>6, <2>3, GoesOnGood
<1>7. CASE c # None
    <2>1. c \in Activities
        BY <1>1, <1>7 DEF Manager
    <2>2. n = [p EXCEPT !.holder = None]
        OBVIOUS
    <2> HIDE DEF n
    <2>3. /\ d \in Manager /\ d.state = p.state /\ d.holder = None
          /\ (d.timer <=> p.timer) /\ d.activity = p.activity
          /\ d.client[c] = IF p.client[c] \in {"dialing", "open"} THEN "closing" ELSE "closed"
          /\ \A b \in Activities \ {c} : d.client[b] = p.client[b]
        BY <1>5, <2>1, <2>2, TakenIs
    <2> HIDE DEF d
    <2>4. Taken(m, d, a)
        BY <1>2, <1>4, <1>5, <2>3 DEF Taken
    <2>5. CASE d.client[c] = "closed"
        <3>1. Loose(d, a) /\ d.activity[a].task = m.activity[a].task
            BY <2>4, <2>5, TakenLoose
        <3> QED
            BY <1>3, <1>7, <2>5, <3>1, GoesOnGood
    <2>6. CASE d.client[c] # "closed"
        <3>1. d.client[c] = "closing" /\ m.client[c] \in Live
            BY <1>5, <2>3, <2>6 DEF Live
        <3>2. Good([d EXCEPT !.activity[a].at = "close", !.activity[a].closing = c])
            BY <2>1, <2>4, <3>1, TakenGood
        <3> QED
            BY <1>3, <1>7, <2>6, <3>2
    <2> QED
        BY <2>5, <2>6
<1> QED
    BY <1>6, <1>7

\* stop() has disconnected what it found.
Stopping(m) ==
    /\ Loose(m, "stop")
    /\ m.activity["stop"].task \in {"none", "cancel", "background"}

LEMMA UnregisterGood ==
    ASSUME NEW m, Stopping(m)
    PROVE  Good(Unregister(m))
<1>1. /\ Loose(m, "stop") /\ m.holder = None /\ m.client["stop"] = "none" /\ IsTerminating(m)
      /\ m \in Manager /\ ~m.timer /\ "stop" \in Activities
    BY DEF Stopping, Loose, AloneInv, Activities
<1>2. CASE m.endpoint
    BY <1>1, <1>2, RegisterGood DEF Unregister
<1>3. CASE ~m.endpoint
    <2> DEFINE o == Over(m, "stop")
               state == "DISPOSING"
               announced == m.announced
               timer == FALSE
               t == [o EXCEPT !.state = state, !.timer = timer, !.announced = announced]
    <2>1. Unregister(m) = [o EXCEPT !.state = state]
        BY <1>3 DEF Unregister
    <2>2. Good(o) /\ o \in Manager /\ o.timer = FALSE /\ IsTerminating(o) /\ o.announced = announced
        <3>1. Good(o) /\ Moved(m, o, "stop")
            BY <1>1, OverGood
        <3>2. o.announced = m.announced
            BY <1>1 DEF Over, Turn, Manager
        <3> HIDE DEF o
        <3>3. o \in Manager /\ (o.timer <=> m.timer) /\ o.state = m.state
            BY <3>1 DEF Moved
        <3>4. o.timer = FALSE
            BY <1>1, <3>3 DEF Manager
        <3> QED
            BY <1>1, <3>1, <3>2, <3>3, <3>4 DEF IsTerminating
    <2> HIDE DEF o
    <2>3. [o EXCEPT !.state = state] = t
        BY <2>2 DEF Manager
    <2>4. /\ timer \in BOOLEAN /\ ~timer /\ state \in States /\ state \in {"UNREGISTERING", "DISPOSING"}
          /\ announced \in {"nothing", "registered", "unregistered"}
        BY <1>1 DEF States, Manager
    <2> HIDE DEF timer, state, announced
    <2>5. Good(t)
        BY <2>2, <2>4, StateGood
    <2> QED
        BY <2>1, <2>3, <2>5
<1> QED
    BY <1>2, <1>3

LEMMA BackgroundGood ==
    ASSUME NEW m, Stopping(m)
    PROVE  Good(Background(m))
<1>1. /\ Loose(m, "stop") /\ m.client["stop"] = "none" /\ "stop" \in Activities
      /\ "background" \in Tasks("stop")
    BY DEF Stopping, Loose, AloneInv, Activities, Tasks
<1>2. Good(Turn(m, "stop", "background", "none"))
    BY <1>1, RestsGood
<1> QED
    BY <1>2, UnregisterGood DEF Background

\* stop() disconnects the client that is in its place.
LEMMA CancelGood ==
    ASSUME NEW m, Ready(m, "stop"), m.activity["stop"].task \in {"none", "cancel"}
    PROVE  Good(Cancel(m))
<1> DEFINE c == m.holder
           n == [m EXCEPT !.holder = None]
           d == Disconnected(n, c)
<1>1. /\ m \in Manager /\ "stop" \in Activities /\ m.client["stop"] = "none"
      /\ m.activity["stop"].closing = None /\ IsTerminating(m)
    BY DEF Ready, AloneInv, Activities
<1>2. Cancel(m) = IF c = None THEN Background(m)
                  ELSE IF d.client[c] = "closed" THEN Background(d)
                  ELSE [Turn(d, "stop", "cancel", "close") EXCEPT !.activity["stop"].closing = c]
    BY DEF Cancel
<1>3. CASE c = None
    <2>1. Taken(m, m, "stop")
        BY <1>1, <1>3 DEF Taken
    <2>2. Loose(m, "stop")
        BY <1>1, <1>3, <2>1, TakenLoose
    <2> QED
        BY <1>2, <1>3, <2>2, BackgroundGood DEF Stopping
<1>4. CASE c # None
    <2>1. c \in Activities
        BY <1>1, <1>4 DEF Manager
    <2>2. n = [m EXCEPT !.holder = None]
        OBVIOUS
    <2> HIDE DEF n
    <2>3. /\ d \in Manager /\ d.state = m.state /\ d.holder = None
          /\ (d.timer <=> m.timer) /\ d.activity = m.activity
          /\ d.client[c] = IF m.client[c] \in {"dialing", "open"} THEN "closing" ELSE "closed"
          /\ \A b \in Activities \ {c} : d.client[b] = m.client[b]
        BY <1>1, <2>1, <2>2, TakenIs
    <2> HIDE DEF d
    <2>4. CASE d.client[c] = "closed"
        <3>1. Taken(m, d, "stop")
            BY <2>3 DEF Taken
        <3>2. Loose(d, "stop")
            BY <1>1, <2>4, <3>1, TakenLoose
        <3> QED
            BY <1>2, <1>4, <2>3, <2>4, <3>2, BackgroundGood DEF Stopping
    <2>5. CASE d.client[c] # "closed"
        <3> DEFINE k == Turn(m, "stop", "cancel", "close")
                   t == Turn(d, "stop", "cancel", "close")
                   u == [t EXCEPT !.activity["stop"].closing = c]
        <3>1. "cancel" \in TaskNames /\ "close" \in Places /\ "cancel" \in Tasks("stop")
            BY DEF TaskNames, Places, Tasks
        <3>2. /\ Moved(m, k, "stop") /\ k.activity["stop"].task = "cancel"
              /\ k.activity["stop"].closing = None
            BY <1>1, <3>1, TurnIs
        <3>3. /\ Moved(d, t, "stop") /\ t.activity["stop"].task = "cancel"
              /\ t.activity["stop"].at = "close" /\ t.activity["stop"].closing = None
            BY <1>1, <2>3, <3>1, TurnIs
        <3>4. u = [t EXCEPT !.activity["stop"].at = "close", !.activity["stop"].closing = c]
            <4>1. t \in Manager /\ t.activity["stop"] \in Activity
                <5>1. t \in Manager
                    BY <3>3 DEF Moved
                <5> QED
                    BY <1>1, <5>1, ActivityIs
            <4> DEFINE v == t.activity["stop"]
                       e == [v EXCEPT !.closing = c]
                       f == [v EXCEPT !.at = "close", !.closing = c]
            <4> HIDE DEF t
            <4>2. e = f
                BY <3>3, <4>1 DEF Activity
            <4>3. u = Put(t, "stop", e)
                BY <1>1, <4>1 DEF Put, Manager, Activity
            <4>4. [t EXCEPT !.activity["stop"].at = "close", !.activity["stop"].closing = c]
                     = Put(t, "stop", f)
                BY <1>1, <4>1 DEF Put, Manager, Activity
            <4> HIDE DEF e, f
            <4> QED
                BY <4>2, <4>3, <4>4
        <3> HIDE DEF k, t, u
        <3>5. /\ k \in Manager /\ k.state = m.state /\ k.holder = c /\ (k.timer <=> m.timer)
              /\ k.client = m.client /\ (IsTerminating(k) <=> IsTerminating(m))
              /\ \A b \in Activities \ {"stop"} : k.activity[b] = m.activity[b]
              /\ \A b \in Activities : k.activity[b].closing = m.activity[b].closing
            BY <1>1, <3>2 DEF Moved, IsTerminating
        <3>6. Ready(k, "stop")
            <4>1. \A b \in Activities \ {"stop"} : Shape(k, b)
                BY <3>5 DEF Ready, Shape
            <4>2. ClosingInv(k)
                BY <3>5 DEF Ready, ClosingInv
            <4>3. AloneInv(k)
                BY <1>1, <3>5 DEF Ready, AloneInv, Activities
            <4> QED
                BY <1>1, <3>2, <3>5, <4>1, <4>2, <4>3 DEF Ready
        <3>7. Taken(k, t, "stop") /\ t.client[c] = "closing" /\ k.client[c] \in Live
            BY <2>1, <2>3, <2>5, <3>2, <3>3, <3>5 DEF Moved, Taken, Live
        <3>8. Good(u)
            <4>1. k.holder = c /\ k.activity["stop"].task \in {"initial", "register", "cancel"} \cap Tasks("stop")
                BY <3>1, <3>2, <3>5
            <4> HIDE DEF c
            <4> QED
                BY <1>1, <2>1, <3>4, <3>6, <3>7, <4>1, TakenGood
        <3> QED
            BY <1>2, <1>4, <2>5, <3>8 DEF t, u
    <2> QED
        BY <2>4, <2>5
<1> QED
    BY <1>3, <1>4

-----------------------------------------------------------------------------
(***************************************************************************)
(* The actions.                                                            *)
(***************************************************************************)
\* An activity that awaits its client
Awaits(m, a) == m.activity[a].at \in {"connect", "call"}

LEMMA ReadyIs ==
    ASSUME NEW a \in Activities, NEW m, Good(m), Awaits(m, a)
    PROVE  Ready(m, a) /\ m.activity[a].task \in {"initial", "register"} \cap Tasks(a)
<1>1. Shape(m, a)
    BY DEF Good
<1>2. m.activity[a].task \in {"initial", "register"} \cap Tasks(a)
    <2>1. m.activity[a].task \in Tasks(a)
        BY <1>1 DEF Shape
    <2>2. m.activity[a].task \notin {"none", "pause", "background", "over", "cancel"}
        BY <1>1 DEF Shape, Awaits
    <2>3. m.activity[a].task \in TaskNames
        BY ActivityIs DEF Good
    <2> QED
        BY <2>1, <2>2, <2>3 DEF TaskNames
<1>3. m.activity[a].closing = None /\ (m.holder = a \/ IsTerminating(m))
    BY <1>1 DEF Shape, Awaits
<1>4. IF a = "stop" THEN IsTerminating(m) /\ ~m.timer ELSE StopInv(m)
    BY <1>2 DEF Good, StopInv
<1> QED
    BY <1>2, <1>3, <1>4 DEF Good, Ready, ClientsInv

\* The manager, where the client of a is in state e
WithClient(m, a, e) == [m EXCEPT !.client[a] = e]

LEMMA WithClientIs ==
    ASSUME NEW m \in Manager, NEW a \in Activities, NEW e \in Clients, NEW t,
           t = WithClient(m, a, e)
    PROVE  /\ t \in Manager /\ t.state = m.state /\ t.holder = m.holder
           /\ (t.timer <=> m.timer) /\ t.activity = m.activity /\ t.client[a] = e
           /\ \A b \in Activities \ {a} : t.client[b] = m.client[b]
           /\ IsTerminating(t) <=> IsTerminating(m)
<1> DEFINE client == [m.client EXCEPT ![a] = e]
<1>1. m.client \in [Activities -> Clients]
    BY DEF Manager
<1>2. /\ client \in [Activities -> Clients] /\ client[a] = e
      /\ \A b \in Activities \ {a} : client[b] = m.client[b]
    BY <1>1
<1>3. t = [m EXCEPT !.client = client]
    BY DEF WithClient
<1> HIDE DEF client
<1> QED
    BY <1>2, <1>3 DEF Manager, IsTerminating

\* The client of a is open, or failed to open.
LEMMA DialedReady ==
    ASSUME NEW a \in Activities, NEW m, Good(m), m.client[a] = "dialing",
           NEW e \in {"open", "closed"}, NEW t, t = WithClient(m, a, e)
    PROVE  Ready(t, a) /\ t.activity[a].task \in {"initial", "register"} \cap Tasks(a)
<1>1. m \in Manager /\ m.activity[a].at = "connect" /\ m.holder = a
    BY DEF Good, Shape, ClientsInv, Live
<1>2. Ready(m, a) /\ m.activity[a].task \in {"initial", "register"} \cap Tasks(a)
    BY <1>1, ReadyIs DEF Awaits
<1>3. e \in Clients
    BY DEF Clients
<1>4. /\ t \in Manager /\ t.state = m.state /\ t.holder = m.holder
      /\ (t.timer <=> m.timer) /\ t.activity = m.activity /\ t.client[a] = e
      /\ \A b \in Activities \ {a} : t.client[b] = m.client[b]
      /\ IsTerminating(t) <=> IsTerminating(m)
    BY <1>1, <1>3, WithClientIs
<1>5. \A b \in Activities \ {a} : Shape(t, b)
    BY <1>2, <1>4 DEF Ready, Shape
<1>6. \A b \in Activities : /\ t.client[b] \in Live => t.holder = b
                            /\ t.holder = b => t.client[b] \in Live \cup {"closed"}
    BY <1>1, <1>2, <1>4 DEF Ready, Live
<1>7. ClosingInv(t)
    BY <1>2, <1>4 DEF Ready, ClosingInv
<1>8. AloneInv(t)
    BY <1>2, <1>4 DEF Ready, AloneInv, Activities
<1>9. IF a = "stop" THEN IsTerminating(t) /\ ~t.timer ELSE StopInv(t)
    BY <1>2, <1>4 DEF Ready, StopInv
<1> QED
    BY <1>1, <1>2, <1>4, <1>5, <1>6, <1>7, <1>8, <1>9 DEF Ready

LEMMA PreparedStep ==
    ASSUME IInv, NEW a \in Activities, Prepared(a)
    PROVE  IInv'
<1> DEFINE m == manager
           e == "dialing"
           t == WithClient(m, a, e)
<1>1. /\ Good(m) /\ m \in Manager /\ m.client[a] = "preparing" /\ manager' = t
      /\ UNCHANGED <<lds, faults>>
    BY DEF IInv, Good, Prepared, Becomes, WithClient
<1>2. e \in Clients
    BY DEF Clients
<1> HIDE DEF e, t
<1>3. /\ t \in Manager /\ t.state = m.state /\ t.holder = m.holder
      /\ (t.timer <=> m.timer) /\ t.activity = m.activity /\ t.client[a] = e
      /\ \A b \in Activities \ {a} : t.client[b] = m.client[b]
      /\ IsTerminating(t) <=> IsTerminating(m)
    BY <1>1, <1>2, WithClientIs DEF t
<1> HIDE DEF m
<1>4. \A b \in Activities : Shape(t, b)
    BY <1>1, <1>3 DEF Good, Shape, e
<1>5. ClientsInv(t)
    BY <1>1, <1>3 DEF Good, ClientsInv, ClosingInv, Live, e
<1>6. AloneInv(t)
    BY <1>1, <1>3 DEF Good, AloneInv, Activities
<1>7. StopInv(t)
    BY <1>1, <1>3 DEF Good, StopInv
<1> QED
    BY <1>1, <1>3, <1>4, <1>5, <1>6, <1>7 DEF Good, IInv

LEMMA ConnectedStep ==
    ASSUME IInv, NEW a \in Activities, Connected(a)
    PROVE  IInv'
<1> DEFINE m == manager
           e == "open"
           t == WithClient(m, a, e)
           u == [t EXCEPT !.activity[a].at = "call"]
           failed == FALSE
<1>1. /\ Good(m) /\ m \in Manager /\ m.client[a] = "dialing" /\ UNCHANGED <<lds, faults>>
      /\ manager' = u \/ manager' = Finally(t, a, failed)
    BY DEF IInv, Good, Connected, Becomes, WithClient
<1>2. e \in Clients /\ e \in {"open", "closed"} /\ e = "open" /\ failed \in BOOLEAN
    BY DEF Clients
<1>3. t = WithClient(m, a, e)
    OBVIOUS
<1> HIDE DEF e, t, failed
<1>4. CASE manager' = Finally(t, a, failed)
    <2>1. Ready(t, a) /\ t.activity[a].task \in {"initial", "register"} \cap Tasks(a)
        BY <1>1, <1>2, <1>3, DialedReady
    <2>2. Good(Finally(t, a, failed))
        BY <1>2, <2>1, FinallyGood
    <2> QED
        BY <1>1, <1>4, <2>2 DEF IInv
<1>5. CASE manager' = u
    <2> DEFINE v == [t.activity[a] EXCEPT !.at = "call"]
    <2>1. /\ t \in Manager /\ t.state = m.state /\ t.holder = m.holder
          /\ (t.timer <=> m.timer) /\ t.activity = m.activity /\ t.client[a] = e
          /\ \A b \in Activities \ {a} : t.client[b] = m.client[b]
          /\ IsTerminating(t) <=> IsTerminating(m)
        BY <1>1, <1>2, <1>3, WithClientIs
    <2>2. t.activity[a] \in Activity
        BY <2>1, ActivityIs
    <2>3. /\ v \in Activity /\ v.at = "call" /\ v.task = t.activity[a].task
          /\ v.closing = t.activity[a].closing
        BY <2>2 DEF Activity
    <2>4. u = Put(t, a, v)
        BY <2>1, <2>2 DEF Put, Manager, Activity
    <2> HIDE DEF v, u
    <2>5. Moved(t, u, a) /\ u.activity[a] = v
        BY <2>1, <2>3, <2>4, PutIs
    <2>6. /\ u \in Manager /\ u.state = m.state /\ u.holder = m.holder
          /\ (u.timer <=> m.timer) /\ u.client[a] = "open"
          /\ \A b \in Activities \ {a} : /\ u.client[b] = m.client[b]
                                         /\ u.activity[b] = m.activity[b]
          /\ IsTerminating(u) <=> IsTerminating(m)
          /\ u.activity[a].at = "call" /\ u.activity[a].task = m.activity[a].task
          /\ u.activity[a].closing = m.activity[a].closing
        BY <1>2, <2>1, <2>3, <2>5 DEF Moved, IsTerminating
    <2> HIDE DEF m
    <2>7. \A b \in Activities : Shape(u, b)
        <3>1. ASSUME NEW b \in Activities, b # a
              PROVE  Shape(u, b)
            BY <1>1, <2>6, <3>1 DEF Good, Shape
        <3>2. Shape(u, a)
            BY <1>1, <2>6 DEF Good, Shape
        <3> QED
            BY <3>1, <3>2
    <2>8. ClientsInv(u)
        <3>1. \A b \in Activities : u.client[b] \in Live <=> u.holder = b
            BY <1>1, <2>6 DEF Good, ClientsInv, Live
        <3>2. \A b \in Activities : u.activity[b].closing = m.activity[b].closing
            BY <2>6
        <3>3. \A b \in Activities : u.client[b] = "closing" <=> m.client[b] = "closing"
            BY <1>1, <2>6
        <3> QED
            BY <1>1, <3>1, <3>2, <3>3 DEF Good, ClientsInv, ClosingInv
    <2>9. AloneInv(u)
        BY <1>1, <2>6 DEF Good, AloneInv, Activities
    <2>10. StopInv(u)
        BY <1>1, <2>6 DEF Good, StopInv, Activities
    <2> QED
        BY <1>1, <1>5, <2>6, <2>7, <2>8, <2>9, <2>10 DEF Good, IInv
<1> QED
    BY <1>1, <1>4, <1>5

LEMMA AnsweredStep ==
    ASSUME IInv, NEW a \in Activities, Answered(a)
    PROVE  IInv'
<1> DEFINE m == manager
           failed == FALSE
           endpoint == TRUE
           t == [m EXCEPT !.endpoint = endpoint]
<1>1. /\ Good(m) /\ m \in Manager /\ Awaits(m, a) /\ lds' \in BOOLEAN /\ UNCHANGED faults
      /\ manager' = Finally(m, a, failed) \/ manager' = Finally(t, a, failed)
    <2>1. lds' \in BOOLEAN
        BY DEF IInv, Answered
    <2> QED
        BY <2>1 DEF IInv, Good, Answered, Becomes, Awaits
<1>2. failed \in BOOLEAN /\ endpoint \in BOOLEAN
    OBVIOUS
<1> HIDE DEF failed, endpoint
<1>3. /\ t \in Manager /\ t.state = m.state /\ t.holder = m.holder
      /\ (t.timer <=> m.timer) /\ t.activity = m.activity /\ t.client = m.client
      /\ IsTerminating(t) <=> IsTerminating(m)
    BY <1>1, <1>2 DEF Manager, IsTerminating
<1> HIDE DEF m, t
<1>4. Ready(m, a) /\ m.activity[a].task \in {"initial", "register"} \cap Tasks(a)
    BY <1>1, ReadyIs
<1>5. Ready(t, a) /\ t.activity[a].task \in {"initial", "register"} \cap Tasks(a)
    <2>1. \A b \in Activities \ {a} : Shape(t, b)
        BY <1>3, <1>4 DEF Ready, Shape
    <2>2. ClosingInv(t) /\ AloneInv(t)
        BY <1>3, <1>4 DEF Ready, ClosingInv, AloneInv
    <2>3. IF a = "stop" THEN IsTerminating(t) /\ ~t.timer ELSE StopInv(t)
        BY <1>3, <1>4 DEF Ready, StopInv
    <2> QED
        BY <1>3, <1>4, <2>1, <2>2, <2>3 DEF Ready
<1>6. Good(Finally(m, a, failed)) /\ Good(Finally(t, a, failed))
    BY <1>2, <1>4, <1>5, FinallyGood
<1> QED
    BY <1>1, <1>6 DEF IInv

\* The discovery server fails once more.
LEMMA FaultIs ==
    ASSUME IInv, Fault
    PROVE  faults' \in 0 .. MaxFaults
BY RegistrationAssumption DEF IInv, Fault

LEMMA FailsGood ==
    ASSUME IInv, NEW a \in Activities, Awaits(manager, a), NEW failed \in BOOLEAN
    PROVE  Good(Finally(manager, a, failed))
<1>1. Good(manager)
    BY DEF IInv
<1>2. Ready(manager, a) /\ manager.activity[a].task \in {"initial", "register"} \cap Tasks(a)
    BY <1>1, ReadyIs
<1> QED
    BY <1>2, FinallyGood

LEMMA UnsureIs ==
    ASSUME IInv, NEW a \in Activities, Unsure(a)
    PROVE  lds' \in BOOLEAN
BY DEF IInv, Unsure

LEMMA AbortedStep ==
    ASSUME IInv, NEW a \in Activities, Aborted(a)
    PROVE  IInv'
<1> DEFINE failed == TRUE
<1>1. /\ Awaits(manager, a) /\ manager' = Finally(manager, a, failed)
      /\ Unsure(a) /\ UNCHANGED faults
    BY DEF Aborted, Becomes, Awaits
<1>2. failed \in BOOLEAN
    OBVIOUS
<1> HIDE DEF failed
<1>3. Good(manager')
    BY <1>1, <1>2, FailsGood
<1>4. lds' \in BOOLEAN
    BY <1>1, UnsureIs
<1> QED
    BY <1>1, <1>3, <1>4 DEF IInv

LEMMA CallFailsStep ==
    ASSUME IInv, NEW a \in Activities, CallFails(a)
    PROVE  IInv'
<1> DEFINE failed == TRUE
<1>1. /\ Awaits(manager, a) /\ manager' = Finally(manager, a, failed)
      /\ Unsure(a) /\ Fault
    BY DEF CallFails, Becomes, Awaits
<1>2. failed \in BOOLEAN
    OBVIOUS
<1> HIDE DEF failed
<1>3. Good(manager')
    BY <1>1, <1>2, FailsGood
<1> QED
    BY <1>1, <1>3, UnsureIs, FaultIs DEF IInv

LEMMA EndpointBareStep ==
    ASSUME IInv, EndpointBare
    PROVE  IInv'
<1> DEFINE failed == FALSE
<1>1. /\ Awaits(manager, "loop") /\ manager' = Finally(manager, "loop", failed)
      /\ UNCHANGED lds /\ Fault /\ "loop" \in Activities
    BY DEF EndpointBare, Becomes, Awaits, Activities
<1>2. failed \in BOOLEAN
    OBVIOUS
<1> HIDE DEF failed
<1>3. Good(manager')
    BY <1>1, <1>2, FailsGood
<1> QED
    BY <1>1, <1>3, FaultIs DEF IInv

LEMMA ConnectFailsStep ==
    ASSUME IInv, NEW a \in Activities, ConnectFails(a)
    PROVE  IInv'
<1> DEFINE failed == TRUE
           e == "closed"
           t == WithClient(manager, a, e)
<1>1. /\ Good(manager) /\ manager.client[a] = "dialing" /\ manager' = Finally(t, a, failed)
      /\ UNCHANGED lds /\ Fault
    BY DEF IInv, ConnectFails, Becomes, WithClient
<1>2. e \in {"open", "closed"} /\ failed \in BOOLEAN /\ t = WithClient(manager, a, e)
    OBVIOUS
<1> HIDE DEF failed, e, t
<1>3. Ready(t, a) /\ t.activity[a].task \in {"initial", "register"} \cap Tasks(a)
    BY <1>1, <1>2, DialedReady
<1>4. Good(manager')
    BY <1>1, <1>2, <1>3, FinallyGood
<1> QED
    BY <1>1, <1>4, FaultIs DEF IInv

LEMMA LdsForgetsStep ==
    ASSUME IInv, LdsForgets
    PROVE  IInv'
<1>1. UNCHANGED manager /\ lds' = FALSE /\ Fault
    BY DEF LdsForgets
<1>2. faults' \in 0 .. MaxFaults
    BY <1>1, FaultIs
<1> QED
    BY <1>1, <1>2 DEF IInv

\* An activity that awaits nothing and may go on
LEMMA RestingLoose ==
    ASSUME NEW a \in {"loop", "renewal"}, NEW m, Good(m), m.activity[a].at = "none",
           a = "loop" => m.activity["loop"].task # "over", a = "renewal" => m.timer
    PROVE  Loose(m, a)
<1>1. m \in Manager /\ ClientsInv(m) /\ AloneInv(m) /\ StopInv(m)
    BY DEF Good
<1>2. \A b \in Activities : Shape(m, b)
    BY DEF Good
<1>3. m.activity[a].closing = None
    BY <1>2 DEF Shape, Activities
<1>4. \A b \in Activities : m.activity[b].at = "none" => m.holder # b
    BY <1>1, <1>2 DEF Shape, ClientsInv, Live
<1>5. \A b \in Activities : m.activity[b].task \in {"none", "over"} => m.activity[b].at = "none"
    BY <1>2 DEF Shape
<1>6. ASSUME ~IsTerminating(m)
      PROVE  m.holder = None
    <2>1. m.holder # "stop"
        BY <1>1, <1>4, <1>5, <1>6 DEF StopInv, Activities
    <2>2. m.holder # "renewal"
        <3>1. CASE a = "renewal"
            BY <1>4, <3>1 DEF Activities
        <3>2. CASE a = "loop"
            <4>1. m.activity["renewal"].task # "register"
                BY <1>1, <3>2 DEF AloneInv
            <4>2. m.activity["renewal"].task \in Tasks("renewal")
                BY <1>2 DEF Shape, Activities
            <4>3. m.activity["renewal"].task \in {"none", "over"}
                BY <4>1, <4>2 DEF Tasks
            <4> QED
                BY <1>4, <1>5, <4>3 DEF Activities
        <3> QED
            BY <3>1, <3>2
    <2>3. m.holder # "loop"
        <3>1. CASE a = "loop"
            BY <1>4, <3>1 DEF Activities
        <3>2. CASE a = "renewal"
            BY <1>1, <1>4, <1>5, <3>2 DEF AloneInv, Activities
        <3> QED
            BY <3>1, <3>2
    <2>4. m.holder \in Activities \cup {None}
        BY <1>1 DEF Manager
    <2> QED
        BY <2>1, <2>2, <2>3, <2>4 DEF Activities
<1>7. a \in Activities /\ a # "stop"
    BY DEF Activities
<1>8. m.holder # a
    BY <1>4, <1>7
<1> QED
    BY <1>1, <1>2, <1>3, <1>6, <1>7, <1>8 DEF Loose

\* The loop goes on.
LEMMA LoopStep ==
    ASSUME IInv, manager.activity["loop"].task \in {"none", "pause"},
           manager' = LoopTurns(manager), UNCHANGED <<lds, faults>>
    PROVE  IInv'
<1>1. Good(manager) /\ Shape(manager, "loop")
    BY DEF IInv, Good, Activities
<1>2. manager.activity["loop"].at = "none"
    BY <1>1 DEF Shape
<1>3. Loose(manager, "loop")
    BY <1>1, <1>2, RestingLoose
<1>4. Good(LoopTurns(manager))
    BY <1>3, LoopTurnsGood
<1> QED
    BY <1>4 DEF IInv

LEMMA StartStep ==
    ASSUME IInv, Start
    PROVE  IInv'
BY LoopStep DEF Start, Becomes

LEMMA PauseOverStep ==
    ASSUME IInv, PauseOver
    PROVE  IInv'
BY LoopStep DEF PauseOver, Becomes

LEMMA TimerFiresStep ==
    ASSUME IInv, TimerFires
    PROVE  IInv'
<1> DEFINE m == manager
           state == "REGISTERING"
           endpoint == m.endpoint
           timer == FALSE
           t == Set(m, state, endpoint, timer)
<1>1. /\ Good(m) /\ m \in Manager /\ m.timer /\ UNCHANGED <<lds, faults>>
      /\ manager' = Register([m EXCEPT !.timer = timer, !.state = state], "renewal")
    BY DEF IInv, Good, TimerFires, Becomes
<1>2. [m EXCEPT !.timer = timer, !.state = state] = t
    BY <1>1 DEF Set, Manager
<1>3. /\ state \in States /\ state \notin {"UNREGISTERING", "DISPOSING"} /\ ~timer
      /\ endpoint \in BOOLEAN /\ timer \in BOOLEAN /\ Lets(m, timer)
    BY <1>1 DEF States, Manager, Lets
<1>4. t = Set(m, state, endpoint, timer)
    OBVIOUS
<1> HIDE DEF state, endpoint, timer, t, m
<1>5. /\ ~IsTerminating(m) /\ m.activity["loop"].task = "over"
      /\ m.activity["renewal"].at = "none"
    <2>1. /\ Shape(m, "renewal") /\ AloneInv(m) /\ StopInv(m) /\ "renewal" \in Activities
        BY <1>1 DEF Good, Activities
    <2>2. m.activity["renewal"].task \in {"none", "over"}
        BY <1>1, <2>1 DEF Shape, Tasks, AloneInv
    <2> QED
        BY <1>1, <2>1, <2>2 DEF Shape, AloneInv, StopInv
<1>6. Loose(m, "renewal")
    BY <1>1, <1>5, RestingLoose
<1>7. /\ Loose(t, "renewal") /\ ~IsTerminating(t) /\ t.holder = m.holder /\ (t.timer <=> timer)
      /\ t.activity = m.activity
    BY <1>3, <1>4, <1>5, <1>6, StateLoose
<1>8. t.client["renewal"] \in {"none", "closed"} /\ "renewal" \in Activities
    BY <1>7, LooseIs DEF Activities
<1>9. t.holder = None
    BY <1>7 DEF Loose
<1>10. Good(Register(t, "renewal"))
    BY <1>3, <1>5, <1>7, <1>8, <1>9, RegisterGood
<1> QED
    BY <1>1, <1>2, <1>10 DEF IInv

LEMMA BackgroundOverStep ==
    ASSUME IInv, BackgroundOver
    PROVE  IInv'
<1>1. /\ Good(manager) /\ manager.activity["stop"].task = "background" /\ "stop" \in Activities
      /\ manager' = Unregister(manager) /\ UNCHANGED <<lds, faults>>
    BY DEF IInv, BackgroundOver, Becomes, Activities
<1> DEFINE m == manager
<1> HIDE DEF m
<1>2. /\ m \in Manager /\ ClientsInv(m) /\ AloneInv(m) /\ StopInv(m)
      /\ \A b \in Activities : Shape(m, b)
    BY <1>1 DEF Good, m
<1>3. m.activity["stop"].task = "background"
    BY <1>1 DEF m
<1>4. IsTerminating(m) /\ ~m.timer /\ m.activity["stop"].closing = None /\ m.holder = None
    <2>1. IsTerminating(m) /\ ~m.timer /\ m.holder \in {None, "stop"}
        BY <1>2, <1>3 DEF StopInv
    <2>2. m.client["stop"] = "none"
        BY <1>2, <1>3 DEF AloneInv
    <2>3. m.holder # "stop"
        BY <1>1, <1>2, <2>2 DEF ClientsInv, Live
    <2>4. m.activity["stop"].closing = None
        BY <1>1, <1>2, <1>3 DEF Shape
    <2> QED
        BY <2>1, <2>3, <2>4
<1>5. Loose(m, "stop")
    <2>1. m.holder # "stop"
        BY <1>4 DEF None
    <2> QED
        BY <1>2, <1>4, <2>1 DEF Loose
<1>6. Good(Unregister(m))
    BY <1>3, <1>5, UnregisterGood DEF Stopping
<1> QED
    BY <1>1, <1>6 DEF IInv, m

LEMMA StopStep ==
    ASSUME IInv, Stop
    PROVE  IInv'
<1> DEFINE m == manager
           timer == FALSE
           state == "UNREGISTERING"
           overlap == m.activity["renewal"].task = "register"
           t == [m EXCEPT !.timer = timer, !.state = state, !.overlap = overlap]
<1>1. /\ Good(m) /\ ~IsTerminating(m) /\ UNCHANGED <<lds, faults>> /\ manager' = Cancel(t)
    BY DEF IInv, Stop, Becomes
<1>2. /\ timer \in BOOLEAN /\ ~timer /\ overlap \in BOOLEAN
      /\ state \in States /\ state \in {"UNREGISTERING", "DISPOSING"}
    BY DEF States
<1> HIDE DEF timer, state, overlap, m
<1>3. /\ m \in Manager /\ ClientsInv(m) /\ AloneInv(m) /\ StopInv(m)
      /\ \A b \in Activities : Shape(m, b)
    BY <1>1 DEF Good
<1>4. /\ t \in Manager /\ t.state = state /\ t.holder = m.holder /\ ~t.timer
      /\ t.client = m.client /\ t.activity = m.activity
    BY <1>2, <1>3 DEF Manager
<1> HIDE DEF t
<1>5. IsTerminating(t)
    BY <1>2, <1>4 DEF IsTerminating
<1>6. m.activity["stop"].task = "none"
    BY <1>1, <1>3 DEF StopInv
<1>7. m.activity["stop"].closing = None
    BY <1>3, <1>6 DEF Shape, Activities
<1>8. Ready(t, "stop")
    <2>1. \A b \in Activities \ {"stop"} : Shape(t, b)
        BY <1>3, <1>4, <1>5 DEF Shape
    <2>2. \A b \in Activities : /\ t.client[b] \in Live => t.holder = b
                                /\ t.holder = b => t.client[b] \in Live \cup {"closed"}
        BY <1>3, <1>4 DEF ClientsInv
    <2>3. ClosingInv(t)
        BY <1>3, <1>4 DEF ClientsInv, ClosingInv
    <2>4. AloneInv(t)
        BY <1>3, <1>4, <1>5 DEF AloneInv
    <2> QED
        BY <1>4, <1>5, <1>7, <2>1, <2>2, <2>3, <2>4 DEF Ready
<1>9. Good(Cancel(t))
    BY <1>4, <1>6, <1>8, CancelGood
<1> QED
    BY <1>1, <1>9 DEF IInv

\* What b awaits is closed.
LEMMA ClosedLoose ==
    ASSUME NEW m, Good(m), NEW a \in Activities, m.client[a] = "closing",
           NEW b \in Activities, m.activity[b].closing = a,
           NEW v \in Activity, v.task = m.activity[b].task, v.at = "none", v.closing = None,
           NEW n, n = Put(WithClient(m, a, "closed"), b, v)
    PROVE  /\ Loose(n, b) /\ n.activity[b].task = m.activity[b].task
           /\ n.activity[b].task \in Tasks(b) \cap {"initial", "register", "cancel"}
<1> DEFINE t == WithClient(m, a, "closed")
<1>1. /\ m \in Manager /\ ClientsInv(m) /\ AloneInv(m) /\ StopInv(m)
      /\ \A c \in Activities : Shape(m, c)
    BY DEF Good
<1>2. /\ t \in Manager /\ t.state = m.state /\ t.holder = m.holder
      /\ (t.timer <=> m.timer) /\ t.activity = m.activity /\ t.client[a] = "closed"
      /\ \A c \in Activities \ {a} : t.client[c] = m.client[c]
      /\ IsTerminating(t) <=> IsTerminating(m)
    <2>1. "closed" \in Clients
        BY DEF Clients
    <2> QED
        BY <1>1, <2>1, WithClientIs
<1> HIDE DEF t
<1>3. Moved(t, n, b) /\ n.activity[b] = v
    <2>1. n = Put(t, b, v)
        BY DEF t
    <2> QED
        BY <1>2, <2>1, PutIs
<1>4. /\ n \in Manager /\ n.state = m.state /\ n.holder = m.holder /\ (n.timer <=> m.timer)
      /\ n.client[a] = "closed" /\ \A c \in Activities \ {a} : n.client[c] = m.client[c]
      /\ \A c \in Activities \ {b} : n.activity[c] = m.activity[c]
      /\ n.activity[b].at = "none" /\ n.activity[b].closing = None
      /\ \A c \in Activities : n.activity[c].task = m.activity[c].task
      /\ IsTerminating(n) <=> IsTerminating(m)
    BY <1>2, <1>3 DEF Moved, IsTerminating
<1>5. /\ m.activity[b].at = "close"
      /\ m.activity[b].task \in Tasks(b) \cap {"initial", "register", "cancel"}
    <2>1. Shape(m, b) /\ a # None /\ m.activity[b].task \in TaskNames
        BY <1>1, ActivityIs DEF None, Activities
    <2> QED
        BY <2>1 DEF Shape, TaskNames
<1>6. m.holder # b
    BY <1>1, <1>5 DEF Shape, ClientsInv, Live
<1>7. \A c \in Activities \ {b} : Shape(n, c)
    BY <1>1, <1>4 DEF Shape
<1>8. ClientsInv(n)
    <2>1. \A c \in Activities : n.client[c] \in Live <=> n.holder = c
        BY <1>1, <1>4 DEF ClientsInv, Live
    <2>2. \A c \in Activities \ {b} : m.activity[c].closing # a
        BY <1>1 DEF ClientsInv, ClosingInv, None, Activities
    <2>3. ASSUME NEW c \in Activities
          PROVE  n.client[c] = "closing" <=> \E d \in Activities : n.activity[d].closing = c
        <3>1. CASE c = a
            BY <1>4, <2>2, <3>1 DEF None, Activities
        <3>2. CASE c # a
            <4>1. n.client[c] = "closing" <=> \E d \in Activities : m.activity[d].closing = c
                BY <1>1, <1>4, <3>2 DEF ClientsInv, ClosingInv
            <4>2. \A d \in Activities : n.activity[d].closing = c <=> m.activity[d].closing = c
                BY <1>4, <3>2 DEF None, Activities
            <4> QED
                BY <4>1, <4>2
        <3> QED
            BY <3>1, <3>2
    <2>4. ASSUME NEW c \in Activities, NEW d \in Activities, c # d,
                 n.activity[c].closing = n.activity[d].closing
          PROVE  n.activity[c].closing = None
        BY <1>1, <1>4, <2>4 DEF ClientsInv, ClosingInv
    <2> QED
        BY <2>1, <2>3, <2>4 DEF ClientsInv, ClosingInv
<1>9. AloneInv(n)
    <2>1. ~IsTerminating(n) => \A c \in Activities : n.activity[c].closing \in {None, c}
        BY <1>1, <1>4 DEF AloneInv
    <2>2. n.activity["stop"].task \in {"none", "cancel", "background"} => n.client["stop"] = "none"
        BY <1>1, <1>4 DEF AloneInv, Activities
    <2> QED
        BY <1>1, <1>4, <2>1, <2>2 DEF AloneInv, Activities
<1>10. ASSUME ~IsTerminating(m)
       PROVE  m.holder = None
    <2>1. \A c \in Activities : m.activity[c].task \in {"none", "over"} => m.holder # c
        BY <1>1 DEF Shape, ClientsInv, Live
    <2>2. b # "stop" /\ m.activity["stop"].task = "none"
        BY <1>1, <1>5, <1>10 DEF StopInv
    <2>3. b = "loop" => m.activity["renewal"].task \in {"none", "over"}
        <3>1. ASSUME b = "loop"
              PROVE  m.activity["renewal"].task \in {"none", "over"}
            <4>1. m.activity["renewal"].task # "register"
                BY <1>1, <1>5, <3>1 DEF AloneInv
            <4>2. m.activity["renewal"].task \in Tasks("renewal")
                BY <1>1 DEF Shape, Activities
            <4> QED
                BY <4>1, <4>2 DEF Tasks
        <3> QED
            BY <3>1
    <2>4. b = "renewal" => m.activity["loop"].task = "over"
        <3>1. ASSUME b = "renewal"
              PROVE  m.activity["loop"].task = "over"
            BY <1>1, <1>5, <3>1 DEF Tasks, AloneInv
        <3> QED
            BY <3>1
    <2>5. m.holder \in Activities \cup {None}
        BY <1>1 DEF Manager
    <2> QED
        BY <1>6, <2>1, <2>2, <2>3, <2>4, <2>5 DEF Activities
<1>11. IF b = "stop" THEN IsTerminating(n) /\ ~n.timer /\ n.holder = None ELSE StopInv(n)
    <2>1. CASE b = "stop"
        BY <1>1, <1>4, <1>5, <1>6, <2>1 DEF StopInv
    <2>2. CASE b # "stop"
        BY <1>1, <1>4, <2>2 DEF StopInv, Activities
    <2> QED
        BY <2>1, <2>2
<1>12. /\ n \in Manager /\ n.activity[b].closing = None /\ n.holder # b
       /\ ~IsTerminating(n) => n.holder = None
    BY <1>4, <1>6, <1>10
<1>13. Loose(n, b)
    BY <1>7, <1>8, <1>9, <1>11, <1>12 DEF Loose
<1>14. n.activity[b].task = m.activity[b].task
    BY <1>4
<1> QED
    BY <1>5, <1>13, <1>14

LEMMA ClosedStep ==
    ASSUME IInv, NEW a \in Activities, Closed(a)
    PROVE  IInv'
<1> DEFINE t == WithClient(manager, a, "closed")
           Next_(b) == [t EXCEPT !.activity[b].closing = None, !.activity[b].at = "none"]
<1>1. PICK b \in Activities :
          /\ manager.activity[b].closing = a
          /\ manager' = IF Next_(b).activity[b].task = "cancel" THEN Cancel(Next_(b))
                        ELSE GoesOn(Next_(b), b)
    BY DEF Closed, Becomes, WithClient
<1>2. Good(manager) /\ manager \in Manager /\ manager.client[a] = "closing" /\ UNCHANGED <<lds, faults>>
    BY DEF IInv, Good, Closed
<1> DEFINE n == Next_(b)
           v == [manager.activity[b] EXCEPT !.closing = None, !.at = "none"]
<1>3. manager.activity[b] \in Activity
    BY <1>2, ActivityIs
<1>4. v \in Activity /\ v.task = manager.activity[b].task /\ v.at = "none" /\ v.closing = None
    BY <1>3 DEF Activity, Activities, None
<1>5. n = Put(t, b, v)
    <2>1. "closed" \in Clients
        BY DEF Clients
    <2>2. t \in Manager /\ t.activity = manager.activity
        BY <1>2, <2>1, WithClientIs
    <2> HIDE DEF t
    <2> QED
        BY <1>3, <2>2 DEF Put, Manager, Activity
<1>6. manager' = IF n.activity[b].task = "cancel" THEN Cancel(n) ELSE GoesOn(n, b)
    BY <1>1
<1> HIDE DEF n, v, Next_
<1>7. Loose(n, b) /\ n.activity[b].task \in Tasks(b) \cap {"initial", "register", "cancel"}
    BY <1>1, <1>2, <1>4, <1>5, ClosedLoose
<1> HIDE DEF t
<1>8. CASE n.activity[b].task = "cancel"
    <2>1. b = "stop" /\ n.activity["stop"].task = "cancel"
        BY <1>7, <1>8 DEF Tasks, Activities
    <2>2. n.holder = None /\ Stopping(n)
        BY <1>7, <2>1 DEF Loose, Stopping
    <2>3. Good(Background(n))
        BY <2>2, BackgroundGood
    <2>4. Cancel(n) = Background(n)
        BY <2>2 DEF Cancel
    <2> QED
        BY <1>2, <1>6, <1>8, <2>3, <2>4 DEF IInv
<1>9. CASE n.activity[b].task # "cancel"
    <2>1. Good(GoesOn(n, b))
        BY <1>7, <1>9, GoesOnGood
    <2> QED
        BY <1>2, <1>6, <1>9, <2>1 DEF IInv
<1> QED
    BY <1>8, <1>9

LEMMA InitIInv ==
    ASSUME Init
    PROVE  IInv
<1> DEFINE m == manager
           failed == FALSE
           v == [task |-> "none", at |-> "none", failed |-> failed, closing |-> None]
<1>1. failed \in BOOLEAN
    OBVIOUS
<1>2. /\ m.state = "INACTIVE" /\ m.holder = None /\ ~m.timer
      /\ m.activity = [a \in Activities |-> v] /\ m.client = [a \in Activities |-> "none"]
    BY DEF Init
<1>3. m \in Manager
    <2>1. v \in Activity
        BY DEF Activity
    <2>2. [a \in Activities |-> v] \in [Activities -> Activity]
        BY <2>1
    <2>3. [a \in Activities |-> "none"] \in [Activities -> Clients]
        BY DEF Clients
    <2> DEFINE activity == [a \in Activities |-> v]
               client == [a \in Activities |-> "none"]
    <2>4. m = [state |-> "INACTIVE", endpoint |-> FALSE, holder |-> None, timer |-> FALSE,
               activity |-> activity, client |-> client, announced |-> "nothing", overlap |-> FALSE]
        BY DEF Init
    <2>5. activity \in [Activities -> Activity] /\ client \in [Activities -> Clients]
        BY <2>2, <2>3
    <2> HIDE DEF activity, client, m
    <2> QED
        BY <2>4, <2>5 DEF Manager, States
<1>4. \A a \in Activities : m.activity[a] = v /\ m.client[a] = "none"
    BY <1>2
<1>5. \A a \in Activities : /\ m.activity[a].task = "none" /\ m.activity[a].at = "none"
                            /\ m.activity[a].closing = None
    BY <1>4
<1> HIDE DEF m, v, failed
<1>6. ~IsTerminating(m)
    BY <1>2 DEF IsTerminating
<1>7. \A a \in Activities : "none" \in Tasks(a) /\ a # None
    BY DEF Tasks, Activities, None
<1>8. \A a \in Activities : Shape(m, a)
    BY <1>4, <1>5, <1>7 DEF Shape
<1>9. ClientsInv(m)
    BY <1>2, <1>4, <1>5, <1>7 DEF ClientsInv, ClosingInv, Live
<1>10. AloneInv(m) /\ StopInv(m)
    BY <1>2, <1>4, <1>5, <1>6 DEF AloneInv, StopInv, Activities
<1>11. lds \in BOOLEAN /\ faults \in 0 .. MaxFaults
    <2>1. lds = FALSE /\ faults = 0
        BY DEF Init
    <2>2. lds \in BOOLEAN
        BY <2>1
    <2>3. faults \in 0 .. MaxFaults
        BY <2>1, RegistrationAssumption
    <2> QED
        BY <2>2, <2>3
<1>12. Good(m)
    BY <1>3, <1>8, <1>9, <1>10 DEF Good
<1>13. Good(manager)
    BY <1>12 DEF m
<1> QED
    BY <1>11, <1>13 DEF IInv

LEMMA NextIInv ==
    ASSUME IInv, [Next]_vars
    PROVE  IInv'
<1>1. CASE Start
    BY <1>1, StartStep
<1>2. CASE PauseOver
    BY <1>2, PauseOverStep
<1>3. CASE TimerFires
    BY <1>3, TimerFiresStep
<1>4. CASE Stop
    BY <1>4, StopStep
<1>5. CASE BackgroundOver
    BY <1>5, BackgroundOverStep
<1>6. CASE EndpointBare
    BY <1>6, EndpointBareStep
<1>7. CASE LdsForgets
    BY <1>7, LdsForgetsStep
<1>8. ASSUME NEW a \in Activities, Prepared(a)
      PROVE  IInv'
    BY <1>8, PreparedStep
<1>9. ASSUME NEW a \in Activities, Connected(a)
      PROVE  IInv'
    BY <1>9, ConnectedStep
<1>10. ASSUME NEW a \in Activities, Answered(a)
       PROVE  IInv'
    BY <1>10, AnsweredStep
<1>11. ASSUME NEW a \in Activities, Aborted(a)
       PROVE  IInv'
    BY <1>11, AbortedStep
<1>12. ASSUME NEW a \in Activities, Closed(a)
       PROVE  IInv'
    BY <1>12, ClosedStep
<1>13. ASSUME NEW a \in Activities, ConnectFails(a)
       PROVE  IInv'
    BY <1>13, ConnectFailsStep
<1>14. ASSUME NEW a \in Activities, CallFails(a)
       PROVE  IInv'
    BY <1>14, CallFailsStep
<1>15. CASE UNCHANGED vars
    BY <1>15 DEF vars, IInv
<1> QED
    BY <1>1, <1>2, <1>3, <1>4, <1>5, <1>6, <1>7, <1>8, <1>9, <1>10, <1>11, <1>12, <1>13,
       <1>14, <1>15 DEF Next

\* The inductive invariant holds in every behaviour: at most one of the loop and the renewal is
\* under way, the client in its place is the only one that nobody has disconnected, each that is
\* closing is awaited once, and once stop() has begun no timer is left (#_cancel_pending_client_if_any,
\* the finally clauses, and the terminating checks of #_runRegistrationProcess and #_trigger_next).
THEOREM Invariance == Spec => []IInv
<1>1. Init => IInv
    BY InitIInv
<1>2. IInv /\ [Next]_vars => IInv'
    BY NextIInv
<1> QED
    BY <1>1, <1>2, PTL DEF Spec

\* The registration keeps its type, and _registration_client is a client that nobody has
\* disconnected: whoever disconnects it has taken it from its place first, and nobody puts
\* one in the place of another.
THEOREM TypeCorrect == Spec => []TypeOK
<1>1. IInv => TypeOK
    <2> SUFFICES ASSUME IInv
                 PROVE  TypeOK
        OBVIOUS
    <2>1. manager \in Manager /\ ClientsInv(manager)
        BY DEF IInv, Good
    <2>2. manager.holder # None => manager.client[manager.holder] \in Live
        BY <2>1 DEF ClientsInv, Manager
    <2> QED
        BY <2>1, <2>2 DEF IInv, TypeOK, Live
<1> QED
    BY <1>1, Invariance, PTL

\* Nobody forgets a client, however many failures there are and whenever stop() comes: one that
\* is not closed is awaited by its activity, or by whoever has disconnected it (the finally
\* clauses of the loop and of the registration, and #_cancel_pending_client_if_any).
THEOREM NoneForgotten == Spec => []NoClientLeaks
<1>1. IInv => NoClientLeaks
    <2> SUFFICES ASSUME IInv, NEW a \in Activities, manager.client[a] \notin {"none", "closed"}
                 PROVE  \/ manager.holder = a /\ manager.activity[a].at \in {"connect", "call"}
                        \/ \E b \in Activities : manager.activity[b].closing = a
        BY DEF NoClientLeaks
    <2>1. manager \in Manager /\ ClientsInv(manager) /\ Shape(manager, a)
        BY DEF IInv, Good
    <2>2. manager.client[a] \in Live \cup {"closing"}
        BY <2>1, ActivityIs DEF Clients, Live
    <2>3. CASE manager.client[a] = "closing"
        BY <2>1, <2>3 DEF ClientsInv, ClosingInv
    <2>4. CASE manager.client[a] \in Live
        BY <2>1, <2>4 DEF ClientsInv, Shape, Live
    <2> QED
        BY <2>2, <2>3, <2>4
<1> QED
    BY <1>1, Invariance, PTL
=============================================================================
