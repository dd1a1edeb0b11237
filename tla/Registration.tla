---------------------------- MODULE Registration ----------------------------
(***************************************************************************)
(* How a server registers with a discovery server: RegisterServerManager.  *)
(* Three asynchronous activities share it: the loop that start() leaves in *)
(* the background, the renewal that a timer starts, and stop(). Each talks *)
(* to the discovery server through a client of its own, but all keep it in *)
(* one place, _registration_client, which is where stop() finds the client *)
(* it cancels and where each finds the client it closes at its end.        *)
(***************************************************************************)
EXTENDS Naturals

CONSTANT MaxFaults      \* bound on failures of the discovery server and of connections to it

ASSUME RegistrationAssumption == MaxFaults \in Nat

VARIABLES
    manager,    \* the RegisterServerManager
    lds,        \* does the discovery server list the server as online?
    faults      \* how many failures there were

vars == <<manager, lds, faults>>

Activities == {"loop", "renewal", "stop"}
None       == "none"

States == {"INACTIVE", "INITIALIZING", "REGISTERING", "WAITING", "UNREGISTERING", "DISPOSING"}

\* Where an activity awaits: the connection of its client, the answer to a request, the end of
\* the client it closes (closing), the end of a pause, or of the loop.
Activity == [task    : {"none", "initial", "register", "pause", "cancel", "background", "over"},
             at      : {"none", "connect", "call", "close"},
             failed  : BOOLEAN,
             closing : Activities \cup {None}]

\* A client is "preparing" while it reads its certificates, "dialing" while its channel opens.
Clients == {"none", "preparing", "dialing", "open", "closing", "closed"}

Manager == [state     : States,
            endpoint  : BOOLEAN,                      \* is there a selectedEndpoint?
            holder    : Activities \cup {None},       \* whose client is _registration_client
            timer     : BOOLEAN,                      \* _registrationTimerId
            activity  : [Activities -> Activity],
            client    : [Activities -> Clients],
            announced : {"nothing", "registered", "unregistered"},  \* the last event
            overlap   : BOOLEAN]                      \* history: a renewal was under way at stop()

Init ==
    /\ manager = [state     |-> "INACTIVE",
                  endpoint  |-> FALSE,
                  holder    |-> None,
                  timer     |-> FALSE,
                  activity  |-> [a \in Activities |-> [task |-> "none", at |-> "none",
                                                       failed |-> FALSE, closing |-> None]],
                  client    |-> [a \in Activities |-> "none"],
                  announced |-> "nothing",
                  overlap   |-> FALSE]
    /\ lds = FALSE
    /\ faults = 0

\* #_isTerminating
IsTerminating(m) == m.state \in {"UNREGISTERING", "DISPOSING"}

Turn(m, a, task, at) == [m EXCEPT !.activity[a].task = task, !.activity[a].at = at]

Over(m, a) == Turn(m, a, "over", "none")

-----------------------------------------------------------------------------
(***************************************************************************)
(* Clients.                                                                *)
(***************************************************************************)
\* create() and connect()
Dialed(m, a, task) ==
    [Turn(m, a, task, "connect") EXCEPT !.client[a] = "preparing", !.holder = a]

\* disconnect(): a client that has no channel yet is disconnected at once.
Disconnected(m, a) ==
    [m EXCEPT !.client[a] = IF @ \in {"dialing", "open"} THEN "closing" ELSE "closed"]

-----------------------------------------------------------------------------
(***************************************************************************)
(* How a registration ends, and what follows it.                           *)
(***************************************************************************)
\* #_trigger_next
TriggerNext(m) == [m EXCEPT !.state = "WAITING", !.timer = TRUE, !.announced = "registered"]

\* (slip: a renewal that failed has no successor)
Renewed_Once(m) ==
    IF IsTerminating(m) \/ m.activity["renewal"].failed THEN Over(m, "renewal")
    ELSE TriggerNext(Over(m, "renewal"))

\* after_register
Renewed(m) ==
    IF IsTerminating(m) THEN Over(m, "renewal") ELSE TriggerNext(Over(m, "renewal"))

\* the loop, after its registration
Registered(m) ==
    IF m.state # "REGISTERING" THEN Over(m, "loop") ELSE TriggerNext(Over(m, "loop"))

\* stop, after the unregistration
Unregistered(m) ==
    [Over(m, "stop") EXCEPT !.state = "DISPOSING", !.announced = "unregistered"]

\* The errors of a registration are swallowed: for those who await it, it has succeeded.
RegisterOver(m, a) ==
    CASE a = "loop"    -> Registered(m)
      [] a = "renewal" -> Renewed(m)
      [] a = "stop"    -> Unregistered(m)

\* _registerOrUnregisterServer, to its first await
Register(m, a) ==
    IF m.state # (IF a = "stop" THEN "UNREGISTERING" ELSE "REGISTERING")
    THEN RegisterOver(m, a)
    ELSE Dialed(m, a, "register")

-----------------------------------------------------------------------------
(***************************************************************************)
(* The loop.                                                               *)
(***************************************************************************)
\* The catch clause of #_runRegistrationProcess
LoopFailed(m) ==
    IF IsTerminating(m) THEN Over(m, "loop")
    ELSE Turn([m EXCEPT !.state = "INACTIVE"], "loop", "pause", "none")

\* The while clause, and #_establish_initial_connection to its first await
LoopTurns(m) ==
    IF IsTerminating(m) THEN Over(m, "loop")
    ELSE Dialed([m EXCEPT !.state = "INITIALIZING", !.endpoint = FALSE], "loop", "initial")

\* #_establish_initial_connection is over. Without an endpoint an assertion fails.
InitialOver(m) ==
    IF m.activity["loop"].failed THEN LoopFailed(m)
    ELSE IF m.state # "INITIALIZING" THEN Over(m, "loop")
    ELSE IF ~m.endpoint THEN LoopFailed(m)
    ELSE Register([m EXCEPT !.state = "REGISTERING"], "loop")

\* After a finally clause
GoesOn(m, a) ==
    IF m.activity[a].task = "initial" THEN InitialOver(m) ELSE RegisterOver(m, a)

\* (slip: the client stays in its place)
Finally_Keeps(m, a, failed) ==
    LET n == [m EXCEPT !.activity[a].failed = failed]
        c == n.holder
        d == Disconnected(n, c)
    IN  IF c = None THEN GoesOn(n, a)
        ELSE IF d.client[c] = "closed" THEN GoesOn(d, a)
        ELSE [d EXCEPT !.activity[a].at = "close", !.activity[a].closing = c]

\* The finally clauses: they close the client that is in _registration_client by then.
Finally(m, a, failed) ==
    LET n == [m EXCEPT !.activity[a].failed = failed, !.holder = None]
        c == m.holder
        d == Disconnected(n, c)
    IN  IF c = None THEN GoesOn(n, a)
        ELSE IF d.client[c] = "closed" THEN GoesOn(d, a)
        ELSE [d EXCEPT !.activity[a].at = "close", !.activity[a].closing = c]

-----------------------------------------------------------------------------
(***************************************************************************)
(* stop().                                                                 *)
(***************************************************************************)
\* (slip: a registration whose answer did not come is taken for one that was not made)
Unregister_IfAnnounced(m) ==
    IF m.endpoint /\ m.announced = "registered" THEN Register(m, "stop")
    ELSE [Over(m, "stop") EXCEPT !.state = "DISPOSING"]

\* stop, once the loop has ended
Unregister(m) ==
    IF m.endpoint THEN Register(m, "stop")
    ELSE [Over(m, "stop") EXCEPT !.state = "DISPOSING"]

Background(m) ==
    IF m.activity["loop"].task \in {"none", "over"} THEN Unregister(m)
    ELSE Turn(m, "stop", "background", "none")

\* (slip: it is forgotten)
Cancel_Forgets(m) == Background([m EXCEPT !.holder = None])

\* #_cancel_pending_client_if_any
Cancel(m) ==
    LET c == m.holder
        d == Disconnected([m EXCEPT !.holder = None], c)
    IN  IF c = None THEN Background(m)
        ELSE IF d.client[c] = "closed" THEN Background(d)
        ELSE [Turn(d, "stop", "cancel", "close") EXCEPT !.activity["stop"].closing = c]

-----------------------------------------------------------------------------
(***************************************************************************)
(* The actions. In each, m is the manager after it.                        *)
(***************************************************************************)
Becomes(m) == manager' = m

\* start(), called once, when the server has started
Start ==
    /\ manager.activity["loop"].task = "none"
    /\ manager.state = "INACTIVE"
    /\ Becomes(LoopTurns(manager))
    /\ UNCHANGED <<lds, faults>>

\* the pause of the loop
PauseOver ==
    /\ manager.activity["loop"].task = "pause"
    /\ Becomes(LoopTurns(manager))
    /\ UNCHANGED <<lds, faults>>

\* the callback of the timer
TimerFires ==
    /\ manager.timer
    /\ Becomes(Register([manager EXCEPT !.timer = FALSE, !.state = "REGISTERING"], "renewal"))
    /\ UNCHANGED <<lds, faults>>

Stop ==
    /\ ~IsTerminating(manager)
    /\ Becomes(Cancel([manager EXCEPT !.timer = FALSE, !.state = "UNREGISTERING",
                                      !.overlap = manager.activity["renewal"].task = "register"]))
    /\ UNCHANGED <<lds, faults>>

\* stop has awaited the loop
BackgroundOver ==
    /\ manager.activity["stop"].task = "background"
    /\ manager.activity["loop"].task = "over"
    /\ Becomes(Unregister(manager))
    /\ UNCHANGED <<lds, faults>>

-----------------------------------------------------------------------------
\* initializeCM has read the certificates.
Prepared(a) ==
    /\ manager.client[a] = "preparing"
    /\ Becomes([manager EXCEPT !.client[a] = "dialing"])
    /\ UNCHANGED <<lds, faults>>

\* The channel of a's client is open.
Connected(a) ==
    LET m == [manager EXCEPT !.client[a] = "open"]
        wanted == CASE m.activity[a].task = "initial" -> "INITIALIZING"
                    [] a = "stop"                     -> "UNREGISTERING"
                    [] OTHER                          -> "REGISTERING"
    IN  /\ manager.client[a] = "dialing"
        /\ Becomes(IF m.state = wanted THEN [m EXCEPT !.activity[a].at = "call"]
                   ELSE Finally(m, a, FALSE))
        /\ UNCHANGED <<lds, faults>>

\* getEndpoints, or RegisterServer2 (or RegisterServer, after an error), is answered.
Answered(a) ==
    /\ manager.activity[a].at = "call" /\ manager.client[a] = "open"
    /\ IF manager.activity[a].task = "initial"
       THEN /\ Becomes(Finally([manager EXCEPT !.endpoint = TRUE], a, FALSE))
            /\ UNCHANGED lds
       ELSE /\ Becomes(Finally(manager, a, FALSE))
            /\ lds' = (a # "stop")
    /\ UNCHANGED faults

\* What the discovery server makes of a request whose answer does not come
Unsure(a) ==
    \/ UNCHANGED lds
    \/ /\ manager.activity[a].at = "call" /\ manager.activity[a].task = "register"
       /\ lds' = (a # "stop")

\* What a awaits of a client that was disconnected fails.
Aborted(a) ==
    /\ manager.activity[a].at \in {"connect", "call"}
    /\ manager.client[a] \in {"closing", "closed"}
    /\ Becomes(Finally(manager, a, TRUE))
    /\ Unsure(a)
    /\ UNCHANGED faults

\* The client a has closed, after its requests were called back; who awaits this goes on.
Closed(a) ==
    LET m == [manager EXCEPT !.client[a] = "closed"]
    IN  /\ manager.client[a] = "closing"
        /\ manager.activity[a].at \notin {"connect", "call"}
        /\ \E b \in Activities :
              /\ manager.activity[b].closing = a
              /\ LET n == [m EXCEPT !.activity[b].closing = None, !.activity[b].at = "none"]
                 IN  Becomes(IF n.activity[b].task = "cancel" THEN Cancel(n) ELSE GoesOn(n, b))
        /\ UNCHANGED <<lds, faults>>

-----------------------------------------------------------------------------
(***************************************************************************)
(* Failures.                                                               *)
(***************************************************************************)
Fault == faults < MaxFaults /\ faults' = faults + 1

\* The discovery server cannot be reached, or refuses.
ConnectFails(a) ==
    /\ manager.client[a] = "dialing"
    /\ Becomes(Finally([manager EXCEPT !.client[a] = "closed"], a, TRUE))
    /\ UNCHANGED lds
    /\ Fault

\* Both RegisterServer2 and RegisterServer fail, or getEndpoints does.
CallFails(a) ==
    /\ manager.activity[a].at = "call" /\ manager.client[a] = "open"
    /\ Becomes(Finally(manager, a, TRUE))
    /\ Unsure(a)
    /\ Fault

\* The endpoint that is found has no certificate.
EndpointBare ==
    /\ manager.activity["loop"].task = "initial" /\ manager.activity["loop"].at = "call"
    /\ manager.client["loop"] = "open"
    /\ Becomes(Finally(manager, "loop", FALSE))
    /\ UNCHANGED lds
    /\ Fault

\* The discovery server restarts with an empty list.
LdsForgets ==
    /\ lds /\ lds' = FALSE
    /\ UNCHANGED manager
    /\ Fault

-----------------------------------------------------------------------------
Next ==
    \/ Start \/ PauseOver \/ TimerFires \/ Stop \/ BackgroundOver
    \/ EndpointBare \/ LdsForgets
    \/ \E a \in Activities : \/ Prepared(a) \/ Connected(a) \/ Answered(a) \/ Aborted(a)
                             \/ Closed(a) \/ ConnectFails(a) \/ CallFails(a)

Spec == Init /\ [][Next]_vars

\* The server calls start(), timers fire, certificates are read, sockets close, and a connection
\* or a request to the discovery server comes to an end. The server need not stop.
Fairness ==
    /\ WF_vars(Start) /\ WF_vars(PauseOver) /\ WF_vars(TimerFires) /\ WF_vars(BackgroundOver)
    /\ \A a \in Activities : /\ WF_vars(Prepared(a)) /\ WF_vars(Connected(a) \/ ConnectFails(a))
                             /\ WF_vars(Answered(a) \/ CallFails(a))
                             /\ WF_vars(Aborted(a)) /\ WF_vars(Closed(a))

FairSpec == Spec /\ Fairness
=============================================================================
