----------------------- MODULE ClientConnectionProofs -----------------------
(***************************************************************************)
(* The connection of a client keeps the invariant IInv, which implies that *)
(* it has one channel (OneChannel) and stays down once it is disconnected  *)
(* (StaysDown).                                                            *)
(*                                                                         *)
(* OneChannel is not inductive by itself.  That no channel is made beside  *)
(* another needs that the repair of the connection and connect() are not   *)
(* at work together (OneMade, UnderWay), and why the client is called      *)
(* disconnected (StateTrue); that disconnect() closes the last one, that   *)
(* nothing revives a client that is Down.                                  *)
(*                                                                         *)
(* The operators of the model take a client and yield the next one.  Each  *)
(* has a lemma that says what it leaves alone and what becomes of the      *)
(* rest; the lemmas of the steps then read c for the client before, d for  *)
(* the one after.                                                          *)
(***************************************************************************)
EXTENDS ClientConnectionProperties, TLAPS

-----------------------------------------------------------------------------
(***************************************************************************)
(* The inductive invariant.                                                *)
(***************************************************************************)

ClientType ==
    [state : States, retry : BOOLEAN, keep : BOOLEAN,
     channel : Channels \cup {None}, channels : [Channels -> ChannelType],
     known : BOOLEAN, canceled : BOOLEAN,
     connects : [Connects -> {"idle", "initializing", "channel", "connected", "failed"}],
     disconnects : [Disconnects -> {"idle", "session", "channel", "done"}],
     closes : [Disconnects -> Channels \cup {None}],
     repair : {"none", "channel", "retry", "sessions"},
     again : BOOLEAN, overtaken : BOOLEAN, crossed : BOOLEAN,
     timers : Seq({"inner", "repair"}),
     session : SessionType,
     requests : [Requests -> {"idle", "sent", "resent", "parked", "repairing", "dropped",
                              "answered", "error", "lost"}]]

Typed(c) == /\ c \in ClientType
            /\ c.session.step = "none" <=> c.session.repairing = {}

\* disconnect() has taken the client's channel: nothing gives it another one.
Down(c) == c.canceled /\ c.channel = None /\ c.state \in {"disconnecting", "disconnected"}

\* The maker of the channel has not been called back.
Making(c, k) == c.channels[k].stage # "over"

Alive(c, k) == c.channels[k].phase \in {"dialing", "opening", "open"}

\* What holds whatever happens.
Linked(c) ==
    /\ \A k \in Channels : Alive(c, k) => c.channel = k
    /\ \A d \in Disconnects : c.closes[d] # None => Down(c)
    /\ c.state = "disconnecting" => Down(c)
    /\ c.session.closers \cap Disconnects # {} => c.canceled

\* The stage of a channel's creation goes with its phase.
InPlace(c) ==
    c.channel # None =>
        LET h == c.channels[c.channel]
        IN  \/ h.phase = "open" /\ h.stage \in {"over", "endpoints"}
            \/ h.phase \in {"dialing", "opening"} /\ h.stage = "create"
            \/ h.phase = "closing" /\ h.stage = "abort"

\* One channel is made at a time, for a repair when the endpoints are known and for connect()
\* when they are not.
MadeBy(c, k) ==
    /\ IF c.channels[k].maker = Repair THEN c.repair = "channel" ELSE c.repair = "none" /\ ~c.known
    /\ \A j \in Channels : Making(c, j) => j = k

OneMade(c) ==
    \A k \in Channels : Making(c, k) => (c.channel = k \/ Down(c)) /\ MadeBy(c, k)

\* During a repair the client says neither that it connects nor that it is connected.
Repairing(c) ==
    /\ c.repair # "none" => /\ c.known
                            /\ c.state \notin {"connected", "connecting"}
                            /\ (c.state = "disconnected" => c.canceled)
    /\ c.repair = "retry" => c.channel = None
    /\ "client" \in c.session.repairing => c.repair = "sessions"

\* A connect() that has no channel yet is alone; and disconnect() has told it, if it was called.
Alone(c, i) ==
    /\ c.repair = "none" /\ ~c.known
    /\ (c.state = "connecting" /\ c.channel = None /\ ~c.canceled) \/ Down(c)
    /\ \A k \in Channels : ~Making(c, k)
    /\ \A j \in Connects : c.connects[j] = "initializing" => j = i

UnderWay(c) == \A i \in Connects : c.connects[i] = "initializing" => Alone(c, i)

\* What the state says of the channel and of the session
StateTrue(c) ==
    /\ c.state = "connected" => /\ c.known /\ c.channel # None
                                /\ c.channels[c.channel].phase = "open"
                                /\ c.channels[c.channel].stage = "over"
    /\ c.known /\ c.channel = None /\ c.state = "disconnected" => c.canceled
    /\ c.state = "disconnected" /\ c.channel # None => c.overtaken
    /\ c.session.state # "none" => c.known

Ordered(c) == InPlace(c) /\ OneMade(c) /\ Repairing(c) /\ UnderWay(c) /\ StateTrue(c)

Core(c) == Linked(c) /\ (c.crossed \/ Ordered(c))

IInv == Typed(client) /\ Core(client)

-----------------------------------------------------------------------------
(***************************************************************************)
(* What operators leave alone.                                             *)
(***************************************************************************)

SameLinks(c, d) == d.channel = c.channel /\ d.channels = c.channels

SameFlags(c, d) == /\ d.known = c.known /\ d.canceled = c.canceled
                   /\ d.overtaken = c.overtaken /\ d.crossed = c.crossed

SameCalls(c, d) == d.connects = c.connects /\ d.closes = c.closes

SameSession(c, d) == /\ d.session.state = c.session.state
                     /\ d.session.closers = c.session.closers

\* No channel comes to life.
Quiet(c, d) == \A k \in Channels : c.channels[k].phase = "dead" => d.channels[k].phase = "dead"

\* A client and one that differs in its timers, its requests or the steps of its calls
Alike(c, d) == /\ SameLinks(c, d) /\ SameFlags(c, d) /\ SameCalls(c, d) /\ SameSession(c, d)
               /\ d.state = c.state /\ d.repair = c.repair
               /\ d.session.repairing = c.session.repairing

\* All that Core reads; nobody but who repairs the sessions asks for the repair of one.
Similar(c, d) == /\ SameLinks(c, d) /\ SameFlags(c, d) /\ SameCalls(c, d) /\ SameSession(c, d)
                 /\ d.state = c.state /\ d.repair = c.repair
                 /\ "client" \in d.session.repairing
                        => "client" \in c.session.repairing \/ c.repair = "sessions"

LEMMA SimilarCore ==
    ASSUME NEW c, NEW d, Core(c), Similar(c, d)
    PROVE  Core(d)
<1> USE DEF Similar, SameLinks, SameFlags, SameCalls, SameSession
<1>1. \A k : (Making(d, k) <=> Making(c, k)) /\ (Alive(d, k) <=> Alive(c, k))
    BY DEF Making, Alive
<1>2. Down(d) <=> Down(c)
    BY DEF Down
<1>3. Linked(d)
    BY <1>1, <1>2 DEF Core, Linked
<1>4. InPlace(c) => InPlace(d)
    BY DEF InPlace
<1>5. OneMade(c) => OneMade(d)
    BY <1>1, <1>2 DEF OneMade, MadeBy
<1>6. Repairing(c) => Repairing(d)
    BY DEF Repairing
<1>7. UnderWay(c) => UnderWay(d)
    BY <1>1, <1>2 DEF UnderWay, Alone
<1>8. StateTrue(c) => StateTrue(d)
    BY DEF StateTrue
<1> QED
    BY <1>3, <1>4, <1>5, <1>6, <1>7, <1>8 DEF Core, Ordered

\* Core reads nothing else.
LEMMA AlikeCore ==
    ASSUME NEW c, NEW d, Core(c), Alike(c, d)
    PROVE  Core(d)
    BY SimilarCore DEF Alike, Similar

\* The assumptions, as the provers need them
LEMMA Names ==
    /\ None \notin Channels /\ Repair \notin Connects
    /\ "client" \notin Requests /\ "user" \notin Disconnects
    BY NamesAssumption

\* The fields of a client
LEMMA FieldTypes ==
    ASSUME NEW c, Typed(c)
    PROVE  /\ c \in ClientType /\ c.session \in SessionType
           /\ c.state \in States /\ c.channel \in Channels \cup {None}
           /\ c.channels \in [Channels -> ChannelType]
           /\ c.connects \in [Connects -> {"idle", "initializing", "channel", "connected", "failed"}]
           /\ c.closes \in [Disconnects -> Channels \cup {None}]
           /\ c.repair \in {"none", "channel", "retry", "sessions"}
    BY DEF Typed, ClientType

\* _repairConnection sets a timer.
LEMMA RepairScheduledIs ==
    ASSUME NEW c, Typed(c)
    PROVE  Typed(RepairScheduled(c)) /\ Alike(c, RepairScheduled(c))
<1> DEFINE t == Append(c.timers, "inner")
<1>1. t \in Seq({"inner", "repair"})
    BY DEF Typed, ClientType
<1> HIDE DEF t
<1>2. Typed([c EXCEPT !.timers = t])
    BY <1>1 DEF Typed, ClientType
<1>3. Alike(c, [c EXCEPT !.timers = t])
    BY DEF Typed, ClientType, Alike, SameLinks, SameFlags, SameCalls, SameSession
<1>4. RepairScheduled(c) \in {c, [c EXCEPT !.timers = t]}
    BY DEF RepairScheduled, t
<1>5. Alike(c, c)
    BY DEF Alike, SameLinks, SameFlags, SameCalls, SameSession
<1> QED
    BY <1>2, <1>3, <1>4, <1>5

\* What __innerRepairConnection does when it gives up
GivenUp(c, d) == /\ SameLinks(c, d) /\ SameFlags(c, d) /\ SameCalls(c, d) /\ SameSession(c, d)
                 /\ d.session.repairing = c.session.repairing
                 /\ d.repair = "none"
                 /\ d.state \in {c.state, "disconnected"}

LEMMA RepairFailedIs ==
    ASSUME NEW c, Typed(c)
    PROVE  Typed(RepairFailed(c)) /\ GivenUp(c, RepairFailed(c))
<1> USE DEF SameLinks, SameFlags, SameCalls, SameSession
<1> DEFINE e == [c EXCEPT !.repair = "none", !.again = FALSE]
           f == [e EXCEPT !.state = "disconnected"]
<1>1. Typed(e) /\ GivenUp(c, e) /\ e.state = c.state
    BY DEF Typed, ClientType, GivenUp
<1>2. Typed(f) /\ GivenUp(c, f)
    BY DEF Typed, ClientType, States, GivenUp
<1>3. RepairFailed(c) \in {RepairScheduled(e), f}
    BY DEF RepairFailed
<1> HIDE DEF e, f
<1>4. Typed(RepairScheduled(e)) /\ Alike(e, RepairScheduled(e))
    BY <1>1, RepairScheduledIs
<1>5. GivenUp(c, RepairScheduled(e))
    BY <1>1, <1>4 DEF GivenUp, Alike
<1> QED
    BY <1>2, <1>3, <1>4, <1>5

-----------------------------------------------------------------------------
(***************************************************************************)
(* Channels are made and destroyed.                                        *)
(***************************************************************************)

\* All but the links, the state and the repair
Aside(c, d) == /\ SameFlags(c, d) /\ SameCalls(c, d) /\ SameSession(c, d)
               /\ d.session.repairing = c.session.repairing

\* _internal_create_secure_channel: the client's channel is one that nobody needed any more.
LEMMA ChannelMadeIs ==
    ASSUME NEW c, Typed(c), NEW m \in Connects \cup {Repair}, Unused(c) # {}
    PROVE  LET d == ChannelMade(c, m)
           IN  /\ Typed(d) /\ Aside(c, d)
               /\ d.state = c.state /\ d.repair = c.repair
               /\ d.channel \in Unused(c)
               /\ d.channels = [c.channels EXCEPT ![d.channel] =
                                   [phase |-> "dialing", maker |-> m, stage |-> "create"]]
<1> DEFINE h == [phase |-> "dialing", maker |-> m, stage |-> "create"]
           Made(k) == [c EXCEPT !.channel = k, !.channels[k] = h]
<1>1. PICK k \in Unused(c) : ChannelMade(c, m) = Made(k)
    BY DEF ChannelMade
<1>2. k \in Channels
    BY DEF Unused
<1>3. h \in ChannelType
    BY DEF ChannelType
<1> HIDE DEF h
<1>4. Typed(Made(k))
    BY <1>2, <1>3 DEF Typed, ClientType
<1>5. /\ Aside(c, Made(k)) /\ Made(k).state = c.state /\ Made(k).repair = c.repair
      /\ Made(k).channel = k /\ Made(k).channels = [c.channels EXCEPT ![k] = h]
    BY DEF Typed, ClientType, Aside, SameFlags, SameCalls, SameSession
<1> HIDE DEF Made
<1> QED
    BY <1>1, <1>4, <1>5 DEF h

\* The channel of c is dead in d, where there is none.
Closed(c, d) ==
    /\ d.channel = None
    /\ IF c.channel = None THEN d.channels = c.channels
       ELSE d.channels = [c.channels EXCEPT ![c.channel].phase = "dead"]

\* _destroy_secure_channel
LEMMA DestroyedIs ==
    ASSUME NEW c, Typed(c)
    PROVE  /\ Typed(Destroyed(c)) /\ Aside(c, Destroyed(c)) /\ Closed(c, Destroyed(c))
           /\ Destroyed(c).state = c.state /\ Destroyed(c).repair = c.repair
<1> USE DEF Aside, SameFlags, SameCalls, SameSession
<1>1. CASE c.channel = None
    BY <1>1 DEF Destroyed, Closed
<1>2. CASE c.channel # None
    <2> DEFINE q == [r \in Requests |-> IF c.requests[r] \in {"sent", "resent"} THEN "dropped"
                                        ELSE c.requests[r]]
               e == [c EXCEPT !.channel = None, !.channels[c.channel].phase = "dead", !.requests = q]
    <2>1. Destroyed(c) = e
        BY <1>2 DEF Destroyed, Typed, ClientType
    <2>2. q \in [Requests -> {"idle", "sent", "resent", "parked", "repairing", "dropped",
                              "answered", "error", "lost"}]
        BY DEF Typed, ClientType
    <2>3. [c.channels[c.channel] EXCEPT !.phase = "dead"] \in ChannelType
        BY <1>2 DEF Typed, ClientType, ChannelType
    <2> HIDE DEF q
    <2>4. Typed(e)
        BY <1>2, <2>2, <2>3 DEF Typed, ClientType
    <2>5. Aside(c, e) /\ Closed(c, e) /\ e.state = c.state /\ e.repair = c.repair
        BY <1>2 DEF Typed, ClientType, Closed
    <2> QED
        BY <2>1, <2>4, <2>5
<1> QED
    BY <1>1, <1>2

\* What the invariant says of channels, when the client's channel is dead
LEMMA ClosedLinks ==
    ASSUME NEW c \in ClientType, NEW d, Closed(c, d)
    PROVE  \A k \in Channels : /\ Making(d, k) <=> Making(c, k)
                               /\ d.channels[k].maker = c.channels[k].maker
                               /\ d.channels[k].stage = c.channels[k].stage
                               /\ Alive(d, k) => Alive(c, k) /\ c.channel # k
                               /\ c.channels[k].phase = "dead" => d.channels[k].phase = "dead"
<1>1. CASE c.channel = None
    BY <1>1, Names DEF Closed, Making, Alive
<1>2. CASE c.channel # None
    <2> DEFINE h == [c.channels[c.channel] EXCEPT !.phase = "dead"]
    <2>1. c.channel \in Channels /\ c.channels \in [Channels -> ChannelType]
        BY <1>2 DEF ClientType
    <2>2. d.channels = [c.channels EXCEPT ![c.channel] = h]
        BY <1>2 DEF Closed
    <2>3. /\ h.phase = "dead" /\ h.maker = c.channels[c.channel].maker
          /\ h.stage = c.channels[c.channel].stage
        BY <2>1 DEF ChannelType
    <2> HIDE DEF h
    <2>4. \A k \in Channels : d.channels[k] = IF k = c.channel THEN h ELSE c.channels[k]
        BY <2>1, <2>2
    <2> QED
        BY <2>3, <2>4 DEF Making, Alive
<1> QED
    BY <1>1, <1>2

\* _finalReconnectionStep has failed: the repair is over, without a channel.
Dropping(c, d) == Aside(c, d) /\ Closed(c, d) /\ d.state = c.state /\ d.repair = "none"

LEMMA SessionsFailedIs ==
    ASSUME NEW c, Typed(c)
    PROVE  Typed(SessionsFailed(c)) /\ Dropping(c, SessionsFailed(c))
<1> USE DEF Aside, SameFlags, SameCalls, SameSession
<1> DEFINE e == [c EXCEPT !.repair = "none", !.again = FALSE]
           f == Destroyed(e)
           g == [f EXCEPT !.timers = Append(f.timers, "repair")]
<1>1. Typed(e) /\ Aside(c, e) /\ SameLinks(c, e) /\ e.state = c.state /\ e.repair = "none"
    BY DEF Typed, ClientType, SameLinks
<1>2. SessionsFailed(c) = g
    BY DEF SessionsFailed
<1> HIDE DEF e
<1>3. /\ Typed(f) /\ Aside(e, f) /\ Closed(e, f) /\ f.state = e.state /\ f.repair = e.repair
    BY <1>1, DestroyedIs
<1> HIDE DEF f
<1>4. Dropping(c, f)
    BY <1>1, <1>3 DEF Dropping, Closed, SameLinks
<1>5. Typed(g) /\ Alike(f, g)
    <2> DEFINE t == Append(f.timers, "repair")
    <2>1. t \in Seq({"inner", "repair"})
        BY <1>3 DEF Typed, ClientType
    <2> HIDE DEF t
    <2>2. Typed([f EXCEPT !.timers = t])
        BY <1>3, <2>1 DEF Typed, ClientType
    <2>3. Alike(f, [f EXCEPT !.timers = t])
        BY <1>3 DEF Typed, ClientType, Alike, SameLinks
    <2> QED
        BY <2>2, <2>3 DEF t
<1> HIDE DEF g
<1>6. Dropping(c, g)
    BY <1>4, <1>5 DEF Dropping, Alike, SameLinks, Closed
<1> QED
    BY <1>2, <1>5, <1>6

\* The end of repair_client_sessions: with a channel the client is connected.
Reconnected(c, d) == /\ SameLinks(c, d) /\ Aside(c, d)
                     /\ d.state = "connected" /\ d.repair = "none" /\ c.channel # None

LEMMA SessionsDoneIs ==
    ASSUME NEW c, Typed(c), NEW failed \in BOOLEAN
    PROVE  LET d == SessionsDone(c, failed)
           IN  /\ Typed(d)
               /\ Dropping(c, d) \/ Reconnected(c, d)
               /\ failed => Dropping(c, d)
               /\ ~failed /\ c.channel # None => Reconnected(c, d)
<1> DEFINE e == [c EXCEPT !.repair = "none", !.again = FALSE, !.state = "connected"]
<1>1. Typed(SessionsFailed(c)) /\ Dropping(c, SessionsFailed(c))
    BY SessionsFailedIs
<1>2. Typed(e)
    BY DEF Typed, ClientType, States
<1>3. c.channel # None => Reconnected(c, e)
    BY DEF Typed, ClientType, Reconnected, SameLinks, Aside, SameFlags, SameCalls, SameSession
<1>4. SessionsDone(c, failed) = IF failed \/ c.channel = None THEN SessionsFailed(c) ELSE e
    BY DEF SessionsDone
<1> HIDE DEF e
<1> QED
    BY <1>1, <1>2, <1>3, <1>4

-----------------------------------------------------------------------------
(***************************************************************************)
(* The repair of the session.                                              *)
(***************************************************************************)

\* Requests that are sent again, or fail, are of no concern to the invariant.
LEMMA RequestsSet ==
    ASSUME NEW c, Typed(c),
           NEW q \in [Requests -> {"idle", "sent", "resent", "parked", "repairing", "dropped",
                                   "answered", "error", "lost"}]
    PROVE  LET d == [c EXCEPT !.requests = q] IN Typed(d) /\ Alike(c, d)
<1> DEFINE d == [c EXCEPT !.requests = q]
<1>1. Typed(d)
    BY DEF Typed, ClientType
<1>2. Alike(c, d)
    BY DEF Typed, ClientType, Alike, SameLinks, SameFlags, SameCalls, SameSession
<1> QED
    BY <1>1, <1>2

LEMMA SentAgainIs ==
    ASSUME NEW c, Typed(c), NEW R, NEW how \in {"sent", "resent"}
    PROVE  Typed(SentAgain(c, R, how)) /\ Alike(c, SentAgain(c, R, how))
<1> DEFINE q == [r \in Requests |-> IF r \notin R THEN c.requests[r]
                                    ELSE IF CanSend(c) THEN how ELSE "error"]
<1>1. q \in [Requests -> {"idle", "sent", "resent", "parked", "repairing", "dropped",
                          "answered", "error", "lost"}]
    BY DEF Typed, ClientType
<1>2. SentAgain(c, R, how) = [c EXCEPT !.requests = q]
    BY DEF SentAgain, Typed, ClientType
<1> HIDE DEF q
<1> QED
    BY <1>1, <1>2, RequestsSet

\* A client and the same with nobody waiting for the repair of its session
Rested(c, d) == /\ SameLinks(c, d) /\ SameFlags(c, d) /\ SameCalls(c, d) /\ SameSession(c, d)
                /\ d.state = c.state /\ d.repair = c.repair
                /\ d.session.repairing = {}

\* What the end of a session's repair makes of the client
RepairOver(c, d, failed) ==
    /\ SameFlags(c, d) /\ SameCalls(c, d) /\ SameSession(c, d)
    /\ d.session.repairing = {}
    /\ IF "client" \notin c.session.repairing
       THEN SameLinks(c, d) /\ d.state = c.state /\ d.repair = c.repair
       ELSE /\ d.repair = "none"
            /\ \/ Closed(c, d) /\ d.state = c.state
               \/ ~failed /\ SameLinks(c, d) /\ c.channel # None /\ d.state = "connected"

LEMMA SessionRepairOverIs ==
    ASSUME NEW c \in ClientType, NEW failed \in BOOLEAN
    PROVE  /\ Typed(SessionRepairOver(c, failed))
           /\ RepairOver(c, SessionRepairOver(c, failed), failed)
<1> USE DEF SameFlags, SameCalls, SameSession
<1> DEFINE asks == c.session.repairing
           d    == [c EXCEPT !.session.repairing = {}, !.session.step = "none"]
           e    == IF failed THEN d ELSE SentAgain(d, Stage(d, "parked"), "sent")
           q    == [r \in Requests |-> IF r \in asks THEN "error" ELSE e.requests[r]]
           f    == IF failed THEN [e EXCEPT !.requests = q] ELSE SentAgain(e, asks \cap Requests, "resent")
<1>1. Typed(d) /\ Rested(c, d)
    BY DEF Typed, ClientType, SessionType, Rested, SameLinks
<1> HIDE DEF d
<1>2. Typed(SentAgain(d, Stage(d, "parked"), "sent")) /\ Alike(d, SentAgain(d, Stage(d, "parked"), "sent"))
    BY <1>1, SentAgainIs
<1>3. Typed(e) /\ Rested(c, e)
    BY <1>1, <1>2 DEF Rested, Alike, SameLinks
<1> HIDE DEF e
<1>4. q \in [Requests -> {"idle", "sent", "resent", "parked", "repairing", "dropped",
                          "answered", "error", "lost"}]
    BY <1>3 DEF Typed, ClientType
<1> HIDE DEF q
<1>5. Typed([e EXCEPT !.requests = q]) /\ Alike(e, [e EXCEPT !.requests = q])
    BY <1>3, <1>4, RequestsSet
<1> HIDE DEF asks
<1>6. Typed(SentAgain(e, asks \cap Requests, "resent")) /\ Alike(e, SentAgain(e, asks \cap Requests, "resent"))
    BY <1>3, SentAgainIs
<1>7. Typed(f) /\ Rested(c, f)
    BY <1>3, <1>5, <1>6 DEF Rested, Alike, SameLinks
<1>8. SessionRepairOver(c, failed) = IF "client" \in asks THEN SessionsDone(f, failed) ELSE f
    BY DEF SessionRepairOver, asks, d, e, q
<1> HIDE DEF f
<1>9. /\ Typed(SessionsDone(f, failed))
      /\ Dropping(f, SessionsDone(f, failed)) \/ Reconnected(f, SessionsDone(f, failed))
      /\ failed => Dropping(f, SessionsDone(f, failed))
    BY <1>7, SessionsDoneIs
<1>10. CASE "client" \notin asks
    BY <1>7, <1>8, <1>10 DEF RepairOver, Rested, asks
<1>11. CASE "client" \in asks
    <2> DEFINE g == SessionsDone(f, failed)
    <2> HIDE DEF g
    <2>1. Typed(g) /\ g = SessionRepairOver(c, failed)
        BY <1>8, <1>9, <1>11 DEF g
    <2>2. Dropping(f, g) => RepairOver(c, g, failed)
        BY <1>7, <1>11 DEF RepairOver, Rested, Dropping, Aside, Closed, SameLinks, asks
    <2>3. Reconnected(f, g) /\ ~failed => RepairOver(c, g, failed)
        BY <1>7, <1>11 DEF RepairOver, Rested, Reconnected, Aside, SameLinks, asks
    <2> QED
        BY <1>9, <2>1, <2>2, <2>3 DEF g
<1> QED
    BY <1>10, <1>11

\* No channel comes to life there.
LEMMA RepairOverQuiet ==
    ASSUME NEW c \in ClientType, NEW d, NEW failed, RepairOver(c, d, failed)
    PROVE  Quiet(c, d)
    BY ClosedLinks DEF RepairOver, SameLinks, Quiet

\* The next step of the repair
LEMMA StepSet ==
    ASSUME NEW c \in ClientType, c.session.repairing # {}, NEW s \in {"activate", "recreate", "wait"}
    PROVE  Typed([c EXCEPT !.session.step = s]) /\ Alike(c, [c EXCEPT !.session.step = s])
    BY DEF Typed, ClientType, SessionType, Alike, SameLinks, SameFlags, SameCalls, SameSession

\* The repair of the sessions is over: the client is connected, or its channel is dropped.
Ended(c, d) == /\ SameFlags(c, d) /\ SameCalls(c, d) /\ SameSession(c, d)
               /\ d.repair = "none" /\ (c.crossed \/ "client" \notin d.session.repairing)
               /\ \/ Closed(c, d) /\ d.state = c.state
                  \/ SameLinks(c, d) /\ c.channel # None /\ d.state = "connected"

\* While its sessions are repaired the client makes no channel, and connect() is not at work.
LEMMA NoneMade ==
    ASSUME NEW c \in ClientType, Ordered(c), c.repair = "sessions"
    PROVE  /\ \A k \in Channels : ~Making(c, k)
           /\ \A i \in Connects : c.connects[i] # "initializing"
<1>1. \A k \in Channels : Making(c, k) => c.repair \in {"channel", "none"}
    BY DEF Ordered, OneMade, MadeBy
<1>2. \A i \in Connects : c.connects[i] = "initializing" => c.repair = "none"
    BY DEF Ordered, UnderWay, Alone
<1> QED
    BY <1>1, <1>2

LEMMA EndedLinked ==
    ASSUME NEW c, NEW d, c \in ClientType, Linked(c), Ended(c, d), d \in ClientType
    PROVE  Linked(d)
<1> USE DEF Ended, SameFlags, SameCalls, SameSession
<1>1. CASE Closed(c, d) /\ d.state = c.state
    <2>1. \A k \in Channels : ~Alive(d, k)
        BY <1>1, ClosedLinks DEF Linked
    <2>2. Down(c) => Down(d)
        BY <1>1 DEF Down, Closed
    <2> QED
        BY <1>1, <2>1, <2>2 DEF Linked
<1>2. CASE SameLinks(c, d) /\ c.channel # None /\ d.state = "connected"
    <2>1. ~Down(c)
        BY <1>2 DEF Down
    <2>2. \A k : Alive(d, k) <=> Alive(c, k)
        BY <1>2 DEF SameLinks, Alive
    <2> QED
        BY <1>2, <2>1, <2>2 DEF Linked, SameLinks
<1> QED
    BY <1>1, <1>2 DEF Ended

LEMMA EndedOrdered ==
    ASSUME NEW c, NEW d, c \in ClientType, Ordered(c), Ended(c, d), d \in ClientType,
           c.repair = "sessions", ~c.crossed
    PROVE  Ordered(d)
<1> USE DEF SameFlags, SameCalls, SameSession
<1>1. /\ \A k \in Channels : ~Making(c, k)
      /\ \A i \in Connects : c.connects[i] # "initializing"
    BY NoneMade
<1>2. \A k \in Channels : ~Making(d, k)
    BY <1>1, ClosedLinks DEF Ended, SameLinks, Making
<1>3. OneMade(d) /\ UnderWay(d) /\ Repairing(d)
    BY <1>1, <1>2 DEF OneMade, UnderWay, Repairing, Ended
<1>4. c.known /\ c.state # "connected" /\ (c.state = "disconnected" => c.canceled)
    BY DEF Ordered, Repairing
<1>5. CASE Closed(c, d) /\ d.state = c.state
    BY <1>3, <1>4, <1>5 DEF Ordered, InPlace, StateTrue, Closed, Ended
<1>6. CASE SameLinks(c, d) /\ c.channel # None /\ d.state = "connected"
    <2>1. c.channel \in Channels
        BY <1>6 DEF ClientType
    <2>2. c.channels[c.channel].phase = "open" /\ c.channels[c.channel].stage = "over"
        BY <1>1, <1>6, <2>1 DEF Ordered, InPlace, Making
    <2>3. InPlace(d) /\ StateTrue(d)
        BY <1>4, <1>6, <2>2 DEF Ordered, InPlace, StateTrue, SameLinks, Ended
    <2> QED
        BY <1>3, <2>3 DEF Ordered
<1> QED
    BY <1>5, <1>6 DEF Ended

LEMMA EndedCore ==
    ASSUME NEW c, NEW d, c \in ClientType, Core(c), Ended(c, d), d \in ClientType,
           c.crossed \/ c.repair = "sessions"
    PROVE  Core(d)
<1>1. d.crossed = c.crossed
    BY DEF Ended, SameFlags
<1> QED
    BY <1>1, EndedLinked, EndedOrdered DEF Core

\* repair_client_session ends.
LEMMA SessionRepairOverCore ==
    ASSUME NEW c \in ClientType, NEW failed \in BOOLEAN, Core(c)
    PROVE  Core(SessionRepairOver(c, failed))
<1> DEFINE d == SessionRepairOver(c, failed)
<1>1. Typed(d) /\ RepairOver(c, d, failed)
    BY SessionRepairOverIs
<1> HIDE DEF d
<1>2. CASE "client" \notin c.session.repairing
    <2>1. Similar(c, d)
        BY <1>1, <1>2 DEF RepairOver, Similar
    <2> QED
        BY <2>1, SimilarCore DEF d
<1>3. CASE "client" \in c.session.repairing
    <2>1. Ended(c, d)
        BY <1>1, <1>3 DEF RepairOver, Ended
    <2>2. c.crossed \/ c.repair = "sessions"
        BY <1>3 DEF Core, Ordered, Repairing
    <2> QED
        BY <1>1, <2>1, <2>2, EndedCore DEF d, Typed
<1> QED
    BY <1>2, <1>3

\* repeatedAction
LEMMA SessionRepairStepIs ==
    ASSUME NEW c \in ClientType, c.session.repairing # {}, Core(c)
    PROVE  /\ Typed(SessionRepairStep(c)) /\ Core(SessionRepairStep(c))
           /\ Quiet(c, SessionRepairStep(c))
           /\ ~ShouldNotContinue(c) => Alike(c, SessionRepairStep(c))
<1>1. CASE ShouldNotContinue(c)
    <2>1. SessionRepairStep(c) = SessionRepairOver(c, TRUE)
        BY <1>1 DEF SessionRepairStep
    <2>2. /\ Typed(SessionRepairOver(c, TRUE)) /\ Core(SessionRepairOver(c, TRUE))
          /\ Quiet(c, SessionRepairOver(c, TRUE))
        BY SessionRepairOverIs, SessionRepairOverCore, RepairOverQuiet
    <2> QED
        BY <1>1, <2>1, <2>2
<1>2. CASE ~ShouldNotContinue(c)
    <2> DEFINE s == IF CanSend(c) THEN "activate" ELSE "wait"
    <2>1. s \in {"activate", "recreate", "wait"}
        OBVIOUS
    <2>2. SessionRepairStep(c) = [c EXCEPT !.session.step = s]
        BY <1>2 DEF SessionRepairStep
    <2> HIDE DEF s
    <2>3. Typed([c EXCEPT !.session.step = s]) /\ Alike(c, [c EXCEPT !.session.step = s])
        BY <2>1, StepSet
    <2>4. Quiet(c, [c EXCEPT !.session.step = s])
        BY <2>3 DEF Alike, SameLinks, Quiet
    <2> QED
        BY <2>2, <2>3, <2>4, AlikeCore
<1> QED
    BY <1>1, <1>2

\* The end of repair_client_sessions, when there is no session to repair
LEMMA ReconnectedCore ==
    ASSUME NEW c, NEW d, Typed(c), Typed(d), Core(c), Reconnected(c, d), c.repair = "sessions",
           c.crossed \/ "client" \notin c.session.repairing
    PROVE  Core(d)
<1>1. Ended(c, d)
    BY DEF Ended, Reconnected, Aside
<1> QED
    BY <1>1, EndedCore DEF Typed

\* A repair that is asked for while another is under way joins it.
LEMMA Joined ==
    ASSUME NEW c, Typed(c), NEW who \in Requests \cup {"client"}, c.session.state = "open"
    PROVE  LET d == [c EXCEPT !.session.repairing = @ \cup {who}]
               e == [c EXCEPT !.session.repairing = {who}]
           IN  /\ c.session.repairing # {} => Typed(d)
               /\ e \in ClientType /\ e.session.repairing = {who}
               /\ d.session.repairing = c.session.repairing \cup {who}
               /\ SameLinks(c, d) /\ SameFlags(c, d) /\ SameCalls(c, d) /\ SameSession(c, d)
               /\ d.state = c.state /\ d.repair = c.repair
               /\ SameLinks(c, e) /\ SameFlags(c, e) /\ SameCalls(c, e) /\ SameSession(c, e)
               /\ e.state = c.state /\ e.repair = c.repair
<1> DEFINE With(R) == [c EXCEPT !.session.repairing = R]
<1>1. \A R \in SUBSET (Requests \cup {"client"}) :
          /\ With(R) \in ClientType /\ With(R).session.repairing = R
          /\ With(R).session.step = c.session.step
    BY DEF Typed, ClientType, SessionType
<1>2. \A R : /\ SameLinks(c, With(R)) /\ SameFlags(c, With(R)) /\ SameCalls(c, With(R))
             /\ SameSession(c, With(R))
             /\ With(R).state = c.state /\ With(R).repair = c.repair
    BY DEF Typed, ClientType, SessionType, SameLinks, SameFlags, SameCalls, SameSession
<1>3. /\ c.session.repairing \cup {who} \in SUBSET (Requests \cup {"client"})
      /\ {who} \in SUBSET (Requests \cup {"client"})
    BY DEF Typed, ClientType, SessionType
<1>4. c.session.repairing # {} => c.session.step # "none"
    BY DEF Typed
<1> HIDE DEF With
<1>5. c.session.repairing # {} => Typed(With(c.session.repairing \cup {who}))
    BY <1>1, <1>3, <1>4 DEF Typed
<1> QED
    BY <1>1, <1>2, <1>3, <1>5 DEF With

\* repair_client_session, for a request or for those who repair the connection
LEMMA SessionRepairCore ==
    ASSUME NEW c, Typed(c), Core(c), NEW who \in Requests \cup {"client"},
           who = "client" => /\ c.repair = "sessions" /\ c.channel # None
                             /\ c.crossed \/ "client" \notin c.session.repairing
    PROVE  /\ Typed(SessionRepair(c, who)) /\ Core(SessionRepair(c, who))
           /\ Quiet(c, SessionRepair(c, who))
<1> USE DEF Quiet
<1> DEFINE d == [c EXCEPT !.session.repairing = @ \cup {who}]
           e == [c EXCEPT !.session.repairing = {who}]
<1>1. CASE c.session.state # "open" /\ who # "client"
    <2>1. SessionRepair(c, who) = SentAgain(c, {who}, "resent")
        BY <1>1 DEF SessionRepair
    <2>2. Typed(SentAgain(c, {who}, "resent")) /\ Alike(c, SentAgain(c, {who}, "resent"))
        BY SentAgainIs
    <2> QED
        BY <2>1, <2>2, AlikeCore DEF Alike, SameLinks
<1>2. CASE c.session.state # "open" /\ who = "client"
    <2>1. SessionRepair(c, who) = SessionsDone(c, FALSE)
        BY <1>2 DEF SessionRepair
    <2>2. Typed(SessionsDone(c, FALSE)) /\ Reconnected(c, SessionsDone(c, FALSE))
        BY <1>2, SessionsDoneIs
    <2> QED
        BY <1>2, <2>1, <2>2, ReconnectedCore DEF Reconnected, SameLinks
<1>3. CASE c.session.state = "open" /\ c.session.repairing # {}
    <2>1. SessionRepair(c, who) = d
        BY <1>3 DEF SessionRepair
    <2>2. /\ Typed(d) /\ d.session.repairing = c.session.repairing \cup {who}
          /\ SameLinks(c, d) /\ SameFlags(c, d) /\ SameCalls(c, d) /\ SameSession(c, d)
          /\ d.state = c.state /\ d.repair = c.repair
        BY <1>3, Joined
    <2> HIDE DEF d
    <2>3. Similar(c, d)
        BY <2>2 DEF Similar
    <2> QED
        BY <2>1, <2>2, <2>3, SimilarCore DEF SameLinks
<1>4. CASE c.session.state = "open" /\ c.session.repairing = {}
    <2>1. SessionRepair(c, who) = SessionRepairStep(e)
        BY <1>4 DEF SessionRepair
    <2>2. /\ e \in ClientType /\ e.session.repairing = {who}
          /\ SameLinks(c, e) /\ SameFlags(c, e) /\ SameCalls(c, e) /\ SameSession(c, e)
          /\ e.state = c.state /\ e.repair = c.repair
        BY <1>4, Joined
    <2> HIDE DEF e
    <2>3. Similar(c, e)
        BY <2>2 DEF Similar
    <2>4. Core(e)
        BY <2>3, SimilarCore
    <2> QED
        BY <2>1, <2>2, <2>4, SessionRepairStepIs DEF SameLinks
<1> QED
    BY <1>1, <1>2, <1>3, <1>4

-----------------------------------------------------------------------------
(***************************************************************************)
(* The creation of a channel succeeds.                                     *)
(***************************************************************************)

\* The channel k that is made is open, the endpoints are known.
Ready(c, k) ==
    /\ Typed(c) /\ Linked(c)
    /\ c.channel = k /\ c.channels[k].phase = "open" /\ c.known
    /\ c.crossed \/ /\ \A j \in Channels : Making(c, j) => j = k
                    /\ c.repair = IF c.channels[k].maker = Repair THEN "channel" ELSE "none"
                    /\ "client" \notin c.session.repairing
                    /\ \A i \in Connects : c.connects[i] # "initializing"

\* The stage of the creation, and nothing else, is set.
Staged(c, d, k, stage) ==
    /\ SameFlags(c, d) /\ SameCalls(c, d) /\ SameSession(c, d)
    /\ d.session.repairing = c.session.repairing
    /\ d.state = c.state /\ d.repair = c.repair
    /\ d.channel = c.channel
    /\ \A j \in Channels : /\ d.channels[j].phase = c.channels[j].phase
                           /\ d.channels[j].maker = c.channels[j].maker
                           /\ d.channels[j].stage = IF j = k THEN stage ELSE c.channels[j].stage

LEMMA StageSet ==
    ASSUME NEW c, Typed(c), NEW k \in Channels, NEW stage \in {"create", "endpoints", "abort", "over"}
    PROVE  LET d == [c EXCEPT !.channels[k].stage = stage]
           IN  Typed(d) /\ Staged(c, d, k, stage)
<1> DEFINE h == [c.channels[k] EXCEPT !.stage = stage]
           f == [c.channels EXCEPT ![k] = h]
           d == [c EXCEPT !.channels = f]
<1>1. c.channels \in [Channels -> ChannelType]
    BY FieldTypes
<1>2. /\ h \in ChannelType /\ h.phase = c.channels[k].phase /\ h.maker = c.channels[k].maker
      /\ h.stage = stage
    BY <1>1 DEF ChannelType
<1>3. [c EXCEPT !.channels[k].stage = stage] = d
    OBVIOUS
<1> HIDE DEF h
<1>4. /\ f \in [Channels -> ChannelType]
      /\ \A j \in Channels : f[j] = IF j = k THEN h ELSE c.channels[j]
    BY <1>1, <1>2
<1> HIDE DEF f
<1>5. Typed(d) /\ d.channels = f
    BY <1>4 DEF Typed, ClientType
<1>6. /\ SameFlags(c, d) /\ SameCalls(c, d) /\ SameSession(c, d)
      /\ d.session.repairing = c.session.repairing
      /\ d.state = c.state /\ d.repair = c.repair /\ d.channel = c.channel
    BY DEF Typed, ClientType, SameFlags, SameCalls, SameSession
<1> HIDE DEF d
<1>7. Staged(c, d, k, stage)
    BY <1>2, <1>4, <1>5, <1>6 DEF Staged
<1> QED
    BY <1>3, <1>5, <1>7

\* A channel is ready, and its creation over.
Finished(c, k) ==
    /\ Typed(c) /\ Linked(c)
    /\ c.channel = k /\ c.channels[k].phase = "open" /\ c.channels[k].stage = "over" /\ c.known
    /\ c.crossed \/ /\ \A j \in Channels : ~Making(c, j)
                    /\ "client" \notin c.session.repairing
                    /\ \A i \in Connects : c.connects[i] # "initializing"

LEMMA FinishedIs ==
    ASSUME NEW c, NEW k \in Channels, Ready(c, k)
    PROVE  LET d == [c EXCEPT !.channels[k].stage = "over"]
           IN  /\ Finished(d, k) /\ d.channels[k].maker = c.channels[k].maker
               /\ d.crossed = c.crossed
               /\ d.crossed \/ d.repair = IF d.channels[k].maker = Repair THEN "channel" ELSE "none"
<1> DEFINE d == [c EXCEPT !.channels[k].stage = "over"]
<1>1. Typed(d) /\ Staged(c, d, k, "over")
    BY StageSet DEF Ready
<1> HIDE DEF d
<1> USE DEF Staged, SameFlags, SameCalls, SameSession
<1>2. \A j \in Channels : Alive(d, j) <=> Alive(c, j)
    BY <1>1 DEF Alive
<1>3. Down(c) <=> Down(d)
    BY <1>1 DEF Down
<1>4. Linked(d)
    BY <1>1, <1>2, <1>3 DEF Ready, Linked
<1>5. \A j \in Channels : Making(d, j) => j # k /\ Making(c, j)
    BY <1>1 DEF Making
<1>6. Finished(d, k)
    BY <1>1, <1>4, <1>5 DEF Ready, Finished
<1> QED
    BY <1>1, <1>6 DEF Ready, d

\* Nobody disconnects a client that has a channel.
LEMMA NotDown ==
    ASSUME NEW c, NEW k \in Channels, Finished(c, k)
    PROVE  /\ ~Down(c) /\ \A d \in Disconnects : c.closes[d] = None
           /\ c.channel # None
    BY Names DEF Finished, Linked, Down

\* _handleSuccessfulConnection
LEMMA ConnectedCore ==
    ASSUME NEW c, NEW k \in Channels, Finished(c, k), NEW i \in Connects,
           c.crossed \/ c.repair = "none"
    PROVE  LET d == [c EXCEPT !.state = "connected", !.connects[i] = "connected"]
           IN  Typed(d) /\ Core(d)
<1> DEFINE d == [c EXCEPT !.state = "connected", !.connects[i] = "connected"]
<1>1. Typed(d)
    BY DEF Finished, Typed, ClientType, States
<1>2. /\ SameFlags(c, d) /\ SameLinks(c, d) /\ SameSession(c, d)
      /\ d.session.repairing = c.session.repairing /\ d.repair = c.repair
      /\ d.state = "connected" /\ d.closes = c.closes
      /\ \A j \in Connects : d.connects[j] = IF j = i THEN "connected" ELSE c.connects[j]
    BY DEF Finished, Typed, ClientType, SameFlags, SameLinks, SameSession
<1> HIDE DEF d
<1> USE DEF SameFlags, SameLinks, SameSession
<1>3. \A j \in Channels : (Alive(d, j) <=> Alive(c, j)) /\ (Making(d, j) <=> Making(c, j))
    BY <1>2 DEF Alive, Making
<1>4. Linked(d)
    BY <1>2, <1>3, NotDown DEF Linked, Finished
<1>5. ~c.crossed => InPlace(d) /\ OneMade(d) /\ Repairing(d) /\ UnderWay(d) /\ StateTrue(d)
    BY <1>2, <1>3, NotDown DEF Finished, InPlace, OneMade, Repairing, UnderWay, StateTrue
<1> QED
    BY <1>1, <1>2, <1>4, <1>5 DEF Core, Ordered, d

\* _when_connected, _finalReconnectionStep
LEMMA WhenConnectedCore ==
    ASSUME NEW c, NEW k \in Channels, Finished(c, k)
    PROVE  Typed(WhenConnected(c)) /\ Core(WhenConnected(c)) /\ Quiet(c, WhenConnected(c))
<1> DEFINE d == [c EXCEPT !.state = "reconnecting_newchannel_connected", !.repair = "sessions"]
<1>1. Typed(d)
    BY DEF Finished, Typed, ClientType, States
<1>2. /\ SameFlags(c, d) /\ SameLinks(c, d) /\ SameSession(c, d) /\ SameCalls(c, d)
      /\ d.session.repairing = c.session.repairing /\ d.repair = "sessions"
      /\ d.state = "reconnecting_newchannel_connected"
    BY DEF Finished, Typed, ClientType, SameFlags, SameLinks, SameSession, SameCalls
<1>3. WhenConnected(c) = IF d.session.state \in {"open", "closed"} THEN SessionRepair(d, "client")
                         ELSE SessionsDone(d, FALSE)
    BY <1>2 DEF WhenConnected, SameSession
<1> HIDE DEF d
<1>4. Core(d)
    <2> USE DEF SameFlags, SameLinks, SameSession, SameCalls
    <2>1. \A j \in Channels : (Alive(d, j) <=> Alive(c, j)) /\ (Making(d, j) <=> Making(c, j))
        BY <1>2 DEF Alive, Making
    <2>2. Linked(d)
        BY <1>2, <2>1, NotDown DEF Linked, Finished
    <2>3. ~c.crossed => InPlace(d) /\ OneMade(d) /\ Repairing(d) /\ UnderWay(d) /\ StateTrue(d)
        BY <1>2, <2>1, NotDown DEF Finished, InPlace, OneMade, Repairing, UnderWay, StateTrue
    <2> QED
        BY <1>2, <2>2, <2>3 DEF Core, Ordered
<1>5. d.channel # None /\ (d.crossed \/ "client" \notin d.session.repairing)
    BY <1>2, NotDown DEF SameLinks, SameFlags, Finished
<1>6. /\ Typed(SessionRepair(d, "client")) /\ Core(SessionRepair(d, "client"))
      /\ Quiet(d, SessionRepair(d, "client"))
    BY <1>1, <1>2, <1>4, <1>5, SessionRepairCore
<1>7. Typed(SessionsDone(d, FALSE)) /\ Reconnected(d, SessionsDone(d, FALSE))
    BY <1>1, <1>5, SessionsDoneIs
<1>8. Core(SessionsDone(d, FALSE))
    BY <1>1, <1>2, <1>4, <1>5, <1>7, ReconnectedCore
<1>9. Quiet(d, SessionsDone(d, FALSE))
    BY <1>7 DEF Reconnected, SameLinks, Quiet
<1>10. d.channels = c.channels
    BY <1>2 DEF SameLinks
<1> QED
    BY <1>3, <1>6, <1>7, <1>8, <1>9, <1>10 DEF Quiet

\* The callback of _internal_create_secure_channel
LEMMA CreatedCore ==
    ASSUME NEW c, NEW k \in Channels, Ready(c, k)
    PROVE  Typed(Created(c, k)) /\ Core(Created(c, k)) /\ Quiet(c, Created(c, k))
<1> DEFINE d == [c EXCEPT !.channels[k].stage = "over"]
           i == c.channels[k].maker
<1>1. /\ Finished(d, k) /\ d.channels[k].maker = i
      /\ d.crossed \/ d.repair = IF d.channels[k].maker = Repair THEN "channel" ELSE "none"
    BY FinishedIs
<1>2. i \in Connects \cup {Repair}
    BY DEF Ready, Typed, ClientType, ChannelType
<1>3. Created(c, k) = IF i = Repair THEN WhenConnected(d)
                      ELSE [d EXCEPT !.state = "connected", !.connects[i] = "connected"]
    BY DEF Created
<1>4. Quiet(c, d)
    BY StageSet DEF Ready, Staged, Quiet
<1> HIDE DEF d, i
<1>5. Typed(WhenConnected(d)) /\ Core(WhenConnected(d)) /\ Quiet(d, WhenConnected(d))
    BY <1>1, WhenConnectedCore
<1>6. CASE i # Repair
    <2>1. LET e == [d EXCEPT !.state = "connected", !.connects[i] = "connected"] IN Typed(e) /\ Core(e)
        BY <1>1, <1>2, <1>6, ConnectedCore
    <2>2. Quiet(d, [d EXCEPT !.state = "connected", !.connects[i] = "connected"])
        BY <1>1 DEF Finished, Typed, ClientType, Quiet
    <2> QED
        BY <1>3, <1>4, <1>6, <2>1, <2>2 DEF Quiet
<1> QED
    BY <1>3, <1>4, <1>5, <1>6 DEF Quiet

-----------------------------------------------------------------------------
(***************************************************************************)
(* The creation of a channel fails.                                        *)
(***************************************************************************)

\* All that Ordered says, but that the client holds the channel k it makes
Unplaced(c, k) == /\ Making(c, k) /\ MadeBy(c, k)
                  /\ Repairing(c) /\ UnderWay(c) /\ StateTrue(c)

\* A failed connect(), or a repair that fails or tries again, leaves the client so.
Failing(c, d) == /\ d.channel = None /\ SameFlags(c, d) /\ SameSession(c, d)
                 /\ d.closes = c.closes
                 /\ d.state \in {c.state, "disconnected"}

\* The client has no channel, and nothing lives.
LEMMA FailingLinked ==
    ASSUME NEW c, NEW d, Typed(c), Linked(c), Failing(c, d), c.channel = None,
           \A j \in Channels : d.channels[j].phase = c.channels[j].phase
    PROVE  Linked(d)
<1>1. \A j \in Channels : ~Alive(d, j)
    BY Names DEF Linked, Alive
<1>2. Down(c) => Down(d)
    BY DEF Down, Failing, SameFlags
<1> QED
    BY <1>1, <1>2 DEF Linked, Failing, SameFlags, SameSession

\* The channel of a failed creation is nobody's.
Released(c, d, k) ==
    /\ d.channel = None
    /\ \A j \in Channels : /\ d.channels[j].phase = c.channels[j].phase
                           /\ Making(d, j) => Making(c, j) /\ j # k

LEMMA MakerFailedIs ==
    ASSUME NEW c, Typed(c), NEW k \in Channels, c.channel = None
    PROVE  LET d == MakerFailed(c, k)
               i == c.channels[k].maker
           IN  /\ Typed(d) /\ Failing(c, d) /\ Released(c, d, k)
               /\ d.session.repairing = c.session.repairing
               /\ i = Repair => /\ d.connects = c.connects
                                /\ IF c.canceled THEN d.repair = "none"
                                   ELSE d.repair = "retry" /\ d.state = c.state
               /\ i # Repair => /\ d.repair = c.repair /\ d.state = "disconnected"
                                /\ \A j \in Connects : d.connects[j] \in {c.connects[j], "failed"}
<1> DEFINE e == [c EXCEPT !.channels[k].stage = "over"]
           i == c.channels[k].maker
           f == [e EXCEPT !.repair = "retry"]
           g == [e EXCEPT !.state = "disconnected", !.connects[i] = "failed"]
<1> USE DEF SameFlags, SameCalls, SameSession
<1>1. Typed(e) /\ Staged(c, e, k, "over")
    BY StageSet
<1>2. i \in Connects \cup {Repair}
    BY DEF Typed, ClientType, ChannelType
<1>3. e.channel = None /\ e.canceled = c.canceled
    BY <1>1 DEF Staged
<1>4. MakerFailed(c, k) = IF i # Repair THEN g ELSE IF c.canceled THEN RepairFailed(e) ELSE f
    <2>1. MakerFailed(c, k) = IF i = Repair THEN RepairChannelFailed(e) ELSE ConnectFailed(e, i)
        BY DEF MakerFailed
    <2>2. RepairChannelFailed(e) = IF c.canceled THEN RepairFailed(e) ELSE f
        BY <1>3 DEF RepairChannelFailed
    <2>3. ConnectFailed(e, i) = g
        BY DEF ConnectFailed
    <2> QED
        BY <2>1, <2>2, <2>3
<1> HIDE DEF e
<1>5. /\ SameFlags(c, e) /\ SameSession(c, e) /\ SameCalls(c, e) /\ Released(c, e, k)
      /\ e.session.repairing = c.session.repairing /\ e.state = c.state /\ e.repair = c.repair
    BY <1>1, <1>3 DEF Staged, Released, Making
<1>6. CASE i # Repair
    <2> HIDE DEF i
    <2>1. Typed(g)
        BY <1>1 DEF Typed, ClientType, States
    <2>2. /\ SameLinks(e, g) /\ SameFlags(e, g) /\ SameSession(e, g)
          /\ g.session.repairing = e.session.repairing /\ g.repair = e.repair
          /\ g.state = "disconnected" /\ g.closes = e.closes
          /\ \A j \in Connects : g.connects[j] \in {e.connects[j], "failed"}
        BY <1>1 DEF Typed, ClientType, SameLinks
    <2> HIDE DEF g
    <2>3. Failing(c, g) /\ Released(c, g, k)
        BY <1>3, <1>5, <2>2 DEF Failing, Released, SameLinks, Making
    <2> QED
        BY <1>4, <1>5, <1>6, <2>1, <2>2, <2>3 DEF i
<1>7. CASE i = Repair /\ c.canceled
    <2> DEFINE h == RepairFailed(e)
    <2>1. Typed(h) /\ GivenUp(e, h)
        BY <1>1, RepairFailedIs
    <2> HIDE DEF h, i
    <2>2. Failing(c, h) /\ Released(c, h, k)
        BY <1>3, <1>5, <2>1 DEF Failing, Released, GivenUp, SameLinks, Making
    <2> QED
        BY <1>4, <1>5, <1>7, <2>1, <2>2 DEF GivenUp, h, i
<1>8. CASE i = Repair /\ ~c.canceled
    <2> HIDE DEF i
    <2>1. Typed(f)
        BY <1>1 DEF Typed, ClientType
    <2>2. /\ SameLinks(e, f) /\ SameFlags(e, f) /\ SameSession(e, f) /\ SameCalls(e, f)
          /\ f.session.repairing = e.session.repairing /\ f.repair = "retry" /\ f.state = e.state
        BY <1>1 DEF Typed, ClientType, SameLinks
    <2> HIDE DEF f
    <2>3. Failing(c, f) /\ Released(c, f, k)
        BY <1>3, <1>5, <2>2 DEF Failing, Released, SameLinks, Making
    <2> QED
        BY <1>4, <1>5, <1>8, <2>1, <2>2, <2>3 DEF i
<1> QED
    BY <1>6, <1>7, <1>8

\* _handleUnrecoverableConnectionFailure, _failAndRetry and the end of a repair
LEMMA MakerFailedCore ==
    ASSUME NEW c, Typed(c), NEW k \in Channels, c.channel = None, Linked(c),
           c.crossed \/ Unplaced(c, k)
    PROVE  /\ Typed(MakerFailed(c, k)) /\ Core(MakerFailed(c, k))
           /\ Failing(c, MakerFailed(c, k)) /\ Quiet(c, MakerFailed(c, k))
<1> DEFINE d == MakerFailed(c, k)
           i == c.channels[k].maker
<1>1. /\ Typed(d) /\ Failing(c, d) /\ Released(c, d, k)
      /\ d.session.repairing = c.session.repairing
      /\ i = Repair => /\ d.connects = c.connects
                       /\ IF c.canceled THEN d.repair = "none"
                          ELSE d.repair = "retry" /\ d.state = c.state
      /\ i # Repair => /\ d.repair = c.repair /\ d.state = "disconnected"
                       /\ \A j \in Connects : d.connects[j] \in {c.connects[j], "failed"}
    BY MakerFailedIs
<1> HIDE DEF d
<1>2. Linked(d)
    BY <1>1, FailingLinked DEF Released
<1>3. ASSUME ~c.crossed
      PROVE  Ordered(d)
    <2> USE <1>3 DEF Failing, SameFlags, SameSession
    <2>1. Unplaced(c, k)
        OBVIOUS
    <2>2. \A j \in Channels : ~Making(d, j)
        BY <1>1, <2>1 DEF Released, Unplaced, MadeBy
    <2>3. \A j \in Connects : d.connects[j] # "initializing"
        BY <1>1, <2>1 DEF Unplaced, UnderWay, Alone
    <2>4. InPlace(d) /\ OneMade(d) /\ UnderWay(d)
        BY <1>1, <2>2, <2>3 DEF InPlace, OneMade, UnderWay, Released
    <2>5. Repairing(d) /\ StateTrue(d)
        <3>1. CASE i = Repair
            <4>1. c.repair = "channel"
                BY <2>1, <3>1 DEF Unplaced, MadeBy
            <4>2. /\ c.known /\ c.state \notin {"connected", "connecting"}
                  /\ (c.state = "disconnected" => c.canceled)
                  /\ "client" \notin c.session.repairing
                BY <2>1, <4>1 DEF Unplaced, Repairing
            <4>3. d.channel = None /\ d.known /\ d.canceled = c.canceled
                BY <1>1, <4>2
            <4>4. Repairing(d)
                BY <1>1, <3>1, <4>2, <4>3 DEF Repairing
            <4>5. StateTrue(d)
                BY <1>1, <3>1, <4>2, <4>3 DEF StateTrue
            <4> QED
                BY <4>4, <4>5
        <3>2. CASE i # Repair
            <4>1. c.repair = "none" /\ ~c.known
                BY <2>1, <3>2 DEF Unplaced, MadeBy
            <4>2. Repairing(d)
                BY <1>1, <2>1, <3>2, <4>1 DEF Unplaced, Repairing
            <4>3. StateTrue(d)
                BY <1>1, <2>1, <3>2, <4>1 DEF Unplaced, StateTrue
            <4> QED
                BY <4>2, <4>3
        <3> QED
            BY <3>1, <3>2
    <2> QED
        BY <2>4, <2>5 DEF Ordered
<1>4. d.crossed = c.crossed
    BY <1>1 DEF Failing, SameFlags
<1>5. Quiet(c, d)
    BY <1>1 DEF Released, Quiet
<1> QED
    BY <1>1, <1>2, <1>3, <1>4, <1>5 DEF Core, d

\* The channel in place is aborted; it is the one whose creation fails.
LEMMA RejectedCore ==
    ASSUME NEW c, Typed(c), NEW k \in Channels, c.channel = k, Core(c), Alive(c, k),
           c.channels[k].stage # "over" \/ c.crossed
    PROVE  Typed(Rejected(c, k)) /\ Core(Rejected(c, k)) /\ Quiet(c, Rejected(c, k))
<1> DEFINE e == [c.channels[k] EXCEPT !.phase = "closing"]
           h == [e EXCEPT !.stage = "abort"]
           f == [c.channels EXCEPT ![k] = h]
           d == [c EXCEPT !.channels = f]
<1>1. c.channels \in [Channels -> ChannelType] /\ k # None
    BY Names, FieldTypes
<1>2. /\ h \in ChannelType /\ h.phase = "closing" /\ h.maker = c.channels[k].maker
      /\ h.stage = "abort"
    BY <1>1 DEF ChannelType
<1>3. Rejected(c, k) = d
    <2>1. Rejected(c, k) = [c EXCEPT !.channels[c.channel].phase = "closing", !.channels[k].stage = "abort"]
        BY <1>1 DEF Rejected
    <2>2. [c EXCEPT !.channels[c.channel].phase = "closing", !.channels[k].stage = "abort"]
            = [c EXCEPT !.channels = [[c.channels EXCEPT ![k] = e] EXCEPT ![k] = [@ EXCEPT !.stage = "abort"]]]
        BY DEF Typed, ClientType
    <2>3. [[c.channels EXCEPT ![k] = e] EXCEPT ![k] = [@ EXCEPT !.stage = "abort"]] = f
        BY <1>1
    <2> QED
        BY <2>1, <2>2, <2>3
<1> HIDE DEF h
<1>4. /\ f \in [Channels -> ChannelType]
      /\ \A j \in Channels : f[j] = IF j = k THEN h ELSE c.channels[j]
    BY <1>1, <1>2
<1> HIDE DEF f
<1> USE DEF SameFlags, SameCalls, SameSession
<1>5. Typed(d) /\ d.channels = f
    BY <1>4 DEF Typed, ClientType
<1>6. /\ SameFlags(c, d) /\ SameCalls(c, d) /\ SameSession(c, d)
      /\ d.session.repairing = c.session.repairing
      /\ d.state = c.state /\ d.repair = c.repair /\ d.channel = k
    BY DEF Typed, ClientType
<1> HIDE DEF d
<1>7. \A j \in Channels : /\ Alive(d, j) => Alive(c, j) /\ j # k
                          /\ ~c.crossed => (Making(d, j) <=> Making(c, j))
                          /\ d.channels[j].maker = c.channels[j].maker
    BY <1>2, <1>4, <1>5 DEF Alive, Making
<1>8. Down(c) <=> Down(d)
    BY <1>6 DEF Down
<1>9. Linked(d)
    BY <1>6, <1>7, <1>8 DEF Core, Linked
<1>10. ASSUME ~c.crossed
       PROVE  Ordered(d)
    <2>1. Ordered(c) /\ Making(c, k)
        BY <1>10 DEF Core, Making
    <2>2. InPlace(d)
        BY <1>2, <1>4, <1>5, <1>6 DEF InPlace
    <2>3. OneMade(d)
        BY <1>6, <1>7, <1>8, <1>10, <2>1 DEF Ordered, OneMade, MadeBy
    <2>4. Repairing(d)
        BY <1>6, <1>10, <2>1 DEF Ordered, Repairing
    <2>5. UnderWay(d)
        BY <1>6, <2>1 DEF Ordered, UnderWay, Alone
    <2>6. c.state # "connected"
        BY <2>1 DEF Ordered, StateTrue, Making
    <2>7. StateTrue(d)
        BY <1>6, <2>1, <2>6 DEF Ordered, StateTrue
    <2> QED
        BY <2>2, <2>3, <2>4, <2>5, <2>7 DEF Ordered
<1>11. Quiet(c, d)
    BY <1>4, <1>5 DEF Alive, Quiet
<1> QED
    BY <1>3, <1>5, <1>6, <1>9, <1>10, <1>11 DEF Core

-----------------------------------------------------------------------------
(***************************************************************************)
(* Requests are called back, and the session is removed.                   *)
(***************************************************************************)

\* The session goes on to its end.
Turned(c, d) == /\ SameLinks(c, d) /\ SameFlags(c, d) /\ SameCalls(c, d)
                /\ d.state = c.state /\ d.repair = c.repair
                /\ d.session.repairing = c.session.repairing
                /\ d.session.state # "none" => c.session.state # "none" \/ c.known \/ c.crossed
                /\ d.session.closers \cap Disconnects # {} => c.canceled

LEMMA TurnedCore ==
    ASSUME NEW c, NEW d, Core(c), Turned(c, d)
    PROVE  Core(d)
<1> USE DEF Turned, SameLinks, SameFlags, SameCalls
<1>1. \A k : (Making(d, k) <=> Making(c, k)) /\ (Alive(d, k) <=> Alive(c, k))
    BY DEF Making, Alive
<1>2. Down(d) <=> Down(c)
    BY DEF Down
<1>3. Linked(d)
    BY <1>1, <1>2 DEF Core, Linked
<1>4. Ordered(c) => InPlace(d) /\ OneMade(d) /\ Repairing(d)
    BY <1>1, <1>2 DEF Ordered, InPlace, OneMade, MadeBy, Repairing
<1>5. Ordered(c) /\ ~c.crossed => UnderWay(d) /\ StateTrue(d)
    BY <1>1, <1>2 DEF Ordered, UnderWay, Alone, StateTrue
<1> QED
    BY <1>3, <1>4, <1>5 DEF Core, Ordered

\* disconnect() makes a client of this: nothing lives, nothing will.
Felled(c, d) == /\ Down(d) /\ \A k \in Channels : ~Alive(d, k)
                /\ \A k \in Channels : /\ Making(d, k) <=> Making(c, k)
                                       /\ d.channels[k].maker = c.channels[k].maker
                /\ d.known = c.known /\ d.crossed = c.crossed
                /\ d.connects = c.connects /\ d.repair = c.repair
                /\ d.session.repairing = c.session.repairing
                /\ d.session.state # "none" => c.session.state # "none"

LEMMA FelledCore ==
    ASSUME NEW c, NEW d, Core(c), Felled(c, d)
    PROVE  Core(d)
<1> USE DEF Felled
<1>1. Linked(d)
    BY DEF Down, Linked
<1>2. Ordered(c) => InPlace(d) /\ OneMade(d)
    BY DEF Down, InPlace, Ordered, OneMade, MadeBy
<1>3. Ordered(c) => /\ c.repair # "none" => c.known
                    /\ "client" \in c.session.repairing => c.repair = "sessions"
                    /\ c.session.state # "none" => c.known
    BY DEF Ordered, Repairing, StateTrue
<1>4. Ordered(c) => Repairing(d) /\ StateTrue(d)
    BY <1>3 DEF Down, Repairing, StateTrue
<1>5. Ordered(c) => UnderWay(d)
    BY DEF Ordered, UnderWay, Alone
<1> QED
    BY <1>1, <1>2, <1>4, <1>5 DEF Core, Ordered

\* A session that is removed, with the requests that wait for one of its events
Removed(c, d) == /\ SameLinks(c, d) /\ SameFlags(c, d) /\ SameCalls(c, d)
                 /\ d.state = c.state /\ d.repair = c.repair
                 /\ d.session.repairing = c.session.repairing
                 /\ d.session.closers = c.session.closers
                 /\ d.session.state # "none" => c.session.state # "none"

LEMMA SessionRemovedIs ==
    ASSUME NEW c, Typed(c)
    PROVE  Typed(SessionRemoved(c)) /\ Removed(c, SessionRemoved(c))
<1> USE DEF SameLinks, SameFlags, SameCalls
<1> DEFINE q == [r \in Requests |-> IF c.requests[r] = "parked" THEN "lost" ELSE c.requests[r]]
           d == [c EXCEPT !.session.state = "removed", !.requests = q]
<1>1. SessionRemoved(c) = IF c.session.state = "none" THEN c ELSE d
    BY DEF SessionRemoved, Typed, ClientType
<1>2. q \in [Requests -> {"idle", "sent", "resent", "parked", "repairing", "dropped",
                          "answered", "error", "lost"}]
    BY DEF Typed, ClientType
<1> HIDE DEF q
<1>3. Typed(d)
    BY <1>2 DEF Typed, ClientType, SessionType
<1>4. c.session.state # "none" => Removed(c, d)
    BY DEF Typed, ClientType, SessionType, Removed
<1> HIDE DEF d
<1>5. Removed(c, c)
    BY DEF Removed
<1> QED
    BY <1>1, <1>3, <1>4, <1>5

LEMMA SessionRemovedCore ==
    ASSUME NEW c, Typed(c), Core(c)
    PROVE  Core(SessionRemoved(c))
<1>1. Removed(c, SessionRemoved(c))
    BY SessionRemovedIs
<1>2. c.session.closers \cap Disconnects # {} => c.canceled
    BY DEF Core, Linked
<1>3. Turned(c, SessionRemoved(c))
    BY <1>1, <1>2 DEF Removed, Turned
<1> QED
    BY <1>3, TurnedCore

\* Without a channel the client is without one still, and no channel comes to life.
Without(c, d) == /\ d.channel = None /\ SameFlags(c, d) /\ Quiet(c, d)

\* The steps of PendingCanceled, which follow each other
LEMMA PendingRejected ==
    ASSUME NEW c, Typed(c), NEW k \in Channels, c.channel = None, Linked(c),
           \/ c.crossed
           \/ IF c.channels[k].stage \in {"create", "endpoints"} THEN Unplaced(c, k) ELSE Ordered(c)
    PROVE  LET d == IF c.channels[k].stage \in {"create", "endpoints"} THEN Rejected(c, k) ELSE c
           IN  Typed(d) /\ Core(d) /\ Without(c, d)
<1>1. CASE c.channels[k].stage \in {"create", "endpoints"}
    <2>1. Rejected(c, k) = MakerFailed(c, k)
        BY DEF Rejected
    <2>2. /\ Typed(MakerFailed(c, k)) /\ Core(MakerFailed(c, k))
          /\ Failing(c, MakerFailed(c, k)) /\ Quiet(c, MakerFailed(c, k))
        BY <1>1, MakerFailedCore
    <2> QED
        BY <1>1, <2>1, <2>2 DEF Failing, Without
<1>2. CASE c.channels[k].stage \notin {"create", "endpoints"}
    BY <1>2 DEF Core, Without, SameFlags, Quiet
<1> QED
    BY <1>1, <1>2

LEMMA PendingRepairOver ==
    ASSUME NEW c, Typed(c), Core(c), c.channel = None
    PROVE  LET d == IF c.session.step \in {"activate", "recreate"}
                    THEN SessionRepairOver(c, TRUE) ELSE c
           IN  Typed(d) /\ Core(d) /\ Without(c, d)
<1> DEFINE e == SessionRepairOver(c, TRUE)
<1>1. Typed(e) /\ RepairOver(c, e, TRUE) /\ Core(e)
    BY SessionRepairOverIs, SessionRepairOverCore DEF Typed
<1> HIDE DEF e
<1>2. Without(c, e)
    BY <1>1, RepairOverQuiet DEF RepairOver, Without, Closed, SameLinks, Typed
<1>3. Without(c, c)
    BY DEF Without, SameFlags, Quiet
<1> QED
    BY <1>1, <1>2, <1>3 DEF e

LEMMA PendingSessionRemoved ==
    ASSUME NEW c, Typed(c), Core(c), c.channel = None
    PROVE  LET d == IF c.session.closers = {} THEN c
                    ELSE SessionRemoved([c EXCEPT !.session.closers = {}])
           IN  Typed(d) /\ Core(d) /\ Without(c, d)
<1> DEFINE e == [c EXCEPT !.session.closers = {}]
           f == SessionRemoved(e)
<1>1. Typed(e) /\ Turned(c, e)
    BY DEF Typed, ClientType, SessionType, Turned, SameLinks, SameFlags, SameCalls
<1> HIDE DEF e
<1>2. Core(e)
    BY <1>1, TurnedCore
<1>3. Typed(f) /\ Removed(e, f) /\ Core(f)
    BY <1>1, <1>2, SessionRemovedIs, SessionRemovedCore
<1> HIDE DEF f
<1>4. Without(c, f)
    BY <1>1, <1>3 DEF Turned, Removed, Without, SameLinks, SameFlags, Quiet
<1>5. Without(c, c)
    BY DEF Without, SameFlags, Quiet
<1> QED
    BY <1>3, <1>4, <1>5 DEF e, f

\* The disconnects whose session is closed that way are done.
LEMMA PendingDisconnected ==
    ASSUME NEW c, Typed(c), Core(c), c.channel = None, NEW ended,
           ended \cap Disconnects # {} => c.canceled, ended \subseteq Disconnects
    PROVE  LET d == [c EXCEPT !.disconnects = [i \in Disconnects |->
                                                IF i \in ended THEN "done" ELSE @[i]],
                              !.state = IF ended # {} /\ @ # "disconnecting" THEN "disconnected" ELSE @]
           IN  Typed(d) /\ Core(d) /\ Without(c, d)
<1> DEFINE q == [i \in Disconnects |-> IF i \in ended THEN "done" ELSE c.disconnects[i]]
           s == IF ended # {} /\ c.state # "disconnecting" THEN "disconnected" ELSE c.state
           d == [c EXCEPT !.disconnects = q, !.state = s]
<1>1. [c EXCEPT !.disconnects = [i \in Disconnects |-> IF i \in ended THEN "done" ELSE @[i]],
                !.state = IF ended # {} /\ @ # "disconnecting" THEN "disconnected" ELSE @] = d
    BY DEF Typed, ClientType
<1>2. /\ q \in [Disconnects -> {"idle", "session", "channel", "done"}]
      /\ s \in States /\ (s = c.state \/ (c.canceled /\ s = "disconnected"))
    BY DEF Typed, ClientType, States
<1> HIDE DEF q, s
<1>3. Typed(d)
    BY <1>2 DEF Typed, ClientType
<1>4. /\ SameLinks(c, d) /\ SameFlags(c, d) /\ SameCalls(c, d) /\ SameSession(c, d)
      /\ d.repair = c.repair /\ d.session.repairing = c.session.repairing /\ d.state = s
    BY DEF Typed, ClientType, SameLinks, SameFlags, SameCalls, SameSession
<1> HIDE DEF d
<1>5. Core(d)
    <2>1. CASE s = c.state
        <3>1. Alike(c, d)
            BY <1>4, <2>1 DEF Alike
        <3> QED
            BY <3>1, AlikeCore
    <2>2. CASE c.canceled /\ s = "disconnected"
        <3>1. \A k \in Channels : ~Alive(c, k)
            BY Names DEF Core, Linked
        <3>2. Felled(c, d)
            BY <1>4, <2>2, <3>1 DEF Felled, Down, Alive, Making, SameLinks, SameFlags, SameCalls,
                                    SameSession
        <3> QED
            BY <3>2, FelledCore
    <2> QED
        BY <1>2, <2>1, <2>2
<1>6. Without(c, d)
    BY <1>4 DEF Without, SameLinks, Quiet
<1> QED
    BY <1>1, <1>3, <1>5, <1>6

LEMMA PendingCanceledCore ==
    ASSUME NEW c, Typed(c), NEW k \in Channels, c.channel = None, Linked(c),
           \/ c.crossed
           \/ IF c.channels[k].stage \in {"create", "endpoints"} THEN Unplaced(c, k) ELSE Ordered(c)
    PROVE  /\ Typed(PendingCanceled(c, k)) /\ Core(PendingCanceled(c, k))
           /\ Quiet(c, PendingCanceled(c, k))
<1> DEFINE making  == c.channels[k].stage \in {"create", "endpoints"}
           d       == IF making THEN Rejected(c, k) ELSE c
           e       == IF d.session.step \in {"activate", "recreate"}
                      THEN SessionRepairOver(d, TRUE) ELSE d
           q       == [r \in Requests |-> IF e.requests[r] \in {"sent", "resent", "dropped"}
                                          THEN "error" ELSE e.requests[r]]
           f       == [e EXCEPT !.requests = q]
           closers == f.session.closers
           g       == IF closers = {} THEN f ELSE SessionRemoved([f EXCEPT !.session.closers = {}])
           ended   == closers \cap Disconnects
           h       == [g EXCEPT !.disconnects = [i \in Disconnects |->
                                                  IF i \in ended THEN "done" ELSE @[i]],
                                !.state = IF ended # {} /\ @ # "disconnecting" THEN "disconnected"
                                          ELSE @]
<1>1. Typed(d) /\ Core(d) /\ Without(c, d)
    BY PendingRejected
<1>2. Typed(e) /\ Core(e) /\ Without(d, e)
    <2> HIDE DEF d
    <2> QED
        BY <1>1, PendingRepairOver DEF Without
<1>3. q \in [Requests -> {"idle", "sent", "resent", "parked", "repairing", "dropped",
                          "answered", "error", "lost"}]
    <2> HIDE DEF e
    <2> QED
        BY <1>2 DEF Typed, ClientType
<1>4. PendingCanceled(c, k) = h
    <2> HIDE DEF d
    <2>1. [e EXCEPT !.requests = [r \in Requests |->
                                   IF @[r] \in {"sent", "resent", "dropped"} THEN "error" ELSE @[r]]] = f
        <3> HIDE DEF e
        <3> QED
            BY <1>2 DEF Typed, ClientType
    <2> QED
        BY <2>1 DEF PendingCanceled, d
<1> HIDE DEF d, e, q
<1>5. Typed(f) /\ Alike(e, f)
    BY <1>2, <1>3, RequestsSet
<1>6. Core(f) /\ Without(e, f)
    BY <1>1, <1>2, <1>5, AlikeCore DEF Alike, Without, SameLinks, Quiet
<1> HIDE DEF f
<1>7. Typed(g) /\ Core(g) /\ Without(f, g)
    BY <1>5, <1>6, PendingSessionRemoved DEF Without
<1>8. ended \subseteq Disconnects /\ (ended \cap Disconnects # {} => g.canceled)
    BY <1>6, <1>7 DEF Core, Linked, Without, SameFlags
<1> HIDE DEF g, closers, ended
<1>9. Typed(h) /\ Core(h) /\ Without(g, h)
    BY <1>7, <1>8, PendingDisconnected DEF Without
<1> HIDE DEF h
<1> QED
    BY <1>1, <1>2, <1>4, <1>6, <1>7, <1>9 DEF Without, Quiet

-----------------------------------------------------------------------------
(***************************************************************************)
(* disconnect() and the closing of the session.                            *)
(***************************************************************************)

\* The phase of a channel is set.
PhaseOf(f, g, k, phase) ==
    \A j \in Channels : /\ g[j].phase = IF j = k THEN phase ELSE f[j].phase
                        /\ g[j].maker = f[j].maker
                        /\ g[j].stage = f[j].stage

LEMMA PhaseSet ==
    ASSUME NEW f \in [Channels -> ChannelType], NEW k \in Channels,
           NEW phase \in {"dialing", "opening", "open", "closing", "dead"}
    PROVE  LET g == [f EXCEPT ![k].phase = phase]
           IN  g \in [Channels -> ChannelType] /\ PhaseOf(f, g, k, phase)
<1> DEFINE h == [f[k] EXCEPT !.phase = phase]
           g == [f EXCEPT ![k] = h]
<1>1. [f EXCEPT ![k].phase = phase] = g
    OBVIOUS
<1>2. h \in ChannelType /\ h.phase = phase /\ h.maker = f[k].maker /\ h.stage = f[k].stage
    BY DEF ChannelType
<1> HIDE DEF h
<1>3. g \in [Channels -> ChannelType] /\ \A j \in Channels : g[j] = IF j = k THEN h ELSE f[j]
    BY <1>2
<1> HIDE DEF g
<1> QED
    BY <1>1, <1>2, <1>3 DEF PhaseOf

\* The client does not hold its channel any more, for disconnect() closes it.
LEMMA ChannelTakenCore ==
    ASSUME NEW c, Typed(c), NEW d \in Disconnects, c.channel # None, c.canceled,
           c.crossed \/ Ordered(c),
           c.state = "disconnecting",
           \A k \in Channels : Alive(c, k) => c.channel = k,
           c.crossed \/ c.channels[c.channel].phase # "dead"
    PROVE  /\ Typed(ChannelTaken(c, d)) /\ Core(ChannelTaken(c, d))
           /\ c.crossed \/ Quiet(c, ChannelTaken(c, d))
<1> DEFINE k == c.channel
           f == [c.channels EXCEPT ![k].phase = "closing"]
           q == [c.closes EXCEPT ![d] = k]
           p == [c.disconnects EXCEPT ![d] = "channel"]
           e == [c EXCEPT !.channel = None, !.channels = f, !.closes = q, !.disconnects = p]
<1>1. k \in Channels /\ c.channels \in [Channels -> ChannelType]
    BY FieldTypes
<1>2. ChannelTaken(c, d) = PendingCanceled(e, k)
    BY DEF ChannelTaken
<1>3. f \in [Channels -> ChannelType] /\ PhaseOf(c.channels, f, k, "closing")
    BY <1>1, PhaseSet
<1> HIDE DEF k, f
<1> USE DEF PhaseOf
<1>4. q \in [Disconnects -> Channels \cup {None}]
    BY <1>1 DEF Typed, ClientType
<1>5. p \in [Disconnects -> {"idle", "session", "channel", "done"}]
    BY DEF Typed, ClientType
<1> HIDE DEF q, p
<1>6. Typed(e)
    BY <1>3, <1>4, <1>5 DEF Typed, ClientType
<1>7. /\ SameFlags(c, e) /\ SameSession(c, e) /\ e.connects = c.connects
      /\ e.repair = c.repair /\ e.session.repairing = c.session.repairing
      /\ e.state = c.state /\ e.channel = None /\ e.channels = f
    BY DEF Typed, ClientType, SameFlags, SameSession
<1> HIDE DEF e
<1>8. Down(e)
    BY <1>7 DEF Down, SameFlags
<1>9. \A j \in Channels : /\ ~Alive(e, j) /\ (Making(e, j) <=> Making(c, j))
                          /\ e.channels[j].maker = c.channels[j].maker
    BY <1>3, <1>7 DEF Alive, Making, k
<1>10. Linked(e)
    BY <1>7, <1>8, <1>9 DEF Linked, Down
<1>11. c.crossed \/ Ordered(e)
    <2>1. ASSUME Ordered(c)  PROVE  Ordered(e)
        <3> USE <1>7, <1>8, <1>9 DEF SameFlags, SameSession
        <3>1. InPlace(e) /\ OneMade(e)
            BY <2>1 DEF InPlace, Ordered, OneMade, MadeBy
        <3>2. Repairing(e)
            BY <2>1 DEF Ordered, Repairing
        <3>3. UnderWay(e)
            BY <2>1 DEF Ordered, UnderWay, Alone
        <3>4. StateTrue(e)
            BY <2>1 DEF Down, Ordered, StateTrue
        <3> QED
            BY <3>1, <3>2, <3>3, <3>4 DEF Ordered
    <2> QED
        BY <2>1
<1>12. \/ e.crossed
       \/ IF e.channels[k].stage \in {"create", "endpoints"} THEN Unplaced(e, k) ELSE Ordered(e)
    BY <1>1, <1>7, <1>11 DEF Ordered, OneMade, Unplaced, Making, SameFlags
<1>13. /\ Typed(PendingCanceled(e, k)) /\ Core(PendingCanceled(e, k))
       /\ Quiet(e, PendingCanceled(e, k))
    BY <1>1, <1>6, <1>7, <1>10, <1>12, PendingCanceledCore
<1>14. c.crossed \/ Quiet(c, e)
    BY <1>1, <1>3, <1>7 DEF Quiet, k
<1> QED
    BY <1>2, <1>13, <1>14 DEF Quiet

\* Without a channel the client is disconnected, or is being so.
Gone(c, d) == /\ SameLinks(c, d) /\ SameFlags(c, d) /\ SameCalls(c, d)
              /\ d.repair = c.repair /\ d.session.repairing = c.session.repairing
              /\ d.session.state # "none" => c.session.state # "none"
              /\ d.state \in {"disconnecting", "disconnected"}

\* A step of disconnect() is recorded.
LEMMA DisconnectSet ==
    ASSUME NEW c, Typed(c), NEW i \in Disconnects, NEW s \in {"idle", "session", "channel", "done"}
    PROVE  LET d == [c EXCEPT !.disconnects[i] = s] IN Typed(d) /\ Alike(c, d)
<1> DEFINE q == [c.disconnects EXCEPT ![i] = s]
<1>1. q \in [Disconnects -> {"idle", "session", "channel", "done"}]
    BY DEF Typed, ClientType
<1> HIDE DEF q
<1>2. Typed([c EXCEPT !.disconnects = q])
    BY <1>1 DEF Typed, ClientType
<1>3. Alike(c, [c EXCEPT !.disconnects = q])
    BY DEF Typed, ClientType, Alike, SameLinks, SameFlags, SameCalls, SameSession
<1> QED
    BY <1>2, <1>3 DEF q

\* Its state is set while it is being disconnected; the session is removed.
LEMMA DisconnectingIs ==
    ASSUME NEW c, Typed(c)
    PROVE  LET e == SessionRemoved([c EXCEPT !.state = "disconnecting"])
           IN  Typed(e) /\ Gone(c, e) /\ e.state = "disconnecting"
               /\ e.session.closers = c.session.closers
<1> DEFINE d == [c EXCEPT !.state = "disconnecting"]
           e == SessionRemoved(d)
<1>1. /\ Typed(d) /\ SameLinks(c, d) /\ SameFlags(c, d) /\ SameCalls(c, d) /\ SameSession(c, d)
      /\ d.repair = c.repair /\ d.session.repairing = c.session.repairing
      /\ d.state = "disconnecting"
    BY DEF Typed, ClientType, States, SameLinks, SameFlags, SameCalls, SameSession
<1> HIDE DEF d
<1>2. Typed(e) /\ Removed(d, e)
    BY <1>1, SessionRemovedIs
<1> HIDE DEF e
<1>3. Gone(c, e) /\ e.state = "disconnecting" /\ e.session.closers = c.session.closers
    BY <1>1, <1>2 DEF Gone, Removed, SameLinks, SameFlags, SameCalls, SameSession
<1> QED
    BY <1>2, <1>3 DEF d, e

LEMMA DisconnectGoesOnIs ==
    ASSUME NEW c, Typed(c), NEW d \in Disconnects,
           c.channel = None \/ c.state \in {"disconnected", "disconnecting"}
    PROVE  Typed(DisconnectGoesOn(c, d)) /\ Gone(c, DisconnectGoesOn(c, d))
<1>1. CASE c.state \in {"disconnected", "disconnecting"}
    <2> DEFINE e == [c EXCEPT !.disconnects[d] = "done"]
    <2>1. DisconnectGoesOn(c, d) = e
        BY <1>1 DEF DisconnectGoesOn
    <2>2. Typed(e) /\ Alike(c, e)
        BY DisconnectSet
    <2> HIDE DEF e
    <2>3. Gone(c, e)
        BY <1>1, <2>2 DEF Alike, Gone, SameSession
    <2> QED
        BY <2>1, <2>2, <2>3
<1>2. CASE c.state \notin {"disconnected", "disconnecting"}
    <2> DEFINE e == SessionRemoved([c EXCEPT !.state = "disconnecting"])
               p == [e.disconnects EXCEPT ![d] = "done"]
               g == [e EXCEPT !.state = "disconnected", !.disconnects = p]
    <2>1. DisconnectGoesOn(c, d) = g
        BY <1>2 DEF DisconnectGoesOn
    <2>2. Typed(e) /\ Gone(c, e)
        BY DisconnectingIs
    <2> HIDE DEF e
    <2>3. p \in [Disconnects -> {"idle", "session", "channel", "done"}]
        BY <2>2 DEF Typed, ClientType
    <2> HIDE DEF p
    <2>4. Typed(g)
        BY <2>2, <2>3 DEF Typed, ClientType, States
    <2>5. Gone(e, g)
        BY <2>2 DEF Typed, ClientType, Gone, SameLinks, SameFlags, SameCalls
    <2> HIDE DEF g
    <2>6. Gone(c, g)
        BY <2>2, <2>5 DEF Gone, SameLinks, SameFlags, SameCalls
    <2> QED
        BY <2>1, <2>4, <2>6
<1> QED
    BY <1>1, <1>2

LEMMA GoneCore ==
    ASSUME NEW c, NEW d, Core(c), Gone(c, d), c.channel = None, c.canceled
    PROVE  Core(d)
<1>1. \A k \in Channels : ~Alive(c, k)
    BY Names DEF Core, Linked
<1>2. Felled(c, d)
    BY <1>1 DEF Gone, Felled, Down, Alive, Making, SameLinks, SameFlags, SameCalls
<1> QED
    BY <1>2, FelledCore

\* disconnect, once no session is left to close
LEMMA DisconnectGoesOnCore ==
    ASSUME NEW c, Typed(c), Core(c), NEW d \in Disconnects, c.canceled
    PROVE  /\ Typed(DisconnectGoesOn(c, d)) /\ Core(DisconnectGoesOn(c, d))
           /\ c.crossed \/ Quiet(c, DisconnectGoesOn(c, d))
<1>1. CASE c.channel = None
    <2>1. Typed(DisconnectGoesOn(c, d)) /\ Gone(c, DisconnectGoesOn(c, d))
        BY <1>1, DisconnectGoesOnIs
    <2>2. Core(DisconnectGoesOn(c, d))
        BY <1>1, <2>1, GoneCore
    <2> QED
        BY <2>1, <2>2 DEF Gone, SameLinks, Quiet
<1>2. CASE c.channel # None /\ c.state \in {"disconnected", "disconnecting"}
    <2>1. DisconnectGoesOn(c, d) = [c EXCEPT !.disconnects[d] = "done"]
        BY <1>2 DEF DisconnectGoesOn
    <2>2. Typed([c EXCEPT !.disconnects[d] = "done"]) /\ Alike(c, [c EXCEPT !.disconnects[d] = "done"])
        BY DisconnectSet
    <2> QED
        BY <2>1, <2>2, AlikeCore DEF Alike, SameLinks, Quiet
<1>3. CASE c.channel # None /\ c.state \notin {"disconnected", "disconnecting"}
    <2> DEFINE e == SessionRemoved([c EXCEPT !.state = "disconnecting"])
    <2>1. /\ Typed(e) /\ Gone(c, e) /\ e.state = "disconnecting"
          /\ e.session.closers = c.session.closers
        BY DisconnectingIs
    <2>2. DisconnectGoesOn(c, d) = ChannelTaken(e, d)
        BY <1>3 DEF DisconnectGoesOn
    <2> HIDE DEF e
    <2> USE <1>3, <2>1 DEF Gone, SameLinks, SameFlags, SameCalls
    <2>3. \A k : (Alive(e, k) <=> Alive(c, k)) /\ (Making(e, k) <=> Making(c, k))
        BY DEF Alive, Making
    <2>4. \A k \in Channels : Alive(e, k) => e.channel = k
        BY <2>3 DEF Core, Linked
    <2>5. c.crossed \/ Ordered(e)
        <3>1. ASSUME Ordered(c)  PROVE  Ordered(e)
            <4>1. ~Down(c)
                BY DEF Down
            <4>2. InPlace(e)
                BY <3>1 DEF Ordered, InPlace
            <4>3. OneMade(e)
                BY <2>3, <3>1, <4>1 DEF Ordered, OneMade, MadeBy
            <4>4. Repairing(e)
                BY <3>1 DEF Ordered, Repairing
            <4>5. UnderWay(e)
                BY <3>1, <4>1 DEF Ordered, UnderWay, Alone
            <4>6. StateTrue(e)
                BY <3>1 DEF Ordered, StateTrue
            <4> QED
                BY <4>2, <4>3, <4>4, <4>5, <4>6 DEF Ordered
        <3> QED
            BY <3>1 DEF Core
    <2>6. c.crossed \/ e.channels[e.channel].phase # "dead"
        BY DEF Core, Ordered, InPlace
    <2>7. /\ Typed(ChannelTaken(e, d)) /\ Core(ChannelTaken(e, d))
          /\ e.crossed \/ Quiet(e, ChannelTaken(e, d))
        <3>1. e.channel # None /\ e.canceled /\ e.crossed = c.crossed
            OBVIOUS
        <3> QED
            BY <2>4, <2>5, <2>6, <3>1, ChannelTakenCore
    <2> QED
        BY <2>2, <2>7 DEF Quiet
<1> QED
    BY <1>1, <1>2, <1>3

\* The session is set; the steps of its repair are not.
LEMMA SessionSet ==
    ASSUME NEW c, Typed(c), NEW h \in SessionType, h.repairing = c.session.repairing,
           h.step = c.session.step
    PROVE  LET d == [c EXCEPT !.session = h]
           IN  /\ Typed(d) /\ SameLinks(c, d) /\ SameFlags(c, d) /\ SameCalls(c, d)
               /\ d.state = c.state /\ d.repair = c.repair /\ d.session = h
<1> DEFINE d == [c EXCEPT !.session = h]
<1>1. Typed(d)
    BY DEF Typed, ClientType
<1>2. /\ SameLinks(c, d) /\ SameFlags(c, d) /\ SameCalls(c, d)
      /\ d.state = c.state /\ d.repair = c.repair /\ d.session = h
    BY DEF Typed, ClientType, SameLinks, SameFlags, SameCalls
<1> QED
    BY <1>1, <1>2

\* The session's state and those who close it are set.
LEMMA ClosersSet ==
    ASSUME NEW c, Typed(c), Core(c), NEW s \in {"none", "open", "closed", "removed"},
           NEW x \in SUBSET (Disconnects \cup {"user"}), x \cap Disconnects # {} => c.canceled,
           s # "none" => c.session.state # "none"
    PROVE  LET d == [c EXCEPT !.session = [@ EXCEPT !.state = s, !.closers = x]]
           IN  Typed(d) /\ Turned(c, d) /\ Core(d)
<1> DEFINE h == [c.session EXCEPT !.state = s, !.closers = x]
           d == [c EXCEPT !.session = h]
<1>1. /\ h \in SessionType /\ h.repairing = c.session.repairing /\ h.step = c.session.step
      /\ h.state = s /\ h.closers = x
    BY DEF Typed, ClientType, SessionType
<1> HIDE DEF h
<1>2. /\ Typed(d) /\ SameLinks(c, d) /\ SameFlags(c, d) /\ SameCalls(c, d)
      /\ d.state = c.state /\ d.repair = c.repair /\ d.session = h
    BY <1>1, SessionSet
<1> HIDE DEF d
<1>3. Turned(c, d)
    BY <1>1, <1>2 DEF Turned
<1>4. Core(d)
    BY <1>3, TurnedCore
<1> QED
    BY <1>2, <1>3, <1>4 DEF d, h

\* The answer to CloseSession
LEMMA CloseAnsweredCore ==
    ASSUME NEW c, Typed(c), Core(c), NEW who \in Disconnects \cup {"user"},
           who \in Disconnects => c.canceled
    PROVE  /\ Typed(CloseAnswered(c, who)) /\ Core(CloseAnswered(c, who))
           /\ c.crossed \/ Quiet(c, CloseAnswered(c, who))
<1> DEFINE e == [c EXCEPT !.session.closers = @ \ {who}]
           f == SessionRemoved(e)
           x == c.session.closers \ {who}
           g == [c EXCEPT !.session = [@ EXCEPT !.state = c.session.state, !.closers = x]]
<1>1. Typed(e) /\ Turned(c, e) /\ Core(e)
    <2>1. x \in SUBSET (Disconnects \cup {"user"}) /\ (x \cap Disconnects # {} => c.canceled)
        BY DEF Typed, ClientType, SessionType, Core, Linked
    <2>2. c.session.state \in {"none", "open", "closed", "removed"}
        BY DEF Typed, ClientType, SessionType
    <2>3. e = g
        <3>1. c.session \in SessionType
            BY FieldTypes
        <3>2. [c.session EXCEPT !.closers = x] = [c.session EXCEPT !.state = c.session.state, !.closers = x]
            BY <3>1 DEF SessionType
        <3>3. e = [c EXCEPT !.session = [c.session EXCEPT !.closers = x]]
            OBVIOUS
        <3> QED
            BY <3>2, <3>3
    <2> HIDE DEF x
    <2>4. Typed(g) /\ Turned(c, g) /\ Core(g)
        BY <2>1, <2>2, ClosersSet
    <2> QED
        BY <2>3, <2>4
<1>2. CloseAnswered(c, who) = IF who \in Disconnects THEN DisconnectGoesOn(f, who) ELSE f
    BY DEF CloseAnswered
<1> HIDE DEF e, g, x
<1>3. Typed(f) /\ Removed(e, f) /\ Core(f)
    BY <1>1, SessionRemovedIs, SessionRemovedCore
<1> HIDE DEF f
<1>4. f.canceled = c.canceled /\ f.crossed = c.crossed /\ f.channels = c.channels
    BY <1>1, <1>3 DEF Turned, Removed, SameFlags, SameLinks
<1>5. who \in Disconnects => /\ Typed(DisconnectGoesOn(f, who)) /\ Core(DisconnectGoesOn(f, who))
                             /\ f.crossed \/ Quiet(f, DisconnectGoesOn(f, who))
    BY <1>3, <1>4, DisconnectGoesOnCore
<1> QED
    BY <1>2, <1>3, <1>4, <1>5 DEF Quiet

\* closeSession
LEMMA SessionClosedCore ==
    ASSUME NEW c, Typed(c), Core(c), NEW who \in Disconnects \cup {"user"},
           who \in Disconnects => c.canceled, c.session.state # "none"
    PROVE  /\ Typed(SessionClosed(c, who)) /\ Core(SessionClosed(c, who))
           /\ c.crossed \/ Quiet(c, SessionClosed(c, who))
<1> DEFINE e == [c EXCEPT !.session.state = "closed", !.session.closers = @ \cup {who}]
           x == c.session.closers \cup {who}
           g == [c EXCEPT !.session = [@ EXCEPT !.state = "closed", !.closers = x]]
<1>1. Typed(e) /\ Turned(c, e) /\ Core(e)
    <2>1. x \in SUBSET (Disconnects \cup {"user"}) /\ (x \cap Disconnects # {} => c.canceled)
        BY DEF Typed, ClientType, SessionType, Core, Linked
    <2>2. e = g
        BY DEF Typed, ClientType, SessionType
    <2> HIDE DEF x
    <2>3. Typed(g) /\ Turned(c, g) /\ Core(g)
        BY <2>1, ClosersSet
    <2> QED
        BY <2>2, <2>3
<1>2. SessionClosed(c, who) \in {e, CloseAnswered(c, who)}
    BY DEF SessionClosed
<1> HIDE DEF e, g, x
<1>3. Quiet(c, e)
    BY <1>1 DEF Turned, SameLinks, Quiet
<1> QED
    BY <1>1, <1>2, <1>3, CloseAnsweredCore

-----------------------------------------------------------------------------
(***************************************************************************)
(* The repair of the connection begins, or makes its channel again.        *)
(***************************************************************************)

LEMMA GivenUpLinked ==
    ASSUME NEW c, NEW d, Linked(c), GivenUp(c, d)
    PROVE  Linked(d) /\ Quiet(c, d)
<1> USE DEF GivenUp, SameLinks, SameFlags, SameCalls, SameSession
<1>1. \A k : Alive(d, k) <=> Alive(c, k)
    BY DEF Alive
<1>2. Down(c) => Down(d)
    BY DEF Down
<1>3. d.state = "disconnecting" => c.state = "disconnecting"
    OBVIOUS
<1> QED
    BY <1>1, <1>2, <1>3 DEF Linked, Quiet

\* A channel is made for m.
Made(c, d, m) ==
    /\ SameFlags(c, d) /\ d.closes = c.closes /\ SameSession(c, d)
    /\ d.session.repairing = c.session.repairing
    /\ d.state = c.state /\ d.repair = c.repair
    /\ d.channel \in Channels
    /\ \A j \in Channels :
          IF j = d.channel THEN /\ d.channels[j].phase = "dialing" /\ d.channels[j].stage = "create"
                                /\ d.channels[j].maker = m
          ELSE d.channels[j] = c.channels[j]

LEMMA ChannelMadeMade ==
    ASSUME NEW c, Typed(c), NEW m \in Connects \cup {Repair}, Unused(c) # {}
    PROVE  LET d == ChannelMade(c, m)
           IN  Typed(d) /\ Made(c, d, m) /\ d.connects = c.connects
<1> DEFINE d == ChannelMade(c, m)
           h == [phase |-> "dialing", maker |-> m, stage |-> "create"]
<1>1. /\ Typed(d) /\ Aside(c, d)
      /\ d.state = c.state /\ d.repair = c.repair
      /\ d.channel \in Unused(c)
      /\ d.channels = [c.channels EXCEPT ![d.channel] = h]
    BY ChannelMadeIs
<1>2. c.channels \in [Channels -> ChannelType]
    BY FieldTypes
<1> HIDE DEF d
<1>3. \A j \in Channels : d.channels[j] = IF j = d.channel THEN h ELSE c.channels[j]
    BY <1>1, <1>2
<1>4. d.channel \in Channels
    BY <1>1 DEF Unused
<1>5. Made(c, d, m)
    BY <1>1, <1>3, <1>4 DEF Made, Aside, SameCalls
<1> QED
    BY <1>1, <1>5 DEF d, Aside, SameCalls

\* The client had none, and is not being disconnected.
LEMMA MadeLinked ==
    ASSUME NEW c, NEW d, NEW m, Linked(c), Made(c, d, m), c.channel = None, ~Down(c)
    PROVE  Linked(d)
<1> USE DEF Made, SameFlags, SameSession
<1>1. \A j \in Channels : Alive(d, j) => d.channel = j
    BY Names DEF Linked, Alive
<1>2. \A e \in Disconnects : d.closes[e] = None
    BY DEF Linked
<1>3. d.state # "disconnecting"
    BY DEF Linked
<1> QED
    BY <1>1, <1>2, <1>3 DEF Linked

LEMMA MadeOrdered ==
    ASSUME NEW c, NEW d, NEW m, Made(c, d, m), c.channel = None,
           \A j \in Channels : ~Making(c, j),
           IF m = Repair THEN c.repair = "channel" /\ c.known ELSE c.repair = "none" /\ ~c.known,
           "client" \notin c.session.repairing,
           c.state \notin {"disconnected", "connected"}, m = Repair => c.state # "connecting",
           c.session.state # "none" => c.known,
           \A i \in Connects : d.connects[i] # "initializing"
    PROVE  Ordered(d)
<1> USE DEF Made, SameFlags, SameSession
<1>1. \A j \in Channels : Making(d, j) => j = d.channel /\ d.channels[j].maker = m
    BY DEF Making
<1>2. InPlace(d)
    BY DEF InPlace
<1>3. OneMade(d)
    BY <1>1 DEF OneMade, MadeBy
<1>4. Repairing(d) /\ UnderWay(d)
    BY DEF Repairing, UnderWay
<1>5. StateTrue(d)
    BY Names DEF StateTrue
<1> QED
    BY <1>2, <1>3, <1>4, <1>5 DEF Ordered

\* The repair may make a channel: there is none that is made.
Idle(c) ==
    /\ c.known /\ InPlace(c)
    /\ \A k \in Channels : ~Making(c, k)
    /\ \A i \in Connects : c.connects[i] # "initializing"
    /\ "client" \notin c.session.repairing
    /\ c.state \notin {"connected", "connecting"}
    /\ c.state = "disconnected" => c.canceled
    /\ c.channel # None => c.overtaken

\* _attempt_to_recreate_secure_channel
LEMMA AttemptedCore ==
    ASSUME NEW c, Typed(c), Linked(c), c.repair = "channel", Unused(c) # {},
           c.crossed \/ Idle(c)
    PROVE  /\ Typed(Attempted(c)) /\ Core(Attempted(c))
           /\ c.canceled => Quiet(c, Attempted(c))
<1>1. CASE c.canceled \/ c.channel # None
    <2> DEFINE d == RepairFailed(c)
    <2>1. Attempted(c) = d
        BY <1>1 DEF Attempted
    <2>2. Typed(d) /\ GivenUp(c, d)
        BY RepairFailedIs
    <2> HIDE DEF d
    <2>3. Linked(d) /\ Quiet(c, d)
        BY <2>2, GivenUpLinked
    <2>4. ASSUME Idle(c)  PROVE  Ordered(d)
        <3> USE <2>2, <2>4 DEF GivenUp, SameLinks, SameFlags, SameCalls, SameSession, Idle
        <3>1. \A k \in Channels : ~Making(d, k)
            BY DEF Making
        <3>2. InPlace(d) /\ OneMade(d) /\ UnderWay(d) /\ Repairing(d)
            BY <3>1 DEF InPlace, OneMade, UnderWay, Repairing
        <3>3. StateTrue(d)
            BY <1>1 DEF StateTrue
        <3> QED
            BY <3>2, <3>3 DEF Ordered
    <2> QED
        BY <2>1, <2>2, <2>3, <2>4 DEF Core, GivenUp, SameFlags
<1>2. CASE ~c.canceled /\ c.channel = None
    <2> DEFINE d == ChannelMade(c, Repair)
    <2>1. Attempted(c) = d
        BY <1>2 DEF Attempted
    <2>2. Typed(d) /\ Made(c, d, Repair) /\ d.connects = c.connects
        BY ChannelMadeMade
    <2> HIDE DEF d
    <2>3. Linked(d)
        BY <1>2, <2>2, MadeLinked DEF Down
    <2>4. Idle(c) => Ordered(d)
        BY <1>2, <2>2, MadeOrdered DEF Idle
    <2> QED
        BY <1>2, <2>1, <2>2, <2>3, <2>4 DEF Core, Made, SameFlags
<1> QED
    BY <1>1, <1>2

\* When nobody repairs or connects, no channel is being made once the endpoints are known.
LEMMA NobodyMakes ==
    ASSUME NEW c, OneMade(c), c.known, c.repair = "none"
    PROVE  \A k \in Channels : ~Making(c, k)
    BY DEF OneMade, MadeBy

\* A repair that gives up because the endpoints are not known
LEMMA UnknownCore ==
    ASSUME NEW c, NEW e, NEW d, Core(c), ~isUnusable(c), c.repair = "none", ~c.known,
           SameLinks(c, e), SameCalls(c, e), SameSession(c, e), e.state = c.state,
           e.session.repairing = c.session.repairing,
           e.known = c.known, e.canceled = c.canceled,
           e.overtaken = (c.overtaken \/ c.channel # None),
           e.crossed = (c.crossed \/ \E i \in Connects : c.connects[i] = "initializing"),
           GivenUp(e, d)
    PROVE  Core(d)
<1> USE DEF SameLinks, SameFlags, SameCalls, SameSession, GivenUp
<1>1. ~Down(c)
    BY DEF Down, isUnusable
<1>2. Linked(d)
    <2>1. \A k : Alive(d, k) <=> Alive(c, k)
        BY DEF Alive
    <2>2. d.state # "disconnecting"
        BY DEF isUnusable
    <2> QED
        BY <1>1, <2>1, <2>2 DEF Core, Linked
<1>3. ASSUME ~e.crossed  PROVE  Ordered(d)
    <2>1. Ordered(c) /\ \A i \in Connects : d.connects[i] # "initializing"
        BY <1>3 DEF Core
    <2>2. InPlace(d) /\ UnderWay(d)
        BY <2>1 DEF Ordered, InPlace, UnderWay
    <2>3. OneMade(d)
        BY <1>1, <2>1 DEF Ordered, OneMade, MadeBy, Making
    <2>4. Repairing(d) /\ StateTrue(d)
        BY <2>1 DEF Ordered, Repairing, StateTrue
    <2> QED
        BY <2>2, <2>3, <2>4 DEF Ordered
<1> QED
    BY <1>2, <1>3 DEF Core

\* __innerRepairConnection
LEMMA InnerRepairCore ==
    ASSUME NEW c, Typed(c), Core(c), Unused(c) # {}
    PROVE  /\ Typed(InnerRepair(c)) /\ Core(InnerRepair(c))
           /\ c.canceled => Quiet(c, InnerRepair(c))
<1>1. CASE isUnusable(c)
    BY <1>1 DEF InnerRepair, Quiet
<1>2. CASE ~isUnusable(c) /\ c.repair # "none"
    <2> DEFINE d == [c EXCEPT !.again = TRUE]
    <2>1. InnerRepair(c) = d
        BY <1>2 DEF InnerRepair
    <2>2. Typed(d) /\ Alike(c, d)
        BY DEF Typed, ClientType, Alike, SameLinks, SameFlags, SameCalls, SameSession
    <2> HIDE DEF d
    <2> QED
        BY <2>1, <2>2, AlikeCore DEF Alike, SameLinks, Quiet
<1>3. CASE ~isUnusable(c) /\ c.repair = "none"
    <2> DEFINE o == c.overtaken \/ c.channel # None
               x == c.crossed \/ \E i \in Connects : c.connects[i] = "initializing"
               e == [c EXCEPT !.repair = "channel", !.overtaken = o, !.crossed = x]
               f == [e EXCEPT !.state = "reconnecting"]
               g == RepairFailed(e)
               h == Attempted(f)
    <2>1. InnerRepair(c) = IF ~e.known THEN g ELSE h
        BY <1>3 DEF InnerRepair, Recreated
    <2>2. o \in BOOLEAN /\ x \in BOOLEAN
        BY DEF Typed, ClientType
    <2>3. Typed(e) /\ Typed(f)
        <3> HIDE DEF o, x
        <3> QED
            BY <2>2 DEF Typed, ClientType, States
    <2>4. /\ SameLinks(c, e) /\ SameCalls(c, e) /\ SameSession(c, e) /\ e.state = c.state
          /\ e.session.repairing = c.session.repairing
          /\ e.known = c.known /\ e.canceled = c.canceled /\ e.overtaken = o /\ e.crossed = x
        BY DEF Typed, ClientType, SameLinks, SameCalls, SameSession
    <2>5. /\ SameLinks(c, f) /\ SameCalls(c, f) /\ SameSession(c, f) /\ f.state = "reconnecting"
          /\ f.session.repairing = c.session.repairing /\ f.repair = "channel"
          /\ f.known = c.known /\ f.canceled = c.canceled /\ f.overtaken = o /\ f.crossed = x
        BY DEF Typed, ClientType, SameLinks, SameCalls, SameSession
    <2> HIDE DEF e, f
    <2>6. CASE ~c.known
        <3>1. Typed(g) /\ GivenUp(e, g)
            BY <2>3, RepairFailedIs
        <3> HIDE DEF g
        <3>2. Core(g)
            BY <1>3, <2>4, <2>6, <3>1, UnknownCore
        <3> QED
            BY <2>1, <2>4, <2>6, <3>1, <3>2 DEF GivenUp, SameLinks, Quiet
    <2>7. CASE c.known
        <3> USE DEF SameLinks, SameCalls, SameSession
        <3>1. ~Down(c) /\ ~Down(f)
            BY <1>3, <2>5 DEF Down, isUnusable
        <3>2. \A k : (Alive(f, k) <=> Alive(c, k)) /\ (Making(f, k) <=> Making(c, k))
            BY <2>5 DEF Alive, Making
        <3>3. Linked(f)
            BY <2>5, <3>1, <3>2 DEF Core, Linked
        <3>4. ASSUME ~f.crossed  PROVE  Idle(f)
            <4>1. Ordered(c) /\ \A i \in Connects : f.connects[i] # "initializing"
                BY <2>5, <3>4 DEF Core
            <4>2. \A k \in Channels : ~Making(f, k)
                BY <1>3, <2>7, <3>2, <4>1, NobodyMakes DEF Ordered
            <4>3. "client" \notin f.session.repairing
                BY <1>3, <2>5, <4>1 DEF Ordered, Repairing
            <4>4. InPlace(f)
                BY <2>5, <4>1 DEF Ordered, InPlace
            <4> QED
                BY <2>5, <2>7, <4>1, <4>2, <4>3, <4>4 DEF Idle
        <3>5. Unused(f) # {}
            BY <2>5 DEF Unused
        <3>6. Typed(h) /\ Core(h) /\ (f.canceled => Quiet(f, h))
            BY <2>3, <2>5, <3>3, <3>4, <3>5, AttemptedCore
        <3> HIDE DEF h
        <3> QED
            BY <2>1, <2>4, <2>5, <2>7, <3>6 DEF Quiet
    <2> QED
        BY <2>6, <2>7
<1> QED
    BY <1>1, <1>2, <1>3

-----------------------------------------------------------------------------
(***************************************************************************)
(* The steps.  Kept is what each makes of a client for which the invariant *)
(* holds: it holds again, and nothing comes to life after disconnect().    *)
(***************************************************************************)

Kept(c, d) == Typed(d) /\ Core(d) /\ (c.canceled /\ ~c.crossed => Quiet(c, d))

LEMMA AlikeKept ==
    ASSUME NEW c, NEW d, Core(c), Typed(d), Alike(c, d)
    PROVE  Kept(c, d)
    BY AlikeCore DEF Kept, Alike, SameLinks, Quiet

\* A call of connect() is at another step.
Stepped(c, d, i, s, t) ==
    /\ SameLinks(c, d) /\ SameFlags(c, d) /\ SameSession(c, d)
    /\ d.session.repairing = c.session.repairing /\ d.repair = c.repair
    /\ d.closes = c.closes /\ d.state = t
    /\ \A j \in Connects : d.connects[j] = IF j = i THEN s ELSE c.connects[j]

LEMMA ConnectSet ==
    ASSUME NEW c, Typed(c), NEW i \in Connects,
           NEW s \in {"idle", "initializing", "channel", "connected", "failed"}, NEW t \in States
    PROVE  LET d == [c EXCEPT !.state = t, !.connects[i] = s]
           IN  Typed(d) /\ Stepped(c, d, i, s, t)
<1> DEFINE q == [c.connects EXCEPT ![i] = s]
           d == [c EXCEPT !.state = t, !.connects = q]
<1>1. c.connects \in [Connects -> {"idle", "initializing", "channel", "connected", "failed"}]
    BY FieldTypes
<1>2. /\ q \in [Connects -> {"idle", "initializing", "channel", "connected", "failed"}]
      /\ \A j \in Connects : q[j] = IF j = i THEN s ELSE c.connects[j]
    BY <1>1
<1>3. [c EXCEPT !.state = t, !.connects[i] = s] = d
    BY DEF Typed, ClientType
<1> HIDE DEF q
<1>4. Typed(d)
    BY <1>2 DEF Typed, ClientType
<1>5. /\ SameLinks(c, d) /\ SameFlags(c, d) /\ SameSession(c, d)
      /\ d.session.repairing = c.session.repairing /\ d.repair = c.repair
      /\ d.closes = c.closes /\ d.state = t /\ d.connects = q
    BY DEF Typed, ClientType, SameLinks, SameFlags, SameSession
<1> HIDE DEF d
<1> QED
    BY <1>2, <1>3, <1>4, <1>5 DEF Stepped

\* The field alone
LEMMA ConnectStepSet ==
    ASSUME NEW c, Typed(c), NEW i \in Connects, NEW s
    PROVE  [c EXCEPT !.connects[i] = s] = [c EXCEPT !.state = c.state, !.connects[i] = s]
    BY DEF Typed, ClientType

\* connect() is refused.
LEMMA ConnectRefusedKept ==
    ASSUME NEW c, Typed(c), Core(c), NEW i \in Connects
    PROVE  LET e == [c EXCEPT !.connects[i] = "failed"] IN Kept(c, e)
<1> DEFINE e == [c EXCEPT !.state = c.state, !.connects[i] = "failed"]
<1>1. [c EXCEPT !.connects[i] = "failed"] = e
    BY ConnectStepSet
<1>2. c.state \in States
    BY FieldTypes
<1>3. Typed(e) /\ Stepped(c, e, i, "failed", c.state)
    BY <1>2, ConnectSet
<1> HIDE DEF e
<1> USE DEF Stepped, SameLinks, SameFlags, SameSession
<1>4. \A k : (Alive(e, k) <=> Alive(c, k)) /\ (Making(e, k) <=> Making(c, k))
    BY <1>3 DEF Alive, Making
<1>5. Down(e) <=> Down(c)
    BY <1>3 DEF Down
<1>6. Linked(e)
    BY <1>3, <1>4, <1>5 DEF Core, Linked
<1>7. Ordered(c) => InPlace(e) /\ OneMade(e) /\ Repairing(e)
    BY <1>3, <1>4, <1>5 DEF Ordered, InPlace, OneMade, MadeBy, Repairing
<1>8. Ordered(c) => UnderWay(e) /\ StateTrue(e)
    BY <1>3, <1>4, <1>5 DEF Ordered, UnderWay, Alone, StateTrue
<1> QED
    BY <1>1, <1>3, <1>6, <1>7, <1>8 DEF Kept, Core, Ordered, Quiet

\* connect() begins.
LEMMA ConnectBegunKept ==
    ASSUME NEW c, Typed(c), Core(c), NEW i \in Connects,
           c.state = "disconnected", c.channel = None, ~c.canceled
    PROVE  LET e == [c EXCEPT !.state = "connecting", !.connects[i] = "initializing"] IN Kept(c, e)
<1> DEFINE e == [c EXCEPT !.state = "connecting", !.connects[i] = "initializing"]
<1>1. "connecting" \in States
    BY DEF States
<1>2. Typed(e) /\ Stepped(c, e, i, "initializing", "connecting")
    BY <1>1, ConnectSet
<1> HIDE DEF e
<1> USE DEF Stepped, SameLinks, SameFlags, SameSession
<1>3. \A k : (Alive(e, k) <=> Alive(c, k)) /\ (Making(e, k) <=> Making(c, k))
    BY <1>2 DEF Alive, Making
<1>4. ~Down(c)
    BY DEF Down
<1>5. Linked(e)
    BY <1>2, <1>3, <1>4 DEF Core, Linked
<1>6. ASSUME Ordered(c)  PROVE  Ordered(e)
    <2>1. ~c.known /\ c.repair = "none" /\ "client" \notin c.session.repairing
        BY <1>6 DEF Ordered, StateTrue, Repairing
    <2>2. \A k \in Channels : ~Making(e, k)
        BY <1>3, <1>4, <1>6, Names DEF Ordered, OneMade
    <2>3. \A j \in Connects : c.connects[j] # "initializing"
        BY <1>4, <1>6 DEF Ordered, UnderWay, Alone
    <2>4. InPlace(e) /\ OneMade(e) /\ Repairing(e)
        BY <1>2, <2>1, <2>2 DEF InPlace, OneMade, Repairing
    <2>5. UnderWay(e)
        BY <1>2, <2>1, <2>2, <2>3 DEF UnderWay, Alone
    <2>6. StateTrue(e)
        BY <1>2, <1>6 DEF Ordered, StateTrue
    <2> QED
        BY <2>4, <2>5, <2>6 DEF Ordered
<1> QED
    BY <1>2, <1>5, <1>6 DEF Kept, Core, e

LEMMA ConnectKept ==
    ASSUME IInv, NEW i \in Connects, Connect(i)
    PROVE  Kept(client, client')
<1>1. Typed(client) /\ Core(client)
    BY DEF IInv
<1>2. CASE client.state # "disconnected" \/ client.channel # None
    BY <1>1, <1>2, ConnectRefusedKept DEF Connect, Becomes
<1>3. CASE client.state = "disconnected" /\ client.channel = None
    BY <1>1, <1>3, ConnectBegunKept DEF Connect, Becomes
<1> QED
    BY <1>2, <1>3

\* _handleUnrecoverableConnectionFailure, of a connect() that has not made a channel
LEMMA ConnectFailedKept ==
    ASSUME NEW c, Typed(c), Core(c), NEW i \in Connects, c.connects[i] = "initializing"
    PROVE  Kept(c, ConnectFailed(c, i))
<1> DEFINE e == [c EXCEPT !.state = "disconnected", !.connects[i] = "failed"]
<1>1. ConnectFailed(c, i) = e
    BY DEF ConnectFailed
<1>2. "disconnected" \in States
    BY DEF States
<1>3. Typed(e) /\ Stepped(c, e, i, "failed", "disconnected")
    BY <1>2, ConnectSet
<1> HIDE DEF e
<1> USE DEF Stepped, SameLinks, SameFlags, SameSession
<1>4. \A k : (Alive(e, k) <=> Alive(c, k)) /\ (Making(e, k) <=> Making(c, k))
    BY <1>3 DEF Alive, Making
<1>5. Down(c) => Down(e)
    BY <1>3 DEF Down
<1>6. Linked(e)
    BY <1>3, <1>4, <1>5 DEF Core, Linked
<1>7. ASSUME Ordered(c)  PROVE  Ordered(e)
    <2>1. Alone(c, i)
        BY <1>7 DEF Ordered, UnderWay
    <2>2. c.channel = None
        BY <2>1 DEF Alone, Down
    <2>3. InPlace(e) /\ OneMade(e)
        BY <1>3, <1>4, <2>1, <2>2 DEF InPlace, OneMade, Alone
    <2>4. Repairing(e)
        BY <1>3, <1>7, <2>1 DEF Ordered, Repairing, Alone
    <2>5. UnderWay(e)
        BY <1>3, <2>1 DEF UnderWay, Alone
    <2>6. StateTrue(e)
        BY <1>3, <1>7, <2>1, <2>2 DEF Ordered, StateTrue, Alone
    <2> QED
        BY <2>3, <2>4, <2>5, <2>6 DEF Ordered
<1> QED
    BY <1>1, <1>3, <1>6, <1>7 DEF Kept, Core, Quiet

\* _connectStep2: the channel of connect() is made.
LEMMA ConnectMadeKept ==
    ASSUME NEW c, Typed(c), Core(c), NEW i \in Connects, c.connects[i] = "initializing",
           c.state \notin {"disconnecting", "disconnected"}, c.channel = None, Unused(c) # {}
    PROVE  Kept(c, ChannelMade([c EXCEPT !.connects[i] = "channel"], i))
<1> DEFINE e == [c EXCEPT !.state = c.state, !.connects[i] = "channel"]
           d == ChannelMade(e, i)
<1>1. [c EXCEPT !.connects[i] = "channel"] = e
    BY ConnectStepSet
<1>2. c.state \in States
    BY FieldTypes
<1>3. Typed(e) /\ Stepped(c, e, i, "channel", c.state)
    BY <1>2, ConnectSet
<1> HIDE DEF e
<1>4. Unused(e) # {}
    BY <1>3 DEF Unused, Stepped, SameLinks
<1>5. Typed(d) /\ Made(e, d, i) /\ d.connects = e.connects
    BY <1>3, <1>4, ChannelMadeMade
<1> HIDE DEF d
<1> USE DEF Stepped, SameLinks, SameFlags, SameSession
<1>6. \A k : (Alive(e, k) <=> Alive(c, k)) /\ (Making(e, k) <=> Making(c, k))
    BY <1>3 DEF Alive, Making
<1>7. ~Down(c) /\ ~Down(e)
    BY <1>3 DEF Down
<1>8. Linked(e) /\ e.channel = None
    BY <1>3, <1>6, <1>7 DEF Core, Linked
<1>9. Linked(d)
    BY <1>5, <1>7, <1>8, MadeLinked
<1>10. d.crossed = c.crossed
    BY <1>3, <1>5 DEF Made
<1>11. Ordered(c) => c.state = "connecting" /\ ~c.canceled /\ Alone(c, i)
    BY <1>7 DEF Ordered, UnderWay, Alone
<1>12. ASSUME Ordered(c)  PROVE  Ordered(d)
    <2>1. "client" \notin e.session.repairing /\ (e.session.state # "none" => e.known)
        BY <1>3, <1>11, <1>12 DEF Ordered, Repairing, StateTrue, Alone
    <2>2. \A j \in Connects : d.connects[j] # "initializing"
        BY <1>3, <1>5, <1>11, <1>12 DEF Alone
    <2>3. e.repair = "none" /\ ~e.known /\ e.state = "connecting" /\ \A k \in Channels : ~Making(e, k)
        BY <1>3, <1>6, <1>11, <1>12 DEF Alone
    <2>4. i # Repair
        BY Names
    <2> QED
        BY <1>5, <1>8, <2>1, <2>2, <2>3, <2>4, MadeOrdered
<1>13. ~(c.canceled /\ ~c.crossed)
    BY <1>11 DEF Core
<1> QED
    BY <1>1, <1>5, <1>9, <1>10, <1>12, <1>13 DEF Kept, Core, d

LEMMA InitializedKept ==
    ASSUME IInv, NEW i \in Connects, Initialized(i)
    PROVE  Kept(client, client')
<1>1. /\ Typed(client) /\ Core(client) /\ client.connects[i] = "initializing"
      /\ Unused(client) # {}
    BY DEF IInv, Initialized
<1>2. Kept(client, ConnectFailed(client, i))
    BY <1>1, ConnectFailedKept
<1>3. client.state \notin {"disconnecting", "disconnected"} /\ client.channel = None
        => Kept(client, ChannelMade([client EXCEPT !.connects[i] = "channel"], i))
    BY <1>1, ConnectMadeKept
<1> QED
    BY <1>2, <1>3 DEF Initialized, Becomes, Refused

\* disconnect() is called.
CanceledIs(c, d) ==
    /\ SameLinks(c, d) /\ SameCalls(c, d) /\ SameSession(c, d)
    /\ d.session.repairing = c.session.repairing
    /\ d.state = c.state /\ d.repair = c.repair /\ d.known = c.known
    /\ d.overtaken = c.overtaken /\ d.crossed = c.crossed /\ d.canceled

LEMMA CanceledSet ==
    ASSUME NEW c, Typed(c), NEW i \in Disconnects
    PROVE  LET d == [c EXCEPT !.canceled = TRUE, !.disconnects[i] = "session"]
           IN  Typed(d) /\ CanceledIs(c, d)
<1> DEFINE q == [c.disconnects EXCEPT ![i] = "session"]
           d == [c EXCEPT !.canceled = TRUE, !.disconnects = q]
<1>1. q \in [Disconnects -> {"idle", "session", "channel", "done"}]
    BY DEF Typed, ClientType
<1>2. [c EXCEPT !.canceled = TRUE, !.disconnects[i] = "session"] = d
    BY DEF Typed, ClientType
<1> HIDE DEF q
<1>3. Typed(d)
    BY <1>1 DEF Typed, ClientType
<1>4. CanceledIs(c, d)
    BY DEF Typed, ClientType, CanceledIs, SameLinks, SameCalls, SameSession
<1> QED
    BY <1>2, <1>3, <1>4

\* No connect() is under way.
LEMMA CanceledCore ==
    ASSUME NEW c, NEW d, Core(c), CanceledIs(c, d),
           c.crossed \/ \A i \in Connects : c.connects[i] # "initializing"
    PROVE  Core(d)
<1> USE DEF CanceledIs, SameLinks, SameCalls, SameSession
<1>1. \A k : (Alive(d, k) <=> Alive(c, k)) /\ (Making(d, k) <=> Making(c, k))
    BY DEF Alive, Making
<1>2. Down(c) => Down(d)
    BY DEF Down
<1>3. Linked(d)
    BY <1>1, <1>2 DEF Core, Linked
<1>4. Ordered(c) => InPlace(d) /\ OneMade(d) /\ Repairing(d) /\ StateTrue(d)
    BY <1>1, <1>2 DEF Ordered, InPlace, OneMade, MadeBy, Repairing, StateTrue
<1>5. c.crossed \/ UnderWay(d)
    BY DEF UnderWay
<1> QED
    BY <1>3, <1>4, <1>5 DEF Core, Ordered

LEMMA DisconnectKept ==
    ASSUME IInv, NEW d \in Disconnects, Disconnect(d)
    PROVE  Kept(client, client')
<1> DEFINE c == [client EXCEPT !.canceled = TRUE, !.disconnects[d] = "session"]
<1>1. Typed(client) /\ Core(client)
    BY DEF IInv
<1>2. Typed(c) /\ CanceledIs(client, c)
    BY <1>1, CanceledSet
<1>3. client' = IF /\ c.state \notin {"disconnected", "disconnecting"}
                   /\ c.session.state \in {"open", "closed"} /\ ~c.keep
                THEN SessionClosed(c, d) ELSE DisconnectGoesOn(c, d)
    BY DEF Disconnect, Becomes
<1> HIDE DEF c
<1>4. CASE client.crossed \/ \A i \in Connects : client.connects[i] # "initializing"
    <2>1. Core(c) /\ c.canceled
        BY <1>1, <1>2, <1>4, CanceledCore DEF CanceledIs
    <2>2. /\ Typed(DisconnectGoesOn(c, d)) /\ Core(DisconnectGoesOn(c, d))
          /\ c.crossed \/ Quiet(c, DisconnectGoesOn(c, d))
        BY <1>2, <2>1, DisconnectGoesOnCore
    <2>3. c.session.state # "none"
            => /\ Typed(SessionClosed(c, d)) /\ Core(SessionClosed(c, d))
               /\ c.crossed \/ Quiet(c, SessionClosed(c, d))
        BY <1>2, <2>1, SessionClosedCore
    <2>4. Typed(client') /\ Core(client') /\ (c.crossed \/ Quiet(c, client'))
        BY <1>3, <2>2, <2>3
    <2> QED
        BY <1>2, <2>4 DEF Kept, CanceledIs, SameLinks, Quiet
<1>5. CASE ~client.crossed /\ \E i \in Connects : client.connects[i] = "initializing"
    <2>1. PICK i \in Connects : Alone(client, i)
        BY <1>1, <1>5 DEF Core, Ordered, UnderWay
    <2>2. client.channel = None /\ client.session.state = "none"
        BY <1>1, <1>5, <2>1 DEF Alone, Down, Core, Ordered, StateTrue
    <2> DEFINE e == DisconnectGoesOn(c, d)
    <2>3. client' = e
        BY <1>2, <1>3, <2>2 DEF CanceledIs, SameSession
    <2>4. Typed(e) /\ Gone(c, e)
        BY <1>2, <2>2, DisconnectGoesOnIs DEF CanceledIs, SameLinks
    <2> HIDE DEF e
    <2> USE DEF CanceledIs, SameLinks, SameCalls, SameSession, SameFlags, Gone
    <2>5. \A k \in Channels : ~Alive(client, k)
        BY <1>1, <2>2, Names DEF Core, Linked
    <2>6. Felled(client, e)
        BY <1>2, <2>2, <2>4, <2>5 DEF Felled, Down, Alive, Making
    <2>7. Core(e)
        BY <1>1, <2>6, FelledCore
    <2> QED
        BY <1>2, <2>3, <2>4, <2>7 DEF Kept, Quiet
<1> QED
    BY <1>4, <1>5

\* CreateSession and ActivateSession
LEMMA CreateSessionKept ==
    ASSUME IInv, CreateSession
    PROVE  Kept(client, client')
<1> DEFINE c == client
           h == [c.session EXCEPT !.state = "open"]
           d == [c EXCEPT !.session = h]
<1>1. Typed(c) /\ Core(c) /\ c.state = "connected" /\ client' = d
    BY DEF IInv, CreateSession
<1> HIDE DEF c
<1>2. /\ h \in SessionType /\ h.repairing = c.session.repairing /\ h.step = c.session.step
      /\ h.closers = c.session.closers
    BY <1>1 DEF Typed, ClientType, SessionType
<1> HIDE DEF h
<1>3. /\ Typed(d) /\ SameLinks(c, d) /\ SameFlags(c, d) /\ SameCalls(c, d)
      /\ d.state = c.state /\ d.repair = c.repair /\ d.session = h
    BY <1>1, <1>2, SessionSet
<1> HIDE DEF d
<1>4. c.known \/ c.crossed
    BY <1>1 DEF Core, Ordered, StateTrue
<1>5. Turned(c, d)
    BY <1>1, <1>2, <1>3, <1>4 DEF Turned, Core, Linked
<1> QED
    BY <1>1, <1>3, <1>5, TurnedCore DEF Kept, SameLinks, Quiet, c

LEMMA CloseSessionKept ==
    ASSUME IInv, CloseSession
    PROVE  Kept(client, client')
<1>1. /\ Typed(client) /\ Core(client) /\ client.session.state # "none"
      /\ client' = SessionClosed(client, "user")
    BY DEF IInv, CloseSession, Becomes
<1>2. "user" \notin Disconnects
    BY Names
<1>3. /\ Typed(SessionClosed(client, "user")) /\ Core(SessionClosed(client, "user"))
      /\ client.crossed \/ Quiet(client, SessionClosed(client, "user"))
    BY <1>1, <1>2, SessionClosedCore
<1> QED
    BY <1>1, <1>3 DEF Kept

LEMMA SendKept ==
    ASSUME IInv, NEW r \in Requests, Send(r)
    PROVE  Kept(client, client')
<1>1. Typed(client) /\ Core(client) /\ client' = SentAgain(client, {r}, "sent")
    BY DEF IInv, Send, Becomes
<1>2. Typed(SentAgain(client, {r}, "sent")) /\ Alike(client, SentAgain(client, {r}, "sent"))
    BY <1>1, SentAgainIs
<1> QED
    BY <1>1, <1>2, AlikeKept

LEMMA SessionCloseAnsweredKept ==
    ASSUME IInv, NEW who \in Disconnects \cup {"user"}, SessionCloseAnswered(who)
    PROVE  Kept(client, client')
<1>1. /\ Typed(client) /\ Core(client) /\ who \in client.session.closers
      /\ client' = CloseAnswered(client, who)
    BY DEF IInv, SessionCloseAnswered, Becomes
<1>2. who \in Disconnects => client.canceled
    BY <1>1 DEF Core, Linked
<1>3. /\ Typed(CloseAnswered(client, who)) /\ Core(CloseAnswered(client, who))
      /\ client.crossed \/ Quiet(client, CloseAnswered(client, who))
    BY <1>1, <1>2, CloseAnsweredCore
<1> QED
    BY <1>1, <1>3 DEF Kept

\* The callback of the channel's close()
LEMMA DisconnectedKept ==
    ASSUME IInv, NEW i \in Disconnects, Disconnected(i)
    PROVE  Kept(client, client')
<1> DEFINE c == client
           q == [c.closes EXCEPT ![i] = None]
           b == [c EXCEPT !.channel = c.closes[i], !.closes = q]
           e == Destroyed(b)
           p == [e.disconnects EXCEPT ![i] = "done"]
           d == [e EXCEPT !.state = "disconnected", !.disconnects = p]
<1>1. Typed(c) /\ Core(c) /\ c.closes[i] # None
    BY DEF IInv, Disconnected
<1>2. client' = [e EXCEPT !.state = "disconnected", !.disconnects[i] = "done"]
    BY DEF Disconnected, Becomes
<1> HIDE DEF c
<1>3. Down(c)
    BY <1>1 DEF Core, Linked
<1>4. q \in [Disconnects -> Channels \cup {None}] /\ c.closes[i] \in Channels
    BY <1>1 DEF Typed, ClientType
<1> HIDE DEF q
<1>5. Typed(b)
    BY <1>1, <1>4 DEF Typed, ClientType
<1>6. /\ SameFlags(c, b) /\ SameSession(c, b) /\ b.session.repairing = c.session.repairing
      /\ b.connects = c.connects /\ b.repair = c.repair
      /\ b.channels = c.channels /\ b.channel = c.closes[i]
    BY <1>1 DEF Typed, ClientType, SameFlags, SameSession
<1> HIDE DEF b
<1>7. /\ Typed(e) /\ Aside(b, e) /\ Closed(b, e) /\ e.repair = b.repair
    BY <1>5, DestroyedIs
<1> HIDE DEF e
<1>8. p \in [Disconnects -> {"idle", "session", "channel", "done"}]
    BY <1>7 DEF Typed, ClientType
<1>9. client' = d
    BY <1>2, <1>7 DEF Typed, ClientType
<1> HIDE DEF p
<1>10. Typed(d)
    BY <1>7, <1>8 DEF Typed, ClientType, States
<1>11. /\ SameLinks(e, d) /\ SameFlags(e, d) /\ SameCalls(e, d) /\ SameSession(e, d)
       /\ d.session.repairing = e.session.repairing /\ d.repair = e.repair
       /\ d.state = "disconnected"
    BY <1>7 DEF Typed, ClientType, SameLinks, SameFlags, SameCalls, SameSession
<1> HIDE DEF d
<1>12. \A k \in Channels : /\ Making(e, k) <=> Making(b, k)
                           /\ e.channels[k].maker = b.channels[k].maker
                           /\ Alive(e, k) => Alive(b, k)
                           /\ b.channels[k].phase = "dead" => e.channels[k].phase = "dead"
    BY <1>5, <1>7, ClosedLinks DEF Typed
<1>13. \A k \in Channels : ~Alive(c, k)
    BY <1>1, <1>3, Names DEF Core, Linked, Down
<1>14. Felled(c, d)
    BY <1>3, <1>6, <1>7, <1>11, <1>12, <1>13
       DEF Felled, Down, Aside, Closed, SameLinks, SameFlags, SameCalls, SameSession, Making, Alive
<1>15. Quiet(c, d)
    BY <1>6, <1>11, <1>12 DEF Quiet, SameLinks
<1> QED
    BY <1>1, <1>9, <1>10, <1>14, <1>15, FelledCore DEF Kept, c

-----------------------------------------------------------------------------
(***************************************************************************)
(* What comes from the network.                                            *)
(***************************************************************************)

\* The phase of a channel, and nothing else, is set.
Phased(c, d, k, phase) ==
    /\ SameFlags(c, d) /\ SameCalls(c, d) /\ SameSession(c, d)
    /\ d.session.repairing = c.session.repairing
    /\ d.state = c.state /\ d.repair = c.repair
    /\ d.channel = c.channel
    /\ \A j \in Channels : /\ d.channels[j].phase = IF j = k THEN phase ELSE c.channels[j].phase
                           /\ d.channels[j].maker = c.channels[j].maker
                           /\ d.channels[j].stage = c.channels[j].stage

LEMMA PhasedIs ==
    ASSUME NEW c, Typed(c), NEW k \in Channels,
           NEW phase \in {"dialing", "opening", "open", "closing", "dead"}
    PROVE  LET d == [c EXCEPT !.channels[k].phase = phase]
           IN  Typed(d) /\ Phased(c, d, k, phase)
<1> DEFINE h == [c.channels[k] EXCEPT !.phase = phase]
           f == [c.channels EXCEPT ![k] = h]
           d == [c EXCEPT !.channels = f]
<1>1. c.channels \in [Channels -> ChannelType]
    BY FieldTypes
<1>2. /\ h \in ChannelType /\ h.phase = phase /\ h.maker = c.channels[k].maker
      /\ h.stage = c.channels[k].stage
    BY <1>1 DEF ChannelType
<1>3. [c EXCEPT !.channels[k].phase = phase] = d
    OBVIOUS
<1> HIDE DEF h
<1>4. /\ f \in [Channels -> ChannelType]
      /\ \A j \in Channels : f[j] = IF j = k THEN h ELSE c.channels[j]
    BY <1>1, <1>2
<1> HIDE DEF f
<1>5. Typed(d)
    BY <1>4 DEF Typed, ClientType
<1>6. /\ SameFlags(c, d) /\ SameCalls(c, d) /\ SameSession(c, d)
      /\ d.session.repairing = c.session.repairing
      /\ d.state = c.state /\ d.repair = c.repair
      /\ d.channel = c.channel /\ d.channels = f
    BY DEF Typed, ClientType, SameFlags, SameCalls, SameSession
<1> HIDE DEF d
<1>7. Phased(c, d, k, phase)
    BY <1>2, <1>4, <1>6 DEF Phased
<1> QED
    BY <1>3, <1>5, <1>7

\* A channel that is alive is the client's, which nobody disconnects.
LEMMA AliveHeld ==
    ASSUME NEW c, Linked(c), NEW k \in Channels, Alive(c, k)
    PROVE  /\ c.channel = k /\ c.channel # None /\ ~Down(c)
           /\ c.state # "disconnecting" /\ \A d \in Disconnects : c.closes[d] = None
    BY Names DEF Linked, Down

\* The only channel that is made
LEMMA PlacedMaking ==
    ASSUME NEW c, Ordered(c), NEW k \in Channels, Making(c, k)
    PROVE  /\ MadeBy(c, k) /\ "client" \notin c.session.repairing
           /\ \A i \in Connects : c.connects[i] # "initializing"
<1>1. MadeBy(c, k)
    BY DEF Ordered, OneMade
<1>2. c.repair # "sessions"
    BY <1>1 DEF MadeBy
<1> QED
    BY <1>1, <1>2 DEF Ordered, Repairing, UnderWay, Alone

LEMMA DialedKept ==
    ASSUME IInv, NEW k \in Channels, Dialed(k)
    PROVE  Kept(client, client')
<1> DEFINE c == client
           d == [c EXCEPT !.channels[k].phase = "opening"]
<1>1. Typed(c) /\ Core(c) /\ c.channels[k].phase = "dialing" /\ client' = d
    BY DEF IInv, Dialed, Becomes
<1> HIDE DEF c
<1>2. Typed(d) /\ Phased(c, d, k, "opening")
    BY <1>1, PhasedIs
<1> HIDE DEF d
<1> USE DEF Phased, SameFlags, SameCalls, SameSession
<1>3. \A j \in Channels : (Alive(d, j) <=> Alive(c, j)) /\ (Making(d, j) <=> Making(c, j))
    BY <1>1, <1>2 DEF Alive, Making
<1>4. Down(d) <=> Down(c)
    BY <1>2 DEF Down
<1>5. Linked(d)
    BY <1>1, <1>2, <1>3, <1>4 DEF Core, Linked
<1>6. c.channel = k
    BY <1>1, AliveHeld DEF Core, Alive
<1>7. ASSUME Ordered(c)  PROVE  Ordered(d)
    <2>1. c.channels[k].stage = "create"
        BY <1>1, <1>6, <1>7, Names DEF Ordered, InPlace
    <2>2. InPlace(d)
        BY <1>2, <1>6, <2>1 DEF InPlace
    <2>3. OneMade(d) /\ Repairing(d)
        BY <1>2, <1>3, <1>4, <1>7 DEF Ordered, OneMade, MadeBy, Repairing
    <2>4. UnderWay(d)
        BY <1>2, <1>3, <1>4, <1>7 DEF Ordered, UnderWay, Alone
    <2>5. c.state # "connected"
        BY <1>6, <1>7, <2>1 DEF Ordered, StateTrue
    <2>6. StateTrue(d)
        BY <1>2, <1>7, <2>5 DEF Ordered, StateTrue
    <2> QED
        BY <2>2, <2>3, <2>4, <2>6 DEF Ordered
<1>8. Quiet(c, d)
    BY <1>1, <1>2 DEF Quiet
<1> QED
    BY <1>1, <1>2, <1>5, <1>7, <1>8 DEF Kept, Core, c

LEMMA CreateFailsKept ==
    ASSUME IInv, NEW k \in Channels, CreateFails(k)
    PROVE  Kept(client, client')
<1>1. /\ Typed(client) /\ Core(client) /\ Alive(client, k)
      /\ client.channels[k].phase \in {"dialing", "opening"} /\ client' = Rejected(client, k)
    BY DEF IInv, CreateFails, Refused, Alive
<1>2. client.channel = k /\ client.channel # None
    BY <1>1, AliveHeld DEF Core
<1>3. client.channels[k].stage # "over" \/ client.crossed
    BY <1>1, <1>2 DEF Core, Ordered, InPlace
<1>4. /\ Typed(Rejected(client, k)) /\ Core(Rejected(client, k))
      /\ Quiet(client, Rejected(client, k))
    BY <1>1, <1>2, <1>3, RejectedCore
<1> QED
    BY <1>1, <1>4 DEF Kept

\* The channel that is made is open.
LEMMA ReadyIs ==
    ASSUME NEW c, NEW d, Core(c), Typed(d), NEW k \in Channels, Alive(c, k),
           c.crossed \/ Making(c, k),
           d.channel = c.channel, d.channels[k].phase = "open", d.channels[k].maker = c.channels[k].maker,
           \A j \in Channels : (Alive(d, j) <=> Alive(c, j)) /\ (Making(d, j) <=> Making(c, j)),
           SameCalls(c, d), SameSession(c, d), d.session.repairing = c.session.repairing,
           d.state = c.state, d.repair = c.repair, d.crossed = c.crossed, d.canceled = c.canceled,
           d.known
    PROVE  Ready(d, k)
<1> USE DEF SameCalls, SameSession
<1>1. c.channel = k /\ Linked(c)
    BY AliveHeld DEF Core
<1>2. Linked(d)
    BY <1>1 DEF Linked, Down
<1>3. c.crossed \/ /\ MadeBy(c, k) /\ "client" \notin c.session.repairing
                   /\ \A i \in Connects : c.connects[i] # "initializing"
    BY PlacedMaking DEF Core
<1> QED
    BY <1>1, <1>2, <1>3 DEF Ready, MadeBy

\* The endpoints are asked for.
LEMMA EndpointsAskedKept ==
    ASSUME NEW c, Typed(c), Core(c), NEW k \in Channels, c.channels[k].phase = "opening", ~c.known
    PROVE  Kept(c, [[c EXCEPT !.channels[k].phase = "open"]
                       EXCEPT !.state = "connecting", !.channels[k].stage = "endpoints"])
<1> DEFINE b == [c EXCEPT !.channels[k].phase = "open"]
           e == [b EXCEPT !.channels[k].stage = "endpoints"]
           d == [e EXCEPT !.state = "connecting"]
<1>1. Typed(b) /\ Phased(c, b, k, "open")
    BY PhasedIs
<1>2. [b EXCEPT !.state = "connecting", !.channels[k].stage = "endpoints"] = d
    <2> HIDE DEF b
    <2> QED
        BY <1>1 DEF Typed, ClientType
<1>3. Typed(e) /\ Staged(b, e, k, "endpoints")
    <2> HIDE DEF b
    <2> QED
        BY <1>1, StageSet
<1>4. Typed(d) /\ /\ SameLinks(e, d) /\ SameFlags(e, d) /\ SameCalls(e, d) /\ SameSession(e, d)
                  /\ d.session.repairing = e.session.repairing
                  /\ d.state = "connecting" /\ d.repair = e.repair
    <2> HIDE DEF e
    <2> QED
        BY <1>3 DEF Typed, ClientType, States, SameLinks, SameFlags, SameCalls, SameSession
<1>5. Alive(c, k) /\ c.channel = k /\ ~Down(c) /\ \A i \in Disconnects : c.closes[i] = None
    BY AliveHeld DEF Core, Alive
<1>6. /\ d.channel = k /\ d.channels[k].phase = "open" /\ d.channels[k].stage = "endpoints"
      /\ \A j \in Channels : /\ Alive(d, j) <=> Alive(c, j)
                             /\ d.channels[j].maker = c.channels[j].maker
                             /\ j # k => (Making(d, j) <=> Making(c, j))
                             /\ c.channels[j].phase = "dead" => d.channels[j].phase = "dead"
      /\ SameFlags(c, d) /\ SameCalls(c, d) /\ SameSession(c, d)
      /\ d.session.repairing = c.session.repairing
      /\ d.state = "connecting" /\ d.repair = c.repair
    <2> HIDE DEF b, e, d
    <2>1. d.channels = e.channels /\ d.channel = k
        BY <1>1, <1>3, <1>4, <1>5 DEF Phased, Staged, SameLinks
    <2>2. \A j \in Channels : /\ d.channels[j].maker = c.channels[j].maker
                              /\ d.channels[j].phase = IF j = k THEN "open" ELSE c.channels[j].phase
                              /\ d.channels[j].stage = IF j = k THEN "endpoints" ELSE c.channels[j].stage
        BY <1>1, <1>3, <2>1 DEF Phased, Staged
    <2>3. \A j \in Channels : /\ Alive(d, j) <=> Alive(c, j)
                              /\ j # k => (Making(d, j) <=> Making(c, j))
                              /\ c.channels[j].phase = "dead" => d.channels[j].phase = "dead"
        BY <2>2 DEF Alive, Making
    <2>4. /\ SameFlags(c, d) /\ SameCalls(c, d) /\ SameSession(c, d)
          /\ d.session.repairing = c.session.repairing
          /\ d.state = "connecting" /\ d.repair = c.repair
        BY <1>1, <1>3, <1>4 DEF Phased, Staged, SameFlags, SameCalls, SameSession
    <2> QED
        BY <2>1, <2>2, <2>3, <2>4
<1> HIDE DEF b, e, d
<1> USE DEF SameFlags, SameCalls, SameSession
<1>7. Linked(d)
    BY <1>5, <1>6 DEF Core, Linked
<1>8. ASSUME Ordered(c)  PROVE  Ordered(d)
    <2>1. Making(c, k)
        BY <1>5, <1>8, Names DEF Ordered, InPlace, Making
    <2>2. /\ MadeBy(c, k) /\ "client" \notin c.session.repairing
          /\ \A i \in Connects : c.connects[i] # "initializing"
        BY <1>8, <2>1, PlacedMaking
    <2>3. c.repair = "none" /\ c.channels[k].maker # Repair
        BY <1>8, <2>2 DEF MadeBy, Ordered, Repairing
    <2>4. InPlace(d) /\ Repairing(d) /\ UnderWay(d)
        BY <1>6, <2>2, <2>3 DEF InPlace, Repairing, UnderWay
    <2>5. \A j \in Channels : Making(d, j) => j = k
        BY <1>6, <2>2 DEF MadeBy
    <2>6. OneMade(d)
        BY <1>6, <2>3, <2>5 DEF OneMade, MadeBy
    <2>7. StateTrue(d)
        BY <1>6, <1>8 DEF Ordered, StateTrue
    <2> QED
        BY <2>4, <2>6, <2>7 DEF Ordered
<1> QED
    BY <1>2, <1>4, <1>6, <1>7, <1>8 DEF Kept, Core, Quiet, b

LEMMA OpenedKept ==
    ASSUME IInv, NEW k \in Channels, Opened(k)
    PROVE  Kept(client, client')
<1> DEFINE c == client
           b == [c EXCEPT !.channels[k].phase = "open"]
           e == [b EXCEPT !.state = "connecting", !.channels[k].stage = "endpoints"]
<1>1. /\ Typed(c) /\ Core(c) /\ c.channels[k].phase = "opening"
      /\ client' = IF b.channel = None THEN Rejected(b, k)
                   ELSE IF b.known THEN Created(b, k) ELSE e
    BY DEF IInv, Opened, Becomes
<1> HIDE DEF c
<1>2. Typed(b) /\ Phased(c, b, k, "open")
    BY <1>1, PhasedIs
<1>3. ~c.known => Kept(c, e)
    BY <1>1, EndpointsAskedKept
<1> HIDE DEF b, e
<1>4. Alive(c, k) /\ c.channel = k /\ k # None
    BY <1>1, Names, AliveHeld DEF Core, Alive
<1>5. c.crossed \/ Making(c, k)
    BY <1>1, <1>4 DEF Core, Ordered, InPlace, Making
<1>6. \A j \in Channels : (Alive(b, j) <=> Alive(c, j)) /\ (Making(b, j) <=> Making(c, j))
    BY <1>1, <1>2 DEF Phased, Alive, Making
<1>7. c.known => Typed(Created(b, k)) /\ Core(Created(b, k)) /\ Quiet(b, Created(b, k))
    <2> SUFFICES ASSUME c.known  PROVE  Ready(b, k)
        BY CreatedCore
    <2> QED
        BY <1>1, <1>2, <1>4, <1>5, <1>6, ReadyIs DEF Phased, SameFlags
<1>8. Quiet(c, b)
    BY <1>1, <1>2 DEF Phased, Quiet
<1>9. b.channel # None /\ b.known = c.known
    BY <1>2, <1>4 DEF Phased, SameFlags
<1> QED
    BY <1>1, <1>3, <1>7, <1>8, <1>9 DEF Kept, Quiet, c

LEMMA EndpointsAnsweredKept ==
    ASSUME IInv, NEW k \in Channels, EndpointsAnswered(k)
    PROVE  Kept(client, client')
<1> DEFINE c == client
           d == [c EXCEPT !.known = TRUE]
<1>1. /\ Typed(c) /\ Core(c) /\ c.channels[k].phase = "open" /\ c.channels[k].stage = "endpoints"
      /\ client' \in {Created(d, k), Rejected(c, k)}
    BY DEF IInv, EndpointsAnswered, Becomes, Refused
<1> HIDE DEF c
<1>2. /\ Typed(d) /\ SameLinks(c, d) /\ SameCalls(c, d) /\ SameSession(c, d)
      /\ d.session.repairing = c.session.repairing /\ d.state = c.state /\ d.repair = c.repair
      /\ d.crossed = c.crossed /\ d.canceled = c.canceled /\ d.known
    BY <1>1 DEF Typed, ClientType, SameLinks, SameCalls, SameSession
<1> HIDE DEF d
<1>3. Alive(c, k) /\ Making(c, k) /\ c.channel = k
    BY <1>1, AliveHeld DEF Core, Alive, Making
<1>4. \A j \in Channels : (Alive(d, j) <=> Alive(c, j)) /\ (Making(d, j) <=> Making(c, j))
    BY <1>2 DEF SameLinks, Alive, Making
<1>5. Ready(d, k)
    BY <1>1, <1>2, <1>3, <1>4, ReadyIs DEF SameLinks
<1>6. Typed(Created(d, k)) /\ Core(Created(d, k)) /\ Quiet(d, Created(d, k))
    BY <1>5, CreatedCore
<1>7. Typed(Rejected(c, k)) /\ Core(Rejected(c, k)) /\ Quiet(c, Rejected(c, k))
    BY <1>1, <1>3, RejectedCore
<1>8. d.channels = c.channels
    BY <1>2 DEF SameLinks
<1> QED
    BY <1>1, <1>6, <1>7, <1>8 DEF Kept, Quiet, c

\* The callback of abortConnection
LEMMA AbortedKept ==
    ASSUME IInv, NEW k \in Channels, Aborted(k)
    PROVE  Kept(client, client')
<1> DEFINE c == client
           d == Destroyed(c)
<1>1. /\ Typed(c) /\ Core(c) /\ Making(c, k) /\ c.channels[k].stage = "abort"
      /\ client' = MakerFailed(d, k)
    BY DEF IInv, Aborted, Becomes, Making
<1> HIDE DEF c
<1>2. /\ Typed(d) /\ Aside(c, d) /\ Closed(c, d) /\ d.state = c.state /\ d.repair = c.repair
    BY <1>1, DestroyedIs
<1> HIDE DEF d
<1>3. \A j \in Channels : /\ Making(d, j) <=> Making(c, j)
                          /\ d.channels[j].maker = c.channels[j].maker
                          /\ Alive(d, j) => Alive(c, j) /\ c.channel # j
                          /\ c.channels[j].phase = "dead" => d.channels[j].phase = "dead"
    BY <1>1, <1>2, ClosedLinks DEF Typed
<1> USE DEF Aside, SameFlags, SameCalls, SameSession
<1>4. d.channel = None /\ (Down(c) => Down(d))
    BY <1>2 DEF Closed, Down
<1>5. Linked(d)
    BY <1>1, <1>2, <1>3, <1>4 DEF Core, Linked
<1>6. ASSUME Ordered(c)  PROVE  Unplaced(d, k)
    <2>1. /\ MadeBy(c, k) /\ "client" \notin c.session.repairing
          /\ \A i \in Connects : c.connects[i] # "initializing"
        BY <1>1, <1>6, PlacedMaking
    <2>2. MadeBy(d, k) /\ Making(d, k) /\ UnderWay(d)
        BY <1>1, <1>2, <1>3, <2>1 DEF MadeBy, UnderWay
    <2>3. Repairing(d)
        BY <1>2, <1>4, <1>6 DEF Ordered, Repairing
    <2>4. c.channel = k \/ Down(c)
        BY <1>1, <1>6 DEF Ordered, OneMade
    <2>5. c.state # "connected"
        BY <1>1, <1>6, <2>4 DEF Ordered, StateTrue, Down
    <2>6. c.known /\ c.state = "disconnected" => c.canceled
        BY <1>6, <2>1 DEF MadeBy, Ordered, Repairing
    <2>7. StateTrue(d)
        BY <1>2, <1>4, <1>6, <2>5, <2>6 DEF Ordered, StateTrue
    <2> QED
        BY <2>2, <2>3, <2>7 DEF Unplaced
<1>7. /\ Typed(MakerFailed(d, k)) /\ Core(MakerFailed(d, k)) /\ Quiet(d, MakerFailed(d, k))
    BY <1>1, <1>2, <1>4, <1>5, <1>6, MakerFailedCore DEF Core
<1> QED
    BY <1>1, <1>3, <1>7 DEF Kept, Quiet, c

\* The client after its connection is lost, before those who wait on its channel are told
Cut(c, d) == /\ Aside(c, d) /\ Closed(c, d) /\ d.repair = c.repair
             /\ d.state \in {"reconnecting", "panic"}

LEMMA CutIs ==
    ASSUME NEW c, Typed(c)
    PROVE  LET b == Destroyed(c)
               d == IF b.retry THEN RepairScheduled([b EXCEPT !.state = "reconnecting"])
                    ELSE [b EXCEPT !.state = "panic"]
           IN  Typed(d) /\ Cut(c, d)
<1> DEFINE b == Destroyed(c)
           e == [b EXCEPT !.state = "reconnecting"]
           f == [b EXCEPT !.state = "panic"]
           g == RepairScheduled(e)
<1>1. /\ Typed(b) /\ Aside(c, b) /\ Closed(c, b) /\ b.repair = c.repair
    BY DestroyedIs
<1> HIDE DEF b
<1>2. Typed(e) /\ Typed(f)
    <2>1. {"reconnecting", "panic"} \subseteq States
        BY DEF States
    <2>2. \A s \in States : Typed([b EXCEPT !.state = s])
        BY <1>1 DEF Typed, ClientType
    <2> QED
        BY <2>1, <2>2
<1> USE DEF Aside, SameLinks, SameFlags, SameCalls, SameSession
<1>3. /\ b.channel = e.channel /\ b.channels = e.channels /\ Aside(b, e)
      /\ e.repair = b.repair /\ e.state = "reconnecting"
      /\ b.channel = f.channel /\ b.channels = f.channels /\ Aside(b, f)
      /\ f.repair = b.repair /\ f.state = "panic"
    BY <1>1 DEF Typed, ClientType
<1> HIDE DEF e, f
<1>4. Typed(g) /\ Alike(e, g)
    BY <1>2, RepairScheduledIs
<1> HIDE DEF g
<1>5. Cut(c, f)
    BY <1>1, <1>3 DEF Cut, Closed
<1>6. Cut(c, g)
    BY <1>1, <1>3, <1>4 DEF Cut, Closed, Alike
<1> QED
    BY <1>2, <1>4, <1>5, <1>6 DEF b, e, f, g

LEMMA LostKept ==
    ASSUME IInv, NEW k \in Channels, Lost(k)
    PROVE  Kept(client, client')
<1> DEFINE c == client
           b == Destroyed(c)
           d == IF b.retry THEN RepairScheduled([b EXCEPT !.state = "reconnecting"])
                ELSE [b EXCEPT !.state = "panic"]
<1>1. Typed(c) /\ Core(c) /\ c.channels[k].phase = "open" /\ client' = PendingCanceled(d, k)
    BY DEF IInv, Lost
<1> HIDE DEF c
<1>2. Typed(d) /\ Cut(c, d)
    BY <1>1, CutIs
<1> HIDE DEF d
<1> USE DEF Cut, Aside, SameFlags, SameCalls, SameSession
<1>3. \A j \in Channels : /\ Making(d, j) <=> Making(c, j)
                          /\ d.channels[j].maker = c.channels[j].maker
                          /\ d.channels[j].stage = c.channels[j].stage
                          /\ Alive(d, j) => Alive(c, j) /\ c.channel # j
                          /\ c.channels[j].phase = "dead" => d.channels[j].phase = "dead"
    BY <1>1, <1>2, ClosedLinks DEF Typed
<1>4. /\ Alive(c, k) /\ c.channel = k /\ c.channel # None /\ ~Down(c)
      /\ \A i \in Disconnects : c.closes[i] = None
    BY <1>1, AliveHeld DEF Core, Alive
<1>5. d.channel = None
    BY <1>2 DEF Closed
<1>6. Linked(d)
    BY <1>1, <1>2, <1>3, <1>4 DEF Core, Linked
<1>7. ASSUME Ordered(c)
      PROVE  IF d.channels[k].stage \in {"create", "endpoints"} THEN Unplaced(d, k) ELSE Ordered(d)
    <2>1. c.channels[k].stage \in {"over", "endpoints"}
        BY <1>1, <1>4, <1>7 DEF Ordered, InPlace
    <2>2. \A j \in Channels : Making(c, j) => j = k
        BY <1>4, <1>7 DEF Ordered, OneMade
    <2>3. \A i \in Connects : d.connects[i] # "initializing"
        BY <1>2, <1>4, <1>7 DEF Ordered, UnderWay, Alone
    <2>4. Repairing(d) /\ UnderWay(d)
        BY <1>2, <1>5, <1>7, <2>3 DEF Ordered, Repairing, UnderWay
    <2>5. StateTrue(d)
        BY <1>2, <1>5, <1>7 DEF Ordered, StateTrue
    <2>6. CASE c.channels[k].stage = "endpoints"
        <3>1. Making(c, k) /\ MadeBy(c, k)
            BY <1>7, <2>6 DEF Making, Ordered, OneMade
        <3>2. Making(d, k) /\ MadeBy(d, k)
            BY <1>2, <1>3, <3>1 DEF MadeBy
        <3> QED
            BY <1>3, <2>4, <2>5, <2>6, <3>2 DEF Unplaced
    <2>7. CASE c.channels[k].stage = "over"
        <3>1. \A j \in Channels : ~Making(d, j)
            BY <1>3, <2>2, <2>7 DEF Making
        <3>2. InPlace(d) /\ OneMade(d)
            BY <1>5, <3>1 DEF InPlace, OneMade
        <3> QED
            BY <1>3, <2>4, <2>5, <2>7, <3>2 DEF Ordered
    <2> QED
        BY <2>1, <2>6, <2>7
<1>8. /\ Typed(PendingCanceled(d, k)) /\ Core(PendingCanceled(d, k))
      /\ Quiet(d, PendingCanceled(d, k))
    <2>1. \/ d.crossed
          \/ IF d.channels[k].stage \in {"create", "endpoints"} THEN Unplaced(d, k) ELSE Ordered(d)
        BY <1>1, <1>2, <1>7 DEF Core
    <2> QED
        BY <1>2, <1>5, <1>6, <2>1, PendingCanceledCore
<1> QED
    BY <1>1, <1>3, <1>8 DEF Kept, Quiet, c

\* A request is at another step.
LEMMA RequestSet ==
    ASSUME NEW c, Typed(c), NEW r \in Requests,
           NEW s \in {"idle", "sent", "resent", "parked", "repairing", "dropped",
                      "answered", "error", "lost"}
    PROVE  LET d == [c EXCEPT !.requests[r] = s] IN Typed(d) /\ Alike(c, d)
<1> DEFINE q == [c.requests EXCEPT ![r] = s]
<1>1. q \in [Requests -> {"idle", "sent", "resent", "parked", "repairing", "dropped",
                          "answered", "error", "lost"}]
    BY DEF Typed, ClientType
<1> HIDE DEF q
<1>2. Typed([c EXCEPT !.requests = q]) /\ Alike(c, [c EXCEPT !.requests = q])
    BY <1>1, RequestsSet
<1> QED
    BY <1>2 DEF q

\* #reprocessRequest, #_recreate_session_and_reperform_transaction
LEMMA AnsweredKept ==
    ASSUME IInv, NEW r \in Requests, Answered(r)
    PROVE  Kept(client, client')
<1> DEFINE c    == client
           S(s) == [c EXCEPT !.requests[r] = s]
           x    == IF c.session.state = "removed" THEN "lost" ELSE "parked"
<1>1. /\ Typed(c) /\ Core(c)
      /\ client' \in {S("answered"), S("error"), S(x), SessionRepair(S("repairing"), r)}
    BY DEF IInv, Answered, Becomes
<1>2. \A s \in {"idle", "sent", "resent", "parked", "repairing", "dropped",
                "answered", "error", "lost"} : Typed(S(s)) /\ Alike(c, S(s))
    BY <1>1, RequestSet
<1>3. x \in {"idle", "sent", "resent", "parked", "repairing", "dropped",
             "answered", "error", "lost"}
    OBVIOUS
<1> HIDE DEF c, S, x
<1>4. Typed(S("repairing")) /\ Alike(c, S("repairing"))
    BY <1>2
<1>5. Core(S("repairing"))
    BY <1>1, <1>4, AlikeCore
<1>6. r # "client"
    BY Names
<1>7. /\ Typed(SessionRepair(S("repairing"), r)) /\ Core(SessionRepair(S("repairing"), r))
      /\ Quiet(S("repairing"), SessionRepair(S("repairing"), r))
    BY <1>4, <1>5, <1>6, SessionRepairCore
<1>8. Kept(c, SessionRepair(S("repairing"), r))
    BY <1>4, <1>7 DEF Alike, SameLinks, Kept, Quiet
<1>9. Kept(c, S("answered")) /\ Kept(c, S("error")) /\ Kept(c, S(x))
    BY <1>1, <1>2, <1>3, AlikeKept
<1> QED
    BY <1>1, <1>8, <1>9 DEF c

\* The "close" event of a channel that was destroyed
LEMMA DroppedKept ==
    ASSUME IInv, NEW r \in Requests, Dropped(r)
    PROVE  Kept(client, client')
<1>1. Typed(client) /\ Core(client) /\ client' = [client EXCEPT !.requests[r] = "error"]
    BY DEF IInv, Dropped, Becomes
<1>2. /\ Typed([client EXCEPT !.requests[r] = "error"])
      /\ Alike(client, [client EXCEPT !.requests[r] = "error"])
    BY <1>1, RequestSet
<1> QED
    BY <1>1, <1>2, AlikeKept

LEMMA SessionRepairOverKept ==
    ASSUME NEW c, Typed(c), Core(c), NEW failed \in BOOLEAN
    PROVE  Kept(c, SessionRepairOver(c, failed))
<1>1. c \in ClientType
    BY DEF Typed
<1>2. /\ Typed(SessionRepairOver(c, failed)) /\ Core(SessionRepairOver(c, failed))
      /\ Quiet(c, SessionRepairOver(c, failed))
    BY <1>1, SessionRepairOverIs, SessionRepairOverCore, RepairOverQuiet
<1> QED
    BY <1>2 DEF Kept

\* The next step of the session's repair
LEMMA StepKept ==
    ASSUME NEW c, Typed(c), Core(c), c.session.step # "none", NEW s \in {"activate", "recreate", "wait"}
    PROVE  Kept(c, [c EXCEPT !.session.step = s])
<1>1. c \in ClientType /\ c.session.repairing # {}
    BY DEF Typed
<1>2. Typed([c EXCEPT !.session.step = s]) /\ Alike(c, [c EXCEPT !.session.step = s])
    BY <1>1, StepSet
<1> QED
    BY <1>2, AlikeKept

LEMMA ActivateAnsweredKept ==
    ASSUME IInv, ActivateAnswered
    PROVE  Kept(client, client')
<1>1. Typed(client) /\ Core(client) /\ client.session.step # "none"
    BY DEF IInv, ActivateAnswered
<1>2. /\ Kept(client, SessionRepairOver(client, TRUE)) /\ Kept(client, SessionRepairOver(client, FALSE))
      /\ Kept(client, [client EXCEPT !.session.step = "recreate"])
    BY <1>1, SessionRepairOverKept, StepKept
<1> QED
    BY <1>2 DEF ActivateAnswered, Becomes

LEMMA RecreateAnsweredKept ==
    ASSUME IInv, RecreateAnswered
    PROVE  Kept(client, client')
<1>1. Typed(client) /\ Core(client) /\ client.session.step # "none"
    BY DEF IInv, RecreateAnswered
<1>2. ShouldNotContinue(client) \in BOOLEAN
    BY DEF ShouldNotContinue
<1>3. /\ Kept(client, SessionRepairOver(client, TRUE))
      /\ Kept(client, SessionRepairOver(client, ShouldNotContinue(client)))
      /\ Kept(client, [client EXCEPT !.session.step = "wait"])
    BY <1>1, <1>2, SessionRepairOverKept, StepKept
<1> QED
    BY <1>3 DEF RecreateAnswered, Refused

LEMMA SessionWaitEndsKept ==
    ASSUME IInv, SessionWaitEnds
    PROVE  Kept(client, client')
<1>1. /\ Typed(client) /\ Core(client) /\ client \in ClientType /\ client.session.repairing # {}
      /\ client' = SessionRepairStep(client)
    BY DEF IInv, SessionWaitEnds, Becomes, Typed
<1>2. /\ Typed(SessionRepairStep(client)) /\ Core(SessionRepairStep(client))
      /\ Quiet(client, SessionRepairStep(client))
    BY <1>1, SessionRepairStepIs
<1> QED
    BY <1>1, <1>2 DEF Kept

-----------------------------------------------------------------------------
(***************************************************************************)
(* Timers; the invariant and what follows from it.                         *)
(***************************************************************************)

LEMMA TimerEndsKept ==
    ASSUME IInv, TimerEnds
    PROVE  Kept(client, client')
<1> DEFINE c == client
           t == Tail(c.timers)
           d == [c EXCEPT !.timers = t]
<1>1. /\ Typed(c) /\ Core(c) /\ Unused(c) # {} /\ c.timers # <<>>
      /\ client' \in {InnerRepair(d), RepairScheduled(d)}
    BY DEF IInv, TimerEnds, Becomes
<1> HIDE DEF c
<1>2. t \in Seq({"inner", "repair"})
    BY <1>1 DEF Typed, ClientType
<1> HIDE DEF t
<1>3. Typed(d) /\ Alike(c, d)
    BY <1>1, <1>2 DEF Typed, ClientType, Alike, SameLinks, SameFlags, SameCalls, SameSession
<1> HIDE DEF d
<1>4. Core(d)
    BY <1>1, <1>3, AlikeCore
<1>5. Unused(d) # {}
    BY <1>1, <1>3 DEF Unused, Alike, SameLinks, SameCalls
<1>6. /\ Typed(InnerRepair(d)) /\ Core(InnerRepair(d))
      /\ d.canceled => Quiet(d, InnerRepair(d))
    BY <1>3, <1>4, <1>5, InnerRepairCore
<1>7. Kept(c, InnerRepair(d))
    BY <1>3, <1>6 DEF Alike, SameLinks, SameFlags, Kept, Quiet
<1>8. Kept(d, RepairScheduled(d))
    BY <1>3, <1>4, RepairScheduledIs, AlikeKept
<1>9. Kept(c, RepairScheduled(d))
    BY <1>3, <1>8 DEF Alike, SameLinks, SameFlags, Kept, Quiet
<1> QED
    BY <1>1, <1>7, <1>9 DEF c

\* The setImmediate of _failAndRetry
LEMMA RetryRepairKept ==
    ASSUME IInv, RetryRepair
    PROVE  Kept(client, client')
<1> DEFINE c == client
           d == [c EXCEPT !.repair = "channel"]
<1>1. /\ Typed(c) /\ Core(c) /\ Unused(c) # {} /\ c.repair = "retry"
      /\ client' = Attempted(d)
    BY DEF IInv, RetryRepair, Becomes
<1> HIDE DEF c
<1> USE DEF SameLinks, SameFlags, SameCalls, SameSession
<1>2. /\ Typed(d) /\ SameLinks(c, d) /\ SameFlags(c, d) /\ SameCalls(c, d) /\ SameSession(c, d)
      /\ d.state = c.state /\ d.repair = "channel"
      /\ d.session.repairing = c.session.repairing
    BY <1>1 DEF Typed, ClientType
<1> HIDE DEF d
<1>3. \A k : (Alive(d, k) <=> Alive(c, k)) /\ (Making(d, k) <=> Making(c, k))
    BY <1>2 DEF Alive, Making
<1>4. Linked(d)
    BY <1>1, <1>2, <1>3 DEF Core, Linked, Down
<1>5. ASSUME Ordered(c)  PROVE  Idle(d)
    <2>1. \A k \in Channels : ~Making(c, k)
        BY <1>1, <1>5 DEF Ordered, OneMade, MadeBy
    <2>2. \A i \in Connects : c.connects[i] # "initializing"
        BY <1>1, <1>5 DEF Ordered, UnderWay, Alone
    <2>3. c.known /\ c.channel = None /\ "client" \notin c.session.repairing
        BY <1>1, <1>5 DEF Ordered, Repairing
    <2>4. /\ c.state \notin {"connected", "connecting"}
          /\ c.state = "disconnected" => c.canceled
        BY <1>1, <1>5 DEF Ordered, Repairing
    <2> QED
        BY <1>2, <1>3, <2>1, <2>2, <2>3, <2>4 DEF Idle, InPlace
<1>6. Unused(d) # {}
    BY <1>1, <1>2 DEF Unused
<1>7. /\ Typed(Attempted(d)) /\ Core(Attempted(d))
      /\ d.canceled => Quiet(d, Attempted(d))
    BY <1>1, <1>2, <1>4, <1>5, <1>6, AttemptedCore DEF Core
<1> QED
    BY <1>1, <1>2, <1>7 DEF Kept, Quiet, c

LEMMA InitIInv ==
    ASSUME Init
    PROVE  IInv
<1>1. PICK retry \in Retries, keep \in Keeps :
        client = [state       |-> "disconnected",
                  retry       |-> retry,
                  keep        |-> keep,
                  channel     |-> None,
                  channels    |-> [k \in Channels |-> [phase |-> "dead", maker |-> Repair, stage |-> "over"]],
                  known       |-> FALSE,
                  canceled    |-> FALSE,
                  connects    |-> [i \in Connects |-> "idle"],
                  disconnects |-> [d \in Disconnects |-> "idle"],
                  closes      |-> [d \in Disconnects |-> None],
                  repair      |-> "none",
                  again       |-> FALSE,
                  overtaken   |-> FALSE,
                  crossed     |-> FALSE,
                  timers      |-> <<>>,
                  session     |-> [state |-> "none", repairing |-> {}, step |-> "none", closers |-> {}],
                  requests    |-> [r \in Requests |-> "idle"]]
    BY DEF Init
<1>2. retry \in BOOLEAN /\ keep \in BOOLEAN
    BY ConnectionAssumption
<1>3. Typed(client)
    BY <1>1, <1>2 DEF Typed, ClientType, States, ChannelType, SessionType
<1>4. \A k \in Channels : ~Alive(client, k) /\ ~Making(client, k)
    BY <1>1 DEF Alive, Making
<1>5. Linked(client)
    BY <1>1, <1>4 DEF Linked
<1>6. Ordered(client)
    BY <1>1, <1>4 DEF Ordered, InPlace, OneMade, Repairing, UnderWay, StateTrue
<1> QED
    BY <1>3, <1>5, <1>6 DEF IInv, Core

\* Every step keeps the invariant; one that makes a channel comes before disconnect().
LEMMA NextKept ==
    ASSUME IInv, [Next]_vars
    PROVE  Kept(client, client')
<1>1. CASE client' = client
    BY <1>1 DEF IInv, Kept, Quiet
<1>2. CASE \E i \in Connects : Connect(i) \/ Initialized(i)
    BY <1>2, ConnectKept, InitializedKept
<1>3. CASE \E d \in Disconnects : Disconnect(d) \/ Disconnected(d)
    BY <1>3, DisconnectKept, DisconnectedKept
<1>4. CASE \E k \in Channels : \/ Dialed(k) \/ CreateFails(k) \/ Opened(k)
                               \/ EndpointsAnswered(k) \/ Aborted(k) \/ Lost(k)
    BY <1>4, DialedKept, CreateFailsKept, OpenedKept, EndpointsAnsweredKept, AbortedKept, LostKept
<1>5. CASE \E who \in Disconnects \cup {"user"} : SessionCloseAnswered(who)
    BY <1>5, SessionCloseAnsweredKept
<1>6. CASE \E r \in Requests : Send(r) \/ Answered(r) \/ Dropped(r)
    BY <1>6, SendKept, AnsweredKept, DroppedKept
<1>7. CASE CreateSession \/ CloseSession
    BY <1>7, CreateSessionKept, CloseSessionKept
<1>8. CASE ActivateAnswered \/ RecreateAnswered
    BY <1>8, ActivateAnsweredKept, RecreateAnsweredKept
<1>9. CASE TimerEnds \/ RetryRepair \/ SessionWaitEnds
    BY <1>9, TimerEndsKept, RetryRepairKept, SessionWaitEndsKept
<1>10. CASE ServerForgets \/ UNCHANGED vars
    BY <1>1, <1>10 DEF ServerForgets, vars
<1> QED
    BY <1>2, <1>3, <1>4, <1>5, <1>6, <1>7, <1>8, <1>9, <1>10 DEF Next

\* The inductive invariant of the client's connection: how its channel, its state, connect(), the
\* repair of the connection and disconnect() go together.
THEOREM ConnectionInvariance == Spec => []IInv
<1>1. Init => IInv
    BY InitIInv
<1>2. IInv /\ [Next]_vars => IInv'
    BY NextKept DEF Kept, IInv
<1> QED
    BY <1>1, <1>2, PTL DEF Spec

\* Whatever connect(), disconnect(), the network and the repairs do, the client's fields have
\* their types, and a repair of the session has a next step exactly as long as someone waits
\* for it.
THEOREM ConnectionTyped == Spec => []TypeOK
<1>1. IInv => TypeOK
    BY DEF IInv, Typed, ClientType, TypeOK
<1> QED
    BY <1>1, ConnectionInvariance, PTL

\* No channel is left behind alive, for any number of calls, channels, losses and repairs; and,
\* unless a repair has crossed a connect(), the callbacks of a channel's creation find that one or
\* none, and the state that is reported goes with the channel in place.
THEOREM ChannelIsOne == Spec => []OneChannel
<1>1. IInv => OneChannel
    <2> SUFFICES ASSUME IInv  PROVE  OneChannel
        OBVIOUS
    <2>1. \A k \in Channels : Live(k) => client.channel = k
        BY DEF IInv, Core, Linked, Alive, Live
    <2>2. ASSUME ~client.crossed
          PROVE  /\ \A k \in Channels : client.channels[k].stage # "over" => client.channel \in {k, None}
                 /\ client.state = "connected" => /\ client.channel # None
                                                  /\ client.channels[client.channel].phase = "open"
                 /\ client.state = "disconnected" /\ client.channel # None => client.overtaken
        <3>1. Ordered(client)
            BY <2>2 DEF IInv, Core
        <3>2. \A k \in Channels : client.channels[k].stage # "over" => client.channel \in {k, None}
            BY <3>1 DEF Ordered, OneMade, Making, Down
        <3> QED
            BY <3>1, <3>2 DEF Ordered, StateTrue
    <2> QED
        BY <2>1, <2>2 DEF OneChannel
<1> QED
    BY <1>1, ConnectionInvariance, PTL

\* After disconnect() no channel comes to life: not that of a connect() that was under way, of a
\* repair or of a timer that was left (unless a repair has crossed a connect()).
THEOREM NothingRevived == Spec => StaysDown
<1>1. IInv /\ [Next]_vars
        => [client.canceled /\ ~client.crossed =>
               \A k \in Channels : client.channels[k].phase = "dead"
                                       => client'.channels[k].phase = "dead"]_vars
    BY NextKept DEF Kept, Quiet
<1> QED
    BY <1>1, ConnectionInvariance, PTL DEF Spec, StaysDown
=============================================================================
