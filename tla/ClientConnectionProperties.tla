--------------------- MODULE ClientConnectionProperties ---------------------
(***************************************************************************)
(* What the connection of a client promises to those who use it.           *)
(***************************************************************************)
EXTENDS ClientConnection

\* Types; and a session's repair has a next step as long as someone waits for it.
TypeOK ==
    /\ client.state \in States
    /\ client.channel \in Channels \cup {None}
    /\ client.channels \in [Channels -> ChannelType]
    /\ client.connects \in [Connects -> {"idle", "initializing", "channel", "connected", "failed"}]
    /\ client.disconnects \in [Disconnects -> {"idle", "session", "channel", "done"}]
    /\ client.closes \in [Disconnects -> Channels \cup {None}]
    /\ client.repair \in {"none", "channel", "retry", "sessions"}
    /\ client.timers \in Seq({"inner", "repair"})
    /\ client.session \in SessionType
    /\ client.session.step = "none" <=> client.session.repairing = {}
    /\ client.requests \in [Requests -> {"idle", "sent", "resent", "parked", "repairing", "dropped",
                                         "answered", "error", "lost"}]

Live(k) == client.channels[k].phase \in {"dialing", "opening", "open"}

\* A channel that is alive is the client's channel: whichever way connect, disconnect, the
\* loss of a connection and its repair overlap, none is left behind, connected to the server
\* and known to nobody. Moreover, unless a repair has crossed a connect() (see crossed): while
\* the callbacks of a channel's creation ask whether the client has a channel, not whether it
\* has this one, it never has another. A client that says it is connected has an open channel,
\* also when the connection was lost again while its sessions were being repaired. One that
\* says it is disconnected has none, for disconnect() would not close it and connect() would
\* refuse: unless a repair began while a channel was in place.
OneChannel ==
    /\ \A k \in Channels : Live(k) => client.channel = k
    /\ client.crossed \/
          /\ \A k \in Channels : client.channels[k].stage # "over" => client.channel \in {k, None}
          /\ client.state = "connected" => /\ client.channel # None
                                           /\ client.channels[client.channel].phase = "open"
          /\ client.state = "disconnected" /\ client.channel # None => client.overtaken

\* Once disconnect() has been called the client does not dial any more: neither a connect()
\* that was under way, nor a repair, nor a timer that was left (unless a repair has crossed a
\* connect()).
StaysDown ==
    [][client.canceled /\ ~client.crossed =>
        \A k \in Channels : client.channels[k].phase = "dead"
                                => client'.channels[k].phase = "dead"]_vars

\* A connection that was lost is repaired, whatever else breaks meanwhile, unless the application
\* disconnects (or a repair found a channel in place or has crossed a connect()).
ConnectionRestored ==
    client.state = "reconnecting" /\ client.known
        ~> \/ client.state = "connected" \/ client.canceled
           \/ client.overtaken \/ client.crossed

\* connect() and disconnect() call back; so does a request of the session, also when the server
\* has forgotten the session and it has to be repaired for it. A request that waits for the repair
\* of another goes unanswered when the session is removed, or when the repair is given up for
\* good because connections are not repaired (or a repair found a channel in place or has
\* crossed a connect()).
CallsAnswered ==
    /\ \A i \in Connects :
        client.connects[i] = "initializing" ~> client.connects[i] \in {"connected", "failed"}
    /\ \A d \in Disconnects : client.disconnects[d] # "idle" ~> client.disconnects[d] = "done"
    /\ \A r \in Requests :
        client.requests[r] # "idle"
            ~> \/ client.requests[r] \in {"answered", "error"}
               \/ client.requests[r] = "lost" /\ client.session.state = "removed"
               \/ /\ client.requests[r] = "parked"
                  /\ ~client.retry \/ client.overtaken \/ client.crossed
=============================================================================
