----------------------- MODULE RegistrationProperties -----------------------
(***************************************************************************)
(* What a server's registration promises to the server that starts and     *)
(* stops it.                                                               *)
(***************************************************************************)
EXTENDS Registration

\* The state has its type, and _registration_client is a client that nobody has disconnected.
TypeOK ==
    /\ manager \in Manager
    /\ manager.holder # None => manager.client[manager.holder] \in {"preparing", "dialing", "open"}
    /\ lds \in BOOLEAN
    /\ faults \in 0..MaxFaults

\* Nobody forgets a client: one that is not closed is awaited by its activity, which is not
\* over, or is being closed by someone who awaits that (the finally clauses and
\* #_cancel_pending_client_if_any, which take it from each other).
NoClientLeaks ==
    \A a \in Activities :
        manager.client[a] \notin {"none", "closed"} =>
            \/ manager.holder = a /\ manager.activity[a].at \in {"connect", "call"}
            \/ \E b \in Activities : manager.activity[b].closing = a

\* stop() ends, whatever it interrupts and whatever fails, and so does all that it interrupts,
\* for good: no timer is left that would start a renewal, and nothing lists the server again.
\* When it has found no renewal under way, and nothing fails, the discovery server does not
\* list the server any more, even if it came in the middle of the first registration, whose
\* answer never came (stop unregisters whenever it has an endpoint).
Stopped ==
    /\ manager.state = "DISPOSING" /\ ~manager.timer
    /\ \A a \in Activities : manager.activity[a].task \in {"none", "over"}
    /\ ~manager.overlap /\ faults = 0 => ~lds

StopEnds == manager.state = "UNREGISTERING" ~> []Stopped

\* A server that is not stopped is listed in the end, although the errors of registrations are
\* swallowed and the discovery server forgets: a renewal comes after every failure.
ListedAgain == []<>(lds \/ IsTerminating(manager))
=============================================================================
