------------------------- MODULE NotificationStream -------------------------
(***************************************************************************)
(* What one subscription promises its clients, whatever session carries    *)
(* its messages and whatever happens to the sessions: messages numbered    *)
(* one after the other, data in the order it was made and none missing, a  *)
(* copy of each message until it is acknowledged or younger ones take its  *)
(* place, and after the end nothing but notices of status.                 *)
(***************************************************************************)
EXTENDS Integers, Sequences, FiniteSets

CONSTANTS
    MaxPerMessage,  \* data notifications a message may carry
    MaxKept         \* messages kept by a publishing cycle

VARIABLES
    phase,          \* "unborn", "open" or "ended"
    next,           \* the number of the next message
    kept,           \* the numbers of the messages kept for Republish
    produced,       \* data made so far: 1, 2, ..., produced
    delivered,      \* data sent so far: 1, 2, ..., delivered
    said            \* the messages of the latest step

vars == <<phase, next, kept, produced, delivered, said>>

\* A message carries data, a notice of status (0), or nothing: a keep-alive.
Message(n, body) == [seq |-> n, body |-> body]
Notice(n)        == Message(n, <<0>>)

\* What remains when a publishing cycle has made room.
Trimmed == {n \in kept : Cardinality({m \in kept : m > n}) < MaxKept}

-----------------------------------------------------------------------------
Init ==
    /\ phase = "unborn"
    /\ next = 1
    /\ kept = {}
    /\ produced = 0 /\ delivered = 0
    /\ said = <<>>

Open ==
    /\ phase = "unborn"
    /\ phase' = "open"
    /\ said' = <<>>
    /\ UNCHANGED <<next, kept, produced, delivered>>

Produce ==
    /\ phase = "open"
    /\ produced' = produced + 1
    /\ said' = <<>>
    /\ UNCHANGED <<phase, next, kept, delivered>>

\* The items are deleted, and the data they wait with.
Withdraw ==
    /\ phase = "open"
    /\ delivered' = produced
    /\ said' = <<>>
    /\ UNCHANGED <<phase, next, kept, produced>>

Acknowledge ==
    /\ phase = "open"
    /\ \E n \in kept : kept' = kept \ {n}
    /\ said' = <<>>
    /\ UNCHANGED <<phase, next, produced, delivered>>

\* The messages of a step that leaves the messages in rest: the next data, a
\* notice, a keep-alive that announces the next number, or none.
SendData(rest) ==
    \E n \in 1..MaxPerMessage :
        /\ delivered + n <= produced
        /\ said' = <<Message(next, [i \in 1..n |-> delivered + i])>>
        /\ delivered' = delivered + n
        /\ kept' = rest \cup {next}
        /\ next' = next + 1

SendNotice(rest) ==
    /\ said' = <<Notice(next)>>
    /\ kept' = rest \cup {next}
    /\ next' = next + 1
    /\ UNCHANGED delivered

SendKeepAlive(rest) ==
    /\ said' = <<Message(next, <<>>)>>
    /\ kept' = rest
    /\ UNCHANGED <<next, delivered>>

SendNothing(rest) ==
    /\ said' = <<>>
    /\ kept' = rest
    /\ UNCHANGED <<next, delivered>>

\* A publishing cycle makes room first; being fed by a request does not.
Cycle ==
    /\ phase = "open"
    /\ \E rest \in {Trimmed, kept} :
          SendData(rest) \/ SendNotice(rest) \/ SendKeepAlive(rest) \/ SendNothing(rest)
    /\ UNCHANGED <<phase, produced>>

\* Leaving a session, a stream says one thing more if it can; arriving on
\* another, it may take the last value again.
Move ==
    /\ phase = "open"
    /\ SendData(kept) \/ SendNotice(kept) \/ SendNothing(kept)
    /\ produced' \in {produced, produced + 1}
    /\ UNCHANGED phase

\* Everything held is given up; some notices may go at once.
End ==
    /\ phase = "open"
    /\ phase' = "ended"
    /\ next' >= next
    /\ said' = [i \in 1..(next' - next) |-> Notice(next + i - 1)]
    /\ kept' = {}
    /\ produced' = 0 /\ delivered' = 0

\* A notice that waited on a session the stream has left.
LateNotice ==
    /\ phase # "unborn"
    /\ said' = <<Notice(next)>>
    /\ next' = next + 1
    /\ UNCHANGED <<phase, kept, produced, delivered>>

Silence ==
    /\ said' = <<>>
    /\ UNCHANGED <<phase, next, kept, produced, delivered>>

Next ==
    \/ Open \/ Produce \/ Withdraw \/ Acknowledge
    \/ Cycle \/ Move \/ End \/ LateNotice \/ Silence

Spec == Init /\ [][Next]_vars
=============================================================================
