----------------------------- MODULE ItemQueue -----------------------------
(***************************************************************************)
(* The queue of a monitored item (monitored_item.ts): what it holds after  *)
(* a notification is added, after its size has changed and when it is      *)
(* taken, and which notification tells the client that others were lost.   *)
(***************************************************************************)
EXTENDS Integers, Sequences

\* A notification of data carries a status, Good when it bears no mark; the
\* notification of an event (data = FALSE) has none.
Notification == [stamp : Nat, data : BOOLEAN,
                 status : SUBSET {"bad", "gone", "semantic", "overflow"}]

WithBit(n, bit) == IF n.data THEN [n EXCEPT !.status = @ \cup {bit}] ELSE n

WithoutOverflowBit(n) == IF n.data THEN [n EXCEPT !.status = @ \ {"overflow"}] ELSE n

\* (slip: one too many)
Overflows_Late(q, size) == size > 1 /\ Len(q) > size

\* A queue of one is a buffer and never overflows.
Overflows(q, size) == size > 1 /\ Len(q) >= size

\* The notification that tells of the loss: the oldest that stays, or the newest.
Announcer(q, n, oldest) == IF oldest THEN Head(Tail(Append(q, n))) ELSE n

\* _setOverflowBit asserts that the status is Good, without any mark.
BitRefused(q, n, size, oldest) ==
    /\ Overflows(q, size)
    /\ Announcer(q, n, oldest).data
    /\ Announcer(q, n, oldest).status # {}

\* (slip: the bit is set before the oldest is removed)
Enqueued_Before(q, n, size, oldest) ==
    IF size = 1 THEN <<n>>
    ELSE IF ~Overflows(q, size) THEN Append(q, n)
    ELSE IF oldest THEN Tail(Append(q, n))
    ELSE [q EXCEPT ![Len(q)] = WithBit(n, "overflow")]

\* _enqueue_notification. When the bit is refused, the exception leaves the
\* queue as it is by then.
Enqueued(q, n, size, oldest) ==
    LET rest    == Tail(Append(q, n))
        refused == BitRefused(q, n, size, oldest)
    IN  IF size = 1 THEN <<n>>
        ELSE IF ~Overflows(q, size) THEN Append(q, n)
        ELSE IF refused THEN IF oldest THEN rest ELSE q
        ELSE IF oldest THEN [rest EXCEPT ![1] = WithBit(@, "overflow")]
        ELSE [q EXCEPT ![Len(q)] = WithBit(n, "overflow")]

\* (slip: the youngest is not put back)
Shrunk_Oldest(q, size, oldest) ==
    IF Len(q) <= size THEN q
    ELSE IF oldest THEN SubSeq(q, Len(q) - size + 1, Len(q))
    ELSE SubSeq(q, 1, size)

\* What fits in a smaller queue: the youngest, or the oldest and the youngest.
Shrunk(q, size, oldest) ==
    IF Len(q) <= size THEN q
    ELSE IF oldest THEN SubSeq(q, Len(q) - size + 1, Len(q))
    ELSE [SubSeq(q, 1, size) EXCEPT ![size] = q[Len(q)]]

\* _adjust_queue_to_match_new_queue_size
Adjusted(q, size, oldest) ==
    LET fit == Shrunk(q, size, oldest)
    IN  IF size = 1 /\ Len(fit) = 1 THEN <<WithoutOverflowBit(fit[1])>> ELSE fit

\* A change of semantics that no value has told of yet goes with the last one.
Told(q, changed) ==
    IF changed /\ q # <<>> THEN [q EXCEPT ![Len(q)] = WithBit(@, "semantic")] ELSE q
=============================================================================
