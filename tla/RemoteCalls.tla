----------------------------- MODULE RemoteCalls -----------------------------
(***************************************************************************)
(* What a secure channel promises the one who performs transactions on it: *)
(* the server takes a request at most once and only if it was made; the    *)
(* caller is called back once, with an answer only if the server took the  *)
(* request; and when the channel goes, nobody is left waiting.             *)
(***************************************************************************)
CONSTANT Transactions

VARIABLES
    asked,      \* what the caller knows: "idle", "pending", "answered" or "failed"
    taken,      \* the requests the server has taken
    up          \* is the channel there?

vars == <<asked, taken, up>>

Init ==
    /\ asked = [t \in Transactions |-> "idle"]
    /\ taken = {}
    /\ up = TRUE

Ask(t) ==
    /\ up
    /\ asked[t] = "idle"
    /\ asked' = [asked EXCEPT ![t] = "pending"]
    /\ UNCHANGED <<taken, up>>

\* Without a channel, and while it is going, a call fails at once.
Refuse(t) ==
    /\ asked[t] = "idle"
    /\ asked' = [asked EXCEPT ![t] = "failed"]
    /\ UNCHANGED <<taken, up>>

\* The server may take a request whose caller has given up.
Take(t) ==
    /\ asked[t] \in {"pending", "failed"}
    /\ t \notin taken
    /\ taken' = taken \cup {t}
    /\ UNCHANGED <<asked, up>>

Answer(t) ==
    /\ up
    /\ asked[t] = "pending"
    /\ t \in taken
    /\ asked' = [asked EXCEPT ![t] = "answered"]
    /\ UNCHANGED <<taken, up>>

Failed(T) == [t \in Transactions |-> IF t \in T /\ asked[t] = "pending" THEN "failed" ELSE asked[t]]

Fail ==
    /\ \E T \in SUBSET Transactions : asked' = Failed(T)
    /\ UNCHANGED <<taken, up>>

\* All pending transactions fail in the step in which the channel goes.
Go ==
    /\ up
    /\ up' = FALSE
    /\ asked' = Failed(Transactions)
    /\ UNCHANGED taken

Next ==
    \/ \E t \in Transactions : Ask(t) \/ Refuse(t) \/ Take(t) \/ Answer(t)
    \/ Fail
    \/ Go

Spec == Init /\ [][Next]_vars
=============================================================================
