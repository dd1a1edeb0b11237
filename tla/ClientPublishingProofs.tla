----------------------- MODULE ClientPublishingProofs -----------------------
(***************************************************************************)
(* The client's publishing: its count of publish requests is exact and its *)
(* limit never below what the server accepts, and it acknowledges only     *)
(* what it received, whatever the connection and the server do.            *)
(***************************************************************************)
EXTENDS ClientPublishingProperties, SequencePickProofs, SequenceTheorems

-----------------------------------------------------------------------------
(***************************************************************************)
(* The messages.                                                           *)
(***************************************************************************)
Notice == Ids \X Numbers

Notification ==
    [kind : {"message"}, id : Ids, number : Numbers, content : {"data", "keepalive", "timeout"}]

ToServer ==
    [kind : {"publish"}, acks : SUBSET Notice]
      \cup [kind : {"activate", "session", "close", "create"}]
      \cup [kind : {"transfer"}, ids : SUBSET Ids]
      \cup [kind : {"delete"}, id : Ids \cup {Pending}]
      \cup [kind : {"republish"}, id : Int, number : Int]

ToClient ==
    Notification
      \cup [kind : {"fault"},
            code : {"session", "channel", "no subscription", "too many"}]
      \cup [kind : {"answer"}, to : {"activate", "session", "close", "delete"},
            result : {"good", "bad", "refused"}]
      \cup [kind : {"answer"}, to : {"transfer", "create", "republish"},
            result : {"bad", "refused", "no such subscription", "not available"}]
      \cup [kind : {"answer"}, to : {"transfer"}, result : {"good"}, ids : SUBSET Ids]
      \cup [kind : {"answer"}, to : {"create"}, result : {"good"}, id : Ids]
      \cup [kind : {"answer"}, to : {"republish"}, result : {"good"}, message : Notification]

\* A client at rest, or in the middle of a step that has sent something.
Client ==
    [up : BOOLEAN, suspended : BOOLEAN, pending : Int, limit : Nat,
     acks : SUBSET Notice, active : Int, subs : SUBSET Ids,
     soon : Nat, waiting : Nat, id : Ids \cup {Pending, Terminating, Terminated},
     last : Numbers \cup {-1}, received : SUBSET Notice,
     step : Steps, fresh : BOOLEAN, todo : SUBSET Ids, out : Seq(ToServer)]

Server ==
    [session : BOOLEAN, bound : BOOLEAN, queue : 0 .. Capacity, farewells : SUBSET Ids,
     subs : [Ids -> [phase : {"none", "live", "gone"}, here : BOOLEAN,
                     next : Numbers, sent : SUBSET Numbers]]]

\* What a message is about: the request, or what is answered.
Topic(m) == IF m.kind = "answer" THEN m.to ELSE m.kind

\* The messages of s about the topics T, and their number
About(s, T) == {n \in 1 .. Len(s) : Topic(s[n]) \in T}
Count(s, T) == Cardinality(About(s, T))

\* What ends a publish request
Endings == {"message", "fault"}

-----------------------------------------------------------------------------
(***************************************************************************)
(* The inductive invariant.                                                *)
(***************************************************************************)

\* The variables and the connection
StateInv ==
    /\ client \in Client /\ client.out = <<>>
    /\ server \in Server /\ (server.bound => server.session)
    /\ toServer \in Seq(ToServer) /\ toClient \in Seq(ToClient)
    /\ ~client.up => /\ ~server.bound /\ client.step \in {"idle", "retry"}
                     /\ toServer = <<>> /\ toClient = <<>>

\* The repair sends one request at a time: those that bind the session to the
\* channel, then those that bring the subscriptions back.
Binding == {"activate", "session", "close"}
Repairing == Binding \cup {"transfer", "republish"}

\* The request that a step of the repair waits for
Awaited(step) ==
    CASE step \in {"activate", "reactivate"} -> {"activate"}
      [] step \in {"session", "close", "transfer", "republish"} -> {step}
      [] OTHER -> {}

Fits(m, step) == Topic(m) \in Repairing => Topic(m) \in Awaited(step)

\* The request the repair waits for, or its answer, is under way once; no
\* other is. A session is bound only when the request that binds it is done.
RepairInv ==
    /\ Count(toServer, Repairing) + Count(toClient, Repairing) <= 1
    /\ \A n \in 1 .. Len(toServer) : Fits(toServer[n], client.step)
    /\ \A n \in 1 .. Len(toClient) : Fits(toClient[n], client.step)
    /\ server.bound =>
          /\ client.step \notin {"begin", "session", "close", "retry"}
          /\ \A n \in 1 .. Len(toServer) : Topic(toServer[n]) \notin Binding
          /\ \A n \in 1 .. Len(toClient) :
                Topic(toClient[n]) = "activate" => toClient[n].result = "good"

\* The steps that follow once the session is bound to the channel
Restoring == {"idle", "transfer", "recreate", "pause", "republish", "replace"}

\* A message that only a bound session gives rise to
OfBound(m) ==
    \/ m.kind = "message"
    \/ m.kind = "answer" /\ m.to = "activate" /\ m.result = "good"

\* The repair restores the subscriptions when the session is bound, and only a
\* bound session has one deleted or sends its notifications.
BoundInv ==
    /\ (client.up /\ ~server.bound) => client.step \notin Restoring
    /\ ~server.bound =>
          /\ \A n \in 1 .. Len(toServer) : toServer[n].kind # "delete"
          /\ \A n \in 1 .. Len(toClient) : ~OfBound(toClient[n])

\* The publish requests are counted, and when the server had too many it
\* holds as many as it accepts, or has answered them since.
CountInv ==
    /\ client.pending = IF client.up THEN Outstanding ELSE 0
    /\ client.limit >= Capacity
    /\ \A n \in 1 .. Len(toClient) :
          toClient[n].kind = "fault" /\ toClient[n].code = "too many" =>
             /\ server.bound
             /\ server.queue + Count(toClient, Endings)
                  - Rank(About(toClient, Endings), n) >= Capacity

\* What the client acknowledges it has received.
AckInv ==
    /\ client.acks \subseteq client.received
    /\ \A n \in 1 .. Len(toServer) :
          toServer[n].kind = "publish" => toServer[n].acks \subseteq client.received
    /\ \A i \in Ids : \A n \in 1 .. server.subs[i].next - 1 :
          n \in server.subs[i].sent \/ <<i, n>> \in client.received

IInv == StateInv /\ RepairInv /\ BoundInv /\ CountInv /\ AckInv

-----------------------------------------------------------------------------
(***************************************************************************)
(* Counting messages.                                                      *)
(***************************************************************************)
\* The messages about some topics are finitely many.
LEMMA AboutIs ==
    ASSUME NEW S, NEW s \in Seq(S), NEW T
    PROVE  /\ About(s, T) \in SUBSET (1 .. Len(s)) /\ About(s, T) \in SUBSET (Nat \ {0})
           /\ IsFiniteSet(About(s, T)) /\ Count(s, T) \in Nat
           /\ Rank(About(s, T), Len(s)) = Count(s, T)
<1>1. Len(s) \in Nat /\ About(s, T) \in SUBSET (1 .. Len(s))
    BY DEF About
<1>2. IsFiniteSet(1 .. Len(s))
    BY <1>1, FS_Interval
<1>3. IsFiniteSet(About(s, T)) /\ Cardinality(About(s, T)) \in Nat
    BY <1>1, <1>2, FS_Subset, FS_CardinalityType
<1>4. About(s, T) \in SUBSET (Nat \ {0}) /\ \A j \in About(s, T) : j <= Len(s)
    BY <1>1
<1> QED
    BY <1>1, <1>3, <1>4, RankOfLast DEF Count

LEMMA RankIs ==
    ASSUME NEW S, NEW s \in Seq(S), NEW T, NEW n \in 1 .. Len(s)
    PROVE  Rank(About(s, T), n) \in Nat
<1>1. IsFiniteSet(About(s, T))
    BY AboutIs
<1>2. IsFiniteSet({j \in About(s, T) : j <= n})
    BY <1>1, FS_Subset
<1> QED
    BY <1>2, FS_CardinalityType DEF Rank

\* None is counted when none is there.
LEMMA CountNone ==
    ASSUME NEW S, NEW s \in Seq(S), NEW T
    PROVE  Count(s, T) = 0 <=> \A n \in 1 .. Len(s) : Topic(s[n]) \notin T
<1>1. IsFiniteSet(About(s, T))
    BY AboutIs
<1>2. Count(s, T) = 0 <=> About(s, T) = {}
    BY <1>1, FS_EmptySet DEF Count
<1> QED
    BY <1>2 DEF About

LEMMA CountEmpty ==
    ASSUME NEW T
    PROVE  Count(<<>>, T) = 0
<1>1. About(<<>>, T) = {}
    BY DEF About
<1> QED
    BY <1>1, FS_EmptySet DEF Count

\* The message that is alone in its sequence
LEMMA CountOne ==
    ASSUME NEW m, NEW T
    PROVE  Count(<<m>>, T) = IF Topic(m) \in T THEN 1 ELSE 0
<1>1. About(<<m>>, T) = IF Topic(m) \in T THEN {1} ELSE {}
    <2>1. Len(<<m>>) = 1 /\ <<m>>[1] = m
        OBVIOUS
    <2> QED
        BY <2>1 DEF About
<1> QED
    BY <1>1, FS_EmptySet, FS_Singleton DEF Count

\* Messages that are sent join those under way.
LEMMA CountSent ==
    ASSUME NEW S, NEW s \in Seq(S), NEW t \in Seq(S), NEW T
    PROVE  /\ s \o t \in Seq(S) /\ Len(s \o t) = Len(s) + Len(t)
           /\ Count(s \o t, T) = Count(s, T) + Count(t, T)
           /\ \A i \in 1 .. Len(s) : Rank(About(s \o t, T), i) = Rank(About(s, T), i)
           /\ \A n \in 1 .. Len(s \o t) : \/ n \in 1 .. Len(s) /\ (s \o t)[n] = s[n]
                                          \/ \E j \in 1 .. Len(t) : n = Len(s) + j /\ (s \o t)[n] = t[j]
<1> DEFINE r == s \o t
           U == About(r, T)
           K == About(s, T)
           L == About(t, T)
           n == Len(s)
<1>1. /\ r \in Seq(S) /\ Len(r) = n + Len(t) /\ n \in Nat /\ Len(t) \in Nat
      /\ \A i \in 1 .. n : r[i] = s[i]
      /\ \A j \in 1 .. Len(t) : r[n + j] = t[j]
    BY ConcatProperties
<1>2. /\ K \in SUBSET (1 .. n) /\ IsFiniteSet(L) /\ L \in SUBSET (Nat \ {0})
      /\ L \in SUBSET (1 .. Len(t))
    BY AboutIs
<1>3. U \in SUBSET (1 .. Len(r)) /\ IsFiniteSet(U)
    BY <1>1, AboutIs
<1> HIDE DEF r
<1>4. \A i \in 1 .. Len(r) : i \in 1 .. n \/ \E j \in 1 .. Len(t) : i = n + j
    <2>1. ASSUME NEW i \in 1 .. Len(r), ~(i \in 1 .. n)
          PROVE  i - n \in 1 .. Len(t) /\ i = n + (i - n)
        BY <1>1, <2>1
    <2> QED
        BY <2>1
<1>5. U = K \cup {n + j : j \in L}
    <2>1. \A i \in 1 .. n : i \in 1 .. Len(r) /\ (i \in U <=> i \in K)
        BY <1>1 DEF About
    <2>2. ASSUME NEW j \in 1 .. Len(t)
          PROVE  n + j \in 1 .. Len(r) /\ (n + j \in U <=> j \in L)
        BY <1>1 DEF About
    <2> HIDE DEF U, K, L, n
    <2>3. \A i \in U : i \in K \/ \E j \in L : i = n + j
        BY <1>3, <1>4, <2>1, <2>2
    <2>4. \A i \in K : i \in U
        BY <1>2, <2>1
    <2>5. \A j \in L : n + j \in U
        BY <1>2, <2>2
    <2> QED
        BY <2>3, <2>4, <2>5
<1> HIDE DEF U, K, L
<1>6. Cardinality(U) = Cardinality(K) + Cardinality(L) /\ \A i \in 0 .. n : Rank(U, i) = Rank(K, i)
    <2>1. n \in Nat /\ K \in SUBSET (1 .. n) /\ IsFiniteSet(L) /\ L \in SUBSET (Nat \ {0})
        BY <1>1, <1>2
    <2> HIDE DEF n
    <2>2. U = Joined(K, n, L) /\ IsFiniteSet(U)
        BY <1>3, <1>5 DEF Joined
    <2>3. Cardinality(U) = Cardinality(K) + Cardinality(L)
        BY <2>1, <2>2, RankJoined
    <2>4. ASSUME NEW i \in 0 .. n
          PROVE  Rank(U, i) = Rank(K, i)
        BY <2>1, <2>2, RankBefore
    <2> QED
        BY <2>3, <2>4
<1>7. \A i \in 1 .. n : Rank(U, i) = Rank(K, i)
    BY <1>1, <1>6
<1>8. \A i \in 1 .. Len(r) : \/ i \in 1 .. n /\ r[i] = s[i]
                             \/ \E j \in 1 .. Len(t) : i = n + j /\ r[i] = t[j]
    BY <1>1, <1>4
<1> QED
    BY <1>1, <1>6, <1>7, <1>8 DEF Count, U, K, L, r

\* 1 for a message about the topics T
Is(m, T) == IF Topic(m) \in T THEN 1 ELSE 0

\* The first message arrives.
LEMMA CountArrived ==
    ASSUME NEW S, NEW s \in Seq(S), s # <<>>, NEW T
    PROVE  /\ Tail(s) \in Seq(S) /\ Head(s) \in S /\ Head(s) = s[1] /\ 1 \in 1 .. Len(s)
           /\ Count(s, T) = Count(Tail(s), T) + Is(Head(s), T)
           /\ \A n \in 1 .. Len(Tail(s)) :
                 /\ n + 1 \in 1 .. Len(s) /\ Tail(s)[n] = s[n + 1]
                 /\ Rank(About(s, T), n + 1) = Rank(About(Tail(s), T), n) + Is(Head(s), T)
                 /\ Rank(About(Tail(s), T), n) \in Nat
<1> DEFINE t == Tail(s)
           K == About(s, T)
           L == About(t, T)
           a == Is(Head(s), T)
<1>1. /\ t \in Seq(S) /\ Head(s) \in S /\ Len(t) = Len(s) - 1 /\ Len(t) \in Nat
      /\ Head(s) = s[1] /\ Len(s) \in Nat /\ Len(s) >= 1
      /\ \A n \in 1 .. Len(t) : t[n] = s[n + 1]
    OBVIOUS
<1>2. /\ K \in SUBSET (1 .. Len(s)) /\ K \in SUBSET (Nat \ {0}) /\ IsFiniteSet(K)
      /\ Rank(K, Len(s)) = Count(s, T)
    BY AboutIs
<1> HIDE DEF t
<1>3. /\ L \in SUBSET (1 .. Len(t)) /\ L \in SUBSET (Nat \ {0}) /\ IsFiniteSet(L)
      /\ Rank(L, Len(t)) = Count(t, T)
    BY <1>1, AboutIs
<1>4. Beyond(K, 1, L)
    <2>1. ASSUME NEW k \in Nat \ {0}
          PROVE  k \in L <=> 1 + k \in K
        <3>1. k \in 1 .. Len(t) <=> 1 + k \in 1 .. Len(s)
            BY <1>1
        <3>2. k \in 1 .. Len(t) => t[k] = s[1 + k]
            BY <1>1
        <3> QED
            BY <3>1, <3>2 DEF About
    <2> QED
        BY <2>1 DEF Beyond
<1>5. Rank(K, 1) = a /\ a \in {0, 1}
    <2>1. 1 \in K <=> Topic(s[1]) \in T
        BY <1>1 DEF About
    <2>2. {j \in K : j <= 1} = IF 1 \in K THEN {1} ELSE {}
        BY <1>2
    <2> QED
        BY <1>1, <2>1, <2>2, FS_EmptySet, FS_Singleton DEF Rank, Is
<1> HIDE DEF K, L, a
<1>6. ASSUME NEW n \in Nat
      PROVE  Rank(K, 1 + n) = a + Rank(L, n) /\ Rank(L, n) \in Nat
    <2>1. Rank(K, 1 + n) = Rank(K, 1) + Rank(L, n) /\ Rank(L, n) \in Nat
        BY <1>2, <1>3, <1>4, RankShift
    <2> QED
        BY <1>5, <2>1
<1>7. Count(s, T) = Count(t, T) + a
    <2>1. 1 + Len(t) = Len(s)
        BY <1>1
    <2> QED
        BY <1>1, <1>2, <1>3, <1>5, <1>6, <2>1
<1>8. ASSUME NEW n \in 1 .. Len(t)
      PROVE  /\ n + 1 \in 1 .. Len(s) /\ t[n] = s[n + 1]
             /\ Rank(K, n + 1) = Rank(L, n) + a /\ Rank(L, n) \in Nat
    <2>1. n \in Nat /\ n + 1 = 1 + n /\ n + 1 \in 1 .. Len(s)
        BY <1>1
    <2>2. Rank(K, n + 1) = a + Rank(L, n) /\ Rank(L, n) \in Nat
        BY <1>6, <2>1
    <2> QED
        BY <1>1, <1>5, <2>1, <2>2
<1> QED
    BY <1>1, <1>7, <1>8 DEF K, L, a, t

-----------------------------------------------------------------------------
(***************************************************************************)
(* The engine's own steps send nothing and count nothing.                  *)
(***************************************************************************)
\* d is c, after calls that ask for publish requests or stop asking.
Calm(c, d) ==
    /\ d \in Client
    /\ d.up = c.up /\ d.pending = c.pending /\ d.limit = c.limit /\ d.acks = c.acks
    /\ d.id = c.id /\ d.last = c.last /\ d.received = c.received
    /\ d.step = c.step /\ d.fresh = c.fresh /\ d.todo = c.todo /\ d.out = c.out

\* Constants of the module
LEMMA Constants ==
    /\ Pipeline \in Nat /\ Capacity \in Nat /\ Capacity >= 1
    /\ MaxAccepted \in Nat /\ MaxAccepted >= Capacity /\ MaxMessages \in Nat
    /\ Pending \notin Ids /\ Terminating \notin Ids /\ Terminated \notin Ids
    /\ Ids \in SUBSET Nat /\ IsFiniteSet(Ids)
BY PublishingAssumption DEF Pending, Terminating, Terminated

LEMMA RequestedCalm ==
    ASSUME NEW c \in Client, NEW n \in Nat
    PROVE  Calm(c, Requested(c, n))
<1> DEFINE a == [c EXCEPT !.soon = @ + n]
           b == [c EXCEPT !.waiting = @ + n]
<1>1. c.soon + n \in Nat /\ c.waiting + n \in Nat
    BY DEF Client
<1>2. Calm(c, c)
    BY DEF Calm
<1>3. Calm(c, a)
    BY <1>1 DEF Calm, Client
<1>4. Calm(c, b)
    BY <1>1 DEF Calm, Client
<1> QED
    BY <1>2, <1>3, <1>4 DEF Requested

LEMMA ReplenishedCalm ==
    ASSUME NEW c \in Client
    PROVE  Calm(c, Replenished(c))
BY Constants, RequestedCalm DEF Replenished

LEMMA RegisteredCalm ==
    ASSUME NEW c \in Client, NEW id \in Ids
    PROVE  Calm(c, Registered(c, id))
<1> DEFINE a == [c EXCEPT !.active = @ + 1, !.subs = @ \cup {id}]
<1>1. a \in Client /\ Calm(c, a)
    <2>1. c.active + 1 \in Int /\ c.subs \cup {id} \in SUBSET Ids
        BY DEF Client
    <2> QED
        BY <2>1 DEF Calm, Client
<1>2. Registered(c, id) = Replenished(a)
    BY DEF Registered
<1> HIDE DEF a
<1> QED
    BY <1>1, <1>2, ReplenishedCalm DEF Calm

LEMMA UnregisteredCalm ==
    ASSUME NEW c \in Client, NEW id
    PROVE  Calm(c, Unregistered(c, id))
<1>1. c.active - 1 \in Int /\ c.subs \ {id} \in SUBSET Ids
    BY DEF Client
<1> QED
    BY <1>1 DEF Calm, Client, Unregistered

LEMMA ResumedCalm ==
    ASSUME NEW c \in Client
    PROVE  Calm(c, Resumed(c))
<1> DEFINE a == [c EXCEPT !.suspended = FALSE]
<1>1. a \in Client /\ Calm(c, a)
    BY DEF Calm, Client
<1>2. Calm(c, c)
    BY DEF Calm
<1>3. Resumed(c) = IF c.suspended THEN Replenished(a) ELSE c
    BY DEF Resumed
<1> HIDE DEF a
<1> QED
    BY <1>1, <1>2, <1>3, ReplenishedCalm DEF Calm

LEMMA RenewedCalm ==
    ASSUME NEW c \in Client, NEW active
    PROVE  Calm(c, Renewed(c, active))
<1>1. Calm(c, c)
    BY DEF Calm
<1>2. Calm(c, Requested(c, 1))
    BY RequestedCalm
<1> QED
    BY <1>1, <1>2 DEF Renewed

-----------------------------------------------------------------------------
(***************************************************************************)
(* The subscription's own steps ask the server, at most, to delete it.     *)
(***************************************************************************)
\* What a step has sent: nothing, or one request of a kind in ks
Sent(c, ks) ==
    \/ c.out = <<>>
    \/ c.up /\ \E r \in ToServer : c.out = <<r>> /\ r.kind \in ks

\* d is c, when the subscription has taken note of something.
Quiet(c, d) ==
    /\ d \in Client
    /\ d.up = c.up /\ d.pending = c.pending /\ d.limit = c.limit /\ d.acks = c.acks
    /\ d.received = c.received /\ d.step = c.step /\ Sent(d, {"delete"})

\* A request is the only one a step sends.
LEMMA RequestIs ==
    ASSUME NEW c \in Client, c.out = <<>>, NEW r \in ToServer
    PROVE  /\ Request(c, r) \in Client /\ Request(c, r).out = <<r>>
           /\ Request(c, r).up = c.up /\ Request(c, r).pending = c.pending
           /\ Request(c, r).limit = c.limit /\ Request(c, r).acks = c.acks
           /\ Request(c, r).received = c.received /\ Request(c, r).step = c.step
<1>1. Append(c.out, r) = <<r>> /\ <<r>> \in Seq(ToServer)
    OBVIOUS
<1>2. Request(c, r) = [c EXCEPT !.out = <<r>>]
    BY <1>1 DEF Request
<1> QED
    BY <1>1, <1>2 DEF Client

LEMMA RequestSent ==
    ASSUME NEW c \in Client, c.out = <<>>, c.up, NEW r \in ToServer, NEW ks, r.kind \in ks
    PROVE  Sent(Request(c, r), ks)
BY RequestIs DEF Sent

LEMMA TerminatesQuiet ==
    ASSUME NEW c \in Client, c.out = <<>>
    PROVE  Quiet(c, Terminates(c))
<1>1. CASE c.id \in {Terminated, Terminating}
    BY <1>1 DEF Terminates, Quiet, Sent
<1>2. CASE c.id \notin {Terminated, Terminating}
    <2>1. c.id \in Ids \cup {Pending}
        BY <1>2 DEF Client
    <2> DEFINE a == Unregistered([c EXCEPT !.id = Terminating], c.id)
               b == Unregistered([c EXCEPT !.id = Terminated], c.id)
               r == [kind |-> "delete", id |-> c.id]
    <2>2. r \in ToServer /\ r.kind = "delete"
        BY <2>1 DEF ToServer
    <2>3. Calm([c EXCEPT !.id = Terminating], a) /\ Calm([c EXCEPT !.id = Terminated], b)
        <3>1. [c EXCEPT !.id = Terminating] \in Client /\ [c EXCEPT !.id = Terminated] \in Client
            BY DEF Client
        <3> QED
            BY <3>1, UnregisteredCalm
    <2>4. /\ a \in Client /\ a.out = <<>> /\ a.up = c.up /\ a.pending = c.pending
          /\ a.limit = c.limit /\ a.acks = c.acks /\ a.received = c.received /\ a.step = c.step
        BY <2>3 DEF Calm, Client
    <2>5. Quiet(c, b)
        BY <2>3 DEF Calm, Client, Quiet, Sent
    <2>6. Terminates(c) = IF c.up THEN Request(a, r) ELSE b
        BY <1>2 DEF Terminates
    <2> HIDE DEF a, b, r
    <2>7. c.up => Quiet(c, Request(a, r))
        BY <2>2, <2>4, RequestIs DEF Quiet, Sent
    <2> QED
        BY <2>5, <2>6, <2>7
<1> QED
    BY <1>1, <1>2

LEMMA NotifiedQuiet ==
    ASSUME NEW c \in Client, c.out = <<>>, NEW m, m.number \in Numbers
    PROVE  Quiet(c, Notified(c, m))
<1> DEFINE d == [c EXCEPT !.last = m.number]
<1>1. d \in Client /\ d.out = <<>> /\ Quiet(c, d)
    BY DEF Client, Quiet, Sent
<1>2. Notified(c, m) = IF m.content = "timeout" THEN Terminates(d) ELSE d
    BY DEF Notified
<1> HIDE DEF d
<1>3. Quiet(d, Terminates(d))
    BY <1>1, TerminatesQuiet
<1> QED
    BY <1>1, <1>2, <1>3 DEF Quiet

-----------------------------------------------------------------------------
(***************************************************************************)
(* The repair asks for one thing at a time.                                *)
(***************************************************************************)
\* d is c, after steps of the repair that leave the session bound.
Restored(c, d) ==
    /\ d \in Client
    /\ d.up = c.up /\ d.pending = c.pending /\ d.limit = c.limit /\ d.acks = c.acks
    /\ c.received \subseteq d.received /\ d.step \in Restoring
    /\ Sent(d, {"create", "delete"} \cup Awaited(d.step))

LEMMA RepairedRestores ==
    ASSUME NEW c \in Client, Sent(c, {"delete"})
    PROVE  /\ Repaired(c) \in Client /\ Repaired(c).out = c.out /\ Repaired(c).step = "idle"
           /\ Repaired(c).up = c.up /\ Repaired(c).pending = c.pending
           /\ Repaired(c).limit = c.limit /\ Repaired(c).acks = c.acks
           /\ Repaired(c).received = c.received
<1> DEFINE d == IF c.subs = {} THEN c ELSE Replenished(c)
           e == IF c.fresh THEN Resumed(d) ELSE d
<1>1. Calm(c, c)
    BY DEF Calm
<1>2. d \in Client /\ Calm(c, d)
    BY <1>1, ReplenishedCalm DEF Calm
<1>3. Repaired(c) = [e EXCEPT !.step = "idle", !.todo = {}]
    BY DEF Repaired
<1> HIDE DEF d
<1>4. Calm(c, e)
    BY <1>2, ResumedCalm DEF Calm
<1> HIDE DEF e
<1>5. e \in Client
    BY <1>4 DEF Calm
<1>6. [e EXCEPT !.step = "idle", !.todo = {}] \in Client
    BY <1>5 DEF Client, Steps
<1> QED
    BY <1>3, <1>4, <1>5, <1>6 DEF Calm, Client

LEMMA RepublishingRestores ==
    ASSUME NEW c \in Client, c.out = <<>>
    PROVE  Restored(c, Republishing(c))
<1>1. Restored(c, Repaired(c))
    BY RepairedRestores DEF Restored, Restoring, Sent
<1>2. Restored(c, [c EXCEPT !.step = "pause"])
    BY DEF Restored, Restoring, Client, Steps, Sent
<1> QED
    BY <1>1, <1>2 DEF Republishing

LEMMA RecreatingRestores ==
    ASSUME NEW c \in Client, c.out = <<>>, c.up, NEW step \in {"recreate", "replace"}
    PROVE  Restored(c, Recreating(c, step))
<1> DEFINE a == [c EXCEPT !.step = step]
           b == Unregistered(a, c.id)
           r == [kind |-> "create"]
<1>1. a \in Client /\ a.step = step /\ Calm([c EXCEPT !.step = step], a)
    BY DEF Client, Steps, Calm
<1>2. Calm(a, b)
    BY <1>1, UnregisteredCalm
<1>3. /\ b \in Client /\ b.out = <<>> /\ b.up = c.up /\ b.pending = c.pending
      /\ b.limit = c.limit /\ b.acks = c.acks /\ b.received = c.received /\ b.step = step
    BY <1>1, <1>2 DEF Calm, Client
<1>4. r \in ToServer /\ r.kind = "create"
    BY DEF ToServer
<1>5. Recreating(c, step) = Request(b, r)
    BY DEF Recreating
<1> HIDE DEF a, b, r
<1>6. Sent(Request(b, r), {"create", "delete"} \cup Awaited(step))
    <2>1. r.kind \in {"create", "delete"} \cup Awaited(step) /\ b.up
        BY <1>3, <1>4
    <2> QED
        BY <1>3, <1>4, <2>1, RequestSent
<1>7. Request(b, r) \in Client /\ Request(b, r).step = step /\ step \in Restoring
    BY <1>3, <1>4, RequestIs DEF Restoring
<1>8. /\ Request(b, r).up = c.up /\ Request(b, r).pending = c.pending
      /\ Request(b, r).limit = c.limit /\ Request(b, r).acks = c.acks
      /\ Request(b, r).received = c.received
    BY <1>3, <1>4, RequestIs
<1> QED
    BY <1>5, <1>6, <1>7, <1>8 DEF Restored

LEMMA RecreatingNextRestores ==
    ASSUME NEW c \in Client, c.out = <<>>, c.up
    PROVE  Restored(c, RecreatingNext(c))
<1> DEFINE id == CHOOSE id \in c.todo \cap c.subs : TRUE
           a  == [c EXCEPT !.todo = @ \ {id}]
<1>1. /\ a \in Client /\ a.out = <<>> /\ a.up = c.up /\ a.pending = c.pending
      /\ a.limit = c.limit /\ a.acks = c.acks /\ a.received = c.received
    BY DEF Client
<1>2. RecreatingNext(c) \in {Republishing(c), Recreating(a, "recreate")}
    BY DEF RecreatingNext
<1> HIDE DEF a
<1>3. Restored(c, Republishing(c))
    BY RepublishingRestores
<1>4. Restored(a, Recreating(a, "recreate"))
    BY <1>1, RecreatingRestores
<1> QED
    BY <1>1, <1>2, <1>3, <1>4 DEF Restored

LEMMA TransferringRestores ==
    ASSUME NEW c \in Client, c.out = <<>>, c.up
    PROVE  Restored(c, Transferring(c))
<1> DEFINE a == [c EXCEPT !.step = "transfer"]
           r == [kind |-> "transfer", ids |-> c.subs]
<1>1. /\ a \in Client /\ a.out = <<>> /\ a.up = c.up /\ a.pending = c.pending
      /\ a.limit = c.limit /\ a.acks = c.acks /\ a.received = c.received
      /\ a.step = "transfer"
    BY DEF Client, Steps
<1>2. r \in ToServer /\ r.kind \in Awaited("transfer")
    BY DEF ToServer, Client, Awaited
<1>3. Transferring(c) \in {Republishing(c), Request(a, r)}
    BY DEF Transferring
<1> HIDE DEF a, r
<1>4. Restored(c, Republishing(c))
    BY RepublishingRestores
<1>5. Sent(Request(a, r), {"create", "delete"} \cup Awaited("transfer"))
    BY <1>1, <1>2, RequestSent
<1>6. Restored(c, Request(a, r))
    BY <1>1, <1>2, <1>5, RequestIs DEF Restored, Restoring
<1> QED
    BY <1>3, <1>4, <1>6

\* d is c, after a step of the repair that waits for the session to be bound.
Rebinds(c, d) ==
    /\ d \in Client
    /\ d.up = c.up /\ d.pending = c.pending /\ d.limit = c.limit /\ d.acks = c.acks
    /\ d.received = c.received
    /\ d.step \in {"activate", "session", "reactivate", "close", "retry"}
    /\ Sent(d, Binding \cap Awaited(d.step))

LEMMA RequestRebinds ==
    ASSUME NEW c \in Client, c.out = <<>>, c.up,
           NEW kind \in Binding, NEW fresh \in BOOLEAN, NEW suspended \in BOOLEAN,
           NEW step \in {"activate", "session", "reactivate", "close"},
           kind \in Awaited(step)
    PROVE  Rebinds(c, Request([c EXCEPT !.step = step, !.fresh = fresh,
                                        !.suspended = suspended],
                              [kind |-> kind]))
<1> DEFINE d == [c EXCEPT !.step = step, !.fresh = fresh, !.suspended = suspended]
           r == [kind |-> kind]
<1>1. r \in ToServer /\ r.kind \in Binding \cap Awaited(step)
    BY DEF ToServer, Binding
<1>2. /\ d \in Client /\ d.out = <<>> /\ d.up = c.up /\ d.pending = c.pending
      /\ d.limit = c.limit /\ d.acks = c.acks /\ d.received = c.received /\ d.step = step
    <2>1. step \in Steps
        BY DEF Steps
    <2>2. d \in Client
        BY <2>1 DEF Client
    <2> QED
        BY <2>2 DEF Client
<1> HIDE DEF d, r
<1>3. Sent(Request(d, r), Binding \cap Awaited(step))
    BY <1>1, <1>2, RequestSent
<1>4. Rebinds(c, Request(d, r))
    BY <1>1, <1>2, <1>3, RequestIs DEF Rebinds
<1> QED
    BY <1>4 DEF d, r

LEMMA ActivatingRebinds ==
    ASSUME NEW c \in Client, c.out = <<>>, c.up
    PROVE  Rebinds(c, Activating(c)) /\ Activating(c).step = "activate"
<1> DEFINE d == [c EXCEPT !.step = "activate", !.fresh = FALSE]
           r == [kind |-> "activate"]
<1>1. c.suspended \in BOOLEAN /\ "activate" \in Binding /\ "activate" \in Awaited("activate")
    BY DEF Client, Binding, Awaited
<1>2. Activating(c) = Request([c EXCEPT !.step = "activate", !.fresh = FALSE,
                                        !.suspended = c.suspended], r)
    BY DEF Activating, Client
<1>3. d \in Client /\ d.out = <<>> /\ d.step = "activate" /\ r \in ToServer
    BY DEF Client, Steps, ToServer
<1> QED
    BY <1>1, <1>2, <1>3, RequestRebinds, RequestIs DEF Activating

\* The server has created a subscription, or refused.
LEMMA CreatedIs ==
    ASSUME NEW c \in Client, c.out = <<>>, c.up, NEW a, a.result = "good" => a.id \in Ids
    PROVE  \/ c.step \in {"recreate", "replace"} /\ Restored(c, Created(c, a))
           \/ Quiet(c, Created(c, a)) /\ Created(c, a).out = <<>>
<1> DEFINE b == [c EXCEPT !.id = a.id]
           d == IF a.result = "good" THEN Registered(b, a.id) ELSE c
<1>1. a.result = "good" => b \in Client /\ Calm(b, Registered(b, a.id))
    BY RegisteredCalm DEF Client
<1>2. /\ d \in Client /\ d.out = <<>> /\ d.up = c.up /\ d.pending = c.pending
      /\ d.limit = c.limit /\ d.acks = c.acks /\ d.received = c.received /\ d.step = c.step
    <2>1. CASE a.result = "good"
        <3>1. /\ b \in Client /\ b.out = <<>> /\ b.up = c.up /\ b.pending = c.pending
              /\ b.limit = c.limit /\ b.acks = c.acks /\ b.received = c.received
              /\ b.step = c.step
            BY <1>1, <2>1 DEF Client
        <3>2. d = Registered(b, a.id)
            BY <2>1
        <3> HIDE DEF b, d
        <3> QED
            BY <1>1, <2>1, <3>1, <3>2 DEF Calm
    <2>2. CASE a.result # "good"
        BY <2>2
    <2> QED
        BY <2>1, <2>2
<1>3. Created(c, a) = CASE c.step = "recreate" -> RecreatingNext(d)
                        [] c.step = "replace"  -> Repaired(d)
                        [] OTHER               -> d
    BY DEF Created
<1> HIDE DEF d
<1>4. CASE c.step = "recreate"
    <2>1. Restored(d, RecreatingNext(d))
        BY <1>2, RecreatingNextRestores
    <2> QED
        BY <1>2, <1>3, <1>4, <2>1 DEF Restored
<1>5. CASE c.step = "replace"
    <2>1. Sent(d, {"delete"})
        BY <1>2 DEF Sent
    <2>2. Restored(c, Repaired(d))
        BY <1>2, <2>1, RepairedRestores DEF Restored, Restoring, Sent
    <2> QED
        BY <1>3, <1>5, <2>2
<1>6. CASE c.step \notin {"recreate", "replace"}
    BY <1>2, <1>3, <1>6 DEF Quiet, Sent
<1> QED
    BY <1>4, <1>5, <1>6

\* The server has a message to send again, or none, or no such subscription.
LEMMA RepublishedRestores ==
    ASSUME NEW c \in Client, c.out = <<>>, c.up,
           NEW a, a.result = "good" => a.message \in Notification
    PROVE  Restored(c, Republished(c, a))
<1>1. CASE a.result = "good"
    <2> DEFINE m == a.message
               n == Notified(c, m)
               got == n.received \cup {<<m.id, m.number>>}
               d == [n EXCEPT !.step = "pause", !.received = got]
    <2>1. m.id \in Ids /\ m.number \in Numbers
        BY <1>1 DEF Notification
    <2>2. Quiet(c, n)
        BY <2>1, NotifiedQuiet
    <2>3. Republished(c, a) = d
        BY <1>1 DEF Republished
    <2> HIDE DEF n
    <2>4. n \in Client /\ got \in SUBSET Notice /\ n.received \subseteq got
        BY <2>1, <2>2 DEF Quiet, Client, Notice
    <2> HIDE DEF got
    <2>5. /\ d \in Client /\ d.out = n.out /\ d.up = n.up /\ d.pending = n.pending
          /\ d.limit = n.limit /\ d.acks = n.acks /\ d.received = got /\ d.step = "pause"
        BY <2>4 DEF Client, Steps
    <2> HIDE DEF d
    <2>6. Sent(d, {"create", "delete"} \cup Awaited(d.step))
        BY <2>2, <2>5 DEF Quiet, Sent
    <2> QED
        BY <2>2, <2>3, <2>4, <2>5, <2>6 DEF Restored, Restoring, Quiet
<1>2. CASE a.result = "no such subscription" /\ c.id # Terminated
    BY <1>2, RecreatingRestores DEF Republished
<1>3. CASE a.result # "good" /\ ~(a.result = "no such subscription" /\ c.id # Terminated)
    <2>1. Sent(c, {"delete"})
        BY DEF Sent
    <2>2. Restored(c, Repaired(c))
        BY <2>1, RepairedRestores DEF Restored, Restoring, Sent
    <2> QED
        BY <1>3, <2>2 DEF Republished
<1> QED
    BY <1>1, <1>2, <1>3

\* The answers of the server
Answers == {m \in ToClient : m.kind = "answer"}

\* What an answer brings, by what is answered
LEMMA AnswerIs ==
    ASSUME NEW a \in Answers
    PROVE  /\ a.to \in {"activate", "session", "close", "delete", "transfer", "create", "republish"}
           /\ Topic(a) = a.to
           /\ a.to = "transfer" /\ a.result = "good" => a.ids \in SUBSET Ids
           /\ a.to = "create" /\ a.result = "good" => a.id \in Ids
           /\ a.to = "republish" /\ a.result = "good" => a.message \in Notification
<1>1. a \in ToClient /\ a.kind = "answer" /\ a \notin Notification
    BY DEF Answers, Notification
<1>2. a \notin [kind : {"fault"}, code : {"session", "channel", "no subscription", "too many"}]
    BY <1>1
<1> QED
    BY <1>1, <1>2 DEF ToClient, Topic

\* One answer moves the repair one step, or none.
LEMMA AnsweredIs ==
    ASSUME NEW c \in Client, c.out = <<>>, c.up, NEW a \in Answers
    PROVE  \/ a.to \notin Repairing /\ Quiet(c, Answered(c, a)) /\ Answered(c, a).out = <<>>
           \/ /\ Restored(c, Answered(c, a))
              /\ \/ a.to \in {"transfer", "republish"}
                 \/ a.to = "activate" /\ a.result = "good"
                 \/ c.step \in {"recreate", "replace"}
           \/ /\ Rebinds(c, Answered(c, a))
              /\ a.to \in Binding /\ ~(a.to = "activate" /\ a.result = "good")
<1> DEFINE d == Answered(c, a)
           good == a.result = "good"
<1>1. c.fresh \in BOOLEAN /\ c.suspended \in BOOLEAN /\ TRUE \in BOOLEAN /\ FALSE \in BOOLEAN
    BY DEF Client
<1>2. CASE a.to = "activate" /\ good
    <2>1. d = IF c.fresh THEN Transferring(c) ELSE Republishing(c)
        BY <1>2 DEF Answered
    <2> QED
        BY <1>2, <2>1, TransferringRestores, RepublishingRestores DEF Repairing, Binding
<1>3. CASE a.to = "activate" /\ ~good
    <2>1. d = IF c.fresh THEN Request([c EXCEPT !.step = "close"], [kind |-> "close"])
              ELSE Reopening(c)
        BY <1>3 DEF Answered
    <2>2. [c EXCEPT !.step = "close"] =
          [c EXCEPT !.step = "close", !.fresh = c.fresh, !.suspended = c.suspended]
        BY DEF Client
    <2>3. Rebinds(c, Request([c EXCEPT !.step = "close"], [kind |-> "close"]))
        BY <1>1, <2>2, RequestRebinds DEF Binding, Awaited
    <2>4. Reopening(c) = Request([c EXCEPT !.step = "session", !.fresh = TRUE,
                                          !.suspended = TRUE], [kind |-> "session"])
        BY DEF Reopening
    <2>5. Rebinds(c, Reopening(c))
        BY <1>1, <2>4, RequestRebinds DEF Binding, Awaited
    <2> QED
        BY <1>3, <2>1, <2>3, <2>5 DEF Binding
<1>4. CASE a.to = "session" /\ good
    <2>1. d = Request([c EXCEPT !.step = "reactivate"], [kind |-> "activate"])
        BY <1>4 DEF Answered
    <2>2. [c EXCEPT !.step = "reactivate"] =
          [c EXCEPT !.step = "reactivate", !.fresh = c.fresh, !.suspended = c.suspended]
        BY DEF Client
    <2>3. Rebinds(c, Request([c EXCEPT !.step = "reactivate"], [kind |-> "activate"]))
        BY <1>1, <2>2, RequestRebinds DEF Binding, Awaited
    <2> QED
        BY <1>4, <2>1, <2>3 DEF Binding
<1>5. CASE a.to = "transfer"
    <2> DEFINE e == [c EXCEPT !.todo = IF good THEN c.subs \ a.ids ELSE c.subs]
    <2>1. d = RecreatingNext(e)
        BY <1>5 DEF Answered
    <2>2. /\ e \in Client /\ e.out = <<>> /\ e.up = c.up /\ e.pending = c.pending
          /\ e.limit = c.limit /\ e.acks = c.acks /\ e.received = c.received
        BY DEF Client
    <2> HIDE DEF e
    <2>3. Restored(e, RecreatingNext(e))
        BY <2>2, RecreatingNextRestores
    <2> QED
        BY <1>5, <2>1, <2>2, <2>3 DEF Restored, Repairing
<1>6. CASE a.to = "create"
    <2>1. d = Created(c, a)
        BY <1>6 DEF Answered
    <2>2. a.to \notin Repairing
        BY <1>6 DEF Repairing, Binding
    <2>3. a.result = "good" => a.id \in Ids
        BY <1>6, AnswerIs
    <2> QED
        BY <2>1, <2>2, <2>3, CreatedIs
<1>7. CASE a.to = "republish"
    <2>1. d = Republished(c, a)
        BY <1>7 DEF Answered
    <2>2. a.result = "good" => a.message \in Notification
        BY <1>7, AnswerIs
    <2> QED
        BY <1>7, <2>1, <2>2, RepublishedRestores DEF Repairing
<1>8. CASE a.to = "delete"
    <2>1. d = [c EXCEPT !.id = Terminated]
        BY <1>8 DEF Answered
    <2>2. Quiet(c, d) /\ d.out = <<>>
        BY <2>1 DEF Quiet, Client, Sent
    <2> QED
        BY <1>8, <2>2 DEF Repairing, Binding
<1>9. CASE a.to = "close" \/ (a.to = "session" /\ ~good)
    <2>1. d = [c EXCEPT !.step = "retry"]
        BY <1>9 DEF Answered
    <2>2. Rebinds(c, d)
        BY <2>1 DEF Rebinds, Client, Steps, Sent
    <2> QED
        BY <1>9, <2>2 DEF Binding
<1> QED
    BY <1>2, <1>3, <1>4, <1>5, <1>6, <1>7, <1>8, <1>9, AnswerIs

-----------------------------------------------------------------------------
(***************************************************************************)
(* The callbacks of publish requests, and the requests.                    *)
(***************************************************************************)
\* A response is counted off; what it brings is received, and acknowledged.
LEMMA ReceivedIs ==
    ASSUME NEW c \in Client, c.out = <<>>, NEW m \in Notification,
           NEW d, d = Received(c, m)
    PROVE  /\ d \in Client /\ d.up = c.up /\ d.pending = c.pending - 1 /\ d.limit = c.limit
           /\ d.step = c.step /\ Sent(d, {"delete"})
           /\ c.received \subseteq d.received
           /\ c.acks \subseteq c.received => d.acks \subseteq d.received
<1> DEFINE data == IF m.content = "keepalive" THEN {} ELSE {<<m.id, m.number>>}
           acks == c.acks \cup data
           got  == c.received \cup data
           e == [c EXCEPT !.pending = @ - 1, !.acks = acks, !.received = got]
           n == IF m.id \in e.subs THEN Notified(e, m) ELSE e
<1>1. m.id \in Ids /\ m.number \in Numbers /\ <<m.id, m.number>> \in Notice
    BY DEF Notification, Notice
<1>2. data \in SUBSET Notice
    BY <1>1
<1>3. d = Renewed(n, TRUE)
    BY DEF Received
<1> HIDE DEF data
<1>4. acks \in SUBSET Notice /\ got \in SUBSET Notice /\ c.pending - 1 \in Int
    BY <1>2 DEF Client
<1> HIDE DEF acks, got
<1>5. /\ e \in Client /\ e.out = <<>> /\ e.up = c.up /\ e.pending = c.pending - 1
      /\ e.limit = c.limit /\ e.acks = acks /\ e.received = got /\ e.step = c.step
    BY <1>4 DEF Client
<1> HIDE DEF e
<1>6. Quiet(e, e)
    BY <1>5 DEF Quiet, Sent
<1>7. Quiet(e, n)
    BY <1>1, <1>5, <1>6, NotifiedQuiet
<1> HIDE DEF n
<1>8. Calm(n, d)
    BY <1>3, <1>7, RenewedCalm DEF Quiet
<1>9. Sent(d, {"delete"})
    BY <1>7, <1>8 DEF Quiet, Calm, Sent
<1> QED
    BY <1>5, <1>7, <1>8, <1>9 DEF Quiet, Calm, acks, got

\* A refusal is counted off; the limit falls to the count at the least.
LEMMA RejectedIs ==
    ASSUME NEW c \in Client, c.out = <<>>, c.pending >= 1, NEW code,
           NEW d, d = Rejected(c, code)
    PROVE  /\ d \in Client /\ d.up = c.up /\ d.pending = c.pending - 1
           /\ d.limit = c.limit \/ (code = "too many" /\ d.limit = c.pending - 1)
           /\ d.step = c.step /\ d.out = <<>>
           /\ d.received = c.received /\ d.acks = c.acks
<1> DEFINE e == [c EXCEPT !.pending = @ - 1]
           l == [e EXCEPT !.limit = e.pending]
           w == Renewed(e, code = "no subscription" /\ e.active < 1)
<1>1. c.pending - 1 \in Nat
    BY DEF Client
<1>2. /\ e \in Client /\ e.out = <<>> /\ e.up = c.up /\ e.pending = c.pending - 1
      /\ e.limit = c.limit /\ e.acks = c.acks /\ e.received = c.received /\ e.step = c.step
    BY <1>1 DEF Client
<1>3. d = IF code = "too many" /\ e.pending < e.limit THEN l ELSE w
    BY DEF Rejected
<1> HIDE DEF e
<1>4. /\ l \in Client /\ l.out = <<>> /\ l.up = c.up /\ l.pending = c.pending - 1
      /\ l.limit = c.pending - 1 /\ l.acks = c.acks /\ l.received = c.received
      /\ l.step = c.step
    BY <1>1, <1>2 DEF Client
<1>5. Calm(e, w)
    BY <1>2, RenewedCalm
<1> HIDE DEF l, w
<1>6. CASE code = "too many" /\ e.pending < e.limit
    <2>1. d = l
        BY <1>3, <1>6
    <2> QED
        BY <1>4, <1>6, <2>1
<1>7. CASE ~(code = "too many" /\ e.pending < e.limit)
    <2>1. d = w
        BY <1>3, <1>7
    <2>2. Calm(e, d)
        BY <1>5, <2>1
    <2> QED
        BY <1>2, <2>2 DEF Calm
<1> QED
    BY <1>6, <1>7

\* A publish request is counted when it is sent; the acknowledgements are gone.
LEMMA PublishSentIs ==
    ASSUME NEW c \in Client, c.out = <<>>, NEW d, d = PublishSent(c)
    PROVE  /\ d \in Client /\ d.up = c.up /\ d.limit = c.limit /\ d.step = c.step
           /\ d.received = c.received /\ d.acks = {}
           /\ \/ /\ c.up /\ d.pending = c.pending + 1
                 /\ [kind |-> "publish", acks |-> c.acks] \in ToServer
                 /\ d.out = <<[kind |-> "publish", acks |-> c.acks]>>
              \/ ~c.up /\ d.pending = c.pending /\ d.out = <<>>
<1> DEFINE e == [c EXCEPT !.acks = {}]
           f == [e EXCEPT !.pending = @ + 1]
           r == [kind |-> "publish", acks |-> c.acks]
<1>1. r \in ToServer
    BY DEF ToServer, Client
<1>2. /\ e \in Client /\ e.out = <<>> /\ e.up = c.up /\ e.pending = c.pending
      /\ e.limit = c.limit /\ e.acks = {} /\ e.received = c.received /\ e.step = c.step
    BY DEF Client
<1>3. d = IF c.up THEN Request(f, r) ELSE Renewed(e, TRUE)
    BY DEF PublishSent
<1> HIDE DEF e
<1>4. /\ f \in Client /\ f.out = <<>> /\ f.up = c.up /\ f.pending = c.pending + 1
      /\ f.limit = c.limit /\ f.acks = {} /\ f.received = c.received /\ f.step = c.step
    BY <1>2, SMTT(30) DEF Client
<1> HIDE DEF f, r
<1>5. Calm(e, Renewed(e, TRUE))
    BY <1>2, RenewedCalm
<1>6. CASE c.up
    <2>1. d = Request(f, r)
        BY <1>3, <1>6
    <2>2. /\ d \in Client /\ d.out = <<r>> /\ d.up = f.up /\ d.pending = f.pending
          /\ d.limit = f.limit /\ d.acks = f.acks /\ d.received = f.received
          /\ d.step = f.step
        BY <1>1, <1>4, <2>1, RequestIs
    <2> QED
        BY <1>1, <1>4, <1>6, <2>2 DEF r
<1>7. CASE ~c.up
    BY <1>2, <1>3, <1>5, <1>7 DEF Calm
<1> QED
    BY <1>6, <1>7

-----------------------------------------------------------------------------
(***************************************************************************)
(* A step of the client.                                                   *)
(***************************************************************************)
\* The client is d, has sent at most one request, and rest is left to arrive.
Handles(d, rest) ==
    /\ d \in Client /\ Becomes(d) /\ server' = server /\ toClient' = rest
    /\ rest = toClient \/ (toClient # <<>> /\ rest = Tail(toClient))
    /\ d.up = client.up
    /\ ~d.up => d.out = <<>> /\ d.step \in {"idle", "retry"}
    /\ d.out = <<>> \/ \E r \in ToServer : d.out = <<r>>

\* What is left to arrive, and what is under way to the server
LEMMA RestIs ==
    ASSUME StateInv, NEW d, NEW rest, Handles(d, rest)
    PROVE  /\ rest \in Seq(ToClient) /\ d.out \in Seq(ToServer)
           /\ toServer' = toServer \o d.out /\ toServer' \in Seq(ToServer)
           /\ \A n \in 1 .. Len(rest) : \E k \in 1 .. Len(toClient) : rest[n] = toClient[k]
           /\ \A n \in 1 .. Len(toServer') :
                 \/ \E k \in 1 .. Len(toServer) : toServer'[n] = toServer[k]
                 \/ d.out = <<toServer'[n]>>
<1>1. toServer \in Seq(ToServer) /\ toClient \in Seq(ToClient)
    BY DEF StateInv
<1>2. rest \in Seq(ToClient) /\ \A n \in 1 .. Len(rest) : \E k \in 1 .. Len(toClient) : rest[n] = toClient[k]
    <2>1. CASE rest = toClient
        BY <1>1, <2>1
    <2>2. CASE toClient # <<>> /\ rest = Tail(toClient)
        BY <1>1, <2>2, CountArrived
    <2> QED
        BY <2>1, <2>2 DEF Handles
<1>3. d.out \in Seq(ToServer) /\ toServer' = toServer \o d.out
    BY DEF Handles, Becomes, Client
<1>4. /\ toServer' \in Seq(ToServer)
      /\ \A n \in 1 .. Len(toServer') :
            \/ n \in 1 .. Len(toServer) /\ toServer'[n] = toServer[n]
            \/ \E j \in 1 .. Len(d.out) : toServer'[n] = d.out[j]
    BY <1>1, <1>3, CountSent
<1>5. \A j \in 1 .. Len(d.out) : d.out = <<d.out[j]>>
    <2>1. CASE d.out = <<>>
        BY <2>1
    <2>2. CASE \E r \in ToServer : d.out = <<r>>
        BY <2>2
    <2> QED
        BY <2>1, <2>2 DEF Handles
<1>6. ASSUME NEW n \in 1 .. Len(toServer')
      PROVE  \/ \E k \in 1 .. Len(toServer) : toServer'[n] = toServer[k]
             \/ d.out = <<toServer'[n]>>
    <2>1. CASE n \in 1 .. Len(toServer) /\ toServer'[n] = toServer[n]
        BY <2>1
    <2>2. CASE \E j \in 1 .. Len(d.out) : toServer'[n] = d.out[j]
        <3>1. PICK j \in 1 .. Len(d.out) : toServer'[n] = d.out[j]
            BY <2>2
        <3>2. d.out = <<d.out[j]>>
            BY <1>5
        <3> QED
            BY <3>1, <3>2
    <2> QED
        BY <1>4, <2>1, <2>2
<1> QED
    BY <1>2, <1>3, <1>4, <1>6

LEMMA HandlesState ==
    ASSUME StateInv, NEW d, NEW rest, Handles(d, rest)
    PROVE  StateInv'
<1>1. rest \in Seq(ToClient) /\ toServer' \in Seq(ToServer) /\ toServer' = toServer \o d.out
    BY RestIs
<1>2. <<>> \in Seq(ToServer)
    OBVIOUS
<1>3. client' \in Client /\ client'.out = <<>> /\ client'.up = d.up /\ client'.step = d.step
    BY <1>2 DEF Handles, Becomes, Client
<1>4. ~d.up => toServer \o d.out = <<>> /\ rest = <<>> /\ ~server.bound
    <2>1. ASSUME ~d.up
          PROVE  toServer = <<>> /\ toClient = <<>> /\ d.out = <<>> /\ ~server.bound
        BY <2>1 DEF Handles, StateInv
    <2> QED
        BY <2>1 DEF Handles
<1> QED
    BY <1>1, <1>3, <1>4 DEF StateInv, Handles

LEMMA HandlesRepair ==
    ASSUME StateInv, RepairInv, NEW d, NEW rest, Handles(d, rest),
           Count(toServer, Repairing) + Count(rest, Repairing) + Count(d.out, Repairing) <= 1,
           \/ d.step = client.step
           \/ Count(toServer, Repairing) = 0 /\ Count(rest, Repairing) = 0,
           \A r \in ToServer : d.out = <<r>> => Fits(r, d.step),
           server.bound => /\ d.step \notin {"begin", "session", "close", "retry"}
                           /\ \A r \in ToServer : d.out = <<r>> => Topic(r) \notin Binding
    PROVE  RepairInv'
<1>1. /\ rest \in Seq(ToClient) /\ d.out \in Seq(ToServer)
      /\ toServer' = toServer \o d.out /\ toServer' \in Seq(ToServer)
      /\ \A n \in 1 .. Len(rest) : \E k \in 1 .. Len(toClient) : rest[n] = toClient[k]
      /\ \A n \in 1 .. Len(toServer') :
            \/ \E k \in 1 .. Len(toServer) : toServer'[n] = toServer[k]
            \/ d.out = <<toServer'[n]>>
    BY RestIs
<1>2. toServer \in Seq(ToServer) /\ toClient \in Seq(ToClient)
    BY DEF StateInv
<1>3. server' = server /\ toClient' = rest /\ client'.step = d.step
    BY DEF Handles, Becomes, Client
<1>4. Count(toServer', Repairing) = Count(toServer, Repairing) + Count(d.out, Repairing)
    BY <1>1, <1>2, CountSent
<1>5. Count(toServer', Repairing) + Count(toClient', Repairing) <= 1
    <2>1. /\ Count(toServer, Repairing) \in Nat /\ Count(rest, Repairing) \in Nat
          /\ Count(d.out, Repairing) \in Nat
        BY <1>1, <1>2, AboutIs
    <2> QED
        BY <1>3, <1>4, <2>1
<1>6. ASSUME NEW n \in 1 .. Len(toServer')
      PROVE  Fits(toServer'[n], d.step) /\ (server.bound => Topic(toServer'[n]) \notin Binding)
    <2>1. CASE \E k \in 1 .. Len(toServer) : toServer'[n] = toServer[k]
        <3>1. PICK k \in 1 .. Len(toServer) : toServer'[n] = toServer[k]
            BY <2>1
        <3>2. Fits(toServer[k], client.step) /\ (server.bound => Topic(toServer[k]) \notin Binding)
            BY DEF RepairInv
        <3>3. Count(toServer, Repairing) = 0 => Topic(toServer[k]) \notin Repairing
            BY <1>2, CountNone
        <3> QED
            BY <3>1, <3>2, <3>3 DEF Fits
    <2>2. CASE d.out = <<toServer'[n]>>
        <3>1. toServer'[n] \in ToServer
            BY <1>1
        <3> QED
            BY <2>2, <3>1
    <2> QED
        BY <1>1, <2>1, <2>2
<1>7. ASSUME NEW n \in 1 .. Len(rest)
      PROVE  /\ Fits(rest[n], d.step)
             /\ server.bound /\ Topic(rest[n]) = "activate" => rest[n].result = "good"
    <2>1. PICK k \in 1 .. Len(toClient) : rest[n] = toClient[k]
        BY <1>1
    <2>2. /\ Fits(toClient[k], client.step)
          /\ server.bound /\ Topic(toClient[k]) = "activate" => toClient[k].result = "good"
        BY DEF RepairInv
    <2>3. Count(rest, Repairing) = 0 => Topic(rest[n]) \notin Repairing
        BY <1>1, CountNone
    <2> QED
        BY <2>1, <2>2, <2>3 DEF Fits
<1> QED
    BY <1>3, <1>5, <1>6, <1>7 DEF RepairInv

LEMMA HandlesBound ==
    ASSUME StateInv, BoundInv, NEW d, NEW rest, Handles(d, rest),
           (d.up /\ ~server.bound) => d.step \notin Restoring,
           ~server.bound => \A r \in ToServer : d.out = <<r>> => r.kind # "delete"
    PROVE  BoundInv'
<1>1. /\ toServer' \in Seq(ToServer)
      /\ \A n \in 1 .. Len(rest) : \E k \in 1 .. Len(toClient) : rest[n] = toClient[k]
      /\ \A n \in 1 .. Len(toServer') :
            \/ \E k \in 1 .. Len(toServer) : toServer'[n] = toServer[k]
            \/ d.out = <<toServer'[n]>>
    <2>1. toServer' \in Seq(ToServer)
        BY RestIs
    <2>2. \A n \in 1 .. Len(rest) : \E k \in 1 .. Len(toClient) : rest[n] = toClient[k]
        BY RestIs
    <2>3. \A n \in 1 .. Len(toServer') :
             \/ \E k \in 1 .. Len(toServer) : toServer'[n] = toServer[k]
             \/ d.out = <<toServer'[n]>>
        BY RestIs
    <2> QED
        BY <2>1, <2>2, <2>3
<1>2. /\ server' = server /\ toClient' = rest /\ client'.step = d.step
      /\ client'.up = d.up
    BY DEF Handles, Becomes, Client
<1>3. ASSUME NEW n \in 1 .. Len(toServer'), ~server.bound
      PROVE  toServer'[n].kind # "delete"
    <2>1. toServer'[n] \in ToServer
        BY <1>1
    <2>2. CASE \E k \in 1 .. Len(toServer) : toServer'[n] = toServer[k]
        BY <1>3, <2>2 DEF BoundInv
    <2>3. CASE d.out = <<toServer'[n]>>
        BY <1>3, <2>1, <2>3
    <2> QED
        BY <1>1, <2>2, <2>3
<1>4. ASSUME NEW n \in 1 .. Len(rest), ~server.bound
      PROVE  ~OfBound(rest[n])
    BY <1>1, <1>4 DEF BoundInv
<1> QED
    BY <1>2, <1>3, <1>4 DEF BoundInv

\* What the runs count as outstanding
LEMMA KindsCounted ==
    ASSUME NEW s \in Seq(ToServer), NEW t \in Seq(ToClient)
    PROVE  /\ Cardinality({n \in 1 .. Len(s) : s[n].kind = "publish"}) = Count(s, {"publish"})
           /\ Cardinality({n \in 1 .. Len(t) : t[n].kind \in {"message", "fault"}}) = Count(t, Endings)
<1>1. ASSUME NEW m \in ToServer
      PROVE  Topic(m) = m.kind
    BY DEF ToServer, Topic
<1>2. ASSUME NEW m \in ToClient
      PROVE  m.kind \in {"message", "fault"} <=> Topic(m) \in Endings
    <2>1. CASE m.kind # "answer"
        BY <2>1 DEF Topic, Endings
    <2>2. CASE m.kind = "answer"
        <3>1. Topic(m) \notin Endings
            BY <2>2, AnswerIs DEF Answers, Endings
        <3> QED
            BY <2>2, <3>1
    <2> QED
        BY <2>1, <2>2
<1>3. {n \in 1 .. Len(s) : s[n].kind = "publish"} = About(s, {"publish"})
    BY <1>1 DEF About
<1>4. {n \in 1 .. Len(t) : t[n].kind \in {"message", "fault"}} = About(t, Endings)
    BY <1>2 DEF About
<1> QED
    BY <1>3, <1>4 DEF Count

\* The fields of the server
LEMMA ServerIs ==
    ASSUME NEW s \in Server
    PROVE  /\ s.session \in BOOLEAN /\ s.bound \in BOOLEAN /\ s.farewells \in SUBSET Ids
           /\ s.queue \in Nat /\ s.queue <= Capacity
           /\ \A i \in Ids : /\ s.subs[i].next \in Numbers /\ s.subs[i].next \in Nat
                             /\ s.subs[i].sent \in SUBSET Numbers
BY Constants DEF Server, Numbers

\* The requests that the server holds for the client
Held(s) == IF s.bound THEN s.queue ELSE 0

LEMMA HandlesCount ==
    ASSUME StateInv, CountInv, NEW d, NEW rest, Handles(d, rest),
           d.up => d.pending = client.pending + Count(d.out, {"publish"})
                                 - (Count(toClient, Endings) - Count(rest, Endings)),
           ~d.up => d.pending = 0,
           d.limit >= Capacity
    PROVE  CountInv'
<1>1. /\ rest \in Seq(ToClient) /\ d.out \in Seq(ToServer)
      /\ toServer' = toServer \o d.out /\ toServer' \in Seq(ToServer)
    BY RestIs
<1>2. toServer \in Seq(ToServer) /\ toClient \in Seq(ToClient) /\ server.queue \in Nat
    <2>1. server \in Server
        BY DEF StateInv
    <2> QED
        BY <2>1, ServerIs DEF StateInv
<1>3. /\ server' = server /\ toClient' = rest /\ client'.up = d.up /\ d.up = client.up
      /\ client'.pending = d.pending /\ client'.limit = d.limit
    BY DEF Handles, Becomes, Client
<1>4. Count(toServer', {"publish"}) = Count(toServer, {"publish"}) + Count(d.out, {"publish"})
    BY <1>1, <1>2, CountSent
<1>5. /\ Count(toServer, {"publish"}) \in Nat /\ Count(d.out, {"publish"}) \in Nat
      /\ Count(toClient, Endings) \in Nat /\ Count(rest, Endings) \in Nat
    BY <1>1, <1>2, AboutIs
<1>6. Outstanding = Count(toServer, {"publish"}) + Held(server) + Count(toClient, Endings)
    BY <1>2, KindsCounted DEF Outstanding, Held
<1>7. Outstanding' = Count(toServer', {"publish"}) + Held(server) + Count(rest, Endings)
    BY <1>1, <1>3, KindsCounted DEF Outstanding, Held
<1>8. client'.pending = IF client'.up THEN Outstanding' ELSE 0
    <2>1. client.pending = IF client.up THEN Outstanding ELSE 0
        BY DEF CountInv
    <2>2. Held(server) \in Nat
        BY <1>2 DEF Held
    <2> QED
        BY <1>3, <1>4, <1>5, <1>6, <1>7, <2>1, <2>2
<1>9. ASSUME NEW n \in 1 .. Len(rest), rest[n].kind = "fault", rest[n].code = "too many"
      PROVE  /\ server.bound
             /\ server.queue + Count(rest, Endings) - Rank(About(rest, Endings), n) >= Capacity
    <2>1. CASE rest = toClient
        BY <1>9, <2>1 DEF CountInv
    <2>2. CASE toClient # <<>> /\ rest = Tail(toClient)
        <3>1. /\ n + 1 \in 1 .. Len(toClient) /\ rest[n] = toClient[n + 1]
              /\ Rank(About(toClient, Endings), n + 1) =
                    Rank(About(rest, Endings), n) + Is(Head(toClient), Endings)
              /\ Rank(About(rest, Endings), n) \in Nat
              /\ Count(toClient, Endings) = Count(rest, Endings) + Is(Head(toClient), Endings)
            BY <1>2, <2>2, CountArrived
        <3>2. /\ server.bound
              /\ server.queue + Count(toClient, Endings)
                   - Rank(About(toClient, Endings), n + 1) >= Capacity
            BY <1>9, <3>1 DEF CountInv
        <3>3. Is(Head(toClient), Endings) \in Nat
            BY DEF Is
        <3> QED
            BY <1>2, <1>5, <3>1, <3>2, <3>3, Constants
    <2> QED
        BY <2>1, <2>2 DEF Handles
<1> QED
    BY <1>3, <1>8, <1>9 DEF CountInv

LEMMA HandlesAck ==
    ASSUME StateInv, AckInv, NEW d, NEW rest, Handles(d, rest),
           d.acks \subseteq d.received, client.received \subseteq d.received,
           \A r \in ToServer : d.out = <<r>> /\ r.kind = "publish" => r.acks \subseteq d.received
    PROVE  AckInv'
<1>1. /\ toServer' \in Seq(ToServer)
      /\ \A n \in 1 .. Len(toServer') :
            \/ \E k \in 1 .. Len(toServer) : toServer'[n] = toServer[k]
            \/ d.out = <<toServer'[n]>>
    BY RestIs
<1>2. server' = server /\ client'.acks = d.acks /\ client'.received = d.received
    BY DEF Handles, Becomes, Client
<1>3. ASSUME NEW n \in 1 .. Len(toServer'), toServer'[n].kind = "publish"
      PROVE  toServer'[n].acks \subseteq d.received
    <2>1. CASE \E k \in 1 .. Len(toServer) : toServer'[n] = toServer[k]
        BY <1>3, <2>1 DEF AckInv
    <2>2. CASE d.out = <<toServer'[n]>>
        <3>1. toServer'[n] \in ToServer
            BY <1>1
        <3> QED
            BY <1>3, <2>2, <3>1
    <2> QED
        BY <1>1, <2>1, <2>2
<1> QED
    BY <1>2, <1>3 DEF AckInv

-----------------------------------------------------------------------------
(***************************************************************************)
(* The actions of the client.                                              *)
(***************************************************************************)
\* A request is about its kind.
LEMMA RequestTopic ==
    ASSUME NEW r \in ToServer
    PROVE  Topic(r) = r.kind
BY DEF ToServer, Topic

\* What a step has sent is counted.
LEMMA SentCounts ==
    ASSUME NEW d \in Client, NEW ks, Sent(d, ks), NEW T
    PROVE  /\ d.out = <<>> \/ \E r \in ToServer : d.out = <<r>>
           /\ Count(d.out, T) \in {0, 1}
           /\ ks \cap T = {} => Count(d.out, T) = 0
           /\ \A r \in ToServer : d.out = <<r>> => r.kind \in ks /\ Topic(r) \in ks
<1>1. CASE d.out = <<>>
    <2>1. d.out \in Seq(ToServer) /\ Len(d.out) = 0
        BY <1>1
    <2>2. Count(d.out, T) = 0
        BY <2>1, CountNone
    <2>3. \A r \in ToServer : d.out # <<r>>
        BY <1>1
    <2> QED
        BY <1>1, <2>2, <2>3
<1>2. CASE \E r \in ToServer : d.out = <<r>> /\ r.kind \in ks
    <2>1. PICK r \in ToServer : d.out = <<r>> /\ r.kind \in ks
        BY <1>2
    <2>2. \A q \in ToServer : d.out = <<q>> => q = r
        BY <2>1
    <2> QED
        BY <2>1, <2>2, RequestTopic, CountOne
<1> QED
    BY <1>1, <1>2 DEF Sent

\* Counts of the messages under way are numbers.
LEMMA CountsAre ==
    ASSUME StateInv, NEW T
    PROVE  Count(toServer, T) \in Nat /\ Count(toClient, T) \in Nat
BY AboutIs DEF StateInv

\* What is left to arrive is no more than there was.
LEMMA RestCounts ==
    ASSUME StateInv, NEW d, NEW rest, Handles(d, rest), NEW T
    PROVE  Count(rest, T) \in Nat /\ Count(rest, T) <= Count(toClient, T)
<1>1. toClient \in Seq(ToClient) /\ rest \in Seq(ToClient)
    BY RestIs DEF StateInv
<1>2. Count(toClient, T) \in Nat /\ Count(rest, T) \in Nat
    BY <1>1, AboutIs
<1>3. CASE rest = toClient
    BY <1>2, <1>3
<1>4. CASE toClient # <<>> /\ rest = Tail(toClient)
    <2>1. Count(toClient, T) = Count(rest, T) + Is(Head(toClient), T)
        BY <1>1, <1>4, CountArrived
    <2> QED
        BY <1>2, <2>1 DEF Is
<1> QED
    BY <1>3, <1>4 DEF Handles

\* The client is d, whose step asked at most to delete the subscription.
LEMMA TakesStep ==
    ASSUME IInv, NEW d, NEW rest, Handles(d, rest), d.step = client.step, Sent(d, {"delete"}),
           d.acks \subseteq d.received, client.received \subseteq d.received,
           d.pending = client.pending - (Count(toClient, Endings) - Count(rest, Endings)),
           d.limit >= Capacity, server.bound \/ d.out = <<>>
    PROVE  IInv'
<1>1. StateInv /\ RepairInv /\ BoundInv /\ CountInv /\ AckInv
    BY DEF IInv
<1>2. d \in Client /\ d.up = client.up /\ (~d.up => rest = <<>> /\ toClient = <<>>)
    <2>1. d \in Client /\ d.up = client.up /\ (rest = toClient \/ toClient # <<>>)
        BY DEF Handles
    <2> QED
        BY <1>1, <2>1 DEF StateInv
<1>4. /\ Count(d.out, Repairing) = 0 /\ Count(d.out, {"publish"}) = 0
      /\ \A r \in ToServer : d.out = <<r>> => Topic(r) = "delete" /\ r.kind = "delete"
    <2>1. {"delete"} \cap Repairing = {} /\ {"delete"} \cap {"publish"} = {}
        BY DEF Repairing, Binding
    <2>2. Count(d.out, Repairing) = 0 /\ Count(d.out, {"publish"}) = 0
        BY <1>2, <2>1, SentCounts
    <2>3. \A r \in ToServer : d.out = <<r>> => Topic(r) \in {"delete"} /\ r.kind \in {"delete"}
        BY <1>2, SentCounts
    <2> QED
        BY <2>2, <2>3
<1>5. StateInv'
    BY <1>1, HandlesState
<1>6. RepairInv'
    <2>1. Count(toServer, Repairing) + Count(rest, Repairing) + Count(d.out, Repairing) <= 1
        BY <1>1, <1>4, CountsAre, RestCounts DEF RepairInv
    <2>2. \A r \in ToServer : d.out = <<r>> => Fits(r, d.step) /\ Topic(r) \notin Binding
        BY <1>4 DEF Fits, Repairing, Binding
    <2>3. server.bound => d.step \notin {"begin", "session", "close", "retry"}
        BY <1>1 DEF RepairInv
    <2> QED
        BY <1>1, <2>1, <2>2, <2>3, HandlesRepair
<1>7. CountInv'
    <2>1. client.pending \in Int
        BY <1>1 DEF StateInv, Client
    <2>2. /\ Count(toClient, Endings) \in Nat /\ Count(rest, Endings) \in Nat
        BY <1>1, CountsAre, RestCounts
    <2>3. d.up => d.pending = client.pending + Count(d.out, {"publish"})
                                - (Count(toClient, Endings) - Count(rest, Endings))
        BY <1>4, <2>1, <2>2
    <2>4. ~d.up => d.pending = 0
        <3>1. ~d.up => client.pending = 0 /\ Count(rest, Endings) = Count(toClient, Endings)
            BY <1>1, <1>2 DEF CountInv
        <3> QED
            BY <2>1, <2>2, <3>1
    <2> QED
        BY <1>1, <2>3, <2>4, HandlesCount
<1>8. AckInv'
    BY <1>1, <1>4, HandlesAck
<1>9. BoundInv'
    <2>1. (d.up /\ ~server.bound) => d.step \notin Restoring
        BY <1>1, <1>2 DEF BoundInv
    <2>2. ~server.bound => \A r \in ToServer : d.out = <<r>> => r.kind # "delete"
        OBVIOUS
    <2> QED
        BY <1>1, <2>1, <2>2, HandlesBound
<1> QED
    BY <1>5, <1>6, <1>7, <1>8, <1>9 DEF IInv

LEMMA QuietStep ==
    ASSUME IInv, NEW d, Quiet(client, d), Becomes(d), UNCHANGED <<server, toClient>>,
           server.bound \/ d.out = <<>>
    PROVE  IInv'
<1>1. StateInv /\ CountInv /\ AckInv
    BY DEF IInv
<1>2. d \in Client /\ Sent(d, {"delete"}) /\ d.up = client.up /\ d.step = client.step
    BY DEF Quiet
<1>3. Handles(d, toClient)
    <2>1. d.out = <<>> \/ \E r \in ToServer : d.out = <<r>>
        BY <1>2 DEF Sent
    <2>2. ~d.up => d.out = <<>>
        BY <1>2 DEF Sent
    <2> QED
        BY <1>1, <1>2, <2>1, <2>2 DEF Handles, StateInv
<1>4. d.pending = client.pending - (Count(toClient, Endings) - Count(toClient, Endings))
    <2>1. client.pending \in Int /\ d.pending = client.pending
        BY <1>1 DEF StateInv, Client, Quiet
    <2> QED
        BY <1>1, <2>1, CountsAre
<1>5. d.acks \subseteq d.received /\ client.received \subseteq d.received /\ d.limit >= Capacity
    BY <1>1 DEF AckInv, CountInv, Quiet
<1> QED
    BY <1>2, <1>3, <1>4, <1>5, TakesStep

\* The client is d, which has taken a step of the repair; nothing of it is under way.
LEMMA MovesStep ==
    ASSUME IInv, NEW d, NEW rest, Handles(d, rest),
           d.pending = client.pending, d.limit = client.limit, d.acks = client.acks,
           client.received \subseteq d.received,
           Sent(d, {"create", "delete"} \cup Awaited(d.step)),
           Count(toServer, Repairing) = 0, Count(rest, Repairing) = 0,
           Count(rest, Endings) = Count(toClient, Endings),
           server.bound => d.step \in Restoring,
           ~server.bound => Sent(d, Awaited(d.step)) /\ (d.up => d.step \notin Restoring)
    PROVE  IInv'
<1> DEFINE ks == {"create", "delete"} \cup Awaited(d.step)
<1>1. StateInv /\ RepairInv /\ BoundInv /\ CountInv /\ AckInv
    BY DEF IInv
<1>2. d \in Client /\ d.up = client.up
    BY DEF Handles
<1>3. Awaited(d.step) \subseteq Repairing
    BY DEF Awaited, Repairing, Binding
<1>4. /\ Count(d.out, Repairing) \in {0, 1} /\ Count(d.out, {"publish"}) = 0
      /\ \A r \in ToServer : d.out = <<r>> => r.kind \in ks /\ Topic(r) \in ks
    <2>1. ks \cap {"publish"} = {}
        BY <1>3 DEF Repairing, Binding
    <2> HIDE DEF ks
    <2>2. Sent(d, ks)
        BY DEF ks
    <2> QED
        BY <1>2, <2>1, <2>2, SentCounts
<1>5. StateInv'
    BY <1>1, HandlesState
<1>6. RepairInv'
    <2>1. Count(toServer, Repairing) + Count(rest, Repairing) + Count(d.out, Repairing) <= 1
        BY <1>4
    <2>2. \A r \in ToServer : d.out = <<r>> => Fits(r, d.step)
        BY <1>4 DEF Fits, Repairing, Binding
    <2>3. d.step \in Restoring => /\ d.step \notin {"begin", "session", "close", "retry"}
                                  /\ \A r \in ToServer : d.out = <<r>> => Topic(r) \notin Binding
        <3>1. d.step \in Restoring => ks \cap Binding = {}
            BY DEF Restoring, Awaited, Binding
        <3>2. d.step \in Restoring => d.step \notin {"begin", "session", "close", "retry"}
            BY DEF Restoring
        <3> HIDE DEF ks
        <3> QED
            BY <1>4, <3>1, <3>2
    <2> HIDE DEF ks
    <2> QED
        BY <1>1, <2>1, <2>2, <2>3, HandlesRepair
<1>7. CountInv'
    <2>1. client.pending \in Int /\ client.limit >= Capacity
        BY <1>1 DEF StateInv, Client, CountInv
    <2>2. d.pending = client.pending + Count(d.out, {"publish"})
                        - (Count(toClient, Endings) - Count(rest, Endings))
        BY <1>1, <1>4, <2>1, CountsAre
    <2>3. ~d.up => d.pending = 0
        BY <1>1, <1>2 DEF CountInv
    <2> QED
        BY <1>1, <2>1, <2>2, <2>3, HandlesCount
<1>8. AckInv'
    <2>1. d.acks \subseteq d.received
        BY <1>1 DEF AckInv
    <2>2. \A r \in ToServer : d.out = <<r>> => r.kind # "publish"
        BY <1>3, <1>4 DEF Repairing, Binding
    <2> QED
        BY <1>1, <2>1, <2>2, HandlesAck
<1>9. BoundInv'
    <2>1. ASSUME ~server.bound
          PROVE  \A r \in ToServer : d.out = <<r>> => r.kind # "delete"
        <3>1. Sent(d, Awaited(d.step)) /\ "delete" \notin Awaited(d.step)
            BY <2>1 DEF Awaited
        <3> QED
            BY <1>2, <3>1, SentCounts
    <2> QED
        BY <1>1, <2>1, HandlesBound
<1> QED
    BY <1>5, <1>6, <1>7, <1>8, <1>9 DEF IInv

LEMMA SendsNowStep ==
    ASSUME IInv, SendsNow
    PROVE  IInv'
<1> DEFINE c == [client EXCEPT !.soon = @ - 1]
           d == PublishSent(c)
           r == [kind |-> "publish", acks |-> c.acks]
<1>1. StateInv /\ RepairInv /\ BoundInv /\ CountInv /\ AckInv /\ UNCHANGED <<server, toClient>>
    BY DEF IInv, SendsNow
<1>2. /\ c \in Client /\ c.out = <<>> /\ c.up = client.up /\ c.pending = client.pending
      /\ c.limit = client.limit /\ c.acks = client.acks /\ c.received = client.received
      /\ c.step = client.step
    <2>1. client \in Client /\ client.out = <<>>
        BY <1>1 DEF StateInv
    <2>2. client.soon - 1 \in Nat
        BY <2>1 DEF Client, SendsNow
    <2> QED
        BY <2>1, <2>2 DEF Client
<1>3. Becomes(IF c.suspended THEN c ELSE d)
    BY DEF SendsNow
<1> HIDE DEF c
<1>4. CASE c.suspended
    <2>1. Quiet(client, c) /\ Becomes(c)
        BY <1>2, <1>3, <1>4 DEF Quiet, Sent
    <2> QED
        BY <1>1, <1>2, <2>1, QuietStep
<1>5. CASE ~c.suspended
    <2>1. Becomes(d)
        BY <1>3, <1>5
    <2>2. /\ d \in Client /\ d.up = c.up /\ d.limit = c.limit /\ d.step = c.step
          /\ d.received = c.received /\ d.acks = {}
          /\ \/ c.up /\ d.pending = c.pending + 1 /\ r \in ToServer /\ d.out = <<r>>
             \/ ~c.up /\ d.pending = c.pending /\ d.out = <<>>
        BY <1>2, PublishSentIs
    <2> HIDE DEF d
    <2>3. CASE ~c.up
        <3>1. d.acks \subseteq d.received /\ d.out = <<>> /\ d.pending = 0
            BY <1>1, <1>2, <2>2, <2>3 DEF CountInv
        <3>2. Handles(d, toClient)
            BY <1>1, <1>2, <2>1, <2>2, <2>3 DEF Handles, StateInv
        <3>3. Sent(d, {})
            BY <3>1 DEF Sent
        <3>4. Count(d.out, Repairing) = 0 /\ \A q \in ToServer : d.out # <<q>>
            BY <2>2, <3>3, SentCounts
        <3>5. StateInv'
            BY <1>1, <3>2, HandlesState
        <3>6. RepairInv'
            <4>1. Count(toServer, Repairing) + Count(toClient, Repairing) + Count(d.out, Repairing) <= 1
                BY <1>1, <3>4, CountsAre DEF RepairInv
            <4>2. server.bound => d.step \notin {"begin", "session", "close", "retry"}
                BY <1>1, <1>2, <2>2 DEF RepairInv
            <4> QED
                BY <1>1, <1>2, <2>2, <3>2, <3>4, <4>1, <4>2, HandlesRepair
        <3>7. CountInv'
            <4>1. ~d.up /\ d.limit >= Capacity
                BY <1>1, <1>2, <2>2, <2>3 DEF CountInv
            <4> QED
                BY <1>1, <3>1, <3>2, <4>1, HandlesCount
        <3>8. AckInv'
            BY <1>1, <1>2, <2>2, <3>1, <3>2, <3>4, HandlesAck
        <3>9. BoundInv'
            BY <1>1, <2>3, <2>2, <3>2, <3>4, HandlesBound
        <3> QED
            BY <3>5, <3>6, <3>7, <3>8, <3>9 DEF IInv
    <2>4. CASE c.up
        <3>1. d.out = <<r>> /\ r \in ToServer /\ r.kind = "publish" /\ d.pending = client.pending + 1
            BY <1>2, <2>2, <2>4
        <3>2. Handles(d, toClient)
            BY <1>1, <1>2, <2>1, <2>2, <2>4, <3>1 DEF Handles
        <3>3. Sent(d, {"publish"})
            BY <1>2, <2>2, <2>4, <3>1 DEF Sent
        <3>4. /\ Count(d.out, Repairing) = 0 /\ Topic(r) = "publish"
              /\ \A q \in ToServer : d.out = <<q>> => q = r
            <4>1. {"publish"} \cap Repairing = {}
                BY DEF Repairing, Binding
            <4>2. Count(d.out, Repairing) = 0
                <5> DEFINE ks == {"publish"}
                <5>1. Sent(d, ks) /\ ks \cap Repairing = {} /\ d \in Client
                    BY <2>2, <3>3, <4>1
                <5> HIDE DEF ks
                <5> QED
                    BY <5>1, SentCounts
            <4>3. Topic(r) = "publish"
                BY <3>1, RequestTopic
            <4>4. \A q \in ToServer : d.out = <<q>> => q = r
                BY <3>1
            <4> QED
                BY <4>2, <4>3, <4>4
        <3>5. Count(d.out, {"publish"}) = 1
            BY <3>1, <3>4, CountOne
        <3>6. StateInv'
            BY <1>1, <3>2, HandlesState
        <3>7. RepairInv'
            <4>1. Count(toServer, Repairing) + Count(toClient, Repairing) + Count(d.out, Repairing) <= 1
                BY <1>1, <3>4, CountsAre DEF RepairInv
            <4>2. server.bound => d.step \notin {"begin", "session", "close", "retry"}
                BY <1>1, <1>2, <2>2 DEF RepairInv
            <4>3. Fits(r, d.step) /\ Topic(r) \notin Binding
                BY <3>4 DEF Fits, Repairing, Binding
            <4> QED
                BY <1>1, <1>2, <2>2, <3>2, <3>4, <4>1, <4>2, <4>3, HandlesRepair
        <3>8. CountInv'
            <4>1. d.up /\ d.limit >= Capacity
                BY <1>1, <1>2, <2>2, <2>4 DEF CountInv
            <4>2. d.pending = client.pending + Count(d.out, {"publish"})
                                - (Count(toClient, Endings) - Count(toClient, Endings))
                <5>1. client.pending \in Int
                    BY <1>1 DEF StateInv, Client
                <5> QED
                    BY <1>1, <3>1, <3>5, <5>1, CountsAre
            <4> QED
                BY <1>1, <3>2, <4>1, <4>2, HandlesCount
        <3>9. AckInv'
            <4>1. r.acks \subseteq d.received
                BY <1>1, <1>2, <2>2 DEF AckInv
            <4>2. d.acks \subseteq d.received /\ client.received \subseteq d.received
                BY <1>2, <2>2
            <4> QED
                BY <1>1, <3>2, <3>4, <4>1, <4>2, HandlesAck
        <3>10. BoundInv'
            <4>1. (d.up /\ ~server.bound) => d.step \notin Restoring
                BY <1>1, <1>2, <2>2 DEF BoundInv
            <4>2. \A q \in ToServer : d.out = <<q>> => q.kind # "delete"
                BY <3>1, <3>4
            <4> QED
                BY <1>1, <3>2, <4>1, <4>2, HandlesBound
        <3> QED
            BY <3>6, <3>7, <3>8, <3>9, <3>10 DEF IInv
    <2> QED
        BY <2>3, <2>4
<1> QED
    BY <1>4, <1>5

LEMMA LooksAgainStep ==
    ASSUME IInv, LooksAgain
    PROVE  IInv'
<1> DEFINE c == [client EXCEPT !.waiting = @ - 1]
           d == IF c.subs = {} THEN c ELSE Requested(c, 1)
<1>1. client \in Client /\ client.out = <<>> /\ UNCHANGED <<server, toClient>>
    BY DEF IInv, StateInv, LooksAgain
<1>2. Becomes(d)
    BY DEF LooksAgain
<1>3. /\ c \in Client /\ c.out = <<>> /\ c.up = client.up /\ c.pending = client.pending
      /\ c.limit = client.limit /\ c.acks = client.acks /\ c.received = client.received
      /\ c.step = client.step
    <2>1. client.waiting - 1 \in Nat
        BY <1>1 DEF Client, LooksAgain
    <2> QED
        BY <1>1, <2>1 DEF Client
<1> HIDE DEF c
<1>4. Calm(c, c) /\ Calm(c, Requested(c, 1))
    BY <1>3, RequestedCalm DEF Calm
<1>5. Calm(c, d)
    BY <1>4
<1> HIDE DEF d
<1>6. Quiet(client, d) /\ d.out = <<>>
    BY <1>3, <1>5 DEF Calm, Quiet, Sent
<1> QED
    BY <1>1, <1>2, <1>6, QuietStep

LEMMA TerminateStep ==
    ASSUME IInv, Terminate
    PROVE  IInv'
<1>1. client \in Client /\ client.out = <<>>
    BY DEF IInv, StateInv
<1>2. Quiet(client, Terminates(client)) /\ Becomes(Terminates(client))
      /\ UNCHANGED <<server, toClient>>
    BY <1>1, TerminatesQuiet DEF Terminate
<1>3. server.bound \/ Terminates(client).out = <<>>
    <2>1. client.up => server.bound
        BY DEF IInv, BoundInv, Terminate, Restoring
    <2>2. ~client.up => Terminates(client).out = <<>>
        BY <1>2 DEF Quiet, Sent
    <2> QED
        BY <2>1, <2>2
<1> QED
    BY <1>2, <1>3, QuietStep

\* When the repair waits for nothing, nothing of it is under way.
LEMMA NothingAwaited ==
    ASSUME IInv, Awaited(client.step) = {}
    PROVE  Count(toServer, Repairing) = 0 /\ Count(toClient, Repairing) = 0
<1>1. toServer \in Seq(ToServer) /\ toClient \in Seq(ToClient) /\ RepairInv
    BY DEF IInv, StateInv
<1>2. \A n \in 1 .. Len(toServer) : Topic(toServer[n]) \notin Repairing
    BY <1>1 DEF RepairInv, Fits
<1>3. \A n \in 1 .. Len(toClient) : Topic(toClient[n]) \notin Repairing
    BY <1>1 DEF RepairInv, Fits
<1> QED
    BY <1>1, <1>2, <1>3, CountNone

\* The client is d, which has sent a request of the repair; nothing of it was under way.
LEMMA SendsStep ==
    ASSUME IInv, NEW d \in Client, Becomes(d), UNCHANGED <<server, toClient>>,
           d.up = client.up, d.pending = client.pending, d.limit = client.limit,
           d.acks = client.acks, d.received = client.received,
           Sent(d, Awaited(d.step)), ~d.up => d.step \in {"idle", "retry"},
           Awaited(client.step) = {}, server.bound => d.step \in Restoring,
           (d.up /\ ~server.bound) => d.step \notin Restoring
    PROVE  IInv'
<1>1. Count(toServer, Repairing) = 0 /\ Count(toClient, Repairing) = 0
    BY NothingAwaited
<1>2. /\ d.out = <<>> \/ \E r \in ToServer : d.out = <<r>>
      /\ ~d.up => d.out = <<>>
      /\ Sent(d, {"create", "delete"} \cup Awaited(d.step))
    BY DEF Sent
<1>3. Handles(d, toClient)
    BY <1>2 DEF Handles
<1> QED
    BY <1>1, <1>2, <1>3, MovesStep

\* The subscription's numbers, whether it has them from the server or not
LEMMA NumbersIs ==
    ASSUME NEW c \in Client
    PROVE  c.id \in Int /\ c.last + 1 \in Int
<1>1. /\ c.id \in Ids \/ c.id \in {Pending, Terminating, Terminated}
      /\ c.last \in Numbers \/ c.last \in {-1}
    BY DEF Client
<1>2. Ids \in SUBSET Nat /\ MaxMessages \in Nat
    BY Constants
<1>3. c.id \in Int
    <2>1. CASE c.id \in Ids
        <3>1. Ids \subseteq Int
            BY <1>2
        <3> QED
            BY <2>1, <3>1
    <2>2. CASE c.id \in {Pending, Terminating, Terminated}
        BY <2>2 DEF Pending, Terminating, Terminated
    <2> QED
        BY <1>1, <2>1, <2>2
<1>4. c.last \in Int
    <2>1. CASE c.last \in Numbers
        BY <1>2, <2>1 DEF Numbers
    <2>2. CASE c.last \in {-1}
        BY <2>2
    <2> QED
        BY <1>1, <2>1, <2>2
<1> QED
    BY <1>3, <1>4

LEMMA AsksRepublishStep ==
    ASSUME IInv, AsksRepublish
    PROVE  IInv'
<1> DEFINE c == [client EXCEPT !.step = "republish"]
           r == [kind |-> "republish", id |-> client.id, number |-> client.last + 1]
           d == Request(c, r)
<1>1. /\ client \in Client /\ client.out = <<>> /\ client.step = "pause" /\ client.up
      /\ UNCHANGED <<server, toClient>> /\ Becomes(d)
    BY DEF IInv, StateInv, AsksRepublish
<1>2. r \in ToServer /\ r.kind = "republish"
    <2>1. client.id \in Int /\ client.last + 1 \in Int
        BY <1>1, NumbersIs
    <2> QED
        BY <2>1 DEF ToServer
<1>3. /\ c \in Client /\ c.out = <<>> /\ c.up = client.up /\ c.pending = client.pending
      /\ c.limit = client.limit /\ c.acks = client.acks /\ c.received = client.received
      /\ c.step = "republish"
    BY <1>1 DEF Client, Steps
<1> HIDE DEF c, r
<1>4. /\ d \in Client /\ d.out = <<r>> /\ d.up = client.up /\ d.pending = client.pending
      /\ d.limit = client.limit /\ d.acks = client.acks /\ d.received = client.received
      /\ d.step = "republish"
    BY <1>2, <1>3, RequestIs
<1> HIDE DEF d
<1>5. Sent(d, Awaited(d.step))
    BY <1>1, <1>2, <1>4 DEF Sent, Awaited
<1>6. Awaited(client.step) = {} /\ d.step \in Restoring /\ server.bound
    BY <1>1, <1>4 DEF Awaited, Restoring, IInv, BoundInv
<1> QED
    BY <1>1, <1>4, <1>5, <1>6, SendsStep

\* The repair begins, again or not.
LEMMA ActivatesStep ==
    ASSUME IInv, client.step \in {"begin", "retry"}, client.up,
           Becomes(Activating(client)), UNCHANGED <<server, toClient>>
    PROVE  IInv'
<1> DEFINE d == Activating(client)
<1>1. client \in Client /\ client.out = <<>> /\ ~server.bound
    BY DEF IInv, StateInv, RepairInv
<1>2. Rebinds(client, d)
    BY <1>1, ActivatingRebinds
<1>3. Becomes(d)
    OBVIOUS
<1> HIDE DEF d
<1>4. Sent(d, Awaited(d.step)) /\ d.up
    BY <1>2 DEF Rebinds, Sent
<1>5. Awaited(client.step) = {} /\ d.step \notin Restoring
    BY <1>2 DEF Awaited, Rebinds, Restoring
<1> QED
    BY <1>1, <1>2, <1>3, <1>4, <1>5, SendsStep DEF Rebinds

LEMMA RepairBeginsStep ==
    ASSUME IInv, RepairBegins
    PROVE  IInv'
<1>1. client.step = "begin" /\ client.up /\ Becomes(Activating(client))
      /\ UNCHANGED <<server, toClient>>
    BY DEF IInv, StateInv, RepairBegins
<1> QED
    BY <1>1, ActivatesStep

LEMMA RepairsAgainStep ==
    ASSUME IInv, RepairsAgain
    PROVE  IInv'
<1>1. client.step = "retry" /\ UNCHANGED <<server, toClient>>
    BY DEF RepairsAgain
<1>2. CASE client.up
    <2>1. Becomes(Activating(client))
        BY <1>2 DEF RepairsAgain
    <2> QED
        BY <1>1, <1>2, <2>1, ActivatesStep
<1>3. CASE ~client.up
    <2> DEFINE d == [client EXCEPT !.step = "idle"]
    <2>1. client \in Client /\ client.out = <<>> /\ Becomes(d)
        <3>1. Becomes(IF client.up THEN Activating(client) ELSE d)
            BY DEF RepairsAgain
        <3>2. Becomes(d)
            BY <1>3, <3>1
        <3> QED
            BY <3>2 DEF IInv, StateInv
    <2>2. /\ d \in Client /\ d.out = <<>> /\ d.up = client.up /\ d.pending = client.pending
          /\ d.limit = client.limit /\ d.acks = client.acks /\ d.received = client.received
          /\ d.step = "idle"
        BY <2>1 DEF Client, Steps
    <2> HIDE DEF d
    <2>3. Sent(d, Awaited(d.step)) /\ d.step \in Restoring /\ Awaited(client.step) = {}
        BY <1>1, <2>2 DEF Sent, Restoring, Awaited
    <2>4. ~d.up
        BY <1>3, <2>2
    <2> QED
        BY <1>1, <2>1, <2>2, <2>3, <2>4, SendsStep
<1> QED
    BY <1>2, <1>3

\* The connection is empty, the session is not bound and no publish request is counted.
LEMMA EmptyConnection ==
    ASSUME IInv, StateInv', toServer' = <<>>, toClient' = <<>>, ~server'.bound,
           server'.subs = server.subs, client'.pending = 0, client'.limit = client.limit,
           client'.acks = client.acks, client'.received = client.received,
           client'.up => client'.step \notin Restoring
    PROVE  IInv'
<1>1. /\ toServer' \in Seq(ToServer) /\ toClient' \in Seq(ToClient)
      /\ Len(toServer') = 0 /\ Len(toClient') = 0
    BY DEF StateInv
<1>2. \A T : Count(toServer', T) = 0 /\ Count(toClient', T) = 0
    BY CountEmpty
<1>3. RepairInv'
    BY <1>1, <1>2 DEF RepairInv
<1>4. CountInv'
    <2>1. Outstanding' = Count(toServer', {"publish"}) + 0 + Count(toClient', Endings)
        BY <1>1, KindsCounted DEF Outstanding
    <2>2. Outstanding' = 0
        BY <1>2, <2>1
    <2>3. client.limit >= Capacity
        BY DEF IInv, CountInv
    <2> QED
        BY <1>1, <2>2, <2>3 DEF CountInv
<1>5. AckInv'
    BY <1>1 DEF IInv, AckInv
<1>6. BoundInv'
    BY <1>1 DEF BoundInv
<1> QED
    BY <1>3, <1>4, <1>5, <1>6 DEF IInv

\* The count is a number.
LEMMA PendingIs ==
    ASSUME IInv
    PROVE  /\ client.pending \in Nat
           /\ client.up => client.pending = Count(toServer, {"publish"}) + Held(server)
                                              + Count(toClient, Endings)
           /\ Held(server) \in Nat
<1>1. /\ toServer \in Seq(ToServer) /\ toClient \in Seq(ToClient) /\ server.queue \in Nat
      /\ client.pending = IF client.up THEN Outstanding ELSE 0
    BY ServerIs DEF IInv, StateInv, CountInv
<1>2. Outstanding = Count(toServer, {"publish"}) + Held(server) + Count(toClient, Endings)
    BY <1>1, KindsCounted DEF Outstanding, Held
<1>3. Count(toServer, {"publish"}) \in Nat /\ Count(toClient, Endings) \in Nat
    BY <1>1, AboutIs
<1>4. Held(server) \in Nat
    BY <1>1 DEF Held
<1> QED
    BY <1>1, <1>2, <1>3, <1>4

LEMMA LostStep ==
    ASSUME IInv, NEW how, Lost(how)
    PROVE  IInv'
<1> DEFINE renewed == IF how = "break" \/ client.suspended \/ client.active < 1 THEN 0
                      ELSE IF client.pending < client.limit THEN client.pending ELSE client.limit
           step == IF client.step = "retry" THEN client.step ELSE "idle"
           id == IF client.id = Terminating THEN Terminated ELSE client.id
           waiting == client.waiting + renewed
           c == [client EXCEPT !.up = FALSE, !.pending = 0, !.waiting = waiting,
                               !.step = step, !.todo = {}, !.id = id]
           answers == {toClient[n] : n \in 1 .. Len(toClient)}
           session == server.session /\ Answer("session", "good") \notin answers
           t == [server EXCEPT !.bound = FALSE, !.session = session]
<1>1. client \in Client /\ client.out = <<>> /\ server \in Server
    BY DEF IInv, StateInv
<1>2. client' = c /\ server' = t /\ toServer' = <<>> /\ toClient' = <<>>
    BY DEF Lost
<1>3. /\ waiting \in Nat /\ step \in Steps /\ step \in {"idle", "retry"}
      /\ id \in Ids \cup {Pending, Terminating, Terminated} /\ session \in BOOLEAN
    <2>1. renewed \in Nat
        BY <1>1, PendingIs DEF Client
    <2>2. session \in BOOLEAN
        BY <1>1 DEF Server
    <2> HIDE DEF renewed, session
    <2> QED
        BY <1>1, <2>1, <2>2 DEF Client, Steps
<1> HIDE DEF waiting, step, id, session
<1>4. /\ client' \in Client /\ client'.out = <<>> /\ ~client'.up /\ client'.step = step
      /\ client'.pending = 0 /\ client'.limit = client.limit /\ client'.acks = client.acks
      /\ client'.received = client.received
    <2>1. /\ c \in Client /\ c.out = <<>> /\ ~c.up /\ c.step = step /\ c.pending = 0
          /\ c.limit = client.limit /\ c.acks = client.acks /\ c.received = client.received
        <3>1. /\ client \in Client /\ client.out = <<>> /\ waiting \in Nat /\ step \in Steps
              /\ id \in Ids \cup {Pending, Terminating, Terminated}
            BY <1>1, <1>3
        <3>2. c \in Client
            <4> DEFINE b == [client EXCEPT !.up = FALSE, !.pending = 0, !.waiting = waiting]
            <4>1. b \in Client
                <5>1. client \in Client /\ waiting \in Nat /\ 0 \in Int
                    BY <3>1
                <5> HIDE DEF c, t
                <5> QED
                    BY <5>1 DEF Client
            <4>2. c = [b EXCEPT !.step = step, !.todo = {}, !.id = id]
                OBVIOUS
            <4> HIDE DEF b, c
            <4> QED
                BY <3>1, <4>1, <4>2 DEF Client
        <3>3. /\ c.out = <<>> /\ c.up = FALSE /\ c.step = step /\ c.pending = 0
              /\ c.limit = client.limit /\ c.acks = client.acks /\ c.received = client.received
            BY <3>1 DEF Client
        <3> QED
            BY <3>2, <3>3
    <2> HIDE DEF c
    <2> QED
        BY <1>2, <2>1
<1>5. server' \in Server /\ ~server'.bound /\ server'.subs = server.subs
    BY <1>1, <1>2, <1>3 DEF Server
<1>6. toServer' \in Seq(ToServer) /\ toClient' \in Seq(ToClient)
    BY <1>2
<1>7. StateInv'
    BY <1>2, <1>3, <1>4, <1>5, <1>6 DEF StateInv
<1> QED
    BY <1>2, <1>4, <1>5, <1>7, EmptyConnection

LEMMA ReconnectsStep ==
    ASSUME IInv, Reconnects
    PROVE  IInv'
<1> DEFINE step == IF client.step = "idle" THEN "begin" ELSE client.step
           c == [client EXCEPT !.up = TRUE, !.step = step]
<1>1. /\ client \in Client /\ client.out = <<>> /\ server \in Server /\ ~client.up
      /\ ~server.bound /\ toServer = <<>> /\ toClient = <<>>
    BY DEF IInv, StateInv, Reconnects
<1>2. client' = c /\ server' = server /\ toServer' = <<>> /\ toClient' = <<>>
    BY <1>1 DEF Reconnects
<1>3. step \in Steps
    BY <1>1 DEF Client, Steps
<1> HIDE DEF step
<1>4. /\ client' \in Client /\ client'.out = <<>> /\ client'.up
      /\ client'.pending = client.pending /\ client'.limit = client.limit
      /\ client'.acks = client.acks /\ client'.received = client.received
    BY <1>1, <1>2, <1>3 DEF Client
<1>5. client'.pending = 0
    BY <1>1, <1>4 DEF IInv, CountInv
<1>6. toServer' \in Seq(ToServer) /\ toClient' \in Seq(ToClient)
    BY <1>2
<1>7. StateInv'
    BY <1>1, <1>2, <1>4, <1>6 DEF StateInv
<1>8. client'.step \notin Restoring
    <2>1. client'.step = step /\ client.step \in {"idle", "retry"}
        BY <1>1, <1>2 DEF Client, IInv, StateInv
    <2> QED
        BY <2>1 DEF step, Restoring
<1> QED
    BY <1>1, <1>2, <1>4, <1>5, <1>7, <1>8, EmptyConnection

\* The first message that ends a publish request
LEMMA FirstEnding ==
    ASSUME NEW s \in Seq(ToClient), s # <<>>, Topic(Head(s)) \in Endings
    PROVE  Rank(About(s, Endings), 1) = 1
<1>1. 1 \in 1 .. Len(s) /\ Head(s) = s[1]
    OBVIOUS
<1>2. About(s, Endings) \in SUBSET (Nat \ {0}) /\ 1 \in About(s, Endings)
    BY <1>1, AboutIs DEF About
<1>3. {j \in About(s, Endings) : j <= 1} = {1}
    BY <1>2
<1> QED
    BY <1>3, FS_Singleton DEF Rank

LEMMA ClientReceivesStep ==
    ASSUME IInv, ClientReceives
    PROVE  IInv'
<1> DEFINE m == Head(toClient)
           rest == Tail(toClient)
           d == CASE m.kind = "message" -> Received(client, m)
                  [] m.kind = "fault"   -> Rejected(client, m.code)
                  [] m.kind = "answer"  -> Answered(client, m)
<1>1. StateInv /\ RepairInv /\ BoundInv /\ CountInv /\ AckInv /\ client \in Client /\ client.out = <<>>
    BY DEF IInv, StateInv
<1>2. toClient \in Seq(ToClient) /\ toClient # <<>> /\ client.up
    BY <1>1 DEF StateInv, ClientReceives
<1>3. /\ Becomes(d) /\ server' = server /\ toClient' = rest
    BY DEF ClientReceives
<1>4. /\ m \in ToClient /\ m = toClient[1] /\ 1 \in 1 .. Len(toClient) /\ rest \in Seq(ToClient)
      /\ \A T : Count(toClient, T) = Count(rest, T) + Is(m, T) /\ Count(rest, T) \in Nat
    <2>1. m \in ToClient /\ m = toClient[1] /\ 1 \in 1 .. Len(toClient) /\ rest \in Seq(ToClient)
        BY <1>2, CountArrived
    <2>2. ASSUME NEW T
          PROVE  Count(toClient, T) = Count(rest, T) + Is(m, T) /\ Count(rest, T) \in Nat
        <3>1. Count(toClient, T) = Count(rest, T) + Is(m, T)
            BY <1>2, CountArrived
        <3>2. Count(rest, T) \in Nat
            BY <2>1, AboutIs
        <3> QED
            BY <3>1, <3>2
    <2> QED
        BY <2>1, <2>2
<1>5. client.pending \in Nat /\ client.limit >= Capacity /\ client.acks \subseteq client.received
    BY <1>1, PendingIs DEF CountInv, AckInv
<1> HIDE DEF rest, m
<1>6. CASE m.kind = "message"
    <2> DEFINE e == Received(client, m)
    <2>1. Becomes(e) /\ m \in Notification
        BY <1>3, <1>4, <1>6 DEF ToClient
    <2>2. /\ e \in Client /\ e.up = client.up /\ e.pending = client.pending - 1
          /\ e.limit = client.limit /\ e.step = client.step /\ Sent(e, {"delete"})
          /\ client.received \subseteq e.received /\ e.acks \subseteq e.received
        BY <1>1, <1>5, <2>1, ReceivedIs
    <2> HIDE DEF e
    <2>3. Handles(e, rest)
        <3>1. e.out = <<>> \/ \E r \in ToServer : e.out = <<r>>
            BY <2>2 DEF Sent
        <3> QED
            BY <1>2, <1>3, <2>1, <2>2, <3>1 DEF Handles, rest
    <2>4. Is(m, Endings) = 1
        BY <1>6 DEF Is, Topic, Endings
    <2>5. e.pending = client.pending - (Count(toClient, Endings) - Count(rest, Endings))
        BY <1>4, <1>5, <2>2, <2>4
    <2>6. server.bound
        BY <1>1, <1>4, <1>6 DEF BoundInv, OfBound
    <2> QED
        BY <1>5, <2>2, <2>3, <2>5, <2>6, TakesStep
<1>7. CASE m.kind = "fault"
    <2> DEFINE e == Rejected(client, m.code)
    <2>1. Becomes(e)
        BY <1>3, <1>7
    <2>2. Is(m, Endings) = 1 /\ Topic(m) \in Endings
        BY <1>7 DEF Is, Topic, Endings
    <2>3. Count(toClient, Endings) = Count(rest, Endings) + 1 /\ Count(rest, Endings) \in Nat
        BY <1>4, <2>2
    <2>4. /\ Count(toServer, {"publish"}) \in Nat /\ Held(server) \in Nat
          /\ client.pending = Count(toServer, {"publish"}) + Held(server) + Count(toClient, Endings)
        BY <1>1, <1>2, PendingIs, CountsAre
    <2>5. client.pending >= 1
        BY <2>3, <2>4
    <2>6. /\ e \in Client /\ e.up = client.up /\ e.pending = client.pending - 1
          /\ e.limit = client.limit \/ (m.code = "too many" /\ e.limit = client.pending - 1)
          /\ e.step = client.step /\ e.out = <<>>
          /\ e.received = client.received /\ e.acks = client.acks
        BY <1>1, <2>5, RejectedIs
    <2> HIDE DEF e
    <2>7. ASSUME m.code = "too many"
          PROVE  client.pending - 1 >= Capacity
        <3>1. /\ server.bound
              /\ server.queue + Count(toClient, Endings) - Rank(About(toClient, Endings), 1)
                    >= Capacity
            BY <1>1, <1>4, <1>7, <2>7 DEF CountInv
        <3>2. Rank(About(toClient, Endings), 1) = 1
            BY <1>2, <2>2, FirstEnding DEF m
        <3>3. Held(server) = server.queue
            BY <3>1 DEF Held
        <3> QED
            BY <2>3, <2>4, <3>1, <3>2, <3>3, Constants
    <2>8. e.limit >= Capacity
        BY <1>5, <2>6, <2>7
    <2>9. Handles(e, rest) /\ Sent(e, {"delete"})
        <3>1. rest = Tail(toClient) /\ e.up = client.up /\ e.out = <<>> /\ e \in Client
            BY <2>6 DEF rest
        <3> HIDE DEF rest
        <3>2. Sent(e, {"delete"})
            BY <3>1 DEF Sent
        <3>3. Handles(e, rest)
            BY <1>2, <1>3, <2>1, <3>1 DEF Handles
        <3> QED
            BY <3>2, <3>3
    <2>10. e.pending = client.pending - (Count(toClient, Endings) - Count(rest, Endings))
        <3>1. e.pending = client.pending - 1
            BY <2>6
        <3> QED
            BY <1>5, <2>3, <3>1
    <2> QED
        BY <1>5, <2>6, <2>8, <2>9, <2>10, TakesStep
<1>8. CASE m.kind = "answer"
    <2> DEFINE e == Answered(client, m)
    <2>1. Becomes(e) /\ m \in Answers
        BY <1>3, <1>4, <1>8 DEF Answers
    <2>2. /\ m.to \in {"activate", "session", "close", "delete", "transfer", "create", "republish"}
          /\ Topic(m) = m.to
        BY <2>1, AnswerIs
    <2>3. Is(m, Endings) = 0 /\ Count(rest, Endings) = Count(toClient, Endings)
        <3>1. Is(m, Endings) = 0
            BY <2>2 DEF Is, Endings
        <3> QED
            BY <1>4, <3>1
    <2>4. \/ m.to \notin Repairing /\ Quiet(client, e) /\ e.out = <<>>
          \/ /\ Restored(client, e)
             /\ \/ m.to \in {"transfer", "republish"}
                \/ m.to = "activate" /\ m.result = "good"
                \/ client.step \in {"recreate", "replace"}
          \/ /\ Rebinds(client, e)
             /\ m.to \in Binding /\ ~(m.to = "activate" /\ m.result = "good")
        BY <1>1, <1>2, <2>1, AnsweredIs
    <2> HIDE DEF e
    <2>5. ASSUME NEW ks, Sent(e, ks), e \in Client, e.up = client.up
          PROVE  Handles(e, rest)
        <3>1. e.out = <<>> \/ \E r \in ToServer : e.out = <<r>>
            BY <2>5 DEF Sent
        <3> QED
            BY <1>2, <1>3, <2>1, <2>5, <3>1 DEF Handles, rest
    <2>6. m.to \in Repairing => Count(toServer, Repairing) = 0 /\ Count(rest, Repairing) = 0
        <3>1. m.to \in Repairing => Is(m, Repairing) = 1
            BY <2>2 DEF Is
        <3>2. Count(toServer, Repairing) + Count(toClient, Repairing) <= 1
              /\ Count(toServer, Repairing) \in Nat
            BY <1>1, CountsAre DEF RepairInv
        <3> QED
            BY <1>4, <3>1, <3>2
    <2>7. CASE m.to \notin Repairing /\ Quiet(client, e) /\ e.out = <<>>
        <3>1. /\ e \in Client /\ e.out = <<>> /\ e.up = client.up /\ e.step = client.step /\ Sent(e, {"delete"})
              /\ e.acks \subseteq e.received /\ client.received \subseteq e.received
              /\ e.limit >= Capacity /\ e.pending = client.pending
            BY <1>5, <2>7 DEF Quiet
        <3>2. Handles(e, rest)
            BY <2>5, <3>1
        <3>3. e.pending = client.pending - (Count(toClient, Endings) - Count(rest, Endings))
            BY <1>4, <1>5, <2>3, <3>1
        <3> QED
            BY <3>1, <3>2, <3>3, TakesStep
    <2>8. CASE /\ Restored(client, e)
               /\ \/ m.to \in {"transfer", "republish"}
                  \/ m.to = "activate" /\ m.result = "good"
                  \/ client.step \in {"recreate", "replace"}
        <3>1. Count(toServer, Repairing) = 0 /\ Count(rest, Repairing) = 0
            <4>1. CASE client.step \in {"recreate", "replace"}
                <5>1. Awaited(client.step) = {}
                    BY <4>1 DEF Awaited
                <5>2. Count(toServer, Repairing) = 0 /\ Count(toClient, Repairing) = 0
                    BY <5>1, NothingAwaited
                <5> QED
                    BY <1>4, <5>2 DEF Is
            <4> QED
                BY <2>6, <2>8, <4>1 DEF Repairing, Binding
        <3>2. /\ e \in Client /\ e.up = client.up /\ e.pending = client.pending
              /\ e.limit = client.limit /\ e.acks = client.acks
              /\ client.received \subseteq e.received /\ e.step \in Restoring
              /\ Sent(e, {"create", "delete"} \cup Awaited(e.step))
            BY <2>8 DEF Restored
        <3>3. Handles(e, rest)
            BY <2>5, <3>2
        <3>4. server.bound
            <4>1. (m.to = "activate" /\ m.result = "good") => server.bound
                BY <1>1, <1>4, <1>8 DEF BoundInv, OfBound
            <4>2. m.to \in {"transfer", "republish"} => client.step \in Restoring
                <5>1. m.to \in {"transfer", "republish"} => m.to \in Awaited(client.step)
                    BY <1>1, <1>4, <2>2 DEF RepairInv, Fits, Repairing
                <5> QED
                    BY <5>1 DEF Awaited, Restoring
            <4>3. client.step \in Restoring => server.bound
                BY <1>1, <1>2 DEF BoundInv
            <4> QED
                BY <4>1, <4>2, <4>3, <2>8 DEF Restoring
        <3> QED
            BY <2>3, <3>1, <3>2, <3>3, <3>4, MovesStep
    <2>9. CASE /\ Rebinds(client, e) /\ m.to \in Binding
               /\ ~(m.to = "activate" /\ m.result = "good")
        <3>1. Count(toServer, Repairing) = 0 /\ Count(rest, Repairing) = 0
            BY <2>6, <2>9 DEF Repairing
        <3>2. ~server.bound
            <4>1. m.to \in Awaited(client.step)
                BY <1>1, <1>4, <2>2, <2>9 DEF RepairInv, Fits, Repairing
            <4>2. m.to \in {"session", "close"} => client.step \in {"session", "close"}
                BY <4>1 DEF Awaited
            <4>3. server.bound => client.step \notin {"session", "close"}
                                  /\ (m.to = "activate" => m.result = "good")
                BY <1>1, <1>4, <2>2 DEF RepairInv
            <4> QED
                BY <2>9, <4>2, <4>3 DEF Binding
        <3>3. /\ e \in Client /\ e.up = client.up /\ e.pending = client.pending
              /\ e.limit = client.limit /\ e.acks = client.acks
              /\ client.received \subseteq e.received
              /\ Sent(e, {"create", "delete"} \cup Awaited(e.step))
              /\ Sent(e, Awaited(e.step)) /\ e.step \notin Restoring
            BY <2>9 DEF Rebinds, Sent, Restoring
        <3>4. Handles(e, rest)
            BY <2>5, <3>3
        <3> QED
            BY <2>3, <3>1, <3>2, <3>3, <3>4, MovesStep
    <2> QED
        BY <2>4, <2>7, <2>8, <2>9
<1>9. m.kind \in {"message", "fault", "answer"}
    BY <1>4 DEF ToClient, Notification
<1> QED
    BY <1>6, <1>7, <1>8, <1>9

-----------------------------------------------------------------------------
(***************************************************************************)
(* What the server makes of a request.                                     *)
(***************************************************************************)
\* The server is t and has sent ms, having processed r as s: a publish request is held
\* or ended, another request is answered; a notification goes when it is acknowledged.
Serves(s, r, t, ms) ==
    /\ t \in Server /\ (t.bound => t.session) /\ ms \in Seq(ToClient)
    /\ (s.bound /\ r.kind \notin Binding) => t.bound
    /\ t.bound => (s.bound \/ r.kind = "activate")
    /\ (r.kind \in Binding => ~s.bound) =>
          Count(ms, Endings) + Held(t) = Held(s) + Is(r, {"publish"})
    /\ Count(ms, Repairing) <= Is(r, Repairing)
    /\ \A n \in 1 .. Len(ms) :
          /\ Topic(ms[n]) \in Endings \cup {r.kind}
          /\ Topic(ms[n]) = "activate" => (ms[n].result = "good" \/ ~t.bound)
          /\ OfBound(ms[n]) => t.bound
          /\ (ms[n].kind = "fault" /\ ms[n].code = "too many") =>
                (n = Len(ms) /\ t.bound /\ t.queue >= Capacity)
    /\ \A j \in Ids :
          /\ t.subs[j].next = s.subs[j].next
          /\ \A n \in s.subs[j].sent \ t.subs[j].sent :
                r.kind = "publish" /\ <<j, n>> \in r.acks

\* A subscription of the server
Sub == [phase : {"none", "live", "gone"}, here : BOOLEAN, next : Numbers, sent : SUBSET Numbers]

\* The server, its subscriptions changed
LEMMA WithSubs ==
    ASSUME NEW s \in Server, NEW subs \in [Ids -> Sub], NEW t, t = [s EXCEPT !.subs = subs]
    PROVE  /\ t \in Server /\ t.subs = subs /\ t.session = s.session /\ t.bound = s.bound
           /\ t.queue = s.queue /\ t.farewells = s.farewells
BY DEF Server, Sub

\* t has kept what s has sent.
Keeps(s, t) == \A j \in Ids : t.subs[j].next = s.subs[j].next /\ t.subs[j].sent = s.subs[j].sent

\* A sequence of one message
LEMMA OneMessage ==
    ASSUME NEW m \in ToClient
    PROVE  /\ <<m>> \in Seq(ToClient) /\ Len(<<m>>) = 1
           /\ \A n \in 1 .. Len(<<m>>) : n = 1 /\ <<m>>[n] = m
           /\ \A T : Count(<<m>>, T) = Is(m, T)
<1>1. <<m>> \in Seq(ToClient) /\ Len(<<m>>) = 1 /\ \A n \in 1 .. Len(<<m>>) : n = 1 /\ <<m>>[n] = m
    OBVIOUS
<1>2. ASSUME NEW T
      PROVE  Count(<<m>>, T) = Is(m, T)
    BY CountOne DEF Is
<1> QED
    BY <1>1, <1>2

\* A request that is not to publish is answered.
LEMMA AnswerServes ==
    ASSUME NEW s \in Server, NEW r \in ToServer, r.kind # "publish",
           NEW t \in Server, t.bound => t.session,
           NEW m \in ToClient, m.kind = "answer", m.to = r.kind,
           (s.bound /\ r.kind \notin Binding) => t.bound,
           t.bound => (s.bound \/ r.kind = "activate"),
           (r.kind \in Binding => ~s.bound) => Held(t) = Held(s),
           r.kind = "activate" => (m.result = "good" <=> t.bound),
           Keeps(s, t)
    PROVE  Serves(s, r, t, <<m>>)
<1>1. /\ <<m>> \in Seq(ToClient) /\ Len(<<m>>) = 1
      /\ \A n \in 1 .. Len(<<m>>) : n = 1 /\ <<m>>[n] = m
      /\ Count(<<m>>, Endings) = Is(m, Endings) /\ Count(<<m>>, Repairing) = Is(m, Repairing)
    BY OneMessage
<1>2. Topic(m) = r.kind /\ Topic(r) = r.kind /\ r.kind \notin Endings
    <2>1. Topic(r) = r.kind /\ Topic(m) = r.kind
        BY RequestTopic DEF Topic
    <2>2. r.kind \notin Endings
        BY DEF ToServer, Endings
    <2> QED
        BY <2>1, <2>2
<1>3. Is(m, Endings) = 0 /\ Is(r, {"publish"}) = 0 /\ Is(m, Repairing) = Is(r, Repairing)
      /\ Is(r, Repairing) \in {0, 1}
    BY <1>2 DEF Is
<1>4. Held(s) \in Nat
    BY ServerIs DEF Held
<1>5. (r.kind \in Binding => ~s.bound) =>
          Count(<<m>>, Endings) + Held(t) = Held(s) + Is(r, {"publish"})
    BY <1>1, <1>3, <1>4
<1>6. Count(<<m>>, Repairing) <= Is(r, Repairing)
    BY <1>1, <1>3
<1>7. ASSUME NEW n \in 1 .. Len(<<m>>)
      PROVE  /\ Topic(<<m>>[n]) \in Endings \cup {r.kind}
             /\ Topic(<<m>>[n]) = "activate" => (<<m>>[n].result = "good" \/ ~t.bound)
             /\ OfBound(<<m>>[n]) => t.bound
             /\ ~(<<m>>[n].kind = "fault")
    <2>1. <<m>>[n] = m
        BY <1>1
    <2>2. Topic(m) = "activate" => (m.result = "good" \/ ~t.bound)
        BY <1>2
    <2>3. OfBound(m) => t.bound
        BY DEF OfBound
    <2> QED
        BY <1>2, <2>1, <2>2, <2>3
<1>8. \A j \in Ids : /\ t.subs[j].next = s.subs[j].next
                     /\ s.subs[j].sent \ t.subs[j].sent = {}
    BY DEF Keeps
<1> QED
    BY <1>1, <1>5, <1>6, <1>7, <1>8 DEF Serves

LEMMA ActivatedServes ==
    ASSUME NEW s \in Server, s.bound => s.session, NEW r \in ToServer, r.kind = "activate"
    PROVE  Serves(s, r, Activated(s)[1], Activated(s)[2])
<1> DEFINE t == [s EXCEPT !.bound = TRUE, !.queue = 0]
<1>1. /\ t \in Server /\ t.bound = TRUE /\ t.session = s.session /\ t.queue = 0
      /\ t.subs = s.subs
    <2>1. 0 \in 0 .. Capacity
        BY Constants
    <2> QED
        BY <2>1 DEF Server
<1>2. Answer("activate", "good") \in ToClient /\ Answer("activate", "bad") \in ToClient
    BY DEF Answer, ToClient
<1>3. Activated(s) = IF s.session THEN <<t, <<Answer("activate", "good")>>>>
                     ELSE <<s, <<Answer("activate", "bad")>>>>
    BY DEF Activated
<1> HIDE DEF t
<1>4. "activate" \in Binding
    BY DEF Binding
<1>5. CASE s.session
    <2> DEFINE m == Answer("activate", "good")
    <2>1. m.kind = "answer" /\ m.to = r.kind /\ m.result = "good" /\ m \in ToClient
        BY <1>2 DEF Answer
    <2>2. (r.kind \in Binding => ~s.bound) => Held(t) = Held(s)
        BY <1>1, <1>4 DEF Held
    <2>3. Keeps(s, t)
        BY <1>1 DEF Keeps
    <2>4. Activated(s)[1] = t /\ Activated(s)[2] = <<m>>
        BY <1>3, <1>5
    <2> HIDE DEF m
    <2>5. Serves(s, r, t, <<m>>)
        BY <1>1, <1>4, <1>5, <2>1, <2>2, <2>3, AnswerServes
    <2> QED
        BY <2>4, <2>5
<1>6. CASE ~s.session
    <2> DEFINE m == Answer("activate", "bad")
    <2>1. m.kind = "answer" /\ m.to = r.kind /\ m \in ToClient /\ ~s.bound /\ m.result = "bad"
        BY <1>2, <1>6 DEF Answer
    <2>2. Keeps(s, s)
        BY DEF Keeps
    <2>3. Activated(s)[1] = s /\ Activated(s)[2] = <<m>>
        BY <1>3, <1>6
    <2> HIDE DEF m
    <2>4. Serves(s, r, s, <<m>>)
        BY <1>6, <2>1, <2>2, AnswerServes
    <2> QED
        BY <2>3, <2>4
<1> QED
    BY <1>5, <1>6

LEMMA SessionGoneIs ==
    ASSUME NEW s \in Server
    PROVE  LET t == SessionGone(s)
           IN  /\ t \in Server /\ t.session = FALSE /\ t.bound = FALSE /\ t.queue = 0
               /\ Keeps(s, t)
<1> DEFINE subs == [i \in Ids |-> [s.subs[i] EXCEPT !.here = FALSE]]
           e == [s EXCEPT !.session = FALSE, !.bound = FALSE, !.queue = 0, !.farewells = {}]
           t == SessionGone(s)
<1>1. s.subs \in [Ids -> Sub]
    BY DEF Server, Sub
<1>2. /\ subs \in [Ids -> Sub]
      /\ \A j \in Ids : subs[j].next = s.subs[j].next /\ subs[j].sent = s.subs[j].sent
    BY <1>1 DEF Sub
<1>3. e \in Server /\ e.session = FALSE /\ e.bound = FALSE /\ e.queue = 0
    <2>1. 0 \in 0 .. Capacity
        BY Constants
    <2> QED
        BY <2>1 DEF Server
<1>4. t = [e EXCEPT !.subs = subs]
    BY DEF SessionGone
<1> HIDE DEF subs, e, t
<1>5. t \in Server /\ t.session = FALSE /\ t.bound = FALSE /\ t.queue = 0 /\ t.subs = subs
    BY <1>2, <1>3, <1>4, WithSubs
<1>6. Keeps(s, t)
    BY <1>2, <1>5 DEF Keeps
<1> QED
    BY <1>5, <1>6 DEF t

LEMMA SessionServes ==
    ASSUME NEW s \in Server, NEW r \in ToServer, r.kind = "session" \/ r.kind = "close",
           NEW session \in BOOLEAN
    PROVE  Serves(s, r, [SessionGone(s) EXCEPT !.session = session],
                        <<Answer(r.kind, "good")>>)
<1> DEFINE e == SessionGone(s)
           t == [SessionGone(s) EXCEPT !.session = session]
           m == Answer(r.kind, "good")
<1>1. /\ e \in Server /\ e.session = FALSE /\ e.bound = FALSE /\ e.queue = 0 /\ Keeps(s, e)
    BY SessionGoneIs
<1>2. /\ t \in Server /\ t.bound = FALSE /\ t.queue = 0 /\ t.subs = e.subs
    <2> HIDE DEF e
    <2>1. t = [e EXCEPT !.session = session]
        BY DEF e
    <2> HIDE DEF t
    <2> QED
        BY <1>1, <2>1 DEF Server
<1> HIDE DEF e, t
<1>3. Keeps(s, t)
    BY <1>1, <1>2 DEF Keeps
<1>4. r.kind \in Binding /\ r.kind # "publish" /\ r.kind # "activate"
    BY DEF Binding
<1>5. (r.kind \in Binding => ~s.bound) => Held(t) = Held(s)
    BY <1>2, <1>4 DEF Held
<1>6. m.kind = "answer" /\ m.to = r.kind /\ m \in ToClient
    BY DEF Answer, ToClient
<1> HIDE DEF m
<1>7. Serves(s, r, t, <<m>>)
    BY <1>2, <1>3, <1>4, <1>5, <1>6, AnswerServes
<1> QED
    BY <1>7 DEF t, m

\* What a request carries
LEMMA RequestData ==
    ASSUME NEW r \in ToServer
    PROVE  /\ r.kind = "publish" => r.acks \in SUBSET Notice
           /\ r.kind = "transfer" => r.ids \in SUBSET Ids
BY DEF ToServer

LEMMA TransferredServes ==
    ASSUME NEW s \in Server, s.bound => s.session, NEW r \in ToServer, r.kind = "transfer"
    PROVE  Serves(s, r, Transferred(s, r.ids)[1], Transferred(s, r.ids)[2])
<1> DEFINE good == {i \in r.ids : i \in Live(s) \ Here(s)}
           subs == [i \in Ids |-> [s.subs[i] EXCEPT !.here = @ \/ i \in good]]
           t == [s EXCEPT !.subs = subs]
           m == [kind |-> "answer", to |-> "transfer", result |-> "good", ids |-> good]
<1>1. good \in SUBSET Ids
    BY RequestData
<1> HIDE DEF good
<1>2. s.subs \in [Ids -> Sub]
    BY DEF Server, Sub
<1>3. /\ subs \in [Ids -> Sub]
      /\ \A j \in Ids : subs[j].next = s.subs[j].next /\ subs[j].sent = s.subs[j].sent
    <2>1. ASSUME NEW i \in Ids
          PROVE  /\ subs[i] \in Sub /\ subs[i].next = s.subs[i].next
                 /\ subs[i].sent = s.subs[i].sent
        <3>1. s.subs[i] \in Sub /\ (s.subs[i].here \/ i \in good) \in BOOLEAN
            BY <1>2
        <3>2. subs[i] = [s.subs[i] EXCEPT !.here = s.subs[i].here \/ i \in good]
            OBVIOUS
        <3> QED
            BY <3>1, <3>2 DEF Sub
    <2> QED
        BY <2>1
<1>4. Transferred(s, r.ids)[1] = t /\ Transferred(s, r.ids)[2] = <<m>>
    BY DEF Transferred, good
<1> HIDE DEF subs
<1>5. t \in Server /\ t.subs = subs /\ t.session = s.session /\ t.bound = s.bound
      /\ t.queue = s.queue
    BY <1>3, WithSubs
<1>6. m \in ToClient /\ m.kind = "answer" /\ m.to = r.kind
    BY <1>1 DEF ToClient
<1> HIDE DEF t, m
<1>7. Keeps(s, t) /\ Held(t) = Held(s)
    BY <1>3, <1>5 DEF Keeps, Held
<1>8. Serves(s, r, t, <<m>>)
    BY <1>5, <1>6, <1>7, AnswerServes
<1> QED
    BY <1>4, <1>8

\* A subscription of the server comes or goes.
With(s, i, phase, here) == [s EXCEPT !.subs[i].phase = phase, !.subs[i].here = here]

LEMMA SubChanged ==
    ASSUME NEW s \in Server, NEW i \in Ids, NEW phase \in {"none", "live", "gone"},
           NEW here \in BOOLEAN,
           NEW t, t = With(s, i, phase, here)
    PROVE  /\ t \in Server /\ t.session = s.session /\ t.bound = s.bound
           /\ t.queue = s.queue /\ t.farewells = s.farewells /\ Keeps(s, t)
<1> DEFINE a == [s.subs EXCEPT ![i].phase = phase]
           b == [a EXCEPT ![i].here = here]
<1>1. s.subs \in [Ids -> Sub]
    BY DEF Server, Sub
<1>2. /\ a \in [Ids -> Sub]
      /\ \A j \in Ids : a[j].next = s.subs[j].next /\ a[j].sent = s.subs[j].sent
    BY <1>1 DEF Sub
<1>3. t = [s EXCEPT !.subs = b]
    BY DEF Server, With
<1> HIDE DEF a
<1>4. /\ b \in [Ids -> Sub]
      /\ \A j \in Ids : b[j].next = a[j].next /\ b[j].sent = a[j].sent
    BY <1>2 DEF Sub
<1> HIDE DEF b
<1>5. /\ t \in Server /\ t.subs = b /\ t.session = s.session /\ t.bound = s.bound
      /\ t.queue = s.queue /\ t.farewells = s.farewells
    BY <1>3, <1>4, WithSubs
<1> QED
    BY <1>2, <1>4, <1>5 DEF Keeps

\* Of the ids that are free one is the least.
LEMMA LeastIs ==
    ASSUME NEW F \in SUBSET Ids, F # {}
    PROVE  \E i \in F : \A j \in F : i <= j
<1>1. F \in SUBSET Int /\ IsFiniteSet(F) /\ Cardinality(F) \in Nat
    <2>1. Ids \in SUBSET Nat /\ IsFiniteSet(Ids)
        BY Constants
    <2>2. IsFiniteSet(F)
        BY <2>1, FS_Subset
    <2> QED
        BY <2>1, <2>2, FS_CardinalityType
<1>2. Cardinality(F) >= 1
    BY <1>1, FS_EmptySet
<1>3. PICK i \in F : Rank(F, i) = 1
    BY <1>1, <1>2, RankOnto
<1>4. ASSUME NEW j \in F, j < i
      PROVE  FALSE
    <2>1. Rank(F, j) < Rank(F, i)
        BY <1>1, <1>4, RankIncreases
    <2>2. Rank(F, j) \in 1 .. Cardinality(F)
        BY <1>1, RankInRange
    <2> QED
        BY <1>1, <1>3, <2>1, <2>2
<1> QED
    BY <1>1, <1>4

LEMMA SubscriptionCreatedServes ==
    ASSUME NEW s \in Server, s.bound => s.session, NEW r \in ToServer, r.kind = "create"
    PROVE  Serves(s, r, SubscriptionCreated(s)[1], SubscriptionCreated(s)[2])
<1> DEFINE free == {i \in Ids : s.subs[i].phase = "none"}
           i == CHOOSE i \in free : \A j \in free : i <= j
           t == [s EXCEPT !.subs[i].phase = "live", !.subs[i].here = TRUE]
           bad == Answer("create", "bad")
           m == [kind |-> "answer", to |-> "create", result |-> "good", id |-> i]
<1>1. SubscriptionCreated(s) = IF free = {} THEN <<s, <<bad>>>> ELSE <<t, <<m>>>>
    BY DEF SubscriptionCreated
<1> HIDE DEF t, m, i, bad
<1>2. CASE free = {}
    <2>1. SubscriptionCreated(s)[1] = s /\ SubscriptionCreated(s)[2] = <<bad>>
        BY <1>1, <1>2
    <2>2. bad \in ToClient /\ bad.kind = "answer" /\ bad.to = r.kind
        BY DEF Answer, ToClient, bad
    <2>3. Keeps(s, s)
        BY DEF Keeps
    <2>4. Serves(s, r, s, <<bad>>)
        BY <2>2, <2>3, AnswerServes
    <2> QED
        BY <2>1, <2>4
<1>3. CASE free # {}
    <2>1. SubscriptionCreated(s)[1] = t /\ SubscriptionCreated(s)[2] = <<m>>
        BY <1>1, <1>3
    <2>2. i \in free
        <3>1. \E k \in free : \A j \in free : k <= j
            BY <1>3, LeastIs
        <3> HIDE DEF free
        <3> QED
            BY <3>1 DEF i
    <2>3. i \in Ids
        BY <2>2
    <2> HIDE DEF free
    <2>4. m \in ToClient /\ m.kind = "answer" /\ m.to = r.kind
        BY <2>3 DEF ToClient, m
    <2>5. /\ t \in Server /\ t.session = s.session /\ t.bound = s.bound
          /\ t.queue = s.queue /\ Keeps(s, t)
        <3> DEFINE here == TRUE
        <3>1. t = With(s, i, "live", here)
            BY DEF t, With
        <3>2. "live" \in {"none", "live", "gone"} /\ here \in BOOLEAN
            OBVIOUS
        <3> HIDE DEF here
        <3> QED
            BY <2>3, <3>1, <3>2, SubChanged
    <2>6. Held(t) = Held(s)
        BY <2>5 DEF Held
    <2>7. Serves(s, r, t, <<m>>)
        BY <2>4, <2>5, <2>6, AnswerServes
    <2> QED
        BY <2>1, <2>7
<1> QED
    BY <1>2, <1>3

LEMMA RepublishReceivedServes ==
    ASSUME NEW s \in Server, s.bound => s.session, NEW r \in ToServer, r.kind = "republish"
    PROVE  Serves(s, r, RepublishReceived(s, r)[1], RepublishReceived(s, r)[2])
<1> DEFINE m == IF r.id \notin Here(s) THEN Answer("republish", "no such subscription")
                ELSE IF r.number \notin s.subs[r.id].sent THEN Answer("republish", "not available")
                ELSE [kind |-> "answer", to |-> "republish", result |-> "good",
                      message |-> MessageOf(r.id, r.number, "data")]
<1>1. RepublishReceived(s, r)[1] = s /\ RepublishReceived(s, r)[2] = <<m>>
    BY DEF RepublishReceived
<1>2. m \in ToClient /\ m.kind = "answer" /\ m.to = r.kind
    <2>1. CASE r.id \notin Here(s)
        BY <2>1 DEF Answer, ToClient
    <2>2. CASE r.id \in Here(s) /\ r.number \notin s.subs[r.id].sent
        BY <2>2 DEF Answer, ToClient
    <2>3. CASE r.id \in Here(s) /\ r.number \in s.subs[r.id].sent
        <3>1. r.id \in Ids
            BY <2>3 DEF Here
        <3>2. r.number \in Numbers
            BY <2>3, <3>1, ServerIs
        <3>3. MessageOf(r.id, r.number, "data") \in Notification
            BY <3>1, <3>2 DEF MessageOf, Notification
        <3> QED
            BY <2>3, <3>3 DEF ToClient
    <2> QED
        BY <2>1, <2>2, <2>3
<1>3. Keeps(s, s)
    BY DEF Keeps
<1> HIDE DEF m
<1>4. Serves(s, r, s, <<m>>)
    BY <1>2, <1>3, AnswerServes
<1> QED
    BY <1>1, <1>4

\* The publish requests that go with the last subscription, and the answer
Repeated(f, q) == [n \in 1 .. q |-> f]
EndsAll(ms, q, f, a) ==
    /\ ms \in Seq(ToClient)
    /\ \A n \in 1 .. Len(ms) : ms[n] = f \/ ms[n] = a
    /\ Count(ms, Endings) = q /\ Count(ms, Repairing) = 0

LEMMA FaultsThenAnswer ==
    ASSUME NEW q \in Nat, NEW f \in ToClient, f.kind = "fault",
           NEW a \in ToClient, Topic(a) \notin Endings \cup Repairing,
           NEW ms, ms = Append(Repeated(f, q), a)
    PROVE  EndsAll(ms, q, f, a)
<1> DEFINE fs == Repeated(f, q)
<1>1. fs \in Seq(ToClient) /\ Len(fs) = q /\ \A n \in 1 .. q : fs[n] = f
    BY DEF Repeated
<1> HIDE DEF fs
<1>2. /\ ms \in Seq(ToClient) /\ Len(ms) = q + 1
      /\ \A n \in 1 .. q + 1 : ms[n] = IF n <= q THEN f ELSE a
    <2>1. ms = Append(fs, a)
        BY DEF fs
    <2>2. /\ ms \in Seq(ToClient) /\ Len(ms) = q + 1 /\ ms[q + 1] = a
          /\ \A n \in 1 .. q : ms[n] = fs[n]
        BY <1>1, <2>1, AppendProperties
    <2> QED
        BY <1>1, <2>2
<1>3. Topic(f) = "fault" /\ Topic(f) \in Endings /\ Topic(f) \notin Repairing
    BY DEF Topic, Endings, Repairing, Binding
<1>4. About(ms, Endings) = 1 .. q
    BY <1>2, <1>3 DEF About
<1>5. Count(ms, Endings) = q
    BY <1>4, FS_Interval DEF Count
<1>6. Count(ms, Repairing) = 0
    BY <1>2, <1>3, CountNone
<1>7. \A n \in 1 .. Len(ms) : ms[n] = f \/ ms[n] = a
    BY <1>2
<1> QED
    BY <1>2, <1>5, <1>6, <1>7 DEF EndsAll

LEMMA SubscriptionDeletedServes ==
    ASSUME NEW s \in Server, s.bound => s.session, s.bound = TRUE,
           NEW r \in ToServer, r.kind = "delete"
    PROVE  Serves(s, r, SubscriptionDeleted(s, r.id)[1], SubscriptionDeleted(s, r.id)[2])
<1> DEFINE i == r.id
           t == [s EXCEPT !.subs[i].phase = "gone", !.subs[i].here = FALSE]
           u == [t EXCEPT !.queue = 0]
           bad == Answer("delete", "bad")
           good == Answer("delete", "good")
           ms == Append([n \in 1 .. s.queue |-> Fault("no subscription")], good)
           d == SubscriptionDeleted(s, i)
<1>1. d = IF i \notin Here(s) THEN <<s, <<bad>>>>
          ELSE IF Here(t) = {} /\ t.farewells = {} THEN <<u, ms>>
          ELSE <<t, <<good>>>>
    BY DEF SubscriptionDeleted
<1>2. i \in Here(s) => i \in Ids
    BY DEF Here
<1> HIDE DEF i, d
<1>3. ASSUME i \in Here(s)
      PROVE  /\ t \in Server /\ t.session = s.session /\ t.bound = s.bound
             /\ t.queue = s.queue /\ Keeps(s, t)
    <2> DEFINE here == FALSE
    <2>1. t = With(s, i, "gone", here)
        BY DEF With
    <2>2. "gone" \in {"none", "live", "gone"} /\ here \in BOOLEAN
        OBVIOUS
    <2> HIDE DEF t, here
    <2> QED
        BY <1>2, <1>3, <2>1, <2>2, SubChanged
<1>4. /\ good \in ToClient /\ good.kind = "answer" /\ good.to = r.kind
      /\ bad \in ToClient /\ bad.kind = "answer" /\ bad.to = r.kind
    BY DEF Answer, ToClient
<1> HIDE DEF t, u, bad, good, ms, d
<1>5. CASE i \notin Here(s)
    <2>1. d[1] = s /\ d[2] = <<bad>>
        BY <1>1, <1>5
    <2>2. Keeps(s, s)
        BY DEF Keeps
    <2>3. Serves(s, r, s, <<bad>>)
        BY <1>4, <2>2, AnswerServes
    <2> QED
        BY <2>1, <2>3 DEF i, d
<1>6. CASE i \in Here(s) /\ ~(Here(t) = {} /\ t.farewells = {})
    <2>1. d[1] = t /\ d[2] = <<good>>
        BY <1>1, <1>6
    <2>2. Held(t) = Held(s)
        BY <1>3, <1>6 DEF Held
    <2>3. Serves(s, r, t, <<good>>)
        BY <1>3, <1>4, <1>6, <2>2, AnswerServes
    <2> QED
        BY <2>1, <2>3 DEF i, d
<1>7. CASE i \in Here(s) /\ Here(t) = {} /\ t.farewells = {}
    <2>1. d[1] = u /\ d[2] = ms
        BY <1>1, <1>7
    <2> DEFINE f == Fault("no subscription")
    <2>2. f \in ToClient /\ f.kind = "fault" /\ f.code = "no subscription"
        BY DEF Fault, ToClient
    <2>3. ms = Append(Repeated(f, s.queue), good)
        BY DEF ms, Repeated
    <2>4. s.queue \in Nat
        BY ServerIs
    <2>5. /\ Topic(good) = "delete" /\ r.kind = "delete"
          /\ Topic(good) \notin Endings \cup Repairing
        BY <1>4 DEF Topic, Endings, Repairing, Binding
    <2> HIDE DEF f
    <2>6. /\ ms \in Seq(ToClient)
          /\ \A n \in 1 .. Len(ms) : ms[n] = f \/ ms[n] = good
          /\ Count(ms, Endings) = s.queue /\ Count(ms, Repairing) = 0
        <3> DEFINE q == s.queue
        <3>1. /\ q \in Nat /\ f \in ToClient /\ f.kind = "fault" /\ good \in ToClient
              /\ Topic(good) \notin Endings \cup Repairing /\ ms = Append(Repeated(f, q), good)
            BY <1>4, <2>2, <2>3, <2>4, <2>5
        <3> HIDE DEF q
        <3>2. EndsAll(ms, q, f, good)
            <4> HIDE DEF ms, good
            <4> QED
                BY <3>1, FaultsThenAnswer
        <3> QED
            BY <3>2 DEF q, EndsAll
    <2>7. /\ u \in Server /\ u.session = s.session /\ u.bound = s.bound
          /\ u.queue = 0 /\ u.subs = t.subs
        <3>1. 0 \in 0 .. Capacity
            BY Constants
        <3> QED
            BY <1>3, <1>7, <3>1 DEF Server, u
    <2>8. Is(r, {"publish"}) = 0 /\ Is(r, Repairing) = 0
        BY RequestTopic DEF Is, Repairing, Binding
    <2>9. Count(ms, Endings) + Held(u) = Held(s) + Is(r, {"publish"})
        BY <2>4, <2>6, <2>7, <2>8 DEF Held
    <2>10. ASSUME NEW n \in 1 .. Len(ms)
           PROVE  /\ Topic(ms[n]) \in Endings \cup {r.kind}
                  /\ Topic(ms[n]) # "activate" /\ ~(ms[n].kind = "fault" /\ ms[n].code = "too many")
        <3>1. ms[n] = f \/ ms[n] = good
            BY <2>6
        <3>2. Topic(f) = "fault"
            BY <2>2 DEF Topic
        <3> QED
            BY <1>4, <2>2, <2>5, <3>1, <3>2 DEF Endings
    <2>11. \A j \in Ids : u.subs[j].next = s.subs[j].next /\ s.subs[j].sent \ u.subs[j].sent = {}
        BY <1>3, <1>7, <2>7 DEF Keeps
    <2>12. /\ u.bound /\ (u.bound => u.session) /\ Count(ms, Repairing) <= Is(r, Repairing)
        BY <2>6, <2>7, <2>8
    <2>13. Serves(s, r, u, ms)
        BY <2>6, <2>7, <2>9, <2>10, <2>11, <2>12 DEF Serves
    <2> QED
        BY <2>1, <2>13 DEF i, d
<1> QED
    BY <1>5, <1>6, <1>7

\* What t has forgotten of what s had sent is acknowledged.
Forgotten(s, t, acks) ==
    \A j \in Ids : /\ t.subs[j].next = s.subs[j].next
                   /\ \A n \in s.subs[j].sent \ t.subs[j].sent : <<j, n>> \in acks

LEMMA AcknowledgedIs ==
    ASSUME NEW s \in Server, NEW acks, NEW t, t = Acknowledged(s, acks)
    PROVE  /\ t \in Server /\ t.session = s.session /\ t.bound = s.bound
           /\ t.queue = s.queue /\ t.farewells = s.farewells /\ Forgotten(s, t, acks)
<1> DEFINE subs == [i \in Ids |->
                IF i \in Here(s) THEN [s.subs[i] EXCEPT !.sent = {n \in @ : <<i, n>> \notin acks}]
                ELSE s.subs[i]]
<1>1. s.subs \in [Ids -> Sub]
    BY DEF Server, Sub
<1>2. ASSUME NEW i \in Ids
      PROVE  /\ subs[i] \in Sub /\ subs[i].next = s.subs[i].next
             /\ \A n \in s.subs[i].sent \ subs[i].sent : <<i, n>> \in acks
    <2> DEFINE kept == {n \in s.subs[i].sent : <<i, n>> \notin acks}
               e == [s.subs[i] EXCEPT !.sent = kept]
    <2>1. s.subs[i] \in Sub /\ kept \in SUBSET Numbers
        <3>1. s.subs[i] \in Sub
            BY <1>1
        <3>2. s.subs[i].sent \in SUBSET Numbers
            BY <3>1 DEF Sub
        <3> QED
            BY <3>1, <3>2
    <2>2. subs[i] = IF i \in Here(s) THEN e ELSE s.subs[i]
        OBVIOUS
    <2>3. \A n \in s.subs[i].sent \ kept : <<i, n>> \in acks
        OBVIOUS
    <2> HIDE DEF kept, subs
    <2>4. e \in Sub /\ e.next = s.subs[i].next /\ e.sent = kept
        BY <2>1 DEF Sub
    <2> HIDE DEF e
    <2>5. CASE i \in Here(s)
        BY <2>2, <2>3, <2>4, <2>5
    <2>6. CASE i \notin Here(s)
        BY <2>1, <2>2, <2>6
    <2> QED
        BY <2>5, <2>6
<1>3. subs \in [Ids -> Sub]
    BY <1>2
<1>4. t = [s EXCEPT !.subs = subs]
    BY DEF Acknowledged
<1> HIDE DEF subs
<1>5. /\ t \in Server /\ t.subs = subs /\ t.session = s.session /\ t.bound = s.bound
      /\ t.queue = s.queue /\ t.farewells = s.farewells
    BY <1>3, <1>4, WithSubs
<1>6. Forgotten(s, t, acks)
    BY <1>2, <1>5 DEF Forgotten
<1> QED
    BY <1>5, <1>6

\* The server refuses a publish request it has no room for.
TooMany(m) == m.kind = "fault" /\ m.code = "too many"
Overfull(s) == s.bound /\ s.queue >= Capacity

\* A publish request that is answered
LEMMA EndServes ==
    ASSUME NEW s \in Server, s.bound => s.session, NEW r \in ToServer, r.kind = "publish",
           NEW t \in Server, t.bound = s.bound, t.session = s.session, t.queue = s.queue,
           NEW m \in ToClient, m.kind \in Endings, m.kind = "message" => t.bound,
           TooMany(m) => Overfull(t),
           Forgotten(s, t, r.acks)
    PROVE  Serves(s, r, t, <<m>>)
<1>1. /\ <<m>> \in Seq(ToClient) /\ Len(<<m>>) = 1
      /\ \A n \in 1 .. Len(<<m>>) : n = 1 /\ <<m>>[n] = m
      /\ Count(<<m>>, Endings) = Is(m, Endings) /\ Count(<<m>>, Repairing) = Is(m, Repairing)
    BY OneMessage
<1>2. /\ Topic(m) = m.kind /\ Topic(r) = "publish" /\ m.kind \notin Repairing
      /\ m.kind # "activate" /\ m.kind # "answer"
    BY RequestTopic DEF Topic, Endings, Repairing, Binding
<1>3. Is(m, Endings) = 1 /\ Is(r, {"publish"}) = 1 /\ Is(m, Repairing) = 0
      /\ Is(r, Repairing) = 0 /\ r.kind \notin Binding
    BY <1>2 DEF Is, Repairing, Binding
<1>4. Held(s) \in Nat /\ Held(t) = Held(s)
    BY ServerIs DEF Held
<1>5. Count(<<m>>, Endings) + Held(t) = Held(s) + Is(r, {"publish"})
    BY <1>1, <1>3, <1>4
<1>6. ASSUME NEW n \in 1 .. Len(<<m>>)
      PROVE  /\ Topic(<<m>>[n]) \in Endings \cup {r.kind} /\ Topic(<<m>>[n]) # "activate"
             /\ OfBound(<<m>>[n]) => t.bound
             /\ (<<m>>[n].kind = "fault" /\ <<m>>[n].code = "too many") =>
                   (n = Len(<<m>>) /\ t.bound /\ t.queue >= Capacity)
    <2>1. <<m>>[n] = m /\ n = Len(<<m>>)
        BY <1>1
    <2>2. OfBound(m) => t.bound
        BY <1>2 DEF OfBound
    <2> QED
        BY <1>2, <2>1, <2>2 DEF TooMany, Overfull
<1>7. (t.bound => t.session) /\ (s.bound => t.bound) /\ (t.bound => s.bound)
    OBVIOUS
<1>8. Count(<<m>>, Repairing) <= Is(r, Repairing)
    BY <1>1, <1>3
<1> QED
    BY <1>1, <1>3, <1>5, <1>6, <1>7, <1>8 DEF Serves, Forgotten

\* A publish request that is held
LEMMA HoldServes ==
    ASSUME NEW s \in Server, s.bound => s.session, s.bound = TRUE,
           NEW r \in ToServer, r.kind = "publish",
           NEW t \in Server, t.bound = s.bound, t.session = s.session, t.queue = s.queue + 1,
           Forgotten(s, t, r.acks)
    PROVE  Serves(s, r, t, <<>>)
<1>1. <<>> \in Seq(ToClient) /\ Len(<<>>) = 0
    OBVIOUS
<1>2. Count(<<>>, Endings) = 0 /\ Count(<<>>, Repairing) = 0
    BY CountEmpty
<1>3. Is(r, {"publish"}) = 1 /\ Is(r, Repairing) = 0
    BY RequestTopic DEF Is, Repairing, Binding
<1>4. Held(s) \in Nat /\ Held(t) = Held(s) + 1
    BY ServerIs DEF Held
<1>5. Count(<<>>, Endings) + Held(t) = Held(s) + Is(r, {"publish"})
    BY <1>2, <1>3, <1>4
<1>6. (t.bound => t.session) /\ t.bound /\ Count(<<>>, Repairing) <= Is(r, Repairing)
    BY <1>2, <1>3
<1>7. \A n \in 1 .. Len(<<>>) : FALSE
    BY <1>1
<1> QED
    BY <1>1, <1>5, <1>6, <1>7 DEF Serves, Forgotten

LEMMA PublishReceivedServes ==
    ASSUME NEW s \in Server, s.bound => s.session, NEW r \in ToServer, r.kind = "publish"
    PROVE  Serves(s, r, PublishReceived(s, r)[1], PublishReceived(s, r)[2])
<1> DEFINE t == Acknowledged(s, r.acks)
           i == CHOOSE i \in t.farewells : TRUE
           u == [t EXCEPT !.farewells = @ \ {i}]
           v == [t EXCEPT !.queue = @ + 1]
           bye == MessageOf(i, t.subs[i].next, "timeout")
           p == PublishReceived(s, r)
<1>1. p = IF ~s.session THEN <<s, <<Fault("session")>>>>
          ELSE IF ~s.bound THEN <<s, <<Fault("channel")>>>>
          ELSE IF t.farewells # {} THEN <<u, <<bye>>>>
          ELSE IF Here(t) = {} THEN <<t, <<Fault("no subscription")>>>>
          ELSE IF t.queue = Capacity THEN <<t, <<Fault("too many")>>>>
          ELSE <<v, <<>>>>
    BY DEF PublishReceived
<1>2. /\ t \in Server /\ t.session = s.session /\ t.bound = s.bound
      /\ t.queue = s.queue /\ t.farewells = s.farewells /\ Forgotten(s, t, r.acks)
    BY AcknowledgedIs
<1>3. \A code \in {"session", "channel", "no subscription", "too many"} :
          /\ Fault(code) \in ToClient /\ Fault(code).kind = "fault" /\ Fault(code).code = code
          /\ Fault(code).kind \in Endings /\ Fault(code).kind # "message"
          /\ TooMany(Fault(code)) => code = "too many"
    BY DEF Fault, ToClient, Endings, TooMany
<1>4. Forgotten(s, s, r.acks)
    BY DEF Forgotten
<1> HIDE DEF t, u, v, i, bye, p
<1>5. ASSUME NEW code \in {"session", "channel"}
      PROVE  Serves(s, r, s, <<Fault(code)>>)
    <2> DEFINE f == Fault(code)
    <2>1. /\ f \in ToClient /\ f.kind \in Endings /\ (f.kind = "message" => s.bound)
          /\ (TooMany(f) => Overfull(s))
        BY <1>3
    <2> HIDE DEF f
    <2>2. Serves(s, r, s, <<f>>)
        BY <1>4, <2>1, EndServes
    <2> QED
        BY <2>2 DEF f
<1>6. CASE ~s.session
    <2>1. p[1] = s /\ p[2] = <<Fault("session")>>
        BY <1>1, <1>6
    <2> QED
        BY <1>5, <2>1 DEF p
<1>7. CASE s.session /\ ~s.bound
    <2>1. p[1] = s /\ p[2] = <<Fault("channel")>>
        BY <1>1, <1>7
    <2> QED
        BY <1>5, <2>1 DEF p
<1>8. CASE s.session /\ s.bound /\ t.farewells # {}
    <2>1. p[1] = u /\ p[2] = <<bye>>
        BY <1>1, <1>8
    <2>2. i \in t.farewells
        BY <1>8 DEF i
    <2>3. i \in Ids /\ t.subs[i].next \in Numbers
        BY <1>2, <2>2, ServerIs
    <2>4. bye \in ToClient /\ bye.kind = "message" /\ bye.kind \in Endings /\ ~TooMany(bye)
        BY <2>3 DEF bye, MessageOf, ToClient, Notification, Endings, TooMany
    <2>5. /\ u \in Server /\ u.session = t.session /\ u.bound = t.bound
          /\ u.queue = t.queue /\ u.subs = t.subs
        BY <1>2 DEF Server, u
    <2>6. Forgotten(s, u, r.acks)
        BY <1>2, <2>5 DEF Forgotten
    <2>7. u.session = s.session /\ u.bound = s.bound /\ u.queue = s.queue /\ u.bound
        BY <1>2, <1>8, <2>5
    <2>8. Serves(s, r, u, <<bye>>)
        BY <2>4, <2>5, <2>6, <2>7, EndServes
    <2> QED
        BY <2>1, <2>8 DEF p
<1>9. CASE s.session /\ s.bound /\ t.farewells = {} /\ Here(t) = {}
    <2>1. p[1] = t /\ p[2] = <<Fault("no subscription")>>
        BY <1>1, <1>9
    <2> DEFINE f == Fault("no subscription")
    <2>2. /\ f \in ToClient /\ f.kind \in Endings /\ (f.kind = "message" => t.bound)
          /\ (TooMany(f) => Overfull(t))
        BY <1>3
    <2> HIDE DEF f
    <2>3. Serves(s, r, t, <<f>>)
        BY <1>2, <2>2, EndServes
    <2> QED
        BY <2>1, <2>3 DEF p, f
<1>10. CASE s.session /\ s.bound /\ t.farewells = {} /\ Here(t) # {} /\ t.queue = Capacity
    <2>1. p[1] = t /\ p[2] = <<Fault("too many")>>
        BY <1>1, <1>10
    <2>2. Overfull(t)
        BY <1>2, <1>10, Constants DEF Overfull
    <2> DEFINE f == Fault("too many")
    <2>3. /\ f \in ToClient /\ f.kind \in Endings /\ (f.kind = "message" => t.bound)
          /\ (TooMany(f) => Overfull(t))
        BY <1>3, <2>2
    <2> HIDE DEF f
    <2>4. Serves(s, r, t, <<f>>)
        BY <1>2, <2>3, EndServes
    <2> QED
        BY <2>1, <2>4 DEF p, f
<1>11. CASE s.session /\ s.bound /\ t.farewells = {} /\ Here(t) # {} /\ t.queue # Capacity
    <2>1. p[1] = v /\ p[2] = <<>>
        BY <1>1, <1>11
    <2>2. t.queue + 1 \in 0 .. Capacity
        BY <1>2, <1>11, ServerIs, Constants
    <2>3. /\ v \in Server /\ v.session = t.session /\ v.bound = t.bound
          /\ v.queue = t.queue + 1 /\ v.subs = t.subs
        BY <1>2, <2>2 DEF Server, v
    <2>4. Forgotten(s, v, r.acks)
        BY <1>2, <2>3 DEF Forgotten
    <2>5. /\ v.session = s.session /\ v.bound = s.bound /\ v.queue = s.queue + 1
          /\ s.bound = TRUE
        BY <1>2, <1>11, <2>3 DEF Server
    <2>6. Serves(s, r, v, <<>>)
        BY <2>3, <2>4, <2>5, HoldServes
    <2> QED
        BY <2>1, <2>6 DEF p
<1> QED
    BY <1>6, <1>7, <1>8, <1>9, <1>10, <1>11

\* The server processes a request; only a session that is bound has one to delete.
LEMMA ServedServes ==
    ASSUME NEW s \in Server, s.bound => s.session, NEW r \in ToServer,
           r.kind = "delete" => s.bound
    PROVE  Serves(s, r, Served(s, r)[1], Served(s, r)[2])
<1>1. r.kind \in {"publish", "activate", "session", "close", "create", "transfer", "delete",
                  "republish"}
    BY DEF ToServer
<1>2. CASE r.kind = "publish"
    BY <1>2, PublishReceivedServes DEF Served
<1>3. CASE r.kind = "activate"
    BY <1>3, ActivatedServes DEF Served
<1>4. CASE r.kind = "session"
    <2> DEFINE session == TRUE
               t == [SessionGone(s) EXCEPT !.session = session]
    <2>1. Served(s, r)[1] = t /\ Served(s, r)[2] = <<Answer(r.kind, "good")>>
        BY <1>4 DEF Served
    <2>2. session \in BOOLEAN
        OBVIOUS
    <2> HIDE DEF session
    <2>3. Serves(s, r, t, <<Answer(r.kind, "good")>>)
        BY <1>4, <2>2, SessionServes
    <2> QED
        BY <2>1, <2>3
<1>5. CASE r.kind = "close"
    <2> DEFINE session == FALSE
               t == [SessionGone(s) EXCEPT !.session = session]
    <2>1. Served(s, r)[1] = SessionGone(s) /\ Served(s, r)[2] = <<Answer(r.kind, "good")>>
        BY <1>5 DEF Served
    <2>2. t = SessionGone(s)
        <3> DEFINE e == SessionGone(s)
        <3>1. e \in Server /\ e.session = FALSE
            BY SessionGoneIs
        <3> HIDE DEF e
        <3>2. [e EXCEPT !.session = FALSE] = e
            BY <3>1 DEF Server
        <3> QED
            BY <3>2 DEF e
    <2>3. session \in BOOLEAN
        OBVIOUS
    <2> HIDE DEF session
    <2>4. Serves(s, r, t, <<Answer(r.kind, "good")>>)
        BY <1>5, <2>3, SessionServes
    <2> QED
        BY <2>1, <2>2, <2>4
<1>6. CASE r.kind = "transfer"
    BY <1>6, TransferredServes DEF Served
<1>7. CASE r.kind = "create"
    BY <1>7, SubscriptionCreatedServes DEF Served
<1>8. CASE r.kind = "delete"
    <2>1. s.bound = TRUE
        BY <1>8 DEF Server
    <2> QED
        BY <1>8, <2>1, SubscriptionDeletedServes DEF Served
<1>9. CASE r.kind = "republish"
    BY <1>9, RepublishReceivedServes DEF Served
<1> QED
    BY <1>1, <1>2, <1>3, <1>4, <1>5, <1>6, <1>7, <1>8, <1>9
-----------------------------------------------------------------------------
(***************************************************************************)
(* The actions of the server.                                              *)
(***************************************************************************)
\* What the invariant says of the session that a request or an answer finds bound
LEMMA BoundIs ==
    ASSUME IInv, server.bound
    PROVE  /\ client.up /\ server.session /\ Held(server) = server.queue
           /\ \A n \in 1 .. Len(toServer) : Topic(toServer[n]) \notin Binding
BY DEF IInv, StateInv, RepairInv, Held

\* What is under way while the repair waits for its request
LEMMA OnlyOne ==
    ASSUME IInv, toServer # <<>>, Head(toServer).kind \in Repairing
    PROVE  /\ Count(Tail(toServer), Repairing) = 0 /\ Count(toClient, Repairing) = 0
           /\ Head(toServer).kind \in Awaited(client.step)
<1>1. toServer \in Seq(ToServer) /\ RepairInv /\ StateInv
    BY DEF IInv, StateInv
<1>2. /\ Count(toServer, Repairing) + Count(toClient, Repairing) <= 1
      /\ Count(toClient, Repairing) \in Nat
    BY <1>1, CountsAre DEF RepairInv
<1>3. /\ Tail(toServer) \in Seq(ToServer) /\ Head(toServer) \in ToServer
      /\ Head(toServer) = toServer[1] /\ 1 \in 1 .. Len(toServer)
      /\ Count(toServer, Repairing) = Count(Tail(toServer), Repairing) + Is(Head(toServer), Repairing)
    BY <1>1, CountArrived
<1>4. Count(Tail(toServer), Repairing) \in Nat
    BY <1>3, AboutIs
<1>5. Topic(Head(toServer)) = Head(toServer).kind /\ Is(Head(toServer), Repairing) = 1
    BY <1>3, RequestTopic DEF Is
<1>6. Fits(toServer[1], client.step)
    BY <1>1, <1>3 DEF RepairInv
<1> QED
    BY <1>2, <1>3, <1>4, <1>5, <1>6 DEF Fits

\* The server processes the first request as t and sends ms.
LEMMA ServesStep ==
    ASSUME IInv, toServer # <<>>, NEW r, r = Head(toServer), NEW t, NEW ms,
           Serves(server, r, t, ms),
           client' = client, server' = t, toServer' = Tail(toServer), toClient' = toClient \o ms
    PROVE  IInv'
<1> DEFINE rest == Tail(toServer)
<1>1. StateInv /\ RepairInv /\ BoundInv /\ CountInv /\ AckInv
    BY DEF IInv
<1>2. /\ toServer \in Seq(ToServer) /\ toClient \in Seq(ToClient) /\ client.up
      /\ client \in Client /\ client.out = <<>> /\ server \in Server
    BY <1>1 DEF StateInv
<1>3. /\ t \in Server /\ (t.bound => t.session) /\ ms \in Seq(ToClient)
      /\ (t.bound => (server.bound \/ r.kind = "activate"))
    BY DEF Serves
<1>4. /\ rest \in Seq(ToServer) /\ r \in ToServer /\ r = toServer[1] /\ 1 \in 1 .. Len(toServer)
      /\ \A n \in 1 .. Len(rest) : n + 1 \in 1 .. Len(toServer) /\ rest[n] = toServer[n + 1]
    BY <1>2, CountArrived
<1>5. \A T : Count(toServer, T) = Count(rest, T) + Is(r, T) /\ Count(rest, T) \in Nat
    <2>1. ASSUME NEW T
          PROVE  Count(toServer, T) = Count(rest, T) + Is(r, T) /\ Count(rest, T) \in Nat
        <3>1. Count(toServer, T) = Count(rest, T) + Is(r, T)
            BY <1>2, CountArrived
        <3>2. Count(rest, T) \in Nat
            BY <1>4, AboutIs
        <3> QED
            BY <3>1, <3>2
    <2> QED
        BY <2>1
<1>6. /\ toClient' \in Seq(ToClient) /\ Len(toClient') = Len(toClient) + Len(ms)
      /\ \A n \in 1 .. Len(toClient') :
            \/ n \in 1 .. Len(toClient) /\ toClient'[n] = toClient[n]
            \/ \E j \in 1 .. Len(ms) : n = Len(toClient) + j /\ toClient'[n] = ms[j]
      /\ \A T : Count(toClient', T) = Count(toClient, T) + Count(ms, T)
    BY <1>2, <1>3, CountSent, SMTT(30)
<1>7. \A i \in 1 .. Len(toClient) :
          Rank(About(toClient', Endings), i) = Rank(About(toClient, Endings), i)
    BY <1>2, <1>3, CountSent
<1>8. \A T : /\ Count(toClient, T) \in Nat /\ Count(ms, T) \in Nat /\ Is(r, T) \in {0, 1}
             /\ Count(toServer, T) \in Nat
    BY <1>2, <1>3, AboutIs DEF Is
<1>9. Topic(r) = r.kind
    BY <1>4, RequestTopic
<1> HIDE DEF rest
<1>10. client' = client /\ server' = t /\ toServer' = rest
    BY DEF rest
<1>11. server.bound => r.kind \notin Binding /\ t.bound
    <2>1. server.bound => r.kind \notin Binding
        BY <1>4, <1>9, BoundIs
    <2> QED
        BY <2>1 DEF Serves
<1>12. r.kind \in Repairing => /\ Count(rest, Repairing) = 0 /\ Count(toClient, Repairing) = 0
                               /\ r.kind \in Awaited(client.step)
    BY OnlyOne DEF rest
<1>13. StateInv'
    BY <1>2, <1>3, <1>4, <1>6, <1>10 DEF StateInv
<1>14. RepairInv'
    <2>1. Count(rest, Repairing) + Count(toClient', Repairing) <= 1
        <3>1. Count(ms, Repairing) <= Is(r, Repairing)
            BY DEF Serves
        <3>2. Count(toServer, Repairing) + Count(toClient, Repairing) <= 1
            BY <1>1 DEF RepairInv
        <3>3. /\ Count(toServer, Repairing) = Count(rest, Repairing) + Is(r, Repairing)
              /\ Count(rest, Repairing) \in Nat /\ Count(toServer, Repairing) \in Nat
              /\ Is(r, Repairing) \in {0, 1}
            BY <1>5, <1>8
        <3>4. /\ Count(toClient', Repairing) = Count(toClient, Repairing) + Count(ms, Repairing)
              /\ Count(toClient, Repairing) \in Nat /\ Count(ms, Repairing) \in Nat
            BY <1>6, <1>8
        <3> QED
            BY <3>1, <3>2, <3>3, <3>4
    <2>2. \A n \in 1 .. Len(rest) : Fits(rest[n], client.step)
        BY <1>1, <1>4 DEF RepairInv
    <2>3. ASSUME NEW n \in 1 .. Len(toClient')
          PROVE  Fits(toClient'[n], client.step)
        <3>1. CASE n \in 1 .. Len(toClient) /\ toClient'[n] = toClient[n]
            BY <1>1, <3>1 DEF RepairInv
        <3>2. CASE \E j \in 1 .. Len(ms) : n = Len(toClient) + j /\ toClient'[n] = ms[j]
            <4>1. Topic(toClient'[n]) \in Endings \cup {r.kind}
                BY <3>2 DEF Serves
            <4>2. Topic(toClient'[n]) \in Repairing => Topic(toClient'[n]) = r.kind
                BY <4>1 DEF Endings, Repairing, Binding
            <4> QED
                BY <1>12, <4>2 DEF Fits
        <3> QED
            BY <1>6, <3>1, <3>2
    <2>4. ASSUME t.bound
          PROVE  /\ client.step \notin {"begin", "session", "close", "retry"}
                 /\ \A n \in 1 .. Len(rest) : Topic(rest[n]) \notin Binding
                 /\ \A n \in 1 .. Len(toClient) :
                       Topic(toClient[n]) = "activate" => toClient[n].result = "good"
        <3>1. CASE server.bound
            BY <1>1, <1>4, <3>1 DEF RepairInv
        <3>2. CASE ~server.bound
            <4>1. r.kind = "activate" /\ r.kind \in Repairing
                BY <1>3, <2>4, <3>2 DEF Repairing, Binding
            <4>2. client.step \in {"activate", "reactivate"}
                BY <1>12, <4>1 DEF Awaited
            <4>3. \A n \in 1 .. Len(rest) : Topic(rest[n]) \notin Repairing
                BY <1>4, <1>12, <4>1, CountNone
            <4>4. \A n \in 1 .. Len(toClient) : Topic(toClient[n]) \notin Repairing
                BY <1>2, <1>12, <4>1, CountNone
            <4> QED
                BY <4>2, <4>3, <4>4 DEF Repairing, Binding
        <3> QED
            BY <3>1, <3>2
    <2>5. ASSUME t.bound, NEW n \in 1 .. Len(toClient'), Topic(toClient'[n]) = "activate"
          PROVE  toClient'[n].result = "good"
        <3>1. CASE n \in 1 .. Len(toClient) /\ toClient'[n] = toClient[n]
            BY <2>4, <2>5, <3>1
        <3>2. CASE \E j \in 1 .. Len(ms) : n = Len(toClient) + j /\ toClient'[n] = ms[j]
            BY <2>5, <3>2 DEF Serves
        <3> QED
            BY <1>6, <3>1, <3>2
    <2> QED
        BY <1>10, <2>1, <2>2, <2>3, <2>4, <2>5 DEF RepairInv
<1>15. BoundInv'
    <2>1. ~t.bound => client.step \notin Restoring
        BY <1>1, <1>2, <1>11 DEF BoundInv
    <2>2. ASSUME ~t.bound
          PROVE  \A n \in 1 .. Len(rest) : rest[n].kind # "delete"
        BY <1>1, <1>4, <1>11, <2>2 DEF BoundInv
    <2>3. ASSUME ~t.bound, NEW n \in 1 .. Len(toClient')
          PROVE  ~OfBound(toClient'[n])
        <3>1. CASE n \in 1 .. Len(toClient) /\ toClient'[n] = toClient[n]
            BY <1>1, <1>11, <2>3, <3>1 DEF BoundInv
        <3>2. CASE \E j \in 1 .. Len(ms) : n = Len(toClient) + j /\ toClient'[n] = ms[j]
            BY <2>3, <3>2 DEF Serves
        <3> QED
            BY <1>6, <3>1, <3>2
    <2> QED
        BY <1>10, <2>1, <2>2, <2>3 DEF BoundInv
<1>16. /\ Count(ms, Endings) + Held(t) = Held(server) + Is(r, {"publish"})
       /\ Held(server) \in Nat /\ Held(t) \in Nat
    <2>1. r.kind \in Binding => ~server.bound
        BY <1>11
    <2>2. Held(server) \in Nat /\ Held(t) \in Nat
        BY <1>2, <1>3, ServerIs DEF Held
    <2> QED
        BY <2>1, <2>2 DEF Serves
<1>17. CountInv'
    <2>1. Outstanding = Count(toServer, {"publish"}) + Held(server) + Count(toClient, Endings)
        BY <1>2, KindsCounted DEF Outstanding, Held
    <2>2. Outstanding' = Count(rest, {"publish"}) + Held(t) + Count(toClient', Endings)
        BY <1>4, <1>6, <1>10, KindsCounted DEF Outstanding, Held
    <2>3. Outstanding' = Outstanding
        <3>1. /\ Count(toServer, {"publish"}) = Count(rest, {"publish"}) + Is(r, {"publish"})
              /\ Count(rest, {"publish"}) \in Nat /\ Is(r, {"publish"}) \in {0, 1}
            BY <1>5, <1>8
        <3>2. /\ Count(toClient', Endings) = Count(toClient, Endings) + Count(ms, Endings)
              /\ Count(toClient, Endings) \in Nat /\ Count(ms, Endings) \in Nat
            BY <1>6, <1>8
        <3> QED
            BY <1>16, <2>1, <2>2, <3>1, <3>2
    <2>4. ASSUME NEW n \in 1 .. Len(toClient'), toClient'[n].kind = "fault",
                 toClient'[n].code = "too many"
          PROVE  /\ t.bound
                 /\ t.queue + Count(toClient', Endings)
                      - Rank(About(toClient', Endings), n) >= Capacity
        <3>1. CASE n \in 1 .. Len(toClient) /\ toClient'[n] = toClient[n]
            <4>1. /\ server.bound
                  /\ server.queue + Count(toClient, Endings)
                       - Rank(About(toClient, Endings), n) >= Capacity
                BY <1>1, <2>4, <3>1 DEF CountInv
            <4>2. t.bound /\ Held(t) = t.queue /\ Held(server) = server.queue
                BY <1>11, <4>1 DEF Held
            <4>3. Rank(About(toClient, Endings), n) \in Nat
                BY <1>2, <3>1, RankIs
            <4>4. Rank(About(toClient', Endings), n) = Rank(About(toClient, Endings), n)
                BY <1>7, <3>1
            <4>5. t.queue + Count(ms, Endings) = server.queue + Is(r, {"publish"})
                BY <1>8, <1>16, <4>2
            <4>6. t.queue + Count(toClient', Endings) - Rank(About(toClient', Endings), n) >= Capacity
                <5>1. /\ Is(r, {"publish"}) \in {0, 1}
                      /\ Count(toClient', Endings) = Count(toClient, Endings) + Count(ms, Endings)
                      /\ Count(toClient, Endings) \in Nat /\ Count(ms, Endings) \in Nat
                      /\ t.queue \in Nat /\ server.queue \in Nat /\ Capacity \in Nat
                    BY <1>2, <1>3, <1>6, <1>8, ServerIs, Constants
                <5> QED
                    BY <4>1, <4>3, <4>4, <4>5, <5>1
            <4> QED
                BY <4>2, <4>6
        <3>2. CASE \E j \in 1 .. Len(ms) : n = Len(toClient) + j /\ toClient'[n] = ms[j]
            <4>1. PICK j \in 1 .. Len(ms) : n = Len(toClient) + j /\ toClient'[n] = ms[j]
                BY <3>2
            <4>2. j = Len(ms) /\ t.bound /\ t.queue >= Capacity
                BY <2>4, <4>1 DEF Serves
            <4>3. n = Len(toClient')
                BY <1>6, <4>1, <4>2
            <4>4. Rank(About(toClient', Endings), n) = Count(toClient', Endings)
                BY <1>6, <4>3, AboutIs
            <4>5. Count(toClient', Endings) \in Nat /\ t.queue \in Nat
                BY <1>3, <1>6, AboutIs, ServerIs
            <4> QED
                BY <4>2, <4>4, <4>5, Constants
        <3> QED
            BY <1>6, <3>1, <3>2
    <2> QED
        BY <1>1, <1>10, <2>3, <2>4 DEF CountInv
<1>18. AckInv'
    <2>1. \A n \in 1 .. Len(rest) :
              rest[n].kind = "publish" => rest[n].acks \subseteq client.received
        BY <1>1, <1>4 DEF AckInv
    <2>2. r.kind = "publish" => r.acks \subseteq client.received
        BY <1>1, <1>4 DEF AckInv
    <2>3. ASSUME NEW i \in Ids, NEW n \in 1 .. t.subs[i].next - 1, n \notin t.subs[i].sent
          PROVE  <<i, n>> \in client.received
        <3>1. n \in 1 .. server.subs[i].next - 1
            BY DEF Serves
        <3>2. CASE n \in server.subs[i].sent
            <4>1. r.kind = "publish" /\ <<i, n>> \in r.acks
                BY <2>3, <3>2 DEF Serves
            <4> QED
                BY <2>2, <4>1
        <3>3. CASE n \notin server.subs[i].sent
            BY <1>1, <3>1, <3>3 DEF AckInv
        <3> QED
            BY <3>2, <3>3
    <2> QED
        BY <1>1, <1>10, <2>1, <2>3 DEF AckInv
<1> QED
    BY <1>13, <1>14, <1>15, <1>17, <1>18 DEF IInv

LEMMA ServerReceivesStep ==
    ASSUME IInv, ServerReceives
    PROVE  IInv'
<1> DEFINE r == Head(toServer)
           t == Served(server, r)[1]
           ms == Served(server, r)[2]
<1>1. /\ toServer # <<>> /\ client' = client /\ server' = t /\ toServer' = Tail(toServer)
      /\ toClient' = toClient \o ms
    BY DEF ServerReceives
<1>2. toServer \in Seq(ToServer) /\ server \in Server /\ (server.bound => server.session)
    BY DEF IInv, StateInv
<1>3. r \in ToServer /\ r = toServer[1] /\ 1 \in 1 .. Len(toServer)
    BY <1>1, <1>2, CountArrived
<1>4. r.kind = "delete" => server.bound
    BY <1>3 DEF IInv, BoundInv
<1> HIDE DEF r
<1>5. Serves(server, r, t, ms)
    BY <1>2, <1>3, <1>4, ServedServes
<1>6. r = Head(toServer)
    BY DEF r
<1> HIDE DEF t, ms
<1> QED
    BY <1>1, <1>5, <1>6, ServesStep

LEMMA RefusedStep ==
    ASSUME IInv, Refused
    PROVE  IInv'
<1> DEFINE r == Head(toServer)
           m == Answer(r.kind, "refused")
<1>1. /\ toServer # <<>> /\ client' = client /\ server' = server /\ toServer' = Tail(toServer)
      /\ toClient' = Append(toClient, m) /\ r.kind \notin {"publish", "delete", "close"}
    BY DEF Refused
<1>2. /\ toServer \in Seq(ToServer) /\ toClient \in Seq(ToClient)
      /\ server \in Server /\ (server.bound => server.session)
    BY DEF IInv, StateInv
<1>3. r \in ToServer /\ r = toServer[1] /\ 1 \in 1 .. Len(toServer)
    BY <1>1, <1>2, CountArrived
<1>4. r.kind = "activate" => ~server.bound
    <2>1. Topic(r) = r.kind
        BY <1>3, RequestTopic
    <2> QED
        BY <1>3, <2>1, BoundIs DEF Binding
<1>5. /\ m \in ToClient /\ m.kind = "answer" /\ m.to = r.kind /\ m.result = "refused"
    BY <1>1, <1>3 DEF ToServer, ToClient, Answer
<1>6. r = Head(toServer) /\ r.kind # "publish"
    BY <1>1
<1> HIDE DEF r, m
<1>7. Serves(server, r, server, <<m>>)
    <2>1. server.bound => (server.bound \/ r.kind = "activate")
        OBVIOUS
    <2>2. r.kind = "activate" => (m.result = "good" <=> server.bound)
        BY <1>4, <1>5
    <2>3. Keeps(server, server)
        BY DEF Keeps
    <2> QED
        BY <1>2, <1>3, <1>5, <1>6, <2>1, <2>2, <2>3, AnswerServes
<1>8. toClient' = toClient \o <<m>>
    BY <1>1, <1>2, <1>5, AppendIsConcat
<1> QED
    BY <1>1, <1>6, <1>7, <1>8, ServesStep

\* What the client acknowledged, when the server is t
Remembered(t) ==
    \A i \in Ids : \A n \in 1 .. t.subs[i].next - 1 :
        n \in t.subs[i].sent \/ <<i, n>> \in client.received

\* The server is t, on its own, and holds the requests it held.
LEMMA StillStep ==
    ASSUME IInv, NEW t \in Server, t.bound => t.session, t.bound = server.bound,
           t.bound => t.queue = server.queue, Remembered(t),
           client' = client, server' = t, toServer' = toServer, toClient' = toClient
    PROVE  IInv'
<1>1. StateInv /\ RepairInv /\ BoundInv /\ CountInv /\ AckInv
    BY DEF IInv
<1>2. StateInv' /\ RepairInv' /\ BoundInv'
    BY <1>1 DEF StateInv, RepairInv, BoundInv
<1>3. CountInv'
    <2>1. Outstanding' = Outstanding
        BY DEF Outstanding
    <2> QED
        BY <1>1, <2>1 DEF CountInv
<1>4. AckInv'
    BY <1>1 DEF AckInv, Remembered
<1> QED
    BY <1>2, <1>3, <1>4 DEF IInv

\* The server is t, and has ended a request that it held with m.
LEMMA EndsStep ==
    ASSUME IInv, NEW t \in Server, t.bound = server.bound, t.session = server.session,
           server.bound = TRUE, server.queue > 0, t.queue = server.queue - 1, Remembered(t),
           NEW m \in Notification,
           client' = client, server' = t, toServer' = toServer, toClient' = Append(toClient, m)
    PROVE  IInv'
<1> DEFINE ms == <<m>>
<1>1. StateInv /\ RepairInv /\ BoundInv /\ CountInv /\ AckInv
    BY DEF IInv
<1>2. /\ toServer \in Seq(ToServer) /\ toClient \in Seq(ToClient) /\ client.up
      /\ client \in Client /\ client.out = <<>> /\ server \in Server /\ t.session
    BY <1>1, BoundIs DEF StateInv
<1>3. m \in ToClient /\ m.kind = "message" /\ Topic(m) = "message"
    BY DEF ToClient, Notification, Topic
<1>4. toClient' = toClient \o ms /\ ms \in Seq(ToClient)
    BY <1>2, <1>3, AppendIsConcat
<1>5. /\ Len(ms) = 1 /\ \A j \in 1 .. Len(ms) : ms[j] = m
      /\ \A T : Count(ms, T) = Is(m, T)
    BY <1>3, OneMessage
<1> HIDE DEF ms
<1>6. /\ toClient' \in Seq(ToClient)
      /\ \A n \in 1 .. Len(toClient') :
            (n \in 1 .. Len(toClient) /\ toClient'[n] = toClient[n]) \/ toClient'[n] = m
      /\ \A T : Count(toClient', T) = Count(toClient, T) + Count(ms, T)
    <2>1. /\ toClient \o ms \in Seq(ToClient)
          /\ \A n \in 1 .. Len(toClient \o ms) :
                \/ n \in 1 .. Len(toClient) /\ (toClient \o ms)[n] = toClient[n]
                \/ \E k \in 1 .. Len(ms) : n = Len(toClient) + k /\ (toClient \o ms)[n] = ms[k]
          /\ \A T : Count(toClient \o ms, T) = Count(toClient, T) + Count(ms, T)
        BY <1>2, <1>4, CountSent
    <2> QED
        BY <1>4, <1>5, <2>1
<1>7. \A i \in 1 .. Len(toClient) :
          Rank(About(toClient', Endings), i) = Rank(About(toClient, Endings), i)
    <2>1. \A i \in 1 .. Len(toClient) :
              Rank(About(toClient \o ms, Endings), i) = Rank(About(toClient, Endings), i)
        BY <1>2, <1>4, CountSent
    <2> QED
        BY <1>4, <2>1
<1>8. /\ Count(toClient', Endings) = Count(toClient, Endings) + 1
      /\ Count(toClient', Repairing) = Count(toClient, Repairing)
      /\ Count(toClient, Endings) \in Nat /\ Count(toClient, Repairing) \in Nat
    <2>1. Is(m, Endings) = 1 /\ Is(m, Repairing) = 0
        BY <1>3 DEF Is, Endings, Repairing, Binding
    <2>2. Count(ms, Endings) = 1 /\ Count(ms, Repairing) = 0
        BY <1>5, <2>1
    <2>3. Count(toClient, Endings) \in Nat /\ Count(toClient, Repairing) \in Nat
        BY <1>2, AboutIs
    <2> QED
        BY <1>6, <2>2, <2>3
<1>9. StateInv'
    BY <1>2, <1>6 DEF StateInv
<1>10. RepairInv'
    <2>1. ASSUME NEW n \in 1 .. Len(toClient')
          PROVE  /\ Fits(toClient'[n], client.step)
                 /\ Topic(toClient'[n]) = "activate" => toClient'[n].result = "good"
        <3>1. CASE n \in 1 .. Len(toClient) /\ toClient'[n] = toClient[n]
            BY <1>1, <3>1 DEF RepairInv
        <3>2. CASE toClient'[n] = m
            BY <1>3, <3>2 DEF Fits, Repairing, Binding
        <3> QED
            BY <1>6, <3>1, <3>2
    <2> QED
        BY <1>1, <1>8, <2>1 DEF RepairInv
<1>11. BoundInv'
    BY <1>1 DEF BoundInv
<1>12. CountInv'
    <2>1. Outstanding = Count(toServer, {"publish"}) + Held(server) + Count(toClient, Endings)
        BY <1>2, KindsCounted DEF Outstanding, Held
    <2>2. Outstanding' = Count(toServer, {"publish"}) + Held(t) + Count(toClient', Endings)
        BY <1>2, <1>6, KindsCounted DEF Outstanding, Held
    <2>3. Held(server) = server.queue /\ Held(t) = t.queue /\ server.queue \in Nat /\ t.queue \in Nat
        BY <1>2, ServerIs DEF Held
    <2>4. Outstanding' = Outstanding
        <3>1. Count(toServer, {"publish"}) \in Nat
            BY <1>2, AboutIs
        <3> QED
            BY <1>8, <2>1, <2>2, <2>3, <3>1, SMTT(30)
    <2>5. ASSUME NEW n \in 1 .. Len(toClient'), toClient'[n].kind = "fault",
                 toClient'[n].code = "too many"
          PROVE  t.queue + Count(toClient', Endings)
                   - Rank(About(toClient', Endings), n) >= Capacity
        <3>1. n \in 1 .. Len(toClient) /\ toClient'[n] = toClient[n]
            BY <1>3, <1>6, <2>5
        <3>2. server.queue + Count(toClient, Endings) - Rank(About(toClient, Endings), n) >= Capacity
            BY <1>1, <2>5, <3>1 DEF CountInv
        <3>3. Rank(About(toClient, Endings), n) \in Nat
            BY <1>2, <3>1, RankIs
        <3>4. Rank(About(toClient', Endings), n) = Rank(About(toClient, Endings), n)
            BY <1>7, <3>1
        <3> QED
            BY <1>8, <2>3, <3>2, <3>3, <3>4, Constants
    <2> QED
        BY <1>1, <2>4, <2>5 DEF CountInv
<1>13. AckInv'
    BY <1>1 DEF AckInv, Remembered
<1> QED
    BY <1>9, <1>10, <1>11, <1>12, <1>13 DEF IInv

\* The server, of which s is what the response leaves, responds to a publish request.
LEMMA RespondsStep ==
    ASSUME IInv, NEW s \in Server, s.bound = server.bound, s.session = server.session,
           s.queue = server.queue, Remembered(s), NEW m \in Notification, Responds(s, m)
    PROVE  IInv'
<1> DEFINE t == [s EXCEPT !.queue = @ - 1]
<1>1. /\ server.queue > 0 /\ server' = t /\ client' = client /\ toServer' = toServer
      /\ toClient' = IF server.bound THEN Append(toClient, m) ELSE toClient
    BY DEF Responds
<1>2. server \in Server /\ (server.bound => server.session)
    BY DEF IInv, StateInv
<1>3. s.queue - 1 \in 0 .. Capacity
    BY <1>1, <1>2, ServerIs, Constants
<1>4. /\ t \in Server /\ t.bound = s.bound /\ t.session = s.session
      /\ t.queue = s.queue - 1 /\ t.subs = s.subs
    BY <1>3 DEF Server
<1> HIDE DEF t
<1>5. Remembered(t)
    BY <1>4 DEF Remembered
<1>6. CASE server.bound = TRUE
    BY <1>1, <1>4, <1>5, <1>6, EndsStep
<1>7. CASE server.bound = FALSE
    BY <1>1, <1>4, <1>5, <1>7, StillStep
<1> QED
    BY <1>2, <1>6, <1>7 DEF Server

LEMMA NotifiesStep ==
    ASSUME IInv, NEW i \in Ids, Notifies(i)
    PROVE  IInv'
<1> DEFINE sub == server.subs[i]
           e == [sub EXCEPT !.next = @ + 1, !.sent = @ \cup {sub.next}]
           subs == [server.subs EXCEPT ![i] = e]
           t == [server EXCEPT !.subs = subs]
           m == MessageOf(i, sub.next, "data")
<1>1. server \in Server /\ server.subs \in [Ids -> Sub] /\ sub \in Sub
    BY DEF IInv, StateInv, Server, Sub
<1>2. sub.next \in Numbers /\ sub.next + 1 \in Numbers /\ sub.next \in Nat
    <2>1. sub.next \in Numbers /\ sub.next \in Nat
        BY <1>1, ServerIs
    <2>2. sub.next <= MaxMessages
        BY DEF Notifies
    <2> QED
        BY <2>1, <2>2, Constants DEF Numbers
<1>3. Responds(t, m)
    <2>1. t = [server EXCEPT !.subs[i].next = @ + 1, !.subs[i].sent = @ \cup {sub.next}]
        BY <1>1 DEF Server, Sub
    <2> QED
        BY <2>1 DEF Notifies
<1>4. e \in Sub /\ e.next = sub.next + 1 /\ e.sent = sub.sent \cup {sub.next}
    <2>1. sub.sent \cup {sub.next} \in SUBSET Numbers
        BY <1>1, <1>2 DEF Sub
    <2> HIDE DEF sub
    <2> QED
        BY <1>1, <1>2, <2>1 DEF Sub
<1>5. m \in Notification
    BY <1>2 DEF MessageOf, Notification
<1> HIDE DEF e
<1>6. subs \in [Ids -> Sub] /\ subs[i] = e /\ \A j \in Ids \ {i} : subs[j] = server.subs[j]
    BY <1>1, <1>4
<1> HIDE DEF subs
<1>7. /\ t \in Server /\ t.subs = subs /\ t.session = server.session /\ t.bound = server.bound
      /\ t.queue = server.queue
    BY <1>1, <1>6, WithSubs
<1> HIDE DEF t, m
<1>8. Remembered(t)
    <2>1. AckInv
        BY DEF IInv
    <2>2. ASSUME NEW n \in 1 .. e.next - 1
          PROVE  n \in e.sent \/ <<i, n>> \in client.received
        <3>1. n \in 1 .. sub.next - 1 \/ n = sub.next
            BY <1>2, <1>4
        <3> QED
            BY <1>4, <2>1, <3>1 DEF AckInv
    <2>3. ASSUME NEW j \in Ids, NEW n \in 1 .. t.subs[j].next - 1
          PROVE  n \in t.subs[j].sent \/ <<j, n>> \in client.received
        <3>1. CASE j = i
            BY <1>6, <1>7, <2>2, <2>3, <3>1
        <3>2. CASE j # i
            <4>1. t.subs[j] = server.subs[j]
                BY <1>6, <1>7, <3>2
            <4> QED
                BY <2>1, <2>3, <4>1 DEF AckInv
        <3> QED
            BY <3>1, <3>2
    <2> QED
        BY <2>3 DEF Remembered
<1> QED
    BY <1>3, <1>5, <1>7, <1>8, RespondsStep

LEMMA KeepsAliveStep ==
    ASSUME IInv, NEW i \in Ids, KeepsAlive(i)
    PROVE  IInv'
<1> DEFINE m == MessageOf(i, server.subs[i].next, "keepalive")
<1>1. server \in Server /\ Responds(server, m)
    BY DEF IInv, StateInv, KeepsAlive
<1>2. m \in Notification
    BY <1>1, ServerIs DEF MessageOf, Notification
<1>3. Remembered(server)
    BY DEF IInv, AckInv, Remembered
<1> HIDE DEF m
<1> QED
    BY <1>1, <1>2, <1>3, RespondsStep

LEMMA ExpiresStep ==
    ASSUME IInv, NEW i \in Ids, Expires(i)
    PROVE  IInv'
<1> DEFINE phase == "gone"
           here == FALSE
           s == With(server, i, phase, here)
           farewells == IF server.subs[i].here THEN server.farewells \cup {i} ELSE server.farewells
           t == [s EXCEPT !.farewells = farewells]
<1>1. /\ server \in Server /\ (server.bound => server.session) /\ AckInv
      /\ client' = client /\ toServer' = toServer /\ toClient' = toClient
    BY DEF IInv, StateInv, Expires
<1>2. server' = t
    BY <1>1 DEF Expires, With, Server
<1>3. phase \in {"none", "live", "gone"} /\ here \in BOOLEAN
    OBVIOUS
<1> HIDE DEF phase, here
<1>4. /\ s \in Server /\ s.session = server.session /\ s.bound = server.bound
      /\ s.queue = server.queue /\ Keeps(server, s)
    BY <1>1, <1>3, SubChanged
<1>5. farewells \in SUBSET Ids
    BY <1>1 DEF Server
<1> HIDE DEF s, farewells
<1>6. /\ t \in Server /\ t.session = s.session /\ t.bound = s.bound
      /\ t.queue = s.queue /\ t.subs = s.subs
    BY <1>4, <1>5 DEF Server
<1> HIDE DEF t
<1>7. Remembered(t)
    BY <1>1, <1>4, <1>6 DEF AckInv, Keeps, Remembered
<1> QED
    BY <1>1, <1>2, <1>4, <1>6, <1>7, StillStep

LEMMA ForgetsStep ==
    ASSUME IInv, Forgets
    PROVE  IInv'
<1> DEFINE t == SessionGone(server)
<1>1. /\ server \in Server /\ server.bound = FALSE /\ AckInv /\ server' = t
      /\ client' = client /\ toServer' = toServer /\ toClient' = toClient
    BY DEF IInv, StateInv, Forgets, Server
<1>2. t \in Server /\ t.bound = FALSE /\ Keeps(server, t)
    BY <1>1, SessionGoneIs
<1> HIDE DEF t
<1>3. Remembered(t)
    BY <1>1, <1>2 DEF AckInv, Keeps, Remembered
<1> QED
    BY <1>1, <1>2, <1>3, StillStep

-----------------------------------------------------------------------------
(***************************************************************************)
(* The invariant, and what it says of every behaviour.                     *)
(***************************************************************************)
LEMMA InitIInv ==
    ASSUME Init
    PROVE  IInv
<1> DEFINE r == [kind |-> "create"]
<1>1. client \in Client /\ client.out = <<>>
    <2>1. /\ 0 \in Nat /\ 0 \in Int /\ MaxAccepted \in Nat /\ <<>> \in Seq(ToServer)
          /\ "idle" \in Steps
        BY Constants DEF Steps
    <2> QED
        BY <2>1 DEF Init, Client
<1>2. server \in Server /\ server.session /\ server.bound /\ server.queue = 0
      /\ \A i \in Ids : server.subs[i].next = 1
    <2> DEFINE sub == [phase |-> "none", here |-> FALSE, next |-> 1, sent |-> {}]
    <2>1. sub \in Sub /\ sub.next = 1
        BY Constants DEF Sub, Numbers
    <2>2. 0 \in 0 .. Capacity
        BY Constants
    <2>3. server = [session |-> TRUE, bound |-> TRUE, queue |-> 0, farewells |-> {},
                    subs |-> [i \in Ids |-> sub]]
        BY DEF Init
    <2> HIDE DEF sub
    <2>4. [i \in Ids |-> sub] \in [Ids -> Sub]
        BY <2>1
    <2> QED
        BY <2>1, <2>2, <2>3, <2>4 DEF Server, Sub
<1>3. /\ r \in ToServer /\ toServer \in Seq(ToServer) /\ Len(toServer) = 1
      /\ \A n \in 1 .. Len(toServer) : toServer[n] = r
      /\ toClient \in Seq(ToClient) /\ Len(toClient) = 0
    <2>1. r \in ToServer
        BY DEF ToServer
    <2>2. toServer = <<r>> /\ toClient = <<>>
        BY DEF Init
    <2> HIDE DEF r
    <2> QED
        BY <2>1, <2>2
<1>4. /\ client.up /\ client.pending = 0 /\ client.limit = MaxAccepted /\ client.acks = {}
      /\ client.received = {} /\ client.step = "idle"
    BY DEF Init
<1>5. r.kind = "create" /\ Topic(r) = "create"
    BY DEF Topic
<1> HIDE DEF r
<1>6. /\ Count(toServer, Repairing) = 0 /\ Count(toServer, {"publish"}) = 0
      /\ Count(toClient, Repairing) = 0 /\ Count(toClient, Endings) = 0
    <2>1. \A n \in 1 .. Len(toServer) : Topic(toServer[n]) \notin Repairing
        BY <1>3, <1>5 DEF Repairing, Binding
    <2>2. \A n \in 1 .. Len(toServer) : Topic(toServer[n]) \notin {"publish"}
        BY <1>3, <1>5
    <2>3. \A T : \A n \in 1 .. Len(toClient) : Topic(toClient[n]) \notin T
        BY <1>3
    <2>4. Count(toServer, Repairing) = 0 /\ Count(toServer, {"publish"}) = 0
        BY <1>3, <2>1, <2>2, CountNone
    <2>5. Count(toClient, Repairing) = 0 /\ Count(toClient, Endings) = 0
        BY <1>3, <2>3, CountNone
    <2> QED
        BY <2>4, <2>5
<1>7. StateInv
    BY <1>1, <1>2, <1>3, <1>4 DEF StateInv
<1>8. RepairInv
    BY <1>3, <1>4, <1>5, <1>6 DEF RepairInv, Fits, Repairing, Binding
<1>9. BoundInv
    BY <1>2 DEF BoundInv
<1>10. CountInv
    <2>1. Outstanding = Count(toServer, {"publish"}) + Held(server) + Count(toClient, Endings)
        BY <1>3, KindsCounted DEF Outstanding, Held
    <2>2. Outstanding = 0
        BY <1>2, <1>6, <2>1 DEF Held
    <2> QED
        BY <1>3, <1>4, <2>2, Constants DEF CountInv
<1>11. AckInv
    BY <1>2, <1>3, <1>4, <1>5 DEF AckInv
<1> QED
    BY <1>7, <1>8, <1>9, <1>10, <1>11 DEF IInv

LEMMA NextIInv ==
    ASSUME IInv, [Next]_vars
    PROVE  IInv'
<1>1. CASE UNCHANGED vars
    <2>1. StateInv' /\ RepairInv' /\ BoundInv' /\ AckInv'
        BY <1>1 DEF vars, IInv, StateInv, RepairInv, BoundInv, AckInv
    <2>2. CountInv'
        BY <1>1 DEF vars, IInv, CountInv, Outstanding
    <2> QED
        BY <2>1, <2>2 DEF IInv
<1>2. CASE SendsNow
    BY <1>2, SendsNowStep
<1>3. CASE LooksAgain
    BY <1>3, LooksAgainStep
<1>4. CASE Terminate
    BY <1>4, TerminateStep
<1>5. CASE ClientReceives
    BY <1>5, ClientReceivesStep
<1>6. CASE AsksRepublish
    BY <1>6, AsksRepublishStep
<1>7. CASE Lost("break") \/ Lost("ended")
    BY <1>7, LostStep
<1>8. CASE Reconnects
    BY <1>8, ReconnectsStep
<1>9. CASE RepairBegins
    BY <1>9, RepairBeginsStep
<1>10. CASE RepairsAgain
    BY <1>10, RepairsAgainStep
<1>11. CASE ServerReceives
    BY <1>11, ServerReceivesStep
<1>12. CASE Refused
    BY <1>12, RefusedStep
<1>13. CASE Forgets
    BY <1>13, ForgetsStep
<1>14. ASSUME NEW i \in Ids, Notifies(i) \/ KeepsAlive(i) \/ Expires(i)
       PROVE  IInv'
    BY <1>14, NotifiesStep, KeepsAliveStep, ExpiresStep
<1> QED
    BY <1>1, <1>2, <1>3, <1>4, <1>5, <1>6, <1>7, <1>8, <1>9, <1>10, <1>11, <1>12, <1>13,
       <1>14 DEF Next

\* The invariant holds of every state of every behaviour.
THEOREM Invariance == Spec => []IInv
<1>1. Init => IInv
    BY InitIInv
<1>2. IInv /\ [Next]_vars => IInv'
    BY NextIInv
<1> QED
    BY <1>1, <1>2, PTL DEF Spec

LEMMA TypeFollows ==
    ASSUME IInv
    PROVE  TypeOK
<1>1. /\ client \in Client /\ client.out = <<>> /\ client.pending \in Nat
      /\ server \in Server /\ (server.bound => server.session)
      /\ (~client.up => (toServer = <<>> /\ toClient = <<>>))
    BY PendingIs DEF IInv, StateInv
<1>2. client \in [up : BOOLEAN, suspended : BOOLEAN, pending : Nat, limit : Nat,
                  acks : SUBSET (Ids \X Numbers), active : Int, subs : SUBSET Ids,
                  soon : Nat, waiting : Nat, id : Ids \cup {Pending, Terminating, Terminated},
                  last : Numbers \cup {-1}, received : SUBSET (Ids \X Numbers),
                  step : Steps, fresh : BOOLEAN, todo : SUBSET Ids, out : {<<>>}]
    BY <1>1 DEF Client, Notice
<1> QED
    BY <1>1, <1>2 DEF TypeOK, Server

\* Whatever the connection and the server do, the engine's state is what its
\* comments say: its count of pending publish requests is never negative
\* (client_publish_engine.ts:269), and nothing is on a connection that is lost.
THEOREM TypeCorrect == Spec => []TypeOK
<1>1. IInv => TypeOK
    BY TypeFollows
<1> QED
    BY <1>1, Invariance, PTL

\* The client's count of pending publish requests is, at every moment, that of
\* the requests it will be called back for, and 0 without a connection
\* (client_publish_engine.ts:269); the limit it learns when the server has too
\* many (318) is never below what the server has room for.
THEOREM PendingExact == Spec => []PendingCounted
<1>1. IInv => PendingCounted
    BY DEF IInv, CountInv, PendingCounted
<1> QED
    BY <1>1, Invariance, PTL

\* A notification that the server has forgotten was received by the client:
\* what the engine acknowledges it has received, never the number that a
\* keep-alive only announces (client_publish_engine.ts:380).
THEOREM AcknowledgedWereReceived == Spec => []AcknowledgedReceived
<1>1. IInv => AcknowledgedReceived
    BY DEF IInv, AckInv, AcknowledgedReceived, Here
<1> QED
    BY <1>1, Invariance, PTL
=============================================================================
