----------------------- MODULE ServerPublishingProofs -----------------------
(***************************************************************************)
(* The publish engines and their subscriptions keep the invariant IInv,    *)
(* which implies the state properties the runs check.                      *)
(*                                                                         *)
(* TypeOK is not inductive by itself: a handler looks up the queue of the  *)
(* engine of a live subscription (SubsInv), a farewell joins others only if *)
(* no request waits (ClosedDrainsQueue), and a subscription that comes back *)
(* must find its own farewells and no others (FarewellsInv).               *)
(***************************************************************************)
EXTENDS ServerPublishingProperties, SequencePickProofs, SequenceTheorems, FunctionTheorems

-----------------------------------------------------------------------------
(***************************************************************************)
(* One subscription at a time: what the methods of server_subscription.ts  *)
(* keep true of it.                                                        *)
(***************************************************************************)
\* The indices of the data among the pending notifications p
DataIn(p) == {i \in DOMAIN p : ~IsStatus(p[i])}

\* What u holds, pending or in the queues of its items, is all that its items
\* produced and no message has carried, in order.  (Backlog, without Pick:
\* a data notification says how many are before it.)
Whole(u) ==
    /\ u.produced = u.delivered + Cardinality(DataIn(u.pending)) + Len(u.items)
    /\ \A i \in DataIn(u.pending) :
          u.pending[i].value = u.delivered + Rank(DataIn(u.pending), i)
    /\ \A i \in 1..Len(u.items) :
          u.items[i] = u.delivered + Cardinality(DataIn(u.pending)) + i

\* A subscription record of its type whose retransmission queue holds numbers
\* its generator has handed out, and that has lost no notification.
Sound(u) ==
    /\ u \in Subscription
    /\ u.next >= 1
    /\ u.sent \subseteq 1..(u.next - 1)
    /\ Whole(u)

\* Live, of a record.
Alive(u) == u.state \notin {"NONE", "CLOSED"}

\* v is a later version of the subscription u: on the same engine, alive if u
\* is, with a generator that never goes back.
Continues(u, v) ==
    /\ Sound(v)
    /\ v.engine = u.engine
    /\ Alive(u) => Alive(v)
    /\ v.next >= u.next

\* What the other proofs use of PublishingAssumption.
LEMMA Constants ==
    /\ MaxKeepAliveCount \in Nat /\ MaxKeepAliveCount >= 2
    /\ LifeTimeCount \in Nat /\ LifeTimeCount >= 6
    /\ MaxNotificationsPerPublish \in Nat /\ MaxNotificationsPerPublish >= 1
    /\ MaxPublishRequestInQueue \in Nat /\ MaxPublishRequestInQueue >= 1
    /\ NoEngine \notin Engines
    /\ Orphan \notin Sessions
BY PublishingAssumption

\* AtMost is the lesser of two numbers.
LEMMA AtMostIs ==
    ASSUME NEW m \in Nat, NEW n \in Nat
    PROVE  AtMost(m, n) \in Nat /\ AtMost(m, n) <= m /\ AtMost(m, n) <= n
           /\ AtMost(m, n) \in {m, n}
BY DEF AtMost

\* The notification of a monitored item has its type.
LEMMA DataNotification ==
    ASSUME NEW n \in Nat
    PROVE  Data(n) \in Notification
BY DEF Data, Notification

\* A StatusChangeNotification has its type.
LEMMA StatusNotification ==
    ASSUME NEW st \in Status
    PROVE  StatusOf(st) \in Notification
BY DEF StatusOf, Notification

-----------------------------------------------------------------------------
(***************************************************************************)
(* The data among the pending notifications.                               *)
(***************************************************************************)
\* They are finitely many.
LEMMA DataInIs ==
    ASSUME NEW p \in Seq(Notification)
    PROVE  /\ DataIn(p) \in SUBSET (Nat \ {0}) /\ DataIn(p) \subseteq 1..Len(p)
           /\ IsFiniteSet(DataIn(p))
           /\ Cardinality(DataIn(p)) \in Nat
           /\ Rank(DataIn(p), Len(p)) = Cardinality(DataIn(p))
           /\ \A i \in Nat : Rank(DataIn(p), i) \in Nat
<1>1. Len(p) \in Nat /\ DataIn(p) \subseteq 1..Len(p)
    BY DEF DataIn
<1>2. IsFiniteSet(1..Len(p)) /\ DataIn(p) \in SUBSET (1..Len(p))
    BY <1>1, FS_Interval
<1>3. IsFiniteSet(DataIn(p)) /\ Cardinality(DataIn(p)) \in Nat
    BY <1>2, FS_Subset, FS_CardinalityType
<1>4. DataIn(p) \in SUBSET (Nat \ {0}) /\ \A j \in DataIn(p) : j <= Len(p)
    BY <1>1
<1> QED
    BY <1>1, <1>3, <1>4, RankOfLast, PrefixFinite

\* Notifications that join the pending ones are counted after them.
LEMMA DataInConcat ==
    ASSUME NEW p \in Seq(Notification), NEW q \in Seq(Notification)
    PROVE  /\ p \o q \in Seq(Notification)
           /\ \A i \in DataIn(p) : /\ i \in DataIn(p \o q)
                                   /\ (p \o q)[i] = p[i]
                                   /\ Rank(DataIn(p \o q), i) = Rank(DataIn(p), i)
           /\ \A i \in DataIn(p \o q) :
                 \/ i \in DataIn(p)
                 \/ \E j \in DataIn(q) :
                       /\ i = Len(p) + j /\ (p \o q)[i] = q[j]
                       /\ Rank(DataIn(p \o q), i) = Cardinality(DataIn(p)) + Rank(DataIn(q), j)
           /\ Cardinality(DataIn(p \o q)) = Cardinality(DataIn(p)) + Cardinality(DataIn(q))
<1> DEFINE r == p \o q
           K == DataIn(r)
           L == DataIn(q)
           n == Len(p)
<1>1. /\ r \in Seq(Notification) /\ Len(r) = n + Len(q) /\ n \in Nat /\ Len(q) \in Nat
      /\ \A i \in 1..n : r[i] = p[i]
      /\ \A j \in 1..Len(q) : r[n + j] = q[j]
    BY ConcatProperties
<1>2. /\ K \in SUBSET (Nat \ {0}) /\ K \subseteq 1..Len(r) /\ IsFiniteSet(K)
      /\ Rank(K, Len(r)) = Cardinality(K)
    BY <1>1, DataInIs
<1>3. /\ L \in SUBSET (Nat \ {0}) /\ L \subseteq 1..Len(q) /\ IsFiniteSet(L)
      /\ Rank(L, Len(q)) = Cardinality(L)
    BY DataInIs
<1>4. DOMAIN p = 1..n /\ DOMAIN q = 1..Len(q) /\ DOMAIN r = 1..Len(r)
    BY <1>1
<1> HIDE DEF r
<1>5. \A i \in 1..n : i \in K <=> i \in DataIn(p)
    <2>1. \A i \in 1..n : i \in 1..Len(r)
        BY <1>1
    <2> QED
        BY <1>1, <1>4, <2>1 DEF DataIn
<1>6. \A j \in Nat \ {0} : j \in L <=> n + j \in K
    <2>1. ASSUME NEW j \in Nat \ {0}
          PROVE  j \in 1..Len(q) <=> n + j \in 1..Len(r)
        BY <1>1
    <2> QED
        BY <1>1, <1>4, <2>1 DEF DataIn
<1>7. ASSUME NEW i \in 0..n
      PROVE  Rank(K, i) = Rank(DataIn(p), i)
    <2>1. \A j \in K : j <= i => j \in DataIn(p)
        <3>1. \A j \in K : j <= i => j \in 1..n
            BY <1>1, <1>2
        <3> QED
            BY <1>5, <3>1
    <2>2. \A j \in DataIn(p) : j \in K
        BY <1>4, <1>5 DEF DataIn
    <2>3. {j \in K : j <= i} = {j \in DataIn(p) : j <= i}
        BY <2>1, <2>2
    <2> QED
        BY <2>3 DEF Rank
<1>8. Rank(K, n) = Cardinality(DataIn(p))
    <2>1. n \in 0..n
        BY <1>1
    <2> QED
        BY <1>7, <2>1, DataInIs
<1> HIDE DEF K, L
<1>9. ASSUME NEW j \in Nat
      PROVE  Rank(K, n + j) = Cardinality(DataIn(p)) + Rank(L, j)
    <2>1. n \in Nat /\ K \in SUBSET (Nat \ {0}) /\ IsFiniteSet(K) /\ L \in SUBSET (Nat \ {0})
        BY <1>1, <1>2, <1>3
    <2>2. Beyond(K, n, L)
        BY <1>6 DEF Beyond
    <2> HIDE DEF n
    <2>3. Rank(K, n + j) = Rank(K, n) + Rank(L, j)
        BY <2>1, <2>2, RankShift
    <2> QED
        BY <1>8, <2>3
<1>10. Cardinality(K) = Cardinality(DataIn(p)) + Cardinality(L)
    BY <1>1, <1>2, <1>3, <1>9
<1>11. ASSUME NEW i \in DataIn(p)
       PROVE  i \in K /\ r[i] = p[i] /\ Rank(K, i) = Rank(DataIn(p), i)
    <2>1. i \in 1..n /\ i \in 0..n
        BY <1>1, <1>4 DEF DataIn
    <2> QED
        BY <1>1, <1>5, <1>7, <2>1
<1>12. ASSUME NEW i \in K, i \notin DataIn(p)
       PROVE  \E j \in L : /\ i = n + j /\ r[i] = q[j]
                            /\ Rank(K, i) = Cardinality(DataIn(p)) + Rank(L, j)
    <2>1. i \in 1..Len(r) /\ ~(i \in 1..n)
        BY <1>2, <1>5, <1>12
    <2>2. i - n \in Nat \ {0} /\ i = n + (i - n) /\ i - n \in 1..Len(q)
        BY <1>1, <2>1
    <2>3. i - n \in L
        BY <1>6, <1>12, <2>2
    <2>4. r[n + (i - n)] = q[i - n] /\ Rank(K, n + (i - n)) = Cardinality(DataIn(p)) + Rank(L, i - n)
        BY <1>1, <1>9, <2>2
    <2> QED
        BY <2>2, <2>3, <2>4
<1> QED
    BY <1>1, <1>10, <1>11, <1>12 DEF K, L, r

\* Held in order, whole, is what the runs call no notification lost.
LEMMA BacklogWhole ==
    ASSUME NEW u \in Subscription, Whole(u)
    PROVE  Backlog(u) = [i \in 1..(u.produced - u.delivered) |-> u.delivered + i]
<1> DEFINE p == u.pending
           it == u.items
           d == u.delivered
           K == DataIn(p)
           c == Cardinality(K)
           w == Pick(p, K)
           vs == [i \in 1..Len(w) |-> w[i].value]
           all == [i \in 1..(c + Len(it)) |-> d + i]
<1>1. /\ p \in Seq(Notification) /\ it \in Seq(Nat) /\ Len(it) \in Nat
      /\ d \in Nat /\ u.produced \in Nat
    BY DEF Subscription
<1>2. /\ u.produced = d + c + Len(it)
      /\ \A i \in K : p[i].value = d + Rank(K, i)
      /\ \A i \in 1..Len(it) : it[i] = d + c + i
    BY DEF Whole
<1>3. K \in SUBSET (1..Len(p)) /\ IsFiniteSet(K) /\ c \in Nat
    BY <1>1, DataInIs
<1>4. Backlog(u) = vs \o it
    BY DEF Backlog, DataIn
<1> HIDE DEF p, it, d, K
<1>5. Len(w) = c
    BY <1>1, <1>3, PickProperties
<1>6. \A k \in 1..c : \E i \in K : w[k] = p[i] /\ Rank(K, i) = k
    BY <1>1, <1>3, PickRank
<1> HIDE DEF w, c
<1>7. \A k \in 1..c : w[k].value = d + k
    BY <1>2, <1>6
<1>8. vs \in Seq(Nat) /\ Len(vs) = c /\ \A k \in 1..c : vs[k] = d + k
    BY <1>1, <1>3, <1>5, <1>7
<1> HIDE DEF vs
<1>9. /\ vs \o it \in Seq(Nat) /\ Len(vs \o it) = c + Len(it)
      /\ \A i \in 1..c : (vs \o it)[i] = vs[i]
      /\ \A j \in 1..Len(it) : (vs \o it)[c + j] = it[j]
    <2>1. vs \in Seq(Nat) /\ it \in Seq(Nat) /\ Len(vs) = c
        BY <1>1, <1>8
    <2>2. vs \o it \in Seq(Nat) /\ Len(vs \o it) = Len(vs) + Len(it)
        BY <2>1, ConcatProperties
    <2>3. \A i \in 1..Len(vs) : (vs \o it)[i] = vs[i]
        BY <2>1
    <2>4. \A j \in 1..Len(it) : (vs \o it)[Len(vs) + j] = it[j]
        BY <2>1
    <2> QED
        BY <2>1, <2>2, <2>3, <2>4
<1>10. ASSUME NEW i \in 1..(c + Len(it))
       PROVE  (vs \o it)[i] = d + i
    <2>1. CASE i \in 1..c
        BY <1>8, <1>9, <2>1
    <2>2. CASE ~(i \in 1..c)
        <3> DEFINE j == i - c
        <3>1. j \in 1..Len(it) /\ c + j = i /\ j \in Nat
            BY <1>1, <1>3, <2>2
        <3> HIDE DEF j
        <3>2. (vs \o it)[c + j] = it[j] /\ it[j] = d + c + j
            BY <1>2, <1>9, <3>1
        <3>3. (vs \o it)[i] = d + c + j
            BY <3>1, <3>2
        <3> QED
            BY <1>1, <1>3, <3>1, <3>3
    <2> QED
        BY <2>1, <2>2
<1>11. vs \o it = all
    <2>1. all \in Seq(Nat) /\ Len(all) = c + Len(it)
        BY <1>1, <1>3
    <2>2. \A i \in 1..Len(all) : (vs \o it)[i] = all[i]
        BY <1>10, <2>1
    <2> HIDE DEF all
    <2> QED
        BY <1>9, <2>1, <2>2, SeqEqual
<1>12. u.produced - d = c + Len(it)
    BY <1>1, <1>2, <1>3
<1> QED
    BY <1>4, <1>11, <1>12 DEF d

\* v holds the notifications of u, and has delivered no other.
SameNotifications(u, v) ==
    /\ v.items = u.items /\ v.pending = u.pending
    /\ v.produced = u.produced /\ v.delivered = u.delivered

\* A method that leaves the notifications alone loses none.
LEMMA WholeSame ==
    ASSUME NEW u, Whole(u), NEW v, SameNotifications(u, v)
    PROVE  Whole(v)
BY DEF Whole, SameNotifications

\* Nothing is lost when nothing is held.
LEMMA WholeEmpty ==
    ASSUME NEW u, DataIn(u.pending) = {}, u.items = <<>>,
           u.produced \in Nat, u.delivered = u.produced
    PROVE  Whole(u)
<1>1. Cardinality(DataIn(u.pending)) = 0
    BY FS_EmptySet
<1>2. Len(u.items) = 0
    OBVIOUS
<1> QED
    BY <1>1, <1>2 DEF Whole

-----------------------------------------------------------------------------
(***************************************************************************)
(* Birth and death.                                                        *)
(***************************************************************************)
\* An id that was not handed out has a sound record, of no engine.
LEMMA UnbornSound == Sound(Unborn) /\ ~Alive(Unborn) /\ Unborn.engine = NoEngine
<1>1. /\ Unborn \in Subscription /\ Unborn.next = 1 /\ Unborn.sent = {}
      /\ ~Alive(Unborn) /\ Unborn.engine = NoEngine
    BY Constants DEF Alive, Subscription, Unborn, SubscriptionState
<1>2. DataIn(Unborn.pending) = {}
    BY DEF Unborn, DataIn
<1>3. Whole(Unborn)
    BY <1>2, WholeEmpty DEF Unborn
<1> QED
    BY <1>1, <1>3 DEF Sound

\* The constructor and _start_timer leave a sound subscription on its engine.
LEMMA CreatedSound ==
    ASSUME NEW e \in Sessions, NEW b \in BOOLEAN
    PROVE  Sound(Created(e, b)) /\ Alive(Created(e, b)) /\ Created(e, b).engine = e
<1>1. Unborn \in Subscription /\ Unborn.sent = {} /\ Unborn.next = 1
    BY UnbornSound DEF Sound, Unborn
<1>2. MaxKeepAliveCount - 1 \in 0..MaxKeepAliveCount /\ e \in Engines
    BY Constants DEF Engines
<1>3. Created(e, b) \in Subscription
    BY <1>1, <1>2 DEF Subscription, SubscriptionState, Created
<1>4. /\ Created(e, b).sent = {} /\ Created(e, b).next = 1
      /\ Created(e, b).engine = e /\ Created(e, b).state = "CREATING"
      /\ SameNotifications(Unborn, Created(e, b))
    BY <1>1 DEF Subscription, Created, SameNotifications
<1>5. Whole(Created(e, b))
    BY <1>4, UnbornSound, WholeSame DEF Sound
<1> QED
    BY <1>3, <1>4, <1>5 DEF Sound, Alive

\* What terminate leaves is sound, with no engine.
LEMMA DeadSound ==
    ASSUME NEW u, u.next \in Nat, u.next >= 1
    PROVE  Sound(Dead(u)) /\ Dead(u).state = "CLOSED" /\ Dead(u).engine = NoEngine
           /\ Dead(u).next = u.next
<1>1. Unborn \in Subscription /\ Unborn.sent = {}
    BY UnbornSound DEF Sound, Unborn
<1>2. /\ Dead(u) \in Subscription /\ Dead(u).sent = {} /\ Dead(u).next = u.next
      /\ Dead(u).state = "CLOSED" /\ Dead(u).engine = NoEngine
      /\ SameNotifications(Unborn, Dead(u))
    BY <1>1, UnbornSound DEF Subscription, SubscriptionState, Dead, SameNotifications
<1>3. Whole(Dead(u))
    BY <1>2, UnbornSound, WholeSame DEF Sound
<1> QED
    BY <1>2, <1>3 DEF Sound

-----------------------------------------------------------------------------
(***************************************************************************)
(* The methods.                                                            *)
(***************************************************************************)
\* Methods of a subscription can be put one after the other.
LEMMA ContinuesTrans ==
    ASSUME NEW u, NEW v, NEW w, Sound(u), Continues(u, v), Continues(v, w)
    PROVE  Continues(u, w)
<1>1. u.next \in Nat /\ v.next \in Nat /\ w.next \in Nat
    BY DEF Continues, Sound, Subscription
<1> QED
    BY <1>1 DEF Continues

\* A method that leaves alone the number generator, the retransmission queue
\* (or takes from it), the engine, and whether the subscription lives.
LEMMA ContinuesWhole ==
    ASSUME NEW u, Sound(u), NEW v \in Subscription,
           v.next = u.next, v.sent \subseteq u.sent, v.engine = u.engine,
           Alive(u) => Alive(v), Whole(v)
    PROVE  Continues(u, v)
<1>1. u.next \in Nat
    BY DEF Sound, Subscription
<1> QED
    BY <1>1 DEF Continues, Sound

\* ... and the notifications.
LEMMA ContinuesIf ==
    ASSUME NEW u, Sound(u), NEW v \in Subscription,
           v.next = u.next, v.sent \subseteq u.sent, v.engine = u.engine,
           SameNotifications(u, v), Alive(u) => Alive(v)
    PROVE  Continues(u, v)
<1>1. Whole(v)
    BY WholeSame DEF Sound
<1> QED
    BY <1>1, ContinuesWhole

\* resetLifeTimeAndKeepAliveCounters keeps a subscription sound.
LEMMA ResetContinues ==
    ASSUME NEW u, Sound(u)
    PROVE  Continues(u, ResetCounters(u))
<1>1. u \in Subscription
    BY DEF Sound
<1>2. 0 \in 0..MaxKeepAliveCount /\ 0 \in 0..(LifeTimeCount - 1)
    BY Constants
<1>3. ResetCounters(u) \in Subscription
    BY <1>1, <1>2 DEF Subscription, ResetCounters
<1>4. /\ ResetCounters(u).next = u.next /\ ResetCounters(u).sent = u.sent
      /\ ResetCounters(u).engine = u.engine /\ ResetCounters(u).state = u.state
      /\ SameNotifications(u, ResetCounters(u))
    BY <1>1 DEF Subscription, ResetCounters, SameNotifications
<1> QED
    BY <1>3, <1>4, ContinuesIf DEF Alive

\* The keep-alive counter can be given any value within its limit.
LEMMA KeepAliveSet ==
    ASSUME NEW u, Sound(u), NEW k \in 0..MaxKeepAliveCount
    PROVE  Continues(u, [u EXCEPT !.keepAlive = k])
<1>1. u \in Subscription
    BY DEF Sound
<1>2. [u EXCEPT !.keepAlive = k] \in Subscription
    BY <1>1 DEF Subscription
<1>3. /\ [u EXCEPT !.keepAlive = k].next = u.next /\ [u EXCEPT !.keepAlive = k].sent = u.sent
      /\ [u EXCEPT !.keepAlive = k].engine = u.engine /\ [u EXCEPT !.keepAlive = k].state = u.state
      /\ SameNotifications(u, [u EXCEPT !.keepAlive = k])
    BY <1>1 DEF Subscription, SameNotifications
<1> QED
    BY <1>2, <1>3, ContinuesIf DEF Alive

\* _publish_pending_notifications, _process_keepAlive and _tick assign the
\* states of a living subscription.
LEMMA StateSet ==
    ASSUME NEW u, Sound(u), NEW st \in {"NORMAL", "LATE", "KEEPALIVE"}
    PROVE  Continues(u, [u EXCEPT !.state = st])
<1>1. u \in Subscription
    BY DEF Sound
<1>2. [u EXCEPT !.state = st] \in Subscription
    BY <1>1 DEF Subscription, SubscriptionState
<1>3. /\ [u EXCEPT !.state = st].next = u.next /\ [u EXCEPT !.state = st].sent = u.sent
      /\ [u EXCEPT !.state = st].engine = u.engine /\ [u EXCEPT !.state = st].state = st
      /\ SameNotifications(u, [u EXCEPT !.state = st])
    BY <1>1 DEF Subscription, SubscriptionState, SameNotifications
<1> QED
    BY <1>2, <1>3, ContinuesIf DEF Alive

\* increaseKeepAliveCounter, saturated, stays within the limit.
LEMMA IncreaseContinues ==
    ASSUME NEW u, Sound(u)
    PROVE  Continues(u, IncreaseKeepAlive(u))
<1>1. u.keepAlive \in 0..MaxKeepAliveCount
    BY DEF Sound, Subscription
<1>2. AtMost(u.keepAlive + 1, MaxKeepAliveCount) \in 0..MaxKeepAliveCount
    BY <1>1, Constants, AtMostIs
<1> QED
    BY <1>2, KeepAliveSet DEF IncreaseKeepAlive

\* The getter hasUncollectedMonitoredItemNotifications only sets its flag.
LEMMA AskedContinues ==
    ASSUME NEW u, Sound(u)
    PROVE  Continues(u, Asked(u))
<1>1. u \in Subscription
    BY DEF Sound
<1>2. Uncollected(u) \in BOOLEAN
    BY <1>1 DEF Uncollected, Subscription
<1>3. Asked(u) \in Subscription
    BY <1>1, <1>2 DEF Subscription, Asked
<1>4. /\ Asked(u).next = u.next /\ Asked(u).sent = u.sent
      /\ Asked(u).engine = u.engine /\ Asked(u).state = u.state
      /\ SameNotifications(u, Asked(u))
    BY <1>1 DEF Subscription, Asked, SameNotifications
<1> QED
    BY <1>3, <1>4, ContinuesIf DEF Alive

\* discardOldSentNotifications only takes numbers from the retransmission
\* queue.
LEMMA DiscardContinues ==
    ASSUME NEW u, Sound(u)
    PROVE  Continues(u, DiscardOldSent(u)) /\ DiscardOldSent(u).state = u.state
<1> DEFINE kept == {n \in u.sent : Cardinality({m \in u.sent : m > n}) < MaxSentMessages}
           v == [u EXCEPT !.sent = kept]
<1>1. u \in Subscription
    BY DEF Sound
<1>2. kept \subseteq u.sent /\ kept \in SUBSET Nat
    BY <1>1 DEF Subscription
<1>3. DiscardOldSent(u) = v
    BY DEF DiscardOldSent
<1> HIDE DEF kept
<1>4. v \in Subscription
    BY <1>1, <1>2 DEF Subscription
<1>5. /\ v.next = u.next /\ v.sent = kept /\ v.engine = u.engine /\ v.state = u.state
      /\ SameNotifications(u, v)
    BY <1>1 DEF Subscription, SameNotifications
<1> QED
    BY <1>2, <1>3, <1>4, <1>5, ContinuesIf DEF Alive

\* increaseLifeTimeCounter leaves the counter below its limit unless
\* lifeTimeHasExpired.
LEMMA AgedContinues ==
    ASSUME NEW u, Sound(u)
    PROVE  /\ Aged(u).pending = u.pending /\ Aged(u).next = u.next
           /\ ~LifeTimeExpired(Aged(u)) => Continues(u, Aged(u))
<1> DEFINE l == IF u.state = "LATE" THEN u.lifeTime + 1 ELSE u.lifeTime
           v == [u EXCEPT !.lifeTime = l]
<1>1. u \in Subscription
    BY DEF Sound
<1>2. l \in Nat
    BY <1>1, Constants DEF Subscription
<1>3. Aged(u) = v
    BY DEF Aged
<1> HIDE DEF l
<1>4. /\ v.next = u.next /\ v.sent = u.sent /\ v.engine = u.engine /\ v.state = u.state
      /\ v.pending = u.pending /\ v.lifeTime = l /\ SameNotifications(u, v)
    BY <1>1 DEF Subscription, SameNotifications
<1>5. ASSUME ~LifeTimeExpired(v)
      PROVE  Continues(u, v)
    <2>1. l \in 0..(LifeTimeCount - 1)
        BY <1>2, <1>4, <1>5, Constants DEF LifeTimeExpired
    <2>2. v \in Subscription
        BY <1>1, <2>1 DEF Subscription
    <2> HIDE DEF v
    <2> QED
        BY <1>4, <2>2, ContinuesIf DEF Alive
<1> QED
    BY <1>3, <1>4, <1>5

\* The expiry in _tick: the aged subscription owes one more
\* StatusChangeNotification, whatever its life time counter.
LEMMA ToldPending ==
    ASSUME NEW d \in Subscription, NEW st
    PROVE  /\ Told(Aged(d), st).pending = Append(d.pending, StatusOf(st))
           /\ Told(Aged(d), st).next = d.next
<1> DEFINE l == IF d.state = "LATE" THEN d.lifeTime + 1 ELSE d.lifeTime
           a == [d EXCEPT !.lifeTime = l]
           p == Append(d.pending, StatusOf(st))
<1>1. Aged(d) = a
    BY DEF Aged
<1> HIDE DEF l, p
<1>2. a.pending = d.pending /\ a.next = d.next
    BY DEF Subscription
<1>3. [a EXCEPT !.pending = p].pending = p /\ [a EXCEPT !.pending = p].next = a.next
    BY DEF Subscription
<1>4. Told(a, st) = [a EXCEPT !.pending = p]
    <2>1. Told(a, st) = [a EXCEPT !.pending = Append(a.pending, StatusOf(st))]
        BY DEF Told
    <2> QED
        BY <1>2, <2>1 DEF p
<1> HIDE DEF a
<1> QED
    BY <1>1, <1>2, <1>3, <1>4 DEF p

\* A monitored item queues a value.
LEMMA NotifiedContinues ==
    ASSUME NEW u, Sound(u)
    PROVE  Continues(u, Notified(u))
<1>1. u \in Subscription
    BY DEF Sound
<1>2. u.produced + 1 \in Nat /\ Append(u.items, u.produced + 1) \in Seq(Nat)
    BY <1>1 DEF Subscription
<1>3. Notified(u) \in Subscription
    BY <1>1, <1>2 DEF Subscription, Notified
<1>4. /\ Notified(u).next = u.next /\ Notified(u).sent = u.sent
      /\ Notified(u).engine = u.engine /\ Notified(u).state = u.state
      /\ Notified(u).items = Append(u.items, u.produced + 1)
      /\ Notified(u).produced = u.produced + 1
      /\ Notified(u).pending = u.pending /\ Notified(u).delivered = u.delivered
    BY <1>1 DEF Subscription, Notified
<1>5. Whole(Notified(u))
    <2> DEFINE it == u.items
               more == Append(it, u.produced + 1)
               c == Cardinality(DataIn(u.pending))
               d == u.delivered
               n == u.produced
    <2>1. it \in Seq(Nat) /\ n \in Nat /\ d \in Nat /\ c \in Nat
        BY <1>1, DataInIs DEF Subscription
    <2>2. /\ n = d + c + Len(it)
          /\ \A i \in 1..Len(it) : it[i] = d + c + i
        BY DEF Sound, Whole
    <2>3. /\ Len(more) = Len(it) + 1
          /\ \A i \in 1..Len(it) : more[i] = it[i]
          /\ more[Len(it) + 1] = n + 1
        BY <2>1
    <2> HIDE DEF it, more, c, d, n
    <2>4. Len(it) \in Nat
        BY <2>1
    <2>5. ASSUME NEW i \in 1..Len(more)
          PROVE  more[i] = d + c + i
        <3>1. CASE i \in 1..Len(it)
            BY <2>2, <2>3, <3>1
        <3>2. CASE i = Len(it) + 1
            BY <2>1, <2>2, <2>3, <2>4, <3>2
        <3> QED
            BY <2>3, <2>4, <3>1, <3>2
    <2>6. n + 1 = d + c + Len(more)
        BY <2>1, <2>2, <2>3, <2>4
    <2> QED
        BY <1>4, <2>5, <2>6 DEF Sound, Whole, it, more, c, d, n
<1> QED
    BY <1>3, <1>4, <1>5, ContinuesWhole DEF Alive

\* _harvestMonitoredItems moves the notifications of the items behind the
\* pending ones.
LEMMA HarvestContinues ==
    ASSUME NEW u, Sound(u)
    PROVE  Continues(u, Harvest(u))
<1> DEFINE new == [i \in 1..Len(u.items) |-> Data(u.items[i])]
           p   == u.pending \o new
           v   == [u EXCEPT !.pending = p, !.items = <<>>, !.flag = FALSE]
<1>1. u \in Subscription
    BY DEF Sound
<1>2. u.items \in Seq(Nat) /\ u.pending \in Seq(Notification)
    BY <1>1 DEF Subscription
<1>3. \A i \in 1..Len(u.items) : Data(u.items[i]) \in Notification
    BY <1>2, DataNotification
<1>4. new \in Seq(Notification)
    BY <1>2, <1>3
<1>5. p \in Seq(Notification) /\ <<>> \in Seq(Nat)
    BY <1>2, <1>4
<1>6. Harvest(u) = v
    BY DEF Harvest
<1> HIDE DEF p
<1>7. v \in Subscription
    BY <1>1, <1>5 DEF Subscription
<1>8. /\ v.next = u.next /\ v.sent = u.sent /\ v.engine = u.engine /\ v.state = u.state
      /\ v.pending = p /\ v.items = <<>>
      /\ v.produced = u.produced /\ v.delivered = u.delivered
    BY <1>1 DEF Subscription
<1> HIDE DEF v
<1>9. Whole(v)
    <2> DEFINE K == DataIn(p)
               c == Cardinality(DataIn(u.pending))
               n == Len(u.items)
    <2>1. /\ n \in Nat /\ c \in Nat /\ u.delivered \in Nat
          /\ u.produced = u.delivered + c + n
          /\ \A i \in 1..n : u.items[i] = u.delivered + c + i
          /\ \A i \in DataIn(u.pending) :
                u.pending[i].value = u.delivered + Rank(DataIn(u.pending), i)
        BY <1>1, <1>2, DataInIs DEF Sound, Whole, Subscription
    <2>2. /\ Len(new) = n /\ DOMAIN new = 1..n
          /\ \A i \in 1..n : new[i].type = "data" /\ new[i].value = u.items[i]
        BY <1>2 DEF Data
    <2> HIDE DEF new
    <2>3. DataIn(new) = 1..n
        BY <2>2 DEF DataIn, IsStatus, Status
    <2>4. \A i \in 1..n : Rank(DataIn(new), i) = i
        <3>1. ASSUME NEW i \in 1..n
              PROVE  Rank(1..n, i) = i
            <4>1. 1..n \in SUBSET (Nat \ {0}) /\ i \in Nat /\ \A j \in 1..i : j \in 1..n
                BY <2>1
            <4> QED
                BY <4>1, RankOfInterval
        <3> QED
            BY <2>3, <3>1
    <2>5. Cardinality(DataIn(new)) = n
        <3>1. 1 \in Int /\ n \in Int /\ n >= 0
            BY <2>1
        <3> HIDE DEF n
        <3>2. Cardinality(1..n) = n
            BY <3>1, FS_Interval
        <3> QED
            BY <2>3, <3>2
    <2>6. /\ Cardinality(K) = c + n
          /\ \A i \in DataIn(u.pending) : /\ p[i] = u.pending[i]
                                          /\ Rank(K, i) = Rank(DataIn(u.pending), i)
          /\ \A i \in K : \/ i \in DataIn(u.pending)
                          \/ \E j \in DataIn(new) :
                                /\ i = Len(u.pending) + j /\ p[i] = new[j]
                                /\ Rank(K, i) = c + Rank(DataIn(new), j)
        <3> DEFINE old == u.pending
        <3>1. old \in Seq(Notification) /\ new \in Seq(Notification)
            BY <1>2, <1>4
        <3>2. p = old \o new
            BY DEF p
        <3> HIDE DEF n, old
        <3>3. /\ \A i \in DataIn(old) : /\ (old \o new)[i] = old[i]
                                       /\ Rank(DataIn(old \o new), i) = Rank(DataIn(old), i)
              /\ \A i \in DataIn(old \o new) :
                    \/ i \in DataIn(old)
                    \/ \E j \in DataIn(new) :
                          /\ i = Len(old) + j /\ (old \o new)[i] = new[j]
                          /\ Rank(DataIn(old \o new), i) = Cardinality(DataIn(old)) + Rank(DataIn(new), j)
              /\ Cardinality(DataIn(old \o new)) = Cardinality(DataIn(old)) + Cardinality(DataIn(new))
            BY <3>1, DataInConcat, Zenon
        <3>4. /\ \A i \in DataIn(old) : /\ p[i] = old[i]
                                       /\ Rank(DataIn(p), i) = Rank(DataIn(old), i)
              /\ \A i \in DataIn(p) :
                    \/ i \in DataIn(old)
                    \/ \E j \in DataIn(new) :
                          /\ i = Len(old) + j /\ p[i] = new[j]
                          /\ Rank(DataIn(p), i) = Cardinality(DataIn(old)) + Rank(DataIn(new), j)
              /\ Cardinality(DataIn(p)) = Cardinality(DataIn(old)) + Cardinality(DataIn(new))
            BY <3>2, <3>3
        <3>5. Cardinality(DataIn(p)) = c + n
            BY <2>5, <3>4 DEF old
        <3> QED
            BY <3>4, <3>5 DEF old
    <2> HIDE DEF K, c, n
    <2>7. ASSUME NEW i \in K
          PROVE  p[i].value = u.delivered + Rank(K, i)
        <3>1. CASE i \in DataIn(u.pending)
            BY <2>1, <2>6, <3>1
        <3>2. CASE \E j \in DataIn(new) : /\ i = Len(u.pending) + j /\ p[i] = new[j]
                                          /\ Rank(K, i) = c + Rank(DataIn(new), j)
            <4>1. PICK j \in 1..n : p[i] = new[j] /\ Rank(K, i) = c + j
                BY <2>3, <2>4, <3>2
            <4>2. p[i].value = u.delivered + c + j /\ j \in Nat
                BY <2>1, <2>2, <4>1
            <4> QED
                BY <2>1, <4>1, <4>2
        <3> QED
            BY <2>6, <3>1, <3>2
    <2>8. v.produced = v.delivered + Cardinality(K) + Len(v.items)
        <3>1. Len(v.items) = 0
            BY <1>8
        <3> QED
            BY <1>8, <2>1, <2>6, <3>1
    <2>9. \A i \in 1..Len(v.items) : FALSE
        BY <1>8
    <2> QED
        BY <1>8, <2>7, <2>8, <2>9 DEF Whole, K
<1> QED
    BY <1>6, <1>7, <1>8, <1>9, ContinuesWhole DEF Alive

\* _popNotificationToSend takes one notification or more, and never more than
\* there are.
LEMMA BatchLengthIs ==
    ASSUME NEW p \in Seq(Notification), p # <<>>
    PROVE  BatchLength(p) \in 1..Len(p)
<1> DEFINE m == AtMost(MaxNotificationsPerPublish, Len(p))
           B == {i \in 1..m : \A j \in 1..i : ~IsStatus(p[j])}
<1>1. Len(p) \in Nat /\ Len(p) >= 1
    OBVIOUS
<1>2. m \in Nat /\ m <= Len(p) /\ m >= 1
    BY <1>1, Constants, AtMostIs
<1> HIDE DEF m
<1>3. IsFiniteSet(1..m) /\ Cardinality(1..m) = m
    BY <1>2, FS_Interval
<1>4. IsFiniteSet(B) /\ Cardinality(B) <= m
    BY <1>3, FS_Subset
<1>5. Cardinality(B) \in Nat
    BY <1>4, FS_CardinalityType
<1>6. ASSUME ~IsStatus(p[1])
      PROVE  Cardinality(B) >= 1
    <2>1. 1 \in B
        BY <1>2, <1>6
    <2>2. Cardinality(B) # 0
        BY <1>4, <2>1, FS_EmptySet
    <2> QED
        BY <1>5, <2>2
<1>7. BatchLength(p) = IF IsStatus(p[1]) THEN 1 ELSE Cardinality(B)
    BY DEF BatchLength, m
<1> QED
    BY <1>1, <1>2, <1>4, <1>5, <1>6, <1>7

\* A batch that does not tell of a status holds data only.
LEMMA BatchIsData ==
    ASSUME NEW p \in Seq(Notification), p # <<>>
    PROVE  \/ IsStatus(p[1]) /\ BatchLength(p) = 1
           \/ \A i \in 1..BatchLength(p) : ~IsStatus(p[i])
<1> DEFINE m == AtMost(MaxNotificationsPerPublish, Len(p))
           B == {i \in 1..m : \A j \in 1..i : ~IsStatus(p[j])}
<1>1. Len(p) \in Nat /\ Len(p) >= 1
    OBVIOUS
<1>2. m \in Nat /\ m <= Len(p) /\ m >= 1
    BY <1>1, Constants, AtMostIs
<1> HIDE DEF m
<1>3. IsFiniteSet(1..m) /\ B \in SUBSET (1..m)
    BY <1>2, FS_Interval
<1>4. IsFiniteSet(B) /\ B \in SUBSET Int
    BY <1>2, <1>3, FS_Subset
<1>5. BatchLength(p) = IF IsStatus(p[1]) THEN 1 ELSE Cardinality(B)
    BY DEF BatchLength, m
<1>6. ASSUME ~IsStatus(p[1])
      PROVE  \A i \in 1..Cardinality(B) : ~IsStatus(p[i])
    <2>1. 1 \in B
        BY <1>2, <1>6
    <2>2. PICK g \in B : \A j \in B : j <= g
        BY <1>4, <2>1, GreatestExists
    <2>3. g \in 1..m /\ \A j \in 1..g : ~IsStatus(p[j])
        OBVIOUS
    <2>4. B \in SUBSET (1..g)
        BY <1>2, <2>2
    <2>5. Cardinality(B) <= g /\ Cardinality(B) \in Nat
        <3>1. IsFiniteSet(1..g) /\ Cardinality(1..g) = g
            BY <2>3, FS_Interval
        <3> QED
            BY <1>4, <2>4, <3>1, FS_Subset, FS_CardinalityType
    <2> HIDE DEF B
    <2> QED
        BY <2>3, <2>5
<1> QED
    BY <1>5, <1>6

\* What a batch leaves pending, and what it carries, are counted apart.
LEMMA DataInRest ==
    ASSUME NEW p \in Seq(Notification), NEW n \in 1..Len(p),
           NEW q, q = SubSeq(p, n + 1, Len(p))
    PROVE  /\ q \in Seq(Notification)
           /\ \A i \in DataIn(q) : /\ n + i \in DataIn(p) /\ q[i] = p[n + i]
                                   /\ Rank(DataIn(p), n + i) = Rank(DataIn(p), n) + Rank(DataIn(q), i)
           /\ Cardinality(DataIn(p)) = Rank(DataIn(p), n) + Cardinality(DataIn(q))
<1> DEFINE K == DataIn(p)
           L == DataIn(q)
<1>1. /\ q \in Seq(Notification) /\ Len(p) \in Nat /\ n \in Nat
      /\ Len(q) = Len(p) - n /\ Len(q) \in Nat
      /\ \A i \in 1..Len(q) : q[i] = p[n + i]
    OBVIOUS
<1>2. /\ K \in SUBSET (Nat \ {0}) /\ IsFiniteSet(K) /\ K \subseteq 1..Len(p)
      /\ Rank(K, Len(p)) = Cardinality(K)
    BY DataInIs
<1>3. /\ L \in SUBSET (Nat \ {0}) /\ L \subseteq 1..Len(q)
      /\ Rank(L, Len(q)) = Cardinality(L)
    BY <1>1, DataInIs
<1>4. \A k \in Nat \ {0} : k \in L <=> n + k \in K
    <2>1. ASSUME NEW k \in Nat \ {0}
          PROVE  k \in 1..Len(q) <=> n + k \in 1..Len(p)
        BY <1>1
    <2>2. DOMAIN p = 1..Len(p) /\ DOMAIN q = 1..Len(q)
        BY <1>1
    <2> QED
        BY <1>1, <2>1, <2>2 DEF DataIn
<1>5. Beyond(K, n, L)
    BY <1>4 DEF Beyond
<1> HIDE DEF K, L
<1>6. ASSUME NEW i \in Nat
      PROVE  Rank(K, n + i) = Rank(K, n) + Rank(L, i)
    <2>1. n \in Nat /\ K \in SUBSET (Nat \ {0}) /\ IsFiniteSet(K) /\ L \in SUBSET (Nat \ {0})
        BY <1>1, <1>2, <1>3
    <2> QED
        BY <2>1, <1>5, RankShift
<1>7. Cardinality(K) = Rank(K, n) + Cardinality(L)
    <2>1. n + Len(q) = Len(p)
        BY <1>1
    <2> QED
        BY <1>1, <1>2, <1>3, <1>6, <2>1
<1>8. \A i \in L : i \in Nat /\ i \in Nat \ {0} /\ i \in 1..Len(q)
    BY <1>3
<1>9. \A i \in L : n + i \in K /\ q[i] = p[n + i]
                   /\ Rank(K, n + i) = Rank(K, n) + Rank(L, i)
    BY <1>1, <1>4, <1>6, <1>8
<1> QED
    BY <1>1, <1>7, <1>9 DEF K, L

\* _publish_pending_notifications: the number taken from the generator enters
\* the retransmission queue.
LEMMA PublishedContinues ==
    ASSUME NEW u, Sound(u), u.pending # <<>>
    PROVE  /\ Continues(u, Published(u))
           /\ Alive(Published(u))
           /\ Batch(u) \in Seq(Notification)
<1> DEFINE n == BatchLength(u.pending)
           r == ResetCounters(u)
           rest == SubSeq(u.pending, n + 1, Len(u.pending))
           last == IF IsStatus(u.pending[n]) THEN u.delivered ELSE u.pending[n].value
           v == [r EXCEPT !.pending = rest, !.sent = u.sent \cup {u.next},
                          !.next = u.next + 1, !.unacked = u.unacked + 1,
                          !.messageSent = TRUE, !.state = "NORMAL", !.delivered = last]
<1>1. u \in Subscription /\ u.pending \in Seq(Notification)
    BY DEF Sound, Subscription
<1>2. n \in 1..Len(u.pending)
    BY <1>1, BatchLengthIs
<1>3. u.pending[n] \in Notification
    BY <1>1, <1>2
<1>4. last \in Nat
    BY <1>1, <1>3 DEF Subscription, Notification
<1>5. rest \in Seq(Notification) /\ Batch(u) \in Seq(Notification)
    BY <1>1, <1>2 DEF Batch
<1>6. r \in Subscription
    BY ResetContinues DEF Continues, Sound
<1>7. /\ r.next = u.next /\ r.sent = u.sent /\ r.unacked = u.unacked
      /\ r.engine = u.engine /\ r.delivered = u.delivered
    BY <1>1 DEF Subscription, ResetCounters
<1>8. /\ u.next + 1 \in Nat /\ u.unacked + 1 \in Int /\ u.sent \cup {u.next} \in SUBSET Nat
    BY <1>1 DEF Subscription
<1>9. Published(u) = v
    BY <1>7 DEF Published
<1> HIDE DEF rest, last, r
<1>10. v \in Subscription
    BY <1>4, <1>5, <1>6, <1>8 DEF Subscription, SubscriptionState
<1>11. /\ v.next = u.next + 1 /\ v.sent = u.sent \cup {u.next}
       /\ v.engine = u.engine /\ v.state = "NORMAL"
    BY <1>6, <1>7 DEF Subscription
<1>12. /\ v.pending = rest /\ v.items = u.items
       /\ v.produced = u.produced /\ v.delivered = last
    <2>1. r.items = u.items /\ r.produced = u.produced
        BY <1>1 DEF r, Subscription, ResetCounters
    <2> QED
        BY <1>6, <2>1 DEF Subscription
<1> HIDE DEF v
<1>13. u.next \in Nat
    BY <1>1 DEF Subscription
<1>14. Whole(v)
    <2> DEFINE p == u.pending
               K == DataIn(p)
               L == DataIn(rest)
               c == Cardinality(K)
    <2>1. /\ u.produced = u.delivered + c + Len(u.items)
          /\ \A i \in K : p[i].value = u.delivered + Rank(K, i)
          /\ \A i \in 1..Len(u.items) : u.items[i] = u.delivered + c + i
        BY DEF Sound, Whole
    <2>2. p \in Seq(Notification) /\ p # <<>> /\ n \in 1..Len(p) /\ n \in Nat /\ 1 \in 1..Len(p)
        BY <1>1, <1>2
    <2>3. /\ rest \in Seq(Notification)
          /\ \A i \in L : /\ n + i \in K /\ rest[i] = p[n + i]
                          /\ Rank(K, n + i) = Rank(K, n) + Rank(L, i)
          /\ c = Rank(K, n) + Cardinality(L)
        BY <2>2, DataInRest DEF rest
    <2> HIDE DEF p, n
    <2>4. /\ IsFiniteSet(K) /\ K \in SUBSET (Nat \ {0})
          /\ IsFiniteSet(L) /\ Cardinality(L) \in Nat
        BY <2>2, <2>3, DataInIs
    <2>5. Rank(K, n) \in Nat /\ \A i \in L : Rank(L, i) \in Nat
        BY <2>4, PrefixFinite
    <2>6. u.delivered \in Nat /\ Len(u.items) \in Nat
        BY <1>1 DEF Subscription
    <2>7. \/ IsStatus(p[1]) /\ n = 1
          \/ \A i \in 1..n : ~IsStatus(p[i])
        BY <2>2, BatchIsData DEF n, p
    <2>8. last = u.delivered + Rank(K, n)
        <3>1. CASE IsStatus(p[1]) /\ n = 1
            <4>1. 1 \notin K
                BY <3>1 DEF DataIn
            <4>2. \A j \in K : ~(j <= 1)
                BY <2>4, <4>1
            <4>3. Rank(K, n) = 0
                BY <3>1, <4>2, RankOfNone
            <4>4. last = u.delivered
                BY <3>1 DEF last, n, p
            <4> QED
                BY <2>6, <4>3, <4>4
        <3>2. CASE \A i \in 1..n : ~IsStatus(p[i])
            <4>1. n \in 1..n
                BY <2>2
            <4>2. n \in K /\ ~IsStatus(p[n])
                BY <2>2, <3>2, <4>1 DEF DataIn
            <4> QED
                BY <2>1, <4>2 DEF last, n, p
        <3> QED
            BY <2>7, <3>1, <3>2
    <2> HIDE DEF K, L, c
    <2>9. v.produced = v.delivered + Cardinality(L) + Len(v.items)
        BY <1>12, <2>1, <2>3, <2>4, <2>8, <2>5, <2>6
    <2>10. ASSUME NEW i \in L
          PROVE  rest[i].value = last + Rank(L, i)
        <3> DEFINE k == n + i
        <3>1. k \in K /\ rest[i] = p[k] /\ Rank(K, k) = Rank(K, n) + Rank(L, i)
            BY <2>3
        <3> HIDE DEF k
        <3>2. p[k].value = u.delivered + Rank(K, k)
            BY <2>1, <3>1
        <3>3. Rank(L, i) \in Nat
            BY <2>5
        <3> QED
            BY <2>8, <2>5, <2>6, <3>1, <3>2, <3>3
    <2>11. ASSUME NEW i \in 1..Len(u.items)
          PROVE  u.items[i] = last + Cardinality(L) + i
        <3>1. u.items[i] = u.delivered + c + i /\ i \in Nat
            BY <2>1, <2>6
        <3> QED
            BY <2>3, <2>4, <2>8, <2>5, <2>6, <3>1
    <2> QED
        BY <1>12, <2>9, <2>10, <2>11 DEF Whole, L
<1>15. Continues(u, v) /\ Alive(v)
    BY <1>10, <1>11, <1>13, <1>14 DEF Continues, Sound, Alive
<1> QED
    BY <1>5, <1>9, <1>15

\* _sendKeepAliveResponse takes no number.
LEMMA KeptAliveContinues ==
    ASSUME NEW u, Sound(u)
    PROVE  Continues(u, KeptAlive(u))
<1> DEFINE r == ResetCounters(u)
           v == [r EXCEPT !.messageSent = TRUE, !.state = "KEEPALIVE"]
<1>1. Continues(u, r)
    BY ResetContinues
<1>2. Sound(r) /\ r \in Subscription
    BY <1>1 DEF Continues, Sound
<1>3. KeptAlive(u) = v
    BY DEF KeptAlive
<1> HIDE DEF r
<1>4. v \in Subscription
    BY <1>2 DEF Subscription, SubscriptionState
<1>5. /\ v.next = r.next /\ v.sent = r.sent /\ v.engine = r.engine /\ v.state = "KEEPALIVE"
      /\ SameNotifications(r, v)
    BY <1>2 DEF Subscription, SameNotifications
<1> HIDE DEF v
<1>6. Continues(r, v)
    BY <1>2, <1>4, <1>5, ContinuesIf DEF Alive
<1> QED
    BY <1>1, <1>3, <1>6, ContinuesTrans

-----------------------------------------------------------------------------
(***************************************************************************)
(* Transfers.                                                              *)
(***************************************************************************)
\* notifyTransfer makes sure that something is pending.
LEMMA ToldContinues ==
    ASSUME NEW u, Sound(u), NEW st \in Status
    PROVE  Continues(u, Told(u, st)) /\ Told(u, st).pending # <<>>
           /\ Told(u, st).next = u.next
<1> DEFINE p == Append(u.pending, StatusOf(st))
           v == [u EXCEPT !.pending = p]
<1>1. u \in Subscription
    BY DEF Sound
<1>2. StatusOf(st) \in Notification
    BY StatusNotification
<1>3. p \in Seq(Notification) /\ p # <<>>
    BY <1>1, <1>2, SMTT(30) DEF Subscription
<1>4. Told(u, st) = v
    BY DEF Told
<1> HIDE DEF p
<1>5. v \in Subscription
    BY <1>1, <1>3 DEF Subscription
<1>6. /\ v.next = u.next /\ v.sent = u.sent /\ v.pending = p
      /\ v.engine = u.engine /\ v.state = u.state /\ v.items = u.items
      /\ v.produced = u.produced /\ v.delivered = u.delivered
    BY <1>1 DEF Subscription
<1> HIDE DEF v
<1>7. DataIn(p) = DataIn(u.pending) /\ \A i \in DataIn(p) : p[i] = u.pending[i]
    <2> DEFINE old == u.pending
    <2>1. old \in Seq(Notification) /\ StatusOf(st) \in Notification
        BY <1>1, <1>2 DEF Subscription
    <2>2. p = Append(old, StatusOf(st))
        BY DEF p
    <2> HIDE DEF old, p
    <2>3. /\ Len(old) \in Nat /\ DOMAIN old = 1..Len(old) /\ DOMAIN p = 1..(Len(old) + 1)
          /\ \A i \in 1..Len(old) : p[i] = old[i]
          /\ p[Len(old) + 1] = StatusOf(st)
        BY <2>1, <2>2
    <2>4. IsStatus(p[Len(old) + 1])
        BY <2>3 DEF IsStatus, StatusOf
    <2>5. \A i \in 1..(Len(old) + 1) : i \in 1..Len(old) \/ i = Len(old) + 1
        BY <2>3
    <2>6. \A i \in 1..Len(old) : i \in 1..(Len(old) + 1)
        BY <2>3
    <2>7. DataIn(p) = DataIn(old) /\ DataIn(p) \subseteq 1..Len(old)
        BY <2>3, <2>4, <2>5, <2>6 DEF DataIn
    <2> QED
        BY <2>3, <2>7 DEF old
<1>8. Whole(v)
    BY <1>6, <1>7 DEF Sound, Whole
<1> QED
    BY <1>3, <1>4, <1>5, <1>6, <1>8, ContinuesWhole DEF Alive

\* A subscription that moved to another engine is alive and sound there.
LEMMA MovedSound ==
    ASSUME NEW u, Sound(u), Alive(u), NEW d \in Engines
    PROVE  Sound(Moved(u, d)) /\ Alive(Moved(u, d)) /\ Moved(u, d).engine = d
<1>1. u \in Subscription /\ 0 \in 0..(LifeTimeCount - 1)
    BY Constants DEF Sound
<1>2. Moved(u, d) \in Subscription
    BY <1>1 DEF Subscription, Moved
<1>3. /\ Moved(u, d).next = u.next /\ Moved(u, d).sent = u.sent
      /\ Moved(u, d).engine = d /\ Moved(u, d).state = u.state
      /\ SameNotifications(u, Moved(u, d))
    BY <1>1 DEF Subscription, Moved, SameNotifications
<1>4. Whole(Moved(u, d))
    BY <1>3, WholeSame DEF Sound
<1> QED
    BY <1>2, <1>3, <1>4 DEF Sound, Alive

\* resendInitialValues does not revive what is not alive.
LEMMA ResentContinues ==
    ASSUME NEW u, Sound(u), NEW fresh
    PROVE  Continues(u, Resent(u, fresh))
<1> DEFINE v == IF fresh = 1 THEN Notified(u) ELSE u
           w == [v EXCEPT !.keepAlive = MaxKeepAliveCount - 1, !.state = "NORMAL"]
<1>1. Continues(u, u)
    <2>1. u.next \in Nat
        BY DEF Sound, Subscription
    <2> QED
        BY <2>1 DEF Continues
<1>2. Continues(u, v) /\ Sound(v)
    BY <1>1, NotifiedContinues DEF Continues
<1>3. Resent(u, fresh) = Harvest(w)
    BY DEF Resent
<1> HIDE DEF v
<1>4. v \in Subscription /\ MaxKeepAliveCount - 1 \in 0..MaxKeepAliveCount
    BY <1>2, Constants DEF Sound
<1>5. w \in Subscription
    BY <1>4 DEF Subscription, SubscriptionState
<1>6. /\ w.next = v.next /\ w.sent = v.sent /\ w.engine = v.engine /\ w.state = "NORMAL"
      /\ SameNotifications(v, w)
    BY <1>4 DEF Subscription, SameNotifications
<1> HIDE DEF w
<1>7. Continues(v, w) /\ Sound(w)
    BY <1>2, <1>5, <1>6, ContinuesIf DEF Alive, Continues
<1>8. Continues(w, Harvest(w))
    BY <1>7, HarvestContinues
<1> QED
    BY <1>2, <1>3, <1>7, <1>8, ContinuesTrans

-----------------------------------------------------------------------------
(***************************************************************************)
(* Arrays of requests, responses and farewells.                            *)
(***************************************************************************)
\* A response that carries notifications, or none, has its type.
LEMMA ReplyIsResponse ==
    ASSUME NEW r \in Requests, NEW s \in Subs, NEW n \in Nat,
           NEW body \in Seq(Notification)
    PROVE  Reply(r, s, n, body) \in Response
BY DEF Reply, Response

\* Refusing requests answers each of them.
LEMMA FaultsAreResponses ==
    ASSUME NEW q \in Seq(Requests), NEW code \in FaultCode
    PROVE  Faults(q, code) \in Seq(Response) /\ Len(Faults(q, code)) = Len(q)
<1>1. \A i \in 1..Len(q) : [req |-> q[i], result |-> code] \in Response
    BY DEF Response
<1> QED
    BY <1>1 DEF Faults

\* Dropping the first n entries of an array.
LEMMA FromIs ==
    ASSUME NEW S, NEW q \in Seq(S), NEW n \in Nat, n <= Len(q)
    PROVE  /\ From(q, n) \in Seq(S)
           /\ Len(From(q, n)) = Len(q) - n
           /\ \A i \in 1..Len(From(q, n)) : From(q, n)[i] = q[n + i]
BY DEF From

\* An entry of two arrays put together is an entry of one of them.
LEMMA ConcatEntries ==
    ASSUME NEW S, NEW a \in Seq(S), NEW b \in Seq(S)
    PROVE  /\ a \o b \in Seq(S)
           /\ \A i \in 1..Len(a \o b) :
                 \/ \E j \in 1..Len(a) : (a \o b)[i] = a[j]
                 \/ \E j \in 1..Len(b) : (a \o b)[i] = b[j]
<1>1. a \o b \in Seq(S) /\ Len(a \o b) = Len(a) + Len(b)
    OBVIOUS
<1>2. ASSUME NEW i \in 1..Len(a \o b), i > Len(a)
      PROVE  \E j \in 1..Len(b) : (a \o b)[i] = b[j]
    <2>1. i - Len(a) \in 1..Len(b) /\ (a \o b)[i] = b[i - Len(a)]
        BY <1>1, <1>2
    <2> QED
        BY <2>1
<1>3. ASSUME NEW i \in 1..Len(a \o b), i <= Len(a)
      PROVE  \E j \in 1..Len(a) : (a \o b)[i] = a[j]
    <2>1. i \in 1..Len(a) /\ (a \o b)[i] = a[i]
        BY <1>1, <1>3
    <2> QED
        BY <2>1
<1> QED
    BY <1>1, <1>2, <1>3

\* Nothing is left of an array of one.
LEMMA TailOfOne ==
    ASSUME NEW S, NEW s \in Seq(S), Len(s) = 1
    PROVE  Tail(s) = <<>>
<1>1. Tail(s) \in Seq(S) /\ Len(Tail(s)) = 0
    BY HeadTailProperties, EmptySeq
<1> QED
    BY <1>1, EmptySeq

\* Only StatusChangeNotifications are left once the monitored items are gone.
LEMMA StatusesAre ==
    ASSUME NEW p \in Seq(Notification)
    PROVE  /\ Statuses(p) \in Seq(Notification)
           /\ \A k \in 1..Len(Statuses(p)) : Statuses(p)[k].type \in Status
<1> DEFINE K == {i \in DOMAIN p : IsStatus(p[i])}
<1>1. K \in SUBSET (1..Len(p))
    OBVIOUS
<1>2. \A i \in K : p[i].type \in Status
    BY DEF IsStatus
<1>3. Statuses(p) = Pick(p, K)
    BY DEF Statuses
<1> HIDE DEF K
<1>4. /\ Pick(p, K) \in Seq(Notification)
      /\ Len(Pick(p, K)) = Cardinality(K)
      /\ \A k \in 1..Cardinality(K) : \E i \in K : Pick(p, K)[k] = p[i]
    BY <1>1, PickProperties
<1> QED
    BY <1>2, <1>3, <1>4

\* _purge_dangling_subscription leaves no farewell of the subscriptions it is
\* given, and adds none.
LEMMA PurgedIs ==
    ASSUME NEW cl \in Seq(Farewell), NEW gone
    PROVE  /\ Purged(cl, gone) \in Seq(Farewell)
           /\ Len(Purged(cl, gone)) <= Len(cl)
           /\ \A k \in 1..Len(Purged(cl, gone)) :
                 /\ Purged(cl, gone)[k].sub \notin gone
                 /\ \E i \in 1..Len(cl) : Purged(cl, gone)[k] = cl[i]
<1> DEFINE K == {i \in DOMAIN cl : cl[i].sub \notin gone}
<1>1. K \in SUBSET (1..Len(cl))
    OBVIOUS
<1>2. \A i \in K : cl[i].sub \notin gone
    OBVIOUS
<1>3. Purged(cl, gone) = Pick(cl, K)
    BY DEF Purged
<1> HIDE DEF K
<1>4. /\ Pick(cl, K) \in Seq(Farewell)
      /\ Len(Pick(cl, K)) = Cardinality(K)
      /\ Cardinality(K) <= Len(cl)
      /\ \A k \in 1..Cardinality(K) : \E i \in K : Pick(cl, K)[k] = cl[i]
    BY <1>1, PickProperties
<1> QED
    BY <1>1, <1>2, <1>3, <1>4

\* The farewells of a subscription can be counted.
LEMMA BeforeIsNat ==
    ASSUME NEW cl, NEW i \in Nat, NEW s
    PROVE  Before(cl, i, s) \in Nat
<1>1. IsFiniteSet(1..i)
    BY FS_Interval
<1>2. IsFiniteSet({j \in 1..i : cl[j].sub = s})
    BY <1>1, FS_Subset
<1> QED
    BY <1>2, FS_CardinalityType DEF Before

\* #_feed_closed_subscription answers a request with every farewell it feeds.
LEMMA FarewellRepliesAre ==
    ASSUME NEW f, \A s \in Subs : f[s].next \in Nat,
           NEW cl \in Seq(Farewell), NEW q \in Seq(Requests),
           NEW n \in Nat, n <= Len(cl), n <= Len(q)
    PROVE  FarewellReplies(f, cl, q, n) \in Seq(Response)
<1> DEFINE answer(i) == Reply(q[i], cl[i].sub,
                              f[cl[i].sub].next + Before(cl, i - 1, cl[i].sub),
                              <<StatusOf(cl[i].type)>>)
<1>1. ASSUME NEW i \in 1..n
      PROVE  answer(i) \in Response
    <2>1. q[i] \in Requests /\ cl[i] \in Farewell
        OBVIOUS
    <2>2. cl[i].sub \in Subs /\ cl[i].type \in Status
        BY <2>1 DEF Farewell
    <2>3. i - 1 \in Nat
        OBVIOUS
    <2>4. f[cl[i].sub].next + Before(cl, i - 1, cl[i].sub) \in Nat
        BY <2>2, <2>3, BeforeIsNat
    <2>5. <<StatusOf(cl[i].type)>> \in Seq(Notification)
        BY <2>2, StatusNotification
    <2> QED
        BY <2>1, <2>2, <2>4, <2>5, ReplyIsResponse
<1>2. FarewellReplies(f, cl, q, n) = [i \in 1..n |-> answer(i)]
    BY DEF FarewellReplies
<1> QED
    BY <1>1, <1>2

-----------------------------------------------------------------------------
(***************************************************************************)
(* All the subscriptions at once.                                          *)
(***************************************************************************)
\* Farewells take their numbers from the generators of sound subscriptions,
\* and change nothing else.
LEMMA NumberedSound ==
    ASSUME NEW f \in [Subs -> Subscription], \A s \in Subs : Sound(f[s]),
           NEW cl, NEW n \in Nat
    PROVE  /\ Numbered(f, cl, n) \in [Subs -> Subscription]
           /\ \A s \in Subs :
                 /\ Sound(Numbered(f, cl, n)[s])
                 /\ Numbered(f, cl, n)[s].engine = f[s].engine
                 /\ Numbered(f, cl, n)[s].state = f[s].state
<1>1. ASSUME NEW s \in Subs
      PROVE  /\ Sound(Numbered(f, cl, n)[s])
             /\ Numbered(f, cl, n)[s].engine = f[s].engine
             /\ Numbered(f, cl, n)[s].state = f[s].state
    <2> DEFINE u == f[s]
               m == u.next + Before(cl, n, s)
               v == [u EXCEPT !.next = m]
    <2>1. u \in Subscription /\ Sound(u)
        OBVIOUS
    <2>2. u.next \in Nat /\ Before(cl, n, s) \in Nat
        BY <2>1, BeforeIsNat DEF Subscription
    <2>3. m \in Nat /\ m >= u.next
        BY <2>2
    <2>4. Numbered(f, cl, n)[s] = v
        BY DEF Numbered
    <2> HIDE DEF m, u
    <2>5. v \in Subscription
        BY <2>1, <2>3 DEF Subscription
    <2>6. /\ v.next = m /\ v.sent = u.sent /\ v.engine = u.engine /\ v.state = u.state
          /\ SameNotifications(u, v)
        BY <2>1 DEF Subscription, SameNotifications
    <2> HIDE DEF v
    <2>7. Whole(v)
        BY <2>1, <2>6, WholeSame DEF Sound
    <2>8. Sound(v)
        BY <2>1, <2>2, <2>3, <2>5, <2>6, <2>7 DEF Sound
    <2> QED
        BY <2>4, <2>6, <2>8 DEF u
<1>2. Numbered(f, cl, n) = [s \in Subs |-> Numbered(f, cl, n)[s]]
    BY DEF Numbered
<1>3. \A s \in Subs : Numbered(f, cl, n)[s] \in Subscription
    BY <1>1 DEF Sound
<1> QED
    BY <1>1, <1>2, <1>3

\* process_subscriptionAcknowledgements takes numbers from the retransmission
\* queues, and changes nothing else.
LEMMA AcknowledgedSound ==
    ASSUME NEW e, NEW acks,
           sub \in [Subs -> Subscription], \A s \in Subs : Sound(sub[s])
    PROVE  /\ Acknowledged(e, acks) \in [Subs -> Subscription]
           /\ \A s \in Subs :
                 /\ Sound(Acknowledged(e, acks)[s])
                 /\ Acknowledged(e, acks)[s].engine = sub[s].engine
                 /\ Acknowledged(e, acks)[s].state = sub[s].state
                 /\ Acknowledged(e, acks)[s].next = sub[s].next
<1>1. ASSUME NEW s \in Subs
      PROVE  /\ Sound(Acknowledged(e, acks)[s])
             /\ Acknowledged(e, acks)[s].engine = sub[s].engine
             /\ Acknowledged(e, acks)[s].state = sub[s].state
             /\ Acknowledged(e, acks)[s].next = sub[s].next
    <2> DEFINE u == sub[s]
               gone == {n \in u.sent : <<s, n>> \in acks}
               kept == u.sent \ gone
               m == u.unacked - Cardinality(gone)
               v == [u EXCEPT !.sent = kept, !.unacked = m]
    <2>1. u \in Subscription /\ Sound(u)
        OBVIOUS
    <2>2. u.sent \subseteq 1..(u.next - 1) /\ u.next \in Nat /\ u.unacked \in Int
        BY <2>1 DEF Sound, Subscription
    <2>3. gone \subseteq u.sent /\ kept \subseteq u.sent /\ kept \in SUBSET Nat
        BY <2>1 DEF Subscription
    <2>4. IsFiniteSet(1..(u.next - 1))
        BY <2>2, FS_Interval
    <2>5. IsFiniteSet(gone)
        BY <2>2, <2>3, <2>4, FS_Subset
    <2>6. m \in Int
        BY <2>2, <2>5, FS_CardinalityType
    <2>7. Acknowledged(e, acks)[s] = IF u.engine = e THEN v ELSE u
        BY DEF Acknowledged
    <2> HIDE DEF gone, kept, m, u
    <2>8. v \in Subscription
        BY <2>1, <2>3, <2>6 DEF Subscription
    <2>9. /\ v.next = u.next /\ v.sent = kept /\ v.engine = u.engine /\ v.state = u.state
          /\ SameNotifications(u, v)
        BY <2>1 DEF Subscription, SameNotifications
    <2> HIDE DEF v
    <2>10. Whole(v)
        BY <2>1, <2>9, WholeSame DEF Sound
    <2>11. Sound(v)
        BY <2>1, <2>3, <2>8, <2>9, <2>10 DEF Sound
    <2> QED
        BY <2>1, <2>7, <2>9, <2>11 DEF u
<1>2. Acknowledged(e, acks) = [s \in Subs |-> Acknowledged(e, acks)[s]]
    BY DEF Acknowledged
<1>3. \A s \in Subs : Acknowledged(e, acks)[s] \in Subscription
    BY <1>1 DEF Sound
<1> QED
    BY <1>1, <1>2, <1>3

-----------------------------------------------------------------------------
(***************************************************************************)
(* The invariant.                                                          *)
(***************************************************************************)
\* Every subscription is sound, and with an engine exactly while it lives.
SubsInv ==
    /\ sub \in [Subs -> Subscription]
    /\ \A s \in Subs : Sound(sub[s]) /\ (Alive(sub[s]) <=> sub[s].engine # NoEngine)

\* The queues and the farewells of the engines.
EnginesInv ==
    /\ queue \in [Engines -> Seq(Requests)]
    /\ \A e \in Engines : Len(queue[e]) <= MaxPublishRequestInQueue
    /\ closed \in [Engines -> Seq(Farewell)]
    /\ sessionClosed \in [Sessions -> BOOLEAN]
    /\ ClosedDrainsQueue
    /\ queue[Orphan] = <<>>
    /\ \A e \in Sessions : sessionClosed[e] => queue[e] = <<>> /\ closed[e] = <<>>

\* No subscription is with a closed session.
MembersInv ==
    \A s \in Subs : sub[s].engine \in Sessions => ~sessionClosed[sub[s].engine]

\* A farewell names a subscription that was created and is elsewhere now.
FarewellsInv ==
    \A e \in Engines : \A i \in 1..Len(closed[e]) :
        /\ sub[closed[e][i].sub].state # "NONE"
        /\ sub[closed[e][i].sub].engine # e

\* What the handlers keep of subscriptions and engines ...
CoreInv == SubsInv /\ EnginesInv /\ MembersInv /\ FarewellsInv

\* ... and of the event loop and the responses.
LoopInv ==
    /\ immediates \in Seq(Immediate)
    /\ due \in 0..Len(immediates)
    /\ fired \subseteq Subs
    /\ calls \in 0..MaxCalls
    /\ out \in Seq(Response)

\* The inductive invariant.
IInv == CoreInv /\ LoopInv

\* The subscription of a farewell is a subscription.
LEMMA FarewellSubs ==
    ASSUME closed \in [Engines -> Seq(Farewell)], NEW e \in Engines,
           NEW i \in 1..Len(closed[e])
    PROVE  closed[e][i].sub \in Subs
<1>1. closed[e] \in Seq(Farewell)
    OBVIOUS
<1>2. closed[e][i] \in Farewell
    BY <1>1
<1> QED
    BY <1>2 DEF Farewell

\* A live subscription is on an engine.
LEMMA LiveHasEngine ==
    ASSUME SubsInv, NEW s \in Subs, Live(s)
    PROVE  sub[s].engine \in Engines /\ Alive(sub[s]) /\ sub[s] \in Subscription /\ Sound(sub[s])
<1>1. sub[s] \in Subscription /\ Sound(sub[s]) /\ Alive(sub[s])
    BY DEF SubsInv, Live, Alive
<1>2. sub[s].engine \in Engines \cup {NoEngine}
    BY <1>1 DEF Subscription
<1> QED
    BY <1>1, <1>2 DEF SubsInv

\* The subscription ids are finitely many numbers.
LEMMA SubsFacts ==
    /\ IsFiniteSet(Subs)
    /\ \A s \in Subs : s \in Nat /\ s \in Int
<1>1. Subs \subseteq Nat /\ IsFiniteSet(Subs)
    BY PublishingAssumption
<1> QED
    BY <1>1

\* A callback that finds nothing to do.
LEMMA CoreUnchanged ==
    ASSUME CoreInv, UNCHANGED <<sub, queue, closed, sessionClosed>>
    PROVE  CoreInv'
BY DEF CoreInv, SubsInv, EnginesInv, MembersInv, FarewellsInv, ClosedDrainsQueue

-----------------------------------------------------------------------------
(***************************************************************************)
(* Handlers of one subscription.                                           *)
(***************************************************************************)
\* The subscription s becomes v, the requests of its engine w.
OneStep(s, v, w) ==
    /\ Continues(sub[s], v)
    /\ Len(w) <= Len(queue[sub[s].engine])
    /\ sub' = [sub EXCEPT ![s] = v]
    /\ queue' = [queue EXCEPT ![sub[s].engine] = w]

\* The step is one of the subscription s and of the requests of its engine,
\* of which it adds none.
Local(s) == \E v : \E w \in Seq(Requests) : OneStep(s, v, w)

\* How to show that a handler is local.
LEMMA LocalIf ==
    ASSUME NEW s, NEW v, NEW w \in Seq(Requests), Continues(sub[s], v),
           Len(w) <= Len(queue[sub[s].engine]),
           sub' = [sub EXCEPT ![s] = v], queue' = [queue EXCEPT ![sub[s].engine] = w]
    PROVE  Local(s)
BY DEF Local, OneStep

\* A local step of a live subscription keeps the invariant: it moves nothing
\* between engines and no engine gets a request.
LEMMA LocalStep ==
    ASSUME CoreInv, NEW s \in Subs, Live(s), Local(s), UNCHANGED <<closed, sessionClosed>>
    PROVE  CoreInv'
<1> DEFINE e == sub[s].engine
<1>1. e \in Engines /\ Alive(sub[s]) /\ Sound(sub[s])
    BY LiveHasEngine DEF CoreInv
<1>2. PICK v : \E w \in Seq(Requests) : OneStep(s, v, w)
    BY DEF Local
<1>3. PICK w \in Seq(Requests) : OneStep(s, v, w)
    BY <1>2
<1>4. /\ Continues(sub[s], v)
       /\ Len(w) <= Len(queue[e])
       /\ sub' = [sub EXCEPT ![s] = v]
       /\ queue' = [queue EXCEPT ![e] = w]
    BY <1>3 DEF OneStep
<1>5. v \in Subscription /\ Sound(v) /\ v.engine = e /\ Alive(v) /\ v.state # "NONE"
    BY <1>1, <1>4 DEF Continues, Sound, Alive
<1>6. sub \in [Subs -> Subscription]
    BY DEF CoreInv, SubsInv
<1>7. \A t \in Subs : /\ sub'[t].engine = sub[t].engine
                      /\ sub[t].state # "NONE" => sub'[t].state # "NONE"
                      /\ Sound(sub'[t])
                      /\ Alive(sub'[t]) <=> sub'[t].engine # NoEngine
    BY <1>1, <1>4, <1>5, <1>6 DEF CoreInv, SubsInv
<1>8. SubsInv'
    BY <1>4, <1>5, <1>6, <1>7 DEF SubsInv
<1>9. queue \in [Engines -> Seq(Requests)]
    BY DEF CoreInv, EnginesInv
<1>10. /\ queue' \in [Engines -> Seq(Requests)]
      /\ \A d \in Engines : Len(queue'[d]) <= Len(queue[d])
    BY <1>1, <1>4, <1>9
<1>11. \A d \in Engines : queue[d] = <<>> => queue'[d] = <<>>
    BY <1>9, <1>10
<1>12. EnginesInv'
    <2>1. \A d \in Engines : Len(queue'[d]) <= MaxPublishRequestInQueue
        <3>1. MaxPublishRequestInQueue \in Nat
            BY Constants
        <3> QED
            BY <1>9, <1>10, <3>1 DEF CoreInv, EnginesInv
    <2> QED
        BY <1>10, <1>11, <2>1 DEF CoreInv, EnginesInv, ClosedDrainsQueue, Engines
<1>13. MembersInv'
    BY <1>7 DEF CoreInv, MembersInv
<1>14. FarewellsInv'
    <2>1. \A d \in Engines : \A i \in 1..Len(closed[d]) : closed[d][i].sub \in Subs
        BY FarewellSubs DEF CoreInv, EnginesInv
    <2> QED
        BY <1>7, <2>1 DEF CoreInv, FarewellsInv
<1> QED
    BY <1>8, <1>12, <1>13, <1>14 DEF CoreInv

\* _process_keepAlive is local.
LEMMA ProcessKeepAliveLocal ==
    ASSUME CoreInv, NEW s \in Subs, Live(s),
           NEW u, Continues(sub[s], u),
           NEW q \in Seq(Requests), Len(q) <= Len(queue[sub[s].engine]),
           NEW pre \in Seq(Response),
           ProcessKeepAlive(s, u, q, pre)
    PROVE  Local(s) /\ out' \in Seq(Response)
<1> DEFINE e == sub[s].engine
           v == IncreaseKeepAlive(u)
<1>1. e \in Engines /\ Sound(sub[s])
    BY LiveHasEngine DEF CoreInv
<1>2. Continues(sub[s], v)
    BY <1>1, IncreaseContinues, ContinuesTrans DEF Continues
<1>3. Sound(v) /\ v.next \in Nat
    BY <1>2 DEF Continues, Sound, Subscription
<1>4. CASE sub' = [sub EXCEPT ![s] = v] /\ queue' = [queue EXCEPT ![e] = q] /\ out' = pre
    BY <1>2, <1>4, LocalIf
<1>5. CASE /\ q # <<>>
           /\ sub' = [sub EXCEPT ![s] = KeptAlive(v)]
           /\ queue' = [queue EXCEPT ![e] = Tail(q)]
           /\ out' = Append(pre, Reply(Head(q), s, v.next, <<>>))
    <2>1. Continues(sub[s], KeptAlive(v))
        BY <1>1, <1>2, <1>3, KeptAliveContinues, ContinuesTrans
    <2>2. Tail(q) \in Seq(Requests) /\ Len(Tail(q)) <= Len(queue[e]) /\ Head(q) \in Requests
        BY <1>1, <1>5 DEF CoreInv, EnginesInv
    <2>3. <<>> \in Seq(Notification)
        OBVIOUS
    <2>4. Reply(Head(q), s, v.next, <<>>) \in Response
        BY <1>3, <2>2, <2>3, ReplyIsResponse
    <2>5. Local(s)
        BY <1>5, <2>1, <2>2, LocalIf
    <2>6. out' \in Seq(Response)
        BY <1>5, <2>4
    <2> QED
        BY <2>5, <2>6
<1>6. CASE /\ sub' = [sub EXCEPT ![s] = [v EXCEPT !.state = "LATE"]]
           /\ queue' = [queue EXCEPT ![e] = q]
           /\ out' = pre
    <2>1. Continues(sub[s], [v EXCEPT !.state = "LATE"])
        BY <1>1, <1>2, <1>3, StateSet, ContinuesTrans
    <2> QED
        BY <1>6, <2>1, LocalIf
<1> QED
    BY <1>4, <1>5, <1>6 DEF ProcessKeepAlive

\* process_subscription is local; it may have its subscription ticked again.
LEMMA ProcessSubscriptionLocal ==
    ASSUME CoreInv, NEW s \in Subs, Live(s),
           NEW u, Continues(sub[s], u),
           NEW q \in Seq(Requests), q # <<>>, Len(q) <= Len(queue[sub[s].engine]),
           NEW pre \in Seq(Response), NEW im \in Seq(Immediate),
           ProcessSubscription(s, u, q, pre, im)
    PROVE  /\ Local(s) /\ out' \in Seq(Response)
           /\ immediates' \in Seq(Immediate) /\ Len(immediates') >= Len(im)
<1> DEFINE e == sub[s].engine
           v == IF u.pending = <<>> /\ Uncollected(u) THEN Harvest(u) ELSE u
<1>1. e \in Engines /\ Sound(sub[s])
    BY LiveHasEngine DEF CoreInv
<1>2. Continues(sub[s], v)
    BY <1>1, HarvestContinues, ContinuesTrans DEF Continues
<1>3. Sound(v) /\ v.next \in Nat
    BY <1>2 DEF Continues, Sound, Subscription
<1> HIDE DEF v
<1>4. CASE ProcessKeepAlive(s, u, q, pre) /\ immediates' = im
    BY <1>4, ProcessKeepAliveLocal
<1>5. CASE /\ v.pending # <<>>
           /\ sub' = [sub EXCEPT ![s] = Published(v)]
           /\ queue' = [queue EXCEPT ![e] = Tail(q)]
           /\ out' = Append(pre, Reply(Head(q), s, v.next, Batch(v)))
           /\ immediates' = Append(im, <<"tick", s>>)
    <2>1. Continues(sub[s], Published(v)) /\ Batch(v) \in Seq(Notification)
        BY <1>1, <1>2, <1>3, <1>5, PublishedContinues, ContinuesTrans
    <2>2. Tail(q) \in Seq(Requests) /\ Len(Tail(q)) <= Len(queue[e]) /\ Head(q) \in Requests
        BY <1>1 DEF CoreInv, EnginesInv
    <2>3. Reply(Head(q), s, v.next, Batch(v)) \in Response
        BY <1>3, <2>1, <2>2, ReplyIsResponse
    <2>4. <<"tick", s>> \in Immediate
        BY DEF Immediate
    <2>5. Local(s)
        BY <1>5, <2>1, <2>2, LocalIf
    <2>6. out' \in Seq(Response)
        BY <1>5, <2>3
    <2>7. immediates' \in Seq(Immediate) /\ Len(immediates') >= Len(im)
        BY <1>5, <2>4
    <2> QED
        BY <2>5, <2>6, <2>7
<1>6. CASE ProcessKeepAlive(s, v, q, pre) /\ immediates' = im
    BY <1>2, <1>6, ProcessKeepAliveLocal
<1> QED
    BY <1>4, <1>5, <1>6 DEF ProcessSubscription, v

\* terminate and on_close_subscription: the farewells join those that wait,
\* and either no farewell or no request is left.
LEMMA TerminateStep ==
    ASSUME CoreInv, NEW s \in Subs, Live(s),
           NEW u, u.pending \in Seq(Notification), u.next \in Nat, u.next >= 1,
           NEW q \in Seq(Requests), Len(q) <= Len(queue[sub[s].engine]),
           NEW pre \in Seq(Response), NEW deleting,
           Terminate(s, u, q, pre, deleting), UNCHANGED sessionClosed
    PROVE  CoreInv' /\ out' \in Seq(Response)
<1> DEFINE e    == sub[s].engine
           owed == Statuses(u.pending)
           told == [i \in 1..Len(owed) |-> [sub |-> s, type |-> owed[i].type]]
           cl   == closed[e] \o told
           n    == Feedable(cl, q)
           rest == From(q, n)
           dead == [sub EXCEPT ![s] = Dead(u)]
           alone == OwnedBy(e) = {s} /\ Abandoned(From(cl, n), deleting)
<1>1. e \in Engines /\ e # NoEngine
    BY LiveHasEngine, Constants DEF CoreInv
<1>2. /\ sub \in [Subs -> Subscription]
      /\ queue \in [Engines -> Seq(Requests)]
      /\ closed \in [Engines -> Seq(Farewell)]
    BY DEF CoreInv, SubsInv, EnginesInv
<1>3. /\ told \in Seq(Farewell)
      /\ Len(told) \in Nat
      /\ \A i \in 1..Len(told) : told[i].sub = s
    <2>1. /\ owed \in Seq(Notification)
          /\ \A k \in 1..Len(owed) : owed[k].type \in Status
        BY StatusesAre
    <2> HIDE DEF owed
    <2>2. \A i \in 1..Len(owed) : [sub |-> s, type |-> owed[i].type] \in Farewell
        BY <2>1 DEF Farewell
    <2> QED
        BY <2>1, <2>2
<1> HIDE DEF told
<1>4. closed[e] \in Seq(Farewell)
    BY <1>1, <1>2
<1>5. /\ cl \in Seq(Farewell)
      /\ \A i \in 1..Len(cl) : cl[i].sub = s \/ \E j \in 1..Len(closed[e]) : cl[i] = closed[e][j]
    BY <1>3, <1>4, ConcatEntries, SMTT(30)
<1> HIDE DEF cl
<1>6. n \in Nat /\ n <= Len(cl) /\ n <= Len(q) /\ n \in {Len(cl), Len(q)}
    <2>1. Len(cl) \in Nat /\ Len(q) \in Nat
        BY <1>5
    <2> QED
        BY <2>1, AtMostIs DEF Feedable
<1> HIDE DEF n
<1>7. /\ rest \in Seq(Requests) /\ Len(rest) = Len(q) - n
      /\ From(cl, n) \in Seq(Farewell) /\ Len(From(cl, n)) = Len(cl) - n
      /\ \A i \in 1..Len(From(cl, n)) : From(cl, n)[i] = cl[n + i]
    BY <1>5, <1>6, FromIs
<1>8. /\ dead \in [Subs -> Subscription]
      /\ \A t \in Subs : Sound(dead[t])
      /\ dead[s].state = "CLOSED" /\ dead[s].engine = NoEngine
      /\ \A t \in Subs \ {s} : dead[t] = sub[t]
    <2>1. Sound(Dead(u)) /\ Dead(u).state = "CLOSED" /\ Dead(u).engine = NoEngine
        BY DeadSound
    <2>2. Dead(u) \in Subscription
        BY <2>1 DEF Sound
    <2> QED
        BY <1>2, <2>1, <2>2 DEF CoreInv, SubsInv
<1> HIDE DEF dead
<1>9. /\ sub' = Numbered(dead, cl, n)
      /\ closed' = [closed EXCEPT ![e] = From(cl, n)]
      /\ queue' = [queue EXCEPT ![e] = IF alone THEN <<>> ELSE rest]
      /\ out' = pre \o FarewellReplies(dead, cl, q, n) \o
                  (IF alone THEN Faults(rest, "BadNoSubscription") ELSE <<>>)
    BY DEF Terminate, cl, n, dead, told
<1> HIDE DEF alone, rest
<1>10. /\ sub' \in [Subs -> Subscription]
       /\ \A t \in Subs : /\ Sound(sub'[t])
                          /\ sub'[t].engine = dead[t].engine
                          /\ sub'[t].state = dead[t].state
    BY <1>6, <1>8, <1>9, NumberedSound
<1>11. SubsInv'
    <2>1. \A t \in Subs : Alive(sub'[t]) <=> sub'[t].engine # NoEngine
        BY <1>8, <1>10 DEF CoreInv, SubsInv, Alive
    <2> QED
        BY <1>10, <2>1 DEF SubsInv
<1>12. \A t \in Subs : /\ sub[t].state # "NONE" => sub'[t].state # "NONE"
                        /\ \A d \in Engines : sub[t].engine # d => sub'[t].engine # d
    BY <1>8, <1>10, Constants
<1>13. /\ queue' \in [Engines -> Seq(Requests)]
       /\ \A d \in Engines : Len(queue'[d]) <= Len(queue[d])
       /\ \A d \in Engines \ {e} : queue'[d] = queue[d]
    <2>1. (IF alone THEN <<>> ELSE rest) \in Seq(Requests)
        BY <1>7
    <2>2. Len(IF alone THEN <<>> ELSE rest) <= Len(queue[e])
        BY <1>1, <1>2, <1>6, <1>7
    <2> QED
        BY <1>1, <1>2, <1>9, <2>1, <2>2
<1>14. /\ closed' \in [Engines -> Seq(Farewell)]
       /\ closed'[e] = From(cl, n)
       /\ \A d \in Engines \ {e} : closed'[d] = closed[d]
    BY <1>1, <1>2, <1>7, <1>9
<1>15. \A d \in Engines : queue[d] = <<>> => queue'[d] = <<>>
    BY <1>2, <1>13
<1>16. closed'[e] # <<>> => queue'[e] = <<>>
    <2>1. CASE n = Len(q)
        <3>1. rest = <<>>
            BY <1>7, <2>1
        <3> QED
            BY <1>1, <1>2, <1>9, <3>1
    <2>2. CASE n = Len(cl)
        BY <1>7, <1>14, <2>2
    <2> QED
        BY <1>6, <2>1, <2>2
<1>17. EnginesInv'
    <2>1. \A d \in Engines : Len(queue'[d]) <= MaxPublishRequestInQueue
        BY <1>2, <1>13, Constants DEF CoreInv, EnginesInv
    <2>2. ClosedDrainsQueue'
        BY <1>13, <1>14, <1>16 DEF CoreInv, EnginesInv, ClosedDrainsQueue
    <2>3. \A d \in Sessions : sessionClosed'[d] => queue'[d] = <<>> /\ closed'[d] = <<>>
        <3>1. \A d \in Sessions : sessionClosed[d] => d # e
            BY <1>1 DEF CoreInv, MembersInv
        <3> QED
            BY <1>14, <1>15, <3>1 DEF CoreInv, EnginesInv, Engines
    <2> QED
        BY <1>13, <1>14, <1>15, <2>1, <2>2, <2>3 DEF CoreInv, EnginesInv, Engines
<1>18. MembersInv'
    <2>1. NoEngine \notin Sessions
        BY Constants DEF Engines
    <2> QED
        BY <1>8, <1>10, <2>1 DEF CoreInv, MembersInv
<1>19. FarewellsInv'
    <2>1. ASSUME NEW d \in Engines, NEW i \in 1..Len(closed'[d])
          PROVE  \/ closed'[d][i].sub = s
                 \/ \E j \in 1..Len(closed[d]) : closed'[d][i] = closed[d][j]
        <3>1. CASE d = e
            <4>1. i \in 1..Len(From(cl, n)) /\ closed'[d][i] = From(cl, n)[i]
                BY <1>14, <2>1, <3>1
            <4>2. n + i \in 1..Len(cl) /\ closed'[d][i] = cl[n + i]
                BY <1>5, <1>6, <1>7, <4>1
            <4> QED
                BY <1>5, <3>1, <4>2
        <3>2. CASE d # e
            BY <1>14, <2>1, <3>2
        <3> QED
            BY <3>1, <3>2
    <2>2. ASSUME NEW d \in Engines, NEW i \in 1..Len(closed'[d])
          PROVE  /\ sub'[closed'[d][i].sub].state # "NONE"
                 /\ sub'[closed'[d][i].sub].engine # d
        <3>1. CASE closed'[d][i].sub = s
            BY <1>8, <1>10, <3>1, Constants
        <3>2. ASSUME NEW j \in 1..Len(closed[d]), closed'[d][i] = closed[d][j]
              PROVE  /\ sub'[closed'[d][i].sub].state # "NONE"
                     /\ sub'[closed'[d][i].sub].engine # d
            <4>1. closed[d][j].sub \in Subs
                BY <1>2, FarewellSubs
            <4>2. sub[closed[d][j].sub].state # "NONE" /\ sub[closed[d][j].sub].engine # d
                BY DEF CoreInv, FarewellsInv
            <4> QED
                BY <1>12, <3>2, <4>1, <4>2
        <3> QED
            BY <2>1, <3>1, <3>2
    <2> QED
        BY <2>2 DEF FarewellsInv
<1>20. out' \in Seq(Response)
    <2>1. FarewellReplies(dead, cl, q, n) \in Seq(Response)
        <3>1. \A t \in Subs : dead[t].next \in Nat
            BY <1>8 DEF Subscription
        <3> QED
            BY <1>5, <1>6, <3>1, FarewellRepliesAre
    <2>2. Faults(rest, "BadNoSubscription") \in Seq(Response)
        BY <1>7, FaultsAreResponses DEF FaultCode
    <2> QED
        BY <1>9, <2>1, <2>2
<1> QED
    BY <1>11, <1>17, <1>18, <1>19, <1>20 DEF CoreInv

\* The step ends the subscription s, which has the requests q by then.
Ending(s) ==
    \E u : \E q \in Seq(Requests), pre \in Seq(Response) :
        /\ u.pending \in Seq(Notification) /\ u.next \in Nat /\ u.next >= 1
        /\ Len(q) <= Len(queue[sub[s].engine])
        /\ Terminate(s, u, q, pre, FALSE)

\* _tick, from a timer or a setImmediate callback, is local unless it ends the
\* subscription.
LEMMA TickCases ==
    ASSUME CoreInv, NEW s \in Subs, Live(s), NEW late, NEW im \in Seq(Immediate),
           Tick(s, late, im)
    PROVE  \/ Ending(s) /\ immediates' = im
           \/ /\ Local(s) /\ UNCHANGED closed /\ out' \in Seq(Response)
              /\ immediates' \in Seq(Immediate) /\ Len(immediates') >= Len(im)
<1> DEFINE e    == sub[s].engine
           q0   == queue[e]
           gone == {i \in DOMAIN q0 : q0[i] \in late}
           q    == Pick(q0, DOMAIN q0 \ gone)
           pre  == Faults(Pick(q0, gone), "BadTimeout")
           d    == DiscardOldSent(sub[s])
           u    == Aged(d)
           ready == u.pending # <<>> \/ Uncollected(u)
           v    == IF u.pending = <<>> THEN Asked(u) ELSE u
           x    == Told(u, "BadTimeout")
<1>1. e \in Engines /\ Sound(sub[s])
    BY LiveHasEngine DEF CoreInv
<1>2. q0 \in Seq(Requests)
    BY <1>1 DEF CoreInv, EnginesInv
<1> HIDE DEF q0
<1>3. gone \in SUBSET (1..Len(q0)) /\ DOMAIN q0 \ gone \in SUBSET (1..Len(q0))
    BY <1>2
<1>4. q \in Seq(Requests) /\ Len(q) <= Len(q0)
    <2> HIDE DEF gone
    <2> QED
        BY <1>2, <1>3, PickProperties
<1>5. pre \in Seq(Response)
    <2>1. Pick(q0, gone) \in Seq(Requests)
        <3> HIDE DEF gone
        <3> QED
            BY <1>2, <1>3, PickProperties
    <2> QED
        BY <2>1, FaultsAreResponses DEF FaultCode
<1>6. Continues(sub[s], d) /\ Sound(d)
    BY <1>1, DiscardContinues DEF Continues
<1>7. d \in Subscription /\ d.pending \in Seq(Notification) /\ d.next \in Nat /\ d.next >= 1
    BY <1>6 DEF Sound, Subscription
<1> HIDE DEF d
<1>8. /\ u.pending = d.pending /\ u.next = d.next
      /\ ~LifeTimeExpired(u) => Continues(d, u)
    BY <1>6, AgedContinues
<1>9. x.pending \in Seq(Notification) /\ x.next \in Nat /\ x.next >= 1
    <2>1. StatusOf("BadTimeout") \in Notification
        BY StatusNotification DEF Status
    <2>2. x.pending = Append(d.pending, StatusOf("BadTimeout")) /\ x.next = d.next
        <3> HIDE DEF d
        <3>1. x = Told(Aged(d), "BadTimeout")
            OBVIOUS
        <3> HIDE DEF x, u
        <3> QED
            BY <1>7, <3>1, ToldPending
    <2> HIDE DEF x
    <2> QED
        BY <1>7, <2>1, <2>2
<1>10. ~LifeTimeExpired(u) => Continues(sub[s], u) /\ Continues(sub[s], v) /\ Sound(v)
    <2>1. ASSUME ~LifeTimeExpired(u)
          PROVE  Continues(sub[s], u)
        BY <1>1, <1>6, <1>8, <2>1, ContinuesTrans
    <2> HIDE DEF u
    <2>2. ASSUME ~LifeTimeExpired(u)
          PROVE  Continues(sub[s], v) /\ Sound(v)
        <3>1. Sound(u)
            BY <2>1, <2>2 DEF Continues
        <3>2. Continues(sub[s], Asked(u))
            BY <1>1, <2>1, <2>2, <3>1, AskedContinues, ContinuesTrans
        <3>3. Continues(sub[s], v)
            BY <2>1, <2>2, <3>2
        <3> QED
            BY <3>3 DEF Continues
    <2> QED
        BY <2>1, <2>2
<1> HIDE DEF q, pre, gone, v, x
<1>11. \/ Terminate(s, x, q, pre, FALSE) /\ immediates' = im
      \/ /\ ~LifeTimeExpired(u)
         /\ UNCHANGED closed
         /\ \/ /\ sub' = [sub EXCEPT ![s] = [v EXCEPT !.state = "LATE"]]
               /\ queue' = [queue EXCEPT ![e] = q]
               /\ out' = pre
               /\ immediates' = im
            \/ ProcessKeepAlive(s, v, q, pre) /\ immediates' = im
            \/ /\ sub' = [sub EXCEPT ![s] = [v EXCEPT !.keepAlive = 0]]
               /\ queue' = [queue EXCEPT ![e] = q]
               /\ out' = pre
               /\ immediates' = im
            \/ q # <<>> /\ ProcessSubscription(s, v, q, pre, im)
    BY Zenon DEF Tick, u, d, v, q, q0, gone, pre, x
<1> HIDE DEF u
<1>12. CASE Terminate(s, x, q, pre, FALSE) /\ immediates' = im
    BY <1>4, <1>5, <1>9, <1>12 DEF q0, Ending
<1>13. CASE /\ ~LifeTimeExpired(u)
            /\ UNCHANGED closed
            /\ \/ /\ sub' = [sub EXCEPT ![s] = [v EXCEPT !.state = "LATE"]]
                  /\ queue' = [queue EXCEPT ![e] = q]
                  /\ out' = pre
                  /\ immediates' = im
               \/ ProcessKeepAlive(s, v, q, pre) /\ immediates' = im
               \/ /\ sub' = [sub EXCEPT ![s] = [v EXCEPT !.keepAlive = 0]]
                  /\ queue' = [queue EXCEPT ![e] = q]
                  /\ out' = pre
                  /\ immediates' = im
               \/ q # <<>> /\ ProcessSubscription(s, v, q, pre, im)
    <2>1. Continues(sub[s], v) /\ Sound(v)
        BY <1>10, <1>13
    <2> SUFFICES Local(s) /\ out' \in Seq(Response)
                 /\ immediates' \in Seq(Immediate) /\ Len(immediates') >= Len(im)
        BY <1>13
    <2>2. ASSUME /\ sub' = [sub EXCEPT ![s] = [v EXCEPT !.state = "LATE"]]
                 /\ queue' = [queue EXCEPT ![e] = q]
                 /\ out' = pre
                 /\ immediates' = im
          PROVE  Local(s) /\ out' \in Seq(Response)
        <3>1. Continues(sub[s], [v EXCEPT !.state = "LATE"])
            BY <1>1, <2>1, StateSet, ContinuesTrans
        <3> QED
            BY <1>4, <1>5, <2>2, <3>1, LocalIf DEF q0
    <2>3. ASSUME ProcessKeepAlive(s, v, q, pre)
          PROVE  Local(s) /\ out' \in Seq(Response)
        BY <1>4, <1>5, <2>1, <2>3, ProcessKeepAliveLocal DEF q0
    <2>4. ASSUME /\ sub' = [sub EXCEPT ![s] = [v EXCEPT !.keepAlive = 0]]
                 /\ queue' = [queue EXCEPT ![e] = q]
                 /\ out' = pre
          PROVE  Local(s) /\ out' \in Seq(Response)
        <3>1. 0 \in 0..MaxKeepAliveCount
            BY Constants
        <3>2. Continues(sub[s], [v EXCEPT !.keepAlive = 0])
            BY <1>1, <2>1, <3>1, KeepAliveSet, ContinuesTrans
        <3> QED
            BY <1>4, <1>5, <2>4, <3>2, LocalIf DEF q0
    <2>5. ASSUME q # <<>>, ProcessSubscription(s, v, q, pre, im)
          PROVE  /\ Local(s) /\ out' \in Seq(Response)
                 /\ immediates' \in Seq(Immediate) /\ Len(immediates') >= Len(im)
        BY <1>4, <1>5, <2>1, <2>5, ProcessSubscriptionLocal DEF q0
    <2> QED
        BY <1>13, <2>2, <2>3, <2>4, <2>5
<1> QED
    BY <1>11, <1>12, <1>13

\* _tick, from a timer or a setImmediate callback.
LEMMA TickStep ==
    ASSUME CoreInv, NEW s \in Subs, Live(s), NEW late, NEW im \in Seq(Immediate),
           Tick(s, late, im), UNCHANGED sessionClosed
    PROVE  /\ CoreInv' /\ out' \in Seq(Response)
           /\ immediates' \in Seq(Immediate) /\ Len(immediates') >= Len(im)
<1>1. CASE Ending(s) /\ immediates' = im
    <2>1. CoreInv' /\ out' \in Seq(Response)
        <3>1. PICK u : \E q \in Seq(Requests), pre \in Seq(Response) :
                 /\ u.pending \in Seq(Notification) /\ u.next \in Nat /\ u.next >= 1
                 /\ Len(q) <= Len(queue[sub[s].engine])
                 /\ Terminate(s, u, q, pre, FALSE)
            BY <1>1 DEF Ending
        <3>2. PICK q \in Seq(Requests), pre \in Seq(Response) :
                 /\ u.pending \in Seq(Notification) /\ u.next \in Nat /\ u.next >= 1
                 /\ Len(q) <= Len(queue[sub[s].engine])
                 /\ Terminate(s, u, q, pre, FALSE)
            BY <3>1
        <3> QED
            BY <3>2, TerminateStep
    <2> QED
        BY <1>1, <2>1
<1>2. CASE /\ Local(s) /\ UNCHANGED closed /\ out' \in Seq(Response)
           /\ immediates' \in Seq(Immediate) /\ Len(immediates') >= Len(im)
    BY <1>2, LocalStep
<1> QED
    BY <1>1, <1>2, TickCases

\* A handler that changes one live subscription and no engine.
LEMMA OneSubscriptionStep ==
    ASSUME CoreInv, NEW s \in Subs, Live(s), NEW v, Continues(sub[s], v),
           sub' = [sub EXCEPT ![s] = v], UNCHANGED <<queue, closed, sessionClosed>>
    PROVE  CoreInv'
<1> DEFINE e == sub[s].engine
<1>1. e \in Engines /\ queue \in [Engines -> Seq(Requests)]
    BY LiveHasEngine DEF CoreInv, EnginesInv
<1>2. queue[e] \in Seq(Requests) /\ Len(queue[e]) <= Len(queue[e])
    BY <1>1
<1>3. queue' = [queue EXCEPT ![e] = queue[e]]
    BY <1>1
<1>4. Local(s)
    BY <1>2, <1>3, LocalIf
<1> QED
    BY <1>4, LocalStep

-----------------------------------------------------------------------------
(***************************************************************************)
(* Service handlers.                                                       *)
(***************************************************************************)
\* CreateSubscription: no farewell names the new subscription.
LEMMA CreateSubscriptionStep ==
    ASSUME IInv, NEW e \in Sessions, NEW s \in Subs, NEW b \in BOOLEAN,
           CreateSubscription(e, s, b)
    PROVE  IInv'
<1> DEFINE v == Created(e, b)
<1>1. /\ sub[s].state = "NONE" /\ ~sessionClosed[e]
      /\ sub' = [sub EXCEPT ![s] = v] /\ out' = <<>>
      /\ UNCHANGED <<queue, closed, sessionClosed, immediates, due, fired, calls>>
    BY DEF CreateSubscription
<1>2. Sound(v) /\ Alive(v) /\ v.engine = e /\ v \in Subscription
    BY CreatedSound DEF Sound
<1> HIDE DEF v
<1>3. sub \in [Subs -> Subscription] /\ e # NoEngine /\ e \in Engines
    BY Constants DEF IInv, CoreInv, SubsInv, Engines
<1>4. SubsInv'
    BY <1>1, <1>2, <1>3 DEF IInv, CoreInv, SubsInv
<1>5. EnginesInv'
    BY <1>1 DEF IInv, CoreInv, EnginesInv, ClosedDrainsQueue
<1>6. MembersInv'
    BY <1>1, <1>2, <1>3 DEF IInv, CoreInv, MembersInv
<1>7. FarewellsInv'
    <2>1. ASSUME NEW d \in Engines, NEW i \in 1..Len(closed[d])
          PROVE  /\ closed[d][i].sub \in Subs
                 /\ closed[d][i].sub # s
                 /\ sub[closed[d][i].sub].state # "NONE"
                 /\ sub[closed[d][i].sub].engine # d
        BY <1>1, FarewellSubs DEF IInv, CoreInv, FarewellsInv, EnginesInv
    <2>2. \A t \in Subs \ {s} : sub'[t] = sub[t]
        BY <1>1, <1>3
    <2> QED
        BY <1>1, <2>1, <2>2 DEF FarewellsInv
<1>8. LoopInv'
    BY <1>1 DEF IInv, LoopInv
<1> QED
    BY <1>4, <1>5, <1>6, <1>7, <1>8 DEF IInv, CoreInv

\* A step that leaves every subscription where it is, in the state it is in.
LEMMA SameSubscriptions ==
    ASSUME CoreInv, UNCHANGED sessionClosed,
           sub' \in [Subs -> Subscription],
           \A t \in Subs : /\ Sound(sub'[t])
                           /\ sub'[t].engine = sub[t].engine
                           /\ sub'[t].state = sub[t].state
    PROVE  SubsInv' /\ MembersInv'
<1>1. SubsInv'
    BY DEF CoreInv, SubsInv, Alive
<1>2. MembersInv'
    BY DEF CoreInv, MembersInv
<1> QED
    BY <1>1, <1>2

\* _on_PublishRequest: a farewell that waits takes the request, so that none
\* is left beside those that stay.
LEMMA PublishRequestStep ==
    ASSUME IInv, NEW e \in Sessions, NEW r \in Requests, NEW acks,
           PublishRequest(e, r, acks)
    PROVE  IInv'
<1> DEFINE n   == AtMost(1, Len(closed[e]))
           q1  == Append(queue[e], r)
           q   == From(q1, n)
           ack == Acknowledged(e, acks)
           fed == FarewellReplies(sub, closed[e], q1, n)
<1>1. /\ ~sessionClosed[e] /\ Len(immediates) < MaxImmediates
      /\ UNCHANGED <<sessionClosed, fired, calls>>
    BY DEF PublishRequest
<1>2. /\ e \in Engines /\ e # Orphan
      /\ sub \in [Subs -> Subscription] /\ \A s \in Subs : Sound(sub[s])
      /\ queue \in [Engines -> Seq(Requests)] /\ closed \in [Engines -> Seq(Farewell)]
      /\ queue[e] \in Seq(Requests) /\ closed[e] \in Seq(Farewell)
      /\ Len(queue[e]) <= MaxPublishRequestInQueue
    BY Constants DEF IInv, CoreInv, SubsInv, EnginesInv, Engines
<1>3. /\ n \in Nat /\ n <= 1 /\ n <= Len(closed[e]) /\ n \in {1, Len(closed[e])}
      /\ q1 \in Seq(Requests) /\ Len(q1) = Len(queue[e]) + 1 /\ n <= Len(q1)
    <2>1. n \in Nat /\ n <= 1 /\ n <= Len(closed[e]) /\ n \in {1, Len(closed[e])}
        BY <1>2, AtMostIs
    <2> QED
        BY <1>2, <2>1
<1> HIDE DEF n, q1
<1>4. closed[e] # <<>> => n = 1
    <2>1. closed[e] # <<>> => Len(closed[e]) >= 1
        BY <1>2
    <2> QED
        BY <1>2, <2>1 DEF n, AtMost
<1>5. /\ From(closed[e], n) \in Seq(Farewell)
      /\ Len(From(closed[e], n)) = Len(closed[e]) - n
      /\ \A i \in 1..Len(From(closed[e], n)) : From(closed[e], n)[i] = closed[e][n + i]
      /\ q \in Seq(Requests) /\ Len(q) = Len(q1) - n
    BY <1>2, <1>3, FromIs
<1> HIDE DEF q
<1>6. closed[e] # <<>> => queue[e] = <<>>
    BY <1>2 DEF IInv, CoreInv, EnginesInv, ClosedDrainsQueue
<1>7. fed \in Seq(Response)
    <2>1. \A s \in Subs : sub[s].next \in Nat
        BY <1>2 DEF Subscription
    <2> QED
        BY <1>2, <1>3, <2>1, FarewellRepliesAre
<1> HIDE DEF fed
<1>8. sub' = Numbered(ack, closed[e], n) /\ closed' = [closed EXCEPT ![e] = From(@, n)]
    BY DEF PublishRequest, PublishWithoutSubscription, PublishToSubscriptions, n
<1>9. /\ sub' \in [Subs -> Subscription]
      /\ \A t \in Subs : /\ Sound(sub'[t])
                         /\ sub'[t].engine = sub[t].engine
                         /\ sub'[t].state = sub[t].state
    <2>1. /\ ack \in [Subs -> Subscription]
          /\ \A t \in Subs : /\ Sound(ack[t])
                             /\ ack[t].engine = sub[t].engine
                             /\ ack[t].state = sub[t].state
        BY <1>2, AcknowledgedSound
    <2> HIDE DEF ack
    <2> QED
        BY <1>3, <1>8, <2>1, NumberedSound
<1>10. SubsInv' /\ MembersInv'
    BY <1>1, <1>9, SameSubscriptions DEF IInv
<1>11. /\ closed' \in [Engines -> Seq(Farewell)]
       /\ closed'[e] = From(closed[e], n)
       /\ \A d \in Engines \ {e} : closed'[d] = closed[d]
    BY <1>2, <1>5, <1>8
<1>12. FarewellsInv'
    <2>1. ASSUME NEW d \in Engines, NEW i \in 1..Len(closed'[d])
          PROVE  \E j \in 1..Len(closed[d]) : closed'[d][i] = closed[d][j]
        <3>1. CASE d = e
            <4>1. n + i \in 1..Len(closed[e]) /\ closed'[d][i] = closed[e][n + i]
                BY <1>2, <1>3, <1>5, <1>11, <3>1
            <4> QED
                BY <3>1, <4>1
        <3>2. CASE d # e
            BY <1>11, <3>2
        <3> QED
            BY <3>1, <3>2
    <2>2. ASSUME NEW d \in Engines, NEW j \in 1..Len(closed[d])
          PROVE  /\ closed[d][j].sub \in Subs
                 /\ sub[closed[d][j].sub].state # "NONE"
                 /\ sub[closed[d][j].sub].engine # d
        BY <1>2, FarewellSubs DEF IInv, CoreInv, FarewellsInv
    <2>3. ASSUME NEW d \in Engines, NEW i \in 1..Len(closed'[d])
          PROVE  /\ sub'[closed'[d][i].sub].state # "NONE"
                 /\ sub'[closed'[d][i].sub].engine # d
        <3>1. PICK j \in 1..Len(closed[d]) : closed'[d][i] = closed[d][j]
            BY <2>1
        <3>2. /\ closed[d][j].sub \in Subs
              /\ sub[closed[d][j].sub].state # "NONE"
              /\ sub[closed[d][j].sub].engine # d
            BY <2>2
        <3> QED
            BY <1>9, <3>1, <3>2
    <2> QED
        BY <2>3 DEF FarewellsInv
<1>13. /\ queue' \in [Engines -> Seq(Requests)]
       /\ Len(queue'[e]) <= MaxPublishRequestInQueue
       /\ \A d \in Engines \ {e} : queue'[d] = queue[d]
       /\ closed'[e] # <<>> => queue'[e] = <<>>
       /\ out' \in Seq(Response)
       /\ immediates' \in Seq(Immediate)
       /\ due' \in 0..Len(immediates')
    <2>1. CASE PublishWithoutSubscription(e, r, acks)
        <3>1. /\ UNCHANGED <<immediates, due>>
              /\ \/ /\ closed[e] # <<>>
                    /\ queue' = [queue EXCEPT ![e] = Tail(q1)]
                    /\ out' = FarewellReplies(sub, closed[e], q1, 1)
                 \/ /\ closed[e] = <<>>
                    /\ queue' = queue
                    /\ out' = Faults(<<r>>, "BadNoSubscription")
            BY <2>1 DEF PublishWithoutSubscription, q1
        <3>2. immediates' \in Seq(Immediate) /\ due' \in 0..Len(immediates')
            BY <3>1 DEF IInv, LoopInv
        <3>3. CASE /\ closed[e] # <<>>
                   /\ queue' = [queue EXCEPT ![e] = Tail(q1)]
                   /\ out' = FarewellReplies(sub, closed[e], q1, 1)
            <4>1. n = 1
                BY <1>4, <3>3
            <4>2. out' \in Seq(Response)
                BY <1>7, <3>3, <4>1 DEF fed
            <4>3. Tail(q1) = <<>>
                <5>1. queue[e] = <<>>
                    BY <1>6, <3>3
                <5>2. Len(q1) = 1
                    <6>1. Len(queue[e]) = 0
                        BY <5>1
                    <6> QED
                        BY <1>3, <6>1
                <5> QED
                    BY <1>3, <5>2, TailOfOne
            <4>4. queue' = [queue EXCEPT ![e] = <<>>]
                BY <3>3, <4>3
            <4>5. /\ queue' \in [Engines -> Seq(Requests)] /\ queue'[e] = <<>>
                  /\ \A d \in Engines \ {e} : queue'[d] = queue[d]
                BY <1>2, <4>4
            <4> QED
                BY <3>2, <4>2, <4>5, Constants
        <3>4. CASE /\ closed[e] = <<>>
                   /\ queue' = queue
                   /\ out' = Faults(<<r>>, "BadNoSubscription")
            <4>1. <<r>> \in Seq(Requests)
                OBVIOUS
            <4>2. out' \in Seq(Response)
                BY <3>4, <4>1, FaultsAreResponses DEF FaultCode
            <4>3. closed'[e] = <<>>
                BY <1>3, <1>5, <1>11, <3>4
            <4> QED
                BY <1>2, <3>2, <3>4, <4>2, <4>3
        <3> QED
            BY <3>1, <3>3, <3>4
    <2>2. CASE PublishToSubscriptions(e, r, acks)
        <3>1. /\ queue' = [queue EXCEPT ![e] = Kept(q)]
              /\ out' = fed \o Refused(q)
              /\ immediates' = Append(immediates, <<"feed", e>>)
              /\ due' = Len(immediates) + 1
            BY <2>2 DEF PublishToSubscriptions, n, q, q1, fed
        <3>2. immediates' \in Seq(Immediate) /\ due' \in 0..Len(immediates')
            <4>1. <<"feed", e>> \in Immediate
                BY DEF Immediate
            <4>2. immediates \in Seq(Immediate)
                BY DEF IInv, LoopInv
            <4> QED
                BY <3>1, <4>1, <4>2
        <3>3. Kept(q) \in Seq(Requests) /\ Len(Kept(q)) <= MaxPublishRequestInQueue
            BY <1>2, <1>3, <1>5, Constants DEF Kept, Crowded
        <3>4. Refused(q) \in Seq(Response)
            <4>1. CASE Crowded(q)
                <5>1. q # <<>>
                    BY <1>5, <4>1, Constants DEF Crowded
                <5>2. <<Head(q)>> \in Seq(Requests)
                    BY <1>5, <5>1
                <5> QED
                    BY <4>1, <5>2, FaultsAreResponses DEF Refused, FaultCode
            <4>2. CASE ~Crowded(q)
                BY <4>2 DEF Refused
            <4> QED
                BY <4>1, <4>2
        <3>5. closed'[e] # <<>> => Kept(q) = <<>>
            <4>1. ASSUME closed'[e] # <<>>
                  PROVE  Kept(q) = <<>>
                <5>1. closed[e] # <<>> /\ n = 1
                    <6>1. From(closed[e], n) # <<>>
                        BY <1>11, <4>1
                    <6>2. closed[e] # <<>>
                        BY <1>2, <1>3, <1>5, <6>1
                    <6> QED
                        BY <1>4, <6>2
                <5>2. queue[e] = <<>>
                    BY <1>6, <5>1
                <5>3. Len(q) = 0
                    BY <1>2, <1>3, <1>5, <5>1, <5>2
                <5> QED
                    BY <1>5, <5>3, Constants DEF Kept, Crowded
            <4> QED
                BY <4>1
        <3>6. out' \in Seq(Response)
            BY <1>7, <3>1, <3>4
        <3> QED
            BY <1>2, <3>1, <3>2, <3>3, <3>5, <3>6
    <2> QED
        BY <2>1, <2>2 DEF PublishRequest
<1>14. EnginesInv'
    <2>1. ClosedDrainsQueue'
        BY <1>2, <1>11, <1>13 DEF IInv, CoreInv, EnginesInv, ClosedDrainsQueue
    <2>2. \A d \in Sessions : sessionClosed'[d] => queue'[d] = <<>> /\ closed'[d] = <<>>
        BY <1>1, <1>11, <1>13 DEF IInv, CoreInv, EnginesInv, Engines
    <2>3. \A d \in Engines : Len(queue'[d]) <= MaxPublishRequestInQueue
        BY <1>2, <1>13 DEF IInv, CoreInv, EnginesInv
    <2>4. queue'[Orphan] = <<>>
        BY <1>2, <1>13 DEF IInv, CoreInv, EnginesInv, Engines
    <2> QED
        BY <1>1, <1>11, <1>13, <2>1, <2>2, <2>3, <2>4 DEF IInv, CoreInv, EnginesInv
<1>15. LoopInv'
    BY <1>1, <1>13 DEF IInv, LoopInv
<1> QED
    BY <1>10, <1>12, <1>14, <1>15 DEF IInv, CoreInv

\* The service calls on a subscription leave the event loop alone.
LEMMA CalledLoop ==
    ASSUME IInv, NEW s, Called(s)
    PROVE  LoopInv'
BY Constants, PublishingAssumption DEF IInv, LoopInv, Called

\* _apply_on_Subscription
LEMMA CallOnSubscriptionStep ==
    ASSUME IInv, NEW s \in Subs, CallOnSubscription(s)
    PROVE  IInv'
<1>1. Called(s) /\ Live(s) /\ UNCHANGED <<queue, closed, sessionClosed>>
    BY DEF CallOnSubscription, Called
<1>2. Continues(sub[s], ResetCounters(sub[s]))
    BY <1>1, LiveHasEngine, ResetContinues DEF IInv, CoreInv
<1>3. sub' = [sub EXCEPT ![s] = ResetCounters(sub[s])]
    BY DEF CallOnSubscription
<1>4. CoreInv'
    BY <1>1, <1>2, <1>3, OneSubscriptionStep DEF IInv
<1> QED
    BY <1>1, <1>4, CalledLoop DEF IInv

\* DeleteMonitoredItems
LEMMA DeleteMonitoredItemsStep ==
    ASSUME IInv, NEW s \in Subs, DeleteMonitoredItems(s)
    PROVE  IInv'
<1> DEFINE r == ResetCounters(sub[s])
           p == Statuses(sub[s].pending)
           n == sub[s].produced
           v == [r EXCEPT !.items = <<>>, !.pending = p, !.delivered = n]
<1>1. Called(s) /\ Live(s) /\ UNCHANGED <<queue, closed, sessionClosed>>
    BY DEF DeleteMonitoredItems, Called
<1>2. Sound(sub[s]) /\ sub[s] \in Subscription
    BY <1>1, LiveHasEngine DEF IInv, CoreInv
<1>3. Continues(sub[s], r) /\ r.produced = n
    BY <1>2, ResetContinues DEF ResetCounters, Subscription
<1>4. sub' = [sub EXCEPT ![s] = v]
    BY DEF DeleteMonitoredItems, ItemsDeleted
<1>5. Sound(r) /\ r \in Subscription
    BY <1>3 DEF Continues, Sound
<1>6. sub[s].pending \in Seq(Notification) /\ n \in Nat /\ <<>> \in Seq(Nat)
    BY <1>2 DEF Subscription
<1>7. p \in Seq(Notification) /\ DataIn(p) = {}
    BY <1>6, StatusesAre DEF DataIn, IsStatus
<1> HIDE DEF p, n, r
<1>8. v \in Subscription
    BY <1>5, <1>6, <1>7 DEF Subscription
<1>9. /\ v.next = r.next /\ v.sent = r.sent /\ v.engine = r.engine /\ v.state = r.state
      /\ v.items = <<>> /\ v.pending = p /\ v.produced = r.produced /\ v.delivered = n
    BY <1>5 DEF Subscription
<1> HIDE DEF v
<1>10. Whole(v)
    BY <1>3, <1>6, <1>7, <1>9, WholeEmpty
<1>11. Continues(r, v)
    BY <1>5, <1>8, <1>9, <1>10, ContinuesWhole DEF Alive
<1>12. CoreInv'
    BY <1>1, <1>2, <1>3, <1>4, <1>11, ContinuesTrans, OneSubscriptionStep DEF IInv
<1> QED
    BY <1>1, <1>12, CalledLoop DEF IInv

\* ModifySubscription
LEMMA ModifySubscriptionStep ==
    ASSUME IInv, NEW s \in Subs, ModifySubscription(s)
    PROVE  IInv'
<1> DEFINE u == sub[s]
           v == [u EXCEPT !.lifeTime = 0, !.keepAlive = MaxKeepAliveCount - 1]
<1>1. Called(s) /\ Live(s) /\ UNCHANGED <<queue, closed, sessionClosed>>
    BY DEF ModifySubscription, Called
<1>2. Sound(u) /\ u \in Subscription
    BY <1>1, LiveHasEngine DEF IInv, CoreInv
<1>3. MaxKeepAliveCount - 1 \in 0..MaxKeepAliveCount /\ 0 \in 0..(LifeTimeCount - 1)
    BY Constants
<1>4. sub' = [sub EXCEPT ![s] = v]
    BY DEF ModifySubscription
<1> HIDE DEF u
<1>5. v \in Subscription
    BY <1>2, <1>3 DEF Subscription
<1>6. /\ v.next = u.next /\ v.sent = u.sent /\ v.engine = u.engine /\ v.state = u.state
      /\ SameNotifications(u, v)
    BY <1>2 DEF Subscription, SameNotifications
<1> HIDE DEF v
<1>7. Continues(u, v)
    BY <1>2, <1>5, <1>6, ContinuesIf DEF Alive
<1>8. CoreInv'
    BY <1>1, <1>4, <1>7, OneSubscriptionStep DEF IInv, u
<1> QED
    BY <1>1, <1>8, CalledLoop DEF IInv

\* SetPublishingMode
LEMMA SetPublishingModeStep ==
    ASSUME IInv, NEW s \in Subs, NEW b \in BOOLEAN, SetPublishingMode(s, b)
    PROVE  IInv'
<1> DEFINE u == sub[s]
           st == IF b THEN u.state ELSE "NORMAL"
           v == [u EXCEPT !.enabled = b, !.lifeTime = 0, !.state = st]
<1>1. Called(s) /\ Live(s) /\ UNCHANGED <<queue, closed, sessionClosed>>
    BY DEF SetPublishingMode, Called
<1>2. Sound(u) /\ u \in Subscription
    BY <1>1, LiveHasEngine DEF IInv, CoreInv
<1>3. st \in SubscriptionState /\ 0 \in 0..(LifeTimeCount - 1) /\ (Alive(u) => st \notin {"NONE", "CLOSED"})
    BY <1>2, Constants DEF Subscription, SubscriptionState, Alive
<1>4. sub' = [sub EXCEPT ![s] = v]
    BY DEF SetPublishingMode, ModeSet
<1> HIDE DEF u, st
<1>5. v \in Subscription
    BY <1>2, <1>3 DEF Subscription
<1>6. /\ v.next = u.next /\ v.sent = u.sent /\ v.engine = u.engine /\ v.state = st
      /\ SameNotifications(u, v)
    BY <1>2 DEF Subscription, SameNotifications
<1> HIDE DEF v
<1>7. Continues(u, v)
    BY <1>2, <1>3, <1>5, <1>6, ContinuesIf DEF Alive
<1>8. CoreInv'
    BY <1>1, <1>4, <1>7, OneSubscriptionStep DEF IInv, u
<1> QED
    BY <1>1, <1>8, CalledLoop DEF IInv

\* DeleteSubscriptions
LEMMA DeleteSubscriptionStep ==
    ASSUME IInv, NEW s \in Subs, DeleteSubscription(s)
    PROVE  IInv'
<1> DEFINE e == sub[s].engine
           deleting == e # Orphan
<1>1. /\ Live(s)
      /\ Terminate(s, sub[s], queue[e], <<>>, deleting)
      /\ UNCHANGED <<sessionClosed, immediates, due, fired, calls>>
    BY DEF DeleteSubscription
<1>2. e \in Engines /\ Sound(sub[s])
    BY <1>1, LiveHasEngine DEF IInv, CoreInv
<1>3. queue[e] \in Seq(Requests) /\ Len(queue[e]) <= Len(queue[e])
    BY <1>2 DEF IInv, CoreInv, EnginesInv
<1>4. sub[s].pending \in Seq(Notification) /\ sub[s].next \in Nat /\ sub[s].next >= 1
    BY <1>2 DEF Sound, Subscription
<1>5. <<>> \in Seq(Response)
    OBVIOUS
<1> HIDE DEF deleting
<1>6. CoreInv' /\ out' \in Seq(Response)
    BY <1>1, <1>3, <1>4, <1>5, TerminateStep DEF IInv
<1>7. LoopInv'
    BY <1>1, <1>6 DEF IInv, LoopInv
<1> QED
    BY <1>6, <1>7 DEF IInv

\* TransferSubscriptions: the engine that had no request keeps the farewell,
\* the engine that takes the subscription loses those of its former stay.
LEMMA TransferSubscriptionStep ==
    ASSUME IInv, NEW s \in Subs, NEW d \in Sessions, NEW resend \in BOOLEAN, NEW fresh,
           TransferSubscription(s, d, resend, fresh)
    PROVE  IInv'
<1> DEFINE e == sub[s].engine
           arrived(u) == IF resend THEN Resent(Moved(u, d), fresh) ELSE Moved(u, d)
           swept == [closed EXCEPT ![d] = Purged(@, {s})]
           left  == [sub |-> s, type |-> "GoodSubscriptionTransferred"]
           told  == Transferring(sub[s])
<1>1. /\ Live(s) /\ ~sessionClosed[d] /\ e # d
      /\ calls < MaxCalls /\ calls' = calls + 1
      /\ UNCHANGED <<sessionClosed, immediates, due, fired>>
    BY DEF TransferSubscription
<1>2. \/ /\ queue[e] # <<>>
         /\ sub' = [sub EXCEPT ![s] = arrived(Published(told))]
         /\ queue' = [queue EXCEPT ![e] = Tail(queue[e])]
         /\ closed' = swept
         /\ out' = <<Reply(Head(queue[e]), s, sub[s].next, Batch(told))>>
      \/ /\ queue[e] = <<>>
         /\ sub' = [sub EXCEPT ![s] = arrived(sub[s])]
         /\ queue' = queue
         /\ closed' = [swept EXCEPT ![e] = Append(swept[e], left)]
         /\ out' = <<>>
    BY DEF TransferSubscription
<1>3. e \in Engines /\ Alive(sub[s]) /\ sub[s] \in Subscription /\ Sound(sub[s])
    BY <1>1, LiveHasEngine DEF IInv, CoreInv
<1>4. /\ d \in Engines /\ d # NoEngine /\ d # Orphan
      /\ sub \in [Subs -> Subscription]
      /\ queue \in [Engines -> Seq(Requests)] /\ closed \in [Engines -> Seq(Farewell)]
      /\ \A c \in Engines : Len(queue[c]) <= MaxPublishRequestInQueue
    BY Constants DEF IInv, CoreInv, SubsInv, EnginesInv, Engines
<1>5. ASSUME NEW u, Sound(u), Alive(u)
      PROVE  Sound(arrived(u)) /\ Alive(arrived(u)) /\ arrived(u).engine = d
    <2>1. Sound(Moved(u, d)) /\ Alive(Moved(u, d)) /\ Moved(u, d).engine = d
        BY <1>4, <1>5, MovedSound
    <2>2. Continues(Moved(u, d), Resent(Moved(u, d), fresh))
        BY <2>1, ResentContinues
    <2> QED
        BY <2>1, <2>2 DEF Continues
<1> HIDE DEF arrived
<1>6. /\ Continues(sub[s], told) /\ told.pending # <<>> /\ Sound(told)
    BY <1>3, ToldContinues DEF Transferring, Status, Continues
<1> HIDE DEF told
<1>7. /\ Sound(Published(told)) /\ Alive(Published(told)) /\ Batch(told) \in Seq(Notification)
    BY <1>6, PublishedContinues DEF Continues
<1>8. PICK v : Sound(v) /\ Alive(v) /\ v.engine = d /\ sub' = [sub EXCEPT ![s] = v]
    <2>1. CASE sub' = [sub EXCEPT ![s] = arrived(Published(told))]
        BY <1>5, <1>7, <2>1
    <2>2. CASE sub' = [sub EXCEPT ![s] = arrived(sub[s])]
        BY <1>3, <1>5, <2>2
    <2> QED
        BY <1>2, <2>1, <2>2
<1>9. v \in Subscription /\ sub'[s] = v /\ \A t \in Subs \ {s} : sub'[t] = sub[t]
    BY <1>4, <1>8 DEF Sound
<1>10. SubsInv'
    BY <1>4, <1>8, <1>9 DEF IInv, CoreInv, SubsInv
<1>11. MembersInv'
    BY <1>1, <1>8, <1>9 DEF IInv, CoreInv, MembersInv
<1>12. /\ swept \in [Engines -> Seq(Farewell)]
       /\ swept[d] = Purged(closed[d], {s})
       /\ \A c \in Engines \ {d} : swept[c] = closed[c]
    <2>1. Purged(closed[d], {s}) \in Seq(Farewell)
        BY <1>4, PurgedIs
    <2> QED
        BY <1>4, <2>1
<1> HIDE DEF swept
<1>13. \A c \in Engines : swept[c] # <<>> => closed[c] # <<>>
    <2>1. closed[d] = <<>> => swept[d] = <<>>
        <3>1. Purged(closed[d], {s}) \in Seq(Farewell) /\ Len(Purged(closed[d], {s})) <= Len(closed[d])
            BY <1>4, PurgedIs
        <3> QED
            BY <1>12, <3>1
    <2> QED
        BY <1>12, <2>1
<1>14. ASSUME NEW c \in Engines, NEW i \in 1..Len(swept[c])
       PROVE  /\ swept[c][i].sub \in Subs
              /\ sub[swept[c][i].sub].state # "NONE"
              /\ sub[swept[c][i].sub].engine # c
              /\ c = d => swept[c][i].sub # s
    <2>1. ASSUME NEW j \in 1..Len(closed[c])
          PROVE  /\ closed[c][j].sub \in Subs
                 /\ sub[closed[c][j].sub].state # "NONE"
                 /\ sub[closed[c][j].sub].engine # c
        BY <1>4, FarewellSubs DEF IInv, CoreInv, FarewellsInv
    <2>2. CASE c # d
        BY <1>12, <2>1, <2>2
    <2>3. CASE c = d
        <3>1. /\ swept[c][i].sub \notin {s}
              /\ \E j \in 1..Len(closed[c]) : swept[c][i] = closed[c][j]
            <4>1. closed[d] \in Seq(Farewell) /\ i \in 1..Len(Purged(closed[d], {s}))
                BY <1>4, <1>12, <2>3
            <4>2. /\ Purged(closed[d], {s})[i].sub \notin {s}
                  /\ \E j \in 1..Len(closed[d]) : Purged(closed[d], {s})[i] = closed[d][j]
                <5> DEFINE cl == closed[d]
                           g  == {s}
                <5>1. cl \in Seq(Farewell) /\ i \in 1..Len(Purged(cl, g))
                    BY <4>1
                <5> HIDE DEF cl, g
                <5>2. /\ Purged(cl, g)[i].sub \notin g
                      /\ \E j \in 1..Len(cl) : Purged(cl, g)[i] = cl[j]
                    BY <5>1, PurgedIs
                <5> QED
                    BY <5>2 DEF cl, g
            <4> QED
                BY <1>12, <2>3, <4>2
        <3> QED
            BY <2>1, <3>1
    <2> QED
        BY <2>2, <2>3
<1>15. ASSUME NEW c \in Engines, NEW t \in Subs, sub[t].state # "NONE",
              sub[t].engine # c, c = d => t # s
       PROVE  sub'[t].state # "NONE" /\ sub'[t].engine # c
    BY <1>8, <1>9, <1>15 DEF Alive
<1>16. ASSUME /\ queue[e] # <<>>
              /\ queue' = [queue EXCEPT ![e] = Tail(queue[e])]
              /\ closed' = swept
              /\ out' = <<Reply(Head(queue[e]), s, sub[s].next, Batch(told))>>
       PROVE  FarewellsInv' /\ EnginesInv' /\ out' \in Seq(Response)
    <2>1. FarewellsInv'
        BY <1>14, <1>15, <1>16 DEF FarewellsInv
    <2>2. /\ queue[e] \in Seq(Requests) /\ Tail(queue[e]) \in Seq(Requests)
          /\ Len(Tail(queue[e])) <= Len(queue[e]) /\ Head(queue[e]) \in Requests
        BY <1>3, <1>4, <1>16
    <2>3. /\ queue' \in [Engines -> Seq(Requests)]
          /\ \A c \in Engines : Len(queue'[c]) <= Len(queue[c])
        BY <1>3, <1>4, <1>16, <2>2
    <2>4. EnginesInv'
        <3>1. \A c \in Engines : queue[c] = <<>> => queue'[c] = <<>>
            BY <1>4, <2>3
        <3>2. \A c \in Engines : Len(queue'[c]) <= MaxPublishRequestInQueue
            BY <1>4, <2>3, Constants
        <3>3. ClosedDrainsQueue'
            BY <1>13, <1>16, <3>1 DEF IInv, CoreInv, EnginesInv, ClosedDrainsQueue
        <3>4. \A c \in Sessions : sessionClosed'[c] => queue'[c] = <<>> /\ closed'[c] = <<>>
            BY <1>1, <1>13, <1>16, <3>1 DEF IInv, CoreInv, EnginesInv, Engines
        <3>5. queue'[Orphan] = <<>>
            BY <3>1 DEF IInv, CoreInv, EnginesInv, Engines
        <3> QED
            BY <1>1, <1>12, <1>16, <2>3, <3>2, <3>3, <3>4, <3>5 DEF IInv, CoreInv, EnginesInv
    <2>5. out' \in Seq(Response)
        <3>1. sub[s].next \in Nat
            BY <1>3 DEF Subscription
        <3>2. Reply(Head(queue[e]), s, sub[s].next, Batch(told)) \in Response
            BY <1>7, <2>2, <3>1, ReplyIsResponse
        <3> QED
            BY <1>16, <3>2
    <2> QED
        BY <2>1, <2>4, <2>5
<1>17. ASSUME /\ queue[e] = <<>>
              /\ queue' = queue
              /\ closed' = [swept EXCEPT ![e] = Append(swept[e], left)]
              /\ out' = <<>>
       PROVE  FarewellsInv' /\ EnginesInv' /\ out' \in Seq(Response)
    <2>1. left \in Farewell /\ left.sub = s
        BY DEF Farewell, Status
    <2> HIDE DEF left
    <2>2. /\ swept[e] \in Seq(Farewell)
          /\ Append(swept[e], left) \in Seq(Farewell)
          /\ Len(Append(swept[e], left)) = Len(swept[e]) + 1
          /\ Append(swept[e], left)[Len(swept[e]) + 1] = left
          /\ \A i \in 1..Len(swept[e]) : Append(swept[e], left)[i] = swept[e][i]
        BY <1>3, <1>12, <2>1
    <2>3. /\ closed' \in [Engines -> Seq(Farewell)]
          /\ closed'[e] = Append(swept[e], left)
          /\ \A c \in Engines \ {e} : closed'[c] = swept[c]
        BY <1>3, <1>12, <1>17, <2>2
    <2>4. FarewellsInv'
        <3>1. ASSUME NEW c \in Engines, NEW i \in 1..Len(closed'[c])
              PROVE  /\ sub'[closed'[c][i].sub].state # "NONE"
                     /\ sub'[closed'[c][i].sub].engine # c
            <4>1. CASE c # e
                BY <1>14, <1>15, <2>3, <4>1
            <4>2. CASE c = e /\ i <= Len(swept[e])
                <5>1. i \in 1..Len(swept[c]) /\ closed'[c][i] = swept[c][i]
                    BY <2>2, <2>3, <4>2
                <5> QED
                    BY <1>14, <1>15, <5>1
            <4>3. CASE c = e /\ i > Len(swept[e])
                <5>1. i = Len(swept[e]) + 1
                    BY <2>2, <2>3, <4>3
                <5>2. closed'[c][i].sub = s
                    BY <2>1, <2>2, <2>3, <4>3, <5>1
                <5>3. sub'[s].state # "NONE" /\ sub'[s].engine # e
                    BY <1>1, <1>8, <1>9 DEF Alive
                <5> QED
                    BY <4>3, <5>2, <5>3
            <4> QED
                BY <2>2, <2>3, <4>1, <4>2, <4>3
        <3> QED
            BY <3>1 DEF FarewellsInv
    <2>5. EnginesInv'
        <3>1. ClosedDrainsQueue'
            BY <1>13, <1>17, <2>3 DEF IInv, CoreInv, EnginesInv, ClosedDrainsQueue
        <3>2. \A c \in Sessions : sessionClosed'[c] => queue'[c] = <<>> /\ closed'[c] = <<>>
            <4>1. \A c \in Sessions : sessionClosed[c] => c # e
                BY <1>3 DEF IInv, CoreInv, MembersInv
            <4> QED
                BY <1>1, <1>13, <1>17, <2>3, <4>1 DEF IInv, CoreInv, EnginesInv, Engines
        <3> QED
            BY <1>1, <1>17, <2>3, <3>1, <3>2 DEF IInv, CoreInv, EnginesInv
    <2>6. out' \in Seq(Response)
        BY <1>17
    <2> QED
        BY <2>4, <2>5, <2>6
<1>18. FarewellsInv' /\ EnginesInv' /\ out' \in Seq(Response)
    BY <1>2, <1>16, <1>17
<1>19. LoopInv'
    <2>1. calls' \in 0..MaxCalls
        BY <1>1, PublishingAssumption DEF IInv, LoopInv
    <2> QED
        BY <1>1, <1>18, <2>1 DEF IInv, LoopInv
<1> QED
    BY <1>10, <1>11, <1>18, <1>19 DEF IInv, CoreInv

\* CloseSession with deleteSubscriptions: the farewells go with the engine.
LEMMA CloseSessionAndSubscriptionsStep ==
    ASSUME IInv, NEW e \in Sessions, CloseSessionAndSubscriptions(e)
    PROVE  IInv'
<1>1. /\ sessionClosed' = [sessionClosed EXCEPT ![e] = TRUE]
      /\ sub' = [s \in Subs |-> IF sub[s].engine = e THEN Dead(sub[s]) ELSE sub[s]]
      /\ queue' = [queue EXCEPT ![e] = <<>>]
      /\ closed' = [closed EXCEPT ![e] = <<>>]
      /\ out' = Faults(queue[e], "BadSessionClosed")
      /\ UNCHANGED <<immediates, due, fired, calls>>
    BY DEF CloseSessionAndSubscriptions
<1>2. /\ e \in Engines /\ e # NoEngine /\ e # Orphan
      /\ sub \in [Subs -> Subscription] /\ \A s \in Subs : Sound(sub[s])
      /\ queue \in [Engines -> Seq(Requests)] /\ closed \in [Engines -> Seq(Farewell)]
      /\ sessionClosed \in [Sessions -> BOOLEAN]
    BY Constants DEF IInv, CoreInv, SubsInv, EnginesInv, Engines
<1>3. \A s \in Subs : /\ Sound(Dead(sub[s])) /\ Dead(sub[s]) \in Subscription
                      /\ Dead(sub[s]).state = "CLOSED" /\ Dead(sub[s]).engine = NoEngine
    <2>1. \A s \in Subs : sub[s].next \in Nat /\ sub[s].next >= 1
        BY <1>2 DEF Sound, Subscription
    <2> QED
        BY <2>1, DeadSound DEF Sound
<1>4. \A s \in Subs : \/ /\ sub[s].engine = e /\ Sound(sub'[s]) /\ sub'[s] \in Subscription
                         /\ sub'[s].state = "CLOSED" /\ sub'[s].engine = NoEngine
                      \/ sub[s].engine # e /\ sub'[s] = sub[s]
    BY <1>1, <1>3
<1>5. SubsInv'
    <2>1. sub' \in [Subs -> Subscription]
        BY <1>1, <1>2, <1>3
    <2>2. \A s \in Subs : Sound(sub'[s]) /\ (Alive(sub'[s]) <=> sub'[s].engine # NoEngine)
        BY <1>2, <1>4 DEF IInv, CoreInv, SubsInv, Alive
    <2> QED
        BY <2>1, <2>2 DEF SubsInv
<1>6. MembersInv'
    <2>1. NoEngine \notin Sessions
        BY Constants DEF Engines
    <2>2. \A d \in Sessions \ {e} : sessionClosed'[d] = sessionClosed[d]
        BY <1>1, <1>2
    <2> QED
        BY <1>4, <2>1, <2>2 DEF IInv, CoreInv, MembersInv
<1>7. /\ queue' \in [Engines -> Seq(Requests)] /\ closed' \in [Engines -> Seq(Farewell)]
      /\ sessionClosed' \in [Sessions -> BOOLEAN]
      /\ queue'[e] = <<>> /\ closed'[e] = <<>>
      /\ \A d \in Engines \ {e} : queue'[d] = queue[d] /\ closed'[d] = closed[d]
      /\ \A d \in Sessions \ {e} : sessionClosed'[d] = sessionClosed[d]
    BY <1>1, <1>2
<1>8. EnginesInv'
    <2>1. \A d \in Engines : Len(queue'[d]) <= MaxPublishRequestInQueue
        <3>1. Len(queue'[e]) = 0 /\ \A d \in Engines : Len(queue[d]) <= MaxPublishRequestInQueue
            BY <1>7 DEF IInv, CoreInv, EnginesInv
        <3>2. \A d \in Engines \ {e} : queue'[d] = queue[d]
            BY <1>7
        <3>3. MaxPublishRequestInQueue \in Nat
            BY Constants
        <3> QED
            BY <3>1, <3>2, <3>3
    <2>2. ClosedDrainsQueue'
        BY <1>7 DEF IInv, CoreInv, EnginesInv, ClosedDrainsQueue
    <2>3. \A d \in Sessions : sessionClosed'[d] => queue'[d] = <<>> /\ closed'[d] = <<>>
        BY <1>7 DEF IInv, CoreInv, EnginesInv, Engines
    <2>4. queue'[Orphan] = <<>>
        BY <1>2, <1>7 DEF IInv, CoreInv, EnginesInv, Engines
    <2> QED
        BY <1>7, <2>1, <2>2, <2>3, <2>4 DEF EnginesInv
<1>9. FarewellsInv'
    <2>1. ASSUME NEW d \in Engines, d # e, NEW i \in 1..Len(closed[d])
          PROVE  /\ closed[d][i].sub \in Subs
                 /\ sub[closed[d][i].sub].state # "NONE"
                 /\ sub[closed[d][i].sub].engine # d
        BY <1>2, FarewellSubs DEF IInv, CoreInv, FarewellsInv
    <2>2. \A t \in Subs : /\ sub[t].state # "NONE" => sub'[t].state # "NONE"
                          /\ \A d \in Engines : sub[t].engine # d => sub'[t].engine # d
        BY <1>4, Constants
    <2>3. \A i \in 1..Len(closed'[e]) : FALSE
        BY <1>7
    <2>4. ASSUME NEW d \in Engines, d # e, NEW i \in 1..Len(closed'[d])
          PROVE  /\ sub'[closed'[d][i].sub].state # "NONE"
                 /\ sub'[closed'[d][i].sub].engine # d
        <3>1. closed'[d] = closed[d]
            BY <1>7, <2>4
        <3>2. i \in 1..Len(closed[d])
            BY <3>1
        <3> QED
            BY <2>1, <2>2, <2>4, <3>1, <3>2
    <2> QED
        BY <2>3, <2>4 DEF FarewellsInv
<1>10. LoopInv'
    <2>1. out' \in Seq(Response)
        BY <1>1, <1>2, FaultsAreResponses DEF FaultCode
    <2> QED
        BY <1>1, <2>1 DEF IInv, LoopInv
<1> QED
    BY <1>5, <1>6, <1>8, <1>9, <1>10 DEF IInv, CoreInv

\* CloseSession without deleteSubscriptions: the orphan engine, which has no
\* request, gets no farewell.
LEMMA CloseSessionOnlyStep ==
    ASSUME IInv, NEW e \in Sessions, CloseSessionOnly(e)
    PROVE  IInv'
<1> DEFINE own  == OwnedBy(e)
           q    == queue[e]
           n    == AtMost(Cardinality(own), Len(q))
           nth(i) == CHOOSE s \in own : Rank(own, s) = i
           told(s) == Transferring(sub[s])
           reply(i) == Reply(q[i], nth(i), sub[nth(i)].next, Batch(told(nth(i))))
           gone == Purged(closed[Orphan], own)
<1>1. /\ sessionClosed' = [sessionClosed EXCEPT ![e] = TRUE]
      /\ sub' = [s \in Subs |->
                   IF s \notin own THEN sub[s]
                   ELSE IF Rank(own, s) <= n
                        THEN Moved(Published(told(s)), Orphan)
                        ELSE Moved(sub[s], Orphan)]
      /\ queue' = [queue EXCEPT ![e] = <<>>]
      /\ closed' = [closed EXCEPT ![e] = <<>>, ![Orphan] = Purged(@, own)]
      /\ out' = [i \in 1..n |-> reply(i)] \o Faults(From(q, n), "BadSessionClosed")
      /\ UNCHANGED <<immediates, due, fired, calls>>
    BY DEF CloseSessionOnly
<1>2. /\ e \in Engines /\ e # NoEngine /\ e # Orphan
      /\ Orphan \in Engines /\ Orphan # NoEngine /\ Orphan \notin Sessions
      /\ sub \in [Subs -> Subscription] /\ \A s \in Subs : Sound(sub[s])
      /\ queue \in [Engines -> Seq(Requests)] /\ closed \in [Engines -> Seq(Farewell)]
      /\ sessionClosed \in [Sessions -> BOOLEAN]
      /\ q \in Seq(Requests)
    BY Constants DEF IInv, CoreInv, SubsInv, EnginesInv, Engines
<1>3. own \in SUBSET Int /\ IsFiniteSet(own) /\ own \subseteq Subs
    <2>1. own \subseteq Subs
        BY DEF OwnedBy
    <2> HIDE DEF own
    <2> QED
        BY <2>1, SubsFacts, FS_Subset
<1>4. \A s \in own : /\ s \in Subs /\ Sound(sub[s]) /\ Alive(sub[s]) /\ sub[s].engine = e
                     /\ Sound(Moved(sub[s], Orphan)) /\ Alive(Moved(sub[s], Orphan))
                     /\ Moved(sub[s], Orphan).engine = Orphan
    <2>1. \A s \in own : s \in Subs /\ Sound(sub[s]) /\ Alive(sub[s]) /\ sub[s].engine = e
        BY <1>2 DEF IInv, CoreInv, SubsInv, OwnedBy
    <2> HIDE DEF own
    <2> QED
        BY <1>2, <2>1, MovedSound
<1> HIDE DEF own
<1>5. ASSUME NEW s \in own
      PROVE  /\ Batch(told(s)) \in Seq(Notification)
             /\ Sound(Moved(Published(told(s)), Orphan))
             /\ Alive(Moved(Published(told(s)), Orphan))
             /\ Moved(Published(told(s)), Orphan).engine = Orphan
    <2>1. "GoodSubscriptionTransferred" \in Status
        BY DEF Status
    <2>2. Continues(sub[s], told(s)) /\ told(s).pending # <<>>
        BY <1>4, <2>1, ToldContinues DEF Transferring
    <2> HIDE DEF told
    <2>3. Sound(told(s))
        BY <2>2 DEF Continues
    <2>4. Sound(Published(told(s))) /\ Alive(Published(told(s))) /\ Batch(told(s)) \in Seq(Notification)
        BY <2>2, <2>3, PublishedContinues DEF Continues
    <2> QED
        BY <1>2, <2>4, MovedSound
<1> HIDE DEF told
<1>6. n \in Nat /\ n <= Cardinality(own) /\ n <= Len(q)
    <2>1. Cardinality(own) \in Nat /\ Len(q) \in Nat
        BY <1>2, <1>3, FS_CardinalityType
    <2> QED
        BY <2>1, AtMostIs
<1> HIDE DEF n
<1>7. out' \in Seq(Response)
    <2>1. ASSUME NEW i \in 1..n
          PROVE  reply(i) \in Response
        <3>1. i \in 1..Cardinality(own) /\ i \in 1..Len(q)
            <4>1. Cardinality(own) \in Nat /\ Len(q) \in Nat
                BY <1>2, <1>3, FS_CardinalityType
            <4> QED
                BY <1>6, <4>1
        <3>2. nth(i) \in own
            <4>1. \E s \in own : Rank(own, s) = i
                BY <1>3, <3>1, RankOnto
            <4> QED
                BY <4>1
        <3> HIDE DEF nth
        <3>3. sub[nth(i)].next \in Nat /\ nth(i) \in Subs /\ q[i] \in Requests
            BY <1>2, <1>4, <3>1, <3>2, SMTT(30) DEF Sound, Subscription
        <3>4. Batch(told(nth(i))) \in Seq(Notification)
            BY <1>5, <3>2
        <3> QED
            BY <3>3, <3>4, ReplyIsResponse
    <2> HIDE DEF reply
    <2>2. [i \in 1..n |-> reply(i)] \in Seq(Response)
        BY <1>6, <2>1
    <2>3. From(q, n) \in Seq(Requests)
        <3> HIDE DEF q
        <3> QED
            BY <1>2, <1>6, FromIs DEF q
    <2>4. Faults(From(q, n), "BadSessionClosed") \in Seq(Response)
        BY <2>3, FaultsAreResponses DEF FaultCode
    <2> QED
        BY <1>1, <2>2, <2>4
<1>8. ASSUME NEW s \in Subs
      PROVE  \/ /\ s \in own /\ sub[s].engine = e
                /\ Sound(sub'[s]) /\ Alive(sub'[s]) /\ sub'[s].engine = Orphan
             \/ s \notin own /\ sub[s].engine # e /\ sub'[s] = sub[s]
    <2>1. s \in own <=> sub[s].engine = e
        BY DEF own, OwnedBy
    <2> QED
        BY <1>1, <1>4, <1>5, <2>1
<1>9. SubsInv'
    <2>1. \A s \in Subs : Sound(sub'[s]) /\ (Alive(sub'[s]) <=> sub'[s].engine # NoEngine)
        BY <1>2, <1>8 DEF IInv, CoreInv, SubsInv
    <2>2. \A s \in Subs : sub'[s] \in Subscription
        BY <2>1 DEF Sound
    <2>3. sub' = [s \in Subs |-> sub'[s]]
        BY <1>1
    <2>4. sub' \in [Subs -> Subscription]
        BY <2>2, <2>3
    <2> QED
        BY <2>1, <2>4 DEF SubsInv
<1>10. MembersInv'
    <2>1. \A d \in Sessions \ {e} : sessionClosed'[d] = sessionClosed[d]
        BY <1>1, <1>2
    <2> QED
        BY <1>2, <1>8, <2>1 DEF IInv, CoreInv, MembersInv
<1>11. /\ gone \in Seq(Farewell)
       /\ Len(gone) <= Len(closed[Orphan])
       /\ \A k \in 1..Len(gone) : /\ gone[k].sub \notin own
                                  /\ \E i \in 1..Len(closed[Orphan]) : gone[k] = closed[Orphan][i]
    <2> DEFINE cl == closed[Orphan]
    <2>1. cl \in Seq(Farewell)
        BY <1>2
    <2> HIDE DEF cl
    <2>2. /\ Purged(cl, own) \in Seq(Farewell)
          /\ Len(Purged(cl, own)) <= Len(cl)
          /\ \A k \in 1..Len(Purged(cl, own)) :
               /\ Purged(cl, own)[k].sub \notin own
               /\ \E i \in 1..Len(cl) : Purged(cl, own)[k] = cl[i]
        BY <2>1, PurgedIs
    <2> QED
        BY <2>2 DEF cl
<1>12. /\ queue' \in [Engines -> Seq(Requests)] /\ closed' \in [Engines -> Seq(Farewell)]
       /\ sessionClosed' \in [Sessions -> BOOLEAN]
       /\ queue'[e] = <<>> /\ closed'[e] = <<>> /\ closed'[Orphan] = gone
       /\ \A d \in Engines \ {e} : queue'[d] = queue[d]
       /\ \A d \in Engines \ {e, Orphan} : closed'[d] = closed[d]
       /\ \A d \in Sessions \ {e} : sessionClosed'[d] = sessionClosed[d]
    <2>1. [closed EXCEPT ![e] = <<>>][Orphan] = closed[Orphan]
        BY <1>2
    <2>2. closed' = [closed EXCEPT ![e] = <<>>, ![Orphan] = gone]
        BY <1>1, <2>1
    <2> HIDE DEF gone
    <2>3. /\ closed' \in [Engines -> Seq(Farewell)]
          /\ closed'[e] = <<>> /\ closed'[Orphan] = gone
          /\ \A d \in Engines \ {e, Orphan} : closed'[d] = closed[d]
        <3>1. gone \in Seq(Farewell) /\ <<>> \in Seq(Farewell)
            BY <1>11
        <3> QED
            BY <1>2, <2>2, <3>1
    <2>4. /\ queue' \in [Engines -> Seq(Requests)] /\ queue'[e] = <<>>
          /\ \A d \in Engines \ {e} : queue'[d] = queue[d]
        BY <1>1, <1>2
    <2>5. /\ sessionClosed' \in [Sessions -> BOOLEAN]
          /\ \A d \in Sessions \ {e} : sessionClosed'[d] = sessionClosed[d]
        BY <1>1, <1>2
    <2> QED
        BY <2>3, <2>4, <2>5
<1> HIDE DEF gone
<1>13. EnginesInv'
    <2>1. \A d \in Engines : Len(queue'[d]) <= MaxPublishRequestInQueue
        <3>1. Len(queue'[e]) = 0 /\ \A d \in Engines : Len(queue[d]) <= MaxPublishRequestInQueue
            BY <1>12 DEF IInv, CoreInv, EnginesInv
        <3>2. \A d \in Engines \ {e} : queue'[d] = queue[d]
            BY <1>12
        <3>3. MaxPublishRequestInQueue \in Nat
            BY Constants
        <3> QED
            BY <3>1, <3>2, <3>3
    <2>2. queue'[Orphan] = <<>>
        BY <1>2, <1>12 DEF IInv, CoreInv, EnginesInv
    <2>3. ClosedDrainsQueue'
        BY <1>12, <2>2 DEF IInv, CoreInv, EnginesInv, ClosedDrainsQueue
    <2>4. \A d \in Sessions : sessionClosed'[d] => queue'[d] = <<>> /\ closed'[d] = <<>>
        BY <1>2, <1>12 DEF IInv, CoreInv, EnginesInv, Engines
    <2> QED
        BY <1>12, <2>1, <2>2, <2>3, <2>4 DEF EnginesInv
<1>14. FarewellsInv'
    <2>1. ASSUME NEW d \in Engines, NEW i \in 1..Len(closed[d])
          PROVE  /\ closed[d][i].sub \in Subs
                 /\ sub[closed[d][i].sub].state # "NONE"
                 /\ sub[closed[d][i].sub].engine # d
        BY <1>2, FarewellSubs DEF IInv, CoreInv, FarewellsInv
    <2>2. \A t \in Subs : sub[t].state # "NONE" => sub'[t].state # "NONE"
        BY <1>8 DEF Alive
    <2>3. ASSUME NEW d \in Engines, d # e, d # Orphan, NEW i \in 1..Len(closed'[d])
          PROVE  /\ sub'[closed'[d][i].sub].state # "NONE"
                 /\ sub'[closed'[d][i].sub].engine # d
        <3>1. closed'[d] = closed[d]
            BY <1>12, <2>3
        <3>2. i \in 1..Len(closed[d])
            BY <3>1
        <3> QED
            BY <1>8, <2>1, <2>2, <2>3, <3>1, <3>2
    <2>4. ASSUME NEW i \in 1..Len(gone)
          PROVE  /\ sub'[gone[i].sub].state # "NONE"
                 /\ sub'[gone[i].sub].engine # Orphan
        <3>1. PICK j \in 1..Len(closed[Orphan]) : gone[i] = closed[Orphan][j]
            BY <1>11
        <3>2. gone[i].sub \notin own
            BY <1>11
        <3> QED
            BY <1>2, <1>8, <2>1, <2>2, <3>1, <3>2
    <2>5. \A i \in 1..Len(closed'[e]) : FALSE
        BY <1>12
    <2>6. ASSUME NEW d \in Engines, NEW i \in 1..Len(closed'[d])
          PROVE  /\ sub'[closed'[d][i].sub].state # "NONE"
                 /\ sub'[closed'[d][i].sub].engine # d
        BY <1>12, <2>3, <2>4, <2>5
    <2> QED
        BY <2>6 DEF FarewellsInv
<1>15. LoopInv'
    BY <1>1, <1>7 DEF IInv, LoopInv
<1> QED
    BY <1>9, <1>10, <1>13, <1>14, <1>15 DEF IInv, CoreInv

\* moveSessionToChannel: the requests are refused, all at once.
LEMMA ChangeChannelStep ==
    ASSUME IInv, NEW e \in Sessions, ChangeChannel(e)
    PROVE  IInv'
<1>1. /\ calls < MaxCalls /\ calls' = calls + 1
      /\ queue' = [queue EXCEPT ![e] = <<>>]
      /\ out' = Faults(queue[e], "BadSecureChannelClosed")
      /\ UNCHANGED <<sub, closed, sessionClosed, immediates, due, fired>>
    BY DEF ChangeChannel
<1>2. e \in Engines /\ queue \in [Engines -> Seq(Requests)] /\ <<>> \in Seq(Requests)
    BY DEF IInv, CoreInv, EnginesInv, Engines
<1>3. /\ queue' \in [Engines -> Seq(Requests)]
      /\ \A d \in Engines : queue'[d] = queue[d] \/ queue'[d] = <<>>
    BY <1>1, <1>2
<1>4. EnginesInv'
    BY <1>1, <1>3, Constants DEF IInv, CoreInv, EnginesInv, ClosedDrainsQueue, Engines
<1>5. SubsInv' /\ MembersInv' /\ FarewellsInv'
    BY <1>1 DEF IInv, CoreInv, SubsInv, MembersInv, FarewellsInv
<1>6. LoopInv'
    <2>1. out' \in Seq(Response)
        BY <1>1, <1>2, FaultsAreResponses DEF FaultCode
    <2>2. calls' \in 0..MaxCalls
        BY <1>1, PublishingAssumption DEF IInv, LoopInv
    <2> QED
        BY <1>1, <2>1, <2>2 DEF IInv, LoopInv
<1> QED
    BY <1>4, <1>5, <1>6 DEF IInv, CoreInv

-----------------------------------------------------------------------------
(***************************************************************************)
(* Monitored items, timers and setImmediate callbacks.                     *)
(***************************************************************************)
\* A notification of a monitored item.
LEMMA NotifyStep ==
    ASSUME IInv, NEW s \in Subs, Notify(s)
    PROVE  IInv'
<1>1. Live(s) /\ UNCHANGED <<queue, closed, sessionClosed>>
    BY DEF Notify
<1>2. Continues(sub[s], Notified(sub[s]))
    BY <1>1, LiveHasEngine, NotifiedContinues DEF IInv, CoreInv
<1>3. sub' = [sub EXCEPT ![s] = Notified(sub[s])]
    BY DEF Notify
<1>4. CoreInv'
    BY <1>1, <1>2, <1>3, OneSubscriptionStep DEF IInv
<1>5. LoopInv'
    BY DEF IInv, LoopInv, Notify
<1> QED
    BY <1>4, <1>5 DEF IInv

\* The phase of the setImmediate callbacks never counts more of them than
\* there are.
LEMMA NextImmediateLoop ==
    ASSUME LoopInv, NEW cb, NextImmediate(cb),
           immediates' \in Seq(Immediate), Len(immediates') >= Len(Tail(immediates)),
           out' \in Seq(Response)
    PROVE  LoopInv'
<1>1. /\ immediates # <<>>
      /\ due' = (IF due = 0 THEN Len(immediates) ELSE due) - 1
      /\ fired' = IF due' = 0 THEN {} ELSE fired
      /\ calls' = calls
    BY DEF NextImmediate
<1>2. immediates \in Seq(Immediate) /\ due \in 0..Len(immediates)
    BY DEF LoopInv
<1>3. Len(immediates) >= 1 /\ Len(Tail(immediates)) = Len(immediates) - 1
    BY <1>1, <1>2
<1>4. due' \in 0..Len(immediates')
    BY <1>1, <1>2, <1>3
<1>5. fired' \subseteq Subs /\ calls' \in 0..MaxCalls
    BY <1>1 DEF LoopInv
<1> QED
    BY <1>4, <1>5 DEF LoopInv

\* The publishing timer fires.
LEMMA TimerTickStep ==
    ASSUME IInv, NEW s \in Subs, NEW late, TimerTick(s, late)
    PROVE  IInv'
<1>1. /\ Live(s) /\ Tick(s, late, immediates)
      /\ fired' = (IF immediates' = <<>> THEN {} ELSE fired \cup {s})
      /\ UNCHANGED <<sessionClosed, due, calls>>
    BY DEF TimerTick
<1>2. immediates \in Seq(Immediate) /\ due \in 0..Len(immediates) /\ fired \subseteq Subs
    BY DEF IInv, LoopInv
<1>3. /\ CoreInv' /\ out' \in Seq(Response)
      /\ immediates' \in Seq(Immediate) /\ Len(immediates') >= Len(immediates)
    BY <1>1, <1>2, TickStep DEF IInv
<1>4. due' \in 0..Len(immediates')
    BY <1>1, <1>2, <1>3
<1>5. fired' \subseteq Subs
    BY <1>1, <1>2
<1> QED
    BY <1>1, <1>3, <1>4, <1>5 DEF IInv, LoopInv

\* The extra _tick of a subscription, which may be dead by now.
LEMMA RunTickStep ==
    ASSUME IInv, NEW s \in Subs, NEW late, RunTick(s, late)
    PROVE  IInv'
<1>1. NextImmediate(<<"tick", s>>) /\ UNCHANGED sessionClosed /\ immediates # <<>>
    BY DEF RunTick, NextImmediate
<1>2. immediates \in Seq(Immediate) /\ Tail(immediates) \in Seq(Immediate)
    BY <1>1 DEF IInv, LoopInv
<1>3. /\ CoreInv' /\ out' \in Seq(Response)
      /\ immediates' \in Seq(Immediate) /\ Len(immediates') >= Len(Tail(immediates))
    <2>1. CASE Live(s) /\ Tick(s, late, Tail(immediates))
        BY <1>1, <1>2, <2>1, TickStep DEF IInv
    <2>2. CASE /\ immediates' = Tail(immediates) /\ out' = <<>>
               /\ UNCHANGED <<sub, queue, closed>>
        <3>1. CoreInv'
            BY <1>1, <2>2, CoreUnchanged DEF IInv
        <3>2. Len(immediates') >= Len(Tail(immediates)) /\ immediates' \in Seq(Immediate)
            BY <1>2, <2>2
        <3>3. out' \in Seq(Response)
            BY <2>2
        <3> QED
            BY <3>1, <3>2, <3>3
    <2> QED
        BY <2>1, <2>2 DEF RunTick
<1>4. LoopInv'
    BY <1>1, <1>3, NextImmediateLoop DEF IInv
<1> QED
    BY <1>3, <1>4 DEF IInv

\* #_find_starving_subscription chooses a subscription that starves.
LEMMA ChosenStarves ==
    ASSUME NEW e, Starving(e) # {}
    PROVE  Chosen(e) \in Starving(e)
<1>1. Starving(e) \in SUBSET Subs
    BY DEF Starving, OwnedBy
<1>2. Starving(e) \in SUBSET Int /\ IsFiniteSet(Starving(e))
    BY <1>1, SubsFacts, FS_Subset
<1>3. \E s \in Starving(e) : \A t \in Starving(e) : t <= s
    BY <1>2, GreatestExists
<1> QED
    BY <1>3 DEF Chosen

\* #_feed_late_subscription
LEMMA RunFeedLateStep ==
    ASSUME IInv, NEW e \in Sessions, RunFeedLate(e)
    PROVE  IInv'
<1>1. /\ NextImmediate(<<"feed", e>>) /\ immediates # <<>>
      /\ UNCHANGED <<closed, sessionClosed>>
    BY DEF RunFeedLate, NextImmediate
<1>2. immediates \in Seq(Immediate) /\ Tail(immediates) \in Seq(Immediate)
    BY <1>1 DEF IInv, LoopInv
<1>3. /\ CoreInv' /\ out' \in Seq(Response)
      /\ immediates' \in Seq(Immediate) /\ Len(immediates') >= Len(Tail(immediates))
    <2>1. CASE /\ queue[e] # <<>> /\ Starving(e) # {}
               /\ ProcessSubscription(Chosen(e), sub[Chosen(e)], queue[e], <<>>,
                                      Tail(immediates))
        <3> DEFINE s == Chosen(e)
        <3>1. s \in Starving(e)
            BY <2>1, ChosenStarves
        <3> HIDE DEF s
        <3>2. s \in Subs /\ sub[s].engine = e /\ e \in Engines /\ e # NoEngine
            BY <3>1, Constants DEF Starving, OwnedBy, Engines
        <3>3. Live(s) /\ Sound(sub[s])
            BY <3>2 DEF IInv, CoreInv, SubsInv, Alive, Live
        <3>4. Continues(sub[s], sub[s])
            <4>1. sub[s].next \in Nat
                BY <3>3 DEF Sound, Subscription
            <4> QED
                BY <3>3, <4>1 DEF Continues
        <3>5. queue[e] \in Seq(Requests) /\ Len(queue[e]) <= Len(queue[sub[s].engine])
            BY <3>2 DEF IInv, CoreInv, EnginesInv
        <3>6. <<>> \in Seq(Response)
            OBVIOUS
        <3>7. ProcessSubscription(s, sub[s], queue[e], <<>>, Tail(immediates))
            BY <2>1 DEF s
        <3>8. /\ Local(s) /\ out' \in Seq(Response)
              /\ immediates' \in Seq(Immediate) /\ Len(immediates') >= Len(Tail(immediates))
            BY <1>2, <2>1, <3>2, <3>3, <3>4, <3>5, <3>6, <3>7, ProcessSubscriptionLocal DEF IInv
        <3>9. CoreInv'
            BY <1>1, <3>2, <3>3, <3>8, LocalStep DEF IInv
        <3> QED
            BY <3>8, <3>9
    <2>2. CASE /\ immediates' = Tail(immediates) /\ out' = <<>>
               /\ UNCHANGED <<sub, queue>>
        <3>1. CoreInv'
            BY <1>1, <2>2, CoreUnchanged DEF IInv
        <3>2. Len(immediates') >= Len(Tail(immediates)) /\ immediates' \in Seq(Immediate)
            BY <1>2, <2>2
        <3>3. out' \in Seq(Response)
            BY <2>2
        <3> QED
            BY <3>1, <3>2, <3>3
    <2> QED
        BY <2>1, <2>2 DEF RunFeedLate
<1>4. LoopInv'
    BY <1>1, <1>3, NextImmediateLoop DEF IInv
<1> QED
    BY <1>3, <1>4 DEF IInv

-----------------------------------------------------------------------------
(***************************************************************************)
(* Every behaviour.                                                        *)
(***************************************************************************)
\* A server that has just started.
LEMMA InitIInv == Init => IInv
<1> SUFFICES ASSUME Init PROVE IInv
    OBVIOUS
<1>1. SubsInv
    BY UnbornSound, Constants DEF Init, SubsInv, Sound
<1>2. EnginesInv
    <2>1. \A e \in Engines : Len(queue[e]) <= MaxPublishRequestInQueue
        BY Constants DEF Init
    <2> QED
        BY <2>1 DEF Init, EnginesInv, ClosedDrainsQueue, Engines
<1>3. MembersInv
    BY DEF Init, MembersInv
<1>4. FarewellsInv
    BY DEF Init, FarewellsInv
<1>5. LoopInv
    BY PublishingAssumption DEF Init, LoopInv
<1> QED
    BY <1>1, <1>2, <1>3, <1>4, <1>5 DEF IInv, CoreInv

\* Every callback keeps the invariant.
LEMMA NextIInv == IInv /\ [Next]_vars => IInv'
<1> SUFFICES ASSUME IInv, [Next]_vars PROVE IInv'
    OBVIOUS
<1>1. CASE Timers
    BY <1>1, TimerTickStep, RunTickStep, RunFeedLateStep DEF Timers
<1>2. CASE Services
    <2>1. ASSUME NEW e \in Sessions, NEW s \in Subs, NEW b \in BOOLEAN,
                 CreateSubscription(e, s, b)
          PROVE  IInv'
        BY <2>1, CreateSubscriptionStep
    <2>2. ASSUME NEW e \in Sessions, NEW r \in Requests, NEW acks \in Acks,
                 PublishRequest(e, r, acks)
          PROVE  IInv'
        BY <2>2, PublishRequestStep
    <2>3. ASSUME NEW s \in Subs,
                 \/ CallOnSubscription(s) \/ DeleteMonitoredItems(s)
                 \/ ModifySubscription(s) \/ DeleteSubscription(s)
          PROVE  IInv'
        BY <2>3, CallOnSubscriptionStep, DeleteMonitoredItemsStep,
           ModifySubscriptionStep, DeleteSubscriptionStep
    <2>4. ASSUME NEW s \in Subs, NEW b \in BOOLEAN, SetPublishingMode(s, b)
          PROVE  IInv'
        BY <2>4, SetPublishingModeStep
    <2>5. ASSUME NEW s \in Subs, NEW d \in Sessions, NEW b \in BOOLEAN,
                 NEW fresh \in {0, 1}, TransferSubscription(s, d, b, fresh)
          PROVE  IInv'
        BY <2>5, TransferSubscriptionStep
    <2>6. ASSUME NEW e \in Sessions,
                 \/ CloseSessionAndSubscriptions(e) \/ CloseSessionOnly(e)
                 \/ ChangeChannel(e)
          PROVE  IInv'
        BY <2>6, CloseSessionAndSubscriptionsStep, CloseSessionOnlyStep, ChangeChannelStep
    <2> QED
        BY <1>2, <2>1, <2>2, <2>3, <2>4, <2>5, <2>6 DEF Services
<1>3. CASE \E s \in Subs : Notify(s)
    BY <1>3, NotifyStep
<1>4. CASE UNCHANGED vars
    <2>1. CoreInv'
        BY <1>4, CoreUnchanged DEF vars, IInv
    <2>2. LoopInv'
        BY <1>4 DEF vars, IInv, LoopInv
    <2> QED
        BY <2>1, <2>2 DEF IInv
<1> QED
    BY <1>1, <1>2, <1>3, <1>4 DEF Next

\* What the runs check of every state follows from the invariant.
LEMMA IInvImplies ==
    IInv => /\ TypeOK /\ ClosedDrainsQueue /\ OwnershipConsistent /\ FarewellsElsewhere
            /\ NoNotificationLost
<1> SUFFICES ASSUME IInv
             PROVE  /\ TypeOK /\ ClosedDrainsQueue /\ OwnershipConsistent /\ FarewellsElsewhere
                    /\ NoNotificationLost
    OBVIOUS
<1>1. TypeOK
    BY DEF IInv, CoreInv, SubsInv, EnginesInv, LoopInv, Sound, TypeOK
<1>2. ClosedDrainsQueue
    BY DEF IInv, CoreInv, EnginesInv
<1>3. OwnershipConsistent
    BY DEF IInv, CoreInv, SubsInv, EnginesInv, MembersInv, OwnershipConsistent, Live, Alive, OwnedBy
<1>4. FarewellsElsewhere
    <2>1. \A e \in Engines : DOMAIN closed[e] = 1..Len(closed[e])
        BY DEF IInv, CoreInv, EnginesInv
    <2> QED
        BY <2>1 DEF IInv, CoreInv, FarewellsInv, FarewellsElsewhere
<1>5. NoNotificationLost
    <2>1. \A s \in Subs : sub[s] \in Subscription /\ Whole(sub[s])
        BY DEF IInv, CoreInv, SubsInv, Sound
    <2> QED
        BY <2>1, BacklogWhole DEF NoNotificationLost
<1> QED
    BY <1>1, <1>2, <1>3, <1>4, <1>5

\* The invariant holds throughout, whatever the numbers of sessions,
\* subscriptions and requests, the limits and the bounds.
THEOREM Invariance == Spec => []IInv
<1>1. Init => IInv
    BY InitIInv
<1>2. IInv /\ [Next]_vars => IInv'
    BY NextIInv
<1> QED
    BY <1>1, <1>2, PTL DEF Spec

\* Every variable keeps its type: the counters of every subscription stay
\* within their limits, no request queue exceeds MaxPublishRequestInQueue
\* (#_handle_too_many_requests), and every message kept for Republish has a
\* number the generator handed out.
THEOREM TypeCorrect == Spec => []TypeOK
BY Invariance, IInvImplies, PTL

\* A farewell never waits on an engine while requests do, over every order of
\* requests, expiries, deletions, transfers and closures: the assert of
\* #_feed_closed_subscription cannot fail for want of feeding.
THEOREM ClosedSubscriptionsDrain == Spec => []ClosedDrainsQueue
BY Invariance, IInvImplies, PTL

\* A subscription is with one engine exactly while it lives, a closed session
\* keeps nothing, and the orphan engine never has a request.
THEOREM OwnershipKept == Spec => []OwnershipConsistent
BY Invariance, IInvImplies, PTL

\* transferSubscription and _purge_dangling_subscription: no session holds the
\* farewell of a subscription that is with it.
THEOREM FarewellsStayElsewhere == Spec => []FarewellsElsewhere
BY Invariance, IInvImplies, PTL

\* addNotificationMessage, _harvestMonitoredItems, _popNotificationToSend:
\* what a live subscription holds, in the queues of its items or pending, is
\* all that was produced and no message has carried, in order, through LATE
\* states, disabled publishing, transfers, orphanage and resent values.
THEOREM NotificationsKept == Spec => []NoNotificationLost
BY Invariance, IInvImplies, PTL
-----------------------------------------------------------------------------
(***************************************************************************)
(* What the publish engines answer, step by step.                          *)
(*                                                                         *)
(* That every request is answered once (AnsweredOnce) is a count: over a   *)
(* step, the requests that stay in the queue it works on and those the     *)
(* responses name make up what the queue held (Balanced), and no request   *)
(* is in two places (QueuedOnce).                                          *)
(*                                                                         *)
(* That a subscription is its NotificationStream (StreamsImplemented) is   *)
(* shown record by record: the responses of a step, restricted to one      *)
(* subscription, are what one action of the stream says (Evolves).  Beside *)
(* IInv it needs that an id not handed out has an empty stream (FreshInv). *)
(***************************************************************************)

-----------------------------------------------------------------------------
(***************************************************************************)
(* How often a request is in a queue.                                      *)
(***************************************************************************)
Places(q, r) == {i \in 1..Len(q) : q[i] = r}
Tally(q, r)  == Cardinality(Places(q, r))

\* The requests that responses answer
Answered(responses) == [i \in 1..Len(responses) |-> responses[i].req]

\* Counting the places of a request.
LEMMA TallyIs ==
    ASSUME NEW q \in Seq(Requests), NEW r
    PROVE  /\ Places(q, r) \in SUBSET (1..Len(q)) /\ IsFiniteSet(Places(q, r))
           /\ Tally(q, r) \in Nat
           /\ Tally(q, r) = 0 <=> \A i \in 1..Len(q) : q[i] # r
<1>1. Places(q, r) \in SUBSET (1..Len(q)) /\ Len(q) \in Nat
    BY DEF Places
<1>2. IsFiniteSet(Places(q, r))
    <2>1. IsFiniteSet(1..Len(q))
        BY <1>1, FS_Interval
    <2> QED
        BY <1>1, <2>1, FS_Subset
<1>3. Tally(q, r) = 0 <=> Places(q, r) = {}
    BY <1>2, FS_EmptySet DEF Tally
<1>4. Places(q, r) = {} <=> \A i \in 1..Len(q) : q[i] # r
    BY DEF Places
<1> QED
    BY <1>1, <1>2, <1>3, <1>4, FS_CardinalityType DEF Tally

\* No request is in an empty queue.
LEMMA TallyEmpty ==
    ASSUME NEW r
    PROVE  Tally(<<>>, r) = 0
<1>1. Places(<<>>, r) = {}
    BY DEF Places
<1> QED
    BY <1>1, FS_EmptySet DEF Tally

\* A queue of one.
LEMMA TallyOne ==
    ASSUME NEW q, NEW r
    PROVE  Tally(<<q>>, r) = IF q = r THEN 1 ELSE 0
<1>1. Places(<<q>>, r) = IF q = r THEN {1} ELSE {}
    <2>1. Len(<<q>>) = 1 /\ <<q>>[1] = q
        OBVIOUS
    <2> QED
        BY <2>1 DEF Places
<1> QED
    BY <1>1, FS_EmptySet, FS_Singleton DEF Tally

\* Two arrays put together.
LEMMA ConcatIs ==
    ASSUME NEW S, NEW a \in Seq(S), NEW b \in Seq(S)
    PROVE  /\ a \o b \in Seq(S) /\ Len(a \o b) = Len(a) + Len(b)
           /\ \A i \in 1..Len(a) : (a \o b)[i] = a[i]
           /\ \A i \in 1..Len(b) : (a \o b)[Len(a) + i] = b[i]
BY ConcatProperties

\* Two queues put together.
LEMMA TallyJoined ==
    ASSUME NEW a \in Seq(Requests), NEW b \in Seq(Requests), NEW r
    PROVE  Tally(a \o b, r) = Tally(a, r) + Tally(b, r)
<1> DEFINE n == Len(a)
           c == a \o b
           K == Places(a, r)
           L == Places(b, r)
           U == Places(c, r)
<1>1. /\ c \in Seq(Requests) /\ Len(c) = n + Len(b) /\ n \in Nat /\ Len(b) \in Nat
      /\ \A i \in 1..n : c[i] = a[i]
      /\ \A j \in 1..Len(b) : c[n + j] = b[j]
    BY ConcatIs
<1> HIDE DEF c
<1>2. /\ K \in SUBSET (1..n) /\ L \in SUBSET (1..Len(b)) /\ IsFiniteSet(L)
      /\ U \in SUBSET (1..Len(c)) /\ IsFiniteSet(U)
    BY <1>1, TallyIs
<1>3. U = Joined(K, n, L)
    <2>1. ASSUME NEW i \in U
          PROVE  i \in Joined(K, n, L)
        <3>1. i \in 1..(n + Len(b)) /\ c[i] = r
            BY <1>1 DEF Places
        <3>2. CASE i <= n
            <4>1. i \in 1..n /\ a[i] = r
                BY <1>1, <3>1, <3>2
            <4> QED
                BY <4>1 DEF Places, Joined
        <3>3. CASE ~(i <= n)
            <4>1. i - n \in 1..Len(b) /\ i = n + (i - n)
                BY <1>1, <3>1, <3>3
            <4>2. b[i - n] = r
                BY <1>1, <3>1, <4>1
            <4>3. i - n \in L
                BY <4>1, <4>2 DEF Places
            <4> QED
                BY <4>1, <4>3 DEF Joined
        <3> QED
            BY <3>2, <3>3
    <2>2. ASSUME NEW i \in K
          PROVE  i \in U
        <3>1. i \in 1..n /\ a[i] = r
            BY DEF Places
        <3>2. i \in 1..Len(c) /\ c[i] = r
            BY <1>1, <3>1
        <3> QED
            BY <3>2 DEF Places
    <2>3. ASSUME NEW j \in L
          PROVE  n + j \in U
        <3>1. j \in 1..Len(b) /\ b[j] = r
            BY DEF Places
        <3>2. n + j \in 1..Len(c) /\ c[n + j] = r
            BY <1>1, <3>1
        <3> QED
            BY <3>2 DEF Places
    <2> QED
        BY <2>1, <2>2, <2>3 DEF Joined
<1>4. L \in SUBSET (Nat \ {0})
    BY <1>1, <1>2
<1> HIDE DEF K, L, U, n
<1>5. Cardinality(U) = Cardinality(K) + Cardinality(L)
    BY <1>1, <1>2, <1>3, <1>4, RankJoined
<1> QED
    BY <1>5 DEF Tally, K, L, U, c

\* A filter keeps the requests at the places it keeps.
LEMMA TallyPicked ==
    ASSUME NEW q \in Seq(Requests), NEW K \in SUBSET (1..Len(q)), NEW r
    PROVE  Tally(Pick(q, K), r) = Cardinality(Places(q, r) \cap K)
<1> DEFINE p == Pick(q, K)
           A == Places(q, r) \cap K
           B == Places(p, r)
<1>1. /\ p \in Seq(Requests) /\ Len(p) = Cardinality(K) /\ Cardinality(K) \in Nat
    BY PickProperties
<1>2. K \in SUBSET Int /\ IsFiniteSet(K) /\ IsFiniteSet(A) /\ IsFiniteSet(B)
    <2>1. IsFiniteSet(1..Len(q)) /\ Len(q) \in Nat
        BY FS_Interval
    <2>2. IsFiniteSet(K) /\ IsFiniteSet(A)
        BY <2>1, FS_Subset
    <2> QED
        BY <1>1, <2>1, <2>2, TallyIs
<1>3. \A i \in K : p[Rank(K, i)] = q[i] /\ Rank(K, i) \in 1..Len(p)
    <2>1. ASSUME NEW i \in K
          PROVE  p[Rank(K, i)] = q[i] /\ Rank(K, i) \in 1..Len(p)
        <3>1. Rank(K, i) \in 1..Cardinality(K)
            BY <1>2, RankInRange
        <3>2. PICK j \in K : p[Rank(K, i)] = q[j] /\ Rank(K, j) = Rank(K, i)
            BY <3>1, PickRank
        <3>3. j = i
            BY <1>2, <3>2, RankUnique
        <3> QED
            BY <1>1, <3>1, <3>2, <3>3
    <2> QED
        BY <2>1
<1> DEFINE f == [i \in A |-> Rank(K, i)]
<1> HIDE DEF p
<1>4. \A i \in A : f[i] \in B
    BY <1>3 DEF Places
<1>5. \A i, j \in A : f[i] = f[j] => i = j
    <2>1. ASSUME NEW i \in A, NEW j \in A, f[i] = f[j]
          PROVE  i = j
        BY <1>2, <2>1, RankUnique
    <2> QED
        BY <2>1
<1>6. \A k \in B : \E i \in A : f[i] = k
    <2>1. ASSUME NEW k \in B
          PROVE  \E i \in A : f[i] = k
        <3>1. k \in 1..Cardinality(K) /\ p[k] = r
            BY <1>1 DEF Places
        <3>2. PICK i \in K : p[k] = q[i] /\ Rank(K, i) = k
            BY <3>1, PickRank DEF p
        <3>3. i \in A
            BY <3>1, <3>2 DEF Places
        <3> QED
            BY <3>2, <3>3
    <2> QED
        BY <2>1
<1>7. f \in Bijection(A, B)
    BY <1>4, <1>5, <1>6, Fun_IsBij
<1> HIDE DEF f
<1>8. Cardinality(A) = Cardinality(B)
    BY <1>2, <1>7, FS_Bijection DEF ExistsBijection
<1> QED
    BY <1>8 DEF Tally, p

\* A filter and its complement share the entries of an array.
LEMMA TallySplit ==
    ASSUME NEW q \in Seq(Requests), NEW K \in SUBSET (1..Len(q)), NEW r
    PROVE  Tally(Pick(q, K), r) + Tally(Pick(q, DOMAIN q \ K), r) = Tally(q, r)
<1> DEFINE L == DOMAIN q \ K
           A == Places(q, r) \cap K
           B == Places(q, r) \cap L
<1>1. L \in SUBSET (1..Len(q))
    OBVIOUS
<1>2. /\ Places(q, r) = A \cup B /\ A \cap B = {}
      /\ IsFiniteSet(Places(q, r))
    BY TallyIs
<1>3. IsFiniteSet(A) /\ IsFiniteSet(B)
    BY <1>2, FS_Subset
<1>4. Tally(Pick(q, K), r) = Cardinality(A)
    BY TallyPicked
<1>5. Tally(Pick(q, L), r) = Cardinality(B)
    BY <1>1, TallyPicked
<1> HIDE DEF A, B, L
<1>6. Cardinality(A \cup B) = Cardinality(A) + Cardinality(B) - Cardinality(A \cap B)
    BY <1>3, FS_Union
<1>7. Cardinality(A \cap B) = 0
    BY <1>2, FS_EmptySet
<1>8. Cardinality(A) \in Nat /\ Cardinality(B) \in Nat
    BY <1>3, FS_CardinalityType
<1>9. Tally(q, r) = Cardinality(A \cup B)
    BY <1>2 DEF Tally
<1>10. Tally(Pick(q, K), r) + Tally(Pick(q, L), r) = Tally(q, r)
    BY <1>4, <1>5, <1>6, <1>7, <1>8, <1>9
<1> QED
    BY <1>10 DEF L

\* The first n requests and those after them.
LEMMA TallyFrom ==
    ASSUME NEW q \in Seq(Requests), NEW n \in Nat, n <= Len(q), NEW r
    PROVE  /\ SubSeq(q, 1, n) \in Seq(Requests) /\ From(q, n) \in Seq(Requests)
           /\ Len(SubSeq(q, 1, n)) = n
           /\ \A i \in 1..n : SubSeq(q, 1, n)[i] = q[i]
           /\ Tally(SubSeq(q, 1, n), r) + Tally(From(q, n), r) = Tally(q, r)
<1> DEFINE a == SubSeq(q, 1, n)
           b == From(q, n)
<1>1. a \in Seq(Requests) /\ Len(a) = n /\ \A i \in 1..n : a[i] = q[i]
    OBVIOUS
<1>2. b \in Seq(Requests) /\ Len(b) = Len(q) - n /\ \A i \in 1..Len(b) : b[i] = q[n + i]
    BY FromIs
<1> HIDE DEF a, b
<1>3. /\ a \o b \in Seq(Requests) /\ Len(a \o b) = Len(q)
      /\ \A i \in 1..n : (a \o b)[i] = a[i]
      /\ \A i \in 1..Len(b) : (a \o b)[n + i] = b[i]
    <2>1. /\ a \o b \in Seq(Requests) /\ Len(a \o b) = Len(a) + Len(b)
          /\ \A i \in 1..Len(a) : (a \o b)[i] = a[i]
          /\ \A i \in 1..Len(b) : (a \o b)[Len(a) + i] = b[i]
        BY <1>1, <1>2, ConcatIs
    <2> QED
        BY <1>1, <1>2, <2>1
<1>4. ASSUME NEW i \in 1..Len(q)
      PROVE  (a \o b)[i] = q[i]
    <2>1. CASE i <= n
        BY <1>1, <1>3, <2>1
    <2>2. CASE ~(i <= n)
        <3>1. i - n \in 1..Len(b) /\ i = n + (i - n)
            BY <1>2, <2>2
        <3> QED
            BY <1>2, <1>3, <3>1
    <2> QED
        BY <2>1, <2>2
<1>5. a \o b = q
    BY <1>3, <1>4, SeqEqual
<1>6. Tally(a \o b, r) = Tally(a, r) + Tally(b, r)
    BY <1>1, <1>2, TallyJoined
<1> QED
    BY <1>1, <1>2, <1>5, <1>6 DEF a, b

\* Taking the oldest request out of a queue.
LEMMA TallyTail ==
    ASSUME NEW q \in Seq(Requests), q # <<>>, NEW r
    PROVE  /\ Tail(q) \in Seq(Requests) /\ Head(q) \in Requests
           /\ Tally(<<Head(q)>>, r) + Tally(Tail(q), r) = Tally(q, r)
<1>1. Head(q) \in Requests /\ Tail(q) \in Seq(Requests) /\ q = <<Head(q)>> \o Tail(q)
    BY HeadTailProperties, ConcatProperties
<1>2. <<Head(q)>> \in Seq(Requests)
    BY <1>1
<1>3. Tally(<<Head(q)>> \o Tail(q), r) = Tally(<<Head(q)>>, r) + Tally(Tail(q), r)
    BY <1>1, <1>2, TallyJoined
<1> QED
    BY <1>1, <1>3

\* Queueing a request.
LEMMA TallyAppend ==
    ASSUME NEW q \in Seq(Requests), NEW x \in Requests, NEW r
    PROVE  /\ Append(q, x) \in Seq(Requests) /\ Len(Append(q, x)) = Len(q) + 1
           /\ Tally(Append(q, x), r) = Tally(q, r) + Tally(<<x>>, r)
<1>1. Append(q, x) = q \o <<x>> /\ <<x>> \in Seq(Requests)
    BY AppendIsConcat
<1>2. Tally(q \o <<x>>, r) = Tally(q, r) + Tally(<<x>>, r)
    BY <1>1, TallyJoined
<1>3. Append(q, x) \in Seq(Requests) /\ Len(Append(q, x)) = Len(q) + 1
    OBVIOUS
<1> QED
    BY <1>1, <1>2, <1>3

-----------------------------------------------------------------------------
(***************************************************************************)
(* How often responses answer a request.                                   *)
(***************************************************************************)
\* Responses to the requests of q, in its order, answer what is in q.
LEMMA AnswersTo ==
    ASSUME NEW responses \in Seq(Response), NEW q \in Seq(Requests),
           Len(responses) = Len(q), \A i \in 1..Len(q) : responses[i].req = q[i],
           NEW r
    PROVE  Answers(r, responses) = Tally(q, r)
<1>1. {i \in DOMAIN responses : responses[i].req = r} = Places(q, r)
    BY DEF Places
<1> QED
    BY <1>1 DEF Answers, Tally

\* Every response answers a request.
LEMMA AnsweredIs ==
    ASSUME NEW responses \in Seq(Response)
    PROVE  /\ Answered(responses) \in Seq(Requests)
           /\ Len(Answered(responses)) = Len(responses)
           /\ \A i \in 1..Len(responses) : Answered(responses)[i] = responses[i].req
<1>1. \A i \in 1..Len(responses) : responses[i] \in Response
    OBVIOUS
<1>2. \A x \in Response : x.req \in Requests
    BY DEF Response
<1>3. \A i \in 1..Len(responses) : responses[i].req \in Requests
    BY <1>1, <1>2
<1> QED
    BY <1>3 DEF Answered

\* Counting the answers to a request.
LEMMA AnswersTally ==
    ASSUME NEW responses \in Seq(Response), NEW r
    PROVE  /\ Answers(r, responses) = Tally(Answered(responses), r)
           /\ Answers(r, responses) \in Nat
<1>1. /\ Answered(responses) \in Seq(Requests)
      /\ Len(responses) = Len(Answered(responses))
      /\ \A i \in 1..Len(Answered(responses)) : responses[i].req = Answered(responses)[i]
    BY AnsweredIs
<1>2. Answers(r, responses) = Tally(Answered(responses), r)
    BY <1>1, AnswersTo
<1> QED
    BY <1>1, <1>2, TallyIs

\* Two lists of responses put together.
LEMMA AnswersJoined ==
    ASSUME NEW a \in Seq(Response), NEW b \in Seq(Response), NEW r
    PROVE  /\ a \o b \in Seq(Response)
           /\ Answers(r, a \o b) = Answers(r, a) + Answers(r, b)
<1> DEFINE n == Len(a)
           u == Answered(a)
           v == Answered(b)
<1>1. /\ a \o b \in Seq(Response) /\ Len(a \o b) = n + Len(b) /\ n \in Nat /\ Len(b) \in Nat
      /\ \A i \in 1..n : (a \o b)[i] = a[i]
      /\ \A i \in 1..Len(b) : (a \o b)[n + i] = b[i]
    BY ConcatIs
<1>2. /\ u \in Seq(Requests) /\ Len(u) = n /\ \A i \in 1..n : u[i] = a[i].req
      /\ v \in Seq(Requests) /\ Len(v) = Len(b) /\ \A i \in 1..Len(b) : v[i] = b[i].req
    BY AnsweredIs
<1> HIDE DEF u, v
<1>3. /\ u \o v \in Seq(Requests) /\ Len(u \o v) = n + Len(b)
      /\ \A i \in 1..n : (u \o v)[i] = u[i]
      /\ \A i \in 1..Len(b) : (u \o v)[n + i] = v[i]
    <2>1. /\ u \o v \in Seq(Requests) /\ Len(u \o v) = Len(u) + Len(v)
          /\ \A i \in 1..Len(u) : (u \o v)[i] = u[i]
          /\ \A i \in 1..Len(v) : (u \o v)[Len(u) + i] = v[i]
        <3>1. u \in Seq(Requests) /\ v \in Seq(Requests)
            BY <1>2
        <3> QED
            BY <3>1, ConcatIs
    <2> QED
        BY <1>2, <2>1
<1> HIDE DEF n
<1>4. ASSUME NEW i \in 1..Len(u \o v)
      PROVE  (a \o b)[i].req = (u \o v)[i]
    <2>1. CASE i <= n
        <3>1. i \in 1..n
            BY <1>1, <1>3, <2>1
        <3> QED
            BY <1>1, <1>2, <1>3, <3>1
    <2>2. CASE ~(i <= n)
        <3>1. i - n \in 1..Len(b) /\ i = n + (i - n)
            BY <1>1, <1>3, <2>2
        <3>2. (a \o b)[n + (i - n)] = b[i - n] /\ (u \o v)[n + (i - n)] = v[i - n]
            BY <1>1, <1>3, <3>1
        <3> QED
            BY <1>2, <3>1, <3>2
    <2> QED
        BY <2>1, <2>2
<1>5. Answers(r, a \o b) = Tally(u \o v, r)
    BY <1>1, <1>3, <1>4, AnswersTo
<1>6. Tally(u \o v, r) = Tally(u, r) + Tally(v, r)
    BY <1>2, TallyJoined
<1>7. Answers(r, a) = Tally(u, r) /\ Answers(r, b) = Tally(v, r)
    BY AnswersTally DEF u, v
<1> QED
    BY <1>1, <1>5, <1>6, <1>7

\* No response, no answer.
LEMMA AnswersNone ==
    ASSUME NEW r
    PROVE  <<>> \in Seq(Response) /\ Answers(r, <<>>) = 0
<1>1. {i \in DOMAIN <<>> : <<>>[i].req = r} = {}
    OBVIOUS
<1>2. Answers(r, <<>>) = 0
    BY <1>1, FS_EmptySet DEF Answers
<1> QED
    BY <1>2

\* One more response answers one more request.
LEMMA AnswersOne ==
    ASSUME NEW a \in Seq(Response), NEW x \in Response, NEW r
    PROVE  /\ Append(a, x) \in Seq(Response)
           /\ Answers(r, Append(a, x)) = Answers(r, a) + Tally(<<x.req>>, r)
<1>1. Append(a, x) = a \o <<x>> /\ <<x>> \in Seq(Response) /\ Append(a, x) \in Seq(Response)
    BY AppendIsConcat
<1>2. <<x.req>> \in Seq(Requests)
    BY DEF Response
<1>3. Answers(r, <<x>>) = Tally(<<x.req>>, r)
    <2>1. /\ Len(<<x>>) = 1 /\ Len(<<x.req>>) = 1
          /\ \A i \in 1..1 : <<x>>[i].req = <<x.req>>[i]
        OBVIOUS
    <2>2. /\ Len(<<x>>) = Len(<<x.req>>)
          /\ \A i \in 1..Len(<<x.req>>) : <<x>>[i].req = <<x.req>>[i]
        BY <2>1
    <2> QED
        BY <1>1, <1>2, <2>2, AnswersTo
<1>4. Answers(r, a \o <<x>>) = Answers(r, a) + Answers(r, <<x>>)
    BY <1>1, AnswersJoined
<1> QED
    BY <1>1, <1>3, <1>4

\* A fault for each request of a queue answers the queue.
LEMMA AnswersFaults ==
    ASSUME NEW q \in Seq(Requests), NEW code \in FaultCode, NEW r
    PROVE  /\ Faults(q, code) \in Seq(Response)
           /\ Answers(r, Faults(q, code)) = Tally(q, r)
<1>1. Faults(q, code) \in Seq(Response) /\ Len(Faults(q, code)) = Len(q)
    BY FaultsAreResponses
<1>2. \A i \in 1..Len(q) : Faults(q, code)[i].req = q[i]
    BY DEF Faults
<1> QED
    BY <1>1, <1>2, AnswersTo

\* Every subscription in f has a number for its next message.
Numbering(f) == \A s \in Subs : f[s].next \in Nat

\* #_feed_closed_subscription answers the oldest requests, and leaves the rest.
LEMMA AnswersFarewells ==
    ASSUME NEW f, Numbering(f),
           NEW cl \in Seq(Farewell), NEW q \in Seq(Requests),
           NEW n \in Nat, n <= Len(cl), n <= Len(q), NEW r
    PROVE  /\ FarewellReplies(f, cl, q, n) \in Seq(Response)
           /\ From(q, n) \in Seq(Requests)
           /\ Answers(r, FarewellReplies(f, cl, q, n)) + Tally(From(q, n), r) = Tally(q, r)
<1> DEFINE a == SubSeq(q, 1, n)
           w == FarewellReplies(f, cl, q, n)
<1>1. w \in Seq(Response)
    BY FarewellRepliesAre DEF Numbering
<1>2. Len(w) = n /\ \A i \in 1..n : w[i].req = q[i]
    BY DEF FarewellReplies, Reply
<1>3. /\ a \in Seq(Requests) /\ From(q, n) \in Seq(Requests) /\ Len(a) = n
      /\ \A i \in 1..n : a[i] = q[i]
      /\ Tally(a, r) + Tally(From(q, n), r) = Tally(q, r)
    BY TallyFrom
<1> HIDE DEF a, w
<1>4. Len(w) = Len(a) /\ \A i \in 1..Len(a) : w[i].req = a[i]
    BY <1>2, <1>3
<1>5. Answers(r, w) = Tally(a, r)
    BY <1>1, <1>3, <1>4, AnswersTo
<1> QED
    BY <1>1, <1>3, <1>5 DEF w

-----------------------------------------------------------------------------
(***************************************************************************)
(* What a step does to the requests.                                       *)
(***************************************************************************)
\* A request is in one queue, and there once.
Alone(r) ==
    \A e \in Engines :
        /\ Tally(queue[e], r) <= 1
        /\ \A d \in Engines : (d # e /\ Tally(queue[e], r) = 1) => Tally(queue[d], r) = 0

QueuedOnce == \A r \in Requests : Alone(r)

\* The step works on the queue of e, that holds q0 at first, and answers the
\* requests it takes out of it.
Settles(e, q0) ==
    /\ \A d \in Engines : d # e => queue'[d] = queue[d]
    /\ \A r \in Requests : Tally(queue'[e], r) + Answers(r, out') = Tally(q0, r)

\* q0 is q, or q with a request that was not in flight.
Offered(q, q0) ==
    q0 = q \/ \E x \in Requests : x \notin InFlight /\ q0 = Append(q, x)

AnswersStep ==
    \E e \in Engines : \E q0 \in Seq(Requests) : Offered(queue[e], q0) /\ Settles(e, q0)

AnsweredProperly(r) ==
    LET before == r \in InFlight
        after  == r \in InFlight'
    IN  /\ before /\ ~after => Answers(r, out') = 1
        /\ after => Answers(r, out') = 0
        /\ ~before => Answers(r, out') <= 1

\* A request is in flight when some queue has it.
LEMMA InFlightTally ==
    ASSUME NEW r, \A e \in Engines : queue[e] \in Seq(Requests)
    PROVE  /\ \A e \in Engines : Tally(queue[e], r) \in Nat
           /\ r \in InFlight <=> \E e \in Engines : Tally(queue[e], r) # 0
<1>1. ASSUME NEW e \in Engines
      PROVE  /\ Tally(queue[e], r) \in Nat
             /\ r \in Queued(e) <=> Tally(queue[e], r) # 0
    <2>1. queue[e] \in Seq(Requests)
        OBVIOUS
    <2>2. /\ Tally(queue[e], r) \in Nat
          /\ Tally(queue[e], r) = 0 <=> \A i \in 1..Len(queue[e]) : queue[e][i] # r
        BY <2>1, TallyIs
    <2>3. r \in Queued(e) <=> \E i \in 1..Len(queue[e]) : queue[e][i] = r
        BY <2>1 DEF Queued
    <2> QED
        BY <2>2, <2>3
<1>2. r \in InFlight <=> \E e \in Engines : r \in Queued(e)
    BY DEF InFlight
<1> QED
    BY <1>1, <1>2

\* After the step, too.
LEMMA InFlightTallyAfter ==
    ASSUME NEW r, \A e \in Engines : queue'[e] \in Seq(Requests)
    PROVE  /\ \A e \in Engines : Tally(queue'[e], r) \in Nat
           /\ r \in InFlight' <=> \E e \in Engines : Tally(queue'[e], r) # 0
<1>1. ASSUME NEW e \in Engines
      PROVE  /\ Tally(queue'[e], r) \in Nat
             /\ r \in Queued(e)' <=> Tally(queue'[e], r) # 0
    <2>1. queue'[e] \in Seq(Requests)
        OBVIOUS
    <2>2. /\ Tally(queue'[e], r) \in Nat
          /\ Tally(queue'[e], r) = 0 <=> \A i \in 1..Len(queue'[e]) : queue'[e][i] # r
        BY <2>1, TallyIs
    <2>3. r \in Queued(e)' <=> \E i \in 1..Len(queue'[e]) : queue'[e][i] = r
        BY <2>1 DEF Queued
    <2> QED
        BY <2>2, <2>3
<1>2. r \in InFlight' <=> \E e \in Engines : r \in Queued(e)'
    BY DEF InFlight
<1> QED
    BY <1>1, <1>2

\* A step that settles one queue keeps every request in one place, and answers
\* each that leaves.
LEMMA SettledProperly ==
    ASSUME NEW r \in Requests, Alone(r), AnswersStep,
           \A d \in Engines : queue[d] \in Seq(Requests),
           \A d \in Engines : queue'[d] \in Seq(Requests),
           out' \in Seq(Response)
    PROVE  Alone(r)' /\ AnsweredProperly(r)
<1> DEFINE a(d) == Tally(queue[d], r)
           b(d) == Tally(queue'[d], r)
           n    == Answers(r, out')
<1>1. PICK e \in Engines, q0 \in Seq(Requests) : Offered(queue[e], q0) /\ Settles(e, q0)
    BY DEF AnswersStep
<1>2. /\ \A d \in Engines : a(d) \in Nat
      /\ r \in InFlight <=> \E d \in Engines : a(d) # 0
    BY InFlightTally
<1>3. /\ \A d \in Engines : b(d) \in Nat
      /\ r \in InFlight' <=> \E d \in Engines : b(d) # 0
    BY InFlightTallyAfter
<1>4. n \in Nat /\ Tally(q0, r) \in Nat
    BY AnswersTally, TallyIs
<1>5. b(e) + n = Tally(q0, r)
    BY <1>1 DEF Settles
<1>6. \A d \in Engines : d # e => b(d) = a(d)
    BY <1>1 DEF Settles
<1>7. \/ Tally(q0, r) = a(e)
      \/ r \notin InFlight /\ Tally(q0, r) = 1
    <2>1. CASE q0 = queue[e]
        BY <2>1
    <2>2. CASE \E x \in Requests : x \notin InFlight /\ q0 = Append(queue[e], x)
        <3>1. PICK x \in Requests : x \notin InFlight /\ q0 = Append(queue[e], x)
            BY <2>2
        <3>2. Tally(q0, r) = a(e) + Tally(<<x>>, r)
            BY <3>1, TallyAppend
        <3>3. Tally(<<x>>, r) = IF x = r THEN 1 ELSE 0
            BY TallyOne
        <3>4. CASE x = r
            BY <1>2, <3>1, <3>2, <3>3, <3>4
        <3>5. CASE x # r
            BY <1>2, <3>2, <3>3, <3>5
        <3> QED
            BY <3>4, <3>5
    <2> QED
        BY <1>1, <2>1, <2>2 DEF Offered
<1>8. \A d \in Engines : a(d) <= 1 /\ \A c \in Engines : (c # d /\ a(d) = 1) => a(c) = 0
    BY DEF Alone
<1> HIDE DEF a, b, n
<1>9. Tally(q0, r) <= 1 /\ (Tally(q0, r) = 1 => \A d \in Engines : d # e => a(d) = 0)
    BY <1>2, <1>7, <1>8
<1>10. \A d \in Engines : b(d) <= 1 /\ \A c \in Engines : (c # d /\ b(d) = 1) => b(c) = 0
    <2>1. ASSUME NEW d \in Engines
          PROVE  b(d) <= 1
        BY <1>1, <1>3, <1>4, <1>5, <1>6, <1>8, <1>9
    <2>2. ASSUME NEW d \in Engines, NEW c \in Engines, c # d, b(d) = 1
          PROVE  b(c) = 0
        <3>1. CASE d = e
            BY <1>3, <1>4, <1>5, <1>6, <1>9, <2>2, <3>1
        <3>2. CASE c = e
            BY <1>2, <1>3, <1>4, <1>5, <1>6, <1>9, <2>2, <3>2
        <3>3. CASE d # e /\ c # e
            BY <1>6, <1>8, <2>2, <3>3
        <3> QED
            BY <3>1, <3>2, <3>3
    <2> QED
        BY <2>1, <2>2
<1>11. r \in InFlight /\ ~(r \in InFlight') => n = 1
    <2> SUFFICES ASSUME r \in InFlight, ~(r \in InFlight')
                 PROVE  n = 1
        OBVIOUS
    <2>1. PICK d \in Engines : a(d) # 0
        BY <1>2
    <2>2. b(d) = 0 /\ b(e) = 0
        BY <1>1, <1>3
    <2>3. d = e
        BY <1>6, <2>1, <2>2
    <2> QED
        BY <1>2, <1>4, <1>5, <1>7, <1>8, <2>1, <2>2, <2>3
<1>12. r \in InFlight' => n = 0
    <2> SUFFICES ASSUME r \in InFlight'
                 PROVE  n = 0
        OBVIOUS
    <2>1. PICK d \in Engines : b(d) # 0
        BY <1>3
    <2>2. CASE d = e
        BY <1>1, <1>3, <1>4, <1>5, <1>9, <2>1, <2>2
    <2>3. CASE d # e
        <3>1. a(d) # 0
            BY <1>6, <2>1, <2>3
        <3>2. Tally(q0, r) = 0
            BY <1>4, <1>9, <2>3, <3>1
        <3> QED
            BY <1>1, <1>3, <1>4, <1>5, <3>2
    <2> QED
        BY <2>2, <2>3
<1>13. n <= 1
    BY <1>1, <1>3, <1>4, <1>5, <1>9
<1>14. Alone(r)'
    BY <1>10 DEF Alone, b
<1>15. AnsweredProperly(r)
    BY <1>11, <1>12, <1>13 DEF AnsweredProperly, n
<1> QED
    BY <1>14, <1>15

-----------------------------------------------------------------------------
(***************************************************************************)
(* Every action answers what it takes out of a queue.                      *)
(***************************************************************************)
\* The requests of q0 are in q, or answered by responses.
Balanced(q, responses, q0) ==
    \A r \in Requests : Tally(q, r) + Answers(r, responses) = Tally(q0, r)

\* A step on the queue of e.
LEMMA Settled ==
    ASSUME queue \in [Engines -> Seq(Requests)], NEW e \in Engines,
           NEW q0 \in Seq(Requests), Offered(queue[e], q0),
           NEW w, queue' = [queue EXCEPT ![e] = w], Balanced(w, out', q0)
    PROVE  AnswersStep
<1>1. queue'[e] = w /\ \A d \in Engines : d # e => queue'[d] = queue[d]
    OBVIOUS
<1>2. Settles(e, q0)
    BY <1>1 DEF Settles, Balanced
<1> QED
    BY <1>2 DEF AnswersStep

\* A step that sends nothing and leaves the queues alone.
LEMMA QuietAnswers ==
    ASSUME queue \in [Engines -> Seq(Requests)], UNCHANGED queue, out' = <<>>
    PROVE  AnswersStep
<1>1. Orphan \in Engines /\ queue[Orphan] \in Seq(Requests)
    BY DEF Engines
<1>2. queue' = [queue EXCEPT ![Orphan] = queue[Orphan]]
    OBVIOUS
<1>3. Balanced(queue[Orphan], <<>>, queue[Orphan])
    BY <1>1, AnswersNone, TallyIs DEF Balanced
<1>4. Offered(queue[Orphan], queue[Orphan])
    BY DEF Offered
<1>5. Balanced(queue[Orphan], out', queue[Orphan])
    BY <1>3
<1> QED
    BY <1>1, <1>2, <1>4, <1>5, Settled

\* Spending the oldest request on a response.
LEMMA BalancedSpend ==
    ASSUME NEW q \in Seq(Requests), q # <<>>, NEW pre \in Seq(Response),
           NEW q0 \in Seq(Requests), Balanced(q, pre, q0),
           NEW x, x.req = Head(q), Append(pre, x) \in Seq(Response)
    PROVE  Balanced(Tail(q), Append(pre, x), q0)
<1>1. x \in Response
    <2>1. Len(pre) + 1 \in 1..Len(Append(pre, x)) /\ Append(pre, x)[Len(pre) + 1] = x
        OBVIOUS
    <2> QED
        BY <2>1
<1>2. ASSUME NEW r \in Requests
      PROVE  Tally(Tail(q), r) + Answers(r, Append(pre, x)) = Tally(q0, r)
    <2>1. Answers(r, Append(pre, x)) = Answers(r, pre) + Tally(<<x.req>>, r)
        BY <1>1, AnswersOne
    <2>2. Tail(q) \in Seq(Requests) /\ Tally(<<x.req>>, r) + Tally(Tail(q), r) = Tally(q, r)
        BY TallyTail
    <2>3. Tally(q, r) + Answers(r, pre) = Tally(q0, r)
        BY DEF Balanced
    <2>4. /\ Tally(Tail(q), r) \in Nat /\ Answers(r, pre) \in Nat
          /\ Tally(q, r) \in Nat
        BY <2>2, TallyIs, AnswersTally
    <2>5. Tally(<<x.req>>, r) \in Nat
        BY TallyOne
    <2> QED
        BY <2>1, <2>2, <2>3, <2>4, <2>5
<1> QED
    BY <1>2 DEF Balanced

\* Feeding n farewells spends the n oldest requests.
LEMMA BalancedFed ==
    ASSUME NEW q \in Seq(Requests), NEW pre \in Seq(Response),
           NEW q0 \in Seq(Requests), Balanced(q, pre, q0),
           NEW f, Numbering(f), NEW cl \in Seq(Farewell),
           NEW n \in Nat, n <= Len(cl), n <= Len(q)
    PROVE  /\ pre \o FarewellReplies(f, cl, q, n) \in Seq(Response)
           /\ From(q, n) \in Seq(Requests)
           /\ Balanced(From(q, n), pre \o FarewellReplies(f, cl, q, n), q0)
<1> DEFINE w == FarewellReplies(f, cl, q, n)
           rest == From(q, n)
<1>1. w \in Seq(Response) /\ rest \in Seq(Requests)
    BY FarewellRepliesAre, FromIs DEF Numbering
<1>2. ASSUME NEW r \in Requests
      PROVE  Answers(r, w) + Tally(rest, r) = Tally(q, r)
    <2> HIDE DEF w, rest
    <2>1. /\ FarewellReplies(f, cl, q, n) \in Seq(Response)
          /\ From(q, n) \in Seq(Requests)
          /\ Answers(r, FarewellReplies(f, cl, q, n)) + Tally(From(q, n), r) = Tally(q, r)
        BY AnswersFarewells
    <2> QED
        BY <2>1 DEF w, rest
<1> HIDE DEF w, rest
<1>3. pre \o w \in Seq(Response)
    BY <1>1
<1>4. ASSUME NEW r \in Requests
      PROVE  Tally(rest, r) + Answers(r, pre \o w) = Tally(q0, r)
    <2>1. Answers(r, pre \o w) = Answers(r, pre) + Answers(r, w)
        BY <1>1, AnswersJoined
    <2>2. Tally(q, r) + Answers(r, pre) = Tally(q0, r)
        BY DEF Balanced
    <2>3. /\ Tally(rest, r) \in Nat /\ Answers(r, pre) \in Nat
          /\ Tally(q, r) \in Nat /\ Answers(r, w) \in Nat
        BY <1>1, TallyIs, AnswersTally
    <2> QED
        BY <1>2, <2>1, <2>2, <2>3
<1>5. Balanced(rest, pre \o w, q0)
    BY <1>4 DEF Balanced
<1> QED
    BY <1>1, <1>3, <1>5 DEF w, rest

\* Refusing all that is left.
LEMMA BalancedRefused ==
    ASSUME NEW q \in Seq(Requests), NEW pre \in Seq(Response),
           NEW q0 \in Seq(Requests), Balanced(q, pre, q0), NEW code \in FaultCode
    PROVE  Balanced(<<>>, pre \o Faults(q, code), q0)
<1> DEFINE w == Faults(q, code)
<1>1. w \in Seq(Response)
    BY AnswersFaults
<1>2. \A r \in Requests : Answers(r, w) = Tally(q, r)
    BY AnswersFaults
<1> HIDE DEF w
<1>3. ASSUME NEW r \in Requests
      PROVE  Tally(<<>>, r) + Answers(r, pre \o w) = Tally(q0, r)
    <2>1. Answers(r, pre \o w) = Answers(r, pre) + Answers(r, w)
        BY <1>1, AnswersJoined
    <2>2. Tally(q, r) + Answers(r, pre) = Tally(q0, r)
        BY DEF Balanced
    <2>3. Answers(r, pre) \in Nat /\ Tally(q, r) \in Nat /\ Tally(<<>>, r) = 0
        BY TallyIs, AnswersTally, TallyEmpty
    <2> QED
        BY <1>2, <2>1, <2>2, <2>3
<1> QED
    BY <1>3 DEF Balanced, w

\* Nothing spent, nothing said.
LEMMA BalancedFirst ==
    ASSUME NEW q \in Seq(Requests)
    PROVE  <<>> \in Seq(Response) /\ Balanced(q, <<>>, q)
BY AnswersNone, TallyIs DEF Balanced

\* _process_keepAlive
LEMMA KeepAliveAnswers ==
    ASSUME queue \in [Engines -> Seq(Requests)], NEW s, sub[s].engine \in Engines,
           NEW u, NEW q \in Seq(Requests), NEW pre \in Seq(Response),
           NEW q0 \in Seq(Requests), Offered(queue[sub[s].engine], q0),
           Balanced(q, pre, q0), out' \in Seq(Response),
           ProcessKeepAlive(s, u, q, pre)
    PROVE  AnswersStep
<1> DEFINE e == sub[s].engine
           x == Reply(Head(q), s, IncreaseKeepAlive(u).next, <<>>)
<1>1. CASE queue' = [queue EXCEPT ![e] = q] /\ out' = pre
    <2>1. Balanced(q, out', q0)
        BY <1>1
    <2> QED
        BY <1>1, <2>1, Settled
<1>2. CASE q # <<>> /\ queue' = [queue EXCEPT ![e] = Tail(q)] /\ out' = Append(pre, x)
    <2>1. x.req = Head(q)
        BY DEF Reply
    <2> HIDE DEF x
    <2>2. Append(pre, x) \in Seq(Response)
        BY <1>2
    <2>3. Balanced(Tail(q), Append(pre, x), q0)
        BY <1>2, <2>1, <2>2, BalancedSpend
    <2>4. Balanced(Tail(q), out', q0)
        BY <1>2, <2>3
    <2> QED
        BY <1>2, <2>4, Settled
<1> QED
    BY <1>1, <1>2 DEF ProcessKeepAlive

\* process_subscription
LEMMA ProcessSubscriptionAnswers ==
    ASSUME queue \in [Engines -> Seq(Requests)], NEW s, sub[s].engine \in Engines,
           NEW u, NEW q \in Seq(Requests), q # <<>>, NEW pre \in Seq(Response),
           NEW q0 \in Seq(Requests), Offered(queue[sub[s].engine], q0),
           Balanced(q, pre, q0), out' \in Seq(Response),
           NEW im, ProcessSubscription(s, u, q, pre, im)
    PROVE  AnswersStep
<1> DEFINE e == sub[s].engine
           v == IF u.pending = <<>> /\ Uncollected(u) THEN Harvest(u) ELSE u
           x == Reply(Head(q), s, v.next, Batch(v))
<1>1. CASE ProcessKeepAlive(s, u, q, pre) \/ ProcessKeepAlive(s, v, q, pre)
    <2> HIDE DEF v
    <2> QED
        BY <1>1, KeepAliveAnswers
<1>2. CASE queue' = [queue EXCEPT ![e] = Tail(q)] /\ out' = Append(pre, x)
    <2>1. x.req = Head(q)
        BY DEF Reply
    <2> HIDE DEF x
    <2>2. Append(pre, x) \in Seq(Response)
        BY <1>2
    <2>3. Balanced(Tail(q), Append(pre, x), q0)
        BY <2>1, <2>2, BalancedSpend
    <2>4. Balanced(Tail(q), out', q0)
        BY <1>2, <2>3
    <2> QED
        BY <1>2, <2>4, Settled
<1> QED
    BY <1>1, <1>2 DEF ProcessSubscription

\* terminate and on_close_subscription
LEMMA TerminateAnswers ==
    ASSUME CoreInv, NEW s \in Subs, Live(s),
           NEW u, u.pending \in Seq(Notification), u.next \in Nat,
           NEW q \in Seq(Requests), NEW pre \in Seq(Response),
           NEW q0 \in Seq(Requests), Offered(queue[sub[s].engine], q0),
           Balanced(q, pre, q0), NEW deleting, Terminate(s, u, q, pre, deleting)
    PROVE  AnswersStep
<1> DEFINE e    == sub[s].engine
           owed == Statuses(u.pending)
           told == [i \in 1..Len(owed) |-> [sub |-> s, type |-> owed[i].type]]
           cl   == closed[e] \o told
           n    == Feedable(cl, q)
           rest == From(q, n)
           dead == [sub EXCEPT ![s] = Dead(u)]
           alone == OwnedBy(e) = {s} /\ Abandoned(From(cl, n), deleting)
           fed  == FarewellReplies(dead, cl, q, n)
<1>1. /\ e \in Engines /\ sub \in [Subs -> Subscription]
      /\ queue \in [Engines -> Seq(Requests)] /\ closed \in [Engines -> Seq(Farewell)]
    BY LiveHasEngine DEF CoreInv, SubsInv, EnginesInv
<1>2. told \in Seq(Farewell)
    <2>1. /\ owed \in Seq(Notification)
          /\ \A k \in 1..Len(owed) : owed[k].type \in Status
        BY StatusesAre
    <2> HIDE DEF owed
    <2>2. \A i \in 1..Len(owed) : [sub |-> s, type |-> owed[i].type] \in Farewell
        BY <2>1 DEF Farewell
    <2> QED
        BY <2>1, <2>2
<1> HIDE DEF told
<1>3. cl \in Seq(Farewell)
    BY <1>1, <1>2
<1>4. Numbering(dead)
    <2>1. Dead(u).next = u.next
        BY DEF Dead, Unborn
    <2>2. \A t \in Subs : sub[t].next \in Nat
        BY <1>1 DEF Subscription
    <2> QED
        BY <1>1, <2>1, <2>2 DEF Numbering
<1> HIDE DEF cl, dead
<1>5. n \in Nat /\ n <= Len(cl) /\ n <= Len(q)
    <2>1. Len(cl) \in Nat /\ Len(q) \in Nat
        BY <1>3
    <2> QED
        BY <2>1, AtMostIs DEF Feedable
<1> HIDE DEF n
<1>6. /\ pre \o fed \in Seq(Response) /\ rest \in Seq(Requests)
      /\ Balanced(rest, pre \o fed, q0)
    BY <1>3, <1>4, <1>5, BalancedFed
<1>7. /\ queue' = [queue EXCEPT ![e] = IF alone THEN <<>> ELSE rest]
      /\ out' = pre \o fed \o (IF alone THEN Faults(rest, "BadNoSubscription") ELSE <<>>)
    BY DEF Terminate, n, cl, told, dead
<1> HIDE DEF fed, rest, alone
<1>8. CASE alone
    <2>1. "BadNoSubscription" \in FaultCode
        BY DEF FaultCode
    <2>2. Balanced(<<>>, (pre \o fed) \o Faults(rest, "BadNoSubscription"), q0)
        BY <1>6, <2>1, BalancedRefused
    <2>3. queue' = [queue EXCEPT ![e] = <<>>] /\ Balanced(<<>>, out', q0)
        BY <1>7, <1>8, <2>2
    <2> QED
        BY <1>1, <2>3, Settled
<1>9. CASE ~alone
    <2>1. (pre \o fed) \o <<>> = pre \o fed
        BY <1>6, ConcatEmptySeq
    <2>2. queue' = [queue EXCEPT ![e] = rest] /\ Balanced(rest, out', q0)
        BY <1>6, <1>7, <1>9, <2>1
    <2> QED
        BY <1>1, <2>2, Settled
<1> QED
    BY <1>8, <1>9

\* _tick: the requests that timed out are refused, the others kept in order.
LEMMA BalancedTimeouts ==
    ASSUME NEW q0 \in Seq(Requests), NEW gone \in SUBSET (1..Len(q0))
    PROVE  /\ Pick(q0, DOMAIN q0 \ gone) \in Seq(Requests)
           /\ Faults(Pick(q0, gone), "BadTimeout") \in Seq(Response)
           /\ Balanced(Pick(q0, DOMAIN q0 \ gone), Faults(Pick(q0, gone), "BadTimeout"), q0)
<1> DEFINE kept == Pick(q0, DOMAIN q0 \ gone)
           late == Pick(q0, gone)
<1>1. late \in Seq(Requests)
    BY PickProperties
<1>2. DOMAIN q0 \ gone \in SUBSET (1..Len(q0))
    OBVIOUS
<1>3. kept \in Seq(Requests)
    BY <1>2, PickProperties
<1>4. ASSUME NEW r \in Requests
      PROVE  Tally(late, r) + Tally(kept, r) = Tally(q0, r)
    BY TallySplit
<1> HIDE DEF kept, late
<1>5. "BadTimeout" \in FaultCode
    BY DEF FaultCode
<1>6. Faults(late, "BadTimeout") \in Seq(Response)
    BY <1>1, <1>5, AnswersFaults
<1>7. ASSUME NEW r \in Requests
      PROVE  Tally(kept, r) + Answers(r, Faults(late, "BadTimeout")) = Tally(q0, r)
    <2>1. Answers(r, Faults(late, "BadTimeout")) = Tally(late, r)
        BY <1>1, <1>5, AnswersFaults
    <2>2. Tally(late, r) \in Nat /\ Tally(kept, r) \in Nat
        BY <1>1, <1>3, TallyIs
    <2> QED
        BY <1>4, <2>1, <2>2
<1>8. Balanced(kept, Faults(late, "BadTimeout"), q0)
    BY <1>7 DEF Balanced
<1> QED
    BY <1>3, <1>6, <1>8 DEF kept, late

\* _tick, whichever way it goes.
LEMMA TickAnswers ==
    ASSUME CoreInv, NEW s \in Subs, Live(s), NEW late, NEW im,
           out' \in Seq(Response), Tick(s, late, im)
    PROVE  AnswersStep
<1> DEFINE e    == sub[s].engine
           q0   == queue[e]
           gone == {i \in DOMAIN q0 : q0[i] \in late}
           q    == Pick(q0, DOMAIN q0 \ gone)
           pre  == Faults(Pick(q0, gone), "BadTimeout")
           u    == Aged(DiscardOldSent(sub[s]))
           ready == u.pending # <<>> \/ Uncollected(u)
           v    == IF u.pending = <<>> THEN Asked(u) ELSE u
           x    == Told(u, "BadTimeout")
<1>1. e \in Engines /\ queue \in [Engines -> Seq(Requests)] /\ sub[s] \in Subscription
    BY LiveHasEngine DEF CoreInv, EnginesInv
<1>2. q0 \in Seq(Requests)
    BY <1>1
<1> HIDE DEF q0
<1>3. gone \in SUBSET (1..Len(q0))
    BY <1>2
<1> HIDE DEF gone
<1>4. q \in Seq(Requests) /\ pre \in Seq(Response) /\ Balanced(q, pre, q0)
    BY <1>2, <1>3, BalancedTimeouts
<1>5. Offered(queue[e], q0)
    BY DEF Offered, q0
<1>6. x.pending \in Seq(Notification) /\ x.next \in Nat
    <2> DEFINE d == DiscardOldSent(sub[s])
    <2>1. d.pending \in Seq(Notification) /\ d.next \in Nat
        BY <1>1 DEF DiscardOldSent, Subscription
    <2>2. x.pending = Append(d.pending, StatusOf("BadTimeout")) /\ x.next = d.next
        <3>1. d.pending = sub[s].pending /\ d.next = sub[s].next /\ d \in Subscription
            <4>1. Continues(sub[s], d) /\ Sound(d)
                BY LiveHasEngine, DiscardContinues DEF CoreInv, Continues
            <4> QED
                BY <4>1 DEF Sound, DiscardOldSent
        <3>2. x = Told(Aged(d), "BadTimeout")
            OBVIOUS
        <3> HIDE DEF d, x, u
        <3> QED
            BY <3>1, <3>2, ToldPending
    <2>3. StatusOf("BadTimeout") \in Notification
        BY StatusNotification DEF Status
    <2> HIDE DEF x, d, u
    <2> QED
        BY <2>1, <2>2, <2>3
<1> HIDE DEF q, pre, v, x
<1>7. \/ Terminate(s, x, q, pre, FALSE)
      \/ queue' = [queue EXCEPT ![e] = q] /\ out' = pre
      \/ ProcessKeepAlive(s, v, q, pre)
      \/ q # <<>> /\ ProcessSubscription(s, v, q, pre, im)
    BY Zenon DEF Tick, u, v, q, q0, gone, pre, x
<1> HIDE DEF u
<1>8. CASE Terminate(s, x, q, pre, FALSE)
    BY <1>2, <1>4, <1>5, <1>6, <1>8, TerminateAnswers
<1>9. CASE queue' = [queue EXCEPT ![e] = q] /\ out' = pre
    <2>1. Balanced(q, out', q0)
        BY <1>4, <1>9
    <2> QED
        BY <1>1, <1>2, <1>5, <1>9, <2>1, Settled
<1>10. CASE ProcessKeepAlive(s, v, q, pre)
    BY <1>1, <1>2, <1>4, <1>5, <1>10, KeepAliveAnswers
<1>11. CASE q # <<>> /\ ProcessSubscription(s, v, q, pre, im)
    BY <1>1, <1>2, <1>4, <1>5, <1>11, ProcessSubscriptionAnswers
<1> QED
    BY <1>7, <1>8, <1>9, <1>10, <1>11

\* The callbacks of the event loop.
LEMMA TimersAnswer ==
    ASSUME IInv, IInv', Timers
    PROVE  AnswersStep
<1>1. out' \in Seq(Response) /\ queue \in [Engines -> Seq(Requests)]
    BY DEF IInv, LoopInv, CoreInv, EnginesInv
<1>2. ASSUME NEW s \in Subs, NEW late, NEW im, Live(s), Tick(s, late, im)
      PROVE  AnswersStep
    BY <1>1, <1>2, TickAnswers DEF IInv
<1>3. ASSUME UNCHANGED queue, out' = <<>>
      PROVE  AnswersStep
    BY <1>1, <1>3, QuietAnswers
<1>4. ASSUME NEW e \in Sessions, queue[e] # <<>>, Starving(e) # {},
             ProcessSubscription(Chosen(e), sub[Chosen(e)], queue[e], <<>>, Tail(immediates))
      PROVE  AnswersStep
    <2> DEFINE s == Chosen(e)
               q == queue[e]
    <2>1. s \in Starving(e)
        BY <1>4, ChosenStarves
    <2> HIDE DEF s
    <2>2. s \in Subs /\ sub[s].engine = e /\ e \in Engines
        BY <2>1 DEF Starving, OwnedBy, Engines
    <2>3. q \in Seq(Requests) /\ Offered(queue[sub[s].engine], q)
        BY <1>1, <2>2 DEF Offered
    <2>4. ProcessSubscription(s, sub[s], q, <<>>, Tail(immediates)) /\ q # <<>>
        BY <1>4 DEF s
    <2> HIDE DEF q
    <2>5. <<>> \in Seq(Response) /\ Balanced(q, <<>>, q)
        BY <2>3, BalancedFirst
    <2>6. sub[s].engine \in Engines
        BY <2>2
    <2> QED
        BY <1>1, <2>3, <2>4, <2>5, <2>6, ProcessSubscriptionAnswers
<1>5. ASSUME NEW s \in Subs, NEW late, TimerTick(s, late)
      PROVE  AnswersStep
    BY <1>2, <1>5 DEF TimerTick
<1>6. ASSUME NEW s \in Subs, NEW late, RunTick(s, late)
      PROVE  AnswersStep
    BY <1>2, <1>3, <1>6 DEF RunTick
<1>7. ASSUME NEW e \in Sessions, RunFeedLate(e)
      PROVE  AnswersStep
    BY <1>3, <1>4, <1>7 DEF RunFeedLate
<1> QED
    BY <1>5, <1>6, <1>7 DEF Timers

\* Refusing a whole queue at once.
LEMMA RefusalAnswers ==
    ASSUME queue \in [Engines -> Seq(Requests)], NEW e \in Engines, NEW code \in FaultCode,
           queue' = [queue EXCEPT ![e] = <<>>], out' = Faults(queue[e], code)
    PROVE  AnswersStep
<1> DEFINE q == queue[e]
<1>1. q \in Seq(Requests) /\ Offered(queue[e], q)
    BY DEF Offered
<1>2. queue' = [queue EXCEPT ![e] = <<>>] /\ out' = Faults(q, code)
    OBVIOUS
<1> HIDE DEF q
<1>3. <<>> \in Seq(Response) /\ Balanced(q, <<>>, q)
    BY <1>1, BalancedFirst
<1>4. Balanced(<<>>, <<>> \o Faults(q, code), q)
    BY <1>1, <1>3, BalancedRefused
<1>5. <<>> \o Faults(q, code) = Faults(q, code)
    BY <1>1, AnswersFaults, ConcatEmptySeq
<1>6. Balanced(<<>>, out', q)
    BY <1>2, <1>4, <1>5
<1> QED
    BY <1>1, <1>2, <1>6, Settled

\* _on_PublishRequest on an engine without subscriptions.
LEMMA PublishWithoutSubscriptionAnswers ==
    ASSUME IInv, NEW e \in Sessions, NEW r \in Requests, r \notin InFlight, NEW acks,
           PublishWithoutSubscription(e, r, acks)
    PROVE  AnswersStep
<1> DEFINE q  == queue[e]
           q0 == Append(q, r)
           cl == closed[e]
           w  == FarewellReplies(sub, cl, q0, 1)
<1>1. /\ e \in Engines /\ queue \in [Engines -> Seq(Requests)]
      /\ closed \in [Engines -> Seq(Farewell)] /\ sub \in [Subs -> Subscription]
    BY DEF IInv, CoreInv, SubsInv, EnginesInv, Engines
<1>2. q \in Seq(Requests) /\ cl \in Seq(Farewell)
    BY <1>1
<1>3. Offered(queue[e], q0)
    BY DEF Offered
<1>4. \/ /\ cl # <<>> /\ queue' = [queue EXCEPT ![e] = Tail(q0)] /\ out' = w
      \/ UNCHANGED queue /\ out' = Faults(<<r>>, "BadNoSubscription")
    BY <1>1 DEF PublishWithoutSubscription
<1>5. Numbering(sub)
    BY <1>1 DEF Numbering, Subscription
<1> HIDE DEF cl
<1>6. queue' = queue => queue' = [queue EXCEPT ![e] = q]
    BY <1>1
<1> HIDE DEF q
<1>7. q0 \in Seq(Requests) /\ Len(q0) = Len(q) + 1 /\ Len(q) \in Nat
    BY <1>2
<1>8. CASE cl # <<>> /\ queue' = [queue EXCEPT ![e] = Tail(q0)] /\ out' = w
    <2> HIDE DEF q0
    <2>1. 1 \in Nat /\ 1 <= Len(cl) /\ 1 <= Len(q0)
        BY <1>2, <1>7, <1>8
    <2>2. <<>> \in Seq(Response) /\ Balanced(q0, <<>>, q0)
        BY <1>7, BalancedFirst
    <2>3. <<>> \o w \in Seq(Response) /\ Balanced(From(q0, 1), <<>> \o w, q0)
        BY <1>2, <1>5, <1>7, <2>1, <2>2, BalancedFed
    <2>4. w \in Seq(Response)
        BY <1>2, <1>5, <1>7, <2>1, FarewellRepliesAre DEF Numbering
    <2> HIDE DEF w
    <2>5. <<>> \o w = w
        BY <2>4, ConcatEmptySeq
    <2>6. From(q0, 1) = Tail(q0)
        <3>1. q0 # <<>>
            BY <1>7, <2>1
        <3> QED
            BY <1>7, <3>1, TailIsSubSeq DEF From
    <2>7. Balanced(Tail(q0), out', q0)
        BY <1>8, <2>3, <2>5, <2>6
    <2> QED
        BY <1>1, <1>3, <1>7, <1>8, <2>7, Settled
<1>9. CASE UNCHANGED queue /\ out' = Faults(<<r>>, "BadNoSubscription")
    <2>1. ASSUME NEW x \in Requests
          PROVE  Tally(q, x) + Answers(x, out') = Tally(q0, x)
        <3>1. <<r>> \in Seq(Requests) /\ "BadNoSubscription" \in FaultCode
            BY DEF FaultCode
        <3>2. Answers(x, out') = Tally(<<r>>, x)
            BY <1>9, <3>1, AnswersFaults
        <3>3. Tally(q0, x) = Tally(q, x) + Tally(<<r>>, x)
            BY <1>2, TallyAppend
        <3> QED
            BY <3>2, <3>3
    <2>2. Balanced(q, out', q0)
        BY <2>1 DEF Balanced
    <2> HIDE DEF q0
    <2> QED
        BY <1>1, <1>3, <1>6, <1>7, <1>9, <2>2, Settled
<1> QED
    BY <1>4, <1>8, <1>9

\* _on_PublishRequest on an engine with subscriptions.
LEMMA PublishToSubscriptionsAnswers ==
    ASSUME IInv, NEW e \in Sessions, NEW r \in Requests, r \notin InFlight, NEW acks,
           PublishToSubscriptions(e, r, acks)
    PROVE  AnswersStep
<1> DEFINE q0 == Append(queue[e], r)
           cl == closed[e]
           n  == AtMost(1, Len(cl))
           q  == From(q0, n)
           w  == FarewellReplies(sub, cl, q0, n)
<1>1. /\ e \in Engines /\ queue \in [Engines -> Seq(Requests)]
      /\ closed \in [Engines -> Seq(Farewell)] /\ sub \in [Subs -> Subscription]
    BY DEF IInv, CoreInv, SubsInv, EnginesInv, Engines
<1>2. q0 \in Seq(Requests) /\ cl \in Seq(Farewell) /\ Len(q0) \in Nat /\ Len(q0) >= 1
    <2>1. queue[e] \in Seq(Requests) /\ closed[e] \in Seq(Farewell)
        BY <1>1
    <2> QED
        BY <2>1
<1>3. Offered(queue[e], q0)
    BY DEF Offered
<1>4. queue' = [queue EXCEPT ![e] = Kept(q)] /\ out' = w \o Refused(q)
    BY DEF PublishToSubscriptions
<1>5. Numbering(sub)
    BY <1>1 DEF Numbering, Subscription
<1> HIDE DEF cl, q0
<1>6. n \in Nat /\ n <= Len(cl) /\ n <= 1 /\ n <= Len(q0)
    <2>1. Len(cl) \in Nat
        BY <1>2
    <2>2. n \in Nat /\ n <= Len(cl) /\ n <= 1
        BY <2>1, AtMostIs
    <2> HIDE DEF n
    <2> QED
        BY <1>2, <2>2
<1> HIDE DEF n
<1>7. <<>> \in Seq(Response) /\ Balanced(q0, <<>>, q0)
    BY <1>2, BalancedFirst
<1>8. q \in Seq(Requests) /\ Balanced(q, <<>> \o w, q0)
    BY <1>2, <1>5, <1>6, <1>7, BalancedFed
<1>9. w \in Seq(Response)
    BY <1>2, <1>5, <1>6, FarewellRepliesAre DEF Numbering
<1> HIDE DEF w, q
<1>10. Balanced(q, w, q0)
    BY <1>8, <1>9, ConcatEmptySeq
<1>11. CASE Crowded(q)
    <2>1. q # <<>>
        BY <1>8, <1>11, Constants DEF Crowded
    <2>2. Head(q) \in Requests /\ Tail(q) \in Seq(Requests)
        BY <1>8, <2>1, HeadTailProperties
    <2> DEFINE x == [req |-> Head(q), result |-> "BadTooManyPublishRequests"]
    <2>3. Refused(q) = <<x>>
        BY <1>11 DEF Refused, Faults
    <2>4. x \in Response /\ x.req = Head(q)
        BY <2>2 DEF Response, FaultCode
    <2> HIDE DEF x
    <2>5. Append(w, x) = w \o <<x>> /\ Append(w, x) \in Seq(Response)
        BY <1>9, <2>4, AppendIsConcat
    <2>6. Balanced(Tail(q), Append(w, x), q0)
        BY <1>2, <1>8, <1>9, <1>10, <2>1, <2>4, <2>5, BalancedSpend
    <2>7. queue' = [queue EXCEPT ![e] = Tail(q)] /\ Balanced(Tail(q), out', q0)
        BY <1>4, <1>11, <2>3, <2>5, <2>6 DEF Kept
    <2> QED
        BY <1>1, <1>2, <1>3, <2>7, Settled
<1>12. CASE ~Crowded(q)
    <2>1. out' = w \o <<>> /\ queue' = [queue EXCEPT ![e] = q]
        BY <1>4, <1>12 DEF Kept, Refused
    <2>2. out' = w
        BY <1>9, <2>1, ConcatEmptySeq
    <2>3. Balanced(q, out', q0)
        BY <1>10, <2>2
    <2> QED
        BY <1>1, <1>2, <1>3, <2>1, <2>3, Settled
<1> QED
    BY <1>11, <1>12

\* ServerSession.deleteSubscription
LEMMA DeleteSubscriptionAnswers ==
    ASSUME IInv, NEW s \in Subs, DeleteSubscription(s)
    PROVE  AnswersStep
<1> DEFINE u == sub[s]
           q == queue[u.engine]
           deleting == u.engine # Orphan
<1>1. Live(s) /\ Terminate(s, u, q, <<>>, deleting)
    BY DEF DeleteSubscription
<1>2. u.engine \in Engines /\ u \in Subscription /\ queue \in [Engines -> Seq(Requests)]
    BY <1>1, LiveHasEngine DEF IInv, CoreInv, EnginesInv
<1>3. u.pending \in Seq(Notification) /\ u.next \in Nat
    BY <1>2 DEF Subscription
<1>4. q \in Seq(Requests) /\ Offered(queue[sub[s].engine], q)
    BY <1>2 DEF Offered
<1>5. <<>> \in Seq(Response) /\ Balanced(q, <<>>, q)
    BY <1>4, BalancedFirst
<1> HIDE DEF q, deleting, u
<1> QED
    BY <1>1, <1>3, <1>4, <1>5, TerminateAnswers DEF IInv

\* transferSubscription spends a request on the farewell, if there is one.
LEMMA TransferSubscriptionAnswers ==
    ASSUME IInv, IInv', NEW s \in Subs, NEW d, NEW resend, NEW fresh,
           TransferSubscription(s, d, resend, fresh)
    PROVE  AnswersStep
<1> DEFINE e == sub[s].engine
           q == queue[e]
           x == Reply(Head(q), s, sub[s].next, Batch(Transferring(sub[s])))
<1>1. \/ q # <<>> /\ queue' = [queue EXCEPT ![e] = Tail(q)] /\ out' = <<x>>
      \/ UNCHANGED queue /\ out' = <<>>
    <2>1. Live(s) /\ e \in Engines /\ queue \in [Engines -> Seq(Requests)]
        BY LiveHasEngine DEF TransferSubscription, IInv, CoreInv, EnginesInv
    <2> QED
        BY <2>1 DEF TransferSubscription
<1>2. e \in Engines /\ queue \in [Engines -> Seq(Requests)]
    BY LiveHasEngine DEF TransferSubscription, IInv, CoreInv, EnginesInv
<1>3. q \in Seq(Requests) /\ Offered(queue[e], q)
    BY <1>2 DEF Offered
<1>4. <<>> \in Seq(Response) /\ Balanced(q, <<>>, q)
    BY <1>3, BalancedFirst
<1>5. x.req = Head(q)
    BY DEF Reply
<1> HIDE DEF x, q
<1>6. CASE q # <<>> /\ queue' = [queue EXCEPT ![e] = Tail(q)] /\ out' = <<x>>
    <2>1. Append(<<>>, x) = <<x>> /\ out' \in Seq(Response)
        BY DEF IInv, LoopInv
    <2>2. Append(<<>>, x) \in Seq(Response)
        BY <1>6, <2>1
    <2>3. Balanced(Tail(q), Append(<<>>, x), q)
        BY <1>3, <1>4, <1>5, <1>6, <2>2, BalancedSpend
    <2>4. Balanced(Tail(q), out', q)
        BY <1>6, <2>1, <2>3
    <2> QED
        BY <1>2, <1>3, <1>6, <2>4, Settled
<1>7. CASE UNCHANGED queue /\ out' = <<>>
    BY <1>2, <1>7, QuietAnswers
<1> QED
    BY <1>1, <1>6, <1>7

\* The session closes: each request carries a farewell, or is cancelled.
LEMMA CloseSessionOnlyAnswers ==
    ASSUME IInv, IInv', NEW e \in Sessions, CloseSessionOnly(e)
    PROVE  AnswersStep
<1> DEFINE own  == OwnedBy(e)
           q    == queue[e]
           n    == AtMost(Cardinality(own), Len(q))
           nth(i) == CHOOSE s \in own : Rank(own, s) = i
           reply(i) == Reply(q[i], nth(i), sub[nth(i)].next, Batch(Transferring(sub[nth(i)])))
           w    == [i \in 1..n |-> reply(i)]
           rest == Faults(From(q, n), "BadSessionClosed")
           S    == {reply(i) : i \in 1..n} \cup Response
<1>1. queue' = [queue EXCEPT ![e] = <<>>] /\ out' = w \o rest
    BY DEF CloseSessionOnly
<1>2. /\ e \in Engines /\ queue \in [Engines -> Seq(Requests)] /\ q \in Seq(Requests)
      /\ out' \in Seq(Response) /\ "BadSessionClosed" \in FaultCode
    BY DEF IInv, CoreInv, EnginesInv, LoopInv, Engines, FaultCode
<1>3. n \in Nat /\ n <= Len(q)
    <2>1. own \in SUBSET Subs
        BY DEF OwnedBy
    <2>2. Cardinality(own) \in Nat /\ Len(q) \in Nat
        BY <1>2, <2>1, SubsFacts, FS_Subset, FS_CardinalityType
    <2> QED
        BY <2>2, AtMostIs
<1>4. \A i \in 1..n : reply(i).req = q[i]
    BY DEF Reply
<1>5. Offered(queue[e], q)
    BY DEF Offered
<1> HIDE DEF reply, n, q
<1>6. /\ SubSeq(q, 1, n) \in Seq(Requests) /\ From(q, n) \in Seq(Requests)
      /\ Len(SubSeq(q, 1, n)) = n /\ \A i \in 1..n : SubSeq(q, 1, n)[i] = q[i]
    BY <1>2, <1>3, TallyFrom
<1>7. rest \in Seq(Response)
    BY <1>2, <1>6, AnswersFaults
<1>8. w \in Seq(S) /\ Len(w) = n /\ \A i \in 1..n : w[i] = reply(i)
    BY <1>3
<1>9. rest \in Seq(S)
    <2>1. \A i \in 1..Len(rest) : rest[i] \in S
        BY <1>7
    <2> HIDE DEF rest, S
    <2> QED
        BY <1>7, <2>1
<1> HIDE DEF rest, w, S
<1>10. Len(out') = Len(w) + Len(rest) /\ \A i \in 1..Len(w) : out'[i] = w[i]
    BY <1>1, <1>8, <1>9, ConcatIs
<1>11. w \in Seq(Response)
    <2>1. \A i \in 1..Len(w) : w[i] \in Response
        <3>1. Len(w) \in Nat /\ Len(rest) \in Nat
            BY <1>7, <1>8
        <3> QED
            BY <1>2, <1>10, <3>1
    <2> QED
        BY <1>8, <2>1
<1>12. ASSUME NEW r \in Requests
       PROVE  Tally(From(q, n), r) + Answers(r, w) = Tally(q, r)
    <2> DEFINE a == SubSeq(q, 1, n)
    <2>1. Tally(a, r) + Tally(From(q, n), r) = Tally(q, r)
        BY <1>2, <1>3, TallyFrom
    <2>2. a \in Seq(Requests) /\ Len(w) = Len(a) /\ \A i \in 1..Len(a) : w[i].req = a[i]
        BY <1>4, <1>6, <1>8
    <2> HIDE DEF a
    <2>3. Answers(r, w) = Tally(a, r)
        BY <1>11, <2>2, AnswersTo
    <2>4. Tally(a, r) \in Nat /\ Tally(From(q, n), r) \in Nat
        BY <1>6, <2>2, TallyIs
    <2> QED
        BY <2>1, <2>3, <2>4
<1>13. Balanced(From(q, n), w, q)
    BY <1>12 DEF Balanced
<1>14. Balanced(<<>>, w \o Faults(From(q, n), "BadSessionClosed"), q)
    BY <1>2, <1>6, <1>11, <1>13, BalancedRefused
<1>15. Balanced(<<>>, out', q)
    BY <1>1, <1>14 DEF rest
<1> QED
    BY <1>1, <1>2, <1>5, <1>15, Settled

\* The services.
LEMMA ServicesAnswer ==
    ASSUME IInv, IInv', Services
    PROVE  AnswersStep
<1>1. queue \in [Engines -> Seq(Requests)] /\ Sessions \subseteq Engines
    BY DEF IInv, CoreInv, EnginesInv, Engines
<1>2. ASSUME UNCHANGED queue, out' = <<>>
      PROVE  AnswersStep
    BY <1>1, <1>2, QuietAnswers
<1>3. ASSUME NEW e \in Sessions, NEW s, NEW b, CreateSubscription(e, s, b)
      PROVE  AnswersStep
    BY <1>2, <1>3 DEF CreateSubscription
<1>4. ASSUME NEW e \in Sessions, NEW r \in Requests, NEW acks, PublishRequest(e, r, acks)
      PROVE  AnswersStep
    BY <1>4, PublishWithoutSubscriptionAnswers, PublishToSubscriptionsAnswers DEF PublishRequest
<1>5. ASSUME NEW s \in Subs, NEW b,
             \/ CallOnSubscription(s) \/ DeleteMonitoredItems(s)
             \/ ModifySubscription(s) \/ SetPublishingMode(s, b)
      PROVE  AnswersStep
    BY <1>2, <1>5 DEF CallOnSubscription, DeleteMonitoredItems, ModifySubscription,
       SetPublishingMode, Called
<1>6. ASSUME NEW e \in Sessions,
             CloseSessionAndSubscriptions(e) \/ ChangeChannel(e)
      PROVE  AnswersStep
    <2>1. "BadSessionClosed" \in FaultCode /\ "BadSecureChannelClosed" \in FaultCode
        BY DEF FaultCode
    <2>2. e \in Engines /\ queue' = [queue EXCEPT ![e] = <<>>]
        BY <1>1, <1>6 DEF CloseSessionAndSubscriptions, ChangeChannel
    <2>3. \E code \in FaultCode : out' = Faults(queue[e], code)
        BY <1>6, <2>1 DEF CloseSessionAndSubscriptions, ChangeChannel
    <2> QED
        BY <1>1, <2>2, <2>3, RefusalAnswers
<1> QED
    BY <1>3, <1>4, <1>5, <1>6, DeleteSubscriptionAnswers, TransferSubscriptionAnswers,
       CloseSessionOnlyAnswers DEF Services

\* Every step keeps each request in one place and answers what leaves.
LEMMA NextAnswers ==
    ASSUME IInv, IInv', QueuedOnce, Next
    PROVE  QueuedOnce' /\ \A r \in Requests : AnsweredProperly(r)
<1>1. AnswersStep
    <2>1. CASE \E s \in Subs : Notify(s)
        <3>1. queue \in [Engines -> Seq(Requests)]
            BY DEF IInv, CoreInv, EnginesInv
        <3> QED
            BY <2>1, <3>1, QuietAnswers DEF Notify
    <2> QED
        BY <2>1, TimersAnswer, ServicesAnswer DEF Next
<1>2. /\ \A d \in Engines : queue[d] \in Seq(Requests)
      /\ \A d \in Engines : queue'[d] \in Seq(Requests)
      /\ out' \in Seq(Response)
    BY DEF IInv, CoreInv, EnginesInv, LoopInv
<1>3. ASSUME NEW r \in Requests
      PROVE  Alone(r)' /\ AnsweredProperly(r)
    <2>1. Alone(r)
        BY DEF QueuedOnce
    <2> QED
        BY <1>1, <1>2, <2>1, SettledProperly
<1> QED
    BY <1>3 DEF QueuedOnce

\* A request waits in one queue at most, and once there: a client that sends
\* an id again while it is in flight is not in the model (PublishRequest).
THEOREM RequestsQueuedOnce == Spec => []QueuedOnce
<1>1. Init => QueuedOnce
    BY TallyEmpty DEF Init, QueuedOnce, Alone
<1>2. IInv /\ IInv' /\ QueuedOnce /\ [Next]_vars => QueuedOnce'
    <2>1. ASSUME QueuedOnce, UNCHANGED vars
          PROVE  QueuedOnce'
        BY <2>1 DEF vars, QueuedOnce, Alone
    <2> QED
        BY <2>1, NextAnswers
<1> QED
    BY <1>1, <1>2, Invariance, PTL DEF Spec

\* send_keep_alive_response, _publish_pending_notifications,
\* #_handle_too_many_requests, cancelPendingPublishRequest and the other ways
\* out of _publish_request_queue: a PublishRequest leaves the queue of its
\* session with one response, never with none and never with two.
THEOREM EachAnsweredOnce == Spec => AnsweredOnce
<1>1. ASSUME IInv, IInv', QueuedOnce, Next
      PROVE  \A r \in Requests : AnsweredProperly(r)
    BY <1>1, NextAnswers
<1>2. IInv /\ IInv' /\ QueuedOnce /\ [Next]_vars =>
         [\A r \in Requests :
             LET before == r \in InFlight
                 after  == r \in InFlight'
             IN  /\ before /\ ~after => Answers(r, out') = 1
                 /\ after => Answers(r, out') = 0
                 /\ ~before => Answers(r, out') <= 1]_vars
    BY <1>1 DEF AnsweredProperly
<1> QED
    BY <1>2, Invariance, RequestsQueuedOnce, PTL DEF Spec, AnsweredOnce

-----------------------------------------------------------------------------
(***************************************************************************)
(* Requests that no subscription will spend.                               *)
(***************************************************************************)
\* No engine comes to hold requests without a subscription.
NoneIdles == \A e \in Engines : Idle(e)' => Idle(e)

\* Subscriptions that stay where they are, on queues nothing is added to.
LEMMA StayingIdlesNone ==
    ASSUME \A t \in Subs : sub'[t].engine = sub[t].engine,
           \A e \in Engines : queue[e] = <<>> => queue'[e] = <<>>
    PROVE  NoneIdles
BY DEF NoneIdles, Idle, OwnedBy

\* A local step: no subscription moves, and no queue grows.
LEMMA LocalIdlesNone ==
    ASSUME CoreInv, NEW s \in Subs, Live(s), Local(s)
    PROVE  NoneIdles
<1> DEFINE e == sub[s].engine
<1>1. /\ e \in Engines /\ sub \in [Subs -> Subscription]
      /\ queue \in [Engines -> Seq(Requests)]
    BY LiveHasEngine DEF CoreInv, SubsInv, EnginesInv
<1>2. PICK v : \E w \in Seq(Requests) : OneStep(s, v, w)
    BY DEF Local
<1>3. PICK w \in Seq(Requests) : OneStep(s, v, w)
    BY <1>2
<1>4. v.engine = e /\ Len(w) <= Len(queue[e])
    BY <1>3 DEF OneStep, Continues
<1>5. \A t \in Subs : sub'[t].engine = sub[t].engine
    BY <1>1, <1>3, <1>4 DEF OneStep
<1>6. \A d \in Engines : queue[d] = <<>> => queue'[d] = <<>>
    <2>1. queue[e] = <<>> => w = <<>>
        BY <1>1, <1>4
    <2> QED
        BY <1>1, <1>3, <2>1 DEF OneStep
<1> QED
    BY <1>5, <1>6, StayingIdlesNone

\* terminate: when the last subscription goes, on_close_subscription refuses
\* the requests that no farewell takes, and no farewell waits beside others.
LEMMA TerminateIdlesNone ==
    ASSUME CoreInv, CoreInv', NEW s \in Subs, Live(s),
           NEW u, u.next \in Nat, u.next >= 1, NEW q, NEW pre, NEW deleting,
           Terminate(s, u, q, pre, deleting)
    PROVE  NoneIdles
<1> DEFINE e    == sub[s].engine
           owed == Statuses(u.pending)
           cl   == closed[e] \o
                   [i \in 1..Len(owed) |-> [sub |-> s, type |-> owed[i].type]]
           n    == Feedable(cl, q)
           dead == [sub EXCEPT ![s] = Dead(u)]
           alone == OwnedBy(e) = {s} /\ Abandoned(From(cl, n), deleting)
<1>1. /\ e \in Engines /\ sub \in [Subs -> Subscription]
      /\ queue \in [Engines -> Seq(Requests)] /\ closed \in [Engines -> Seq(Farewell)]
    BY LiveHasEngine DEF CoreInv, SubsInv, EnginesInv
<1>2. /\ sub' = Numbered(dead, cl, n)
      /\ closed' = [closed EXCEPT ![e] = From(cl, n)]
      /\ queue' = [queue EXCEPT ![e] = IF alone THEN <<>> ELSE From(q, n)]
    BY DEF Terminate
<1> HIDE DEF cl, n, alone
<1>3. /\ dead \in [Subs -> Subscription] /\ \A t \in Subs \ {s} : dead[t] = sub[t]
    <2>1. Dead(u) \in Subscription
        BY DeadSound DEF Sound
    <2> QED
        BY <1>1, <2>1
<1> HIDE DEF dead
<1>4. \A t \in Subs \ {s} : sub'[t].engine = sub[t].engine
    <2>1. ASSUME NEW t \in Subs \ {s}
          PROVE  sub'[t].engine = sub[t].engine
        <3> DEFINE m == dead[t].next + Before(cl, n, t)
        <3>1. dead[t] = sub[t] /\ dead[t] \in Subscription
            BY <1>3
        <3>2. sub'[t] = [dead[t] EXCEPT !.next = m]
            BY <1>2 DEF Numbered
        <3> HIDE DEF m
        <3>3. sub'[t].engine = dead[t].engine
            BY <3>1, <3>2 DEF Subscription
        <3> QED
            BY <3>1, <3>3
    <2> QED
        BY <2>1
<1>5. ASSUME NEW d \in Engines, d # e, Idle(d)'
      PROVE  Idle(d)
    <2>1. queue'[d] = queue[d]
        BY <1>1, <1>2, <1>5
    <2>2. OwnedBy(d) \subseteq OwnedBy(d)'
        BY <1>4, <1>5 DEF OwnedBy
    <2> QED
        BY <1>5, <2>1, <2>2 DEF Idle
<1>6. ASSUME NEW d \in Engines, d = e, Idle(d)'
      PROVE  FALSE
    <2>1. OwnedBy(d) = {s}
        BY <1>4, <1>6 DEF Idle, OwnedBy
    <2>2. queue'[d] = (IF alone THEN <<>> ELSE From(q, n)) /\ closed'[d] = From(cl, n)
        BY <1>1, <1>2, <1>6
    <2>3. ~alone
        BY <1>6, <2>2 DEF Idle
    <2>4. closed'[d] # <<>>
        BY <1>6, <2>1, <2>2, <2>3 DEF alone, Abandoned
    <2>5. queue'[d] = <<>>
        BY <2>4 DEF CoreInv, EnginesInv, ClosedDrainsQueue
    <2> QED
        BY <1>6, <2>5 DEF Idle
<1> QED
    BY <1>5, <1>6 DEF NoneIdles

\* _tick
LEMMA TickIdlesNone ==
    ASSUME IInv, CoreInv', NEW s \in Subs, Live(s), NEW late,
           NEW im \in Seq(Immediate), Tick(s, late, im)
    PROVE  NoneIdles
<1>1. CASE Ending(s)
    <2>1. PICK u : \E q \in Seq(Requests), pre \in Seq(Response) :
             /\ u.pending \in Seq(Notification) /\ u.next \in Nat /\ u.next >= 1
             /\ Len(q) <= Len(queue[sub[s].engine])
             /\ Terminate(s, u, q, pre, FALSE)
        BY <1>1 DEF Ending
    <2> QED
        BY <2>1, TerminateIdlesNone DEF IInv
<1>2. CASE Local(s)
    BY <1>2, LocalIdlesNone DEF IInv
<1> QED
    BY <1>1, <1>2, TickCases DEF IInv

\* The timers and the setImmediate callbacks.
LEMMA TimersIdleNone ==
    ASSUME IInv, CoreInv', Timers
    PROVE  NoneIdles
<1>1. immediates \in Seq(Immediate)
    BY DEF IInv, LoopInv
<1>2. ASSUME UNCHANGED <<sub, queue>>
      PROVE  NoneIdles
    BY <1>2, StayingIdlesNone
<1>3. ASSUME NEW s \in Subs, NEW late, TimerTick(s, late)
      PROVE  NoneIdles
    BY <1>1, <1>3, TickIdlesNone DEF TimerTick
<1>4. ASSUME NEW s \in Subs, NEW late, RunTick(s, late)
      PROVE  NoneIdles
    <2>1. Tail(immediates) \in Seq(Immediate)
        BY <1>1, <1>4 DEF RunTick, NextImmediate
    <2> QED
        BY <1>2, <1>4, <2>1, TickIdlesNone DEF RunTick
<1>5. ASSUME NEW e \in Sessions, RunFeedLate(e)
      PROVE  NoneIdles
    <2>1. Tail(immediates) \in Seq(Immediate)
        BY <1>1, <1>5 DEF RunFeedLate, NextImmediate
    <2>2. ASSUME queue[e] # <<>>, Starving(e) # {},
                 ProcessSubscription(Chosen(e), sub[Chosen(e)], queue[e], <<>>, Tail(immediates))
          PROVE  NoneIdles
        <3> DEFINE s == Chosen(e)
        <3>1. s \in Starving(e)
            BY <2>2, ChosenStarves
        <3>2. ProcessSubscription(s, sub[s], queue[e], <<>>, Tail(immediates))
            BY <2>2
        <3> HIDE DEF s
        <3>3. s \in Subs /\ sub[s].engine = e /\ e \in Engines /\ e # NoEngine
            BY <3>1, Constants DEF Starving, OwnedBy, Engines
        <3>4. Live(s) /\ Sound(sub[s])
            BY <3>3 DEF IInv, CoreInv, SubsInv, Alive, Live
        <3>5. Continues(sub[s], sub[s])
            <4>1. sub[s].next \in Nat
                BY <3>4 DEF Sound, Subscription
            <4> QED
                BY <3>4, <4>1 DEF Continues
        <3>6. /\ queue[e] \in Seq(Requests) /\ Len(queue[e]) <= Len(queue[sub[s].engine])
              /\ <<>> \in Seq(Response)
            BY <3>3 DEF IInv, CoreInv, EnginesInv
        <3>7. Local(s)
            BY <2>1, <2>2, <3>2, <3>3, <3>4, <3>5, <3>6, ProcessSubscriptionLocal DEF IInv
        <3> QED
            BY <3>3, <3>4, <3>7, LocalIdlesNone DEF IInv
    <2> QED
        BY <1>2, <1>5, <2>2 DEF RunFeedLate
<1> QED
    BY <1>3, <1>4, <1>5 DEF Timers

\* The service calls that change one subscription, and the monitored items.
LEMMA CallsIdleNone ==
    ASSUME CoreInv, NEW s \in Subs, NEW b,
           \/ CallOnSubscription(s) \/ DeleteMonitoredItems(s)
           \/ ModifySubscription(s) \/ SetPublishingMode(s, b) \/ Notify(s)
    PROVE  NoneIdles
<1> DEFINE u == sub[s]
<1>1. sub \in [Subs -> Subscription] /\ u \in Subscription /\ UNCHANGED queue
    BY DEF CoreInv, SubsInv, CallOnSubscription, DeleteMonitoredItems, ModifySubscription,
       SetPublishingMode, Notify, Called
<1>2. /\ ResetCounters(u).engine = u.engine /\ ItemsDeleted(u).engine = u.engine
      /\ [u EXCEPT !.lifeTime = 0, !.keepAlive = MaxKeepAliveCount - 1].engine = u.engine
      /\ ModeSet(u, b).engine = u.engine /\ Notified(u).engine = u.engine
    BY <1>1 DEF ResetCounters, ItemsDeleted, ModeSet, Notified, Subscription
<1>3. PICK v : v.engine = u.engine /\ sub' = [sub EXCEPT ![s] = v]
    BY <1>2 DEF CallOnSubscription, DeleteMonitoredItems, ModifySubscription, SetPublishingMode, Notify
<1>4. \A t \in Subs : sub'[t].engine = sub[t].engine
    BY <1>1, <1>3
<1> QED
    BY <1>1, <1>4, StayingIdlesNone

\* CreateSubscription gives an engine one more subscription.
LEMMA CreateIdlesNone ==
    ASSUME CoreInv, NEW e \in Sessions, NEW s \in Subs, NEW b, CreateSubscription(e, s, b)
    PROVE  NoneIdles
<1>1. sub[s].engine = NoEngine /\ NoEngine \notin Engines
    BY Constants DEF CoreInv, SubsInv, CreateSubscription, Alive
<1>2. \A t \in Subs \ {s} : sub'[t] = sub[t]
    BY DEF CreateSubscription, CoreInv, SubsInv
<1>3. \A d \in Engines : OwnedBy(d) \subseteq OwnedBy(d)' /\ queue'[d] = queue[d]
    BY <1>1, <1>2 DEF OwnedBy, CreateSubscription
<1> QED
    BY <1>3 DEF NoneIdles, Idle

\* _on_PublishRequest: without a subscription, a farewell takes the request or
\* it is refused.
LEMMA PublishIdlesNone ==
    ASSUME IInv, NEW e \in Sessions, NEW r \in Requests, NEW acks,
           PublishRequest(e, r, acks)
    PROVE  NoneIdles
<1> DEFINE n   == AtMost(1, Len(closed[e]))
           got == Acknowledged(e, acks)
<1>1. /\ e \in Engines /\ sub \in [Subs -> Subscription] /\ \A t \in Subs : Sound(sub[t])
      /\ queue \in [Engines -> Seq(Requests)] /\ closed \in [Engines -> Seq(Farewell)]
      /\ closed[e] # <<>> => queue[e] = <<>>
    BY DEF IInv, CoreInv, SubsInv, EnginesInv, ClosedDrainsQueue, Engines
<1>2. n \in Nat
    <2>1. Len(closed[e]) \in Nat
        BY <1>1
    <2> QED
        BY <2>1, AtMostIs
<1> HIDE DEF n
<1>3. sub' = Numbered(got, closed[e], n)
    BY DEF PublishRequest, PublishWithoutSubscription, PublishToSubscriptions, n
<1>4. \A t \in Subs : sub'[t].engine = sub[t].engine
    <2>1. got \in [Subs -> Subscription] /\ \A t \in Subs : Sound(got[t]) /\ got[t].engine = sub[t].engine
        BY <1>1, AcknowledgedSound
    <2> HIDE DEF got
    <2> QED
        BY <1>2, <1>3, <2>1, NumberedSound
<1>5. CASE PublishWithoutSubscription(e, r, acks)
    <2>1. CASE queue' = queue
        BY <1>4, <2>1, StayingIdlesNone
    <2>2. CASE closed[e] # <<>> /\ queue' = [queue EXCEPT ![e] = Tail(Append(queue[e], r))]
        <3>1. Tail(Append(queue[e], r)) = <<>>
            <4>1. Append(queue[e], r) \in Seq(Requests) /\ Len(Append(queue[e], r)) = 1
                <5>1. Len(queue[e]) = 0
                    BY <1>1, <2>2
                <5> QED
                    BY <1>1, <5>1
            <4> QED
                BY <4>1, TailOfOne
        <3>2. \A d \in Engines : queue[d] = <<>> => queue'[d] = <<>>
            BY <1>1, <2>2, <3>1
        <3> QED
            BY <1>4, <3>2, StayingIdlesNone
    <2> QED
        BY <1>5, <2>1, <2>2 DEF PublishWithoutSubscription
<1>6. CASE PublishToSubscriptions(e, r, acks)
    <2>1. OwnedBy(e) # {} /\ \A d \in Engines \ {e} : queue'[d] = queue[d]
        BY <1>1, <1>6 DEF PublishToSubscriptions
    <2>2. \A d \in Engines : OwnedBy(d)' = OwnedBy(d)
        BY <1>4 DEF OwnedBy
    <2> QED
        BY <2>1, <2>2 DEF NoneIdles, Idle
<1> QED
    BY <1>5, <1>6 DEF PublishRequest

\* The session closes, its requests are cancelled: what its subscriptions do
\* no longer matters, and the orphan engine has no request.
LEMMA ClosingIdlesNone ==
    ASSUME IInv, NEW e \in Sessions,
           \/ CloseSessionAndSubscriptions(e) \/ CloseSessionOnly(e) \/ ChangeChannel(e)
    PROVE  NoneIdles
<1>1. /\ sub \in [Subs -> Subscription] /\ e \in Engines
      /\ queue \in [Engines -> Seq(Requests)] /\ queue' = [queue EXCEPT ![e] = <<>>]
    BY DEF IInv, CoreInv, SubsInv, EnginesInv, Engines,
       CloseSessionAndSubscriptions, CloseSessionOnly, ChangeChannel
<1>2. \A t \in Subs : sub[t].engine # e => sub'[t] = sub[t]
    BY <1>1 DEF CloseSessionAndSubscriptions, CloseSessionOnly, ChangeChannel, OwnedBy
<1>3. \A d \in Engines \ {e} : OwnedBy(d) \subseteq OwnedBy(d)' /\ queue'[d] = queue[d]
    BY <1>1, <1>2 DEF OwnedBy
<1>4. queue'[e] = <<>>
    BY <1>1
<1> QED
    BY <1>3, <1>4 DEF NoneIdles, Idle

\* An engine that comes to hold requests without a subscription.
IdlesByTransfer ==
    \A e \in Engines : ~Idle(e) /\ Idle(e)' =>
        \E s \in Subs, d \in Sessions \ {e} :
            OwnedBy(e) = {s} /\ Live(s)' /\ sub'[s].engine = d

\* transferSubscription: the engine left behind may, no other does.
LEMMA TransferIdles ==
    ASSUME IInv, CoreInv', NEW s \in Subs, NEW d \in Sessions, NEW resend \in BOOLEAN, NEW fresh,
           TransferSubscription(s, d, resend, fresh)
    PROVE  IdlesByTransfer
<1> DEFINE arrived(u) == IF resend THEN Resent(Moved(u, d), fresh) ELSE Moved(u, d)
<1>1. /\ Live(s) /\ sub[s].engine \in Engines /\ sub[s].engine # d /\ d \in Engines
      /\ sub \in [Subs -> Subscription] /\ queue \in [Engines -> Seq(Requests)]
    BY LiveHasEngine DEF TransferSubscription, IInv, CoreInv, SubsInv, EnginesInv, Engines
<1>2. /\ \A c \in Engines : c # sub[s].engine => queue'[c] = queue[c]
      /\ \A t \in Subs \ {s} : sub'[t] = sub[t]
    BY <1>1 DEF TransferSubscription
<1>3. sub'[s].engine = d /\ Live(s)'
    <2>1. ASSUME NEW u, Sound(u), Alive(u)
          PROVE  Alive(arrived(u)) /\ arrived(u).engine = d
        <3>1. Sound(Moved(u, d)) /\ Alive(Moved(u, d)) /\ Moved(u, d).engine = d
            BY <1>1, <2>1, MovedSound
        <3>2. Continues(Moved(u, d), Resent(Moved(u, d), fresh))
            BY <3>1, ResentContinues
        <3> QED
            BY <3>1, <3>2 DEF Continues
    <2>2. Sound(sub[s]) /\ Alive(sub[s])
        BY <1>1, LiveHasEngine DEF IInv, CoreInv
    <2> DEFINE told == Transferring(sub[s])
    <2>3. Continues(sub[s], told) /\ told.pending # <<>> /\ Sound(told)
        BY <2>2, ToldContinues DEF Transferring, Status, Continues
    <2> HIDE DEF told
    <2>4. Sound(Published(told)) /\ Alive(Published(told))
        BY <2>2, <2>3, PublishedContinues DEF Continues
    <2>5. \/ sub' = [sub EXCEPT ![s] = arrived(Published(told))]
          \/ sub' = [sub EXCEPT ![s] = arrived(sub[s])]
        BY DEF TransferSubscription, told
    <2> HIDE DEF arrived
    <2>6. Alive(sub'[s]) /\ sub'[s].engine = d
        BY <1>1, <2>1, <2>2, <2>4, <2>5
    <2> QED
        BY <2>6 DEF Live, Alive
<1>4. ASSUME NEW e \in Engines, ~Idle(e), Idle(e)'
      PROVE  \E t \in Subs, c \in Sessions \ {e} :
                OwnedBy(e) = {t} /\ Live(t)' /\ sub'[t].engine = c
    <2>1. \A t \in Subs \ {s} : sub[t].engine # e
        BY <1>2, <1>4 DEF Idle, OwnedBy
    <2>2. sub[s].engine = e
        BY <1>2, <1>4, <2>1 DEF Idle, OwnedBy
    <2>3. OwnedBy(e) = {s} /\ d \in Sessions \ {e}
        BY <1>1, <2>1, <2>2 DEF OwnedBy
    <2> QED
        BY <1>3, <2>3
<1> QED
    BY <1>4 DEF IdlesByTransfer

\* Every step.
LEMMA NextIdles ==
    ASSUME IInv, IInv', Next
    PROVE  IdlesByTransfer
<1>1. ASSUME NoneIdles
      PROVE  IdlesByTransfer
    BY <1>1 DEF NoneIdles, IdlesByTransfer
<1>2. CASE Timers
    BY <1>1, <1>2, TimersIdleNone DEF IInv
<1>3. CASE \E s \in Subs : Notify(s)
    BY <1>1, <1>3, CallsIdleNone DEF IInv
<1>4. CASE Services
    <2>1. ASSUME NEW e \in Sessions, NEW s \in Subs, NEW b, CreateSubscription(e, s, b)
          PROVE  NoneIdles
        BY <2>1, CreateIdlesNone DEF IInv
    <2>2. ASSUME NEW e \in Sessions, NEW r \in Requests, NEW acks, PublishRequest(e, r, acks)
          PROVE  NoneIdles
        BY <2>2, PublishIdlesNone
    <2>3. ASSUME NEW s \in Subs, NEW b,
                 \/ CallOnSubscription(s) \/ DeleteMonitoredItems(s)
                 \/ ModifySubscription(s) \/ SetPublishingMode(s, b)
          PROVE  NoneIdles
        BY <2>3, CallsIdleNone DEF IInv
    <2>4. ASSUME NEW s \in Subs, DeleteSubscription(s)
          PROVE  NoneIdles
        <3>1. Live(s) /\ Terminate(s, sub[s], queue[sub[s].engine], <<>>, sub[s].engine # Orphan)
            BY <2>4 DEF DeleteSubscription
        <3>2. sub[s].next \in Nat /\ sub[s].next >= 1
            BY DEF IInv, CoreInv, SubsInv, Sound, Subscription
        <3> QED
            BY <3>1, <3>2, TerminateIdlesNone DEF IInv
    <2>5. ASSUME NEW e \in Sessions,
                 CloseSessionAndSubscriptions(e) \/ CloseSessionOnly(e) \/ ChangeChannel(e)
          PROVE  NoneIdles
        BY <2>5, ClosingIdlesNone
    <2>6. ASSUME NEW s \in Subs, NEW d \in Sessions, NEW b \in BOOLEAN, NEW fresh,
                 TransferSubscription(s, d, b, fresh)
          PROVE  IdlesByTransfer
        BY <2>6, TransferIdles DEF IInv
    <2> QED
        BY <1>1, <1>4, <2>1, <2>2, <2>3, <2>4, <2>5, <2>6 DEF Services
<1> QED
    BY <1>2, <1>3, <1>4 DEF Next

\* terminate, on_close_subscription, deleteSubscription, cancelPendingPublishRequest
\* and _on_PublishRequest: in none of their interleavings is a request left
\* where no subscription will spend it; only transferSubscription, which takes
\* the last subscription of a session to another and leaves the requests.
THEOREM OnlyTransfersIdle == Spec => IdleByTransferOnly
<1>1. IInv /\ IInv' /\ [Next]_vars =>
         [\A e \in Engines : ~Idle(e) /\ Idle(e)' =>
             \E s \in Subs, d \in Sessions \ {e} :
                OwnedBy(e) = {s} /\ Live(s)' /\ sub'[s].engine = d]_vars
    BY NextIdles DEF IdlesByTransfer
<1> QED
    BY <1>1, Invariance, PTL DEF Spec, IdleByTransferOnly

-----------------------------------------------------------------------------
(***************************************************************************)
(* What a step does to the stream of one subscription: u before, v after,  *)
(* heard the messages of the step.  These are the actions of               *)
(* NotificationStream, of records.                                         *)
(***************************************************************************)
\* The places of the messages of s, and the messages.
Mine(responses, s) ==
    {i \in DOMAIN responses : responses[i].result = "Good" /\ responses[i].sub = s}

Heard(x) == [seq |-> x.seq, body |-> [j \in DOMAIN x.body |-> x.body[j].value]]

HeardIn(responses, s) ==
    LET mine == Pick(responses, Mine(responses, s))
    IN  [i \in DOMAIN mine |-> Heard(mine[i])]

\* The message with number n.
Msg(n, body) == [seq |-> n, body |-> body]

SaidData(u, rest, v, heard) ==
    \E n \in 1..MaxNotificationsPerPublish :
        /\ u.delivered + n <= u.produced
        /\ heard = <<Msg(u.next, [i \in 1..n |-> u.delivered + i])>>
        /\ v.delivered = u.delivered + n
        /\ v.sent = rest \cup {u.next}
        /\ v.next = u.next + 1

SaidNotice(u, rest, v, heard) ==
    /\ heard = <<Msg(u.next, <<0>>)>>
    /\ v.sent = rest \cup {u.next}
    /\ v.next = u.next + 1
    /\ v.delivered = u.delivered

SaidKeepAlive(u, rest, v, heard) ==
    /\ heard = <<Msg(u.next, <<>>)>>
    /\ v.sent = rest
    /\ v.next = u.next /\ v.delivered = u.delivered

SaidNothing(u, rest, v, heard) ==
    /\ heard = <<>>
    /\ v.sent = rest
    /\ v.next = u.next /\ v.delivered = u.delivered

Trim(u) == {n \in u.sent : Cardinality({m \in u.sent : m > n}) < MaxSentMessages}

Cycles(u, v, heard) ==
    /\ Alive(u) /\ Alive(v)
    /\ \E rest \in {Trim(u), u.sent} :
          \/ SaidData(u, rest, v, heard) \/ SaidNotice(u, rest, v, heard)
          \/ SaidKeepAlive(u, rest, v, heard) \/ SaidNothing(u, rest, v, heard)
    /\ v.produced = u.produced

Moves(u, v, heard) ==
    /\ Alive(u) /\ Alive(v)
    /\ \/ SaidData(u, u.sent, v, heard) \/ SaidNotice(u, u.sent, v, heard)
       \/ SaidNothing(u, u.sent, v, heard)
    /\ v.produced \in {u.produced, u.produced + 1}

\* u and v are at the same point of their stream.
Same(u, v) ==
    /\ v.next = u.next /\ v.sent = u.sent
    /\ v.produced = u.produced /\ v.delivered = u.delivered

Opens(u, v, heard) ==
    u.state = "NONE" /\ Alive(v) /\ Same(u, v) /\ heard = <<>>

Produces(u, v, heard) ==
    /\ Alive(u) /\ Alive(v) /\ heard = <<>>
    /\ v.produced = u.produced + 1
    /\ v.next = u.next /\ v.sent = u.sent /\ v.delivered = u.delivered

Withdraws(u, v, heard) ==
    /\ Alive(u) /\ Alive(v) /\ heard = <<>>
    /\ v.delivered = u.produced
    /\ v.next = u.next /\ v.sent = u.sent /\ v.produced = u.produced

Ends(u, v, heard) ==
    /\ Alive(u) /\ v.state = "CLOSED"
    /\ v.next >= u.next
    /\ heard = [i \in 1..(v.next - u.next) |-> Msg(u.next + i - 1, <<0>>)]
    /\ v.sent = {} /\ v.produced = 0 /\ v.delivered = 0

IsLate(u, v, heard) ==
    /\ u.state # "NONE" /\ v.state = u.state
    /\ heard = <<Msg(u.next, <<0>>)>>
    /\ v.next = u.next + 1
    /\ v.sent = u.sent /\ v.produced = u.produced /\ v.delivered = u.delivered

IsSilent(u, v, heard) ==
    (v.state = u.state \/ (Alive(u) /\ Alive(v))) /\ Same(u, v) /\ heard = <<>>

Acknowledges(u, v, n, heard) ==
    /\ Alive(u) /\ Alive(v) /\ heard = <<>>
    /\ n \in u.sent /\ v.sent = u.sent \ {n}
    /\ v.next = u.next /\ v.produced = u.produced /\ v.delivered = u.delivered

\* All that happens to a stream but acknowledgements.
Evolves(u, v, heard) ==
    \/ Cycles(u, v, heard) \/ Moves(u, v, heard) \/ Opens(u, v, heard)
    \/ Produces(u, v, heard) \/ Withdraws(u, v, heard) \/ Ends(u, v, heard)
    \/ IsLate(u, v, heard) \/ IsSilent(u, v, heard)

\* These are the actions of the abstract stream of s.
LEMMA StreamSteps ==
    ASSUME NEW s \in Subs,
           \/ Evolves(sub[s], sub'[s], HeardIn(out', s))
           \/ \E n : Acknowledges(sub[s], sub'[s], n, HeardIn(out', s))
    PROVE  Stream(s)!Next
<1>1. Said(s)' = HeardIn(out', s)
    BY DEF Said, HeardIn, Heard, Mine
<1>2. Stream(s)!Trimmed = Trim(sub[s])
    <2>1. \A S : Stream(s)!Cardinality(S) = Cardinality(S)
        BY DEF Stream!Cardinality, Cardinality
    <2> QED
        BY <2>1 DEF Stream!Trimmed, Trim
<1> DEFINE h == HeardIn(out', s)
<1> HIDE DEF h
<1>3. Said(s)' = h
    BY <1>1 DEF h
<1>4. ASSUME NEW rest, SaidData(sub[s], rest, sub'[s], h)
      PROVE  Stream(s)!SendData(rest)
    BY <1>3, <1>4 DEF SaidData, Msg, Stream!SendData, Stream!Message
<1>5. ASSUME NEW rest, SaidNotice(sub[s], rest, sub'[s], h)
      PROVE  Stream(s)!SendNotice(rest)
    BY <1>3, <1>5 DEF SaidNotice, Msg, Stream!SendNotice, Stream!Notice, Stream!Message
<1>6. ASSUME NEW rest, SaidKeepAlive(sub[s], rest, sub'[s], h)
      PROVE  Stream(s)!SendKeepAlive(rest)
    BY <1>3, <1>6 DEF SaidKeepAlive, Msg, Stream!SendKeepAlive, Stream!Message
<1>7. ASSUME NEW rest, SaidNothing(sub[s], rest, sub'[s], h)
      PROVE  Stream(s)!SendNothing(rest)
    BY <1>3, <1>7 DEF SaidNothing, Stream!SendNothing
<1>8. ASSUME Cycles(sub[s], sub'[s], h)
      PROVE  Stream(s)!Cycle
    <2>1. Phase(s) = "open" /\ Phase(s)' = "open"
        BY <1>8 DEF Phase, Cycles, Alive
    <2> QED
        BY <1>2, <1>4, <1>5, <1>6, <1>7, <1>8, <2>1 DEF Cycles, Stream!Cycle
<1>9. ASSUME Moves(sub[s], sub'[s], h)
      PROVE  Stream(s)!Move
    <2>1. Phase(s) = "open" /\ Phase(s)' = "open"
        BY <1>9 DEF Phase, Moves, Alive
    <2> QED
        BY <1>4, <1>5, <1>7, <1>9, <2>1 DEF Moves, Stream!Move
<1>10. ASSUME Opens(sub[s], sub'[s], h)
      PROVE  Stream(s)!Open
    <2>1. Phase(s) = "unborn" /\ Phase(s)' = "open"
        BY <1>10 DEF Phase, Opens, Alive
    <2> QED
        BY <1>3, <1>10, <2>1 DEF Opens, Same, Stream!Open
<1>11. ASSUME Produces(sub[s], sub'[s], h)
      PROVE  Stream(s)!Produce
    <2>1. Phase(s) = "open" /\ Phase(s)' = "open"
        BY <1>11 DEF Phase, Produces, Alive
    <2> QED
        BY <1>3, <1>11, <2>1 DEF Produces, Stream!Produce
<1>12. ASSUME Withdraws(sub[s], sub'[s], h)
      PROVE  Stream(s)!Withdraw
    <2>1. Phase(s) = "open" /\ Phase(s)' = "open"
        BY <1>12 DEF Phase, Withdraws, Alive
    <2> QED
        BY <1>3, <1>12, <2>1 DEF Withdraws, Stream!Withdraw
<1>13. ASSUME Ends(sub[s], sub'[s], h)
      PROVE  Stream(s)!End
    <2>1. Phase(s) = "open" /\ Phase(s)' = "ended"
        BY <1>13 DEF Phase, Ends, Alive
    <2> QED
        BY <1>3, <1>13, <2>1 DEF Ends, Msg, Stream!Notice, Stream!Message, Stream!End
<1>14. ASSUME IsLate(sub[s], sub'[s], h)
      PROVE  Stream(s)!LateNotice
    <2>1. Phase(s) # "unborn" /\ Phase(s)' = Phase(s)
        BY <1>14 DEF Phase, IsLate, Alive
    <2> QED
        BY <1>3, <1>14, <2>1 DEF IsLate, Msg, Stream!Notice, Stream!Message, Stream!LateNotice
<1>15. ASSUME IsSilent(sub[s], sub'[s], h)
      PROVE  Stream(s)!Silence
    <2>1. Phase(s)' = Phase(s)
        BY <1>15 DEF Phase, IsSilent, Alive
    <2> QED
        BY <1>3, <1>15, <2>1 DEF IsSilent, Same, Stream!Silence
<1>16. ASSUME NEW n, Acknowledges(sub[s], sub'[s], n, h)
      PROVE  Stream(s)!Acknowledge
    <2>1. Phase(s) = "open" /\ Phase(s)' = "open"
        BY <1>16 DEF Phase, Acknowledges, Alive
    <2> QED
        BY <1>3, <1>16, <2>1 DEF Acknowledges, Stream!Acknowledge
<1>17. Evolves(sub[s], sub'[s], h) \/ \E n : Acknowledges(sub[s], sub'[s], n, h)
    BY DEF h
<1> QED
    BY <1>8, <1>9, <1>10, <1>11, <1>12, <1>13, <1>14, <1>15, <1>16, <1>17
       DEF Evolves, Stream!Next

-----------------------------------------------------------------------------
(***************************************************************************)
(* Which messages of a step are of one subscription.                       *)
(***************************************************************************)
\* The place of an index in an interval.
LEMMA RankInInterval ==
    ASSUME NEW a \in Nat, NEW n \in Nat, NEW j \in (a + 1)..(a + n)
    PROVE  Rank((a + 1)..(a + n), j) = j - a
<1>1. {x \in (a + 1)..(a + n) : x <= j} = (a + 1)..j
    OBVIOUS
<1>2. Cardinality((a + 1)..j) = j - a
    <2>1. a + 1 \in Int /\ j \in Int /\ a + 1 <= j
        OBVIOUS
    <2>2. Cardinality((a + 1)..j) = j - (a + 1) + 1
        BY <2>1, FS_Interval
    <2> QED
        BY <2>1, <2>2
<1> QED
    BY <1>1, <1>2 DEF Rank

\* What the n responses after the first a say.
HeardFrom(w, a, n) == [i \in 1..n |-> Heard(w[a + i])]

\* Messages of s next to each other.
LEMMA HeardInterval ==
    ASSUME NEW S, NEW w \in Seq(S), NEW s, NEW a \in Nat, NEW n \in Nat,
           a + n <= Len(w), Mine(w, s) = (a + 1)..(a + n)
    PROVE  HeardIn(w, s) = HeardFrom(w, a, n)
<1> DEFINE K == Mine(w, s)
           mine == Pick(w, K)
<1>1. K \in SUBSET (1..Len(w))
    BY DEF Mine
<1>2. Cardinality(K) = n
    <2>1. a + 1 \in Int /\ a + n \in Int
        OBVIOUS
    <2>2. Cardinality((a + 1)..(a + n)) = IF a + 1 > a + n THEN 0 ELSE a + n - (a + 1) + 1
        BY <2>1, FS_Interval
    <2> QED
        BY <2>2
<1>3. mine \in Seq(S) /\ Len(mine) = n
    <2> HIDE DEF K
    <2> QED
        BY <1>1, <1>2, PickProperties
<1>4. ASSUME NEW i \in 1..n
      PROVE  mine[i] = w[a + i]
    <2>1. i \in 1..Cardinality(K)
        BY <1>2
    <2>2. PICK j \in K : mine[i] = w[j] /\ Rank(K, j) = i
        <3> HIDE DEF K
        <3> QED
            BY <1>1, <2>1, PickRank
    <2>3. j \in (a + 1)..(a + n)
        OBVIOUS
    <2>4. Rank(K, j) = j - a
        BY <2>3, RankInInterval
    <2>5. j = a + i
        BY <2>2, <2>3, <2>4
    <2> QED
        BY <2>2, <2>5
<1>5. HeardIn(w, s) = [i \in DOMAIN mine |-> Heard(mine[i])]
    BY DEF HeardIn
<1> HIDE DEF mine
<1>6. DOMAIN mine = 1..n
    BY <1>3
<1> QED
    BY <1>4, <1>5, <1>6 DEF HeardFrom

\* Responses that are all faults.
Faulty(responses) == \A i \in 1..Len(responses) : responses[i].result # "Good"

\* Faults before and after change nothing.
LEMMA HeardMiddle ==
    ASSUME NEW S, NEW pre \in Seq(S), NEW mid \in Seq(S), NEW post \in Seq(S),
           Faulty(pre), Faulty(post), NEW s, NEW c \in Nat, NEW n \in Nat,
           c + n <= Len(mid), Mine(mid, s) = (c + 1)..(c + n)
    PROVE  HeardIn((pre \o mid) \o post, s) = HeardFrom(mid, c, n)
<1> DEFINE w == (pre \o mid) \o post
           p == Len(pre)
           m == Len(mid)
<1>1. p \in Nat /\ m \in Nat /\ Len(post) \in Nat
    OBVIOUS
<1>2. /\ pre \o mid \in Seq(S) /\ Len(pre \o mid) = p + m
      /\ \A i \in 1..p : (pre \o mid)[i] = pre[i]
      /\ \A i \in 1..m : (pre \o mid)[p + i] = mid[i]
    BY ConcatIs
<1>3. /\ w \in Seq(S) /\ Len(w) = p + m + Len(post)
      /\ \A i \in 1..(p + m) : w[i] = (pre \o mid)[i]
      /\ \A i \in 1..Len(post) : w[p + m + i] = post[i]
    <2> DEFINE x == pre \o mid
    <2>1. x \in Seq(S) /\ Len(x) = p + m
        BY <1>2
    <2> HIDE DEF x
    <2>2. /\ x \o post \in Seq(S) /\ Len(x \o post) = Len(x) + Len(post)
          /\ \A i \in 1..Len(x) : (x \o post)[i] = x[i]
          /\ \A i \in 1..Len(post) : (x \o post)[Len(x) + i] = post[i]
        <3>1. x \in Seq(S)
            BY <2>1
        <3> QED
            BY <3>1, ConcatIs
    <2> QED
        BY <1>1, <2>1, <2>2 DEF x
<1>4. /\ \A i \in 1..p : w[i] = pre[i]
      /\ \A i \in 1..m : w[p + i] = mid[i]
    <2>1. ASSUME NEW i \in 1..p
          PROVE  w[i] = pre[i]
        <3>1. i \in 1..(p + m)
            OBVIOUS
        <3> QED
            BY <1>2, <1>3, <3>1
    <2>2. ASSUME NEW i \in 1..m
          PROVE  w[p + i] = mid[i]
        <3>1. p + i \in 1..(p + m)
            OBVIOUS
        <3> QED
            BY <1>2, <1>3, <3>1
    <2> QED
        BY <2>1, <2>2
<1> HIDE DEF w, p, m
<1>5. Mine(w, s) = (p + c + 1)..(p + c + n)
    <2>1. ASSUME NEW i \in Mine(w, s)
          PROVE  i \in (p + c + 1)..(p + c + n)
        <3>1. i \in 1..(p + m + Len(post)) /\ w[i].result = "Good" /\ w[i].sub = s
            BY <1>3 DEF Mine
        <3>2. ~(i \in 1..p)
            BY <1>4, <3>1 DEF Faulty, p
        <3>3. ~(i > p + m)
            <4> SUFFICES ASSUME i > p + m
                         PROVE  FALSE
                OBVIOUS
            <4>1. i - (p + m) \in 1..Len(post) /\ i = p + m + (i - (p + m))
                BY <1>1, <3>1 DEF p, m
            <4>2. w[i] = post[i - (p + m)]
                BY <1>3, <4>1
            <4> QED
                BY <3>1, <4>1, <4>2 DEF Faulty
        <3>4. i - p \in 1..m /\ i = p + (i - p)
            BY <1>1, <3>1, <3>2, <3>3 DEF p, m
        <3>5. w[i] = mid[i - p]
            BY <1>4, <3>4
        <3>6. i - p \in Mine(mid, s)
            BY <3>1, <3>4, <3>5 DEF Mine, m
        <3> QED
            BY <1>1, <3>4, <3>6 DEF p, m
    <2>2. ASSUME NEW i \in (p + c + 1)..(p + c + n)
          PROVE  i \in Mine(w, s)
        <3>1. i - p \in (c + 1)..(c + n) /\ i = p + (i - p)
            BY <1>1 DEF p
        <3>2. i - p \in 1..m /\ mid[i - p].result = "Good" /\ mid[i - p].sub = s
            BY <3>1 DEF Mine, m
        <3>3. w[i] = mid[i - p]
            BY <1>4, <3>1, <3>2
        <3>4. i \in 1..Len(w)
            BY <1>1, <1>3, <3>1, <3>2 DEF p, m
        <3> QED
            BY <1>3, <3>2, <3>3, <3>4 DEF Mine
    <2> QED
        BY <2>1, <2>2
<1>6. HeardIn(w, s) = HeardFrom(w, p + c, n)
    <2> DEFINE a == p + c
    <2>1. a \in Nat /\ a + n <= Len(w) /\ Mine(w, s) = (a + 1)..(a + n)
        BY <1>1, <1>3, <1>5 DEF p, m
    <2>2. w \in Seq(S)
        BY <1>3
    <2> HIDE DEF a
    <2>3. HeardIn(w, s) = HeardFrom(w, a, n)
        BY <2>1, <2>2, HeardInterval
    <2> QED
        BY <2>3 DEF a
<1>7. \A i \in 1..n : w[p + c + i] = mid[c + i]
    <2>1. ASSUME NEW i \in 1..n
          PROVE  w[p + c + i] = mid[c + i]
        <3>1. c + i \in 1..m /\ p + c + i = p + (c + i)
            BY <1>1 DEF p, m
        <3> QED
            BY <1>4, <3>1
    <2> QED
        BY <2>1
<1> QED
    BY <1>6, <1>7 DEF w, HeardFrom

\* Nothing but faults.
LEMMA HeardNone ==
    ASSUME NEW S, NEW w \in Seq(S), NEW s, Mine(w, s) = {}
    PROVE  HeardIn(w, s) = <<>>
<1> DEFINE z == 0
<1>1. z \in Nat /\ Mine(w, s) = (z + 1)..(z + z) /\ z + z <= Len(w) /\ 1..z = {}
    OBVIOUS
<1> HIDE DEF z
<1>2. HeardIn(w, s) = HeardFrom(w, z, z)
    BY <1>1, HeardInterval
<1> QED
    BY <1>1, <1>2 DEF HeardFrom

\* One message after faults, of the subscription s.
LEMMA HeardOne ==
    ASSUME NEW S, NEW pre \in Seq(S), Faulty(pre), NEW x \in S, NEW s,
           x.result = "Good", x.sub = s, NEW t
    PROVE  HeardIn(Append(pre, x), t) = IF t = s THEN <<Heard(x)>> ELSE <<>>
<1> DEFINE w == Append(pre, x)
           p == Len(pre)
<1>1. /\ p \in Nat /\ w \in Seq(S) /\ Len(w) = p + 1 /\ w[p + 1] = x
      /\ \A i \in 1..p : w[i] = pre[i]
    OBVIOUS
<1> HIDE DEF w
<1>2. ASSUME NEW i \in 1..p
      PROVE  w[i].result # "Good"
    BY <1>1 DEF Faulty
<1>3. Mine(w, t) = IF t = s THEN {p + 1} ELSE {}
    <2>1. \A i \in DOMAIN w : i \in 1..p \/ i = p + 1
        BY <1>1
    <2>2. p + 1 \in DOMAIN w
        BY <1>1
    <2> HIDE DEF p
    <2> QED
        BY <1>1, <1>2, <2>1, <2>2 DEF Mine
<1>4. CASE t = s
    <2> DEFINE n == 1
    <2>1. Mine(w, t) = (p + 1)..(p + n) /\ p + n <= Len(w) /\ p \in Nat /\ n \in Nat
        BY <1>1, <1>3, <1>4
    <2>2. HeardIn(w, t) = HeardFrom(w, p, n)
        <3>1. w \in Seq(S)
            BY <1>1
        <3> HIDE DEF n, p
        <3> QED
            BY <2>1, <3>1, HeardInterval
    <2>3. \A i \in 1..1 : w[p + i] = x
        BY <1>1
    <2>4. HeardIn(w, t) = [i \in 1..1 |-> Heard(x)]
        BY <2>2, <2>3 DEF HeardFrom
    <2> QED
        BY <1>4, <2>4 DEF w
<1>5. CASE t # s
    BY <1>1, <1>3, <1>5, HeardNone DEF w
<1> QED
    BY <1>4, <1>5

\* Refused requests say nothing of any subscription.
LEMMA HeardFaults ==
    ASSUME NEW q, NEW code \in FaultCode, Faults(q, code) \in Seq(Response)
    PROVE  /\ Faulty(Faults(q, code))
           /\ \A s : HeardIn(Faults(q, code), s) = <<>>
<1> DEFINE w == Faults(q, code)
<1>1. \A i \in DOMAIN w : w[i].result # "Good"
    BY DEF Faults, FaultCode
<1> HIDE DEF w
<1>2. Faulty(w) /\ \A s : Mine(w, s) = {}
    BY <1>1 DEF Faulty, Mine, w
<1> QED
    BY <1>2, HeardNone DEF w

-----------------------------------------------------------------------------
(***************************************************************************)
(* What the methods of a subscription do to its stream.                    *)
(***************************************************************************)
\* d is u, with room made in the retransmission queue or not.
Rests(u, d) ==
    /\ Alive(u) /\ Alive(d)
    /\ d.sent \in {Trim(u), u.sent}
    /\ d.next = u.next /\ d.produced = u.produced /\ d.delivered = u.delivered

\* To rest is to be where the subscription was, whatever else changes.
LEMMA RestsSame ==
    ASSUME NEW u, NEW d, Rests(u, d), NEW v, Same(d, v), Alive(v)
    PROVE  Rests(u, v)
BY DEF Rests, Same

\* Counters, flags and the states of a living subscription are not of its
\* stream.
LEMMA FieldsSame ==
    ASSUME NEW u, u \in Subscription
    PROVE  /\ Same(u, ResetCounters(u)) /\ ResetCounters(u).state = u.state
           /\ Same(u, IncreaseKeepAlive(u)) /\ IncreaseKeepAlive(u).state = u.state
           /\ Same(u, Aged(u)) /\ Aged(u).state = u.state
           /\ Same(u, Asked(u)) /\ Asked(u).state = u.state
           /\ Same(u, Harvest(u)) /\ Harvest(u).state = u.state
           /\ Same(u, KeptAlive(u)) /\ KeptAlive(u).state = "KEEPALIVE"
<1>1. Same(u, ResetCounters(u)) /\ ResetCounters(u).state = u.state
    BY DEF ResetCounters, Same, Subscription
<1>2. Same(u, IncreaseKeepAlive(u)) /\ IncreaseKeepAlive(u).state = u.state
    BY DEF IncreaseKeepAlive, Same, Subscription
<1>3. Same(u, Aged(u)) /\ Aged(u).state = u.state
    BY DEF Aged, Same, Subscription
<1>4. Same(u, Asked(u)) /\ Asked(u).state = u.state
    BY DEF Asked, Same, Subscription
<1>5. Same(u, Harvest(u)) /\ Harvest(u).state = u.state
    BY DEF Harvest, Same, Subscription
<1>6. Same(u, KeptAlive(u)) /\ KeptAlive(u).state = "KEEPALIVE"
    BY DEF KeptAlive, ResetCounters, Same, Subscription
<1> QED
    BY <1>1, <1>2, <1>3, <1>4, <1>5, <1>6

\* The keep-alive counter is not of the stream.
LEMMA CounterSame ==
    ASSUME NEW u, u \in Subscription, NEW k
    PROVE  Same(u, [u EXCEPT !.keepAlive = k]) /\ [u EXCEPT !.keepAlive = k].state = u.state
BY DEF Same, Subscription

\* Neither is which of the living states it is in.
LEMMA StateSame ==
    ASSUME NEW u, u \in Subscription, NEW st
    PROVE  Same(u, [u EXCEPT !.state = st]) /\ [u EXCEPT !.state = st].state = st
BY DEF Same, Subscription

\* Neither is a notice that waits to be sent.
LEMMA ToldSame ==
    ASSUME NEW u, u \in Subscription, NEW st
    PROVE  Same(u, Told(u, st)) /\ Told(u, st).state = u.state
BY DEF Told, Same, Subscription

\* Neither is the engine it is with.
LEMMA MovedSame ==
    ASSUME NEW u, u \in Subscription, NEW d
    PROVE  Same(u, Moved(u, d)) /\ Moved(u, d).state = u.state
BY DEF Moved, Same, Subscription

\* discardOldSentNotifications trims the retransmission queue.
LEMMA DiscardRests ==
    ASSUME NEW u, u \in Subscription, Alive(u)
    PROVE  Rests(u, DiscardOldSent(u))
<1> DEFINE kept == Trim(u)
           v == [u EXCEPT !.sent = kept]
<1>1. DiscardOldSent(u) = v
    BY DEF DiscardOldSent, Trim
<1> HIDE DEF kept
<1>2. /\ v.sent = kept /\ v.next = u.next /\ v.produced = u.produced
      /\ v.delivered = u.delivered /\ v.state = u.state
    BY DEF Subscription
<1> QED
    BY <1>1, <1>2 DEF Rests, Alive, kept

\* What a batch holds: one notice of status, or the next data.
LEMMA BatchSays ==
    ASSUME NEW u, Sound(u), u.pending # <<>>
    PROVE  LET p == u.pending
               n == BatchLength(p)
           IN  /\ n \in 1..Len(p)
               /\ Batch(u) \in Seq(Notification) /\ Len(Batch(u)) = n
               /\ \A i \in 1..n : Batch(u)[i] = p[i]
               /\ \/ n = 1 /\ IsStatus(p[1]) /\ p[1].value = 0
                  \/ /\ n <= MaxNotificationsPerPublish
                     /\ \A i \in 1..n : ~IsStatus(p[i]) /\ p[i].value = u.delivered + i
                     /\ u.delivered + n <= u.produced
<1> DEFINE p == u.pending
           n == BatchLength(p)
           K == DataIn(p)
           c == Cardinality(K)
<1>1. p \in Seq(Notification) /\ u.delivered \in Nat /\ u.produced \in Nat /\ u.items \in Seq(Nat)
    BY DEF Sound, Subscription
<1>2. n \in 1..Len(p) /\ Len(p) \in Nat
    BY <1>1, BatchLengthIs
<1>3. Batch(u) = SubSeq(p, 1, n)
    BY DEF Batch
<1>4. /\ u.produced = u.delivered + c + Len(u.items)
      /\ \A i \in K : p[i].value = u.delivered + Rank(K, i)
    BY DEF Sound, Whole
<1>5. K \in SUBSET (1..Len(p)) /\ IsFiniteSet(K) /\ c \in Nat
    BY <1>1, DataInIs
<1>6. (IsStatus(p[1]) /\ n = 1) \/ \A i \in 1..n : ~IsStatus(p[i])
    BY <1>1, BatchIsData
<1>7. n <= MaxNotificationsPerPublish
    <2> DEFINE m == AtMost(MaxNotificationsPerPublish, Len(p))
               B == {i \in 1..m : \A j \in 1..i : ~IsStatus(p[j])}
    <2>1. m \in Nat /\ m <= MaxNotificationsPerPublish
        BY <1>2, Constants, AtMostIs
    <2> HIDE DEF m
    <2>2. IsFiniteSet(1..m) /\ Cardinality(1..m) = m
        BY <2>1, FS_Interval
    <2>3. Cardinality(B) <= m /\ Cardinality(B) \in Nat
        BY <2>2, FS_Subset, FS_CardinalityType
    <2>4. n = IF IsStatus(p[1]) THEN 1 ELSE Cardinality(B)
        BY DEF BatchLength, m
    <2> HIDE DEF B, n
    <2> QED
        BY <2>1, <2>3, <2>4, Constants
<1>8. \A x \in Notification : IsStatus(x) => x.value = 0
    BY DEF Notification, IsStatus, Status
<1> HIDE DEF p, n
<1>9. /\ Batch(u) \in Seq(Notification) /\ Len(Batch(u)) = n
      /\ \A i \in 1..n : Batch(u)[i] = p[i]
    BY <1>1, <1>2, <1>3
<1>10. CASE IsStatus(p[1]) /\ n = 1
    <2>1. p[1] \in Notification
        BY <1>1, <1>2, <1>10
    <2> QED
        BY <1>2, <1>8, <1>9, <1>10, <2>1 DEF p, n
<1>11. CASE \A i \in 1..n : ~IsStatus(p[i])
    <2>1. \A i \in 1..n : i \in K
        BY <1>1, <1>2, <1>11 DEF DataIn
    <2>2. ASSUME NEW i \in 1..n
          PROVE  Rank(K, i) = i
        <3>1. i \in Nat /\ \A j \in 1..i : j \in K
            BY <1>2, <2>1
        <3>2. K \in SUBSET (Nat \ {0})
            BY <1>5
        <3> HIDE DEF K
        <3> QED
            BY <3>1, <3>2, RankOfInterval
    <2>3. n <= c
        <3>1. (1..n) \in SUBSET K
            BY <2>1
        <3>2. IsFiniteSet(1..n) /\ Cardinality(1..n) = n
            BY <1>2, FS_Interval
        <3> HIDE DEF K
        <3> QED
            BY <1>5, <3>1, <3>2, FS_Subset
    <2>4. \A i \in 1..n : p[i].value = u.delivered + i
        BY <1>4, <2>1, <2>2
    <2>5. u.delivered + n <= u.produced
        <3>1. Len(u.items) \in Nat /\ n \in Nat
            BY <1>1, <1>2
        <3> HIDE DEF c
        <3> QED
            BY <1>1, <1>4, <1>5, <2>3, <3>1
    <2> QED
        BY <1>2, <1>7, <1>9, <1>11, <2>4, <2>5 DEF p, n
<1> QED
    BY <1>6, <1>10, <1>11

\* The message that _publish_pending_notifications puts together is heard as
\* its number and its values.
LEMMA HeardReply ==
    ASSUME NEW r, NEW s, NEW n, NEW body
    PROVE  Heard(Reply(r, s, n, body)) = Msg(n, [j \in DOMAIN body |-> body[j].value])
BY DEF Heard, Reply, Msg

\* It is an answer, and of that subscription.
LEMMA ReplyIs ==
    ASSUME NEW r, NEW s, NEW n, NEW body
    PROVE  Reply(r, s, n, body).result = "Good" /\ Reply(r, s, n, body).sub = s
BY DEF Reply

\* _publish_pending_notifications, of the fields of the stream.
LEMMA PublishedFields ==
    ASSUME NEW u, u \in Subscription
    PROVE  LET n == BatchLength(u.pending)
           IN  /\ Published(u).next = u.next + 1
               /\ Published(u).sent = u.sent \cup {u.next}
               /\ Published(u).produced = u.produced
               /\ Published(u).delivered = IF IsStatus(u.pending[n]) THEN u.delivered
                                           ELSE u.pending[n].value
               /\ Published(u).state = "NORMAL"
<1> DEFINE n == BatchLength(u.pending)
           r == ResetCounters(u)
           rest == SubSeq(u.pending, n + 1, Len(u.pending))
           last == IF IsStatus(u.pending[n]) THEN u.delivered ELSE u.pending[n].value
           all == u.sent \cup {u.next}
           v == [r EXCEPT !.pending = rest, !.sent = all,
                          !.next = u.next + 1, !.unacked = u.unacked + 1,
                          !.messageSent = TRUE, !.state = "NORMAL", !.delivered = last]
<1>1. /\ r.next = u.next /\ r.sent = u.sent /\ r.unacked = u.unacked
      /\ r.delivered = u.delivered /\ r.produced = u.produced
    BY DEF Subscription, ResetCounters
<1>2. Published(u) = v
    BY <1>1 DEF Published
<1>3. DOMAIN r = {"state", "engine", "enabled", "messageSent", "keepAlive", "lifeTime", "flag",
                  "items", "pending", "sent", "next", "unacked", "produced", "delivered"}
    BY DEF Subscription, ResetCounters
<1> HIDE DEF rest, last, r, all
<1>4. /\ v.next = u.next + 1 /\ v.sent = all /\ v.produced = r.produced
      /\ v.delivered = last /\ v.state = "NORMAL"
    BY <1>3
<1> QED
    BY <1>1, <1>2, <1>4 DEF last, n, all

\* The message carries what comes next: data, or a notice.
SaysNext(u, v, x) ==
    /\ (SaidData(u, u.sent, v, <<x>>) \/ SaidNotice(u, u.sent, v, <<x>>))
    /\ v.produced = u.produced

\* _publish_pending_notifications sends what comes next.
LEMMA PublishedSays ==
    ASSUME NEW u, Sound(u), u.pending # <<>>, NEW r, NEW s
    PROVE  SaysNext(u, Published(u), Heard(Reply(r, s, u.next, Batch(u))))
<1> DEFINE p == u.pending
           n == BatchLength(p)
           b == Batch(u)
           x == Heard(Reply(r, s, u.next, b))
           v == Published(u)
           body == [j \in DOMAIN b |-> b[j].value]
<1>1. x = Msg(u.next, body)
    BY HeardReply
<1>2. u \in Subscription
    BY DEF Sound
<1>3. /\ v.next = u.next + 1 /\ v.sent = u.sent \cup {u.next} /\ v.produced = u.produced
      /\ v.delivered = IF IsStatus(p[n]) THEN u.delivered ELSE p[n].value
    BY <1>2, PublishedFields
<1>4. /\ n \in 1..Len(p) /\ Len(b) = n /\ b \in Seq(Notification)
      /\ \A i \in 1..n : b[i] = p[i]
      /\ \/ n = 1 /\ IsStatus(p[1]) /\ p[1].value = 0
         \/ /\ n <= MaxNotificationsPerPublish
            /\ \A i \in 1..n : ~IsStatus(p[i]) /\ p[i].value = u.delivered + i
            /\ u.delivered + n <= u.produced
    BY BatchSays
<1> HIDE DEF x, v, b, n, p
<1>5. DOMAIN b = 1..n /\ n \in Nat /\ n \in 1..n
    BY <1>4
<1>6. CASE n = 1 /\ IsStatus(p[1]) /\ p[1].value = 0
    <2>1. body = <<0>>
        BY <1>4, <1>5, <1>6
    <2>2. SaidNotice(u, u.sent, v, <<x>>)
        BY <1>1, <1>3, <1>6, <2>1 DEF SaidNotice
    <2> QED
        BY <1>3, <2>2 DEF SaysNext, x, v, b
<1>7. CASE /\ n <= MaxNotificationsPerPublish
           /\ \A i \in 1..n : ~IsStatus(p[i]) /\ p[i].value = u.delivered + i
           /\ u.delivered + n <= u.produced
    <2>1. body = [i \in 1..n |-> u.delivered + i]
        BY <1>4, <1>5, <1>7
    <2>2. n \in 1..MaxNotificationsPerPublish
        BY <1>4, <1>5, <1>7, Constants
    <2>3. v.delivered = u.delivered + n
        BY <1>3, <1>5, <1>7
    <2> HIDE DEF body
    <2>4. SaidData(u, u.sent, v, <<x>>)
        BY <1>1, <1>3, <1>7, <2>1, <2>2, <2>3 DEF SaidData
    <2> QED
        BY <1>3, <2>4 DEF SaysNext, x, v, b
<1> QED
    BY <1>4, <1>6, <1>7

\* Faults are not heard.
LEMMA HeardFaulty ==
    ASSUME NEW w \in Seq(Response), Faulty(w), NEW s
    PROVE  HeardIn(w, s) = <<>>
<1>1. Mine(w, s) = {}
    BY DEF Mine, Faulty
<1> QED
    BY <1>1, HeardNone

-----------------------------------------------------------------------------
(***************************************************************************)
(* Publishing cycles.                                                      *)
(***************************************************************************)
\* The subscription s cycles, the others are silent.
CycleOf(s) ==
    /\ Cycles(sub[s], sub'[s], HeardIn(out', s))
    /\ \A t \in Subs \ {s} : IsSilent(sub[t], sub'[t], HeardIn(out', t))

\* A cycle that answers no request.
LEMMA QuietCycle ==
    ASSUME sub \in [Subs -> Subscription], NEW s \in Subs, NEW v, Rests(sub[s], v),
           sub' = [sub EXCEPT ![s] = v],
           NEW pre \in Seq(Response), Faulty(pre), out' = pre
    PROVE  CycleOf(s)
<1>1. \A t \in Subs : HeardIn(out', t) = <<>>
    BY HeardFaulty
<1>2. sub'[s] = v /\ \A t \in Subs \ {s} : sub'[t] = sub[t]
    OBVIOUS
<1>3. Cycles(sub[s], v, <<>>)
    BY DEF Rests, Cycles, SaidNothing
<1>4. \A t \in Subs \ {s} : IsSilent(sub[t], sub[t], <<>>)
    BY DEF IsSilent, Same
<1> QED
    BY <1>1, <1>2, <1>3, <1>4 DEF CycleOf

\* A cycle that answers one.
LEMMA SpokenCycle ==
    ASSUME sub \in [Subs -> Subscription], NEW s \in Subs, NEW v,
           sub' = [sub EXCEPT ![s] = v],
           NEW pre \in Seq(Response), Faulty(pre),
           NEW x \in Response, x.result = "Good", x.sub = s,
           Cycles(sub[s], v, <<Heard(x)>>), out' = Append(pre, x)
    PROVE  CycleOf(s)
<1>1. \A t \in Subs : HeardIn(out', t) = IF t = s THEN <<Heard(x)>> ELSE <<>>
    <2>1. \A t \in Subs : HeardIn(Append(pre, x), t) = IF t = s THEN <<Heard(x)>> ELSE <<>>
        BY HeardOne
    <2> QED
        BY <2>1
<1>2. sub'[s] = v /\ \A t \in Subs \ {s} : sub'[t] = sub[t]
    OBVIOUS
<1>3. \A t \in Subs \ {s} : IsSilent(sub[t], sub[t], <<>>)
    BY DEF IsSilent, Same
<1> QED
    BY <1>1, <1>2, <1>3 DEF CycleOf

\* _process_keepAlive says nothing or that there is nothing to say.
LEMMA KeepAliveCycles ==
    ASSUME CoreInv, NEW s \in Subs, NEW u, Sound(u), Rests(sub[s], u),
           NEW q \in Seq(Requests), NEW pre \in Seq(Response), Faulty(pre),
           ProcessKeepAlive(s, u, q, pre)
    PROVE  CycleOf(s)
<1> DEFINE v == IncreaseKeepAlive(u)
<1>1. sub \in [Subs -> Subscription] /\ u \in Subscription /\ Alive(u)
    BY DEF CoreInv, SubsInv, Sound, Rests
<1>2. Sound(v) /\ v \in Subscription /\ v.next \in Nat
    BY IncreaseContinues DEF Continues, Sound, Subscription
<1>3. Rests(sub[s], v)
    BY <1>1, FieldsSame, RestsSame DEF Alive
<1> HIDE DEF v
<1>4. CASE sub' = [sub EXCEPT ![s] = v] /\ out' = pre
    BY <1>1, <1>3, <1>4, QuietCycle
<1>5. CASE sub' = [sub EXCEPT ![s] = [v EXCEPT !.state = "LATE"]] /\ out' = pre
    <2> DEFINE w == [v EXCEPT !.state = "LATE"]
    <2>1. Same(v, w) /\ w.state = "LATE"
        BY <1>2, StateSame
    <2> HIDE DEF w
    <2>2. Rests(sub[s], w)
        BY <1>3, <2>1, RestsSame DEF Alive
    <2>3. sub' = [sub EXCEPT ![s] = w]
        BY <1>5 DEF w
    <2> QED
        BY <1>1, <1>5, <2>2, <2>3, QuietCycle
<1>6. CASE /\ q # <<>>
           /\ sub' = [sub EXCEPT ![s] = KeptAlive(v)]
           /\ out' = Append(pre, Reply(Head(q), s, v.next, <<>>))
    <2> DEFINE w == KeptAlive(v)
               x == Reply(Head(q), s, v.next, <<>>)
    <2>1. Same(v, w) /\ w.state = "KEEPALIVE"
        BY <1>2, FieldsSame
    <2>2. x.result = "Good" /\ x.sub = s
        BY ReplyIs
    <2>3. Heard(x) = Msg(v.next, <<>>)
        BY DEF Heard, Reply, Msg
    <2>4. x \in Response
        <3>1. Head(q) \in Requests /\ <<>> \in Seq(Notification)
            BY <1>6
        <3> QED
            BY <1>2, <3>1, ReplyIsResponse
    <2> HIDE DEF w, x
    <2>5. Rests(sub[s], w)
        BY <1>3, <2>1, RestsSame DEF Alive
    <2>6. v.next = sub[s].next
        BY <1>3 DEF Rests
    <2>7. Cycles(sub[s], w, <<Heard(x)>>)
        BY <2>5, <2>6, <2>3 DEF Rests, Cycles, SaidKeepAlive
    <2>8. sub' = [sub EXCEPT ![s] = w] /\ out' = Append(pre, x)
        BY <1>6 DEF w, x
    <2> QED
        BY <1>1, <2>2, <2>4, <2>7, <2>8, SpokenCycle
<1> QED
    BY <1>4, <1>5, <1>6 DEF ProcessKeepAlive, v

\* process_subscription says what comes next, or goes on to the keep-alive.
LEMMA ProcessSubscriptionCycles ==
    ASSUME CoreInv, NEW s \in Subs, NEW u, Sound(u), Rests(sub[s], u),
           NEW q \in Seq(Requests), q # <<>>, NEW pre \in Seq(Response), Faulty(pre),
           NEW im, ProcessSubscription(s, u, q, pre, im)
    PROVE  CycleOf(s)
<1> DEFINE v == IF u.pending = <<>> /\ Uncollected(u) THEN Harvest(u) ELSE u
<1>1. sub \in [Subs -> Subscription] /\ u \in Subscription /\ Alive(u)
    BY DEF CoreInv, SubsInv, Sound, Rests
<1>2. Sound(v) /\ v \in Subscription /\ v.next \in Nat
    BY HarvestContinues DEF Continues, Sound, Subscription
<1>3. Rests(sub[s], v)
    <2>1. Rests(sub[s], Harvest(u))
        BY <1>1, FieldsSame, RestsSame DEF Alive
    <2> QED
        BY <2>1
<1> HIDE DEF v
<1>4. CASE ProcessKeepAlive(s, u, q, pre) \/ ProcessKeepAlive(s, v, q, pre)
    BY <1>2, <1>3, <1>4, KeepAliveCycles
<1>5. CASE /\ v.pending # <<>>
           /\ sub' = [sub EXCEPT ![s] = Published(v)]
           /\ out' = Append(pre, Reply(Head(q), s, v.next, Batch(v)))
    <2> DEFINE w == Published(v)
               x == Reply(Head(q), s, v.next, Batch(v))
    <2>1. Alive(w) /\ Batch(v) \in Seq(Notification)
        BY <1>2, <1>5, PublishedContinues
    <2>2. SaysNext(v, w, Heard(x))
        BY <1>2, <1>5, PublishedSays
    <2>3. x.result = "Good" /\ x.sub = s
        BY ReplyIs
    <2>4. x \in Response
        <3>1. Head(q) \in Requests
            OBVIOUS
        <3> QED
            BY <1>2, <2>1, <3>1, ReplyIsResponse
    <2>5. sub' = [sub EXCEPT ![s] = w] /\ out' = Append(pre, x)
        BY <1>5
    <2> HIDE DEF w, x
    <2>6. Cycles(sub[s], w, <<Heard(x)>>)
        BY <1>3, <2>1, <2>2 DEF Rests, Cycles, SaysNext, SaidData, SaidNotice
    <2> QED
        BY <1>1, <2>3, <2>4, <2>5, <2>6, SpokenCycle
<1> QED
    BY <1>4, <1>5 DEF ProcessSubscription, v

-----------------------------------------------------------------------------
(***************************************************************************)
(* Farewells, all of one subscription.                                     *)
(***************************************************************************)
\* The first n farewells are of s.
AllOf(cl, n, s) == \A i \in 1..n : cl[i].sub = s

\* What n farewells of a stream whose next number is m say.
Goodbyes(m, n) == [i \in 1..n |-> Msg(m + i - 1, <<0>>)]

\* How many of the first i farewells are of t.
LEMMA BeforeAll ==
    ASSUME NEW cl, NEW n \in Nat, NEW s, AllOf(cl, n, s), NEW i \in 0..n, NEW t
    PROVE  Before(cl, i, t) = IF t = s THEN i ELSE 0
<1>1. \A j \in 1..i : cl[j].sub = s
    <2>1. \A j \in 1..i : j \in 1..n
        OBVIOUS
    <2> QED
        BY <2>1 DEF AllOf
<1>2. CASE t = s
    <2>1. {j \in 1..i : cl[j].sub = t} = 1..i
        BY <1>1, <1>2
    <2>2. Cardinality(1..i) = i
        BY FS_Interval
    <2> QED
        BY <1>2, <2>1, <2>2 DEF Before
<1>3. CASE t # s
    <2>1. {j \in 1..i : cl[j].sub = t} = {}
        BY <1>1, <1>3
    <2>2. Cardinality({}) = 0
        BY FS_EmptySet
    <2> QED
        BY <1>3, <2>1, <2>2 DEF Before
<1> QED
    BY <1>2, <1>3

\* They are heard under the numbers that follow, and only there.
LEMMA FarewellsHeard ==
    ASSUME NEW f, Numbering(f), NEW s \in Subs,
           NEW cl \in Seq(Farewell), NEW q \in Seq(Requests),
           NEW n \in Nat, n <= Len(cl), n <= Len(q), AllOf(cl, n, s),
           NEW pre \in Seq(Response), Faulty(pre), NEW post \in Seq(Response), Faulty(post),
           NEW t
    PROVE  HeardIn((pre \o FarewellReplies(f, cl, q, n)) \o post, t) =
              IF t = s THEN Goodbyes(f[s].next, n) ELSE <<>>
<1> DEFINE mid == FarewellReplies(f, cl, q, n)
           z   == 0
<1>1. mid \in Seq(Response)
    <2>1. \A x \in Subs : f[x].next \in Nat
        BY DEF Numbering
    <2> QED
        BY <2>1, FarewellRepliesAre
<1>2. mid = [i \in 1..n |-> Reply(q[i], cl[i].sub,
                          f[cl[i].sub].next + Before(cl, i - 1, cl[i].sub),
                          <<StatusOf(cl[i].type)>>)]
    BY DEF FarewellReplies
<1>3. ASSUME NEW i \in 1..n
      PROVE  /\ mid[i].result = "Good" /\ mid[i].sub = s
             /\ Heard(mid[i]) = Msg(f[s].next + i - 1, <<0>>)
    <2>1. cl[i].sub = s
        BY DEF AllOf
    <2>2. i - 1 \in 0..n
        OBVIOUS
    <2>3. Before(cl, i - 1, s) = i - 1
        BY <2>2, BeforeAll
    <2> DEFINE st == cl[i].type
               x == Reply(q[i], s, f[s].next + (i - 1), <<StatusOf(st)>>)
    <2>4. mid[i] = x
        BY <1>2, <2>1, <2>3
    <2>5. x.result = "Good" /\ x.sub = s
        BY ReplyIs
    <2>6. x.body = <<StatusOf(st)>> /\ x.seq = f[s].next + (i - 1)
        BY DEF Reply
    <2>7. [j \in DOMAIN x.body |-> x.body[j].value] = <<0>>
        <3>1. StatusOf(st).value = 0
            BY DEF StatusOf
        <3> HIDE DEF x
        <3> QED
            BY <2>6, <3>1
    <2>8. f[s].next + (i - 1) = f[s].next + i - 1
        BY DEF Numbering
    <2> HIDE DEF x
    <2>9. Heard(x) = Msg(f[s].next + i - 1, <<0>>)
        BY <2>6, <2>7, <2>8 DEF Heard, Msg
    <2> QED
        BY <2>4, <2>5, <2>9
<1>4. Len(mid) = n
    BY <1>2
<1>5. Mine(mid, t) = IF t = s THEN (z + 1)..(z + n) ELSE (z + 1)..(z + z)
    <2>1. DOMAIN mid = 1..n
        BY <1>1, <1>4
    <2> HIDE DEF mid
    <2>2. Mine(mid, t) = IF t = s THEN 1..n ELSE {}
        BY <1>3, <2>1 DEF Mine
    <2> QED
        BY <2>2
<1>6. z \in Nat /\ z + n <= Len(mid) /\ z + z <= Len(mid) /\ 1..z = {} /\ \A i \in 1..n : z + i = i
    BY <1>4
<1> HIDE DEF mid, z
<1>7. CASE t = s
    <2>1. Mine(mid, t) = (z + 1)..(z + n)
        BY <1>5, <1>7
    <2>2. HeardIn((pre \o mid) \o post, t) = HeardFrom(mid, z, n)
        BY <1>1, <1>6, <2>1, HeardMiddle
    <2>3. HeardFrom(mid, z, n) = Goodbyes(f[s].next, n)
        BY <1>3, <1>6 DEF HeardFrom, Goodbyes
    <2> QED
        BY <1>7, <2>2, <2>3 DEF mid
<1>8. CASE t # s
    <2>1. Mine(mid, t) = (z + 1)..(z + z)
        BY <1>5, <1>8
    <2>2. HeardIn((pre \o mid) \o post, t) = HeardFrom(mid, z, z)
        BY <1>1, <1>6, <2>1, HeardMiddle
    <2>3. HeardFrom(mid, z, z) = <<>>
        <3>1. 1..z = {}
            BY <1>6
        <3> QED
            BY <3>1 DEF HeardFrom
    <2> QED
        BY <1>8, <2>2, <2>3 DEF mid
<1> QED
    BY <1>7, <1>8

\* The generators after them.
LEMMA FarewellsNumbered ==
    ASSUME NEW f \in [Subs -> Subscription], NEW s,
           NEW cl, NEW n \in Nat, AllOf(cl, n, s), NEW t \in Subs
    PROVE  LET v == Numbered(f, cl, n)[t]
           IN  /\ v.next = IF t = s THEN f[t].next + n ELSE f[t].next
               /\ v.sent = f[t].sent /\ v.state = f[t].state
               /\ v.produced = f[t].produced /\ v.delivered = f[t].delivered
<1> DEFINE m == f[t].next + Before(cl, n, t)
           u == f[t]
<1>1. n \in 0..n
    OBVIOUS
<1>2. Before(cl, n, t) = IF t = s THEN n ELSE 0
    BY <1>1, BeforeAll
<1>3. Numbered(f, cl, n)[t] = [u EXCEPT !.next = m]
    BY DEF Numbered
<1>4. m = IF t = s THEN f[t].next + n ELSE f[t].next
    <2>1. u \in Subscription
        OBVIOUS
    <2>2. u.next \in Nat
        BY <2>1 DEF Subscription
    <2> QED
        BY <1>2, <2>2
<1>5. u \in Subscription
    OBVIOUS
<1> HIDE DEF m, u
<1>6. LET v == [u EXCEPT !.next = m]
      IN  /\ v.next = m /\ v.sent = u.sent /\ v.state = u.state
          /\ v.produced = u.produced /\ v.delivered = u.delivered
    BY <1>5 DEF Subscription
<1> QED
    BY <1>3, <1>4, <1>6 DEF u

\* The subscription s ends, the others are silent.
EndOf(s) ==
    /\ Ends(sub[s], sub'[s], HeardIn(out', s))
    /\ \A t \in Subs \ {s} : IsSilent(sub[t], sub'[t], HeardIn(out', t))

\* What terminate leaves of the stream.
LEMMA DeadIs ==
    ASSUME NEW u
    PROVE  /\ Dead(u).state = "CLOSED" /\ Dead(u).next = u.next /\ Dead(u).sent = {}
           /\ Dead(u).produced = 0 /\ Dead(u).delivered = 0
BY DEF Dead, Unborn

\* terminate and on_close_subscription: the stream ends, and the notices it
\* still owes go under the numbers that follow, as far as there are requests.
LEMMA TerminateEnds ==
    ASSUME CoreInv, NEW s \in Subs, Live(s),
           NEW u, u.pending \in Seq(Notification), u.next = sub[s].next,
           NEW q \in Seq(Requests), Len(q) <= Len(queue[sub[s].engine]),
           NEW pre \in Seq(Response), Faulty(pre), NEW deleting,
           Terminate(s, u, q, pre, deleting)
    PROVE  EndOf(s)
<1> DEFINE e    == sub[s].engine
           owed == Statuses(u.pending)
           told == [i \in 1..Len(owed) |-> [sub |-> s, type |-> owed[i].type]]
           cl   == closed[e] \o told
           n    == Feedable(cl, q)
           rest == From(q, n)
           dead == [sub EXCEPT ![s] = Dead(u)]
           alone == OwnedBy(e) = {s} /\ Abandoned(From(cl, n), deleting)
           post == IF alone THEN Faults(rest, "BadNoSubscription") ELSE <<>>
<1>1. /\ sub' = Numbered(dead, cl, n)
      /\ out' = pre \o FarewellReplies(dead, cl, q, n) \o post
    BY DEF Terminate
<1>2. /\ e \in Engines /\ Alive(sub[s]) /\ sub[s] \in Subscription /\ Sound(sub[s])
      /\ sub \in [Subs -> Subscription]
      /\ closed[e] \in Seq(Farewell) /\ queue[e] \in Seq(Requests)
      /\ closed[e] # <<>> => queue[e] = <<>>
    BY LiveHasEngine DEF CoreInv, SubsInv, EnginesInv, ClosedDrainsQueue
<1>3. told \in Seq(Farewell) /\ \A i \in 1..Len(told) : told[i].sub = s
    <2>1. owed \in Seq(Notification) /\ \A k \in 1..Len(owed) : owed[k].type \in Status
        BY StatusesAre
    <2> HIDE DEF owed
    <2>2. \A i \in 1..Len(owed) : [sub |-> s, type |-> owed[i].type] \in Farewell
        BY <2>1 DEF Farewell
    <2> QED
        BY <2>1, <2>2
<1> HIDE DEF told
<1>4. cl \in Seq(Farewell)
    BY <1>2, <1>3
<1>5. closed[e] = <<>> => cl = told
    BY <1>3
<1> HIDE DEF cl
<1>6. n \in Nat /\ n <= Len(cl) /\ n <= Len(q)
    <2>1. Len(cl) \in Nat /\ Len(q) \in Nat
        BY <1>4
    <2> QED
        BY <2>1, AtMostIs DEF Feedable
<1> HIDE DEF n
<1>7. AllOf(cl, n, s)
    <2>1. CASE queue[e] = <<>>
        <3>1. 1..n = {}
            BY <1>6, <2>1
        <3> QED
            BY <3>1 DEF AllOf
    <2>2. CASE queue[e] # <<>>
        <3>1. cl = told
            BY <1>2, <1>5, <2>2
        <3>2. \A i \in 1..n : i \in 1..Len(told)
            BY <1>3, <1>6, <3>1
        <3> QED
            BY <1>3, <3>1, <3>2 DEF AllOf
    <2> QED
        BY <2>1, <2>2
<1>8. rest \in Seq(Requests)
    BY <1>6, FromIs
<1>9. post \in Seq(Response) /\ Faulty(post)
    <2>1. "BadNoSubscription" \in FaultCode
        BY DEF FaultCode
    <2> HIDE DEF rest
    <2>2. Faults(rest, "BadNoSubscription") \in Seq(Response)
        BY <1>8, <2>1, FaultsAreResponses
    <2>3. Faulty(Faults(rest, "BadNoSubscription"))
        BY <2>1, <2>2, HeardFaults
    <2>4. <<>> \in Seq(Response) /\ Faulty(<<>>)
        BY DEF Faulty
    <2> HIDE DEF alone
    <2> QED
        BY <2>2, <2>3, <2>4
<1> HIDE DEF post
<1>10. /\ dead \in [Subs -> Subscription] /\ dead[s] = Dead(u)
       /\ \A t \in Subs \ {s} : dead[t] = sub[t]
       /\ sub[s].next \in Nat /\ sub[s].next >= 1
    <2>1. sub[s].next \in Nat /\ sub[s].next >= 1
        BY <1>2 DEF Sound, Subscription
    <2>2. Dead(u) \in Subscription
        BY <2>1, DeadSound DEF Sound
    <2> HIDE DEF Dead
    <2> QED
        BY <1>2, <2>1, <2>2
<1>11. /\ Dead(u).state = "CLOSED" /\ Dead(u).next = u.next /\ Dead(u).sent = {}
       /\ Dead(u).produced = 0 /\ Dead(u).delivered = 0
    BY DeadIs
<1> HIDE DEF dead
<1>12. Numbering(dead)
    <2>1. \A t \in Subs : dead[t].next \in Nat
        BY <1>10 DEF Subscription
    <2> QED
        BY <2>1 DEF Numbering
<1>13. ASSUME NEW t \in Subs
       PROVE  HeardIn(out', t) = IF t = s THEN Goodbyes(dead[s].next, n) ELSE <<>>
    <2>1. HeardIn((pre \o FarewellReplies(dead, cl, q, n)) \o post, t) =
              IF t = s THEN Goodbyes(dead[s].next, n) ELSE <<>>
        BY <1>4, <1>6, <1>7, <1>9, <1>12, FarewellsHeard
    <2> QED
        BY <1>1, <2>1
<1>14. ASSUME NEW t \in Subs
       PROVE  /\ sub'[t].next = IF t = s THEN dead[t].next + n ELSE dead[t].next
              /\ sub'[t].sent = dead[t].sent /\ sub'[t].state = dead[t].state
              /\ sub'[t].produced = dead[t].produced /\ sub'[t].delivered = dead[t].delivered
    BY <1>1, <1>6, <1>7, <1>10, FarewellsNumbered, SMTT(30)
<1>15. Ends(sub[s], sub'[s], HeardIn(out', s))
    <2> DEFINE m == sub[s].next
    <2>1. sub'[s].next = m + n /\ dead[s].next = m
        BY <1>10, <1>11, <1>14
    <2>2. HeardIn(out', s) = Goodbyes(m, n)
        BY <1>13, <2>1
    <2>3. m + n >= m /\ (m + n) - m = n
        BY <1>6, <1>10
    <2>4. HeardIn(out', s) = [i \in 1..(sub'[s].next - m) |-> Msg(m + i - 1, <<0>>)]
        BY <2>1, <2>2, <2>3 DEF Goodbyes
    <2>5. sub'[s].next >= m
        BY <2>1, <2>3
    <2> QED
        BY <1>2, <1>10, <1>11, <1>14, <2>4, <2>5 DEF Ends
<1>16. ASSUME NEW t \in Subs \ {s}
       PROVE  IsSilent(sub[t], sub'[t], HeardIn(out', t))
    BY <1>10, <1>13, <1>14 DEF IsSilent, Same
<1> QED
    BY <1>15, <1>16 DEF EndOf

\* _tick.
LEMMA TickStreams ==
    ASSUME CoreInv, NEW s \in Subs, Live(s), NEW late, NEW im, Tick(s, late, im)
    PROVE  CycleOf(s) \/ EndOf(s)
<1> DEFINE e    == sub[s].engine
           q0   == queue[e]
           gone == {i \in DOMAIN q0 : q0[i] \in late}
           q    == Pick(q0, DOMAIN q0 \ gone)
           pre  == Faults(Pick(q0, gone), "BadTimeout")
           d    == DiscardOldSent(sub[s])
           u    == Aged(d)
           ready == u.pending # <<>> \/ Uncollected(u)
           v    == IF u.pending = <<>> THEN Asked(u) ELSE u
           x    == Told(u, "BadTimeout")
<1>1. /\ e \in Engines /\ Sound(sub[s]) /\ Alive(sub[s]) /\ sub[s] \in Subscription
      /\ sub \in [Subs -> Subscription]
    BY LiveHasEngine DEF CoreInv, SubsInv
<1>2. q0 \in Seq(Requests)
    BY <1>1 DEF CoreInv, EnginesInv
<1> HIDE DEF q0
<1>3. gone \in SUBSET (1..Len(q0)) /\ DOMAIN q0 \ gone \in SUBSET (1..Len(q0))
    BY <1>2
<1>4. q \in Seq(Requests) /\ Len(q) <= Len(q0)
    <2> HIDE DEF gone
    <2> QED
        BY <1>2, <1>3, PickProperties
<1>5. pre \in Seq(Response) /\ Faulty(pre)
    <2> DEFINE old == Pick(q0, gone)
    <2>1. old \in Seq(Requests)
        <3> HIDE DEF gone
        <3> QED
            BY <1>2, <1>3, PickProperties
    <2>2. "BadTimeout" \in FaultCode
        BY DEF FaultCode
    <2> HIDE DEF old
    <2>3. Faults(old, "BadTimeout") \in Seq(Response)
        BY <2>1, <2>2, FaultsAreResponses
    <2>4. Faulty(Faults(old, "BadTimeout"))
        BY <2>2, <2>3, HeardFaults
    <2> QED
        BY <2>3, <2>4 DEF old
<1>6. Rests(sub[s], d) /\ Continues(sub[s], d) /\ Sound(d)
    BY <1>1, DiscardContinues, DiscardRests DEF Continues
<1>7. d \in Subscription /\ d.pending \in Seq(Notification)
    BY <1>6 DEF Sound, Subscription
<1> HIDE DEF d
<1>8. /\ ~LifeTimeExpired(u) => Continues(d, u)
      /\ Same(d, u) /\ u.state = d.state
    BY <1>6, <1>7, AgedContinues, FieldsSame
<1>9. x.pending \in Seq(Notification) /\ x.next = sub[s].next
    <2>1. StatusOf("BadTimeout") \in Notification
        BY StatusNotification DEF Status
    <2>2. x.pending = Append(d.pending, StatusOf("BadTimeout")) /\ x.next = d.next
        <3>1. x = Told(Aged(d), "BadTimeout")
            OBVIOUS
        <3> HIDE DEF x, u
        <3> QED
            BY <1>7, <3>1, ToldPending
    <2> HIDE DEF x
    <2> QED
        BY <1>6, <1>7, <2>1, <2>2 DEF Rests
<1> HIDE DEF u
<1>10. ~LifeTimeExpired(u) => Rests(sub[s], v) /\ Sound(v)
    <2> SUFFICES ASSUME ~LifeTimeExpired(u)
                 PROVE  Rests(sub[s], v) /\ Sound(v)
        OBVIOUS
    <2>1. Alive(u)
        BY <1>6, <1>8 DEF Rests, Alive
    <2>2. Rests(sub[s], u) /\ Sound(u) /\ u \in Subscription
        BY <1>6, <1>8, <2>1, RestsSame DEF Continues, Sound
    <2>3. Same(u, Asked(u)) /\ Asked(u).state = u.state /\ Sound(Asked(u))
        BY <2>2, FieldsSame, AskedContinues DEF Continues
    <2>4. Rests(sub[s], Asked(u))
        BY <2>1, <2>2, <2>3, RestsSame DEF Alive
    <2> QED
        BY <2>2, <2>3, <2>4
<1> HIDE DEF q, pre, gone, v, x
<1>11. \/ Terminate(s, x, q, pre, FALSE)
      \/ /\ ~LifeTimeExpired(u)
         /\ \/ /\ sub' = [sub EXCEPT ![s] = [v EXCEPT !.state = "LATE"]]
               /\ out' = pre
            \/ ProcessKeepAlive(s, v, q, pre)
            \/ /\ sub' = [sub EXCEPT ![s] = [v EXCEPT !.keepAlive = 0]]
               /\ out' = pre
            \/ q # <<>> /\ ProcessSubscription(s, v, q, pre, im)
    BY Zenon DEF Tick, u, d, v, q, q0, gone, pre, x
<1>12. CASE Terminate(s, x, q, pre, FALSE)
    <2>1. Len(q) <= Len(queue[e])
        BY <1>4 DEF q0
    <2> DEFINE no == FALSE
    <2>2. Terminate(s, x, q, pre, no)
        BY <1>12
    <2> HIDE DEF no
    <2>3. EndOf(s)
        BY <1>4, <1>5, <1>9, <2>1, <2>2, TerminateEnds
    <2> QED
        BY <2>3
<1>13. ASSUME ~LifeTimeExpired(u), sub' = [sub EXCEPT ![s] = [v EXCEPT !.state = "LATE"]], out' = pre
       PROVE  CycleOf(s)
    <2> DEFINE w == [v EXCEPT !.state = "LATE"]
    <2>1. Same(v, w) /\ w.state = "LATE"
        BY <1>10, <1>13, StateSame DEF Sound
    <2> HIDE DEF w
    <2>2. Rests(sub[s], w)
        BY <1>10, <1>13, <2>1, RestsSame DEF Alive
    <2>3. sub' = [sub EXCEPT ![s] = w]
        BY <1>13 DEF w
    <2> QED
        BY <1>1, <1>5, <1>13, <2>2, <2>3, QuietCycle
<1>14. ASSUME ~LifeTimeExpired(u), sub' = [sub EXCEPT ![s] = [v EXCEPT !.keepAlive = 0]], out' = pre
       PROVE  CycleOf(s)
    <2> DEFINE w == [v EXCEPT !.keepAlive = 0]
    <2>1. Same(v, w) /\ w.state = v.state
        BY <1>10, <1>14, CounterSame DEF Sound
    <2> HIDE DEF w
    <2>2. Alive(v)
        BY <1>10, <1>14 DEF Rests
    <2>3. Rests(sub[s], w)
        BY <1>10, <1>14, <2>1, <2>2, RestsSame DEF Alive
    <2>4. sub' = [sub EXCEPT ![s] = w]
        BY <1>14 DEF w
    <2> QED
        BY <1>1, <1>5, <1>14, <2>3, <2>4, QuietCycle
<1>15. ASSUME ~LifeTimeExpired(u),
              ProcessKeepAlive(s, v, q, pre) \/ (q # <<>> /\ ProcessSubscription(s, v, q, pre, im))
       PROVE  CycleOf(s)
    BY <1>4, <1>5, <1>10, <1>15, KeepAliveCycles, ProcessSubscriptionCycles
<1> QED
    BY <1>11, <1>12, <1>13, <1>14, <1>15

-----------------------------------------------------------------------------
(***************************************************************************)
(* Steps of all the streams.                                               *)
(***************************************************************************)
\* All go on, none by an acknowledgement.
StreamStep == \A s \in Subs : Evolves(sub[s], sub'[s], HeardIn(out', s))

\* A handler of one subscription.
LEMMA HandlerStreams ==
    ASSUME NEW s \in Subs, CycleOf(s) \/ EndOf(s)
    PROVE  StreamStep
<1>1. Evolves(sub[s], sub'[s], HeardIn(out', s))
    BY DEF CycleOf, EndOf, Evolves
<1>2. \A t \in Subs \ {s} : IsSilent(sub[t], sub'[t], HeardIn(out', t))
    BY DEF CycleOf, EndOf
<1>3. \A t \in Subs \ {s} : Evolves(sub[t], sub'[t], HeardIn(out', t))
    BY <1>2 DEF Evolves
<1> QED
    BY <1>1, <1>3 DEF StreamStep

\* A service that changes one subscription and sends nothing.
LEMMA ServiceStreams ==
    ASSUME sub \in [Subs -> Subscription], NEW s \in Subs, NEW v,
           sub' = [sub EXCEPT ![s] = v], out' = <<>>, Evolves(sub[s], v, <<>>)
    PROVE  StreamStep
<1>1. out' \in Seq(Response) /\ Faulty(out')
    BY DEF Faulty
<1>2. \A t \in Subs : HeardIn(out', t) = <<>>
    BY <1>1, HeardFaulty
<1>3. sub'[s] = v /\ \A t \in Subs \ {s} : sub'[t] = sub[t]
    OBVIOUS
<1>4. \A t \in Subs \ {s} : Evolves(sub[t], sub[t], <<>>)
    BY DEF Evolves, IsSilent, Same
<1> QED
    BY <1>2, <1>3, <1>4 DEF StreamStep

\* Faults, and no subscription changes.
LEMMA FaultsStreams ==
    ASSUME UNCHANGED sub, out' \in Seq(Response), Faulty(out')
    PROVE  StreamStep
<1>1. \A t \in Subs : HeardIn(out', t) = <<>>
    BY HeardFaulty
<1>2. \A t \in Subs : Evolves(sub[t], sub[t], <<>>)
    BY DEF Evolves, IsSilent, Same
<1> QED
    BY <1>1, <1>2 DEF StreamStep

\* The timers, the setImmediate callbacks, and requests that feed.
LEMMA TimersStream ==
    ASSUME IInv, Timers
    PROVE  StreamStep
<1>1. CoreInv /\ sub \in [Subs -> Subscription]
    BY DEF IInv, CoreInv, SubsInv
<1>2. ASSUME NEW s \in Subs, NEW late, TimerTick(s, late)
      PROVE  StreamStep
    <2>1. Live(s) /\ Tick(s, late, immediates)
        BY <1>2 DEF TimerTick
    <2> QED
        BY <1>1, <2>1, TickStreams, HandlerStreams
<1>3. ASSUME out' = <<>>, UNCHANGED sub
      PROVE  StreamStep
    <2>1. out' \in Seq(Response) /\ Faulty(out')
        BY <1>3 DEF Faulty
    <2> QED
        BY <1>3, <2>1, FaultsStreams
<1>4. ASSUME NEW s \in Subs, NEW late, RunTick(s, late)
      PROVE  StreamStep
    <2>1. CASE Live(s) /\ Tick(s, late, Tail(immediates))
        BY <1>1, <2>1, TickStreams, HandlerStreams
    <2>2. CASE out' = <<>> /\ UNCHANGED sub
        BY <1>3, <2>2
    <2> QED
        BY <1>4, <2>1, <2>2 DEF RunTick
<1>5. ASSUME NEW e \in Sessions, RunFeedLate(e)
      PROVE  StreamStep
    <2>1. CASE /\ queue[e] # <<>> /\ Starving(e) # {}
               /\ ProcessSubscription(Chosen(e), sub[Chosen(e)], queue[e], <<>>,
                                      Tail(immediates))
        <3> DEFINE s == Chosen(e)
                   u == sub[s]
                   none == <<>>
        <3>1. s \in Starving(e)
            BY <2>1, ChosenStarves
        <3>2. s \in Subs /\ u.engine = e /\ e # NoEngine
            BY <3>1, Constants DEF Starving, OwnedBy, Engines
        <3>3. Sound(u) /\ Alive(u)
            BY <1>1, <3>2 DEF CoreInv, SubsInv
        <3>4. Rests(u, u)
            BY <3>3 DEF Rests
        <3>5. queue[e] \in Seq(Requests)
            BY <1>1 DEF CoreInv, EnginesInv, Engines
        <3>6. none \in Seq(Response) /\ Faulty(none)
            BY DEF Faulty
        <3>7. ProcessSubscription(s, u, queue[e], none, Tail(immediates)) /\ queue[e] # <<>>
            BY <2>1
        <3> HIDE DEF s, none
        <3>8. CycleOf(s)
            BY <1>1, <3>2, <3>3, <3>4, <3>5, <3>6, <3>7, ProcessSubscriptionCycles
        <3> QED
            BY <3>2, <3>8, HandlerStreams
    <2>2. CASE out' = <<>> /\ UNCHANGED sub
        BY <1>3, <2>2
    <2> QED
        BY <1>5, <2>1, <2>2 DEF RunFeedLate
<1> QED
    BY <1>2, <1>4, <1>5 DEF Timers

\* What an id is before it is handed out.
FreshInv == \A s \in Subs : sub[s].state = "NONE" => Same(Unborn, sub[s])

\* CreateSubscription: the stream opens.
LEMMA CreateStreams ==
    ASSUME IInv, FreshInv, NEW e, NEW s \in Subs, NEW b, CreateSubscription(e, s, b)
    PROVE  StreamStep
<1>1. /\ sub[s].state = "NONE" /\ out' = <<>> /\ sub \in [Subs -> Subscription]
      /\ sub' = [sub EXCEPT ![s] = Created(e, b)]
    BY DEF CreateSubscription, IInv, CoreInv, SubsInv
<1>2. Same(Unborn, Created(e, b)) /\ Alive(Created(e, b))
    BY DEF Same, Created, Unborn, Alive
<1>3. Opens(sub[s], Created(e, b), <<>>)
    BY <1>1, <1>2 DEF FreshInv, Opens, Same
<1> QED
    BY <1>1, <1>3, ServiceStreams DEF Evolves

\* Services on one subscription.
LEMMA CallsStream ==
    ASSUME IInv, NEW s \in Subs,
           \/ CallOnSubscription(s) \/ DeleteMonitoredItems(s) \/ ModifySubscription(s)
           \/ \E b \in BOOLEAN : SetPublishingMode(s, b)
           \/ Notify(s)
    PROVE  StreamStep
<1> DEFINE u == sub[s]
<1>1. /\ sub \in [Subs -> Subscription] /\ u \in Subscription /\ Alive(u) /\ out' = <<>>
    BY DEF IInv, CoreInv, SubsInv, CallOnSubscription, DeleteMonitoredItems, ModifySubscription,
           SetPublishingMode, Notify, Called, Live, Alive
<1> HIDE DEF u
<1>2. ASSUME NEW v, IsSilent(u, v, <<>>), sub' = [sub EXCEPT ![s] = v]
      PROVE  StreamStep
    BY <1>1, <1>2, ServiceStreams DEF Evolves, u
<1>3. CASE CallOnSubscription(s)
    <2>1. Same(u, ResetCounters(u)) /\ ResetCounters(u).state = u.state
        BY <1>1, FieldsSame
    <2>2. sub' = [sub EXCEPT ![s] = ResetCounters(u)]
        BY <1>3 DEF CallOnSubscription, u
    <2> QED
        BY <1>2, <2>1, <2>2 DEF IsSilent
<1>4. CASE ModifySubscription(s)
    <2> DEFINE k == MaxKeepAliveCount - 1
               v == [u EXCEPT !.lifeTime = 0, !.keepAlive = k]
    <2>1. Same(u, v) /\ v.state = u.state
        BY <1>1 DEF Same, Subscription
    <2>2. sub' = [sub EXCEPT ![s] = v]
        BY <1>4 DEF ModifySubscription, u
    <2> QED
        BY <1>2, <2>1, <2>2 DEF IsSilent
<1>5. ASSUME NEW b \in BOOLEAN, SetPublishingMode(s, b)
      PROVE  StreamStep
    <2> DEFINE st == IF b THEN u.state ELSE "NORMAL"
               v == ModeSet(u, b)
               w == [u EXCEPT !.enabled = b, !.lifeTime = 0, !.state = st]
    <2>1. v = w
        BY DEF ModeSet
    <2>2. Alive(u) /\ (st = u.state \/ st = "NORMAL")
        BY <1>1
    <2> HIDE DEF st
    <2>3. Same(u, w) /\ w.state = st
        BY <1>1 DEF Same, Subscription
    <2> HIDE DEF v, w
    <2>4. IsSilent(u, v, <<>>)
        BY <2>1, <2>2, <2>3 DEF IsSilent, Alive
    <2>5. sub' = [sub EXCEPT ![s] = v]
        BY <1>5 DEF SetPublishingMode, u, v
    <2> QED
        BY <1>2, <2>4, <2>5
<1>6. CASE DeleteMonitoredItems(s)
    <2> DEFINE r == ResetCounters(u)
               p == Statuses(u.pending)
               v == ItemsDeleted(u)
               w == [r EXCEPT !.items = <<>>, !.pending = p, !.delivered = u.produced]
    <2>1. Same(u, r) /\ r.state = u.state
        BY <1>1, FieldsSame
    <2>2. v = w
        BY DEF ItemsDeleted
    <2>3. DOMAIN r = {"state", "engine", "enabled", "messageSent", "keepAlive", "lifeTime", "flag",
                  "items", "pending", "sent", "next", "unacked", "produced", "delivered"}
        BY <1>1 DEF Subscription, ResetCounters
    <2> HIDE DEF p, r
    <2>4. /\ w.next = r.next /\ w.sent = r.sent /\ w.state = r.state /\ w.produced = r.produced
          /\ w.delivered = u.produced
        BY <2>3
    <2> HIDE DEF v, w
    <2>5. Withdraws(u, v, <<>>)
        BY <1>1, <2>1, <2>2, <2>4 DEF Withdraws, Same, Alive
    <2>6. sub' = [sub EXCEPT ![s] = v]
        BY <1>6 DEF DeleteMonitoredItems, u, v
    <2> QED
        BY <1>1, <2>5, <2>6, ServiceStreams DEF Evolves, u
<1>7. CASE Notify(s)
    <2> DEFINE v == Notified(u)
    <2>1. /\ v.next = u.next /\ v.sent = u.sent /\ v.state = u.state
          /\ v.delivered = u.delivered /\ v.produced = u.produced + 1
        BY <1>1 DEF Notified, Subscription
    <2> HIDE DEF v
    <2>2. Produces(u, v, <<>>)
        BY <1>1, <2>1 DEF Produces, Alive
    <2>3. sub' = [sub EXCEPT ![s] = v]
        BY <1>7 DEF Notify, u, v
    <2> QED
        BY <1>1, <2>2, <2>3, ServiceStreams DEF Evolves, u
<1> QED
    BY <1>3, <1>4, <1>5, <1>6, <1>7

\* DeleteSubscriptions.
LEMMA DeleteStreams ==
    ASSUME IInv, NEW s \in Subs, DeleteSubscription(s)
    PROVE  StreamStep
<1> DEFINE u == sub[s]
           q == queue[u.engine]
           none == <<>>
           deleting == u.engine # Orphan
<1>1. Live(s) /\ Terminate(s, u, q, none, deleting)
    BY DEF DeleteSubscription
<1>2. CoreInv /\ u.engine \in Engines /\ u \in Subscription
    BY <1>1, LiveHasEngine DEF IInv, CoreInv
<1>3. u.pending \in Seq(Notification) /\ q \in Seq(Requests) /\ Len(q) <= Len(queue[sub[s].engine])
    BY <1>2 DEF Subscription, CoreInv, EnginesInv
<1>4. none \in Seq(Response) /\ Faulty(none) /\ u.next = sub[s].next
    BY DEF Faulty
<1> HIDE DEF u, q, none, deleting
<1>5. EndOf(s)
    BY <1>1, <1>2, <1>3, <1>4, TerminateEnds
<1> QED
    BY <1>5, HandlerStreams

\* CloseSession with deleteSubscriptions: no notice goes.
LEMMA CloseAllStreams ==
    ASSUME IInv, NEW e \in Sessions, CloseSessionAndSubscriptions(e)
    PROVE  StreamStep
<1>1. /\ out' = Faults(queue[e], "BadSessionClosed")
      /\ sub' = [s \in Subs |-> IF sub[s].engine = e THEN Dead(sub[s]) ELSE sub[s]]
    BY DEF CloseSessionAndSubscriptions
<1>2. e # NoEngine /\ queue[e] \in Seq(Requests) /\ "BadSessionClosed" \in FaultCode
    BY Constants DEF IInv, CoreInv, EnginesInv, Engines, FaultCode
<1>3. \A t : HeardIn(out', t) = <<>>
    <2> DEFINE q == queue[e]
    <2>1. q \in Seq(Requests)
        BY <1>2
    <2> HIDE DEF q
    <2>2. Faults(q, "BadSessionClosed") \in Seq(Response)
        BY <1>2, <2>1, FaultsAreResponses
    <2>3. \A t : HeardIn(Faults(q, "BadSessionClosed"), t) = <<>>
        BY <1>2, <2>2, HeardFaults
    <2> QED
        BY <1>1, <2>3 DEF q
<1>4. ASSUME NEW s \in Subs, sub[s].engine = e
      PROVE  Evolves(sub[s], sub'[s], <<>>)
    <2> DEFINE u == sub[s]
               v == Dead(u)
    <2>1. Alive(u) /\ u \in Subscription /\ u.next \in Nat
        BY <1>2, <1>4 DEF IInv, CoreInv, SubsInv, Subscription
    <2>2. v.state = "CLOSED" /\ v.next = u.next /\ v.sent = {} /\ v.produced = 0 /\ v.delivered = 0
        BY DeadIs
    <2> HIDE DEF u, v
    <2>3. 1..(v.next - u.next) = {} /\ v.next >= u.next
        BY <2>1, <2>2
    <2>4. [i \in 1..(v.next - u.next) |-> Msg(u.next + i - 1, <<0>>)] = <<>>
        BY <2>3
    <2>5. Ends(u, v, <<>>)
        BY <2>1, <2>2, <2>3, <2>4 DEF Ends
    <2>6. sub'[s] = v
        BY <1>1, <1>4 DEF u, v
    <2> QED
        BY <2>5, <2>6 DEF Evolves, u
<1>5. ASSUME NEW s \in Subs, sub[s].engine # e
      PROVE  Evolves(sub[s], sub'[s], <<>>)
    BY <1>1, <1>5 DEF Evolves, IsSilent, Same
<1> QED
    BY <1>3, <1>4, <1>5 DEF StreamStep

\* moveSessionToChannel.
LEMMA ChannelStreams ==
    ASSUME IInv, NEW e \in Sessions, ChangeChannel(e)
    PROVE  StreamStep
<1> DEFINE q == queue[e]
<1>1. out' = Faults(q, "BadSecureChannelClosed") /\ UNCHANGED sub
    BY DEF ChangeChannel
<1>2. q \in Seq(Requests) /\ "BadSecureChannelClosed" \in FaultCode
    BY DEF IInv, CoreInv, EnginesInv, Engines, FaultCode
<1> HIDE DEF q
<1>3. Faults(q, "BadSecureChannelClosed") \in Seq(Response)
    BY <1>2, FaultsAreResponses
<1>4. Faulty(Faults(q, "BadSecureChannelClosed"))
    BY <1>2, <1>3, HeardFaults
<1> QED
    BY <1>1, <1>3, <1>4, FaultsStreams

\* v is u, living on; its items may have made one notification more.
Carried(u, v) ==
    /\ Alive(u) /\ Alive(v)
    /\ v.next = u.next /\ v.sent = u.sent /\ v.delivered = u.delivered
    /\ v.produced \in {u.produced, u.produced + 1}

\* resendInitialValues.
LEMMA ResentCarries ==
    ASSUME NEW u, u \in Subscription, Alive(u), NEW fresh
    PROVE  Carried(u, Resent(u, fresh))
<1> DEFINE v == IF fresh = 1 THEN Notified(u) ELSE u
           k == MaxKeepAliveCount - 1
           w == [v EXCEPT !.keepAlive = k, !.state = "NORMAL"]
           x == Harvest(w)
<1>1. DOMAIN u = {"state", "engine", "enabled", "messageSent", "keepAlive", "lifeTime", "flag",
                  "items", "pending", "sent", "next", "unacked", "produced", "delivered"}
    BY DEF Subscription
<1>2. /\ DOMAIN v = DOMAIN u /\ v.next = u.next /\ v.sent = u.sent /\ v.delivered = u.delivered
      /\ v.produced \in {u.produced, u.produced + 1}
    BY <1>1 DEF Notified
<1> HIDE DEF v, k
<1>3. /\ DOMAIN w = DOMAIN v /\ w.next = v.next /\ w.sent = v.sent /\ w.delivered = v.delivered
      /\ w.produced = v.produced /\ w.state = "NORMAL"
    BY <1>1, <1>2
<1> HIDE DEF w
<1>4. /\ x.next = w.next /\ x.sent = w.sent /\ x.delivered = w.delivered
      /\ x.produced = w.produced /\ x.state = w.state
    <2> DEFINE p == w.pending \o [i \in 1..Len(w.items) |-> Data(w.items[i])]
    <2>1. x = [w EXCEPT !.pending = p, !.items = <<>>, !.flag = FALSE]
        BY DEF Harvest
    <2> HIDE DEF p, x
    <2> QED
        BY <1>1, <1>2, <1>3, <2>1
<1>5. Resent(u, fresh) = x
    BY DEF Resent, v, w, k
<1> HIDE DEF x
<1> QED
    BY <1>2, <1>3, <1>4, <1>5 DEF Carried, Alive

\* A subscription that has moved, and may have been sent its last value.
LEMMA ArrivedCarries ==
    ASSUME NEW u, Sound(u), Alive(u), NEW d \in Engines, NEW resend, NEW fresh
    PROVE  Carried(u, IF resend THEN Resent(Moved(u, d), fresh) ELSE Moved(u, d))
<1> DEFINE m == Moved(u, d)
<1>1. Same(u, m) /\ Alive(m) /\ m \in Subscription
    BY MovedSame, MovedSound DEF Sound
<1> HIDE DEF m
<1>2. Carried(m, Resent(m, fresh))
    BY <1>1, ResentCarries
<1>3. Carried(u, Resent(m, fresh)) /\ Carried(u, m)
    BY <1>1, <1>2 DEF Carried, Same
<1> QED
    BY <1>3 DEF m

\* notifyTransfer says what comes next, or nothing.
LEMMA TransferringSays ==
    ASSUME NEW u, Sound(u), Alive(u), NEW r, NEW s, NEW v, Carried(Published(Transferring(u)), v)
    PROVE  Moves(u, v, <<Heard(Reply(r, s, u.next, Batch(Transferring(u))))>>)
<1> DEFINE t == Transferring(u)
           p == Published(t)
           x == Heard(Reply(r, s, t.next, Batch(t)))
<1>1. Same(u, t) /\ Sound(t) /\ t.pending # <<>>
    <2>1. "GoodSubscriptionTransferred" \in Status
        BY DEF Status
    <2> QED
        BY <2>1, ToldSame, ToldContinues DEF Transferring, Continues, Sound
<1>2. SaysNext(t, p, x)
    BY <1>1, PublishedSays
<1>3. t.next = u.next
    BY <1>1 DEF Same
<1>4. x = Heard(Reply(r, s, u.next, Batch(t)))
    BY <1>3
<1> HIDE DEF p, x
<1>5. Moves(u, v, <<x>>)
    BY <1>1, <1>2 DEF Moves, SaysNext, Same, SaidData, SaidNotice, Carried, p
<1> HIDE DEF t
<1> QED
    BY <1>4, <1>5 DEF t

\* TransferSubscriptions.
LEMMA TransferStreams ==
    ASSUME IInv, NEW s \in Subs, NEW d \in Sessions, NEW resend, NEW fresh,
           TransferSubscription(s, d, resend, fresh)
    PROVE  StreamStep
<1> DEFINE e == sub[s].engine
           u == sub[s]
           arrived(w) == IF resend THEN Resent(Moved(w, d), fresh) ELSE Moved(w, d)
           t == Transferring(u)
           p == Published(t)
           x == Reply(Head(queue[e]), s, u.next, Batch(t))
<1>1. /\ Live(s)
      /\ \/ queue[e] # <<>> /\ sub' = [sub EXCEPT ![s] = arrived(p)] /\ out' = <<x>>
         \/ sub' = [sub EXCEPT ![s] = arrived(u)] /\ out' = <<>>
    BY DEF TransferSubscription
<1>2. /\ e \in Engines /\ Sound(u) /\ Alive(u) /\ u \in Subscription /\ d \in Engines
      /\ sub \in [Subs -> Subscription] /\ queue[e] \in Seq(Requests)
    BY <1>1, LiveHasEngine DEF IInv, CoreInv, SubsInv, EnginesInv, Engines
<1>3. CASE sub' = [sub EXCEPT ![s] = arrived(u)] /\ out' = <<>>
    <2> DEFINE v == arrived(u)
    <2>1. Carried(u, v)
        BY <1>2, ArrivedCarries
    <2>2. sub' = [sub EXCEPT ![s] = v]
        BY <1>3
    <2> HIDE DEF v
    <2>3. Moves(u, v, <<>>)
        BY <2>1 DEF Moves, Carried, SaidNothing
    <2> QED
        BY <1>2, <1>3, <2>2, <2>3, ServiceStreams DEF Evolves
<1>4. CASE queue[e] # <<>> /\ sub' = [sub EXCEPT ![s] = arrived(p)] /\ out' = <<x>>
    <2> DEFINE v == arrived(p)
               none == <<>>
    <2>1. Sound(t) /\ t.pending # <<>>
        <3>1. "GoodSubscriptionTransferred" \in Status
            BY DEF Status
        <3> QED
            BY <1>2, <3>1, ToldContinues DEF Transferring, Continues
    <2> HIDE DEF t
    <2>2. Sound(p) /\ Alive(p) /\ Batch(t) \in Seq(Notification)
        BY <2>1, PublishedContinues DEF Continues
    <2> HIDE DEF p
    <2>3. Carried(p, v)
        BY <1>2, <2>2, ArrivedCarries
    <2> HIDE DEF v
    <2>4. Moves(u, v, <<Heard(x)>>)
        BY <1>2, <2>3, TransferringSays DEF p, t
    <2>5. x \in Response
        <3>1. Head(queue[e]) \in Requests
            BY <1>2, <1>4
        <3>2. u.next \in Nat
            BY <1>2 DEF Subscription
        <3> QED
            BY <2>2, <3>1, <3>2, ReplyIsResponse
    <2>6. x.result = "Good" /\ x.sub = s
        BY ReplyIs
    <2> HIDE DEF x
    <2>7. none \in Seq(Response) /\ Faulty(none) /\ Append(none, x) = <<x>>
        BY DEF Faulty
    <2> HIDE DEF none
    <2>8. ASSUME NEW y \in Subs
          PROVE  HeardIn(out', y) = IF y = s THEN <<Heard(x)>> ELSE <<>>
        <3>1. HeardIn(Append(none, x), y) = IF y = s THEN <<Heard(x)>> ELSE <<>>
            BY <2>5, <2>6, <2>7, HeardOne
        <3> QED
            BY <1>4, <2>7, <3>1
    <2>9. sub' = [sub EXCEPT ![s] = v]
        BY <1>4 DEF v
    <2>10. sub'[s] = v /\ \A y \in Subs \ {s} : sub'[y] = sub[y]
        BY <1>2, <2>9
    <2>11. \A y \in Subs \ {s} : Evolves(sub[y], sub[y], <<>>)
        BY DEF Evolves, IsSilent, Same
    <2>12. Evolves(u, v, <<Heard(x)>>)
        BY <2>4 DEF Evolves
    <2> QED
        BY <2>8, <2>10, <2>11, <2>12 DEF StreamStep, u
<1> QED
    BY <1>1, <1>3, <1>4

\* Messages that name different subscriptions, one each.
Distinct(w, n, K) ==
    \A i \in 1..n : w[i].result = "Good" /\ w[i].sub \in K /\ Rank(K, w[i].sub) = i

\* Then the message of s is at its rank, and faults may follow.
LEMMA HeardRank ==
    ASSUME NEW K \in SUBSET Int, IsFiniteSet(K), NEW n \in Nat,
           NEW w \in Seq(Response), Len(w) = n, Distinct(w, n, K),
           NEW rest \in Seq(Response), Faulty(rest), NEW s
    PROVE  HeardIn(w \o rest, s) =
              IF s \in K /\ Rank(K, s) \in 1..n THEN <<Heard(w[Rank(K, s)])>> ELSE <<>>
<1> DEFINE none == <<>>
           z == 0
           one == 1
           k == Rank(K, s)
           c == k - 1
<1>1. none \in Seq(Response) /\ Faulty(none)
    BY DEF Faulty
<1>2. (none \o w) \o rest = w \o rest
    OBVIOUS
<1>3. /\ z \in Nat /\ z + z <= Len(w) /\ 1..z = {} /\ (z + 1)..(z + z) = {}
      /\ one \in Nat /\ 1..one = {1}
    OBVIOUS
<1> HIDE DEF none, z
<1>4. CASE s \in K /\ k \in 1..n
    <2>1. Mine(w, s) = {k}
        <3>1. \A i \in 1..n : w[i].sub = s <=> i = k
            <4>1. ASSUME NEW i \in 1..n, w[i].sub = s
                  PROVE  i = k
                BY <4>1 DEF Distinct
            <4>2. w[k].sub = s
                <5> DEFINE x == w[k].sub
                <5>1. x \in K /\ Rank(K, x) = Rank(K, s)
                    BY <1>4 DEF Distinct
                <5> HIDE DEF x, k
                <5>2. x = s
                    BY <1>4, <5>1, RankUnique
                <5> QED
                    BY <5>2 DEF x
            <4> QED
                BY <4>1, <4>2
        <3>2. DOMAIN w = 1..n
            OBVIOUS
        <3> HIDE DEF k
        <3> QED
            BY <1>4, <3>1, <3>2 DEF Mine, Distinct
    <2>2. c \in Nat /\ c + one <= Len(w) /\ {k} = (c + 1)..(c + one) /\ c + 1 = k
        <3> HIDE DEF k
        <3> QED
            BY <1>4
    <2>3. Mine(w, s) = (c + 1)..(c + one)
        BY <2>1, <2>2
    <2> HIDE DEF c, one, k
    <2>4. HeardIn((none \o w) \o rest, s) = HeardFrom(w, c, one)
        BY <1>1, <1>3, <2>2, <2>3, HeardMiddle
    <2>5. \A i \in {1} : Heard(w[c + i]) = Heard(w[k])
        BY <2>2
    <2>6. HeardFrom(w, c, one) = [i \in {1} |-> Heard(w[k])]
        BY <1>3, <2>5 DEF HeardFrom
    <2>7. [i \in {1} |-> Heard(w[k])] = <<Heard(w[k])>>
        <3>1. 1..1 = {1}
            OBVIOUS
        <3> QED
            BY <3>1
    <2> QED
        BY <1>4, <1>2, <2>4, <2>6, <2>7 DEF k
<1>5. CASE ~(s \in K /\ k \in 1..n)
    <2>1. Mine(w, s) = {}
        BY <1>5 DEF Mine, Distinct
    <2>2. Mine(w, s) = (z + 1)..(z + z)
        BY <1>3, <2>1
    <2> HIDE DEF k, one, c
    <2>3. HeardIn((none \o w) \o rest, s) = HeardFrom(w, z, z)
        BY <1>1, <1>3, <2>2, HeardMiddle
    <2>4. 1..z = {}
        BY <1>3
    <2>5. HeardFrom(w, z, z) = <<>>
        BY <2>4 DEF HeardFrom
    <2> QED
        BY <1>5, <1>2, <2>3, <2>5 DEF k
<1> QED
    BY <1>4, <1>5

\* CloseSession without deleteSubscriptions: as many subscriptions as there are
\* requests say something more, one message each, and all become orphans.
LEMMA CloseOnlyStreams ==
    ASSUME IInv, NEW e \in Sessions, CloseSessionOnly(e)
    PROVE  StreamStep
<1> DEFINE own  == OwnedBy(e)
           q    == queue[e]
           n    == AtMost(Cardinality(own), Len(q))
           nth(i) == CHOOSE s \in own : Rank(own, s) = i
           told(s) == Transferring(sub[s])
           reply(i) == Reply(q[i], nth(i), sub[nth(i)].next, Batch(told(nth(i))))
           w    == [i \in 1..n |-> reply(i)]
           rest == Faults(From(q, n), "BadSessionClosed")
<1>1. /\ sub' = [s \in Subs |->
                   IF s \notin own THEN sub[s]
                   ELSE IF Rank(own, s) <= n
                        THEN Moved(Published(told(s)), Orphan)
                        ELSE Moved(sub[s], Orphan)]
      /\ out' = w \o rest
    BY DEF CloseSessionOnly
<1>2. /\ e \in Engines /\ e # NoEngine /\ Orphan \in Engines
      /\ sub \in [Subs -> Subscription] /\ \A s \in Subs : Sound(sub[s])
      /\ q \in Seq(Requests) /\ "BadSessionClosed" \in FaultCode
    BY Constants DEF IInv, CoreInv, SubsInv, EnginesInv, LoopInv, Engines, FaultCode
<1>3. own \in SUBSET Int /\ IsFiniteSet(own) /\ own \subseteq Subs
    <2>1. own \subseteq Subs
        BY DEF OwnedBy
    <2> HIDE DEF own
    <2> QED
        BY <2>1, SubsFacts, FS_Subset
<1>4. \A s \in own : s \in Subs /\ Sound(sub[s]) /\ Alive(sub[s])
    BY <1>2 DEF IInv, CoreInv, SubsInv, OwnedBy
<1> HIDE DEF own
<1>5. ASSUME NEW s \in own
      PROVE  /\ Batch(told(s)) \in Seq(Notification)
             /\ Sound(Published(told(s))) /\ Alive(Published(told(s)))
    <2>1. "GoodSubscriptionTransferred" \in Status
        BY DEF Status
    <2>2. Continues(sub[s], told(s)) /\ told(s).pending # <<>>
        BY <1>4, <2>1, ToldContinues DEF Transferring
    <2> HIDE DEF told
    <2>3. Sound(told(s))
        BY <2>2 DEF Continues
    <2> QED
        BY <2>2, <2>3, PublishedContinues DEF Continues
<1>6. n \in Nat /\ n <= Cardinality(own) /\ n <= Len(q)
    <2>1. Cardinality(own) \in Nat /\ Len(q) \in Nat
        BY <1>2, <1>3, FS_CardinalityType
    <2> QED
        BY <2>1, AtMostIs
<1> HIDE DEF n
<1>7. ASSUME NEW i \in 1..n
      PROVE  nth(i) \in own /\ Rank(own, nth(i)) = i
    <2>1. i \in 1..Cardinality(own)
        <3>1. Cardinality(own) \in Nat
            BY <1>3, FS_CardinalityType
        <3> QED
            BY <1>6, <3>1
    <2>2. \E s \in own : Rank(own, s) = i
        BY <1>3, <2>1, RankOnto
    <2> QED
        BY <2>2
<1> HIDE DEF nth
<1>8. ASSUME NEW i \in 1..n
      PROVE  reply(i) \in Response /\ reply(i).result = "Good" /\ reply(i).sub = nth(i)
    <2>1. sub[nth(i)].next \in Nat /\ nth(i) \in Subs /\ q[i] \in Requests
        <3>1. i \in 1..Len(q)
            BY <1>2, <1>6
        <3> QED
            BY <1>2, <1>4, <1>7, <3>1 DEF Sound, Subscription
    <2>2. Batch(told(nth(i))) \in Seq(Notification)
        BY <1>5, <1>7
    <2> HIDE DEF told
    <2> QED
        BY <2>1, <2>2, ReplyIsResponse, ReplyIs
<1> HIDE DEF reply
<1>9. w \in Seq(Response) /\ Len(w) = n /\ \A i \in 1..n : w[i] = reply(i)
    BY <1>6, <1>8
<1>10. rest \in Seq(Response) /\ Faulty(rest)
    <2> DEFINE left == From(q, n)
    <2>1. left \in Seq(Requests)
        <3> HIDE DEF q
        <3> QED
            BY <1>2, <1>6, FromIs DEF q
    <2> HIDE DEF left
    <2>2. Faults(left, "BadSessionClosed") \in Seq(Response)
        BY <1>2, <2>1, FaultsAreResponses
    <2>3. Faulty(Faults(left, "BadSessionClosed"))
        BY <1>2, <2>2, HeardFaults
    <2> QED
        BY <2>2, <2>3 DEF left
<1> HIDE DEF w, rest
<1>11. Distinct(w, n, own)
    BY <1>7, <1>8, <1>9 DEF Distinct
<1>12. ASSUME NEW s \in Subs
       PROVE  HeardIn(out', s) = IF s \in own /\ Rank(own, s) \in 1..n
                                 THEN <<Heard(w[Rank(own, s)])>> ELSE <<>>
    <2>1. HeardIn(w \o rest, s) = IF s \in own /\ Rank(own, s) \in 1..n
                                  THEN <<Heard(w[Rank(own, s)])>> ELSE <<>>
        BY <1>3, <1>6, <1>9, <1>10, <1>11, HeardRank
    <2> QED
        BY <1>1, <2>1
<1>13. ASSUME NEW s \in own
       PROVE  Rank(own, s) \in Nat /\ Rank(own, s) >= 1
    BY <1>3, RankInRange
<1>14. ASSUME NEW s \in own, Rank(own, s) <= n
       PROVE  Evolves(sub[s], sub'[s], HeardIn(out', s))
    <2> DEFINE k == Rank(own, s)
               u == sub[s]
               p == Published(Transferring(u))
               v == Moved(p, Orphan)
    <2>1. k \in 1..n
        BY <1>6, <1>13, <1>14
    <2>2. nth(k) = s
        <3> DEFINE x == nth(k)
        <3>1. x \in own /\ Rank(own, x) = Rank(own, s)
            BY <1>7, <2>1
        <3> HIDE DEF x
        <3>2. x = s
            BY <1>3, <3>1, RankUnique
        <3> QED
            BY <3>2 DEF x
    <2>3. w[k] = Reply(q[k], s, u.next, Batch(Transferring(u)))
        BY <1>9, <2>1, <2>2 DEF reply
    <2>4. HeardIn(out', s) = <<Heard(w[k])>>
        BY <1>4, <1>12, <2>1
    <2>5. sub'[s] = v
        BY <1>1, <1>4, <1>14
    <2>6. Sound(u) /\ Alive(u) /\ Sound(p) /\ Alive(p)
        BY <1>4, <1>5
    <2> HIDE DEF k, u, p
    <2>7. Carried(p, v)
        <3>1. Same(p, v) /\ v.state = p.state
            BY <2>6, MovedSame DEF Sound
        <3> HIDE DEF v
        <3> QED
            BY <2>6, <3>1 DEF Carried, Same, Alive
    <2> HIDE DEF v
    <2>8. Carried(Published(Transferring(u)), v)
        BY <2>7 DEF p
    <2>9. Moves(u, v, <<Heard(Reply(q[k], s, u.next, Batch(Transferring(u))))>>)
        BY <2>6, <2>8, TransferringSays
    <2>10. Evolves(u, v, <<Heard(w[k])>>)
        BY <2>3, <2>9 DEF Evolves
    <2> QED
        BY <2>4, <2>5, <2>10 DEF u
<1>15. ASSUME NEW s \in own, ~(Rank(own, s) <= n)
       PROVE  Evolves(sub[s], sub'[s], HeardIn(out', s))
    <2>1. HeardIn(out', s) = <<>>
        BY <1>4, <1>6, <1>12, <1>13, <1>15
    <2>2. sub'[s] = Moved(sub[s], Orphan)
        BY <1>1, <1>4, <1>15
    <2>3. Same(sub[s], Moved(sub[s], Orphan)) /\ Moved(sub[s], Orphan).state = sub[s].state
        BY <1>4, MovedSame DEF Sound
    <2> QED
        BY <2>1, <2>2, <2>3 DEF Evolves, IsSilent
<1>16. ASSUME NEW s \in Subs, s \notin own
       PROVE  Evolves(sub[s], sub'[s], HeardIn(out', s))
    <2>1. HeardIn(out', s) = <<>> /\ sub'[s] = sub[s]
        BY <1>1, <1>12, <1>16
    <2> QED
        BY <2>1 DEF Evolves, IsSilent, Same
<1> QED
    BY <1>14, <1>15, <1>16 DEF StreamStep

\* process_subscriptionAcknowledgements: a message less on the engine that was
\* asked, if the subscription is with it, and on no other.
LEMMA AcknowledgedIs ==
    ASSUME sub \in [Subs -> Subscription], NEW e, NEW acks \in Acks, NEW t \in Subs
    PROVE  LET u == sub[t]
               v == Acknowledged(e, acks)[t]
           IN  /\ v.next = u.next /\ v.state = u.state
               /\ v.produced = u.produced /\ v.delivered = u.delivered
               /\ \/ v.sent = u.sent
                  \/ /\ u.engine = e
                     /\ \E m \in u.sent : acks = {<<t, m>>} /\ v.sent = u.sent \ {m}
<1> DEFINE u == sub[t]
           gone == {n \in u.sent : <<t, n>> \in acks}
           left == u.sent \ gone
           k == u.unacked - Cardinality(gone)
           w == [u EXCEPT !.sent = left, !.unacked = k]
           v == Acknowledged(e, acks)[t]
<1>1. u \in Subscription
    OBVIOUS
<1>2. v = IF u.engine = e THEN w ELSE u
    BY DEF Acknowledged
<1>3. gone = {} \/ \E m \in u.sent : acks = {<<t, m>>} /\ gone = {m}
    BY DEF Acks
<1>4. left = u.sent \/ \E m \in u.sent : acks = {<<t, m>>} /\ left = u.sent \ {m}
    BY <1>3
<1> HIDE DEF left, k, u
<1>5. /\ w.next = u.next /\ w.sent = left /\ w.state = u.state
      /\ w.produced = u.produced /\ w.delivered = u.delivered
    BY <1>1 DEF Subscription
<1> HIDE DEF w, v
<1> QED
    BY <1>2, <1>4, <1>5 DEF u, v

\* _on_PublishRequest: one farewell at most is fed, of a subscription that has
\* left; it is not the one the request acknowledges.
LEMMA PublishStreams ==
    ASSUME IInv, NEW e \in Sessions, NEW r \in Requests, NEW acks \in Acks,
           PublishRequest(e, r, acks), NEW t \in Subs
    PROVE  \/ Evolves(sub[t], sub'[t], HeardIn(out', t))
           \/ /\ sub[t].engine = e
              /\ \E m : acks = {<<t, m>>} /\ Acknowledges(sub[t], sub'[t], m, HeardIn(out', t))
<1> DEFINE one == 1
           cl  == closed[e]
           n   == AtMost(one, Len(cl))
           q   == Append(queue[e], r)
           none == <<>>
           fed == FarewellReplies(sub, cl, q, n)
           got == Acknowledged(e, acks)
<1>1. /\ sub' = Numbered(got, cl, n)
      /\ \/ cl # <<>> /\ out' = FarewellReplies(sub, cl, q, 1)
         \/ cl = <<>> /\ out' = Faults(<<r>>, "BadNoSubscription")
         \/ out' = fed \o Refused(From(q, n))
    BY DEF PublishRequest, PublishWithoutSubscription, PublishToSubscriptions
<1>2. /\ e \in Engines /\ e # NoEngine /\ sub \in [Subs -> Subscription]
      /\ \A s \in Subs : Sound(sub[s]) /\ (Alive(sub[s]) <=> sub[s].engine # NoEngine)
      /\ cl \in Seq(Farewell) /\ queue[e] \in Seq(Requests)
    BY Constants DEF IInv, CoreInv, SubsInv, EnginesInv, Engines
<1>3. q \in Seq(Requests) /\ Len(q) >= 1
    BY <1>2
<1>4. /\ n \in Nat /\ n <= 1 /\ n <= Len(cl) /\ n <= Len(q)
      /\ cl # <<>> => n = 1
      /\ cl = <<>> => n = 0
    <2>1. Len(cl) \in Nat /\ (cl = <<>> <=> Len(cl) = 0) /\ Len(q) \in Nat
        BY <1>2, <1>3
    <2> QED
        BY <1>3, <2>1 DEF AtMost
<1>5. Numbering(sub)
    BY <1>2 DEF Numbering, Subscription
<1>6. fed \in Seq(Response)
    <2>1. \A s \in Subs : sub[s].next \in Nat
        BY <1>5 DEF Numbering
    <2> HIDE DEF n, q
    <2> QED
        BY <1>2, <1>3, <1>4, <2>1, FarewellRepliesAre
<1>7. \E post \in Seq(Response) : Faulty(post) /\ out' = (none \o fed) \o post
    <2>1. ASSUME NEW p \in Seq(Requests), NEW code \in FaultCode
          PROVE  Faults(p, code) \in Seq(Response) /\ Faulty(Faults(p, code))
        <3>1. Faults(p, code) \in Seq(Response)
            BY FaultsAreResponses
        <3> QED
            BY <3>1, HeardFaults
    <2>2. none \in Seq(Response) /\ Faulty(none) /\ none \o fed = fed /\ fed \o none = fed
        BY <1>6 DEF Faulty
    <2>3. CASE cl # <<>> /\ out' = FarewellReplies(sub, cl, q, 1)
        <3>1. out' = fed
            BY <1>4, <2>3
        <3> HIDE DEF fed, none
        <3> QED
            BY <2>2, <3>1
    <2>4. CASE cl = <<>> /\ out' = Faults(<<r>>, "BadNoSubscription")
        <3>1. fed = <<>>
            <4>1. 1..n = {}
                BY <1>4, <2>4
            <4> HIDE DEF n
            <4> QED
                BY <4>1 DEF FarewellReplies
        <3>2. "BadNoSubscription" \in FaultCode /\ <<r>> \in Seq(Requests)
            BY DEF FaultCode
        <3> DEFINE post == Faults(<<r>>, "BadNoSubscription")
        <3>3. post \in Seq(Response) /\ Faulty(post)
            BY <2>1, <3>2
        <3> HIDE DEF fed, post
        <3>4. out' = (none \o fed) \o post
            BY <2>4, <3>1, <3>3 DEF post
        <3> QED
            BY <3>3, <3>4
    <2>5. CASE out' = fed \o Refused(From(q, n))
        <3> DEFINE p == From(q, n)
                   post == Refused(p)
        <3>1. p \in Seq(Requests)
            <4> HIDE DEF q, n
            <4> QED
                BY <1>3, <1>4, FromIs
        <3> HIDE DEF p
        <3>2. post \in Seq(Response) /\ Faulty(post)
            <4>1. CASE ~Crowded(p)
                BY <2>2, <4>1 DEF Refused
            <4>2. CASE Crowded(p)
                <5>1. p # <<>>
                    <6>1. MaxPublishRequestInQueue \in Nat /\ Len(p) > MaxPublishRequestInQueue
                        BY <4>2, Constants DEF Crowded
                    <6> QED
                        BY <3>1, <6>1
                <5>2. <<Head(p)>> \in Seq(Requests) /\ "BadTooManyPublishRequests" \in FaultCode
                    BY <3>1, <5>1 DEF FaultCode
                <5>3. /\ Faults(<<Head(p)>>, "BadTooManyPublishRequests") \in Seq(Response)
                      /\ Faulty(Faults(<<Head(p)>>, "BadTooManyPublishRequests"))
                    BY <2>1, <5>2
                <5> QED
                    BY <4>2, <5>3 DEF Refused
            <4> QED
                BY <4>1, <4>2
        <3>3. out' = fed \o post
            BY <2>5 DEF p
        <3> HIDE DEF fed, post, none
        <3>4. out' = (none \o fed) \o post
            BY <2>2, <3>3
        <3> QED
            BY <3>2, <3>4
    <2> QED
        BY <1>1, <2>3, <2>4, <2>5
<1>8. PICK x \in Subs : /\ AllOf(cl, n, x)
                        /\ n = 1 => sub[x].state # "NONE" /\ sub[x].engine # e
    <2>1. CASE n = 0
        BY <2>1 DEF AllOf
    <2>2. CASE n = 1
        <3> DEFINE x == cl[1].sub
        <3>1. 1 \in 1..Len(cl)
            BY <1>2, <1>4, <2>2
        <3>2. x \in Subs
            BY <1>2, <3>1, FarewellSubs DEF IInv, CoreInv, EnginesInv
        <3>3. sub[x].state # "NONE" /\ sub[x].engine # e
            BY <1>2, <3>1 DEF IInv, CoreInv, FarewellsInv
        <3>4. \A i \in 1..n : cl[i].sub = x
            BY <2>2
        <3> HIDE DEF x
        <3> QED
            BY <3>2, <3>3, <3>4 DEF AllOf
    <2>3. n = 0 \/ n = 1
        BY <1>4
    <2> QED
        BY <2>1, <2>2, <2>3
<1>9. HeardIn(out', t) = IF t = x THEN Goodbyes(sub[x].next, n) ELSE <<>>
    <2>1. PICK post \in Seq(Response) : Faulty(post) /\ out' = (none \o fed) \o post
        BY <1>7
    <2>2. none \in Seq(Response) /\ Faulty(none)
        BY DEF Faulty
    <2> HIDE DEF n, q, none, cl
    <2>3. HeardIn((none \o FarewellReplies(sub, cl, q, n)) \o post, t)
            = IF t = x THEN Goodbyes(sub[x].next, n) ELSE <<>>
        BY <1>2, <1>3, <1>4, <1>5, <1>8, <2>1, <2>2, FarewellsHeard
    <2> QED
        BY <2>1, <2>3
<1>10. got \in [Subs -> Subscription]
    BY <1>2, AcknowledgedSound
<1> HIDE DEF got, cl, n, q, none, fed
<1> DEFINE u == sub[t]
           v == sub'[t]
<1>11. /\ v.next = IF t = x THEN got[t].next + n ELSE got[t].next
       /\ v.sent = got[t].sent /\ v.state = got[t].state
       /\ v.produced = got[t].produced /\ v.delivered = got[t].delivered
    BY <1>1, <1>4, <1>8, <1>10, FarewellsNumbered
<1>12. /\ got[t].next = u.next /\ got[t].state = u.state
       /\ got[t].produced = u.produced /\ got[t].delivered = u.delivered
       /\ \/ got[t].sent = u.sent
          \/ /\ u.engine = e
             /\ \E m \in u.sent : acks = {<<t, m>>} /\ got[t].sent = u.sent \ {m}
    BY <1>2, AcknowledgedIs DEF got
<1>13. u.next \in Nat
    BY <1>5 DEF Numbering
<1> HIDE DEF u, v
<1>14. CASE t = x /\ n = 1
    <2>1. u.state # "NONE" /\ u.engine # e
        BY <1>8, <1>14 DEF u
    <2>2. v.next = u.next + 1
        BY <1>11, <1>12, <1>14
    <2>3. HeardIn(out', t) = Goodbyes(u.next, 1)
        BY <1>9, <1>14 DEF u
    <2>4. Goodbyes(u.next, 1) = <<Msg(u.next, <<0>>)>>
        <3>1. \A i \in 1..1 : u.next + i - 1 = u.next
            BY <1>13
        <3>2. Goodbyes(u.next, 1) = [i \in 1..1 |-> Msg(u.next, <<0>>)]
            BY <3>1 DEF Goodbyes
        <3> QED
            BY <3>2
    <2>5. IsLate(u, v, HeardIn(out', t))
        BY <1>11, <1>12, <2>1, <2>2, <2>3, <2>4 DEF IsLate
    <2> QED
        BY <2>5 DEF Evolves, u, v
<1>15. CASE ~(t = x /\ n = 1)
    <2>1. v.next = u.next /\ HeardIn(out', t) = <<>>
        <3>1. CASE n = 0
            <4>1. Goodbyes(sub[x].next, n) = <<>>
                <5>1. 1..n = {}
                    BY <3>1
                <5> QED
                    BY <5>1 DEF Goodbyes
            <4> QED
                BY <1>9, <1>11, <1>12, <1>13, <3>1, <4>1
        <3>2. CASE t # x
            BY <1>9, <1>11, <1>12, <3>2
        <3> QED
            BY <1>4, <1>15, <3>1, <3>2
    <2>2. CASE got[t].sent = u.sent
        <3>1. IsSilent(u, v, HeardIn(out', t))
            BY <1>11, <1>12, <2>1, <2>2 DEF IsSilent, Same
        <3> QED
            BY <3>1 DEF Evolves, u, v
    <2>3. ASSUME u.engine = e, NEW m \in u.sent, acks = {<<t, m>>}, got[t].sent = u.sent \ {m}
          PROVE  /\ sub[t].engine = e /\ acks = {<<t, m>>}
                 /\ Acknowledges(sub[t], sub'[t], m, HeardIn(out', t))
        <3>1. Alive(u)
            BY <1>2, <2>3 DEF u
        <3>2. Alive(v)
            BY <1>11, <1>12, <3>1 DEF Alive
        <3>3. Acknowledges(u, v, m, HeardIn(out', t))
            BY <1>11, <1>12, <2>1, <2>3, <3>1, <3>2 DEF Acknowledges
        <3> QED
            BY <2>3, <3>3 DEF u, v
    <2> QED
        BY <1>12, <2>2, <2>3
<1> QED
    BY <1>14, <1>15

-----------------------------------------------------------------------------
(***************************************************************************)
(* Every subscription is its stream.                                       *)
(***************************************************************************)
\* The client of the engine that owns s acknowledges a message of s.
OwnerAcknowledges(s, m) ==
    \E e \in Sessions, r \in Requests :
        sub[s].engine = e /\ PublishRequest(e, r, {<<s, m>>})

\* What Next does to the streams.
StreamsGo ==
    \A s \in Subs :
        \/ Evolves(sub[s], sub'[s], HeardIn(out', s))
        \/ \E m : /\ OwnerAcknowledges(s, m)
                  /\ Acknowledges(sub[s], sub'[s], m, HeardIn(out', s))

\* Every step is a step of each stream, or an acknowledgement of its client.
LEMMA NextStreams ==
    ASSUME IInv, FreshInv, Next
    PROVE  StreamsGo
<1>1. ASSUME StreamStep
      PROVE  StreamsGo
    BY <1>1 DEF StreamStep, StreamsGo
<1>2. ASSUME NEW e \in Sessions, NEW r \in Requests, NEW acks \in Acks, PublishRequest(e, r, acks)
      PROVE  StreamsGo
    <2>1. ASSUME NEW s \in Subs
          PROVE  \/ Evolves(sub[s], sub'[s], HeardIn(out', s))
                 \/ \E m : /\ OwnerAcknowledges(s, m)
                           /\ Acknowledges(sub[s], sub'[s], m, HeardIn(out', s))
        <3>1. CASE Evolves(sub[s], sub'[s], HeardIn(out', s))
            BY <3>1
        <3>2. ASSUME sub[s].engine = e, NEW m, acks = {<<s, m>>},
                     Acknowledges(sub[s], sub'[s], m, HeardIn(out', s))
              PROVE  OwnerAcknowledges(s, m)
            BY <1>2, <3>2 DEF OwnerAcknowledges
        <3> QED
            BY <1>2, <3>1, <3>2, PublishStreams
    <2> QED
        BY <2>1 DEF StreamsGo
<1>3. CASE Services
    <2>1. ASSUME NEW e \in Sessions, NEW s \in Subs, NEW b, CreateSubscription(e, s, b)
          PROVE  StreamStep
        BY <2>1, CreateStreams
    <2>2. ASSUME NEW s \in Subs, NEW b \in BOOLEAN,
                 \/ CallOnSubscription(s) \/ DeleteMonitoredItems(s)
                 \/ ModifySubscription(s) \/ SetPublishingMode(s, b)
          PROVE  StreamStep
        BY <2>2, CallsStream
    <2>3. ASSUME NEW s \in Subs, DeleteSubscription(s)
          PROVE  StreamStep
        BY <2>3, DeleteStreams
    <2>4. ASSUME NEW s \in Subs, NEW d \in Sessions, NEW b, NEW fresh,
                 TransferSubscription(s, d, b, fresh)
          PROVE  StreamStep
        BY <2>4, TransferStreams
    <2>5. ASSUME NEW e \in Sessions,
                 CloseSessionAndSubscriptions(e) \/ CloseSessionOnly(e) \/ ChangeChannel(e)
          PROVE  StreamStep
        BY <2>5, CloseAllStreams, CloseOnlyStreams, ChannelStreams
    <2> QED
        BY <1>1, <1>2, <1>3, <2>1, <2>2, <2>3, <2>4, <2>5 DEF Services
<1>4. ASSUME NEW s \in Subs, Notify(s)
      PROVE  StreamStep
    BY <1>4, CallsStream
<1> QED
    BY <1>1, <1>3, <1>4, TimersStream DEF Next

\* An id that is not handed out stays as it is.
LEMMA FreshKept ==
    ASSUME FreshInv, StreamsGo
    PROVE  FreshInv'
<1>1. ASSUME NEW s \in Subs, sub'[s].state = "NONE"
      PROVE  Same(Unborn, sub'[s])
    <2> DEFINE h == HeardIn(out', s)
    <2> HIDE DEF h
    <2>1. Evolves(sub[s], sub'[s], h) \/ \E m : Acknowledges(sub[s], sub'[s], m, h)
        BY DEF StreamsGo, h
    <2>2. ~Alive(sub'[s]) /\ sub'[s].state # "CLOSED"
        BY <1>1 DEF Alive
    <2>3. sub[s].state = "NONE" /\ Same(sub[s], sub'[s])
        BY <1>1, <2>1, <2>2
           DEF Evolves, Cycles, Moves, Opens, Produces, Withdraws, Ends, IsLate, IsSilent, Acknowledges
    <2> QED
        BY <2>3 DEF FreshInv, Same
<1> QED
    BY <1>1 DEF FreshInv

\* No id is handed out at first.
LEMMA FreshInitially == Init => FreshInv
BY DEF Init, FreshInv, Same

\* Together with IInv, it holds throughout.
LEMMA FreshAlways == Spec => [](IInv /\ FreshInv)
<1>1. IInv /\ FreshInv /\ [Next]_vars => FreshInv'
    <2>1. ASSUME FreshInv, UNCHANGED vars
          PROVE  FreshInv'
        BY <2>1 DEF vars, FreshInv
    <2> QED
        BY <2>1, NextStreams, FreshKept
<1> QED
    BY <1>1, FreshInitially, Invariance, PTL DEF Spec

\* A subscription begins as a stream does.
LEMMA StreamsBegin ==
    ASSUME Init, NEW s \in Subs
    PROVE  Stream(s)!Init
<1>1. sub[s] = Unborn /\ out = <<>>
    BY DEF Init
<1>2. Said(s) = <<>>
    <2>1. out \in Seq(Response) /\ Mine(out, s) = {}
        BY <1>1 DEF Mine
    <2>2. HeardIn(out, s) = <<>>
        BY <2>1, HeardNone
    <2> QED
        BY <2>2 DEF Said, HeardIn, Heard, Mine
<1> QED
    BY <1>1, <1>2 DEF Stream!Init, Phase, Unborn

\* What a client is promised of one subscription, NotificationStream, is what
\* publish cycles, requests that feed, transfers, closed sessions, farewells
\* and acknowledgements make of it: data under consecutive numbers, each value
\* once and in order, on whatever session; and after the end only notices.
THEOREM StreamsRefined == Spec => StreamsImplemented
<1>1. Init => \A s \in Subs : Stream(s)!Init
    BY StreamsBegin
<1>2. IInv /\ FreshInv /\ [Next]_vars =>
         [\A s \in Subs : Stream(s)!Next \/ UNCHANGED Stream(s)!vars]_vars
    <2>1. ASSUME IInv, FreshInv, Next, NEW s \in Subs
          PROVE  Stream(s)!Next
        <3>1. \/ Evolves(sub[s], sub'[s], HeardIn(out', s))
              \/ \E m : Acknowledges(sub[s], sub'[s], m, HeardIn(out', s))
            BY <2>1, NextStreams DEF StreamsGo
        <3> QED
            BY <3>1, StreamSteps
    <2> QED
        BY <2>1
<1> QED
    BY <1>1, <1>2, FreshAlways, PTL DEF Spec, StreamsImplemented

\* A message that leaves the retransmission queue was trimmed or acknowledged.
LEMMA RetransmissionStep ==
    ASSUME IInv, FreshInv, Next, NEW s \in Subs, Live(s), Live(s)'
    PROVE  /\ sub'[s].sent \ sub[s].sent \subseteq sub[s].next..(sub'[s].next - 1)
           /\ \A n \in sub[s].sent \ sub'[s].sent :
                \/ Cardinality({m \in sub[s].sent : m > n}) >= MaxSentMessages
                \/ \E e \in Sessions, r \in Requests :
                      sub[s].engine = e /\ PublishRequest(e, r, {<<s, n>>})
<1> DEFINE u == sub[s]
           v == sub'[s]
           h == HeardIn(out', s)
<1>1. u.next \in Nat /\ u.sent \subseteq 1..(u.next - 1) /\ MaxSentMessages \in Nat
    BY PublishingAssumption DEF IInv, CoreInv, SubsInv, Sound, Subscription
<1>2. Alive(u) /\ Alive(v)
    BY DEF Live, Alive
<1>3. Evolves(u, v, h) \/ \E m : OwnerAcknowledges(s, m) /\ Acknowledges(u, v, m, h)
    BY NextStreams DEF StreamsGo
<1> HIDE DEF u, v, h
<1>4. ASSUME NEW n, n \in u.sent, n \notin Trim(u)
      PROVE  Cardinality({m \in u.sent : m > n}) >= MaxSentMessages
    <2> DEFINE S == {m \in u.sent : m > n}
    <2>1. IsFiniteSet(1..(u.next - 1)) /\ S \in SUBSET (1..(u.next - 1))
        BY <1>1, FS_Interval
    <2>2. Cardinality(S) \in Nat
        BY <2>1, FS_Subset, FS_CardinalityType
    <2>3. ~(Cardinality(S) < MaxSentMessages)
        BY <1>4 DEF Trim
    <2> HIDE DEF S
    <2>4. Cardinality(S) >= MaxSentMessages
        BY <1>1, <2>2, <2>3
    <2> QED
        BY <2>4 DEF S
<1>5. CASE Evolves(u, v, h)
    <2>1. \E rest \in {Trim(u), u.sent} :
             \/ v.sent = rest
             \/ v.sent = rest \cup {u.next} /\ v.next = u.next + 1
        BY <1>2, <1>5 DEF Evolves, Cycles, Moves, Opens, Produces, Withdraws, Ends, IsLate, IsSilent,
           Same, SaidData, SaidNotice, SaidKeepAlive, SaidNothing, Alive
    <2>2. Trim(u) \subseteq u.sent
        BY DEF Trim
    <2>3. \A n \in u.sent \ v.sent : n \notin Trim(u)
        BY <2>1, <2>2
    <2>4. v.sent \ u.sent \subseteq u.next..(v.next - 1)
        BY <1>1, <2>1, <2>2
    <2> QED
        BY <1>4, <2>3, <2>4 DEF u, v
<1>6. ASSUME NEW m, OwnerAcknowledges(s, m), Acknowledges(u, v, m, h)
      PROVE  /\ v.sent \ u.sent = {}
             /\ \A n \in u.sent \ v.sent : OwnerAcknowledges(s, n)
    BY <1>6 DEF Acknowledges
<1> QED
    BY <1>3, <1>5, <1>6 DEF OwnerAcknowledges, u, v

\* discardOldSentNotifications, process_subscriptionAcknowledgements and the
\* transfers: a live subscription keeps each message it sent until the session
\* that owns it acknowledges it or MaxSentMessages younger ones are kept.
THEOREM RetransmissionKept == Spec => RetransmissionQueue
<1>1. IInv /\ FreshInv /\ [Next]_vars =>
         [\A s \in Subs : (Live(s) /\ Live(s)') =>
         /\ sub'[s].sent \ sub[s].sent \subseteq sub[s].next..(sub'[s].next - 1)
         /\ \A n \in sub[s].sent \ sub'[s].sent :
              \/ Cardinality({m \in sub[s].sent : m > n}) >= MaxSentMessages
              \/ \E e \in Sessions, r \in Requests :
                    sub[s].engine = e /\ PublishRequest(e, r, {<<s, n>>})]_vars
    BY RetransmissionStep
<1> QED
    BY <1>1, FreshAlways, PTL DEF Spec, RetransmissionQueue
=============================================================================
