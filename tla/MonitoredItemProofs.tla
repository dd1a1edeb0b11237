------------------------ MODULE MonitoredItemProofs ------------------------
(***************************************************************************)
(* What the operators of ItemQueue guarantee for queues of every size, and *)
(* the inductive invariant of a monitored item, from which its properties  *)
(* follow.                                                                 *)
(*                                                                         *)
(* The callbacks that wait for the device are called one after the other,  *)
(* as many as there are: what holds of an item after all of them is proved *)
(* by induction. The principle is stated of sets (Induction), and rests on *)
(* the fact that strict inclusion of finite sets is well-founded.          *)
(***************************************************************************)
EXTENDS MonitoredItemProperties, WellFoundedInduction, FiniteSetTheorems, TLAPS

-----------------------------------------------------------------------------
(***************************************************************************)
(* Induction.                                                              *)
(***************************************************************************)

\* A set of numbers that is not empty has a least one: 0..m is minimal among 0..k.
LEMMA Minimum ==
    ASSUME NEW T \in SUBSET Nat, T # {}
    PROVE  \E m \in T : \A k \in T : m <= k
<1> DEFINE F == {0..k : k \in T}
<1>1. F \subseteq FiniteSubsetsOf(Nat)
    <2> SUFFICES ASSUME NEW k \in T
                 PROVE  0..k \in FiniteSubsetsOf(Nat)
        OBVIOUS
    <2>1. IsFiniteSet(0..k)
        BY FS_Interval
    <2> QED
        BY <2>1 DEF FiniteSubsetsOf
<1>2. F # {}
    OBVIOUS
<1>3. \E x \in F : \A y \in F : ~ (<<y, x>> \in StrictSubsetOrdering(Nat))
    <2> HIDE DEF F
    <2> QED
        BY <1>1, <1>2, WFMin, FS_StrictSubsetOrderingWellFounded
<1>4. PICK m \in T : \A k \in T : ~ (<<0..k, 0..m>> \in StrictSubsetOrdering(Nat))
    BY <1>3
<1>5. ASSUME NEW k \in T, k < m
      PROVE  <<0..k, 0..m>> \in StrictSubsetOrdering(Nat)
    <2>1. 0..k \subseteq 0..m /\ 0..k # 0..m /\ 0..k \in SUBSET Nat /\ 0..m \in SUBSET Nat
        BY <1>5
    <2> QED
        BY <2>1 DEF StrictSubsetOrdering
<1>6. \A k \in T : ~(k < m)
    BY <1>4, <1>5
<1>7. m \in Nat /\ \A k \in T : k \in Nat
    OBVIOUS
<1> QED
    BY <1>6, <1>7

LEMMA Induction ==
    ASSUME NEW S, 0 \in S, \A n \in Nat : n \in S => n + 1 \in S
    PROVE  Nat \subseteq S
<1> DEFINE T == Nat \ S
<1> SUFFICES ASSUME T # {}
             PROVE  FALSE
    OBVIOUS
<1>1. PICK m \in T : \A k \in T : m <= k
    <2> HIDE DEF T
    <2>1. T \in SUBSET Nat
        BY DEF T
    <2> QED
        BY <2>1, Minimum
<1>2. m # 0 /\ m - 1 \in Nat /\ m - 1 < m /\ (m - 1) + 1 = m
    BY <1>1
<1> QED
    BY <1>1, <1>2

-----------------------------------------------------------------------------
(***************************************************************************)
(* The queue.                                                              *)
(***************************************************************************)

\* A mark changes neither what a notification stems from nor its kind
\* (_setOverflowBit, setSemanticChangeBit, the unset of a queue of one).
LEMMA BitsKeep ==
    ASSUME NEW n \in Notification, NEW bit \in {"semantic", "overflow"}
    PROVE  /\ WithBit(n, bit) \in Notification
           /\ WithBit(n, bit).stamp = n.stamp
           /\ n.data => bit \in WithBit(n, bit).status
           /\ WithoutOverflowBit(n) \in Notification
           /\ WithoutOverflowBit(n).stamp = n.stamp
    BY DEF WithBit, WithoutOverflowBit, Notification

\* The queue that _enqueue_notification shifts: the youngest, as many as before.
LEMMA RestIs ==
    ASSUME NEW q \in Seq(Notification), NEW n \in Notification, q # <<>>
    PROVE  /\ Tail(Append(q, n)) \in Seq(Notification)
           /\ Len(Tail(Append(q, n))) = Len(q)
           /\ Tail(Append(q, n))[Len(q)] = n
           /\ Head(Tail(Append(q, n))) = Tail(Append(q, n))[1]
<1>1. /\ Append(q, n) \in Seq(Notification)
      /\ Len(Append(q, n)) = Len(q) + 1
      /\ Append(q, n)[Len(q) + 1] = n
      /\ Len(q) \in Nat /\ Len(q) > 0
    OBVIOUS
<1>2. \A s \in Seq(Notification) : Len(s) > 1 =>
          /\ Tail(s) \in Seq(Notification)
          /\ Len(Tail(s)) = Len(s) - 1
          /\ \A k \in 1..(Len(s) - 1) : Tail(s)[k] = s[k + 1]
          /\ Head(Tail(s)) = Tail(s)[1]
    OBVIOUS
<1> QED
    BY <1>1, <1>2

\* _enqueue_notification keeps the queue within its size and never leaves it
\* empty; unless it throws, the newest notification is the last.
THEOREM QueueBounded ==
    ASSUME NEW q \in Seq(Notification), NEW n \in Notification,
           NEW size \in Nat \ {0}, NEW oldest \in BOOLEAN,
           Len(q) <= size
    PROVE  LET r == Enqueued(q, n, size, oldest)
           IN  /\ r \in Seq(Notification)
               /\ Len(r) \in 1..size
               /\ ~BitRefused(q, n, size, oldest) => r[Len(r)].stamp = n.stamp
<1> DEFINE r == Enqueued(q, n, size, oldest)
<1>1. CASE size = 1
    BY <1>1 DEF Enqueued
<1>2. CASE size # 1 /\ ~Overflows(q, size)
    BY <1>2 DEF Enqueued, Overflows
<1>3. CASE size # 1 /\ Overflows(q, size)
    <2>1. q # <<>> /\ Len(q) = size
        BY <1>3 DEF Overflows
    <2> DEFINE rest == Tail(Append(q, n))
    <2>2. /\ rest \in Seq(Notification) /\ Len(rest) = size /\ rest[size] = n
        BY <2>1, RestIs
    <2> HIDE DEF rest
    <2>3. CASE BitRefused(q, n, size, oldest)
        <3>1. r = IF oldest THEN rest ELSE q
            BY <1>3, <2>3 DEF Enqueued, rest
        <3> QED
            BY <2>1, <2>2, <2>3, <3>1
    <2>4. CASE ~BitRefused(q, n, size, oldest) /\ oldest
        <3>1. r = [rest EXCEPT ![1] = WithBit(rest[1], "overflow")]
            BY <1>3, <2>4 DEF Enqueued, rest
        <3>2. rest[1] \in Notification /\ size > 1
            BY <1>3, <2>2
        <3>3. WithBit(rest[1], "overflow") \in Notification
            BY <3>2, BitsKeep
        <3>4. r \in Seq(Notification) /\ Len(r) = size /\ r[size] = rest[size]
            BY <2>2, <3>1, <3>2, <3>3
        <3> QED
            BY <2>2, <3>4
    <2>5. CASE ~BitRefused(q, n, size, oldest) /\ ~oldest
        <3>1. r = [q EXCEPT ![Len(q)] = WithBit(n, "overflow")]
            BY <1>3, <2>5 DEF Enqueued
        <3>2. WithBit(n, "overflow") \in Notification /\ WithBit(n, "overflow").stamp = n.stamp
            BY BitsKeep
        <3>3. r \in Seq(Notification) /\ Len(r) = size /\ r[size] = WithBit(n, "overflow")
            BY <2>1, <3>1, <3>2
        <3> QED
            BY <3>2, <3>3
    <2> QED
        BY <2>3, <2>4, <2>5
<1> QED
    BY <1>1, <1>2, <1>3

\* When a queue overflows and _enqueue_notification does not throw, what announces
\* the loss is in the queue and bears the overflow bit (an event bears none).
THEOREM LossIsAnnounced ==
    ASSUME NEW q \in Seq(Notification), NEW n \in Notification,
           NEW size \in Nat \ {0}, NEW oldest \in BOOLEAN,
           Len(q) <= size, Overflows(q, size),
           ~BitRefused(q, n, size, oldest), Announcer(q, n, oldest).data
    PROVE  \E k \in 1..Len(Enqueued(q, n, size, oldest)) :
               "overflow" \in Enqueued(q, n, size, oldest)[k].status
<1> DEFINE r    == Enqueued(q, n, size, oldest)
           rest == Tail(Append(q, n))
<1>1. q # <<>> /\ Len(q) = size /\ size > 1
    BY DEF Overflows
<1>2. /\ rest \in Seq(Notification) /\ Len(rest) = size /\ Head(rest) = rest[1]
    BY <1>1, RestIs
<1>3. CASE oldest
    <2>1. r = [rest EXCEPT ![1] = WithBit(rest[1], "overflow")]
        BY <1>1, <1>3 DEF Enqueued
    <2> HIDE DEF rest
    <2>2. rest[1] \in Notification /\ rest[1].data
        BY <1>1, <1>2, <1>3 DEF Announcer, rest
    <2>3. "overflow" \in WithBit(rest[1], "overflow").status
        BY <2>2, BitsKeep
    <2>4. Len(r) = size /\ r[1] = WithBit(rest[1], "overflow")
        BY <1>1, <1>2, <2>1
    <2> QED
        BY <1>1, <2>3, <2>4
<1>4. CASE ~oldest
    <2>1. r = [q EXCEPT ![Len(q)] = WithBit(n, "overflow")]
        BY <1>1, <1>4 DEF Enqueued
    <2>2. "overflow" \in WithBit(n, "overflow").status
        BY <1>4, BitsKeep DEF Announcer
    <2>3. Len(r) = size /\ r[size] = WithBit(n, "overflow")
        BY <1>1, <2>1
    <2> QED
        BY <1>1, <2>2, <2>3
<1> QED
    BY <1>3, <1>4

\* _adjust_queue_to_match_new_queue_size leaves no more than fits, and whichever
\* notifications go, the last one stays.
THEOREM ShrinkingKeepsLatest ==
    ASSUME NEW q \in Seq(Notification), NEW size \in Nat \ {0}, NEW oldest \in BOOLEAN
    PROVE  LET r == Adjusted(q, size, oldest)
           IN  /\ r \in Seq(Notification)
               /\ Len(r) <= size
               /\ q # <<>> => r # <<>> /\ r[Len(r)].stamp = q[Len(q)].stamp
<1> DEFINE fit == Shrunk(q, size, oldest)
<1>1. /\ fit \in Seq(Notification)
      /\ Len(fit) <= size
      /\ q # <<>> => fit # <<>> /\ fit[Len(fit)] = q[Len(q)]
    <2>1. CASE Len(q) <= size
        BY <2>1 DEF Shrunk
    <2>2. CASE Len(q) > size /\ oldest
        <3> DEFINE from == Len(q) - size + 1
        <3>1. from \in 1..Len(q) /\ Len(q) \in Nat /\ fit = SubSeq(q, from, Len(q))
            BY <2>2 DEF Shrunk
        <3>2. /\ fit \in Seq(Notification) /\ Len(fit) = size
              /\ fit[size] = q[from + size - 1]
            BY <3>1
        <3>3. from + size - 1 = Len(q)
            BY <3>1
        <3> HIDE DEF fit, from
        <3>4. fit # <<>>
            BY <3>2
        <3> QED
            BY <3>2, <3>3, <3>4
    <2>3. CASE Len(q) > size /\ ~oldest
        <3> DEFINE first == SubSeq(q, 1, size)
        <3>1. first \in Seq(Notification) /\ Len(first) = size
            BY <2>3
        <3>2. fit = [first EXCEPT ![size] = q[Len(q)]] /\ q[Len(q)] \in Notification
            BY <2>3 DEF Shrunk
        <3> HIDE DEF first
        <3> QED
            BY <3>1, <3>2
    <2> QED
        BY <2>1, <2>2, <2>3
<1> HIDE DEF fit
<1>2. CASE size = 1 /\ Len(fit) = 1
    <2>1. fit[1] \in Notification
        BY <1>1, <1>2
    <2>2. WithoutOverflowBit(fit[1]) \in Notification /\ WithoutOverflowBit(fit[1]).stamp = fit[1].stamp
        BY <2>1, BitsKeep
    <2>3. Adjusted(q, size, oldest) = <<WithoutOverflowBit(fit[1])>>
        BY <1>2 DEF Adjusted, fit
    <2>4. q # <<>> => fit[1] = q[Len(q)]
        BY <1>1, <1>2
    <2> DEFINE only == WithoutOverflowBit(fit[1])
    <2>5. /\ <<only>> \in Seq(Notification)
          /\ Len(<<only>>) = 1 /\ <<only>> # <<>> /\ <<only>>[1] = only
        BY <2>2
    <2>6. 1 <= size
        OBVIOUS
    <2> QED
        BY <2>2, <2>3, <2>4, <2>5, <2>6
<1>3. CASE ~(size = 1 /\ Len(fit) = 1)
    <2>1. Adjusted(q, size, oldest) = fit
        BY <1>3 DEF Adjusted, fit
    <2> QED
        BY <1>1, <2>1
<1> QED
    BY <1>2, <1>3

\* A queue whose entries come from another, those of the end after those before them.
From(q, r) ==
    \E e \in Nat : \A k \in 1..Len(r) :
        LET j == IF k = Len(r) THEN Len(q) ELSE k + e
        IN  /\ j \in k..Len(q)
            /\ r[k].stamp = q[j].stamp /\ r[k].data = q[j].data

Sorted(q) == \A m, n \in 1..Len(q) : m < n => q[m].stamp <= q[n].stamp

\* Notifications of events, but for the first
Plain(q) == \A n \in 1..Len(q) : n > 1 => ~q[n].data

LEMMA FromKeeps ==
    ASSUME NEW q \in Seq(Notification), NEW r \in Seq(Notification), From(q, r)
    PROVE  /\ Sorted(q) => Sorted(r)
           /\ Plain(q) => Plain(r)
<1>1. PICK e \in Nat : \A k \in 1..Len(r) :
          LET j == IF k = Len(r) THEN Len(q) ELSE k + e
          IN  /\ j \in k..Len(q)
              /\ r[k].stamp = q[j].stamp /\ r[k].data = q[j].data
    BY DEF From
<1> DEFINE j(k) == IF k = Len(r) THEN Len(q) ELSE k + e
<1>2. \A k \in 1..Len(r) : /\ j(k) \in k..Len(q)
                           /\ r[k].stamp = q[j(k)].stamp /\ r[k].data = q[j(k)].data
    BY <1>1
<1>3. Len(q) \in Nat /\ Len(r) \in Nat /\ (\A k \in 1..Len(q) : q[k].stamp \in Nat)
    <2>1. \A k \in 1..Len(q) : q[k] \in Notification
        OBVIOUS
    <2> QED
        BY <2>1 DEF Notification
<1>4. \A m, n \in 1..Len(r) : m < n => j(m) <= j(n)
    BY <1>2, <1>3
<1>5. \A k \in 1..Len(r) : j(k) \in 1..Len(q)
    BY <1>2, <1>3
<1> HIDE DEF j
<1>6. ASSUME Sorted(q)
      PROVE  Sorted(r)
    <2> SUFFICES ASSUME NEW m \in 1..Len(r), NEW n \in 1..Len(r), m < n
                 PROVE  r[m].stamp <= r[n].stamp
        BY DEF Sorted
    <2>1. j(m) <= j(n) /\ j(m) \in 1..Len(q) /\ j(n) \in 1..Len(q)
        BY <1>4, <1>5
    <2>2. q[j(m)].stamp <= q[j(n)].stamp
        BY <1>3, <1>6, <2>1 DEF Sorted
    <2> QED
        BY <1>2, <2>2
<1>7. ASSUME Plain(q)
      PROVE  Plain(r)
    <2> SUFFICES ASSUME NEW n \in 1..Len(r), n > 1
                 PROVE  ~r[n].data
        BY DEF Plain
    <2>1. j(n) \in 1..Len(q) /\ j(n) > 1
        BY <1>2, <1>3
    <2> QED
        BY <1>2, <1>7, <2>1 DEF Plain
<1> QED
    BY <1>6, <1>7

\* What a queue is after _enqueue_notification: what was in it, with or without the oldest or
\* the newest, then the notification; or, when the bit is refused, what the exception left.
Skips(q, r, e) ==
    \A k \in 1..(Len(r) - 1) : /\ k + e \in 1..Len(q)
                               /\ r[k].stamp = q[k + e].stamp /\ r[k].data = q[k + e].data

Extends(q, n, r) ==
    /\ Skips(q, r, 0) \/ Skips(q, r, 1)
    /\ r[Len(r)].stamp = n.stamp /\ r[Len(r)].data = n.data

LEMMA EnqueuedExtends ==
    ASSUME NEW q \in Seq(Notification), NEW n \in Notification,
           NEW size \in Nat \ {0}, NEW oldest \in BOOLEAN,
           Len(q) <= size, ~BitRefused(q, n, size, oldest)
    PROVE  Extends(q, n, Enqueued(q, n, size, oldest))
<1> DEFINE r == Enqueued(q, n, size, oldest)
<1> SUFFICES Extends(q, n, r)
    OBVIOUS
<1>1. CASE size = 1
    <2>1. r = <<n>> /\ Len(r) = 1 /\ r[1] = n
        BY <1>1 DEF Enqueued
    <2> HIDE DEF r
    <2> QED
        BY <2>1 DEF Extends, Skips
<1>2. CASE size # 1 /\ ~Overflows(q, size)
    <2>1. r = Append(q, n)
        BY <1>2 DEF Enqueued
    <2>2. Len(r) = Len(q) + 1 /\ r[Len(q) + 1] = n /\ \A k \in 1..Len(q) : r[k] = q[k]
        BY <2>1
    <2>3. Len(q) \in Nat
        OBVIOUS
    <2> HIDE DEF r
    <2>4. Skips(q, r, 0)
        BY <2>2, <2>3 DEF Skips
    <2>5. r[Len(r)] = n
        BY <2>2
    <2> QED
        BY <2>4, <2>5 DEF Extends
<1>3. CASE size # 1 /\ Overflows(q, size)
    <2>1. q # <<>> /\ Len(q) = size /\ size > 1
        BY <1>3 DEF Overflows
    <2> DEFINE rest == Tail(Append(q, n))
    <2>2. CASE oldest
        <3>1. r = [rest EXCEPT ![1] = WithBit(rest[1], "overflow")]
            BY <1>3, <2>2 DEF Enqueued
        <3>2. rest \in Seq(Notification) /\ Len(rest) = size /\ rest[size] = n
            BY <2>1, RestIs
        <3>3. \A k \in 1..(size - 1) : rest[k] = q[k + 1]
            BY <2>1
        <3> HIDE DEF rest, r
        <3>4. rest[1] \in Notification /\ 1 \in 1..Len(rest)
            BY <2>1, <3>2
        <3>5. /\ WithBit(rest[1], "overflow").stamp = rest[1].stamp
              /\ WithBit(rest[1], "overflow").data = rest[1].data
            BY <3>4 DEF WithBit, Notification
        <3>6. Len(r) = size /\ \A k \in 1..size : r[k].stamp = rest[k].stamp /\ r[k].data = rest[k].data
            BY <3>1, <3>2, <3>4, <3>5
        <3>7. Skips(q, r, 1)
            BY <2>1, <3>3, <3>6 DEF Skips
        <3>8. r[Len(r)].stamp = n.stamp /\ r[Len(r)].data = n.data
            BY <2>1, <3>2, <3>6
        <3> QED
            BY <3>7, <3>8 DEF Extends
    <2>3. CASE ~oldest
        <3>1. r = [q EXCEPT ![Len(q)] = WithBit(n, "overflow")]
            BY <1>3, <2>3 DEF Enqueued
        <3>2. WithBit(n, "overflow").stamp = n.stamp /\ WithBit(n, "overflow").data = n.data
            BY DEF WithBit, Notification
        <3>3. /\ Len(r) = Len(q) /\ r[Len(q)] = WithBit(n, "overflow")
              /\ \A k \in 1..(Len(q) - 1) : r[k] = q[k]
            BY <2>1, <3>1
        <3> HIDE DEF r
        <3>4. Skips(q, r, 0)
            BY <2>1, <3>3 DEF Skips
        <3> QED
            BY <3>2, <3>3, <3>4 DEF Extends
    <2> QED
        BY <2>2, <2>3
<1> QED
    BY <1>1, <1>2, <1>3

LEMMA ExtendsKeeps ==
    ASSUME NEW q \in Seq(Notification), NEW n \in Notification, NEW r \in Seq(Notification),
           r # <<>>, Extends(q, n, r)
    PROVE  /\ Sorted(q) /\ (q # <<>> => q[Len(q)].stamp <= n.stamp) => Sorted(r)
           /\ Plain(q) /\ ~n.data => Plain(r)
<1>1. PICK e \in {0, 1} : Skips(q, r, e)
    BY DEF Extends
<1>2. Len(q) \in Nat /\ Len(r) \in Nat /\ Len(r) > 0
    OBVIOUS
<1>3. n.stamp \in Nat /\ \A k \in 1..Len(q) : q[k].stamp \in Nat
    <2>1. \A k \in 1..Len(q) : q[k] \in Notification
        OBVIOUS
    <2> QED
        BY <2>1 DEF Notification
<1>4. ASSUME Sorted(q), q # <<>> => q[Len(q)].stamp <= n.stamp
      PROVE  Sorted(r)
    <2> SUFFICES ASSUME NEW m \in 1..Len(r), NEW k \in 1..Len(r), m < k
                 PROVE  r[m].stamp <= r[k].stamp
        BY DEF Sorted
    <2>1. m + e \in 1..Len(q) /\ r[m].stamp = q[m + e].stamp
        BY <1>1, <1>2 DEF Skips
    <2>2. CASE k < Len(r)
        <3>1. k + e \in 1..Len(q) /\ r[k].stamp = q[k + e].stamp
            BY <1>1, <1>2, <2>2 DEF Skips
        <3>2. m + e < k + e
            BY <1>2
        <3>3. q[m + e].stamp <= q[k + e].stamp
            BY <1>4, <2>1, <3>1, <3>2 DEF Sorted
        <3> QED
            BY <2>1, <3>1, <3>3
    <2>3. CASE k = Len(r)
        <3>1. r[k].stamp = n.stamp
            BY <2>3 DEF Extends
        <3>2. q # <<>> /\ Len(q) \in 1..Len(q)
            BY <1>2, <2>1
        <3>3. q[m + e].stamp <= q[Len(q)].stamp
            <4>1. CASE m + e = Len(q)
                BY <1>3, <3>2, <4>1
            <4>2. CASE m + e < Len(q)
                BY <1>4, <2>1, <3>2, <4>2 DEF Sorted
            <4> QED
                BY <1>2, <2>1, <4>1, <4>2
        <3> QED
            BY <1>3, <1>4, <2>1, <3>1, <3>2, <3>3
    <2> QED
        BY <1>2, <2>2, <2>3
<1>5. ASSUME Plain(q), ~n.data
      PROVE  Plain(r)
    <2> SUFFICES ASSUME NEW k \in 1..Len(r), k > 1
                 PROVE  ~r[k].data
        BY DEF Plain
    <2>1. CASE k < Len(r)
        <3>1. k + e \in 1..Len(q) /\ r[k].data = q[k + e].data /\ k + e > 1
            BY <1>1, <1>2, <2>1 DEF Skips
        <3> QED
            BY <1>5, <3>1 DEF Plain
    <2>2. CASE k = Len(r)
        BY <1>5, <2>2 DEF Extends
    <2> QED
        BY <1>2, <2>1, <2>2
<1> QED
    BY <1>4, <1>5

LEMMA AdjustedFrom ==
    ASSUME NEW q \in Seq(Notification), NEW size \in Nat \ {0}, NEW oldest \in BOOLEAN
    PROVE  From(q, Adjusted(q, size, oldest))
<1> DEFINE fit == Shrunk(q, size, oldest)
           r   == Adjusted(q, size, oldest)
<1> SUFFICES From(q, r)
    OBVIOUS
<1>1. Len(q) \in Nat
    OBVIOUS
<1>2. PICK e \in Nat : /\ fit \in Seq(Notification)
                       /\ \A k \in 1..Len(fit) :
                              LET j == IF k = Len(fit) THEN Len(q) ELSE k + e
                              IN  j \in k..Len(q) /\ fit[k] = q[j]
    <2>1. CASE Len(q) <= size
        <3>1. fit = q
            BY <2>1 DEF Shrunk
        <3> HIDE DEF fit
        <3>2. \A k \in 1..Len(fit) : LET j == IF k = Len(fit) THEN Len(q) ELSE k + 0
                                     IN  j \in k..Len(q) /\ fit[k] = q[j]
            BY <1>1, <3>1
        <3> QED
            BY <3>1, <3>2
    <2>2. CASE Len(q) > size /\ oldest
        <3> DEFINE e == Len(q) - size
        <3>1. fit = SubSeq(q, e + 1, Len(q)) /\ e \in Nat /\ e + 1 \in 1..Len(q)
            BY <2>2, <1>1 DEF Shrunk
        <3>2. Len(fit) = size /\ fit \in Seq(Notification) /\ \A k \in 1..size : fit[k] = q[k + e]
            BY <1>1, <3>1
        <3> HIDE DEF fit
        <3>3. \A k \in 1..Len(fit) : LET j == IF k = Len(fit) THEN Len(q) ELSE k + e
                                     IN  j \in k..Len(q) /\ fit[k] = q[j]
            BY <1>1, <2>2, <3>2
        <3> HIDE DEF e
        <3> QED
            BY <3>1, <3>2, <3>3
    <2>3. CASE Len(q) > size /\ ~oldest
        <3> DEFINE first == SubSeq(q, 1, size)
        <3>1. /\ first \in Seq(Notification) /\ Len(first) = size
              /\ \A k \in 1..size : first[k] = q[k]
            BY <1>1, <2>3
        <3>2. fit = [first EXCEPT ![size] = q[Len(q)]] /\ q[Len(q)] \in Notification
            BY <1>1, <2>3 DEF Shrunk
        <3> HIDE DEF first
        <3>3. /\ fit \in Seq(Notification) /\ Len(fit) = size
              /\ \A k \in 1..size : fit[k] = IF k = size THEN q[Len(q)] ELSE q[k]
            BY <3>1, <3>2
        <3> HIDE DEF fit
        <3>4. \A k \in 1..Len(fit) : LET j == IF k = Len(fit) THEN Len(q) ELSE k + 0
                                     IN  j \in k..Len(q) /\ fit[k] = q[j]
            BY <1>1, <2>3, <3>3
        <3> QED
            BY <3>3, <3>4
    <2> QED
        BY <1>1, <2>1, <2>2, <2>3
<1> HIDE DEF fit
<1>3. \/ r = fit
      \/ Len(fit) = 1 /\ r = <<WithoutOverflowBit(fit[1])>>
    BY DEF Adjusted, fit
<1>4. /\ Len(r) = Len(fit)
      /\ \A k \in 1..Len(fit) : r[k].stamp = fit[k].stamp /\ r[k].data = fit[k].data
    <2>1. CASE r = fit
        BY <2>1
    <2>2. CASE Len(fit) = 1 /\ r = <<WithoutOverflowBit(fit[1])>>
        <3>1. fit[1] \in Notification
            BY <1>2, <2>2
        <3>2. /\ WithoutOverflowBit(fit[1]).stamp = fit[1].stamp
              /\ WithoutOverflowBit(fit[1]).data = fit[1].data
            BY <3>1 DEF WithoutOverflowBit, Notification
        <3> HIDE DEF r
        <3> QED
            BY <2>2, <3>2
    <2> QED
        BY <1>3, <2>1, <2>2
<1> HIDE DEF r
<1>5. \A k \in 1..Len(r) : LET j == IF k = Len(r) THEN Len(q) ELSE k + e
                           IN  /\ j \in k..Len(q)
                               /\ r[k].stamp = q[j].stamp /\ r[k].data = q[j].data
    BY <1>2, <1>4
<1> QED
    BY <1>5 DEF From

-----------------------------------------------------------------------------
(***************************************************************************)
(* What holds of an item, when the last change of its node has this stamp. *)
(***************************************************************************)

ItemType ==
    [kind : Kinds, mode : {"Invalid", "Disabled", "Sampling", "Reporting"},
     interval : Intervals \cup {0}, size : QueueSizes, oldest : BOOLEAN, filter : Filters,
     alive : BOOLEAN, timer : Intervals \cup {NoTimer}, registered : SUBSET Intervals,
     listening : BOOLEAN, sampling : BOOLEAN, old : DataValue, queue : Seq(Notification),
     triggered : Seq(Notification), version : Nat, thrown : BOOLEAN,
     failed : SUBSET {"overflow", "timer"}, made : Nat, latest : Nat, seen : Nat,
     resent : BOOLEAN]

Fits(i) == i \in ItemType /\ Len(i.queue) <= i.size

\* Only the value of a variable has a timer, and one that has it does not listen; nothing is
\* left of an item that was disposed of.
Timed(i) ==
    /\ i.registered = {i.timer} \ {NoTimer}
    /\ i.timer # NoTimer => i.kind = "value" /\ i.interval # 0 /\ ~i.listening
    /\ ~i.alive => i.timer = NoTimer /\ ~i.listening /\ i.queue = <<>>

Latest(i) ==
    i.failed = {} => /\ Sorted(i.queue)
                     /\ i.queue # <<>> => i.queue[Len(i.queue)].stamp = i.latest

Announced(i) ==
    /\ i.size > 1 /\ i.made > Len(i.queue) /\ i.failed = {}
    /\ \A n \in 1..Len(i.queue) : i.queue[n].data
    => \E n \in 1..Len(i.queue) : "overflow" \in i.queue[n].status

\* What was recorded is not younger than the node; the last value recorded is the one the last
\* notification is about.
Dated(i, stamp) ==
    /\ i.latest <= stamp
    /\ i.old # badDataUnavailable => /\ i.old.stamp <= stamp
                                     /\ i.kind # "event" => i.old.stamp = i.latest

Blamed(i) == i.thrown => i.failed # {}

Sound(i) == Fits(i) /\ Timed(i) /\ Latest(i) /\ Announced(i) /\ Blamed(i)

Good(i, stamp) == Sound(i) /\ Dated(i, stamp)

\* What recording a value leaves alone, and what else starting a timer does
SameItem(i, j) ==
    /\ j.kind = i.kind /\ j.mode = i.mode /\ j.interval = i.interval /\ j.size = i.size
    /\ j.oldest = i.oldest /\ j.filter = i.filter /\ j.alive = i.alive
    /\ j.listening = i.listening
    /\ i.failed \subseteq j.failed

SameTimer(i, j) == j.timer = i.timer /\ j.registered = i.registered

LEMMA Constants ==
    /\ Kinds \subseteq {"value", "attribute", "event"}
    /\ Intervals \subseteq Nat
    /\ QueueSizes \subseteq Nat \ {0}
    /\ badDataUnavailable \in DataValue
    BY ItemAssumption DEF badDataUnavailable, DataValue

LEMMA EnqueueIs ==
    ASSUME NEW i, Fits(i), NEW n \in Notification
    PROVE  LET j == EnqueueNotification(i, n)
               refused == BitRefused(i.queue, n, i.size, i.oldest)
           IN  /\ j.queue = Enqueued(i.queue, n, i.size, i.oldest)
               /\ j.thrown = refused
               /\ j.failed = IF refused THEN i.failed \cup {"overflow"} ELSE i.failed
               /\ j.made = i.made + 1 /\ j.latest = n.stamp
    BY DEF EnqueueNotification, Fits, ItemType

LEMMA EnqueueFits ==
    ASSUME NEW i, Fits(i), NEW n \in Notification
    PROVE  LET j == EnqueueNotification(i, n)
           IN  /\ Fits(j)
               /\ SameItem(i, j) /\ SameTimer(i, j) /\ j.sampling = i.sampling /\ j.old = i.old
               /\ j.triggered = i.triggered /\ j.seen = i.seen /\ j.version = i.version
               /\ j.resent = i.resent /\ j.queue # <<>>
<1> DEFINE q == Enqueued(i.queue, n, i.size, i.oldest)
           refused == BitRefused(i.queue, n, i.size, i.oldest)
           f == IF refused THEN i.failed \cup {"overflow"} ELSE i.failed
           m == i.made + 1
           s == n.stamp
           j == [i EXCEPT !.queue = q, !.thrown = refused, !.failed = f, !.made = m, !.latest = s]
<1>1. /\ i \in ItemType /\ Len(i.queue) <= i.size
      /\ i.queue \in Seq(Notification) /\ i.size \in Nat \ {0} /\ i.oldest \in BOOLEAN
      /\ i.failed \in SUBSET {"overflow", "timer"} /\ i.made \in Nat
    BY Constants DEF Fits, ItemType
<1>2. EnqueueNotification(i, n) = j
    BY <1>1 DEF EnqueueNotification, ItemType
<1>3. q \in Seq(Notification) /\ Len(q) \in 1..i.size
    BY <1>1, QueueBounded
<1>4. refused \in BOOLEAN
    BY DEF BitRefused, Overflows
<1>5. s \in Nat
    BY DEF Notification
<1>6. f \in SUBSET {"overflow", "timer"} /\ i.failed \subseteq f /\ m \in Nat
    BY <1>1
<1> HIDE DEF q, refused, f, m, s
<1>7. /\ j \in ItemType
      /\ SameItem(i, j) /\ SameTimer(i, j) /\ j.sampling = i.sampling /\ j.old = i.old
      /\ j.triggered = i.triggered /\ j.seen = i.seen /\ j.version = i.version
      /\ j.resent = i.resent /\ j.queue = q
    BY <1>1, <1>3, <1>4, <1>5, <1>6 DEF ItemType, SameItem, SameTimer
<1> HIDE DEF j
<1>8. j.size = i.size /\ q # <<>> /\ Len(q) <= i.size
    BY <1>1, <1>3, <1>7 DEF SameItem
<1> QED
    BY <1>2, <1>7, <1>8 DEF Fits

\* A notification that is not older than those of the queue: it is the latest, and if others
\* were lost for it the client is told.
LEMMA EnqueueLatest ==
    ASSUME NEW i, Fits(i), Latest(i), NEW n \in Notification,
           i.queue # <<>> => i.latest <= n.stamp
    PROVE  Latest(EnqueueNotification(i, n))
<1> DEFINE j == EnqueueNotification(i, n)
<1> SUFFICES ASSUME j.failed = {}
             PROVE  Sorted(j.queue) /\ (j.queue # <<>> => j.queue[Len(j.queue)].stamp = j.latest)
    BY DEF Latest
<1>1. /\ j.queue = Enqueued(i.queue, n, i.size, i.oldest)
      /\ j.failed = IF BitRefused(i.queue, n, i.size, i.oldest) THEN i.failed \cup {"overflow"}
                    ELSE i.failed
      /\ j.latest = n.stamp
    BY EnqueueIs
<1>2. Fits(j) /\ j.queue # <<>>
    BY EnqueueFits
<1> HIDE DEF j
<1>3. ~BitRefused(i.queue, n, i.size, i.oldest) /\ i.failed = {}
    BY <1>1
<1>4. /\ i.queue \in Seq(Notification) /\ i.size \in Nat \ {0} /\ i.oldest \in BOOLEAN
      /\ Len(i.queue) <= i.size /\ j.queue \in Seq(Notification)
    BY <1>2, Constants DEF Fits, ItemType
<1>5. Extends(i.queue, n, j.queue)
    BY <1>1, <1>3, <1>4, EnqueuedExtends
<1>6. Sorted(i.queue) /\ (i.queue # <<>> => i.queue[Len(i.queue)].stamp <= n.stamp)
    BY <1>3 DEF Latest
<1>7. Sorted(j.queue)
    BY <1>2, <1>4, <1>5, <1>6, ExtendsKeeps
<1> QED
    BY <1>1, <1>5, <1>7 DEF Extends

LEMMA EnqueueAnnounced ==
    ASSUME NEW i, Fits(i), Announced(i), NEW n \in Notification
    PROVE  Announced(EnqueueNotification(i, n))
<1> DEFINE j == EnqueueNotification(i, n)
           q == i.queue
<1> SUFFICES ASSUME j.size > 1, j.made > Len(j.queue), j.failed = {},
                    \A k \in 1..Len(j.queue) : j.queue[k].data
             PROVE  \E k \in 1..Len(j.queue) : "overflow" \in j.queue[k].status
    BY DEF Announced
<1>1. /\ j.queue = Enqueued(q, n, i.size, i.oldest)
      /\ j.failed = IF BitRefused(q, n, i.size, i.oldest) THEN i.failed \cup {"overflow"}
                    ELSE i.failed
      /\ j.made = i.made + 1
    BY EnqueueIs
<1>2. Fits(j) /\ j.queue # <<>> /\ j.size = i.size
    BY EnqueueFits DEF SameItem
<1> HIDE DEF j
<1>3. ~BitRefused(q, n, i.size, i.oldest) /\ i.failed = {}
    BY <1>1
<1>4. /\ q \in Seq(Notification) /\ i.size \in Nat \ {0} /\ i.oldest \in BOOLEAN
      /\ Len(q) <= i.size /\ j.queue \in Seq(Notification) /\ i.made \in Nat
    BY <1>2, Constants DEF Fits, ItemType
<1>5. CASE Overflows(q, i.size)
    <2>1. Announcer(q, n, i.oldest).data
        <3>1. CASE ~i.oldest
            <4>1. j.queue[Len(j.queue)].data = n.data
                BY <1>1, <1>3, <1>4, EnqueuedExtends DEF Extends
            <4>2. Len(j.queue) \in 1..Len(j.queue)
                BY <1>2, <1>4
            <4> QED
                BY <3>1, <4>1, <4>2 DEF Announcer
        <3>2. CASE i.oldest
            <4> DEFINE rest == Tail(Append(q, n))
            <4>1. q # <<>> /\ Len(q) = i.size
                BY <1>4, <1>5 DEF Overflows
            <4>2. /\ rest \in Seq(Notification) /\ Len(rest) = i.size /\ Head(rest) = rest[1]
                BY <1>4, <4>1, RestIs
            <4>3. j.queue = [rest EXCEPT ![1] = WithBit(rest[1], "overflow")]
                <5>1. i.size # 1
                    BY <1>5 DEF Overflows
                <5>2. Enqueued(q, n, i.size, i.oldest) = [rest EXCEPT ![1] = WithBit(rest[1], "overflow")]
                    BY <1>3, <1>5, <3>2, <5>1 DEF Enqueued
                <5> QED
                    BY <1>1, <5>2
            <4>4. Announcer(q, n, i.oldest) = rest[1]
                BY <3>2, <4>2 DEF Announcer
            <4> HIDE DEF rest
            <4>5. 1 \in 1..Len(rest) /\ rest[1] \in Notification
                BY <1>2, <4>2
            <4>6. j.queue[1] = WithBit(rest[1], "overflow") /\ 1 \in 1..Len(j.queue)
                BY <4>2, <4>3, <4>5
            <4>7. WithBit(rest[1], "overflow").data = rest[1].data
                BY <4>5 DEF WithBit, Notification
            <4> QED
                BY <4>4, <4>6, <4>7
        <3> QED
            BY <3>1, <3>2
    <2> QED
        BY <1>1, <1>3, <1>4, <1>5, <2>1, LossIsAnnounced
<1>6. CASE ~Overflows(q, i.size)
    <2>1. j.queue = Append(q, n)
        BY <1>1, <1>2, <1>6 DEF Enqueued
    <2>2. Len(j.queue) = Len(q) + 1 /\ \A k \in 1..Len(q) : j.queue[k] = q[k] /\ k \in 1..Len(j.queue)
        BY <1>4, <2>1
    <2>3. i.made > Len(q) /\ \A k \in 1..Len(q) : q[k].data
        BY <1>1, <1>4, <2>2
    <2>4. PICK k \in 1..Len(q) : "overflow" \in q[k].status
        BY <1>2, <1>3, <2>3 DEF Announced
    <2> QED
        BY <2>2, <2>4
<1> QED
    BY <1>5, <1>6

LEMMA EnqueueSound ==
    ASSUME NEW i, Sound(i), i.alive, NEW n \in Notification,
           i.queue # <<>> => i.latest <= n.stamp
    PROVE  Sound(EnqueueNotification(i, n))
<1> DEFINE j == EnqueueNotification(i, n)
<1>1. Fits(j) /\ SameItem(i, j) /\ SameTimer(i, j)
    BY EnqueueFits DEF Sound
<1>2. Latest(j) /\ Announced(j)
    BY EnqueueLatest, EnqueueAnnounced DEF Sound
<1>3. Blamed(j)
    <2>1. /\ j.thrown = BitRefused(i.queue, n, i.size, i.oldest)
          /\ BitRefused(i.queue, n, i.size, i.oldest) => j.failed = i.failed \cup {"overflow"}
        BY EnqueueIs DEF Sound
    <2> HIDE DEF j
    <2> QED
        BY <2>1 DEF Blamed
<1> HIDE DEF j
<1>4. Timed(j)
    BY <1>1 DEF Sound, Timed, SameItem, SameTimer
<1> QED
    BY <1>1, <1>2, <1>3, <1>4 DEF Sound, j

\* An item that differs in nothing that Sound reads
Alike(i, j) ==
    /\ j.kind = i.kind /\ j.interval = i.interval /\ j.size = i.size /\ j.alive = i.alive
    /\ j.listening = i.listening /\ SameTimer(i, j)
    /\ j.queue = i.queue /\ j.made = i.made /\ j.latest = i.latest
    /\ j.thrown = i.thrown /\ j.failed = i.failed

LEMMA AlikeSound ==
    ASSUME NEW i, NEW j \in ItemType, Sound(i), Alike(i, j)
    PROVE  Sound(j)
<1>1. Fits(j)
    BY DEF Sound, Fits, Alike
<1>2. Timed(j)
    BY DEF Sound, Timed, Alike, SameTimer
<1>3. Latest(j) /\ Announced(j) /\ Blamed(j)
    BY DEF Sound, Latest, Announced, Blamed, Alike
<1> QED
    BY <1>1, <1>2, <1>3 DEF Sound

\* What no reading changes
SameRest(i, j) == j.triggered = i.triggered /\ j.resent = i.resent

LEMMA EnqueueValueIs ==
    ASSUME NEW i, Sound(i), i.alive, NEW d \in DataValue,
           i.queue # <<>> => i.latest <= d.stamp
    PROVE  LET j == EnqueueValue(i, d)
           IN  /\ Sound(j)
               /\ SameItem(i, j) /\ SameTimer(i, j) /\ SameRest(i, j) /\ j.sampling = i.sampling
               /\ j.old = d /\ j.latest = d.stamp
<1> DEFINE k == [i EXCEPT !.old = d]
           n == [stamp |-> d.stamp, status |-> d.status, data |-> TRUE]
           j == EnqueueNotification(k, n)
<1>1. n \in Notification
    BY DEF Notification, DataValue
<1>2. i \in ItemType
    BY DEF Sound, Fits
<1>3. /\ k \in ItemType /\ Alike(i, k) /\ SameItem(i, k) /\ SameTimer(i, k) /\ SameRest(i, k)
      /\ k.sampling = i.sampling /\ k.old = d /\ k.alive
    BY <1>2 DEF ItemType, Alike, SameItem, SameTimer, SameRest
<1>4. n.stamp = d.stamp
    OBVIOUS
<1>5. EnqueueValue(i, d) = j
    BY DEF EnqueueValue
<1> HIDE DEF k, n
<1>6. Sound(k) /\ Fits(k)
    BY <1>3, AlikeSound DEF Sound
<1>7. k.queue # <<>> => k.latest <= n.stamp
    BY <1>3, <1>4 DEF Alike
<1>8. Sound(j)
    BY <1>1, <1>3, <1>6, <1>7, EnqueueSound
<1>9. /\ SameItem(k, j) /\ SameTimer(k, j) /\ SameRest(k, j)
      /\ j.sampling = k.sampling /\ j.old = k.old
    BY <1>1, <1>6, EnqueueFits DEF SameRest
<1>10. j.latest = n.stamp
    BY <1>1, <1>6, EnqueueIs
<1> HIDE DEF j
<1>11. /\ SameItem(i, j) /\ SameTimer(i, j) /\ SameRest(i, j)
       /\ j.sampling = i.sampling /\ j.old = d /\ j.latest = d.stamp
    BY <1>3, <1>4, <1>9, <1>10 DEF SameItem, SameTimer, SameRest
<1> QED
    BY <1>5, <1>8, <1>11

\* From i to j a value with this stamp was recorded, or considered.
Records(i, j, stamp) ==
    /\ SameItem(i, j) /\ SameTimer(i, j) /\ SameRest(i, j) /\ j.sampling = i.sampling
    /\ j.latest <= stamp

LEMMA RecordedIs ==
    ASSUME NEW i, NEW stamp \in Nat, Good(i, stamp), NEW d \in DataValue, NEW skip, NEW version \in Nat,
           i.latest <= d.stamp, d.stamp <= stamp
    PROVE  /\ Good(Recorded(i, d, skip, version), stamp)
           /\ Records(i, Recorded(i, d, skip, version), d.stamp)
<1> DEFINE k == [i EXCEPT !.seen = d.stamp]
           l == [k EXCEPT !.version = version]
           e == [d EXCEPT !.status = d.status \cup {"semantic"}]
           j == Recorded(i, d, skip, version)
<1>1. i \in ItemType /\ d.stamp \in Nat /\ Sound(i)
    BY DEF Good, Sound, Fits, DataValue
<1>2. /\ k \in ItemType /\ Alike(i, k) /\ SameItem(i, k) /\ SameTimer(i, k) /\ SameRest(i, k)
      /\ k.sampling = i.sampling /\ k.old = i.old /\ k.alive = i.alive
    BY <1>1 DEF ItemType, Alike, SameItem, SameTimer, SameRest
<1>3. /\ l \in ItemType /\ Alike(i, l) /\ SameItem(i, l) /\ SameTimer(i, l) /\ SameRest(i, l)
      /\ l.sampling = i.sampling /\ l.alive = i.alive
    BY <1>1 DEF ItemType, Alike, SameItem, SameTimer, SameRest
<1>4. e \in DataValue /\ e.stamp = d.stamp
    BY DEF DataValue
<1>5. \/ j = i
      \/ i.alive /\ j = EnqueueValue(l, e)
      \/ i.alive /\ j = EnqueueValue(k, d)
      \/ j = k
    BY DEF Recorded
<1> SUFFICES Good(j, stamp) /\ Records(i, j, d.stamp)
    OBVIOUS
<1> HIDE DEF j, k, l, e
<1>6. Sound(k) /\ Sound(l)
    BY <1>1, <1>2, <1>3, AlikeSound
<1>7. CASE j = i
    BY <1>7 DEF Records, SameItem, SameTimer, SameRest
<1>8. CASE i.alive /\ j = EnqueueValue(l, e)
    <2>1. l.alive /\ (l.queue # <<>> => l.latest <= e.stamp)
        BY <1>3, <1>4, <1>8 DEF Alike
    <2>2. /\ Sound(j) /\ SameItem(l, j) /\ SameTimer(l, j) /\ SameRest(l, j)
          /\ j.sampling = l.sampling /\ j.old = e /\ j.latest = e.stamp
        BY <1>4, <1>6, <1>8, <2>1, EnqueueValueIs
    <2>3. SameItem(i, j) /\ SameTimer(i, j) /\ SameRest(i, j) /\ j.sampling = i.sampling
        BY <1>3, <2>2 DEF SameItem, SameTimer, SameRest
    <2>4. Dated(j, stamp)
        BY <1>4, <2>2 DEF Dated
    <2> QED
        BY <1>1, <1>4, <2>2, <2>3, <2>4 DEF Good, Records
<1>9. CASE i.alive /\ j = EnqueueValue(k, d)
    <2>1. k.alive /\ (k.queue # <<>> => k.latest <= d.stamp)
        BY <1>2, <1>9 DEF Alike
    <2>2. /\ Sound(j) /\ SameItem(k, j) /\ SameTimer(k, j) /\ SameRest(k, j)
          /\ j.sampling = k.sampling /\ j.old = d /\ j.latest = d.stamp
        BY <1>6, <1>9, <2>1, EnqueueValueIs
    <2>3. SameItem(i, j) /\ SameTimer(i, j) /\ SameRest(i, j) /\ j.sampling = i.sampling
        BY <1>2, <2>2 DEF SameItem, SameTimer, SameRest
    <2>4. Dated(j, stamp)
        BY <2>2 DEF Dated
    <2> QED
        BY <1>1, <2>2, <2>3, <2>4 DEF Good, Records
<1>10. CASE j = k
    <2>1. Dated(j, stamp)
        BY <1>2, <1>10 DEF Good, Dated, Alike
    <2> QED
        BY <1>2, <1>6, <1>10, <2>1 DEF Good, Alike, Records
<1> QED
    BY <1>5, <1>7, <1>8, <1>9, <1>10

-----------------------------------------------------------------------------
(***************************************************************************)
(* The timer, and those who wait for the device.                           *)
(***************************************************************************)

\* An item that may be given a timer: it has the value of a variable sampled, by an interval.
Samples(i) == i.kind = "value" /\ i.interval # 0 /\ ~i.listening

\* From i to j it was given a timer, or had one, or was disposed of.
SetsTimer(i, j) ==
    /\ SameItem(i, j) /\ SameRest(i, j) /\ j.sampling = i.sampling
    /\ j.latest = i.latest
    /\ i.alive => j.timer # NoTimer
    /\ i.timer # NoTimer => j.timer # NoTimer

LEMMA TimerSetIs ==
    ASSUME NEW i, NEW stamp, Good(i, stamp), Samples(i)
    PROVE  Good(TimerSet(i), stamp) /\ SetsTimer(i, TimerSet(i))
<1> DEFINE t == [i EXCEPT !.thrown = TRUE, !.failed = i.failed \cup {"timer"}]
           s == [i EXCEPT !.timer = i.interval, !.registered = i.registered \cup {i.interval}]
           j == TimerSet(i)
<1> SUFFICES Good(j, stamp) /\ SetsTimer(i, j)
    OBVIOUS
<1>1. i \in ItemType /\ Sound(i) /\ Dated(i, stamp)
    BY DEF Good, Sound, Fits
<1>2. j = IF ~i.alive THEN i ELSE IF i.timer # NoTimer THEN t ELSE s
    BY <1>1 DEF TimerSet, ItemType
<1>3. CASE ~i.alive
    <2>1. j = i
        BY <1>2, <1>3
    <2> HIDE DEF j
    <2> QED
        BY <1>3, <2>1 DEF SetsTimer, SameItem, SameRest, Good, Sound, Timed
<1>4. CASE i.alive /\ i.timer # NoTimer
    <2>1. j = t
        BY <1>2, <1>4
    <2>2. /\ t \in ItemType /\ SameItem(i, t) /\ SameTimer(i, t) /\ SameRest(i, t)
          /\ t.sampling = i.sampling /\ t.latest = i.latest /\ t.queue = i.queue
          /\ t.old = i.old /\ t.failed # {}
        BY <1>1 DEF ItemType, SameItem, SameTimer, SameRest
    <2> HIDE DEF t, j
    <2>3. Fits(t) /\ Timed(t)
        BY <1>1, <2>2 DEF Sound, Fits, Timed, SameItem, SameTimer
    <2>4. Latest(t) /\ Announced(t) /\ Blamed(t)
        BY <2>2 DEF Latest, Announced, Blamed
    <2>5. Dated(t, stamp)
        BY <1>1, <2>2 DEF Dated, SameItem
    <2>6. Good(t, stamp)
        BY <2>3, <2>4, <2>5 DEF Good, Sound
    <2>7. t.timer # NoTimer
        BY <1>4, <2>2 DEF SameTimer
    <2> QED
        BY <2>1, <2>2, <2>6, <2>7 DEF SetsTimer
<1>5. CASE i.alive /\ i.timer = NoTimer
    <2>1. j = s
        BY <1>2, <1>5
    <2>2. i.interval \in Intervals /\ i.interval # NoTimer
        BY <1>1 DEF Samples, ItemType, NoTimer
    <2>3. /\ s \in ItemType /\ SameItem(i, s) /\ SameRest(i, s)
          /\ s.sampling = i.sampling /\ s.latest = i.latest /\ s.queue = i.queue
          /\ s.old = i.old /\ s.made = i.made /\ s.thrown = i.thrown /\ s.failed = i.failed
          /\ s.timer = i.interval /\ s.registered = i.registered \cup {i.interval}
        BY <1>1, <2>2 DEF ItemType, SameItem, SameRest
    <2>4. i.registered = {}
        BY <1>1, <1>5 DEF Sound, Timed
    <2> HIDE DEF s, j
    <2>5. Fits(s)
        BY <1>1, <2>3 DEF Sound, Fits, SameItem
    <2>6. Timed(s)
        BY <1>5, <2>2, <2>3, <2>4 DEF Timed, SameItem, Samples
    <2>7. Latest(s) /\ Announced(s) /\ Blamed(s)
        BY <1>1, <2>3 DEF Sound, Latest, Announced, Blamed, SameItem
    <2>8. Dated(s, stamp)
        BY <1>1, <2>3 DEF Dated, SameItem
    <2>9. Good(s, stamp)
        BY <2>5, <2>6, <2>7, <2>8 DEF Good, Sound
    <2> QED
        BY <1>5, <2>1, <2>2, <2>3, <2>9 DEF SetsTimer
<1> QED
    BY <1>3, <1>4, <1>5

\* From i to j somebody was told of a value with this stamp.
Serves(i, j, stamp) ==
    /\ SameItem(i, j) /\ SameRest(i, j)
    /\ j.latest <= stamp
    /\ i.timer # NoTimer => j.timer # NoTimer

\* Besides, who was to be given a timer has one, unless an assertion has failed.
Answers(i, j, callback, stamp) ==
    /\ Serves(i, j, stamp)
    /\ callback # "sample" => j.sampling = i.sampling
    /\ callback = "first then timer" /\ i.alive /\ j.failed = {} => j.timer # NoTimer

Callback == {"sample", "first", "first then timer"}

LEMMA SampleAnsweredIs ==
    ASSUME NEW i, NEW stamp \in Nat, Good(i, stamp), NEW d \in DataValue, NEW err \in BOOLEAN, NEW version \in Nat,
           i.latest <= d.stamp, d.stamp <= stamp
    PROVE  /\ Good(SampleAnswered(i, d, err, version), stamp)
           /\ Serves(i, SampleAnswered(i, d, err, version), d.stamp)
<1> DEFINE r == IF err THEN i ELSE Recorded(i, d, FALSE, version)
           k == [r EXCEPT !.sampling = FALSE]
           j == SampleAnswered(i, d, err, version)
<1>1. Good(r, stamp) /\ Records(i, r, d.stamp)
    <2>1. CASE err
        BY <2>1 DEF Records, SameItem, SameTimer, SameRest
    <2>2. CASE ~err
        <3>1. r = Recorded(i, d, FALSE, version)
            BY <2>2
        <3> QED
            BY <3>1, RecordedIs, Zenon
    <2> QED
        BY <2>1, <2>2
<1>2. j = i \/ j = r \/ j = k
    BY DEF SampleAnswered
<1> HIDE DEF j, r
<1>3. r \in ItemType
    BY <1>1 DEF Good, Sound, Fits
<1>4. /\ k \in ItemType /\ Alike(r, k) /\ SameItem(r, k) /\ SameTimer(r, k) /\ SameRest(r, k)
      /\ k.latest = r.latest /\ k.old = r.old
    BY <1>3 DEF ItemType, Alike, SameItem, SameTimer, SameRest
<1> HIDE DEF k
<1>5. Good(k, stamp)
    <2>1. Sound(k)
        BY <1>1, <1>4, AlikeSound DEF Good
    <2>2. Dated(k, stamp)
        BY <1>1, <1>4 DEF Good, Dated, SameItem
    <2> QED
        BY <2>1, <2>2 DEF Good
<1>6. Serves(i, i, d.stamp) /\ Serves(i, r, d.stamp) /\ Serves(i, k, d.stamp)
    BY <1>1, <1>4 DEF Serves, Records, SameItem, SameTimer, SameRest
<1> QED
    BY <1>1, <1>2, <1>5, <1>6 DEF j

LEMMA FirstAnsweredIs ==
    ASSUME NEW i, NEW stamp \in Nat, Good(i, stamp), NEW d \in DataValue, NEW err \in BOOLEAN, NEW version \in Nat,
           i.latest <= d.stamp, d.stamp <= stamp,
           NEW callback \in Callback, callback = "first then timer" => Samples(i)
    PROVE  LET j == FirstAnswered(i, d, err, version, callback = "first then timer")
           IN  Good(j, stamp) /\ Answers(i, j, callback, d.stamp)
<1> DEFINE r == IF err THEN i ELSE Recorded(i, d, TRUE, version)
           k == TimerSet(r)
           j == FirstAnswered(i, d, err, version, callback = "first then timer")
<1> SUFFICES Good(j, stamp) /\ Answers(i, j, callback, d.stamp)
    OBVIOUS
<1>1. Good(r, stamp) /\ Records(i, r, d.stamp)
    <2>1. CASE err
        BY <2>1 DEF Records, SameItem, SameTimer, SameRest
    <2>2. CASE ~err
        <3>1. r = Recorded(i, d, TRUE, version)
            BY <2>2
        <3> QED
            BY <3>1, RecordedIs, Zenon
    <2> QED
        BY <2>1, <2>2
<1>2. j = IF callback = "first then timer" /\ ~r.thrown THEN k ELSE r
    BY DEF FirstAnswered
<1> HIDE DEF j, r
<1>3. callback = "first then timer" => Samples(r)
    BY <1>1 DEF Records, Samples, SameItem
<1>4. callback = "first then timer" => Good(k, stamp) /\ SetsTimer(r, k)
    BY <1>1, <1>3, TimerSetIs
<1> HIDE DEF k
<1>5. CASE callback = "first then timer" /\ ~r.thrown
    <2> USE DEF SetsTimer
    <2>1. Serves(i, k, d.stamp)
        BY <1>1, <1>4, <1>5 DEF Serves, Records, SameItem, SameTimer, SameRest
    <2>2. i.alive => k.timer # NoTimer
        BY <1>1, <1>4, <1>5 DEF Records, SameItem
    <2> QED
        BY <1>1, <1>2, <1>4, <1>5, <2>1, <2>2 DEF Answers, Records
<1>6. CASE ~(callback = "first then timer" /\ ~r.thrown)
    <2>1. Serves(i, r, d.stamp)
        BY <1>1 DEF Serves, Records, SameItem, SameTimer, SameRest
    <2>2. callback = "first then timer" => r.failed # {}
        BY <1>1, <1>6 DEF Good, Sound, Blamed
    <2> QED
        BY <1>1, <1>2, <1>6, <2>1, <2>2 DEF Answers, Records
<1> QED
    BY <1>5, <1>6

LEMMA AnsweredIs ==
    ASSUME NEW i, NEW stamp \in Nat, Good(i, stamp), NEW d \in DataValue, NEW err \in BOOLEAN, NEW version \in Nat,
           i.latest <= d.stamp, d.stamp <= stamp,
           NEW callback \in Callback, callback = "first then timer" => Samples(i)
    PROVE  LET j == Answered(i, callback, d, err, version)
           IN  Good(j, stamp) /\ Answers(i, j, callback, d.stamp)
<1>1. CASE callback = "sample"
    BY <1>1, SampleAnsweredIs DEF Answered, Answers
<1>2. CASE callback # "sample"
    BY <1>2, FirstAnsweredIs DEF Answered
<1> QED
    BY <1>1, <1>2

\* What an item is after n callbacks, in terms of what it was after those before.
AfterCallback(after, i, callbacks, d, err, version, n) ==
    IF n = 0 THEN i
    ELSE IF after[n - 1].thrown THEN after[n - 1]
    ELSE Answered(after[n - 1], callbacks[n], d, err, version)

Called(after, i, callbacks, d, err, version, k) ==
    after = [n \in 0..k |-> AfterCallback(after, i, callbacks, d, err, version, n)]

\* The function that AllAnswered defines by recursion exists, for any number of callbacks.
LEMMA CallsEnd ==
    ASSUME NEW i, NEW callbacks, NEW d, NEW err, NEW version
    PROVE  \A k \in Nat : \E after : Called(after, i, callbacks, d, err, version, k)
<1> DEFINE Next1(f, n) == AfterCallback(f, i, callbacks, d, err, version, n)
           S == {k \in Nat : \E f : Called(f, i, callbacks, d, err, version, k)}
<1>1. 0 \in S
    <2> DEFINE f == [n \in 0..0 |-> i]
    <2>1. Called(f, i, callbacks, d, err, version, 0)
        BY DEF Called, AfterCallback
    <2> QED
        BY <2>1
<1>2. ASSUME NEW k \in Nat, k \in S
      PROVE  k + 1 \in S
    <2>1. PICK f : Called(f, i, callbacks, d, err, version, k)
        BY <1>2
    <2> DEFINE g == [n \in 0..(k + 1) |-> IF n = k + 1 THEN Next1(f, n) ELSE f[n]]
    <2>2. \A n \in 0..(k + 1) : n # 0 => n - 1 \in 0..k /\ n - 1 \in 0..(k + 1) /\ n - 1 # k + 1
        OBVIOUS
    <2>3. \A n \in 0..k : f[n] = Next1(f, n)
        BY <2>1 DEF Called
    <2>4. \A n \in 0..k : g[n] = f[n]
        OBVIOUS
    <2>5. \A n \in 0..(k + 1) : Next1(g, n) = Next1(f, n)
        <3> TAKE n \in 0..(k + 1)
        <3>1. n # 0 => g[n - 1] = f[n - 1]
            <4> HIDE DEF g
            <4> QED
                BY <2>2, <2>4
        <3> HIDE DEF g
        <3> QED
            BY <3>1 DEF AfterCallback
    <2>6. \A n \in 0..(k + 1) : g[n] = Next1(g, n)
        <3> TAKE n \in 0..(k + 1)
        <3>1. CASE n = k + 1
            <4>1. g[n] = Next1(f, n)
                BY <3>1
            <4> HIDE DEF g
            <4> QED
                BY <4>1, <2>5
        <3>2. CASE n # k + 1
            <4>1. n \in 0..k
                BY <3>2
            <4> HIDE DEF g
            <4> QED
                BY <4>1, <2>3, <2>4, <2>5
        <3> QED
            BY <3>1, <3>2
    <2>7. Called(g, i, callbacks, d, err, version, k + 1)
        <3>1. g = [n \in 0..(k + 1) |-> g[n]]
            OBVIOUS
        <3> HIDE DEF g
        <3> QED
            BY <3>1, <2>6 DEF Called
    <2> QED
        BY <2>7
<1> HIDE DEF S
<1>3. Nat \subseteq S
    BY <1>1, <1>2, Induction
<1> QED
    BY <1>3 DEF S

LEMMA AllAnsweredCalled ==
    ASSUME NEW i, NEW callbacks, NEW d, NEW err, NEW version, Len(callbacks) \in Nat
    PROVE  \E after : /\ Called(after, i, callbacks, d, err, version, Len(callbacks))
                      /\ AllAnswered(i, callbacks, d, err, version) = after[Len(callbacks)]
<1> DEFINE f == CHOOSE f : Called(f, i, callbacks, d, err, version, Len(callbacks))
<1>1. Called(f, i, callbacks, d, err, version, Len(callbacks))
    <2>1. \E g : Called(g, i, callbacks, d, err, version, Len(callbacks))
        BY CallsEnd
    <2> QED
        BY <2>1
<1>2. AllAnswered(i, callbacks, d, err, version) = f[Len(callbacks)]
    BY Zenon DEF AllAnswered, Called, AfterCallback
<1> QED
    BY <1>1, <1>2

ToldTimer(callbacks) == \E n \in 1..Len(callbacks) : callbacks[n] = "first then timer"

\* satisfy_callbacks, however many wait: the item stays as it should be, and if one of the
\* callbacks was to give it a timer it has one, unless an assertion has failed.
LEMMA AllAnsweredIs ==
    ASSUME NEW i, NEW stamp \in Nat, Good(i, stamp), NEW d \in DataValue, NEW err \in BOOLEAN, NEW version \in Nat,
           i.latest <= d.stamp, d.stamp <= stamp,
           NEW callbacks \in Seq(Callback), ToldTimer(callbacks) => Samples(i)
    PROVE  LET j == AllAnswered(i, callbacks, d, err, version)
           IN  /\ Good(j, stamp) /\ Serves(i, j, d.stamp)
               /\ ToldTimer(callbacks) /\ i.alive /\ j.failed = {} => j.timer # NoTimer
<1>1. Len(callbacks) \in Nat /\ \A n \in 1..Len(callbacks) : callbacks[n] \in Callback
    OBVIOUS
<1>2. PICK f : /\ Called(f, i, callbacks, d, err, version, Len(callbacks))
               /\ AllAnswered(i, callbacks, d, err, version) = f[Len(callbacks)]
    BY <1>1, AllAnsweredCalled
<1> DEFINE T(n) == \E m \in 1..n : callbacks[m] = "first then timer"
           P(n) == /\ Good(f[n], stamp) /\ Serves(i, f[n], d.stamp)
                   /\ T(n) /\ i.alive /\ f[n].failed = {} => f[n].timer # NoTimer
           S    == {n \in Nat : n <= Len(callbacks) => P(n)}
<1>3. \A n \in 0..Len(callbacks) : f[n] = AfterCallback(f, i, callbacks, d, err, version, n)
    BY <1>2 DEF Called
<1>4. 0 \in S
    <2>1. f[0] = i
        BY <1>1, <1>3 DEF AfterCallback
    <2>2. Serves(i, i, d.stamp)
        BY DEF Serves, SameItem, SameRest
    <2>3. ~T(0) /\ 0 \in Nat
        OBVIOUS
    <2> HIDE DEF T
    <2> QED
        BY <2>1, <2>2, <2>3
<1>5. ASSUME NEW n \in Nat, n \in S
      PROVE  n + 1 \in S
    <2> SUFFICES ASSUME n + 1 <= Len(callbacks)
                 PROVE  P(n + 1)
        <3> HIDE DEF P
        <3> QED
            OBVIOUS
    <2> DEFINE a == f[n]
               b == f[n + 1]
               c == callbacks[n + 1]
    <2>1. P(n)
        <3> HIDE DEF P
        <3> QED
            BY <1>1, <1>5
    <2>2. n + 1 \in 0..Len(callbacks) /\ n + 1 \in 1..Len(callbacks) /\ (n + 1) - 1 = n /\ n + 1 # 0
        BY <1>1
    <2>3. b = IF a.thrown THEN a ELSE Answered(a, c, d, err, version)
        BY <1>3, <2>2 DEF AfterCallback
    <2>4. c \in Callback
        BY <1>1, <2>2
    <2>5. \A m \in 1..(n + 1) : m \in 1..n \/ m = n + 1
        OBVIOUS
    <2>6. T(n + 1) => T(n) \/ c = "first then timer"
        BY <2>5
    <2>7. c = "first then timer" => Samples(a)
        <3>1. c = "first then timer" => Samples(i)
            BY <2>2 DEF ToldTimer
        <3> QED
            BY <2>1, <3>1 DEF Samples, Serves, SameItem
    <2>8. Good(a, stamp) /\ Serves(i, a, d.stamp) /\ a.latest <= d.stamp
        BY <2>1 DEF Serves
    <2> SUFFICES /\ Good(b, stamp) /\ Serves(i, b, d.stamp)
                 /\ T(n + 1) /\ i.alive /\ b.failed = {} => b.timer # NoTimer
        OBVIOUS
    <2>9. T(n) /\ i.alive /\ a.failed = {} => a.timer # NoTimer
        BY <2>1
    <2> HIDE DEF T, P, a, b, c
    <2>10. CASE a.thrown
        <3>1. a.failed # {}
            BY <2>8, <2>10 DEF Good, Sound, Blamed
        <3> QED
            BY <2>3, <2>8, <2>10, <3>1
    <2>11. CASE ~a.thrown
        <3>1. b = Answered(a, c, d, err, version)
            BY <2>3, <2>11
        <3>2. Good(b, stamp) /\ Answers(a, b, c, d.stamp)
            BY <2>4, <2>7, <2>8, <3>1, AnsweredIs
        <3>3. Serves(i, b, d.stamp)
            BY <2>8, <3>2 DEF Answers, Serves, SameItem, SameRest
        <3>4. a.alive = i.alive /\ (b.failed = {} => a.failed = {}) /\ (a.timer # NoTimer => b.timer # NoTimer)
            BY <2>8, <3>2 DEF Answers, Serves, SameItem
        <3> QED
            BY <2>6, <2>9, <3>2, <3>3, <3>4 DEF Answers
    <2> QED
        BY <2>10, <2>11
<1>6. Len(callbacks) \in S
    <2> HIDE DEF S
    <2>1. Nat \subseteq S
        BY <1>4, <1>5, Induction
    <2> QED
        BY <1>1, <2>1
<1>7. P(Len(callbacks))
    <2> HIDE DEF P
    <2> QED
        BY <1>1, <1>6
<1>8. T(Len(callbacks)) <=> ToldTimer(callbacks)
    BY DEF ToldTimer
<1> HIDE DEF T
<1> QED
    BY <1>2, <1>7, <1>8

-----------------------------------------------------------------------------
(***************************************************************************)
(* What the services do with an item.                                      *)
(***************************************************************************)

\* An item that differs in thrown alone
LEMMA SettledIs ==
    ASSUME NEW i, NEW stamp, Good(i, stamp)
    PROVE  LET j == Settled(i)
           IN  /\ Good(j, stamp) /\ ~j.thrown
               /\ SameItem(i, j) /\ SameTimer(i, j) /\ SameRest(i, j)
               /\ j.sampling = i.sampling /\ j.failed = i.failed /\ j.queue = i.queue
               /\ j.latest = i.latest /\ j.old = i.old
<1> DEFINE j == Settled(i)
<1>1. i \in ItemType /\ Sound(i) /\ Dated(i, stamp)
    BY DEF Good, Sound, Fits
<1>2. /\ j \in ItemType /\ SameItem(i, j) /\ SameTimer(i, j) /\ SameRest(i, j)
      /\ j.queue = i.queue /\ j.made = i.made /\ j.latest = i.latest /\ j.old = i.old
      /\ j.failed = i.failed /\ j.sampling = i.sampling /\ j.thrown = FALSE
    BY <1>1 DEF Settled, ItemType, SameItem, SameTimer, SameRest
<1> SUFFICES Good(j, stamp)
    BY <1>2
<1> HIDE DEF j
<1>3. Fits(j) /\ Timed(j)
    BY <1>1, <1>2 DEF Sound, Fits, Timed, SameItem, SameTimer
<1>4. Latest(j) /\ Announced(j) /\ Blamed(j)
    BY <1>1, <1>2 DEF Sound, Latest, Announced, Blamed, SameItem
<1>5. Dated(j, stamp)
    BY <1>1, <1>2 DEF Dated, SameItem
<1> QED
    BY <1>3, <1>4, <1>5 DEF Good, Sound

\* What was sound stays so as the node changes.
LEMMA GoodGrows ==
    ASSUME NEW i, NEW stamp \in Nat, NEW later \in Nat, stamp <= later, Good(i, stamp)
    PROVE  Good(i, later)
<1>1. i.latest \in Nat /\ i.old.stamp \in Nat
    BY DEF Good, Sound, Fits, ItemType, DataValue
<1> QED
    BY <1>1 DEF Good, Dated

\* _stop_sampling: neither a timer nor a listener is left.
Stops(i, j) ==
    /\ j.kind = i.kind /\ j.mode = i.mode /\ j.interval = i.interval /\ j.size = i.size
    /\ j.oldest = i.oldest /\ j.alive = i.alive /\ j.sampling = i.sampling
    /\ SameRest(i, j)
    /\ j.old = i.old /\ j.latest = i.latest /\ j.failed = i.failed /\ j.thrown = i.thrown
    /\ j.queue = i.queue /\ j.timer = NoTimer /\ ~j.listening

LEMMA StoppedIs ==
    ASSUME NEW i, NEW stamp, Good(i, stamp)
    PROVE  Good(Stopped(i), stamp) /\ Stops(i, Stopped(i))
<1> DEFINE j == Stopped(i)
<1> SUFFICES Good(j, stamp) /\ Stops(i, j)
    OBVIOUS
<1>1. i \in ItemType /\ Sound(i) /\ Dated(i, stamp)
    BY DEF Good, Sound, Fits
<1>2. /\ j \in ItemType /\ Stops(i, j) /\ j.made = i.made
      /\ j.registered = i.registered \ {i.timer}
    BY <1>1 DEF Stopped, ItemType, Stops, SameRest, NoTimer
<1>3. i.registered = {i.timer} \ {NoTimer}
    BY <1>1 DEF Sound, Timed
<1> HIDE DEF j
<1>4. j.registered = {}
    BY <1>2, <1>3
<1>5. Fits(j) /\ Timed(j)
    BY <1>1, <1>2, <1>4 DEF Sound, Fits, Timed, Stops
<1>6. Latest(j) /\ Announced(j) /\ Blamed(j)
    BY <1>1, <1>2 DEF Sound, Latest, Announced, Blamed, Stops
<1>7. Dated(j, stamp)
    BY <1>1, <1>2 DEF Dated, Stops
<1> QED
    BY <1>2, <1>5, <1>6, <1>7 DEF Good, Sound

\* An item that listens, and is not sampled
LEMMA ListensIs ==
    ASSUME NEW i, NEW stamp, Good(i, stamp), i.timer = NoTimer, i.alive
    PROVE  LET j == [i EXCEPT !.listening = TRUE]
           IN  /\ Good(j, stamp) /\ j.listening
               /\ j.kind = i.kind /\ j.mode = i.mode /\ j.interval = i.interval
               /\ j.alive = i.alive /\ SameRest(i, j) /\ j.sampling = i.sampling
               /\ j.timer = NoTimer /\ j.old = i.old /\ j.latest = i.latest
               /\ j.failed = i.failed /\ j.thrown = i.thrown /\ j.queue = i.queue
<1> DEFINE j == [i EXCEPT !.listening = TRUE]
<1>1. i \in ItemType /\ Sound(i) /\ Dated(i, stamp)
    BY DEF Good, Sound, Fits
<1>2. /\ j \in ItemType /\ j.listening /\ SameTimer(i, j) /\ SameRest(i, j)
      /\ j.kind = i.kind /\ j.mode = i.mode /\ j.interval = i.interval /\ j.size = i.size
      /\ j.alive = i.alive /\ j.sampling = i.sampling
      /\ j.old = i.old /\ j.latest = i.latest /\ j.made = i.made /\ j.queue = i.queue
      /\ j.failed = i.failed /\ j.thrown = i.thrown
    BY <1>1 DEF ItemType, SameTimer, SameRest
<1> SUFFICES Good(j, stamp) /\ j.timer = NoTimer
    BY <1>2
<1> HIDE DEF j
<1>3. j.timer = NoTimer
    BY <1>2 DEF SameTimer
<1>4. Fits(j) /\ Timed(j)
    BY <1>1, <1>2, <1>3 DEF Sound, Fits, Timed, SameTimer
<1>5. Latest(j) /\ Announced(j) /\ Blamed(j)
    BY <1>1, <1>2 DEF Sound, Latest, Announced, Blamed
<1>6. Dated(j, stamp)
    BY <1>1, <1>2 DEF Dated
<1> QED
    BY <1>3, <1>4, <1>5, <1>6 DEF Good, Sound

\* A queue that is taken, or cleared: nothing in it, nothing lost.
Empties(i, j) ==
    /\ j.kind = i.kind /\ j.mode = i.mode /\ j.interval = i.interval /\ j.alive = i.alive
    /\ j.listening = i.listening /\ SameTimer(i, j) /\ j.sampling = i.sampling
    /\ j.failed = i.failed /\ j.thrown = i.thrown /\ j.queue = <<>>

LEMMA EmptyIsGood ==
    ASSUME NEW i, NEW stamp, Good(i, stamp), NEW j \in ItemType, Empties(i, j),
           j.made = 0, j.size = i.size, j.latest = i.latest, j.old = i.old
    PROVE  Good(j, stamp)
<1>1. i \in ItemType /\ Sound(i) /\ Dated(i, stamp)
    BY DEF Good, Sound, Fits
<1>2. j.queue = <<>> /\ Len(j.queue) = 0 /\ j.size \in Nat
    BY Constants DEF Empties, ItemType
<1>3. Fits(j)
    BY <1>2 DEF Fits
<1>4. Timed(j)
    BY <1>1, <1>2 DEF Sound, Timed, Empties, SameTimer
<1>5. Latest(j) /\ Announced(j)
    BY <1>2 DEF Latest, Announced, Sorted
<1>6. Blamed(j) /\ Dated(j, stamp)
    BY <1>1 DEF Sound, Blamed, Dated, Empties
<1> QED
    BY <1>3, <1>4, <1>5, <1>6 DEF Good, Sound

LEMMA EmptiedIs ==
    ASSUME NEW i, NEW stamp, Good(i, stamp)
    PROVE  Good(Emptied(i), stamp) /\ Empties(i, Emptied(i)) /\ SameRest(i, Emptied(i))
<1> DEFINE empty == <<>>
           j == [i EXCEPT !.queue = empty, !.made = 0]
<1>1. i \in ItemType
    BY DEF Good, Sound, Fits
<1>2. empty \in Seq(Notification)
    OBVIOUS
<1> HIDE DEF empty
<1>3. /\ j \in ItemType /\ SameRest(i, j) /\ SameTimer(i, j)
      /\ j.kind = i.kind /\ j.mode = i.mode /\ j.interval = i.interval /\ j.alive = i.alive
      /\ j.listening = i.listening /\ j.sampling = i.sampling
      /\ j.failed = i.failed /\ j.thrown = i.thrown /\ j.queue = empty
      /\ j.made = 0 /\ j.size = i.size /\ j.latest = i.latest /\ j.old = i.old
    BY <1>1, <1>2 DEF ItemType, SameRest, SameTimer
<1>4. Emptied(i) = j
    BY DEF Emptied, empty
<1> HIDE DEF j
<1>5. Empties(i, j)
    BY <1>3 DEF Empties, empty
<1> QED
    BY <1>3, <1>4, <1>5, EmptyIsGood

\* extractMonitoredItemNotifications, as it is asked for
LEMMA QueueTakenIs ==
    ASSUME NEW i, NEW stamp, Good(i, stamp), node.version \in Nat
    PROVE  /\ Good(QueueTaken(i), stamp) /\ Empties(i, QueueTaken(i))
           /\ QueueTaken(i) \in ItemType
<1> DEFINE e == Emptied(i)
           v == IF i.queue # <<>> THEN node.version ELSE e.version
<1>1. Good(e, stamp) /\ Empties(i, e)
    BY EmptiedIs
<1>2. e \in ItemType /\ i \in ItemType
    BY <1>1 DEF Good, Sound, Fits
<1>3. v \in Nat
    BY <1>2 DEF ItemType
<1>4. e.made = 0 /\ e.size = i.size /\ e.latest = i.latest /\ e.old = i.old
    BY <1>2 DEF Emptied, ItemType
<1>5. QueueTaken(i) = [e EXCEPT !.version = v]
    BY <1>2 DEF QueueTaken, ItemType
<1> HIDE DEF e, v
<1>6. LET j == [e EXCEPT !.version = v]
      IN  /\ j \in ItemType /\ Empties(i, j)
          /\ j.made = 0 /\ j.size = i.size /\ j.latest = i.latest /\ j.old = i.old
    BY <1>1, <1>2, <1>3, <1>4 DEF ItemType, Empties, SameTimer
<1> QED
    BY <1>5, <1>6, EmptyIsGood

LEMMA QueueToTakeType ==
    ASSUME NEW i, NEW stamp, Good(i, stamp)
    PROVE  QueueToTake(i) \in Seq(Notification)
<1> DEFINE q == i.queue
           n == WithBit(q[Len(q)], "semantic")
<1>1. q \in Seq(Notification)
    BY DEF Good, Sound, Fits, ItemType
<1>2. CASE q # <<>>
    <2>1. Len(q) \in 1..Len(q) /\ q[Len(q)] \in Notification
        BY <1>1, <1>2
    <2>2. n \in Notification
        BY <2>1, BitsKeep
    <2>3. [q EXCEPT ![Len(q)] = n] \in Seq(Notification)
        <3> HIDE DEF n
        <3> QED
            BY <1>1, <2>1, <2>2
    <2> QED
        BY <1>1, <2>3 DEF QueueToTake, Told
<1>3. CASE q = <<>>
    BY <1>1, <1>3 DEF QueueToTake, Told
<1> QED
    BY <1>2, <1>3

-----------------------------------------------------------------------------
(***************************************************************************)
(* The inductive invariant: what holds of the item, of its node, of those  *)
(* who wait for the device and of the callbacks to come.                   *)
(***************************************************************************)

NodeType == [value : DataValue, version : Nat, exists : BOOLEAN]

Immediate == [run : {"sample", "start", "trigger"}, initial : BOOLEAN]

\* Only who has a value sampled waits for the device, and one of those who wait when it is asked.
Waits(i, w, r) ==
    /\ w \in Seq(Callback) /\ r \in BOOLEAN
    /\ w # <<>> => i.kind = "value"
    /\ r => w # <<>>
    /\ ToldTimer(w) => Samples(i)

\* NoReentrance
Single(i, w, r) ==
    r => /\ \A m, n \in 1..Len(w) : w[m] = "sample" /\ w[n] = "sample" => m = n
         /\ (\E n \in 1..Len(w) : w[n] = "sample") => i.sampling

Started(im) == \E n \in 1..Len(im) : im[n].run = "start"

\* The first part of Attended
Minded(i, nd, w, im) ==
    i.alive /\ nd.exists /\ i.mode \in {"Sampling", "Reporting"} /\ i.failed = {} =>
        i.listening \/ i.timer # NoTimer \/ Started(im) \/ ToldTimer(w)

\* Of values, a queue of events holds at most the one that was resent: it is the first.
Eventful(i, nd) == i.kind = "event" /\ nd.exists => Plain(i.queue)

Held(i, nd, w, r, im) ==
    /\ nd \in NodeType /\ im \in Seq(Immediate)
    /\ Good(i, nd.value.stamp) /\ ~i.thrown
    /\ Waits(i, w, r) /\ Single(i, w, r)
    /\ Minded(i, nd, w, im)
    /\ Eventful(i, nd)

IInv == Held(item, node, waiting, refreshing, immediates) /\ calls \in 0..MaxCalls

\* setImmediate
LEMMA DeferredIs ==
    ASSUME immediates \in Seq(Immediate), NEW run \in {"sample", "start", "trigger"},
           NEW initial \in BOOLEAN
    PROVE  /\ Deferred(run, initial) \in Seq(Immediate)
           /\ run = "start" => Started(Deferred(run, initial))
           /\ Started(immediates) => Started(Deferred(run, initial))
<1> DEFINE e == [run |-> run, initial |-> initial]
           s == Append(immediates, e)
<1>1. e \in Immediate /\ e.run = run
    BY DEF Immediate
<1>2. Deferred(run, initial) = s
    BY DEF Deferred
<1> HIDE DEF e
<1>3. /\ s \in Seq(Immediate) /\ Len(s) = Len(immediates) + 1 /\ Len(immediates) \in Nat
      /\ \A n \in 1..Len(immediates) : s[n] = immediates[n]
      /\ s[Len(immediates) + 1] = e
    BY <1>1
<1> HIDE DEF s
<1>4. run = "start" => Started(s)
    BY <1>1, <1>3 DEF Started
<1>5. Started(immediates) => Started(s)
    BY <1>3 DEF Started
<1> QED
    BY <1>2, <1>3, <1>4, <1>5

LEMMA NextImmediateIs ==
    ASSUME immediates \in Seq(Immediate), NEW run, NextImmediate(run)
    PROVE  /\ Head(immediates) \in Immediate /\ immediates' \in Seq(Immediate)
           /\ Started(immediates) /\ run # "start" => Started(immediates')
<1>1. /\ immediates # <<>> /\ Head(immediates).run = run /\ immediates' = Tail(immediates)
    BY DEF NextImmediate
<1>2. /\ Head(immediates) = immediates[1] /\ Head(immediates) \in Immediate
      /\ Tail(immediates) \in Seq(Immediate) /\ Len(Tail(immediates)) = Len(immediates) - 1
      /\ Len(immediates) \in Nat
      /\ \A n \in 2..Len(immediates) : immediates[n] = Tail(immediates)[n - 1]
    BY <1>1
<1>3. ASSUME Started(immediates), run # "start"
      PROVE  Started(Tail(immediates))
    <2>1. PICK n \in 1..Len(immediates) : immediates[n].run = "start"
        BY <1>3 DEF Started
    <2>2. n \in 2..Len(immediates) /\ n - 1 \in 1..Len(Tail(immediates))
        BY <1>1, <1>2, <1>3, <2>1
    <2> QED
        BY <1>2, <2>1, <2>2 DEF Started
<1> QED
    BY <1>1, <1>2, <1>3

\* Who was told of a value is still attended to, and so are those who wait.
LEMMA HeldServes ==
    ASSUME NEW i, NEW nd, NEW w, NEW r, NEW im, Held(i, nd, w, r, im),
           NEW nd2 \in NodeType, nd2.exists => nd.exists,
           NEW j, Good(j, nd2.value.stamp), ~j.thrown,
           SameItem(i, j), j.sampling = i.sampling, i.timer # NoTimer => j.timer # NoTimer,
           Eventful(j, nd2)
    PROVE  Held(j, nd2, w, r, im)
<1>1. Waits(j, w, r) /\ Single(j, w, r)
    BY DEF Held, Waits, Single, Samples, SameItem
<1>2. Minded(j, nd2, w, im)
    <2>1. j.failed = {} => i.failed = {}
        BY DEF SameItem
    <2> QED
        BY <2>1 DEF Held, Minded, SameItem
<1> QED
    BY <1>1, <1>2 DEF Held

-----------------------------------------------------------------------------
(***************************************************************************)
(* Reading the variable.                                                   *)
(***************************************************************************)

\* A callback that is to give a timer is that of an item that may have one.
Meant(i, callback) == callback = "first then timer" => Samples(i)

\* From i to j the variable was asked for its value: either the device will tell, or it was told.
Reads(i, j, w, w2, r2, stamp, callback) ==
    /\ Good(j, stamp) /\ ~j.thrown
    /\ Waits(j, w2, r2) /\ Single(j, w2, r2)
    /\ SameItem(i, j)
    /\ i.timer # NoTimer => j.timer # NoTimer
    /\ ToldTimer(w) => ToldTimer(w2)
    /\ callback = "first then timer" /\ i.alive /\ j.failed = {} =>
          j.timer # NoTimer \/ ToldTimer(w2)

LEMMA QueuedIs ==
    ASSUME NEW w \in Seq(Callback), NEW callback \in Callback
    PROVE  LET w2 == Append(w, callback)
           IN  /\ w2 \in Seq(Callback) /\ w2 # <<>>
               /\ Len(w) \in Nat /\ Len(w2) = Len(w) + 1
               /\ \A n \in 1..Len(w) : w2[n] = w[n]
               /\ w2[Len(w) + 1] = callback
               /\ ToldTimer(w) => ToldTimer(w2)
               /\ callback = "first then timer" => ToldTimer(w2)
               /\ ToldTimer(w2) => ToldTimer(w) \/ callback = "first then timer"
<1> DEFINE w2 == Append(w, callback)
<1>1. /\ w2 \in Seq(Callback) /\ w2 # <<>>
      /\ Len(w) \in Nat /\ Len(w2) = Len(w) + 1
      /\ \A n \in 1..Len(w) : w2[n] = w[n]
      /\ w2[Len(w) + 1] = callback
    OBVIOUS
<1> HIDE DEF w2
<1>2. \A n \in 1..Len(w2) : n \in 1..Len(w) \/ n = Len(w) + 1
    BY <1>1
<1>3. (\A n \in 1..Len(w) : n \in 1..Len(w2)) /\ Len(w) + 1 \in 1..Len(w2)
    BY <1>1
<1>4. /\ ToldTimer(w) => ToldTimer(w2)
      /\ callback = "first then timer" => ToldTimer(w2)
      /\ ToldTimer(w2) => ToldTimer(w) \/ callback = "first then timer"
    BY <1>1, <1>2, <1>3 DEF ToldTimer
<1> QED
    BY <1>1, <1>4 DEF w2

LEMMA NobodyWaits == ~ToldTimer(<<>>)
<1>1. Len(<<>>) = 0
    OBVIOUS
<1> QED
    BY <1>1 DEF ToldTimer

LEMMA OneIs ==
    ASSUME NEW callback \in Callback
    PROVE  /\ <<callback>> \in Seq(Callback) /\ <<callback>> # <<>>
           /\ Len(<<callback>>) = 1 /\ <<callback>>[1] = callback
    OBVIOUS

\* An answer at once: j has heard it, and those who wait, if any, are as many as before,
\* or there is just the one who asked.
LEMMA AnsweredReads ==
    ASSUME NEW i, NEW stamp \in Nat, Good(i, stamp), i.kind = "value",
           NEW d \in DataValue, i.latest <= d.stamp, d.stamp <= stamp, NEW version \in Nat,
           NEW callback \in Callback, Meant(i, callback),
           NEW w, NEW w2, NEW r2, Waits(i, w2, r2), ToldTimer(w) => ToldTimer(w2),
           (callback # "sample" /\ Single(i, w2, r2)) \/ ~r2
    PROVE  Reads(i, Settled(Answered(i, callback, d, FALSE, version)), w, w2, r2, stamp, callback)
<1> DEFINE a == Answered(i, callback, d, FALSE, version)
           j == Settled(a)
<1>1. Good(a, stamp) /\ Answers(i, a, callback, d.stamp)
    <2>1. FALSE \in BOOLEAN
        OBVIOUS
    <2> HIDE DEF a
    <2> QED
        BY <2>1, AnsweredIs, Zenon DEF a, Meant
<1> HIDE DEF a
<1>2. /\ Good(j, stamp) /\ ~j.thrown
      /\ SameItem(a, j) /\ SameTimer(a, j) /\ j.sampling = a.sampling /\ j.failed = a.failed
    BY <1>1, SettledIs
<1> HIDE DEF j
<1>3. SameItem(i, j) /\ (i.timer # NoTimer => j.timer # NoTimer)
    BY <1>1, <1>2 DEF Answers, Serves, SameItem, SameTimer
<1>4. Waits(j, w2, r2)
    BY <1>3 DEF Waits, Samples, SameItem
<1>5. Single(j, w2, r2)
    <2>1. callback # "sample" => j.sampling = i.sampling
        BY <1>1, <1>2 DEF Answers
    <2> QED
        BY <2>1 DEF Single
<1>6. callback = "first then timer" /\ i.alive /\ j.failed = {} => j.timer # NoTimer
    BY <1>1, <1>2 DEF Answers, SameTimer
<1> QED
    BY <1>2, <1>3, <1>4, <1>5, <1>6 DEF Reads, j, a

LEMMA ReadValueAsyncIs ==
    ASSUME NEW i, NEW callback \in Callback, ReadValueAsync(i, callback),
           node \in NodeType, Good(i, node.value.stamp), ~i.thrown, i.kind = "value",
           Waits(i, waiting, refreshing), Single(i, waiting, refreshing),
           Meant(i, callback),
           callback = "sample" =>
               /\ i.sampling
               /\ refreshing => \A n \in 1..Len(waiting) : waiting[n] # "sample"
    PROVE  Reads(i, item', waiting, waiting', refreshing', node.value.stamp, callback)
<1> DEFINE stamp == node.value.stamp
           gone == [node.value EXCEPT !.status = {"gone"}]
           one == <<callback>>
<1>1. /\ stamp \in Nat /\ node.value \in DataValue /\ node.version \in Nat
      /\ gone \in DataValue /\ gone.stamp = stamp
    BY DEF NodeType, DataValue
<1>2. i.latest <= stamp /\ SameItem(i, i)
    BY DEF Good, Dated, SameItem
<1>3. /\ one \in Seq(Callback) /\ one # <<>>
      /\ Len(one) = 1 /\ one[1] = callback
    BY OneIs
<1> HIDE DEF one
<1>4. \A n : n \in 1..Len(one) <=> n = 1
    BY <1>3
<1>5. ToldTimer(one) <=> callback = "first then timer"
    BY <1>3, <1>4 DEF ToldTimer
<1>6. CASE waiting # <<>> /\ waiting' = Append(waiting, callback) /\ item' = i
           /\ refreshing' = refreshing
    <2> DEFINE w == waiting
               w2 == Append(w, callback)
    <2>1. w \in Seq(Callback)
        BY DEF Waits
    <2>2. /\ w2 \in Seq(Callback) /\ w2 # <<>>
          /\ Len(w) \in Nat /\ Len(w2) = Len(w) + 1
          /\ \A n \in 1..Len(w) : w2[n] = w[n]
          /\ w2[Len(w) + 1] = callback
          /\ ToldTimer(w) => ToldTimer(w2)
          /\ callback = "first then timer" => ToldTimer(w2)
          /\ ToldTimer(w2) => ToldTimer(w) \/ callback = "first then timer"
        <3> HIDE DEF w
        <3> QED
            BY <2>1, QueuedIs
    <2>3. item' = i /\ waiting' = w2 /\ refreshing' = refreshing
        BY <1>6
    <2> HIDE DEF w2
    <2>4. Waits(i, w2, refreshing)
        BY <2>2 DEF Waits, Meant
    <2>5. Single(i, w2, refreshing)
        <3>1. \A n \in 1..Len(w2) : n \in 1..Len(w) \/ n = Len(w) + 1
            <4>1. Len(w) \in Nat /\ Len(w2) = Len(w) + 1
                BY <2>2, Zenon
            <4> QED
                BY <4>1
        <3>2. CASE ~refreshing
            BY <3>2 DEF Single
        <3>3. CASE refreshing /\ callback = "sample"
            <4>1. \A n \in 1..Len(w2) : w2[n] = "sample" => n = Len(w) + 1
                BY <2>2, <3>1, <3>3
            <4> QED
                BY <3>3, <4>1 DEF Single
        <3>4. CASE refreshing /\ callback # "sample"
            <4>1. \A n \in 1..Len(w2) : w2[n] = "sample" => n \in 1..Len(w) /\ w[n] = "sample"
                BY <2>2, <3>1, <3>4
            <4> QED
                BY <3>4, <4>1 DEF Single
        <3> QED
            BY <3>2, <3>3, <3>4
    <2> QED
        BY <1>2, <2>2, <2>3, <2>4, <2>5 DEF Reads
<1>7. CASE waiting = <<>> /\ ~node.exists /\ waiting' = one
           /\ item' = Settled(Answered(i, callback, gone, FALSE, node.version))
           /\ refreshing' = refreshing
    <2>1. refreshing = FALSE /\ ~ToldTimer(waiting)
        <3>1. ~ToldTimer(waiting)
            BY <1>7, NobodyWaits
        <3> QED
            BY <1>7, <3>1 DEF Waits
    <2>2. Waits(i, one, FALSE)
        BY <1>3, <1>5 DEF Waits, Meant
    <2>3. i.latest <= gone.stamp /\ gone.stamp <= stamp
        BY <1>1, <1>2
    <2>4. Reads(i, Settled(Answered(i, callback, gone, FALSE, node.version)), waiting, one, FALSE,
                stamp, callback)
        <3> HIDE DEF gone
        <3> QED
            BY <1>1, <2>1, <2>2, <2>3, AnsweredReads, Zenon
    <2> QED
        BY <1>7, <2>1, <2>4
<1>8. CASE waiting = <<>> /\ waiting' = one /\ refreshing' = TRUE /\ item' = i
    <2>1. Waits(i, one, TRUE)
        BY <1>3, <1>5 DEF Waits, Meant
    <2>2. Single(i, one, TRUE)
        BY <1>3, <1>4 DEF Single
    <2>3. ~ToldTimer(waiting)
        BY <1>8, NobodyWaits
    <2> QED
        BY <1>2, <1>5, <1>8, <2>1, <2>2, <2>3 DEF Reads
<1>9. CASE waiting = <<>> /\ waiting' = waiting /\ refreshing' = refreshing
           /\ item' = Settled(Answered(i, callback, node.value, FALSE, node.version))
    <2>1. refreshing = FALSE
        BY <1>9 DEF Waits
    <2>2. i.latest <= node.value.stamp /\ node.value.stamp <= stamp
        BY <1>1, <1>2
    <2>3. Reads(i, Settled(Answered(i, callback, node.value, FALSE, node.version)), waiting, waiting,
                FALSE, stamp, callback)
        <3>1. Waits(i, waiting, FALSE)
            BY <2>1
        <3> QED
            BY <1>1, <2>2, <3>1, AnsweredReads, Zenon
    <2> QED
        BY <1>9, <2>1, <2>3
<1> QED
    BY <1>6, <1>7, <1>8, <1>9 DEF ReadValueAsync, one

LEMMA AcquireInitialValueIs ==
    ASSUME NEW i, NEW callback \in Callback \ {"sample"}, AcquireInitialValue(i, callback),
           node \in NodeType, Good(i, node.value.stamp), ~i.thrown, i.kind = "value",
           Waits(i, waiting, refreshing), Single(i, waiting, refreshing),
           Meant(i, callback)
    PROVE  Reads(i, item', waiting, waiting', refreshing', node.value.stamp, callback)
<1>1. CASE i.old = badDataUnavailable /\ ReadValueAsync(i, callback)
    BY <1>1, ReadValueAsyncIs
<1>2. CASE /\ i.old # badDataUnavailable
           /\ item' = Settled(Answered([i EXCEPT !.old = badDataUnavailable], callback,
                                       i.old, FALSE, node.version))
           /\ UNCHANGED <<waiting, refreshing>>
    <2> DEFINE k == [i EXCEPT !.old = badDataUnavailable]
               d == i.old
               stamp == node.value.stamp
    <2>1. i \in ItemType /\ Sound(i) /\ Dated(i, stamp)
        BY DEF Good, Sound, Fits
    <2>2. /\ k \in ItemType /\ Alike(i, k) /\ SameItem(i, k) /\ SameTimer(i, k)
          /\ k.sampling = i.sampling /\ k.old = badDataUnavailable
        BY <2>1, Constants DEF ItemType, Alike, SameItem, SameTimer
    <2>3. /\ stamp \in Nat /\ node.version \in Nat /\ d \in DataValue /\ d.stamp \in Nat
        BY <2>1 DEF NodeType, DataValue, ItemType
    <2>4. d.stamp = i.latest /\ d.stamp <= stamp
        BY <1>2, <2>1 DEF Dated
    <2>5. item' = Settled(Answered(k, callback, d, FALSE, node.version))
        BY <1>2
    <2> HIDE DEF k, d, stamp
    <2>6. Good(k, stamp)
        <3>1. Sound(k)
            BY <2>1, <2>2, AlikeSound
        <3>2. Dated(k, stamp)
            BY <2>1, <2>2 DEF Dated, Alike
        <3> QED
            BY <3>1, <3>2 DEF Good
    <2>7. /\ k.kind = "value" /\ k.latest <= d.stamp
          /\ Meant(k, callback)
        <3>1. k.kind = "value" /\ k.latest = d.stamp
            BY <2>2, <2>4 DEF Alike
        <3>2. Samples(i) => Samples(k)
            BY <2>2 DEF Alike, Samples
        <3>3. k.latest <= d.stamp
            BY <2>3, <3>1
        <3> QED
            BY <3>1, <3>2, <3>3, Zenon DEF Meant
    <2>8. Waits(k, waiting, refreshing) /\ Single(k, waiting, refreshing)
        BY <2>2 DEF Waits, Meant, Single, Samples, Alike
    <2>9. Reads(k, item', waiting, waiting, refreshing, stamp, callback)
        BY <2>3, <2>4, <2>5, <2>6, <2>7, <2>8, AnsweredReads
    <2> QED
        BY <1>2, <2>2, <2>9 DEF Reads, SameItem, SameTimer, stamp
<1> QED
    BY <1>1, <1>2 DEF AcquireInitialValue

-----------------------------------------------------------------------------
(***************************************************************************)
(* Every step keeps the invariant: the services.                           *)
(***************************************************************************)

LEMMA AlikeGood ==
    ASSUME NEW i, NEW stamp, Good(i, stamp), NEW j \in ItemType, Alike(i, j),
           j.old = i.old \/ j.old = badDataUnavailable
    PROVE  Good(j, stamp)
<1>1. Sound(j)
    BY AlikeSound DEF Good
<1>2. Dated(j, stamp)
    BY DEF Good, Dated, Alike
<1> QED
    BY <1>1, <1>2 DEF Good

\* What Plain says of an empty queue
LEMMA EmptyIsPlain ==
    ASSUME NEW i, NEW nd, i.queue = <<>>
    PROVE  Eventful(i, nd)
<1>1. Len(<<>>) = 0
    OBVIOUS
<1> QED
    BY <1>1 DEF Eventful, Plain

\* With what the call counts, the invariant is that of the parts.
LEMMA HeldIsEnough ==
    ASSUME Held(item', node', waiting', refreshing', immediates'), calls \in 0..MaxCalls,
           calls' = calls \/ (calls < MaxCalls /\ calls' = calls + 1)
    PROVE  IInv'
<1>1. calls' \in 0..MaxCalls
    BY ItemAssumption
<1> QED
    BY <1>1 DEF IInv

LEMMA HeldIsAll ==
    ASSUME Held(item', node', waiting', refreshing', immediates'), calls \in 0..MaxCalls,
           calls' = calls
    PROVE  IInv'
    BY DEF IInv

LEMMA SetMonitoringModeKeeps ==
    ASSUME IInv, NEW mode \in {"Disabled", "Sampling", "Reporting"}, SetMonitoringMode(mode)
    PROVE  IInv'
<1> DEFINE stamp == node.value.stamp
<1>1. /\ Held(item, node, waiting, refreshing, immediates) /\ calls \in 0..MaxCalls
      /\ UNCHANGED <<node, waiting, refreshing>> /\ calls < MaxCalls /\ calls' = calls + 1
    BY DEF IInv, SetMonitoringMode
<1>2. /\ Good(item, stamp) /\ ~item.thrown /\ item \in ItemType
      /\ immediates \in Seq(Immediate) /\ node \in NodeType
      /\ Waits(item, waiting, refreshing) /\ Single(item, waiting, refreshing)
      /\ Eventful(item, node)
    BY <1>1 DEF Held, Good, Sound, Fits
<1> SUFFICES Held(item', node, waiting, refreshing, immediates')
    BY <1>1, HeldIsEnough
<1>3. CASE mode = "Disabled"
    <2> DEFINE k == [item EXCEPT !.mode = mode]
               s == Stopped(k)
    <2>1. item' = Emptied(s) /\ immediates' = immediates
        BY <1>3 DEF SetMonitoringMode
    <2>2. /\ k \in ItemType /\ Alike(item, k) /\ k.old = item.old /\ k.mode = "Disabled"
          /\ k.sampling = item.sampling
        BY <1>2, <1>3 DEF ItemType, Alike, SameTimer
    <2> HIDE DEF k, s
    <2>3. Good(k, stamp)
        BY <1>2, <2>2, AlikeGood
    <2>4. Good(s, stamp) /\ Stops(k, s)
        BY <2>3, StoppedIs DEF s
    <2>5. Good(item', stamp) /\ Empties(s, item')
        BY <2>1, <2>4, EmptiedIs
    <2>6. /\ item'.kind = item.kind /\ item'.interval = item.interval /\ ~item'.listening
          /\ item'.sampling = item.sampling /\ ~item'.thrown /\ item'.mode = "Disabled"
        BY <1>2, <2>2, <2>4, <2>5 DEF Alike, Stops, Empties
    <2>7. Waits(item', waiting, refreshing) /\ Single(item', waiting, refreshing)
        BY <1>2, <2>6 DEF Waits, Single, Samples
    <2>8. Eventful(item', node)
        BY <2>5, EmptyIsPlain DEF Empties
    <2>9. Minded(item', node, waiting, immediates')
        BY <2>6 DEF Minded
    <2> QED
        BY <1>2, <2>1, <2>5, <2>6, <2>7, <2>8, <2>9 DEF Held
<1>4. CASE mode # "Disabled"
    <2> DEFINE k == [item EXCEPT !.mode = mode, !.old = badDataUnavailable]
               initial == item.mode \in {"Invalid", "Disabled"}
    <2>1. item' = k /\ immediates' = Deferred("start", initial)
        BY <1>4 DEF SetMonitoringMode
    <2>2. /\ k \in ItemType /\ Alike(item, k) /\ k.old = badDataUnavailable
          /\ k.sampling = item.sampling
        BY <1>2, Constants DEF ItemType, Alike, SameTimer
    <2>3. initial \in BOOLEAN
        OBVIOUS
    <2> HIDE DEF k, initial
    <2>4. Good(k, stamp)
        BY <1>2, <2>2, AlikeGood
    <2>5. immediates' \in Seq(Immediate) /\ Started(immediates')
        BY <1>2, <2>1, <2>3, DeferredIs
    <2>6. Waits(k, waiting, refreshing) /\ Single(k, waiting, refreshing) /\ Eventful(k, node)
        BY <1>2, <2>2 DEF Waits, Single, Samples, Alike, Eventful
    <2>7. Minded(k, node, waiting, immediates')
        BY <2>5 DEF Minded
    <2> QED
        BY <1>2, <2>1, <2>2, <2>4, <2>5, <2>6, <2>7 DEF Held, Alike
<1> QED
    BY <1>3, <1>4

LEMMA MinimumIsInterval == minimumSamplingInterval \in Intervals \ {0}
<1>1. Intervals \ {0} \in SUBSET Nat /\ Intervals \ {0} # {}
    BY ItemAssumption
<1>2. \E k \in Intervals \ {0} : \A j \in Intervals \ {0} : k <= j
    <2> DEFINE T == Intervals \ {0}
    <2> HIDE DEF T
    <2>1. \E m \in T : \A k \in T : m <= k
        BY <1>1, Minimum DEF T
    <2> QED
        BY <2>1 DEF T
<1> QED
    BY <1>2 DEF minimumSamplingInterval

\* A queue that was resized has lost nothing since, and ends with what it ended with.
LEMMA ResizedIsGood ==
    ASSUME NEW i, NEW stamp, Good(i, stamp), NEW j \in ItemType,
           NEW size \in QueueSizes, NEW oldest \in BOOLEAN,
           j.queue = Adjusted(i.queue, size, oldest), j.size = size, j.made = Len(j.queue),
           j.kind = i.kind, j.alive = i.alive, j.listening = i.listening, SameTimer(i, j),
           i.interval # 0 => j.interval # 0, j.latest = i.latest, j.failed = i.failed,
           j.thrown = i.thrown, j.old = i.old \/ j.old = badDataUnavailable
    PROVE  Good(j, stamp) /\ (Plain(i.queue) => Plain(j.queue))
<1>1. i \in ItemType /\ Sound(i) /\ Dated(i, stamp)
    BY DEF Good, Sound, Fits
<1>2. i.queue \in Seq(Notification) /\ j.queue \in Seq(Notification) /\ size \in Nat \ {0}
    BY <1>1, Constants DEF ItemType
<1>3. From(i.queue, j.queue) /\ Len(j.queue) <= size
    BY <1>2, AdjustedFrom, ShrinkingKeepsLatest
<1>4. Fits(j)
    BY <1>3 DEF Fits
<1>5. i.queue = <<>> => j.queue = <<>>
    <2> SUFFICES ASSUME i.queue = <<>>, j.queue # <<>>
                 PROVE  FALSE
        OBVIOUS
    <2>1. Len(j.queue) \in 1..Len(j.queue) /\ Len(i.queue) = 0
        BY <1>2
    <2>2. Len(i.queue) \in Len(j.queue)..Len(i.queue)
        BY <1>3, <2>1 DEF From
    <2> QED
        BY <2>1, <2>2
<1>6. Timed(j)
    BY <1>1, <1>5 DEF Sound, Timed, SameTimer
<1>7. Latest(j)
    <2> SUFFICES ASSUME i.failed = {}
                 PROVE  Sorted(j.queue) /\ (j.queue # <<>> => j.queue[Len(j.queue)].stamp = i.latest)
        BY DEF Latest
    <2>1. Sorted(i.queue) /\ (i.queue # <<>> => i.queue[Len(i.queue)].stamp = i.latest)
        BY <1>1 DEF Sound, Latest
    <2>2. Sorted(j.queue)
        BY <1>2, <1>3, <2>1, FromKeeps
    <2>3. ASSUME j.queue # <<>>
          PROVE  j.queue[Len(j.queue)].stamp = i.queue[Len(i.queue)].stamp
        <3>1. Len(j.queue) \in 1..Len(j.queue)
            BY <1>2, <2>3
        <3> QED
            BY <1>3, <3>1 DEF From
    <2> QED
        BY <1>5, <2>1, <2>2, <2>3
<1>8. Announced(j)
    BY <1>2 DEF Announced
<1>9. Blamed(j) /\ Dated(j, stamp)
    BY <1>1 DEF Sound, Blamed, Dated
<1> QED
    BY <1>2, <1>3, <1>4, <1>6, <1>7, <1>8, <1>9, FromKeeps DEF Good, Sound

LEMMA ModifyKeeps ==
    ASSUME IInv, NEW interval \in Intervals, NEW size \in QueueSizes, NEW oldest \in BOOLEAN,
           NEW filter \in Filters, Modify(interval, size, oldest, filter)
    PROVE  IInv'
<1> DEFINE stamp == node.value.stamp
           revised == IF item.interval # 0 /\ interval = 0 THEN minimumSamplingInterval ELSE interval
           queue == Adjusted(item.queue, size, oldest)
           made == Len(queue)
           set == [item EXCEPT !.interval = revised, !.size = size, !.oldest = oldest,
                               !.filter = filter, !.queue = queue, !.made = made]
           reset == [set EXCEPT !.old = badDataUnavailable]
<1>1. /\ Held(item, node, waiting, refreshing, immediates) /\ calls \in 0..MaxCalls
      /\ UNCHANGED <<node, waiting, refreshing>> /\ calls < MaxCalls /\ calls' = calls + 1
    BY DEF IInv, Modify
<1>2. /\ Good(item, stamp) /\ ~item.thrown /\ item \in ItemType
      /\ immediates \in Seq(Immediate) /\ node \in NodeType
      /\ Waits(item, waiting, refreshing) /\ Single(item, waiting, refreshing)
      /\ Eventful(item, node) /\ Minded(item, node, waiting, immediates)
    BY <1>1 DEF Held, Good, Sound, Fits
<1>3. \/ item' = set /\ immediates' = immediates
      \/ item' = reset /\ immediates' = Deferred("start", FALSE)
    BY DEF Modify
<1>4. revised \in Intervals \cup {0} /\ (item.interval # 0 => revised # 0)
    BY MinimumIsInterval
<1>5. queue \in Seq(Notification) /\ made \in Nat
    <2>1. item.queue \in Seq(Notification) /\ size \in Nat \ {0}
        BY <1>2, Constants DEF ItemType
    <2>2. queue \in Seq(Notification)
        BY <2>1, ShrinkingKeepsLatest
    <2> HIDE DEF queue
    <2> QED
        BY <2>2
<1> SUFFICES Held(item', node, waiting, refreshing, immediates')
    BY <1>1, HeldIsEnough
<1> HIDE DEF revised, queue, made
<1>6. \A j \in {set, reset} :
          /\ j \in ItemType
          /\ j.queue = queue /\ j.size = size /\ j.made = made /\ j.interval = revised
          /\ j.kind = item.kind /\ j.mode = item.mode /\ j.alive = item.alive
          /\ j.listening = item.listening /\ SameTimer(item, j) /\ j.sampling = item.sampling
          /\ j.latest = item.latest /\ j.failed = item.failed /\ j.thrown = item.thrown
          /\ j.old = item.old \/ j.old = badDataUnavailable
    <2>1. set \in ItemType
        BY <1>2, <1>4, <1>5 DEF ItemType
    <2>2. /\ set.queue = queue /\ set.size = size /\ set.made = made /\ set.interval = revised
          /\ set.kind = item.kind /\ set.mode = item.mode /\ set.alive = item.alive
          /\ set.listening = item.listening /\ SameTimer(item, set) /\ set.sampling = item.sampling
          /\ set.latest = item.latest /\ set.failed = item.failed /\ set.thrown = item.thrown
          /\ set.old = item.old
        BY <1>2 DEF ItemType, SameTimer
    <2> HIDE DEF set
    <2>3. /\ reset \in ItemType /\ reset.old = badDataUnavailable
          /\ reset.queue = set.queue /\ reset.size = set.size /\ reset.made = set.made
          /\ reset.interval = set.interval
          /\ reset.kind = set.kind /\ reset.mode = set.mode /\ reset.alive = set.alive
          /\ reset.listening = set.listening /\ reset.sampling = set.sampling
          /\ reset.timer = set.timer /\ reset.registered = set.registered
          /\ reset.latest = set.latest /\ reset.failed = set.failed /\ reset.thrown = set.thrown
        BY <2>1, Constants DEF ItemType
    <2> HIDE DEF reset
    <2> QED
        BY <2>1, <2>2, <2>3 DEF SameTimer
<1>7. item' \in {set, reset}
    <2> HIDE DEF set, reset
    <2> QED
        BY <1>3
<1> HIDE DEF set, reset
<1>8. /\ item' \in ItemType
      /\ item'.queue = queue /\ item'.size = size /\ item'.made = made /\ item'.interval = revised
      /\ item'.kind = item.kind /\ item'.mode = item.mode /\ item'.alive = item.alive
      /\ item'.listening = item.listening /\ SameTimer(item, item')
      /\ item'.sampling = item.sampling
      /\ item'.latest = item.latest /\ item'.failed = item.failed /\ item'.thrown = item.thrown
      /\ item'.old = item.old \/ item'.old = badDataUnavailable
    BY <1>6, <1>7
<1>9. Good(item', stamp) /\ (Plain(item.queue) => Plain(item'.queue))
    <2>1. item'.queue = Adjusted(item.queue, size, oldest) /\ item'.made = Len(item'.queue)
        BY <1>8 DEF queue, made
    <2> QED
        BY <1>2, <1>4, <1>8, <2>1, ResizedIsGood
<1>10. Waits(item', waiting, refreshing) /\ Single(item', waiting, refreshing)
       /\ Eventful(item', node)
    BY <1>2, <1>4, <1>8, <1>9 DEF Waits, Single, Samples, Eventful
<1>11. immediates' \in Seq(Immediate) /\ (Started(immediates) => Started(immediates'))
    BY <1>2, <1>3, DeferredIs
<1>12. Minded(item', node, waiting, immediates')
    BY <1>2, <1>8, <1>11 DEF Minded, SameTimer
<1> QED
    BY <1>2, <1>8, <1>9, <1>10, <1>11, <1>12 DEF Held

LEMMA RemoveMonitoredItemKeeps ==
    ASSUME IInv, RemoveMonitoredItem
    PROVE  IInv'
<1> DEFINE stamp == node.value.stamp
           s == Stopped(item)
           e == Emptied(s)
           j == [e EXCEPT !.alive = FALSE, !.old = badDataUnavailable]
<1>1. /\ Held(item, node, waiting, refreshing, immediates) /\ calls \in 0..MaxCalls
      /\ UNCHANGED <<node, waiting, refreshing, immediates, calls>> /\ item' = j
    BY DEF IInv, RemoveMonitoredItem
<1>2. Good(item, stamp) /\ Waits(item, waiting, refreshing) /\ Single(item, waiting, refreshing)
    BY <1>1 DEF Held
<1> SUFFICES Held(j, node, waiting, refreshing, immediates)
    BY <1>1, HeldIsAll
<1> HIDE DEF s, e
<1>3. Good(s, stamp) /\ Stops(item, s)
    BY <1>2, StoppedIs DEF s
<1>4. Good(e, stamp) /\ Empties(s, e) /\ e \in ItemType
    BY <1>3, EmptiedIs DEF e, Good, Sound, Fits
<1>5. /\ j \in ItemType /\ ~j.alive /\ j.old = badDataUnavailable
      /\ j.kind = e.kind /\ j.interval = e.interval /\ j.size = e.size
      /\ j.listening = e.listening /\ SameTimer(e, j) /\ j.sampling = e.sampling
      /\ j.queue = e.queue /\ j.made = e.made /\ j.latest = e.latest
      /\ j.thrown = e.thrown /\ j.failed = e.failed
    BY <1>4, Constants DEF ItemType, SameTimer
<1> HIDE DEF j
<1>6. /\ j.kind = item.kind /\ j.interval = item.interval /\ ~j.listening
      /\ j.sampling = item.sampling /\ ~j.thrown /\ j.timer = NoTimer /\ j.queue = <<>>
    BY <1>1, <1>3, <1>4, <1>5 DEF Stops, Empties, SameTimer, Held
<1>7. Good(j, stamp)
    <2>1. Fits(j)
        BY <1>4, <1>5 DEF Good, Sound, Fits
    <2>2. Timed(j)
        BY <1>4, <1>5, <1>6 DEF Good, Sound, Timed, SameTimer
    <2>3. Latest(j) /\ Announced(j) /\ Blamed(j) /\ Dated(j, stamp)
        BY <1>4, <1>5 DEF Good, Sound, Latest, Announced, Blamed, Dated
    <2> QED
        BY <2>1, <2>2, <2>3 DEF Good, Sound
<1>8. Waits(j, waiting, refreshing) /\ Single(j, waiting, refreshing)
    BY <1>2, <1>6 DEF Waits, Single, Samples
<1>9. Eventful(j, node)
    BY <1>6, EmptyIsPlain
<1> QED
    BY <1>1, <1>5, <1>6, <1>7, <1>8, <1>9 DEF Held, Minded

LEMMA ResendInitialValueKeeps ==
    ASSUME IInv, ResendInitialValue
    PROVE  IInv'
<1> DEFINE stamp == node.value.stamp
           value == IF item.old = badDataUnavailable THEN node.value ELSE item.old
           resent == item.resent \/ Starting
           k == [item EXCEPT !.resent = resent]
           j == EnqueueValue(k, value)
<1>1. /\ Held(item, node, waiting, refreshing, immediates) /\ calls \in 0..MaxCalls
      /\ UNCHANGED <<node, waiting, refreshing, immediates>> /\ calls < MaxCalls
      /\ calls' = calls + 1 /\ item.alive /\ item.queue = <<>> /\ item' = j
    BY DEF IInv, ResendInitialValue
<1>2. /\ Good(item, stamp) /\ Sound(item) /\ Dated(item, stamp) /\ item \in ItemType
      /\ node \in NodeType /\ ~item.thrown
    BY <1>1 DEF Held, Good, Sound, Fits
<1>3. value \in DataValue /\ value.stamp <= stamp /\ stamp \in Nat
    <2>1. node.value \in DataValue /\ item.old \in DataValue
        BY <1>2 DEF NodeType, ItemType
    <2>2. stamp \in Nat /\ item.old.stamp \in Nat
        BY <2>1 DEF DataValue
    <2> QED
        BY <1>2, <2>1, <2>2 DEF Dated
<1> SUFFICES Held(j, node, waiting, refreshing, immediates)
    BY <1>1, HeldIsEnough
<1>4. resent \in BOOLEAN
    BY <1>2 DEF ItemType
<1> HIDE DEF value, resent
<1>5. /\ k \in ItemType /\ Alike(item, k) /\ SameItem(item, k) /\ k.sampling = item.sampling
      /\ k.old = item.old /\ k.oldest = item.oldest
    BY <1>2, <1>4 DEF ItemType, Alike, SameItem, SameTimer
<1> HIDE DEF k
<1>6. Sound(k) /\ k.alive /\ k.queue = <<>>
    BY <1>1, <1>2, <1>5, AlikeSound DEF Alike
<1>7. /\ Sound(j) /\ SameItem(k, j) /\ SameTimer(k, j) /\ j.sampling = k.sampling
      /\ j.old = value /\ j.latest = value.stamp
    BY <1>3, <1>6, EnqueueValueIs
<1>8. Good(j, stamp)
    BY <1>3, <1>7 DEF Good, Dated
<1>9. ~j.thrown /\ Len(j.queue) = 1
    <2> DEFINE n == [stamp |-> value.stamp, status |-> value.status, data |-> TRUE]
               l == [k EXCEPT !.old = value]
    <2>1. n \in Notification
        BY <1>3 DEF Notification, DataValue
    <2>2. /\ l \in ItemType /\ l.queue = <<>> /\ l.size = k.size /\ l.oldest = k.oldest
          /\ l.size \in Nat \ {0}
        BY <1>3, <1>5, <1>6, Constants DEF ItemType
    <2>3. j = EnqueueNotification(l, n)
        BY DEF EnqueueValue
    <2> HIDE DEF j, l, n
    <2>4. Len(l.queue) = 0 /\ Len(l.queue) <= l.size
        BY <2>2
    <2>5. Fits(l) /\ ~Overflows(l.queue, l.size)
        BY <2>2, <2>4 DEF Fits, Overflows
    <2>6. /\ j.queue = Enqueued(l.queue, n, l.size, l.oldest)
          /\ j.thrown = BitRefused(l.queue, n, l.size, l.oldest)
        BY <2>1, <2>3, <2>5, EnqueueIs
    <2>7. ~j.thrown
        BY <2>5, <2>6 DEF BitRefused
    <2>8. j.queue = <<n>> \/ j.queue = Append(<<>>, n)
        BY <2>2, <2>5, <2>6 DEF Enqueued
    <2> QED
        BY <2>7, <2>8
<1>10. SameItem(item, j) /\ j.sampling = item.sampling /\ j.timer = item.timer
    BY <1>5, <1>7 DEF SameItem, SameTimer, Alike
<1> HIDE DEF j
<1>11. Eventful(j, node)
    BY <1>9 DEF Eventful, Plain
<1> QED
    BY <1>1, <1>2, <1>8, <1>9, <1>10, <1>11, HeldServes

LEMMA HarvestKeeps ==
    ASSUME IInv, Harvest
    PROVE  IInv'
<1> DEFINE stamp == node.value.stamp
<1>1. /\ Held(item, node, waiting, refreshing, immediates) /\ calls \in 0..MaxCalls
      /\ UNCHANGED <<node, waiting, refreshing, immediates, calls>>
    BY DEF IInv, Harvest
<1>2. /\ Good(item, stamp) /\ item \in ItemType /\ node \in NodeType /\ ~item.thrown
      /\ Waits(item, waiting, refreshing) /\ Single(item, waiting, refreshing)
      /\ Eventful(item, node) /\ Minded(item, node, waiting, immediates)
    BY <1>1 DEF Held, Good, Sound, Fits
<1> SUFFICES Held(item', node, waiting, refreshing, immediates)
    BY <1>1, HeldIsAll
<1>3. CASE item' = [item EXCEPT !.triggered = <<>>]
    <2> DEFINE none == <<>>
               k == [item EXCEPT !.triggered = none]
    <2>1. none \in Seq(Notification)
        OBVIOUS
    <2>2. item' = k
        BY <1>3
    <2> HIDE DEF none
    <2>3. /\ k \in ItemType /\ Alike(item, k) /\ k.mode = item.mode /\ k.sampling = item.sampling
          /\ k.old = item.old
        BY <1>2, <2>1 DEF ItemType, Alike, SameTimer
    <2> HIDE DEF k
    <2>4. Good(k, stamp)
        BY <1>2, <2>3, AlikeGood
    <2>5. Waits(k, waiting, refreshing) /\ Single(k, waiting, refreshing) /\ Eventful(k, node)
        BY <1>2, <2>3 DEF Waits, Single, Samples, Alike, Eventful
    <2>6. Minded(k, node, waiting, immediates)
        BY <1>2, <2>3 DEF Minded, Alike, SameTimer
    <2> QED
        BY <1>1, <1>2, <2>2, <2>3, <2>4, <2>5, <2>6 DEF Held, Alike
<1>4. CASE item' = QueueTaken(item)
    <2>1. Good(item', stamp) /\ Empties(item, item')
        BY <1>2, <1>4, QueueTakenIs DEF NodeType
    <2>2. Waits(item', waiting, refreshing) /\ Single(item', waiting, refreshing)
        BY <1>2, <2>1 DEF Waits, Single, Samples, Empties
    <2>3. Minded(item', node, waiting, immediates)
        BY <1>2, <2>1 DEF Minded, Empties, SameTimer
    <2>4. Eventful(item', node)
        BY <2>1, EmptyIsPlain DEF Empties
    <2> QED
        BY <1>1, <1>2, <2>1, <2>2, <2>3, <2>4 DEF Held, Empties
<1> QED
    BY <1>3, <1>4 DEF Harvest

LEMMA TriggerKeeps ==
    ASSUME IInv, Trigger
    PROVE  IInv'
<1>1. /\ Held(item, node, waiting, refreshing, immediates) /\ calls \in 0..MaxCalls
      /\ UNCHANGED <<item, node, waiting, refreshing>> /\ calls < MaxCalls /\ calls' = calls + 1
      /\ immediates' = Deferred("trigger", FALSE)
    BY DEF IInv, Trigger
<1>2. immediates \in Seq(Immediate)
    BY <1>1 DEF Held
<1>3. immediates' \in Seq(Immediate) /\ (Started(immediates) => Started(immediates'))
    BY <1>1, <1>2, DeferredIs
<1> SUFFICES Held(item, node, waiting, refreshing, immediates')
    BY <1>1, HeldIsEnough
<1> QED
    BY <1>1, <1>3 DEF Held, Minded

-----------------------------------------------------------------------------
(***************************************************************************)
(* The callbacks of the event loop.                                        *)
(***************************************************************************)

LEMMA TimerFiresKeeps ==
    ASSUME IInv, TimerFires
    PROVE  IInv'
<1>1. /\ Held(item, node, waiting, refreshing, immediates) /\ calls \in 0..MaxCalls
      /\ UNCHANGED <<item, node, waiting, refreshing, calls>>
      /\ immediates' = Deferred("sample", FALSE)
    BY DEF IInv, TimerFires
<1>2. immediates \in Seq(Immediate)
    BY <1>1 DEF Held
<1>3. immediates' \in Seq(Immediate) /\ (Started(immediates) => Started(immediates'))
    BY <1>1, <1>2, DeferredIs
<1> SUFFICES Held(item, node, waiting, refreshing, immediates')
    BY <1>1, HeldIsAll
<1> QED
    BY <1>1, <1>3 DEF Held, Minded

\* _on_sampling_timer: the one reading it begins is the only one, for the item was not sampling.
LEMMA RunSampleKeeps ==
    ASSUME IInv, RunSample
    PROVE  IInv'
<1> DEFINE stamp == node.value.stamp
           k == [item EXCEPT !.sampling = TRUE]
<1>1. /\ Held(item, node, waiting, refreshing, immediates) /\ calls \in 0..MaxCalls
      /\ NextImmediate("sample") /\ UNCHANGED <<node, calls>>
      /\ \/ UNCHANGED <<item, waiting, refreshing>>
         \/ item.timer # NoTimer /\ ~item.sampling /\ ReadValueAsync(k, "sample")
    BY DEF IInv, RunSample
<1>2. /\ Good(item, stamp) /\ item \in ItemType /\ node \in NodeType /\ ~item.thrown
      /\ Waits(item, waiting, refreshing) /\ Single(item, waiting, refreshing)
      /\ Eventful(item, node) /\ Minded(item, node, waiting, immediates)
      /\ immediates \in Seq(Immediate)
    BY <1>1 DEF Held, Good, Sound, Fits
<1>3. immediates' \in Seq(Immediate) /\ (Started(immediates) => Started(immediates'))
    BY <1>1, <1>2, NextImmediateIs
<1> SUFFICES Held(item', node, waiting', refreshing', immediates')
    BY <1>1, HeldIsAll
<1>4. CASE UNCHANGED <<item, waiting, refreshing>>
    BY <1>2, <1>3, <1>4 DEF Held, Minded
<1>5. CASE item.timer # NoTimer /\ ~item.sampling /\ ReadValueAsync(k, "sample")
    <2>1. /\ k \in ItemType /\ Alike(item, k) /\ SameItem(item, k) /\ k.old = item.old /\ k.sampling
        BY <1>2 DEF ItemType, Alike, SameItem, SameTimer
    <2>2. ReadValueAsync(k, "sample")
        BY <1>5
    <2> HIDE DEF k
    <2>3. Good(k, stamp)
        BY <1>2, <2>1, AlikeGood
    <2>4. item.kind = "value"
        BY <1>2, <1>5 DEF Good, Sound, Timed
    <2>5. ~k.thrown /\ k.kind = "value" /\ k.timer # NoTimer
        BY <1>2, <1>5, <2>1, <2>4 DEF Alike, SameTimer
    <2>6. Waits(k, waiting, refreshing)
        BY <1>2, <2>1 DEF Waits, Samples, Alike
    <2>7. Single(k, waiting, refreshing)
        BY <1>2, <2>1 DEF Single
    <2>8. refreshing => \A n \in 1..Len(waiting) : waiting[n] # "sample"
        BY <1>2, <1>5 DEF Single
    <2>9. Meant(k, "sample") /\ "sample" \in Callback
        BY DEF Meant, Callback
    <2>10. Reads(k, item', waiting, waiting', refreshing', stamp, "sample")
        BY <1>2, <2>1, <2>2, <2>3, <2>5, <2>6, <2>7, <2>8, <2>9, ReadValueAsyncIs
    <2>11. item'.timer # NoTimer /\ item'.kind = "value"
        BY <2>5, <2>10 DEF Reads, SameItem
    <2>12. Eventful(item', node) /\ Minded(item', node, waiting', immediates')
        BY <2>11 DEF Eventful, Minded
    <2> QED
        BY <1>2, <1>3, <2>10, <2>12 DEF Held, Reads
<1> QED
    BY <1>1, <1>4, <1>5

\* The callback of trigger
LEMMA RunTriggerKeeps ==
    ASSUME IInv, RunTrigger
    PROVE  IInv'
<1> DEFINE stamp == node.value.stamp
           t == item.triggered \o QueueToTake(item)
           k == QueueTaken(item)
           j == [k EXCEPT !.triggered = t]
<1>1. /\ Held(item, node, waiting, refreshing, immediates) /\ calls \in 0..MaxCalls
      /\ NextImmediate("trigger") /\ UNCHANGED <<node, waiting, refreshing, calls>>
      /\ item' = [k EXCEPT !.triggered = @ \o QueueToTake(item)]
    BY DEF IInv, RunTrigger
<1>2. /\ Good(item, stamp) /\ item \in ItemType /\ node \in NodeType /\ ~item.thrown
      /\ Waits(item, waiting, refreshing) /\ Single(item, waiting, refreshing)
      /\ Eventful(item, node) /\ Minded(item, node, waiting, immediates)
      /\ immediates \in Seq(Immediate)
    BY <1>1 DEF Held, Good, Sound, Fits
<1>3. immediates' \in Seq(Immediate) /\ (Started(immediates) => Started(immediates'))
    BY <1>1, <1>2, NextImmediateIs
<1>4. k.triggered = item.triggered
    BY <1>2 DEF QueueTaken, Emptied, ItemType
<1>5. Good(k, stamp) /\ Empties(item, k) /\ k \in ItemType
    BY <1>2, QueueTakenIs DEF NodeType
<1>6. t \in Seq(Notification)
    <2>1. item.triggered \in Seq(Notification)
        BY <1>2 DEF ItemType
    <2>2. QueueToTake(item) \in Seq(Notification)
        BY <1>2, QueueToTakeType
    <2> QED
        BY <2>1, <2>2
<1> HIDE DEF k
<1>7. item' = j
    BY <1>1, <1>4, <1>5 DEF ItemType
<1> SUFFICES Held(j, node, waiting, refreshing, immediates')
    BY <1>1, <1>7, HeldIsAll
<1> HIDE DEF t
<1>8. /\ j \in ItemType /\ Alike(k, j) /\ j.mode = k.mode /\ j.sampling = k.sampling
      /\ j.old = k.old
    BY <1>5, <1>6 DEF ItemType, Alike, SameTimer
<1> HIDE DEF j
<1>9. Good(j, stamp)
    BY <1>5, <1>8, AlikeGood
<1>10. Waits(j, waiting, refreshing) /\ Single(j, waiting, refreshing)
    BY <1>2, <1>5, <1>8 DEF Waits, Single, Samples, Empties, Alike
<1>11. Minded(j, node, waiting, immediates')
    BY <1>2, <1>3, <1>5, <1>8 DEF Minded, Empties, Alike, SameTimer
<1>12. Eventful(j, node)
    BY <1>5, <1>8, EmptyIsPlain DEF Empties, Alike
<1> QED
    BY <1>2, <1>3, <1>5, <1>8, <1>9, <1>10, <1>11, <1>12 DEF Held, Empties, Alike

\* __start_sampling of an item that does not sample: it listens, and nobody waits for the device.
LEMMA StartListening ==
    ASSUME Held(item, node, waiting, refreshing, immediates), item.alive,
           immediates' \in Seq(Immediate),
           NEW j, Good(j, node.value.stamp), ~j.thrown, j.listening,
           j.kind = item.kind, j.sampling = item.sampling,
           ~ToldTimer(waiting), Eventful(j, node)
    PROVE  Held(j, node, waiting, refreshing, immediates')
<1>1. Waits(j, waiting, refreshing) /\ Single(j, waiting, refreshing)
    BY DEF Held, Waits, Single
<1>2. Minded(j, node, waiting, immediates')
    BY DEF Minded
<1> QED
    BY <1>1, <1>2 DEF Held

\* The reading that starts an item, with the timer it has asked for
LEMMA StartReading ==
    ASSUME Held(item, node, waiting, refreshing, immediates), immediates' \in Seq(Immediate),
           NEW i, Good(i, node.value.stamp), ~i.thrown, i.kind = "value", i.alive,
           Waits(i, waiting, refreshing), Single(i, waiting, refreshing),
           NEW callback \in Callback \ {"sample"}, AcquireInitialValue(i, callback),
           Meant(i, callback), i.listening \/ callback = "first then timer"
    PROVE  Held(item', node, waiting', refreshing', immediates')
<1>1. node \in NodeType
    BY DEF Held
<1>2. Reads(i, item', waiting, waiting', refreshing', node.value.stamp, callback)
    BY <1>1, AcquireInitialValueIs
<1>3. Eventful(item', node)
    BY <1>2 DEF Reads, SameItem, Eventful
<1>4. Minded(item', node, waiting', immediates')
    BY <1>2 DEF Reads, SameItem, Minded
<1> QED
    BY <1>1, <1>2, <1>3, <1>4 DEF Held, Reads

LEMMA RunStartKeeps ==
    ASSUME IInv, RunStart
    PROVE  IInv'
<1> DEFINE stamp == node.value.stamp
           initial == Head(immediates).initial
           s == Stopped(item)
           l == [s EXCEPT !.listening = TRUE]
           x == [l EXCEPT !.interval = 0]
<1>1. /\ Held(item, node, waiting, refreshing, immediates) /\ calls \in 0..MaxCalls
      /\ NextImmediate("start") /\ UNCHANGED <<node, calls>>
    BY DEF IInv, RunStart
<1>2. /\ Good(item, stamp) /\ item \in ItemType /\ node \in NodeType /\ ~item.thrown
      /\ Waits(item, waiting, refreshing) /\ Single(item, waiting, refreshing)
      /\ Eventful(item, node) /\ immediates \in Seq(Immediate)
    BY <1>1 DEF Held, Good, Sound, Fits
<1>3. immediates' \in Seq(Immediate)
    BY <1>1, <1>2, NextImmediateIs
<1> SUFFICES Held(item', node, waiting', refreshing', immediates')
    BY <1>1, HeldIsAll
<1>4. \/ ~item.alive /\ UNCHANGED <<item, waiting, refreshing>>
      \/ /\ item.alive /\ item.kind = "event"
         /\ item' = l /\ UNCHANGED <<waiting, refreshing>>
      \/ /\ item.alive /\ item.kind = "attribute"
         /\ item' = x \/ item' = Settled(Recorded(x, node.value, TRUE, node.version))
         /\ UNCHANGED <<waiting, refreshing>>
      \/ /\ item.alive /\ item.kind = "value"
         /\ item' = IF item.interval = 0 THEN l ELSE TimerSet(s)
         /\ UNCHANGED <<waiting, refreshing>>
      \/ /\ item.alive /\ item.kind = "value"
         /\ IF item.interval = 0 THEN AcquireInitialValue(l, "first")
            ELSE AcquireInitialValue(s, "first then timer")
    BY DEF RunStart
<1>5. Good(s, stamp) /\ Stops(item, s)
    BY <1>2, StoppedIs
<1> HIDE DEF s, initial
<1>6. item.alive =>
          /\ Good(l, stamp) /\ l.listening
          /\ l.kind = item.kind /\ l.mode = item.mode /\ l.interval = item.interval
          /\ l.alive /\ l.sampling = item.sampling /\ l.timer = NoTimer
          /\ ~l.thrown /\ l.queue = item.queue
    BY <1>2, <1>5, ListensIs DEF Stops
<1> HIDE DEF l
<1>7. item.kind # "value" \/ item.interval = 0 => ~ToldTimer(waiting)
    BY <1>2, NobodyWaits DEF Waits, Samples
<1>8. CASE ~item.alive /\ UNCHANGED <<item, waiting, refreshing>>
    BY <1>2, <1>3, <1>8 DEF Held, Minded
<1>9. CASE item.alive /\ item' = l /\ UNCHANGED <<waiting, refreshing>>
           /\ (item.kind # "value" \/ item.interval = 0)
    <2>1. Eventful(l, node)
        BY <1>2, <1>6, <1>9 DEF Eventful
    <2>2. Held(l, node, waiting, refreshing, immediates')
        BY <1>1, <1>3, <1>6, <1>7, <1>9, <2>1, StartListening
    <2> QED
        BY <1>9, <2>2
<1>10. CASE /\ item.alive /\ item.kind = "attribute"
            /\ item' = x \/ item' = Settled(Recorded(x, node.value, TRUE, node.version))
            /\ UNCHANGED <<waiting, refreshing>>
    <2>1. l \in ItemType
        BY <1>6, <1>10 DEF Good, Sound, Fits
    <2>2. /\ x \in ItemType /\ x.kind = l.kind /\ x.size = l.size /\ x.alive = l.alive
          /\ x.listening = l.listening /\ SameTimer(l, x) /\ x.sampling = l.sampling
          /\ x.queue = l.queue /\ x.made = l.made /\ x.latest = l.latest
          /\ x.thrown = l.thrown /\ x.failed = l.failed /\ x.old = l.old
        BY <2>1 DEF ItemType, SameTimer
    <2> DEFINE j == Settled(Recorded(x, node.value, TRUE, node.version))
    <2>3. item' = x \/ item' = j
        BY <1>10
    <2> HIDE DEF x
    <2>4. Good(x, stamp)
        <3>1. Fits(x)
            BY <1>6, <1>10, <2>2 DEF Good, Sound, Fits
        <3>2. Timed(x)
            BY <1>6, <1>10, <2>2 DEF Good, Sound, Timed, SameTimer
        <3>3. Latest(x) /\ Announced(x) /\ Blamed(x) /\ Dated(x, stamp)
            BY <1>6, <1>10, <2>2 DEF Good, Sound, Latest, Announced, Blamed, Dated
        <3> QED
            BY <3>1, <3>2, <3>3 DEF Good, Sound
    <2>5. /\ x.listening /\ x.kind = item.kind /\ x.sampling = item.sampling /\ ~x.thrown
        BY <1>6, <1>10, <2>2
    <2>6. /\ Good(j, stamp) /\ j.listening /\ j.kind = item.kind /\ j.sampling = item.sampling
          /\ ~j.thrown
        <3> DEFINE r == Recorded(x, node.value, TRUE, node.version)
        <3>1. node.value \in DataValue /\ node.version \in Nat /\ stamp \in Nat
            BY <1>2 DEF NodeType, DataValue
        <3>2. x.latest <= node.value.stamp /\ node.value.stamp <= stamp
            BY <2>4, <3>1 DEF Good, Dated
        <3>3. Good(r, stamp) /\ Records(x, r, node.value.stamp)
            <4> HIDE DEF stamp
            <4> QED
                BY <2>4, <3>1, <3>2, RecordedIs, Zenon
        <3> HIDE DEF r
        <3>4. /\ Good(Settled(r), stamp) /\ ~Settled(r).thrown
              /\ SameItem(r, Settled(r)) /\ Settled(r).sampling = r.sampling
            BY <3>3, SettledIs
        <3>5. j = Settled(r)
            BY DEF r
        <3> QED
            BY <2>5, <3>3, <3>4, <3>5 DEF Records, SameItem
    <2> HIDE DEF j
    <2>7. Eventful(x, node) /\ Eventful(j, node) /\ ~ToldTimer(waiting)
        BY <1>7, <1>10, <2>5, <2>6 DEF Eventful
    <2>8. Held(x, node, waiting, refreshing, immediates')
        BY <1>1, <1>3, <1>10, <2>4, <2>5, <2>7, StartListening
    <2>9. Held(j, node, waiting, refreshing, immediates')
        BY <1>1, <1>3, <1>10, <2>6, <2>7, StartListening
    <2> QED
        BY <1>10, <2>3, <2>8, <2>9
<1>11. CASE /\ item.alive /\ item.kind = "value" /\ item.interval # 0 /\ item' = TimerSet(s)
            /\ UNCHANGED <<waiting, refreshing>>
    <2>1. Samples(s) /\ s.alive /\ s.timer = NoTimer /\ ~s.thrown /\ s.sampling = item.sampling
        BY <1>2, <1>5, <1>11 DEF Stops, Samples
    <2>2. Good(item', stamp) /\ SetsTimer(s, item')
        BY <1>5, <1>11, <2>1, TimerSetIs
    <2>3. ~item'.thrown
        <3>1. s \in ItemType
            BY <1>5 DEF Good, Sound, Fits
        <3> QED
            BY <1>11, <2>1, <3>1 DEF TimerSet, ItemType
    <2>4. /\ item'.kind = "value" /\ item'.sampling = item.sampling /\ item'.timer # NoTimer
          /\ Samples(item')
        BY <2>1, <2>2 DEF SetsTimer, SameItem, Samples
    <2>5. Waits(item', waiting, refreshing) /\ Single(item', waiting, refreshing)
        BY <1>2, <2>4 DEF Waits, Single
    <2>6. Eventful(item', node) /\ Minded(item', node, waiting', immediates')
        BY <2>4 DEF Eventful, Minded
    <2> QED
        BY <1>2, <1>3, <1>11, <2>2, <2>3, <2>5, <2>6 DEF Held
<1>12. CASE /\ item.alive /\ item.kind = "value" /\ item.interval = 0
            /\ AcquireInitialValue(l, "first")
    <2>1. Waits(l, waiting, refreshing) /\ Single(l, waiting, refreshing)
        BY <1>2, <1>6, <1>7, <1>12 DEF Waits, Single
    <2>2. Meant(l, "first") /\ "first" \in Callback \ {"sample"}
        BY DEF Meant, Callback
    <2> QED
        BY <1>1, <1>3, <1>6, <1>12, <2>1, <2>2, StartReading
<1>13. CASE /\ item.alive /\ item.kind = "value" /\ item.interval # 0
            /\ AcquireInitialValue(s, "first then timer")
    <2>1. Samples(s) /\ s.alive /\ ~s.thrown /\ s.sampling = item.sampling /\ s.kind = "value"
        BY <1>2, <1>5, <1>13 DEF Stops, Samples
    <2>2. Waits(s, waiting, refreshing) /\ Single(s, waiting, refreshing)
        BY <1>2, <2>1 DEF Waits, Single
    <2>3. Meant(s, "first then timer") /\ "first then timer" \in Callback \ {"sample"}
        BY <2>1 DEF Meant, Callback
    <2> QED
        BY <1>1, <1>3, <1>5, <1>13, <2>1, <2>2, <2>3, StartReading
<1> QED
    BY <1>4, <1>8, <1>9, <1>10, <1>11, <1>12, <1>13

-----------------------------------------------------------------------------
(***************************************************************************)
(* The node and the device.                                                *)
(***************************************************************************)

LEMMA NewValuesAre ==
    ASSUME node \in NodeType, NEW value \in NewValues
    PROVE  value \in DataValue /\ value.stamp = node.value.stamp + 1
<1>1. node.value.stamp + 1 \in Nat
    BY DEF NodeType, DataValue
<1> QED
    BY <1>1 DEF NewValues, DataValue

\* What the item is after a value that was recorded, or not, as the node became this old
Hears(i, j, stamp) ==
    /\ Good(j, stamp) /\ SameItem(i, j) /\ SameTimer(i, j) /\ j.sampling = i.sampling
    /\ j.latest <= stamp

LEMMA HeardIs ==
    ASSUME NEW i, NEW value \in NewValues, node \in NodeType, Good(i, node.value.stamp)
    PROVE  Hears(i, Heard(i, value), value.stamp)
<1> DEFINE r == Recorded(i, value, FALSE, node.version)
           stamp == value.stamp
<1>1. value \in DataValue /\ stamp = node.value.stamp + 1
    BY NewValuesAre
<1>2. node.value.stamp \in Nat /\ stamp \in Nat /\ node.version \in Nat
    BY <1>1 DEF NodeType, DataValue
<1>3. i.latest \in Nat /\ i.latest <= node.value.stamp
    BY DEF Good, Sound, Fits, ItemType, Dated
<1>4. node.value.stamp <= stamp /\ i.latest <= stamp /\ stamp <= stamp
    BY <1>1, <1>2, <1>3
<1>5. Good(i, stamp)
    <2> HIDE DEF stamp
    <2> QED
        BY <1>2, <1>4, GoodGrows
<1>6. Good(r, stamp) /\ Records(i, r, stamp)
    BY <1>1, <1>2, <1>4, <1>5, RecordedIs, Zenon
<1> HIDE DEF r
<1>7. Hears(i, r, stamp)
    BY <1>6 DEF Hears, Records
<1>8. Hears(i, i, stamp)
    BY <1>4, <1>5 DEF Hears, SameItem, SameTimer
<1> QED
    BY <1>7, <1>8 DEF Heard, r

LEMMA ValueChangesKeeps ==
    ASSUME IInv, ValueChanges
    PROVE  IInv'
<1>1. /\ Held(item, node, waiting, refreshing, immediates) /\ calls \in 0..MaxCalls
      /\ UNCHANGED <<waiting, refreshing, immediates, calls>> /\ item.kind # "event"
    BY DEF IInv, ValueChanges
<1>2. node \in NodeType /\ Good(item, node.value.stamp)
    BY <1>1 DEF Held
<1>3. PICK value \in NewValues :
          node' = [node EXCEPT !.value = value] /\ item' = Settled(Heard(item, value))
    BY DEF ValueChanges
<1> DEFINE h == Heard(item, value)
           j == Settled(h)
<1>4. value \in DataValue
    BY <1>2, NewValuesAre
<1>5. node' \in NodeType /\ node'.value.stamp = value.stamp /\ node'.exists = node.exists
    BY <1>2, <1>3, <1>4 DEF NodeType
<1>6. item' = j
    BY <1>3
<1>7. Hears(item, h, value.stamp)
    BY <1>2, HeardIs
<1> HIDE DEF h
<1>8. /\ Good(j, value.stamp) /\ ~j.thrown /\ SameItem(h, j) /\ SameTimer(h, j)
      /\ j.sampling = h.sampling
    BY <1>7, SettledIs DEF Hears
<1> HIDE DEF j
<1>9. SameItem(item, j) /\ j.timer = item.timer /\ j.sampling = item.sampling
    BY <1>7, <1>8 DEF Hears, SameItem, SameTimer
<1>10. Eventful(j, node')
    BY <1>1, <1>9 DEF Eventful, SameItem
<1>11. Held(j, node', waiting, refreshing, immediates)
    BY <1>1, <1>5, <1>8, <1>9, <1>10, HeldServes
<1> QED
    BY <1>1, <1>6, <1>11, HeldIsAll

\* An event is never refused: what could be marked, among events, is an event.
LEMMA EventIsTaken ==
    ASSUME NEW q \in Seq(Notification), NEW n \in Notification, NEW size \in Nat \ {0},
           NEW oldest \in BOOLEAN, Len(q) <= size, Plain(q), ~n.data
    PROVE  ~BitRefused(q, n, size, oldest)
<1> SUFFICES ASSUME Overflows(q, size), Announcer(q, n, oldest).data
             PROVE  FALSE
    BY DEF BitRefused
<1>1. oldest
    BY DEF Announcer
<1>2. q # <<>> /\ Len(q) = size /\ size > 1
    BY DEF Overflows
<1>3. Head(Tail(Append(q, n))) = q[2]
    BY <1>2
<1>4. q[2].data /\ 2 \in 1..Len(q)
    BY <1>1, <1>2, <1>3 DEF Announcer
<1> QED
    BY <1>4 DEF Plain

LEMMA EventRaisedKeeps ==
    ASSUME IInv, EventRaised
    PROVE  IInv'
<1> DEFINE stamp == node.value.stamp
           later == stamp + 1
           n == [stamp |-> later, status |-> {}, data |-> FALSE]
           j == EnqueueNotification(item, n)
<1>1. /\ Held(item, node, waiting, refreshing, immediates) /\ calls \in 0..MaxCalls
      /\ UNCHANGED <<waiting, refreshing, immediates, calls>> /\ item.kind = "event"
      /\ node.exists /\ node' = [node EXCEPT !.value.stamp = @ + 1]
      /\ (item' = j /\ item.listening) \/ item' = item
    BY DEF IInv, EventRaised
<1>2. /\ Good(item, stamp) /\ Sound(item) /\ Dated(item, stamp) /\ item \in ItemType
      /\ node \in NodeType /\ ~item.thrown /\ Plain(item.queue)
    BY <1>1 DEF Held, Good, Sound, Fits, Eventful
<1>3. stamp \in Nat /\ later \in Nat /\ stamp <= later
    BY <1>2 DEF NodeType, DataValue
<1>4. node' \in NodeType /\ node'.value.stamp = later /\ node'.exists = node.exists
    <2>1. node' = [node EXCEPT !.value = [node.value EXCEPT !.stamp = later]]
        BY <1>1, <1>2 DEF NodeType, DataValue
    <2>2. /\ [node.value EXCEPT !.stamp = later] \in DataValue
          /\ [node.value EXCEPT !.stamp = later].stamp = later
        BY <1>2, <1>3 DEF NodeType, DataValue
    <2> DEFINE v == [node.value EXCEPT !.stamp = later]
    <2> HIDE DEF v
    <2>3. [node EXCEPT !.value = v] \in NodeType /\ [node EXCEPT !.value = v].value = v
          /\ [node EXCEPT !.value = v].exists = node.exists
        BY <1>2, <2>2 DEF NodeType, v
    <2> QED
        BY <2>1, <2>2, <2>3 DEF v
<1>5. CASE item' = j /\ item.listening
    <2>1. n \in Notification /\ ~n.data /\ n.stamp = later
        BY <1>3 DEF Notification
    <2> HIDE DEF n
    <2>2. item.alive
        BY <1>2, <1>5 DEF Sound, Timed
    <2>3. item.latest \in Nat /\ item.latest <= stamp
        BY <1>2 DEF ItemType, Dated
    <2>4. item.queue # <<>> => item.latest <= n.stamp
        BY <1>3, <2>1, <2>3
    <2>5. Sound(j)
        BY <1>2, <2>1, <2>2, <2>4, EnqueueSound
    <2>6. /\ SameItem(item, j) /\ SameTimer(item, j) /\ j.sampling = item.sampling
          /\ j.old = item.old /\ j.queue # <<>>
        BY <1>2, <2>1, EnqueueFits DEF Sound
    <2>7. /\ j.queue = Enqueued(item.queue, n, item.size, item.oldest)
          /\ j.thrown = BitRefused(item.queue, n, item.size, item.oldest)
          /\ j.latest = later
        BY <1>2, <2>1, EnqueueIs DEF Sound
    <2> HIDE DEF j
    <2>8. /\ item.queue \in Seq(Notification) /\ item.size \in Nat \ {0}
          /\ item.oldest \in BOOLEAN /\ Len(item.queue) <= item.size
          /\ j.queue \in Seq(Notification)
        BY <1>2, <2>5, Constants DEF Sound, Fits, ItemType
    <2>9. ~BitRefused(item.queue, n, item.size, item.oldest)
        BY <1>2, <2>1, <2>8, EventIsTaken
    <2>10. ~j.thrown
        BY <2>7, <2>9
    <2>11. Plain(j.queue)
        <3>1. Extends(item.queue, n, j.queue)
            BY <2>1, <2>7, <2>8, <2>9, EnqueuedExtends
        <3> QED
            BY <1>2, <2>1, <2>6, <2>8, <3>1, ExtendsKeeps
    <2>12. Dated(j, later)
        <3>1. item.old # badDataUnavailable => item.old.stamp <= later
            <4>1. item.old.stamp \in Nat
                BY <1>2 DEF ItemType, DataValue
            <4> QED
                BY <1>2, <1>3, <4>1 DEF Dated
        <3> QED
            BY <1>1, <1>3, <2>6, <2>7, <3>1 DEF Dated, SameItem
    <2>13. Good(j, node'.value.stamp) /\ Eventful(j, node')
        BY <1>4, <2>5, <2>11, <2>12 DEF Good, Eventful
    <2>14. Held(j, node', waiting, refreshing, immediates)
        BY <1>1, <1>4, <2>6, <2>10, <2>13, HeldServes DEF SameTimer
    <2> QED
        BY <1>1, <1>5, <2>14, HeldIsAll
<1>6. CASE item' = item
    <2>1. Good(item, later)
        <3> HIDE DEF later, stamp
        <3> QED
            BY <1>2, <1>3, GoodGrows
    <2>2. Good(item, node'.value.stamp) /\ Eventful(item, node') /\ SameItem(item, item)
        BY <1>2, <1>4, <2>1 DEF Eventful, SameItem
    <2>3. Held(item, node', waiting, refreshing, immediates)
        BY <1>1, <1>2, <1>4, <2>2, HeldServes
    <2> QED
        BY <1>1, <1>6, <2>3, HeldIsAll
<1> QED
    BY <1>1, <1>5, <1>6

LEMMA SemanticsChangesKeeps ==
    ASSUME IInv, SemanticsChanges
    PROVE  IInv'
<1> DEFINE stamp == node.value.stamp
           r == Recorded(item, node.value, FALSE, node.version + 1)
           j == Settled(r)
<1>1. /\ Held(item, node, waiting, refreshing, immediates) /\ calls \in 0..MaxCalls
      /\ UNCHANGED <<waiting, refreshing, immediates, calls>> /\ item.kind = "value"
      /\ node' = [node EXCEPT !.version = @ + 1]
      /\ item' = j \/ item' = item
    BY DEF IInv, SemanticsChanges
<1>2. /\ Good(item, stamp) /\ node \in NodeType /\ ~item.thrown
    BY <1>1 DEF Held
<1>3. node.value \in DataValue /\ stamp \in Nat /\ node.version + 1 \in Nat
    BY <1>2 DEF NodeType, DataValue
<1>4. node' \in NodeType /\ node'.value.stamp = stamp /\ node'.exists = node.exists
    BY <1>1, <1>2, <1>3 DEF NodeType
<1>5. item.latest <= node.value.stamp /\ node.value.stamp <= stamp
    BY <1>2, <1>3 DEF Good, Dated
<1>6. Good(r, stamp) /\ Records(item, r, node.value.stamp)
    <2> DEFINE version == node.version + 1
    <2> HIDE DEF version
    <2>1. /\ Good(Recorded(item, node.value, FALSE, version), stamp)
          /\ Records(item, Recorded(item, node.value, FALSE, version), node.value.stamp)
        BY <1>2, <1>3, <1>5, RecordedIs, Zenon DEF version
    <2> QED
        BY <2>1 DEF version
<1> HIDE DEF r
<1>7. /\ Good(j, stamp) /\ ~j.thrown /\ SameItem(r, j) /\ SameTimer(r, j)
      /\ j.sampling = r.sampling
    BY <1>6, SettledIs
<1> HIDE DEF j
<1>8. SameItem(item, j) /\ j.timer = item.timer /\ j.sampling = item.sampling
    BY <1>6, <1>7 DEF Records, SameItem, SameTimer
<1>9. Held(j, node', waiting, refreshing, immediates)
    <2>1. Eventful(j, node')
        BY <1>1, <1>8 DEF Eventful, SameItem
    <2>2. Good(j, node'.value.stamp) /\ (node'.exists => node.exists)
        BY <1>4, <1>7
    <2>3. Held(item, node, waiting, refreshing, immediates)
        BY <1>1
    <2> QED
        BY <1>4, <1>7, <1>8, <2>1, <2>2, <2>3, HeldServes
<1>10. Held(item, node', waiting, refreshing, immediates)
    <2>1. Eventful(item, node') /\ SameItem(item, item)
        BY <1>1 DEF Eventful, SameItem
    <2>2. Good(item, node'.value.stamp) /\ (node'.exists => node.exists)
        BY <1>2, <1>4
    <2>3. Held(item, node, waiting, refreshing, immediates)
        BY <1>1
    <2> QED
        BY <1>2, <1>4, <2>1, <2>2, <2>3, HeldServes
<1> QED
    BY <1>1, <1>9, <1>10, HeldIsAll

\* Those who wait have been answered: nobody waits, and who was to get a timer has it.
LEMMA AllServed ==
    ASSUME NEW i, NEW nd, Held(item, nd, waiting, refreshing, immediates), refreshing,
           NEW nd2 \in NodeType, nd2.exists => nd.exists,
           Good(i, nd2.value.stamp), ~i.thrown, SameItem(item, i), SameTimer(item, i),
           i.latest <= nd2.value.stamp, NEW err \in BOOLEAN
    PROVE  Held(Settled(AllAnswered(i, waiting, nd2.value, err, nd2.version)), nd2,
                <<>>, FALSE, immediates)
<1> DEFINE stamp == nd2.value.stamp
           a == AllAnswered(i, waiting, nd2.value, err, nd2.version)
           j == Settled(a)
<1>1. nd2.value \in DataValue /\ stamp \in Nat /\ nd2.version \in Nat /\ stamp <= stamp
    BY DEF NodeType, DataValue
<1>2. waiting \in Seq(Callback) /\ item.kind = "value" /\ (ToldTimer(waiting) => Samples(item))
    BY DEF Held, Waits
<1>3. ToldTimer(waiting) => Samples(i)
    BY <1>2 DEF Samples, SameItem
<1>4. /\ Good(a, stamp) /\ Serves(i, a, stamp)
      /\ ToldTimer(waiting) /\ i.alive /\ a.failed = {} => a.timer # NoTimer
    BY <1>1, <1>2, <1>3, AllAnsweredIs, Zenon
<1> HIDE DEF a
<1>5. /\ Good(j, stamp) /\ ~j.thrown /\ SameItem(a, j) /\ SameTimer(a, j) /\ j.failed = a.failed
    BY <1>4, SettledIs
<1> SUFFICES Held(j, nd2, <<>>, FALSE, immediates)
    BY DEF a
<1> HIDE DEF j
<1>6. /\ SameItem(item, j) /\ (item.timer # NoTimer => j.timer # NoTimer)
      /\ ToldTimer(waiting) /\ j.alive /\ j.failed = {} => j.timer # NoTimer
    BY <1>4, <1>5 DEF Serves, SameItem, SameTimer
<1>7. Waits(j, <<>>, FALSE) /\ Single(j, <<>>, FALSE)
    <2>1. <<>> \in Seq(Callback)
        OBVIOUS
    <2> QED
        BY <2>1, NobodyWaits DEF Waits, Single
<1>8. Minded(j, nd2, <<>>, immediates)
    BY <1>6 DEF Held, Minded, SameItem
<1>9. Eventful(j, nd2)
    BY <1>2, <1>6 DEF Eventful, SameItem
<1> QED
    BY <1>5, <1>7, <1>8, <1>9 DEF Held

LEMMA DeviceAnswersKeeps ==
    ASSUME IInv, DeviceAnswers
    PROVE  IInv'
<1> DEFINE stamp == node.value.stamp
<1>1. /\ Held(item, node, waiting, refreshing, immediates) /\ calls \in 0..MaxCalls
      /\ UNCHANGED <<immediates, calls>> /\ refreshing /\ refreshing' = FALSE
    BY DEF IInv, DeviceAnswers
<1>2. Good(item, stamp) /\ node \in NodeType /\ ~item.thrown /\ SameItem(item, item)
      /\ SameTimer(item, item) /\ item.latest <= stamp
    BY <1>1 DEF Held, Good, Dated, SameItem, SameTimer
<1>3. CASE /\ item' = Settled(AllAnswered(item, waiting, node.value, FALSE, node.version))
           /\ waiting' = <<>> /\ UNCHANGED node
    <2>1. Held(Settled(AllAnswered(item, waiting, node.value, FALSE, node.version)), node,
               <<>>, FALSE, immediates)
        BY <1>1, <1>2, AllServed, Zenon
    <2> QED
        BY <1>1, <1>3, <2>1, HeldIsAll
<1>4. ASSUME NEW value \in NewValues, NEW err \in BOOLEAN,
             node' = [node EXCEPT !.value = value],
             waiting' = IF Heard(item, value).thrown THEN waiting ELSE <<>>,
             item' = Settled(IF Heard(item, value).thrown THEN Heard(item, value)
                             ELSE AllAnswered(Heard(item, value), waiting, value, err, node.version))
      PROVE  IInv'
    <2> DEFINE h == Heard(item, value)
    <2>1. value \in DataValue
        BY <1>2, NewValuesAre
    <2>2. /\ node' \in NodeType /\ node'.value = value /\ node'.exists = node.exists
          /\ node'.version = node.version
        BY <1>2, <1>4, <2>1 DEF NodeType
    <2>3. Hears(item, h, value.stamp)
        BY <1>2, HeardIs
    <2>4. /\ waiting' = IF h.thrown THEN waiting ELSE <<>>
          /\ item' = Settled(IF h.thrown THEN h
                             ELSE AllAnswered(h, waiting, value, err, node.version))
        BY <1>4
    <2> HIDE DEF h
    <2>5. CASE h.thrown
        <3> DEFINE j == Settled(h)
        <3>1. item' = j /\ waiting' = waiting
            BY <2>4, <2>5
        <3>2. /\ Good(j, value.stamp) /\ ~j.thrown /\ SameItem(h, j) /\ SameTimer(h, j)
              /\ j.sampling = h.sampling /\ j.failed = h.failed
            BY <2>3, SettledIs DEF Hears
        <3> HIDE DEF j
        <3>3. SameItem(item, j) /\ j.sampling = item.sampling /\ j.failed # {}
            BY <2>3, <2>5, <3>2 DEF Hears, SameItem, Good, Sound, Blamed
        <3>4. /\ Waits(item, waiting, refreshing) /\ refreshing \in BOOLEAN
              /\ immediates \in Seq(Immediate)
            BY <1>1 DEF Held, Waits
        <3>5. Waits(j, waiting, FALSE) /\ Single(j, waiting, FALSE)
            BY <3>3, <3>4 DEF Waits, Single, Samples, SameItem
        <3>6. Minded(j, node', waiting, immediates)
            BY <3>3 DEF Minded
        <3>7. Eventful(j, node')
            BY <1>1, <3>3, <3>4 DEF Waits, Eventful, SameItem
        <3>8. Held(j, node', waiting, FALSE, immediates)
            BY <2>2, <3>2, <3>4, <3>5, <3>6, <3>7 DEF Held
        <3> QED
            BY <1>1, <3>1, <3>8, HeldIsAll
    <2>6. CASE ~h.thrown
        <3>1. /\ item' = Settled(AllAnswered(h, waiting, node'.value, err, node'.version))
              /\ waiting' = <<>>
            BY <2>2, <2>4, <2>6
        <3>2. /\ Good(h, node'.value.stamp) /\ SameItem(item, h) /\ SameTimer(item, h)
              /\ h.latest <= node'.value.stamp
            BY <2>2, <2>3 DEF Hears
        <3>3. Held(Settled(AllAnswered(h, waiting, node'.value, err, node'.version)), node',
                   <<>>, FALSE, immediates)
            BY <1>1, <2>2, <2>6, <3>2, AllServed
        <3> QED
            BY <1>1, <3>1, <3>3, HeldIsAll
    <2> QED
        BY <2>5, <2>6
<1> QED
    BY <1>3, <1>4 DEF DeviceAnswers

LEMMA NodeDisposedKeeps ==
    ASSUME IInv, NodeDisposed
    PROVE  IInv'
<1> DEFINE stamp == node.value.stamp
           gone == [stamp |-> stamp, class |-> 0, status |-> {"gone"}]
           told == Recorded(item, gone, FALSE, node.version)
           s == Stopped(told)
<1>1. /\ Held(item, node, waiting, refreshing, immediates) /\ calls \in 0..MaxCalls
      /\ UNCHANGED <<waiting, refreshing, immediates, calls>>
      /\ node' = [node EXCEPT !.exists = FALSE]
      /\ \/ item' = item
         \/ item' = Settled(told)
         \/ item' = s /\ ~told.thrown
    BY DEF IInv, NodeDisposed
<1>2. Good(item, stamp) /\ node \in NodeType /\ ~item.thrown
    BY <1>1 DEF Held
<1>3. stamp \in Nat /\ node.version \in Nat
    BY <1>2 DEF NodeType, DataValue
<1>4. gone \in DataValue /\ gone.stamp = stamp
    BY <1>3 DEF DataValue
<1>5. item.latest <= gone.stamp /\ gone.stamp <= stamp
    BY <1>2, <1>3, <1>4 DEF Good, Dated
<1>6. node' \in NodeType /\ node'.value.stamp = stamp /\ ~node'.exists
    BY <1>1, <1>2 DEF NodeType
<1> HIDE DEF gone
<1>7. Good(told, stamp) /\ Records(item, told, gone.stamp)
    BY <1>2, <1>3, <1>4, <1>5, RecordedIs, Zenon
<1> HIDE DEF told
<1>8. \A j : Eventful(j, node')
    BY <1>6 DEF Eventful
<1>9. CASE item' = item
    <2>1. SameItem(item, item)
        BY DEF SameItem
    <2>2. Held(item, node', waiting, refreshing, immediates)
        BY <1>1, <1>2, <1>6, <1>8, <2>1, HeldServes
    <2> QED
        BY <1>1, <1>9, <2>2, HeldIsAll
<1>10. CASE item' = Settled(told)
    <2> DEFINE j == Settled(told)
    <2>1. /\ Good(j, stamp) /\ ~j.thrown /\ SameItem(told, j) /\ SameTimer(told, j)
          /\ j.sampling = told.sampling
        BY <1>7, SettledIs
    <2>2. item' = j
        BY <1>10
    <2> HIDE DEF j
    <2>3. SameItem(item, j) /\ j.timer = item.timer /\ j.sampling = item.sampling
        BY <1>7, <2>1 DEF Records, SameItem, SameTimer
    <2>4. Held(j, node', waiting, refreshing, immediates)
        BY <1>1, <1>6, <1>8, <2>1, <2>3, HeldServes
    <2> QED
        BY <1>1, <2>2, <2>4, HeldIsAll
<1>11. CASE item' = s /\ ~told.thrown
    <2>1. Good(s, stamp) /\ Stops(told, s)
        BY <1>7, StoppedIs
    <2> HIDE DEF s
    <2>2. /\ s.kind = item.kind /\ s.interval = item.interval /\ ~s.listening /\ ~s.thrown
          /\ s.sampling = item.sampling
        BY <1>7, <1>11, <2>1 DEF Stops, Records, SameItem
    <2>3. Waits(s, waiting, refreshing) /\ Single(s, waiting, refreshing)
        BY <1>1, <2>2 DEF Held, Waits, Single, Samples
    <2>4. Minded(s, node', waiting, immediates)
        BY <1>6 DEF Minded
    <2>5. Held(s, node', waiting, refreshing, immediates)
        BY <1>1, <1>6, <1>8, <2>1, <2>2, <2>3, <2>4 DEF Held
    <2> QED
        BY <1>1, <1>11, <2>5, HeldIsAll
<1> QED
    BY <1>1, <1>9, <1>10, <1>11

-----------------------------------------------------------------------------
(***************************************************************************)
(* The theorems.                                                           *)
(***************************************************************************)

LEMMA InitIsGood == Init => IInv
<1> SUFFICES ASSUME Init
             PROVE  IInv
    OBVIOUS
<1>1. /\ item \in [kind : Kinds, mode : {"Invalid"}, interval : Intervals, size : QueueSizes,
                   oldest : BOOLEAN, filter : Filters, alive : {TRUE}, timer : {NoTimer},
                   registered : {{}}, listening : {FALSE}, sampling : {FALSE},
                   old : {badDataUnavailable}, queue : {<<>>}, triggered : {<<>>},
                   version : {0}, thrown : {FALSE}, failed : {{}}, made : {0}, latest : {0},
                   seen : {0}, resent : {FALSE}]
      /\ node = [value |-> [stamp |-> 0, class |-> 0, status |-> {}], version |-> 0, exists |-> TRUE]
      /\ waiting = <<>> /\ refreshing = FALSE /\ immediates = <<>> /\ calls = 0
    BY DEF Init
<1>2. node \in NodeType /\ node.value.stamp = 0
    BY <1>1 DEF NodeType, DataValue
<1>3. <<>> \in Seq(Notification) /\ <<>> \in Seq(Callback) /\ <<>> \in Seq(Immediate)
    OBVIOUS
<1>4. item \in ItemType
    <2> DEFINE none == <<>>
    <2>1. item \in [kind : Kinds, mode : {"Invalid"}, interval : Intervals, size : QueueSizes,
                    oldest : BOOLEAN, filter : Filters, alive : {TRUE}, timer : {NoTimer},
                    registered : {{}}, listening : {FALSE}, sampling : {FALSE},
                    old : {badDataUnavailable}, queue : {none}, triggered : {none},
                    version : {0}, thrown : {FALSE}, failed : {{}}, made : {0}, latest : {0},
                    seen : {0}, resent : {FALSE}]
        BY <1>1
    <2>2. none \in Seq(Notification)
        BY <1>3
    <2> HIDE DEF none
    <2> DEFINE old == badDataUnavailable
    <2>3. old \in DataValue
        BY Constants
    <2> HIDE DEF old
    <2> DEFINE made(kind, interval, size, oldest, filter) ==
                   [kind |-> kind, mode |-> "Invalid", interval |-> interval,
                    size |-> size, oldest |-> oldest, filter |-> filter,
                    alive |-> TRUE, timer |-> NoTimer, registered |-> {}, listening |-> FALSE,
                    sampling |-> FALSE, old |-> old, queue |-> none, triggered |-> none,
                    version |-> 0, thrown |-> FALSE, failed |-> {}, made |-> 0, latest |-> 0,
                    seen |-> 0, resent |-> FALSE]
    <2>4. /\ item = made(item.kind, item.interval, item.size, item.oldest, item.filter)
          /\ item.kind \in Kinds /\ item.interval \in Intervals /\ item.size \in QueueSizes
          /\ item.oldest \in BOOLEAN /\ item.filter \in Filters
        BY <2>1 DEF old
    <2>5. ASSUME NEW kind \in Kinds, NEW interval \in Intervals, NEW size \in QueueSizes,
                 NEW oldest \in BOOLEAN, NEW filter \in Filters
          PROVE  made(kind, interval, size, oldest, filter) \in ItemType
        BY <2>2, <2>3 DEF ItemType
    <2> HIDE DEF made
    <2> QED
        BY <2>4, <2>5
<1>5. /\ item.queue = <<>> /\ item.mode = "Invalid" /\ item.registered = {}
      /\ item.timer = NoTimer /\ item.alive /\ item.old = badDataUnavailable
      /\ item.thrown = FALSE /\ item.made = 0 /\ item.latest = 0
    BY <1>1
<1>6. Len(item.queue) = 0 /\ item.size \in Nat
    BY <1>4, <1>5, Constants DEF ItemType
<1>7. Fits(item)
    BY <1>4, <1>6 DEF Fits
<1>8. Timed(item)
    BY <1>5 DEF Timed
<1>9. Latest(item) /\ Announced(item)
    BY <1>5, <1>6 DEF Latest, Announced, Sorted
<1>10. Blamed(item) /\ Dated(item, node.value.stamp)
    BY <1>2, <1>5 DEF Blamed, Dated
<1>11. Waits(item, waiting, refreshing) /\ Single(item, waiting, refreshing)
    BY <1>1, <1>3, NobodyWaits DEF Waits, Single
<1>12. Minded(item, node, waiting, immediates)
    BY <1>5 DEF Minded
<1>13. Eventful(item, node)
    BY <1>5, EmptyIsPlain
<1>14. Held(item, node, waiting, refreshing, immediates)
    BY <1>1, <1>2, <1>3, <1>5, <1>7, <1>8, <1>9, <1>10, <1>11, <1>12, <1>13 DEF Held, Good, Sound
<1> QED
    BY <1>1, <1>14, ItemAssumption DEF IInv

LEMMA NextKept == IInv /\ [Next]_vars => IInv'
<1> SUFFICES ASSUME IInv, [Next]_vars
             PROVE  IInv'
    OBVIOUS
<1>1. CASE Services
    <2>1. CASE \E mode \in {"Disabled", "Sampling", "Reporting"} : SetMonitoringMode(mode)
        BY <2>1, SetMonitoringModeKeeps
    <2>2. CASE \E interval \in Intervals, size \in QueueSizes, oldest \in BOOLEAN, filter \in Filters :
                  Modify(interval, size, oldest, filter)
        BY <2>2, ModifyKeeps
    <2> QED
        BY <1>1, <2>1, <2>2, RemoveMonitoredItemKeeps, ResendInitialValueKeeps, HarvestKeeps,
           TriggerKeeps DEF Services
<1>2. CASE TimerFires
    BY <1>2, TimerFiresKeeps
<1>3. CASE RunImmediate
    BY <1>3, RunSampleKeeps, RunStartKeeps, RunTriggerKeeps DEF RunImmediate
<1>4. CASE DeviceAnswers
    BY <1>4, DeviceAnswersKeeps
<1>5. CASE Changes
    BY <1>5, ValueChangesKeeps, EventRaisedKeeps, SemanticsChangesKeeps, NodeDisposedKeeps
       DEF Changes
<1>6. CASE UNCHANGED vars
    BY <1>6 DEF vars, IInv
<1> QED
    BY <1>1, <1>2, <1>3, <1>4, <1>5, <1>6 DEF Next

\* The inductive invariant of an item, its node, its timer and those who wait for the device
\* (monitored_item.ts, node_sampler.ts, readValueAsync of ua_variable_impl.ts).
THEOREM ItemInvariance == Spec => []IInv
<1> QED
    BY InitIsGood, NextKept, PTL DEF Spec

\* Queues stay within their size, a common timer holds an item under an interval of its own,
\* callbacks are of a known kind, and what an assertion throws does not outlive its callback.
THEOREM ItemTyped == Spec => []TypeOK
<1>1. IInv => TypeOK
    <2> SUFFICES ASSUME IInv
                 PROVE  TypeOK
        OBVIOUS
    <2>1. /\ item \in ItemType /\ Len(item.queue) <= item.size /\ ~item.thrown
          /\ node \in NodeType /\ waiting \in Seq(Callback) /\ refreshing \in BOOLEAN
          /\ immediates \in Seq(Immediate) /\ calls \in 0..MaxCalls
        BY DEF IInv, Held, Good, Sound, Fits, Waits
    <2>2. item.thrown = FALSE
        BY <2>1 DEF ItemType
    <2> QED
        BY <2>1, <2>2 DEF TypeOK, ItemType, NodeType, Callback, Immediate
<1> QED
    BY <1>1, ItemInvariance, PTL

\* An enabled item listens, has a timer, or is about to be started or given one; the common timers
\* hold it under the one key it remembers (appendToTimer, removeFromTimer), and one reading for the
\* timer waits for the device at a time ("sampling func shall not be re-entrant").
THEOREM ItemAttended == Spec => []Attended
<1>1. IInv => Attended
    <2> SUFFICES ASSUME IInv
                 PROVE  Attended
        OBVIOUS
    <2>1. /\ Timed(item) /\ Single(item, waiting, refreshing)
          /\ Minded(item, node, waiting, immediates)
          /\ waiting \in Seq(Callback) /\ immediates \in Seq(Immediate)
        BY DEF IInv, Held, Good, Sound, Waits
    <2>2. DOMAIN waiting = 1..Len(waiting) /\ DOMAIN immediates = 1..Len(immediates)
        BY <2>1
    <2>3. NoReentrance
        BY <2>1, <2>2 DEF Single, NoReentrance
    <2>4. TimerKnown
        BY <2>1 DEF Timed, TimerKnown
    <2>5. Active /\ item.failed = {} =>
              \/ item.listening \/ item.timer # NoTimer
              \/ Starting
              \/ \E n \in DOMAIN waiting : waiting[n] = "first then timer"
        BY <2>1, <2>2 DEF Minded, Active, Starting, Started, ToldTimer
    <2> QED
        BY <2>3, <2>4, <2>5 DEF Attended
<1> QED
    BY <1>1, ItemInvariance, PTL

\* Whatever _enqueue_notification and _adjust_queue_to_match_new_queue_size discard, the queue is
\* in the order in which its notifications were made, and ends with the latest.
THEOREM LatestKept == Spec => []QueueHoldsLatest
<1>1. IInv => QueueHoldsLatest
    <2> SUFFICES ASSUME IInv, item.queue # <<>>, item.failed = {}
                 PROVE  /\ \A m, n \in DOMAIN item.queue :
                              m < n => item.queue[m].stamp <= item.queue[n].stamp
                        /\ item.queue[Len(item.queue)].stamp = item.latest
        BY DEF QueueHoldsLatest
    <2>1. Latest(item) /\ item.queue \in Seq(Notification)
        BY DEF IInv, Held, Good, Sound, Fits, ItemType
    <2>2. DOMAIN item.queue = 1..Len(item.queue)
        BY <2>1
    <2> QED
        BY <2>1, <2>2 DEF Latest, Sorted
<1> QED
    BY <1>1, ItemInvariance, PTL

\* A queue of more than one that has dropped data since it was taken or resized bears the
\* overflow bit (_setOverflowBit), through everything that was added after the first loss.
THEOREM LossesAnnounced == Spec => []LossAnnounced
<1>1. IInv => LossAnnounced
    <2> SUFFICES ASSUME IInv
                 PROVE  LossAnnounced
        OBVIOUS
    <2>1. Announced(item) /\ item.queue \in Seq(Notification)
        BY DEF IInv, Held, Good, Sound, Fits, ItemType
    <2>2. DOMAIN item.queue = 1..Len(item.queue)
        BY <2>1
    <2> QED
        BY <2>1, <2>2 DEF Announced, LossAnnounced
<1> QED
    BY <1>1, ItemInvariance, PTL
=============================================================================
