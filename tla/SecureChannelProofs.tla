------------------------- MODULE SecureChannelProofs -------------------------
(***************************************************************************)
(* A secure channel keeps the invariant IInv, which implies what the run   *)
(* checks of its states, and implements RemoteCalls.                       *)
(*                                                                         *)
(* That tokens overlap (TokensHonoured) is about the stacks of both ends,  *)
(* which drop a token only when it has expired (Stacks), and about each    *)
(* message under way, whose token the other end has kept and whose keys    *)
(* are of that token for as long as it lives (Up, Down). The parts of the  *)
(* invariant are predicates of the records and the time, so that a step is *)
(* seen as a change of records.                                            *)
(***************************************************************************)
EXTENDS SecureChannelProperties, SequencePickProofs, SequenceTheorems

-----------------------------------------------------------------------------
(***************************************************************************)
(* Types.                                                                  *)
(***************************************************************************)
Who == Transactions \cup {"create", "renew", "close"}

Waiting == [type : {"OPN", "MSG", "CLO"}, id : Nat \ {0}, who : Who, start : Nat]

Envelope == [type : {"OPN", "MSG", "CLO", "ERR", "END"}, id : Nat, who : Who,
             token : Nat, key : Nat, start : Nat]

StackToken == [id : Nat, date : Nat]

Client == [transport : {"open", "ending", "closed"}, opened : BOOLEAN, active : Nat,
           tokens : Seq(StackToken), renewal : Nat, requests : SUBSET Waiting, lastId : Nat,
           deaf : BOOLEAN, create : {"connected", "pending", "done", "failed"},
           close : {"no", "asked", "transport", "done"}]

Server == [status : {"waiting", "connecting", "open", "refusing", "refused", "closed"},
           aborted : BOOLEAN, secured : BOOLEAN, tokens : Seq(StackToken),
           checking : SUBSET Envelope, held : SUBSET Envelope, asked : Seq(Nat),
           taken : SUBSET Transactions]

TypeInv ==
    /\ now \in 0 .. MaxTime /\ secured \in BOOLEAN
    /\ client \in Client /\ server \in Server
    /\ toServer \in Seq(Envelope) /\ toClient \in Seq(Envelope)
    /\ calls \in [Transactions -> {"idle", "pending", "answered", "failed"}]

-----------------------------------------------------------------------------
(***************************************************************************)
(* Tokens, at the time t.                                                  *)
(***************************************************************************)
Late(token, t) == 4 * (2 * t - token.date) > 10 * Lifetime

Has(stack, t, id) == \E i \in 1 .. Len(stack) : stack[i].id = id /\ ~Late(stack[i], t)

\* Alive, when the requests of the tokens were made at the times asked
Lives(asked, t, id) == id > 0 /\ 4 * (t - asked[id]) <= 5 * Lifetime

Knows(stack, asked, t, id) == Lives(asked, t, id) => Has(stack, t, id)

\* A stack names tokens that were issued, dated after they were asked for.
Dated(stack, asked, t) ==
    \A i \in 1 .. Len(stack) : /\ stack[i].id \in 1 .. Len(asked)
                               /\ 2 * asked[stack[i].id] <= stack[i].date
                               /\ stack[i].date <= 2 * t

Stacks(c, s, t) ==
    /\ \A id \in 1 .. Len(s.asked) : s.asked[id] <= t
    /\ Dated(s.tokens, s.asked, t) /\ Dated(c.tokens, s.asked, t)
    /\ \A id \in 1 .. Len(s.asked) : Knows(s.tokens, s.asked, t, id)
    /\ c.active <= Len(s.asked) /\ Knows(c.tokens, s.asked, t, c.active)

-----------------------------------------------------------------------------
(***************************************************************************)
(* Who waits at the client c when the transactions are as k says.          *)
(***************************************************************************)
Asks(type, who) ==
    \/ type = "OPN" /\ who \in {"create", "renew"}
    \/ type = "MSG" /\ who \in Transactions
    \/ type = "CLO" /\ who = "close"

\* A request in the table is waited for.
Awaited(r, c, k) ==
    /\ Asks(r.type, r.who) /\ r.id <= c.lastId
    /\ r.who \in Transactions => k[r.who] = "pending"
    /\ r.who = "create" => c.create = "pending"
    /\ r.who = "close" => c.close = "asked"
    /\ r.type = "OPN" => c.renewal = None /\ c.close = "no"

\* One id, one who waits, and one OpenSecureChannel at a time
Apart(R) ==
    \A r, q \in R :
        (r.id = q.id \/ r.who = q.who \/ (r.type = "OPN" /\ q.type = "OPN")) => r = q

\* Nobody waits for what is not in the table.
Attended(c, k) ==
    /\ \A t \in Transactions : k[t] = "pending" => \E r \in c.requests : r.who = t
    /\ c.close = "asked" => c.opened /\ \E r \in c.requests : r.who = "close"

Phases(c) ==
    /\ c.create = "connected" => c.requests = {} /\ c.renewal = None /\ ~c.opened
    /\ c.renewal # None => IsValid(c) /\ c.opened /\ c.close = "no"
    /\ c.close \in {"transport", "done"} => ~IsValid(c)
    /\ c.transport = "closed" =>
          c.requests = {} /\ c.create # "pending" /\ c.close \in {"no", "done"}

Waits(c, k) ==
    /\ \A r \in c.requests : Awaited(r, c, k)
    /\ Apart(c.requests) /\ Attended(c, k) /\ Phases(c)

-----------------------------------------------------------------------------
(***************************************************************************)
(* Messages under way.                                                     *)
(***************************************************************************)
\* If the request of m is still in the table of c, it is this one.
Fits(m, c, start) ==
    /\ m.id <= c.lastId
    /\ \A r \in c.requests :
          r.id = m.id => /\ r.type = m.type /\ r.who = m.who
                         /\ m.type = "OPN" => r.start = start

\* A message is secured with the token it names as long as that lives.
Sealed(m, asked, t, sec) == sec /\ Lives(asked, t, m.token) => m.key = m.token

\* To the server, or held by it
Up(m, c, s, t, sec) ==
    /\ m \in Envelope
    /\ Asks(m.type, m.who) \/ (m.type = "END" /\ m.who = "close")
    /\ m.start <= t /\ m.token <= Len(s.asked) /\ m.key <= Len(s.asked)
    /\ Fits(m, c, m.start)
    /\ m.type \in {"MSG", "CLO"} => /\ Knows(c.tokens, s.asked, t, m.token)
                                    /\ Sealed(m, s.asked, t, sec)

\* To the client
Down(m, c, s, t) ==
    /\ m \in Envelope
    /\ m.type \in {"OPN", "MSG", "ERR", "END"}
    /\ m.start = 0 /\ m.token <= Len(s.asked) /\ m.key <= Len(s.asked)
    /\ m.type \in {"OPN", "MSG"} => Asks(m.type, m.who) /\ Fits(m, c, s.asked[m.token])
    /\ m.type = "OPN" => m.token >= 1
    /\ m.type = "MSG" => /\ m.who \in s.taken
                         /\ Knows(c.tokens, s.asked, t, m.token)
                         /\ Sealed(m, s.asked, t, s.secured)

UnderWay(c, s, ups, downs, t, sec) ==
    /\ \A m \in ups : Up(m, c, s, t, sec)
    /\ \A m \in s.checking : Up(m, c, s, t, sec) /\ m.type = "OPN"
    /\ \A m \in s.held : Up(m, c, s, t, sec) /\ m.type = "MSG" /\ m.who \in s.taken
    /\ \A m \in downs : Down(m, c, s, t)
    /\ s.secured => sec

-----------------------------------------------------------------------------
(***************************************************************************)
(* A transaction is on its way to the server once at most, and not after   *)
(* the server has taken it.                                                *)
(***************************************************************************)
Once(w, taken, k) ==
    /\ \A i, j \in 1 .. Len(w) : (w[i].who \in Transactions /\ w[i].who = w[j].who) => i = j
    /\ \A i \in 1 .. Len(w) :
          w[i].who \in Transactions => /\ w[i].who \notin taken
                                       /\ k[w[i].who] \in {"pending", "failed"}
    /\ \A t \in taken : k[t] # "idle"

IInv ==
    /\ TypeInv
    /\ Stacks(client, server, now)
    /\ Waits(client, calls)
    /\ UnderWay(client, server, Carried(toServer), Carried(toClient), now, secured)
    /\ Once(toServer, server.taken, calls)

-----------------------------------------------------------------------------
(***************************************************************************)
(* Stacks of tokens.                                                       *)
(***************************************************************************)
\* What the proofs use of ChannelAssumption.
LEMMA Constants ==
    /\ Lifetime \in Nat /\ Lifetime >= 4 /\ MaxTime \in Nat
    /\ "create" \notin Transactions /\ "renew" \notin Transactions /\ "close" \notin Transactions
BY ChannelAssumption

\* removeOldTokens keeps the tokens that have not expired, and no others.
LEMMA KeptIs ==
    ASSUME NEW stack \in Seq(StackToken), now \in Nat
    PROVE  /\ Kept(stack) \in Seq(StackToken)
           /\ \A k \in 1 .. Len(Kept(stack)) : \E i \in 1 .. Len(stack) : Kept(stack)[k] = stack[i]
           /\ \A i \in 1 .. Len(stack) :
                 ~Late(stack[i], now) => \E k \in 1 .. Len(Kept(stack)) : Kept(stack)[k] = stack[i]
<1> DEFINE K == {i \in DOMAIN stack : ~Expired(stack[i])}
           v == Pick(stack, K)
<1>1. K \in SUBSET (1 .. Len(stack)) /\ K \in SUBSET Int /\ Kept(stack) = v
    BY DEF Kept
<1>2. IsFiniteSet(K)
    <2>1. IsFiniteSet(1 .. Len(stack))
        BY FS_Interval
    <2> QED
        BY <1>1, <2>1, FS_Subset
<1>3. \A i \in 1 .. Len(stack) : i \in K <=> ~Late(stack[i], now)
    BY DEF Expired, Late
<1> HIDE DEF K
<1>4. v \in Seq(StackToken) /\ Len(v) = Cardinality(K)
    BY <1>1, PickProperties
<1>5. \A k \in 1 .. Len(v) : \E i \in K : v[k] = stack[i] /\ Rank(K, i) = k
    BY <1>1, <1>4, PickRank
<1>6. ASSUME NEW i \in 1 .. Len(stack), ~Late(stack[i], now)
      PROVE  \E k \in 1 .. Len(v) : v[k] = stack[i]
    <2>1. i \in K
        BY <1>3, <1>6
    <2>2. Rank(K, i) \in 1 .. Len(v)
        BY <1>1, <1>2, <1>4, <2>1, RankInRange
    <2>3. PICK j \in K : v[Rank(K, i)] = stack[j] /\ Rank(K, j) = Rank(K, i)
        BY <1>5, <2>2
    <2>4. j = i
        BY <1>1, <1>2, <2>1, <2>3, RankUnique
    <2> QED
        BY <2>2, <2>3, <2>4
<1> HIDE DEF v
<1> QED
    BY <1>1, <1>4, <1>5, <1>6

\* pushNewToken: the new token, and what has not expired.
Extends(v, stack, token, t) ==
    /\ v \in Seq(StackToken)
    /\ \A k \in 1 .. Len(v) : v[k] = token \/ \E i \in 1 .. Len(stack) : v[k] = stack[i]
    /\ \E k \in 1 .. Len(v) : v[k] = token
    /\ \A i \in 1 .. Len(stack) :
          ~Late(stack[i], t) => \E k \in 1 .. Len(v) : v[k] = stack[i]

LEMMA PushedIs ==
    ASSUME NEW stack \in Seq(StackToken), now \in Nat, NEW token \in StackToken
    PROVE  Extends(Pushed(stack, token), stack, token, now)
<1> DEFINE u == Kept(stack)
           v == Pushed(stack, token)
<1>1. /\ u \in Seq(StackToken)
      /\ \A k \in 1 .. Len(u) : \E i \in 1 .. Len(stack) : u[k] = stack[i]
      /\ \A i \in 1 .. Len(stack) :
            ~Late(stack[i], now) => \E k \in 1 .. Len(u) : u[k] = stack[i]
    BY KeptIs
<1>2. v = Append(u, token)
    BY DEF Pushed
<1> HIDE DEF u, v
<1>3. /\ v \in Seq(StackToken) /\ Len(v) = Len(u) + 1 /\ v[Len(u) + 1] = token
      /\ \A k \in 1 .. Len(u) : v[k] = u[k]
    BY <1>1, <1>2
<1>4. Len(u) \in Nat
    BY <1>1
<1>5. \A k \in 1 .. Len(v) : k \in 1 .. Len(u) \/ k = Len(u) + 1
    BY <1>3, <1>4
<1>6. \A k \in 1 .. Len(u) : k \in 1 .. Len(v)
    BY <1>3, <1>4
<1>7. Len(u) + 1 \in 1 .. Len(v)
    BY <1>3, <1>4
<1> HIDE DEF Late
<1>8. ASSUME NEW k \in 1 .. Len(v)
      PROVE  v[k] = token \/ \E i \in 1 .. Len(stack) : v[k] = stack[i]
    <2>1. CASE k \in 1 .. Len(u)
        BY <1>1, <1>3, <2>1
    <2>2. CASE k = Len(u) + 1
        BY <1>3, <2>2
    <2> QED
        BY <1>5, <2>1, <2>2
<1>9. ASSUME NEW i \in 1 .. Len(stack), ~Late(stack[i], now)
      PROVE  \E k \in 1 .. Len(v) : v[k] = stack[i]
    <2>1. PICK k \in 1 .. Len(u) : u[k] = stack[i]
        BY <1>1, <1>9
    <2>2. k \in 1 .. Len(v) /\ v[k] = stack[i]
        BY <1>3, <1>6, <2>1
    <2> QED
        BY <2>2
<1>10. Extends(v, stack, token, now)
    BY <1>3, <1>7, <1>8, <1>9 DEF Extends
<1> QED
    BY <1>10 DEF v

\* getLatestTokenDerivedKeys: the keys of a token in the stack, or none.
LEMMA LatestIs ==
    ASSUME NEW stack \in Seq(StackToken), now \in Nat
    PROVE  LatestKeys(stack) = None \/ \E i \in 1 .. Len(stack) : LatestKeys(stack) = stack[i].id
<1> DEFINE u == Kept(stack)
<1>1. u \in Seq(StackToken) /\ \A k \in 1 .. Len(u) : \E i \in 1 .. Len(stack) : u[k] = stack[i]
    BY KeptIs
<1>2. LatestKeys(stack) = IF u = <<>> THEN None ELSE u[Len(u)].id
    BY DEF LatestKeys
<1> HIDE DEF u
<1>3. u # <<>> => Len(u) \in 1 .. Len(u)
    BY <1>1
<1> QED
    BY <1>1, <1>2, <1>3

\* The operators of the model, at the time it is.
LEMMA HasIs ==
    ASSUME NEW stack \in Seq(StackToken), NEW id
    PROVE  HasKeys(stack, id) <=> Has(stack, now, id)
BY DEF HasKeys, Has, Expired, Late

LEMMA AliveIs ==
    ASSUME NEW id
    PROVE  Alive(id) <=> Lives(server.asked, now, id)
BY DEF Alive, Lives

\* A token dated after it was asked for is not late while it lives.
LEMMA LiveIsNotLate ==
    ASSUME NEW asked \in Seq(Nat), NEW t \in Nat, NEW token \in StackToken,
           token.id \in 1 .. Len(asked), 2 * asked[token.id] <= token.date,
           Lives(asked, t, token.id)
    PROVE  ~Late(token, t)
<1> DEFINE a == asked[token.id]
           d == token.date
<1>1. a \in Nat /\ d \in Nat /\ Lifetime \in Nat
    BY Constants DEF StackToken
<1>2. 4 * (t - a) <= 5 * Lifetime /\ 2 * a <= d
    BY DEF Lives
<1>3. Late(token, t) <=> 4 * (2 * t - d) > 10 * Lifetime
    BY DEF Late
<1> HIDE DEF a, d
<1>4. ~(4 * (2 * t - d) > 10 * Lifetime)
    BY <1>1, <1>2
<1> QED
    BY <1>3, <1>4

\* A token that was issued stays as it is when another one is.
LEMMA LivesAppended ==
    ASSUME NEW asked \in Seq(Nat), NEW a \in Nat, NEW t \in Nat, NEW id \in Nat, id <= Len(asked)
    PROVE  Lives(Append(asked, a), t, id) <=> Lives(asked, t, id)
<1>1. CASE id = 0
    BY <1>1 DEF Lives
<1>2. CASE id # 0
    <2>1. id \in 1 .. Len(asked)
        BY <1>2
    <2>2. Append(asked, a)[id] = asked[id]
        BY <2>1
    <2> QED
        BY <2>2 DEF Lives
<1> QED
    BY <1>1, <1>2

LEMMA DatedAppended ==
    ASSUME NEW asked \in Seq(Nat), NEW a \in Nat, NEW t \in Nat, NEW stack \in Seq(StackToken),
           Dated(stack, asked, t)
    PROVE  Dated(stack, Append(asked, a), t)
<1>1. \A id \in 1 .. Len(asked) : id \in 1 .. Len(Append(asked, a)) /\ Append(asked, a)[id] = asked[id]
    OBVIOUS
<1> DEFINE b == Append(asked, a)
<1>2. \A id \in 1 .. Len(asked) : id \in 1 .. Len(b) /\ b[id] = asked[id]
    BY <1>1
<1> HIDE DEF b
<1>3. Dated(stack, b, t)
    BY <1>2 DEF Dated
<1> QED
    BY <1>3 DEF b

\* pushNewToken: the stack knows the new token and all it knew.
LEMMA PushedKnows ==
    ASSUME NEW asked \in Seq(Nat), now \in Nat, NEW stack \in Seq(StackToken),
           NEW token \in StackToken, Dated(stack, asked, now),
           token.id \in 1 .. Len(asked), 2 * asked[token.id] <= token.date, token.date <= 2 * now
    PROVE  /\ Pushed(stack, token) \in Seq(StackToken)
           /\ Dated(Pushed(stack, token), asked, now)
           /\ Knows(Pushed(stack, token), asked, now, token.id)
           /\ \A id : Knows(stack, asked, now, id) => Knows(Pushed(stack, token), asked, now, id)
<1> DEFINE v == Pushed(stack, token)
<1>0. Extends(v, stack, token, now)
    BY PushedIs
<1> HIDE DEF v
<1>1. /\ v \in Seq(StackToken)
      /\ \A k \in 1 .. Len(v) : v[k] = token \/ \E i \in 1 .. Len(stack) : v[k] = stack[i]
      /\ \E k \in 1 .. Len(v) : v[k] = token
      /\ \A i \in 1 .. Len(stack) :
            ~Late(stack[i], now) => \E k \in 1 .. Len(v) : v[k] = stack[i]
    BY <1>0 DEF Extends
<1>2. Dated(v, asked, now)
    <2>1. SUFFICES ASSUME NEW k \in 1 .. Len(v)
                   PROVE  /\ v[k].id \in 1 .. Len(asked)
                          /\ 2 * asked[v[k].id] <= v[k].date
                          /\ v[k].date <= 2 * now
        BY DEF Dated
    <2>2. CASE v[k] = token
        BY <2>2
    <2>3. CASE \E i \in 1 .. Len(stack) : v[k] = stack[i]
        <3>1. PICK i \in 1 .. Len(stack) : v[k] = stack[i]
            BY <2>3
        <3>2. /\ stack[i].id \in 1 .. Len(asked)
              /\ 2 * asked[stack[i].id] <= stack[i].date
              /\ stack[i].date <= 2 * now
            BY DEF Dated
        <3> QED
            BY <3>1, <3>2
    <2> QED
        BY <1>1, <2>2, <2>3
<1>3. Knows(v, asked, now, token.id)
    <2>1. PICK k \in 1 .. Len(v) : v[k] = token
        BY <1>1
    <2>2. Lives(asked, now, token.id) => ~Late(token, now)
        BY LiveIsNotLate
    <2> QED
        BY <2>1, <2>2 DEF Knows, Has
<1>4. ASSUME NEW id, Knows(stack, asked, now, id)
      PROVE  Knows(v, asked, now, id)
    <2> HIDE DEF Late
    <2>1. SUFFICES ASSUME Has(stack, now, id) PROVE Has(v, now, id)
        BY <1>4 DEF Knows
    <2>2. PICK i \in 1 .. Len(stack) : stack[i].id = id /\ ~Late(stack[i], now)
        BY <2>1 DEF Has
    <2>3. PICK k \in 1 .. Len(v) : v[k] = stack[i]
        BY <1>1, <2>2
    <2> QED
        BY <2>2, <2>3 DEF Has
<1> QED
    BY <1>1, <1>2, <1>3, <1>4 DEF v

\* Time goes on: what lives has lived before, and is not late.
LEMMA LivedBefore ==
    ASSUME NEW asked \in Seq(Nat), NEW t \in Nat, NEW id \in Nat, id <= Len(asked),
           Lives(asked, t + 1, id)
    PROVE  Lives(asked, t, id)
<1>1. id \in 1 .. Len(asked) /\ 4 * ((t + 1) - asked[id]) <= 5 * Lifetime
    BY DEF Lives
<1>2. asked[id] \in Nat /\ Lifetime \in Nat
    BY <1>1, Constants
<1>3. 4 * (t - asked[id]) <= 5 * Lifetime
    BY <1>1, <1>2
<1> QED
    BY <1>1, <1>3 DEF Lives

LEMMA KnowsLater ==
    ASSUME NEW asked \in Seq(Nat), NEW t \in Nat, NEW stack \in Seq(StackToken),
           Dated(stack, asked, t), NEW id \in Nat, id <= Len(asked), Knows(stack, asked, t, id)
    PROVE  Knows(stack, asked, t + 1, id)
<1>1. SUFFICES ASSUME Lives(asked, t + 1, id) PROVE Has(stack, t + 1, id)
    BY DEF Knows
<1>2. Has(stack, t, id)
    BY <1>1, LivedBefore DEF Knows
<1>3. PICK i \in 1 .. Len(stack) : stack[i].id = id
    BY <1>2 DEF Has
<1>4. stack[i] \in StackToken /\ stack[i].id \in 1 .. Len(asked) /\ 2 * asked[stack[i].id] <= stack[i].date
    BY DEF Dated
<1>5. ~Late(stack[i], t + 1)
    BY <1>1, <1>3, <1>4, LiveIsNotLate
<1> QED
    BY <1>3, <1>5 DEF Has

LEMMA DatedLater ==
    ASSUME NEW asked, NEW t \in Nat, NEW stack \in Seq(StackToken), Dated(stack, asked, t)
    PROVE  Dated(stack, asked, t + 1)
<1>1. \A i \in 1 .. Len(stack) : stack[i] \in StackToken
    OBVIOUS
<1>2. \A i \in 1 .. Len(stack) : stack[i].date \in Nat
    BY <1>1 DEF StackToken
<1>3. \A i \in 1 .. Len(stack) : stack[i].date <= 2 * t => stack[i].date <= 2 * (t + 1)
    BY <1>2
<1> QED
    BY <1>3 DEF Dated

-----------------------------------------------------------------------------
(***************************************************************************)
(* What is under way stays so when an end changes.                         *)
(***************************************************************************)
\* The client goes on: its ids grow, and no request comes back.
Evolves(c, d) ==
    /\ c.lastId <= d.lastId
    /\ \A r \in d.requests : r \in c.requests \/ r.id > c.lastId

LEMMA FitsEvolved ==
    ASSUME NEW c \in Client, NEW d \in Client, Evolves(c, d), NEW m \in Envelope, NEW start,
           Fits(m, c, start)
    PROVE  Fits(m, d, start)
<1>1. c.lastId \in Nat /\ d.lastId \in Nat /\ m.id \in Nat
    BY DEF Client, Envelope
<1>2. ASSUME NEW r \in d.requests, r.id = m.id
      PROVE  r.type = m.type /\ r.who = m.who /\ (m.type = "OPN" => r.start = start)
    <2>1. r \in c.requests
        BY <1>1, <1>2 DEF Evolves, Fits
    <2> QED
        BY <1>2, <2>1 DEF Fits
<1>3. m.id <= d.lastId
    BY <1>1 DEF Evolves, Fits
<1> QED
    BY <1>2, <1>3 DEF Fits

LEMMA UpEvolved ==
    ASSUME NEW c \in Client, NEW d \in Client, Evolves(c, d), NEW s, NEW t, NEW sec, NEW m,
           Up(m, c, s, t, sec),
           Knows(c.tokens, s.asked, t, m.token) => Knows(d.tokens, s.asked, t, m.token)
    PROVE  Up(m, d, s, t, sec)
<1>1. m \in Envelope /\ Fits(m, c, m.start)
    BY DEF Up
<1>2. Fits(m, d, m.start)
    BY <1>1, FitsEvolved
<1> QED
    BY <1>2 DEF Up

LEMMA DownEvolved ==
    ASSUME NEW c \in Client, NEW d \in Client, Evolves(c, d), NEW s, NEW t, NEW m,
           Down(m, c, s, t),
           Knows(c.tokens, s.asked, t, m.token) => Knows(d.tokens, s.asked, t, m.token)
    PROVE  Down(m, d, s, t)
<1>1. m \in Envelope
    BY DEF Down
<1>2. Fits(m, c, s.asked[m.token]) => Fits(m, d, s.asked[m.token])
    BY <1>1, FitsEvolved
<1> QED
    BY <1>2 DEF Down

\* The server goes on without a new token.
LEMMA UpServed ==
    ASSUME NEW c, NEW s, NEW z, z.asked = s.asked, NEW t, NEW sec, NEW m, Up(m, c, s, t, sec)
    PROVE  Up(m, c, z, t, sec)
BY DEF Up

LEMMA DownServed ==
    ASSUME NEW c, NEW s, NEW z, z.asked = s.asked, s.taken \subseteq z.taken,
           z.secured => s.secured, NEW t, NEW m, Down(m, c, s, t)
    PROVE  Down(m, c, z, t)
BY DEF Down, Sealed

\* The server issues a token.
LEMMA UpIssued ==
    ASSUME NEW c, NEW s, s.asked \in Seq(Nat), NEW z, NEW a \in Nat, z.asked = Append(s.asked, a),
           NEW t \in Nat, NEW sec, NEW m, Up(m, c, s, t, sec)
    PROVE  Up(m, c, z, t, sec)
<1>1. m.token \in Nat /\ m.token <= Len(s.asked) /\ m.key \in Nat /\ m.key <= Len(s.asked)
    BY DEF Up, Envelope
<1>2. Lives(z.asked, t, m.token) <=> Lives(s.asked, t, m.token)
    BY <1>1, LivesAppended
<1>3. Len(z.asked) = Len(s.asked) + 1 /\ Len(s.asked) \in Nat
    OBVIOUS
<1>4. m.token <= Len(z.asked) /\ m.key <= Len(z.asked)
    BY <1>1, <1>3
<1> QED
    BY <1>2, <1>4 DEF Up, Knows, Sealed

LEMMA DownIssued ==
    ASSUME NEW c, NEW s, s.asked \in Seq(Nat), NEW z, NEW a \in Nat, z.asked = Append(s.asked, a),
           z.taken = s.taken, z.secured = s.secured, NEW t \in Nat, NEW m, Down(m, c, s, t)
    PROVE  Down(m, c, z, t)
<1>1. m.token \in Nat /\ m.token <= Len(s.asked) /\ m.key \in Nat /\ m.key <= Len(s.asked)
    BY DEF Down, Envelope
<1>2. Lives(z.asked, t, m.token) <=> Lives(s.asked, t, m.token)
    BY <1>1, LivesAppended
<1>3. Len(z.asked) = Len(s.asked) + 1 /\ Len(s.asked) \in Nat
    OBVIOUS
<1>4. m.token <= Len(z.asked) /\ m.key <= Len(z.asked)
    BY <1>1, <1>3
<1>5. m.token >= 1 => z.asked[m.token] = s.asked[m.token]
    BY <1>1, <1>3
<1>6. m.type \in {"OPN", "MSG"} => Asks(m.type, m.who) /\ Fits(m, c, z.asked[m.token])
    <2>1. CASE m.type = "OPN"
        BY <1>5, <2>1 DEF Down
    <2>2. CASE m.type = "MSG"
        BY <2>2 DEF Down, Fits
    <2> QED
        BY <2>1, <2>2
<1> QED
    BY <1>2, <1>4, <1>6 DEF Down, Knows, Sealed

\* Time goes on.
LEMMA UpLater ==
    ASSUME NEW c \in Client, NEW s, s.asked \in Seq(Nat), NEW t \in Nat, NEW sec, NEW m,
           Dated(c.tokens, s.asked, t), Up(m, c, s, t, sec)
    PROVE  Up(m, c, s, t + 1, sec)
<1>1. m.token \in Nat /\ m.token <= Len(s.asked) /\ m.start \in Nat /\ m.start <= t
    BY DEF Up, Envelope
<1>2. Lives(s.asked, t + 1, m.token) => Lives(s.asked, t, m.token)
    BY <1>1, LivedBefore
<1>3. Knows(c.tokens, s.asked, t, m.token) => Knows(c.tokens, s.asked, t + 1, m.token)
    BY <1>1, KnowsLater DEF Client
<1>4. m.start <= t + 1
    BY <1>1
<1>5. Sealed(m, s.asked, t, sec) => Sealed(m, s.asked, t + 1, sec)
    BY <1>2 DEF Sealed
<1> QED
    BY <1>3, <1>4, <1>5 DEF Up

LEMMA DownLater ==
    ASSUME NEW c \in Client, NEW s, s.asked \in Seq(Nat), NEW t \in Nat, NEW m,
           Dated(c.tokens, s.asked, t), Down(m, c, s, t)
    PROVE  Down(m, c, s, t + 1)
<1>1. m.token \in Nat /\ m.token <= Len(s.asked)
    BY DEF Down, Envelope
<1>2. Lives(s.asked, t + 1, m.token) => Lives(s.asked, t, m.token)
    BY <1>1, LivedBefore
<1>3. Knows(c.tokens, s.asked, t, m.token) => Knows(c.tokens, s.asked, t + 1, m.token)
    BY <1>1, KnowsLater DEF Client
<1>4. Sealed(m, s.asked, t, s.secured) => Sealed(m, s.asked, t + 1, s.secured)
    BY <1>2 DEF Sealed
<1> QED
    BY <1>3, <1>4 DEF Down

-----------------------------------------------------------------------------
(***************************************************************************)
(* The transport, in both directions.                                      *)
(***************************************************************************)
LEMMA EndIs ==
    /\ END \in Envelope /\ ERR \in Envelope
    /\ END.type = "END" /\ END.id = 0 /\ END.who = "close" /\ END.token = 0 /\ END.key = 0 /\ END.start = 0
    /\ ERR.type = "ERR" /\ ERR.id = 0 /\ ERR.who = "close" /\ ERR.token = 0 /\ ERR.key = 0 /\ ERR.start = 0
BY DEF END, ERR, Message, None, Envelope, Who

\* The ends of the transport are understood at any time.
LEMMA EndUp ==
    ASSUME NEW c \in Client, NEW s, s.asked \in Seq(Nat), NEW t \in Nat, NEW sec
    PROVE  Up(END, c, s, t, sec)
<1>1. c.lastId \in Nat /\ \A r \in c.requests : r.id # 0
    BY DEF Client, Waiting
<1>2. Fits(END, c, 0)
    BY <1>1, EndIs DEF Fits
<1>3. Len(s.asked) \in Nat
    OBVIOUS
<1> QED
    BY <1>2, <1>3, EndIs DEF Up

LEMMA EndDown ==
    ASSUME NEW c, NEW s, s.asked \in Seq(Nat), NEW t
    PROVE  Down(END, c, s, t) /\ Down(ERR, c, s, t)
<1>1. Len(s.asked) \in Nat
    OBVIOUS
<1> QED
    BY <1>1, EndIs DEF Down

\* What is carried after something is said, read or cut off
LEMMA CarriedAppended ==
    ASSUME NEW w \in Seq(Envelope), NEW m \in Envelope
    PROVE  Append(w, m) \in Seq(Envelope) /\ Carried(Append(w, m)) = Carried(w) \cup {m}
<1> DEFINE v == Append(w, m)
<1>1. /\ v \in Seq(Envelope) /\ Len(v) = Len(w) + 1 /\ v[Len(w) + 1] = m
      /\ \A i \in 1 .. Len(w) : v[i] = w[i]
      /\ DOMAIN v = 1 .. Len(v) /\ DOMAIN w = 1 .. Len(w) /\ Len(w) \in Nat
    OBVIOUS
<1> HIDE DEF v
<1>2. \A i \in 1 .. Len(v) : i \in 1 .. Len(w) \/ i = Len(w) + 1
    BY <1>1
<1>3. \A i \in 1 .. Len(w) : i \in 1 .. Len(v)
    BY <1>1
<1>4. Len(w) + 1 \in 1 .. Len(v)
    BY <1>1
<1>5. Carried(v) \subseteq Carried(w) \cup {m}
    BY <1>1, <1>2 DEF Carried
<1>6. Carried(w) \cup {m} \subseteq Carried(v)
    BY <1>1, <1>3, <1>4 DEF Carried
<1> QED
    BY <1>1, <1>5, <1>6 DEF v

LEMMA CarriedRead ==
    ASSUME NEW w \in Seq(Envelope), w # <<>>
    PROVE  Tail(w) \in Seq(Envelope) /\ Carried(Tail(w)) \subseteq Carried(w) /\ Head(w) \in Carried(w)
<1> DEFINE v == Tail(w)
<1>1. /\ v \in Seq(Envelope) /\ Len(v) = Len(w) - 1 /\ \A i \in 1 .. Len(v) : v[i] = w[i + 1]
      /\ DOMAIN v = 1 .. Len(v) /\ DOMAIN w = 1 .. Len(w) /\ Len(w) \in Nat /\ Len(w) # 0
      /\ Head(w) = w[1]
    OBVIOUS
<1> HIDE DEF v
<1>2. \A i \in 1 .. Len(v) : i + 1 \in 1 .. Len(w)
    BY <1>1
<1>3. 1 \in 1 .. Len(w)
    BY <1>1
<1> QED
    BY <1>1, <1>2, <1>3 DEF Carried, v

LEMMA CarriedCut ==
    ASSUME NEW w \in Seq(Envelope), NEW i \in 0 .. Len(w)
    PROVE  /\ SubSeq(w, 1, i) \in Seq(Envelope) /\ Carried(SubSeq(w, 1, i)) \subseteq Carried(w)
           /\ Len(SubSeq(w, 1, i)) = i /\ \A k \in 1 .. i : SubSeq(w, 1, i)[k] = w[k]
<1> DEFINE v == SubSeq(w, 1, i)
<1>1. /\ v \in Seq(Envelope) /\ Len(v) = i /\ \A k \in 1 .. i : v[k] = w[k]
      /\ DOMAIN v = 1 .. i /\ DOMAIN w = 1 .. Len(w) /\ Len(w) \in Nat
    OBVIOUS
<1> HIDE DEF v
<1>2. \A k \in 1 .. i : k \in 1 .. Len(w)
    BY <1>1
<1> QED
    BY <1>1, <1>2 DEF Carried, v

LEMMA CarriedNone == <<>> \in Seq(Envelope) /\ Carried(<<>>) = {}
BY DEF Carried

\* The words of ClientActs and ServerActs, one after another
LEMMA Said ==
    ASSUME NEW w \in Seq(Envelope), NEW m \in Envelope
    PROVE  /\ w \o <<>> \o <<>> = w
           /\ w \o <<>> \o <<END>> = Append(w, END)
           /\ w \o <<m>> \o <<>> = Append(w, m)
           /\ w \o <<m>> \o <<END>> = Append(Append(w, m), END)
BY EndIs

-----------------------------------------------------------------------------
\* The transactions go on: none is idle again, and none is answered that was not taken.
Onward(k, l, taken) ==
    \A t \in Transactions :
        /\ k[t] # "idle" => l[t] # "idle"
        /\ (k[t] \in {"pending", "failed"} /\ t \notin taken) => l[t] \in {"pending", "failed"}

\* Nothing new is said (what was on w is now d places before).
LEMMA OnceKept ==
    ASSUME NEW w \in Seq(Envelope), NEW v \in Seq(Envelope), NEW taken, taken \subseteq Transactions,
           NEW k, NEW l, Onward(k, l, taken), Once(w, taken, k), NEW d \in Nat,
           \A i \in 1 .. Len(v) :
               v[i].who \in Transactions => i + d \in 1 .. Len(w) /\ v[i] = w[i + d]
    PROVE  Once(v, taken, l)
<1>1. ASSUME NEW i \in 1 .. Len(v), NEW j \in 1 .. Len(v),
             v[i].who \in Transactions, v[i].who = v[j].who
      PROVE  i = j
    <2> DEFINE a == i + d
               b == j + d
    <2>1. a \in 1 .. Len(w) /\ b \in 1 .. Len(w) /\ v[i] = w[a] /\ v[j] = w[b]
        BY <1>1
    <2>2. a = b => i = j
        OBVIOUS
    <2> HIDE DEF a, b
    <2>3. \A x, y \in 1 .. Len(w) : (w[x].who \in Transactions /\ w[x].who = w[y].who) => x = y
        BY DEF Once
    <2>4. a = b
        BY <1>1, <2>1, <2>3
    <2> QED
        BY <2>2, <2>4
<1>2. ASSUME NEW i \in 1 .. Len(v), v[i].who \in Transactions
      PROVE  v[i].who \notin taken /\ l[v[i].who] \in {"pending", "failed"}
    <2>1. v[i].who \notin taken /\ k[v[i].who] \in {"pending", "failed"}
        BY <1>2 DEF Once
    <2> QED
        BY <1>2, <2>1 DEF Onward
<1>3. \A t \in taken : l[t] # "idle"
    BY DEF Once, Onward
<1> QED
    BY <1>1, <1>2, <1>3 DEF Once

\* A transaction is sent.
LEMMA OnceSaid ==
    ASSUME NEW w \in Seq(Envelope), NEW taken, taken \subseteq Transactions,
           NEW k, NEW l, Onward(k, l, taken), Once(w, taken, k),
           NEW m \in Envelope, m.who \in Transactions => k[m.who] = "idle" /\ l[m.who] = "pending"
    PROVE  Once(Append(w, m), taken, l)
<1> DEFINE v == Append(w, m)
<1>1. /\ v \in Seq(Envelope) /\ Len(v) = Len(w) + 1 /\ v[Len(w) + 1] = m
      /\ \A i \in 1 .. Len(w) : v[i] = w[i]
    OBVIOUS
<1> HIDE DEF v
<1>2. \A i \in 1 .. Len(v) : i \in 1 .. Len(w) \/ i = Len(w) + 1
    BY <1>1
<1>3. \A i \in 1 .. Len(w) : w[i].who \in Transactions => w[i].who # m.who
    BY DEF Once
<1>4. \A i, j \in 1 .. Len(v) : (v[i].who \in Transactions /\ v[i].who = v[j].who) => i = j
    BY <1>1, <1>2, <1>3 DEF Once
<1>5. ASSUME NEW i \in 1 .. Len(v), v[i].who \in Transactions
      PROVE  v[i].who \notin taken /\ l[v[i].who] \in {"pending", "failed"}
    <2>1. CASE i \in 1 .. Len(w)
        BY <1>1, <1>5, <2>1 DEF Once, Onward
    <2>2. CASE i = Len(w) + 1
        BY <1>1, <1>5, <2>2 DEF Once
    <2> QED
        BY <1>2, <2>1, <2>2
<1>6. \A t \in taken : l[t] # "idle"
    BY DEF Once, Onward
<1>7. Once(v, taken, l)
    BY <1>4, <1>5, <1>6 DEF Once
<1> QED
    BY <1>7 DEF v

-----------------------------------------------------------------------------
(***************************************************************************)
(* The client's table of requests. Each operation turns the client c into  *)
(* a client d, and the transactions into l, and nobody waits in vain.      *)
(***************************************************************************)
Fates == {"idle", "pending", "answered", "failed"}

Turned(c, d, l) ==
    /\ d \in Client /\ l \in [Transactions -> Fates]
    /\ Waits(d, l) /\ Evolves(c, d)
    /\ d.tokens = c.tokens /\ d.active = c.active

LEMMA FailedIs ==
    ASSUME calls \in [Transactions -> Fates], NEW R
    PROVE  /\ Failed(R) \in [Transactions -> Fates]
           /\ \A t \in Transactions :
                 Failed(R)[t] = IF \E r \in R : r.who = t THEN "failed" ELSE calls[t]
BY DEF Failed, Fates

\* Whoever is failed was pending.
LEMMA FailedOnward ==
    ASSUME calls \in [Transactions -> Fates], NEW R, NEW taken,
           \A r \in R : r.who \in Transactions => calls[r.who] = "pending"
    PROVE  Onward(calls, Failed(R), taken)
BY FailedIs DEF Onward, Fates

\* #_internal_perform_transaction: d is c with the request r.
Asked(c, d, r) ==
    /\ d \in Client /\ d.lastId = c.lastId + 1 /\ d.requests = c.requests \cup {r}
    /\ d.transport = c.transport /\ d.opened = c.opened /\ d.active = c.active
    /\ d.tokens = c.tokens /\ d.renewal = c.renewal /\ d.create = c.create /\ d.close = c.close

LEMMA SentIs ==
    ASSUME NEW c \in Client, NEW type \in {"OPN", "MSG", "CLO"}, NEW who \in Who, NEW start \in Nat
    PROVE  Asked(c, Sent(c, type, who, start), Pending(type, c.lastId + 1, who, start))
<1>1. Pending(type, c.lastId + 1, who, start) \in Waiting
    BY DEF Pending, Waiting, Client
<1> DEFINE p == Pending(type, c.lastId + 1, who, start)
<1>2. /\ c.lastId + 1 \in Nat /\ c.requests \cup {p} \in SUBSET Waiting
    BY <1>1 DEF Client
<1>3. Sent(c, type, who, start) =
        [c EXCEPT !.lastId = c.lastId + 1, !.requests = c.requests \cup {p}]
    BY DEF Sent
<1> HIDE DEF p
<1>4. Sent(c, type, who, start) \in Client
    BY <1>2, <1>3 DEF Client
<1>5. Asked(c, Sent(c, type, who, start), p)
    BY <1>3, <1>4 DEF Client, Asked
<1> QED
    BY <1>5 DEF p

\* The request that is sent
LEMMA PendingIs ==
    ASSUME NEW type, NEW id, NEW who, NEW start
    PROVE  /\ Pending(type, id, who, start).type = type /\ Pending(type, id, who, start).id = id
           /\ Pending(type, id, who, start).who = who /\ Pending(type, id, who, start).start = start
BY DEF Pending

\* A new request has a new id.
LEMMA Asking ==
    ASSUME NEW c \in Client, NEW d \in Client, NEW k, Waits(c, k), NEW r \in Waiting,
           r.id = c.lastId + 1, d.lastId = c.lastId + 1, d.requests = c.requests \cup {r},
           \A q \in c.requests : q.who # r.who /\ ~(q.type = "OPN" /\ r.type = "OPN")
    PROVE  Evolves(c, d) /\ Apart(d.requests) /\ \A q \in d.requests : q.id <= d.lastId
<1>1. c.lastId \in Nat /\ \A q \in c.requests : q.id \in Nat
    BY DEF Client, Waiting
<1>2. \A q \in c.requests : q.id <= c.lastId
    BY DEF Waits, Awaited
<1>3. \A q \in c.requests : q.id # r.id
    BY <1>1, <1>2
<1>4. Apart(c.requests)
    BY DEF Waits
<1>5. Apart(d.requests)
    BY <1>3, <1>4 DEF Apart
<1>6. Evolves(c, d)
    BY <1>1 DEF Evolves
<1>7. \A q \in d.requests : q.id <= d.lastId
    BY <1>1, <1>2
<1> QED
    BY <1>5, <1>6, <1>7

\* Fewer requests
LEMMA Fewer ==
    ASSUME NEW c \in Client, NEW d \in Client, NEW k, Waits(c, k), d.requests \subseteq c.requests,
           d.lastId = c.lastId
    PROVE  Evolves(c, d) /\ Apart(d.requests) /\ \A q \in d.requests : q.id <= d.lastId
<1>1. c.lastId \in Nat
    BY DEF Client
<1>2. Evolves(c, d)
    BY <1>1 DEF Evolves
<1>3. Apart(d.requests)
    BY DEF Waits, Apart
<1>4. \A q \in d.requests : q.id <= d.lastId
    BY DEF Waits, Awaited
<1> QED
    BY <1>2, <1>3, <1>4

\* A client that is valid has not been closed.
LEMMA OpenIsNotClosed ==
    ASSUME NEW c \in Client, NEW k, Waits(c, k), IsValid(c), ~c.opened
    PROVE  c.close = "no"
BY DEF Waits, Phases, Attended, Client

\* #_on_connection: the first OpenSecureChannel
LEMMA CreateTurns ==
    ASSUME NEW c \in Client, calls \in [Transactions -> Fates], Waits(c, calls), now \in Nat,
           c.create = "connected", IsValid(c)
    PROVE  Turned(c, [Sent(c, "OPN", "create", now) EXCEPT !.create = "pending"], calls)
<1> DEFINE e == Sent(c, "OPN", "create", now)
           d == [e EXCEPT !.create = "pending"]
           r == Pending("OPN", c.lastId + 1, "create", now)
<1>0. Asked(c, e, r)
    <2>1. "create" \in Who
        BY DEF Who
    <2> QED
        BY <2>1, SentIs
<1>2. r.type = "OPN" /\ r.id = c.lastId + 1 /\ r.who = "create"
    BY PendingIs
<1> HIDE DEF e, r
<1>1. /\ e \in Client /\ e.lastId = c.lastId + 1 /\ e.requests = c.requests \cup {r}
      /\ e.transport = c.transport /\ e.opened = c.opened /\ e.active = c.active
      /\ e.tokens = c.tokens /\ e.renewal = c.renewal /\ e.close = c.close
    BY <1>0 DEF Asked
<1>3. /\ d \in Client /\ d.lastId = c.lastId + 1 /\ d.requests = c.requests \cup {r}
      /\ d.transport = c.transport /\ d.opened = c.opened /\ d.active = c.active
      /\ d.tokens = c.tokens /\ d.renewal = c.renewal /\ d.close = c.close
      /\ d.create = "pending"
    BY <1>1 DEF Client
<1> HIDE DEF d
<1>4. /\ c.requests = {} /\ c.renewal = None /\ ~c.opened
      /\ \A t \in Transactions : calls[t] # "pending"
    BY DEF Waits, Phases, Attended
<1>5. c.close = "no"
    BY <1>4, OpenIsNotClosed
<1>6. r \in Waiting
    BY <1>3 DEF Client
<1>7. Evolves(c, d) /\ Apart(d.requests) /\ \A q \in d.requests : q.id <= d.lastId
    BY <1>2, <1>3, <1>4, <1>6, Asking
<1>8. \A q \in d.requests : Awaited(q, d, calls)
    BY <1>2, <1>3, <1>4, <1>5, <1>7, Constants DEF Awaited, Asks
<1>9. Attended(d, calls)
    BY <1>3, <1>4, <1>5 DEF Attended
<1>10. Phases(d)
    BY <1>3, <1>4, <1>5 DEF Phases, IsValid
<1>11. Turned(c, d, calls)
    BY <1>3, <1>7, <1>8, <1>9, <1>10 DEF Turned, Waits
<1> QED
    BY <1>11 DEF d, e

\* #_on_connection, on a transport that has ended
LEMMA CreateFails ==
    ASSUME NEW c \in Client, calls \in [Transactions -> Fates], Waits(c, calls),
           c.create = "connected", ~IsValid(c)
    PROVE  Turned(c, [c EXCEPT !.create = "failed"], calls)
<1> DEFINE d == [c EXCEPT !.create = "failed"]
<1>1. /\ d \in Client /\ d.lastId = c.lastId /\ d.requests = c.requests
      /\ d.transport = c.transport /\ d.opened = c.opened /\ d.active = c.active
      /\ d.tokens = c.tokens /\ d.renewal = c.renewal /\ d.close = c.close
      /\ d.create = "failed"
    BY DEF Client
<1> HIDE DEF d
<1>2. c.requests = {} /\ c.renewal = None /\ ~c.opened
    BY DEF Waits, Phases
<1>3. Evolves(c, d) /\ Apart(d.requests)
    BY <1>1, Fewer
<1>4. Waits(d, calls)
    BY <1>1, <1>2, <1>3 DEF Waits, Attended, Phases, IsValid
<1>5. Turned(c, d, calls)
    BY <1>1, <1>3, <1>4 DEF Turned
<1> QED
    BY <1>5 DEF d

\* performMessageTransaction
LEMMA CallTurns ==
    ASSUME NEW c \in Client, calls \in [Transactions -> Fates], Waits(c, calls),
           NEW t \in Transactions, calls[t] = "idle", c.opened, IsValid(c)
    PROVE  Turned(c, Sent(c, "MSG", t, 0), [calls EXCEPT ![t] = "pending"])
<1> DEFINE d == Sent(c, "MSG", t, 0)
           l == [calls EXCEPT ![t] = "pending"]
           r == Pending("MSG", c.lastId + 1, t, 0)
<1>0. Asked(c, d, r)
    <2>1. t \in Who /\ 0 \in Nat
        BY DEF Who
    <2> QED
        BY <2>1, SentIs
<1>2. r.type = "MSG" /\ r.id = c.lastId + 1 /\ r.who = t
    BY PendingIs
<1>3. l \in [Transactions -> Fates] /\ l[t] = "pending" /\ \A u \in Transactions : u # t => l[u] = calls[u]
    BY DEF Fates
<1> HIDE DEF d, r, l
<1>1. /\ d \in Client /\ d.lastId = c.lastId + 1 /\ d.requests = c.requests \cup {r}
      /\ d.transport = c.transport /\ d.opened = c.opened /\ d.active = c.active
      /\ d.tokens = c.tokens /\ d.renewal = c.renewal /\ d.create = c.create /\ d.close = c.close
    BY <1>0 DEF Asked
<1>4. r \in Waiting
    BY <1>1 DEF Client
<1>5. \A q \in c.requests : q.who # t
    BY DEF Waits, Awaited
<1>6. Evolves(c, d) /\ Apart(d.requests) /\ \A q \in d.requests : q.id <= d.lastId
    BY <1>1, <1>2, <1>4, <1>5, Asking
<1>7. ASSUME NEW q \in d.requests
      PROVE  Awaited(q, d, l)
    <2>1. CASE q = r
        BY <1>2, <1>3, <1>6, <2>1, Constants DEF Awaited, Asks
    <2>2. CASE q \in c.requests
        <3>1. Awaited(q, c, calls)
            BY <2>2 DEF Waits
        <3> QED
            BY <1>1, <1>3, <1>5, <1>6, <2>2, <3>1 DEF Awaited
    <2> QED
        BY <1>1, <2>1, <2>2
<1>8. Attended(d, l)
    BY <1>1, <1>2, <1>3 DEF Waits, Attended
<1>9. Phases(d)
    BY <1>1 DEF Waits, Phases, IsValid
<1>10. Turned(c, d, l)
    BY <1>1, <1>3, <1>6, <1>7, <1>8, <1>9 DEF Turned, Waits
<1> QED
    BY <1>10 DEF d, l

\* performMessageTransaction, on a transport that has ended
LEMMA CallFails ==
    ASSUME NEW c \in Client, calls \in [Transactions -> Fates], Waits(c, calls),
           NEW t \in Transactions, calls[t] = "idle"
    PROVE  Turned(c, c, [calls EXCEPT ![t] = "failed"])
<1> DEFINE l == [calls EXCEPT ![t] = "failed"]
<1>1. l \in [Transactions -> Fates] /\ l[t] = "failed" /\ \A u \in Transactions : u # t => l[u] = calls[u]
    BY DEF Fates
<1> HIDE DEF l
<1>2. Evolves(c, c) /\ Apart(c.requests)
    BY Fewer
<1>3. ASSUME NEW q \in c.requests
      PROVE  Awaited(q, c, l)
    BY <1>1 DEF Waits, Awaited
<1>4. Attended(c, l)
    BY <1>1 DEF Waits, Attended
<1>5. Turned(c, c, l)
    BY <1>1, <1>2, <1>3, <1>4 DEF Turned, Waits
<1> QED
    BY <1>5 DEF l

\* What a callback leaves alone
Rest(c, d) ==
    /\ d \in Client /\ d.lastId = c.lastId /\ d.opened = c.opened /\ d.active = c.active
    /\ d.tokens = c.tokens

\* The callback of close()'s own transaction
LEMMA CloseDoneIs ==
    ASSUME NEW c \in Client
    PROVE  /\ Rest(c, CloseDone(c)) /\ CloseDone(c).requests = c.requests
           /\ CloseDone(c).renewal = c.renewal /\ CloseDone(c).create = c.create
           /\ IsValid(c) => CloseDone(c).transport = "ending" /\ CloseDone(c).close = "transport"
           /\ ~IsValid(c) => CloseDone(c).transport = c.transport /\ CloseDone(c).close = "done"
BY DEF Rest, CloseDone, Disconnected, IsValid, Client

\* cancelPendingTransactions
Emptied(c, d) ==
    /\ Rest(c, d) /\ d.requests = {} /\ d.renewal = c.renewal
    /\ d.create = IF c.create = "pending" THEN "failed" ELSE c.create
    /\ (~ \E r \in c.requests : r.who = "close") => d.transport = c.transport /\ d.close = c.close
    /\ (\E r \in c.requests : r.who = "close") =>
          /\ IsValid(c) => d.transport = "ending" /\ d.close = "transport"
          /\ ~IsValid(c) => d.transport = c.transport /\ d.close = "done"

LEMMA AllCalledBackIs ==
    ASSUME NEW c \in Client
    PROVE  Emptied(c, AllCalledBack(c))
<1> DEFINE e == [c EXCEPT !.requests = {}, !.create = IF @ = "pending" THEN "failed" ELSE @]
           d == AllCalledBack(c)
<1>1. /\ Rest(c, e) /\ e.requests = {} /\ e.renewal = c.renewal
      /\ e.create = IF c.create = "pending" THEN "failed" ELSE c.create
      /\ e.transport = c.transport /\ e.close = c.close
    BY DEF Rest, Client
<1>2. d = IF \E r \in c.requests : r.who = "close" THEN CloseDone(e) ELSE e
    BY DEF AllCalledBack
<1> HIDE DEF e, d
<1>3. e \in Client
    BY <1>1 DEF Rest
<1>4. ASSUME \E r \in c.requests : r.who = "close"
      PROVE  Emptied(c, d)
    <2>1. d = CloseDone(e)
        BY <1>2, <1>4
    <2>2. /\ Rest(e, d) /\ d.requests = e.requests
          /\ d.renewal = e.renewal /\ d.create = e.create
          /\ IsValid(e) => d.transport = "ending" /\ d.close = "transport"
          /\ ~IsValid(e) => d.transport = e.transport /\ d.close = "done"
        BY <1>3, <2>1, CloseDoneIs
    <2>3. IsValid(e) <=> IsValid(c)
        BY <1>1 DEF IsValid
    <2> QED
        BY <1>1, <1>4, <2>2, <2>3 DEF Emptied, Rest
<1>5. ASSUME ~ \E r \in c.requests : r.who = "close"
      PROVE  Emptied(c, d)
    BY <1>1, <1>2, <1>5 DEF Emptied
<1>6. Emptied(c, d)
    BY <1>4, <1>5
<1> QED
    BY <1>6 DEF d

\* When all pending transactions are called back, none is pending any more.
LEMMA NonePending ==
    ASSUME NEW c \in Client, calls \in [Transactions -> Fates], Waits(c, calls)
    PROVE  /\ Failed(c.requests) \in [Transactions -> Fates]
           /\ \A t \in Transactions : Failed(c.requests)[t] # "pending"
<1>1. \A t \in Transactions : calls[t] = "pending" => \E r \in c.requests : r.who = t
    BY DEF Waits, Attended
<1> QED
    BY <1>1, FailedIs

\* An empty table
LEMMA NobodyWaits ==
    ASSUME NEW c \in Client, NEW d \in Client, d.requests = {}, d.lastId = c.lastId,
           NEW l, \A t \in Transactions : l[t] # "pending", d.close # "asked", Phases(d)
    PROVE  Waits(d, l) /\ Evolves(c, d)
<1>1. c.lastId \in Nat
    BY DEF Client
<1>2. Attended(d, l) /\ Apart(d.requests)
    BY DEF Attended, Apart
<1> QED
    BY <1>1, <1>2 DEF Waits, Evolves

\* #_on_transport_closed
LEMMA TransportClosedTurns ==
    ASSUME NEW c \in Client, calls \in [Transactions -> Fates], Waits(c, calls)
    PROVE  /\ Turned(c, TransportClosed(c), Failed(c.requests))
           /\ TransportClosed(c).transport = "closed"
<1> DEFINE b == [c EXCEPT !.transport = "closed", !.renewal = None]
           e == AllCalledBack(b)
           d == [e EXCEPT !.close = IF @ = "transport" THEN "done" ELSE @]
           l == Failed(c.requests)
<1>1. /\ Rest(c, b) /\ b.requests = c.requests /\ b.renewal = None /\ b.transport = "closed"
      /\ b.create = c.create /\ b.close = c.close
    BY DEF Rest, Client, None
<1> HIDE DEF b
<1>2. b \in Client /\ ~IsValid(b)
    BY <1>1 DEF Rest, IsValid
<1>3. Emptied(b, e)
    BY <1>2, AllCalledBackIs
<1> HIDE DEF e
<1>4. /\ Rest(c, d) /\ d.requests = {} /\ d.renewal = None /\ d.transport = "closed"
      /\ d.create = e.create /\ d.close = IF e.close = "transport" THEN "done" ELSE e.close
    <2>1. e \in Client /\ Rest(b, e) /\ e.requests = {} /\ e.renewal = None /\ e.transport = "closed"
        BY <1>1, <1>2, <1>3 DEF Emptied, Rest
    <2> QED
        BY <1>1, <2>1 DEF Rest, Client
<1>5. d = TransportClosed(c)
    BY DEF TransportClosed, e, b
<1>6. l \in [Transactions -> Fates] /\ \A t \in Transactions : l[t] # "pending"
    BY NonePending
<1> HIDE DEF d, l
<1>7. d.create = IF c.create = "pending" THEN "failed" ELSE c.create
    BY <1>1, <1>3, <1>4 DEF Emptied
<1>8. d.close \in {"no", "done"}
    <2>1. c.close \in {"no", "asked", "transport", "done"}
        BY DEF Client
    <2>2. c.close = "asked" => \E r \in b.requests : r.who = "close"
        BY <1>1 DEF Waits, Attended
    <2>3. (\E r \in b.requests : r.who = "close") => e.close = "done"
        BY <1>2, <1>3 DEF Emptied
    <2>4. (~ \E r \in b.requests : r.who = "close") => e.close = c.close
        BY <1>1, <1>3 DEF Emptied
    <2> QED
        BY <1>4, <2>1, <2>2, <2>3, <2>4
<1>9. Phases(d)
    <2>1. d.create = "connected" => c.create = "connected" /\ ~c.opened
        BY <1>7 DEF Waits, Phases
    <2> QED
        BY <1>4, <1>7, <1>8, <2>1 DEF Phases, IsValid, Rest
<1>10. Waits(d, l) /\ Evolves(c, d)
    BY <1>4, <1>6, <1>8, <1>9, NobodyWaits DEF Rest
<1>11. Turned(c, d, l)
    BY <1>4, <1>6, <1>10 DEF Turned, Rest
<1> QED
    BY <1>4, <1>5, <1>11 DEF l

\* close, its first part: the watchdog is stopped, and everything that is pending is canceled.
Canceled(c) == AllCalledBack([c EXCEPT !.renewal = None])

LEMMA CanceledIs ==
    ASSUME NEW c \in Client, calls \in [Transactions -> Fates], Waits(c, calls), c.close = "no"
    PROVE  /\ Rest(c, Canceled(c)) /\ Canceled(c).requests = {} /\ Canceled(c).renewal = None
           /\ Canceled(c).transport = c.transport /\ Canceled(c).close = "no"
           /\ Canceled(c).create # "pending"
           /\ Canceled(c).create = "connected" => ~c.opened
           /\ IsValid(Canceled(c)) <=> IsValid(c)
<1> DEFINE b == [c EXCEPT !.renewal = None]
           e == AllCalledBack(b)
<1>1. /\ Rest(c, b) /\ b.requests = c.requests /\ b.renewal = None /\ b.transport = c.transport
      /\ b.create = c.create /\ b.close = "no"
    BY DEF Rest, Client, None
<1>2. Canceled(c) = e
    BY DEF Canceled
<1> HIDE DEF b
<1>3. b \in Client
    BY <1>1 DEF Rest
<1>4. Emptied(b, e)
    BY <1>3, AllCalledBackIs
<1> HIDE DEF e
<1>5. ~ \E r \in b.requests : r.who = "close"
    BY <1>1 DEF Waits, Awaited
<1>6. /\ Rest(b, e) /\ e.requests = {} /\ e.renewal = None /\ e.transport = c.transport
      /\ e.close = "no" /\ e.create = IF c.create = "pending" THEN "failed" ELSE c.create
    BY <1>1, <1>4, <1>5 DEF Emptied
<1>7. e.create = "connected" => ~c.opened
    BY <1>6 DEF Waits, Phases
<1> QED
    BY <1>1, <1>2, <1>6, <1>7 DEF Rest, IsValid

\* close, with a CloseSecureChannel
LEMMA CloseAsks ==
    ASSUME NEW c \in Client, calls \in [Transactions -> Fates], Waits(c, calls), c.close = "no",
           IsValid(c), c.opened
    PROVE  Turned(c, [Sent(Canceled(c), "CLO", "close", 0) EXCEPT !.close = "asked"],
                  Failed(c.requests))
<1> DEFINE e == Canceled(c)
           g == Sent(e, "CLO", "close", 0)
           d == [g EXCEPT !.close = "asked"]
           l == Failed(c.requests)
           r == Pending("CLO", e.lastId + 1, "close", 0)
<1>1. /\ Rest(c, e) /\ e.requests = {} /\ e.renewal = None /\ e.transport = c.transport
      /\ e.create \notin {"pending", "connected"}
    BY CanceledIs
<1>2. r.type = "CLO" /\ r.id = e.lastId + 1 /\ r.who = "close"
    BY PendingIs
<1> HIDE DEF e
<1>3. Asked(e, g, r)
    <2>1. "close" \in Who /\ 0 \in Nat /\ e \in Client
        BY <1>1 DEF Who, Rest
    <2> QED
        BY <2>1, SentIs
<1>4. l \in [Transactions -> Fates] /\ \A t \in Transactions : l[t] # "pending"
    BY NonePending
<1> HIDE DEF g, l, r
<1>5. /\ Asked(e, g, r) /\ d \in Client /\ d.lastId = c.lastId + 1 /\ d.requests = {r}
      /\ d.transport = c.transport /\ d.opened /\ d.active = c.active /\ d.tokens = c.tokens
      /\ d.renewal = None /\ d.create = e.create /\ d.close = "asked"
    <2>1. /\ g \in Client /\ g.lastId = c.lastId + 1 /\ g.requests = {r}
          /\ g.transport = c.transport /\ g.opened /\ g.active = c.active /\ g.tokens = c.tokens
          /\ g.renewal = None /\ g.create = e.create
        BY <1>1, <1>3 DEF Asked, Rest
    <2> QED
        BY <1>3, <2>1 DEF Client
<1> HIDE DEF d
<1>6. c.lastId \in Nat /\ r.id = c.lastId + 1
    BY <1>1, <1>2 DEF Client, Rest
<1>7. Evolves(c, d)
    BY <1>5, <1>6 DEF Evolves
<1>8. Awaited(r, d, l)
    BY <1>2, <1>5, <1>6, Constants DEF Awaited, Asks
<1>9. Apart(d.requests) /\ Attended(d, l)
    BY <1>2, <1>4, <1>5 DEF Apart, Attended
<1>10. Phases(d)
    BY <1>1, <1>5 DEF Phases, IsValid
<1>11. Turned(c, d, l)
    BY <1>4, <1>5, <1>7, <1>8, <1>9, <1>10 DEF Turned, Waits
<1> QED
    BY <1>11 DEF d, g, e, l

\* close, of a channel that is not open
LEMMA CloseEnds ==
    ASSUME NEW c \in Client, calls \in [Transactions -> Fates], Waits(c, calls), c.close = "no",
           NEW e, e = Canceled(c)
    PROVE  Turned(c, [Disconnected(e) EXCEPT !.close = IF IsValid(e) THEN "transport" ELSE "done"],
                  Failed(c.requests))
<1> DEFINE d == [Disconnected(e) EXCEPT !.close = IF IsValid(e) THEN "transport" ELSE "done"]
           l == Failed(c.requests)
<1>1. /\ Rest(c, e) /\ e.requests = {} /\ e.renewal = None /\ e.transport = c.transport
      /\ e.create # "pending" /\ (e.create = "connected" => ~c.opened)
    BY CanceledIs
<1>2. /\ Rest(c, d) /\ d.requests = {} /\ d.renewal = None /\ d.create = e.create
      /\ d.transport = (IF e.transport = "open" THEN "ending" ELSE e.transport)
      /\ d.close = (IF e.transport = "open" THEN "transport" ELSE "done")
    BY <1>1 DEF Disconnected, IsValid, Rest, Client
<1>3. l \in [Transactions -> Fates] /\ \A t \in Transactions : l[t] # "pending"
    BY NonePending
<1> HIDE DEF d, l
<1>4. Phases(d)
    BY <1>1, <1>2 DEF Phases, IsValid, Rest
<1>5. Waits(d, l) /\ Evolves(c, d)
    BY <1>2, <1>3, <1>4, NobodyWaits DEF Rest
<1>6. Turned(c, d, l)
    BY <1>2, <1>3, <1>5 DEF Turned, Rest
<1> QED
    BY <1>6 DEF d, l

\* dispose
LEMMA DisposeTurns ==
    ASSUME NEW c \in Client, calls \in [Transactions -> Fates], Waits(c, calls), c.transport = "open"
    PROVE  Turned(c, [Disconnected(c) EXCEPT !.renewal = None], calls)
<1> DEFINE d == [Disconnected(c) EXCEPT !.renewal = None]
<1>1. /\ Rest(c, d) /\ d.requests = c.requests /\ d.renewal = None /\ d.create = c.create
      /\ d.transport = "ending" /\ d.close = c.close
    BY DEF Disconnected, Rest, Client, None
<1> HIDE DEF d
<1>2. Evolves(c, d) /\ Apart(d.requests)
    BY <1>1, Fewer DEF Rest
<1>3. \A q \in d.requests : Awaited(q, d, calls)
    BY <1>1 DEF Waits, Awaited, Rest
<1>4. Attended(d, calls) /\ Phases(d)
    BY <1>1 DEF Waits, Attended, Phases, Rest, IsValid
<1>5. Turned(c, d, calls)
    BY <1>1, <1>2, <1>3, <1>4 DEF Turned, Waits, Rest
<1> QED
    BY <1>5 DEF d

\* modified_callback, without an answer
LEMMA TimedOutTurns ==
    ASSUME NEW c \in Client, calls \in [Transactions -> Fates], Waits(c, calls),
           NEW r \in c.requests
    PROVE  Turned(c, CalledBack(c, r), Failed({r}))
<1> DEFINE e == [c EXCEPT !.requests = @ \ {r}]
           d == CalledBack(c, r)
           l == Failed({r})
<1>1. /\ Rest(c, e) /\ e.requests = c.requests \ {r} /\ e.renewal = c.renewal
      /\ e.create = c.create /\ e.transport = c.transport /\ e.close = c.close
    BY DEF Rest, Client
<1>2. d = CASE r.who = "create" -> [e EXCEPT !.create = "failed"]
            [] r.who = "close"  -> CloseDone(e)
            [] OTHER            -> e
    BY DEF CalledBack
<1>3. /\ l \in [Transactions -> Fates]
      /\ \A t \in Transactions : l[t] = IF r.who = t THEN "failed" ELSE calls[t]
    BY FailedIs
<1> HIDE DEF e, d, l
<1>4. e \in Client /\ (IsValid(e) <=> IsValid(c))
    BY <1>1 DEF Rest, IsValid
<1>5. /\ Rest(c, d) /\ d.requests = c.requests \ {r} /\ d.renewal = c.renewal
      /\ d.create = (IF r.who = "create" THEN "failed" ELSE c.create)
      /\ r.who # "close" => d.transport = c.transport /\ d.close = c.close
      /\ (r.who = "close" /\ IsValid(c)) => d.transport = "ending" /\ d.close = "transport"
      /\ (r.who = "close" /\ ~IsValid(c)) => d.transport = c.transport /\ d.close = "done"
    <2>1. CASE r.who = "create"
        <3>1. d = [e EXCEPT !.create = "failed"]
            BY <1>2, <2>1
        <3> QED
            BY <1>1, <2>1, <3>1 DEF Rest, Client
    <2>2. CASE r.who = "close"
        <3>1. d = CloseDone(e)
            BY <1>2, <2>2
        <3> QED
            BY <1>1, <1>4, <2>2, <3>1, CloseDoneIs DEF Rest
    <2>3. CASE r.who \notin {"create", "close"}
        <3>1. d = e
            BY <1>2, <2>3
        <3> QED
            BY <1>1, <2>3, <3>1
    <2> QED
        BY <2>1, <2>2, <2>3
<1>6. Evolves(c, d) /\ Apart(d.requests) /\ \A q \in d.requests : q.id <= d.lastId
    BY <1>5, Fewer DEF Rest
<1>7. Awaited(r, c, calls) /\ Apart(c.requests)
    BY DEF Waits
<1>8. \A q \in d.requests : q \in c.requests /\ q # r /\ q.who # r.who
    BY <1>5, <1>7 DEF Apart
<1>9. ASSUME NEW q \in d.requests
      PROVE  Awaited(q, d, l)
    <2>1. Awaited(q, c, calls) /\ q.who # r.who
        BY <1>8 DEF Waits
    <2>2. q.type = "OPN" => r.who # "close"
        BY <1>7, <2>1 DEF Awaited
    <2>3. q.who = "close" => d.close = c.close
        BY <1>5, <2>1
    <2>4. q.who = "create" => d.create = c.create
        BY <1>5, <2>1
    <2>5. q.who \in Transactions => l[q.who] = calls[q.who]
        BY <1>3, <2>1
    <2> QED
        BY <1>5, <1>6, <2>1, <2>2, <2>3, <2>4, <2>5 DEF Awaited
<1>10. Attended(d, l)
    <2>1. ASSUME NEW t \in Transactions, l[t] = "pending"
          PROVE  \E q \in d.requests : q.who = t
        BY <1>3, <1>5, <2>1 DEF Waits, Attended
    <2>2. d.close = "asked" => d.opened /\ \E q \in d.requests : q.who = "close"
        BY <1>5 DEF Waits, Attended, Rest
    <2> QED
        BY <2>1, <2>2 DEF Attended
<1>11. Phases(d)
    <2>1. c.transport # "closed" /\ c.create # "connected"
        BY DEF Waits, Phases
    <2>2. r.who = "close" => c.renewal = None
        BY <1>7 DEF Waits, Phases, Awaited
    <2>3. r.who = "close" => d.transport = "ending"
        BY <1>5, <2>1 DEF IsValid, Client
    <2>4. r.who # "close" => (IsValid(d) <=> IsValid(c))
        BY <1>5 DEF IsValid
    <2>5. d.renewal # None => IsValid(d) /\ d.opened /\ d.close = "no"
        BY <1>5, <2>2, <2>4 DEF Waits, Phases, Rest
    <2>6. d.close \in {"transport", "done"} => ~IsValid(d)
        BY <1>5, <2>3, <2>4 DEF Waits, Phases, IsValid
    <2>7. d.transport # "closed" /\ d.create # "connected"
        BY <1>5, <2>1, <2>3
    <2> QED
        BY <2>5, <2>6, <2>7 DEF Phases
<1>12. Turned(c, d, l)
    BY <1>3, <1>5, <1>6, <1>9, <1>10, <1>11 DEF Turned, Waits, Rest
<1> QED
    BY <1>12 DEF d, l

\* #_renew_security_token
LEMMA RenewTurns ==
    ASSUME NEW c \in Client, calls \in [Transactions -> Fates], Waits(c, calls), now \in Nat,
           c.renewal # None, NEW e, e = [c EXCEPT !.renewal = None]
    PROVE  IsValid(e) /\ Turned(c, Sent(e, "OPN", "renew", now), calls)
<1> DEFINE d == Sent(e, "OPN", "renew", now)
           r == Pending("OPN", e.lastId + 1, "renew", now)
<1>1. /\ Rest(c, e) /\ e.requests = c.requests /\ e.renewal = None
      /\ e.create = c.create /\ e.transport = c.transport /\ e.close = c.close
    BY DEF Rest, Client, None
<1>2. /\ IsValid(c) /\ c.opened /\ c.close = "no" /\ c.create # "connected"
    BY DEF Waits, Phases
<1>3. r.type = "OPN" /\ r.id = e.lastId + 1 /\ r.who = "renew"
    BY PendingIs
<1>4. Asked(e, d, r)
    <2>1. "renew" \in Who /\ e \in Client
        BY <1>1 DEF Who, Rest
    <2> QED
        BY <2>1, SentIs
<1> HIDE DEF d, r
<1>5. /\ d \in Client /\ d.lastId = c.lastId + 1 /\ d.requests = c.requests \cup {r}
      /\ d.transport = c.transport /\ d.opened = c.opened /\ d.active = c.active
      /\ d.tokens = c.tokens /\ d.renewal = None /\ d.create = c.create /\ d.close = c.close
    BY <1>1, <1>4 DEF Asked, Rest
<1>6. r \in Waiting /\ r.id = c.lastId + 1
    BY <1>1, <1>3, <1>5 DEF Client, Rest
<1>7. \A q \in c.requests : q.type # "OPN" /\ q.who # "renew"
    BY Constants DEF Waits, Awaited, Asks
<1>8. Evolves(c, d) /\ Apart(d.requests) /\ \A q \in d.requests : q.id <= d.lastId
    BY <1>3, <1>5, <1>6, <1>7, Asking
<1>9. ASSUME NEW q \in d.requests
      PROVE  Awaited(q, d, calls)
    <2>1. CASE q = r
        BY <1>2, <1>3, <1>5, <1>8, <2>1, Constants DEF Awaited, Asks
    <2>2. CASE q \in c.requests
        <3>1. Awaited(q, c, calls)
            BY <2>2 DEF Waits
        <3> QED
            BY <1>5, <1>8, <3>1 DEF Awaited
    <2> QED
        BY <1>5, <2>1, <2>2
<1>10. Attended(d, calls)
    BY <1>5 DEF Waits, Attended
<1>11. Phases(d)
    BY <1>2, <1>5 DEF Phases, IsValid
<1>12. Turned(c, d, calls)
    BY <1>5, <1>8, <1>9, <1>10, <1>11 DEF Turned, Waits
<1> QED
    BY <1>1, <1>2, <1>12 DEF d, IsValid

\* A transaction is answered.
LEMMA AnsweredTurns ==
    ASSUME NEW c \in Client, calls \in [Transactions -> Fates], Waits(c, calls),
           NEW r \in c.requests, r.type = "MSG"
    PROVE  /\ r.who \in Transactions /\ calls[r.who] = "pending"
           /\ Turned(c, [c EXCEPT !.requests = @ \ {r}], [calls EXCEPT ![r.who] = "answered"])
<1> DEFINE d == [c EXCEPT !.requests = @ \ {r}]
           l == [calls EXCEPT ![r.who] = "answered"]
<1>1. /\ Rest(c, d) /\ d.requests = c.requests \ {r} /\ d.renewal = c.renewal
      /\ d.create = c.create /\ d.transport = c.transport /\ d.close = c.close
    BY DEF Rest, Client
<1>2. r.who \in Transactions /\ calls[r.who] = "pending" /\ Apart(c.requests)
    BY DEF Waits, Awaited, Asks
<1>3. /\ l \in [Transactions -> Fates] /\ l[r.who] = "answered"
      /\ \A t \in Transactions : t # r.who => l[t] = calls[t]
    BY <1>2 DEF Fates
<1> HIDE DEF d, l
<1>4. Evolves(c, d) /\ Apart(d.requests) /\ \A q \in d.requests : q.id <= d.lastId
    BY <1>1, Fewer DEF Rest
<1>5. \A q \in d.requests : q \in c.requests /\ q.who # r.who
    BY <1>1, <1>2 DEF Apart
<1>6. ASSUME NEW q \in d.requests
      PROVE  Awaited(q, d, l)
    <2>1. Awaited(q, c, calls) /\ q.who # r.who
        BY <1>5 DEF Waits
    <2>2. q.who \in Transactions => l[q.who] = calls[q.who]
        BY <1>3, <2>1
    <2> QED
        BY <1>1, <1>4, <2>1, <2>2 DEF Awaited
<1>7. Attended(d, l)
    <2>1. ASSUME NEW t \in Transactions, l[t] = "pending"
          PROVE  \E q \in d.requests : q.who = t
        BY <1>1, <1>2, <1>3, <2>1 DEF Waits, Attended
    <2>2. d.close = "asked" => d.opened /\ \E q \in d.requests : q.who = "close"
        BY <1>1, <1>2, Constants DEF Waits, Attended, Rest
    <2> QED
        BY <2>1, <2>2 DEF Attended
<1>8. Phases(d)
    BY <1>1 DEF Waits, Phases, IsValid, Rest
<1>9. Turned(c, d, l)
    BY <1>1, <1>3, <1>4, <1>6, <1>7, <1>8 DEF Turned, Waits, Rest
<1> QED
    BY <1>2, <1>9 DEF d, l

\* The message builder stops reading.
LEMMA DeafTurns ==
    ASSUME NEW c \in Client, calls \in [Transactions -> Fates], Waits(c, calls)
    PROVE  Turned(c, [c EXCEPT !.deaf = TRUE], calls) /\ Turned(c, c, calls)
<1> DEFINE d == [c EXCEPT !.deaf = TRUE]
<1>1. /\ Rest(c, d) /\ d.requests = c.requests /\ d.renewal = c.renewal
      /\ d.create = c.create /\ d.transport = c.transport /\ d.close = c.close
    BY DEF Rest, Client
<1> HIDE DEF d
<1>2. Evolves(c, d) /\ Evolves(c, c) /\ Apart(d.requests)
    BY <1>1, Fewer DEF Rest
<1>3. \A q \in d.requests : Awaited(q, d, calls)
    BY <1>1 DEF Waits, Awaited, Rest
<1>4. Attended(d, calls) /\ Phases(d)
    BY <1>1 DEF Waits, Attended, Phases, IsValid, Rest
<1>5. Turned(c, d, calls) /\ Turned(c, c, calls)
    BY <1>1, <1>2, <1>3, <1>4 DEF Turned, Waits, Rest
<1> QED
    BY <1>5 DEF d

\* OpenSecureChannel is answered: a token is installed, and its watchdog.
LEMMA OpenedTurns ==
    ASSUME NEW c \in Client, calls \in [Transactions -> Fates], Waits(c, calls), IsValid(c),
           now \in Nat, NEW r \in c.requests, r.type = "OPN", NEW token \in Nat
    PROVE  /\ Opened(c, r, token) \in Client /\ Waits(Opened(c, r, token), calls)
           /\ Evolves(c, Opened(c, r, token)) /\ Token(token, r.start + now) \in StackToken
           /\ Opened(c, r, token).tokens = Pushed(c.tokens, Token(token, r.start + now))
           /\ Opened(c, r, token).active = token
           /\ Opened(c, r, token).transport = c.transport
<1> DEFINE u == Pushed(c.tokens, Token(token, r.start + now))
           n == now + (3 * Lifetime) \div 4
           d == Opened(c, r, token)
<1>1. Token(token, r.start + now) \in StackToken
    BY DEF Token, StackToken, Client, Waiting
<1>2. u \in Seq(StackToken)
    <2>1. c.tokens \in Seq(StackToken)
        BY DEF Client
    <2>2. Extends(u, c.tokens, Token(token, r.start + now), now)
        BY <1>1, <2>1, PushedIs
    <2> QED
        BY <2>2 DEF Extends
<1>3. n \in Nat /\ n # None
    <2>1. Lifetime \in Nat /\ Lifetime >= 4
        BY Constants
    <2>2. (3 * Lifetime) \div 4 \in Nat /\ (3 * Lifetime) \div 4 >= 3
        BY <2>1
    <2> QED
        BY <2>2 DEF None
<1>4. d = [c EXCEPT !.requests = c.requests \ {r}, !.tokens = u, !.renewal = n, !.active = token,
                    !.opened = TRUE,
                    !.create = IF r.who = "create" THEN "done" ELSE c.create]
    BY DEF Opened
<1> HIDE DEF u, n, d
<1>5. /\ d \in Client /\ d.lastId = c.lastId /\ d.requests = c.requests \ {r}
      /\ d.tokens = u /\ d.renewal = n /\ d.active = token /\ d.opened = TRUE
      /\ d.create = (IF r.who = "create" THEN "done" ELSE c.create)
      /\ d.transport = c.transport /\ d.close = c.close
    BY <1>2, <1>3, <1>4 DEF Client
<1>6. Evolves(c, d) /\ Apart(d.requests) /\ \A q \in d.requests : q.id <= d.lastId
    BY <1>5, Fewer
<1>7. Awaited(r, c, calls) /\ Apart(c.requests)
    BY DEF Waits
<1>8. c.close = "no" /\ r.who \notin Transactions
    BY <1>7, Constants DEF Awaited, Asks
<1>9. \A q \in d.requests : q \in c.requests /\ q.who # r.who /\ q.type # "OPN"
    BY <1>5, <1>7 DEF Apart
<1>10. ASSUME NEW q \in d.requests
       PROVE  Awaited(q, d, calls)
    <2>1. Awaited(q, c, calls) /\ q.who # r.who /\ q.type # "OPN"
        BY <1>9 DEF Waits
    <2>2. q.who = "create" => d.create = c.create
        BY <1>5, <2>1
    <2> QED
        BY <1>5, <1>6, <2>1, <2>2 DEF Awaited
<1>11. Attended(d, calls)
    BY <1>5, <1>8 DEF Waits, Attended
<1>12. Phases(d)
    <2>1. c.create # "connected"
        BY DEF Waits, Phases
    <2> QED
        BY <1>5, <1>8, <2>1 DEF Phases, IsValid
<1> QED
    BY <1>1, <1>5, <1>6, <1>10, <1>11, <1>12 DEF Waits, u, d

-----------------------------------------------------------------------------
(***************************************************************************)
(* The steps of the client.                                                *)
(***************************************************************************)
\* The server, the time and the security mode are as they were.
LEMMA ClientKeeps ==
    ASSUME IInv, NEW taken, taken = server.taken, Turned(client, client', calls'),
           Onward(calls, calls', taken), UNCHANGED <<now, secured, server>>,
           toServer' \in Seq(Envelope), toClient' \in Seq(Envelope),
           \A m \in Carried(toServer') :
               m \in Carried(toServer) \/ Up(m, client', server, now, secured),
           Carried(toClient') \subseteq Carried(toClient),
           Once(toServer', taken, calls')
    PROVE  IInv'
<1>1. /\ client \in Client /\ client' \in Client /\ Evolves(client, client')
      /\ client'.tokens = client.tokens /\ client'.active = client.active
    BY DEF Turned, IInv, TypeInv
<1>2. now' = now /\ secured' = secured /\ server' = server
    OBVIOUS
<1>3. ASSUME NEW m, Up(m, client, server, now, secured)
      PROVE  Up(m, client', server, now, secured)
    BY <1>1, <1>3, UpEvolved
<1>4. ASSUME NEW m, Down(m, client, server, now)
      PROVE  Down(m, client', server, now)
    BY <1>1, <1>4, DownEvolved
<1>5. UnderWay(client, server, Carried(toServer), Carried(toClient), now, secured)
    BY DEF IInv
<1>6. UnderWay(client', server, Carried(toServer'), Carried(toClient'), now, secured)
    BY <1>3, <1>4, <1>5 DEF UnderWay
<1>7. Stacks(client', server, now)
    BY <1>1 DEF IInv, Stacks
<1>8. TypeInv'
    BY <1>1, <1>2 DEF IInv, TypeInv, Turned, Fates
<1>9. Waits(client', calls')
    BY DEF Turned
<1> QED
    BY <1>2, <1>6, <1>7, <1>8, <1>9 DEF IInv

\* The client says nothing.
LEMMA ClientSilent ==
    ASSUME IInv, NEW c, ClientActs(c, <<>>), Turned(client, c, calls'),
           Onward(calls, calls', server.taken)
    PROVE  IInv'
<1>1. /\ client' = c /\ UNCHANGED <<now, secured, server>>
      /\ toClient' = IF c.transport = "open" THEN toClient ELSE <<>>
    BY DEF ClientActs
<1>2. toServer' = <<>> \/ toServer' = toServer \o <<>> \o <<END>> \/ toServer' = toServer \o <<>> \o <<>>
    BY DEF ClientActs
<1>3. /\ toServer \in Seq(Envelope) /\ toClient \in Seq(Envelope) /\ server.taken \subseteq Transactions
      /\ server.asked \in Seq(Nat) /\ now \in Nat
    BY DEF IInv, TypeInv, Server
<1>4. toServer' = <<>> \/ toServer' = Append(toServer, END) \/ toServer' = toServer
    BY <1>2, <1>3, Said, EndIs
<1>5. toClient' \in Seq(Envelope) /\ Carried(toClient') \subseteq Carried(toClient)
    BY <1>1, <1>3, CarriedNone
<1>6. c \in Client
    BY DEF Turned
<1>7. Up(END, c, server, now, secured)
    BY <1>3, <1>6, EndUp
<1>8. Once(toServer, server.taken, calls)
    BY DEF IInv
<1>9. /\ toServer' \in Seq(Envelope)
      /\ \A m \in Carried(toServer') : m \in Carried(toServer) \/ Up(m, c, server, now, secured)
      /\ Once(toServer', server.taken, calls')
    <2>1. CASE toServer' = <<>>
        <3>1. Once(<<>>, server.taken, calls')
            BY <1>3, <1>8 DEF Once, Onward
        <3> QED
            BY <2>1, <3>1, CarriedNone
    <2>2. CASE toServer' = Append(toServer, END)
        <3>1. Append(toServer, END) \in Seq(Envelope)
            BY <1>3, EndIs, CarriedAppended
        <3>2. Carried(Append(toServer, END)) = Carried(toServer) \cup {END}
            BY <1>3, EndIs, CarriedAppended
        <3>3. END.who \notin Transactions /\ END \in Envelope
            BY EndIs, Constants
        <3>4. Once(Append(toServer, END), server.taken, calls')
            BY <1>3, <1>8, <3>3, OnceSaid
        <3> QED
            BY <1>7, <2>2, <3>1, <3>2, <3>4
    <2>3. CASE toServer' = toServer
        <3>1. \A i \in 1 .. Len(toServer) : i + 0 = i
            BY <1>3
        <3>2. \A i \in 1 .. Len(toServer) :
                 toServer[i].who \in Transactions =>
                     i + 0 \in 1 .. Len(toServer) /\ toServer[i] = toServer[i + 0]
            BY <3>1
        <3>3. Once(toServer, server.taken, calls')
            <4> DEFINE z == 0
            <4>1. z \in Nat /\ \A i \in 1 .. Len(toServer) :
                     toServer[i].who \in Transactions =>
                         i + z \in 1 .. Len(toServer) /\ toServer[i] = toServer[i + z]
                BY <3>2
            <4> HIDE DEF z
            <4> QED
                BY <1>3, <1>8, <4>1, OnceKept
        <3> QED
            BY <1>3, <2>3, <3>3
    <2> QED
        BY <1>4, <2>1, <2>2, <2>3
<1> QED
    BY <1>1, <1>5, <1>9, ClientKeeps

\* The client says m.
LEMMA ClientSays ==
    ASSUME IInv, NEW c, NEW m \in Envelope, ClientActs(c, <<m>>), Turned(client, c, calls'),
           Onward(calls, calls', server.taken), IsValid(client), IsValid(c),
           Up(m, c, server, now, secured),
           m.who \in Transactions => calls[m.who] = "idle" /\ calls'[m.who] = "pending"
    PROVE  IInv'
<1>1. client' = c /\ toClient' = toClient /\ UNCHANGED <<now, secured, server>>
    BY DEF ClientActs, IsValid
<1>2. toServer' = <<>> \/ toServer' = toServer \o <<m>> \o <<>>
    BY DEF ClientActs, IsValid
<1>3. /\ toServer \in Seq(Envelope) /\ toClient \in Seq(Envelope) /\ server.taken \subseteq Transactions
    BY DEF IInv, TypeInv, Server
<1>4. toServer' = <<>> \/ toServer' = Append(toServer, m)
    BY <1>2, <1>3, Said
<1>5. Once(toServer, server.taken, calls)
    BY DEF IInv
<1>6. /\ toServer' \in Seq(Envelope)
      /\ \A x \in Carried(toServer') : x \in Carried(toServer) \/ Up(x, c, server, now, secured)
      /\ Once(toServer', server.taken, calls')
    <2>1. CASE toServer' = <<>>
        <3>1. Once(<<>>, server.taken, calls')
            BY <1>3, <1>5 DEF Once, Onward
        <3> QED
            BY <2>1, <3>1, CarriedNone
    <2>2. CASE toServer' = Append(toServer, m)
        <3>1. Append(toServer, m) \in Seq(Envelope)
            BY <1>3, CarriedAppended
        <3>2. Carried(Append(toServer, m)) = Carried(toServer) \cup {m}
            BY <1>3, CarriedAppended
        <3>3. Once(Append(toServer, m), server.taken, calls')
            BY <1>3, <1>5, OnceSaid
        <3> QED
            BY <2>2, <3>1, <3>2, <3>3
    <2> QED
        BY <1>4, <2>1, <2>2
<1> QED
    BY <1>1, <1>3, <1>6, ClientKeeps

\* A request that is sent is the only one with its id.
LEMMA SentFits ==
    ASSUME NEW c \in Client, NEW k, Waits(c, k), NEW e \in Client, e.lastId = c.lastId,
           e.requests \subseteq c.requests, NEW r, NEW d, d.lastId = e.lastId + 1,
           d.requests = e.requests \cup {r}, NEW m \in Envelope, m.id = e.lastId + 1,
           m.type = r.type, m.who = r.who, m.type = "OPN" => r.start = m.start
    PROVE  Fits(m, d, m.start)
<1>1. c.lastId \in Nat
    BY DEF Client
<1>2. \A q \in c.requests : q.id <= c.lastId /\ q.id \in Nat
    BY DEF Waits, Awaited, Client, Waiting
<1>3. \A q \in e.requests : q.id # m.id
    BY <1>1, <1>2
<1>4. m.id <= d.lastId
    BY <1>1
<1> QED
    BY <1>3, <1>4 DEF Fits

\* #_send_open_secure_channel_request
LEMMA OpenRequestIs ==
    ASSUME NEW c \in Client, now \in Nat, NEW who \in {"create", "renew"}
    PROVE  /\ OpenRequest(c, who) \in Envelope
           /\ OpenRequest(c, who).type = "OPN" /\ OpenRequest(c, who).id = c.lastId + 1
           /\ OpenRequest(c, who).who = who /\ OpenRequest(c, who).start = now
           /\ OpenRequest(c, who).token = 0 /\ OpenRequest(c, who).key = 0
<1>1. c.lastId + 1 \in Nat
    BY DEF Client
<1>2. OpenRequest(c, who) = [type |-> "OPN", id |-> c.lastId + 1, who |-> who,
                             token |-> 0, key |-> 0, start |-> now]
    BY DEF OpenRequest, Message, None
<1> QED
    BY <1>1, <1>2 DEF Envelope, Who

LEMMA OpenRequestUp ==
    ASSUME NEW s, s.asked \in Seq(Nat), now \in Nat, NEW c \in Client, NEW d, NEW sec,
           NEW who \in {"create", "renew"},
           Fits(OpenRequest(c, who), d, now)
    PROVE  Up(OpenRequest(c, who), d, s, now, sec)
<1>1. Len(s.asked) \in Nat
    OBVIOUS
<1> QED
    BY <1>1, OpenRequestIs DEF Up, Asks

\* #_get_security_options: the active token is known, and secures what it is named in.
LEMMA SecuredRequestIs ==
    ASSUME Stacks(client, server, now), server.asked \in Seq(Nat), NEW c \in Client,
           c.tokens = client.tokens, c.active = client.active,
           NEW type \in {"MSG", "CLO"}, NEW who \in Who, NEW m, m = SecuredRequest(c, type, who)
    PROVE  /\ m \in Envelope /\ m.type = type /\ m.id = c.lastId + 1 /\ m.who = who /\ m.start = 0
           /\ m.token <= Len(server.asked) /\ m.key <= Len(server.asked)
           /\ Knows(c.tokens, server.asked, now, m.token)
           /\ Sealed(m, server.asked, now, secured)
<1> DEFINE key == IF secured /\ HasKeys(c.tokens, c.active) THEN c.active ELSE None
<1>1. /\ m.type = type /\ m.id = c.lastId + 1 /\ m.who = who /\ m.token = c.active /\ m.key = key
      /\ m.start = 0
    BY DEF SecuredRequest, Message
<1>2. m = [type |-> type, id |-> c.lastId + 1, who |-> who, token |-> c.active, key |-> key,
           start |-> 0]
    BY DEF SecuredRequest, Message
<1>3. /\ c.lastId + 1 \in Nat /\ c.active \in Nat /\ c.active <= Len(server.asked)
      /\ c.tokens \in Seq(StackToken) /\ Len(server.asked) \in Nat
      /\ Knows(c.tokens, server.asked, now, c.active)
    BY DEF Client, Stacks
<1>4. key \in {0, c.active}
    BY DEF None
<1>5. HasKeys(c.tokens, c.active) <=> Has(c.tokens, now, c.active)
    BY <1>3, HasIs
<1>6. (secured /\ Lives(server.asked, now, c.active)) => key = c.active
    BY <1>3, <1>5 DEF Knows
<1> HIDE DEF key
<1>7. key \in Nat /\ key <= Len(server.asked)
    BY <1>3, <1>4
<1>8. m \in Envelope
    BY <1>2, <1>3, <1>7 DEF Envelope
<1> QED
    BY <1>1, <1>3, <1>6, <1>7, <1>8 DEF Sealed

\* The transactions are as they were.
LEMMA Unmoved == \A taken : Onward(calls, calls, taken)
BY DEF Onward

LEMMA CreateStep ==
    ASSUME IInv, Create
    PROVE  IInv'
<1>1. /\ client \in Client /\ calls \in [Transactions -> Fates] /\ Waits(client, calls)
      /\ now \in Nat /\ calls' = calls /\ client.create = "connected"
      /\ server.asked \in Seq(Nat)
    BY DEF IInv, TypeInv, Create, Fates, Server
<1>2. Onward(calls, calls', server.taken)
    BY <1>1, Unmoved
<1>3. CASE IsValid(client)
    <2> DEFINE e == Sent(client, "OPN", "create", now)
               d == [e EXCEPT !.create = "pending"]
               m == OpenRequest(client, "create")
               r == Pending("OPN", client.lastId + 1, "create", now)
    <2>1. ClientActs(d, <<m>>)
        BY <1>3 DEF Create
    <2>2. Turned(client, d, calls')
        BY <1>1, <1>3, CreateTurns
    <2>3. Asked(client, e, r)
        <3>1. "create" \in Who
            BY DEF Who
        <3> QED
            BY <1>1, <3>1, SentIs
    <2>4. r.type = "OPN" /\ r.who = "create" /\ r.start = now
        BY PendingIs
    <2>5. /\ m \in Envelope /\ m.type = "OPN" /\ m.id = client.lastId + 1 /\ m.who = "create"
          /\ m.start = now
        BY <1>1, OpenRequestIs
    <2> HIDE DEF e, r
    <2>6. d.lastId = client.lastId + 1 /\ d.requests = client.requests \cup {r} /\ IsValid(d)
        BY <1>3, <2>3 DEF Asked, Client, IsValid
    <2> HIDE DEF d
    <2>7. Fits(m, d, m.start)
        BY <1>1, <2>4, <2>5, <2>6, SentFits
    <2>8. Up(m, d, server, now, secured)
        BY <1>1, <2>5, <2>7, OpenRequestUp
    <2> HIDE DEF m
    <2> QED
        BY <1>2, <1>3, <2>1, <2>2, <2>5, <2>6, <2>8, Constants, ClientSays
<1>4. CASE ~IsValid(client)
    <2> DEFINE d == [client EXCEPT !.create = "failed"]
    <2>1. ClientActs(d, <<>>)
        BY <1>4 DEF Create
    <2>2. Turned(client, d, calls')
        BY <1>1, <1>4, CreateFails
    <2> HIDE DEF d
    <2> QED
        BY <1>2, <2>1, <2>2, ClientSilent
<1> QED
    BY <1>3, <1>4

LEMMA CallStep ==
    ASSUME IInv, NEW t \in Transactions, Call(t)
    PROVE  IInv'
<1>1. /\ client \in Client /\ calls \in [Transactions -> Fates] /\ Waits(client, calls)
      /\ now \in Nat /\ server.asked \in Seq(Nat) /\ Stacks(client, server, now)
      /\ calls[t] = "idle" /\ client.opened
    BY DEF IInv, TypeInv, Call, Fates, Server
<1>2. CASE IsValid(client)
    <2> DEFINE d == Sent(client, "MSG", t, 0)
               m == SecuredRequest(client, "MSG", t)
               r == Pending("MSG", client.lastId + 1, t, 0)
               l == [calls EXCEPT ![t] = "pending"]
    <2>1. ClientActs(d, <<m>>) /\ calls' = l
        BY <1>2 DEF Call
    <2>2. Turned(client, d, l)
        BY <1>1, <1>2, CallTurns
    <2>3. t \in Who
        BY DEF Who
    <2>4. Asked(client, d, r)
        BY <1>1, <2>3, SentIs
    <2>5. r.type = "MSG" /\ r.who = t
        BY PendingIs
    <2>6. /\ m \in Envelope /\ m.type = "MSG" /\ m.id = client.lastId + 1 /\ m.who = t /\ m.start = 0
          /\ m.token <= Len(server.asked) /\ m.key <= Len(server.asked)
          /\ Knows(client.tokens, server.asked, now, m.token)
          /\ Sealed(m, server.asked, now, secured)
        BY <1>1, <2>3, SecuredRequestIs
    <2>7. l[t] = "pending" /\ \A u \in Transactions : u # t => l[u] = calls[u]
        BY <1>1
    <2> HIDE DEF d, r, l, m
    <2>8. d.lastId = client.lastId + 1 /\ d.requests = client.requests \cup {r} /\ IsValid(d)
          /\ d.tokens = client.tokens
        BY <1>2, <2>4 DEF Asked, IsValid
    <2>9. Fits(m, d, m.start)
        BY <1>1, <2>5, <2>6, <2>8, SentFits
    <2>10. Up(m, d, server, now, secured)
        BY <1>1, <2>6, <2>8, <2>9 DEF Up, Asks
    <2>11. Onward(calls, calls', server.taken)
        BY <1>1, <2>1, <2>7 DEF Onward
    <2> QED
        BY <1>1, <1>2, <2>1, <2>2, <2>6, <2>7, <2>8, <2>10, <2>11, ClientSays
<1>3. CASE ~IsValid(client)
    <2> DEFINE l == [calls EXCEPT ![t] = "failed"]
    <2>1. ClientActs(client, <<>>) /\ calls' = l
        BY <1>3 DEF Call
    <2>2. Turned(client, client, l)
        BY <1>1, CallFails
    <2>3. l[t] = "failed" /\ \A u \in Transactions : u # t => l[u] = calls[u]
        BY <1>1
    <2> HIDE DEF l
    <2>4. Onward(calls, calls', server.taken)
        BY <1>1, <2>1, <2>3 DEF Onward
    <2> QED
        BY <2>1, <2>2, <2>4, ClientSilent
<1> QED
    BY <1>2, <1>3

LEMMA CloseStep ==
    ASSUME IInv, Close
    PROVE  IInv'
<1> DEFINE e == Canceled(client)
           l == Failed(client.requests)
<1>1. /\ client \in Client /\ calls \in [Transactions -> Fates] /\ Waits(client, calls)
      /\ now \in Nat /\ server.asked \in Seq(Nat) /\ Stacks(client, server, now)
      /\ client.close = "no" /\ calls' = l
    BY DEF IInv, TypeInv, Close, Fates, Server
<1>2. Onward(calls, calls', server.taken)
    <2>1. \A r \in client.requests : r.who \in Transactions => calls[r.who] = "pending"
        BY <1>1 DEF Waits, Awaited
    <2> QED
        BY <1>1, <2>1, FailedOnward
<1>3. /\ Rest(client, e) /\ e.requests = {} /\ (IsValid(e) <=> IsValid(client))
      /\ e.transport = client.transport
    BY <1>1, CanceledIs
<1>4. e = AllCalledBack([client EXCEPT !.renewal = None])
    BY DEF Canceled
<1>5. CASE IsValid(e) /\ e.opened
    <2> DEFINE g == Sent(e, "CLO", "close", 0)
               d == [g EXCEPT !.close = "asked"]
               m == SecuredRequest(e, "CLO", "close")
               r == Pending("CLO", e.lastId + 1, "close", 0)
    <2>1. ClientActs(d, <<m>>)
        <3> HIDE DEF e
        <3> QED
            BY <1>4, <1>5 DEF Close
    <2>2. IsValid(client) /\ client.opened
        BY <1>3, <1>5 DEF Rest
    <2>3. Turned(client, d, calls')
        BY <1>1, <2>2, CloseAsks
    <2> HIDE DEF e
    <2>4. "close" \in Who /\ e \in Client /\ 0 \in Nat
        BY <1>3 DEF Who, Rest
    <2>5. Asked(e, g, r)
        BY <2>4, SentIs
    <2>6. r.type = "CLO" /\ r.who = "close"
        BY PendingIs
    <2>7. e.tokens = client.tokens /\ e.active = client.active /\ e.lastId = client.lastId
        BY <1>3 DEF Rest
    <2>8. /\ m \in Envelope /\ m.type = "CLO" /\ m.id = e.lastId + 1 /\ m.who = "close" /\ m.start = 0
          /\ m.token <= Len(server.asked) /\ m.key <= Len(server.asked)
          /\ Knows(e.tokens, server.asked, now, m.token)
          /\ Sealed(m, server.asked, now, secured)
        BY <1>1, <2>4, <2>7, SecuredRequestIs
    <2> HIDE DEF g, m, r
    <2>9. d.lastId = e.lastId + 1 /\ d.requests = e.requests \cup {r} /\ IsValid(d)
          /\ d.tokens = e.tokens
        BY <1>5, <2>5 DEF Asked, Client, IsValid
    <2> HIDE DEF d
    <2>10. Fits(m, d, m.start)
        BY <1>1, <1>3, <2>4, <2>6, <2>7, <2>8, <2>9, SentFits
    <2>11. Up(m, d, server, now, secured)
        BY <1>1, <2>8, <2>9, <2>10 DEF Up, Asks
    <2>12. m.who \notin Transactions
        BY <2>8, Constants
    <2> QED
        BY <1>2, <2>1, <2>2, <2>3, <2>8, <2>9, <2>11, <2>12, ClientSays
<1>6. CASE ~(IsValid(e) /\ e.opened)
    <2> DEFINE d == [Disconnected(e) EXCEPT !.close = IF IsValid(e) THEN "transport" ELSE "done"]
    <2>1. ClientActs(d, <<>>)
        <3> HIDE DEF e
        <3> QED
            BY <1>4, <1>6 DEF Close
    <2>2. e = Canceled(client)
        OBVIOUS
    <2> HIDE DEF e
    <2>3. Turned(client, d, calls')
        BY <1>1, <2>2, CloseEnds
    <2> HIDE DEF d
    <2> QED
        BY <1>2, <2>1, <2>3, ClientSilent
<1> QED
    BY <1>5, <1>6

LEMMA DisposeStep ==
    ASSUME IInv, Dispose
    PROVE  IInv'
<1> DEFINE d == [Disconnected(client) EXCEPT !.renewal = None]
<1>1. /\ client \in Client /\ calls \in [Transactions -> Fates] /\ Waits(client, calls)
      /\ client.transport = "open" /\ calls' = calls /\ ClientActs(d, <<>>)
    BY DEF IInv, TypeInv, Dispose, Fates
<1>2. Turned(client, d, calls')
    BY <1>1, DisposeTurns
<1>3. Onward(calls, calls', server.taken)
    BY <1>1, Unmoved
<1> HIDE DEF d
<1> QED
    BY <1>1, <1>2, <1>3, ClientSilent

LEMMA TimedOutStep ==
    ASSUME IInv, TimedOut
    PROVE  IInv'
<1>1. PICK r \in client.requests : ClientActs(CalledBack(client, r), <<>>) /\ calls' = Failed({r})
    BY DEF TimedOut
<1>2. client \in Client /\ calls \in [Transactions -> Fates] /\ Waits(client, calls)
    BY DEF IInv, TypeInv, Fates
<1>3. Turned(client, CalledBack(client, r), calls')
    BY <1>1, <1>2, TimedOutTurns
<1>4. Onward(calls, calls', server.taken)
    <2>1. \A q \in {r} : q.who \in Transactions => calls[q.who] = "pending"
        BY <1>2 DEF Waits, Awaited
    <2> QED
        BY <1>1, <1>2, <2>1, FailedOnward
<1> QED
    BY <1>1, <1>3, <1>4, ClientSilent

LEMMA SocketClosedStep ==
    ASSUME IInv, SocketClosed
    PROVE  IInv'
<1>1. ClientActs(TransportClosed(client), <<>>) /\ calls' = Failed(client.requests)
    BY DEF SocketClosed
<1>2. client \in Client /\ calls \in [Transactions -> Fates] /\ Waits(client, calls)
    BY DEF IInv, TypeInv, Fates
<1>3. Turned(client, TransportClosed(client), calls')
    BY <1>1, <1>2, TransportClosedTurns
<1>4. Onward(calls, calls', server.taken)
    <2>1. \A q \in client.requests : q.who \in Transactions => calls[q.who] = "pending"
        BY <1>2 DEF Waits, Awaited
    <2> QED
        BY <1>1, <1>2, <2>1, FailedOnward
<1> QED
    BY <1>1, <1>3, <1>4, ClientSilent

LEMMA RenewStep ==
    ASSUME IInv, Renew
    PROVE  IInv'
<1> DEFINE e == [client EXCEPT !.renewal = None]
           d == Sent(e, "OPN", "renew", now)
           m == OpenRequest(e, "renew")
           r == Pending("OPN", e.lastId + 1, "renew", now)
<1>1. /\ client \in Client /\ calls \in [Transactions -> Fates] /\ Waits(client, calls)
      /\ now \in Nat /\ calls' = calls /\ client.renewal # None
      /\ server.asked \in Seq(Nat)
    BY DEF IInv, TypeInv, Renew, Fates, Server
<1>2. IsValid(e) /\ Turned(client, d, calls')
    BY <1>1, RenewTurns
<1>3. ClientActs(d, <<m>>)
    BY <1>2 DEF Renew
<1>4. /\ e \in Client /\ e.lastId = client.lastId /\ e.requests = client.requests
      /\ e.transport = client.transport
    BY <1>1 DEF Client, None
<1> HIDE DEF e
<1>5. Asked(e, d, r)
    <2>1. "renew" \in Who
        BY DEF Who
    <2> QED
        BY <1>1, <1>4, <2>1, SentIs
<1>6. r.type = "OPN" /\ r.who = "renew" /\ r.start = now
    BY PendingIs
<1>7. /\ m \in Envelope /\ m.type = "OPN" /\ m.id = e.lastId + 1 /\ m.who = "renew" /\ m.start = now
    BY <1>1, <1>4, OpenRequestIs
<1> HIDE DEF d, r
<1>8. d.lastId = e.lastId + 1 /\ d.requests = e.requests \cup {r} /\ IsValid(d) /\ IsValid(client)
    BY <1>2, <1>4, <1>5 DEF Asked, IsValid
<1>9. Fits(m, d, m.start)
    BY <1>1, <1>4, <1>6, <1>7, <1>8, SentFits
<1>10. Up(m, d, server, now, secured)
    BY <1>1, <1>4, <1>7, <1>9, OpenRequestUp
<1>11. Onward(calls, calls', server.taken)
    BY <1>1, Unmoved
<1> HIDE DEF m
<1> QED
    BY <1>2, <1>3, <1>7, <1>8, <1>10, <1>11, Constants, ClientSays

\* What a client that receives tells the server: that the transport has ended, or nothing
LEMMA ClientReceivesSays ==
    ASSUME IInv, ClientReceives, client' \in Client, Onward(calls, calls', server.taken)
    PROVE  /\ toServer' \in Seq(Envelope)
           /\ \A m \in Carried(toServer') : m \in Carried(toServer) \/ Up(m, client', server, now, secured)
           /\ Once(toServer', server.taken, calls')
           /\ toClient' \in Seq(Envelope) /\ Carried(toClient') \subseteq Carried(toClient)
           /\ UNCHANGED <<now, secured, server>>
<1>1. /\ toServer \in Seq(Envelope) /\ toClient \in Seq(Envelope) /\ server.taken \subseteq Transactions
      /\ server.asked \in Seq(Nat) /\ now \in Nat
    BY DEF IInv, TypeInv, Server
<1>2. toClient # <<>> /\ toClient' = Tail(toClient) /\ UNCHANGED <<now, secured, server>>
    BY DEF ClientReceives
<1>3. toServer' = Append(toServer, END) \/ toServer' = toServer
    BY DEF ClientReceives
<1>4. Once(toServer, server.taken, calls)
    BY DEF IInv
<1>5. CASE toServer' = Append(toServer, END)
    <2>1. Append(toServer, END) \in Seq(Envelope)
        BY <1>1, EndIs, CarriedAppended
    <2>2. Carried(Append(toServer, END)) = Carried(toServer) \cup {END}
        BY <1>1, EndIs, CarriedAppended
    <2>3. END.who \notin Transactions /\ END \in Envelope
        BY EndIs, Constants
    <2>4. Once(Append(toServer, END), server.taken, calls')
        BY <1>1, <1>4, <2>3, OnceSaid
    <2>5. Up(END, client', server, now, secured)
        BY <1>1, EndUp
    <2> QED
        BY <1>1, <1>2, <1>5, <2>1, <2>2, <2>4, <2>5, CarriedRead
<1>6. CASE toServer' = toServer
    <2> DEFINE z == 0
    <2>1. z \in Nat /\ \A i \in 1 .. Len(toServer) :
             toServer[i].who \in Transactions =>
                 i + z \in 1 .. Len(toServer) /\ toServer[i] = toServer[i + z]
        <3>1. \A i \in 1 .. Len(toServer) : i + 0 = i
            BY <1>1
        <3> QED
            BY <3>1
    <2> HIDE DEF z
    <2>2. Once(toServer, server.taken, calls')
        BY <1>1, <1>4, <2>1, OnceKept
    <2> QED
        BY <1>1, <1>2, <1>6, <2>2, CarriedRead
<1> QED
    BY <1>3, <1>5, <1>6

\* The answer to OpenSecureChannel: the token is installed.
LEMMA ClientOpens ==
    ASSUME IInv, ClientReceives, NEW r \in client.requests, NEW m \in Carried(toClient),
           r.id = m.id, m.type = "OPN", client' = Opened(client, r, m.token), calls' = calls
    PROVE  IInv'
<1>1. /\ client \in Client /\ calls \in [Transactions -> Fates] /\ Waits(client, calls)
      /\ now \in Nat /\ server.asked \in Seq(Nat) /\ IsValid(client) /\ server \in Server
      /\ Stacks(client, server, now)
    BY DEF IInv, TypeInv, Fates, ClientReceives, Server
<1>2. Down(m, client, server, now)
    BY DEF IInv, UnderWay
<1>3. /\ m.token \in Nat /\ m.token >= 1 /\ m.token <= Len(server.asked)
      /\ r.type = "OPN" /\ r.start = server.asked[m.token]
    BY <1>2 DEF Down, Envelope, Fits
<1> DEFINE a == server.asked
           b == Token(m.token, r.start + now)
           u == Pushed(client.tokens, b)
<1>4. /\ client' \in Client /\ Waits(client', calls) /\ Evolves(client, client')
      /\ b \in StackToken /\ client'.tokens = u /\ client'.active = m.token
    BY <1>1, <1>3, OpenedTurns
<1>5. b.id = m.token /\ b.date = r.start + now
    BY DEF Token
<1>6. b.id \in 1 .. Len(a) /\ 2 * a[b.id] <= b.date /\ b.date <= 2 * now
    <2>1. a[m.token] \in Nat /\ a[m.token] <= now
        BY <1>1, <1>3 DEF Stacks
    <2> QED
        BY <1>1, <1>3, <1>5, <2>1
<1> HIDE DEF b
<1>7. /\ u \in Seq(StackToken) /\ Dated(u, a, now) /\ Knows(u, a, now, b.id)
      /\ \A id : Knows(client.tokens, a, now, id) => Knows(u, a, now, id)
    <2>1. client.tokens \in Seq(StackToken) /\ Dated(client.tokens, a, now) /\ a \in Seq(Nat)
        BY <1>1 DEF Client, Stacks
    <2> HIDE DEF a
    <2> QED
        BY <1>1, <1>4, <1>6, <2>1, PushedKnows
<1> HIDE DEF u
<1>8. Stacks(client', server, now)
    BY <1>1, <1>3, <1>4, <1>5, <1>7 DEF Stacks
<1>9. Onward(calls, calls', server.taken)
    BY Unmoved
<1>10. /\ toServer' \in Seq(Envelope)
       /\ \A x \in Carried(toServer') : x \in Carried(toServer) \/ Up(x, client', server, now, secured)
       /\ Once(toServer', server.taken, calls')
       /\ toClient' \in Seq(Envelope) /\ Carried(toClient') \subseteq Carried(toClient)
       /\ UNCHANGED <<now, secured, server>>
    BY <1>4, <1>9, ClientReceivesSays
<1>11. ASSUME NEW x, Up(x, client, server, now, secured)
       PROVE  Up(x, client', server, now, secured)
    BY <1>1, <1>4, <1>7, <1>11, UpEvolved
<1>12. ASSUME NEW x, Down(x, client, server, now)
       PROVE  Down(x, client', server, now)
    BY <1>1, <1>4, <1>7, <1>12, DownEvolved
<1>13. UnderWay(client, server, Carried(toServer), Carried(toClient), now, secured)
    BY DEF IInv
<1>14. UnderWay(client', server, Carried(toServer'), Carried(toClient'), now, secured)
    BY <1>10, <1>11, <1>12, <1>13 DEF UnderWay
<1>15. TypeInv'
    BY <1>4, <1>10 DEF IInv, TypeInv
<1> QED
    BY <1>4, <1>8, <1>10, <1>14, <1>15 DEF IInv

LEMMA ClientReceivesStep ==
    ASSUME IInv, ClientReceives
    PROVE  IInv'
<1> DEFINE m == Head(toClient)
<1>1. /\ client \in Client /\ calls \in [Transactions -> Fates] /\ Waits(client, calls)
      /\ toClient \in Seq(Envelope) /\ toClient # <<>>
    BY DEF IInv, TypeInv, Fates, ClientReceives
<1>2. m \in Carried(toClient) /\ Down(m, client, server, now)
    BY <1>1, CarriedRead DEF IInv, UnderWay
<1>3. Turned(client, client, calls) /\ Turned(client, [client EXCEPT !.deaf = TRUE], calls)
    BY <1>1, DeafTurns
<1>4. SUFFICES ASSUME ~ \E r \in client.requests :
                          r.id = m.id /\ m.type = "OPN" /\ client' = Opened(client, r, m.token)
                                      /\ calls' = calls
               PROVE  Turned(client, client', calls') /\ Onward(calls, calls', server.taken)
    <2> HIDE DEF m
    <2>1. CASE \E r \in client.requests :
                   r.id = m.id /\ m.type = "OPN" /\ client' = Opened(client, r, m.token)
                               /\ calls' = calls
        BY <1>2, <2>1, ClientOpens
    <2>2. ASSUME Turned(client, client', calls'), Onward(calls, calls', server.taken)
          PROVE  IInv'
        BY <2>2, ClientReceivesSays, ClientKeeps DEF Turned
    <2> QED
        BY <1>4, <2>1, <2>2
<1>5. CASE client' = TransportClosed(client) /\ calls' = Failed(client.requests)
    <2>1. \A q \in client.requests : q.who \in Transactions => calls[q.who] = "pending"
        BY <1>1 DEF Waits, Awaited
    <2> QED
        BY <1>1, <1>5, <2>1, TransportClosedTurns, FailedOnward
<1>6. CASE UNCHANGED <<client, calls>>
    BY <1>3, <1>6, Unmoved
<1>7. CASE client' = [client EXCEPT !.deaf = TRUE] /\ calls' = calls
    BY <1>3, <1>7, Unmoved
<1>8. CASE Answered(m)
    <2>1. CASE UNCHANGED <<client, calls>>
        BY <1>3, <2>1, Unmoved
    <2>2. ASSUME m.type = "MSG",
                 NEW r \in {q \in client.requests : q.id = m.id},
                 client' = [client EXCEPT !.requests = @ \ {r}],
                 calls' = [calls EXCEPT ![r.who] = "answered"]
          PROVE  Turned(client, client', calls') /\ Onward(calls, calls', server.taken)
        <3>1. r \in client.requests /\ r.id = m.id
            BY <2>2
        <3>2. r.type = "MSG" /\ r.who = m.who /\ m.who \in server.taken
            BY <1>2, <2>2, <3>1 DEF Down, Fits
        <3>3. /\ r.who \in Transactions /\ calls[r.who] = "pending"
              /\ Turned(client, client', calls')
            BY <1>1, <2>2, <3>1, <3>2, AnsweredTurns
        <3>4. calls'[r.who] = "answered" /\ \A t \in Transactions : t # r.who => calls'[t] = calls[t]
            BY <1>1, <2>2, <3>3
        <3>5. Onward(calls, calls', server.taken)
            BY <3>2, <3>3, <3>4 DEF Onward
        <3> QED
            BY <3>3, <3>5
    <2>3. ASSUME m.type = "OPN",
                 NEW r \in {q \in client.requests : q.id = m.id},
                 client' = Opened(client, r, m.token), calls' = calls
          PROVE  FALSE
        BY <1>4, <2>3
    <2> HIDE DEF m
    <2> QED
        BY <1>8, <2>1, <2>2, <2>3 DEF Answered
<1>9. \/ client' = TransportClosed(client) /\ calls' = Failed(client.requests)
      \/ UNCHANGED <<client, calls>>
      \/ client' = [client EXCEPT !.deaf = TRUE] /\ calls' = calls
      \/ Answered(m)
    BY DEF ClientReceives
<1> QED
    BY <1>5, <1>6, <1>7, <1>8, <1>9

-----------------------------------------------------------------------------
(***************************************************************************)
(* The steps of the server.                                                *)
(***************************************************************************)
\* Without a new token
LEMMA ServerKeeps ==
    ASSUME IInv, server' \in Server, server'.asked = server.asked, server'.tokens = server.tokens,
           server.taken \subseteq server'.taken, server'.secured => server.secured,
           UNCHANGED <<now, secured, client, calls>>,
           toServer' \in Seq(Envelope), Carried(toServer') \subseteq Carried(toServer),
           toClient' \in Seq(Envelope),
           \A m \in Carried(toClient') : m \in Carried(toClient) \/ Down(m, client, server', now),
           \A m \in server'.checking :
               m \in server.checking \/ (Up(m, client, server, now, secured) /\ m.type = "OPN"),
           \A m \in server'.held :
               m \in server.held \/ (/\ Up(m, client, server, now, secured)
                                     /\ m.type = "MSG" /\ m.who \in server'.taken),
           Once(toServer', server'.taken, calls)
    PROVE  IInv'
<1>1. now' = now /\ secured' = secured /\ client' = client /\ calls' = calls
    OBVIOUS
<1>2. ASSUME NEW m, Up(m, client, server, now, secured)
      PROVE  Up(m, client, server', now, secured)
    BY <1>2, UpServed
<1>3. ASSUME NEW m, Down(m, client, server, now)
      PROVE  Down(m, client, server', now)
    BY <1>3, DownServed
<1>4. UnderWay(client, server, Carried(toServer), Carried(toClient), now, secured)
    BY DEF IInv
<1>5. UnderWay(client, server', Carried(toServer'), Carried(toClient'), now, secured)
    <2>1. \A m \in Carried(toServer') : Up(m, client, server', now, secured)
        BY <1>2, <1>4 DEF UnderWay
    <2>2. \A m \in server'.checking : Up(m, client, server', now, secured) /\ m.type = "OPN"
        BY <1>2, <1>4 DEF UnderWay
    <2>3. \A m \in server'.held :
             Up(m, client, server', now, secured) /\ m.type = "MSG" /\ m.who \in server'.taken
        BY <1>2, <1>4 DEF UnderWay
    <2>4. \A m \in Carried(toClient') : Down(m, client, server', now)
        BY <1>3, <1>4 DEF UnderWay
    <2> QED
        BY <1>4, <2>1, <2>2, <2>3, <2>4 DEF UnderWay
<1>6. Stacks(client, server', now)
    BY DEF IInv, Stacks
<1>7. TypeInv'
    BY <1>1 DEF IInv, TypeInv
<1>8. Waits(client, calls)
    BY DEF IInv
<1> QED
    BY <1>1, <1>5, <1>6, <1>7, <1>8 DEF IInv

\* What the server says, besides the end of the transport
LEMMA ServerSilent ==
    ASSUME toClient \in Seq(Envelope), NEW s, ServerActs(s, <<>>)
    PROVE  /\ toClient' \in Seq(Envelope)
           /\ \A x \in Carried(toClient') : x \in Carried(toClient) \/ x = END
<1>1. toClient' \in {toClient, toClient \o <<>> \o <<END>>, toClient \o <<>> \o <<>>}
    BY DEF ServerActs
<1>2. toClient' \in {toClient, Append(toClient, END)}
    BY <1>1, Said, EndIs
<1> QED
    BY <1>2, EndIs, CarriedAppended

LEMMA ServerSays ==
    ASSUME toClient \in Seq(Envelope), NEW s, NEW m \in Envelope, ServerActs(s, <<m>>)
    PROVE  /\ toClient' \in Seq(Envelope)
           /\ \A x \in Carried(toClient') : x \in Carried(toClient) \/ x = END \/ x = m
<1>1. toClient' \in {toClient, toClient \o <<m>> \o <<END>>, toClient \o <<m>> \o <<>>}
    BY DEF ServerActs
<1>2. toClient' \in {toClient, Append(Append(toClient, m), END), Append(toClient, m)}
    BY <1>1, Said
<1>3. Append(toClient, m) \in Seq(Envelope) /\ Carried(Append(toClient, m)) = Carried(toClient) \cup {m}
    BY CarriedAppended
<1>4. /\ Append(Append(toClient, m), END) \in Seq(Envelope)
      /\ Carried(Append(Append(toClient, m), END)) = Carried(toClient) \cup {m} \cup {END}
    BY <1>3, EndIs, CarriedAppended
<1> QED
    BY <1>2, <1>3, <1>4

\* What the server has read, it reads no more.
LEMMA OnceRead ==
    ASSUME NEW w \in Seq(Envelope), w # <<>>, NEW taken, taken \subseteq Transactions, NEW k,
           Once(w, taken, k)
    PROVE  /\ Once(Tail(w), taken, k) /\ Once(<<>>, taken, k)
           /\ Head(w).who \in Transactions =>
                 /\ Head(w).who \notin taken
                 /\ Once(Tail(w), taken \cup {Head(w).who}, k)
                 /\ Once(<<>>, taken \cup {Head(w).who}, k)
<1> DEFINE v == Tail(w)
           h == Head(w)
<1>1. /\ Len(v) = Len(w) - 1 /\ \A i \in 1 .. Len(v) : v[i] = w[i + 1]
      /\ Len(w) \in Nat /\ Len(w) # 0 /\ h = w[1]
    OBVIOUS
<1> HIDE DEF v, h
<1>2. \A i \in 1 .. Len(v) : i + 1 \in 1 .. Len(w) /\ i + 1 # 1
    BY <1>1
<1>3. 1 \in 1 .. Len(w)
    BY <1>1
<1>4. \A i, j \in 1 .. Len(v) : i + 1 = j + 1 => i = j
    BY <1>1
<1>5. \A i, j \in 1 .. Len(v) : (v[i].who \in Transactions /\ v[i].who = v[j].who) => i = j
    BY <1>1, <1>2, <1>4 DEF Once
<1>6. \A i \in 1 .. Len(v) :
         v[i].who \in Transactions => /\ v[i].who \notin taken /\ v[i].who # h.who
                                      /\ k[v[i].who] \in {"pending", "failed"}
    BY <1>1, <1>2, <1>3 DEF Once
<1>7. h.who \in Transactions => h.who \notin taken /\ k[h.who] # "idle"
    BY <1>1, <1>3 DEF Once
<1>8. \A t \in taken : k[t] # "idle"
    BY DEF Once
<1>9. Once(v, taken, k) /\ (h.who \in Transactions => Once(v, taken \cup {h.who}, k))
    BY <1>5, <1>6, <1>7, <1>8 DEF Once
<1>10. Once(<<>>, taken, k) /\ (h.who \in Transactions => Once(<<>>, taken \cup {h.who}, k))
    BY <1>7, <1>8 DEF Once
<1> QED
    BY <1>7, <1>9, <1>10 DEF v, h

LEMMA OnceNone ==
    ASSUME NEW w, NEW taken, NEW k, Once(w, taken, k)
    PROVE  Once(<<>>, taken, k)
BY DEF Once

\* #_prepare_security_token
LEMMA IssuedIs ==
    ASSUME now \in Nat, NEW s \in Server, NEW c, Stacks(c, s, now), c \in Client,
           NEW m \in Envelope, m.start <= now
    PROVE  /\ Issued(s, m) \in Server /\ Issued(s, m).asked = Append(s.asked, m.start)
           /\ Issued(s, m).secured = s.secured /\ Issued(s, m).taken = s.taken
           /\ Issued(s, m).held = s.held /\ Issued(s, m).checking = {}
           /\ Issued(s, m).aborted = s.aborted
           /\ Stacks(c, Issued(s, m), now)
<1> DEFINE a == s.asked
           n == Len(s.asked) + 1
           b == Append(a, m.start)
           token == Token(n, 2 * now)
           u == Pushed(s.tokens, token)
           z == Issued(s, m)
<1>1. /\ a \in Seq(Nat) /\ m.start \in Nat /\ Len(a) \in Nat /\ s.tokens \in Seq(StackToken)
      /\ c.tokens \in Seq(StackToken) /\ c.active \in Nat
    BY DEF Server, Envelope, Client
<1>2. b \in Seq(Nat) /\ Len(b) = n /\ b[n] = m.start /\ \A id \in 1 .. Len(a) : b[id] = a[id]
    BY <1>1
<1>3. token \in StackToken /\ token.id = n /\ token.date = 2 * now
    BY <1>1 DEF Token, StackToken
<1>4. z = [s EXCEPT !.asked = b, !.tokens = u, !.status = "open", !.checking = {}]
    BY DEF Issued
<1>5. Dated(s.tokens, a, now) /\ Dated(c.tokens, a, now) /\ c.active <= Len(a)
    BY DEF Stacks
<1>6. Dated(s.tokens, b, now) /\ Dated(c.tokens, b, now)
    BY <1>1, <1>5, DatedAppended
<1>7. \A id \in Nat : id <= Len(a) => (Lives(b, now, id) <=> Lives(a, now, id))
    BY <1>1, LivesAppended
<1> HIDE DEF a, b, token, u, z
<1>8. n \in 1 .. Len(b) /\ 2 * b[n] <= token.date /\ token.date <= 2 * now
    BY <1>1, <1>2, <1>3
<1>9. /\ u \in Seq(StackToken) /\ Dated(u, b, now) /\ Knows(u, b, now, n)
      /\ \A id : Knows(s.tokens, b, now, id) => Knows(u, b, now, id)
    <2>1. token.id \in 1 .. Len(b) /\ 2 * b[token.id] <= token.date /\ token.date <= 2 * now
        BY <1>3, <1>8
    <2>2. token.id = n
        BY <1>3
    <2> HIDE DEF n
    <2>3. /\ Pushed(s.tokens, token) \in Seq(StackToken) /\ Dated(Pushed(s.tokens, token), b, now)
          /\ Knows(Pushed(s.tokens, token), b, now, token.id)
          /\ \A id : Knows(s.tokens, b, now, id) => Knows(Pushed(s.tokens, token), b, now, id)
        BY <1>1, <1>2, <1>3, <1>6, <2>1, PushedKnows
    <2> QED
        BY <2>2, <2>3 DEF u
<1>10. /\ z \in Server /\ z.asked = b /\ z.tokens = u
       /\ z.secured = s.secured /\ z.taken = s.taken /\ z.held = s.held /\ z.checking = {}
       /\ z.aborted = s.aborted
    BY <1>2, <1>4, <1>9 DEF Server
<1>11. \A id \in 1 .. Len(a) : id \in Nat /\ id <= Len(a)
    BY <1>1
<1>12. \A id \in 1 .. Len(b) : id \in 1 .. Len(a) \/ id = n
    BY <1>1, <1>2 DEF a
<1>13. \A id \in 1 .. Len(b) : b[id] <= now
    <2>1. \A id \in 1 .. Len(a) : a[id] <= now
        BY DEF Stacks, a
    <2> QED
        BY <1>2, <1>12, <2>1
<1>14. ASSUME NEW id \in 1 .. Len(b)
       PROVE  Knows(u, b, now, id)
    <2>1. CASE id = n
        BY <1>9, <2>1
    <2>2. CASE id \in 1 .. Len(a)
        <3>1. Knows(s.tokens, a, now, id)
            BY <2>2 DEF Stacks, a
        <3>2. Knows(s.tokens, b, now, id)
            BY <1>7, <1>11, <2>2, <3>1 DEF Knows
        <3> QED
            BY <1>9, <3>2
    <2> QED
        BY <1>12, <2>1, <2>2
<1>15. c.active <= Len(b) /\ Knows(c.tokens, b, now, c.active)
    <2>1. Knows(c.tokens, a, now, c.active)
        BY DEF Stacks, a
    <2>2. Knows(c.tokens, b, now, c.active)
        BY <1>1, <1>5, <1>7, <2>1 DEF Knows
    <2> QED
        BY <1>1, <1>2, <1>5, <2>2 DEF a
<1>16. Stacks(c, z, now)
    BY <1>6, <1>9, <1>10, <1>13, <1>14, <1>15 DEF Stacks
<1> QED
    BY <1>10, <1>16 DEF z, b, a

\* #_handle_OpenSecureChannelRequest, whose request was read or has been checked
LEMMA OpenHandledStep ==
    ASSUME IInv, NEW m, Up(m, client, server, now, secured), m.type = "OPN", OpenHandled(m),
           toServer' \in Seq(Envelope), Carried(toServer') \subseteq Carried(toServer),
           Once(toServer', server.taken, calls)
    PROVE  IInv'
<1>1. /\ server \in Server /\ client \in Client /\ now \in Nat /\ server.asked \in Seq(Nat)
      /\ toClient \in Seq(Envelope) /\ Stacks(client, server, now) /\ Waits(client, calls)
      /\ UnderWay(client, server, Carried(toServer), Carried(toClient), now, secured)
    BY DEF IInv, TypeInv, Server
<1>2. m \in Envelope /\ m.start <= now /\ Asks(m.type, m.who) /\ Fits(m, client, m.start)
    BY DEF Up
<1>3. ASSUME ServerActs(Issued(server, m),
                        <<Message("OPN", m.id, m.who, Len(server.asked) + 1, None)>>)
      PROVE  IInv'
    <2> DEFINE z == Issued(server, m)
               n == Len(server.asked) + 1
               x == Message("OPN", m.id, m.who, n, None)
    <2>1. /\ z \in Server /\ z.asked = Append(server.asked, m.start)
          /\ z.secured = server.secured /\ z.taken = server.taken /\ z.held = server.held
          /\ z.checking = {} /\ Stacks(client, z, now)
        BY <1>1, <1>2, IssuedIs
    <2>2. /\ x = [type |-> "OPN", id |-> m.id, who |-> m.who, token |-> n, key |-> 0, start |-> 0]
          /\ n \in Nat
        BY <1>1 DEF Message, None
    <2>3. ServerActs(z, <<x>>)
        BY <1>3
    <2> HIDE DEF z, x
    <2>4. x \in Envelope /\ x.type = "OPN" /\ x.id = m.id /\ x.who = m.who /\ x.token = n
          /\ x.key = 0 /\ x.start = 0
        BY <1>2, <2>2 DEF Envelope
    <2>5. /\ toClient' \in Seq(Envelope)
          /\ \A y \in Carried(toClient') : y \in Carried(toClient) \/ y = END \/ y = x
        BY <1>1, <2>3, <2>4, ServerSays
    <2>6. server' = z /\ UNCHANGED <<now, secured, client, calls>>
        BY <2>3 DEF ServerActs
    <2>7. m.start \in Nat
        BY <1>2 DEF Envelope
    <2>8. ASSUME NEW y, Up(y, client, server, now, secured)
          PROVE  Up(y, client, z, now, secured)
        BY <1>1, <2>1, <2>7, <2>8, UpIssued
    <2>9. ASSUME NEW y, Down(y, client, server, now)
          PROVE  Down(y, client, z, now)
        BY <1>1, <2>1, <2>7, <2>9, DownIssued
    <2>10. Len(z.asked) = n /\ z.asked[n] = m.start /\ n >= 1 /\ z.asked \in Seq(Nat)
        BY <1>1, <2>1, <2>7
    <2>11. Fits(x, client, z.asked[x.token])
        BY <1>2, <2>4, <2>10 DEF Fits
    <2>12. Down(x, client, z, now)
        BY <1>2, <2>2, <2>4, <2>10, <2>11 DEF Down
    <2>13. Down(END, client, z, now)
        BY <2>10, EndDown
    <2>14. UnderWay(client, z, Carried(toServer'), Carried(toClient'), now, secured)
        <3>1. \A y \in Carried(toServer') : Up(y, client, z, now, secured)
            BY <1>1, <2>8 DEF UnderWay
        <3>2. \A y \in Carried(toClient') : Down(y, client, z, now)
            BY <1>1, <2>5, <2>9, <2>12, <2>13 DEF UnderWay
        <3>3. \A y \in z.held : Up(y, client, z, now, secured) /\ y.type = "MSG" /\ y.who \in z.taken
            BY <1>1, <2>1, <2>8 DEF UnderWay
        <3> QED
            BY <1>1, <2>1, <3>1, <3>2, <3>3 DEF UnderWay
    <2>15. TypeInv'
        BY <2>1, <2>5, <2>6 DEF IInv, TypeInv
    <2> QED
        BY <1>1, <2>1, <2>6, <2>14, <2>15 DEF IInv
<1>4. ASSUME ServerActs(Refusing(server), <<>>)
      PROVE  IInv'
    <2>1. /\ server' = Refusing(server) /\ UNCHANGED <<now, secured, client, calls>>
        BY <1>4 DEF ServerActs
    <2>2. /\ server' \in Server /\ server'.asked = server.asked /\ server'.tokens = server.tokens
          /\ server'.taken = server.taken /\ server'.secured = FALSE /\ server'.checking = {}
          /\ server'.held = server.held
        BY <1>1, <2>1 DEF Refusing, Server
    <2>3. /\ toClient' \in Seq(Envelope)
          /\ \A x \in Carried(toClient') : x \in Carried(toClient) \/ x = END
        BY <1>1, <1>4, ServerSilent
    <2>4. Down(END, client, server', now)
        BY <1>1, <2>2, EndDown
    <2> QED
        BY <2>1, <2>2, <2>3, <2>4, ServerKeeps
<1> QED
    BY <1>3, <1>4 DEF OpenHandled

\* The server says nothing, or reports an error, and goes on as s.
LEMMA ServerGoes ==
    ASSUME IInv, NEW s \in Server, ServerActs(s, <<>>) \/ ServerActs(s, <<ERR>>),
           s.asked = server.asked, s.tokens = server.tokens, s.secured = server.secured,
           server.taken \subseteq s.taken,
           toServer' \in Seq(Envelope), Carried(toServer') \subseteq Carried(toServer),
           \A m \in s.checking :
               m \in server.checking \/ (Up(m, client, server, now, secured) /\ m.type = "OPN"),
           \A m \in s.held :
               m \in server.held \/ (/\ Up(m, client, server, now, secured)
                                     /\ m.type = "MSG" /\ m.who \in s.taken),
           Once(toServer', s.taken, calls)
    PROVE  IInv'
<1>1. toClient \in Seq(Envelope) /\ s.asked \in Seq(Nat)
    BY DEF IInv, TypeInv, Server
<1>2. server' = s /\ UNCHANGED <<now, secured, client, calls>>
    BY DEF ServerActs
<1>3. /\ toClient' \in Seq(Envelope)
      /\ \A x \in Carried(toClient') : x \in Carried(toClient) \/ x = END \/ x = ERR
    BY <1>1, EndIs, ServerSilent, ServerSays
<1>4. Down(END, client, s, now) /\ Down(ERR, client, s, now)
    BY <1>1, EndDown
<1> QED
    BY <1>2, <1>3, <1>4, ServerKeeps

\* close, #_abort
LEMMA ClosedIs ==
    ASSUME NEW s \in Server
    PROVE  /\ Closed(s) \in Server /\ Closed(s).asked = s.asked /\ Closed(s).tokens = s.tokens
           /\ Closed(s).secured = s.secured /\ Closed(s).taken = s.taken
           /\ Closed(s).held = {} /\ Closed(s).checking = s.checking
BY DEF Closed, Server

LEMMA ServerReceivesStep ==
    ASSUME IInv, ServerReceives
    PROVE  IInv'
<1> DEFINE m == Head(toServer)
<1>1. /\ server \in Server /\ toServer \in Seq(Envelope) /\ toServer # <<>>
      /\ server.taken \subseteq Transactions /\ Once(toServer, server.taken, calls)
      /\ UnderWay(client, server, Carried(toServer), Carried(toClient), now, secured)
    BY DEF IInv, TypeInv, ServerReceives, Server
<1>2. m \in Carried(toServer) /\ Up(m, client, server, now, secured)
    BY <1>1, CarriedRead DEF UnderWay
<1>3. toServer' \in {<<>>, Tail(toServer)} /\ Received(m)
    BY DEF ServerReceives
<1>4. /\ toServer' \in Seq(Envelope) /\ Carried(toServer') \subseteq Carried(toServer)
      /\ Once(toServer', server.taken, calls)
      /\ m.who \in Transactions => Once(toServer', server.taken \cup {m.who}, calls)
    <2>1. CASE toServer' = <<>>
        BY <1>1, <2>1, CarriedNone, OnceRead
    <2>2. CASE toServer' = Tail(toServer)
        BY <1>1, <2>2, CarriedRead, OnceRead
    <2> QED
        BY <1>3, <2>1, <2>2
<1> HIDE DEF m
<1>5. CASE m.type = "OPN" /\ ServerActs([server EXCEPT !.status = "connecting", !.checking = {m}], <<>>)
    <2> DEFINE s == [server EXCEPT !.status = "connecting", !.checking = {m}]
    <2>1. m \in Envelope
        BY <1>2 DEF Up
    <2>2. /\ s \in Server /\ s.asked = server.asked /\ s.tokens = server.tokens
          /\ s.secured = server.secured /\ s.taken = server.taken
          /\ s.held = server.held /\ s.checking = {m}
        BY <1>1, <2>1 DEF Server
    <2>3. ServerActs(s, <<>>)
        BY <1>5
    <2> HIDE DEF s
    <2> QED
        BY <1>2, <1>4, <1>5, <2>2, <2>3, ServerGoes
<1>6. CASE m.type = "OPN" /\ OpenHandled(m)
    BY <1>2, <1>4, <1>6, OpenHandledStep
<1>7. CASE /\ m.type = "MSG"
           /\ ServerActs([server EXCEPT !.held = @ \cup {m}, !.taken = @ \cup {m.who}], <<>>)
    <2> DEFINE s == [server EXCEPT !.held = @ \cup {m}, !.taken = @ \cup {m.who}]
    <2>1. m \in Envelope /\ m.who \in Transactions
        BY <1>2, <1>7 DEF Up, Asks
    <2>2. /\ s \in Server /\ s.asked = server.asked /\ s.tokens = server.tokens
          /\ s.secured = server.secured /\ s.taken = server.taken \cup {m.who}
          /\ s.held = server.held \cup {m} /\ s.checking = server.checking
        BY <1>1, <2>1 DEF Server
    <2>3. ServerActs(s, <<>>)
        BY <1>7
    <2> HIDE DEF s
    <2> QED
        BY <1>2, <1>4, <1>7, <2>1, <2>2, <2>3, ServerGoes
<1>8. CASE ServerActs(Closed(server), <<ERR>>) \/ ServerActs(Closed(server), <<>>)
    BY <1>1, <1>4, <1>8, ClosedIs, ServerGoes
<1> QED
    BY <1>3, <1>5, <1>6, <1>7, <1>8 DEF Received, Fatal

LEMMA OpenCheckedStep ==
    ASSUME IInv, OpenChecked
    PROVE  IInv'
<1>1. PICK m \in server.checking : OpenHandled(m)
    BY DEF OpenChecked
<1>2. Up(m, client, server, now, secured) /\ m.type = "OPN"
    BY DEF IInv, UnderWay
<1>3. toServer' = toServer /\ toServer \in Seq(Envelope) /\ Once(toServer, server.taken, calls)
    BY DEF OpenChecked, IInv, TypeInv
<1> QED
    BY <1>1, <1>2, <1>3, OpenHandledStep

\* #_get_security_options_for_MSG: keys of a token that was issued, and those of the token that
\* is named as long as it lives.
LEMMA ResponseKeyIs ==
    ASSUME now \in Nat, NEW s \in Server, NEW c, Stacks(c, s, now),
           NEW id \in Nat, id <= Len(s.asked)
    PROVE  /\ ResponseKey(s, id) \in Nat /\ ResponseKey(s, id) <= Len(s.asked)
           /\ (s.secured /\ Lives(s.asked, now, id)) => ResponseKey(s, id) = id
<1>1. /\ s.tokens \in Seq(StackToken) /\ s.asked \in Seq(Nat) /\ Len(s.asked) \in Nat
    BY DEF Server
<1>2. HasKeys(s.tokens, id) <=> Has(s.tokens, now, id)
    BY <1>1, HasIs
<1>3. LatestKeys(s.tokens) \in Nat /\ LatestKeys(s.tokens) <= Len(s.asked)
    <2>1. CASE LatestKeys(s.tokens) = None
        BY <1>1, <2>1 DEF None
    <2>2. ASSUME NEW i \in 1 .. Len(s.tokens), LatestKeys(s.tokens) = s.tokens[i].id
          PROVE  LatestKeys(s.tokens) \in Nat /\ LatestKeys(s.tokens) <= Len(s.asked)
        <3>1. s.tokens[i].id \in 1 .. Len(s.asked)
            BY <2>2 DEF Stacks, Dated
        <3> QED
            BY <1>1, <2>2, <3>1
    <2> QED
        BY <1>1, <2>1, <2>2, LatestIs
<1>4. ResponseKey(s, id) \in {0, id, LatestKeys(s.tokens)}
    BY DEF ResponseKey, None
<1>5. ASSUME s.secured, Lives(s.asked, now, id)
      PROVE  ResponseKey(s, id) = id
    <2>1. id \in 1 .. Len(s.asked)
        BY <1>1, <1>5 DEF Lives
    <2>2. Knows(s.tokens, s.asked, now, id)
        BY <2>1 DEF Stacks
    <2>3. HasKeys(s.tokens, id)
        BY <1>2, <1>5, <2>2 DEF Knows
    <2> QED
        BY <1>5, <2>3 DEF ResponseKey
<1> QED
    BY <1>1, <1>3, <1>4, <1>5

LEMMA RespondStep ==
    ASSUME IInv, Respond
    PROVE  IInv'
<1>1. PICK m \in server.held :
          ServerActs([server EXCEPT !.held = @ \ {m}],
                     <<Message("MSG", m.id, m.who, m.token, ResponseKey(server, m.token))>>)
    BY DEF Respond
<1> DEFINE s == [server EXCEPT !.held = @ \ {m}]
           key == ResponseKey(server, m.token)
           x == Message("MSG", m.id, m.who, m.token, key)
<1>2. ServerActs(s, <<x>>)
    BY <1>1
<1>3. /\ server \in Server /\ now \in Nat /\ server.asked \in Seq(Nat) /\ toClient \in Seq(Envelope)
      /\ toServer \in Seq(Envelope) /\ toServer' = toServer
      /\ Stacks(client, server, now) /\ Once(toServer, server.taken, calls)
    BY DEF IInv, TypeInv, Server, Respond
<1>4. Up(m, client, server, now, secured) /\ m.type = "MSG" /\ m.who \in server.taken
    BY DEF IInv, UnderWay
<1>5. /\ s \in Server /\ s.asked = server.asked /\ s.tokens = server.tokens
      /\ s.secured = server.secured /\ s.taken = server.taken
      /\ s.held \subseteq server.held /\ s.checking = server.checking
    BY <1>3 DEF Server
<1>6. /\ m \in Envelope /\ m.token \in Nat /\ m.token <= Len(server.asked)
      /\ Fits(m, client, m.start) /\ Asks(m.type, m.who)
      /\ Knows(client.tokens, server.asked, now, m.token)
    BY <1>4 DEF Up, Envelope
<1>7. /\ key \in Nat /\ key <= Len(server.asked)
      /\ (server.secured /\ Lives(server.asked, now, m.token)) => key = m.token
    BY <1>3, <1>6, ResponseKeyIs
<1> HIDE DEF s, key
<1>8. x = [type |-> "MSG", id |-> m.id, who |-> m.who, token |-> m.token, key |-> key, start |-> 0]
    BY DEF Message
<1> HIDE DEF x
<1>9. /\ x \in Envelope /\ x.type = "MSG" /\ x.id = m.id /\ x.who = m.who /\ x.token = m.token
      /\ x.key = key /\ x.start = 0
    BY <1>6, <1>7, <1>8 DEF Envelope
<1>10. /\ toClient' \in Seq(Envelope)
       /\ \A y \in Carried(toClient') : y \in Carried(toClient) \/ y = END \/ y = x
    BY <1>2, <1>3, <1>9, ServerSays
<1>11. server' = s /\ UNCHANGED <<now, secured, client, calls>>
    BY <1>2 DEF ServerActs
<1>12. Fits(x, client, server.asked[x.token])
    BY <1>4, <1>6, <1>9 DEF Fits
<1>13. Down(x, client, server, now)
    BY <1>4, <1>6, <1>7, <1>9, <1>12 DEF Down, Sealed
<1>14. Down(x, client, s, now)
    BY <1>5, <1>13, DownServed
<1>15. Down(END, client, s, now)
    BY <1>3, <1>5, EndDown
<1> QED
    BY <1>3, <1>5, <1>10, <1>11, <1>14, <1>15, ServerKeeps

LEMMA RefusalSentStep ==
    ASSUME IInv, RefusalSent
    PROVE  IInv'
<1> DEFINE s == [server EXCEPT !.status = "refused"]
<1>1. ServerActs(s, <<ERR>>) /\ toServer' = toServer
    BY DEF RefusalSent
<1>2. server \in Server /\ toServer \in Seq(Envelope) /\ Once(toServer, server.taken, calls)
    BY DEF IInv, TypeInv
<1>3. /\ s \in Server /\ s.asked = server.asked /\ s.tokens = server.tokens
      /\ s.secured = server.secured /\ s.taken = server.taken
      /\ s.held = server.held /\ s.checking = server.checking
    BY <1>2 DEF Server
<1> HIDE DEF s
<1> QED
    BY <1>1, <1>2, <1>3, ServerGoes

LEMMA ServerClosesStep ==
    ASSUME IInv, ServerCloses
    PROVE  IInv'
<1>1. ServerActs(Closed(server), <<>>) /\ toServer' = <<>>
    BY DEF ServerCloses
<1>2. server \in Server /\ Once(toServer, server.taken, calls)
    BY DEF IInv, TypeInv
<1>3. Once(<<>>, server.taken, calls)
    BY <1>2, OnceNone
<1> QED
    BY <1>1, <1>2, <1>3, CarriedNone, ClosedIs, ServerGoes

-----------------------------------------------------------------------------
(***************************************************************************)
(* The network and the time.                                               *)
(***************************************************************************)
LEMMA LostStep ==
    ASSUME IInv, Lost
    PROVE  IInv'
<1>1. /\ server \in Server /\ client \in Client /\ now \in Nat /\ server.asked \in Seq(Nat)
      /\ toServer \in Seq(Envelope) /\ toClient \in Seq(Envelope)
      /\ server.taken \subseteq Transactions /\ Once(toServer, server.taken, calls)
      /\ UnderWay(client, server, Carried(toServer), Carried(toClient), now, secured)
    BY DEF IInv, TypeInv, Server
<1>2. UNCHANGED <<now, secured, client, server, calls>>
    BY DEF Lost
<1>3. PICK i \in 0 .. Len(toServer) : toServer' = Append(SubSeq(toServer, 1, i), END)
    BY DEF Lost
<1>4. PICK j \in 0 .. Len(toClient) : toClient' = Append(SubSeq(toClient, 1, j), END)
    BY DEF Lost
<1> DEFINE v == SubSeq(toServer, 1, i)
           u == SubSeq(toClient, 1, j)
<1>5. /\ v \in Seq(Envelope) /\ Carried(v) \subseteq Carried(toServer)
      /\ Len(v) = i /\ \A k \in 1 .. i : v[k] = toServer[k]
    BY <1>1, CarriedCut
<1>6. u \in Seq(Envelope) /\ Carried(u) \subseteq Carried(toClient)
    BY <1>1, CarriedCut
<1> HIDE DEF v, u
<1>7. /\ toServer' \in Seq(Envelope) /\ Carried(toServer') = Carried(v) \cup {END}
      /\ toServer' = Append(v, END)
    BY <1>3, <1>5, EndIs, CarriedAppended DEF v
<1>8. toClient' \in Seq(Envelope) /\ Carried(toClient') = Carried(u) \cup {END}
    BY <1>4, <1>6, EndIs, CarriedAppended DEF u
<1>9. Onward(calls, calls, server.taken)
    BY Unmoved
<1>10. Once(v, server.taken, calls)
    <2> DEFINE z == 0
    <2>1. z \in Nat /\ \A k \in 1 .. Len(v) :
             v[k].who \in Transactions => k + z \in 1 .. Len(toServer) /\ v[k] = toServer[k + z]
        <3>1. \A k \in 1 .. Len(v) : k + 0 = k /\ k \in 1 .. Len(toServer)
            BY <1>1, <1>5
        <3> QED
            BY <1>5, <3>1
    <2> HIDE DEF z
    <2> QED
        BY <1>1, <1>5, <1>9, <2>1, OnceKept
<1>11. Once(Append(v, END), server.taken, calls)
    <2>1. END.who \notin Transactions /\ END \in Envelope
        BY EndIs, Constants
    <2> QED
        BY <1>1, <1>5, <1>9, <1>10, <2>1, OnceSaid
<1>12. Up(END, client, server, now, secured) /\ Down(END, client, server, now)
    BY <1>1, EndUp, EndDown
<1>13. UnderWay(client, server, Carried(toServer'), Carried(toClient'), now, secured)
    BY <1>1, <1>5, <1>6, <1>7, <1>8, <1>12 DEF UnderWay
<1>14. TypeInv'
    BY <1>2, <1>7, <1>8 DEF IInv, TypeInv
<1>15. Stacks(client, server, now) /\ Waits(client, calls)
    BY DEF IInv
<1> QED
    BY <1>2, <1>7, <1>11, <1>13, <1>14, <1>15 DEF IInv

LEMMA TickStep ==
    ASSUME IInv, Tick
    PROVE  IInv'
<1>1. /\ server \in Server /\ client \in Client /\ now \in Nat /\ server.asked \in Seq(Nat)
      /\ server.tokens \in Seq(StackToken) /\ client.tokens \in Seq(StackToken)
      /\ client.active \in Nat
      /\ Stacks(client, server, now)
      /\ UnderWay(client, server, Carried(toServer), Carried(toClient), now, secured)
    BY DEF IInv, TypeInv, Server, Client
<1>2. /\ now' = now + 1 /\ now < MaxTime
      /\ UNCHANGED <<secured, client, server, toServer, toClient, calls, faults>>
    BY DEF Tick
<1> DEFINE t == now + 1
<1>3. Dated(server.tokens, server.asked, now) /\ Dated(client.tokens, server.asked, now)
    BY <1>1 DEF Stacks
<1>4. Stacks(client, server, t)
    <2>1. \A id \in 1 .. Len(server.asked) : id \in Nat /\ id <= Len(server.asked)
        BY <1>1
    <2>2. \A id \in 1 .. Len(server.asked) : server.asked[id] \in Nat /\ server.asked[id] <= now
        BY <1>1 DEF Stacks
    <2>3. \A id \in 1 .. Len(server.asked) : server.asked[id] <= t
        BY <1>1, <2>2
    <2>4. Dated(server.tokens, server.asked, t) /\ Dated(client.tokens, server.asked, t)
        BY <1>1, <1>3, DatedLater
    <2>5. ASSUME NEW id \in 1 .. Len(server.asked)
          PROVE  Knows(server.tokens, server.asked, t, id)
        <3>1. Knows(server.tokens, server.asked, now, id)
            BY <1>1 DEF Stacks
        <3> QED
            BY <1>1, <1>3, <2>1, <3>1, KnowsLater
    <2>6. client.active <= Len(server.asked) /\ Knows(client.tokens, server.asked, now, client.active)
        BY <1>1 DEF Stacks
    <2>7. Knows(client.tokens, server.asked, t, client.active)
        BY <1>1, <1>3, <2>6, KnowsLater
    <2> HIDE DEF t
    <2> QED
        BY <2>3, <2>4, <2>5, <2>6, <2>7 DEF Stacks
<1>5. ASSUME NEW m, Up(m, client, server, now, secured)
      PROVE  Up(m, client, server, t, secured)
    BY <1>1, <1>3, <1>5, UpLater
<1>6. ASSUME NEW m, Down(m, client, server, now)
      PROVE  Down(m, client, server, t)
    BY <1>1, <1>3, <1>6, DownLater
<1>7. t \in 0 .. MaxTime
    BY <1>1, <1>2, Constants
<1> HIDE DEF t
<1>8. UnderWay(client, server, Carried(toServer), Carried(toClient), t, secured)
    BY <1>1, <1>5, <1>6 DEF UnderWay
<1>9. TypeInv' /\ now' = t
    BY <1>2, <1>7 DEF IInv, TypeInv, t
<1>10. Waits(client, calls) /\ Once(toServer, server.taken, calls)
    BY DEF IInv
<1> QED
    BY <1>2, <1>4, <1>8, <1>9, <1>10 DEF IInv

-----------------------------------------------------------------------------
(***************************************************************************)
(* The theorems.                                                           *)
(***************************************************************************)
LEMMA InitHolds == Init => IInv
<1> SUFFICES ASSUME Init PROVE IInv
    OBVIOUS
<1>1. /\ now = 0 /\ secured \in BOOLEAN /\ toServer = <<>> /\ toClient = <<>>
      /\ calls = [t \in Transactions |-> "idle"]
    BY ChannelAssumption DEF Init
<1>2. client = [transport |-> "open", opened |-> FALSE, active |-> 0, tokens |-> <<>>,
                renewal |-> 0, requests |-> {}, lastId |-> 0, deaf |-> FALSE,
                create |-> "connected", close |-> "no"]
    BY DEF Init, None
<1>3. server = [status |-> "waiting", aborted |-> FALSE, secured |-> secured, tokens |-> <<>>,
                checking |-> {}, held |-> {}, asked |-> <<>>, taken |-> {}]
    BY DEF Init
<1>4. client \in Client
    BY <1>2 DEF Client
<1>5. server \in Server
    BY <1>1, <1>3 DEF Server
<1>6. TypeInv
    BY <1>1, <1>4, <1>5, CarriedNone, Constants DEF TypeInv
<1>7. Stacks(client, server, now)
    BY <1>1, <1>2, <1>3 DEF Stacks, Dated, Knows, Lives
<1>8. Waits(client, calls)
    BY <1>1, <1>2 DEF Waits, Apart, Attended, Phases, None, IsValid
<1>9. UnderWay(client, server, Carried(toServer), Carried(toClient), now, secured)
    BY <1>1, <1>3, CarriedNone DEF UnderWay
<1>10. Once(toServer, server.taken, calls)
    BY <1>1, <1>3 DEF Once
<1> QED
    BY <1>6, <1>7, <1>8, <1>9, <1>10 DEF IInv

LEMMA NextKeeps == IInv /\ [Next]_vars => IInv'
<1> SUFFICES ASSUME IInv, [Next]_vars PROVE IInv'
    OBVIOUS
<1>1. CASE UNCHANGED vars
    <2>1. UNCHANGED <<now, secured, client, server, toServer, toClient, calls>>
        BY <1>1 DEF vars
    <2> QED
        BY <2>1 DEF IInv, TypeInv
<1>2. ASSUME NEW t \in Transactions, Call(t)
      PROVE  IInv'
    BY <1>2, CallStep
<1>3. CASE Create \/ Close \/ Dispose \/ TimedOut \/ SocketClosed \/ Renew \/ ClientReceives
    BY <1>3, CreateStep, CloseStep, DisposeStep, TimedOutStep, SocketClosedStep, RenewStep,
       ClientReceivesStep
<1>4. CASE ServerReceives \/ OpenChecked \/ Respond \/ RefusalSent \/ ServerCloses
    BY <1>4, ServerReceivesStep, OpenCheckedStep, RespondStep, RefusalSentStep, ServerClosesStep
<1>5. CASE Lost \/ Tick
    BY <1>5, LostStep, TickStep
<1> QED
    BY <1>1, <1>2, <1>3, <1>4, <1>5 DEF Next

\* The invariant of the channel: what the stacks know, who waits, and what is under way.
THEOREM Invariance == Spec => []IInv
<1>1. Init => IInv
    BY InitHolds
<1>2. IInv /\ [Next]_vars => IInv'
    BY NextKeeps
<1> QED
    BY <1>1, <1>2, PTL DEF Spec

\* An entry of a stack names a token that was issued, and is not dated ahead.
LEMMA StackTyped ==
    ASSUME now \in Nat, NEW stack \in Seq(StackToken), Dated(stack, server.asked, now)
    PROVE  stack \in Seq(TokenType)
<1>1. ASSUME NEW i \in 1 .. Len(stack)
      PROVE  stack[i] \in TokenType
    <2>1. stack[i] \in StackToken /\ stack[i].id \in 1 .. Len(server.asked) /\ stack[i].date <= 2 * now
        BY DEF Dated
    <2> QED
        BY <2>1 DEF StackToken, TokenType
<1>2. Len(stack) \in Nat /\ stack = [i \in 1 .. Len(stack) |-> stack[i]]
    OBVIOUS
<1>3. stack \in [1 .. Len(stack) -> TokenType]
    BY <1>1, <1>2
<1> QED
    BY <1>2, <1>3

\* A message under way names and is secured with tokens that were issued.
LEMMA MessageTyped ==
    ASSUME now \in Nat, server \in Server, NEW m \in Envelope, m.start <= now,
           m.token <= Len(server.asked), m.key <= Len(server.asked)
    PROVE  m \in MessageType
<1>1. Len(server.asked) \in Nat
    BY DEF Server
<1>2. m.token \in 0 .. Len(server.asked) /\ m.key \in 0 .. Len(server.asked) /\ m.start \in 0 .. now
    BY <1>1 DEF Envelope
<1> QED
    BY <1>2 DEF Envelope, MessageType, Who

LEMMA WireTyped ==
    ASSUME NEW w \in Seq(Envelope), \A m \in Carried(w) : m \in MessageType
    PROVE  w \in Seq(MessageType)
<1>1. Len(w) \in Nat /\ w = [i \in 1 .. Len(w) |-> w[i]]
    OBVIOUS
<1>2. \A i \in 1 .. Len(w) : w[i] \in Carried(w)
    BY DEF Carried
<1>3. w \in [1 .. Len(w) -> MessageType]
    BY <1>1, <1>2
<1> QED
    BY <1>1, <1>3

LEMMA InvariantTypes == IInv => TypeOK
<1> SUFFICES ASSUME IInv PROVE TypeOK
    OBVIOUS
<1>1. /\ TypeInv /\ Stacks(client, server, now) /\ Waits(client, calls)
      /\ UnderWay(client, server, Carried(toServer), Carried(toClient), now, secured)
    BY DEF IInv
<1>2. /\ client \in Client /\ server \in Server /\ now \in 0 .. MaxTime /\ now \in Nat
      /\ toServer \in Seq(Envelope) /\ toClient \in Seq(Envelope)
      /\ server.tokens \in Seq(StackToken) /\ client.tokens \in Seq(StackToken)
    BY <1>1 DEF TypeInv, Server, Client
<1>3. client.tokens \in Seq(TokenType) /\ server.tokens \in Seq(TokenType)
    BY <1>1, <1>2, StackTyped DEF Stacks
<1>4. ASSUME NEW m, Up(m, client, server, now, secured)
      PROVE  m \in MessageType
    BY <1>2, <1>4, MessageTyped DEF Up
<1>5. ASSUME NEW m, Down(m, client, server, now)
      PROVE  m \in MessageType
    <2>1. m.start <= now
        BY <1>2, <1>5 DEF Down
    <2> QED
        BY <1>2, <1>5, <2>1, MessageTyped DEF Down
<1>6. /\ \A m \in Carried(toServer) : m \in MessageType
      /\ \A m \in Carried(toClient) : m \in MessageType
      /\ server.held \subseteq MessageType /\ server.checking \subseteq MessageType
    BY <1>1, <1>4, <1>5 DEF UnderWay
<1>7. toServer \in Seq(MessageType) /\ toClient \in Seq(MessageType)
    BY <1>2, <1>6, WireTyped
<1>8. client.active \in 0 .. Len(server.asked)
    <2>1. client.active \in Nat /\ client.active <= Len(server.asked) /\ Len(server.asked) \in Nat
        BY <1>1, <1>2 DEF Stacks, Client, Server
    <2> QED
        BY <2>1
<1>9. ASSUME NEW r \in client.requests
      PROVE  /\ r.id \in 1 .. client.lastId
             /\ r.who \in Transactions => calls[r.who] = "pending"
             /\ r.who = "create" => client.create = "pending"
             /\ r.who = "close" => client.close = "asked"
    <2>1. Awaited(r, client, calls)
        BY <1>1 DEF Waits
    <2>2. r.id \in Nat /\ r.id # 0 /\ client.lastId \in Nat /\ r.id <= client.lastId
        BY <1>2, <2>1 DEF Client, Waiting, Awaited
    <2>3. r.id \in 1 .. client.lastId
        BY <2>2
    <2> QED
        BY <2>1, <2>3 DEF Awaited
<1>10. /\ client.transport \in {"open", "ending", "closed"}
       /\ client.opened \in BOOLEAN /\ client.deaf \in BOOLEAN /\ client.renewal \in Nat
       /\ client.create \in {"connected", "pending", "done", "failed"}
       /\ client.close \in {"no", "asked", "transport", "done"}
    BY <1>2 DEF Client
<1>11. /\ server.status \in {"waiting", "connecting", "open", "refusing", "refused", "closed"}
       /\ server.aborted \in BOOLEAN /\ server.secured \in BOOLEAN
       /\ server.taken \subseteq Transactions
    BY <1>2 DEF Server
<1>12. secured \in BOOLEAN /\ calls \in [Transactions -> {"idle", "pending", "answered", "failed"}]
    BY <1>1 DEF TypeInv
<1> QED
    BY <1>2, <1>3, <1>6, <1>7, <1>8, <1>9, <1>10, <1>11, <1>12 DEF TypeOK

\* Whatever the transactions, the lifetime and the faults, only tokens that were issued are
\* named, kept or in use, and what nobody waits for is not in the table of requests.
THEOREM TypeCorrect == Spec => []TypeOK
BY Invariance, InvariantTypes, PTL

\* With a token that lives the stack reads what is secured with it.
LEMMA KnownIsReadable ==
    ASSUME NEW stack \in Seq(StackToken), NEW m, Alive(m.token),
           Knows(stack, server.asked, now, m.token), m.key = m.token
    PROVE  Readable(stack, m)
<1>1. Lives(server.asked, now, m.token)
    BY AliveIs
<1>2. HasKeys(stack, m.token)
    BY <1>1, HasIs DEF Knows
<1> QED
    BY <1>2 DEF Readable

LEMMA InvariantHonours == IInv => TokensHonoured
<1> SUFFICES ASSUME IInv, secured
             PROVE  /\ \A m \in Carried(toServer) :
                        m.type \in {"MSG", "CLO"} /\ Alive(m.token) => Readable(server.tokens, m)
                    /\ \A m \in Carried(toClient) :
                        m.type = "MSG" /\ Alive(m.token) /\ server.secured => Readable(client.tokens, m)
    BY DEF TokensHonoured
<1>1. /\ Stacks(client, server, now)
      /\ UnderWay(client, server, Carried(toServer), Carried(toClient), now, secured)
    BY DEF IInv
<1>2. /\ client.tokens \in Seq(StackToken) /\ server.tokens \in Seq(StackToken)
      /\ Len(server.asked) \in Nat
    BY DEF IInv, TypeInv, Client, Server
<1>3. ASSUME NEW m \in Carried(toServer), m.type \in {"MSG", "CLO"}, Alive(m.token)
      PROVE  Readable(server.tokens, m)
    <2>1. Up(m, client, server, now, secured)
        BY <1>1 DEF UnderWay
    <2>2. m.token \in Nat /\ m.token <= Len(server.asked) /\ Lives(server.asked, now, m.token)
        BY <1>3, <2>1, AliveIs DEF Up, Envelope
    <2>3. m.token \in 1 .. Len(server.asked)
        BY <1>2, <2>2 DEF Lives
    <2>4. Knows(server.tokens, server.asked, now, m.token)
        BY <1>1, <2>3 DEF Stacks
    <2>5. m.key = m.token
        BY <1>3, <2>1, <2>2 DEF Up, Sealed
    <2> QED
        BY <1>2, <1>3, <2>4, <2>5, KnownIsReadable
<1>4. ASSUME NEW m \in Carried(toClient), m.type = "MSG", Alive(m.token), server.secured
      PROVE  Readable(client.tokens, m)
    <2>1. Down(m, client, server, now)
        BY <1>1 DEF UnderWay
    <2>2. Lives(server.asked, now, m.token)
        BY <1>4, AliveIs
    <2>3. Knows(client.tokens, server.asked, now, m.token) /\ m.key = m.token
        BY <1>4, <2>1, <2>2 DEF Down, Sealed
    <2> QED
        BY <1>2, <1>4, <2>3, KnownIsReadable
<1> QED
    BY <1>3, <1>4

\* Renewals overlap: while a token is alive, what is secured with it can be read at the other
\* end, in whatever order requests, answers and renewals cross.
THEOREM TokensOverlap == Spec => []TokensHonoured
BY Invariance, InvariantHonours, PTL

\* Renewals come one at a time, and while the channel is open; nobody is left waiting when
\* the transport is closed.
THEOREM NobodyLeft == Spec => []Settled
<1>1. IInv => Settled
    <2> SUFFICES ASSUME IInv PROVE Settled
        OBVIOUS
    <2>1. Waits(client, calls)
        BY DEF IInv
    <2>2. \A r, q \in Renewals : r = q
        BY <2>1 DEF Renewals, Waits, Apart
    <2>3. Cardinality(Renewals) <= 1
        <3>1. CASE Renewals = {}
            BY <3>1, FS_EmptySet
        <3>2. ASSUME NEW r \in Renewals
              PROVE  Cardinality(Renewals) <= 1
            <4>1. Renewals = {r}
                BY <2>2, <3>2
            <4>2. Cardinality({r}) = 1
                BY FS_Singleton
            <4> QED
                BY <4>1, <4>2
        <3> QED
            BY <3>1, <3>2
    <2>4. Renewals # {} => client.renewal = None
        BY <2>1 DEF Renewals, Waits, Awaited
    <2>5. /\ client.renewal # None => IsValid(client) /\ client.opened /\ client.close = "no"
          /\ client.transport = "closed" =>
                client.requests = {} /\ client.create # "pending" /\ client.close \in {"no", "done"}
        BY <2>1 DEF Waits, Phases
    <2> QED
        BY <2>3, <2>4, <2>5 DEF Settled
<1> QED
    BY <1>1, Invariance, PTL

-----------------------------------------------------------------------------
(***************************************************************************)
(* The refinement: each step is one of RemoteCalls, or changes nothing a   *)
(* user sees.                                                              *)
(***************************************************************************)
\* Nothing becomes of the transactions, nor of the channel.
Unseen ==
    /\ calls' = calls /\ server'.taken = server.taken
    /\ client'.transport = "closed" <=> client.transport = "closed"

Steps == Service!Next \/ UNCHANGED Service!vars

LEMMA UnseenStep == Unseen => Steps
BY DEF Unseen, Steps, Service!vars

\* Requests in the table fail.
LEMMA FailedIsService ==
    ASSUME calls \in [Transactions -> Fates], NEW R,
           \A r \in R : r.who \in Transactions => calls[r.who] = "pending"
    PROVE  Failed(R) = Service!Failed({t \in Transactions : \E r \in R : r.who = t})
BY DEF Failed, Service!Failed

LEMMA FailStep ==
    ASSUME calls \in [Transactions -> Fates], NEW R,
           \A r \in R : r.who \in Transactions => calls[r.who] = "pending",
           calls' = Failed(R), server'.taken = server.taken,
           client'.transport = "closed" <=> client.transport = "closed"
    PROVE  Steps
<1> DEFINE T == {t \in Transactions : \E r \in R : r.who = t}
<1>1. calls' = Service!Failed(T)
    BY FailedIsService
<1>2. T \in SUBSET Transactions
    OBVIOUS
<1> HIDE DEF T
<1>3. Service!Fail
    BY <1>1, <1>2 DEF Service!Fail
<1> QED
    BY <1>3 DEF Steps, Service!Next

\* The transport is closed, and all that is pending fails.
LEMMA GoStep ==
    ASSUME IInv, client.transport # "closed", client'.transport = "closed",
           calls' = Failed(client.requests), server'.taken = server.taken
    PROVE  Steps
<1>1. /\ calls \in [Transactions -> Fates] /\ Waits(client, calls)
    BY DEF IInv, TypeInv, Fates
<1>2. \A r \in client.requests : r.who \in Transactions => calls[r.who] = "pending"
    BY <1>1 DEF Waits, Awaited
<1>3. \A t \in Transactions : calls[t] = "pending" => \E r \in client.requests : r.who = t
    BY <1>1 DEF Waits, Attended
<1>4. Failed(client.requests) = Service!Failed(Transactions)
    BY <1>1, <1>2, <1>3 DEF Failed, Service!Failed
<1>5. Service!Go
    BY <1>4 DEF Service!Go
<1> QED
    BY <1>5 DEF Steps, Service!Next

\* What the client does before it receives
LEMMA ClientSteps ==
    ASSUME IInv, Create \/ Dispose \/ Renew \/ Close \/ TimedOut \/ SocketClosed
    PROVE  Steps
<1>1. /\ client \in Client /\ calls \in [Transactions -> Fates] /\ Waits(client, calls)
      /\ now \in Nat
    BY DEF IInv, TypeInv, Fates
<1>2. \A r \in client.requests : r.who \in Transactions => calls[r.who] = "pending"
    BY <1>1 DEF Waits, Awaited
<1>3. CASE Create
    <2>1. calls' = calls /\ server' = server
        BY <1>3 DEF Create, ClientActs
    <2>2. client'.transport = client.transport
        <3>1. client' = [Sent(client, "OPN", "create", now) EXCEPT !.create = "pending"]
                \/ client' = [client EXCEPT !.create = "failed"]
            BY <1>3 DEF Create, ClientActs
        <3> QED
            BY <1>1, <3>1 DEF Sent, Client
    <2> QED
        BY <2>1, <2>2, UnseenStep DEF Unseen
<1>4. CASE Dispose
    <2>1. /\ calls' = calls /\ server' = server /\ client.transport = "open"
          /\ client' = [Disconnected(client) EXCEPT !.renewal = None]
        BY <1>4 DEF Dispose, ClientActs
    <2>2. client'.transport = "ending"
        BY <1>1, <2>1 DEF Disconnected, Client
    <2> QED
        BY <2>1, <2>2, UnseenStep DEF Unseen
<1>5. CASE Renew
    <2> DEFINE e == [client EXCEPT !.renewal = None]
    <2>1. calls' = calls /\ server' = server
        BY <1>5 DEF Renew, ClientActs
    <2>2. client' = Sent(e, "OPN", "renew", now) \/ client' = e
        BY <1>5 DEF Renew, ClientActs
    <2>3. client'.transport = client.transport
        BY <1>1, <2>2 DEF Sent, Client
    <2> QED
        BY <2>1, <2>3, UnseenStep DEF Unseen
<1>6. CASE Close
    <2> DEFINE e == Canceled(client)
    <2>1. calls' = Failed(client.requests) /\ server' = server /\ client.close = "no"
        BY <1>6 DEF Close, ClientActs
    <2>2. /\ e \in Client /\ e.transport = client.transport
        BY <1>1, <2>1, CanceledIs DEF Rest
    <2>3. \/ client' = [Sent(e, "CLO", "close", 0) EXCEPT !.close = "asked"]
          \/ client' = [Disconnected(e) EXCEPT !.close = IF IsValid(e) THEN "transport" ELSE "done"]
        <3>1. e = AllCalledBack([client EXCEPT !.renewal = None])
            BY DEF Canceled
        <3> HIDE DEF e
        <3> QED
            BY <1>6, <3>1 DEF Close, ClientActs
    <2> HIDE DEF e
    <2>4. client'.transport = "closed" <=> client.transport = "closed"
        BY <2>2, <2>3 DEF Sent, Disconnected, Client
    <2> QED
        BY <1>1, <1>2, <2>1, <2>4, FailStep
<1>7. CASE TimedOut
    <2>1. PICK r \in client.requests :
             client' = CalledBack(client, r) /\ calls' = Failed({r}) /\ server' = server
        BY <1>7 DEF TimedOut, ClientActs
    <2>2. client.transport # "closed"
        BY <1>1 DEF Waits, Phases
    <2>3. client'.transport # "closed"
        BY <1>1, <2>1, <2>2 DEF CalledBack, CloseDone, Disconnected, IsValid, Client
    <2>4. \A q \in {r} : q.who \in Transactions => calls[q.who] = "pending"
        BY <1>2
    <2> QED
        BY <1>1, <2>1, <2>2, <2>3, <2>4, FailStep
<1>8. CASE SocketClosed
    <2>1. /\ client' = TransportClosed(client) /\ calls' = Failed(client.requests) /\ server' = server
          /\ client.transport = "ending"
        BY <1>8 DEF SocketClosed, ClientActs
    <2>2. client'.transport = "closed"
        BY <1>1, <2>1, TransportClosedTurns
    <2> QED
        BY <2>1, <2>2, GoStep
<1> QED
    BY <1>3, <1>4, <1>5, <1>6, <1>7, <1>8

LEMMA CallSteps ==
    ASSUME IInv, NEW t \in Transactions, Call(t)
    PROVE  Steps
<1>1. client \in Client
    BY DEF IInv, TypeInv
<1>2. CASE IsValid(client)
    <2>1. /\ calls[t] = "idle" /\ calls' = [calls EXCEPT ![t] = "pending"]
          /\ client' = Sent(client, "MSG", t, 0) /\ server' = server
        BY <1>2 DEF Call, ClientActs
    <2>2. client.transport = "open" /\ client'.transport = "open"
        BY <1>1, <1>2, <2>1 DEF Sent, Client, IsValid
    <2>3. Service!Ask(t)
        BY <2>1, <2>2 DEF Service!Ask
    <2> QED
        BY <2>3 DEF Steps, Service!Next
<1>3. CASE ~IsValid(client)
    <2>1. /\ calls[t] = "idle" /\ calls' = [calls EXCEPT ![t] = "failed"]
          /\ client' = client /\ server' = server
        BY <1>3 DEF Call, ClientActs
    <2>2. Service!Refuse(t)
        BY <2>1 DEF Service!Refuse
    <2> QED
        BY <2>2 DEF Steps, Service!Next
<1> QED
    BY <1>2, <1>3

\* An answer that counts is of a transaction the server has taken.
LEMMA ClientReceivesSteps ==
    ASSUME IInv, ClientReceives
    PROVE  Steps
<1> DEFINE m == Head(toClient)
<1>1. /\ client \in Client /\ calls \in [Transactions -> Fates] /\ Waits(client, calls)
      /\ toClient \in Seq(Envelope) /\ toClient # <<>> /\ IsValid(client) /\ server' = server
    BY DEF IInv, TypeInv, Fates, ClientReceives
<1>2. client.transport = "open"
    BY <1>1 DEF IsValid
<1>3. Down(m, client, server, now)
    BY <1>1, CarriedRead DEF IInv, UnderWay
<1>4. CASE client' = TransportClosed(client) /\ calls' = Failed(client.requests)
    <2>1. client'.transport = "closed"
        BY <1>1, <1>4, TransportClosedTurns
    <2> QED
        BY <1>1, <1>2, <1>4, <2>1, GoStep
<1>5. CASE UNCHANGED <<client, calls>>
    BY <1>1, <1>5, UnseenStep DEF Unseen
<1>6. CASE client' = [client EXCEPT !.deaf = TRUE] /\ calls' = calls
    <2>1. client'.transport = client.transport
        BY <1>1, <1>6 DEF Client
    <2> QED
        BY <1>1, <1>6, <2>1, UnseenStep DEF Unseen
<1>7. ASSUME NEW r \in {q \in client.requests : q.id = m.id},
             client' = Opened(client, r, m.token), calls' = calls
      PROVE  Steps
    <2>1. client'.transport = client.transport
        BY <1>1, <1>7 DEF Opened, Client
    <2> QED
        BY <1>1, <1>7, <2>1, UnseenStep DEF Unseen
<1>8. ASSUME m.type = "MSG", NEW r \in {q \in client.requests : q.id = m.id},
             client' = [client EXCEPT !.requests = @ \ {r}],
             calls' = [calls EXCEPT ![r.who] = "answered"]
      PROVE  Steps
    <2>1. r \in client.requests /\ r.id = m.id
        BY <1>8
    <2>2. r.type = "MSG" /\ r.who = m.who /\ m.who \in server.taken
        BY <1>3, <1>8, <2>1 DEF Down, Fits
    <2>3. r.who \in Transactions /\ calls[r.who] = "pending"
        BY <1>1, <2>1, <2>2, AnsweredTurns
    <2>4. client'.transport = client.transport
        BY <1>1, <1>8 DEF Client
    <2>5. Service!Answer(r.who)
        BY <1>1, <1>2, <1>8, <2>2, <2>3, <2>4 DEF Service!Answer
    <2> QED
        BY <2>3, <2>5 DEF Steps, Service!Next
<1> HIDE DEF m
<1>9. \/ client' = TransportClosed(client) /\ calls' = Failed(client.requests)
      \/ UNCHANGED <<client, calls>>
      \/ client' = [client EXCEPT !.deaf = TRUE] /\ calls' = calls
      \/ Answered(m)
    BY DEF ClientReceives, m
<1>10. CASE Answered(m)
    BY <1>5, <1>7, <1>8, <1>10 DEF Answered
<1> QED
    BY <1>4, <1>5, <1>6, <1>9, <1>10

\* Of the server's steps a user sees only that it takes a transaction, for the first time.
LEMMA ServerSteps ==
    ASSUME IInv, ServerReceives \/ OpenChecked \/ Respond \/ RefusalSent \/ ServerCloses
    PROVE  Steps
<1>1. /\ server \in Server /\ toServer \in Seq(Envelope)
      /\ server.taken \subseteq Transactions /\ Once(toServer, server.taken, calls)
      /\ UnderWay(client, server, Carried(toServer), Carried(toClient), now, secured)
    BY DEF IInv, TypeInv, Server
<1>2. UNCHANGED <<client, calls>>
    BY DEF ServerReceives, OpenChecked, Respond, RefusalSent, ServerCloses, Received, OpenHandled,
       Fatal, ServerActs
<1>3. CASE server'.taken = server.taken
    BY <1>2, <1>3, UnseenStep DEF Unseen
<1>4. ASSUME NEW m, OpenHandled(m)
      PROVE  server'.taken = server.taken
    BY <1>1, <1>4 DEF OpenHandled, ServerActs, Issued, Refusing, Server
<1>5. CASE OpenChecked \/ Respond \/ RefusalSent \/ ServerCloses
    <2>1. server'.taken = server.taken
        BY <1>1, <1>4, <1>5 DEF OpenChecked, Respond, RefusalSent, ServerCloses, ServerActs, Closed, Server
    <2> QED
        BY <1>3, <2>1
<1>6. CASE ServerReceives
    <2> DEFINE m == Head(toServer)
    <2>1. toServer # <<>> /\ Received(m)
        BY <1>6 DEF ServerReceives
    <2>2. Up(m, client, server, now, secured) /\ m = toServer[1] /\ 1 \in 1 .. Len(toServer)
        BY <1>1, <2>1, CarriedRead DEF UnderWay
    <2> HIDE DEF m
    <2>3. CASE /\ m.type = "MSG"
               /\ ServerActs([server EXCEPT !.held = @ \cup {m}, !.taken = @ \cup {m.who}], <<>>)
        <3>1. m.who \in Transactions
            BY <2>2, <2>3 DEF Up, Asks
        <3>2. m.who \notin server.taken /\ calls[m.who] \in {"pending", "failed"}
            BY <1>1, <2>2, <3>1 DEF Once
        <3>3. server'.taken = server.taken \cup {m.who}
            BY <1>1, <2>3 DEF ServerActs, Server
        <3>4. Service!Take(m.who)
            BY <1>2, <3>2, <3>3 DEF Service!Take
        <3> QED
            BY <3>1, <3>4 DEF Steps, Service!Next
    <2>4. CASE ServerActs([server EXCEPT !.status = "connecting", !.checking = {m}], <<>>)
        <3>1. server'.taken = server.taken
            BY <1>1, <2>4 DEF ServerActs, Server
        <3> QED
            BY <1>3, <3>1
    <2>5. CASE OpenHandled(m)
        BY <1>3, <1>4, <2>5
    <2>6. CASE ServerActs(Closed(server), <<ERR>>) \/ ServerActs(Closed(server), <<>>)
        <3>1. server'.taken = server.taken
            BY <1>1, <2>6 DEF ServerActs, Closed, Server
        <3> QED
            BY <1>3, <3>1
    <2> QED
        BY <2>1, <2>3, <2>4, <2>5, <2>6 DEF Received, Fatal
<1> QED
    BY <1>5, <1>6

\* A channel is a service of remote calls: each transaction is taken once at most, and called
\* back once, with an answer only if the server took it; when the transport is closed all that
\* was pending has failed.
THEOREM CallsRefined == Spec => CallsImplemented
<1>1. Init => Service!Init
    BY DEF Init, Service!Init
<1>2. IInv /\ [Next]_vars => [Service!Next]_(Service!vars)
    <2> SUFFICES ASSUME IInv, [Next]_vars PROVE Steps
        BY DEF Steps
    <2>1. CASE UNCHANGED vars
        BY <2>1, UnseenStep DEF vars, Unseen
    <2>2. ASSUME NEW t \in Transactions, Call(t)
          PROVE  Steps
        BY <2>2, CallSteps
    <2>3. CASE Create \/ Close \/ Dispose \/ TimedOut \/ SocketClosed \/ Renew
        BY <2>3, ClientSteps
    <2>4. CASE ClientReceives
        BY <2>4, ClientReceivesSteps
    <2>5. CASE ServerReceives \/ OpenChecked \/ Respond \/ RefusalSent \/ ServerCloses
        BY <2>5, ServerSteps
    <2>6. CASE Lost \/ Tick
        BY <2>6, UnseenStep DEF Lost, Tick, Unseen
    <2> QED
        BY <2>1, <2>2, <2>3, <2>4, <2>5, <2>6 DEF Next
<1> QED
    BY <1>1, <1>2, Invariance, PTL DEF Spec, CallsImplemented, Service!Spec
=============================================================================
