------------------------- MODULE SequencePickProofs -------------------------
(***************************************************************************)
(* What filtering an array returns: the kept entries, and nothing else.    *)
(***************************************************************************)
EXTENDS SequencePick, FiniteSetTheorems, TLAPS

\* The indices up to i among finitely many are finitely many.
LEMMA PrefixFinite ==
    ASSUME NEW K, IsFiniteSet(K), NEW i
    PROVE  /\ IsFiniteSet({j \in K : j <= i})
           /\ Rank(K, i) \in Nat
           /\ Rank(K, i) <= Cardinality(K)
<1>1. {j \in K : j <= i} \in SUBSET K
    OBVIOUS
<1>2. /\ IsFiniteSet({j \in K : j <= i})
      /\ Cardinality({j \in K : j <= i}) <= Cardinality(K)
    BY <1>1, FS_Subset
<1>3. Cardinality({j \in K : j <= i}) \in Nat
    BY <1>2, FS_CardinalityType
<1> QED
    BY <1>2, <1>3 DEF Rank

\* The rank of a kept index is a position among the kept ones.
LEMMA RankInRange ==
    ASSUME NEW K \in SUBSET Int, IsFiniteSet(K), NEW i \in K
    PROVE  Rank(K, i) \in 1..Cardinality(K)
<1>1. Cardinality(K) \in Nat
    BY FS_CardinalityType
<1>2. {j \in K : j <= i} # {}
    OBVIOUS
<1>3. Rank(K, i) # 0
    BY <1>2, PrefixFinite, FS_EmptySet DEF Rank
<1>4. Rank(K, i) \in Nat /\ Rank(K, i) <= Cardinality(K)
    BY PrefixFinite
<1> QED
    BY <1>1, <1>3, <1>4

\* Of two kept indices the greater has the greater rank.
LEMMA RankIncreases ==
    ASSUME NEW K \in SUBSET Int, IsFiniteSet(K), NEW i \in K, NEW j \in K, i < j
    PROVE  Rank(K, i) < Rank(K, j)
<1> DEFINE below == {k \in K : k <= i}
           upto  == {k \in K : k <= j}
<1>1. IsFiniteSet(upto) /\ Rank(K, i) \in Nat /\ Rank(K, j) \in Nat
    BY PrefixFinite
<1>2. below \in SUBSET upto
    <2>1. ASSUME NEW k \in K, k <= i
          PROVE  k <= j
        <3>1. k \in Int /\ i \in Int /\ j \in Int
            OBVIOUS
        <3> QED
            BY <2>1, <3>1
    <2> QED
        BY <2>1
<1>3. j \in upto /\ j \notin below
    OBVIOUS
<1>4. below # upto
    BY <1>3
<1>5. Cardinality(below) <= Cardinality(upto) /\ Cardinality(below) # Cardinality(upto)
    BY <1>1, <1>2, <1>4, FS_Subset
<1> QED
    BY <1>1, <1>5 DEF Rank

\* Every position is the rank of a kept index.
LEMMA RankOnto ==
    ASSUME NEW K \in SUBSET Int, IsFiniteSet(K), NEW k \in 1..Cardinality(K)
    PROVE  \E i \in K : Rank(K, i) = k
<1> DEFINE T == 1..Cardinality(K)
           f == [i \in K |-> Rank(K, i)]
<1>1. Cardinality(K) \in Nat
    BY FS_CardinalityType
<1>2. IsFiniteSet(T) /\ Cardinality(T) = Cardinality(K)
    BY <1>1, FS_Interval
<1>3. f \in [K -> T]
    BY RankInRange
<1>4. ASSUME NEW i \in K, NEW j \in K, i # j
      PROVE  f[i] # f[j]
    <2>1. i < j \/ j < i
        BY <1>4
    <2>2. Rank(K, i) < Rank(K, j) \/ Rank(K, j) < Rank(K, i)
        BY <2>1, RankIncreases
    <2>3. Rank(K, i) \in Nat /\ Rank(K, j) \in Nat
        BY PrefixFinite
    <2> QED
        BY <2>2, <2>3
<1>5. f \in Injection(K, T)
    BY <1>3, <1>4 DEF Injection, IsInjective
<1>6. f \in Surjection(K, T)
    BY <1>2, <1>5, FS_Injection
<1>7. \A t \in T : \E i \in K : f[i] = t
    BY <1>6 DEF Surjection
<1> QED
    BY <1>7

\* Finitely many integers, at least one, have a greatest.
LEMMA GreatestExists ==
    ASSUME NEW K \in SUBSET Int, IsFiniteSet(K), K # {}
    PROVE  \E i \in K : \A j \in K : j <= i
<1>1. Cardinality(K) \in Nat /\ Cardinality(K) # 0
    BY FS_CardinalityType, FS_EmptySet
<1>2. PICK i \in K : Rank(K, i) = Cardinality(K)
    BY <1>1, RankOnto
<1>3. {j \in K : j <= i} \in SUBSET K
    OBVIOUS
<1>4. {j \in K : j <= i} = K
    BY <1>2, <1>3, FS_Subset DEF Rank
<1> QED
    BY <1>4

\* A filtered array holds entries of the array, as many as there are kept
\* indices.
THEOREM PickProperties ==
    ASSUME NEW S, NEW s \in Seq(S), NEW K \in SUBSET (1..Len(s))
    PROVE  /\ Pick(s, K) \in Seq(S)
           /\ Len(Pick(s, K)) = Cardinality(K)
           /\ \A k \in 1..Cardinality(K) : \E i \in K : Pick(s, K)[k] = s[i]
           /\ Cardinality(K) \in Nat
           /\ Cardinality(K) <= Len(s)
<1>1. Len(s) \in Nat
    OBVIOUS
<1>2. /\ IsFiniteSet(1..Len(s))
      /\ Cardinality(1..Len(s)) = Len(s)
    BY <1>1, FS_Interval, SMTT(30)
<1>3. IsFiniteSet(K) /\ Cardinality(K) <= Len(s)
    BY <1>2, FS_Subset
<1>4. Cardinality(K) \in Nat
    BY <1>3, FS_CardinalityType
<1>5. K \in SUBSET Int
    BY <1>1
<1>6. ASSUME NEW k \in 1..Cardinality(K)
      PROVE  /\ (CHOOSE i \in K : Rank(K, i) = k) \in K
             /\ Pick(s, K)[k] = s[CHOOSE i \in K : Rank(K, i) = k]
    <2>1. \E i \in K : Rank(K, i) = k
        BY <1>3, <1>5, RankOnto
    <2>2. (CHOOSE i \in K : Rank(K, i) = k) \in K
        BY <2>1
    <2> QED
        BY <2>2 DEF Pick
<1>7. \A k \in 1..Cardinality(K) : \E i \in K : Pick(s, K)[k] = s[i]
    BY <1>6
<1>8. \A i \in K : s[i] \in S
    OBVIOUS
<1>9. Pick(s, K) \in [1..Cardinality(K) -> S]
    <2>1. \A k \in 1..Cardinality(K) : Pick(s, K)[k] \in S
        BY <1>7, <1>8
    <2>2. Pick(s, K) = [k \in 1..Cardinality(K) |-> Pick(s, K)[k]]
        BY DEF Pick
    <2> QED
        BY <2>1, <2>2
<1>10. Pick(s, K) \in Seq(S) /\ Len(Pick(s, K)) = Cardinality(K)
    BY <1>4, <1>9
<1> QED
    BY <1>3, <1>4, <1>7, <1>10

\* Each entry of a filtered array is the one whose index has that rank.
LEMMA PickRank ==
    ASSUME NEW S, NEW s \in Seq(S), NEW K \in SUBSET (1..Len(s)),
           NEW k \in 1..Cardinality(K)
    PROVE  \E i \in K : Pick(s, K)[k] = s[i] /\ Rank(K, i) = k
<1>1. Len(s) \in Nat /\ K \in SUBSET Int
    OBVIOUS
<1>2. IsFiniteSet(K)
    <2>1. IsFiniteSet(1..Len(s))
        BY <1>1, FS_Interval
    <2> QED
        BY <2>1, FS_Subset
<1>3. PICK i \in K : i = CHOOSE j \in K : Rank(K, j) = k
    <2>1. \E i \in K : Rank(K, i) = k
        BY <1>1, <1>2, RankOnto
    <2> QED
        BY <2>1
<1>4. Rank(K, i) = k
    BY <1>1, <1>2, <1>3, RankOnto
<1> QED
    BY <1>3, <1>4 DEF Pick

-----------------------------------------------------------------------------
(***************************************************************************)
(* Counting the kept indices of an array that is put together or cut.      *)
(***************************************************************************)
\* The last kept index has all of them behind it.
LEMMA RankOfLast ==
    ASSUME NEW K, NEW i, \A j \in K : j <= i
    PROVE  Rank(K, i) = Cardinality(K)
<1>1. {j \in K : j <= i} = K
    OBVIOUS
<1> QED
    BY <1>1 DEF Rank

\* No kept index is before the first.
LEMMA RankOfNone ==
    ASSUME NEW K, NEW i, \A j \in K : ~(j <= i)
    PROVE  Rank(K, i) = 0
<1>1. {j \in K : j <= i} = {}
    OBVIOUS
<1> QED
    BY <1>1, FS_EmptySet DEF Rank

\* Two kept indices have different ranks.
LEMMA RankUnique ==
    ASSUME NEW K \in SUBSET Int, IsFiniteSet(K), NEW i \in K, NEW j \in K,
           Rank(K, i) = Rank(K, j)
    PROVE  i = j
<1>1. Rank(K, i) \in Nat /\ Rank(K, j) \in Nat
    BY PrefixFinite
<1>2. ~(i < j)
    BY <1>1, RankIncreases
<1>3. ~(j < i)
    BY <1>1, RankIncreases
<1> QED
    BY <1>2, <1>3

\* When everything up to i is kept, i is its own rank.
LEMMA RankOfInterval ==
    ASSUME NEW K \in SUBSET (Nat \ {0}), NEW i \in Nat, \A j \in 1..i : j \in K
    PROVE  Rank(K, i) = i
<1>1. {j \in K : j <= i} = 1..i
    <2>1. \A j \in K : j <= i => j \in 1..i
        OBVIOUS
    <2>2. \A j \in 1..i : j \in K /\ j <= i
        OBVIOUS
    <2> QED
        BY <2>1, <2>2
<1>2. Cardinality(1..i) = i
    BY FS_Interval
<1> QED
    BY <1>1, <1>2 DEF Rank

\* L is what K keeps beyond n, counted from there.
Beyond(K, n, L) == \A k \in Nat \ {0} : k \in L <=> n + k \in K

\* The rank of an index of the whole array is that of the cut, and of the
\* index in the second half.
LEMMA RankShift ==
    ASSUME NEW K \in SUBSET (Nat \ {0}), IsFiniteSet(K),
           NEW L \in SUBSET (Nat \ {0}), NEW n \in Nat, NEW i \in Nat, Beyond(K, n, L)
    PROVE  /\ Rank(K, n + i) = Rank(K, n) + Rank(L, i)
           /\ Rank(K, n) \in Nat /\ Rank(L, i) \in Nat
<1> DEFINE A == {j \in K : j <= n}
           B == {j \in L : j <= i}
           C == {j \in K : j <= n + i}
           D == C \ A
           f == [d \in D |-> d - n]
<1>1. IsFiniteSet(A) /\ IsFiniteSet(C)
    BY PrefixFinite
<1>2. A \subseteq C /\ C \cap A = A
    <2>1. \A j \in K : j <= n => j <= n + i
        OBVIOUS
    <2> QED
        BY <2>1
<1>3. IsFiniteSet(D) /\ Cardinality(D) = Cardinality(C) - Cardinality(A)
    BY <1>1, <1>2, FS_Difference
<1>4. ASSUME NEW j \in B
      PROVE  n + j \in D /\ (n + j) - n = j
    <2>1. j \in Nat \ {0} /\ j \in L /\ j <= i
        OBVIOUS
    <2>2. n + j \in K /\ n + j <= n + i /\ ~(n + j <= n)
        BY <2>1 DEF Beyond
    <2> QED
        BY <2>1, <2>2
<1>5. ASSUME NEW d \in D
      PROVE  d - n \in B /\ d \in Nat
    <2>1. d \in Nat \ {0} /\ d \in K /\ d <= n + i /\ d > n
        OBVIOUS
    <2>2. d - n \in Nat \ {0} /\ n + (d - n) = d /\ d - n <= i
        BY <2>1
    <2> QED
        BY <2>1, <2>2 DEF Beyond
<1> HIDE DEF B, D
<1>6. f \in [D -> B]
    BY <1>5
<1>7. \A d, c \in D : f[d] = f[c] => d = c
    BY <1>5
<1>8. \A j \in B : \E d \in D : f[d] = j
    BY <1>4
<1>9. ExistsBijection(D, B)
    <2>1. f \in Injection(D, B)
        BY <1>6, <1>7 DEF Injection, IsInjective
    <2>2. f \in Surjection(D, B)
        BY <1>6, <1>8 DEF Surjection
    <2> QED
        BY <2>1, <2>2 DEF Bijection, ExistsBijection
<1>13. IsFiniteSet(B) /\ Cardinality(B) = Cardinality(D)
    BY <1>3, <1>9, FS_Bijection
<1>14. Cardinality(A) \in Nat /\ Cardinality(B) \in Nat /\ Cardinality(C) \in Nat
    BY <1>1, <1>13, FS_CardinalityType
<1>15. Rank(K, n + i) = Cardinality(C) /\ Rank(K, n) = Cardinality(A) /\ Rank(L, i) = Cardinality(B)
    BY DEF Rank, B
<1> QED
    BY <1>3, <1>13, <1>14, <1>15

\* K, and beyond n the indices L
Joined(K, n, L) == K \cup {n + j : j \in L}

\* What is kept beyond n does not count before.
LEMMA RankBefore ==
    ASSUME NEW n \in Nat, NEW K, NEW L \in SUBSET (Nat \ {0}), NEW i \in 0..n
    PROVE  Rank(Joined(K, n, L), i) = Rank(K, i)
<1>1. \A j \in L : ~(n + j <= i)
    OBVIOUS
<1>2. {j \in Joined(K, n, L) : j <= i} = {j \in K : j <= i}
    BY <1>1 DEF Joined
<1> QED
    BY <1>2 DEF Rank

\* Kept indices K up to n, and L beyond, counted together.
LEMMA RankJoined ==
    ASSUME NEW n \in Nat, NEW K \in SUBSET (1..n),
           NEW L \in SUBSET (Nat \ {0}), IsFiniteSet(L),
           NEW U, U = Joined(K, n, L), IsFiniteSet(U)
    PROVE  Cardinality(U) = Cardinality(K) + Cardinality(L)
<1>1. IsFiniteSet(K)
    <2>1. IsFiniteSet(1..n)
        BY FS_Interval
    <2> QED
        BY <2>1, FS_Subset
<1>2. U \in SUBSET (Nat \ {0})
    <2>1. ASSUME NEW j \in L
          PROVE  n + j \in Nat \ {0}
        OBVIOUS
    <2>2. \A k \in K : k \in Nat \ {0}
        OBVIOUS
    <2>3. \A k \in U : k \in K \/ \E j \in L : k = n + j
        BY DEF Joined
    <2> QED
        BY <2>1, <2>2, <2>3
<1>3. Rank(U, n) = Cardinality(K)
    <2>1. n \in 0..n /\ \A j \in K : j <= n
        OBVIOUS
    <2>2. Rank(K, n) = Cardinality(K)
        BY <2>1, RankOfLast
    <2>3. Rank(Joined(K, n, L), n) = Rank(K, n)
        BY <2>1, RankBefore
    <2> QED
        BY <2>2, <2>3
<1>4. Beyond(U, n, L)
    <2>1. ASSUME NEW k \in Nat \ {0}
          PROVE  n + k \notin K /\ \A j \in L : n + j = n + k => j = k
        OBVIOUS
    <2>2. ASSUME NEW k \in Nat \ {0}
          PROVE  n + k \in U <=> k \in L
        BY <2>1 DEF Joined
    <2> QED
        BY <2>2 DEF Beyond
<1>5. ASSUME NEW j \in Nat
      PROVE  Rank(U, n + j) = Cardinality(K) + Rank(L, j)
    <2>1. Rank(U, n + j) = Rank(U, n) + Rank(L, j)
        BY <1>2, <1>4, RankShift
    <2> QED
        BY <1>3, <2>1
<1>6. Cardinality(U) = Cardinality(K) + Cardinality(L)
    <2>1. CASE L = {}
        <3>1. U = K /\ Cardinality(L) = 0
            BY <2>1, FS_EmptySet DEF Joined
        <3>2. Cardinality(K) \in Nat
            BY <1>1, FS_CardinalityType
        <3> QED
            BY <3>1, <3>2
    <2>2. CASE L # {}
        <3>1. PICK g \in L : \A j \in L : j <= g
            BY <2>2, GreatestExists
        <3>2. \A j \in U : j <= n + g
            <4>1. \A k \in U : k \in K \/ \E j \in L : k = n + j
                BY DEF Joined
            <4>2. \A k \in K : k <= n + g
                BY <3>1
            <4>3. \A j \in L : n + j <= n + g
                BY <3>1
            <4> QED
                BY <4>1, <4>2, <4>3
        <3>3. Rank(U, n + g) = Cardinality(U) /\ Rank(L, g) = Cardinality(L)
            BY <3>1, <3>2, RankOfLast
        <3> QED
            BY <1>5, <3>1, <3>3
    <2> QED
        BY <2>1, <2>2
<1> QED
    BY <1>6
=============================================================================
