---------------------------- MODULE SequencePick ----------------------------
(***************************************************************************)
(* Filtering an array without recursion.  The publish engine, the          *)
(* subscription and the stack of tokens drop some entries of an array and  *)
(* keep the others in order: Array.filter, lodash.partition,               *)
(* Queue.filterOut.  A filter is given by the set of the indices it keeps, *)
(* so that facts about it can be proved without induction over sequences.  *)
(***************************************************************************)
EXTENDS Integers, Sequences, FiniteSets

\* The position of index i among the kept indices K.
Rank(K, i) == Cardinality({j \in K : j <= i})

\* The entries of s whose index is in K, in their order.
Pick(s, K) == [k \in 1..Cardinality(K) |-> s[CHOOSE i \in K : Rank(K, i) = k]]
=============================================================================
