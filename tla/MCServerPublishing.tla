------------------------- MODULE MCServerPublishing -------------------------
(***************************************************************************)
(* The values ServerPublishing is checked with.                            *)
(***************************************************************************)
EXTENDS ServerPublishingProperties, TLC

OneSub  == {1}
TwoSubs == {1, 2}

\* The older subscription is the more important one.
FirstHigh == [s \in Subs |-> IF s = 1 THEN 200 ELSE 10]

\* Requests are only compared with each other.
RequestSymmetry == Permutations(Requests)

\* So are sessions.
SessionSymmetry == Permutations(Sessions)
=============================================================================
