---------------------------- MODULE Subsequence ----------------------------
(***************************************************************************)
(* The items of a sequence at some of its positions, in their order.       *)
(***************************************************************************)
EXTENDS Integers, FiniteSets

\* How many positions of I there are up to i.
RankIn(I, i) == Cardinality({j \in I : j <= i})

Only(s, I) == [r \in 1 .. Cardinality(I) |-> s[CHOOSE i \in I : RankIn(I, i) = r]]
=============================================================================
