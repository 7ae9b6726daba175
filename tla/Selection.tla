----------------------------- MODULE Selection ------------------------------
(***************************************************************************)
(* How loops over a list pick some of its entries, or put them in order.   *)
(***************************************************************************)
EXTENDS Integers, Sequences, FiniteSets

\* The entries of s in the order of their ranks, which are 1, 2, ...
ByRank(s, rank) == [r \in 1 .. Cardinality(DOMAIN rank) |-> s[CHOOSE x \in DOMAIN rank : rank[x] = r]]

\* The entries of s at some places, in their order.
AtPlaces(s, places) == ByRank(s, [x \in places |-> Cardinality({y \in places : y <= x})])
=============================================================================
