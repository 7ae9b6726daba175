--------------------------- MODULE MCSynchScalar ----------------------------
EXTENDS SynchScalar, TLC

CONSTANTS p1, p2

Everybody == Rank
One == {p2}
=============================================================================
