----------------------------- MODULE MCMultiGrid ----------------------------
EXTENDS MultiGridCycle, TLC

CONSTANTS p1, p2, p3, p4

\* Four processes on the finest level; three on the next; two on the coarser ones.
\* (An adaptive correction would solve the system of a level of one exactly.)
FourPhys == p1 :> 9 @@ p2 :> 1 @@ p3 :> 9 @@ p4 :> 2
FourParent == p1 :> p1 @@ p2 :> p1 @@ p3 :> p3 @@ p4 :> p3

MCMatrix == [l \in Level |-> [diag |-> 4 + l, else |-> 100]]
MCWeight == [l \in Level |-> [rest |-> 2 + l, prol |-> 5 + l]]
MCPost == [l \in Level |-> 31 + l]
\* Level 1 has neither pre- nor peak-smoother.
GapPre == [l \in Level |-> IF l = 1 THEN 0 ELSE 7 + l]
GapPeak == [l \in Level |-> IF l = 1 THEN 0 ELSE 53 + l]

\* A boundary in the part of p2 and, on level 1, in that of p4.
FourFixed == [l \in Level |-> CASE l = 0 -> {p2} [] l = 1 -> {p4} [] OTHER -> {}]

Give(cycle, adapt, x) == [cycle |-> cycle, adapt |-> adapt, def |-> x]

\* All cycles, and all corrections.
FourInputs ==
  LET x == p1 :> 1 @@ p2 :> 0 @@ p3 :> 3 @@ p4 :> 1
      y == p1 :> 2 @@ p2 :> 0 @@ p3 :> 1 @@ p4 :> 5
  IN  {<<Give("V", "MinDefect", x), Give("W", "Fixed", y)>>,
       <<Give("W", "MinDefect", y), Give("F", "MinEnergy", x)>>,
       <<Give("F", "Fixed", y), Give("W", "MinEnergy", x), Give("W", "Fixed", y)>>}
=============================================================================
