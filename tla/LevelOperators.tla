--------------------------- MODULE LevelOperators ---------------------------
(***************************************************************************)
(* What a level of the multigrid hierarchy can do with vectors: multiply   *)
(* by its matrix, smooth, filter, restrict and prolongate.  All that the   *)
(* multigrid relies on is that these are linear, so a vector here has one  *)
(* entry for each process of the level, and its entries are integers       *)
(* modulo a prime: two cycles that differ in a single operation, in its    *)
(* order or in a stale operand, end in different vectors.                  *)
(*                                                                         *)
(* Levels are counted from the finest (Top) to the coarsest (Crs).  Fewer  *)
(* processes work on coarser levels: a process that has no part in level   *)
(* l+1 is a ghost there and leaves its share to its parent.                *)
(***************************************************************************)
EXTENDS Sequences, FiniteSetsExt

CONSTANTS Proc,      \* the processes
          Top, Crs,  \* _top_level, _crs_level
          Phys,      \* Phys[p]: number of levels p has (size_physical)
          Parent,    \* Parent[p]: where p sends what it restricts as a ghost
          Prime,     \* the modulus
          Matrix,    \* Matrix[l]: the two values in the matrix, diagonal and else
          Pre, Post, Peak,  \* factors of a level's smoothers; 0 where it has none
          CrsSolver, \* factor of the coarse grid solver; 1 where it has none
          Weight,    \* Weight[l]: factors of restriction from and prolongation to l
          Fixed      \* Fixed[l]: the processes whose entry the filter fixes

Level == Top .. Crs
Members(l) == {p \in Proc : Phys[p] > l}
Num == 0 .. Prime - 1
Vector == [Proc -> Num]

ASSUME LevelAssumption ==
  /\ IsFiniteSet(Proc)
  /\ Top \in Nat /\ Crs \in Nat /\ Top <= Crs
  /\ Phys \in [Proc -> Nat] /\ Parent \in [Proc -> Proc]
  /\ \A p \in Proc : Phys[p] > Top
  /\ \E p \in Proc : Phys[p] > Crs
  /\ \A p \in Proc : Phys[p] <= Crs => Phys[Parent[p]] > Phys[p]
  /\ Prime \in Nat \ {0, 1}
  /\ \A b \in Num \ {0} : \E c \in Num : (c * b) % Prime = 1
  /\ Matrix \in [Level -> [diag : Num, else : Num]]
  /\ Pre \in [Level -> Num] /\ Post \in [Level -> Num] /\ Peak \in [Level -> Num]
  /\ CrsSolver \in Num
  /\ Weight \in [Level -> [rest : Num, prol : Num]]
  /\ Fixed \in [Level -> SUBSET Proc]

Zero == [p \in Proc |-> 0]

\* a * x + y
Axpy(a, x, y) == [p \in Proc |-> (a * x[p] + y[p]) % Prime]

Scale(a, x) == Axpy(a, x, Zero)

\* filter_def and filter_cor: entries of a level that a boundary condition fixes.
Filter(l, x) == [p \in Proc |-> IF p \in Fixed[l] THEN 0 ELSE x[p]]

MatrixApply(l, x) ==
  [p \in Proc |->
     IF p \notin Members(l) THEN 0
     ELSE (Matrix[l].diag * x[p]
             + Matrix[l].else * SumFunctionOnSet(x, Members(l) \ {p})) % Prime]

Residual(l, b, x) == Axpy(-1, MatrixApply(l, x), b)

Defect(l, b, x) == Filter(l, Residual(l, b, x))

\* Smoothers and coarse grid solvers filter their results on their own.
Smoothed(factor, l, d) == Filter(l, Scale(factor, d))

Dot(l, x, y) == SumFunction([p \in Members(l) |-> x[p] * y[p]]) % Prime

Reciprocal(b) == CHOOSE c \in Num : (c * b) % Prime = 1

Quotient(a, b) == IF b % Prime = 0 THEN 0 ELSE (a * Reciprocal(b % Prime)) % Prime

\* Whom p leaves its share of level l to, on level l+1.
CoarseProc(l, p) == IF p \in Members(l + 1) THEN p ELSE Parent[p]

Ghosts(l, q) == {p \in Members(l) \ Members(l + 1) : Parent[p] = q}
=============================================================================
