--------------------------- MODULE MultiGridProofs ---------------------------
(***************************************************************************)
(* Proofs about MultiGrid, for all hierarchies: numbers of levels,         *)
(* processes on each of them, ghosts and parents, matrices, smoothers and  *)
(* boundary conditions, and all sequences of V-, F- and W-cycles.          *)
(*                                                                         *)
(* A first inductive invariant (IInv) says what a process has still to do  *)
(* (IsTodo), what has become of the vectors of the levels that it has left *)
(* (LevelIsRight), and that the counters of the W-cycle count              *)
(* (CounterIsRight).                                                       *)
(*                                                                         *)
(* A second one (JInv) compares the loops with the recursion of            *)
(* MultiGridCycle.  It says of each process what has been done on every    *)
(* level (ClassAt), that all processes of a level are equally far there    *)
(* (Together), what ghosts and their parents have sent (Passed), that the  *)
(* right-hand side of a level is the restricted defect of the one above    *)
(* (Given), and that its solution is that of the recursion at this point   *)
(* (AllSolved).                                                            *)
(***************************************************************************)
EXTENDS MultiGridCycle, DataLemmas

LoopOps == {"rest", "transfer", "prol", "split"}
OtherOps == {"coarse", "peak", "floop", "wstart", "wloop", "return"}
LastOps == {"floop", "wstart", "wloop", "return"}

Entry == [op : LoopOps, lvl : Level, smooth : BOOLEAN, i : Level] \cup [op : OtherOps, i : Int]

IsEntry(p, e) ==
  /\ e.op \in LoopOps => e.lvl <= e.i
  /\ e.op = "peak" => e.i \in Level
  /\ e.op = "floop" => e.i < LastLevel(p)

Leads(p, e, f) ==
  \/ e.op \in {"rest", "transfer"} /\ f.op \in {"coarse", "floop"}
  \/ e.op = "coarse" /\ (f.op \in {"wstart", "wloop"} \/ (f.op = "prol" /\ f.i = LastLevel(p)))
  \/ e.op \in {"prol", "split"} /\ (\/ f.op = "peak" /\ f.i = e.lvl
                                    \/ f.op = "return" /\ e.lvl = Top)
  \/ e.op = "peak" /\ f.op = "rest" /\ f.i = e.i /\ f.lvl = e.i /\ ~f.smooth

IsTodo(p, s) ==
  /\ \A k \in 1 .. Len(s) : IsEntry(p, s[k])
  /\ \A k \in 1 .. Len(s) - 1 : Leads(p, s[k], s[k + 1])
  /\ \A k \in 1 .. Len(s) : s[k].op \in LastOps <=> k = Len(s)

HasWLoop(s) == \E k \in 1 .. Len(s) : s[k].op = "wloop"

Data ==
  /\ input \in Inputs
  /\ rhs \in [Level -> Vector] /\ sol \in [Level -> Vector] /\ def \in [Level -> Vector]
  /\ up \in [Proc -> Seq(Int)] /\ down \in [Proc -> Seq(Int)]
  /\ counters \in [Proc -> [Level -> Int]] /\ cgs \in [Proc -> Int]

CycleControl ==
  /\ calls \in [Proc -> Nat] /\ todo \in [Proc -> Seq(Entry)]
  /\ \A p \in Proc :
       /\ IsTodo(p, todo[p])
       /\ calls[p] <= Len(input)
       /\ todo[p] # <<>> => calls[p] > 0

Below(e, l) ==
  \/ e.op = "rest" /\ (l < e.i \/ (l = e.i /\ e.i = e.lvl /\ ~e.smooth))
  \/ e.op = "transfer" /\ l <= e.i
  \/ e.op \in {"prol", "split", "peak"} /\ l < e.i
  \/ e.op \in {"coarse", "floop", "wstart", "wloop"}

Left(p, l) == todo[p] # <<>> /\ Below(Head(todo[p]), l)

SameOffBoundary(l, p) == p \in Fixed[l] \/ def[l][p] = rhs[l][p]

LevelIsRight(l) ==
  /\ (\A p \in Members(l) : Left(p, l)) => Filter(l, def[l]) = Defect(l, rhs[l], sol[l])
  /\ \A p, q \in Members(l) :
       Left(p, l) /\ ~Left(q, l) => Pre[l] = 0 /\ sol[l][p] = 0 /\ SameOffBoundary(l, p)
  /\ \A p \in Proc \ Members(l) : SameOffBoundary(l, p)

CounterIsRight(p) ==
  HasWLoop(todo[p]) =>
    /\ SumFunction(CounterValues(p)) = cgs[p] - 1
    /\ \A l \in Top .. LastLevel(p) - 1 : counters[p][l] \in {0, 1}

NoFault == fault = "none"

Levels == \A l \in Top .. Crs - 1 : LevelIsRight(l)
AllCount == \A p \in Proc : CounterIsRight(p)

IInv == Data /\ CycleControl /\ Levels /\ AllCount /\ NoFault

----------------------------------------------------------------------------
(* Levels and vectors.                                                     *)

LEMMA Remainder ==
  ASSUME NEW a \in Int
  PROVE  a % Prime \in Num /\ (a \in Num => a % Prime = a)
<1>1. Prime \in Nat /\ Prime > 1
  BY LevelAssumption
<1> QED
  BY <1>1 DEF Num

LEMMA NumIsInt == Num \subseteq Int /\ 0 \in Num
<1>1. Prime \in Nat /\ Prime > 1
  BY LevelAssumption
<1> QED
  BY <1>1 DEF Num

LEMMA LevelFacts ==
  /\ IsFiniteSet(Proc) /\ Top \in Nat /\ Crs \in Nat /\ Top <= Crs
  /\ Level = Top .. Crs /\ Level \subseteq Nat /\ Top \in Level /\ Crs \in Level
  /\ \A p \in Proc : Phys[p] \in Nat /\ Phys[p] > Top
BY LevelAssumption DEF Level

LEMMA LastFacts ==
  ASSUME NEW p \in Proc
  PROVE  /\ LastLevel(p) \in Level /\ LastLevel(p) \in Nat
         /\ \A l \in Level : l < LastLevel(p) => l < Crs /\ l + 1 \in Level /\ p \in Members(l)
         /\ \A l \in Level : p \in Members(l) /\ l < Crs => l < LastLevel(p)
         /\ \A l \in Level : l < Crs /\ p \notin Members(l + 1) => LastLevel(p) <= l + 1
         /\ \A l \in Level : l < Crs /\ p \in Members(l + 1) => p \in Members(l) /\ l + 1 <= LastLevel(p)
<1>1. /\ Phys[p] \in Nat /\ Phys[p] > Top
      /\ Top \in Nat /\ Crs \in Nat /\ Top <= Crs
      /\ Level = Top .. Crs
  BY LevelFacts
<1>2. CASE Phys[p] < Crs
  BY <1>1, <1>2 DEF LastLevel, Members
<1>3. CASE ~(Phys[p] < Crs)
  BY <1>1, <1>3 DEF LastLevel, Members
<1> QED
  BY <1>2, <1>3

LEMMA SomeMember ==
  ASSUME NEW l \in Level
  PROVE  Members(l) # {} /\ IsFiniteSet(Members(l)) /\ Members(l) \subseteq Proc
<1>1. PICK p \in Proc : Phys[p] > Crs
  BY LevelAssumption
<1>2. l <= Crs /\ l \in Nat /\ Crs \in Nat /\ Phys[p] \in Nat
  BY LevelFacts
<1>3. p \in Members(l)
  BY <1>1, <1>2 DEF Members
<1> QED
  BY <1>3, LevelFacts, FS_Subset DEF Members

\* A ghost's parent is on the next level.
LEMMA GhostHasParent ==
  ASSUME NEW l \in Level, l < Crs, NEW g \in Members(l) \ Members(l + 1)
  PROVE  g \in Proc /\ Parent[g] \in Members(l + 1) /\ g \in Ghosts(l, Parent[g])
<1>1. /\ l \in Nat /\ Crs \in Nat /\ g \in Proc
      /\ \A p \in Proc : Phys[p] \in Nat /\ Phys[p] > Top
  BY LevelFacts DEF Members
<1>2. /\ Parent[g] \in Proc
      /\ Phys[g] <= Crs => Phys[Parent[g]] > Phys[g]
  BY <1>1, LevelAssumption
<1>3. Phys[g] = l + 1
  BY <1>1 DEF Members
<1> QED
  BY <1>1, <1>2, <1>3 DEF Members, Ghosts

LEMMA VectorFacts ==
  ASSUME NEW x \in Vector, NEW p \in Proc
  PROVE  x[p] \in Num /\ x[p] \in Int /\ DOMAIN x = Proc /\ x = [q \in Proc |-> x[q]]
BY NumIsInt DEF Vector

LEMMA AxpyIs ==
  ASSUME NEW a \in Int, NEW x, NEW y, \A p \in Proc : x[p] \in Int /\ y[p] \in Int
  PROVE  Axpy(a, x, y) \in Vector
<1>1. \A p \in Proc : (a * x[p] + y[p]) % Prime \in Num
  <2> SUFFICES ASSUME NEW p \in Proc PROVE (a * x[p] + y[p]) % Prime \in Num
    OBVIOUS
  <2>1. a * x[p] + y[p] \in Int
    OBVIOUS
  <2> QED
    BY <2>1, Remainder
<1> QED
  BY <1>1 DEF Axpy, Vector

LEMMA ScaleIs ==
  ASSUME NEW a \in Int, NEW x, \A p \in Proc : x[p] \in Int
  PROVE  Scale(a, x) \in Vector
<1>1. \A p \in Proc : Zero[p] \in Int
  BY DEF Zero
<1> QED
  BY <1>1, AxpyIs DEF Scale

LEMMA FilterIs ==
  ASSUME NEW l, NEW x, \A p \in Proc : x[p] \in Num
  PROVE  Filter(l, x) \in Vector
BY NumIsInt DEF Filter, Vector

LEMMA FactorFacts ==
  ASSUME NEW l \in Level
  PROVE  /\ Matrix[l].diag \in Int /\ Matrix[l].else \in Int
         /\ Pre[l] \in Int /\ Post[l] \in Int /\ Peak[l] \in Int /\ CrsSolver \in Int
         /\ Weight[l].rest \in Int /\ Weight[l].prol \in Int
         /\ Fixed[l] \subseteq Proc
BY LevelAssumption, NumIsInt

LEMMA MatrixApplyIs ==
  ASSUME NEW l \in Level, NEW x, \A p \in Proc : x[p] \in Int
  PROVE  MatrixApply(l, x) \in Vector
<1>1. ASSUME NEW p \in Proc, p \in Members(l)
      PROVE  (Matrix[l].diag * x[p] + Matrix[l].else * SumFunctionOnSet(x, Members(l) \ {p})) % Prime \in Num
  <2>1. IsFiniteSet(Members(l) \ {p})
    BY SomeMember, FS_Subset
  <2>2. SumFunctionOnSet(x, Members(l) \ {p}) \in Int
    BY <2>1, SumType, SomeMember DEF Sum
  <2> DEFINE s == SumFunctionOnSet(x, Members(l) \ {p})
  <2> HIDE DEF s
  <2>3. Matrix[l].diag * x[p] + Matrix[l].else * s \in Int
    <3>1. Matrix[l].diag \in Int /\ Matrix[l].else \in Int /\ x[p] \in Int /\ s \in Int
      BY <2>2, FactorFacts DEF s
    <3> QED
      BY <3>1
  <2> QED
    BY <2>3, Remainder DEF s
<1>2. 0 \in Num
  BY NumIsInt
<1> QED
  BY <1>1, <1>2 DEF MatrixApply, Vector

LEMMA ResidualIs ==
  ASSUME NEW l \in Level, NEW b, NEW x, \A p \in Proc : x[p] \in Int /\ b[p] \in Int
  PROVE  Residual(l, b, x) \in Vector /\ Defect(l, b, x) \in Vector
<1>1. MatrixApply(l, x) \in Vector
  BY MatrixApplyIs
<1>2. \A p \in Proc : MatrixApply(l, x)[p] \in Int
  BY <1>1, VectorFacts
<1>3. Residual(l, b, x) \in Vector
  BY <1>2, AxpyIs DEF Residual
<1> QED
  BY <1>3, FilterIs, VectorFacts DEF Defect

LEMMA SmoothedIs ==
  ASSUME NEW l \in Level, NEW a \in Int, NEW x, \A p \in Proc : x[p] \in Int
  PROVE  Smoothed(a, l, x) \in Vector
BY ScaleIs, FilterIs, VectorFacts DEF Smoothed

LEMMA DotIs ==
  ASSUME NEW l \in Level, NEW x, NEW y, \A p \in Proc : x[p] \in Int /\ y[p] \in Int
  PROVE  Dot(l, x, y) \in Num
<1> DEFINE products == [p \in Members(l) |-> x[p] * y[p]]
<1>1. DOMAIN products = Members(l) /\ \A p \in Members(l) : products[p] \in Int
  BY SomeMember
<1> HIDE DEF products
<1>2. Sum(products, Members(l)) \in Int
  BY <1>1, SumType, SomeMember
<1>3. SumFunction(products) \in Int
  BY <1>1, <1>2 DEF SumFunction, Sum
<1>4. SumFunction(products) % Prime \in Num
  BY <1>3, Remainder
<1> QED
  BY <1>4 DEF Dot, products

LEMMA QuotientIs ==
  ASSUME NEW a \in Num, NEW b \in Num
  PROVE  Quotient(a, b) \in Num
<1>1. CASE b % Prime = 0
  BY <1>1, NumIsInt DEF Quotient
<1>2. CASE b % Prime # 0
  <2>1. b % Prime \in Num \ {0}
    BY <1>2, Remainder, NumIsInt
  <2>2. \E c \in Num : (c * (b % Prime)) % Prime = 1
    BY <2>1, LevelAssumption, Zenon
  <2>3. Reciprocal(b % Prime) \in Num
    BY <2>2, Zenon DEF Reciprocal
  <2>4. \A c \in Num : (a * c) % Prime \in Num
    <3>1. ASSUME NEW c \in Int PROVE a * c \in Int
      BY NumIsInt
    <3> QED
      BY <3>1, Remainder, NumIsInt
  <2>5. (a * Reciprocal(b % Prime)) % Prime \in Num
    BY <2>3, <2>4
  <2> QED
    BY <1>2, <2>5, Zenon DEF Quotient
<1> QED
  BY <1>1, <1>2

\* Where a process is not on the level, or the solution is zero, the residual is the
\* right-hand side.
LEMMA ResidualOfZero ==
  ASSUME NEW l \in Level, NEW b \in Vector, NEW x, NEW p \in Proc,
         p \in Members(l) => \A q \in Members(l) : x[q] = 0
  PROVE  Residual(l, b, x)[p] = b[p]
<1>1. MatrixApply(l, x)[p] = 0
  <2>1. CASE p \notin Members(l)
    BY <2>1 DEF MatrixApply
  <2>2. CASE p \in Members(l)
    <3>1. IsFiniteSet(Members(l) \ {p}) /\ {} \subseteq Members(l) \ {p}
      BY SomeMember, FS_Subset
    <3>2. \A q \in Members(l) \ {p} : x[q] = IF q \in {} THEN 0 ELSE 0
      BY <2>2
    <3>3. Sum(x, Members(l) \ {p}) = Cardinality({}) * 0
      BY <3>1, <3>2, SumOfEqualShares
    <3>4. SumFunctionOnSet(x, Members(l) \ {p}) = 0
      BY <3>3, FS_EmptySet DEF Sum
    <3> DEFINE s == SumFunctionOnSet(x, Members(l) \ {p})
    <3>5. MatrixApply(l, x)[p] = (Matrix[l].diag * x[p] + Matrix[l].else * s) % Prime
      BY <2>2 DEF MatrixApply
    <3>6. x[p] = 0 /\ s = 0 /\ Matrix[l].diag \in Int /\ Matrix[l].else \in Int
      BY <2>2, <3>4, FactorFacts
    <3> HIDE DEF s
    <3>7. Matrix[l].diag * x[p] + Matrix[l].else * s = 0
      BY <3>6
    <3> QED
      BY <3>5, <3>7, Remainder, NumIsInt
  <2> QED
    BY <2>1, <2>2
<1>2. Residual(l, b, x)[p] = ((-1) * MatrixApply(l, x)[p] + b[p]) % Prime
  BY DEF Residual, Axpy
<1>3. b[p] \in Int /\ b[p] \in Num
  BY VectorFacts
<1>4. (-1) * 0 + b[p] = b[p]
  BY <1>3
<1> QED
  BY <1>1, <1>2, <1>3, <1>4, Remainder

\* Filtered vectors are equal when the vectors are, where the filter lets them be.
LEMMA FiltersAgree ==
  ASSUME NEW l, NEW x, NEW y, \A p \in Proc : p \in Fixed[l] \/ x[p] = y[p]
  PROVE  Filter(l, x) = Filter(l, y)
BY DEF Filter

LEMMA FilterTwice ==
  ASSUME NEW l, NEW x
  PROVE  Filter(l, Filter(l, x)) = Filter(l, x)
BY DEF Filter

----------------------------------------------------------------------------
(* What is still to do.                                                    *)

LEMMA EntryFacts ==
  ASSUME NEW e \in Entry
  PROVE  /\ e.op \in LoopOps \cup OtherOps /\ e.i \in Int
         /\ e.op \in LoopOps => /\ e \in [op : LoopOps, lvl : Level, smooth : BOOLEAN, i : Level]
                                /\ e.lvl \in Level /\ e.smooth \in BOOLEAN /\ e.i \in Level
         /\ e.op \in OtherOps => e \in [op : OtherOps, i : Int]
<1>1. Level \subseteq Int
  BY LevelFacts
<1>2. CASE e \in [op : LoopOps, lvl : Level, smooth : BOOLEAN, i : Level]
  BY <1>1, <1>2 DEF LoopOps, OtherOps
<1>3. CASE e \in [op : OtherOps, i : Int]
  BY <1>3 DEF LoopOps, OtherOps
<1> QED
  BY <1>2, <1>3 DEF Entry

\* A process goes on with the next entry.
LEMMA TodoTail ==
  ASSUME NEW p \in Proc, NEW s \in Seq(Entry), IsTodo(p, s), s # <<>>, Head(s).op \notin LastOps
  PROVE  /\ Tail(s) \in Seq(Entry) /\ IsTodo(p, Tail(s)) /\ Tail(s) # <<>>
         /\ Head(s) \in Entry /\ IsEntry(p, Head(s))
         /\ Head(Tail(s)) \in Entry /\ IsEntry(p, Head(Tail(s)))
         /\ Leads(p, Head(s), Head(Tail(s)))
<1>1. /\ Len(s) \in Nat /\ Len(s) > 0 /\ 1 \in 1 .. Len(s)
      /\ Head(s) = s[1] /\ Tail(s) \in Seq(Entry) /\ Len(Tail(s)) = Len(s) - 1
      /\ \A k \in 1 .. Len(s) : s[k] \in Entry
  OBVIOUS
<1>2. Len(s) # 1
  BY <1>1 DEF IsTodo
<1>3. \A k \in 1 .. Len(Tail(s)) : Tail(s)[k] = s[k + 1] /\ k + 1 \in 1 .. Len(s)
  BY <1>1
<1> DEFINE t == Tail(s)
<1>4. Tail(s) # <<>> /\ Head(Tail(s)) = s[2] /\ 2 \in 1 .. Len(s) /\ 1 \in 1 .. Len(s) - 1
  <2>1. 2 \in 1 .. Len(s) /\ 1 \in 1 .. Len(s) - 1 /\ 1 \in 1 .. Len(t)
    BY <1>1, <1>2
  <2>2. t \in Seq(Entry) /\ t[1] = s[1 + 1]
    BY <1>1, <1>3, <2>1
  <2> HIDE DEF t
  <2>3. t # <<>> /\ Head(t) = t[1]
    BY <2>1, <2>2
  <2> QED
    BY <2>1, <2>2, <2>3 DEF t
<1>5. \A k \in 1 .. Len(Tail(s)) - 1 : k \in 1 .. Len(Tail(s)) /\ k + 1 \in 1 .. Len(Tail(s)) /\ k + 1 \in 1 .. Len(s) - 1
  BY <1>1, <1>2
<1>6. \A k \in 1 .. Len(Tail(s)) - 1 : Leads(p, Tail(s)[k], Tail(s)[k + 1])
  BY <1>3, <1>5 DEF IsTodo
<1>7. \A k \in 1 .. Len(Tail(s)) : IsEntry(p, Tail(s)[k])
  BY <1>3 DEF IsTodo
<1>8. \A k \in 1 .. Len(Tail(s)) : Tail(s)[k].op \in LastOps <=> k = Len(Tail(s))
  <2> SUFFICES ASSUME NEW k \in 1 .. Len(Tail(s)) PROVE Tail(s)[k].op \in LastOps <=> k = Len(Tail(s))
    OBVIOUS
  <2>1. s[k + 1].op \in LastOps <=> k + 1 = Len(s)
    BY <1>3 DEF IsTodo
  <2>2. k + 1 = Len(s) <=> k = Len(Tail(s))
    BY <1>1
  <2>3. Tail(s)[k] = s[k + 1]
    BY <1>3
  <2> QED
    BY <2>1, <2>2, <2>3, Zenon
<1>9. IsTodo(p, Tail(s))
  BY <1>6, <1>7, <1>8 DEF IsTodo
<1>10. Leads(p, s[1], s[1 + 1]) /\ IsEntry(p, s[1]) /\ IsEntry(p, s[2])
  BY <1>1, <1>4 DEF IsTodo
<1> QED
  BY <1>1, <1>4, <1>9, <1>10

\* Another first entry.
LEMMA TodoHead ==
  ASSUME NEW p \in Proc, NEW s \in Seq(Entry), IsTodo(p, s), s # <<>>,
         NEW e \in Entry, IsEntry(p, e), Head(s).op \notin LastOps, e.op \notin LastOps,
         \A f : Leads(p, Head(s), f) => Leads(p, e, f)
  PROVE  LET t == [s EXCEPT ![1] = e]
         IN  t \in Seq(Entry) /\ IsTodo(p, t) /\ t # <<>> /\ Head(t) = e
<1> DEFINE t == [s EXCEPT ![1] = e]
<1>1. /\ Len(s) \in Nat /\ Len(s) > 0 /\ 1 \in 1 .. Len(s)
      /\ Head(s) = s[1]
      /\ t \in Seq(Entry) /\ Len(t) = Len(s) /\ t # <<>> /\ Head(t) = e
      /\ t[1] = e /\ \A k \in 1 .. Len(s) : k # 1 => t[k] = s[k]
  OBVIOUS
<1> HIDE DEF t
<1>2. Len(s) # 1
  BY <1>1 DEF IsTodo
<1>3. \A k \in 1 .. Len(t) : IsEntry(p, t[k])
  BY <1>1 DEF IsTodo
<1>4. \A k \in 1 .. Len(t) : t[k].op \in LastOps <=> k = Len(t)
  BY <1>1, <1>2 DEF IsTodo
<1>5. \A k \in 1 .. Len(t) - 1 : Leads(p, t[k], t[k + 1])
  <2> SUFFICES ASSUME NEW k \in 1 .. Len(t) - 1 PROVE Leads(p, t[k], t[k + 1])
    OBVIOUS
  <2>1. k \in 1 .. Len(s) - 1 /\ k \in 1 .. Len(s) /\ k + 1 \in 1 .. Len(s) /\ k + 1 # 1
    BY <1>1
  <2>2. Leads(p, s[k], s[k + 1])
    BY <2>1 DEF IsTodo
  <2>3. t[k + 1] = s[k + 1]
    BY <1>1, <2>1
  <2> QED
    BY <1>1, <2>1, <2>2, <2>3
<1>6. IsTodo(p, t)
  BY <1>3, <1>4, <1>5 DEF IsTodo
<1> QED
  BY <1>1, <1>6 DEF t

\* A loop goes on with another operation and index.
LEMMA TodoGoesOn ==
  ASSUME todo \in [Proc -> Seq(Entry)],
         NEW p \in Proc, IsTodo(p, todo[p]), todo[p] # <<>>, NEW op, NEW i \in Level,
         \/ Head(todo[p]).op \in {"rest", "transfer"} /\ op \in {"rest", "transfer"}
         \/ Head(todo[p]).op \in {"prol", "split"} /\ op \in {"prol", "split"},
         Head(todo[p]).lvl <= i
  PROVE  LET t == LoopGoesOn(p, op, i)
             e == Head(todo[p])
         IN  /\ t \in Seq(Entry) /\ IsTodo(p, t) /\ t # <<>> /\ Len(t) = Len(todo[p])
             /\ Head(t) = [op |-> op, lvl |-> e.lvl, smooth |-> e.smooth, i |-> i]
             /\ \A k \in 1 .. Len(t) : k # 1 => t[k] = todo[p][k]
<1> DEFINE e == Head(todo[p])
           f == [op |-> op, lvl |-> e.lvl, smooth |-> e.smooth, i |-> i]
           s == todo[p]
           t == LoopGoesOn(p, op, i)
<1>1. s \in Seq(Entry) /\ Len(s) \in Nat /\ 1 \in 1 .. Len(s) /\ e = s[1] /\ e \in Entry /\ IsEntry(p, e)
  BY DEF IsTodo
<1>2. op \in LoopOps /\ op \notin LastOps /\ e.op \in LoopOps /\ e.op \notin LastOps
  BY DEF LoopOps, LastOps
<1>3. /\ e \in [op : LoopOps, lvl : Level, smooth : BOOLEAN, i : Level]
      /\ e.lvl \in Level /\ e.smooth \in BOOLEAN /\ e.lvl <= e.i
  BY <1>1, <1>2, EntryFacts DEF IsEntry
<1>4. f \in Entry /\ IsEntry(p, f) /\ f.op = op
  BY <1>2, <1>3 DEF Entry, IsEntry, LoopOps
<1>5. t = [s EXCEPT ![1] = f]
  <2>1. [[e EXCEPT !.op = op] EXCEPT !.i = i] = f
    <3>1. e = [op |-> e.op, lvl |-> e.lvl, smooth |-> e.smooth, i |-> e.i]
      BY <1>3
    <3>2. [e EXCEPT !.op = op] = [op |-> op, lvl |-> e.lvl, smooth |-> e.smooth, i |-> e.i]
      BY <3>1
    <3>3. ASSUME NEW a, NEW b, NEW c, NEW d
          PROVE  [[op |-> a, lvl |-> b, smooth |-> c, i |-> d] EXCEPT !.i = i]
                   = [op |-> a, lvl |-> b, smooth |-> c, i |-> i]
      OBVIOUS
    <3> HIDE DEF e
    <3>4. [[op |-> op, lvl |-> e.lvl, smooth |-> e.smooth, i |-> e.i] EXCEPT !.i = i]
            = [op |-> op, lvl |-> e.lvl, smooth |-> e.smooth, i |-> i]
      BY <3>3
    <3> QED
      BY <3>2, <3>4
  <2>2. t = [[s EXCEPT ![1] = [e EXCEPT !.op = op]] EXCEPT ![1] = [[e EXCEPT !.op = op] EXCEPT !.i = i]]
    <3> DEFINE u == [s EXCEPT ![1].op = op]
    <3>1. u = [s EXCEPT ![1] = [e EXCEPT !.op = op]]
      BY <1>1
    <3>2. u[1] = [e EXCEPT !.op = op]
      BY <1>1, <3>1
    <3>3. t = [u EXCEPT ![1].i = i]
      BY DEF LoopGoesOn
    <3> HIDE DEF u
    <3>4. [u EXCEPT ![1].i = i] = [u EXCEPT ![1] = [u[1] EXCEPT !.i = i]]
      OBVIOUS
    <3> QED
      BY <3>1, <3>2, <3>3, <3>4
  <2>3. [[s EXCEPT ![1] = [e EXCEPT !.op = op]] EXCEPT ![1] = f] = [s EXCEPT ![1] = f]
    BY <1>1
  <2> QED
    BY <2>1, <2>2, <2>3
<1>6. \A g : Leads(p, e, g) => Leads(p, f, g)
  BY <1>3 DEF Leads
<1> HIDE DEF f, t
<1>7. t \in Seq(Entry) /\ IsTodo(p, t) /\ t # <<>> /\ Head(t) = f
  BY <1>1, <1>2, <1>4, <1>5, <1>6, TodoHead
<1>8. Len(t) = Len(s) /\ \A k \in 1 .. Len(t) : k # 1 => t[k] = s[k]
  BY <1>1, <1>5
<1> QED
  BY <1>7, <1>8 DEF f, t

IsGoodTodo(p, s) == s \in Seq(Entry) /\ IsTodo(p, s) /\ s # <<>>
IsGoodEntry(p, e) == e \in Entry /\ IsEntry(p, e)

LEMMA TodoOfOne ==
  ASSUME NEW p, NEW a, IsGoodEntry(p, a), a.op \in LastOps
  PROVE  /\ IsGoodTodo(p, <<a>>) /\ Head(<<a>>) = a
         /\ HasWLoop(<<a>>) => a.op = "wloop"
<1> DEFINE s == <<a>>
<1>1. /\ s \in Seq(Entry) /\ Len(s) = 1 /\ s # <<>> /\ s[1] = a /\ Head(s) = a
      /\ \A k \in 1 .. Len(s) : k = 1
  BY DEF IsGoodEntry
<1> HIDE DEF s
<1>2. ~ \E k \in 1 .. Len(s) - 1 : TRUE
  BY <1>1
<1> QED
  BY <1>1, <1>2 DEF IsGoodTodo, IsGoodEntry, IsTodo, HasWLoop, s

\* t is s with one more entry before the others.
IsMore(t, a, s) ==
  t \in Seq(Entry) /\ Len(t) = Len(s) + 1 /\ t[1] = a /\ \A k \in 1 .. Len(s) : t[k + 1] = s[k]

LEMMA Tuples ==
  ASSUME NEW a \in Entry, NEW b \in Entry, NEW c \in Entry, NEW d \in Entry, NEW e \in Entry
  PROVE  /\ IsMore(<<a, b>>, a, <<b>>)
         /\ IsMore(<<a, b, c>>, a, <<b, c>>)
         /\ IsMore(<<a, b, c, d>>, a, <<b, c, d>>)
         /\ IsMore(<<a, b, c, d, e>>, a, <<b, c, d, e>>)
<1>1. IsMore(<<a, b>>, a, <<b>>)
  BY DEF IsMore
<1>2. IsMore(<<a, b, c>>, a, <<b, c>>)
  <2>1. \A k \in 1 .. 2 : k = 1 \/ k = 2
    OBVIOUS
  <2> QED
    BY <2>1 DEF IsMore
<1>3. IsMore(<<a, b, c, d>>, a, <<b, c, d>>)
  <2>1. \A k \in 1 .. 3 : k = 1 \/ k = 2 \/ k = 3
    OBVIOUS
  <2> QED
    BY <2>1 DEF IsMore
<1>4. IsMore(<<a, b, c, d, e>>, a, <<b, c, d, e>>)
  <2>1. \A k \in 1 .. 4 : k = 1 \/ k = 2 \/ k = 3 \/ k = 4
    OBVIOUS
  <2> QED
    BY <2>1 DEF IsMore
<1> QED
  BY <1>1, <1>2, <1>3, <1>4

LEMMA TodoOfMore ==
  ASSUME NEW p, NEW s, IsGoodTodo(p, s), NEW a, IsGoodEntry(p, a), a.op \notin LastOps, Leads(p, a, Head(s)),
         NEW t, IsMore(t, a, s)
  PROVE  /\ IsGoodTodo(p, t) /\ Head(t) = a
         /\ HasWLoop(t) => HasWLoop(s)
<1>1. /\ t \in Seq(Entry) /\ Len(s) \in Nat /\ Len(t) = Len(s) + 1 /\ t # <<>> /\ t[1] = a /\ Head(t) = a
      /\ Len(s) > 0 /\ Head(s) = s[1]
  BY DEF IsGoodTodo, IsGoodEntry, IsMore
<1>2. \A k \in 1 .. Len(t) : k # 1 => t[k] = s[k - 1] /\ k - 1 \in 1 .. Len(s)
  <2> SUFFICES ASSUME NEW k \in 1 .. Len(t), k # 1 PROVE t[k] = s[k - 1] /\ k - 1 \in 1 .. Len(s)
    OBVIOUS
  <2>1. k - 1 \in 1 .. Len(s) /\ (k - 1) + 1 = k
    BY <1>1
  <2>2. t[(k - 1) + 1] = s[k - 1]
    BY <2>1 DEF IsMore
  <2> QED
    BY <2>1, <2>2
<1>3. \A k \in 1 .. Len(t) : IsEntry(p, t[k])
  BY <1>1, <1>2 DEF IsTodo, IsGoodTodo, IsGoodEntry
<1>4. \A k \in 1 .. Len(t) - 1 : Leads(p, t[k], t[k + 1])
  <2> SUFFICES ASSUME NEW k \in 1 .. Len(t) - 1 PROVE Leads(p, t[k], t[k + 1])
    OBVIOUS
  <2>1. k + 1 \in 1 .. Len(t) /\ k + 1 # 1 /\ (k + 1) - 1 = k /\ k \in 1 .. Len(t)
    BY <1>1
  <2>2. t[k + 1] = s[k]
    BY <1>2, <2>1
  <2>3. CASE k = 1
    BY <1>1, <2>2, <2>3
  <2>4. CASE k # 1
    <3>1. k - 1 \in 1 .. Len(s) - 1 /\ (k - 1) + 1 = k
      BY <1>1, <2>4
    <3>2. Leads(p, s[k - 1], s[(k - 1) + 1])
      BY <3>1 DEF IsTodo, IsGoodTodo
    <3> QED
      BY <1>2, <2>1, <2>2, <2>4, <3>1, <3>2
  <2> QED
    BY <2>3, <2>4
<1>5. \A k \in 1 .. Len(t) : t[k].op \in LastOps <=> k = Len(t)
  <2> SUFFICES ASSUME NEW k \in 1 .. Len(t) PROVE t[k].op \in LastOps <=> k = Len(t)
    OBVIOUS
  <2>1. CASE k = 1
    BY <1>1, <2>1
  <2>2. CASE k # 1
    <3>1. s[k - 1].op \in LastOps <=> k - 1 = Len(s)
      BY <1>2, <2>2 DEF IsTodo, IsGoodTodo
    <3>2. k - 1 = Len(s) <=> k = Len(t)
      BY <1>1
    <3> QED
      BY <1>2, <2>2, <3>1, <3>2
  <2> QED
    BY <2>1, <2>2
<1>6. HasWLoop(t) => HasWLoop(s)
  <2> SUFFICES ASSUME NEW k \in 1 .. Len(t), t[k].op = "wloop" PROVE \E j \in 1 .. Len(s) : s[j].op = "wloop"
    BY DEF HasWLoop
  <2>1. k # 1
    BY <1>1 DEF LastOps
  <2> QED
    BY <1>2, <2>1
<1>7. IsGoodTodo(p, t) /\ Head(t) = a
  BY <1>1, <1>3, <1>4, <1>5 DEF IsGoodTodo, IsTodo
<1> QED
  BY <1>6, <1>7

LEMMA TopIsOurs ==
  ASSUME NEW p \in Proc
  PROVE  Top \in Level /\ Top <= LastLevel(p) /\ TRUE \in BOOLEAN /\ p \in Members(Top)
<1>1. LastLevel(p) \in Level
  BY LastFacts
<1> QED
  BY <1>1, LevelFacts DEF Members

LEMMA EntriesAreGood ==
  ASSUME NEW p \in Proc
  PROVE  /\ \A l \in Level, b \in BOOLEAN : l <= LastLevel(p) =>
              IsGoodEntry(p, DoRest(l, b)) /\ IsGoodEntry(p, DoProl(p, l, b))
         /\ \A l \in Level : IsGoodEntry(p, DoPeak(l))
         /\ \A l \in Int : l < LastLevel(p) => IsGoodEntry(p, DoFLoop(l))
         /\ \A op \in {"coarse", "wstart", "wloop", "return"} : IsGoodEntry(p, Do(op))
<1>1. LastLevel(p) \in Level /\ Level \subseteq Nat
  BY LastFacts, LevelFacts
<1>2. ASSUME NEW l \in Level, NEW b \in BOOLEAN, l <= LastLevel(p)
      PROVE  IsGoodEntry(p, DoRest(l, b)) /\ IsGoodEntry(p, DoProl(p, l, b))
  BY <1>1, <1>2 DEF IsGoodEntry, IsEntry, Entry, LoopOps, DoRest, DoProl
<1>3. ASSUME NEW l \in Level
      PROVE  IsGoodEntry(p, DoPeak(l))
  BY <1>1, <1>3 DEF IsGoodEntry, IsEntry, Entry, LoopOps, OtherOps, DoPeak
<1>4. ASSUME NEW l \in Int, l < LastLevel(p)
      PROVE  IsGoodEntry(p, DoFLoop(l))
  BY <1>1, <1>4 DEF IsGoodEntry, IsEntry, Entry, LoopOps, OtherOps, DoFLoop
<1>5. ASSUME NEW op \in {"coarse", "wstart", "wloop", "return"}
      PROVE  IsGoodEntry(p, Do(op))
  BY <1>1, <1>5 DEF IsGoodEntry, IsEntry, Entry, LoopOps, OtherOps, Do
<1> QED
  BY <1>2, <1>3, <1>4, <1>5

\* Lists of entries that lead on to each other.
LEMMA TodoOfTwo ==
  ASSUME NEW p, NEW a, NEW b, IsGoodEntry(p, a), IsGoodEntry(p, b),
         a.op \notin LastOps, b.op \in LastOps, Leads(p, a, b)
  PROVE  /\ IsGoodTodo(p, <<a, b>>) /\ Head(<<a, b>>) = a
         /\ HasWLoop(<<a, b>>) => b.op = "wloop"
<1> DEFINE s == <<b>>
           t == <<a, b>>
<1>1. IsMore(t, a, s)
  BY Tuples DEF IsGoodEntry
<1>2. IsGoodTodo(p, s) /\ Head(s) = b /\ (HasWLoop(s) => b.op = "wloop")
  BY TodoOfOne
<1> HIDE DEF s, t
<1>3. IsGoodTodo(p, t) /\ Head(t) = a /\ (HasWLoop(t) => HasWLoop(s))
  BY <1>1, <1>2, TodoOfMore
<1> QED
  BY <1>2, <1>3 DEF t

LEMMA TodoOfThree ==
  ASSUME NEW p, NEW a, NEW b, NEW c, IsGoodEntry(p, a), IsGoodEntry(p, b), IsGoodEntry(p, c),
         a.op \notin LastOps, b.op \notin LastOps, c.op \in LastOps, Leads(p, a, b), Leads(p, b, c)
  PROVE  /\ IsGoodTodo(p, <<a, b, c>>) /\ Head(<<a, b, c>>) = a
         /\ HasWLoop(<<a, b, c>>) => c.op = "wloop"
<1> DEFINE s == <<b, c>>
           t == <<a, b, c>>
<1>1. IsMore(t, a, s)
  BY Tuples DEF IsGoodEntry
<1>2. IsGoodTodo(p, s) /\ Head(s) = b /\ (HasWLoop(s) => c.op = "wloop")
  BY TodoOfTwo
<1> HIDE DEF s, t
<1>3. IsGoodTodo(p, t) /\ Head(t) = a /\ (HasWLoop(t) => HasWLoop(s))
  BY <1>1, <1>2, TodoOfMore
<1> QED
  BY <1>2, <1>3 DEF t

LEMMA TodoOfFour ==
  ASSUME NEW p, NEW a, NEW b, NEW c, NEW d,
         IsGoodEntry(p, a), IsGoodEntry(p, b), IsGoodEntry(p, c), IsGoodEntry(p, d),
         a.op \notin LastOps, b.op \notin LastOps, c.op \notin LastOps, d.op \in LastOps,
         Leads(p, a, b), Leads(p, b, c), Leads(p, c, d)
  PROVE  /\ IsGoodTodo(p, <<a, b, c, d>>) /\ Head(<<a, b, c, d>>) = a
         /\ HasWLoop(<<a, b, c, d>>) => d.op = "wloop"
<1> DEFINE s == <<b, c, d>>
           t == <<a, b, c, d>>
<1>1. IsMore(t, a, s)
  BY Tuples DEF IsGoodEntry
<1>2. IsGoodTodo(p, s) /\ Head(s) = b /\ (HasWLoop(s) => d.op = "wloop")
  BY TodoOfThree
<1> HIDE DEF s, t
<1>3. IsGoodTodo(p, t) /\ Head(t) = a /\ (HasWLoop(t) => HasWLoop(s))
  BY <1>1, <1>2, TodoOfMore
<1> QED
  BY <1>2, <1>3 DEF t

LEMMA TodoOfFive ==
  ASSUME NEW p, NEW a, NEW b, NEW c, NEW d, NEW e,
         IsGoodEntry(p, a), IsGoodEntry(p, b), IsGoodEntry(p, c), IsGoodEntry(p, d), IsGoodEntry(p, e),
         a.op \notin LastOps, b.op \notin LastOps, c.op \notin LastOps, d.op \notin LastOps, e.op \in LastOps,
         Leads(p, a, b), Leads(p, b, c), Leads(p, c, d), Leads(p, d, e)
  PROVE  /\ IsGoodTodo(p, <<a, b, c, d, e>>) /\ Head(<<a, b, c, d, e>>) = a
         /\ HasWLoop(<<a, b, c, d, e>>) => e.op = "wloop"
<1> DEFINE s == <<b, c, d, e>>
           t == <<a, b, c, d, e>>
<1>1. IsMore(t, a, s)
  BY Tuples DEF IsGoodEntry
<1>2. IsGoodTodo(p, s) /\ Head(s) = b /\ (HasWLoop(s) => e.op = "wloop")
  BY TodoOfFour
<1> HIDE DEF s, t
<1>3. IsGoodTodo(p, t) /\ Head(t) = a /\ (HasWLoop(t) => HasWLoop(s))
  BY <1>1, <1>2, TodoOfMore
<1> QED
  BY <1>2, <1>3 DEF t

\* What a process has to do when a cycle begins, and after each step of the F- and of
\* the W-cycle.
LEMMA CycleTodo ==
  ASSUME NEW p \in Proc, NEW cycle \in {"V", "F", "W"}
  PROVE  /\ IsGoodTodo(p, CycleCalls(p, cycle)) /\ Head(CycleCalls(p, cycle)) = DoRest(Top, TRUE)
         /\ ~HasWLoop(CycleCalls(p, cycle))
<1> DEFINE a == DoRest(Top, TRUE)
           b == Do("coarse")
           c == Do("wstart")
           d == DoFLoop(LastLevel(p) - 1)
           e == DoProl(p, Top, TRUE)
           f == Do("return")
<1>1. /\ IsGoodEntry(p, a) /\ IsGoodEntry(p, b) /\ IsGoodEntry(p, c) /\ IsGoodEntry(p, d)
      /\ IsGoodEntry(p, e) /\ IsGoodEntry(p, f)
  <2>1. /\ LastLevel(p) - 1 \in Int /\ LastLevel(p) - 1 < LastLevel(p)
        /\ Top \in Level /\ Top <= LastLevel(p)
    BY LastFacts, LevelFacts
  <2> QED
    BY <2>1, EntriesAreGood
<1>2. /\ a.op \notin LastOps /\ b.op \notin LastOps /\ e.op \notin LastOps
      /\ c.op \in LastOps /\ d.op \in LastOps /\ f.op \in LastOps
      /\ c.op # "wloop" /\ d.op # "wloop" /\ f.op # "wloop"
      /\ Leads(p, a, b) /\ Leads(p, b, c) /\ Leads(p, a, d) /\ Leads(p, b, e) /\ Leads(p, e, f)
  BY DEF LastOps, Do, DoRest, DoFLoop, DoProl, Leads
<1>3. CycleCalls(p, cycle) \in {<<a, b, e, f>>, <<a, d>>, <<a, b, c>>}
  BY DEF CycleCalls
<1> HIDE DEF a, b, c, d, e, f
<1>4. IsGoodTodo(p, <<a, b, e, f>>) /\ Head(<<a, b, e, f>>) = a /\ ~HasWLoop(<<a, b, e, f>>)
  BY <1>1, <1>2, TodoOfFour
<1>5. IsGoodTodo(p, <<a, d>>) /\ Head(<<a, d>>) = a /\ ~HasWLoop(<<a, d>>)
  BY <1>1, <1>2, TodoOfTwo
<1>6. IsGoodTodo(p, <<a, b, c>>) /\ Head(<<a, b, c>>) = a /\ ~HasWLoop(<<a, b, c>>)
  BY <1>1, <1>2, TodoOfThree
<1>7. CycleCalls(p, cycle) = <<a, b, e, f>> \/ CycleCalls(p, cycle) = <<a, d>> \/ CycleCalls(p, cycle) = <<a, b, c>>
  BY <1>3, Zenon
<1>8. /\ IsGoodTodo(p, CycleCalls(p, cycle)) /\ Head(CycleCalls(p, cycle)) = a
      /\ ~HasWLoop(CycleCalls(p, cycle))
  BY <1>4, <1>5, <1>6, <1>7, Zenon
<1> QED
  BY <1>8 DEF a

LEMMA FTodo ==
  ASSUME NEW p \in Proc, NEW l \in Int, l < LastLevel(p)
  PROVE  IsGoodTodo(p, FCalls(p, l)) /\ Head(FCalls(p, l)).op = "coarse" /\ ~HasWLoop(FCalls(p, l))
<1> DEFINE a == Do("coarse")
           b == DoProl(p, l, FALSE)
           c == DoPeak(l)
           d == DoRest(l, FALSE)
           e == DoFLoop(l - 1)
           f == DoProl(p, Top, TRUE)
           g == Do("return")
<1>1. IsGoodEntry(p, a) /\ IsGoodEntry(p, g) /\ IsGoodEntry(p, f)
  BY EntriesAreGood, TopIsOurs
<1>2. CASE l > Top
  <2>1. /\ l \in Level /\ LastLevel(p) \in Int /\ l - 1 < LastLevel(p) /\ l <= LastLevel(p) /\ l - 1 \in Int
    BY <1>2, LastFacts, LevelFacts
  <2>2. IsGoodEntry(p, a) /\ IsGoodEntry(p, b) /\ IsGoodEntry(p, c) /\ IsGoodEntry(p, d) /\ IsGoodEntry(p, e)
    BY <2>1, EntriesAreGood
  <2>3. /\ a.op \notin LastOps /\ b.op \notin LastOps /\ c.op \notin LastOps /\ d.op \notin LastOps
        /\ e.op \in LastOps /\ e.op # "wloop" /\ a.op = "coarse"
        /\ Leads(p, a, b) /\ Leads(p, b, c) /\ Leads(p, c, d) /\ Leads(p, d, e)
    BY DEF LastOps, Do, DoProl, DoRest, DoPeak, DoFLoop, Leads
  <2>4. FCalls(p, l) = <<a, b, c, d, e>>
    BY <1>2 DEF FPeak, FCalls
  <2> HIDE DEF a, b, c, d, e
  <2>5. IsGoodTodo(p, <<a, b, c, d, e>>) /\ Head(<<a, b, c, d, e>>) = a /\ ~HasWLoop(<<a, b, c, d, e>>)
    BY <2>2, <2>3, TodoOfFive
  <2> QED
    BY <2>3, <2>4, <2>5
<1>3. CASE ~(l > Top)
  <2>1. FCalls(p, l) = <<a, f, g>>
    BY <1>3 DEF FEnd, FCalls
  <2>2. /\ a.op \notin LastOps /\ f.op \notin LastOps /\ g.op \in LastOps /\ g.op # "wloop" /\ a.op = "coarse"
        /\ Leads(p, a, f) /\ Leads(p, f, g)
    BY DEF LastOps, Do, DoProl, Leads
  <2> HIDE DEF a, f, g
  <2>3. IsGoodTodo(p, <<a, f, g>>) /\ Head(<<a, f, g>>) = a /\ ~HasWLoop(<<a, f, g>>)
    BY <1>1, <2>2, TodoOfThree
  <2> QED
    BY <2>1, <2>2, <2>3
<1> QED
  BY <1>2, <1>3

LEMMA WTodo ==
  ASSUME NEW p \in Proc
  PROVE  /\ \A l \in Level : l <= LastLevel(p) =>
              IsGoodTodo(p, WCalls(p, l)) /\ Head(WCalls(p, l)) = DoProl(p, l, FALSE)
         /\ IsGoodTodo(p, <<Do("wloop")>>) /\ Head(<<Do("wloop")>>).op = "wloop"
         /\ LET s == <<DoProl(p, Top, TRUE), Do("return")>>
            IN  IsGoodTodo(p, s) /\ Head(s) = DoProl(p, Top, TRUE) /\ ~HasWLoop(s)
<1>1. ASSUME NEW l \in Level, l <= LastLevel(p)
      PROVE  IsGoodTodo(p, WCalls(p, l)) /\ Head(WCalls(p, l)) = DoProl(p, l, FALSE)
  <2> DEFINE a == DoProl(p, l, FALSE)
             b == DoPeak(l)
             c == DoRest(l, FALSE)
             d == Do("coarse")
             e == Do("wloop")
  <2>2. IsGoodEntry(p, a) /\ IsGoodEntry(p, b) /\ IsGoodEntry(p, c) /\ IsGoodEntry(p, d) /\ IsGoodEntry(p, e)
    BY <1>1, EntriesAreGood
  <2>3. /\ a.op \notin LastOps /\ b.op \notin LastOps /\ c.op \notin LastOps /\ d.op \notin LastOps
        /\ e.op \in LastOps
        /\ Leads(p, a, b) /\ Leads(p, b, c) /\ Leads(p, c, d) /\ Leads(p, d, e)
    BY DEF LastOps, Do, DoProl, DoRest, DoPeak, DoFLoop, Leads
  <2>4. WCalls(p, l) = <<a, b, c, d, e>>
    BY DEF WCalls
  <2> HIDE DEF a, b, c, d, e
  <2>5. IsGoodTodo(p, <<a, b, c, d, e>>) /\ Head(<<a, b, c, d, e>>) = a
    BY <2>2, <2>3, TodoOfFive
  <2> QED
    BY <2>4, <2>5 DEF a
<1> DEFINE a == Do("wloop")
           b == DoProl(p, Top, TRUE)
           c == Do("return")
<1>2. IsGoodEntry(p, a) /\ IsGoodEntry(p, b) /\ IsGoodEntry(p, c)
  BY EntriesAreGood, TopIsOurs
<1>3. /\ a.op \in LastOps /\ a.op = "wloop" /\ c.op \in LastOps /\ c.op # "wloop"
      /\ b.op \notin LastOps /\ Leads(p, b, c)
  BY DEF LastOps, Do, DoProl, Leads
<1> HIDE DEF a, b, c
<1>4. IsGoodTodo(p, <<a>>) /\ Head(<<a>>) = a
  BY <1>2, <1>3, TodoOfOne
<1>5. IsGoodTodo(p, <<b, c>>) /\ Head(<<b, c>>) = b /\ ~HasWLoop(<<b, c>>)
  BY <1>2, <1>3, TodoOfTwo
<1>6. IsGoodTodo(p, <<a>>) /\ Head(<<a>>).op = "wloop"
  BY <1>3, <1>4
<1> QED
  BY <1>1, <1>5, <1>6 DEF a, b, c

----------------------------------------------------------------------------
(* The invariant.                                                          *)

LEMMA InputFacts ==
  ASSUME input \in Inputs
  PROVE  /\ Len(input) \in Nat
         /\ \A n \in 1 .. Len(input) : input[n] \in CycleCall
BY MultiGridAssumption

LEMMA CallFacts ==
  ASSUME NEW c \in CycleCall
  PROVE  c.cycle \in {"V", "F", "W"} /\ c.adapt \in {"Fixed", "MinEnergy", "MinDefect"} /\ c.def \in Vector
BY DEF CycleCall

LEMMA CycleInitIsRight == CycleInit => IInv
<1> SUFFICES ASSUME CycleInit PROVE IInv
  OBVIOUS
<1>1. Junk \in Num
  BY MultiGridAssumption
<1>2. Data
  BY <1>1 DEF CycleInit, Data, Vector
<1>3. CycleControl
  <2>1. \A p \in Proc : todo[p] = <<>> /\ Len(todo[p]) = 0 /\ calls[p] = 0
    BY DEF CycleInit
  <2>2. \A p \in Proc : IsTodo(p, todo[p])
    BY <2>1 DEF IsTodo
  <2>3. Len(input) \in Nat
    BY InputFacts DEF CycleInit
  <2>4. calls \in [Proc -> Nat] /\ todo \in [Proc -> Seq(Entry)]
    BY DEF CycleInit
  <2> QED
    BY <2>1, <2>2, <2>3, <2>4 DEF CycleControl
<1>4. Levels
  <2>1. \A l \in Top .. Crs - 1, p \in Proc : ~Left(p, l)
    BY DEF CycleInit, Left
  <2>2. \A l \in Top .. Crs - 1, p \in Proc : SameOffBoundary(l, p)
    BY LevelFacts DEF CycleInit, SameOffBoundary
  <2> SUFFICES ASSUME NEW l \in Top .. Crs - 1 PROVE LevelIsRight(l)
    BY DEF Levels
  <2>3. l \in Level
    BY LevelFacts
  <2>4. PICK p \in Members(l) : p \in Proc
    BY <2>3, SomeMember
  <2> QED
    BY <2>1, <2>2, <2>3, <2>4, SomeMember DEF LevelIsRight
<1>5. AllCount
  <2>1. \A p \in Proc : ~HasWLoop(todo[p])
    BY DEF CycleInit, HasWLoop
  <2> QED
    BY <2>1 DEF AllCount, CounterIsRight
<1>6. NoFault
  BY DEF CycleInit, NoFault
<1> QED
  BY <1>2, <1>3, <1>4, <1>5, <1>6 DEF IInv

\* A process that has something to do is in a call of the program.
LEMMA ControlFacts ==
  ASSUME IInv, NEW p \in Proc
  PROVE  /\ calls[p] \in Nat /\ todo[p] \in Seq(Entry) /\ IsTodo(p, todo[p])
         /\ todo[p] # <<>> => /\ IsGoodTodo(p, todo[p])
                              /\ Head(todo[p]) \in Entry /\ IsEntry(p, Head(todo[p]))
                              /\ calls[p] \in 1 .. Len(input) /\ input[calls[p]] \in CycleCall
<1>1. /\ calls[p] \in Nat /\ todo[p] \in Seq(Entry) /\ IsTodo(p, todo[p])
      /\ calls[p] <= Len(input)
      /\ todo[p] # <<>> => calls[p] > 0
  BY DEF IInv, CycleControl
<1>2. Len(input) \in Nat /\ \A n \in 1 .. Len(input) : input[n] \in CycleCall
  BY InputFacts DEF IInv, Data
<1>3. ASSUME todo[p] # <<>>
      PROVE  /\ Head(todo[p]) \in Entry /\ IsEntry(p, Head(todo[p]))
  <2>1. Head(todo[p]) = todo[p][1] /\ 1 \in 1 .. Len(todo[p]) /\ todo[p][1] \in Entry
    BY <1>1, <1>3
  <2> QED
    BY <1>1, <2>1 DEF IsTodo
<1>4. ASSUME todo[p] # <<>>
      PROVE  calls[p] \in 1 .. Len(input) /\ input[calls[p]] \in CycleCall
  BY <1>1, <1>2, <1>4
<1> QED
  BY <1>1, <1>3, <1>4 DEF IsGoodTodo

\* p is still on its way, with another list.
LEMMA ControlStep ==
  ASSUME IInv, NEW p \in Proc, NEW t \in Seq(Entry), IsTodo(p, t), calls[p] > 0,
         todo' = [todo EXCEPT ![p] = t], UNCHANGED <<input, calls>>
  PROVE  CycleControl' /\ todo'[p] = t /\ \A q \in Proc : q # p => todo'[q] = todo[q]
<1>1. todo \in [Proc -> Seq(Entry)]
  BY DEF IInv, CycleControl
<1>2. todo' \in [Proc -> Seq(Entry)] /\ todo'[p] = t /\ \A q \in Proc : q # p => todo'[q] = todo[q]
  BY <1>1
<1>3. \A q \in Proc : IsTodo(q, todo'[q])
  BY <1>2, ControlFacts
<1>4. \A q \in Proc : todo'[q] # <<>> => calls'[q] > 0
  BY <1>2 DEF IInv, CycleControl
<1>5. calls' \in [Proc -> Nat] /\ \A q \in Proc : calls'[q] <= Len(input')
  BY DEF IInv, CycleControl
<1> QED
  BY <1>2, <1>3, <1>4, <1>5 DEF CycleControl

\* Nothing has changed for level l but what the filter takes away from its defect.
LEMMA LevelStep ==
  ASSUME NEW l \in Level, LevelIsRight(l), l < Crs,
         \A q \in Members(l) : Left(q, l)' <=> Left(q, l),
         rhs'[l] = rhs[l], sol'[l] = sol[l], \A q \in Proc : q \in Fixed[l] \/ def'[l][q] = def[l][q]
  PROVE  LevelIsRight(l)'
<1>1. Members(l) \subseteq Proc
  BY SomeMember
<1>2. \A q \in Proc : SameOffBoundary(l, q)' <=> SameOffBoundary(l, q)
  BY DEF SameOffBoundary
<1>3. (\A q \in Members(l) : Left(q, l)') => Filter(l, def'[l]) = Defect(l, rhs'[l], sol'[l])
  <2>1. Filter(l, def'[l]) = Filter(l, def[l])
    BY FiltersAgree
  <2> QED
    BY <2>1 DEF LevelIsRight
<1>4. \A q, r \in Members(l) :
        Left(q, l)' /\ ~Left(r, l)' => Pre[l] = 0 /\ sol'[l][q] = 0 /\ SameOffBoundary(l, q)'
  BY <1>1, <1>2 DEF LevelIsRight
<1>5. \A q \in Proc \ Members(l) : SameOffBoundary(l, q)'
  BY <1>2 DEF LevelIsRight
<1> QED
  BY <1>3, <1>4, <1>5 DEF LevelIsRight

LEMMA LevelsStep ==
  ASSUME IInv, UNCHANGED <<rhs, sol, def>>,
         \A l \in Level : l < Crs => \A q \in Members(l) : Left(q, l)' <=> Left(q, l)
  PROVE  Levels'
<1> SUFFICES ASSUME NEW l \in Top .. Crs - 1 PROVE LevelIsRight(l)'
  BY DEF Levels
<1>1. l \in Level /\ l < Crs
  BY LevelFacts
<1>2. LevelIsRight(l)
  BY DEF IInv, Levels
<1> QED
  BY <1>1, <1>2, LevelStep

\* p goes on, and is below the same levels as before.
LEMMA LeftSame ==
  ASSUME NEW p \in Proc, todo[p] # <<>>, todo'[p] # <<>>,
         \A q \in Proc : q # p => todo'[q] = todo[q],
         \A l \in Level : p \in Members(l) /\ l < Crs => (Below(Head(todo'[p]), l) <=> Below(Head(todo[p]), l))
  PROVE  \A l \in Level : l < Crs => \A q \in Members(l) : Left(q, l)' <=> Left(q, l)
<1> SUFFICES ASSUME NEW l \in Level, l < Crs, NEW q \in Members(l) PROVE Left(q, l)' <=> Left(q, l)
  OBVIOUS
<1>1. q \in Proc
  BY SomeMember
<1>2. CASE q = p
  BY <1>2 DEF Left
<1>3. CASE q # p
  BY <1>1, <1>3 DEF Left
<1> QED
  BY <1>2, <1>3

LEMMA CountsStep ==
  ASSUME IInv, UNCHANGED <<counters, cgs>>,
         \A q \in Proc : HasWLoop(todo'[q]) => HasWLoop(todo[q])
  PROVE  AllCount'
<1> SUFFICES ASSUME NEW q \in Proc PROVE CounterIsRight(q)'
  BY DEF AllCount
<1>1. CounterIsRight(q)
  BY DEF IInv, AllCount
<1>2. CounterValues(q)' = CounterValues(q)
  BY DEF CounterValues
<1> QED
  BY <1>1, <1>2 DEF CounterIsRight

\* A step that concerns no more than what p still has to do.
LEMMA DriverStep ==
  ASSUME IInv, NEW p \in Proc, NEW t, IsGoodTodo(p, t), todo[p] # <<>>,
         todo' = [todo EXCEPT ![p] = t], HasWLoop(t) => HasWLoop(todo[p]),
         UNCHANGED <<input, calls, vectors, driver, network, fault>>,
         \A l \in Level : p \in Members(l) /\ l < Crs => (Below(Head(t), l) <=> Below(Head(todo[p]), l))
  PROVE  IInv'
<1>1. Data'
  BY DEF IInv, Data, vectors, driver, network
<1>2. /\ CycleControl' /\ todo'[p] = t /\ \A q \in Proc : q # p => todo'[q] = todo[q]
  BY ControlStep DEF IInv, CycleControl, IsGoodTodo
<1>3. Levels'
  <2>1. \A l \in Level : l < Crs => \A q \in Members(l) : Left(q, l)' <=> Left(q, l)
    BY <1>2, LeftSame DEF IsGoodTodo
  <2> QED
    BY <2>1, LevelsStep DEF vectors
<1>4. AllCount'
  BY <1>2, CountsStep DEF driver
<1> QED
  BY <1>1, <1>2, <1>3, <1>4 DEF IInv, NoFault

----------------------------------------------------------------------------
(* The steps of the control flow.                                          *)

LEMMA TailWLoop ==
  ASSUME NEW s \in Seq(Entry), s # <<>>, HasWLoop(Tail(s))
  PROVE  HasWLoop(s)
<1>1. PICK k \in 1 .. Len(Tail(s)) : Tail(s)[k].op = "wloop"
  BY DEF HasWLoop
<1>2. Tail(s)[k] = s[k + 1] /\ k + 1 \in 1 .. Len(s)
  OBVIOUS
<1> QED
  BY <1>1, <1>2 DEF HasWLoop

LEMMA GoesOnWLoop ==
  ASSUME NEW t, NEW s, Len(t) = Len(s), \A k \in 1 .. Len(t) : k # 1 => t[k] = s[k],
         t \in Seq(Entry), t # <<>>, Head(t).op # "wloop", HasWLoop(t)
  PROVE  HasWLoop(s)
<1>1. PICK k \in 1 .. Len(t) : t[k].op = "wloop"
  BY DEF HasWLoop
<1>2. k # 1
  BY <1>1
<1> QED
  BY <1>1, <1>2 DEF HasWLoop

\* What p does next, when the first entry is done.
LEMMA DoneFacts ==
  ASSUME IInv, NEW p \in Proc, todo[p] # <<>>, Head(todo[p]).op \notin LastOps
  PROVE  /\ IsGoodTodo(p, Tail(todo[p]))
         /\ HasWLoop(Tail(todo[p])) => HasWLoop(todo[p])
         /\ Head(todo[p]) \in Entry /\ IsEntry(p, Head(todo[p]))
         /\ Head(Tail(todo[p])) \in Entry /\ IsEntry(p, Head(Tail(todo[p])))
         /\ Leads(p, Head(todo[p]), Head(Tail(todo[p])))
<1>1. todo[p] \in Seq(Entry) /\ IsTodo(p, todo[p])
  BY ControlFacts
<1> QED
  BY <1>1, TodoTail, TailWLoop DEF IsGoodTodo

\* What p does next, when a loop goes on.
LEMMA GoesOnFacts ==
  ASSUME IInv, NEW p \in Proc, todo[p] # <<>>, NEW op, NEW i \in Level,
         \/ Head(todo[p]).op \in {"rest", "transfer"} /\ op \in {"rest", "transfer"}
         \/ Head(todo[p]).op \in {"prol", "split"} /\ op \in {"prol", "split"},
         Head(todo[p]).lvl <= i
  PROVE  /\ IsGoodTodo(p, LoopGoesOn(p, op, i))
         /\ HasWLoop(LoopGoesOn(p, op, i)) => HasWLoop(todo[p])
         /\ LET e == Head(todo[p])
            IN  Head(LoopGoesOn(p, op, i)) = [op |-> op, lvl |-> e.lvl, smooth |-> e.smooth, i |-> i]
<1> DEFINE t == LoopGoesOn(p, op, i)
           e == Head(todo[p])
<1>1. todo \in [Proc -> Seq(Entry)] /\ todo[p] \in Seq(Entry) /\ IsTodo(p, todo[p])
  BY ControlFacts DEF IInv, CycleControl
<1>2. /\ t \in Seq(Entry) /\ IsTodo(p, t) /\ t # <<>> /\ Len(t) = Len(todo[p])
      /\ Head(t) = [op |-> op, lvl |-> e.lvl, smooth |-> e.smooth, i |-> i]
      /\ \A k \in 1 .. Len(t) : k # 1 => t[k] = todo[p][k]
  BY <1>1, TodoGoesOn
<1>3. op # "wloop"
  OBVIOUS
<1> HIDE DEF t
<1>4. Head(t).op # "wloop"
  BY <1>2, <1>3
<1>5. HasWLoop(t) => HasWLoop(todo[p])
  BY <1>2, <1>4, GoesOnWLoop
<1>6. IsGoodTodo(p, t)
  BY <1>2 DEF IsGoodTodo
<1> QED
  BY <1>2, <1>5, <1>6 DEF t

LEMMA HeadFacts ==
  ASSUME IInv, NEW p \in Proc, todo[p] # <<>>
  PROVE  LET e == Head(todo[p])
         IN  /\ e \in Entry /\ IsEntry(p, e) /\ e.i \in Int
             /\ e.op \in LoopOps => /\ e.lvl \in Level /\ e.smooth \in BOOLEAN /\ e.i \in Level
                                    /\ e.lvl <= e.i
BY ControlFacts, EntryFacts DEF IsEntry

LEMMA LoopEndsKeeps ==
  ASSUME IInv, NEW p \in Proc, LoopEnds(p)
  PROVE  IInv'
<1> DEFINE e == Head(todo[p])
           f == Head(Tail(todo[p]))
<1>1. todo[p] # <<>> /\ e.op \in {"rest", "prol"}
  BY DEF LoopEnds, In
<1>2. e.op \notin LastOps /\ e.op \in LoopOps
  BY <1>1 DEF LastOps, LoopOps
<1>3. /\ IsGoodTodo(p, Tail(todo[p])) /\ (HasWLoop(Tail(todo[p])) => HasWLoop(todo[p]))
      /\ Leads(p, e, f)
  BY <1>1, <1>2, DoneFacts
<1>4. e.lvl \in Level /\ e.i \in Level /\ e.lvl <= e.i
  BY <1>1, <1>2, HeadFacts
<1> HIDE DEF e, f
<1>5. \A l \in Level : p \in Members(l) /\ l < Crs => (Below(f, l) <=> Below(e, l))
  <2> SUFFICES ASSUME NEW l \in Level, p \in Members(l), l < Crs PROVE Below(f, l) <=> Below(e, l)
    OBVIOUS
  <2>1. l < LastLevel(p) /\ l \in Int /\ LastLevel(p) \in Int /\ e.i \in Int /\ e.lvl \in Int /\ Top \in Int /\ Top <= l
    BY <1>4, LastFacts, LevelFacts
  <2>2. CASE e.op = "rest" /\ e.i >= LastLevel(p)
    BY <1>3, <2>1, <2>2 DEF Leads, Below
  <2>3. CASE e.op = "prol" /\ e.i <= e.lvl
    <3>1. e.i = e.lvl
      BY <1>4, <2>1, <2>3
    <3> QED
      BY <1>3, <2>1, <2>3, <3>1 DEF Leads, Below
  <2> QED
    BY <2>2, <2>3 DEF LoopEnds, In, e
<1>6. todo' = [todo EXCEPT ![p] = Tail(todo[p])]
  BY DEF LoopEnds
<1>7. UNCHANGED <<input, calls, vectors, driver, network, fault>>
  BY DEF LoopEnds, outcome
<1> QED
  BY <1>1, <1>3, <1>5, <1>6, <1>7, DriverStep DEF e, f

LEMMA NoCoarseLevelKeeps ==
  ASSUME IInv, NEW p \in Proc, NoCoarseLevel(p)
  PROVE  IInv'
<1> DEFINE e == Head(todo[p])
           f == Head(Tail(todo[p]))
<1>1. todo[p] # <<>> /\ e.op = "coarse"
  BY DEF NoCoarseLevel, In
<1>3. /\ IsGoodTodo(p, Tail(todo[p])) /\ (HasWLoop(Tail(todo[p])) => HasWLoop(todo[p]))
      /\ Leads(p, e, f)
  BY <1>1, DoneFacts DEF LastOps
<1> HIDE DEF e, f
<1>5. \A l \in Level : p \in Members(l) /\ l < Crs => (Below(f, l) <=> Below(e, l))
  BY <1>1, <1>3, LastFacts DEF Leads, Below
<1>6. todo' = [todo EXCEPT ![p] = Tail(todo[p])]
  BY DEF NoCoarseLevel
<1>7. UNCHANGED <<input, calls, vectors, driver, network, fault>>
  BY DEF NoCoarseLevel, outcome
<1> QED
  BY <1>1, <1>3, <1>5, <1>6, <1>7, DriverStep DEF e, f

LEMMA FLoopKeeps ==
  ASSUME IInv, NEW p \in Proc, FLoop(p)
  PROVE  IInv'
<1> DEFINE e == Head(todo[p])
           t == FCalls(p, e.i)
<1>1. todo[p] # <<>> /\ e.op = "floop"
  BY DEF FLoop, In
<1>2. e.i \in Int /\ e.i < LastLevel(p)
  BY <1>1, HeadFacts DEF IsEntry
<1>3. IsGoodTodo(p, t) /\ Head(t).op = "coarse" /\ ~HasWLoop(t)
  BY <1>2, FTodo
<1>4. todo' = [todo EXCEPT ![p] = t]
  BY DEF FLoop
<1>5. UNCHANGED <<input, calls, vectors, driver, network, fault>>
  BY DEF FLoop, outcome
<1> HIDE DEF e, t
<1>6. \A l \in Level : p \in Members(l) /\ l < Crs => (Below(Head(t), l) <=> Below(e, l))
  BY <1>1, <1>3 DEF Below
<1> QED
  BY <1>1, <1>3, <1>4, <1>5, <1>6, DriverStep DEF e

LEMMA FromPeakKeeps ==
  ASSUME IInv, NEW p \in Proc, FromPeak(p)
  PROVE  IInv'
<1> DEFINE e == Head(todo[p])
           t == LoopGoesOn(p, "transfer", e.i)
<1>1. todo[p] # <<>> /\ e.op = "rest" /\ ~e.smooth /\ e.i = e.lvl
  BY DEF FromPeak, In, Smooths
<1>2. e.i \in Level /\ e.lvl <= e.i /\ e.i \in Int
  BY <1>1, HeadFacts DEF LoopOps
<1>3. /\ IsGoodTodo(p, t) /\ (HasWLoop(t) => HasWLoop(todo[p]))
      /\ Head(t) = [op |-> "transfer", lvl |-> e.lvl, smooth |-> e.smooth, i |-> e.i]
  BY <1>1, <1>2, GoesOnFacts
<1>4. todo' = [todo EXCEPT ![p] = t]
  BY DEF FromPeak
<1>5. UNCHANGED <<input, calls, vectors, driver, network, fault>>
  BY DEF FromPeak, outcome
<1> HIDE DEF e, t
<1>6. \A l \in Level : p \in Members(l) /\ l < Crs => (Below(Head(t), l) <=> Below(e, l))
  <2> SUFFICES ASSUME NEW l \in Level PROVE Below(Head(t), l) <=> Below(e, l)
    OBVIOUS
  <2>1. l \in Int
    BY LevelFacts
  <2>2. Head(t).op = "transfer" /\ Head(t).i = e.i
    BY <1>3
  <2>3. Below(Head(t), l) <=> l <= e.i
    BY <2>2 DEF Below
  <2>4. Below(e, l) <=> (l < e.i \/ l = e.i)
    BY <1>1 DEF Below
  <2> QED
    BY <1>2, <2>1, <2>3, <2>4
<1> QED
  BY <1>1, <1>3, <1>4, <1>5, <1>6, DriverStep DEF e

LEMMA ReturnKeeps ==
  ASSUME IInv, NEW p \in Proc, CycleReturn(p)
  PROVE  IInv'
<1>1. todo[p] # <<>> /\ Head(todo[p]).op = "return"
  BY DEF CycleReturn, In
<1>2. Data'
  BY DEF CycleReturn, IInv, Data, vectors, driver, network
<1>3. <<>> \in Seq(Entry) /\ IsTodo(p, <<>>) /\ calls[p] > 0
  BY <1>1, ControlFacts DEF IsTodo
<1>4. CycleControl' /\ todo'[p] = <<>> /\ \A q \in Proc : q # p => todo'[q] = todo[q]
  BY <1>3, ControlStep DEF CycleReturn
<1>5. Levels'
  <2>1. \A l \in Level : l < Crs => \A q \in Members(l) : Left(q, l)' <=> Left(q, l)
    <3> SUFFICES ASSUME NEW l \in Level, l < Crs, NEW q \in Members(l) PROVE Left(q, l)' <=> Left(q, l)
      OBVIOUS
    <3>1. q \in Proc
      BY SomeMember
    <3>2. CASE q = p
      BY <1>1, <1>4, <3>2 DEF Left, Below
    <3>3. CASE q # p
      BY <1>4, <3>1, <3>3 DEF Left
    <3> QED
      BY <3>2, <3>3
  <2> QED
    BY <2>1, LevelsStep DEF CycleReturn, vectors
<1>6. ~HasWLoop(<<>>)
  BY DEF HasWLoop
<1>7. AllCount'
  BY <1>4, <1>6, CountsStep DEF CycleReturn, driver
<1> QED
  BY <1>2, <1>4, <1>5, <1>7 DEF IInv, NoFault, CycleReturn

----------------------------------------------------------------------------
(* The steps of one process that concern vectors.                          *)

LEMMA ApplyKeeps ==
  ASSUME IInv, NEW p \in Proc, Apply(p)
  PROVE  IInv'
<1> DEFINE n == calls[p] + 1
           t == CycleCalls(p, input[n].cycle)
<1>1. calls \in [Proc -> Nat] /\ calls[p] \in Nat /\ Len(input) \in Nat /\ todo[p] = <<>> /\ calls[p] < Len(input)
  BY InputFacts DEF Apply, IInv, CycleControl, Data
<1>2. calls' \in [Proc -> Nat] /\ calls'[p] = n /\ \A q \in Proc : q # p => calls'[q] = calls[q]
  BY <1>1 DEF Apply
<1>3. n \in 1 .. Len(input) /\ n > 0 /\ n <= Len(input)
  BY <1>1
<1>4. input[n] \in CycleCall
  BY <1>3, InputFacts DEF IInv, Data
<1>5. IsGoodTodo(p, t) /\ Head(t) = DoRest(Top, TRUE) /\ ~HasWLoop(t)
  BY <1>4, CallFacts, CycleTodo
<1>6. todo' = [todo EXCEPT ![p] = t] /\ rhs' = [rhs EXCEPT ![Top][p] = input[n].def[p]]
  BY <1>2 DEF Apply
<1>7. input[n].def[p] \in Num
  BY <1>4, CallFacts, VectorFacts
<1>7a. input' = input /\ \A q \in Proc : calls[q] <= Len(input)
  BY DEF Apply, IInv, CycleControl
<1>8. sol' = sol /\ def' = def /\ UNCHANGED <<driver, network, fault>>
  BY DEF Apply, outcome
<1> HIDE DEF t, n
<1>9. CycleControl' /\ todo'[p] = t /\ \A q \in Proc : q # p => todo'[q] = todo[q]
  <2>1. todo \in [Proc -> Seq(Entry)] /\ t \in Seq(Entry) /\ IsTodo(p, t)
    BY <1>5 DEF IInv, CycleControl, IsGoodTodo
  <2>2. todo' \in [Proc -> Seq(Entry)] /\ todo'[p] = t /\ \A q \in Proc : q # p => todo'[q] = todo[q]
    BY <1>6, <2>1
  <2>3. \A q \in Proc : IsTodo(q, todo'[q])
    BY <2>1, <2>2, ControlFacts
  <2>4. \A q \in Proc : calls'[q] <= Len(input')
    <3>2. calls'[p] <= Len(input)
      BY <1>2, <1>3
    <3> QED
      BY <1>2, <1>7a, <3>2
  <2>5. \A q \in Proc : todo'[q] # <<>> => calls'[q] > 0
    <3>1. calls'[p] > 0
      BY <1>2, <1>3
    <3>2. \A q \in Proc : todo[q] # <<>> => calls[q] > 0
      BY DEF IInv, CycleControl
    <3> QED
      BY <1>2, <2>2, <3>1, <3>2
  <2> QED
    BY <1>2, <2>2, <2>3, <2>4, <2>5 DEF CycleControl
<1>10. /\ rhs' \in [Level -> Vector]
       /\ \A l \in Level : l # Top => rhs'[l] = rhs[l]
       /\ \A q \in Proc : q # p => rhs'[Top][q] = rhs[Top][q]
  <2>1. rhs \in [Level -> Vector] /\ Top \in Level
    BY LevelFacts DEF IInv, Data
  <2> DEFINE x == [rhs[Top] EXCEPT ![p] = input[n].def[p]]
  <2>2. x \in Vector /\ \A q \in Proc : q # p => x[q] = rhs[Top][q]
    BY <1>7, <2>1 DEF Vector
  <2>3. rhs' = [rhs EXCEPT ![Top] = x]
    BY <1>6
  <2> HIDE DEF x
  <2> QED
    BY <2>1, <2>2, <2>3
<1>11. Data'
  BY <1>8, <1>10 DEF IInv, Data, driver, network, Apply
<1>12. \A l \in Level : ~Left(p, l) /\ ~Left(p, l)'
  <2>1. \A l \in Level : l \in Int /\ Top \in Int /\ Top <= l
    BY LevelFacts
  <2>2. \A l \in Level : ~Below(DoRest(Top, TRUE), l)
    BY <2>1 DEF Below, DoRest
  <2> QED
    BY <1>1, <1>5, <1>9, <2>2 DEF Left
<1>13. \A l \in Level : \A q \in Members(l) : Left(q, l)' <=> Left(q, l)
  <2> SUFFICES ASSUME NEW l \in Level, NEW q \in Members(l) PROVE Left(q, l)' <=> Left(q, l)
    OBVIOUS
  <2>1. q \in Proc
    BY SomeMember
  <2>2. CASE q = p
    BY <1>12, <2>2
  <2>3. CASE q # p
    BY <1>9, <2>1, <2>3 DEF Left
  <2> QED
    BY <2>2, <2>3
<1>14. Levels'
  <2> SUFFICES ASSUME NEW l \in Top .. Crs - 1 PROVE LevelIsRight(l)'
    BY DEF Levels
  <2>1. l \in Level /\ l < Crs /\ LevelIsRight(l)
    BY LevelFacts DEF IInv, Levels
  <2>2. CASE l # Top
    BY <1>8, <1>10, <1>13, <2>1, <2>2, LevelStep
  <2>3. CASE l = Top
    <3>1. p \in Members(l)
      BY <2>3, TopIsOurs
    <3>2. \A q \in Proc : q # p => (SameOffBoundary(l, q)' <=> SameOffBoundary(l, q))
      BY <1>8, <1>10, <2>3 DEF SameOffBoundary
    <3>3. ~ \A q \in Members(l) : Left(q, l)'
      BY <1>12, <2>1, <3>1
    <3>4. ASSUME NEW q \in Members(l), NEW r \in Members(l), Left(q, l)', ~Left(r, l)'
          PROVE  Pre[l] = 0 /\ sol'[l][q] = 0 /\ SameOffBoundary(l, q)'
      <4>1. q # p /\ Left(q, l) /\ ~Left(p, l) /\ q \in Proc
        BY <1>12, <1>13, <2>1, <3>4, SomeMember
      <4>2. Pre[l] = 0 /\ sol[l][q] = 0 /\ SameOffBoundary(l, q)
        BY <2>1, <3>1, <4>1 DEF LevelIsRight
      <4> QED
        BY <1>8, <3>2, <4>1, <4>2
    <3>5. \A q \in Proc \ Members(l) : SameOffBoundary(l, q)'
      BY <2>1, <3>1, <3>2 DEF LevelIsRight
    <3> QED
      BY <3>3, <3>4, <3>5 DEF LevelIsRight
  <2> QED
    BY <2>2, <2>3
<1>15. AllCount'
  BY <1>5, <1>8, <1>9, CountsStep DEF driver
<1> QED
  BY <1>8, <1>9, <1>11, <1>14, <1>15 DEF IInv, NoFault

LEMMA ZeroStartKeeps ==
  ASSUME IInv, NEW p \in Proc, ZeroStart(p)
  PROVE  IInv'
<1> DEFINE e == Head(todo[p])
           i == e.i
           t == LoopGoesOn(p, "transfer", i)
<1>1. todo[p] # <<>> /\ e.op = "rest" /\ (e.smooth \/ i # e.lvl) /\ i < LastLevel(p) /\ Pre[i] = 0
  BY DEF ZeroStart, In, Smooths
<1>2. i \in Level /\ e.lvl <= i /\ i \in Int
  BY <1>1, HeadFacts DEF LoopOps
<1>3. /\ IsGoodTodo(p, t) /\ (HasWLoop(t) => HasWLoop(todo[p]))
      /\ Head(t) = [op |-> "transfer", lvl |-> e.lvl, smooth |-> e.smooth, i |-> i]
  BY <1>1, <1>2, GoesOnFacts
<1>4. todo' = [todo EXCEPT ![p] = t]
  BY DEF ZeroStart
<1>5. sol' = [sol EXCEPT ![i][p] = 0] /\ def' = [def EXCEPT ![i][p] = rhs[i][p]]
  BY DEF ZeroStart
<1>6. input' = input /\ calls' = calls /\ rhs' = rhs /\ UNCHANGED <<driver, network, fault>>
  BY DEF ZeroStart, outcome
<1> HIDE DEF e, i, t
<1>7. /\ rhs \in [Level -> Vector] /\ sol \in [Level -> Vector] /\ def \in [Level -> Vector]
  BY DEF IInv, Data
<1>8. /\ sol' \in [Level -> Vector] /\ sol'[i][p] = 0
      /\ \A q \in Proc : q # p => sol'[i][q] = sol[i][q]
      /\ \A l \in Level : l # i => sol'[l] = sol[l]
  <2> DEFINE x == [sol[i] EXCEPT ![p] = 0]
  <2>1. x \in Vector /\ x[p] = 0 /\ \A q \in Proc : q # p => x[q] = sol[i][q]
    BY <1>2, <1>7, NumIsInt DEF Vector
  <2>2. sol' = [sol EXCEPT ![i] = x]
    BY <1>5
  <2> HIDE DEF x
  <2> QED
    BY <1>2, <1>7, <2>1, <2>2
<1>9. /\ def' \in [Level -> Vector] /\ def'[i][p] = rhs[i][p]
      /\ \A q \in Proc : q # p => def'[i][q] = def[i][q]
      /\ \A l \in Level : l # i => def'[l] = def[l]
  <2> DEFINE x == [def[i] EXCEPT ![p] = rhs[i][p]]
  <2>1. x \in Vector /\ x[p] = rhs[i][p] /\ \A q \in Proc : q # p => x[q] = def[i][q]
    BY <1>2, <1>7 DEF Vector
  <2>2. def' = [def EXCEPT ![i] = x]
    BY <1>5
  <2> HIDE DEF x
  <2> QED
    BY <1>2, <1>7, <2>1, <2>2
<1>10. Data'
  BY <1>6, <1>8, <1>9 DEF IInv, Data, driver, network
<1>11. CycleControl' /\ todo'[p] = t /\ \A q \in Proc : q # p => todo'[q] = todo[q]
  <2>1. calls[p] > 0
    BY <1>1 DEF IInv, CycleControl
  <2> QED
    BY <1>3, <1>4, <1>6, <2>1, ControlStep DEF IsGoodTodo
<1>12. \A l \in Level : (Below(e, l) <=> l < i) /\ (Below(Head(t), l) <=> l <= i)
  <2>1. \A l \in Level : l \in Int
    BY LevelFacts
  <2>2. \A l \in Level : Below(e, l) <=> l < i
    BY <1>1, <1>2, <2>1 DEF Below, i
  <2>3. Head(t).op = "transfer" /\ Head(t).i = i
    BY <1>3
  <2>4. \A l \in Level : Below(Head(t), l) <=> l <= i
    BY <2>3 DEF Below
  <2> QED
    BY <2>2, <2>4
<1>13. t # <<>> /\ \A l \in Level : (Left(p, l) <=> l < i) /\ (Left(p, l)' <=> l <= i)
  <2>1. \A l \in Level : Left(p, l) <=> l < i
    BY <1>1, <1>12 DEF Left, e
  <2>2. t # <<>> /\ todo'[p] = t
    BY <1>3, <1>11 DEF IsGoodTodo
  <2>3. \A l \in Level : Left(p, l)' <=> l <= i
    BY <1>12, <2>2 DEF Left
  <2> QED
    BY <2>1, <2>2, <2>3
<1>14. \A l \in Level, q \in Proc : q # p => (Left(q, l)' <=> Left(q, l))
  BY <1>11 DEF Left
<1>15. Levels'
  <2> SUFFICES ASSUME NEW l \in Top .. Crs - 1 PROVE LevelIsRight(l)'
    BY DEF Levels
  <2>1. l \in Level /\ l < Crs /\ LevelIsRight(l) /\ l \in Int
    BY LevelFacts DEF IInv, Levels
  <2>2. CASE l # i
    <3>1. \A q \in Members(l) : Left(q, l)' <=> Left(q, l)
      <4> SUFFICES ASSUME NEW q \in Members(l) PROVE Left(q, l)' <=> Left(q, l)
        OBVIOUS
      <4>1. CASE q = p
        <5>1. l < i <=> l <= i
          BY <1>2, <2>1, <2>2
        <5> QED
          BY <1>13, <2>1, <4>1, <5>1
      <4>2. CASE q # p
        BY <1>14, <2>1, <4>2, SomeMember
      <4> QED
        BY <4>1, <4>2
    <3> QED
      BY <1>6, <1>8, <1>9, <2>1, <2>2, <3>1, LevelStep
  <2>3. CASE l = i
    <3>1. p \in Members(l) /\ ~Left(p, l) /\ Left(p, l)'
      <4>1. ~(i < i) /\ i <= i
        BY <1>2
      <4>2. p \in Members(i)
        BY <1>1, <1>2, LastFacts
      <4> QED
        BY <1>2, <1>13, <2>3, <4>1, <4>2
    <3>2. SameOffBoundary(l, p)' /\ sol'[l][p] = 0 /\ Pre[l] = 0
      BY <1>1, <1>6, <1>8, <1>9, <2>3 DEF SameOffBoundary
    <3>3. \A q \in Proc : q # p => (SameOffBoundary(l, q)' <=> SameOffBoundary(l, q)) /\ sol'[l][q] = sol[l][q]
      BY <1>6, <1>8, <1>9, <2>3 DEF SameOffBoundary
    <3>4. ASSUME NEW q \in Members(l), Left(q, l)'
          PROVE  sol'[l][q] = 0 /\ SameOffBoundary(l, q)'
      <4>1. q \in Proc
        BY <2>1, SomeMember
      <4>2. CASE q # p
        <5>1. Left(q, l)
          BY <1>14, <2>1, <3>4, <4>1, <4>2
        <5>2. sol[l][q] = 0 /\ SameOffBoundary(l, q)
          BY <2>1, <3>1, <5>1 DEF LevelIsRight
        <5> QED
          BY <3>3, <4>1, <4>2, <5>2
      <4> QED
        BY <3>2, <4>2
    <3>5. \A q \in Proc \ Members(l) : SameOffBoundary(l, q)'
      BY <2>1, <3>1, <3>3 DEF LevelIsRight
    <3>6. ASSUME \A q \in Members(l) : Left(q, l)'
          PROVE  Filter(l, def'[l]) = Defect(l, rhs'[l], sol'[l])
      <4>1. \A q \in Members(l) : sol'[l][q] = 0 /\ SameOffBoundary(l, q)'
        BY <3>4, <3>6
      <4>2. \A q \in Proc : SameOffBoundary(l, q)'
        BY <3>5, <4>1
      <4>3. rhs'[l] \in Vector
        BY <1>6, <1>7, <2>1
      <4> DEFINE b == rhs'[l]
                 x == sol'[l]
                 d == def'[l]
      <4>4. \A q \in Proc : q \in Fixed[l] \/ d[q] = b[q]
        BY <4>2 DEF SameOffBoundary
      <4>5. \A q \in Members(l) : x[q] = 0
        BY <4>1
      <4>6. b \in Vector
        BY <4>3
      <4> HIDE DEF b, x, d
      <4>7. \A q \in Proc : Residual(l, b, x)[q] = b[q]
        BY <2>1, <4>5, <4>6, ResidualOfZero
      <4>8. Filter(l, d) = Filter(l, Residual(l, b, x))
        BY <4>4, <4>7, FiltersAgree
      <4> QED
        BY <4>8 DEF Defect, b, x, d
    <3> QED
      BY <3>2, <3>4, <3>5, <3>6 DEF LevelIsRight
  <2> QED
    BY <2>2, <2>3
<1>16. AllCount'
  BY <1>3, <1>6, <1>11, CountsStep DEF driver
<1> QED
  BY <1>6, <1>10, <1>11, <1>15, <1>16 DEF IInv, NoFault

LEMMA RestSendKeeps ==
  ASSUME IInv, NEW p \in Proc, NEW l \in Level, RestSend(p, l)
  PROVE  IInv'
<1> DEFINE e == Head(todo[p])
           f == Head(Tail(todo[p]))
           t == Tail(todo[p])
<1>1. todo[p] # <<>> /\ e.op = "transfer" /\ e.i = l /\ p \notin Members(l + 1)
  BY DEF RestSend, At
<1>2. /\ IsGoodTodo(p, t) /\ (HasWLoop(t) => HasWLoop(todo[p]))
      /\ Leads(p, e, f)
  BY <1>1, DoneFacts DEF LastOps
<1>3. calls[p] > 0
  BY <1>1 DEF IInv, CycleControl
<1>4. todo' = [todo EXCEPT ![p] = t] /\ input' = input /\ calls' = calls
  BY DEF RestSend
<1>5. rhs' = rhs /\ sol' = sol /\ down' = down /\ UNCHANGED <<driver, fault>>
  BY DEF RestSend, outcome
<1>6. Head(t) = f
  OBVIOUS
<1> HIDE DEF e, f, t
<1>7. CycleControl' /\ todo'[p] = t /\ \A q \in Proc : q # p => todo'[q] = todo[q]
  BY <1>2, <1>3, <1>4, ControlStep DEF IsGoodTodo
<1>8. /\ rhs \in [Level -> Vector] /\ def \in [Level -> Vector] /\ up \in [Proc -> Seq(Int)]
  BY DEF IInv, Data
<1> DEFINE y == Filter(l, def[l])[p]
<1>9. y \in Num /\ y = IF p \in Fixed[l] THEN 0 ELSE def[l][p]
  BY <1>8, NumIsInt, VectorFacts DEF Filter
<1>10. def' = [def EXCEPT ![l][p] = y] /\ up' = [up EXCEPT ![p] = Append(up[p], Weight[l].rest * def'[l][p])]
  BY DEF RestSend
<1> HIDE DEF y
<1>11. /\ def' \in [Level -> Vector] /\ def'[l][p] = y
       /\ \A q \in Proc : q # p => def'[l][q] = def[l][q]
       /\ \A k \in Level : k # l => def'[k] = def[k]
  <2> DEFINE x == [def[l] EXCEPT ![p] = y]
  <2>1. x \in Vector /\ x[p] = y /\ \A q \in Proc : q # p => x[q] = def[l][q]
    BY <1>8, <1>9 DEF Vector
  <2>2. def' = [def EXCEPT ![l] = x]
    BY <1>10
  <2> HIDE DEF x
  <2> QED
    BY <1>8, <2>1, <2>2
<1>12. up' \in [Proc -> Seq(Int)]
  <2>1. Weight[l].rest * y \in Int
    <3>1. Weight[l].rest \in Int /\ y \in Int
      BY <1>9, FactorFacts, NumIsInt
    <3> QED
      BY <3>1
  <2>2. Append(up[p], Weight[l].rest * y) \in Seq(Int)
    BY <1>8, <2>1
  <2> QED
    BY <1>8, <1>10, <1>11, <2>2
<1>13. Data'
  BY <1>4, <1>5, <1>11, <1>12 DEF IInv, Data, driver
<1>14. \A k \in Level : k < Crs => \A q \in Members(k) : Left(q, k)' <=> Left(q, k)
  <2>1. ASSUME NEW k \in Level, p \in Members(k), k < Crs PROVE Below(f, k) <=> Below(e, k)
    <3>1. k < LastLevel(p) /\ k \in Int /\ LastLevel(p) \in Int /\ l \in Int /\ Crs \in Int /\ l <= Crs
      BY <2>1, LastFacts, LevelFacts
    <3>2. k <= l
      <4>1. CASE l < Crs
        <5>1. LastLevel(p) <= l + 1
          BY <1>1, <4>1, LastFacts
        <5> QED
          BY <3>1, <5>1
      <4>2. CASE ~(l < Crs)
        BY <2>1, <3>1, <4>2
      <4> QED
        BY <4>1, <4>2
    <3> QED
      BY <1>1, <1>2, <3>2 DEF Leads, Below
  <2> QED
    BY <1>1, <1>2, <1>6, <1>7, <2>1, LeftSame DEF IsGoodTodo, e
<1>15. Levels'
  <2> SUFFICES ASSUME NEW k \in Top .. Crs - 1 PROVE LevelIsRight(k)'
    BY DEF Levels
  <2>1. k \in Level /\ k < Crs /\ LevelIsRight(k)
    BY LevelFacts DEF IInv, Levels
  <2>2. \A q \in Proc : q \in Fixed[k] \/ def'[k][q] = def[k][q]
    BY <1>9, <1>11, <2>1
  <2> QED
    BY <1>5, <1>14, <2>1, <2>2, LevelStep
<1>16. AllCount'
  BY <1>2, <1>5, <1>7, CountsStep DEF driver
<1> QED
  BY <1>5, <1>7, <1>13, <1>15, <1>16 DEF IInv, NoFault

LEMMA SplitKeeps ==
  ASSUME IInv, NEW p \in Proc, NEW l \in Level, Split(p, l)
  PROVE  IInv'
<1> DEFINE e == Head(todo[p])
           t == LoopGoesOn(p, "split", l + 1)
<1>1. todo[p] # <<>> /\ e.op = "prol" /\ e.i = l + 1 /\ l >= e.lvl
  BY DEF Split, At
<1>2. l + 1 \in Level /\ e.lvl <= l + 1
  BY <1>1, HeadFacts DEF LoopOps
<1>3. /\ IsGoodTodo(p, t) /\ (HasWLoop(t) => HasWLoop(todo[p]))
      /\ Head(t) = [op |-> "split", lvl |-> e.lvl, smooth |-> e.smooth, i |-> l + 1]
  BY <1>1, <1>2, GoesOnFacts
<1>4. calls[p] > 0
  BY <1>1 DEF IInv, CycleControl
<1>5. todo' = [todo EXCEPT ![p] = t] /\ input' = input /\ calls' = calls
  BY DEF Split
<1>6. UNCHANGED <<rhs, sol, def, up, counters, cgs, fault>>
  BY DEF Split, vectors, driver, outcome
<1> HIDE DEF e, t
<1>7. CycleControl' /\ todo'[p] = t /\ \A q \in Proc : q # p => todo'[q] = todo[q]
  BY <1>3, <1>4, <1>5, ControlStep DEF IsGoodTodo
<1>8. down' \in [Proc -> Seq(Int)]
  <2>1. sol[l + 1][p] \in Int /\ down \in [Proc -> Seq(Int)]
    BY <1>2, VectorFacts DEF IInv, Data
  <2>2. \A g \in Proc : Append(down[g], sol[l + 1][p]) \in Seq(Int)
    BY <2>1
  <2>3. down' = [g \in Proc |-> IF g \in Ghosts(l, p) THEN Append(down[g], sol[l + 1][p]) ELSE down[g]]
    BY DEF Split
  <2> QED
    BY <2>1, <2>2, <2>3
<1>9. Data'
  BY <1>5, <1>6, <1>8 DEF IInv, Data
<1>10. Levels'
  <2>1. \A k \in Level : Below(Head(t), k) <=> Below(e, k)
    BY <1>1, <1>3 DEF Below
  <2>2. t # <<>>
    BY <1>3 DEF IsGoodTodo
  <2>3. \A k \in Level : k < Crs => \A q \in Members(k) : Left(q, k)' <=> Left(q, k)
    BY <1>1, <1>7, <2>1, <2>2, LeftSame DEF e
  <2> QED
    BY <1>6, <2>3, LevelsStep
<1>11. AllCount'
  BY <1>3, <1>6, <1>7, CountsStep
<1> QED
  BY <1>6, <1>7, <1>9, <1>10, <1>11 DEF IInv, NoFault

----------------------------------------------------------------------------
(* The steps of all processes of a level.                                  *)

\* Some processes go on.
LEMMA ControlStepAll ==
  ASSUME IInv, NEW S \in SUBSET Proc, NEW t,
         todo' = [p \in Proc |-> IF p \in S THEN t[p] ELSE todo[p]],
         \A p \in S : todo[p] # <<>> /\ IsGoodTodo(p, t[p]) /\ (HasWLoop(t[p]) => HasWLoop(todo[p])),
         UNCHANGED <<input, calls, counters, cgs>>
  PROVE  /\ CycleControl' /\ AllCount'
         /\ \A p \in S : todo[p] # <<>> /\ t[p] # <<>> /\ todo'[p] = t[p]
         /\ \A p \in Proc \ S : todo'[p] = todo[p]
<1>1. \A p \in Proc : todo'[p] = IF p \in S THEN t[p] ELSE todo[p]
  BY Zenon
<1>2. todo \in [Proc -> Seq(Entry)]
  BY DEF IInv, CycleControl
<1>3. todo' \in [Proc -> Seq(Entry)]
  BY <1>2 DEF IsGoodTodo
<1>4. \A p \in Proc : IsTodo(p, todo'[p])
  BY <1>1, ControlFacts DEF IsGoodTodo
<1>5. \A p \in Proc : calls[p] <= Len(input) /\ (todo[p] # <<>> => calls[p] > 0)
  BY DEF IInv, CycleControl
<1>6. \A p \in Proc : calls'[p] <= Len(input') /\ (todo'[p] # <<>> => calls'[p] > 0)
  BY <1>1, <1>5
<1>7. CycleControl'
  <2>1. calls' \in [Proc -> Nat]
    BY DEF IInv, CycleControl
  <2> QED
    BY <1>3, <1>4, <1>6, <2>1 DEF CycleControl
<1>8. \A p \in Proc : HasWLoop(todo'[p]) => HasWLoop(todo[p])
  BY <1>1
<1>9. AllCount'
  BY <1>8, CountsStep
<1> QED
  BY <1>1, <1>7, <1>9 DEF IsGoodTodo

\* ... to be below the same levels, but perhaps for one, as before.
LEMMA LeftSameAll ==
  ASSUME NEW l, l \in Level, NEW S \in SUBSET Proc, NEW t,
         \A p \in S : todo[p] # <<>> /\ t[p] # <<>> /\ todo'[p] = t[p],
         \A p \in Proc \ S : todo'[p] = todo[p],
         \A p \in S : p \in Members(l) => (Below(Head(t[p]), l) <=> Below(Head(todo[p]), l))
  PROVE  \A q \in Members(l) : Left(q, l)' <=> Left(q, l)
<1> SUFFICES ASSUME NEW q \in Members(l) PROVE Left(q, l)' <=> Left(q, l)
  OBVIOUS
<1>1. q \in Proc
  BY SomeMember
<1>2. CASE q \in S
  BY <1>2 DEF Left
<1>3. CASE q \notin S
  BY <1>1, <1>3 DEF Left
<1> QED
  BY <1>2, <1>3

LEMMA PreSmoothKeeps ==
  ASSUME IInv, NEW l \in Level, PreSmooth(l)
  PROVE  IInv'
<1> DEFINE S == Members(l)
           t == [p \in Proc |-> LoopGoesOn(p, "transfer", l)]
<1>1. l < Crs /\ S \in SUBSET Proc /\ S # {}
  BY SomeMember DEF PreSmooth
<1>2. \A p \in S : LET e == Head(todo[p])
                   IN todo[p] # <<>> /\ e.op = "rest" /\ e.i = l /\ (e.smooth \/ e.i # e.lvl)
  BY DEF PreSmooth, At, Smooths
<1>3. ASSUME NEW p \in S
      PROVE  /\ IsGoodTodo(p, t[p]) /\ (HasWLoop(t[p]) => HasWLoop(todo[p]))
             /\ Head(t[p]).op = "transfer" /\ Head(t[p]).i = l
  <2>1. p \in Proc /\ todo[p] # <<>> /\ Head(todo[p]).op = "rest" /\ Head(todo[p]).i = l
    BY <1>1, <1>2
  <2>2. Head(todo[p]).lvl <= l
    BY <2>1, HeadFacts DEF LoopOps
  <2> DEFINE u == LoopGoesOn(p, "transfer", l)
             e == Head(todo[p])
  <2>3. /\ IsGoodTodo(p, u) /\ (HasWLoop(u) => HasWLoop(todo[p]))
        /\ Head(u) = [op |-> "transfer", lvl |-> e.lvl, smooth |-> e.smooth, i |-> l]
    BY <2>1, <2>2, GoesOnFacts
  <2>4. t[p] = u
    BY <2>1
  <2> HIDE DEF u, e, t
  <2> QED
    BY <2>3, <2>4
<1>4. todo' = [p \in Proc |-> IF p \in S THEN t[p] ELSE todo[p]]
  BY DEF PreSmooth
<1>5. UNCHANGED <<input, calls, counters, cgs, rhs, up, down, fault>>
  BY DEF PreSmooth, driver, network, outcome
<1>6. sol' = [sol EXCEPT ![l] = Smoothed(Pre[l], l, rhs[l])] /\ def' = [def EXCEPT ![l] = Residual(l, rhs[l], sol'[l])]
  BY DEF PreSmooth
<1> HIDE DEF S, t
<1>7. /\ CycleControl' /\ AllCount'
      /\ \A p \in S : todo[p] # <<>> /\ t[p] # <<>> /\ todo'[p] = t[p]
      /\ \A p \in Proc \ S : todo'[p] = todo[p]
  BY <1>1, <1>2, <1>3, <1>4, <1>5, ControlStepAll
<1>8. rhs \in [Level -> Vector] /\ sol \in [Level -> Vector] /\ def \in [Level -> Vector]
  BY DEF IInv, Data
<1>9. /\ sol' \in [Level -> Vector] /\ \A k \in Level : k # l => sol'[k] = sol[k]
  <2>1. Smoothed(Pre[l], l, rhs[l]) \in Vector
    BY <1>8, SmoothedIs, FactorFacts, VectorFacts
  <2> QED
    BY <1>6, <1>8, <2>1
<1>10. /\ def' \in [Level -> Vector] /\ def'[l] = Residual(l, rhs[l], sol'[l])
       /\ \A k \in Level : k # l => def'[k] = def[k]
  <2>1. Residual(l, rhs[l], sol'[l]) \in Vector
    BY <1>8, <1>9, ResidualIs, VectorFacts
  <2> QED
    BY <1>6, <1>8, <2>1
<1>11. Data'
  BY <1>5, <1>9, <1>10 DEF IInv, Data
<1>12. \A k \in Level, p \in S : (Below(Head(todo[p]), k) <=> k < l) /\ (Below(Head(t[p]), k) <=> k <= l)
  <2> SUFFICES ASSUME NEW k \in Level, NEW p \in S
               PROVE  (Below(Head(todo[p]), k) <=> k < l) /\ (Below(Head(t[p]), k) <=> k <= l)
    OBVIOUS
  <2> DEFINE e == Head(todo[p])
             f == Head(t[p])
  <2>1. e.op = "rest" /\ e.i = l /\ (e.smooth \/ e.i # e.lvl)
    BY <1>2
  <2>2. f.op = "transfer" /\ f.i = l
    BY <1>3
  <2> HIDE DEF e, f
  <2>3. (Below(e, k) <=> k < l) /\ (Below(f, k) <=> k <= l)
    BY <2>1, <2>2 DEF Below
  <2> QED
    BY <2>3 DEF e, f
<1>13. Levels'
  <2> SUFFICES ASSUME NEW k \in Top .. Crs - 1 PROVE LevelIsRight(k)'
    BY DEF Levels
  <2>1. k \in Level /\ k < Crs /\ LevelIsRight(k) /\ k \in Int /\ l \in Int
    BY LevelFacts DEF IInv, Levels
  <2>2. CASE k # l
    <3>1. k < l <=> k <= l
      BY <2>1, <2>2
    <3>2. \A q \in Members(k) : Left(q, k)' <=> Left(q, k)
      BY <1>1, <1>7, <1>12, <2>1, <3>1, LeftSameAll
    <3> QED
      BY <1>5, <1>9, <1>10, <2>1, <2>2, <3>2, LevelStep
  <2>3. CASE k = l
    <3>1. \A q \in Members(k) : Left(q, k)'
      <4>1. k <= l
        BY <2>1, <2>3
      <4> QED
        BY <1>7, <1>12, <2>1, <2>3, <4>1 DEF Left, S
    <3>2. Filter(k, def'[k]) = Defect(k, rhs'[k], sol'[k])
      BY <1>5, <1>10, <2>3 DEF Defect
    <3>3. \A q \in Proc \ Members(k) : SameOffBoundary(k, q)'
      <4> SUFFICES ASSUME NEW q \in Proc \ Members(k) PROVE SameOffBoundary(k, q)'
        OBVIOUS
      <4>1. Residual(l, rhs[l], sol'[l])[q] = rhs[l][q]
        BY <1>8, <2>3, ResidualOfZero
      <4> QED
        BY <1>5, <1>10, <2>3, <4>1 DEF SameOffBoundary
    <3> QED
      BY <3>1, <3>2, <3>3 DEF LevelIsRight
  <2> QED
    BY <2>2, <2>3
<1> QED
  BY <1>5, <1>7, <1>11, <1>13 DEF IInv, NoFault

\* What becomes of the vectors on a peak.
IsCurrent(l, v) == v.sol \in Vector /\ v.def = Defect(l, rhs[l], v.sol)

LEMMA SmoothDefIs ==
  ASSUME IInv, NEW l \in Level, NEW factor \in Int, NEW v, IsCurrent(l, v)
  PROVE  IsCurrent(l, SmoothDef(factor, l, v))
<1>1. rhs[l] \in Vector /\ v.sol \in Vector
  BY DEF IInv, Data, IsCurrent
<1>2. v.def \in Vector
  BY <1>1, ResidualIs, VectorFacts DEF IsCurrent
<1>3. Smoothed(factor, l, v.def) \in Vector
  BY <1>2, SmoothedIs, VectorFacts
<1>4. Axpy(1, Smoothed(factor, l, v.def), v.sol) \in Vector
  BY <1>1, <1>3, AxpyIs, VectorFacts
<1> DEFINE s == Axpy(1, Smoothed(factor, l, v.def), v.sol)
<1>5. SmoothDef(factor, l, v) = [sol |-> s, def |-> Defect(l, rhs[l], s)]
  BY DEF SmoothDef
<1>6. s \in Vector
  BY <1>4
<1> HIDE DEF s
<1> QED
  BY <1>5, <1>6 DEF IsCurrent

LEMMA AfterPeakIs ==
  ASSUME IInv, NEW l \in Level
  PROVE  IsCurrent(l, AfterPeak(l))
<1> DEFINE v == [sol |-> sol[l], def |-> Defect(l, rhs[l], sol[l])]
<1>1. IsCurrent(l, v)
  BY DEF IsCurrent, IInv, Data
<1> HIDE DEF v
<1>2. ASSUME NEW w, IsCurrent(l, w), NEW factor \in Int PROVE IsCurrent(l, IfAny(factor, l, w))
  BY <1>2, SmoothDefIs DEF IfAny
<1>3. IsCurrent(l, SmoothDef(Peak[l], l, v))
  BY <1>1, SmoothDefIs, FactorFacts
<1>4. IsCurrent(l, IfAny(Pre[l], l, v))
  BY <1>1, <1>2, FactorFacts
<1>5. IsCurrent(l, IfAny(Post[l], l, IfAny(Pre[l], l, v)))
  BY <1>4, <1>2, FactorFacts
<1>6. AfterPeak(l) = IF Peak[l] # 0 THEN SmoothDef(Peak[l], l, v) ELSE IfAny(Post[l], l, IfAny(Pre[l], l, v))
  BY DEF AfterPeak, v
<1> QED
  BY <1>3, <1>5, <1>6

LEMMA SmoothPeakKeeps ==
  ASSUME IInv, NEW l \in Level, SmoothPeak(l)
  PROVE  IInv'
<1> DEFINE S == Members(l)
           t == [p \in Proc |-> Tail(todo[p])]
<1>1. S \in SUBSET Proc /\ S # {}
  BY SomeMember
<1>2. \A p \in S : LET e == Head(todo[p]) IN todo[p] # <<>> /\ e.op = "peak" /\ e.i = l
  BY DEF SmoothPeak, At
<1>3. ASSUME NEW p \in S
      PROVE  /\ IsGoodTodo(p, t[p]) /\ (HasWLoop(t[p]) => HasWLoop(todo[p]))
             /\ Head(t[p]).op = "rest" /\ Head(t[p]).i = l /\ Head(t[p]).lvl = l /\ ~Head(t[p]).smooth
  <2>1. p \in Proc /\ todo[p] # <<>> /\ Head(todo[p]).op = "peak" /\ Head(todo[p]).i = l
    BY <1>1, <1>2
  <2> DEFINE u == Tail(todo[p])
             e == Head(todo[p])
             f == Head(u)
  <2>3. IsGoodTodo(p, u) /\ (HasWLoop(u) => HasWLoop(todo[p])) /\ Leads(p, e, f)
    BY <2>1, DoneFacts DEF LastOps
  <2>4. t[p] = u /\ e.op = "peak" /\ e.i = l
    BY <2>1
  <2> HIDE DEF e, f, t
  <2>5. f.op = "rest" /\ f.i = l /\ f.lvl = l /\ ~f.smooth
    BY <2>3, <2>4 DEF Leads
  <2> QED
    BY <2>3, <2>4, <2>5 DEF f
<1>4. todo' = [p \in Proc |-> IF p \in S THEN t[p] ELSE todo[p]]
  BY DEF SmoothPeak
<1>5. UNCHANGED <<input, calls, counters, cgs, rhs, up, down, fault>>
  BY DEF SmoothPeak, driver, network, outcome
<1>6. sol' = [sol EXCEPT ![l] = AfterPeak(l).sol] /\ def' = [def EXCEPT ![l] = AfterPeak(l).def]
  BY DEF SmoothPeak
<1> HIDE DEF S, t
<1>7. /\ CycleControl' /\ AllCount'
      /\ \A p \in S : todo[p] # <<>> /\ t[p] # <<>> /\ todo'[p] = t[p]
      /\ \A p \in Proc \ S : todo'[p] = todo[p]
  BY <1>1, <1>2, <1>3, <1>4, <1>5, ControlStepAll
<1>8. rhs \in [Level -> Vector] /\ sol \in [Level -> Vector] /\ def \in [Level -> Vector]
  BY DEF IInv, Data
<1>9. AfterPeak(l).sol \in Vector /\ AfterPeak(l).def = Defect(l, rhs[l], AfterPeak(l).sol)
  BY AfterPeakIs DEF IsCurrent
<1>10. AfterPeak(l).def \in Vector
  BY <1>8, <1>9, ResidualIs, VectorFacts
<1>11. /\ sol' \in [Level -> Vector] /\ \A k \in Level : k # l => sol'[k] = sol[k]
       /\ def' \in [Level -> Vector] /\ \A k \in Level : k # l => def'[k] = def[k]
       /\ def'[l] = Defect(l, rhs[l], sol'[l])
  BY <1>6, <1>8, <1>9, <1>10
<1>12. Data'
  BY <1>5, <1>11 DEF IInv, Data
<1>13. \A k \in Level, p \in S : (Below(Head(todo[p]), k) <=> k < l) /\ (Below(Head(t[p]), k) <=> k < l \/ k = l)
  <2> SUFFICES ASSUME NEW k \in Level, NEW p \in S
               PROVE  (Below(Head(todo[p]), k) <=> k < l) /\ (Below(Head(t[p]), k) <=> k < l \/ k = l)
    OBVIOUS
  <2> DEFINE e == Head(todo[p])
             f == Head(t[p])
  <2>1. e.op = "peak" /\ e.i = l
    BY <1>2
  <2>2. f.op = "rest" /\ f.i = l /\ f.lvl = l /\ ~f.smooth
    BY <1>3
  <2> HIDE DEF e, f
  <2>3. (Below(e, k) <=> k < l) /\ (Below(f, k) <=> k < l \/ k = l)
    BY <2>1, <2>2 DEF Below
  <2> QED
    BY <2>3 DEF e, f
<1>14. Levels'
  <2> SUFFICES ASSUME NEW k \in Top .. Crs - 1 PROVE LevelIsRight(k)'
    BY DEF Levels
  <2>1. k \in Level /\ k < Crs /\ LevelIsRight(k)
    BY LevelFacts DEF IInv, Levels
  <2>2. CASE k # l
    <3>2. \A q \in Members(k) : Left(q, k)' <=> Left(q, k)
      BY <1>1, <1>7, <1>13, <2>1, <2>2, LeftSameAll
    <3> QED
      BY <1>5, <1>11, <2>1, <2>2, <3>2, LevelStep
  <2>3. CASE k = l
    <3>1. \A q \in Members(k) : Left(q, k)'
      BY <1>7, <1>13, <2>1, <2>3 DEF Left, S
    <3>2. Filter(k, def'[k]) = Defect(k, rhs'[k], sol'[k])
      BY <1>5, <1>11, <2>3, FilterTwice DEF Defect
    <3>3. \A q \in Proc \ Members(k) : SameOffBoundary(k, q)'
      <4> SUFFICES ASSUME NEW q \in Proc \ Members(k) PROVE SameOffBoundary(k, q)'
        OBVIOUS
      <4>1. Residual(l, rhs[l], sol'[l])[q] = rhs[l][q]
        BY <1>8, <2>3, ResidualOfZero
      <4>2. def'[l][q] = IF q \in Fixed[l] THEN 0 ELSE Residual(l, rhs[l], sol'[l])[q]
        BY <1>11 DEF Defect, Filter
      <4> QED
        BY <1>5, <2>3, <4>1, <4>2 DEF SameOffBoundary
    <3> QED
      BY <3>1, <3>2, <3>3 DEF LevelIsRight
  <2> QED
    BY <2>2, <2>3
<1> QED
  BY <1>5, <1>7, <1>12, <1>14 DEF IInv, NoFault

LEMMA RestKeeps ==
  ASSUME IInv, NEW l \in Level, Rest(l)
  PROVE  IInv'
<1> DEFINE S == Members(l + 1)
           t == [p \in Proc |-> LoopGoesOn(p, "rest", l + 1)]
<1>1. l < Crs /\ l + 1 \in Level /\ S \in SUBSET Proc /\ S # {} /\ l \in Int
  <2>1. l < Crs /\ l \in Int /\ l + 1 \in Level
    BY LevelFacts DEF Rest
  <2> QED
    BY <2>1, SomeMember
<1>2. \A p \in S : LET e == Head(todo[p]) IN todo[p] # <<>> /\ e.op = "transfer" /\ e.i = l
  BY DEF Rest, At
<1>3. ASSUME NEW p \in S
      PROVE  /\ IsGoodTodo(p, t[p]) /\ (HasWLoop(t[p]) => HasWLoop(todo[p]))
             /\ Head(t[p]).op = "rest" /\ Head(t[p]).i = l + 1 /\ Head(t[p]).lvl # l + 1
  <2>1. p \in Proc /\ todo[p] # <<>> /\ Head(todo[p]).op = "transfer" /\ Head(todo[p]).i = l
    BY <1>1, <1>2
  <2>2. Head(todo[p]).lvl <= l /\ Head(todo[p]).lvl \in Int /\ Head(todo[p]).lvl <= l + 1
    <3>1. Head(todo[p]).lvl \in Level /\ Head(todo[p]).lvl <= l
      BY <2>1, HeadFacts DEF LoopOps
    <3>2. Head(todo[p]).lvl \in Int
      BY <3>1, LevelFacts
    <3> DEFINE n == Head(todo[p]).lvl
    <3> HIDE DEF n
    <3>3. n \in Int /\ n <= l
      BY <3>1, <3>2 DEF n
    <3>4. n <= l + 1
      BY <1>1, <3>3
    <3> QED
      BY <3>3, <3>4 DEF n
  <2> DEFINE u == LoopGoesOn(p, "rest", l + 1)
             e == Head(todo[p])
  <2>3. /\ IsGoodTodo(p, u) /\ (HasWLoop(u) => HasWLoop(todo[p]))
        /\ Head(u) = [op |-> "rest", lvl |-> e.lvl, smooth |-> e.smooth, i |-> l + 1]
    BY <1>1, <2>1, <2>2, GoesOnFacts
  <2>4. t[p] = u /\ e.lvl <= l /\ e.lvl \in Int
    BY <2>1, <2>2
  <2> HIDE DEF u, e, t
  <2>5. e.lvl # l + 1
    BY <1>1, <2>4
  <2> QED
    BY <2>3, <2>4, <2>5
<1>4. todo' = [p \in Proc |-> IF p \in S THEN t[p] ELSE todo[p]]
  BY DEF Rest
<1>5. UNCHANGED <<input, calls, counters, cgs, sol, down, fault>>
  BY DEF Rest, driver, outcome
<1> DEFINE joined == [p \in Proc |->
      IF p \notin Members(l + 1) THEN rhs[l + 1][p]
      ELSE (Weight[l].rest * def'[l][p] + SumFunction([g \in Ghosts(l, p) |-> Head(up[g])])) % Prime]
<1>6. /\ def' = [def EXCEPT ![l] = [p \in Proc |-> IF p \in Members(l + 1) THEN Filter(l, def[l])[p]
                                                                           ELSE def[l][p]]]
      /\ rhs' = [rhs EXCEPT ![l + 1] = Filter(l + 1, joined)]
      /\ up' = [g \in Proc |-> IF g \in Members(l) \ Members(l + 1) THEN Tail(up[g]) ELSE up[g]]
      /\ \A p \in S : \A g \in Ghosts(l, p) : up[g] # <<>>
  BY DEF Rest
<1>7. /\ CycleControl' /\ AllCount'
      /\ \A p \in S : todo[p] # <<>> /\ t[p] # <<>> /\ todo'[p] = t[p]
      /\ \A p \in Proc \ S : todo'[p] = todo[p]
  <2> HIDE DEF S, t
  <2> QED
    BY <1>1, <1>2, <1>3, <1>4, <1>5, ControlStepAll
<1>8. /\ rhs \in [Level -> Vector] /\ sol \in [Level -> Vector] /\ def \in [Level -> Vector]
      /\ up \in [Proc -> Seq(Int)]
  BY DEF IInv, Data
<1>9. /\ def' \in [Level -> Vector] /\ \A k \in Level : k # l => def'[k] = def[k]
      /\ \A q \in Proc : q \in Fixed[l] \/ def'[l][q] = def[l][q]
  <2> DEFINE x == [p \in Proc |-> IF p \in Members(l + 1) THEN Filter(l, def[l])[p] ELSE def[l][p]]
  <2>1. Filter(l, def[l]) \in Vector
    BY <1>8, FilterIs, VectorFacts
  <2>2. x \in Vector
    BY <1>8, <2>1 DEF Vector
  <2>3. \A q \in Proc : q \in Fixed[l] \/ x[q] = def[l][q]
    BY DEF Filter
  <2>4. def' = [def EXCEPT ![l] = x]
    BY <1>6
  <2> HIDE DEF x
  <2> QED
    BY <1>8, <2>2, <2>3, <2>4
<1>10. joined \in Vector
  <2>1. ASSUME NEW p \in Proc, p \in Members(l + 1)
        PROVE  (Weight[l].rest * def'[l][p] + SumFunction([g \in Ghosts(l, p) |-> Head(up[g])])) % Prime \in Num
    <3> DEFINE G == Ghosts(l, p)
               v == [g \in G |-> Head(up[g])]
    <3>1. IsFiniteSet(G) /\ G \subseteq Proc
      BY LevelFacts, FS_Subset DEF Ghosts, Members
    <3>2. \A g \in G : v[g] \in Int
      <4> SUFFICES ASSUME NEW g \in G PROVE v[g] \in Int
        OBVIOUS
      <4>1. up[g] # <<>> /\ up[g] \in Seq(Int)
        BY <1>6, <1>8, <2>1, <3>1
      <4> QED
        BY <4>1
    <3>3. DOMAIN v = G
      OBVIOUS
    <3> HIDE DEF v, G
    <3>4. SumFunction(v) \in Int
      BY <3>1, <3>2, <3>3, SumType DEF SumFunction, Sum
    <3> DEFINE s == SumFunction(v)
               y == def'[l][p]
               w == Weight[l].rest
    <3>5. s \in Int /\ w \in Int /\ y \in Int
      BY <1>9, <3>4, FactorFacts, VectorFacts
    <3> HIDE DEF s, y, w
    <3>6. w * y + s \in Int
      BY <3>5
    <3>7. (w * y + s) % Prime \in Num
      BY <3>6, Remainder
    <3> QED
      BY <3>7 DEF s, y, w, v, G
  <2>2. \A p \in Proc : rhs[l + 1][p] \in Num
    BY <1>1, <1>8, VectorFacts
  <2> QED
    BY <2>1, <2>2 DEF Vector
<1>11. /\ rhs' \in [Level -> Vector] /\ \A k \in Level : k # l + 1 => rhs'[k] = rhs[k]
       /\ rhs'[l + 1] = Filter(l + 1, joined)
  <2> HIDE DEF joined
  <2>1. Filter(l + 1, joined) \in Vector
    BY <1>10, FilterIs, VectorFacts
  <2> QED
    BY <1>1, <1>6, <1>8, <2>1
<1>12. up' \in [Proc -> Seq(Int)]
  <2>1. ASSUME NEW g \in Members(l) \ Members(l + 1) PROVE Tail(up[g]) \in Seq(Int)
    <3>1. g \in Proc /\ Parent[g] \in Members(l + 1) /\ g \in Ghosts(l, Parent[g])
      BY <1>1, GhostHasParent
    <3>2. up[g] # <<>> /\ up[g] \in Seq(Int)
      BY <1>6, <1>8, <3>1
    <3> QED
      BY <3>2
  <2> QED
    BY <1>6, <1>8, <2>1
<1>13. Data'
  BY <1>5, <1>9, <1>11, <1>12 DEF IInv, Data
<1>14. \A k \in Level, p \in S : (Below(Head(todo[p]), k) <=> k <= l) /\ (Below(Head(t[p]), k) <=> k < l + 1)
  <2> SUFFICES ASSUME NEW k \in Level, NEW p \in S
               PROVE  (Below(Head(todo[p]), k) <=> k <= l) /\ (Below(Head(t[p]), k) <=> k < l + 1)
    OBVIOUS
  <2> DEFINE e == Head(todo[p])
             f == Head(t[p])
  <2>1. e.op = "transfer" /\ e.i = l
    BY <1>2
  <2>2. f.op = "rest" /\ f.i = l + 1 /\ f.lvl # l + 1
    BY <1>3
  <2> HIDE DEF e, f
  <2>3. (Below(e, k) <=> k <= l) /\ (Below(f, k) <=> k < l + 1)
    BY <2>1, <2>2 DEF Below
  <2> QED
    BY <2>3 DEF e, f
<1>15. Levels'
  <2> SUFFICES ASSUME NEW k \in Top .. Crs - 1 PROVE LevelIsRight(k)'
    BY DEF Levels
  <2>1. k \in Level /\ k < Crs /\ LevelIsRight(k) /\ k \in Int
    BY LevelFacts DEF IInv, Levels
  <2>2. k <= l <=> k < l + 1
    BY <1>1, <2>1
  <2>3. \A q \in Members(k) : Left(q, k)' <=> Left(q, k)
    <3> HIDE DEF S, t
    <3> QED
      BY <1>1, <1>7, <1>14, <2>1, <2>2, LeftSameAll
  <2>4. CASE k # l + 1
    <3>1. \A q \in Proc : q \in Fixed[k] \/ def'[k][q] = def[k][q]
      BY <1>9, <2>1
    <3> QED
      BY <1>5, <1>11, <2>1, <2>3, <2>4, <3>1, LevelStep
  <2>5. CASE k = l + 1
    <3>1. \A q \in Members(k) : ~Left(q, k)
      <4>1. ~(k <= l)
        BY <1>1, <2>5
      <4> QED
        BY <1>14, <2>1, <2>5, <4>1 DEF Left
    <3>2. \A q \in Members(k) : ~Left(q, k)'
      BY <2>3, <3>1
    <3>3. Members(k) # {}
      BY <2>1, SomeMember
    <3>4. ASSUME NEW q \in Proc \ Members(k) PROVE SameOffBoundary(k, q)'
      <4>1. SameOffBoundary(k, q)
        BY <2>1 DEF LevelIsRight
      <4>2. def'[k] = def[k]
        BY <1>1, <1>9, <2>1, <2>5
      <4>3. q \in Fixed[k] \/ rhs'[k][q] = rhs[k][q]
        <5>1. joined[q] = rhs[k][q]
          BY <2>5, <3>4
        <5> HIDE DEF joined
        <5> QED
          BY <1>11, <2>5, <5>1 DEF Filter
      <4> QED
        BY <4>1, <4>2, <4>3 DEF SameOffBoundary
    <3> QED
      BY <3>2, <3>3, <3>4 DEF LevelIsRight
  <2> QED
    BY <2>4, <2>5
<1> QED
  BY <1>5, <1>7, <1>13, <1>15 DEF IInv, NoFault

\* The coarse grid solver gives any answer.
LEMMA CoarseKeeps ==
  ASSUME IInv, NEW x \in Vector, sol' = [sol EXCEPT ![Crs] = x], todo' = CoarseDone,
         \A p \in Members(Crs) : In(p, "coarse"),
         UNCHANGED <<input, calls, rhs, def, driver, network, fault>>
  PROVE  IInv'
<1> DEFINE S == Members(Crs)
           t == [p \in Proc |-> Tail(todo[p])]
<1>1. S \in SUBSET Proc
  BY SomeMember, LevelFacts
<1>2. \A p \in S : todo[p] # <<>> /\ Head(todo[p]).op = "coarse"
  BY DEF In
<1>3. ASSUME NEW p \in S
      PROVE  /\ IsGoodTodo(p, t[p]) /\ (HasWLoop(t[p]) => HasWLoop(todo[p]))
             /\ Leads(p, Head(todo[p]), Head(t[p]))
  <2>1. p \in Proc /\ todo[p] # <<>> /\ Head(todo[p]).op = "coarse"
    BY <1>1, <1>2
  <2> DEFINE u == Tail(todo[p])
  <2>3. IsGoodTodo(p, u) /\ (HasWLoop(u) => HasWLoop(todo[p])) /\ Leads(p, Head(todo[p]), Head(u))
    BY <2>1, DoneFacts DEF LastOps
  <2>4. t[p] = u
    BY <2>1
  <2> HIDE DEF t, u
  <2> QED
    BY <2>3, <2>4
<1>4. todo' = [p \in Proc |-> IF p \in S THEN t[p] ELSE todo[p]]
  BY DEF CoarseDone
<1>5. UNCHANGED <<counters, cgs, up, down>>
  BY DEF driver, network
<1> HIDE DEF S, t
<1>7. /\ CycleControl' /\ AllCount'
      /\ \A p \in S : todo[p] # <<>> /\ t[p] # <<>> /\ todo'[p] = t[p]
      /\ \A p \in Proc \ S : todo'[p] = todo[p]
  BY <1>1, <1>2, <1>3, <1>4, <1>5, ControlStepAll
<1>8. sol' \in [Level -> Vector] /\ \A k \in Level : k # Crs => sol'[k] = sol[k]
  BY DEF IInv, Data
<1>9. Data'
  BY <1>5, <1>8 DEF IInv, Data
<1>10. \A k \in Level, p \in S : p \in Members(k) /\ k < Crs => (Below(Head(t[p]), k) <=> Below(Head(todo[p]), k))
  <2> SUFFICES ASSUME NEW k \in Level, NEW p \in S, p \in Members(k), k < Crs
               PROVE  Below(Head(t[p]), k) <=> Below(Head(todo[p]), k)
    OBVIOUS
  <2> DEFINE e == Head(todo[p])
             f == Head(t[p])
  <2>1. e.op = "coarse" /\ Leads(p, e, f) /\ k < LastLevel(p)
    BY <1>1, <1>2, <1>3, LastFacts
  <2> HIDE DEF e, f
  <2>2. Below(f, k) <=> Below(e, k)
    BY <2>1 DEF Leads, Below
  <2> QED
    BY <2>2 DEF e, f
<1>11. Levels'
  <2> SUFFICES ASSUME NEW k \in Top .. Crs - 1 PROVE LevelIsRight(k)'
    BY DEF Levels
  <2>1. k \in Level /\ k < Crs /\ k # Crs /\ LevelIsRight(k)
    BY LevelFacts DEF IInv, Levels
  <2>2. \A q \in Members(k) : Left(q, k)' <=> Left(q, k)
    BY <1>1, <1>7, <1>10, <2>1, LeftSameAll
  <2> QED
    BY <1>8, <2>1, <2>2, LevelStep
<1> QED
  BY <1>7, <1>9, <1>11 DEF IInv, NoFault

LEMMA CoarseSolveKeeps ==
  ASSUME IInv, CoarseSolve \/ CoarseFails
  PROVE  IInv'
<1>1. Crs \in Level /\ sol[Crs] \in Vector /\ Smoothed(CrsSolver, Crs, rhs[Crs]) \in Vector
  <2>1. Crs \in Level
    BY LevelFacts
  <2> QED
    BY <2>1, SmoothedIs, FactorFacts, VectorFacts DEF IInv, Data
<1>2. CASE CoarseSolve
  BY <1>1, <1>2, CoarseKeeps DEF CoarseSolve, outcome
<1>3. CASE CoarseFails
  <2>1. PICK x \in {sol[Crs], Smoothed(CrsSolver, Crs, rhs[Crs])} : sol' = [sol EXCEPT ![Crs] = x]
    BY <1>3 DEF CoarseFails
  <2>2. x \in Vector
    BY <1>1, <2>1
  <2>3. /\ todo' = CoarseDone /\ \A p \in Members(Crs) : In(p, "coarse")
        /\ UNCHANGED <<input, calls, rhs, def, driver, network, fault>>
    BY <1>3 DEF CoarseFails, outcome
  <2> QED
    BY <2>1, <2>2, <2>3, CoarseKeeps
<1> QED
  BY <1>2, <1>3

LEMMA OmegaIs ==
  ASSUME IInv, NEW l \in Level, NEW c \in Vector, NEW x \in Vector,
         \A p \in Members(l) : todo[p] # <<>>
  PROVE  Omega(l, c, x) \in Int
<1>1. Adapt(l) \in {"Fixed", "MinEnergy", "MinDefect"}
  <2> DEFINE p == CHOOSE p \in Members(l) : TRUE
  <2>1. p \in Members(l) /\ p \in Proc
    BY SomeMember
  <2>2. Adapt(l) = input[calls[p]].adapt
    BY DEF Adapt
  <2> HIDE DEF p
  <2>3. input[calls[p]] \in CycleCall
    BY <2>1, ControlFacts
  <2> QED
    BY <2>2, <2>3, CallFacts
<1>2. def[l] \in Vector
  BY DEF IInv, Data
<1>3. /\ Dot(l, def[l], c) \in Num /\ Dot(l, x, c) \in Num
      /\ Dot(l, def[l], x) \in Num /\ Dot(l, x, x) \in Num
  BY <1>2, DotIs, VectorFacts
<1>4. CASE Adapt(l) = "Fixed"
  BY <1>4 DEF Omega
<1>5. CASE Adapt(l) = "MinEnergy"
  <2>1. Omega(l, c, x) = Quotient(Dot(l, def[l], c), Dot(l, x, c))
    BY <1>5 DEF Omega
  <2> QED
    BY <1>3, <2>1, QuotientIs, NumIsInt
<1>6. CASE Adapt(l) = "MinDefect"
  <2>1. Omega(l, c, x) = Quotient(Dot(l, def[l], x), Dot(l, x, x))
    BY <1>6 DEF Omega
  <2> QED
    BY <1>3, <2>1, QuotientIs, NumIsInt
<1> QED
  BY <1>1, <1>4, <1>5, <1>6

\* The coarse grid's correction of the solution, and what it takes away from the defect.
LEMMA CorrectionIs ==
  ASSUME IInv, NEW l \in Level, l < Crs,
         \A p \in Members(l) : p \notin Members(l + 1) => down[p] # <<>>
  PROVE  LET c == Correction(l, Arrived(l))
         IN  c \in Vector /\ Filter(l, MatrixApply(l, c)) \in Vector
<1>1. l + 1 \in Level /\ \A p \in Proc : sol[l + 1][p] \in Int /\ down[p] \in Seq(Int)
  <2>1. l + 1 \in Level
    BY LevelFacts
  <2>2. sol[l + 1] \in Vector /\ \A p \in Proc : down[p] \in Seq(Int)
    BY <2>1 DEF IInv, Data
  <2> QED
    BY <2>1, <2>2, VectorFacts
<1>2. \A p \in Proc : Arrived(l)[p] \in Int
  <2> SUFFICES ASSUME NEW p \in Proc PROVE Arrived(l)[p] \in Int
    OBVIOUS
  <2>1. CASE p \in Members(l + 1)
    BY <1>1, <2>1 DEF Arrived
  <2>2. CASE p \notin Members(l + 1) /\ p \in Members(l)
    <3>1. Head(down[p]) \in Int
      BY <1>1, <2>2
    <3> QED
      BY <2>2, <3>1 DEF Arrived
  <2>3. CASE p \notin Members(l + 1) /\ p \notin Members(l)
    BY <2>3 DEF Arrived
  <2> QED
    BY <2>1, <2>2, <2>3
<1>3. Scale(Weight[l].prol, Arrived(l)) \in Vector
  BY <1>2, ScaleIs, FactorFacts
<1>4. Correction(l, Arrived(l)) \in Vector
  BY <1>3, FilterIs, VectorFacts DEF Correction
<1>5. MatrixApply(l, Correction(l, Arrived(l))) \in Vector
  BY <1>4, MatrixApplyIs, VectorFacts
<1> QED
  BY <1>4, <1>5, FilterIs, VectorFacts

LEMMA DefectAfterIs ==
  ASSUME IInv, NEW l \in Level, NEW s \in Vector, NEW omega \in Int, NEW c \in Vector, NEW x \in Vector,
         x = Filter(l, MatrixApply(l, c))
  PROVE  /\ DefectAfter(l, s, omega, x) \in Vector
         /\ \A q \in Proc \ Members(l) :
              SameOffBoundary(l, q) => q \in Fixed[l] \/ DefectAfter(l, s, omega, x)[q] = rhs[l][q]
<1>1. rhs[l] \in Vector /\ def[l] \in Vector
  BY DEF IInv, Data
<1>2. CASE Adapt(l) = "Fixed"
  <2>1. DefectAfter(l, s, omega, x) = Defect(l, rhs[l], s)
    BY <1>2 DEF DefectAfter
  <2>2. Defect(l, rhs[l], s) \in Vector
    BY <1>1, ResidualIs, VectorFacts
  <2>3. ASSUME NEW q \in Proc \ Members(l)
        PROVE  q \in Fixed[l] \/ Defect(l, rhs[l], s)[q] = rhs[l][q]
    <3>1. Residual(l, rhs[l], s)[q] = rhs[l][q]
      BY <1>1, <2>3, ResidualOfZero
    <3> QED
      BY <3>1 DEF Defect, Filter
  <2> QED
    BY <2>1, <2>2, <2>3
<1>3. CASE Adapt(l) # "Fixed"
  <2>1. DefectAfter(l, s, omega, x) = Axpy(-omega, x, def[l])
    BY <1>3 DEF DefectAfter
  <2>2. Axpy(-omega, x, def[l]) \in Vector
    BY <1>1, AxpyIs, VectorFacts
  <2>3. ASSUME NEW q \in Proc \ Members(l), SameOffBoundary(l, q), q \notin Fixed[l]
        PROVE  Axpy(-omega, x, def[l])[q] = rhs[l][q]
    <3>1. x[q] = 0
      BY <2>3 DEF Filter, MatrixApply
    <3>2. Axpy(-omega, x, def[l])[q] = ((-omega) * x[q] + def[l][q]) % Prime
      BY <2>3 DEF Axpy
    <3>3. def[l][q] \in Num /\ def[l][q] \in Int
      BY <1>1, <2>3, VectorFacts
    <3> DEFINE y == def[l][q]
    <3> HIDE DEF y
    <3>4. y \in Int
      BY <3>3 DEF y
    <3>5. (-omega) * 0 + y = y
      BY <3>4
    <3>6. y % Prime = y
      BY <3>3, Remainder DEF y
    <3>7. Axpy(-omega, x, def[l])[q] = y
      BY <3>1, <3>2, <3>5, <3>6 DEF y
    <3> QED
      BY <2>3, <3>7 DEF SameOffBoundary, y
  <2> QED
    BY <2>1, <2>2, <2>3
<1> QED
  BY <1>2, <1>3

LEMMA ProlongateKeeps ==
  ASSUME IInv, NEW l \in Level, Prolongate(l)
  PROVE  IInv'
<1> DEFINE S == Members(l)
           t == [p \in Proc |-> LoopGoesOn(p, "prol", l)]
<1>1. l < Crs /\ l + 1 \in Level /\ S \in SUBSET Proc /\ S # {} /\ l \in Int
  <2>1. l < Crs /\ l \in Int /\ l + 1 \in Level
    BY LevelFacts DEF Prolongate
  <2> QED
    BY <2>1, SomeMember
<1>2. \A p \in S : LET e == Head(todo[p])
                   IN /\ todo[p] # <<>> /\ e.op \in {"prol", "split"} /\ e.i = l + 1 /\ e.lvl <= l
                      /\ p \notin Members(l + 1) => down[p] # <<>>
  <2> SUFFICES ASSUME NEW p \in S
               PROVE  LET e == Head(todo[p])
                      IN /\ todo[p] # <<>> /\ e.op \in {"prol", "split"} /\ e.i = l + 1 /\ e.lvl <= l
                         /\ p \notin Members(l + 1) => down[p] # <<>>
    OBVIOUS
  <2>1. ReadyToProlongate(p, l) /\ l >= Head(todo[p]).lvl
    BY DEF Prolongate
  <2>2. Head(todo[p]).lvl <= l
    BY <2>1
  <2> QED
    BY <2>1, <2>2 DEF ReadyToProlongate, At
<1>3. ASSUME NEW p \in S
      PROVE  /\ IsGoodTodo(p, t[p]) /\ (HasWLoop(t[p]) => HasWLoop(todo[p]))
             /\ Head(t[p]).op = "prol" /\ Head(t[p]).i = l
  <2>1. /\ p \in Proc /\ todo[p] # <<>> /\ Head(todo[p]).op \in {"prol", "split"}
        /\ Head(todo[p]).lvl <= l
    BY <1>1, <1>2
  <2> DEFINE u == LoopGoesOn(p, "prol", l)
             e == Head(todo[p])
  <2>3. /\ IsGoodTodo(p, u) /\ (HasWLoop(u) => HasWLoop(todo[p]))
        /\ Head(u) = [op |-> "prol", lvl |-> e.lvl, smooth |-> e.smooth, i |-> l]
    BY <2>1, GoesOnFacts
  <2>4. t[p] = u
    BY <2>1
  <2> HIDE DEF u, e, t
  <2> QED
    BY <2>3, <2>4
<1>4. todo' = [p \in Proc |-> IF p \in S THEN t[p] ELSE todo[p]]
  BY DEF Prolongate
<1>5. UNCHANGED <<input, calls, counters, cgs, rhs, up, fault>>
  BY DEF Prolongate, driver, outcome
<1> DEFINE c == Correction(l, Arrived(l))
           x == Filter(l, MatrixApply(l, c))
           omega == Omega(l, c, x)
           s == Axpy(omega, c, sol[l])
           d == DefectAfter(l, s, omega, x)
<1>6. \/ sol' = [sol EXCEPT ![l] = Axpy(1, Smoothed(Post[l], l, d), s)] /\ def' = [def EXCEPT ![l] = d]
      \/ sol' = [sol EXCEPT ![l] = s] /\ def' = def
  BY DEF Prolongate
<1>7. down' = [g \in Proc |-> IF g \in Members(l) \ Members(l + 1) THEN Tail(down[g]) ELSE down[g]]
  BY DEF Prolongate
<1>8. \A p \in S : todo[p] # <<>> /\ (p \notin Members(l + 1) => down[p] # <<>>)
  BY <1>2
<1>9. c \in Vector /\ x \in Vector
  BY <1>1, <1>8, CorrectionIs
<1>10. omega \in Int
  <2> HIDE DEF c, x
  <2> QED
    BY <1>8, <1>9, OmegaIs
<1>11. rhs \in [Level -> Vector] /\ sol \in [Level -> Vector] /\ def \in [Level -> Vector] /\ down \in [Proc -> Seq(Int)]
  BY DEF IInv, Data
<1> HIDE DEF S, t
<1>12. /\ CycleControl' /\ AllCount'
       /\ \A p \in S : todo[p] # <<>> /\ t[p] # <<>> /\ todo'[p] = t[p]
       /\ \A p \in Proc \ S : todo'[p] = todo[p]
  <2> HIDE DEF c, x, omega, s, d
  <2> QED
    BY <1>1, <1>3, <1>4, <1>5, <1>8, ControlStepAll
<1>13. x = Filter(l, MatrixApply(l, c))
  OBVIOUS
<1> HIDE DEF c, x, omega
<1>14. s \in Vector
  BY <1>9, <1>10, <1>11, AxpyIs, VectorFacts
<1> HIDE DEF s
<1>15. /\ d \in Vector
       /\ \A q \in Proc \ Members(l) : SameOffBoundary(l, q) => q \in Fixed[l] \/ d[q] = rhs[l][q]
  BY <1>9, <1>10, <1>13, <1>14, DefectAfterIs
<1> HIDE DEF d
<1>16. Axpy(1, Smoothed(Post[l], l, d), s) \in Vector
  <2>1. Smoothed(Post[l], l, d) \in Vector
    BY <1>15, SmoothedIs, FactorFacts, VectorFacts
  <2> QED
    BY <1>14, <2>1, AxpyIs, VectorFacts
<1>17. /\ sol' \in [Level -> Vector] /\ \A k \in Level : k # l => sol'[k] = sol[k]
       /\ def' \in [Level -> Vector] /\ \A k \in Level : k # l => def'[k] = def[k]
       /\ def'[l] = d \/ def'[l] = def[l]
  BY <1>6, <1>11, <1>14, <1>15, <1>16
<1>18. down' \in [Proc -> Seq(Int)]
  <2>1. ASSUME NEW g \in Members(l) \ Members(l + 1) PROVE Tail(down[g]) \in Seq(Int)
    <3>1. down[g] # <<>> /\ down[g] \in Seq(Int)
      BY <1>1, <1>8, <1>11, <2>1 DEF S
    <3> QED
      BY <3>1
  <2> QED
    BY <1>7, <1>11, <2>1
<1>19. Data'
  BY <1>5, <1>17, <1>18 DEF IInv, Data
<1>20. \A k \in Level, p \in S : (Below(Head(todo[p]), k) <=> k < l + 1) /\ (Below(Head(t[p]), k) <=> k < l)
  <2> SUFFICES ASSUME NEW k \in Level, NEW p \in S
               PROVE  (Below(Head(todo[p]), k) <=> k < l + 1) /\ (Below(Head(t[p]), k) <=> k < l)
    OBVIOUS
  <2> DEFINE e == Head(todo[p])
             f == Head(t[p])
  <2>1. e.op \in {"prol", "split"} /\ e.i = l + 1
    BY <1>2
  <2>2. f.op = "prol" /\ f.i = l
    BY <1>3
  <2> HIDE DEF e, f
  <2>3. (Below(e, k) <=> k < l + 1) /\ (Below(f, k) <=> k < l)
    BY <2>1, <2>2 DEF Below
  <2> QED
    BY <2>3 DEF e, f
<1>21. Levels'
  <2> SUFFICES ASSUME NEW k \in Top .. Crs - 1 PROVE LevelIsRight(k)'
    BY DEF Levels
  <2>1. k \in Level /\ k < Crs /\ LevelIsRight(k) /\ k \in Int
    BY LevelFacts DEF IInv, Levels
  <2>2. CASE k # l
    <3>1. k < l <=> k < l + 1
      BY <1>1, <2>1, <2>2
    <3>2. \A q \in Members(k) : Left(q, k)' <=> Left(q, k)
      BY <1>1, <1>12, <1>20, <2>1, <3>1, LeftSameAll
    <3> QED
      BY <1>5, <1>17, <2>1, <2>2, <3>2, LevelStep
  <2>3. CASE k = l
    <3>1. \A q \in Members(k) : ~Left(q, k)'
      <4>1. ~(k < l)
        BY <1>1, <2>3
      <4> QED
        BY <1>12, <1>20, <2>1, <2>3, <4>1 DEF Left, S
    <3>2. Members(k) # {}
      BY <2>1, SomeMember
    <3>3. ASSUME NEW q \in Proc \ Members(k) PROVE SameOffBoundary(k, q)'
      <4>1. SameOffBoundary(l, q)
        BY <2>1, <2>3 DEF LevelIsRight
      <4>2. q \in Fixed[l] \/ d[q] = rhs[l][q]
        BY <1>15, <2>3, <4>1
      <4>3. rhs'[l] = rhs[l]
        BY <1>5
      <4> QED
        BY <1>17, <2>3, <4>1, <4>2, <4>3 DEF SameOffBoundary
    <3> QED
      BY <3>1, <3>2, <3>3 DEF LevelIsRight
  <2> QED
    BY <2>2, <2>3
<1> QED
  BY <1>5, <1>12, <1>19, <1>21 DEF IInv, NoFault

----------------------------------------------------------------------------
(* Counting in binary.                                                     *)

LEMMA Powers ==
  /\ 2 ^ 0 = 1
  /\ \A n \in Nat : 2 ^ n \in Nat /\ 2 ^ n > 0 /\ 2 ^ (n + 1) = 2 * 2 ^ n
<1>1. ASSUME NEW n \in Nat
      PROVE  /\ IsFiniteSet(SUBSET (1 .. n)) /\ Cardinality(SUBSET (1 .. n)) = 2 ^ n
             /\ 2 ^ n \in Nat /\ 2 ^ n > 0
  <2>1. IsFiniteSet(1 .. n) /\ Cardinality(1 .. n) = n
    <3>1. IsFiniteSet(1 .. n) /\ Cardinality(1 .. n) = IF 1 > n THEN 0 ELSE n - 1 + 1
      BY FS_Interval
    <3> QED
      BY <3>1
  <2>2. IsFiniteSet(SUBSET (1 .. n)) /\ Cardinality(SUBSET (1 .. n)) = 2 ^ Cardinality(1 .. n)
    BY <2>1, FS_SUBSET
  <2>3. 2 ^ n = Cardinality(SUBSET (1 .. n)) /\ SUBSET (1 .. n) # {}
    BY <2>1, <2>2
  <2>4. Cardinality(SUBSET (1 .. n)) \in Nat /\ Cardinality(SUBSET (1 .. n)) # 0
    BY <2>2, <2>3, FS_CardinalityType, FS_EmptySet
  <2>5. 2 ^ n \in Nat /\ 2 ^ n # 0
    BY <2>3, <2>4
  <2> QED
    BY <2>2, <2>3, <2>5
<1>2. ASSUME NEW n \in Nat
      PROVE  2 ^ (n + 1) = 2 * 2 ^ n
  <2> DEFINE A == SUBSET (1 .. n)
             B == {s \cup {n + 1} : s \in A}
             f == [s \in A |-> s \cup {n + 1}]
  <2>1. \A s \in A : n + 1 \notin s
    OBVIOUS
  <2>2. f \in Surjection(A, B) /\ f \in Injection(A, B)
    <3>1. f \in [A -> B] /\ \A b \in B : \E s \in A : f[s] = b
      OBVIOUS
    <3>2. ASSUME NEW s \in A, NEW r \in A, f[s] = f[r] PROVE s = r
      BY <2>1, <3>2
    <3>3. DOMAIN f = A
      OBVIOUS
    <3> HIDE DEF A, B, f
    <3> QED
      BY <3>1, <3>2, <3>3, Zenon DEF Surjection, Injection, IsInjective
  <2>3. SUBSET (1 .. n + 1) = A \cup B
    <3>1. ASSUME NEW s \in SUBSET (1 .. n + 1) PROVE s \in A \cup B
      <4>1. CASE n + 1 \in s
        <5>1. s \ {n + 1} \in A /\ s = (s \ {n + 1}) \cup {n + 1}
          BY <4>1
        <5> QED
          BY <5>1
      <4>2. CASE n + 1 \notin s
        BY <4>2
      <4> QED
        BY <4>1, <4>2
    <3>2. ASSUME NEW s \in A \cup B PROVE s \in SUBSET (1 .. n + 1)
      OBVIOUS
    <3> QED
      BY <3>1, <3>2
  <2>4. A \cap B = {}
    BY <2>1
  <2>5. IsFiniteSet(A) /\ Cardinality(A) = 2 ^ n /\ 2 ^ n \in Nat
    BY <1>1
  <2>6. Cardinality(SUBSET (1 .. n + 1)) = 2 ^ (n + 1)
    <3>1. n + 1 \in Nat
      OBVIOUS
    <3> QED
      BY <1>1, <3>1
  <2> HIDE DEF A, B, f
  <2>7. IsFiniteSet(B) /\ Cardinality(B) = Cardinality(A)
    BY <2>2, <2>5, FS_Surjection
  <2>8. Cardinality(A \cup B) = Cardinality(A) + Cardinality(B)
    <3>1. Cardinality(A \cup B) = Cardinality(A) + Cardinality(B) - Cardinality(A \cap B)
      BY <2>5, <2>7, FS_Union
    <3>2. Cardinality(A \cap B) = 0
      BY <2>4, FS_EmptySet
    <3>3. Cardinality(A) \in Nat /\ Cardinality(B) \in Nat
      BY <2>5, <2>7
    <3> QED
      BY <3>1, <3>2, <3>3
  <2> DEFINE w == 2 ^ n
             x == 2 ^ (n + 1)
             y == Cardinality(A \cup B)
  <2>9. w \in Nat /\ y = w + w /\ x = y
    BY <2>3, <2>5, <2>6, <2>7, <2>8
  <2> HIDE DEF w, x, y
  <2>10. x = 2 * w
    BY <2>9
  <2> QED
    BY <2>10 DEF w, x
<1>3. 2 ^ 0 = 1
  OBVIOUS
<1> QED
  BY <1>1, <1>2, <1>3

LEMMA SumFromFirst ==
  ASSUME NEW v, NEW lo \in Int, NEW hi \in Int, \A x \in lo .. hi : v[x] \in Int
  PROVE  /\ lo <= hi => Sum(v, lo .. hi) = v[lo] + Sum(v, lo + 1 .. hi)
         /\ Sum(v, lo .. hi) \in Int /\ Sum(v, lo + 1 .. hi) \in Int
         /\ lo > hi => Sum(v, lo .. hi) = 0
<1>1. IsFiniteSet(lo .. hi) /\ IsFiniteSet(lo + 1 .. hi)
  BY FS_Interval
<1>2. Sum(v, lo .. hi) \in Int /\ Sum(v, lo + 1 .. hi) \in Int
  BY <1>1, SumType
<1>3. ASSUME lo <= hi PROVE Sum(v, lo .. hi) = v[lo] + Sum(v, lo + 1 .. hi)
  <2>1. lo \in lo .. hi /\ (lo .. hi) \ {lo} = lo + 1 .. hi
    BY <1>3
  <2>2. Sum(v, lo .. hi) = v[lo] + Sum(v, (lo .. hi) \ {lo})
    BY <1>1, <2>1, SumOfOneMore
  <2> QED
    BY <2>1, <2>2
<1>4. ASSUME lo > hi PROVE Sum(v, lo .. hi) = 0
  <2>1. lo .. hi = {}
    BY <1>4
  <2> QED
    BY <2>1, SumOfNone
<1> QED
  BY <1>2, <1>3, <1>4

\* v has the values of the digits c, the last of which is at hi.
AreDigits(c, v, lo, hi) ==
  \A k \in lo .. hi : c[k] \in {0, 1} /\ v[k] = c[k] * 2 ^ (hi - k)

LEMMA DigitValue ==
  ASSUME NEW c, NEW v, NEW lo \in Int, NEW hi \in Int, AreDigits(c, v, lo, hi), NEW k \in lo .. hi
  PROVE  /\ hi - k \in Nat /\ 2 ^ (hi - k) \in Nat
         /\ v[k] \in Int /\ (c[k] = 0 => v[k] = 0) /\ (c[k] = 1 => v[k] = 2 ^ (hi - k))
         /\ c[k] \in {0, 1}
<1>1. hi - k \in Nat
  OBVIOUS
<1>2. 2 ^ (hi - k) \in Nat
  BY <1>1, Powers
<1> DEFINE w == 2 ^ (hi - k)
<1>3. w \in Nat /\ c[k] \in {0, 1} /\ v[k] = c[k] * w
  BY <1>2 DEF AreDigits
<1> HIDE DEF w
<1>4. c[k] = 0 => v[k] = 0
  BY <1>3
<1>5. c[k] = 1 => v[k] = w
  BY <1>3
<1> QED
  BY <1>1, <1>2, <1>3, <1>4, <1>5 DEF w

\* The digits from lo on make a number of so many digits, the greatest if all are 1.
LEMMA DigitSums ==
  ASSUME NEW c, NEW v, NEW top \in Int, NEW hi \in Int, top <= hi + 1, AreDigits(c, v, top, hi)
  PROVE  \A lo \in top .. hi + 1 :
           /\ Sum(v, lo .. hi) <= 2 ^ (hi + 1 - lo) - 1
           /\ Sum(v, lo .. hi) = 2 ^ (hi + 1 - lo) - 1 <=> \A k \in lo .. hi : c[k] = 1
<1> DEFINE Exact(lo) == /\ Sum(v, lo .. hi) <= 2 ^ (hi + 1 - lo) - 1
                        /\ Sum(v, lo .. hi) = 2 ^ (hi + 1 - lo) - 1 <=> \A k \in lo .. hi : c[k] = 1
           T == {n \in Nat : hi + 1 - n >= top => Exact(hi + 1 - n)}
<1>1. 0 \in T
  <2>1. Sum(v, hi + 1 .. hi) = 0
    BY SumFromFirst
  <2>2. hi + 1 - (hi + 1) = 0 /\ 2 ^ 0 = 1 /\ hi + 1 - 0 = hi + 1
    BY Powers
  <2>3. Exact(hi + 1)
    <3>1. \A k \in hi + 1 .. hi : c[k] = 1
      OBVIOUS
    <3> DEFINE w == 2 ^ (hi + 1 - (hi + 1))
               s == Sum(v, hi + 1 .. hi)
    <3>2. w = 1
      BY <2>2
    <3>3. s = 0
      BY <2>1
    <3> HIDE DEF w, s
    <3>4. s <= w - 1 /\ s = w - 1
      BY <3>2, <3>3
    <3> QED
      BY <3>1, <3>4 DEF w, s
  <2> HIDE DEF Exact
  <2> QED
    BY <2>2, <2>3
<1>2. ASSUME NEW n \in T PROVE n + 1 \in T
  <2>1. n \in Nat /\ (hi + 1 - n >= top => Exact(hi + 1 - n))
    OBVIOUS
  <2> DEFINE lo == hi - n
  <2>2. lo \in Int /\ hi + 1 - n = lo + 1 /\ hi + 1 - (n + 1) = lo /\ hi + 1 - (lo + 1) = n /\ hi + 1 - lo = n + 1
        /\ hi - lo = n
    BY <2>1
  <2> SUFFICES ASSUME lo >= top PROVE Exact(lo)
    <3> HIDE DEF Exact
    <3> QED
      BY <2>1, <2>2
  <2>3. Exact(lo + 1)
    <3> HIDE DEF Exact
    <3>1. hi + 1 - n >= top
      BY <2>1
    <3> QED
      BY <2>1, <2>2, <3>1
  <2> HIDE DEF lo
  <2>4. \A k \in lo .. hi : k \in top .. hi
    BY <2>2
  <2>5. \A k \in lo .. hi : v[k] \in Int
    BY <2>4, DigitValue
  <2>6. lo <= hi /\ lo \in top .. hi
    BY <2>1, <2>2
  <2>7. /\ Sum(v, lo .. hi) = v[lo] + Sum(v, lo + 1 .. hi)
        /\ Sum(v, lo + 1 .. hi) \in Int
    BY <2>2, <2>5, <2>6, SumFromFirst
  <2>8. /\ 2 ^ n \in Nat /\ 2 ^ n > 0 /\ 2 ^ (n + 1) = 2 * 2 ^ n
    BY <2>1, Powers
  <2>9. v[lo] \in Int /\ (c[lo] = 0 => v[lo] = 0) /\ (c[lo] = 1 => v[lo] = 2 ^ n) /\ c[lo] \in {0, 1}
    <3>1. /\ v[lo] \in Int /\ (c[lo] = 0 => v[lo] = 0) /\ (c[lo] = 1 => v[lo] = 2 ^ (hi - lo))
          /\ c[lo] \in {0, 1}
      BY <2>6, DigitValue
    <3> QED
      BY <2>2, <3>1
  <2> DEFINE a == Sum(v, lo + 1 .. hi)
             b == Sum(v, lo .. hi)
             w == 2 ^ n
  <2>10. a <= w - 1 /\ (a = w - 1 <=> \A k \in lo + 1 .. hi : c[k] = 1)
    BY <2>2, <2>3
  <2>11. w \in Nat /\ w > 0 /\ 2 ^ (n + 1) = 2 * w /\ a \in Int /\ b = v[lo] + a
    BY <2>7, <2>8
  <2>12. (\A k \in lo .. hi : c[k] = 1) <=> c[lo] = 1 /\ (\A k \in lo + 1 .. hi : c[k] = 1)
    <3>1. \A k \in Int : k \in lo .. hi <=> k = lo \/ k \in lo + 1 .. hi
      BY <2>2, <2>6
    <3> QED
      BY <3>1, <2>2
  <2>13. (c[lo] = 0 => v[lo] = 0) /\ (c[lo] = 1 => v[lo] = w)
    BY <2>9
  <2> HIDE DEF a, b, w
  <2>14. b <= 2 * w - 1 /\ (b = 2 * w - 1 <=> c[lo] = 1 /\ a = w - 1)
    <3>1. CASE c[lo] = 0
      BY <2>10, <2>11, <2>13, <3>1
    <3>2. CASE c[lo] = 1
      BY <2>10, <2>11, <2>13, <3>2
    <3> QED
      BY <2>9, <3>1, <3>2
  <2>15. b <= 2 ^ (n + 1) - 1 /\ (b = 2 ^ (n + 1) - 1 <=> \A k \in lo .. hi : c[k] = 1)
    BY <2>10, <2>11, <2>12, <2>14
  <2> QED
    BY <2>2, <2>15 DEF b
<1> HIDE DEF Exact
<1>3. T = Nat
  <2>1. T \subseteq Nat
    OBVIOUS
  <2> HIDE DEF T
  <2> QED
    BY <1>1, <1>2, <2>1, AllNumbers
<1>4. ASSUME NEW lo \in top .. hi + 1 PROVE Exact(lo)
  <2>1. hi + 1 - lo \in Nat /\ hi + 1 - (hi + 1 - lo) = lo /\ lo >= top
    BY <1>4
  <2>2. hi + 1 - lo \in T
    BY <1>3, <2>1
  <2> QED
    BY <2>1, <2>2
<1> QED
  BY <1>4 DEF Exact

\* One more: ones at the end become zeros, and the zero before them a one.
LEMMA OneMore ==
  ASSUME NEW c, NEW v, NEW d, NEW w, NEW top \in Int, NEW hi \in Int, NEW peak \in top .. hi,
         AreDigits(c, v, top, hi), AreDigits(d, w, top, hi),
         c[peak] = 0, d[peak] = 1,
         \A k \in peak + 1 .. hi : c[k] = 1 /\ d[k] = 0,
         \A k \in top .. peak - 1 : d[k] = c[k]
  PROVE  Sum(w, top .. hi) = Sum(v, top .. hi) + 1
<1>1. \A k \in top .. hi : v[k] \in Int /\ w[k] \in Int
  BY DigitValue
<1>2. \A lo \in top .. hi + 1 : \A k \in lo .. hi : v[k] \in Int /\ w[k] \in Int
  <2> SUFFICES ASSUME NEW lo \in top .. hi + 1, NEW k \in lo .. hi PROVE v[k] \in Int /\ w[k] \in Int
    OBVIOUS
  <2>1. k \in top .. hi
    OBVIOUS
  <2> QED
    BY <1>1, <2>1
<1>3. /\ hi - peak \in Nat /\ 2 ^ (hi - peak) \in Nat /\ v[peak] = 0 /\ w[peak] = 2 ^ (hi - peak)
  BY DigitValue
<1>4. Sum(v, peak + 1 .. hi) = 2 ^ (hi - peak) - 1
  <2>1. peak + 1 \in top .. hi + 1 /\ hi + 1 - (peak + 1) = hi - peak /\ top <= hi + 1
    OBVIOUS
  <2>2. Sum(v, peak + 1 .. hi) = 2 ^ (hi + 1 - (peak + 1)) - 1
    BY <2>1, DigitSums
  <2> QED
    BY <2>1, <2>2
<1>5. Sum(w, peak + 1 .. hi) = 0
  <2>1. \A k \in peak + 1 .. hi : w[k] = IF k \in {} THEN 0 ELSE 0
    <3> SUFFICES ASSUME NEW k \in peak + 1 .. hi PROVE w[k] = 0
      OBVIOUS
    <3>1. k \in top .. hi /\ d[k] = 0
      OBVIOUS
    <3> QED
      BY <3>1, DigitValue
  <2>2. IsFiniteSet(peak + 1 .. hi) /\ {} \in SUBSET (peak + 1 .. hi)
    BY FS_Interval
  <2>3. Sum(w, peak + 1 .. hi) = Cardinality({}) * 0
    BY <2>1, <2>2, SumOfEqualShares
  <2> QED
    BY <2>3, FS_EmptySet
<1>6. peak \in Int /\ peak \in top .. hi + 1 /\ peak <= hi
  OBVIOUS
<1> DEFINE Exact(lo) == Sum(w, lo .. hi) = Sum(v, lo .. hi) + 1
           T == {n \in Nat : peak - n >= top => Exact(peak - n)}
<1>7. 0 \in T
  <2>1. Sum(v, peak .. hi) = v[peak] + Sum(v, peak + 1 .. hi) /\ Sum(w, peak .. hi) = w[peak] + Sum(w, peak + 1 .. hi)
    BY <1>2, <1>6, SumFromFirst
  <2> DEFINE a == 2 ^ (hi - peak)
  <2>2. a \in Nat /\ v[peak] = 0 /\ w[peak] = a /\ Sum(v, peak + 1 .. hi) = a - 1 /\ Sum(w, peak + 1 .. hi) = 0
    BY <1>3, <1>4, <1>5
  <2> HIDE DEF a
  <2>3. Exact(peak)
    BY <2>1, <2>2
  <2> HIDE DEF Exact
  <2>4. peak - 0 = peak
    BY <1>6
  <2> QED
    BY <2>3, <2>4
<1>8. ASSUME NEW n \in T PROVE n + 1 \in T
  <2> DEFINE lo == peak - (n + 1)
  <2>1. n \in Nat /\ (peak - n >= top => Exact(peak - n))
    OBVIOUS
  <2>2. lo \in Int /\ lo + 1 = peak - n /\ lo < peak
    BY <1>6, <2>1
  <2> SUFFICES ASSUME lo >= top PROVE Exact(lo)
    <3> HIDE DEF Exact, lo
    <3>1. n + 1 \in Nat
      BY <2>1
    <3>2. lo >= top => Exact(lo)
      OBVIOUS
    <3> QED
      BY <3>1, <3>2 DEF lo
  <2>3. Exact(lo + 1)
    <3> HIDE DEF Exact
    <3>1. peak - n >= top
      BY <1>6, <2>1
    <3> QED
      BY <2>1, <2>2, <3>1
  <2> HIDE DEF lo
  <2>4. lo \in top .. hi + 1 /\ lo <= hi /\ lo \in top .. peak - 1 /\ lo \in top .. hi
    BY <1>6, <2>2
  <2>5. /\ Sum(v, lo .. hi) = v[lo] + Sum(v, lo + 1 .. hi) /\ Sum(w, lo .. hi) = w[lo] + Sum(w, lo + 1 .. hi)
        /\ Sum(v, lo + 1 .. hi) \in Int /\ v[lo] \in Int
    BY <1>2, <2>2, <2>4, SumFromFirst, <1>1
  <2>6. w[lo] = v[lo]
    BY <2>4, DigitValue
  <2> DEFINE a == Sum(v, lo + 1 .. hi)
             b == Sum(w, lo + 1 .. hi)
  <2>7. b = a + 1 /\ a \in Int
    BY <2>3, <2>5
  <2> HIDE DEF a, b
  <2>8. v[lo] + b = v[lo] + a + 1
    BY <2>5, <2>7
  <2> QED
    BY <2>5, <2>6, <2>8 DEF a, b
<1> HIDE DEF Exact
<1>9. T = Nat
  <2>1. T \subseteq Nat
    OBVIOUS
  <2> HIDE DEF T
  <2> QED
    BY <1>7, <1>8, <2>1, AllNumbers
<1>10. peak - top \in Nat /\ peak - (peak - top) = top
  BY <1>6
<1>11. Exact(top)
  <2>1. peak - top \in T
    BY <1>9, <1>10
  <2>2. top >= top
    OBVIOUS
  <2> QED
    BY <1>10, <2>1, <2>2
<1> QED
  BY <1>11 DEF Exact


LEMMA SumOfZeros ==
  ASSUME NEW S, IsFiniteSet(S), NEW v, \A x \in S : v[x] = 0
  PROVE  Sum(v, S) = 0
<1>1. \A x \in S : v[x] = IF x \in {} THEN 0 ELSE 0
  OBVIOUS
<1>2. Sum(v, S) = Cardinality({}) * 0
  BY <1>1, SumOfEqualShares
<1> QED
  BY <1>2, FS_EmptySet

----------------------------------------------------------------------------
(* The driver of the W-cycle.                                              *)

\* The values of the counters c, whether they are those of now or of the next state.
Digits(p, c) == [l \in Top .. LastLevel(p) - 1 |-> c[l] * 2 ^ (LastLevel(p) - 1 - l)]

CountFor(p, c, n) ==
  /\ SumFunction(Digits(p, c)) = n - 1
  /\ \A l \in Top .. LastLevel(p) - 1 : c[l] \in {0, 1}

LEMMA DigitsAre ==
  ASSUME NEW p \in Proc, NEW c, \A l \in Top .. LastLevel(p) - 1 : c[l] \in {0, 1}
  PROVE  /\ AreDigits(c, Digits(p, c), Top, LastLevel(p) - 1)
         /\ SumFunction(Digits(p, c)) = Sum(Digits(p, c), Top .. LastLevel(p) - 1)
<1>1. DOMAIN Digits(p, c) = Top .. LastLevel(p) - 1
  BY DEF Digits
<1> QED
  BY <1>1 DEF AreDigits, Digits, SumFunction, Sum

LEMMA LevelRange ==
  ASSUME NEW p \in Proc
  PROVE  /\ Top \in Int /\ LastLevel(p) - 1 \in Int /\ Top <= LastLevel(p) - 1 + 1
         /\ LastLevel(p) \in Int /\ LastLevel(p) - 1 + 1 - Top = LastLevel(p) - Top
         /\ LastLevel(p) - Top \in Nat /\ Top .. LastLevel(p) - 1 \subseteq Level
         /\ \A l \in Level : l < LastLevel(p) => l \in Top .. LastLevel(p) - 1
         /\ Top <= LastLevel(p) /\ LastLevel(p) <= Crs /\ Crs \in Nat
BY LastFacts, LevelFacts

\* The counters reach their greatest value when all of them are 1.
LEMMA CountIsBounded ==
  ASSUME NEW p \in Proc, NEW c, NEW n \in Int, CountFor(p, c, n)
  PROVE  /\ n <= 2 ^ (LastLevel(p) - Top)
         /\ n = 2 ^ (LastLevel(p) - Top) <=> \A l \in Top .. LastLevel(p) - 1 : c[l] = 1
<1> DEFINE hi == LastLevel(p) - 1
           s == Sum(Digits(p, c), Top .. hi)
           w == 2 ^ (LastLevel(p) - Top)
           Ones == \A l \in Top .. hi : c[l] = 1
<1>1. AreDigits(c, Digits(p, c), Top, hi) /\ s = n - 1
  BY DigitsAre DEF CountFor
<1>2. Top \in Int /\ hi \in Int /\ Top <= hi + 1 /\ hi + 1 - Top = LastLevel(p) - Top /\ Top \in Top .. hi + 1
  BY LevelRange
<1>3. w \in Nat
  BY LevelRange, Powers
<1>4. s <= 2 ^ (hi + 1 - Top) - 1 /\ (s = 2 ^ (hi + 1 - Top) - 1 <=> Ones)
  <2> DEFINE v == Digits(p, c)
  <2> HIDE DEF v, hi
  <2> SUFFICES ASSUME AreDigits(c, v, Top, hi)
               PROVE  /\ Sum(v, Top .. hi) <= 2 ^ (hi + 1 - Top) - 1
                      /\ Sum(v, Top .. hi) = 2 ^ (hi + 1 - Top) - 1 <=> \A l \in Top .. hi : c[l] = 1
    BY <1>1 DEF v
  <2> QED
    BY <1>2, DigitSums
<1>5. s <= w - 1 /\ (s = w - 1 <=> Ones)
  BY <1>2, <1>4
<1> HIDE DEF s, w, Ones, hi
<1>6. n <= w /\ (n = w <=> Ones)
  BY <1>1, <1>3, <1>5
<1> QED
  BY <1>6 DEF w, Ones, hi

LEMMA StartCounts ==
  ASSUME NEW p \in Proc, NEW c
  PROVE  CountFor(p, StartCounters(c, p), 1)
<1> DEFINE d == StartCounters(c, p)
           v == Digits(p, d)
<1>1. \A l \in Top .. LastLevel(p) - 1 : d[l] = 0
  BY LevelRange DEF StartCounters
<1> HIDE DEF d
<1>2. \A l \in Top .. LastLevel(p) - 1 : d[l] \in {0, 1}
  BY <1>1
<1>3. AreDigits(d, v, Top, LastLevel(p) - 1) /\ SumFunction(v) = Sum(v, Top .. LastLevel(p) - 1)
  BY <1>2, DigitsAre
<1> HIDE DEF v
<1>4. \A l \in Top .. LastLevel(p) - 1 : v[l] = 0
  BY <1>1, <1>3, DigitValue, LevelRange
<1>5. Sum(v, Top .. LastLevel(p) - 1) = 0
  BY <1>4, SumOfZeros, FS_Interval, LevelRange
<1>6. 0 = 1 - 1
  OBVIOUS
<1> QED
  BY <1>2, <1>3, <1>5, <1>6 DEF CountFor, v, d

\* There is a peak level as long as not all counters are 1: its counter is 0, and those
\* of the levels from there to the coarse level are 1.
LEMMA PeakIs ==
  ASSUME NEW p \in Proc, \A l \in Top .. LastLevel(p) - 1 : counters[p][l] \in {0, 1},
         \E l \in Top .. LastLevel(p) - 1 : counters[p][l] # 1
  PROVE  /\ PeakLevel(p) \in Top .. LastLevel(p) - 1 /\ counters[p][PeakLevel(p)] = 0
         /\ \A l \in PeakLevel(p) + 1 .. LastLevel(p) - 1 : counters[p][l] = 1
<1> DEFINE hi == LastLevel(p) - 1
           Z == {l \in Top .. hi : counters[p][l] = 0}
           S == Z \cup {Top}
           U == {n \in Nat : hi - n \in Z}
<1>1. PICK z \in Top .. hi : counters[p][z] = 0
  OBVIOUS
<1>2. hi \in Int /\ Top \in Int /\ z \in Z /\ hi - z \in Nat /\ hi - (hi - z) = z /\ Top \in Top .. hi
  BY <1>1, LevelRange
<1>3. Z \subseteq Top .. hi
  OBVIOUS
<1>4. PICK n \in U : \A m \in U : n <= m
  <2>1. hi - z \in U
    BY <1>2
  <2> HIDE DEF U, Z
  <2>2. U \in SUBSET Nat
    BY DEF U
  <2> QED
    BY <2>1, <2>2, LeastNumber
<1> DEFINE x == hi - n
<1>5. x \in Z /\ n \in Nat
  BY <1>4
<1>6. \A y \in Z : x >= y
  <2> SUFFICES ASSUME NEW y \in Z PROVE x >= y
    OBVIOUS
  <2>1. y \in Int /\ y <= hi
    BY <1>3
  <2>2. hi - y \in Nat /\ hi - (hi - y) = y
    BY <1>2, <2>1
  <2>3. hi - y \in U
    BY <2>2
  <2> HIDE DEF U, Z, hi
  <2>4. n <= hi - y
    BY <1>4, <2>3
  <2> QED
    BY <1>2, <1>5, <2>1, <2>4
<1> HIDE DEF x
<1>7. x \in Int /\ x \in Top .. hi
  BY <1>2, <1>3, <1>5
<1>8. x \in S /\ \A y \in S : x >= y
  BY <1>5, <1>6, <1>7
<1>9. PeakLevel(p) = x
  <2>1. PeakLevel(p) = Max(S)
    BY DEF PeakLevel
  <2>2. \A y \in S : y \in Int
    BY <1>2, <1>3
  <2> HIDE DEF S
  <2>3. Max(S) \in S /\ \A y \in S : Max(S) >= y
    BY <1>8, Zenon DEF Max
  <2>4. Max(S) = x
    BY <1>8, <2>2, <2>3
  <2> QED
    BY <2>1, <2>4
<1>10. \A l \in x + 1 .. hi : counters[p][l] = 1
  <2> SUFFICES ASSUME NEW l \in x + 1 .. hi, counters[p][l] # 1 PROVE FALSE
    OBVIOUS
  <2>1. l \in Top .. hi /\ l > x /\ l \in Int
    BY <1>2, <1>7
  <2>2. l \in Z
    BY <2>1
  <2>3. x >= l
    BY <1>6, <2>2
  <2> QED
    BY <1>7, <2>1, <2>3
<1> QED
  BY <1>5, <1>7, <1>9, <1>10

\* Stepping the counters is counting.
LEMMA StepCounts ==
  ASSUME NEW p \in Proc, NEW n \in Int, CountFor(p, counters[p], n), n < 2 ^ (LastLevel(p) - Top)
  PROVE  /\ PeakLevel(p) \in Level /\ PeakLevel(p) <= LastLevel(p)
         /\ CountFor(p, StepCounters(counters[p], p, PeakLevel(p)), n + 1)
<1> DEFINE hi == LastLevel(p) - 1
           c == counters[p]
           peak == PeakLevel(p)
           d == StepCounters(c, p, peak)
           v == Digits(p, c)
           w == Digits(p, d)
<1>1. \A l \in Top .. hi : c[l] \in {0, 1}
  BY DEF CountFor
<1>2. 2 ^ (LastLevel(p) - Top) \in Nat
  BY LevelRange, Powers
<1>3. \E l \in Top .. hi : c[l] # 1
  <2>1. n # 2 ^ (LastLevel(p) - Top)
    <3> DEFINE x == 2 ^ (LastLevel(p) - Top)
    <3>1. x \in Nat /\ n < x
      BY <1>2
    <3> HIDE DEF x
    <3>2. n # x
      BY <3>1
    <3> QED
      BY <3>2 DEF x
  <2> QED
    BY <2>1, CountIsBounded
<1>4. peak \in Top .. hi /\ c[peak] = 0 /\ \A l \in peak + 1 .. hi : c[l] = 1
  BY <1>1, <1>3, PeakIs
<1>5. /\ Top \in Int /\ hi \in Int /\ LastLevel(p) \in Int /\ Top .. hi \subseteq Level
      /\ peak \in Int
  BY <1>4, LevelRange
<1> HIDE DEF peak
<1>6. d[peak] = 1
  <2>1. ~(peak > peak) /\ 0 + 1 = 1 /\ peak \in Level
    BY <1>4, <1>5
  <2> QED
    BY <1>4, <2>1 DEF StepCounters
<1>7. \A l \in peak + 1 .. hi : d[l] = 0
  <2> SUFFICES ASSUME NEW l \in peak + 1 .. hi PROVE d[l] = 0
    OBVIOUS
  <2>1. l > peak /\ l < LastLevel(p) /\ l \in Level
    BY <1>4, <1>5
  <2> QED
    BY <2>1 DEF StepCounters
<1>8. \A l \in Top .. peak - 1 : d[l] = c[l] /\ l \in Top .. hi
  <2> SUFFICES ASSUME NEW l \in Top .. peak - 1 PROVE d[l] = c[l] /\ l \in Top .. hi
    OBVIOUS
  <2>1. ~(l > peak) /\ l # peak /\ l \in Level /\ l \in Top .. hi
    BY <1>4, <1>5
  <2> QED
    BY <2>1 DEF StepCounters
<1> HIDE DEF d
<1>9. \A l \in Top .. hi : d[l] \in {0, 1}
  <2> SUFFICES ASSUME NEW l \in Top .. hi PROVE d[l] \in {0, 1}
    OBVIOUS
  <2>1. l = peak \/ l \in peak + 1 .. hi \/ l \in Top .. peak - 1
    BY <1>5
  <2> QED
    BY <1>1, <1>6, <1>7, <1>8, <2>1
<1>10. AreDigits(c, v, Top, hi) /\ SumFunction(v) = Sum(v, Top .. hi)
  BY <1>1, DigitsAre
<1>11. AreDigits(d, w, Top, hi) /\ SumFunction(w) = Sum(w, Top .. hi)
  BY <1>9, DigitsAre
<1>12. SumFunction(v) = n - 1
  BY DEF CountFor
<1> HIDE DEF c, v, w, hi
<1>13. Sum(w, Top .. hi) = Sum(v, Top .. hi) + 1
  <2>1. \A l \in peak + 1 .. hi : c[l] = 1 /\ d[l] = 0
    BY <1>4, <1>7
  <2>2. \A l \in Top .. peak - 1 : d[l] = c[l]
    BY <1>8
  <2>3. /\ Top \in Int /\ hi \in Int /\ peak \in Top .. hi /\ c[peak] = 0 /\ d[peak] = 1
        /\ AreDigits(c, v, Top, hi) /\ AreDigits(d, w, Top, hi)
    BY <1>4, <1>5, <1>6, <1>10, <1>11
  <2> QED
    BY <2>1, <2>2, <2>3, OneMore
<1>14. SumFunction(w) = n + 1 - 1
  BY <1>10, <1>11, <1>12, <1>13
<1>15. CountFor(p, d, n + 1)
  BY <1>9, <1>14 DEF CountFor, w, hi
<1>16. peak \in Level /\ peak <= LastLevel(p)
  BY <1>4, <1>5 DEF hi
<1> QED
  BY <1>15, <1>16 DEF d, peak, c

\* A step of p's driver: its counters are now c, its number of solves n.
LEMMA WDriverStep ==
  ASSUME IInv, NEW p \in Proc, NEW t, IsGoodTodo(p, t), todo[p] # <<>>,
         todo' = [todo EXCEPT ![p] = t],
         UNCHANGED <<input, calls, vectors, network>>, fault' = "none",
         \A l \in Level : p \in Members(l) /\ l < Crs => (Below(Head(t), l) <=> Below(Head(todo[p]), l)),
         NEW c \in [Level -> Int], NEW n \in Int,
         counters' = [counters EXCEPT ![p] = c], cgs' = [cgs EXCEPT ![p] = n],
         HasWLoop(t) => CountFor(p, c, n)
  PROVE  IInv'
<1>1. Data'
  BY DEF IInv, Data, vectors, network
<1>2. /\ CycleControl' /\ todo'[p] = t /\ \A q \in Proc : q # p => todo'[q] = todo[q]
  BY ControlStep DEF IInv, CycleControl, IsGoodTodo
<1>3. Levels'
  <2>1. \A l \in Level : l < Crs => \A q \in Members(l) : Left(q, l)' <=> Left(q, l)
    BY <1>2, LeftSame DEF IsGoodTodo
  <2> QED
    BY <2>1, LevelsStep DEF vectors
<1>4. AllCount'
  <2>1. counters'[p] = c /\ cgs'[p] = n
    BY DEF IInv, Data
  <2>2. \A q \in Proc : q # p => counters'[q] = counters[q] /\ cgs'[q] = cgs[q]
    BY DEF IInv, Data
  <2> SUFFICES ASSUME NEW q \in Proc PROVE CounterIsRight(q)'
    BY DEF AllCount
  <2>3. CASE q = p
    <3>1. CounterValues(p)' = Digits(p, c)
      BY <2>1 DEF CounterValues, Digits
    <3> QED
      BY <1>2, <2>1, <2>3, <3>1 DEF CounterIsRight, CountFor
  <2>4. CASE q # p
    <3>1. CounterIsRight(q)
      BY DEF IInv, AllCount
    <3>2. CounterValues(q)' = CounterValues(q)
      BY <2>2, <2>4 DEF CounterValues
    <3> QED
      BY <1>2, <2>2, <2>4, <3>1, <3>2 DEF CounterIsRight
  <2> QED
    BY <2>3, <2>4
<1> QED
  BY <1>1, <1>2, <1>3, <1>4 DEF IInv, NoFault

LEMMA WStartKeeps ==
  ASSUME IInv, NEW p \in Proc, WStart(p)
  PROVE  IInv'
<1> DEFINE e == Head(todo[p])
           t == <<Do("wloop")>>
           c == StartCounters(counters[p], p)
           n == 1
<1>1. todo[p] # <<>> /\ e.op = "wstart"
  BY DEF WStart, In
<1>2. IsGoodTodo(p, t) /\ Head(t).op = "wloop"
  BY WTodo
<1>3. c \in [Level -> Int]
  BY DEF StartCounters, IInv, Data
<1>4. CountFor(p, c, n) /\ n \in Int
  BY StartCounts
<1>5. /\ todo' = [todo EXCEPT ![p] = t] /\ counters' = [counters EXCEPT ![p] = c]
      /\ cgs' = [cgs EXCEPT ![p] = n]
  BY DEF WStart
<1>6. UNCHANGED <<input, calls, vectors, network>> /\ fault' = "none"
  BY DEF WStart, outcome, IInv, NoFault
<1> HIDE DEF e, t, c, n
<1>7. \A l \in Level : p \in Members(l) /\ l < Crs => (Below(Head(t), l) <=> Below(e, l))
  BY <1>1, <1>2 DEF Below
<1> QED
  BY <1>1, <1>2, <1>3, <1>4, <1>5, <1>6, <1>7, WDriverStep DEF e

\* At the head of the W-cycle's loop, the counters count.
LEMMA CountingFacts ==
  ASSUME IInv, NEW p \in Proc, In(p, "wloop")
  PROVE  /\ todo[p] # <<>> /\ Head(todo[p]).op = "wloop" /\ HasWLoop(todo[p])
         /\ cgs[p] \in Int /\ CountFor(p, counters[p], cgs[p])
<1>1. todo[p] # <<>> /\ Head(todo[p]).op = "wloop" /\ todo[p] \in Seq(Entry)
  BY ControlFacts DEF In
<1>2. HasWLoop(todo[p])
  <2>1. Head(todo[p]) = todo[p][1] /\ 1 \in 1 .. Len(todo[p])
    BY <1>1
  <2> QED
    BY <1>1, <2>1 DEF HasWLoop
<1>3. CounterIsRight(p) /\ CounterValues(p) = Digits(p, counters[p])
  BY DEF IInv, AllCount, CounterValues, Digits
<1>4. cgs[p] \in Int
  BY DEF IInv, Data
<1> QED
  BY <1>1, <1>2, <1>3, <1>4 DEF CounterIsRight, CountFor

LEMMA WLoopKeeps ==
  ASSUME IInv, NEW p \in Proc, WLoop(p)
  PROVE  IInv'
<1> DEFINE e == Head(todo[p])
           peak == PeakLevel(p)
           t == WCalls(p, peak)
           c == StepCounters(counters[p], p, peak)
           n == cgs[p] + 1
<1>1. todo[p] # <<>> /\ e.op = "wloop" /\ cgs[p] \in Int /\ CountFor(p, counters[p], cgs[p])
  BY CountingFacts DEF WLoop
<1>2. peak \in Level /\ peak <= LastLevel(p) /\ CountFor(p, c, n)
  BY <1>1, StepCounts DEF WLoop
<1>3. IsGoodTodo(p, t) /\ Head(t) = DoProl(p, peak, FALSE)
  BY <1>2, WTodo
<1>4. c \in [Level -> Int]
  BY DEF StepCounters, IInv, Data
<1>5. /\ todo' = [todo EXCEPT ![p] = t] /\ counters' = [counters EXCEPT ![p] = c]
      /\ cgs' = [cgs EXCEPT ![p] = n]
  BY DEF WLoop
<1>6. UNCHANGED <<input, calls, vectors, network>> /\ fault' = "none"
  BY DEF WLoop, outcome, IInv, NoFault
<1>7. Head(t).op = "prol" /\ Head(t).i = LastLevel(p) /\ n \in Int
  BY <1>1, <1>3 DEF DoProl
<1> HIDE DEF e, t, c, n, peak
<1>8. \A l \in Level : p \in Members(l) /\ l < Crs => (Below(Head(t), l) <=> Below(e, l))
  BY <1>1, <1>7, LastFacts DEF Below
<1> QED
  BY <1>1, <1>2, <1>3, <1>4, <1>5, <1>6, <1>7, <1>8, WDriverStep DEF e

\* The sanity check at the end of the W-cycle.
LEMMA WEndKeeps ==
  ASSUME IInv, NEW p \in Proc, WEnd(p)
  PROVE  IInv'
<1> DEFINE e == Head(todo[p])
           t == <<DoProl(p, Top, TRUE), Do("return")>>
           w == 2 ^ (LastLevel(p) - Top)
<1>1. todo[p] # <<>> /\ e.op = "wloop" /\ cgs[p] \in Int /\ CountFor(p, counters[p], cgs[p])
  BY CountingFacts DEF WEnd
<1>2. w \in Nat /\ cgs[p] >= w
  BY LevelRange, Powers DEF WEnd
<1>3. cgs[p] <= w /\ (cgs[p] = w => \A l \in Top .. LastLevel(p) - 1 : counters[p][l] = 1)
  BY <1>1, CountIsBounded
<1>4. IsGoodTodo(p, t) /\ Head(t) = DoProl(p, Top, TRUE) /\ ~HasWLoop(t)
  BY WTodo
<1>5. todo' = [todo EXCEPT ![p] = t] /\ UNCHANGED <<input, calls, vectors, driver, network>>
  BY DEF WEnd
<1>6. fault' = fault
  <2> HIDE DEF w
  <2>1. cgs[p] = w
    BY <1>1, <1>2, <1>3
  <2> QED
    BY <1>3, <2>1 DEF WEnd
<1>7. Head(t).op = "prol" /\ Head(t).i = LastLevel(p)
  BY <1>4 DEF DoProl
<1> HIDE DEF e, t, w
<1>8. \A l \in Level : p \in Members(l) /\ l < Crs => (Below(Head(t), l) <=> Below(e, l))
  BY <1>1, <1>7, LastFacts DEF Below
<1> QED
  BY <1>1, <1>4, <1>5, <1>6, <1>8, DriverStep DEF e

----------------------------------------------------------------------------
(* All steps.                                                              *)

LEMMA IInvIsInductive == IInv /\ [CycleNext]_cycleVars => IInv'
<1> SUFFICES ASSUME IInv, [CycleNext]_cycleVars PROVE IInv'
  OBVIOUS
<1>1. CASE UNCHANGED cycleVars
  <2>1. UNCHANGED <<input, calls, todo, rhs, sol, def, counters, cgs, up, down, fault>>
    BY <1>1 DEF cycleVars, vectors, driver, network, outcome
  <2>2. Data' /\ NoFault'
    BY <2>1 DEF IInv, Data, NoFault
  <2>3. CycleControl'
    BY <2>1 DEF IInv, CycleControl
  <2>4. Levels'
    <3>1. \A l \in Level : l < Crs => \A q \in Members(l) : Left(q, l)' <=> Left(q, l)
      BY <2>1 DEF Left
    <3> QED
      BY <2>1, <3>1, LevelsStep
  <2>5. AllCount'
    BY <2>1, CountsStep
  <2> QED
    BY <2>2, <2>3, <2>4, <2>5 DEF IInv
<1>2. ASSUME NEW l \in Level, Collective(l) PROVE IInv'
  <2>1. CASE PreSmooth(l)
    BY <2>1, PreSmoothKeeps
  <2>2. CASE Rest(l)
    BY <2>2, RestKeeps
  <2>3. CASE SmoothPeak(l)
    BY <2>3, SmoothPeakKeeps
  <2>4. CASE Prolongate(l)
    BY <2>4, ProlongateKeeps
  <2> QED
    BY <1>2, <2>1, <2>2, <2>3, <2>4 DEF Collective
<1>3. CASE CoarseSolve \/ CoarseFails
  BY <1>3, CoarseSolveKeeps
<1>4. ASSUME NEW p \in Proc, Local(p) PROVE IInv'
  <2>1. CASE Apply(p)
    BY <2>1, ApplyKeeps
  <2>2. CASE CycleReturn(p)
    BY <2>2, ReturnKeeps
  <2>3. CASE LoopEnds(p)
    BY <2>3, LoopEndsKeeps
  <2>4. CASE FLoop(p)
    BY <2>4, FLoopKeeps
  <2>5. CASE WStart(p)
    BY <2>5, WStartKeeps
  <2>6. CASE WLoop(p)
    BY <2>6, WLoopKeeps
  <2>7. CASE WEnd(p)
    BY <2>7, WEndKeeps
  <2>8. CASE ZeroStart(p)
    BY <2>8, ZeroStartKeeps
  <2>9. CASE FromPeak(p)
    BY <2>9, FromPeakKeeps
  <2>10. CASE NoCoarseLevel(p)
    BY <2>10, NoCoarseLevelKeeps
  <2>11. ASSUME NEW l \in Level, RestSend(p, l) PROVE IInv'
    BY <2>11, RestSendKeeps
  <2>12. ASSUME NEW l \in Level, Split(p, l) PROVE IInv'
    BY <2>12, SplitKeeps
  <2> QED
    BY <1>4, <2>1, <2>2, <2>3, <2>4, <2>5, <2>6, <2>7, <2>8, <2>9, <2>10, <2>11, <2>12 DEF Local
<1> QED
  BY <1>1, <1>2, <1>3, <1>4 DEF CycleNext

LEMMA IInvHolds == CycleSpec => []IInv
<1> QED
  BY CycleInitIsRight, IInvIsInductive, PTL DEF CycleSpec

\* All processes of a level that use its defect have left its loop body.
LEMMA UsedDefectIsLeft ==
  ASSUME IInv, NEW l \in Level, l < Crs, UsesDefect(l), NEW p \in Members(l)
  PROVE  Left(p, l)
<1>1. p \in Proc /\ l \in Int
  BY SomeMember, LevelFacts
<1>2. CASE \A q \in Members(l) : At(q, "transfer", l)
  BY <1>1, <1>2 DEF At, Left, Below
<1>3. CASE \A q \in Members(l) : ReadyToProlongate(q, l) /\ l >= Head(todo[q]).lvl
  <2>1. At(p, "prol", l + 1) \/ At(p, "split", l + 1)
    BY <1>3 DEF ReadyToProlongate
  <2> QED
    BY <1>1, <2>1 DEF At, Left, Below
<1> QED
  BY <1>2, <1>3 DEF UsesDefect

\* What a process restricts, and what an adaptive correction projects onto, is the
\* filtered defect of the level's current solution, in every run of the multigrid's
\* cycles on any hierarchy (multigrid.hpp).
THEOREM DefectsAreCurrent == CycleSpec => []DefectIsCurrent
<1>1. IInv => DefectIsCurrent
  <2> SUFFICES ASSUME IInv, NEW l \in Top .. Crs - 1, UsesDefect(l)
               PROVE  Filter(l, def[l]) = Defect(l, rhs[l], sol[l])
    BY DEF DefectIsCurrent
  <2>1. l \in Level /\ l < Crs
    BY LevelFacts
  <2>2. \A p \in Members(l) : Left(p, l)
    BY <2>1, UsedDefectIsLeft
  <2> QED
    BY <2>2 DEF IInv, Levels, LevelIsRight
<1> QED
  BY <1>1, IInvHolds, PTL

\* The counters of the W-cycle are the binary number of its coarse grid solves so far,
\* for any number of levels on a process (_apply_cycle_w).
THEOREM CountersCount == CycleSpec => []CountersCountSolves
<1>1. IInv => CountersCountSolves
  <2> SUFFICES ASSUME IInv, NEW p \in Proc, In(p, "wloop")
               PROVE  SumFunction(CounterValues(p)) = cgs[p] - 1
    BY DEF CountersCountSolves
  <2> QED
    BY CountingFacts DEF CountFor, CounterValues, Digits
<1> QED
  BY <1>1, IInvHolds, PTL

\* The sanity check at the end of the W-cycle (multigrid.hpp:1508-1512) never fails.
THEOREM NoAssertionFails == CycleSpec => [](fault = "none")
<1>1. IInv => fault = "none"
  BY DEF IInv, NoFault
<1> QED
  BY <1>1, IInvHolds, PTL

----------------------------------------------------------------------------
(* The plans of the cycles.                                                *)

RestOps == {"rest", "transfer"}
ProlOps == {"prol", "split"}
Cycle == {"V", "F", "W"}

\* What a process still has to do when it has smoothed, or still has to smooth, on
\* the peak level l.
PeakPlan(cycle, l) ==
  IF cycle = "F" THEN <<DoRest(l, FALSE), DoFLoop(l - 1)>>
                 ELSE <<DoRest(l, FALSE), Do("coarse"), Do("wloop")>>
ToPeakPlan(cycle, l) ==
  IF cycle = "F" THEN <<DoPeak(l), DoRest(l, FALSE), DoFLoop(l - 1)>>
                 ELSE <<DoPeak(l), DoRest(l, FALSE), Do("coarse"), Do("wloop")>>

BehindRest(p, cycle, e) ==
  CASE cycle = "V" -> <<Do("coarse"), DoProl(p, Top, TRUE), Do("return")>>
    [] cycle = "F" -> <<DoFLoop((IF e.smooth THEN LastLevel(p) ELSE e.lvl) - 1)>>
    [] cycle = "W" -> <<Do("coarse"), Do(IF e.smooth THEN "wstart" ELSE "wloop")>>

IsBehindCoarse(p, cycle, t) ==
  CASE cycle = "V" -> t = <<DoProl(p, Top, TRUE), Do("return")>>
    [] cycle = "F" -> \/ t = <<DoProl(p, Top, TRUE), Do("return")>>
                      \/ \E l \in Top + 1 .. LastLevel(p) - 1 :
                           t = <<DoProl(p, l, FALSE), DoPeak(l), DoRest(l, FALSE), DoFLoop(l - 1)>>
    [] cycle = "W" -> t = <<Do("wstart")>> \/ t = <<Do("wloop")>>

\* t is what a plan of p has behind its head e.
IsBehind(p, cycle, e, t) ==
  /\ e.op \in RestOps => t = BehindRest(p, cycle, e)
  /\ e.op = "coarse" => IsBehindCoarse(p, cycle, t)
  /\ e.op \in ProlOps => t = IF e.smooth THEN <<Do("return")>> ELSE ToPeakPlan(cycle, e.lvl)
  /\ e.op = "peak" => t = PeakPlan(cycle, e.i)

\* The head of a plan of p.
IsPart(p, cycle, e) ==
  /\ e.op \in RestOps \cup ProlOps =>
       /\ e.i <= LastLevel(p)
       /\ e.smooth => e.lvl = Top
       /\ ~e.smooth => e.lvl < LastLevel(p) /\ cycle # "V" /\ (cycle = "F" => Top < e.lvl)
  /\ e.op = "transfer" => e.i < LastLevel(p)
  /\ e.op = "peak" => e.i < LastLevel(p) /\ cycle # "V" /\ (cycle = "F" => Top < e.i)
  /\ e.op = "floop" => cycle = "F" /\ (e.i = LastLevel(p) - 1 \/ (Top <= e.i /\ e.i < LastLevel(p)))
  /\ e.op \in {"wstart", "wloop"} => cycle = "W"

\* The counters in the W-cycle on the way up to the peak level and down from it.
CountsFrom(p, c, peak) == c[peak] = 1 /\ \A l \in Level : peak < l /\ l < LastLevel(p) => c[l] = 0

IsCounted(p, e, c) ==
  /\ e.op \in RestOps \cup ProlOps /\ ~e.smooth => CountsFrom(p, c, e.lvl)
  /\ e.op = "peak" => CountsFrom(p, c, e.i)

IsPlan(p, cycle, e, t, c) ==
  IsBehind(p, cycle, e, t) /\ IsPart(p, cycle, e) /\ (cycle = "W" => IsCounted(p, e, c))

\* The level that the F-cycle is in for the second time, below the levels that are in
\* their first visit; none of p's when it is the last level of p.
FSecond(p, e, t) ==
  CASE e.op \in RestOps -> IF e.smooth THEN LastLevel(p) ELSE e.lvl
    [] e.op = "floop" -> e.i + 1
    [] e.op = "coarse" -> Head(t).lvl + 1
    [] e.op \in ProlOps -> e.lvl + 1
    [] OTHER -> LastLevel(p)

\* Is the W-cycle in level l for the second time?
WSecond(e, t, c, l) ==
  CASE e.op \in RestOps -> ~e.smooth /\ c[l] = 1
    [] e.op = "coarse" -> Head(t).op = "wloop" /\ c[l] = 1
    [] e.op = "wstart" -> FALSE
    [] e.op \in ProlOps -> IF l < e.lvl THEN c[l] = 1 ELSE l > e.lvl \/ e.smooth
    [] OTHER -> c[l] = 1

IsSecond(p, cycle, e, t, c, l) ==
  /\ l < LastLevel(p)
  /\ \/ cycle = "F" /\ l = FSecond(p, e, t)
     \/ cycle = "W" /\ WSecond(e, t, c, l)

Visit(p, cycle, e, t, c, l) == IF IsSecond(p, cycle, e, t, c, l) THEN "second" ELSE "first"

\* What has been done on level l, by a process with that plan: from its right-hand side to
\* its first visit's restriction, "first"; the correction from there, "turn"; the
\* peak-smoother, "second", and all, "done".
ClassOf(p, cycle, e, t, c, l) ==
  CASE e.op \in RestOps -> IF l > e.i THEN "off" ELSE Visit(p, cycle, e, t, c, l)
    [] e.op = "peak" -> IF l > e.i THEN "off" ELSE IF l = e.i THEN "turn" ELSE Visit(p, cycle, e, t, c, l)
    [] e.op \in ProlOps ->
         IF l > e.i THEN "off"
         ELSE IF l < e.i THEN Visit(p, cycle, e, t, c, l)
         ELSE IF l = e.lvl /\ ~e.smooth THEN "turn" ELSE "done"
    [] e.op \in {"coarse", "floop"} -> Visit(p, cycle, e, t, c, l)
    [] e.op \in {"wstart", "wloop"} -> IF l = Crs THEN "done" ELSE Visit(p, cycle, e, t, c, l)
    [] e.op = "return" -> IF l = Top THEN "done" ELSE "off"

\* The levels of p.
LevelOf(p, l) == l \in Level /\ p \in Members(l)

LEMMA LevelOfFacts ==
  ASSUME NEW p \in Proc
  PROVE  /\ LastLevel(p) \in Nat /\ LastLevel(p) <= Crs /\ Top <= LastLevel(p) /\ Top \in Nat /\ Crs \in Nat
         /\ \A l : LevelOf(p, l) => /\ l \in Nat /\ Top <= l /\ l <= LastLevel(p) /\ l \in Level
                                    /\ l = LastLevel(p) => l = Crs
         /\ p \in Members(Crs) => LastLevel(p) = Crs /\ LevelOf(p, Crs)
         /\ \A l \in Level : l < LastLevel(p) => LevelOf(p, l)
<1>1. LastLevel(p) \in Level /\ Level = Top .. Crs /\ Top \in Nat /\ Crs \in Nat /\ Top <= Crs
  BY LastFacts, LevelFacts
<1>2. \A l \in Level : l < LastLevel(p) => p \in Members(l)
  BY LastFacts
<1>3. \A l \in Level : p \in Members(l) /\ l < Crs => l < LastLevel(p)
  BY LastFacts
<1>4. p \in Members(Crs) => LastLevel(p) = Crs
  <2>1. Phys[p] \in Nat /\ Crs \in Nat
    BY LevelFacts
  <2> QED
    BY <2>1 DEF Members, LastLevel
<1>5. \A l : LevelOf(p, l) => l <= LastLevel(p) /\ (l = LastLevel(p) => l = Crs)
  BY <1>1, <1>3, <1>4 DEF LevelOf
<1> QED
  BY <1>1, <1>2, <1>4, <1>5 DEF LevelOf

LEMMA OnceIs == ASSUME NEW x PROVE Once(x) = x
BY DEF Once

IsHead(p, cycle, e, t, c) == p \in Proc /\ cycle \in Cycle /\ e \in Entry /\ IsEntry(p, e) /\ IsPlan(p, cycle, e, t, c)

LEMMA HeadIs ==
  ASSUME NEW p, NEW cycle, NEW e, NEW t, NEW c, IsHead(p, cycle, e, t, c)
  PROVE  /\ p \in Proc /\ cycle \in {"V", "F", "W"} /\ e.i \in Int
         /\ e.op \in RestOps \cup ProlOps \cup {"coarse", "peak", "floop", "wstart", "wloop", "return"}
         /\ e.op \in RestOps \cup ProlOps => /\ e.lvl \in Nat /\ Top <= e.lvl /\ e.lvl <= e.i /\ e.smooth \in BOOLEAN
                                            /\ e.lvl \in Level /\ e.i \in Level /\ e.i \in Nat
         /\ e.op = "peak" => e.i \in Nat /\ Top <= e.i /\ e.i \in Level
         /\ IsBehind(p, cycle, e, t) /\ IsPart(p, cycle, e) /\ (cycle = "W" => IsCounted(p, e, c))
<1>1. /\ e.op \in LoopOps \cup OtherOps /\ e.i \in Int
      /\ e.op \in LoopOps => e.lvl \in Level /\ e.smooth \in BOOLEAN /\ e.i \in Level
  BY EntryFacts DEF IsHead
<1>2. LoopOps = RestOps \cup ProlOps /\ OtherOps = {"coarse", "peak", "floop", "wstart", "wloop", "return"}
  BY DEF LoopOps, RestOps, ProlOps, OtherOps
<1>3. IsEntry(p, e) /\ IsPlan(p, cycle, e, t, c) /\ p \in Proc /\ cycle \in {"V", "F", "W"}
  BY DEF IsHead, Cycle
<1>4. \A l \in Level : l \in Nat /\ Top <= l
  BY LevelFacts
<1>5. e.op \in RestOps \cup ProlOps => e.lvl <= e.i
  BY <1>2, <1>3 DEF IsEntry
<1>6. e.op = "peak" => e.i \in Level
  BY <1>3 DEF IsEntry
<1> QED
  BY <1>1, <1>2, <1>3, <1>4, <1>5, <1>6 DEF IsPlan

LEMMA TupleOf1 ==
  ASSUME NEW a
  PROVE  <<a>> # <<>> /\ Head(<<a>>) = a /\ Tail(<<a>>) = <<>>
OBVIOUS

LEMMA TupleOf2 ==
  ASSUME NEW a, NEW b
  PROVE  <<a, b>> # <<>> /\ Head(<<a, b>>) = a /\ Tail(<<a, b>>) = <<b>>
OBVIOUS

LEMMA TupleOf3 ==
  ASSUME NEW a, NEW b, NEW c
  PROVE  <<a, b, c>> # <<>> /\ Head(<<a, b, c>>) = a /\ Tail(<<a, b, c>>) = <<b, c>>
OBVIOUS

LEMMA TupleOf4 ==
  ASSUME NEW a, NEW b, NEW c, NEW d
  PROVE  <<a, b, c, d>> # <<>> /\ Head(<<a, b, c, d>>) = a /\ Tail(<<a, b, c, d>>) = <<b, c, d>>
OBVIOUS

LEMMA TupleOf5 ==
  ASSUME NEW a, NEW b, NEW c, NEW d, NEW e
  PROVE  <<a, b, c, d, e>> # <<>> /\ Head(<<a, b, c, d, e>>) = a /\ Tail(<<a, b, c, d, e>>) = <<b, c, d, e>>
OBVIOUS

\* The plan goes on with what is behind its head.
LEMMA TailPlan ==
  ASSUME NEW p, NEW cycle, NEW e, NEW t, NEW c, IsHead(p, cycle, e, t, c),
         e.op \in RestOps \cup ProlOps \cup {"coarse", "peak"}
  PROVE  t # <<>> /\ IsPlan(p, cycle, Head(t), Tail(t), c)
<1>1. /\ LastLevel(p) \in Nat /\ LastLevel(p) <= Crs /\ Top <= LastLevel(p) /\ Top \in Nat /\ Crs \in Nat
  BY HeadIs, LevelOfFacts
<1>2. /\ cycle \in {"V", "F", "W"} /\ e.i \in Int
      /\ e.op \in RestOps \cup ProlOps => /\ e.lvl \in Nat /\ Top <= e.lvl /\ e.lvl <= e.i /\ e.smooth \in BOOLEAN
      /\ e.op = "peak" => e.i \in Nat /\ Top <= e.i
      /\ IsBehind(p, cycle, e, t) /\ IsPart(p, cycle, e) /\ (cycle = "W" => IsCounted(p, e, c))
  BY HeadIs
<1>3. CASE e.op \in RestOps
  <2>1. t = BehindRest(p, cycle, e)
    BY <1>2, <1>3 DEF IsBehind
  <2>2. CASE cycle = "V"
    <3>1. t = <<Do("coarse"), DoProl(p, Top, TRUE), Do("return")>>
      BY <2>1, <2>2 DEF BehindRest
    <3>2. t # <<>> /\ Head(t) = Do("coarse") /\ Tail(t) = <<DoProl(p, Top, TRUE), Do("return")>>
      BY <3>1, TupleOf3
    <3>3. IsBehindCoarse(p, cycle, Tail(t))
      BY <2>2, <3>2 DEF IsBehindCoarse
    <3> QED
      BY <2>2, <3>2, <3>3 DEF IsPlan, IsBehind, IsPart, Do, RestOps, ProlOps
  <2>3. CASE cycle = "F"
    <3>1. t = <<DoFLoop((IF e.smooth THEN LastLevel(p) ELSE e.lvl) - 1)>>
      BY <2>1, <2>3 DEF BehindRest
    <3> QED
      BY <1>1, <1>2, <1>3, <2>3, <3>1 DEF IsPlan, IsBehind, IsPart, DoFLoop, RestOps, ProlOps
  <2>4. CASE cycle = "W"
    <3>1. t = <<Do("coarse"), Do(IF e.smooth THEN "wstart" ELSE "wloop")>>
      BY <2>1, <2>4 DEF BehindRest
    <3>2. Tail(t) = <<Do("wstart")>> \/ Tail(t) = <<Do("wloop")>>
      BY <1>2, <1>3, <3>1
    <3> QED
      BY <2>4, <3>1, <3>2 DEF IsPlan, IsBehind, IsPart, IsCounted, IsBehindCoarse, Do, RestOps, ProlOps
  <2> QED
    BY <1>2, <2>2, <2>3, <2>4
<1>4. CASE e.op = "coarse"
  <2>1. IsBehindCoarse(p, cycle, t)
    BY <1>2, <1>4 DEF IsBehind
  <2>2. CASE t = <<DoProl(p, Top, TRUE), Do("return")>> /\ cycle \in {"V", "F"}
    BY <1>1, <2>2 DEF IsPlan, IsBehind, IsPart, Do, DoProl, RestOps, ProlOps
  <2>3. CASE /\ cycle = "F"
             /\ \E l \in Top + 1 .. LastLevel(p) - 1 :
                  t = <<DoProl(p, l, FALSE), DoPeak(l), DoRest(l, FALSE), DoFLoop(l - 1)>>
    <3>1. PICK l \in Top + 1 .. LastLevel(p) - 1 :
                  t = <<DoProl(p, l, FALSE), DoPeak(l), DoRest(l, FALSE), DoFLoop(l - 1)>>
      BY <2>3
    <3>2. t # <<>> /\ Head(t) = DoProl(p, l, FALSE) /\ Tail(t) = <<DoPeak(l), DoRest(l, FALSE), DoFLoop(l - 1)>>
      <4>1. \A a, b, d, f : t = <<a, b, d, f>> => t # <<>> /\ Head(t) = a /\ Tail(t) = <<b, d, f>>
        BY TupleOf4
      <4> QED
        BY <3>1, <4>1, Zenon
    <3>3. l \in Nat /\ Top < l /\ l < LastLevel(p)
      BY <1>1
    <3> DEFINE f == Head(t)
    <3>4. f.op = "prol" /\ f.lvl = l /\ f.smooth = FALSE /\ f.i = LastLevel(p)
      BY <3>2, <1>1 DEF DoProl
    <3>5. IsBehind(p, cycle, f, Tail(t))
      BY <2>3, <3>2, <3>4 DEF IsBehind, ToPeakPlan, RestOps, ProlOps
    <3>6. IsPart(p, cycle, f)
      <4> HIDE DEF f
      <4> QED
        BY <1>1, <2>3, <3>3, <3>4 DEF IsPart, RestOps, ProlOps
    <3> QED
      BY <2>3, <3>2, <3>5, <3>6 DEF IsPlan
  <2>4. CASE cycle = "W" /\ (t = <<Do("wstart")>> \/ t = <<Do("wloop")>>)
    BY <2>4 DEF IsPlan, IsBehind, IsPart, IsCounted, Do, RestOps, ProlOps
  <2> QED
    BY <1>2, <2>1, <2>2, <2>3, <2>4 DEF IsBehindCoarse
<1>5. CASE e.op \in ProlOps
  <2>1. CASE e.smooth
    <3>1. t = <<Do("return")>>
      BY <1>2, <1>5, <2>1 DEF IsBehind
    <3> QED
      BY <3>1 DEF IsPlan, IsBehind, IsPart, IsCounted, Do, RestOps, ProlOps
  <2>2. CASE ~e.smooth
    <3>1. t = ToPeakPlan(cycle, e.lvl) /\ e.lvl < LastLevel(p) /\ cycle # "V" /\ (cycle = "F" => Top < e.lvl)
          /\ (cycle = "W" => CountsFrom(p, c, e.lvl))
      BY <1>2, <1>5, <2>2 DEF IsBehind, IsPart, IsCounted
    <3>2. t # <<>> /\ Head(t) = DoPeak(e.lvl) /\ Tail(t) = PeakPlan(cycle, e.lvl)
      BY <3>1 DEF ToPeakPlan, PeakPlan
    <3> QED
      BY <3>1, <3>2 DEF IsPlan, IsBehind, IsPart, IsCounted, DoPeak, RestOps, ProlOps
  <2> QED
    BY <2>1, <2>2
<1>6. CASE e.op = "peak"
  <2>1. t = PeakPlan(cycle, e.i) /\ e.i < LastLevel(p) /\ cycle # "V" /\ (cycle = "F" => Top < e.i)
        /\ (cycle = "W" => CountsFrom(p, c, e.i))
    BY <1>2, <1>6 DEF IsBehind, IsPart, IsCounted
  <2>2. t # <<>> /\ Head(t) = DoRest(e.i, FALSE)
    BY <2>1 DEF PeakPlan
  <2>3. IsPart(p, cycle, Head(t)) /\ (cycle = "W" => IsCounted(p, Head(t), c))
    BY <1>1, <1>2, <1>6, <2>1, <2>2 DEF IsPart, IsCounted, DoRest, RestOps, ProlOps
  <2>4. IsBehind(p, cycle, Head(t), Tail(t))
    <3>1. Tail(t) = BehindRest(p, cycle, Head(t))
      BY <1>2, <2>1, <2>2 DEF BehindRest, PeakPlan, DoRest
    <3> QED
      BY <2>2, <3>1 DEF IsBehind, DoRest, RestOps, ProlOps
  <2> QED
    BY <2>2, <2>3, <2>4 DEF IsPlan
<1> QED
  BY <1>3, <1>4, <1>5, <1>6
\* What is behind a head, by its kind.
LEMMA TailOfRest ==
  ASSUME NEW p, NEW cycle, NEW e, NEW t, NEW c, IsHead(p, cycle, e, t, c), e.op \in RestOps
  PROVE  /\ cycle = "V" => Head(t).op = "coarse"
         /\ cycle = "F" => Head(t).op = "floop" /\ Head(t).i = (IF e.smooth THEN LastLevel(p) ELSE e.lvl) - 1
         /\ cycle = "W" => /\ Head(t).op = "coarse"
                           /\ Head(Tail(t)).op = IF e.smooth THEN "wstart" ELSE "wloop"
<1>1. t = BehindRest(p, cycle, e) /\ cycle \in {"V", "F", "W"}
  BY HeadIs DEF IsBehind
<1>2. CASE cycle = "V"
  <2>1. t = <<Do("coarse"), DoProl(p, Top, TRUE), Do("return")>>
    BY <1>1, <1>2 DEF BehindRest
  <2>2. Head(t) = Do("coarse")
    BY <2>1, TupleOf3
  <2> QED
    BY <1>2, <2>2 DEF Do
<1>3. CASE cycle = "F"
  <2>1. t = <<DoFLoop((IF e.smooth THEN LastLevel(p) ELSE e.lvl) - 1)>>
    BY <1>1, <1>3 DEF BehindRest
  <2> QED
    BY <1>3, <2>1 DEF DoFLoop
<1>4. CASE cycle = "W"
  <2>1. t = <<Do("coarse"), Do(IF e.smooth THEN "wstart" ELSE "wloop")>>
    BY <1>1, <1>4 DEF BehindRest
  <2>2. Head(t) = Do("coarse") /\ Head(Tail(t)) = Do(IF e.smooth THEN "wstart" ELSE "wloop")
    BY <2>1, TupleOf2, TupleOf1
  <2>3. Head(t).op = "coarse" /\ Head(Tail(t)).op = IF e.smooth THEN "wstart" ELSE "wloop"
    <3>1. \A x : Do(x).op = x
      BY DEF Do
    <3> QED
      BY <2>2, <3>1, Zenon
  <2> QED
    BY <1>4, <2>3
<1> QED
  BY <1>1, <1>2, <1>3, <1>4

ComesAfterCoarse(p, cycle, f) ==
  /\ cycle \in {"V", "F"} => /\ f.op = "prol" /\ f.i = LastLevel(p) /\ f.lvl \in Nat /\ Top <= f.lvl
                             /\ f.smooth \in BOOLEAN
                             /\ f.smooth => f.lvl = Top
                             /\ ~f.smooth => Top < f.lvl /\ f.lvl < LastLevel(p)
  /\ cycle = "V" => f.smooth
  /\ cycle = "W" => f.op \in {"wstart", "wloop"}

LEMMA TailOfCoarse ==
  ASSUME NEW p, NEW cycle, NEW e, NEW t, NEW c, IsHead(p, cycle, e, t, c), e.op = "coarse"
  PROVE  ComesAfterCoarse(p, cycle, Head(t))
<1> DEFINE f == Head(t)
<1> SUFFICES ComesAfterCoarse(p, cycle, f)
  OBVIOUS
<1>1. IsBehindCoarse(p, cycle, t) /\ cycle \in {"V", "F", "W"} /\ Top \in Nat /\ LastLevel(p) \in Nat
  BY HeadIs, LevelOfFacts DEF IsBehind
<1>2. CASE t = <<DoProl(p, Top, TRUE), Do("return")>> /\ cycle \in {"V", "F"}
  <2>1. f = DoProl(p, Top, TRUE)
    BY <1>2, TupleOf2
  <2>2. f.op = "prol" /\ f.i = LastLevel(p) /\ f.lvl = Top /\ f.smooth = TRUE
    BY <2>1 DEF DoProl
  <2>3. f.smooth \in BOOLEAN /\ f.smooth
    BY <2>2
  <2> HIDE DEF f
  <2> QED
    BY <1>1, <1>2, <2>2, <2>3 DEF ComesAfterCoarse
<1>3. CASE cycle = "F" /\ \E l \in Top + 1 .. LastLevel(p) - 1 :
             t = <<DoProl(p, l, FALSE), DoPeak(l), DoRest(l, FALSE), DoFLoop(l - 1)>>
  <2>1. PICK l \in Top + 1 .. LastLevel(p) - 1 :
             t = <<DoProl(p, l, FALSE), DoPeak(l), DoRest(l, FALSE), DoFLoop(l - 1)>>
    BY <1>3
  <2>2. \A a, b, d, g : t = <<a, b, d, g>> => f = a
    BY TupleOf4
  <2>3. f = DoProl(p, l, FALSE)
    BY <2>1, <2>2, Zenon
  <2>4. f.op = "prol" /\ f.i = LastLevel(p) /\ f.lvl = l /\ f.smooth = FALSE
    BY <2>3 DEF DoProl
  <2>5. f.smooth \in BOOLEAN /\ ~f.smooth
    BY <2>4
  <2>6. l \in Nat /\ Top < l /\ l < LastLevel(p)
    BY <1>1
  <2> HIDE DEF f
  <2> QED
    BY <1>1, <1>3, <2>4, <2>5, <2>6 DEF ComesAfterCoarse
<1>4. CASE cycle = "W" /\ (t = <<Do("wstart")>> \/ t = <<Do("wloop")>>)
  <2>1. f = Do("wstart") \/ f = Do("wloop")
    BY <1>4, TupleOf1
  <2>2. f.op \in {"wstart", "wloop"}
    BY <2>1 DEF Do
  <2> HIDE DEF f
  <2> QED
    BY <1>4, <2>2 DEF ComesAfterCoarse
<1> QED
  BY <1>1, <1>2, <1>3, <1>4 DEF IsBehindCoarse

LEMMA TailOfProl ==
  ASSUME NEW p, NEW cycle, NEW e, NEW t, NEW c, IsHead(p, cycle, e, t, c), e.op \in ProlOps
  PROVE  /\ e.smooth => Head(t).op = "return" /\ e.lvl = Top
         /\ ~e.smooth => Head(t).op = "peak" /\ Head(t).i = e.lvl /\ cycle # "V" /\ e.lvl < LastLevel(p)
<1>1. t = (IF e.smooth THEN <<Do("return")>> ELSE ToPeakPlan(cycle, e.lvl)) /\ e.smooth \in BOOLEAN /\ IsPart(p, cycle, e)
  BY HeadIs DEF IsBehind
<1>2. CASE e.smooth
  BY <1>1, <1>2 DEF Do, IsPart
<1>3. CASE ~e.smooth
  <2>1. Head(t) = DoPeak(e.lvl)
    BY <1>1, <1>3, TupleOf3, TupleOf4 DEF ToPeakPlan
  <2> QED
    BY <1>1, <1>3, <2>1 DEF DoPeak, IsPart
<1> QED
  BY <1>1, <1>2, <1>3

ComesAfterPeak(p, cycle, e, c, f) ==
  /\ f.op = "rest" /\ f.i = e.i /\ f.lvl = e.i /\ f.smooth = FALSE
  /\ cycle # "V" /\ e.i < LastLevel(p) /\ (cycle = "W" => c[e.i] = 1)

LEMMA TailOfPeak ==
  ASSUME NEW p, NEW cycle, NEW e, NEW t, NEW c, IsHead(p, cycle, e, t, c), e.op = "peak"
  PROVE  ComesAfterPeak(p, cycle, e, c, Head(t))
<1>1. t = PeakPlan(cycle, e.i) /\ IsPart(p, cycle, e) /\ (cycle = "W" => IsCounted(p, e, c))
  BY HeadIs DEF IsBehind
<1>2. Head(t) = DoRest(e.i, FALSE)
  BY <1>1 DEF PeakPlan
<1> QED
  BY <1>1, <1>2 DEF ComesAfterPeak, DoRest, IsPart, IsCounted, CountsFrom

\* The classes of the levels stay the same ...
SameClasses(p, cycle, e, t, c, f, u, d) ==
  \A l : LevelOf(p, l) => ClassOf(p, cycle, f, u, d, l) = ClassOf(p, cycle, e, t, c, l)

\* ... when the restriction is done,
LEMMA RestEnds ==
  ASSUME NEW p, NEW cycle, NEW e, NEW t, NEW c, IsHead(p, cycle, e, t, c),
         e.op \in RestOps, \A l : LevelOf(p, l) => l <= e.i
  PROVE  SameClasses(p, cycle, e, t, c, Head(t), Tail(t), c)
<1> SUFFICES ASSUME NEW l, LevelOf(p, l)
             PROVE  ClassOf(p, cycle, Head(t), Tail(t), c, l) = ClassOf(p, cycle, e, t, c, l)
  BY DEF SameClasses
<1>1. /\ l \in Nat /\ l <= e.i /\ e.i \in Nat /\ cycle \in {"V", "F", "W"} /\ LastLevel(p) \in Nat
      /\ e.smooth \in BOOLEAN /\ e.lvl \in Nat
  BY HeadIs, LevelOfFacts
<1>2. ClassOf(p, cycle, e, t, c, l) = Visit(p, cycle, e, t, c, l)
  BY <1>1 DEF ClassOf, RestOps, ProlOps
<1> DEFINE f == Head(t) u == Tail(t)
<1>3. ClassOf(p, cycle, f, u, c, l) = Visit(p, cycle, f, u, c, l)
  <2>1. f.op \in {"coarse", "floop"}
    BY <1>1, TailOfRest
  <2> HIDE DEF f, u
  <2> QED
    BY <2>1 DEF ClassOf, RestOps, ProlOps
<1>4. IsSecond(p, cycle, f, u, c, l) <=> IsSecond(p, cycle, e, t, c, l)
  <2>1. CASE cycle = "V"
    BY <2>1 DEF IsSecond
  <2>2. CASE cycle = "F"
    <3>1. f.op = "floop" /\ f.i = (IF e.smooth THEN LastLevel(p) ELSE e.lvl) - 1
      BY <2>2, TailOfRest
    <3>2. FSecond(p, f, u) = FSecond(p, e, t)
      <4> HIDE DEF f, u
      <4>1. FSecond(p, f, u) = f.i + 1
        BY <3>1 DEF FSecond, RestOps, ProlOps
      <4> QED
        BY <1>1, <3>1, <4>1 DEF FSecond, RestOps, ProlOps
    <3> QED
      BY <2>2, <3>2 DEF IsSecond
  <2>3. CASE cycle = "W"
    <3>1. f.op = "coarse" /\ Head(u).op = IF e.smooth THEN "wstart" ELSE "wloop"
      BY <2>3, TailOfRest
    <3> HIDE DEF f, u
    <3>2. WSecond(f, u, c, l) <=> WSecond(e, t, c, l)
      BY <1>1, <3>1 DEF WSecond, RestOps, ProlOps
    <3> QED
      BY <2>3, <3>2 DEF IsSecond
  <2> QED
    BY <1>1, <2>1, <2>2, <2>3
<1> QED
  BY <1>2, <1>3, <1>4 DEF Visit

\* ... or when the coarse level is, except for the coarse level;
LEMMA CoarseEnds ==
  ASSUME NEW p, NEW cycle, NEW e, NEW t, NEW c, IsHead(p, cycle, e, t, c), e.op = "coarse", NEW l, LevelOf(p, l)
  PROVE  /\ l # Crs => ClassOf(p, cycle, Head(t), Tail(t), c, l) = ClassOf(p, cycle, e, t, c, l)
         /\ l = Crs => ClassOf(p, cycle, e, t, c, l) = "first" /\ ClassOf(p, cycle, Head(t), Tail(t), c, l) = "done"
<1>1. /\ l \in Nat /\ cycle \in {"V", "F", "W"} /\ LastLevel(p) \in Nat /\ l <= LastLevel(p) /\ Top \in Nat
      /\ l = LastLevel(p) => l = Crs
      /\ l = Crs => LastLevel(p) = Crs
  <2>1. l = Crs => p \in Members(Crs)
    BY DEF LevelOf
  <2> QED
    BY <2>1, HeadIs, LevelOfFacts
<1>2. ClassOf(p, cycle, e, t, c, l) = Visit(p, cycle, e, t, c, l)
  BY DEF ClassOf, RestOps, ProlOps
<1> DEFINE f == Head(t) u == Tail(t)
<1>3. l = Crs => ClassOf(p, cycle, e, t, c, l) = "first"
  BY <1>1, <1>2 DEF Visit, IsSecond
<1>4. CASE cycle \in {"V", "F"}
  <2>1. /\ f.op = "prol" /\ f.i = LastLevel(p) /\ f.lvl \in Nat /\ f.smooth \in BOOLEAN
        /\ ~f.smooth => f.lvl < LastLevel(p)
    BY <1>1, <1>4, TailOfCoarse DEF ComesAfterCoarse
  <2>2. ASSUME l = Crs PROVE ClassOf(p, cycle, f, u, c, l) = "done"
    <3> HIDE DEF f, u
    <3> QED
      BY <1>1, <2>1, <2>2 DEF ClassOf, RestOps, ProlOps
  <2>3. ASSUME l # Crs PROVE ClassOf(p, cycle, f, u, c, l) = Visit(p, cycle, f, u, c, l)
    <3> HIDE DEF f, u
    <3> QED
      BY <1>1, <2>1, <2>3 DEF ClassOf, RestOps, ProlOps
  <2>4. IsSecond(p, cycle, f, u, c, l) <=> IsSecond(p, cycle, e, t, c, l)
    <3>1. FSecond(p, e, t) = f.lvl + 1
      BY DEF FSecond, RestOps, ProlOps
    <3>2. FSecond(p, f, u) = f.lvl + 1
      <4> HIDE DEF f, u
      <4> QED
        BY <2>1 DEF FSecond, RestOps, ProlOps
    <3> QED
      BY <1>4, <3>1, <3>2 DEF IsSecond
  <2> QED
    BY <1>2, <1>3, <2>2, <2>3, <2>4 DEF Visit
<1>5. CASE cycle = "W"
  <2>1. f.op \in {"wstart", "wloop"}
    BY <1>5, TailOfCoarse DEF ComesAfterCoarse
  <2>2. l = Crs => ClassOf(p, cycle, f, u, c, l) = "done"
    <3> HIDE DEF f, u
    <3> QED
      BY <2>1 DEF ClassOf, RestOps, ProlOps
  <2>3. l # Crs => ClassOf(p, cycle, f, u, c, l) = Visit(p, cycle, f, u, c, l)
    <3> HIDE DEF f, u
    <3> QED
      BY <2>1 DEF ClassOf, RestOps, ProlOps
  <2>4. IsSecond(p, cycle, f, u, c, l) <=> IsSecond(p, cycle, e, t, c, l)
    <3>1. WSecond(e, t, c, l) <=> f.op = "wloop" /\ c[l] = 1
      BY DEF WSecond, RestOps, ProlOps
    <3>2. WSecond(f, u, c, l) <=> f.op = "wloop" /\ c[l] = 1
      <4> HIDE DEF f, u
      <4> QED
        BY <2>1 DEF WSecond, RestOps, ProlOps
    <3> QED
      BY <1>5, <3>1, <3>2 DEF IsSecond
  <2> QED
    BY <1>2, <1>3, <2>2, <2>3, <2>4 DEF Visit
<1> QED
  BY <1>1, <1>4, <1>5
\* or when the F-cycle goes on,
LEMMA FGoesOn ==
  ASSUME NEW p, NEW cycle, NEW e, NEW t, NEW c, IsHead(p, cycle, e, t, c), e.op = "floop",
         NEW s, s = FCalls(p, e.i)
  PROVE  /\ s # <<>> /\ IsPlan(p, cycle, Head(s), Tail(s), c)
         /\ SameClasses(p, cycle, e, t, c, Head(s), Tail(s), c)
<1>1. /\ cycle = "F" /\ e.i \in Int /\ LastLevel(p) \in Nat /\ Top \in Nat /\ Top <= LastLevel(p)
      /\ e.i = LastLevel(p) - 1 \/ (Top <= e.i /\ e.i < LastLevel(p))
  BY HeadIs, LevelOfFacts DEF IsPart
<1> DEFINE f == Head(s) u == Tail(s) g == Head(u)
<1>2. /\ s # <<>> /\ f = Do("coarse") /\ IsBehindCoarse(p, cycle, u)
      /\ g.lvl = IF e.i > Top THEN e.i ELSE Top
  <2>1. CASE e.i > Top
    <3>1. s = <<Do("coarse"), DoProl(p, e.i, FALSE), DoPeak(e.i), DoRest(e.i, FALSE), DoFLoop(e.i - 1)>>
      BY <2>1 DEF FCalls, FPeak
    <3>2. \A a, b, d, g1, h : s = <<a, b, d, g1, h>> => s # <<>> /\ Head(s) = a /\ Tail(s) = <<b, d, g1, h>>
      BY TupleOf5
    <3>3. /\ s # <<>> /\ f = Do("coarse")
          /\ u = <<DoProl(p, e.i, FALSE), DoPeak(e.i), DoRest(e.i, FALSE), DoFLoop(e.i - 1)>>
      BY <3>1, <3>2, Zenon
    <3> HIDE DEF u
    <3>4. e.i \in Top + 1 .. LastLevel(p) - 1
      BY <1>1, <2>1
    <3>5. IsBehindCoarse(p, cycle, u)
      BY <1>1, <3>3, <3>4 DEF IsBehindCoarse
    <3>6. \A a, b, d, g1 : u = <<a, b, d, g1>> => Head(u) = a
      BY TupleOf4
    <3>7. g = DoProl(p, e.i, FALSE)
      BY <3>3, <3>6, Zenon
    <3>8. g.lvl = e.i
      BY <3>7 DEF DoProl
    <3> HIDE DEF f, g
    <3> QED
      BY <2>1, <3>3, <3>5, <3>8
  <2>2. CASE ~(e.i > Top)
    <3>1. s = <<Do("coarse"), DoProl(p, Top, TRUE), Do("return")>>
      BY <2>2 DEF FCalls, FEnd
    <3>2. s # <<>> /\ f = Do("coarse") /\ u = <<DoProl(p, Top, TRUE), Do("return")>>
      <4>1. \A a, b, d : s = <<a, b, d>> => s # <<>> /\ Head(s) = a /\ Tail(s) = <<b, d>>
        BY TupleOf3
      <4> QED
        BY <3>1, <4>1, Zenon
    <3> HIDE DEF u
    <3>3. IsBehindCoarse(p, cycle, u)
      BY <1>1, <3>2 DEF IsBehindCoarse
    <3>4. g = DoProl(p, Top, TRUE)
      BY <3>2, TupleOf2
    <3>5. g.lvl = Top
      BY <3>4 DEF DoProl
    <3> HIDE DEF f, g
    <3> QED
      BY <2>2, <3>2, <3>3, <3>5
  <2> QED
    BY <2>1, <2>2
<1>3. f.op = "coarse"
  BY <1>2 DEF Do
<1>4. \A l : LevelOf(p, l) => ClassOf(p, cycle, f, u, c, l) = ClassOf(p, cycle, e, t, c, l)
  <2> SUFFICES ASSUME NEW l, LevelOf(p, l) PROVE ClassOf(p, cycle, f, u, c, l) = ClassOf(p, cycle, e, t, c, l)
    OBVIOUS
  <2>1. l \in Nat /\ Top <= l
    BY HeadIs, LevelOfFacts
  <2>2. ClassOf(p, cycle, e, t, c, l) = Visit(p, cycle, e, t, c, l)
    BY DEF ClassOf, RestOps, ProlOps
  <2>3. FSecond(p, e, t) = e.i + 1
    BY DEF FSecond, RestOps, ProlOps
  <2> HIDE DEF f, u
  <2>4. ClassOf(p, cycle, f, u, c, l) = Visit(p, cycle, f, u, c, l)
    BY <1>3 DEF ClassOf, RestOps, ProlOps
  <2>5. FSecond(p, f, u) = g.lvl + 1
    BY <1>3 DEF FSecond, RestOps, ProlOps
  <2> HIDE DEF g
  <2>6. IsSecond(p, cycle, f, u, c, l) <=> IsSecond(p, cycle, e, t, c, l)
    BY <1>1, <1>2, <2>1, <2>3, <2>5 DEF IsSecond
  <2> QED
    BY <2>2, <2>4, <2>6 DEF Visit
<1>5. IsPlan(p, cycle, f, u, c)
  <2> HIDE DEF f, u, g
  <2> QED
    BY <1>1, <1>2, <1>3 DEF IsPlan, IsBehind, IsPart, RestOps, ProlOps
<1> QED
  BY <1>2, <1>4, <1>5 DEF SameClasses

\* or the W-cycle starts: no level has been left for the second time,
LEMMA WStarts ==
  ASSUME NEW p, NEW cycle, NEW e, NEW t, NEW c, IsHead(p, cycle, e, t, c), e.op = "wstart",
         NEW d, \A l \in Level : l < LastLevel(p) => d[l] = 0
  PROVE  /\ IsPlan(p, cycle, Do("wloop"), <<>>, d)
         /\ SameClasses(p, cycle, e, t, c, Do("wloop"), <<>>, d)
<1>1. cycle = "W"
  BY HeadIs DEF IsPart
<1> DEFINE f == Do("wloop")
<1>2. f.op = "wloop"
  BY DEF Do
<1> HIDE DEF f
<1>3. IsPlan(p, cycle, f, <<>>, d)
  BY <1>1, <1>2 DEF IsPlan, IsBehind, IsPart, IsCounted, RestOps, ProlOps
<1>4. ASSUME NEW l, LevelOf(p, l) PROVE ClassOf(p, cycle, f, <<>>, d, l) = ClassOf(p, cycle, e, t, c, l)
  <2>1. ~WSecond(e, t, c, l)
    BY DEF WSecond, RestOps, ProlOps
  <2>2. l < LastLevel(p) => ~WSecond(f, <<>>, d, l)
    BY <1>2, <1>4 DEF WSecond, RestOps, ProlOps, LevelOf
  <2>3. Visit(p, cycle, f, <<>>, d, l) = Visit(p, cycle, e, t, c, l)
    BY <1>1, <2>1, <2>2 DEF Visit, IsSecond
  <2> QED
    BY <1>2, <2>3 DEF ClassOf, RestOps, ProlOps
<1> QED
  BY <1>3, <1>4 DEF SameClasses, f

\* or it goes up to the peak level, the coarsest one that has not been left for the
\* second time,
LEMMA WGoesOn ==
  ASSUME NEW p, NEW cycle, NEW e, NEW t, NEW c, IsHead(p, cycle, e, t, c), e.op = "wloop",
         NEW peak \in Level, peak < LastLevel(p), c[peak] = 0,
         \A l \in Level : peak < l /\ l < LastLevel(p) => c[l] = 1,
         NEW s, s = WCalls(p, peak), NEW d, d = StepCounters(c, p, peak)
  PROVE  /\ s # <<>> /\ IsPlan(p, cycle, Head(s), Tail(s), d)
         /\ SameClasses(p, cycle, e, t, c, Head(s), Tail(s), d)
<1>1. cycle = "W" /\ LastLevel(p) \in Nat /\ peak \in Nat /\ peak <= LastLevel(p) /\ Top <= peak
  BY HeadIs, LevelOfFacts, LevelFacts DEF IsPart
<1> DEFINE f == Head(s) u == Tail(s)
<1>2. /\ s # <<>> /\ f = DoProl(p, peak, FALSE)
      /\ u = <<DoPeak(peak), DoRest(peak, FALSE), Do("coarse"), Do("wloop")>>
  <2>1. s = <<DoProl(p, peak, FALSE), DoPeak(peak), DoRest(peak, FALSE), Do("coarse"), Do("wloop")>>
    BY DEF WCalls
  <2>2. \A a, b, x, y, z : s = <<a, b, x, y, z>> => s # <<>> /\ Head(s) = a /\ Tail(s) = <<b, x, y, z>>
    BY TupleOf5
  <2> QED
    BY <2>1, <2>2, Zenon
<1>3. f.op = "prol" /\ f.lvl = peak /\ f.i = LastLevel(p) /\ f.smooth = FALSE
  BY <1>2 DEF DoProl
<1> HIDE DEF f, u
<1>4. /\ \A l \in Level : l < peak => d[l] = c[l]
      /\ d[peak] = 1
      /\ \A l \in Level : peak < l /\ l < LastLevel(p) => d[l] = 0
  BY <1>1, LevelFacts DEF StepCounters
<1>5. IsPlan(p, cycle, f, u, d)
  <2>1. u = ToPeakPlan(cycle, f.lvl)
    BY <1>1, <1>2, <1>3 DEF ToPeakPlan
  <2> QED
    BY <1>1, <1>3, <1>4, <2>1 DEF IsPlan, IsBehind, IsPart, IsCounted, CountsFrom, RestOps, ProlOps
<1>6. ASSUME NEW l, LevelOf(p, l) PROVE ClassOf(p, cycle, f, u, d, l) = ClassOf(p, cycle, e, t, c, l)
  <2>1. /\ l \in Nat /\ l \in Level /\ l <= LastLevel(p)
        /\ l = Crs <=> l = LastLevel(p)
    <3>1. l = Crs => p \in Members(Crs)
      BY <1>6 DEF LevelOf
    <3> QED
      BY <1>6, <3>1, HeadIs, LevelOfFacts
  <2>2. l < LastLevel(p) => (WSecond(f, u, d, l) <=> WSecond(e, t, c, l))
    <3>1. WSecond(e, t, c, l) <=> c[l] = 1
      BY DEF WSecond, RestOps, ProlOps
    <3>2. WSecond(f, u, d, l) <=> IF l < peak THEN d[l] = 1 ELSE l > peak
      BY <1>3 DEF WSecond, RestOps, ProlOps
    <3> QED
      BY <1>1, <1>4, <2>1, <3>1, <3>2
  <2>3. Visit(p, cycle, f, u, d, l) = Visit(p, cycle, e, t, c, l)
    BY <1>1, <2>2 DEF Visit, IsSecond
  <2> QED
    BY <1>1, <1>3, <2>1, <2>3 DEF ClassOf, RestOps, ProlOps
<1> QED
  BY <1>2, <1>5, <1>6 DEF SameClasses, f, u

\* or it ends,
LEMMA WEnds ==
  ASSUME NEW p, NEW cycle, NEW e, NEW t, NEW c, IsHead(p, cycle, e, t, c), e.op = "wloop",
         \A l \in Level : l < LastLevel(p) => c[l] = 1,
         NEW s, s = <<DoProl(p, Top, TRUE), Do("return")>>
  PROVE  /\ s # <<>> /\ IsPlan(p, cycle, Head(s), Tail(s), c)
         /\ SameClasses(p, cycle, e, t, c, Head(s), Tail(s), c)
<1>1. cycle = "W" /\ LastLevel(p) \in Nat /\ Top <= LastLevel(p) /\ Top \in Nat
  BY HeadIs, LevelOfFacts DEF IsPart
<1> DEFINE f == Head(s) u == Tail(s)
<1>2. s # <<>> /\ f = DoProl(p, Top, TRUE) /\ u = <<Do("return")>>
  BY TupleOf2
<1>3. f.op = "prol" /\ f.lvl = Top /\ f.i = LastLevel(p) /\ f.smooth = TRUE
  BY <1>2 DEF DoProl
<1> HIDE DEF f, u
<1>4. IsPlan(p, cycle, f, u, c)
  <2>1. f.smooth /\ f.op \notin {"rest", "transfer", "coarse", "peak", "floop", "wstart", "wloop"}
    BY <1>3
  <2>2. IsBehind(p, cycle, f, u)
    BY <1>2, <2>1 DEF IsBehind, RestOps, ProlOps
  <2>3. IsPart(p, cycle, f) /\ IsCounted(p, f, c)
    BY <1>1, <1>3, <2>1 DEF IsPart, IsCounted, RestOps, ProlOps
  <2> QED
    BY <2>2, <2>3 DEF IsPlan
<1>5. ASSUME NEW l, LevelOf(p, l) PROVE ClassOf(p, cycle, f, u, c, l) = ClassOf(p, cycle, e, t, c, l)
  <2>1. /\ l \in Nat /\ l \in Level /\ l <= LastLevel(p) /\ Top <= l
        /\ l = Crs <=> l = LastLevel(p)
    <3>1. l = Crs => p \in Members(Crs)
      BY <1>5 DEF LevelOf
    <3> QED
      BY <1>5, <3>1, HeadIs, LevelOfFacts
  <2>2. l < LastLevel(p) => (WSecond(f, u, c, l) <=> WSecond(e, t, c, l))
    <3>1. WSecond(e, t, c, l) <=> c[l] = 1
      BY DEF WSecond, RestOps, ProlOps
    <3>2. WSecond(f, u, c, l)
      BY <1>1, <1>3, <2>1 DEF WSecond, RestOps, ProlOps
    <3> QED
      BY <2>1, <3>1, <3>2
  <2>3. Visit(p, cycle, f, u, c, l) = Visit(p, cycle, e, t, c, l)
    BY <1>1, <2>2 DEF Visit, IsSecond
  <2> QED
    BY <1>1, <1>3, <2>1, <2>3 DEF ClassOf, RestOps, ProlOps
<1> QED
  BY <1>2, <1>4, <1>5 DEF SameClasses, f, u
\* or when the way up to a peak level, or to the top, has ended;
LEMMA ProlEnds ==
  ASSUME NEW p, NEW cycle, NEW e, NEW t, NEW c, IsHead(p, cycle, e, t, c), e.op \in ProlOps, e.i = e.lvl
  PROVE  SameClasses(p, cycle, e, t, c, Head(t), Tail(t), c)
<1>1. /\ e.lvl \in Nat /\ e.i = e.lvl /\ e.smooth \in BOOLEAN /\ cycle \in {"V", "F", "W"}
      /\ Top \in Nat /\ LastLevel(p) \in Nat /\ Top <= e.lvl
  BY HeadIs, LevelOfFacts
<1> DEFINE f == Head(t) u == Tail(t)
<1>2. /\ e.smooth => f.op = "return" /\ e.lvl = Top
      /\ ~e.smooth => f.op = "peak" /\ f.i = e.lvl /\ cycle # "V" /\ e.lvl < LastLevel(p)
  BY TailOfProl
<1> HIDE DEF f, u
<1> SUFFICES ASSUME NEW l, LevelOf(p, l)
             PROVE  ClassOf(p, cycle, f, u, c, l) = ClassOf(p, cycle, e, t, c, l)
  BY DEF SameClasses, f, u
<1>3. l \in Nat /\ Top <= l
  BY HeadIs, LevelOfFacts
<1>4. CASE e.smooth
  <2>1. ClassOf(p, cycle, f, u, c, l) = IF l = Top THEN "done" ELSE "off"
    BY <1>2, <1>4 DEF ClassOf, RestOps, ProlOps
  <2>2. ClassOf(p, cycle, e, t, c, l) = IF l = Top THEN "done" ELSE "off"
    BY <1>1, <1>2, <1>3, <1>4 DEF ClassOf, RestOps, ProlOps
  <2> QED
    BY <2>1, <2>2
<1>5. CASE ~e.smooth
  <2>1. ClassOf(p, cycle, f, u, c, l) =
          IF l > e.lvl THEN "off" ELSE IF l = e.lvl THEN "turn" ELSE Visit(p, cycle, f, u, c, l)
    BY <1>2, <1>5 DEF ClassOf, RestOps, ProlOps
  <2>2. ClassOf(p, cycle, e, t, c, l) =
          IF l > e.lvl THEN "off" ELSE IF l = e.lvl THEN "turn" ELSE Visit(p, cycle, e, t, c, l)
    BY <1>1, <1>3, <1>5 DEF ClassOf, RestOps, ProlOps
  <2>3. ASSUME l < e.lvl PROVE IsSecond(p, cycle, f, u, c, l) <=> IsSecond(p, cycle, e, t, c, l)
    <3>1. FSecond(p, f, u) = LastLevel(p)
      BY <1>2, <1>5 DEF FSecond, RestOps, ProlOps
    <3>2. FSecond(p, e, t) = e.lvl + 1
      BY DEF FSecond, RestOps, ProlOps
    <3>3. WSecond(f, u, c, l) <=> c[l] = 1
      BY <1>2, <1>5 DEF WSecond, RestOps, ProlOps
    <3>4. WSecond(e, t, c, l) <=> c[l] = 1
      BY <2>3 DEF WSecond, RestOps, ProlOps
    <3> QED
      BY <1>1, <1>3, <2>3, <3>1, <3>2, <3>3, <3>4 DEF IsSecond
  <2> QED
    BY <1>1, <1>3, <2>1, <2>2, <2>3 DEF Visit
<1> QED
  BY <1>1, <1>4, <1>5

\* the peak-smoother changes the class of the peak level,
LEMMA PeakEnds ==
  ASSUME NEW p, NEW cycle, NEW e, NEW t, NEW c, IsHead(p, cycle, e, t, c), e.op = "peak", NEW l, LevelOf(p, l)
  PROVE  /\ l # e.i => ClassOf(p, cycle, Head(t), Tail(t), c, l) = ClassOf(p, cycle, e, t, c, l)
         /\ l = e.i => ClassOf(p, cycle, e, t, c, l) = "turn" /\ ClassOf(p, cycle, Head(t), Tail(t), c, l) = "second"
<1>1. /\ e.i \in Nat /\ l \in Nat /\ LastLevel(p) \in Nat /\ cycle \in {"V", "F", "W"}
  BY HeadIs, LevelOfFacts
<1> DEFINE f == Head(t) u == Tail(t)
<1>2. /\ f.op = "rest" /\ f.i = e.i /\ f.lvl = e.i /\ f.smooth = FALSE
      /\ cycle # "V" /\ e.i < LastLevel(p) /\ (cycle = "W" => c[e.i] = 1)
  <2>1. ComesAfterPeak(p, cycle, e, c, f)
    BY TailOfPeak
  <2> HIDE DEF f
  <2> QED
    BY <2>1 DEF ComesAfterPeak
<1> HIDE DEF f, u
<1>3. ClassOf(p, cycle, e, t, c, l) =
          IF l > e.i THEN "off" ELSE IF l = e.i THEN "turn" ELSE Visit(p, cycle, e, t, c, l)
  BY DEF ClassOf, RestOps, ProlOps
<1>4. ClassOf(p, cycle, f, u, c, l) = IF l > e.i THEN "off" ELSE Visit(p, cycle, f, u, c, l)
  BY <1>2 DEF ClassOf, RestOps, ProlOps
<1>5. FSecond(p, f, u) = e.i /\ FSecond(p, e, t) = LastLevel(p)
  BY <1>2 DEF FSecond, RestOps, ProlOps
<1>6. (WSecond(f, u, c, l) <=> c[l] = 1) /\ (WSecond(e, t, c, l) <=> c[l] = 1)
  BY <1>2 DEF WSecond, RestOps, ProlOps
<1>7. l # e.i /\ l <= e.i => Visit(p, cycle, f, u, c, l) = Visit(p, cycle, e, t, c, l)
  BY <1>1, <1>2, <1>5, <1>6 DEF Visit, IsSecond
<1>8. l = e.i => Visit(p, cycle, f, u, c, l) = "second"
  BY <1>1, <1>2, <1>5, <1>6 DEF Visit, IsSecond
<1> QED
  <2>1. ClassOf(p, cycle, f, u, c, l) = ClassOf(p, cycle, e, t, c, l) \/ l = e.i
    BY <1>1, <1>3, <1>4, <1>7
  <2>2. l = e.i => ClassOf(p, cycle, e, t, c, l) = "turn" /\ ClassOf(p, cycle, f, u, c, l) = "second"
    BY <1>1, <1>3, <1>4, <1>8
  <2> QED
    BY <2>1, <2>2 DEF f, u

\* Going on with the loops.
GoneOn(e, op, i) == [op |-> op, lvl |-> e.lvl, smooth |-> e.smooth, i |-> i]

LEMMA GoesOnPlan ==
  ASSUME NEW p, NEW cycle, NEW e, NEW t, NEW c, IsHead(p, cycle, e, t, c), NEW op, NEW i,
         \/ e.op \in RestOps /\ op \in RestOps
         \/ e.op \in ProlOps /\ op \in ProlOps,
         i <= LastLevel(p), op = "transfer" => i < LastLevel(p)
  PROVE  IsPlan(p, cycle, GoneOn(e, op, i), t, c)
<1> DEFINE f == GoneOn(e, op, i)
<1>1. f.op = op /\ f.lvl = e.lvl /\ f.smooth = e.smooth /\ f.i = i
  BY DEF GoneOn
<1>2. IsBehind(p, cycle, e, t) /\ IsPart(p, cycle, e) /\ (cycle = "W" => IsCounted(p, e, c))
  BY HeadIs
<1>3. (f.op \in RestOps <=> e.op \in RestOps) /\ (f.op \in ProlOps <=> e.op \in ProlOps)
      /\ f.op \in RestOps \cup ProlOps /\ e.op \in RestOps \cup ProlOps
  BY <1>1 DEF RestOps, ProlOps
<1> HIDE DEF f
<1>4. f.op \notin {"coarse", "peak", "floop", "wstart", "wloop"}
  BY <1>3 DEF RestOps, ProlOps
<1>5. BehindRest(p, cycle, f) = BehindRest(p, cycle, e)
  BY <1>1 DEF BehindRest
<1>6. IsBehind(p, cycle, f, t)
  BY <1>1, <1>2, <1>3, <1>4, <1>5 DEF IsBehind
<1>7. IsPart(p, cycle, f)
  BY <1>1, <1>2, <1>3, <1>4 DEF IsPart
<1>8. cycle = "W" => IsCounted(p, f, c)
  BY <1>1, <1>2, <1>3, <1>4 DEF IsCounted
<1> QED
  BY <1>6, <1>7, <1>8 DEF IsPlan, f

\* It does not depend on which of the operations of the loop is next how often a level
\* has been visited.
LEMMA GoesOnVisit ==
  ASSUME NEW p, NEW cycle, NEW e, NEW t, NEW c, NEW op, NEW i, NEW l,
         \/ e.op \in RestOps /\ op \in RestOps
         \/ e.op \in ProlOps /\ op \in ProlOps
  PROVE  Visit(p, cycle, GoneOn(e, op, i), t, c, l) = Visit(p, cycle, e, t, c, l)
<1> DEFINE f == GoneOn(e, op, i)
<1>1. f.op = op /\ f.lvl = e.lvl /\ f.smooth = e.smooth
  BY DEF GoneOn
<1> HIDE DEF f
<1>2. FSecond(p, f, t) = FSecond(p, e, t) /\ (WSecond(f, t, c, l) <=> WSecond(e, t, c, l))
  BY <1>1 DEF FSecond, WSecond, RestOps, ProlOps
<1> QED
  BY <1>2 DEF Visit, IsSecond, f

\* The class of a level stays the same while it is restricted from it and prolongated to
\* it.
LEMMA GoesOnSame ==
  ASSUME NEW p, NEW cycle, NEW e, NEW t, NEW c, IsHead(p, cycle, e, t, c), NEW op,
         \/ e.op \in RestOps /\ op \in RestOps
         \/ e.op \in ProlOps /\ op \in ProlOps
  PROVE  SameClasses(p, cycle, e, t, c, GoneOn(e, op, e.i), t, c)
<1> DEFINE f == GoneOn(e, op, e.i)
<1>1. f.op = op /\ f.lvl = e.lvl /\ f.smooth = e.smooth /\ f.i = e.i
  BY DEF GoneOn
<1>2. \A l : Visit(p, cycle, f, t, c, l) = Visit(p, cycle, e, t, c, l)
  BY GoesOnVisit
<1> HIDE DEF f
<1>3. \A l : ClassOf(p, cycle, f, t, c, l) = ClassOf(p, cycle, e, t, c, l)
  BY <1>1, <1>2 DEF ClassOf, RestOps, ProlOps
<1> QED
  BY <1>3 DEF SameClasses, f

\* The restriction begins the next level's first visit.
LEMMA GoesDown ==
  ASSUME NEW p, NEW cycle, NEW e, NEW t, NEW c, IsHead(p, cycle, e, t, c), e.op = "transfer",
         NEW l, LevelOf(p, l)
  PROVE  LET f == GoneOn(e, "rest", e.i + 1)
         IN  /\ l # e.i + 1 => ClassOf(p, cycle, f, t, c, l) = ClassOf(p, cycle, e, t, c, l)
             /\ l = e.i + 1 => ClassOf(p, cycle, e, t, c, l) = "off" /\ ClassOf(p, cycle, f, t, c, l) = "first"
<1> DEFINE f == GoneOn(e, "rest", e.i + 1)
<1>0. e.op \in RestOps /\ "rest" \in RestOps
  BY DEF RestOps
<1>1. f.op = "rest" /\ f.lvl = e.lvl /\ f.smooth = e.smooth /\ f.i = e.i + 1
  BY DEF GoneOn
<1>2. Visit(p, cycle, f, t, c, l) = Visit(p, cycle, e, t, c, l)
  BY <1>0, GoesOnVisit
<1>3. /\ l \in Nat /\ e.i \in Nat /\ e.lvl \in Nat /\ e.lvl <= e.i /\ e.smooth \in BOOLEAN /\ LastLevel(p) \in Nat
      /\ cycle \in {"V", "F", "W"} /\ (cycle = "W" => IsCounted(p, e, c)) /\ l \in Level
  BY <1>0, HeadIs, LevelOfFacts
<1> HIDE DEF f
<1>4. ClassOf(p, cycle, f, t, c, l) = IF l > e.i + 1 THEN "off" ELSE Visit(p, cycle, e, t, c, l)
  BY <1>1, <1>2 DEF ClassOf, RestOps, ProlOps
<1>5. ClassOf(p, cycle, e, t, c, l) = IF l > e.i THEN "off" ELSE Visit(p, cycle, e, t, c, l)
  BY DEF ClassOf, RestOps, ProlOps
<1>6. l = e.i + 1 => Visit(p, cycle, e, t, c, l) = "first"
  <2> SUFFICES ASSUME l = e.i + 1, IsSecond(p, cycle, e, t, c, l) PROVE FALSE
    BY DEF Visit
  <2>1. l < LastLevel(p)
    BY DEF IsSecond
  <2>2. CASE cycle = "F" /\ l = FSecond(p, e, t)
    BY <1>3, <2>1, <2>2 DEF FSecond, RestOps, ProlOps
  <2>3. CASE cycle = "W" /\ WSecond(e, t, c, l)
    <3>1. ~e.smooth /\ c[l] = 1
      BY <2>3 DEF WSecond, RestOps, ProlOps
    <3>2. CountsFrom(p, c, e.lvl)
      BY <1>0, <1>3, <2>3, <3>1 DEF IsCounted
    <3> QED
      BY <1>3, <2>1, <3>1, <3>2 DEF CountsFrom
  <2> QED
    BY <2>2, <2>3 DEF IsSecond
<1> QED
  BY <1>3, <1>4, <1>5, <1>6 DEF f
\* On the way down, the levels that get the pre-smoother are those in their first visit.
LEMMA SmoothsAtFirst ==
  ASSUME NEW p, NEW cycle, NEW e, NEW t, NEW c, IsHead(p, cycle, e, t, c), e.op \in RestOps, e.i < LastLevel(p)
  PROVE  (e.smooth \/ e.i # e.lvl) <=> Visit(p, cycle, e, t, c, e.i) = "first"
<1>1. /\ e.i \in Nat /\ e.lvl \in Nat /\ e.lvl <= e.i /\ e.smooth \in BOOLEAN /\ LastLevel(p) \in Nat
      /\ cycle \in {"V", "F", "W"} /\ (cycle = "W" => IsCounted(p, e, c)) /\ IsPart(p, cycle, e) /\ e.i \in Level
  BY HeadIs, LevelOfFacts
<1>2. cycle = "F" => (e.i = FSecond(p, e, t) <=> ~e.smooth /\ e.i = e.lvl)
  BY <1>1 DEF FSecond, RestOps, ProlOps
<1>3. cycle = "W" => (WSecond(e, t, c, e.i) <=> ~e.smooth /\ e.i = e.lvl)
  <2> SUFFICES ASSUME cycle = "W", ~e.smooth PROVE c[e.i] = 1 <=> e.i = e.lvl
    BY DEF WSecond, RestOps, ProlOps
  <2>1. c[e.lvl] = 1 /\ \A l \in Level : e.lvl < l /\ l < LastLevel(p) => c[l] = 0
    BY <1>1 DEF IsCounted, CountsFrom
  <2> QED
    BY <1>1, <2>1
<1>4. cycle = "V" => e.smooth
  BY <1>1 DEF IsPart
<1> QED
  BY <1>1, <1>2, <1>3, <1>4 DEF Visit, IsSecond

\* Does a cycle of that kind visit level l twice?
Twice(kind, l) == kind = "W" \/ (kind = "F" /\ Top < l)

\* The kind of the cycle in which a plan is on level l: an F-cycle makes its second
\* visits by V-cycles.
KindOf(p, cycle, e, t, c, l) ==
  IF cycle = "F" /\ \E j \in Level : j < l /\ ClassOf(p, cycle, e, t, c, j) = "second" THEN "V" ELSE cycle

\* The prolongation leaves the next level, and has corrected level l after its first or
\* its second visit.
LEMMA GoesUp ==
  ASSUME NEW p, NEW cycle, NEW e, NEW t, NEW c, IsHead(p, cycle, e, t, c), e.op \in ProlOps,
         NEW j \in Level, e.i = j + 1, e.lvl <= j,
         NEW f, f = GoneOn(e, "prol", j)
  PROVE  /\ \A l : LevelOf(p, l) /\ l # j /\ l # j + 1 =>
                ClassOf(p, cycle, f, t, c, l) = ClassOf(p, cycle, e, t, c, l)
         /\ ClassOf(p, cycle, f, t, c, j + 1) = "off"
         /\ ClassOf(p, cycle, f, t, c, j) = IF j = e.lvl /\ ~e.smooth THEN "turn" ELSE "done"
         /\ ClassOf(p, cycle, e, t, c, j) = Visit(p, cycle, e, t, c, j)
         /\ LET kind == KindOf(p, cycle, e, t, c, j)
            IN  IF Visit(p, cycle, e, t, c, j) = "first"
                THEN j = e.lvl /\ ~e.smooth <=> Twice(kind, j)
                ELSE ~(j = e.lvl /\ ~e.smooth) /\ Twice(kind, j)
<1>0. "prol" \in ProlOps /\ "prol" \notin RestOps
  BY DEF ProlOps, RestOps
<1>1. f.op = "prol" /\ f.lvl = e.lvl /\ f.smooth = e.smooth /\ f.i = j
  BY DEF GoneOn
<1>2. \A l : Visit(p, cycle, f, t, c, l) = Visit(p, cycle, e, t, c, l)
  BY <1>0, GoesOnVisit
<1>3. /\ j \in Nat /\ e.lvl \in Nat /\ Top <= e.lvl /\ e.smooth \in BOOLEAN /\ LastLevel(p) \in Nat /\ j < LastLevel(p)
      /\ cycle \in {"V", "F", "W"} /\ IsPart(p, cycle, e) /\ (cycle = "W" => IsCounted(p, e, c)) /\ Top \in Nat
  BY HeadIs, LevelOfFacts, LevelFacts DEF IsPart
<1>4. \A l \in Level : ClassOf(p, cycle, f, t, c, l) =
                IF l > j THEN "off" ELSE IF l < j THEN Visit(p, cycle, e, t, c, l)
                ELSE IF l = e.lvl /\ ~e.smooth THEN "turn" ELSE "done"
  BY <1>0, <1>1, <1>2 DEF ClassOf, RestOps, ProlOps
<1>5. \A l \in Level : ClassOf(p, cycle, e, t, c, l) =
                IF l > j + 1 THEN "off" ELSE IF l < j + 1 THEN Visit(p, cycle, e, t, c, l)
                ELSE IF l = e.lvl /\ ~e.smooth THEN "turn" ELSE "done"
  BY <1>0, <1>1, <1>2 DEF ClassOf, RestOps, ProlOps
<1>6. \A l : LevelOf(p, l) /\ l # j /\ l # j + 1 =>
                ClassOf(p, cycle, f, t, c, l) = ClassOf(p, cycle, e, t, c, l)
  <2> TAKE l
  <2> HAVE LevelOf(p, l) /\ l # j /\ l # j + 1
  <2>1. l \in Level /\ l \in Nat
    BY HeadIs, LevelOfFacts
  <2> QED
    BY <1>3, <1>4, <1>5, <2>1
<1>7. ClassOf(p, cycle, f, t, c, j) = (IF j = e.lvl /\ ~e.smooth THEN "turn" ELSE "done")
      /\ ClassOf(p, cycle, e, t, c, j) = Visit(p, cycle, e, t, c, j)
  BY <1>3, <1>4, <1>5
<1>8. ClassOf(p, cycle, f, t, c, j + 1) = "off"
  BY <1>1, <1>3 DEF ClassOf, RestOps, ProlOps
<1> DEFINE kind == KindOf(p, cycle, e, t, c, j)
           second == Visit(p, cycle, e, t, c, j) # "first"
           turns == j = e.lvl /\ ~e.smooth
<1>9. IF second THEN ~turns /\ Twice(kind, j) ELSE turns <=> Twice(kind, j)
  <2>1. CASE cycle = "V"
    <3>1. kind = "V" /\ ~second /\ e.smooth
      BY <1>3, <2>1 DEF KindOf, Visit, IsSecond, IsPart
    <3> HIDE DEF kind
    <3> QED
      BY <3>1 DEF Twice
  <2>2. CASE cycle = "W"
    <3>1. kind = "W"
      BY <2>2 DEF KindOf
    <3>2. second <=> WSecond(e, t, c, j)
      BY <1>3, <2>2 DEF Visit, IsSecond
    <3>3. WSecond(e, t, c, j) <=> j > e.lvl \/ e.smooth
      BY <1>0, <1>3 DEF WSecond, RestOps, ProlOps
    <3> HIDE DEF kind
    <3> QED
      BY <1>3, <3>1, <3>2, <3>3 DEF Twice
  <2>3. CASE cycle = "F"
    <3>1. FSecond(p, e, t) = e.lvl + 1
      BY DEF FSecond, RestOps, ProlOps
    <3>2. \A l \in Level : l < LastLevel(p) => (Visit(p, cycle, e, t, c, l) = "second" <=> l = e.lvl + 1)
      BY <2>3, <3>1 DEF Visit, IsSecond
    <3>3. second <=> j = e.lvl + 1
      BY <1>3, <3>2 DEF Visit
    <3>4. kind = (IF \E l \in Level : l < j /\ l = e.lvl + 1 THEN "V" ELSE "F")
      <4>1. \A l \in Level : l < j => (ClassOf(p, cycle, e, t, c, l) = "second" <=> l = e.lvl + 1)
        <5> TAKE l \in Level
        <5> HAVE l < j
        <5>1. l \in Nat
          BY LevelFacts
        <5> QED
          BY <1>3, <1>5, <3>2, <5>1
      <4> QED
        BY <2>3, <4>1 DEF KindOf
    <3>5. e.lvl + 1 < j => e.lvl + 1 \in Level
      BY <1>3, LevelFacts
    <3>6. kind = (IF e.lvl + 1 < j THEN "V" ELSE "F")
      BY <3>4, <3>5
    <3>7. (e.smooth => e.lvl = Top) /\ (~e.smooth => Top < e.lvl)
      BY <1>3, <2>3 DEF IsPart
    <3> HIDE DEF kind, second
    <3> QED
      BY <1>3, <3>3, <3>6, <3>7 DEF Twice
  <2> QED
    BY <1>3, <2>1, <2>2, <2>3
<1> QED
  <2>1. IF Visit(p, cycle, e, t, c, j) = "first"
                THEN j = e.lvl /\ ~e.smooth <=> Twice(kind, j)
                ELSE ~(j = e.lvl /\ ~e.smooth) /\ Twice(kind, j)
    BY <1>9
  <2> QED
    BY <1>6, <1>7, <1>8, <2>1, Zenon

\* The plan of a call.
LEMMA CallPlan ==
  ASSUME NEW p \in Proc, NEW cycle \in Cycle, NEW s, s = CycleCalls(p, cycle), NEW c
  PROVE  /\ s # <<>> /\ IsPlan(p, cycle, Head(s), Tail(s), c)
         /\ Head(s) = DoRest(Top, TRUE)
         /\ \A l : LevelOf(p, l) => ClassOf(p, cycle, Head(s), Tail(s), c, l) = IF l = Top THEN "first" ELSE "off"
<1>1. /\ LastLevel(p) \in Nat /\ Top <= LastLevel(p) /\ Top \in Nat
  BY LevelOfFacts
<1> DEFINE f == Head(s) u == Tail(s)
<1>2. s # <<>> /\ f = DoRest(Top, TRUE) /\ u = BehindRest(p, cycle, f)
  <2>1. CASE cycle = "V"
    <3>1. s = <<DoRest(Top, TRUE), Do("coarse"), DoProl(p, Top, TRUE), Do("return")>>
      BY <2>1 DEF CycleCalls
    <3>2. \A a, b, d, g : s = <<a, b, d, g>> => s # <<>> /\ Head(s) = a /\ Tail(s) = <<b, d, g>>
      BY TupleOf4
    <3>3. s # <<>> /\ f = DoRest(Top, TRUE) /\ u = <<Do("coarse"), DoProl(p, Top, TRUE), Do("return")>>
      BY <3>1, <3>2, Zenon
    <3> HIDE DEF f, u
    <3> QED
      BY <2>1, <3>3 DEF BehindRest
  <2>2. CASE cycle = "F"
    <3>1. s = <<DoRest(Top, TRUE), DoFLoop(LastLevel(p) - 1)>>
      BY <2>2 DEF CycleCalls
    <3>2. s # <<>> /\ f = DoRest(Top, TRUE) /\ u = <<DoFLoop(LastLevel(p) - 1)>>
      BY <3>1, TupleOf2
    <3>3. f.smooth = TRUE
      BY <3>2 DEF DoRest
    <3> HIDE DEF f, u
    <3> QED
      BY <2>2, <3>2, <3>3 DEF BehindRest
  <2>3. CASE cycle = "W"
    <3>1. s = <<DoRest(Top, TRUE), Do("coarse"), Do("wstart")>>
      BY <2>3 DEF CycleCalls
    <3>2. \A a, b, d : s = <<a, b, d>> => s # <<>> /\ Head(s) = a /\ Tail(s) = <<b, d>>
      BY TupleOf3
    <3>3. s # <<>> /\ f = DoRest(Top, TRUE) /\ u = <<Do("coarse"), Do("wstart")>>
      BY <3>1, <3>2, Zenon
    <3>4. f.smooth = TRUE
      BY <3>3 DEF DoRest
    <3> HIDE DEF f, u
    <3> QED
      BY <2>3, <3>3, <3>4 DEF BehindRest
  <2> QED
    BY <2>1, <2>2, <2>3 DEF Cycle
<1>3. f.op = "rest" /\ f.lvl = Top /\ f.i = Top /\ f.smooth = TRUE
  BY <1>2 DEF DoRest
<1> HIDE DEF f, u
<1>4. IsPlan(p, cycle, f, u, c)
  <2>1. f.smooth /\ f.op \in RestOps /\ f.op \notin {"transfer", "prol", "split", "coarse", "peak", "floop", "wstart", "wloop"}
    BY <1>3 DEF RestOps
  <2>2. IsBehind(p, cycle, f, u)
    BY <1>2, <2>1 DEF IsBehind, ProlOps
  <2>3. IsPart(p, cycle, f) /\ IsCounted(p, f, c)
    BY <1>1, <1>3, <2>1 DEF IsPart, IsCounted, ProlOps
  <2> QED
    BY <2>2, <2>3 DEF IsPlan
<1>5. ASSUME NEW l, LevelOf(p, l) PROVE ClassOf(p, cycle, f, u, c, l) = IF l = Top THEN "first" ELSE "off"
  <2>1. l \in Nat /\ Top <= l /\ l <= LastLevel(p)
    BY <1>5, LevelOfFacts
  <2>2. FSecond(p, f, u) = LastLevel(p) /\ ~WSecond(f, u, c, l)
    BY <1>3 DEF FSecond, WSecond, RestOps, ProlOps
  <2>3. Visit(p, cycle, f, u, c, l) = "first"
    BY <1>1, <2>1, <2>2 DEF Visit, IsSecond
  <2> QED
    BY <1>1, <1>3, <2>1, <2>3 DEF ClassOf, RestOps, ProlOps
<1> QED
  BY <1>2, <1>4, <1>5 DEF f, u
----------------------------------------------------------------------------
(* The cycle by recursion.                                                 *)

\* A level's part in it, when f has that of the next level.
LevelCycle(f, adapt, l) ==
  [kind \in {"V", "F", "W"} |-> [b \in Vector |->
     IF l = Crs THEN Smoothed(CrsSolver, Crs, b) ELSE Cycled(adapt, l, kind, b, f[l + 1])]]

LEMMA CyclesExist ==
  ASSUME NEW adapt
  PROVE  \E f : f = [l \in Level |-> LevelCycle(f, adapt, l)]
<1> DEFINE T == {n \in Nat : \E f : DOMAIN f = Level /\ \A l \in Level : l >= Crs - n => f[l] = LevelCycle(f, adapt, l)}
<1>1. Crs \in Nat /\ Top \in Nat /\ Top <= Crs /\ Level = Top .. Crs
  BY LevelFacts
<1>2. \A f, g : \A l \in Level : (l < Crs => g[l + 1] = f[l + 1]) => LevelCycle(g, adapt, l) = LevelCycle(f, adapt, l)
  <2> TAKE f, g
  <2> TAKE l \in Level
  <2> HAVE l < Crs => g[l + 1] = f[l + 1]
  <2>1. CASE l = Crs
    BY <2>1 DEF LevelCycle
  <2>2. CASE l # Crs
    <3>1. g[l + 1] = f[l + 1]
      BY <1>1, <2>2
    <3> QED
      BY <3>1 DEF LevelCycle
  <2> QED
    BY <2>1, <2>2
<1>3. 0 \in T
  <2> DEFINE f == [l \in Level |-> LevelCycle(<<>>, adapt, l)]
  <2>1. DOMAIN f = Level /\ \A l \in Level : f[l] = LevelCycle(<<>>, adapt, l)
    OBVIOUS
  <2> HIDE DEF f
  <2>2. \A l \in Level : l >= Crs - 0 => f[l] = LevelCycle(f, adapt, l)
    <3> TAKE l \in Level
    <3> HAVE l >= Crs - 0
    <3>1. ~(l < Crs)
      BY <1>1
    <3> QED
      BY <1>2, <2>1, <3>1
  <2> QED
    BY <2>1, <2>2
<1>4. ASSUME NEW n \in T PROVE n + 1 \in T
  <2>1. PICK f : DOMAIN f = Level /\ \A l \in Level : l >= Crs - n => f[l] = LevelCycle(f, adapt, l)
    BY <1>4
  <2> DEFINE m == Crs - n - 1
             g == [l \in Level |-> IF l = m THEN LevelCycle(f, adapt, l) ELSE f[l]]
  <2>2. n \in Nat /\ m \in Int /\ m = Crs - (n + 1)
    BY <1>1
  <2>3. DOMAIN g = Level /\ \A l \in Level : g[l] = IF l = m THEN LevelCycle(f, adapt, l) ELSE f[l]
    OBVIOUS
  <2> HIDE DEF g, m
  <2>4. ASSUME NEW l \in Level, l >= Crs - (n + 1) PROVE g[l] = LevelCycle(g, adapt, l)
    <3>1. l \in Int /\ l >= m /\ (l # m => l >= Crs - n) /\ l + 1 # m /\ (l < Crs => l + 1 \in Level)
      BY <1>1, <2>2, <2>4
    <3>2. l < Crs => g[l + 1] = f[l + 1]
      BY <2>3, <3>1
    <3>3. LevelCycle(g, adapt, l) = LevelCycle(f, adapt, l)
      BY <1>2, <3>2
    <3> QED
      BY <2>1, <2>3, <3>1, <3>3
  <2>5. n + 1 \in Nat
    BY <2>2
  <2> QED
    BY <2>3, <2>4, <2>5
<1>5. T = Nat
  <2>1. T \in SUBSET Nat
    OBVIOUS
  <2> HIDE DEF T
  <2> QED
    BY <1>3, <1>4, <2>1, AllNumbers
<1>6. Crs \in T
  BY <1>1, <1>5
<1>7. PICK f : DOMAIN f = Level /\ \A l \in Level : l >= Crs - Crs => f[l] = LevelCycle(f, adapt, l)
  BY <1>6
<1>8. PICK g : g = [l \in Level |-> f[l]]
  OBVIOUS
<1>9. ASSUME NEW l \in Level PROVE f[l] = LevelCycle(g, adapt, l)
  <2>1. l >= Crs - Crs /\ (l < Crs => l + 1 \in Level)
    BY <1>1
  <2>2. l < Crs => g[l + 1] = f[l + 1]
    BY <1>8, <2>1
  <2> QED
    BY <1>2, <1>7, <2>1, <2>2
<1>10. g = [l \in Level |-> LevelCycle(g, adapt, l)]
  BY <1>8, <1>9
<1> QED
  BY <1>10

LEMMA CyclesAre ==
  ASSUME NEW adapt, NEW l \in Level, NEW kind \in Cycle, NEW b \in Vector
  PROVE  Cycles(adapt)[l][kind][b] =
           IF l = Crs THEN Smoothed(CrsSolver, Crs, b) ELSE Cycled(adapt, l, kind, b, Cycles(adapt)[l + 1])
<1>1. Cycles(adapt) = [j \in Level |-> LevelCycle(Cycles(adapt), adapt, j)]
  <2>1. \E f : f = [j \in Level |-> LevelCycle(f, adapt, j)]
    BY CyclesExist
  <2>2. Cycles(adapt) = CHOOSE f : f = [j \in Level |-> LevelCycle(f, adapt, j)]
    BY DEF Cycles, LevelCycle
  <2> QED
    BY <2>1, <2>2
<1> DEFINE f == Cycles(adapt)
<1> HIDE DEF f
<1>2. f[l] = LevelCycle(f, adapt, l)
  BY <1>1 DEF f
<1>3. f[l][kind][b] = IF l = Crs THEN Smoothed(CrsSolver, Crs, b) ELSE Cycled(adapt, l, kind, b, f[l + 1])
  BY <1>2 DEF LevelCycle, Cycle
<1> QED
  BY <1>3 DEF f

----------------------------------------------------------------------------
(* Only the entries of a level's processes matter on the level.            *)

Agree(l, x, y) == \A q \in Members(l) : x[q] \in Int /\ y[q] = x[q]

\* x on level l, and nothing beside it.
Within(l, x) == [q \in Proc |-> IF q \in Members(l) THEN x[q] ELSE 0]

LEMMA AgreeSame == ASSUME NEW l \in Level, NEW x \in Vector PROVE Agree(l, x, x)
BY SomeMember, VectorFacts DEF Agree

LEMMA AgreeSwaps == ASSUME NEW l, NEW x, NEW y, Agree(l, x, y) PROVE Agree(l, y, x)
BY DEF Agree

LEMMA WithinAgrees ==
  ASSUME NEW l \in Level, NEW x, NEW y, Agree(l, x, y)
  PROVE  Agree(l, x, Within(l, y)) /\ \A p \in Proc : Within(l, x)[p] \in Int
<1>1. Members(l) \subseteq Proc
  BY SomeMember
<1> QED
  BY <1>1 DEF Agree, Within

LEMMA AxpyAgrees ==
  ASSUME NEW l \in Level, NEW a \in Int, NEW x, NEW y, NEW u, NEW v, Agree(l, x, y), Agree(l, u, v)
  PROVE  Agree(l, Axpy(a, x, u), Axpy(a, y, v))
<1> SUFFICES ASSUME NEW q \in Members(l)
             PROVE  Axpy(a, x, u)[q] \in Int /\ Axpy(a, y, v)[q] = Axpy(a, x, u)[q]
  BY DEF Agree
<1>1. q \in Proc /\ x[q] \in Int /\ u[q] \in Int /\ y[q] = x[q] /\ v[q] = u[q]
  BY SomeMember DEF Agree
<1>2. Axpy(a, x, u)[q] = (a * x[q] + u[q]) % Prime /\ Axpy(a, y, v)[q] = (a * y[q] + v[q]) % Prime
  BY <1>1 DEF Axpy
<1>3. a * x[q] + u[q] \in Int
  BY <1>1
<1>4. (a * x[q] + u[q]) % Prime \in Int
  BY <1>3, Remainder, NumIsInt
<1> QED
  BY <1>1, <1>2, <1>4

LEMMA FilterAgrees ==
  ASSUME NEW l \in Level, NEW x, NEW y, Agree(l, x, y)
  PROVE  Agree(l, Filter(l, x), Filter(l, y))
BY SomeMember DEF Agree, Filter

LEMMA SmoothedAgrees ==
  ASSUME NEW l \in Level, NEW a \in Int, NEW x, NEW y, Agree(l, x, y)
  PROVE  Agree(l, Smoothed(a, l, x), Smoothed(a, l, y))
<1>1. Agree(l, Zero, Zero)
  BY SomeMember DEF Agree, Zero
<1> QED
  BY <1>1, AxpyAgrees, FilterAgrees DEF Smoothed, Scale

LEMMA MatrixAgrees ==
  ASSUME NEW l \in Level, NEW x, NEW y, Agree(l, x, y)
  PROVE  MatrixApply(l, x) = MatrixApply(l, y) /\ MatrixApply(l, x) \in Vector
<1>1. ASSUME NEW z, Agree(l, x, z) PROVE MatrixApply(l, z) = MatrixApply(l, x)
  <2>1. ASSUME NEW p \in Members(l)
        PROVE  SumFunctionOnSet(z, Members(l) \ {p}) = SumFunctionOnSet(x, Members(l) \ {p}) /\ z[p] = x[p]
    <3>1. IsFiniteSet(Members(l) \ {p})
      BY SomeMember, FS_Subset
    <3>2. \A q \in Members(l) \ {p} : x[q] \in Int /\ z[q] = x[q]
      BY <1>1 DEF Agree
    <3>3. Sum(z, Members(l) \ {p}) = Sum(x, Members(l) \ {p})
      BY <3>1, <3>2, SumOfSame
    <3> QED
      BY <1>1, <3>3 DEF Sum, Agree
  <2> QED
    BY <2>1, Zenon DEF MatrixApply
<1>2. Agree(l, x, Within(l, x)) /\ \A p \in Proc : Within(l, x)[p] \in Int
  <2>1. Agree(l, x, x)
    BY DEF Agree
  <2> QED
    BY <2>1, WithinAgrees
<1>3. MatrixApply(l, Within(l, x)) \in Vector
  BY <1>2, MatrixApplyIs
<1> QED
  BY <1>1, <1>2, <1>3

LEMMA DefectAgrees ==
  ASSUME NEW l \in Level, NEW b, NEW c, NEW x, NEW y, Agree(l, b, c), Agree(l, x, y)
  PROVE  Agree(l, Defect(l, b, x), Defect(l, c, y))
<1>1. MatrixApply(l, x) = MatrixApply(l, y) /\ MatrixApply(l, x) \in Vector
  BY MatrixAgrees
<1>2. Agree(l, MatrixApply(l, x), MatrixApply(l, y))
  BY <1>1, AgreeSame
<1> QED
  BY <1>2, AxpyAgrees, FilterAgrees DEF Defect, Residual

LEMMA SmootherAgrees ==
  ASSUME NEW l \in Level, NEW a \in Int, NEW b, NEW c, NEW x, NEW y, Agree(l, b, c), Agree(l, x, y)
  PROVE  Agree(l, Smoother(a, l, b, x), Smoother(a, l, c, y))
<1>1. Agree(l, Smoothed(a, l, Defect(l, b, x)), Smoothed(a, l, Defect(l, c, y)))
  BY DefectAgrees, SmoothedAgrees
<1>2. Agree(l, Axpy(1, Smoothed(a, l, Defect(l, b, x)), x), Axpy(1, Smoothed(a, l, Defect(l, c, y)), y))
  BY <1>1, AxpyAgrees
<1> QED
  BY <1>2, OnceIs DEF Smoother

LEMMA PeakSmootherAgrees ==
  ASSUME NEW l \in Level, NEW b, NEW c, NEW x, NEW y, Agree(l, b, c), Agree(l, x, y)
  PROVE  Agree(l, PeakSmoother(l, b, x), PeakSmoother(l, c, y))
<1>1. Peak[l] \in Int /\ Pre[l] \in Int /\ Post[l] \in Int
  BY FactorFacts
<1>2. CASE Peak[l] # 0
  BY <1>1, <1>2, SmootherAgrees DEF PeakSmoother
<1>3. CASE Peak[l] = 0
  <2>1. Agree(l, Smoother(Pre[l], l, b, x), Smoother(Pre[l], l, c, y))
    BY <1>1, SmootherAgrees
  <2>2. Agree(l, Smoother(Post[l], l, b, Smoother(Pre[l], l, b, x)), Smoother(Post[l], l, c, Smoother(Pre[l], l, c, y)))
    BY <1>1, <2>1, SmootherAgrees
  <2> QED
    BY <1>3, <2>2 DEF PeakSmoother
<1> QED
  BY <1>2, <1>3

LEMMA DotAgrees ==
  ASSUME NEW l \in Level, NEW x, NEW y, NEW u, NEW v, Agree(l, x, y), Agree(l, u, v)
  PROVE  Dot(l, x, u) = Dot(l, y, v) /\ Dot(l, x, u) \in Num
<1>1. ASSUME NEW r, NEW s, Agree(l, x, r), Agree(l, u, s) PROVE Dot(l, r, s) = Dot(l, x, u)
  <2>1. \A p \in Members(l) : r[p] = x[p] /\ s[p] = u[p]
    BY <1>1 DEF Agree
  <2>2. [p \in Members(l) |-> r[p] * s[p]] = [p \in Members(l) |-> x[p] * u[p]]
    BY <2>1
  <2> QED
    BY <2>2 DEF Dot
<1>2. Agree(l, x, x) /\ Agree(l, u, u)
  BY DEF Agree
<1>3. /\ Agree(l, x, Within(l, x)) /\ \A p \in Proc : Within(l, x)[p] \in Int
      /\ Agree(l, u, Within(l, u)) /\ \A p \in Proc : Within(l, u)[p] \in Int
  BY <1>2, WithinAgrees
<1>4. Dot(l, Within(l, x), Within(l, u)) \in Num
  BY <1>3, DotIs
<1> QED
  BY <1>1, <1>3, <1>4

\* The factor of a correction.
OmegaOf(adapt, l, d, c, t) ==
  CASE adapt = "Fixed" -> 1
    [] adapt = "MinEnergy" -> Quotient(Dot(l, d, c), Dot(l, t, c))
    [] adapt = "MinDefect" -> Quotient(Dot(l, d, t), Dot(l, t, t))

Adapts == {"Fixed", "MinEnergy", "MinDefect"}

LEMMA OmegaAgrees ==
  ASSUME NEW l \in Level, NEW adapt \in Adapts, NEW d, NEW e, NEW c, NEW t,
         Agree(l, d, e), Agree(l, c, c), Agree(l, t, t)
  PROVE  OmegaOf(adapt, l, d, c, t) = OmegaOf(adapt, l, e, c, t) /\ OmegaOf(adapt, l, d, c, t) \in Int
<1>1. /\ Dot(l, d, c) = Dot(l, e, c) /\ Dot(l, d, c) \in Num
      /\ Dot(l, d, t) = Dot(l, e, t) /\ Dot(l, d, t) \in Num
      /\ Dot(l, t, c) \in Num /\ Dot(l, t, t) \in Num
  BY DotAgrees
<1>2. /\ Quotient(Dot(l, d, c), Dot(l, t, c)) \in Int
      /\ Quotient(Dot(l, d, t), Dot(l, t, t)) \in Int
  BY <1>1, QuotientIs, NumIsInt
<1> QED
  BY <1>1, <1>2 DEF OmegaOf, Adapts

LEMMA CorrectedIs ==
  ASSUME NEW adapt, NEW l, NEW b, NEW x, NEW c
  PROVE  Corrected(adapt, l, b, x, c) =
           Axpy(OmegaOf(adapt, l, Defect(l, b, x), c, Filter(l, MatrixApply(l, c))), c, x)
BY OnceIs, Zenon DEF Corrected, OmegaOf

LEMMA CorrectedAgrees ==
  ASSUME NEW adapt \in Adapts, NEW l \in Level, NEW b, NEW b2, NEW x, NEW x2, NEW c,
         Agree(l, b, b2), Agree(l, x, x2), Agree(l, c, c)
  PROVE  Agree(l, Corrected(adapt, l, b, x, c), Corrected(adapt, l, b2, x2, c))
<1> DEFINE t == Filter(l, MatrixApply(l, c))
<1>1. Agree(l, t, t)
  BY MatrixAgrees, AgreeSame, FilterAgrees
<1>2. Agree(l, Defect(l, b, x), Defect(l, b2, x2))
  BY DefectAgrees
<1> HIDE DEF t
<1>3. /\ OmegaOf(adapt, l, Defect(l, b, x), c, t) = OmegaOf(adapt, l, Defect(l, b2, x2), c, t)
      /\ OmegaOf(adapt, l, Defect(l, b, x), c, t) \in Int
  BY <1>1, <1>2, OmegaAgrees
<1>4. Agree(l, Axpy(OmegaOf(adapt, l, Defect(l, b, x), c, t), c, x), Axpy(OmegaOf(adapt, l, Defect(l, b, x), c, t), c, x2))
  BY <1>3, AxpyAgrees
<1> QED
  BY <1>3, <1>4, CorrectedIs DEF t

\* The restriction of a level's defect.
LEMMA CoarseFacts ==
  ASSUME NEW l \in Level, l < Crs, NEW q \in Members(l + 1)
  PROVE  /\ {p \in Members(l) : q \in Members(l + 1) /\ CoarseProc(l, p) = q} = {q} \cup Ghosts(l, q)
         /\ q \notin Ghosts(l, q) /\ q \in Members(l) /\ Ghosts(l, q) \subseteq Members(l)
         /\ IsFiniteSet(Ghosts(l, q)) /\ IsFiniteSet({q} \cup Ghosts(l, q))
<1>1. q \in Members(l) /\ q \in Proc
  BY LastFacts DEF Members
<1>2. {p \in Members(l) : q \in Members(l + 1) /\ CoarseProc(l, p) = q} = {q} \cup Ghosts(l, q)
  BY <1>1 DEF CoarseProc, Ghosts
<1>3. IsFiniteSet(Ghosts(l, q)) /\ IsFiniteSet({q} \cup Ghosts(l, q)) /\ Ghosts(l, q) \subseteq Members(l)
  <2>1. Ghosts(l, q) \subseteq Members(l) /\ {q} \cup Ghosts(l, q) \subseteq Members(l)
    BY <1>1 DEF Ghosts
  <2> QED
    BY <2>1, SomeMember, FS_Subset
<1> QED
  BY <1>1, <1>2, <1>3 DEF Ghosts

LEMMA RestrictedAgrees ==
  ASSUME NEW l \in Level, l < Crs, NEW d, NEW e, Agree(l, d, e)
  PROVE  Restricted(l, d) = Restricted(l, e)
<1> DEFINE S(q) == {p \in Members(l) : q \in Members(l + 1) /\ CoarseProc(l, p) = q}
<1>1. \A q \in Proc : SumFunctionOnSet(d, S(q)) = SumFunctionOnSet(e, S(q))
  <2> TAKE q \in Proc
  <2> DEFINE T == S(q)
  <2>1. T \subseteq Members(l)
    OBVIOUS
  <2>2. IsFiniteSet(T)
    BY <2>1, SomeMember, FS_Subset
  <2> HIDE DEF T
  <2>3. \A p \in T : d[p] \in Int /\ e[p] = d[p]
    BY <2>1 DEF Agree
  <2>4. Sum(e, T) = Sum(d, T)
    BY <2>2, <2>3, SumOfSame
  <2> QED
    BY <2>4 DEF Sum, T
<1>2. [q \in Proc |-> (Weight[l].rest * SumFunctionOnSet(d, S(q))) % Prime]
        = [q \in Proc |-> (Weight[l].rest * SumFunctionOnSet(e, S(q))) % Prime]
  BY <1>1, Zenon
<1> QED
  BY <1>2, OnceIs, Zenon DEF Restricted
----------------------------------------------------------------------------
(* Counting modulo the prime.                                              *)

\* Products are monotone.
LEMMA ProductAtLeast ==
  ASSUME NEW m \in Nat, NEW k \in Int, k >= 1
  PROVE  m * k >= m /\ m * k \in Int
<1>1. m * (k - 1) >= 0
  OBVIOUS
<1>2. m * k = m * (k - 1) + m
  OBVIOUS
<1> QED
  BY <1>1, <1>2

\* A remainder is the only one in its range.
LEMMA OnlyRemainder ==
  ASSUME NEW a \in Int, NEW q \in Int, NEW r \in Num, a = q * Prime + r
  PROVE  a % Prime = r
<1>1. Prime \in Nat /\ Prime > 1 /\ r \in Int /\ 0 <= r /\ r < Prime
  BY LevelAssumption DEF Num
<1> DEFINE s == a % Prime
           k == a \div Prime
<1>2. s \in Int /\ 0 <= s /\ s < Prime /\ k \in Int /\ a = Prime * k + s
  BY <1>1
<1> HIDE DEF s, k
<1>3. Prime * (k - q) = r - s
  <2>1. q * Prime = Prime * q
    BY <1>1
  <2>2. Prime * (k - q) = Prime * k - Prime * q
    BY <1>1, <1>2
  <2> DEFINE m == Prime * k
             n == Prime * q
  <2>3. m \in Int /\ n \in Int
    BY <1>1, <1>2
  <2>4. a = m + s /\ a = n + r /\ Prime * (k - q) = m - n
    BY <1>2, <2>1, <2>2
  <2> HIDE DEF m, n
  <2> QED
    BY <1>1, <1>2, <2>3, <2>4
<1>4. k - q < 1
  <2> SUFFICES ASSUME k - q >= 1 PROVE FALSE
    BY <1>2
  <2>1. Prime * (k - q) >= Prime
    BY <1>1, <1>2, ProductAtLeast
  <2> QED
    BY <1>1, <1>2, <1>3, <2>1
<1>5. q - k < 1
  <2> SUFFICES ASSUME q - k >= 1 PROVE FALSE
    BY <1>2
  <2>1. Prime * (q - k) >= Prime
    BY <1>1, <1>2, ProductAtLeast
  <2>2. Prime * (q - k) = -(Prime * (k - q))
    BY <1>1, <1>2
  <2> QED
    BY <1>1, <1>2, <1>3, <2>1, <2>2
<1>6. k = q
  BY <1>2, <1>4, <1>5
<1> QED
  BY <1>1, <1>2, <1>3, <1>6 DEF s

\* a and b are the same modulo the prime.
Alike(a, b) == a \in Int /\ b \in Int /\ \E k \in Int : a = b + k * Prime

LEMMA AlikeRemainders ==
  ASSUME NEW a, NEW b, Alike(a, b)
  PROVE  a % Prime = b % Prime
<1>1. Prime \in Nat /\ Prime > 1 /\ a \in Int /\ b \in Int
  BY LevelAssumption DEF Alike
<1>2. PICK k \in Int : a = b + k * Prime
  BY DEF Alike
<1> DEFINE r == b % Prime
           n == b \div Prime
<1>3. r \in Num /\ r \in Int /\ n \in Int /\ b = Prime * n + r
  BY <1>1, Remainder
<1> HIDE DEF r, n
<1>4. a = (n + k) * Prime + r
  <2>1. (n + k) * Prime = Prime * n + k * Prime
    BY <1>1, <1>2, <1>3
  <2> DEFINE x == Prime * n
             y == k * Prime
  <2>2. x \in Int /\ y \in Int /\ b = x + r /\ a = b + y /\ (n + k) * Prime = x + y
    BY <1>1, <1>2, <1>3, <2>1
  <2> HIDE DEF x, y
  <2> QED
    BY <1>1, <1>3, <2>2
<1>5. n + k \in Int
  BY <1>2, <1>3
<1> QED
  BY <1>1, <1>3, <1>4, <1>5, OnlyRemainder DEF r

LEMMA AlikeRemainder ==
  ASSUME NEW a \in Int
  PROVE  Alike(a % Prime, a) /\ Alike(a, a)
<1>1. Prime \in Nat /\ Prime > 1
  BY LevelAssumption
<1> DEFINE r == a % Prime
           n == a \div Prime
<1>2. r \in Int /\ n \in Int /\ a = Prime * n + r
  BY <1>1
<1> HIDE DEF r, n
<1>3. r = a + (-n) * Prime
  <2>1. (-n) * Prime = -(Prime * n)
    BY <1>1, <1>2
  <2> DEFINE x == Prime * n
  <2>2. x \in Int /\ a = x + r /\ (-n) * Prime = -x
    BY <1>1, <1>2, <2>1
  <2> HIDE DEF x
  <2> QED
    BY <1>2, <2>2
<1>4. -n \in Int /\ a = a + 0 * Prime
  BY <1>1, <1>2
<1> QED
  BY <1>2, <1>3, <1>4 DEF Alike, r

LEMMA AlikeSums ==
  ASSUME NEW a, NEW b, NEW c, NEW d, Alike(a, b), Alike(c, d)
  PROVE  Alike(a + c, b + d)
<1>1. Prime \in Nat /\ a \in Int /\ b \in Int /\ c \in Int /\ d \in Int
  BY LevelAssumption DEF Alike
<1>2. PICK k \in Int : a = b + k * Prime
  BY DEF Alike
<1>3. PICK n \in Int : c = d + n * Prime
  BY DEF Alike
<1>4. (k + n) * Prime = k * Prime + n * Prime
  BY <1>1
<1>5. k * Prime \in Int /\ n * Prime \in Int /\ k + n \in Int
  BY <1>1
<1> DEFINE x == k * Prime
           y == n * Prime
           z == (k + n) * Prime
<1>6. x \in Int /\ y \in Int /\ z = x + y /\ a = b + x /\ c = d + y
  BY <1>2, <1>3, <1>4, <1>5
<1> HIDE DEF x, y, z
<1>7. a + c = b + d + z /\ a + c \in Int /\ b + d \in Int
  BY <1>1, <1>6
<1> QED
  BY <1>5, <1>7 DEF Alike, z

LEMMA AlikeProducts ==
  ASSUME NEW w \in Int, NEW a, NEW b, Alike(a, b)
  PROVE  Alike(w * a, w * b)
<1>1. Prime \in Nat /\ a \in Int /\ b \in Int
  BY LevelAssumption DEF Alike
<1>2. PICK k \in Int : a = b + k * Prime
  BY DEF Alike
<1>3. w * a = w * b + (w * k) * Prime
  <2>1. w * (b + k * Prime) = w * b + w * (k * Prime)
    BY <1>1
  <2>2. w * (k * Prime) = (w * k) * Prime
    BY <1>1
  <2> QED
    BY <1>2, <2>1, <2>2
<1>4. w * k \in Int /\ w * a \in Int /\ w * b \in Int
  BY <1>1
<1> QED
  BY <1>3, <1>4 DEF Alike

LEMMA AlikeChain ==
  ASSUME NEW a, NEW b, NEW c, Alike(a, b), Alike(b, c) \/ Alike(c, b)
  PROVE  Alike(a, c) /\ Alike(c, a)
<1>1. Prime \in Nat /\ a \in Int /\ b \in Int /\ c \in Int
  BY LevelAssumption DEF Alike
<1>2. PICK k \in Int : a = b + k * Prime
  BY DEF Alike
<1>3. PICK n \in Int : b = c + n * Prime
  <2>1. CASE Alike(b, c)
    BY <2>1 DEF Alike
  <2>2. CASE Alike(c, b)
    <3>1. PICK m \in Int : c = b + m * Prime
      BY <2>2 DEF Alike
    <3>2. -m \in Int /\ b = c + (-m) * Prime
      <4>1. (-m) * Prime = -(m * Prime)
        BY <1>1
      <4> DEFINE x == m * Prime
      <4>2. x \in Int /\ c = b + x /\ (-m) * Prime = -x
        BY <1>1, <3>1, <4>1
      <4> HIDE DEF x
      <4> QED
        BY <1>1, <3>1, <4>2
    <3> QED
      BY <3>2
  <2> QED
    BY <2>1, <2>2
<1> DEFINE x == k * Prime
           y == n * Prime
           z == (k + n) * Prime
           u == (-(k + n)) * Prime
<1>4. (k + n) * Prime = k * Prime + n * Prime
  BY <1>1
<1>5. (-(k + n)) * Prime = -((k + n) * Prime)
  BY <1>1
<1>6. x \in Int /\ y \in Int /\ z = x + y /\ u = -z /\ a = b + x /\ b = c + y /\ k + n \in Int /\ -(k + n) \in Int
  BY <1>1, <1>2, <1>3, <1>4, <1>5
<1> HIDE DEF x, y, z, u
<1>7. a = c + z /\ c = a + u
  BY <1>1, <1>6
<1> QED
  BY <1>1, <1>6, <1>7 DEF Alike, z, u
----------------------------------------------------------------------------
(* Sums.                                                                   *)

LEMMA SumOfScaled ==
  ASSUME NEW S, IsFiniteSet(S), NEW w \in Int, NEW d, NEW v, \A x \in S : d[x] \in Int /\ v[x] = w * d[x]
  PROVE  Sum(v, S) = w * Sum(d, S)
<1> DEFINE G == {s \in SUBSET S : Sum(v, s) = w * Sum(d, s)}
<1>1. ASSUME NEW s \in SUBSET S, \A t \in SUBSET s : t # s => t \in G
      PROVE  s \in G
  <2>1. CASE s = {}
    <3>1. w * 0 = 0
      OBVIOUS
    <3> QED
      BY <2>1, <3>1, SumOfNone
  <2>2. CASE s # {}
    <3>1. PICK x \in s : TRUE
      BY <2>2
    <3>2. s \ {x} \in G
      BY <1>1, <3>1
    <3>3. IsFiniteSet(s) /\ \A y \in s : d[y] \in Int /\ v[y] \in Int
      BY FS_Subset
    <3>4. Sum(v, s) = v[x] + Sum(v, s \ {x}) /\ Sum(d, s) = d[x] + Sum(d, s \ {x}) /\ Sum(d, s \ {x}) \in Int
      BY <3>3, SumOfOneMore
    <3> DEFINE a == d[x]
               b == Sum(d, s \ {x})
    <3>5. a \in Int /\ b \in Int /\ v[x] = w * a /\ Sum(v, s \ {x}) = w * b
      BY <3>1, <3>2, <3>3, <3>4
    <3>6. Sum(v, s) = w * a + w * b /\ Sum(d, s) = a + b
      BY <3>4, <3>5
    <3> HIDE DEF a, b
    <3>7. w * (a + b) = w * a + w * b
      BY <3>5
    <3> QED
      BY <3>6, <3>7
  <2> QED
    BY <2>1, <2>2
<1>2. G = SUBSET S
  <2> HIDE DEF G
  <2>1. G \in SUBSET SUBSET S
    BY DEF G
  <2> QED
    BY <1>1, <2>1, AllSubsets
<1> QED
  BY <1>2

LEMMA SumsAreAlike ==
  ASSUME NEW S, IsFiniteSet(S), NEW w \in Int, NEW v, NEW c, NEW u,
         \A x \in S : c[x] \in Int /\ u[x] \in Int /\ Alike(v[x], w * c[x] + u[x])
  PROVE  Alike(Sum(v, S), w * Sum(c, S) + Sum(u, S))
<1> DEFINE G == {s \in SUBSET S : Alike(Sum(v, s), w * Sum(c, s) + Sum(u, s))}
<1>1. ASSUME NEW s \in SUBSET S, \A t \in SUBSET s : t # s => t \in G
      PROVE  s \in G
  <2>1. CASE s = {}
    <3>1. w * 0 + 0 = 0 /\ Alike(0, 0)
      BY AlikeRemainder
    <3> QED
      BY <2>1, <3>1, SumOfNone
  <2>2. CASE s # {}
    <3>1. PICK x \in s : TRUE
      BY <2>2
    <3>2. s \ {x} \in G
      BY <1>1, <3>1
    <3>3. IsFiniteSet(s) /\ \A y \in s : c[y] \in Int /\ v[y] \in Int /\ u[y] \in Int
      BY FS_Subset DEF Alike
    <3>4. /\ Sum(v, s) = v[x] + Sum(v, s \ {x})
          /\ Sum(c, s) = c[x] + Sum(c, s \ {x}) /\ Sum(c, s \ {x}) \in Int
          /\ Sum(u, s) = u[x] + Sum(u, s \ {x}) /\ Sum(u, s \ {x}) \in Int
      BY <3>3, SumOfOneMore
    <3> DEFINE a == c[x]
               b == Sum(c, s \ {x})
               g == u[x]
               h == Sum(u, s \ {x})
    <3>5. a \in Int /\ b \in Int /\ g \in Int /\ h \in Int
      BY <3>1, <3>3, <3>4
    <3>6. Alike(v[x], w * a + g) /\ Alike(Sum(v, s \ {x}), w * b + h)
      BY <3>1, <3>2
    <3>7. Sum(c, s) = a + b /\ Sum(u, s) = g + h
      BY <3>4
    <3> HIDE DEF a, b, g, h
    <3>8. Alike(Sum(v, s), (w * a + g) + (w * b + h))
      BY <3>4, <3>6, AlikeSums
    <3>9. w * (a + b) + (g + h) = (w * a + g) + (w * b + h)
      <4>1. w * (a + b) = w * a + w * b /\ w * a \in Int /\ w * b \in Int
        BY <3>5
      <4> DEFINE k == w * a
                 m == w * b
      <4>2. k \in Int /\ m \in Int /\ w * (a + b) = k + m
        BY <4>1
      <4> HIDE DEF k, m
      <4>3. (k + m) + (g + h) = (k + g) + (m + h)
        BY <3>5, <4>2
      <4> QED
        BY <4>2, <4>3 DEF k, m
    <3> QED
      BY <3>7, <3>8, <3>9
  <2> QED
    BY <2>1, <2>2
<1>2. G = SUBSET S
  <2> HIDE DEF G
  <2>1. G \in SUBSET SUBSET S
    BY DEF G
  <2> QED
    BY <1>1, <2>1, AllSubsets
<1> QED
  BY <1>2

\* The matrix is linear.
LEMMA MatrixIsLinear ==
  ASSUME NEW l \in Level, NEW w \in Int, NEW c \in Vector, NEW x \in Vector, NEW p \in Members(l)
  PROVE  Alike(MatrixApply(l, Axpy(w, c, x))[p], w * MatrixApply(l, c)[p] + MatrixApply(l, x)[p])
<1> DEFINE s == Axpy(w, c, x)
           S == Members(l) \ {p}
           m == Matrix[l].diag
           n == Matrix[l].else
<1>1. /\ Members(l) \subseteq Proc /\ p \in Proc /\ IsFiniteSet(S) /\ S \subseteq Proc /\ m \in Int /\ n \in Int
  BY SomeMember, FactorFacts, FS_Subset
<1>2. \A q \in Proc : c[q] \in Int /\ x[q] \in Int /\ s[q] \in Int /\ Alike(s[q], w * c[q] + x[q])
  <2> SUFFICES ASSUME NEW q \in Proc
               PROVE  c[q] \in Int /\ x[q] \in Int /\ s[q] \in Int /\ Alike(s[q], w * c[q] + x[q])
    OBVIOUS
  <2>1. c[q] \in Int /\ x[q] \in Int
    BY VectorFacts
  <2>2. s[q] = (w * c[q] + x[q]) % Prime
    BY DEF Axpy
  <2>3. w * c[q] + x[q] \in Int
    BY <2>1
  <2> HIDE DEF s
  <2>4. Alike(s[q], w * c[q] + x[q])
    BY <2>2, <2>3, AlikeRemainder
  <2> QED
    BY <2>1, <2>4 DEF Alike
<1> DEFINE A(y) == m * y[p] + n * Sum(y, S)
<1>3. \A y : MatrixApply(l, y)[p] = A(y) % Prime
  BY <1>1 DEF MatrixApply, Sum
<1>4. Sum(s, S) \in Int /\ Sum(c, S) \in Int /\ Sum(x, S) \in Int
  <2> HIDE DEF s, S
  <2> QED
    BY <1>1, <1>2, SumType
<1>5. Alike(Sum(s, S), w * Sum(c, S) + Sum(x, S))
  <2> HIDE DEF s, S
  <2> QED
    BY <1>1, <1>2, SumsAreAlike
<1> DEFINE sp == s[p]
           cp == c[p]
           xp == x[p]
           ss == Sum(s, S)
           cs == Sum(c, S)
           xs == Sum(x, S)
<1>6. /\ sp \in Int /\ cp \in Int /\ xp \in Int /\ ss \in Int /\ cs \in Int /\ xs \in Int
      /\ Alike(sp, w * cp + xp) /\ Alike(ss, w * cs + xs)
  BY <1>1, <1>2, <1>4, <1>5
<1>7. /\ MatrixApply(l, s)[p] = (m * sp + n * ss) % Prime
      /\ MatrixApply(l, c)[p] = (m * cp + n * cs) % Prime
      /\ MatrixApply(l, x)[p] = (m * xp + n * xs) % Prime
  BY <1>3
<1> HIDE DEF s, S, m, n, sp, cp, xp, ss, cs, xs
<1>8. Alike(m * sp + n * ss, m * (w * cp + xp) + n * (w * cs + xs))
  BY <1>1, <1>6, AlikeProducts, AlikeSums
<1>9. m * (w * cp + xp) + n * (w * cs + xs) = w * (m * cp + n * cs) + (m * xp + n * xs)
  <2>1. m * (w * cp + xp) = w * (m * cp) + m * xp
    BY <1>1, <1>6
  <2>2. n * (w * cs + xs) = w * (n * cs) + n * xs
    BY <1>1, <1>6
  <2>3. w * (m * cp + n * cs) = w * (m * cp) + w * (n * cs)
    BY <1>1, <1>6
  <2> DEFINE a == w * (m * cp)
             b == m * xp
             d == w * (n * cs)
             e == n * xs
  <2>4. a \in Int /\ b \in Int /\ d \in Int /\ e \in Int
    BY <1>1, <1>6
  <2>5. /\ m * (w * cp + xp) = a + b /\ n * (w * cs + xs) = d + e /\ w * (m * cp + n * cs) = a + d
    BY <2>1, <2>2, <2>3
  <2> HIDE DEF a, b, d, e
  <2>6. (a + b) + (d + e) = (a + d) + (b + e)
    BY <2>4
  <2> QED
    BY <2>5, <2>6 DEF b, e
<1>10. m * sp + n * ss \in Int /\ m * cp + n * cs \in Int /\ m * xp + n * xs \in Int
  BY <1>1, <1>6
<1> DEFINE a == m * sp + n * ss
           b == m * cp + n * cs
           d == m * xp + n * xs
<1>11. a \in Int /\ b \in Int /\ d \in Int /\ Alike(a, w * b + d)
  BY <1>8, <1>9, <1>10
<1> HIDE DEF a, b, d
<1>12. Alike(a % Prime, a) /\ Alike(b % Prime, b) /\ Alike(d % Prime, d)
  BY <1>11, AlikeRemainder
<1>13. Alike(w * (b % Prime) + (d % Prime), w * b + d)
  BY <1>12, AlikeProducts, AlikeSums
<1>14. Alike(a % Prime, w * b + d)
  BY <1>11, <1>12, AlikeChain
<1>15. Alike(a % Prime, w * (b % Prime) + (d % Prime))
  BY <1>13, <1>14, AlikeChain
<1> QED
  BY <1>7, <1>15 DEF a, b, d, s

\* What a correction makes of the defect d of x is the defect of the corrected solution.
LEMMA CorrectedDefect ==
  ASSUME NEW l \in Level, NEW w \in Int, NEW c \in Vector, NEW x \in Vector, NEW b \in Vector,
         NEW d \in Vector, Filter(l, d) = Defect(l, b, x), NEW p \in Members(l)
  PROVE  Filter(l, Axpy(-w, Filter(l, MatrixApply(l, c)), d))[p] = Defect(l, b, Axpy(w, c, x))[p]
<1>1. p \in Proc
  BY SomeMember
<1> DEFINE t == Filter(l, MatrixApply(l, c))
           s == Axpy(w, c, x)
<1>2. CASE p \in Fixed[l]
  BY <1>1, <1>2 DEF Filter, Defect
<1>3. CASE p \notin Fixed[l]
  <2> DEFINE Mc == MatrixApply(l, c)[p]
             Mx == MatrixApply(l, x)[p]
             Ms == MatrixApply(l, s)[p]
             dp == d[p]
             bp == b[p]
  <2>1. t[p] = Mc /\ Filter(l, Axpy(-w, t, d))[p] = ((-w) * Mc + dp) % Prime
    BY <1>1, <1>3 DEF Filter, Axpy
  <2>2. \A y : Defect(l, b, y)[p] = ((-1) * MatrixApply(l, y)[p] + bp) % Prime
    BY <1>1, <1>3 DEF Defect, Filter, Residual, Axpy
  <2>3. Filter(l, d)[p] = dp
    BY <1>1, <1>3 DEF Filter
  <2>4. dp = ((-1) * Mx + bp) % Prime /\ Defect(l, b, s)[p] = ((-1) * Ms + bp) % Prime
    BY <2>2, <2>3
  <2>5. s \in Vector
    BY AxpyIs, VectorFacts
  <2>6. Mc \in Int /\ Mx \in Int /\ Ms \in Int /\ dp \in Int /\ bp \in Int
    <3> HIDE DEF s
    <3>1. MatrixApply(l, c) \in Vector /\ MatrixApply(l, x) \in Vector /\ MatrixApply(l, s) \in Vector
      BY <2>5, MatrixApplyIs, VectorFacts
    <3> QED
      BY <1>1, <3>1, VectorFacts
  <2>7. Alike(Ms, w * Mc + Mx)
    BY MatrixIsLinear
  <2>8. Filter(l, Axpy(-w, Filter(l, MatrixApply(l, c)), d))[p] = ((-w) * Mc + dp) % Prime
    BY <2>1
  <2>9. Defect(l, b, Axpy(w, c, x))[p] = ((-1) * Ms + bp) % Prime
    BY <2>4
  <2> HIDE DEF t, s, Mc, Mx, Ms, dp, bp
  <2>10. (-1) * Mx + bp \in Int /\ Alike(bp, bp) /\ -w \in Int /\ -1 \in Int /\ (-w) * Mc \in Int
    BY <2>6, AlikeRemainder
  <2>11. Alike(dp, (-1) * Mx + bp)
    BY <2>4, <2>10, AlikeRemainder
  <2>12. Alike((-w) * Mc + dp, (-w) * Mc + ((-1) * Mx + bp))
    BY <2>10, <2>11, AlikeSums, AlikeRemainder
  <2>13. Alike((-1) * Ms + bp, (-1) * (w * Mc + Mx) + bp)
    BY <2>7, <2>10, AlikeProducts, AlikeSums
  <2>14. (-1) * (w * Mc + Mx) + bp = (-w) * Mc + ((-1) * Mx + bp)
    <3>1. (-w) * Mc = -(w * Mc) /\ w * Mc \in Int
      BY <2>6
    <3> DEFINE k == w * Mc
    <3>2. k \in Int /\ (-w) * Mc = -k
      BY <3>1
    <3> HIDE DEF k
    <3>3. (-1) * (k + Mx) + bp = -k + ((-1) * Mx + bp)
      BY <2>6, <3>2
    <3> QED
      BY <3>2, <3>3 DEF k
  <2>15. Alike((-w) * Mc + dp, (-1) * Ms + bp)
    BY <2>12, <2>13, <2>14, AlikeChain
  <2> QED
    BY <2>8, <2>9, <2>15, AlikeRemainders
<1> QED
  BY <1>2, <1>3
----------------------------------------------------------------------------
(* The operations of the loops are those of the recursion.                 *)

\* A filtered vector is as good as the vector in a product with a filtered one,
LEMMA DotOfFiltered ==
  ASSUME NEW l \in Level, NEW d \in Vector, NEW c \in Vector, \A p \in Fixed[l] : c[p] = 0
  PROVE  Dot(l, Filter(l, d), c) = Dot(l, d, c)
<1>1. ASSUME NEW p \in Members(l) PROVE Filter(l, d)[p] * c[p] = d[p] * c[p]
  <2>1. p \in Proc /\ d[p] \in Int /\ c[p] \in Int
    BY SomeMember, VectorFacts
  <2>2. CASE p \in Fixed[l]
    <3>1. Filter(l, d)[p] \in Int /\ c[p] = 0
      BY <2>1, <2>2 DEF Filter
    <3> QED
      BY <2>1, <3>1
  <2>3. CASE p \notin Fixed[l]
    BY <2>1, <2>3 DEF Filter
  <2> QED
    BY <2>2, <2>3
<1>2. [p \in Members(l) |-> Filter(l, d)[p] * c[p]] = [p \in Members(l) |-> d[p] * c[p]]
  BY <1>1
<1> QED
  BY <1>2 DEF Dot

LEMMA OmegaOfFiltered ==
  ASSUME NEW l \in Level, NEW adapt \in Adapts, NEW d \in Vector, NEW c \in Vector, NEW t \in Vector,
         \A p \in Fixed[l] : c[p] = 0 /\ t[p] = 0
  PROVE  OmegaOf(adapt, l, Filter(l, d), c, t) = OmegaOf(adapt, l, d, c, t)
BY DotOfFiltered DEF OmegaOf, Adapts

\* and for a smoother.
LEMMA SmoothedOfFiltered ==
  ASSUME NEW l \in Level, NEW a \in Int, NEW d
  PROVE  Smoothed(a, l, Filter(l, d)) = Smoothed(a, l, d)
BY DEF Smoothed, Scale, Axpy, Filter

LEMMA CoarseSet ==
  ASSUME NEW l \in Level, l < Crs, NEW d, NEW q \in Members(l + 1),
         \A p \in Members(l) : d[p] \in Int
  PROVE  LET S == {p \in Members(l) : q \in Members(l + 1) /\ CoarseProc(l, p) = q}
         IN  /\ SumFunctionOnSet(d, S) = d[q] + Sum(d, Ghosts(l, q))
             /\ Sum(d, Ghosts(l, q)) \in Int /\ d[q] \in Int
<1> DEFINE S == {p \in Members(l) : q \in Members(l + 1) /\ CoarseProc(l, p) = q}
           G == Ghosts(l, q)
<1>1. /\ S = {q} \cup G /\ q \notin G /\ q \in Members(l) /\ G \subseteq Members(l)
      /\ IsFiniteSet(G) /\ IsFiniteSet({q} \cup G)
  BY CoarseFacts
<1> HIDE DEF S, G
<1>2. S \ {q} = G /\ q \in S /\ IsFiniteSet(S) /\ \A p \in S : d[p] \in Int
  BY <1>1
<1>3. Sum(d, S) = d[q] + Sum(d, S \ {q}) /\ Sum(d, S \ {q}) \in Int
  BY <1>2, SumOfOneMore
<1> QED
  BY <1>1, <1>2, <1>3 DEF Sum, S, G

\* What a process restricts and gathers from its ghosts.
LEMMA GatherIs ==
  ASSUME NEW l \in Level, l < Crs, NEW d \in Vector, NEW q \in Members(l + 1), NEW u,
         \A g \in Ghosts(l, q) : u[g] = Weight[l].rest * d[g]
  PROVE  (Weight[l].rest * d[q] + SumFunction([g \in Ghosts(l, q) |-> u[g]])) % Prime
           = (Weight[l].rest
                * SumFunctionOnSet(d, {p \in Members(l) : q \in Members(l + 1) /\ CoarseProc(l, p) = q})) % Prime
<1> DEFINE S == {p \in Members(l) : q \in Members(l + 1) /\ CoarseProc(l, p) = q}
           G == Ghosts(l, q)
           v == [g \in G |-> u[g]]
           w == Weight[l].rest
<1>1. w \in Int /\ \A p \in Members(l) : d[p] \in Int
  BY FactorFacts, SomeMember, VectorFacts
<1>2. SumFunctionOnSet(d, S) = d[q] + Sum(d, G) /\ Sum(d, G) \in Int /\ d[q] \in Int
  BY <1>1, CoarseSet
<1>3. IsFiniteSet(G) /\ G \subseteq Members(l)
  BY CoarseFacts
<1>4. DOMAIN v = G /\ \A g \in G : d[g] \in Int /\ v[g] = w * d[g]
  BY <1>1, <1>3
<1> HIDE DEF v, G, S, w
<1>5. Sum(v, G) = w * Sum(d, G)
  BY <1>1, <1>3, <1>4, SumOfScaled
<1>6. SumFunction(v) = Sum(v, G)
  BY <1>4 DEF SumFunction, Sum
<1> DEFINE x == Sum(d, G)
           y == d[q]
<1>7. x \in Int /\ y \in Int
  BY <1>2
<1>8. SumFunctionOnSet(d, S) = y + x /\ SumFunction(v) = w * x
  BY <1>2, <1>5, <1>6
<1> HIDE DEF x, y
<1>9. w * y + w * x = w * (y + x)
  BY <1>1, <1>7
<1>10. (w * y + SumFunction(v)) % Prime = (w * SumFunctionOnSet(d, S)) % Prime
  BY <1>8, <1>9
<1> QED
  BY <1>10 DEF v, G, S, w, y

LEMMA RestrictedAt ==
  ASSUME NEW l, NEW d, NEW q \in Proc
  PROVE  Restricted(l, d)[q] =
           IF q \in Fixed[l + 1] THEN 0
           ELSE (Weight[l].rest
                   * SumFunctionOnSet(d, {p \in Members(l) : q \in Members(l + 1) /\ CoarseProc(l, p) = q})) % Prime
<1> DEFINE S(p) == {r \in Members(l) : p \in Members(l + 1) /\ CoarseProc(l, r) = p}
           x == [p \in Proc |-> (Weight[l].rest * SumFunctionOnSet(d, S(p))) % Prime]
<1>1. Restricted(l, d) = Filter(l + 1, x)
  BY OnceIs, Zenon DEF Restricted
<1>2. Filter(l + 1, x)[q] = IF q \in Fixed[l + 1] THEN 0 ELSE x[q]
  BY DEF Filter
<1>3. x[q] = (Weight[l].rest * SumFunctionOnSet(d, S(q))) % Prime
  OBVIOUS
<1> QED
  BY <1>1, <1>2, <1>3

LEMMA RestrictedIs ==
  ASSUME NEW l \in Level, l < Crs, NEW d \in Vector
  PROVE  /\ Restricted(l, d) \in Vector
         /\ \A q \in Proc : q \notin Members(l + 1) => Restricted(l, d)[q] = 0
<1>1. ASSUME NEW q \in Proc, q \notin Members(l + 1) PROVE Restricted(l, d)[q] = 0
  <2> DEFINE S == {p \in Members(l) : q \in Members(l + 1) /\ CoarseProc(l, p) = q}
             w == Weight[l].rest
  <2>1. S = {} /\ w \in Int
    BY <1>1, FactorFacts
  <2>2. SumFunctionOnSet(d, {}) = 0
    BY SumOfNone DEF Sum
  <2>3. 0 % Prime = 0
    BY Remainder, NumIsInt
  <2>4. Restricted(l, d)[q] = IF q \in Fixed[l + 1] THEN 0 ELSE (w * SumFunctionOnSet(d, S)) % Prime
    BY RestrictedAt
  <2> HIDE DEF S, w
  <2>5. w * 0 = 0
    BY <2>1
  <2>6. (w * SumFunctionOnSet(d, S)) % Prime = 0
    BY <2>1, <2>2, <2>3, <2>5
  <2> QED
    BY <2>4, <2>6
<1>2. ASSUME NEW q \in Proc PROVE Restricted(l, d)[q] \in Num
  <2>1. CASE q \notin Members(l + 1)
    BY <1>1, <2>1, NumIsInt
  <2>2. CASE q \in Members(l + 1)
    <3> DEFINE s == SumFunctionOnSet(d, {p \in Members(l) : q \in Members(l + 1) /\ CoarseProc(l, p) = q})
    <3>1. \A p \in Members(l) : d[p] \in Int
      BY SomeMember, VectorFacts
    <3>2. s = d[q] + Sum(d, Ghosts(l, q)) /\ Sum(d, Ghosts(l, q)) \in Int /\ d[q] \in Int
      BY <2>2, <3>1, CoarseSet
    <3>3. s \in Int
      BY <3>2
    <3>4. Restricted(l, d)[q] = IF q \in Fixed[l + 1] THEN 0 ELSE (Weight[l].rest * s) % Prime
      BY RestrictedAt
    <3> HIDE DEF s
    <3>5. Weight[l].rest * s \in Int
      BY <3>3, FactorFacts
    <3>6. (Weight[l].rest * s) % Prime \in Num
      BY <3>5, Remainder
    <3> QED
      BY <3>4, <3>6, NumIsInt
  <2> QED
    BY <2>1, <2>2
<1>3. Restricted(l, d) = [q \in Proc |-> Restricted(l, d)[q]]
  <2>1. \E x : Restricted(l, d) = Filter(l + 1, x)
    BY OnceIs, Zenon DEF Restricted
  <2> QED
    BY <2>1 DEF Filter
<1> QED
  BY <1>1, <1>2, <1>3 DEF Vector

\* What the processes of a level get from the next one, and make of it.
LEMMA ProlongatedIs ==
  ASSUME NEW l \in Level, l < Crs, NEW y, \A q \in Members(l + 1) : y[q] \in Int, NEW x,
         \A p \in Members(l) : x[p] = y[CoarseProc(l, p)],
         \A p \in Proc \ Members(l) : x[p] = 0
  PROVE  Correction(l, x) = Prolongated(l, y)
<1> DEFINE z == [p \in Proc |-> IF p \in Members(l) THEN (Weight[l].prol * y[CoarseProc(l, p)]) % Prime ELSE 0]
<1>1. Prolongated(l, y) = Filter(l, z)
  BY OnceIs, Zenon DEF Prolongated
<1>2. Scale(Weight[l].prol, x) = z
  <2>1. ASSUME NEW p \in Proc PROVE (Weight[l].prol * x[p] + Zero[p]) % Prime = z[p]
    <3>1. Zero[p] = 0 /\ Weight[l].prol \in Int
      BY FactorFacts DEF Zero
    <3>2. CASE p \in Members(l)
      <4>1. CoarseProc(l, p) \in Members(l + 1)
        BY <3>2, GhostHasParent DEF CoarseProc
      <4> DEFINE a == y[CoarseProc(l, p)]
                 w == Weight[l].prol
      <4>2. a \in Int /\ w \in Int /\ x[p] = a /\ z[p] = (w * a) % Prime
        BY <3>1, <3>2, <4>1
      <4> HIDE DEF a, w, z
      <4>3. w * a + 0 = w * a
        BY <4>2
      <4> QED
        BY <3>1, <4>2, <4>3 DEF w
    <3>3. CASE p \notin Members(l)
      <4>1. Weight[l].prol * 0 + 0 = 0 /\ 0 % Prime = 0
        BY <3>1, Remainder, NumIsInt
      <4> QED
        BY <3>1, <3>3, <4>1
    <3> QED
      BY <3>2, <3>3
  <2> HIDE DEF z
  <2>2. z = [p \in Proc |-> z[p]]
    BY DEF z
  <2> QED
    BY <2>1, <2>2 DEF Scale, Axpy
<1> QED
  BY <1>1, <1>2 DEF Correction

\* The peak-smoother.
LEMMA AfterPeakSmooths ==
  ASSUME NEW l
  PROVE  AfterPeak(l).sol = PeakSmoother(l, rhs[l], sol[l])
<1> DEFINE V(x) == [sol |-> x, def |-> Defect(l, rhs[l], x)]
<1>1. \A a, x : IfAny(a, l, V(x)) = V(Smoother(a, l, rhs[l], x))
  <2> TAKE a, x
  <2> DEFINE d == Defect(l, rhs[l], x)
             s == Axpy(1, Smoothed(a, l, d), x)
  <2>1. SmoothDef(a, l, [sol |-> x, def |-> d]) = [sol |-> s, def |-> Defect(l, rhs[l], s)]
    BY DEF SmoothDef
  <2>2. Smoother(a, l, rhs[l], x) = IF a = 0 THEN x ELSE s
    BY OnceIs, Zenon DEF Smoother
  <2> HIDE DEF d, s
  <2>3. IfAny(a, l, [sol |-> x, def |-> d]) = IF a = 0 THEN [sol |-> x, def |-> d] ELSE [sol |-> s, def |-> Defect(l, rhs[l], s)]
    BY <2>1 DEF IfAny
  <2> QED
    BY <2>2, <2>3 DEF d
<1> DEFINE v == V(sol[l])
<1>4. \A x : V(x).sol = x
  OBVIOUS
<1>5. AfterPeak(l) = IF Peak[l] # 0 THEN IfAny(Peak[l], l, v) ELSE IfAny(Post[l], l, IfAny(Pre[l], l, v))
  BY DEF AfterPeak, IfAny
<1> HIDE DEF V
<1>2. CASE Peak[l] # 0
  <2>1. AfterPeak(l) = IfAny(Peak[l], l, v)
    BY <1>2, <1>5
  <2>2. AfterPeak(l).sol = Smoother(Peak[l], l, rhs[l], sol[l])
    BY <1>1, <1>4, <2>1
  <2> QED
    BY <1>2, <2>2 DEF PeakSmoother
<1>3. CASE Peak[l] = 0
  <2>1. AfterPeak(l) = IfAny(Post[l], l, IfAny(Pre[l], l, v))
    BY <1>3, <1>5
  <2>2. AfterPeak(l).sol = Smoother(Post[l], l, rhs[l], Smoother(Pre[l], l, rhs[l], sol[l]))
    BY <1>1, <1>4, <2>1
  <2> QED
    BY <1>3, <2>2 DEF PeakSmoother
<1> QED
  BY <1>2, <1>3
----------------------------------------------------------------------------
(* What a level's cycle goes through.                                      *)

FirstAnswer(l, b) == Smoothed(Pre[l], l, b)

CoarseAnswer(adapt, l, kind, b, x) == Cycles(adapt)[l + 1][kind][Restricted(l, Defect(l, b, x))]

\* x after the correction by a cycle of that kind.
Improved(adapt, l, kind, b, x) ==
  Corrected(adapt, l, b, x, Prolongated(l, CoarseAnswer(adapt, l, kind, b, x)))

OnceCorrected(adapt, l, kind, b) == Improved(adapt, l, kind, b, FirstAnswer(l, b))

\* In its second visit an F-cycle is a V-cycle.
SecondKind(kind) == IF kind = "F" THEN "V" ELSE kind

SecondAnswer(adapt, l, kind, b) == PeakSmoother(l, b, OnceCorrected(adapt, l, kind, b))

TwiceCorrected(adapt, l, kind, b) ==
  Improved(adapt, l, SecondKind(kind), b, SecondAnswer(adapt, l, kind, b))

\* The solution of a level of that class.
Expected(class, adapt, l, kind, b) ==
  CASE class = "first" -> FirstAnswer(l, b)
    [] class = "turn" -> OnceCorrected(adapt, l, kind, b)
    [] class = "second" -> SecondAnswer(adapt, l, kind, b)
    [] class = "done" -> Cycles(adapt)[l][kind][b]

LEMMA CycleIs ==
  ASSUME NEW adapt, NEW l \in Level, l < Crs, NEW kind \in Cycle, NEW b \in Vector
  PROVE  Cycles(adapt)[l][kind][b] =
           Smoother(Post[l], l, b, IF Twice(kind, l) THEN TwiceCorrected(adapt, l, kind, b)
                                                     ELSE OnceCorrected(adapt, l, kind, b))
<1> DEFINE next == Cycles(adapt)[l + 1]
           Coarse(k, x) == Corrected(adapt, l, b, x, Prolongated(l, next[k][Restricted(l, Defect(l, b, x))]))
           start == Smoothed(Pre[l], l, b)
           once == Coarse(kind, start)
           again == CASE kind = "V" -> once
                      [] kind = "F" -> IF l = Top THEN once ELSE Coarse("V", PeakSmoother(l, b, once))
                      [] kind = "W" -> Coarse("W", PeakSmoother(l, b, once))
<1>1. l # Crs /\ l \in Nat /\ Top \in Nat /\ Crs \in Nat /\ Top <= l
  BY LevelFacts
<1>2. Cycles(adapt)[l][kind][b] = Cycled(adapt, l, kind, b, next)
  BY <1>1, CyclesAre
<1>3. Cycled(adapt, l, kind, b, next) = Smoother(Post[l], l, b, again)
  BY DEF Cycled
<1>4. once = OnceCorrected(adapt, l, kind, b)
  BY DEF OnceCorrected, Improved, CoarseAnswer, FirstAnswer
<1>5. \A k \in Cycle : Coarse(k, PeakSmoother(l, b, once)) = Improved(adapt, l, k, b, SecondAnswer(adapt, l, kind, b))
  BY <1>4 DEF Improved, CoarseAnswer, SecondAnswer
<1> HIDE DEF Coarse, once, start, next
<1>6. again = IF Twice(kind, l) THEN TwiceCorrected(adapt, l, kind, b) ELSE OnceCorrected(adapt, l, kind, b)
  <2>1. CASE kind = "V"
    BY <1>4, <2>1 DEF Twice
  <2>2. CASE kind = "F"
    <3>1. SecondKind(kind) = "V" /\ (Twice(kind, l) <=> l # Top)
      BY <1>1, <2>2 DEF Twice, SecondKind
    <3>2. again = IF l = Top THEN once ELSE Coarse("V", PeakSmoother(l, b, once))
      BY <2>2
    <3> QED
      BY <1>4, <1>5, <3>1, <3>2 DEF TwiceCorrected, Cycle
  <2>3. CASE kind = "W"
    <3>1. SecondKind(kind) = "W" /\ Twice(kind, l)
      BY <2>3 DEF Twice, SecondKind
    <3>2. again = Coarse("W", PeakSmoother(l, b, once))
      BY <2>3
    <3> QED
      BY <1>5, <3>1, <3>2 DEF TwiceCorrected, Cycle
  <2> QED
    BY <2>1, <2>2, <2>3 DEF Cycle
<1> HIDE DEF again
<1> QED
  BY <1>2, <1>3, <1>6

\* The correction that a level's processes make, when the coarse solution is the answer to
\* the restricted defect of x.
LEMMA ImprovedIs ==
  ASSUME IInv, NEW l \in Level, l < Crs, NEW adapt \in Adapts, Adapt(l) = adapt,
         NEW kind, NEW b \in Vector, NEW x, Agree(l, b, rhs[l]), Agree(l, sol[l], x),
         Filter(l, def[l]) = Defect(l, rhs[l], sol[l]),
         \A q \in Members(l + 1) : sol[l + 1][q] = CoarseAnswer(adapt, l, kind, b, x)[q],
         \A g \in Members(l) \ Members(l + 1) : down[g] # <<>> /\ Head(down[g]) = sol[l + 1][Parent[g]],
         NEW c, c = Correction(l, Arrived(l)), NEW t, t = Filter(l, MatrixApply(l, c)),
         NEW omega, omega = Omega(l, c, t), omega \in Int,
         NEW s, s = Axpy(omega, c, sol[l]), NEW d, d = DefectAfter(l, s, omega, t)
  PROVE  /\ Agree(l, s, Improved(adapt, l, kind, b, x))
         /\ Agree(l, Axpy(1, Smoothed(Post[l], l, d), s),
                     Axpy(1, Smoothed(Post[l], l, Defect(l, b, Improved(adapt, l, kind, b, x))),
                          Improved(adapt, l, kind, b, x)))
<1> DEFINE y == CoarseAnswer(adapt, l, kind, b, x)
           I == Improved(adapt, l, kind, b, x)
<1>1. /\ l + 1 \in Level /\ Members(l + 1) \subseteq Proc /\ Members(l) \subseteq Proc
      /\ rhs[l] \in Vector /\ sol[l] \in Vector /\ def[l] \in Vector /\ sol[l + 1] \in Vector
  <2>1. l + 1 \in Level
    BY LevelFacts
  <2> QED
    BY <2>1, SomeMember DEF IInv, Data
<1>2. c \in Vector /\ t \in Vector
  BY CorrectionIs
<1>3. c = Prolongated(l, y)
  <2> DEFINE a == Arrived(l)
  <2>1. \A q \in Members(l + 1) : y[q] \in Int /\ sol[l + 1][q] = y[q]
    BY <1>1, VectorFacts
  <2>2. \A p \in Members(l) : a[p] = y[CoarseProc(l, p)]
    <3> SUFFICES ASSUME NEW p \in Members(l) PROVE a[p] = y[CoarseProc(l, p)]
      OBVIOUS
    <3>1. CASE p \in Members(l + 1)
      <4>1. a[p] = sol[l + 1][p]
        BY <1>1, <3>1 DEF Arrived
      <4> QED
        BY <2>1, <3>1, <4>1 DEF CoarseProc
    <3>2. CASE p \notin Members(l + 1)
      <4>1. a[p] = Head(down[p])
        BY <1>1, <3>2 DEF Arrived
      <4>2. Parent[p] \in Members(l + 1)
        BY <3>2, GhostHasParent
      <4>3. Head(down[p]) = sol[l + 1][Parent[p]]
        BY <3>2
      <4> QED
        BY <2>1, <3>2, <4>1, <4>2, <4>3 DEF CoarseProc
    <3> QED
      BY <3>1, <3>2
  <2>3. \A p \in Proc \ Members(l) : a[p] = 0
    <3>1. \A p \in Proc : p \in Members(l + 1) => p \in Members(l)
      BY LastFacts
    <3> QED
      BY <3>1 DEF Arrived
  <2> HIDE DEF a, y
  <2>4. Correction(l, a) = Prolongated(l, y)
    BY <2>1, <2>2, <2>3, ProlongatedIs
  <2> QED
    BY <2>4 DEF a
<1>4. I = Axpy(OmegaOf(adapt, l, Defect(l, b, x), c, t), c, x)
  <2>1. I = Corrected(adapt, l, b, x, c)
    BY <1>3 DEF Improved
  <2> QED
    BY <2>1, CorrectedIs
<1>5. omega = OmegaOf(adapt, l, def[l], c, t)
  BY DEF Omega, OmegaOf
<1>6. \A p \in Fixed[l] : c[p] = 0 /\ t[p] = 0
  <2>1. Fixed[l] \subseteq Proc
    BY FactorFacts
  <2> QED
    BY <2>1 DEF Correction, Filter
<1>7. Agree(l, rhs[l], b) /\ Agree(l, c, c) /\ Agree(l, t, t)
  BY <1>2, AgreeSwaps, AgreeSame
<1>8. Agree(l, Defect(l, rhs[l], sol[l]), Defect(l, b, x))
  BY <1>7, DefectAgrees
<1>9. omega = OmegaOf(adapt, l, Defect(l, b, x), c, t)
  <2>1. OmegaOf(adapt, l, Filter(l, def[l]), c, t) = OmegaOf(adapt, l, def[l], c, t)
    BY <1>1, <1>2, <1>6, OmegaOfFiltered
  <2>2. OmegaOf(adapt, l, Defect(l, rhs[l], sol[l]), c, t) = OmegaOf(adapt, l, Defect(l, b, x), c, t)
    BY <1>7, <1>8, OmegaAgrees
  <2> QED
    BY <1>5, <2>1, <2>2
<1>10. Agree(l, s, I)
  <2>1. I = Axpy(omega, c, x)
    BY <1>4, <1>9
  <2> HIDE DEF I
  <2> QED
    BY <1>7, <2>1, AxpyAgrees
<1>11. s \in Vector
  BY <1>1, <1>2, AxpyIs, VectorFacts
<1>12. Agree(l, Defect(l, rhs[l], s), Filter(l, d))
  <2>1. Defect(l, rhs[l], s) \in Vector
    BY <1>1, <1>11, ResidualIs, VectorFacts
  <2>2. CASE Adapt(l) = "Fixed"
    <3>1. d = Defect(l, rhs[l], s)
      BY <2>2 DEF DefectAfter
    <3>2. Filter(l, d) = d
      BY <3>1, FilterTwice DEF Defect
    <3> QED
      BY <2>1, <3>1, <3>2, AgreeSame
  <2>3. CASE Adapt(l) # "Fixed"
    <3>1. d = Axpy(-omega, t, def[l])
      BY <2>3 DEF DefectAfter
    <3>2. \A p \in Members(l) : Filter(l, Axpy(-omega, Filter(l, MatrixApply(l, c)), def[l]))[p]
                                  = Defect(l, rhs[l], Axpy(omega, c, sol[l]))[p]
      BY <1>1, <1>2, CorrectedDefect
    <3>3. \A p \in Members(l) : Filter(l, d)[p] = Defect(l, rhs[l], s)[p]
      BY <3>1, <3>2
    <3>4. \A p \in Members(l) : Defect(l, rhs[l], s)[p] \in Int
      BY <1>1, <2>1, VectorFacts
    <3> QED
      BY <3>3, <3>4 DEF Agree
  <2> QED
    BY <2>2, <2>3
<1>13. Agree(l, Smoothed(Post[l], l, d), Smoothed(Post[l], l, Defect(l, b, I)))
  <2> HIDE DEF I
  <2>1. Post[l] \in Int
    BY FactorFacts
  <2>2. Agree(l, Filter(l, d), Defect(l, rhs[l], s))
    BY <1>12, AgreeSwaps
  <2>3. Agree(l, Defect(l, rhs[l], s), Defect(l, b, I))
    BY <1>7, <1>10, DefectAgrees
  <2>4. Agree(l, Filter(l, d), Defect(l, b, I))
    BY <2>2, <2>3 DEF Agree
  <2>5. Agree(l, Smoothed(Post[l], l, Filter(l, d)), Smoothed(Post[l], l, Defect(l, b, I)))
    BY <2>1, <2>4, SmoothedAgrees
  <2> QED
    BY <2>1, <2>5, SmoothedOfFiltered
<1> HIDE DEF I
<1>14. Agree(l, Axpy(1, Smoothed(Post[l], l, d), s), Axpy(1, Smoothed(Post[l], l, Defect(l, b, I)), I))
  BY <1>10, <1>13, AxpyAgrees
<1> QED
  BY <1>10, <1>14 DEF I
----------------------------------------------------------------------------
(* The loops do what the recursion does.  A process that is on its way has *)
(* a plan, which says of every level what has been done there.             *)

CallOf(p) == input[calls[p]]

PlanAt(p) ==
  todo[p] # <<>> => IsPlan(p, CallOf(p).cycle, Head(todo[p]), Tail(todo[p]), counters[p])

ClassAt(p, l) ==
  IF todo[p] = <<>> THEN "off"
  ELSE ClassOf(p, CallOf(p).cycle, Head(todo[p]), Tail(todo[p]), counters[p], l)

\* p has restricted from level l, and not yet prolongated to it.
SentBy(e, l) ==
  \/ e.op \in RestOps \cup ProlOps \cup {"peak"} /\ l < e.i
  \/ e.op \in {"coarse", "floop", "wstart", "wloop"}
Sent(p, l) == todo[p] # <<>> /\ SentBy(Head(todo[p]), l)

\* p is in a cycle, and not yet through.
Busy(p) == ClassAt(p, Top) \in {"first", "turn", "second"}

\* Processes go through the levels together, and are in the same call, or the next.
SameLevel(l) == \A p, q \in Members(l) : ClassAt(p, l) = ClassAt(q, l)

SameCalls(p, q) ==
  /\ Busy(p) /\ Busy(q) => calls[p] = calls[q] /\ ClassAt(p, Top) = ClassAt(q, Top)
  /\ ~Busy(p) /\ ~Busy(q) => calls[p] = calls[q]
  /\ Busy(p) /\ ~Busy(q) => calls[p] = calls[q] + 1 /\ ClassAt(p, Top) = "first"

\* All have gone from the level before a level in which there is something done.
Gone(l) ==
  \A p \in Members(l + 1) : \A q \in Members(l) :
    ClassAt(p, l + 1) # "off" => Sent(q, l) /\ (q \notin Members(l + 1) => up[q] = <<>>)

\* What a ghost g of level l and its parent have sent.
UpIs(l, g) == up[g] # <<>> => up[g] = <<Weight[l].rest * Filter(l, def[l])[g]>> /\ Sent(g, l)
DownIs(l, g) == down[g] # <<>> => down[g] = <<sol[l + 1][Parent[g]]>> /\ At(Parent[g], "split", l + 1)

\* The right-hand side of a level,
HasDef(p) == Busy(p) => rhs[Top][p] = CallOf(p).def[p]
Linked(p, l) ==
  ClassAt(p, l) # "off" => rhs[l][p] = Restricted(l - 1, Defect(l - 1, rhs[l - 1], sol[l - 1]))[p]

GivenAt(p, l) == IF l = Top THEN CallOf(p).def ELSE Within(l, rhs[l])

\* the kind of its cycle,
SecondBefore(p, l) == \E j \in Level : j < l /\ ClassAt(p, j) = "second"
KindAt(p, l) == IF CallOf(p).cycle = "F" /\ SecondBefore(p, l) THEN "V" ELSE CallOf(p).cycle

\* and its solution, once there is one, unless the coarse grid solver has failed.
Unsolved(p, l) == ClassAt(p, l) = "first" /\ (l = Crs \/ At(p, "rest", l))
Solved(p, l) ==
  ClassAt(p, l) # "off" /\ ~Unsolved(p, l) /\ calls[p] # failed
    => sol[l][p] = Expected(ClassAt(p, l), CallOf(p).adapt, l, KindAt(p, l), GivenAt(p, l))[p]

\* The answer of the last call.
HasAnswer(p) ==
  todo[p] = <<>> /\ calls[p] > 0 /\ calls[p] # failed
    => cor[p] = Cycles(CallOf(p).adapt)[Top][CallOf(p).cycle][CallOf(p).def][p]

Plans == \A p \in Proc : PlanAt(p)
Together ==
  /\ \A l \in Level : Top < l => SameLevel(l)
  /\ \A p, q \in Proc : SameCalls(p, q)
Passed ==
  \A l \in Level : l < Crs => Gone(l) /\ \A g \in Members(l) \ Members(l + 1) : UpIs(l, g) /\ DownIs(l, g)
Given ==
  /\ \A p \in Proc : HasDef(p)
  /\ \A l \in Level : Top < l => \A p \in Members(l) : Linked(p, l)
AllSolved == \A l \in Level : \A p \in Members(l) : Solved(p, l)
AllAnswered == DOMAIN cor = Proc /\ \A p \in Proc : HasAnswer(p)

JInv == IInv /\ Plans /\ Together /\ Passed /\ Given /\ AllSolved /\ AllAnswered
----------------------------------------------------------------------------
(* What a plan says.                                                       *)

LEMMA MembersBelow ==
  ASSUME NEW l \in Level, NEW j \in Level, j <= l, NEW p \in Members(l)
  PROVE  p \in Members(j) /\ p \in Proc /\ LevelOf(p, j)
<1>1. p \in Proc /\ Phys[p] > l
  BY DEF Members
<1>2. Phys[p] \in Nat /\ l \in Nat /\ j \in Nat
  BY <1>1, LevelFacts
<1>3. Phys[p] > j
  BY <1>1, <1>2
<1> QED
  BY <1>1, <1>3 DEF Members, LevelOf

LEMMA HeadOf ==
  ASSUME IInv, Plans, NEW p \in Proc, todo[p] # <<>>
  PROVE  /\ IsHead(p, CallOf(p).cycle, Head(todo[p]), Tail(todo[p]), counters[p])
         /\ CallOf(p).cycle \in Cycle /\ CallOf(p).adapt \in Adapts /\ CallOf(p).def \in Vector
         /\ calls[p] \in Nat /\ calls[p] > 0
<1>1. Head(todo[p]) \in Entry /\ IsEntry(p, Head(todo[p])) /\ calls[p] \in 1 .. Len(input) /\ input[calls[p]] \in CycleCall
  BY ControlFacts
<1>2. CallOf(p).cycle \in Cycle /\ CallOf(p).adapt \in Adapts /\ CallOf(p).def \in Vector
  BY <1>1, CallFacts DEF CallOf, Cycle, Adapts
<1>3. PlanAt(p)
  BY DEF Plans
<1>4. IsHead(p, CallOf(p).cycle, Head(todo[p]), Tail(todo[p]), counters[p])
  BY <1>1, <1>2, <1>3 DEF PlanAt, IsHead
<1>5. calls[p] \in Nat /\ calls[p] > 0
  BY <1>1, ControlFacts
<1> QED
  BY <1>2, <1>4, <1>5

Visits == {"first", "second"}
ClassIs(p, e, l, class) ==
  /\ class \in {"off", "first", "turn", "second", "done"}
  /\ e.op \in RestOps => (l > e.i => class = "off") /\ (~(l > e.i) => class \in Visits)
  /\ e.op = "peak" => (l > e.i => class = "off") /\ (l = e.i => class = "turn") /\ (l < e.i => class \in Visits)
  /\ e.op \in ProlOps => /\ l > e.i => class = "off"
                         /\ l = e.i => class = IF e.i = e.lvl /\ ~e.smooth THEN "turn" ELSE "done"
                         /\ l < e.i => class \in Visits
  /\ e.op \in {"coarse", "floop"} => class \in Visits
  /\ e.op \in {"wstart", "wloop"} => (l = Crs => class = "done") /\ (l # Crs => class \in Visits)
  /\ e.op = "return" => (l = Top => class = "done") /\ (l # Top => class = "off")
  /\ e.op = "coarse" /\ l = Crs => class = "first"

LEMMA ClassOfFacts ==
  ASSUME NEW p, NEW cycle, NEW e, NEW t, NEW c, IsHead(p, cycle, e, t, c), NEW l, LevelOf(p, l)
  PROVE  ClassIs(p, e, l, ClassOf(p, cycle, e, t, c, l))
<1>1. /\ e.i \in Int
      /\ e.op \in RestOps \cup ProlOps \cup {"coarse", "peak", "floop", "wstart", "wloop", "return"}
      /\ l \in Nat
  BY HeadIs, LevelOfFacts
<1>2. Visit(p, cycle, e, t, c, l) \in Visits
  BY DEF Visit, Visits
<1>3. e.op = "coarse" /\ l = Crs => ClassOf(p, cycle, e, t, c, l) = "first"
  BY CoarseEnds
<1> DEFINE v == Visit(p, cycle, e, t, c, l)
           class == ClassOf(p, cycle, e, t, c, l)
<1>4. v \in {"first", "second"}
  BY <1>2 DEF Visits
<1>5. CASE e.op \in RestOps
  <2>1. class = IF l > e.i THEN "off" ELSE v
    BY <1>5 DEF ClassOf, RestOps, ProlOps
  <2> HIDE DEF v, class
  <2> QED
    BY <1>1, <1>4, <1>5, <2>1 DEF ClassIs, Visits, RestOps, ProlOps, class
<1>6. CASE e.op \in ProlOps
  <2>1. class = IF l > e.i THEN "off" ELSE IF l < e.i THEN v ELSE IF l = e.lvl /\ ~e.smooth THEN "turn" ELSE "done"
    BY <1>6 DEF ClassOf, RestOps, ProlOps
  <2> HIDE DEF v, class
  <2> QED
    BY <1>1, <1>4, <1>6, <2>1 DEF ClassIs, Visits, RestOps, ProlOps, class
<1>7. CASE e.op = "peak"
  <2>1. class = IF l > e.i THEN "off" ELSE IF l = e.i THEN "turn" ELSE v
    BY <1>7 DEF ClassOf, RestOps, ProlOps
  <2> HIDE DEF v, class
  <2> QED
    BY <1>1, <1>4, <1>7, <2>1 DEF ClassIs, Visits, RestOps, ProlOps, class
<1>8. CASE e.op \in {"coarse", "floop", "wstart", "wloop", "return"}
  <2>1. /\ e.op \in {"coarse", "floop"} => class = v
        /\ e.op \in {"wstart", "wloop"} => class = IF l = Crs THEN "done" ELSE v
        /\ e.op = "return" => class = IF l = Top THEN "done" ELSE "off"
    BY <1>8 DEF ClassOf, RestOps, ProlOps
  <2>2. e.op = "coarse" /\ l = Crs => class = "first"
    BY <1>3
  <2> HIDE DEF v, class
  <2> QED
    BY <1>1, <1>4, <1>8, <2>1, <2>2 DEF ClassIs, Visits, RestOps, ProlOps, class
<1> QED
  BY <1>1, <1>5, <1>6, <1>7, <1>8

\* The class of a level, by p's next operation.
LEMMA ClassFacts ==
  ASSUME IInv, Plans, NEW p \in Proc, todo[p] # <<>>, NEW l, LevelOf(p, l)
  PROVE  ClassIs(p, Head(todo[p]), l, ClassAt(p, l))
BY HeadOf, ClassOfFacts DEF ClassAt

LEMMA ClassValues ==
  ASSUME IInv, Plans, NEW p \in Proc, NEW l, LevelOf(p, l)
  PROVE  ClassAt(p, l) \in {"off", "first", "turn", "second", "done"}
<1>1. CASE todo[p] = <<>>
  BY <1>1 DEF ClassAt
<1>2. CASE todo[p] # <<>>
  BY <1>2, ClassFacts DEF ClassIs
<1> QED
  BY <1>1, <1>2

LEMMA OpsAre ==
  ASSUME IInv, Plans, NEW p \in Proc, todo[p] # <<>>
  PROVE  LET e == Head(todo[p])
         IN  /\ e.op \in RestOps \cup ProlOps \cup {"coarse", "peak", "floop", "wstart", "wloop", "return"}
             /\ e.i \in Int
             /\ e.op \in RestOps \cup ProlOps => e.lvl \in Level /\ e.lvl <= e.i /\ e.i \in Level /\ e.smooth \in BOOLEAN
             /\ e.op = "peak" => e.i \in Level
<1>1. IsHead(p, CallOf(p).cycle, Head(todo[p]), Tail(todo[p]), counters[p])
  BY HeadOf
<1> QED
  BY <1>1, HeadIs

\* Where something is done, all levels before have been visited, and left for it.
LEMMA VisitedBefore ==
  ASSUME IInv, Plans, NEW p \in Proc, NEW l, LevelOf(p, l), ClassAt(p, l) # "off", NEW j \in Level, j < l
  PROVE  ClassAt(p, j) \in Visits /\ Sent(p, j) /\ todo[p] # <<>>
<1>1. todo[p] # <<>>
  BY DEF ClassAt
<1> DEFINE e == Head(todo[p])
<1>2. /\ l \in Level /\ l \in Nat /\ j \in Nat /\ Top \in Nat /\ Top <= j /\ l <= Crs /\ Crs \in Nat /\ LevelOf(p, j)
  <2>1. l \in Level /\ p \in Members(l)
    BY DEF LevelOf
  <2>2. l \in Nat /\ j \in Nat /\ Top \in Nat /\ Crs \in Nat /\ Top <= j /\ l <= Crs
    BY <2>1, LevelFacts
  <2> QED
    BY <2>1, <2>2, MembersBelow
<1>3. ClassIs(p, e, l, ClassAt(p, l)) /\ ClassIs(p, e, j, ClassAt(p, j))
  BY <1>1, <1>2, ClassFacts
<1>4. e.op \in RestOps \cup ProlOps \cup {"coarse", "peak", "floop", "wstart", "wloop", "return"} /\ e.i \in Int
  BY <1>1, OpsAre
<1> HIDE DEF e
<1>5. ClassAt(p, j) \in Visits /\ SentBy(e, j)
  BY <1>2, <1>3, <1>4 DEF ClassIs, Visits, SentBy, RestOps, ProlOps
<1> QED
  BY <1>1, <1>5 DEF Sent, e

\* ... so that the process is busy.
LEMMA BusyAbove ==
  ASSUME IInv, Plans, NEW p \in Proc, NEW l, LevelOf(p, l), ClassAt(p, l) # "off", Top < l
  PROVE  Busy(p)
<1>1. Top \in Level
  BY LevelFacts
<1> QED
  BY <1>1, VisitedBefore DEF Busy, Visits

LEMMA SentIsBusy ==
  ASSUME IInv, Plans, NEW p \in Proc, NEW l \in Level, l < Crs, Sent(p, l)
  PROVE  Busy(p) /\ Left(p, l)
<1> DEFINE e == Head(todo[p])
<1>1. todo[p] # <<>> /\ SentBy(e, l)
  BY DEF Sent
<1>2. LevelOf(p, Top) /\ l \in Nat /\ Top \in Nat /\ Crs \in Nat /\ Top <= l /\ e.i \in Int
  BY <1>1, TopIsOurs, LevelFacts, OpsAre DEF LevelOf
<1>3. ClassIs(p, e, Top, ClassAt(p, Top))
  BY <1>1, <1>2, ClassFacts
<1> HIDE DEF e
<1>4. ClassAt(p, Top) \in Visits
  BY <1>1, <1>2, <1>3 DEF SentBy, ClassIs, RestOps, ProlOps
<1>5. Below(e, l)
  BY <1>1, <1>2 DEF SentBy, Below, RestOps, ProlOps
<1> QED
  BY <1>1, <1>4, <1>5 DEF Busy, Visits, Left, e

\* As long as one process has not gone from a level, nothing is done on the next.
LEMMA NotGone ==
  ASSUME Passed, NEW l \in Level, l < Crs, NEW q \in Members(l), ~Sent(q, l), NEW p \in Members(l + 1)
  PROVE  ClassAt(p, l + 1) = "off"
BY DEF Passed, Gone

\* The processes of a level do the same work there.
LEMMA SameWork ==
  ASSUME IInv, Plans, Together, NEW l \in Level, NEW p \in Members(l), NEW q \in Members(l), Busy(p), Busy(q)
  PROVE  /\ ClassAt(q, l) = ClassAt(p, l) /\ calls[q] = calls[p] /\ CallOf(q) = CallOf(p)
         /\ KindAt(q, l) = KindAt(p, l) /\ GivenAt(q, l) = GivenAt(p, l)
<1>1. p \in Proc /\ q \in Proc /\ l \in Nat /\ Top \in Nat /\ Top <= l
  BY SomeMember, LevelFacts
<1>2. calls[q] = calls[p] /\ ClassAt(q, Top) = ClassAt(p, Top)
  BY <1>1 DEF Together, SameCalls
<1>3. \A j \in Level : j <= l => ClassAt(q, j) = ClassAt(p, j)
  <2> SUFFICES ASSUME NEW j \in Level, j <= l PROVE ClassAt(q, j) = ClassAt(p, j)
    OBVIOUS
  <2>1. p \in Members(j) /\ q \in Members(j) /\ j \in Nat /\ Top <= j
    BY MembersBelow, LevelFacts
  <2>2. CASE j = Top
    BY <1>2, <2>2
  <2>3. CASE Top < j
    BY <2>1, <2>3 DEF Together, SameLevel
  <2> QED
    BY <1>1, <2>1, <2>2, <2>3
<1>4. CallOf(q) = CallOf(p)
  BY <1>2 DEF CallOf
<1>5. SecondBefore(q, l) <=> SecondBefore(p, l)
  <2>1. \A j \in Level : j < l => j <= l
    BY <1>1, LevelFacts
  <2> QED
    BY <1>3, <2>1 DEF SecondBefore
<1>6. ClassAt(q, l) = ClassAt(p, l)
  BY <1>1, <1>3
<1> QED
  BY <1>2, <1>4, <1>5, <1>6 DEF KindAt, GivenAt

\* ... on the right-hand side of the level.
LEMMA GivenAgrees ==
  ASSUME IInv, Plans, Together, Given, NEW l \in Level, NEW p \in Members(l), \A q \in Members(l) : Busy(q)
  PROVE  Agree(l, rhs[l], GivenAt(p, l)) /\ Agree(l, GivenAt(p, l), rhs[l]) /\ GivenAt(p, l) \in Vector
<1>1. p \in Proc /\ todo[p] # <<>> /\ rhs[l] \in Vector
  BY SomeMember DEF Busy, ClassAt, IInv, Data
<1>2. CASE l = Top
  <2>1. GivenAt(p, l) = CallOf(p).def /\ CallOf(p).def \in Vector
    BY <1>1, <1>2, HeadOf DEF GivenAt
  <2>2. ASSUME NEW q \in Members(l) PROVE GivenAt(p, l)[q] = rhs[l][q]
    <3>1. CallOf(q) = CallOf(p) /\ q \in Proc
      BY SameWork, SomeMember
    <3>2. rhs[Top][q] = CallOf(q).def[q]
      BY <3>1 DEF Given, HasDef
    <3> QED
      BY <1>2, <2>1, <3>1, <3>2
  <2>3. Agree(l, rhs[l], GivenAt(p, l))
    BY <1>1, <2>2, SomeMember, VectorFacts DEF Agree
  <2> QED
    BY <2>1, <2>3, AgreeSwaps
<1>3. CASE l # Top
  <2>1. GivenAt(p, l) = Within(l, rhs[l])
    BY <1>3 DEF GivenAt
  <2>2. Agree(l, rhs[l], Within(l, rhs[l]))
    BY <1>1, AgreeSame, WithinAgrees
  <2>3. Within(l, rhs[l]) \in Vector
    <3>1. \A q \in Proc : rhs[l][q] \in Num
      BY <1>1, VectorFacts
    <3> QED
      BY <3>1, NumIsInt DEF Within, Vector
  <2> QED
    BY <2>1, <2>2, <2>3, AgreeSwaps
<1> QED
  BY <1>2, <1>3
----------------------------------------------------------------------------
(* What a step of the control flow means for a plan.                       *)

LEMMA PlanNext ==
  ASSUME NEW p, NEW s, s # <<>>, todo'[p] = s, NEW c, counters'[p] = c, CallOf(p)' = CallOf(p)
  PROVE  /\ \A l : ClassAt(p, l)' = ClassOf(p, CallOf(p).cycle, Head(s), Tail(s), c, l)
         /\ PlanAt(p)' <=> IsPlan(p, CallOf(p).cycle, Head(s), Tail(s), c)
         /\ \A l : Sent(p, l)' <=> SentBy(Head(s), l)
         /\ \A op, i : At(p, op, i)' <=> Head(s).op = op /\ Head(s).i = i
BY DEF ClassAt, PlanAt, Sent, At

\* p is in the same call, with the same work done, and has not taken back what it sent.
SameCall(p) == input' = input /\ calls'[p] = calls[p] /\ (todo'[p] = <<>> <=> todo[p] = <<>>)
Keeps(p) ==
  /\ SameCall(p) /\ PlanAt(p)'
  /\ \A l : LevelOf(p, l) => ClassAt(p, l)' = ClassAt(p, l)
  /\ \A l \in Level : l < Crs /\ p \in Members(l) /\ Sent(p, l) => Sent(p, l)'

\* It has solved no more,
Waits(p) == \A l : LevelOf(p, l) /\ Unsolved(p, l) => Unsolved(p, l)'
\* and waits for its level, if it is a parent that has scattered the solution.
StaysSplit(p) == \A l \in Level : At(p, "split", l) => At(p, "split", l)'

LEMMA SameCallOf == ASSUME NEW p, SameCall(p) PROVE CallOf(p)' = CallOf(p)
BY DEF SameCall, CallOf

LEMMA Unmoved ==
  ASSUME Plans, NEW p \in Proc, todo'[p] = todo[p], counters'[p] = counters[p], calls'[p] = calls[p],
         input' = input
  PROVE  Keeps(p) /\ Waits(p) /\ StaysSplit(p)
<1>1. SameCall(p) /\ CallOf(p)' = CallOf(p)
  BY SameCallOf DEF SameCall
<1>2. \A l : ClassAt(p, l)' = ClassAt(p, l)
  BY <1>1 DEF ClassAt
<1>3. PlanAt(p)'
  BY <1>1 DEF Plans, PlanAt
<1>4. \A l : Sent(p, l)' <=> Sent(p, l)
  BY DEF Sent
<1>5. \A op, l : At(p, op, l)' <=> At(p, op, l)
  BY DEF At
<1>6. \A l : Unsolved(p, l)' <=> Unsolved(p, l)
  BY <1>2, <1>5 DEF Unsolved
<1> QED
  BY <1>1, <1>2, <1>3, <1>4, <1>5, <1>6 DEF Keeps, Waits, StaysSplit

\* A new plan of the same classes.
LEMMA NewPlan ==
  ASSUME NEW p \in Proc, todo[p] # <<>>, input' = input, calls'[p] = calls[p],
         NEW s, s # <<>>, todo'[p] = s, NEW c, counters'[p] = c,
         IsPlan(p, CallOf(p).cycle, Head(s), Tail(s), c),
         SameClasses(p, CallOf(p).cycle, Head(todo[p]), Tail(todo[p]), counters[p], Head(s), Tail(s), c),
         \A l \in Level : l < Crs /\ p \in Members(l) /\ SentBy(Head(todo[p]), l) => SentBy(Head(s), l)
  PROVE  Keeps(p)
<1>1. SameCall(p) /\ CallOf(p)' = CallOf(p)
  BY SameCallOf DEF SameCall
<1>2. /\ \A l : ClassAt(p, l)' = ClassOf(p, CallOf(p).cycle, Head(s), Tail(s), c, l)
      /\ PlanAt(p)' <=> IsPlan(p, CallOf(p).cycle, Head(s), Tail(s), c)
      /\ \A l : Sent(p, l)' <=> SentBy(Head(s), l)
  BY <1>1, PlanNext
<1>3. \A l : LevelOf(p, l) => ClassAt(p, l)' = ClassAt(p, l)
  BY <1>2 DEF SameClasses, ClassAt
<1> QED
  BY <1>1, <1>2, <1>3 DEF Keeps, Sent

----------------------------------------------------------------------------
(* What stays as it is.                                                    *)

LEMMA KeepTogether ==
  ASSUME Together, \A p \in Proc : Keeps(p)
  PROVE  Plans' /\ Together'
<1>1. \A p \in Proc : \A l : LevelOf(p, l) => ClassAt(p, l)' = ClassAt(p, l)
  BY DEF Keeps
<1>2. \A p \in Proc : calls'[p] = calls[p] /\ (Busy(p)' <=> Busy(p)) /\ ClassAt(p, Top)' = ClassAt(p, Top)
  BY <1>1, TopIsOurs DEF Keeps, SameCall, Busy, LevelOf
<1>3. \A l \in Level : Top < l => SameLevel(l)'
  <2> SUFFICES ASSUME NEW l \in Level, Top < l, NEW p \in Members(l), NEW q \in Members(l)
               PROVE  ClassAt(p, l)' = ClassAt(q, l)'
    BY DEF SameLevel
  <2>1. LevelOf(p, l) /\ LevelOf(q, l) /\ p \in Proc /\ q \in Proc
    BY SomeMember DEF LevelOf
  <2> QED
    BY <1>1, <2>1 DEF Together, SameLevel
<1>4. \A p, q \in Proc : SameCalls(p, q)'
  BY <1>2 DEF Together, SameCalls
<1>5. Plans'
  BY DEF Keeps, Plans
<1> QED
  BY <1>3, <1>4, <1>5 DEF Together

LEMMA KeepGone ==
  ASSUME NEW l \in Level, l < Crs, Gone(l),
         \A p \in Members(l + 1) : ClassAt(p, l + 1)' # "off" => ClassAt(p, l + 1) # "off",
         \A q \in Members(l) : Sent(q, l) => Sent(q, l)',
         \A q \in Members(l) \ Members(l + 1) : up[q] = <<>> => up'[q] = <<>>
  PROVE  Gone(l)'
BY DEF Gone

\* Nothing is done on the next level.
LEMMA NoneGone ==
  ASSUME NEW l, \A p \in Members(l + 1) : ClassAt(p, l + 1)' = "off"
  PROVE  Gone(l)'
BY DEF Gone

LEMMA KeepUp ==
  ASSUME NEW l \in Level, NEW g \in Members(l), UpIs(l, g), up'[g] = up[g] \/ up'[g] = <<>>,
         g \in Fixed[l] \/ def'[l][g] = def[l][g], Sent(g, l) => Sent(g, l)'
  PROVE  UpIs(l, g)'
<1>1. g \in Proc
  BY SomeMember
<1>2. (Filter(l, def[l])[g])' = Filter(l, def[l])[g]
  BY <1>1 DEF Filter
<1> QED
  BY <1>2 DEF UpIs

LEMMA KeepDown ==
  ASSUME NEW l, NEW g, DownIs(l, g),
         \/ down'[g] = <<>>
         \/ down'[g] = down[g] /\ ~At(Parent[g], "split", l + 1)
         \/ /\ down'[g] = down[g] /\ sol'[l + 1][Parent[g]] = sol[l + 1][Parent[g]]
            /\ At(Parent[g], "split", l + 1)'
  PROVE  DownIs(l, g)'
BY DEF DownIs

LEMMA KeepDef ==
  ASSUME NEW p, HasDef(p), Busy(p)' => Busy(p), SameCall(p), rhs'[Top][p] = rhs[Top][p]
  PROVE  HasDef(p)'
BY SameCallOf DEF HasDef

LEMMA KeepLinked ==
  ASSUME NEW p, NEW l, Linked(p, l), ClassAt(p, l)' # "off" => ClassAt(p, l) # "off",
         rhs'[l] = rhs[l], rhs'[l - 1] = rhs[l - 1], sol'[l - 1] = sol[l - 1]
  PROVE  Linked(p, l)'
BY DEF Linked

LEMMA NotLinked ==
  ASSUME NEW p, NEW l, ClassAt(p, l)' = "off"
  PROVE  Linked(p, l)'
BY DEF Linked

\* The levels before l are of the same classes.
SameBefore(p, l) == \A j \in Level : j < l => ClassAt(p, j)' = ClassAt(p, j)

LEMMA KeepKind ==
  ASSUME NEW p, NEW l, SameBefore(p, l), SameCall(p)
  PROVE  KindAt(p, l)' = KindAt(p, l)
<1>1. SecondBefore(p, l)' <=> SecondBefore(p, l)
  BY DEF SameBefore, SecondBefore
<1> QED
  BY <1>1, SameCallOf DEF KindAt

LEMMA KeepGiven ==
  ASSUME NEW p, NEW l, SameCall(p), l = Top \/ rhs'[l] = rhs[l]
  PROVE  GivenAt(p, l)' = GivenAt(p, l)
BY SameCallOf DEF GivenAt

LEMMA KeepsBefore ==
  ASSUME NEW p \in Proc, Keeps(p), NEW l, LevelOf(p, l)
  PROVE  SameBefore(p, l) /\ ClassAt(p, l)' = ClassAt(p, l) /\ SameCall(p)
<1>1. \A j \in Level : j < l => LevelOf(p, j)
  <2> SUFFICES ASSUME NEW j \in Level, j < l PROVE LevelOf(p, j)
    OBVIOUS
  <2>1. l \in Nat /\ j \in Nat /\ l \in Level /\ p \in Members(l)
    BY LevelFacts DEF LevelOf
  <2>2. j <= l
    BY <2>1
  <2> QED
    BY <2>1, <2>2, MembersBelow
<1> QED
  BY <1>1 DEF Keeps, SameBefore

\* A failure is one of this call.
FailsNow(p) == failed' = failed \/ failed' = calls'[p]

LEMMA KeepSolved ==
  ASSUME NEW p, NEW l, Solved(p, l), SameCall(p), SameBefore(p, l), ClassAt(p, l)' = ClassAt(p, l),
         Unsolved(p, l) => Unsolved(p, l)', l = Top \/ rhs'[l] = rhs[l],
         sol'[l][p] = sol[l][p], FailsNow(p)
  PROVE  Solved(p, l)'
<1>1. KindAt(p, l)' = KindAt(p, l) /\ GivenAt(p, l)' = GivenAt(p, l) /\ CallOf(p)' = CallOf(p)
  BY KeepKind, KeepGiven, SameCallOf
<1> SUFFICES ASSUME ClassAt(p, l)' # "off", ~Unsolved(p, l)', calls'[p] # failed'
             PROVE  sol'[l][p] = Expected(ClassAt(p, l), CallOf(p).adapt, l, KindAt(p, l), GivenAt(p, l))[p]
  BY <1>1 DEF Solved
<1>2. ClassAt(p, l) # "off" /\ ~Unsolved(p, l) /\ calls[p] # failed
  BY DEF FailsNow, SameCall
<1> QED
  BY <1>2 DEF Solved

LEMMA NotSolved ==
  ASSUME NEW p, NEW l, ClassAt(p, l)' = "off" \/ Unsolved(p, l)' \/ calls'[p] = failed'
  PROVE  Solved(p, l)'
BY DEF Solved

LEMMA KeepAnswer ==
  ASSUME NEW p, HasAnswer(p), SameCall(p), FailsNow(p), cor'[p] = cor[p]
  PROVE  HasAnswer(p)'
<1>1. CallOf(p)' = CallOf(p)
  BY SameCallOf
<1> SUFFICES ASSUME todo'[p] = <<>>, calls'[p] > 0, calls'[p] # failed'
             PROVE  cor'[p] = Cycles(CallOf(p).adapt)[Top][CallOf(p).cycle][CallOf(p).def][p]
  BY <1>1 DEF HasAnswer
<1>2. todo[p] = <<>> /\ calls[p] > 0 /\ calls[p] # failed
  BY DEF FailsNow, SameCall
<1> QED
  BY <1>2 DEF HasAnswer
----------------------------------------------------------------------------
(* Steps that no level notices.                                            *)

\* One process goes on.
OnlyStep(p) ==
  /\ \A q \in Proc : q # p => todo'[q] = todo[q] /\ counters'[q] = counters[q] /\ calls'[q] = calls[q]
  /\ input' = input

LEMMA OthersStay ==
  ASSUME Plans, NEW p \in Proc, OnlyStep(p), NEW q \in Proc, q # p
  PROVE  Keeps(q) /\ Waits(q) /\ StaysSplit(q) /\ SameCall(q)
<1>1. Keeps(q) /\ Waits(q) /\ StaysSplit(q)
  BY Unmoved DEF OnlyStep
<1> QED
  BY <1>1 DEF Keeps

LEMMA QuietStep ==
  ASSUME JInv, IInv', NEW p \in Proc, OnlyStep(p), Keeps(p), Waits(p), StaysSplit(p),
         UNCHANGED <<vectors, network, failed, cor>>
  PROVE  JInv'
<1>1. \A q \in Proc : Keeps(q) /\ Waits(q) /\ StaysSplit(q)
  BY OthersStay DEF JInv
<1>2. UNCHANGED <<rhs, sol, def, up, down, failed, cor>>
  BY DEF vectors, network
<1>3. \A q \in Proc : SameCall(q) /\ FailsNow(q)
  BY <1>1, <1>2 DEF Keeps, FailsNow
<1>4. \A q \in Proc : \A l : LevelOf(q, l) => ClassAt(q, l)' = ClassAt(q, l)
  BY <1>1 DEF Keeps
<1>5. Plans' /\ Together'
  BY <1>1, KeepTogether DEF JInv
<1>6. Passed'
  <2> SUFFICES ASSUME NEW l \in Level, l < Crs
               PROVE  Gone(l)' /\ \A g \in Members(l) \ Members(l + 1) : UpIs(l, g)' /\ DownIs(l, g)'
    BY DEF Passed
  <2>1. Gone(l) /\ \A g \in Members(l) \ Members(l + 1) : UpIs(l, g) /\ DownIs(l, g)
    BY DEF JInv, Passed
  <2>2. l + 1 \in Level /\ Members(l) \subseteq Proc /\ Members(l + 1) \subseteq Proc
    BY LevelFacts, SomeMember DEF Members
  <2>3. \A q \in Members(l) : Sent(q, l) => Sent(q, l)'
    BY <1>1, <2>2 DEF Keeps
  <2>4. \A q \in Members(l + 1) : ClassAt(q, l + 1)' = ClassAt(q, l + 1)
    BY <1>4, <2>2 DEF LevelOf
  <2>5. Gone(l)'
    BY <1>2, <2>1, <2>3, <2>4, KeepGone
  <2>6. ASSUME NEW g \in Members(l) \ Members(l + 1) PROVE UpIs(l, g)' /\ DownIs(l, g)'
    <3>1. UpIs(l, g)'
      BY <1>2, <2>1, <2>3, KeepUp
    <3>2. Parent[g] \in Proc
      BY GhostHasParent, <2>2
    <3>3. DownIs(l, g)'
      BY <1>1, <1>2, <2>1, <2>2, <3>2, KeepDown DEF StaysSplit
    <3> QED
      BY <3>1, <3>3
  <2> QED
    BY <2>5, <2>6
<1>7. Given'
  <2>1. \A q \in Proc : HasDef(q)'
    <3> SUFFICES ASSUME NEW q \in Proc PROVE HasDef(q)'
      OBVIOUS
    <3>1. Busy(q)' <=> Busy(q)
      BY <1>4, TopIsOurs DEF Busy, LevelOf
    <3> QED
      BY <1>2, <1>3, <3>1, KeepDef DEF JInv, Given
  <2>2. ASSUME NEW l \in Level, Top < l, NEW q \in Members(l) PROVE Linked(q, l)'
    <3>1. LevelOf(q, l) /\ q \in Proc
      BY SomeMember DEF LevelOf
    <3> QED
      BY <1>2, <1>4, <2>2, <3>1, KeepLinked DEF JInv, Given
  <2> QED
    BY <2>1, <2>2 DEF Given
<1>8. AllSolved'
  <2> SUFFICES ASSUME NEW l \in Level, NEW q \in Members(l) PROVE Solved(q, l)'
    BY DEF AllSolved
  <2>1. LevelOf(q, l) /\ q \in Proc
    BY SomeMember DEF LevelOf
  <2>2. SameBefore(q, l) /\ ClassAt(q, l)' = ClassAt(q, l)
    BY <1>1, <2>1, KeepsBefore
  <2>3. Unsolved(q, l) => Unsolved(q, l)'
    BY <1>1, <2>1 DEF Waits
  <2> QED
    BY <1>2, <1>3, <2>1, <2>2, <2>3, KeepSolved DEF JInv, AllSolved
<1>9. AllAnswered'
  BY <1>2, <1>3, KeepAnswer DEF JInv, AllAnswered
<1> QED
  BY <1>5, <1>6, <1>7, <1>8, <1>9 DEF JInv

----------------------------------------------------------------------------
(* The control flow.                                                       *)

\* With a plan whose head is neither a restriction nor a scatter, a process waits for
\* nothing.
LEMMA WaitsForNothing ==
  ASSUME NEW p \in Proc, Keeps(p),
         \A l : LevelOf(p, l) /\ l # Crs => ~At(p, "rest", l) \/ ClassAt(p, l) # "first", ~In(p, "split")
  PROVE  Waits(p) /\ StaysSplit(p)
<1>1. ASSUME NEW l, LevelOf(p, l), Unsolved(p, l) PROVE Unsolved(p, l)'
  <2>1. ClassAt(p, l)' = ClassAt(p, l) /\ l = Crs
    BY <1>1 DEF Keeps, Unsolved
  <2> QED
    BY <1>1, <2>1 DEF Unsolved
<1>2. \A l : ~At(p, "split", l)
  BY DEF At, In
<1> QED
  BY <1>1, <1>2 DEF Waits, StaysSplit

\* The head e of p's plan.
Now(p, e, t) ==
  /\ todo[p] # <<>> /\ Head(todo[p]) = e /\ Tail(todo[p]) = t
  /\ IsHead(p, CallOf(p).cycle, e, t, counters[p])

LEMMA NowIs ==
  ASSUME JInv, NEW p \in Proc, todo[p] # <<>>
  PROVE  Now(p, Head(todo[p]), Tail(todo[p]))
BY HeadOf DEF JInv, Now

LEMMA LoopEndsJ ==
  ASSUME JInv, IInv', NEW p \in Proc, LoopEnds(p)
  PROVE  JInv'
<1> DEFINE e == Head(todo[p])
           t == Tail(todo[p])
           cycle == CallOf(p).cycle
<1>1. /\ todo[p] # <<>>
      /\ \/ e.op = "rest" /\ e.i >= LastLevel(p)
         \/ e.op = "prol" /\ e.i <= e.lvl
      /\ todo' = [todo EXCEPT ![p] = t] /\ UNCHANGED <<input, calls, counters>>
      /\ UNCHANGED <<vectors, network, failed, cor>>
  BY DEF LoopEnds, In, driver, outcome
<1>2. Now(p, e, t)
  BY <1>1, NowIs
<1>3. IsHead(p, cycle, e, t, counters[p]) /\ e.op \in RestOps \cup ProlOps
  BY <1>1, <1>2 DEF Now, RestOps, ProlOps
<1>4. todo'[p] = t /\ OnlyStep(p)
  BY <1>1 DEF JInv, IInv, CycleControl, OnlyStep
<1>5. t # <<>> /\ IsPlan(p, cycle, Head(t), Tail(t), counters[p])
  BY <1>3, TailPlan
<1>6. e.i \in Int /\ (e.op = "prol" => e.lvl <= e.i /\ e.lvl \in Int)
  BY <1>3, HeadIs DEF RestOps, ProlOps
<1>7. \A l : LevelOf(p, l) => l \in Nat /\ l <= LastLevel(p) /\ LastLevel(p) \in Nat /\ (l = LastLevel(p) => l = Crs)
  BY LevelOfFacts
<1> HIDE DEF e, t, cycle
<1>8. CASE e.op = "rest"
  <2>1. SameClasses(p, cycle, e, t, counters[p], Head(t), Tail(t), counters[p])
    <3>1. \A l : LevelOf(p, l) => l <= e.i
      BY <1>1, <1>6, <1>7, <1>8
    <3> QED
      BY <1>3, <1>8, <3>1, RestEnds DEF RestOps
  <2>2. Head(t).op \in {"coarse", "floop"}
    <3>1. e.op \in RestOps /\ cycle \in {"V", "F", "W"}
      BY <1>3, <1>8, HeadIs DEF RestOps
    <3> QED
      BY <1>3, <3>1, TailOfRest
  <2>3. \A l : SentBy(Head(t), l)
    BY <2>2 DEF SentBy
  <2>4. Keeps(p)
    BY <1>1, <1>4, <1>5, <2>1, <2>3, NewPlan DEF e, t, cycle
  <2>5. \A l : LevelOf(p, l) /\ l # Crs => ~At(p, "rest", l)
    BY <1>1, <1>6, <1>7, <1>8 DEF At, e
  <2>6. ~In(p, "split")
    BY <1>8 DEF In, e
  <2> QED
    BY <1>1, <1>4, <2>4, <2>5, <2>6, WaitsForNothing, QuietStep
<1>9. CASE e.op = "prol"
  <2>1. e.i = e.lvl /\ e.op \in ProlOps
    BY <1>1, <1>6, <1>9 DEF ProlOps
  <2>2. SameClasses(p, cycle, e, t, counters[p], Head(t), Tail(t), counters[p])
    BY <1>3, <2>1, ProlEnds
  <2>3. ASSUME NEW l \in Level, l < Crs, p \in Members(l), SentBy(e, l) PROVE SentBy(Head(t), l)
    <3>1. l < e.i /\ l \in Nat /\ Top <= l /\ Top \in Nat
      BY <1>9, <2>3, LevelFacts DEF SentBy
    <3>2. e.smooth \in BOOLEAN
      BY <1>3, <2>1, HeadIs
    <3>3. Head(t).op = "peak" /\ Head(t).i = e.i
      BY <1>3, <1>6, <2>1, <3>1, <3>2, TailOfProl
    <3> QED
      BY <3>1, <3>3 DEF SentBy
  <2>4. Keeps(p)
    BY <1>1, <1>4, <1>5, <2>2, <2>3, NewPlan DEF e, t, cycle
  <2>5. \A l : ~At(p, "rest", l)
    BY <1>9 DEF At, e
  <2>6. ~In(p, "split")
    BY <1>9 DEF In, e
  <2> QED
    BY <1>1, <1>4, <2>4, <2>5, <2>6, WaitsForNothing, QuietStep
<1> QED
  BY <1>1, <1>8, <1>9

LEMMA NoCoarseLevelJ ==
  ASSUME JInv, IInv', NEW p \in Proc, NoCoarseLevel(p)
  PROVE  JInv'
<1> DEFINE e == Head(todo[p])
           t == Tail(todo[p])
           cycle == CallOf(p).cycle
<1>1. /\ todo[p] # <<>> /\ e.op = "coarse" /\ p \notin Members(Crs)
      /\ todo' = [todo EXCEPT ![p] = t] /\ UNCHANGED <<input, calls, counters>>
      /\ UNCHANGED <<vectors, network, failed, cor>>
  BY DEF NoCoarseLevel, In, driver, outcome
<1>2. IsHead(p, cycle, e, t, counters[p])
  BY <1>1, NowIs DEF Now
<1>3. todo'[p] = t /\ OnlyStep(p)
  BY <1>1 DEF JInv, IInv, CycleControl, OnlyStep
<1>4. t # <<>> /\ IsPlan(p, cycle, Head(t), Tail(t), counters[p])
  BY <1>1, <1>2, TailPlan
<1>5. SameClasses(p, cycle, e, t, counters[p], Head(t), Tail(t), counters[p])
  <2>1. \A l : LevelOf(p, l) => l # Crs
    BY <1>1 DEF LevelOf
  <2> HIDE DEF e, t, cycle
  <2>2. \A l : LevelOf(p, l) => ClassOf(p, cycle, Head(t), Tail(t), counters[p], l) = ClassOf(p, cycle, e, t, counters[p], l)
    BY <1>1, <1>2, <2>1, CoarseEnds
  <2> QED
    BY <2>2 DEF SameClasses
<1>6. \/ Head(t).op = "prol" /\ Head(t).i = LastLevel(p)
      \/ Head(t).op \in {"wstart", "wloop"}
  <2>1. ComesAfterCoarse(p, cycle, Head(t)) /\ cycle \in {"V", "F", "W"}
    BY <1>1, <1>2, TailOfCoarse, HeadIs
  <2> QED
    BY <2>1 DEF ComesAfterCoarse
<1>7. \A l \in Level : l < Crs /\ p \in Members(l) => SentBy(Head(t), l)
  BY <1>6, LastFacts DEF SentBy, ProlOps
<1>8. (\A l : ~At(p, "rest", l)) /\ ~In(p, "split")
  BY <1>1 DEF At, In
<1> HIDE DEF e, t, cycle
<1>9. Keeps(p)
  BY <1>1, <1>3, <1>4, <1>5, <1>7, NewPlan DEF e, t, cycle
<1> QED
  BY <1>1, <1>3, <1>8, <1>9, WaitsForNothing, QuietStep

LEMMA FLoopJ ==
  ASSUME JInv, IInv', NEW p \in Proc, FLoop(p)
  PROVE  JInv'
<1> DEFINE e == Head(todo[p])
           t == Tail(todo[p])
           cycle == CallOf(p).cycle
           s == FCalls(p, e.i)
<1>1. /\ todo[p] # <<>> /\ e.op = "floop"
      /\ todo' = [todo EXCEPT ![p] = s] /\ UNCHANGED <<input, calls, counters>>
      /\ UNCHANGED <<vectors, network, failed, cor>>
  BY DEF FLoop, In, driver, outcome
<1>2. IsHead(p, cycle, e, t, counters[p])
  BY <1>1, NowIs DEF Now
<1>3. todo'[p] = s /\ OnlyStep(p)
  BY <1>1 DEF JInv, IInv, CycleControl, OnlyStep
<1>4. /\ s # <<>> /\ IsPlan(p, cycle, Head(s), Tail(s), counters[p])
      /\ SameClasses(p, cycle, e, t, counters[p], Head(s), Tail(s), counters[p])
  <2> HIDE DEF s, e, t, cycle
  <2> QED
    BY <1>1, <1>2, FGoesOn DEF s
<1>5. Head(s).op = "coarse"
  <2>1. e.i \in Int /\ IsPart(p, cycle, e) /\ LastLevel(p) \in Nat
    BY <1>2, HeadIs, LevelOfFacts
  <2>2. e.i < LastLevel(p)
    BY <1>1, <2>1 DEF IsPart
  <2> QED
    BY <2>1, <2>2, FTodo
<1>6. \A l : SentBy(Head(s), l)
  BY <1>5 DEF SentBy
<1>7. (\A l : ~At(p, "rest", l)) /\ ~In(p, "split")
  BY <1>1 DEF At, In
<1> HIDE DEF e, t, cycle, s
<1>8. Keeps(p)
  BY <1>1, <1>3, <1>4, <1>6, NewPlan DEF e, t, cycle
<1> QED
  BY <1>1, <1>3, <1>7, <1>8, WaitsForNothing, QuietStep
----------------------------------------------------------------------------

LEMMA WStartJ ==
  ASSUME JInv, IInv', NEW p \in Proc, WStart(p)
  PROVE  JInv'
<1> DEFINE e == Head(todo[p])
           t == Tail(todo[p])
           cycle == CallOf(p).cycle
           s == <<Do("wloop")>>
           d == StartCounters(counters[p], p)
<1>1. /\ todo[p] # <<>> /\ e.op = "wstart"
      /\ todo' = [todo EXCEPT ![p] = s] /\ counters' = [counters EXCEPT ![p] = d]
      /\ UNCHANGED <<input, calls>> /\ UNCHANGED <<vectors, network, failed, cor>>
  BY DEF WStart, In, outcome
<1>2. IsHead(p, cycle, e, t, counters[p])
  BY <1>1, NowIs DEF Now
<1>3. todo'[p] = s /\ counters'[p] = d /\ OnlyStep(p)
  BY <1>1 DEF JInv, IInv, CycleControl, Data, OnlyStep
<1>4. \A l \in Level : l < LastLevel(p) => d[l] = 0
  <2>1. \A l \in Level : l < LastLevel(p) => l <= LastLevel(p)
    BY LevelFacts, LevelOfFacts
  <2> QED
    BY <2>1 DEF StartCounters
<1>5. s # <<>> /\ Head(s) = Do("wloop") /\ Tail(s) = <<>>
  BY TupleOf1
<1> HIDE DEF e, t, cycle, s, d
<1>6. /\ IsPlan(p, cycle, Do("wloop"), <<>>, d)
      /\ SameClasses(p, cycle, e, t, counters[p], Do("wloop"), <<>>, d)
  BY <1>1, <1>2, <1>4, WStarts
<1>7. \A l : SentBy(Head(s), l)
  BY <1>5 DEF SentBy, Do
<1>8. (\A l : ~At(p, "rest", l)) /\ ~In(p, "split")
  BY <1>1 DEF At, In, e
<1>9. Keeps(p)
  BY <1>1, <1>3, <1>5, <1>6, <1>7, NewPlan DEF e, t, cycle
<1> QED
  BY <1>1, <1>3, <1>8, <1>9, WaitsForNothing, QuietStep

LEMMA WLoopJ ==
  ASSUME JInv, IInv', NEW p \in Proc, WLoop(p)
  PROVE  JInv'
<1> DEFINE e == Head(todo[p])
           t == Tail(todo[p])
           cycle == CallOf(p).cycle
           peak == PeakLevel(p)
           s == WCalls(p, peak)
           d == StepCounters(counters[p], p, peak)
<1>1. /\ todo[p] # <<>> /\ e.op = "wloop" /\ In(p, "wloop") /\ cgs[p] < 2 ^ (LastLevel(p) - Top)
      /\ todo' = [todo EXCEPT ![p] = s] /\ counters' = [counters EXCEPT ![p] = d]
      /\ UNCHANGED <<input, calls>> /\ UNCHANGED <<vectors, network, failed, cor>>
  BY DEF WLoop, In, outcome
<1>2. IsHead(p, cycle, e, t, counters[p])
  BY <1>1, NowIs DEF Now
<1>3. todo'[p] = s /\ counters'[p] = d /\ OnlyStep(p)
  BY <1>1 DEF JInv, IInv, CycleControl, Data, OnlyStep
<1>4. cgs[p] \in Int /\ CountFor(p, counters[p], cgs[p])
  BY <1>1, CountingFacts DEF JInv
<1>5. /\ peak \in Top .. LastLevel(p) - 1 /\ counters[p][peak] = 0
      /\ \A l \in peak + 1 .. LastLevel(p) - 1 : counters[p][l] = 1
  <2>1. \A l \in Top .. LastLevel(p) - 1 : counters[p][l] \in {0, 1}
    BY <1>4 DEF CountFor
  <2> DEFINE full == 2 ^ (LastLevel(p) - Top)
  <2>2. full \in Int
    BY LevelRange, Powers
  <2>3. cgs[p] < full /\ (cgs[p] = full <=> \A l \in Top .. LastLevel(p) - 1 : counters[p][l] = 1)
    BY <1>1, <1>4, CountIsBounded
  <2> HIDE DEF full
  <2>4. \E l \in Top .. LastLevel(p) - 1 : counters[p][l] # 1
    BY <1>4, <2>2, <2>3
  <2> QED
    BY <2>1, <2>4, PeakIs
<1>6. Top \in Nat /\ LastLevel(p) \in Nat /\ Top .. LastLevel(p) - 1 \subseteq Level
  BY LevelRange, LevelOfFacts
<1>7. Head(s).op = "prol" /\ Head(s).i = LastLevel(p)
  <2>1. peak \in Level /\ peak <= LastLevel(p)
    BY <1>5, <1>6
  <2>2. Head(s) = DoProl(p, peak, FALSE)
    BY <2>1, WTodo
  <2> QED
    BY <2>2 DEF DoProl
<1> HIDE DEF e, t, cycle, peak
<1>8. peak \in Level /\ peak < LastLevel(p) /\ \A l \in Level : peak < l /\ l < LastLevel(p) => counters[p][l] = 1
  <2>1. peak \in Level /\ peak \in Nat /\ peak < LastLevel(p)
    BY <1>5, <1>6
  <2>2. \A l \in Level : l \in Nat
    BY LevelFacts
  <2>3. \A l \in Level : peak < l /\ l < LastLevel(p) => l \in peak + 1 .. LastLevel(p) - 1
    BY <1>6, <2>1, <2>2
  <2> QED
    BY <1>5, <2>1, <2>3
<1>9. /\ s # <<>> /\ IsPlan(p, cycle, Head(s), Tail(s), d)
      /\ SameClasses(p, cycle, e, t, counters[p], Head(s), Tail(s), d)
  <2> HIDE DEF s, d
  <2> QED
    BY <1>1, <1>2, <1>5, <1>8, WGoesOn DEF s, d
<1>10. \A l \in Level : l < Crs /\ p \in Members(l) => SentBy(Head(s), l)
  BY <1>7, LastFacts DEF SentBy, ProlOps
<1>11. (\A l : ~At(p, "rest", l)) /\ ~In(p, "split")
  BY <1>1 DEF At, In, e
<1> HIDE DEF s, d
<1>12. Keeps(p)
  BY <1>1, <1>3, <1>9, <1>10, NewPlan DEF e, t, cycle
<1> QED
  BY <1>1, <1>3, <1>11, <1>12, WaitsForNothing, QuietStep

LEMMA WEndJ ==
  ASSUME JInv, IInv', NEW p \in Proc, WEnd(p)
  PROVE  JInv'
<1> DEFINE e == Head(todo[p])
           t == Tail(todo[p])
           cycle == CallOf(p).cycle
           s == <<DoProl(p, Top, TRUE), Do("return")>>
<1>1. /\ todo[p] # <<>> /\ e.op = "wloop" /\ In(p, "wloop") /\ cgs[p] >= 2 ^ (LastLevel(p) - Top)
      /\ todo' = [todo EXCEPT ![p] = s] /\ UNCHANGED <<input, calls, counters>>
      /\ UNCHANGED <<vectors, network, failed, cor>>
  BY DEF WEnd, In, driver
<1>2. IsHead(p, cycle, e, t, counters[p])
  BY <1>1, NowIs DEF Now
<1>3. todo'[p] = s /\ OnlyStep(p)
  BY <1>1 DEF JInv, IInv, CycleControl, Data, OnlyStep
<1>4. cgs[p] \in Int /\ CountFor(p, counters[p], cgs[p])
  BY <1>1, CountingFacts DEF JInv
<1>5. \A l \in Top .. LastLevel(p) - 1 : counters[p][l] = 1
  <2> DEFINE full == 2 ^ (LastLevel(p) - Top)
  <2>1. full \in Int
    BY LevelRange, Powers
  <2>2. /\ cgs[p] >= full /\ cgs[p] <= full
        /\ cgs[p] = full <=> \A l \in Top .. LastLevel(p) - 1 : counters[p][l] = 1
    BY <1>1, <1>4, CountIsBounded
  <2> HIDE DEF full
  <2> QED
    BY <1>4, <2>1, <2>2
<1>6. \A l \in Level : l < LastLevel(p) => counters[p][l] = 1
  BY <1>5, LevelRange
<1>7. Head(s) = DoProl(p, Top, TRUE)
  BY TupleOf2
<1> HIDE DEF e, t, cycle, s
<1>8. /\ s # <<>> /\ IsPlan(p, cycle, Head(s), Tail(s), counters[p])
      /\ SameClasses(p, cycle, e, t, counters[p], Head(s), Tail(s), counters[p])
  BY <1>1, <1>2, <1>6, WEnds DEF s
<1>9. \A l \in Level : l < Crs /\ p \in Members(l) => SentBy(Head(s), l)
  BY <1>7, LastFacts DEF SentBy, ProlOps, DoProl
<1>10. (\A l : ~At(p, "rest", l)) /\ ~In(p, "split")
  BY <1>1 DEF At, In, e
<1>11. Keeps(p)
  BY <1>1, <1>3, <1>8, <1>9, NewPlan DEF e, t, cycle
<1> QED
  BY <1>1, <1>3, <1>10, <1>11, WaitsForNothing, QuietStep

----------------------------------------------------------------------------
\* A loop goes on in p with op and index i.
LoopGoes(p, op, i) ==
  LET e == Head(todo[p])
  IN  /\ todo[p] # <<>> /\ i \in Level
      /\ \/ e.op \in RestOps /\ op \in RestOps
         \/ e.op \in ProlOps /\ op \in ProlOps
      /\ e.lvl <= i /\ i <= LastLevel(p) /\ (op = "transfer" => i < LastLevel(p))
      /\ todo'[p] = LoopGoesOn(p, op, i) /\ counters'[p] = counters[p]
      /\ calls'[p] = calls[p] /\ input' = input

\* This is what p has to do then.
GoesTo(p, e, t, op, i) ==
  /\ todo'[p] # <<>> /\ Head(todo'[p]) = GoneOn(e, op, i) /\ Tail(todo'[p]) = t
  /\ SameCall(p) /\ CallOf(p)' = CallOf(p) /\ PlanAt(p)'
  /\ \A l : ClassAt(p, l)' = ClassOf(p, CallOf(p).cycle, GoneOn(e, op, i), t, counters[p], l)
  /\ \A l : Sent(p, l)' <=> SentBy(GoneOn(e, op, i), l)
  /\ \A o, l : At(p, o, l)' <=> o = op /\ l = i

LEMMA GoesOnTo ==
  ASSUME JInv, NEW p \in Proc, NEW op, NEW i, LoopGoes(p, op, i)
  PROVE  GoesTo(p, Head(todo[p]), Tail(todo[p]), op, i)
<1> DEFINE e == Head(todo[p])
           t == Tail(todo[p])
           s == LoopGoesOn(p, op, i)
           f == GoneOn(e, op, i)
<1>1. /\ todo[p] # <<>> /\ i \in Level /\ e.lvl <= i /\ i <= LastLevel(p) /\ (op = "transfer" => i < LastLevel(p))
      /\ \/ e.op \in RestOps /\ op \in RestOps
         \/ e.op \in ProlOps /\ op \in ProlOps
      /\ todo'[p] = s /\ counters'[p] = counters[p] /\ SameCall(p)
  <2>1. s # <<>>
    BY GoesOnFacts DEF LoopGoes, RestOps, ProlOps, JInv, IsGoodTodo
  <2> QED
    BY <2>1 DEF LoopGoes, SameCall
<1>2. s # <<>> /\ Head(s) = f /\ s \in Seq(Entry) /\ todo[p] \in Seq(Entry)
      /\ Len(s) = Len(todo[p]) /\ \A k \in 1 .. Len(s) : k # 1 => s[k] = todo[p][k]
  <2>1. todo \in [Proc -> Seq(Entry)] /\ IsTodo(p, todo[p])
    BY DEF JInv, IInv, CycleControl
  <2> QED
    BY <1>1, <2>1, TodoGoesOn DEF RestOps, ProlOps, GoneOn
<1>3. Tail(s) = t
  <2> HIDE DEF s
  <2> DEFINE r == todo[p]
  <2>1. r \in Seq(Entry) /\ s \in Seq(Entry) /\ r # <<>> /\ s # <<>>
    BY <1>1, <1>2
  <2>2. Len(s) = Len(r) /\ \A k \in 1 .. Len(s) : k # 1 => s[k] = r[k]
    BY <1>2
  <2> HIDE DEF r
  <2>3. Tail(s) = Tail(r)
    BY <2>1, <2>2
  <2> QED
    BY <2>3 DEF r
<1>4. IsHead(p, CallOf(p).cycle, e, t, counters[p])
  BY <1>1, NowIs DEF Now
<1>5. IsPlan(p, CallOf(p).cycle, f, t, counters[p])
  <2> HIDE DEF e, t
  <2> QED
    BY <1>1, <1>4, GoesOnPlan
<1>6. CallOf(p)' = CallOf(p)
  BY <1>1, SameCallOf
<1> HIDE DEF e, t, s
<1>7. /\ \A l : ClassAt(p, l)' = ClassOf(p, CallOf(p).cycle, f, t, counters[p], l)
      /\ PlanAt(p)' <=> IsPlan(p, CallOf(p).cycle, f, t, counters[p])
      /\ \A l : Sent(p, l)' <=> SentBy(f, l)
      /\ \A o, l : At(p, o, l)' <=> f.op = o /\ f.i = l
  <2> HIDE DEF f
  <2>1. s # <<>> /\ todo'[p] = s /\ counters'[p] = counters[p] /\ CallOf(p)' = CallOf(p) /\ Head(s) = f /\ Tail(s) = t
    BY <1>1, <1>2, <1>3, <1>6
  <2> QED
    BY <2>1, PlanNext
<1>8. f.op = op /\ f.i = i
  BY DEF GoneOn
<1>9. GoesTo(p, e, t, op, i)
  BY <1>1, <1>2, <1>3, <1>5, <1>6, <1>7, <1>8 DEF GoesTo
<1> QED
  BY <1>9 DEF e, t

LEMMA FromPeakJ ==
  ASSUME JInv, IInv', NEW p \in Proc, FromPeak(p)
  PROVE  JInv'
<1> DEFINE e == Head(todo[p])
           t == Tail(todo[p])
           cycle == CallOf(p).cycle
<1>1. /\ todo[p] # <<>> /\ e.op = "rest" /\ ~(e.smooth \/ e.i # e.lvl) /\ e.i < LastLevel(p)
      /\ todo' = [todo EXCEPT ![p] = LoopGoesOn(p, "transfer", e.i)] /\ UNCHANGED <<input, calls, counters>>
      /\ UNCHANGED <<vectors, network, failed, cor>>
  BY DEF FromPeak, In, driver, outcome, Smooths
<1>2. IsHead(p, cycle, e, t, counters[p])
  BY <1>1, NowIs DEF Now
<1>3. todo'[p] = LoopGoesOn(p, "transfer", e.i) /\ OnlyStep(p)
  BY <1>1 DEF JInv, IInv, CycleControl, OnlyStep
<1>4. e.i \in Level /\ e.lvl <= e.i /\ e.i \in Nat /\ LastLevel(p) \in Nat /\ LastLevel(p) <= Crs /\ Crs \in Nat
  <2> HIDE DEF e, t
  <2> QED
    BY <1>1, <1>2, HeadIs, LevelOfFacts DEF RestOps
<1>5. LoopGoes(p, "transfer", e.i)
  BY <1>1, <1>3, <1>4 DEF LoopGoes, RestOps
<1>6. GoesTo(p, e, t, "transfer", e.i)
  BY <1>5, GoesOnTo
<1>7. (\A l : At(p, "rest", l) => l = e.i) /\ ~In(p, "split")
  BY <1>1 DEF At, In
<1> HIDE DEF e, t, cycle
<1>8. SameClasses(p, cycle, e, t, counters[p], GoneOn(e, "transfer", e.i), t, counters[p])
  BY <1>1, <1>2, GoesOnSame DEF RestOps
<1>9. \A l : LevelOf(p, l) => ClassAt(p, l)' = ClassAt(p, l)
  BY <1>1, <1>6, <1>8 DEF GoesTo, SameClasses, ClassAt, cycle, e, t
<1>10. Keeps(p)
  <2>1. \A l : SentBy(e, l) => SentBy(GoneOn(e, "transfer", e.i), l)
    BY <1>1 DEF SentBy, GoneOn, RestOps, ProlOps
  <2>2. \A l : Sent(p, l) => Sent(p, l)'
    BY <1>6, <2>1 DEF GoesTo, Sent, e
  <2> QED
    BY <1>6, <1>9, <2>2 DEF Keeps, GoesTo
<1>11. ClassAt(p, e.i) # "first"
  <2>1. Visit(p, cycle, e, t, counters[p], e.i) # "first"
    BY <1>1, <1>2, SmoothsAtFirst DEF RestOps
  <2>2. ClassOf(p, cycle, e, t, counters[p], e.i) = Visit(p, cycle, e, t, counters[p], e.i)
    BY <1>1, <1>4 DEF ClassOf, RestOps, ProlOps
  <2> QED
    BY <1>1, <2>1, <2>2 DEF ClassAt, cycle, e, t
<1> QED
  BY <1>1, <1>3, <1>7, <1>10, <1>11, WaitsForNothing, QuietStep
----------------------------------------------------------------------------
(* Steps on the vectors of one level.                                      *)

\* A process is a ghost on one level only.
LEMMA OneGhostLevel ==
  ASSUME NEW l \in Level, NEW j \in Level, NEW g,
         g \in Members(l) \ Members(l + 1), g \in Members(j) \ Members(j + 1)
  PROVE  l = j
<1>1. g \in Proc /\ Phys[g] > l /\ Phys[g] > j /\ ~(Phys[g] > l + 1) /\ ~(Phys[g] > j + 1)
  BY DEF Members
<1>2. Phys[g] \in Nat /\ l \in Nat /\ j \in Nat
  BY <1>1, LevelFacts
<1> QED
  BY <1>1, <1>2

LEMMA NextLevel ==
  ASSUME NEW l \in Level, l < Crs
  PROVE  /\ l + 1 \in Level /\ l \in Nat /\ Top <= l /\ Top \in Nat /\ Crs \in Nat /\ (l + 1) - 1 = l /\ Top < l + 1
         /\ Members(l) \subseteq Proc /\ Members(l + 1) \subseteq Members(l) /\ Members(l + 1) # {}
<1>1. l + 1 \in Level /\ l \in Nat /\ Top <= l /\ Top \in Nat /\ Crs \in Nat /\ (l + 1) - 1 = l /\ Top < l + 1 /\ l <= l + 1
  BY LevelFacts
<1>2. Members(l + 1) # {} /\ Members(l) \subseteq Proc
  BY <1>1, SomeMember
<1> QED
  BY <1>1, <1>2, MembersBelow

\* q goes on so that nobody waits for it who has not waited before.
PassesOn(q) ==
  \A j \in Level :
    /\ j < Crs /\ q \in Members(j) /\ Sent(q, j) => Sent(q, j)'
    /\ q \in Members(j) /\ ClassAt(q, j)' # "off" => ClassAt(q, j) # "off"
    /\ At(q, "split", j) => At(q, "split", j)'

LEMMA KeepsPasses ==
  ASSUME NEW q \in Proc, Keeps(q), StaysSplit(q)
  PROVE  PassesOn(q)
BY DEF Keeps, StaysSplit, PassesOn, LevelOf

\* The processes S of level l, which have not yet gone from it, compute.
Computes(S, l) ==
  /\ S \subseteq Members(l)
  /\ \A j \in Level : j # l => sol'[j] = sol[j] /\ def'[j] = def[j]
  /\ \A q \in Members(l) \ S : sol'[l][q] = sol[l][q] /\ def'[l][q] = def[l][q]
  /\ \A q \in S : ~In(q, "split") /\ (l < Crs => ~Sent(q, l))
  /\ UNCHANGED <<input, rhs, up, down>>

LEMMA PassedStep ==
  ASSUME JInv, \A q \in Proc : PassesOn(q), NEW l \in Level, NEW S, Computes(S, l)
  PROVE  Passed'
<1> SUFFICES ASSUME NEW j \in Level, j < Crs
             PROVE  Gone(j)' /\ \A g \in Members(j) \ Members(j + 1) : UpIs(j, g)' /\ DownIs(j, g)'
  BY DEF Passed
<1>1. Gone(j) /\ \A g \in Members(j) \ Members(j + 1) : UpIs(j, g) /\ DownIs(j, g)
  BY DEF JInv, Passed
<1>2. j + 1 \in Level /\ Members(j) \subseteq Proc /\ Members(j + 1) \subseteq Proc
  BY NextLevel
<1>3. \A q \in Members(j) : Sent(q, j) => Sent(q, j)'
  BY <1>2 DEF PassesOn
<1>4. \A q \in Members(j + 1) : ClassAt(q, j + 1)' # "off" => ClassAt(q, j + 1) # "off"
  BY <1>2 DEF PassesOn
<1>5. UNCHANGED <<up, down>>
  BY DEF Computes
<1>6. Gone(j)'
  BY <1>1, <1>3, <1>4, <1>5, KeepGone
<1>7. ASSUME NEW g \in Members(j) \ Members(j + 1) PROVE UpIs(j, g)' /\ DownIs(j, g)'
  <2>1. UpIs(j, g)'
    <3>1. CASE j = l /\ g \in S
      <4>1. up[g] = <<>>
        BY <1>1, <1>7, <3>1 DEF UpIs, Computes
      <4> QED
        BY <1>5, <4>1 DEF UpIs
    <3>2. CASE ~(j = l /\ g \in S)
      <4>1. def'[j][g] = def[j][g]
        BY <1>7, <3>2 DEF Computes
      <4> QED
        BY <1>1, <1>3, <1>5, <1>7, <4>1, KeepUp
    <3> QED
      BY <3>1, <3>2
  <2>2. Parent[g] \in Members(j + 1) /\ Parent[g] \in Proc
    BY <1>2, GhostHasParent
  <2>3. CASE j + 1 = l /\ Parent[g] \in S
    <3>1. ~At(Parent[g], "split", j + 1)
      BY <2>3 DEF Computes, At, In
    <3> QED
      BY <1>1, <1>5, <2>1, <3>1, KeepDown
  <2>4. CASE ~(j + 1 = l /\ Parent[g] \in S)
    <3>1. sol'[j + 1][Parent[g]] = sol[j + 1][Parent[g]]
      BY <1>2, <2>2, <2>4 DEF Computes
    <3>2. At(Parent[g], "split", j + 1) => At(Parent[g], "split", j + 1)'
      BY <1>2, <2>2 DEF PassesOn
    <3> QED
      BY <1>1, <1>5, <2>1, <3>1, <3>2, KeepDown
  <2> QED
    BY <2>3, <2>4
<1> QED
  BY <1>6, <1>7

\* What the next level has been given is not computed from what changes.
LEMMA LinkedStep ==
  ASSUME JInv, \A q \in Proc : PassesOn(q), NEW l \in Level, NEW S, Computes(S, l), S # {},
         NEW j \in Level, Top < j, NEW p \in Members(j)
  PROVE  Linked(p, j)'
<1>1. p \in Proc /\ j \in Nat /\ l \in Nat /\ Crs \in Nat /\ Top \in Nat /\ j <= Crs
  BY SomeMember, LevelFacts
<1>2. ClassAt(p, j)' # "off" => ClassAt(p, j) # "off"
  BY <1>1 DEF PassesOn
<1>3. CASE j - 1 = l
  <2>1. j = l + 1 /\ l < Crs
    BY <1>1, <1>3
  <2>2. PICK q \in S : TRUE
    OBVIOUS
  <2>3. q \in Members(l) /\ ~Sent(q, l)
    BY <2>1 DEF Computes
  <2>4. ClassAt(p, j) = "off"
    BY <2>1, <2>3, NotGone DEF JInv
  <2> QED
    BY <1>2, <2>4, NotLinked
<1>4. CASE j - 1 # l
  <2>1. j - 1 \in Level
    BY <1>1, LevelFacts
  <2>2. sol'[j - 1] = sol[j - 1] /\ rhs' = rhs
    BY <1>4, <2>1 DEF Computes
  <2>3. Linked(p, j)
    BY DEF JInv, Given
  <2> QED
    BY <1>2, <2>2, <2>3, KeepLinked
<1> QED
  BY <1>3, <1>4

\* A step that changes no classes.
LEMMA DataStep ==
  ASSUME JInv, IInv', \A q \in Proc : Keeps(q), Passed', AllSolved',
         \A j \in Level, q \in Proc : Top < j /\ q \in Members(j) => Linked(q, j)',
         rhs' = rhs, cor' = cor, failed' = failed
  PROVE  JInv'
<1>1. \A q \in Proc : SameCall(q) /\ FailsNow(q)
  BY DEF Keeps, FailsNow
<1>2. Plans' /\ Together'
  BY KeepTogether DEF JInv
<1>3. Given'
  <2>1. ASSUME NEW q \in Proc PROVE HasDef(q)'
    <3>1. Busy(q)' <=> Busy(q)
      BY TopIsOurs DEF Busy, LevelOf, Keeps
    <3> QED
      BY <1>1, <3>1, KeepDef DEF JInv, Given
  <2>2. \A j \in Level : \A q \in Members(j) : q \in Proc
    BY SomeMember
  <2> QED
    BY <2>1, <2>2 DEF Given
<1>4. AllAnswered'
  BY <1>1, KeepAnswer DEF JInv, AllAnswered
<1> QED
  BY <1>2, <1>3, <1>4 DEF JInv

\* The others' solutions.
LEMMA OtherSolved ==
  ASSUME JInv, NEW q \in Proc, Keeps(q), NEW j, LevelOf(q, j), Unsolved(q, j) => Unsolved(q, j)',
         sol'[j][q] = sol[j][q], rhs' = rhs, failed' = failed
  PROVE  Solved(q, j)'
<1>1. SameBefore(q, j) /\ ClassAt(q, j)' = ClassAt(q, j) /\ SameCall(q)
  BY KeepsBefore
<1>2. Solved(q, j)
  BY DEF JInv, AllSolved, LevelOf
<1> QED
  BY <1>1, <1>2, KeepSolved DEF FailsNow

\* Right-hand sides are vectors.
LEMMA GivenIs ==
  ASSUME JInv, NEW p \in Proc, NEW l \in Level, l = Top => todo[p] # <<>>
  PROVE  GivenAt(p, l) \in Vector
<1>1. CASE l = Top
  <2>1. CallOf(p).def \in Vector
    BY <1>1, HeadOf DEF JInv
  <2> QED
    BY <1>1, <2>1 DEF GivenAt
<1>2. CASE l # Top
  <2>1. \A q \in Proc : rhs[l][q] \in Num
    BY VectorFacts DEF JInv, IInv, Data
  <2> QED
    BY <1>2, <2>1, NumIsInt DEF GivenAt, Within, Vector
<1> QED
  BY <1>1, <1>2
----------------------------------------------------------------------------
(* The steps of one process that concern vectors.                          *)

LEMMA ZeroStartJ ==
  ASSUME JInv, IInv', NEW p \in Proc, ZeroStart(p)
  PROVE  JInv'
<1> DEFINE e == Head(todo[p])
           t == Tail(todo[p])
           cycle == CallOf(p).cycle
<1>0. PICK l : l = e.i
  OBVIOUS
<1>1. /\ todo[p] # <<>> /\ e.op = "rest" /\ (e.smooth \/ e.i # e.lvl) /\ l < LastLevel(p) /\ Pre[l] = 0
      /\ sol' = [sol EXCEPT ![l][p] = 0] /\ def' = [def EXCEPT ![l][p] = rhs[l][p]]
      /\ todo' = [todo EXCEPT ![p] = LoopGoesOn(p, "transfer", l)]
      /\ UNCHANGED <<input, calls, counters>>
      /\ UNCHANGED <<rhs, up, down, failed, cor>>
  BY <1>0 DEF ZeroStart, In, driver, network, outcome, Smooths
<1>2. IsHead(p, cycle, e, t, counters[p])
  BY <1>1, NowIs DEF Now
<1>3. todo'[p] = LoopGoesOn(p, "transfer", l) /\ OnlyStep(p)
  BY <1>1 DEF JInv, IInv, CycleControl, OnlyStep
<1>4. /\ l \in Level /\ e.lvl <= l /\ l \in Nat /\ LastLevel(p) \in Nat /\ LastLevel(p) <= Crs /\ Crs \in Nat
      /\ LevelOf(p, l) /\ l < Crs /\ p \in Members(l)
  <2>1. /\ l \in Level /\ e.lvl <= l /\ l \in Nat /\ LastLevel(p) \in Nat /\ LastLevel(p) <= Crs /\ Crs \in Nat
    <3> HIDE DEF e, t
    <3> QED
      BY <1>0, <1>1, <1>2, HeadIs, LevelOfFacts DEF RestOps
  <2>2. LevelOf(p, l)
    BY <1>1, <2>1, LevelOfFacts
  <2> QED
    BY <1>1, <2>1, <2>2 DEF LevelOf
<1>5. LoopGoes(p, "transfer", l)
  BY <1>0, <1>1, <1>3, <1>4 DEF LoopGoes, RestOps
<1>6. GoesTo(p, e, t, "transfer", l)
  BY <1>5, GoesOnTo
<1>7. (\A k : At(p, "rest", k) => k = l) /\ ~In(p, "split") /\ ~Sent(p, l)
  BY <1>0, <1>1, <1>4 DEF At, In, Sent, SentBy, RestOps, ProlOps
<1>8. /\ \A j \in Level : j # l => sol'[j] = sol[j] /\ def'[j] = def[j]
      /\ sol'[l] = [sol[l] EXCEPT ![p] = 0] /\ sol'[l][p] = 0
      /\ \A q \in Proc : q # p => sol'[l][q] = sol[l][q] /\ def'[l][q] = def[l][q]
  <2>1. sol \in [Level -> Vector] /\ def \in [Level -> Vector]
    BY DEF JInv, IInv, Data
  <2> QED
    BY <1>1, <1>4, <2>1 DEF Vector
<1> HIDE DEF e, t, cycle
<1>9. Keeps(p)
  <2>1. SameClasses(p, cycle, e, t, counters[p], GoneOn(e, "transfer", l), t, counters[p])
    BY <1>0, <1>1, <1>2, GoesOnSame DEF RestOps
  <2>2. \A k : LevelOf(p, k) => ClassAt(p, k)' = ClassAt(p, k)
    BY <1>1, <1>6, <2>1 DEF GoesTo, SameClasses, ClassAt, cycle, e, t
  <2>3. \A k : SentBy(e, k) => SentBy(GoneOn(e, "transfer", l), k)
    BY <1>0, <1>1 DEF SentBy, GoneOn, RestOps, ProlOps
  <2>4. \A k : Sent(p, k) => Sent(p, k)'
    BY <1>6, <2>3 DEF GoesTo, Sent, e
  <2> QED
    BY <1>6, <2>2, <2>4 DEF Keeps, GoesTo
<1>10. \A q \in Proc : Keeps(q) /\ PassesOn(q)
  <2>1. StaysSplit(p)
    BY <1>7 DEF StaysSplit, At, In
  <2>2. \A q \in Proc : Keeps(q) /\ StaysSplit(q)
    BY <1>3, <1>9, <2>1, OthersStay DEF JInv
  <2> QED
    BY <2>2, KeepsPasses
<1>11. Computes({p}, l)
  <2>1. \A q \in Members(l) : q \in Proc
    BY <1>4, SomeMember
  <2> QED
    BY <1>1, <1>4, <1>7, <1>8, <2>1 DEF Computes
<1>12. Passed'
  BY <1>4, <1>10, <1>11, PassedStep
<1>13. \A j \in Level, q \in Proc : Top < j /\ q \in Members(j) => Linked(q, j)'
  BY <1>4, <1>10, <1>11, LinkedStep
<1>14. AllSolved'
  <2> SUFFICES ASSUME NEW j \in Level, NEW q \in Members(j) PROVE Solved(q, j)'
    BY DEF AllSolved
  <2>1. q \in Proc /\ LevelOf(q, j)
    BY SomeMember DEF LevelOf
  <2>2. CASE q = p /\ j = l
    <3>1. ClassAt(p, l)' = "first" /\ SameCall(p)
      <4>1. Visit(p, cycle, e, t, counters[p], l) = "first"
        BY <1>0, <1>1, <1>2, SmoothsAtFirst DEF RestOps
      <4>2. ClassOf(p, cycle, e, t, counters[p], l) = "first"
        BY <1>0, <1>1, <1>4, <4>1 DEF ClassOf, RestOps, ProlOps
      <4>3. ClassAt(p, l) = "first"
        BY <1>1, <4>2 DEF ClassAt, cycle, e, t
      <4> QED
        BY <1>4, <1>9, <4>3 DEF Keeps
    <3>2. GivenAt(p, l) \in Vector
      BY <1>1, <1>4, GivenIs
    <3>3. (GivenAt(p, l))' = GivenAt(p, l)
      BY <1>1, <3>1, KeepGiven
    <3>4. FirstAnswer(l, GivenAt(p, l))[p] = 0
      <4>1. PICK b : b = GivenAt(p, l)
        OBVIOUS
      <4>2. b[p] \in Int
        BY <3>2, <4>1, VectorFacts
      <4>3. (0 * b[p] + 0) % Prime = 0
        BY <4>2, LevelAssumption
      <4>4. Smoothed(0, l, b)[p] = 0
        BY <4>3 DEF Smoothed, Filter, Scale, Axpy, Zero
      <4> QED
        BY <1>1, <4>1, <4>4 DEF FirstAnswer
      <3>5. \A a, k, g : Expected("first", a, l, k, g) = FirstAnswer(l, g)
      BY DEF Expected
    <3>6. CallOf(p)' = CallOf(p)
      BY <3>1, SameCallOf
    <3>7. Solved(p, l)'
      BY <1>8, <3>1, <3>3, <3>4, <3>5, <3>6 DEF Solved
    <3> QED
      BY <2>2, <3>7
  <2>3. CASE ~(q = p /\ j = l)
    <3>1. sol'[j][q] = sol[j][q]
      BY <1>4, <1>8, <2>1, <2>3
    <3>2. Unsolved(q, j) => Unsolved(q, j)'
      <4>1. CASE q = p
        <5>1. ~At(p, "rest", j)
          BY <1>7, <2>3, <4>1
        <5>2. ClassAt(p, j)' = ClassAt(p, j)
          BY <1>9, <2>1, <4>1 DEF Keeps
        <5> QED
          BY <4>1, <5>1, <5>2 DEF Unsolved
      <4>2. CASE q # p
        BY <1>3, <2>1, <4>2, OthersStay DEF JInv, Waits
      <4> QED
        BY <4>1, <4>2
    <3> QED
      BY <1>1, <1>10, <2>1, <3>1, <3>2, OtherSolved
  <2> QED
    BY <2>2, <2>3
<1> QED
  BY <1>1, <1>10, <1>12, <1>13, <1>14, DataStep

LEMMA RestSendJ ==
  ASSUME JInv, IInv', NEW p \in Proc, NEW l \in Level, RestSend(p, l)
  PROVE  JInv'
<1> DEFINE e == Head(todo[p])
           t == Tail(todo[p])
           cycle == CallOf(p).cycle
<1>1. /\ todo[p] # <<>> /\ e.op = "transfer" /\ e.i = l /\ p \notin Members(l + 1)
      /\ def' = [def EXCEPT ![l][p] = Filter(l, def[l])[p]]
      /\ up' = [up EXCEPT ![p] = Append(@, Weight[l].rest * def'[l][p])]
      /\ todo' = [todo EXCEPT ![p] = t] /\ UNCHANGED <<input, calls, counters>>
      /\ UNCHANGED <<rhs, sol, down, failed, cor>>
  BY DEF RestSend, At, driver, outcome
<1>2. IsHead(p, cycle, e, t, counters[p])
  BY <1>1, NowIs DEF Now
<1>3. todo'[p] = t /\ OnlyStep(p)
  BY <1>1 DEF JInv, IInv, CycleControl, OnlyStep
<1>4. t # <<>> /\ IsPlan(p, cycle, Head(t), Tail(t), counters[p])
  <2> HIDE DEF e, t, cycle
  <2> QED
    BY <1>1, <1>2, TailPlan DEF RestOps
<1>5. Head(t).op \in {"coarse", "floop"}
  <2> HIDE DEF e, t, cycle
  <2>1. cycle \in {"V", "F", "W"} /\ e.op \in RestOps
    BY <1>1, <1>2, HeadIs DEF RestOps
  <2> QED
    BY <1>2, <2>1, TailOfRest
<1>6. l \in Nat /\ l < LastLevel(p) /\ l < Crs /\ p \in Members(l)
  <2> HIDE DEF e, t, cycle
  <2>1. IsPart(p, cycle, e)
    BY <1>2, HeadIs
  <2>2. l < LastLevel(p)
    BY <1>1, <2>1 DEF IsPart
  <2> QED
    BY <2>2, LastFacts, LevelFacts
<1>7. \A k : LevelOf(p, k) => k <= l /\ k # Crs
  <2> SUFFICES ASSUME NEW k, LevelOf(p, k) PROVE k <= l /\ k # Crs
    OBVIOUS
  <2>1. k \in Nat /\ Phys[p] > k /\ ~(Phys[p] > l + 1) /\ Phys[p] \in Nat /\ Crs \in Nat
    BY <1>1, LevelFacts DEF LevelOf, Members
  <2> QED
    BY <1>6, <2>1
<1>8. ~Sent(p, l) /\ (\A k : ~At(p, "rest", k)) /\ ~In(p, "split")
  BY <1>1, <1>6 DEF Sent, SentBy, At, In, RestOps, ProlOps
<1> HIDE DEF e, t, cycle
<1>9. Keeps(p)
  <2>1. SameClasses(p, cycle, e, t, counters[p], Head(t), Tail(t), counters[p])
    BY <1>1, <1>2, <1>7, RestEnds DEF RestOps
  <2>2. \A k : SentBy(Head(t), k)
    BY <1>5 DEF SentBy
  <2> QED
    BY <1>1, <1>3, <1>4, <2>1, <2>2, NewPlan DEF e, t, cycle
<1>10. \A q \in Proc : Keeps(q) /\ Waits(q) /\ StaysSplit(q) /\ PassesOn(q)
  <2>1. Waits(p) /\ StaysSplit(p)
    BY <1>8, <1>9, WaitsForNothing
  <2>2. \A q \in Proc : Keeps(q) /\ Waits(q) /\ StaysSplit(q)
    BY <1>3, <1>9, <2>1, OthersStay DEF JInv
  <2> QED
    BY <2>2, KeepsPasses
<1>11. /\ \A j \in Level, q \in Proc : ~(j = l /\ q = p) => def'[j][q] = def[j][q]
       /\ def'[l][p] = Filter(l, def[l])[p]
       /\ \A q \in Proc : q # p => up'[q] = up[q]
       /\ up'[p] = Append(up[p], Weight[l].rest * def'[l][p])
  <2>1. def \in [Level -> Vector] /\ up \in [Proc -> Seq(Int)]
    BY DEF JInv, IInv, Data
  <2> QED
    BY <1>1, <2>1 DEF Vector
<1>12. Passed'
  <2> SUFFICES ASSUME NEW j \in Level, j < Crs
               PROVE  Gone(j)' /\ \A g \in Members(j) \ Members(j + 1) : UpIs(j, g)' /\ DownIs(j, g)'
    BY DEF Passed
  <2>1. Gone(j) /\ \A g \in Members(j) \ Members(j + 1) : UpIs(j, g) /\ DownIs(j, g)
    BY DEF JInv, Passed
  <2>2. j + 1 \in Level /\ Members(j) \subseteq Proc /\ Members(j + 1) \subseteq Proc
    BY NextLevel
  <2>3. \A q \in Members(j) : Sent(q, j) => Sent(q, j)'
    BY <1>10, <2>2 DEF PassesOn
  <2>4. \A q \in Members(j + 1) : ClassAt(q, j + 1)' # "off" => ClassAt(q, j + 1) # "off"
    BY <1>10, <2>2 DEF PassesOn
  <2>5. \A g \in Members(j) \ Members(j + 1) : g = p => j = l
    BY <1>1, <1>6, OneGhostLevel
  <2>6. Gone(j)'
    <3>1. CASE j = l
      <4>1. \A q \in Members(j + 1) : ClassAt(q, j + 1)' = "off"
        BY <1>6, <1>8, <2>4, <3>1, NotGone DEF JInv
      <4> QED
        BY <4>1, NoneGone
    <3>2. CASE j # l
      <4>1. \A g \in Members(j) \ Members(j + 1) : up'[g] = up[g]
        BY <1>11, <2>2, <2>5, <3>2
      <4> QED
        BY <2>1, <2>3, <2>4, <4>1, KeepGone
    <3> QED
      BY <3>1, <3>2
  <2>7. ASSUME NEW g \in Members(j) \ Members(j + 1) PROVE UpIs(j, g)' /\ DownIs(j, g)'
    <3>1. UpIs(j, g)'
      <4>1. CASE g = p
        <5>1. j = l /\ Sent(p, l)'
          <6>1. Sent(p, l)' <=> SentBy(Head(t), l)
            BY <1>3, <1>4 DEF Sent
          <6> QED
            BY <1>5, <2>5, <4>1, <6>1 DEF SentBy
        <5>2. up[p] = <<>>
          BY <1>8, <2>1, <2>7, <4>1, <5>1 DEF UpIs
        <5>3. up'[p] = <<Weight[l].rest * def'[l][p]>>
          BY <1>11, <5>2
        <5>4. (Filter(l, def[l]))'[p] = def'[l][p]
          BY <1>11 DEF Filter
        <5> QED
          BY <4>1, <5>1, <5>3, <5>4 DEF UpIs
      <4>2. CASE g # p
        BY <1>11, <2>1, <2>2, <2>3, <2>7, <4>2, KeepUp
      <4> QED
        BY <4>1, <4>2
    <3>2. Parent[g] \in Proc /\ (At(Parent[g], "split", j + 1) => At(Parent[g], "split", j + 1)')
      BY <1>10, <2>2, GhostHasParent DEF PassesOn
    <3>3. DownIs(j, g)'
      BY <1>1, <2>1, <2>7, <3>2, KeepDown
    <3> QED
      BY <3>1, <3>3
  <2> QED
    BY <2>6, <2>7
<1>13. \A j \in Level, q \in Proc : Top < j /\ q \in Members(j) => Linked(q, j)'
  <2> SUFFICES ASSUME NEW j \in Level, NEW q \in Proc, Top < j, q \in Members(j) PROVE Linked(q, j)'
    OBVIOUS
  <2>1. Linked(q, j) /\ (ClassAt(q, j)' # "off" => ClassAt(q, j) # "off")
    BY <1>10 DEF JInv, Given, PassesOn
  <2> QED
    BY <1>1, <2>1, KeepLinked
<1>14. AllSolved'
  <2> SUFFICES ASSUME NEW j \in Level, NEW q \in Members(j) PROVE Solved(q, j)'
    BY DEF AllSolved
  <2>1. q \in Proc /\ LevelOf(q, j)
    BY SomeMember DEF LevelOf
  <2>2. Unsolved(q, j) => Unsolved(q, j)'
    BY <1>10, <2>1 DEF Waits
  <2> QED
    BY <1>1, <1>10, <2>1, <2>2, OtherSolved
<1> QED
  BY <1>1, <1>10, <1>12, <1>13, <1>14, DataStep
----------------------------------------------------------------------------

LEMMA SplitJ ==
  ASSUME JInv, IInv', NEW p \in Proc, NEW l \in Level, Split(p, l)
  PROVE  JInv'
<1> DEFINE e == Head(todo[p])
           t == Tail(todo[p])
           cycle == CallOf(p).cycle
<1>1. /\ todo[p] # <<>> /\ e.op = "prol" /\ e.i = l + 1 /\ l >= e.lvl /\ p \in Members(l + 1)
      /\ down' = [g \in Proc |-> IF g \in Ghosts(l, p) THEN Append(down[g], sol[l + 1][p]) ELSE down[g]]
      /\ todo' = [todo EXCEPT ![p] = LoopGoesOn(p, "split", l + 1)] /\ UNCHANGED <<input, calls, counters>>
      /\ UNCHANGED <<rhs, sol, def, up, failed, cor>>
  BY DEF Split, At, driver, outcome, vectors
<1>2. IsHead(p, cycle, e, t, counters[p])
  BY <1>1, NowIs DEF Now
<1>3. todo'[p] = LoopGoesOn(p, "split", l + 1) /\ OnlyStep(p)
  BY <1>1 DEF JInv, IInv, CycleControl, OnlyStep
<1>4. l + 1 \in Level /\ l + 1 <= LastLevel(p) /\ e.lvl <= l + 1 /\ l \in Nat /\ l < Crs
  <2> HIDE DEF e, t, cycle
  <2>1. e.lvl \in Nat /\ e.i \in Level /\ e.lvl <= e.i
    BY <1>1, <1>2, HeadIs DEF ProlOps
  <2>2. LevelOf(p, l + 1)
    BY <1>1, <2>1 DEF LevelOf
  <2> QED
    BY <1>1, <2>1, <2>2, LevelOfFacts, LevelFacts
<1>5. GoesTo(p, e, t, "split", l + 1)
  <2>1. LoopGoes(p, "split", l + 1)
    BY <1>1, <1>3, <1>4 DEF LoopGoes, ProlOps
  <2> QED
    BY <2>1, GoesOnTo
<1>6. (\A k : ~At(p, "rest", k)) /\ ~In(p, "split")
  BY <1>1 DEF At, In
<1> HIDE DEF e, t, cycle
<1>7. Keeps(p)
  <2>1. SameClasses(p, cycle, e, t, counters[p], GoneOn(e, "split", l + 1), t, counters[p])
    BY <1>1, <1>2, GoesOnSame DEF ProlOps
  <2>2. \A k : LevelOf(p, k) => ClassAt(p, k)' = ClassAt(p, k)
    BY <1>1, <1>5, <2>1 DEF GoesTo, SameClasses, ClassAt, cycle, e, t
  <2>3. \A k : SentBy(e, k) => SentBy(GoneOn(e, "split", l + 1), k)
    BY <1>1 DEF SentBy, GoneOn, RestOps, ProlOps
  <2>4. \A k : Sent(p, k) => Sent(p, k)'
    BY <1>5, <2>3 DEF GoesTo, Sent, e
  <2> QED
    BY <1>5, <2>2, <2>4 DEF Keeps, GoesTo
<1>8. \A q \in Proc : Keeps(q) /\ Waits(q) /\ StaysSplit(q) /\ PassesOn(q)
  <2>1. Waits(p) /\ StaysSplit(p)
    BY <1>6, <1>7, WaitsForNothing
  <2>2. \A q \in Proc : Keeps(q) /\ Waits(q) /\ StaysSplit(q)
    BY <1>3, <1>7, <2>1, OthersStay DEF JInv
  <2> QED
    BY <2>2, KeepsPasses
<1>9. Passed'
  <2> SUFFICES ASSUME NEW j \in Level, j < Crs
               PROVE  Gone(j)' /\ \A g \in Members(j) \ Members(j + 1) : UpIs(j, g)' /\ DownIs(j, g)'
    BY DEF Passed
  <2>1. Gone(j) /\ \A g \in Members(j) \ Members(j + 1) : UpIs(j, g) /\ DownIs(j, g)
    BY DEF JInv, Passed
  <2>2. j + 1 \in Level /\ Members(j) \subseteq Proc /\ Members(j + 1) \subseteq Proc
    BY NextLevel
  <2>3. \A q \in Members(j) : Sent(q, j) => Sent(q, j)'
    BY <1>8, <2>2 DEF PassesOn
  <2>4. \A q \in Members(j + 1) : ClassAt(q, j + 1)' # "off" => ClassAt(q, j + 1) # "off"
    BY <1>8, <2>2 DEF PassesOn
  <2>5. Gone(j)'
    BY <1>1, <2>1, <2>3, <2>4, KeepGone
  <2>6. ASSUME NEW g \in Members(j) \ Members(j + 1) PROVE UpIs(j, g)' /\ DownIs(j, g)'
    <3>1. UpIs(j, g)'
      BY <1>1, <2>1, <2>3, KeepUp
    <3>2. Parent[g] \in Proc /\ (At(Parent[g], "split", j + 1) => At(Parent[g], "split", j + 1)')
      BY <1>8, <2>2, GhostHasParent DEF PassesOn
    <3>3. CASE g \in Ghosts(l, p)
      <4>1. g \in Members(l) \ Members(l + 1) /\ Parent[g] = p
        BY <3>3 DEF Ghosts
      <4>2. j = l
        BY <4>1, OneGhostLevel
      <4>3. ~At(p, "split", l + 1)
        BY <1>6 DEF At, In
      <4>4. down[g] = <<>>
        BY <2>1, <4>1, <4>2, <4>3 DEF DownIs
      <4>5. down'[g] = <<sol'[l + 1][p]>>
        <5>1. g \in Proc
          BY <2>2
        <5>2. down'[g] = Append(down[g], sol[l + 1][p])
          BY <1>1, <3>3, <5>1
        <5>3. \A x : Append(<<>>, x) = <<x>>
          OBVIOUS
        <5> QED
          BY <1>1, <4>4, <5>2, <5>3
      <4>6. At(p, "split", l + 1)'
        BY <1>5 DEF GoesTo
      <4> QED
        BY <3>1, <4>1, <4>2, <4>5, <4>6 DEF DownIs
    <3>4. CASE g \notin Ghosts(l, p)
      <4>1. down'[g] = down[g]
        BY <1>1, <2>2, <3>4
      <4> QED
        BY <1>1, <2>1, <2>6, <3>1, <3>2, <4>1, KeepDown
    <3> QED
      BY <3>3, <3>4
  <2> QED
    BY <2>5, <2>6
<1>10. \A j \in Level, q \in Proc : Top < j /\ q \in Members(j) => Linked(q, j)'
  <2> SUFFICES ASSUME NEW j \in Level, NEW q \in Proc, Top < j, q \in Members(j) PROVE Linked(q, j)'
    OBVIOUS
  <2>1. Linked(q, j) /\ (ClassAt(q, j)' # "off" => ClassAt(q, j) # "off")
    BY <1>8 DEF JInv, Given, PassesOn
  <2> QED
    BY <1>1, <2>1, KeepLinked
<1>11. AllSolved'
  <2> SUFFICES ASSUME NEW j \in Level, NEW q \in Members(j) PROVE Solved(q, j)'
    BY DEF AllSolved
  <2>1. q \in Proc /\ LevelOf(q, j)
    BY SomeMember DEF LevelOf
  <2>2. Unsolved(q, j) => Unsolved(q, j)'
    BY <1>8, <2>1 DEF Waits
  <2> QED
    BY <1>1, <1>8, <2>1, <2>2, OtherSolved
<1> QED
  BY <1>1, <1>8, <1>9, <1>10, <1>11, DataStep

----------------------------------------------------------------------------
(* Calls and returns.                                                      *)

\* p, which has done nothing, or all, of a cycle, begins or ends one; the others see
\* nothing of it.
Outside(p) ==
  /\ OnlyStep(p) /\ ~Busy(p)
  /\ \A l : Sent(p, l) => Sent(p, l)'
  /\ \A l : LevelOf(p, l) /\ Top < l => ClassAt(p, l) = "off" /\ ClassAt(p, l)' = "off"
  /\ ~In(p, "split")
  /\ \A q \in Proc : q # p => rhs'[Top][q] = rhs[Top][q] /\ cor'[q] = cor[q]
  /\ \A l \in Level : l # Top => rhs'[l] = rhs[l]
  /\ DOMAIN cor' = DOMAIN cor
  /\ UNCHANGED <<sol, def, up, down, failed>>

LEMMA OutsideStep ==
  ASSUME JInv, IInv', NEW p \in Proc, Outside(p),
         PlanAt(p)', \A q \in Proc : SameCalls(p, q)' /\ SameCalls(q, p)', HasDef(p)', Solved(p, Top)', HasAnswer(p)'
  PROVE  JInv'
<1>1. OnlyStep(p) /\ UNCHANGED <<sol, def, up, down, failed>>
  BY DEF Outside
<1>2. \A q \in Proc : q # p => Keeps(q) /\ Waits(q) /\ StaysSplit(q) /\ SameCall(q) /\ PassesOn(q)
  BY <1>1, OthersStay, KeepsPasses DEF JInv
<1>3. \A l \in Level : Top < l => \A q \in Members(l) : q \in Proc /\ ClassAt(q, l)' = ClassAt(q, l)
  <2> SUFFICES ASSUME NEW l \in Level, Top < l, NEW q \in Members(l) PROVE q \in Proc /\ ClassAt(q, l)' = ClassAt(q, l)
    OBVIOUS
  <2>1. q \in Proc /\ LevelOf(q, l)
    BY SomeMember DEF LevelOf
  <2>2. q = p => ClassAt(q, l)' = ClassAt(q, l)
    BY <2>1 DEF Outside
  <2>3. q # p => ClassAt(q, l)' = ClassAt(q, l)
    BY <1>2, <2>1 DEF Keeps
  <2> QED
    BY <2>1, <2>2, <2>3
<1>4. Plans'
  BY <1>2 DEF Plans, Keeps
<1>5. Together'
  <2>1. \A l \in Level : Top < l => SameLevel(l)'
    <3> SUFFICES ASSUME NEW l \in Level, Top < l, NEW q \in Members(l), NEW r \in Members(l)
                 PROVE  ClassAt(q, l)' = ClassAt(r, l)'
      BY DEF SameLevel
    <3> QED
      BY <1>3 DEF JInv, Together, SameLevel
  <2>2. ASSUME NEW q \in Proc, NEW r \in Proc, q # p, r # p PROVE SameCalls(q, r)'
    <3>1. /\ calls'[q] = calls[q] /\ (Busy(q)' <=> Busy(q)) /\ ClassAt(q, Top)' = ClassAt(q, Top)
          /\ calls'[r] = calls[r] /\ (Busy(r)' <=> Busy(r)) /\ ClassAt(r, Top)' = ClassAt(r, Top)
      BY <1>2, <2>2, TopIsOurs DEF Keeps, SameCall, Busy, LevelOf
    <3> QED
      BY <3>1 DEF JInv, Together, SameCalls
  <2> QED
    BY <2>1, <2>2 DEF Together
<1>6. Passed'
  <2> SUFFICES ASSUME NEW j \in Level, j < Crs
               PROVE  Gone(j)' /\ \A g \in Members(j) \ Members(j + 1) : UpIs(j, g)' /\ DownIs(j, g)'
    BY DEF Passed
  <2>1. Gone(j) /\ \A g \in Members(j) \ Members(j + 1) : UpIs(j, g) /\ DownIs(j, g)
    BY DEF JInv, Passed
  <2>2. j + 1 \in Level /\ Members(j) \subseteq Proc /\ Members(j + 1) \subseteq Proc /\ Top < j + 1
    BY NextLevel
  <2>3. \A q \in Members(j) : Sent(q, j) => Sent(q, j)'
    <3>1. \A q \in Members(j) : q # p => (Sent(q, j) => Sent(q, j)')
      BY <1>2, <2>2 DEF PassesOn
    <3> QED
      BY <3>1 DEF Outside
  <2>4. Gone(j)'
    BY <1>1, <1>3, <2>1, <2>2, <2>3, KeepGone
  <2>5. ASSUME NEW g \in Members(j) \ Members(j + 1) PROVE UpIs(j, g)' /\ DownIs(j, g)'
    <3>1. UpIs(j, g)'
      BY <1>1, <2>1, <2>3, KeepUp
    <3>2. Parent[g] \in Proc
      BY <2>2, GhostHasParent
    <3>3. At(Parent[g], "split", j + 1) => At(Parent[g], "split", j + 1)'
      <4>1. Parent[g] = p => ~At(Parent[g], "split", j + 1)
        BY DEF Outside, At, In
      <4> QED
        BY <1>2, <2>2, <3>2, <4>1 DEF PassesOn
    <3>4. DownIs(j, g)'
      BY <1>1, <2>1, <2>5, <3>3, KeepDown
    <3> QED
      BY <3>1, <3>4
  <2> QED
    BY <2>4, <2>5
<1>7. Given'
  <2>1. ASSUME NEW q \in Proc, q # p PROVE HasDef(q)'
    <3>1. (Busy(q)' <=> Busy(q)) /\ SameCall(q)
      BY <1>2, <2>1, TopIsOurs DEF Busy, LevelOf, Keeps
    <3>2. rhs'[Top][q] = rhs[Top][q]
      BY <2>1 DEF Outside
    <3> QED
      BY <3>1, <3>2, KeepDef DEF JInv, Given
  <2>2. ASSUME NEW j \in Level, Top < j, NEW q \in Members(j) PROVE Linked(q, j)'
    <3>1. ClassAt(q, j)' = ClassAt(q, j) /\ Linked(q, j) /\ q \in Proc
      BY <1>3, <2>2 DEF JInv, Given
    <3>2. Top \in Nat /\ j \in Nat /\ Crs \in Nat /\ j <= Crs
      BY LevelFacts
    <3>3. CASE j - 1 = Top
      <4>1. Top \in Level /\ Top < Crs /\ Top + 1 = j /\ p \in Members(Top)
        BY <3>2, <3>3, TopIsOurs
      <4>2. ~Sent(p, Top)
        BY <4>1, SentIsBusy DEF JInv, Outside
      <4>3. ClassAt(q, j) = "off"
        BY <4>1, <4>2, NotGone DEF JInv
      <4> QED
        BY <3>1, <4>3, NotLinked
    <3>4. CASE j - 1 # Top
      <4>1. j - 1 \in Level /\ j # Top
        BY <3>2, <2>2, <3>4, LevelFacts
      <4>2. rhs'[j] = rhs[j] /\ rhs'[j - 1] = rhs[j - 1] /\ sol'[j - 1] = sol[j - 1]
        BY <1>1, <3>4, <4>1 DEF Outside
      <4> QED
        BY <3>1, <4>2, KeepLinked
    <3> QED
      BY <3>3, <3>4
  <2> QED
    BY <2>1, <2>2 DEF Given
<1>8. AllSolved'
  <2> SUFFICES ASSUME NEW j \in Level, NEW q \in Members(j) PROVE Solved(q, j)'
    BY DEF AllSolved
  <2>1. q \in Proc /\ LevelOf(q, j) /\ Top \in Nat /\ j \in Nat /\ Top <= j
    BY SomeMember, LevelFacts DEF LevelOf
  <2>2. CASE q = p /\ j # Top
    <3>1. Top < j
      BY <2>1, <2>2
    <3> QED
      BY <2>1, <2>2, <3>1, NotSolved DEF Outside
  <2>3. CASE q # p
    <3>1. SameBefore(q, j) /\ ClassAt(q, j)' = ClassAt(q, j) /\ SameCall(q) /\ (Unsolved(q, j) => Unsolved(q, j)')
      BY <1>2, <2>1, <2>3, KeepsBefore DEF Waits
    <3>2. Solved(q, j) /\ (j = Top \/ rhs'[j] = rhs[j]) /\ FailsNow(q)
      BY <1>1 DEF JInv, AllSolved, Outside, FailsNow
    <3> QED
      BY <1>1, <3>1, <3>2, KeepSolved
  <2> QED
    BY <2>2, <2>3
<1>9. AllAnswered'
  <2> SUFFICES ASSUME NEW q \in Proc, q # p PROVE HasAnswer(q)'
    BY DEF AllAnswered, JInv, Outside
  <2>1. SameCall(q) /\ HasAnswer(q) /\ cor'[q] = cor[q] /\ FailsNow(q)
    BY <1>1, <1>2 DEF Outside, JInv, AllAnswered, FailsNow
  <2> QED
    BY <2>1, KeepAnswer
<1> QED
  BY <1>4, <1>5, <1>6, <1>7, <1>8, <1>9 DEF JInv

LEMMA ApplyJ ==
  ASSUME JInv, IInv', NEW p \in Proc, Apply(p)
  PROVE  JInv'
<1> DEFINE n == calls[p] + 1
           s == CycleCalls(p, input[n].cycle)
<1>1. todo[p] = <<>> /\ calls[p] < Len(input) /\ calls \in [Proc -> Nat] /\ todo \in [Proc -> Seq(Entry)]
      /\ rhs \in [Level -> Vector] /\ input \in Inputs
  BY DEF Apply, JInv, IInv, CycleControl, Data
<1>2. calls'[p] = n /\ (\A q \in Proc : q # p => calls'[q] = calls[q]) /\ input' = input
  BY <1>1 DEF Apply
<1>3. todo'[p] = s /\ \A q \in Proc : q # p => todo'[q] = todo[q]
  BY <1>1, <1>2 DEF Apply
<1>4. /\ rhs'[Top][p] = input[n].def[p] /\ \A q \in Proc : q # p => rhs'[Top][q] = rhs[Top][q]
      /\ \A l \in Level : l # Top => rhs'[l] = rhs[l]
  <2>1. rhs' = [rhs EXCEPT ![Top][p] = input[n].def[p]]
    BY <1>2 DEF Apply
  <2> QED
    BY <1>1, <2>1, TopIsOurs DEF Vector
<1>5. UNCHANGED <<sol, def, up, down, failed, cor, counters>>
  BY DEF Apply, driver, network, outcome
<1>6. input[n] \in CycleCall /\ n \in 1 .. Len(input)
  <2>1. Len(input) \in Nat /\ \A m \in 1 .. Len(input) : input[m] \in CycleCall
    BY <1>1, InputFacts
  <2> QED
    BY <1>1, <2>1
<1>7. CallOf(p)' = input[n] /\ input[n].cycle \in Cycle
  BY <1>2, <1>6, CallFacts DEF CallOf, Cycle
<1>8. /\ s # <<>> /\ IsPlan(p, input[n].cycle, Head(s), Tail(s), counters[p])
      /\ Head(s) = DoRest(Top, TRUE)
      /\ \A l : LevelOf(p, l) =>
           ClassOf(p, input[n].cycle, Head(s), Tail(s), counters[p], l) = IF l = Top THEN "first" ELSE "off"
  <2> HIDE DEF s
  <2> QED
    BY <1>7, CallPlan DEF s
<1>9. /\ \A l : ClassAt(p, l)' = ClassOf(p, input[n].cycle, Head(s), Tail(s), counters[p], l)
      /\ PlanAt(p)' <=> IsPlan(p, input[n].cycle, Head(s), Tail(s), counters[p])
      /\ \A op, i : At(p, op, i)' <=> Head(s).op = op /\ Head(s).i = i
  <2> HIDE DEF s, n
  <2> QED
    BY <1>3, <1>5, <1>7, <1>8 DEF ClassAt, PlanAt, At
<1>10. PlanAt(p)'
  BY <1>8, <1>9
<1>11. /\ \A l : LevelOf(p, l) /\ Top < l => ClassAt(p, l) = "off" /\ ClassAt(p, l)' = "off"
       /\ ClassAt(p, Top)' = "first" /\ Busy(p)' /\ ~Busy(p)
  <2>1. \A l : LevelOf(p, l) => ClassAt(p, l)' = IF l = Top THEN "first" ELSE "off"
    BY <1>8, <1>9
  <2>2. \A l : ClassAt(p, l) = "off"
    BY <1>1 DEF ClassAt
  <2>3. \A l : LevelOf(p, l) /\ Top < l => l # Top
    BY LevelFacts DEF LevelOf
  <2> QED
    BY <2>1, <2>2, <2>3, TopIsOurs DEF LevelOf, Busy
<1>12. (\A l : ~Sent(p, l)) /\ ~In(p, "split") /\ OnlyStep(p)
  BY <1>1, <1>2, <1>3, <1>5 DEF Sent, In, OnlyStep
<1>13. Outside(p)
  BY <1>4, <1>5, <1>11, <1>12 DEF Outside
<1>14. \A q \in Proc : SameCalls(p, q)' /\ SameCalls(q, p)'
  <2> SUFFICES ASSUME NEW q \in Proc PROVE SameCalls(p, q)' /\ SameCalls(q, p)'
    OBVIOUS
  <2>1. CASE q = p
    BY <1>11, <2>1 DEF SameCalls
  <2>2. CASE q # p
    <3>1. Keeps(q) /\ calls'[q] = calls[q]
      BY <1>2, <1>12, <2>2, OthersStay DEF JInv
    <3>2. ClassAt(q, Top)' = ClassAt(q, Top) /\ (Busy(q)' <=> Busy(q))
      BY <3>1, TopIsOurs DEF Keeps, LevelOf, Busy
    <3>3. SameCalls(p, q) /\ SameCalls(q, p)
      BY DEF JInv, Together
    <3> QED
      BY <1>2, <1>11, <3>1, <3>2, <3>3 DEF SameCalls
  <2> QED
    BY <2>1, <2>2
<1>15. HasDef(p)'
  BY <1>4, <1>7 DEF HasDef
<1>16. Solved(p, Top)'
  <2>1. At(p, "rest", Top)'
    BY <1>8, <1>9 DEF DoRest
  <2>2. Unsolved(p, Top)'
    BY <1>11, <2>1 DEF Unsolved
  <2> QED
    BY <2>2, NotSolved
<1>17. HasAnswer(p)'
  BY <1>3, <1>8 DEF HasAnswer
<1> QED
  BY <1>10, <1>13, <1>14, <1>15, <1>16, <1>17, OutsideStep

LEMMA ReturnJ ==
  ASSUME JInv, IInv', NEW p \in Proc, CycleReturn(p)
  PROVE  JInv'
<1> DEFINE e == Head(todo[p])
<1>1. /\ todo[p] # <<>> /\ e.op = "return" /\ todo' = [todo EXCEPT ![p] = <<>>]
      /\ cor' = [cor EXCEPT ![p] = sol[Top][p]]
      /\ UNCHANGED <<input, calls, counters, rhs, sol, def, up, down, failed>>
  BY DEF CycleReturn, In, driver, vectors, network
<1>3. todo'[p] = <<>> /\ OnlyStep(p)
  BY <1>1 DEF JInv, IInv, CycleControl, OnlyStep
<1>4. \A l : LevelOf(p, l) => ClassIs(p, e, l, ClassAt(p, l))
  BY <1>1, ClassFacts DEF JInv
<1> HIDE DEF e
<1>5. /\ \A l : LevelOf(p, l) /\ Top < l => ClassAt(p, l) = "off" /\ ClassAt(p, l)' = "off"
      /\ ClassAt(p, Top) = "done" /\ ~Busy(p) /\ ClassAt(p, Top)' = "off" /\ ~Busy(p)'
  <2>1. \A l : LevelOf(p, l) /\ Top < l => l # Top
    BY LevelFacts DEF LevelOf
  <2>2. LevelOf(p, Top)
    BY TopIsOurs DEF LevelOf
  <2>3. \A l : ClassAt(p, l)' = "off"
    BY <1>3 DEF ClassAt
  <2>4. \A l : LevelOf(p, l) => ClassAt(p, l) = IF l = Top THEN "done" ELSE "off"
    BY <1>1, <1>4 DEF ClassIs
  <2> QED
    BY <2>1, <2>2, <2>3, <2>4 DEF Busy
<1>6. (\A l : ~Sent(p, l)) /\ ~In(p, "split")
  BY <1>1 DEF Sent, SentBy, In, RestOps, ProlOps, e
<1>7. DOMAIN cor' = DOMAIN cor /\ \A q \in Proc : q # p => cor'[q] = cor[q]
  BY <1>1
<1>8. Outside(p)
  BY <1>1, <1>3, <1>5, <1>6, <1>7 DEF Outside
<1>9. PlanAt(p)'
  BY <1>3 DEF PlanAt
<1>10. \A q \in Proc : SameCalls(p, q)' /\ SameCalls(q, p)'
  <2> SUFFICES ASSUME NEW q \in Proc PROVE SameCalls(p, q)' /\ SameCalls(q, p)'
    OBVIOUS
  <2>1. CASE q = p
    BY <1>5, <2>1 DEF SameCalls
  <2>2. CASE q # p
    <3>1. Keeps(q) /\ calls'[q] = calls[q] /\ calls'[p] = calls[p]
      BY <1>1, <1>3, <2>2, OthersStay DEF JInv
    <3>2. ClassAt(q, Top)' = ClassAt(q, Top) /\ (Busy(q)' <=> Busy(q))
      BY <3>1, TopIsOurs DEF Keeps, LevelOf, Busy
    <3>3. SameCalls(p, q) /\ SameCalls(q, p)
      BY DEF JInv, Together
    <3> QED
      BY <1>5, <3>1, <3>2, <3>3 DEF SameCalls
  <2> QED
    BY <2>1, <2>2
<1>11. HasDef(p)'
  BY <1>5 DEF HasDef
<1>12. Solved(p, Top)'
  BY <1>5, NotSolved
<1>13. HasAnswer(p)'
  <2>1. CallOf(p)' = CallOf(p) /\ calls'[p] = calls[p] /\ failed' = failed
    BY <1>1 DEF CallOf
  <2>2. ASSUME calls[p] # failed
        PROVE  sol[Top][p] = Cycles(CallOf(p).adapt)[Top][CallOf(p).cycle][CallOf(p).def][p]
    <3>1. Top \in Level /\ p \in Members(Top)
      BY TopIsOurs
    <3>2. Solved(p, Top)
      BY <3>1 DEF JInv, AllSolved
    <3>3. ~Unsolved(p, Top)
      BY <1>5 DEF Unsolved
    <3>4. sol[Top][p] = Expected("done", CallOf(p).adapt, Top, KindAt(p, Top), GivenAt(p, Top))[p]
      BY <1>5, <2>2, <3>2, <3>3 DEF Solved
    <3>5. KindAt(p, Top) = CallOf(p).cycle
      <4>1. \A j \in Level : ~(j < Top)
        BY LevelFacts
      <4> QED
        BY <4>1 DEF KindAt, SecondBefore
    <3>6. GivenAt(p, Top) = CallOf(p).def
      BY DEF GivenAt
    <3>7. \A a, k, g : Expected("done", a, Top, k, g) = Cycles(a)[Top][k][g]
      BY DEF Expected
    <3> QED
      BY <3>4, <3>5, <3>6, <3>7
  <2>3. cor'[p] = sol[Top][p]
    BY <1>1 DEF JInv, AllAnswered
  <2> QED
    BY <2>1, <2>2, <2>3 DEF HasAnswer
<1> QED
  BY <1>8, <1>9, <1>10, <1>11, <1>12, <1>13, OutsideStep
----------------------------------------------------------------------------
(* The steps of all processes of a level.                                  *)

\* S go on.
OnlySteps(S) ==
  /\ \A q \in Proc \ S : todo'[q] = todo[q]
  /\ UNCHANGED <<input, calls, counters>>

LEMMA OthersStayToo ==
  ASSUME JInv, NEW S, OnlySteps(S), NEW q \in Proc, q \notin S
  PROVE  Keeps(q) /\ Waits(q) /\ StaysSplit(q) /\ SameCall(q) /\ PassesOn(q)
<1>1. Keeps(q) /\ Waits(q) /\ StaysSplit(q)
  BY Unmoved DEF OnlySteps, JInv
<1> QED
  BY <1>1, KeepsPasses DEF Keeps

LEMMA WorkIsBusy ==
  ASSUME JInv, NEW p \in Proc, NEW l, LevelOf(p, l), ClassAt(p, l) \in {"first", "turn", "second"}
  PROVE  Busy(p)
<1>1. CASE l = Top
  BY <1>1 DEF Busy
<1>2. CASE l # Top
  <2>1. l \in Nat /\ Top \in Nat /\ Top <= l
    BY LevelFacts DEF LevelOf
  <2>2. Top < l
    BY <1>2, <2>1
  <2> QED
    BY <2>2, BusyAbove DEF JInv
<1> QED
  BY <1>1, <1>2

\* The levels C are of new classes, for all of their processes.
NewClasses(C, new) ==
  /\ \A q \in Proc : calls'[q] = calls[q] /\ PlanAt(q)'
  /\ \A q \in Proc : \A j : LevelOf(q, j) => ClassAt(q, j)' = IF j \in C THEN new[j] ELSE ClassAt(q, j)
  /\ Top \in C => \A q \in Proc : Busy(q)

LEMMA TogetherStep ==
  ASSUME JInv, NEW C, NEW new, NewClasses(C, new)
  PROVE  Plans' /\ Together'
<1>1. Plans'
  BY DEF Plans, NewClasses
<1>2. \A q \in Proc : ClassAt(q, Top)' = IF Top \in C THEN new[Top] ELSE ClassAt(q, Top)
  BY TopIsOurs DEF NewClasses, LevelOf
<1>3. ASSUME NEW l \in Level, Top < l PROVE SameLevel(l)'
  <2> SUFFICES ASSUME NEW p \in Members(l), NEW q \in Members(l) PROVE ClassAt(p, l)' = ClassAt(q, l)'
    BY DEF SameLevel
  <2>1. LevelOf(p, l) /\ LevelOf(q, l) /\ p \in Proc /\ q \in Proc
    BY SomeMember DEF LevelOf
  <2>2. ClassAt(p, l) = ClassAt(q, l)
    BY <1>3 DEF JInv, Together, SameLevel
  <2> QED
    BY <2>1, <2>2 DEF NewClasses
<1>4. ASSUME NEW p \in Proc, NEW q \in Proc PROVE SameCalls(p, q)'
  <2>1. SameCalls(p, q) /\ calls'[p] = calls[p] /\ calls'[q] = calls[q]
    BY DEF JInv, Together, NewClasses
  <2>2. CASE Top \in C
    <3>1. Busy(p) /\ Busy(q) /\ ClassAt(p, Top)' = new[Top] /\ ClassAt(q, Top)' = new[Top]
      BY <1>2, <2>2 DEF NewClasses
    <3> QED
      BY <2>1, <3>1 DEF SameCalls, Busy
  <2>3. CASE Top \notin C
    <3>1. ClassAt(p, Top)' = ClassAt(p, Top) /\ ClassAt(q, Top)' = ClassAt(q, Top)
      BY <1>2, <2>3
    <3> QED
      BY <2>1, <3>1 DEF SameCalls, Busy
  <2> QED
    BY <2>2, <2>3
<1> QED
  BY <1>1, <1>3, <1>4 DEF Together

LEMMA NewBefore ==
  ASSUME JInv, NEW C, NEW new, NewClasses(C, new), NEW q \in Proc, NEW j, LevelOf(q, j),
         \A k \in C : ~(k < j)
  PROVE  SameBefore(q, j)
<1> SUFFICES ASSUME NEW k \in Level, k < j PROVE ClassAt(q, k)' = ClassAt(q, k)
  BY DEF SameBefore
<1>1. k \in Nat /\ j \in Nat /\ j \in Level /\ q \in Members(j)
  BY LevelFacts DEF LevelOf
<1>2. k <= j
  BY <1>1
<1>3. LevelOf(q, k) /\ k \notin C
  BY <1>1, <1>2, MembersBelow
<1> QED
  BY <1>3 DEF NewClasses

\* Where all of a level's processes compute, and its class may be new.
LEMMA LevelStep2 ==
  ASSUME JInv, IInv', NEW l \in Level, NEW C, NEW new, NewClasses(C, new), C \subseteq {l},
         \A q \in Proc : PassesOn(q) /\ SameCall(q) /\ FailsNow(q), Computes(Members(l), l),
         \A q \in Proc : Busy(q)' => Busy(q),
         AllSolved', rhs' = rhs, cor' = cor
  PROVE  JInv'
<1>1. Plans' /\ Together'
  BY TogetherStep
<1>2. Passed'
  BY PassedStep
<1>3. Given'
  <2>1. \A q \in Proc : HasDef(q)'
    BY KeepDef DEF JInv, Given
  <2>2. Members(l) # {}
    BY SomeMember
  <2>3. \A j \in Level : Top < j => \A q \in Members(j) : Linked(q, j)'
    BY <2>2, LinkedStep
  <2> QED
    BY <2>1, <2>3 DEF Given
<1>4. AllAnswered'
  BY KeepAnswer DEF JInv, AllAnswered
<1> QED
  BY <1>1, <1>2, <1>3, <1>4 DEF JInv

\* The solution that a level's processes, which have done the same there, have.
LEMMA SolvedAgrees ==
  ASSUME JInv, NEW l \in Level, NEW p \in Members(l), NEW class, class # "off",
         \A q \in Members(l) : Busy(q) /\ ClassAt(q, l) = class /\ ~Unsolved(q, l),
         calls[p] # failed
  PROVE  Agree(l, sol[l], Expected(class, CallOf(p).adapt, l, KindAt(p, l), GivenAt(p, l)))
<1>1. ASSUME NEW q \in Members(l)
      PROVE  sol[l][q] = Expected(class, CallOf(p).adapt, l, KindAt(p, l), GivenAt(p, l))[q]
  <2>1. /\ ClassAt(q, l) = ClassAt(p, l) /\ calls[q] = calls[p] /\ CallOf(q) = CallOf(p)
        /\ KindAt(q, l) = KindAt(p, l) /\ GivenAt(q, l) = GivenAt(p, l)
    BY SameWork DEF JInv
  <2>2. Solved(q, l)
    BY DEF JInv, AllSolved
  <2> QED
    BY <2>1, <2>2 DEF Solved
<1>2. \A q \in Members(l) : sol[l][q] \in Int
  <2>1. sol[l] \in Vector
    BY DEF JInv, IInv, Data
  <2> QED
    BY <2>1, SomeMember, VectorFacts
<1> QED
  BY <1>1, <1>2 DEF Agree

LEMMA PreSmoothJ ==
  ASSUME JInv, IInv', NEW l \in Level, PreSmooth(l)
  PROVE  JInv'
<1>1. /\ l < Crs /\ \A p \in Members(l) : /\ todo[p] # <<>> /\ Head(todo[p]).op = "rest" /\ Head(todo[p]).i = l
                                          /\ Head(todo[p]).smooth \/ Head(todo[p]).i # Head(todo[p]).lvl
      /\ sol' = [sol EXCEPT ![l] = Smoothed(Pre[l], l, rhs[l])]
      /\ def' = [def EXCEPT ![l] = Residual(l, rhs[l], sol'[l])]
      /\ todo' = [p \in Proc |-> IF p \in Members(l) THEN LoopGoesOn(p, "transfer", l) ELSE todo[p]]
      /\ UNCHANGED <<input, calls, counters, rhs, up, down, failed, cor>>
  BY DEF PreSmooth, At, Smooths, driver, network, outcome
<1>2. l \in Nat /\ Members(l) \subseteq Proc
  BY <1>1, NextLevel
<1>3. OnlySteps(Members(l))
  BY <1>1 DEF OnlySteps
<1>4. \A j \in Level : j # l => sol'[j] = sol[j] /\ def'[j] = def[j]
  BY <1>1 DEF JInv, IInv, Data
<1>5. sol'[l] = Smoothed(Pre[l], l, rhs[l])
  BY <1>1 DEF JInv, IInv, Data
<1>6. ASSUME NEW p \in Members(l)
      PROVE  /\ Keeps(p) /\ StaysSplit(p) /\ ClassAt(p, l) = "first"
             /\ ~In(p, "split") /\ ~Sent(p, l) /\ \A j : j # l => ~At(p, "rest", j)
  <2> DEFINE e == Head(todo[p])
             t == Tail(todo[p])
             cycle == CallOf(p).cycle
  <2>1. /\ p \in Proc /\ todo[p] # <<>> /\ e.op = "rest" /\ e.i = l /\ (e.smooth \/ e.i # e.lvl)
        /\ todo'[p] = LoopGoesOn(p, "transfer", l)
    BY <1>1, <1>2, <1>6
  <2>2. IsHead(p, cycle, e, t, counters[p])
    BY <2>1, NowIs DEF Now
  <2>3. e.lvl <= l /\ l < LastLevel(p) /\ l <= LastLevel(p)
    <3>1. e.lvl <= e.i
      <4> HIDE DEF e, t, cycle
      <4> QED
        BY <2>1, <2>2, HeadIs DEF RestOps
    <3>2. l < LastLevel(p) /\ LastLevel(p) \in Nat
      BY <1>1, <1>6, <2>1, LastFacts
    <3>3. l <= LastLevel(p)
      BY <1>2, <3>2
    <3> QED
      BY <2>1, <3>1, <3>2, <3>3
  <2>4. LoopGoes(p, "transfer", l)
    BY <1>1, <2>1, <2>3 DEF LoopGoes, RestOps
  <2>5. GoesTo(p, e, t, "transfer", l)
    BY <2>1, <2>4, GoesOnTo
  <2>6. ~In(p, "split") /\ ~Sent(p, l) /\ \A j : j # l => ~At(p, "rest", j)
    BY <1>2, <2>1 DEF In, At, Sent, SentBy, RestOps, ProlOps
  <2>7. StaysSplit(p)
    BY <2>6 DEF StaysSplit, At, In
  <2> HIDE DEF e, t, cycle
  <2>8. Keeps(p)
    <3>1. SameClasses(p, cycle, e, t, counters[p], GoneOn(e, "transfer", l), t, counters[p])
      BY <2>1, <2>2, GoesOnSame DEF RestOps
    <3>2. \A k : LevelOf(p, k) => ClassAt(p, k)' = ClassAt(p, k)
      BY <2>1, <2>5, <3>1 DEF GoesTo, SameClasses, ClassAt, cycle, e, t
    <3>3. \A k : SentBy(e, k) => SentBy(GoneOn(e, "transfer", l), k)
      BY <2>1 DEF SentBy, GoneOn, RestOps, ProlOps
    <3>4. \A k : Sent(p, k) => Sent(p, k)'
      BY <2>5, <3>3 DEF GoesTo, Sent, e
    <3> QED
      BY <2>5, <3>2, <3>4 DEF Keeps, GoesTo
  <2>9. ClassAt(p, l) = "first"
    <3>1. Visit(p, cycle, e, t, counters[p], l) = "first"
      BY <2>1, <2>2, <2>3, SmoothsAtFirst DEF RestOps
    <3>2. ClassOf(p, cycle, e, t, counters[p], l) = "first"
      BY <1>2, <2>1, <3>1 DEF ClassOf, RestOps, ProlOps
    <3> QED
      BY <2>1, <3>2 DEF ClassAt, cycle, e, t
  <2> QED
    BY <2>6, <2>7, <2>8, <2>9
<1>7. \A q \in Proc : Keeps(q) /\ StaysSplit(q)
  BY <1>3, <1>6, OthersStayToo
<1>8. \A q \in Proc : PassesOn(q) /\ SameCall(q) /\ FailsNow(q)
  BY <1>1, <1>7, KeepsPasses DEF Keeps, FailsNow
<1>9. Computes(Members(l), l)
  BY <1>1, <1>4, <1>6 DEF Computes
<1>10. NewClasses({}, <<>>)
  BY <1>7 DEF NewClasses, Keeps, SameCall
<1>11. \A q \in Proc : Busy(q)' => Busy(q)
  BY <1>7, TopIsOurs DEF Busy, LevelOf, Keeps
<1>12. \A q \in Members(l) : Busy(q)
  BY <1>2, <1>6, WorkIsBusy DEF LevelOf
<1>13. AllSolved'
  <2> SUFFICES ASSUME NEW j \in Level, NEW q \in Members(j) PROVE Solved(q, j)'
    BY DEF AllSolved
  <2>1. q \in Proc /\ LevelOf(q, j)
    BY SomeMember DEF LevelOf
  <2>2. CASE j = l
    <3>1. ClassAt(q, l)' = "first" /\ (GivenAt(q, l))' = GivenAt(q, l)
      BY <1>1, <1>6, <1>8, <2>1, <2>2, KeepGiven DEF Keeps
    <3>2. Agree(l, rhs[l], GivenAt(q, l))
      BY <1>12, <2>2, GivenAgrees DEF JInv
    <3>3. Agree(l, Smoothed(Pre[l], l, rhs[l]), FirstAnswer(l, GivenAt(q, l)))
      BY <3>2, SmoothedAgrees, FactorFacts DEF FirstAnswer
    <3>4. sol'[l][q] = FirstAnswer(l, GivenAt(q, l))[q]
      BY <1>5, <2>2, <3>3 DEF Agree
    <3>5. \A a, k, g : Expected("first", a, l, k, g) = FirstAnswer(l, g)
      BY DEF Expected
    <3>6. Solved(q, l)'
      BY <3>1, <3>4, <3>5 DEF Solved
    <3> QED
      BY <2>2, <3>6
  <2>3. CASE j # l
    <3>1. sol'[j][q] = sol[j][q]
      BY <1>4, <2>3
    <3>2. Unsolved(q, j) => Unsolved(q, j)'
      <4>1. CASE q \in Members(l)
        BY <1>6, <1>7, <2>1, <2>3, <4>1 DEF Unsolved, Keeps
      <4>2. CASE q \notin Members(l)
        BY <1>3, <2>1, <4>2, OthersStayToo DEF Waits
      <4> QED
        BY <4>1, <4>2
    <3> QED
      BY <1>1, <1>7, <2>1, <3>1, <3>2, OtherSolved
  <2> QED
    BY <2>2, <2>3
<1> QED
  BY <1>1, <1>8, <1>9, <1>10, <1>11, <1>13, LevelStep2
----------------------------------------------------------------------------

LEMMA SmoothPeakJ ==
  ASSUME JInv, IInv', NEW l \in Level, SmoothPeak(l)
  PROVE  JInv'
<1>1. /\ \A p \in Members(l) : todo[p] # <<>> /\ Head(todo[p]).op = "peak" /\ Head(todo[p]).i = l
      /\ sol' = [sol EXCEPT ![l] = AfterPeak(l).sol]
      /\ def' = [def EXCEPT ![l] = AfterPeak(l).def]
      /\ todo' = [p \in Proc |-> IF p \in Members(l) THEN Tail(todo[p]) ELSE todo[p]]
      /\ UNCHANGED <<input, calls, counters, rhs, up, down, failed, cor>>
  BY DEF SmoothPeak, At, driver, network, outcome
<1>2. OnlySteps(Members(l))
  BY <1>1 DEF OnlySteps
<1>3. \A j \in Level : j # l => sol'[j] = sol[j] /\ def'[j] = def[j]
  BY <1>1 DEF JInv, IInv, Data
<1>4. sol'[l] = PeakSmoother(l, rhs[l], sol[l])
  <2>1. sol'[l] = AfterPeak(l).sol
    BY <1>1 DEF JInv, IInv, Data
  <2> QED
    BY <2>1, AfterPeakSmooths
<1>5. l \in Nat /\ Members(l) \subseteq Proc /\ Members(l) # {}
  BY LevelFacts, SomeMember
<1>6. ASSUME NEW p \in Members(l)
      PROVE  /\ SameCall(p) /\ PlanAt(p)' /\ l < Crs
             /\ ClassAt(p, l) = "turn" /\ ClassAt(p, l)' = "second"
             /\ \A j : LevelOf(p, j) /\ j # l => ClassAt(p, j)' = ClassAt(p, j)
             /\ \A j : LevelOf(p, j) /\ l < j => ClassAt(p, j) = "off"
             /\ ~In(p, "split") /\ ~Sent(p, l) /\ \A j : ~At(p, "rest", j)
             /\ \A j : Sent(p, j) => Sent(p, j)'
  <2> DEFINE e == Head(todo[p])
             t == Tail(todo[p])
             cycle == CallOf(p).cycle
  <2>1. /\ p \in Proc /\ todo[p] # <<>> /\ e.op = "peak" /\ e.i = l
        /\ todo'[p] = t /\ counters'[p] = counters[p]
    BY <1>1, <1>5, <1>6
  <2>2. IsHead(p, cycle, e, t, counters[p])
    BY <2>1, NowIs DEF Now
  <2>3. ~In(p, "split") /\ ~Sent(p, l) /\ \A j : ~At(p, "rest", j)
    BY <1>5, <2>1 DEF In, At, Sent, SentBy, RestOps, ProlOps
  <2> HIDE DEF e, t, cycle
  <2>4. t # <<>> /\ IsPlan(p, cycle, Head(t), Tail(t), counters[p])
    BY <2>1, <2>2, TailPlan
  <2>5. SameCall(p) /\ CallOf(p)' = CallOf(p)
    BY <1>1, <2>1, <2>4, SameCallOf DEF SameCall
  <2>6. /\ \A j : ClassAt(p, j)' = ClassOf(p, cycle, Head(t), Tail(t), counters[p], j)
        /\ PlanAt(p)'
        /\ \A j : Sent(p, j)' <=> SentBy(Head(t), j)
    BY <2>1, <2>4, <2>5, PlanNext DEF cycle
  <2>7. \A j : ClassAt(p, j) = ClassOf(p, cycle, e, t, counters[p], j)
    BY <2>1 DEF ClassAt, cycle, e, t
  <2>8. LevelOf(p, l)
    BY <1>6 DEF LevelOf
  <2>9. ClassAt(p, l) = "turn" /\ ClassAt(p, l)' = "second"
    BY <2>1, <2>2, <2>6, <2>7, <2>8, PeakEnds
  <2>10. \A j : LevelOf(p, j) /\ j # l => ClassAt(p, j)' = ClassAt(p, j)
    BY <2>1, <2>2, <2>6, <2>7, PeakEnds
  <2>11. \A j : LevelOf(p, j) /\ l < j => ClassAt(p, j) = "off"
    BY <2>1, <2>7 DEF ClassOf, RestOps, ProlOps
  <2>12. Head(t).op = "rest" /\ Head(t).i = l /\ l < LastLevel(p)
    <3>1. ComesAfterPeak(p, cycle, e, counters[p], Head(t))
      BY <2>1, <2>2, TailOfPeak
    <3> QED
      BY <2>1, <3>1 DEF ComesAfterPeak
  <2>13. \A j : Sent(p, j) => Sent(p, j)'
    BY <2>1, <2>6, <2>12 DEF Sent, SentBy, RestOps, ProlOps, e
  <2>14. l < Crs
    BY <2>1, <2>12, LastFacts
  <2> QED
    BY <2>3, <2>5, <2>6, <2>9, <2>10, <2>11, <2>13, <2>14
<1>7. \A q \in Proc : SameCall(q) /\ FailsNow(q) /\ PassesOn(q)
  <2>1. ASSUME NEW q \in Members(l) PROVE SameCall(q) /\ PassesOn(q)
    <3>1. \A j \in Level : q \in Members(j) => (ClassAt(q, j)' # "off" => ClassAt(q, j) # "off")
      BY <1>6 DEF LevelOf
    <3>2. \A j \in Level : ~At(q, "split", j)
      BY <1>6 DEF At, In
    <3> QED
      BY <1>6, <3>1, <3>2 DEF PassesOn
  <2>2. \A q \in Proc : q \notin Members(l) => SameCall(q) /\ PassesOn(q)
    BY <1>2, OthersStayToo
  <2> QED
    BY <1>1, <2>1, <2>2 DEF FailsNow
<1>8. Computes(Members(l), l)
  BY <1>1, <1>3, <1>6 DEF Computes
<1>9. \A q \in Members(l) : Busy(q)
  BY <1>5, <1>6, WorkIsBusy DEF LevelOf
<1>10. NewClasses({l}, [j \in {l} |-> "second"])
  <2> DEFINE new == [j \in {l} |-> "second"]
  <2>1. new[l] = "second"
    OBVIOUS
  <2> HIDE DEF new
  <2>2. ASSUME NEW q \in Proc PROVE calls'[q] = calls[q] /\ PlanAt(q)'
    BY <1>2, <1>6, OthersStayToo DEF Keeps, SameCall
  <2>3. ASSUME NEW q \in Proc, NEW j, LevelOf(q, j)
        PROVE  ClassAt(q, j)' = IF j \in {l} THEN new[j] ELSE ClassAt(q, j)
    <3>1. CASE q \in Members(l)
      BY <1>6, <2>1, <2>3, <3>1
    <3>2. CASE q \notin Members(l)
      <4>1. j # l
        BY <2>3, <3>2 DEF LevelOf
      <4> QED
        BY <1>2, <2>3, <3>2, <4>1, OthersStayToo DEF Keeps
    <3> QED
      BY <3>1, <3>2
  <2>4. Top \in {l} => \A q \in Proc : Busy(q)
    BY <1>9, TopIsOurs
  <2>5. NewClasses({l}, new)
    BY <2>2, <2>3, <2>4 DEF NewClasses
  <2> QED
    BY <2>5 DEF new
<1>11. \A q \in Proc : Busy(q)' => Busy(q)
  <2> SUFFICES ASSUME NEW q \in Proc, Busy(q)' PROVE Busy(q)
    OBVIOUS
  <2>1. CASE q \in Members(l)
    BY <1>9, <2>1
  <2>2. CASE q \notin Members(l)
    BY <1>2, <2>2, OthersStayToo, TopIsOurs DEF Keeps, Busy, LevelOf
  <2> QED
    BY <2>1, <2>2
<1>12. AllSolved'
  <2> SUFFICES ASSUME NEW j \in Level, NEW q \in Members(j) PROVE Solved(q, j)'
    BY DEF AllSolved
  <2>1. q \in Proc /\ LevelOf(q, j) /\ j \in Nat
    BY SomeMember, LevelFacts DEF LevelOf
  <2>2. Solved(q, j) /\ SameCall(q) /\ FailsNow(q)
    BY <1>7, <2>1 DEF JInv, AllSolved
  <2>3. CASE q \notin Members(l)
    <3>1. SameBefore(q, j) /\ ClassAt(q, j)' = ClassAt(q, j) /\ (Unsolved(q, j) => Unsolved(q, j)')
      BY <1>2, <2>1, <2>3, OthersStayToo, KeepsBefore DEF Waits
    <3>2. sol'[j][q] = sol[j][q]
      BY <1>3, <2>3
    <3> QED
      BY <1>1, <2>2, <3>1, <3>2, KeepSolved
  <2>4. CASE q \in Members(l) /\ j < l
    <3>1. \A k \in {l} : ~(k < j)
      BY <1>5, <2>1, <2>4
    <3>2. SameBefore(q, j)
      BY <1>10, <2>1, <3>1, NewBefore
    <3>3. j # l
      BY <1>5, <2>1, <2>4
    <3>4. ClassAt(q, j)' = ClassAt(q, j) /\ sol'[j] = sol[j]
      BY <1>3, <1>6, <2>1, <2>4, <3>3
    <3>5. Unsolved(q, j) => Unsolved(q, j)'
      BY <1>6, <2>4, <3>4 DEF Unsolved
    <3> QED
      BY <1>1, <2>2, <3>2, <3>4, <3>5, KeepSolved
  <2>5. CASE q \in Members(l) /\ l < j
    <3>1. ClassAt(q, j)' = "off"
      BY <1>5, <1>6, <2>1, <2>5
    <3> QED
      BY <3>1, NotSolved
  <2>6. CASE j = l
    <3>1. \A k \in {l} : ~(k < j)
      BY <1>5, <2>6
    <3>2. SameBefore(q, l)
      BY <1>10, <2>1, <2>6, <3>1, NewBefore
    <3>3. (KindAt(q, l))' = KindAt(q, l) /\ (GivenAt(q, l))' = GivenAt(q, l) /\ CallOf(q)' = CallOf(q)
      BY <1>1, <2>2, <3>2, KeepKind, KeepGiven, SameCallOf
    <3>4. ClassAt(q, l)' = "second" /\ calls'[q] = calls[q] /\ failed' = failed
      BY <1>1, <1>6, <2>6
    <3>5. ASSUME calls[q] # failed
          PROVE  sol'[l][q] = SecondAnswer(CallOf(q).adapt, l, KindAt(q, l), GivenAt(q, l))[q]
      <4> DEFINE adapt == CallOf(q).adapt
                 kind == KindAt(q, l)
                 b == GivenAt(q, l)
                 x == OnceCorrected(adapt, l, kind, b)
      <4>1. \A m \in Members(l) : Busy(m) /\ ClassAt(m, l) = "turn" /\ ~Unsolved(m, l)
        BY <1>6, <1>9 DEF Unsolved
      <4>2. Agree(l, sol[l], Expected("turn", adapt, l, kind, b))
        BY <2>6, <3>5, <4>1, SolvedAgrees
      <4>3. Expected("turn", adapt, l, kind, b) = x
        BY DEF Expected
      <4>4. Agree(l, rhs[l], b)
        BY <1>9, <2>6, GivenAgrees DEF JInv
      <4> HIDE DEF adapt, kind, b, x
      <4>5. Agree(l, PeakSmoother(l, rhs[l], sol[l]), PeakSmoother(l, b, x))
        BY <4>2, <4>3, <4>4, PeakSmootherAgrees
      <4>6. sol'[l][q] = PeakSmoother(l, b, x)[q]
        BY <1>4, <2>6, <4>5 DEF Agree
      <4> QED
        BY <4>6 DEF SecondAnswer, adapt, kind, b, x
    <3>6. \A a, k, g : Expected("second", a, l, k, g) = SecondAnswer(a, l, k, g)
      BY DEF Expected
    <3>7. Solved(q, l)'
      BY <3>3, <3>4, <3>5, <3>6 DEF Solved
    <3> QED
      BY <2>6, <3>7
  <2> QED
    BY <1>5, <2>1, <2>3, <2>4, <2>5, <2>6
<1> QED
  BY <1>1, <1>7, <1>8, <1>10, <1>11, <1>12, LevelStep2

----------------------------------------------------------------------------
(* The coarse grid.                                                        *)

LEMMA KindIs ==
  ASSUME JInv, NEW p \in Proc, todo[p] # <<>>, NEW l
  PROVE  KindAt(p, l) \in Cycle
<1>1. CallOf(p).cycle \in Cycle
  BY HeadOf DEF JInv
<1> QED
  BY <1>1 DEF KindAt, Cycle

\* What a coarse grid solver and a failure of it have in common.
AtCrs ==
  /\ \A p \in Members(Crs) : In(p, "coarse")
  /\ todo' = CoarseDone
  /\ \E x \in Vector : sol' = [sol EXCEPT ![Crs] = x]
  /\ UNCHANGED <<input, calls, counters, rhs, def, up, down, cor>>

LEMMA CrsMoves ==
  ASSUME JInv, AtCrs, NEW p \in Members(Crs)
  PROVE  /\ SameCall(p) /\ PlanAt(p)' /\ PassesOn(p) /\ ~In(p, "split") /\ Busy(p)
         /\ ClassAt(p, Crs) = "first" /\ ClassAt(p, Crs)' = "done"
         /\ \A j : LevelOf(p, j) /\ j # Crs => ClassAt(p, j)' = ClassAt(p, j)
         /\ \A j : ~At(p, "rest", j)
<1> DEFINE e == Head(todo[p])
           t == Tail(todo[p])
           cycle == CallOf(p).cycle
<1>1. /\ p \in Proc /\ todo[p] # <<>> /\ e.op = "coarse"
      /\ todo'[p] = t /\ counters'[p] = counters[p] /\ input' = input /\ calls'[p] = calls[p]
  BY SomeMember, LevelFacts DEF AtCrs, In, CoarseDone
<1>2. IsHead(p, cycle, e, t, counters[p])
  BY <1>1, NowIs DEF Now
<1>3. ~In(p, "split") /\ \A j : ~At(p, "rest", j) /\ ~At(p, "split", j)
  BY <1>1 DEF In, At
<1> HIDE DEF e, t, cycle
<1>4. t # <<>> /\ IsPlan(p, cycle, Head(t), Tail(t), counters[p])
  BY <1>1, <1>2, TailPlan
<1>5. SameCall(p) /\ CallOf(p)' = CallOf(p)
  BY <1>1, <1>4, SameCallOf DEF SameCall
<1>6. /\ \A j : ClassAt(p, j)' = ClassOf(p, cycle, Head(t), Tail(t), counters[p], j)
      /\ PlanAt(p)'
      /\ \A j : Sent(p, j)' <=> SentBy(Head(t), j)
  BY <1>1, <1>4, <1>5, PlanNext DEF cycle
<1>7. \A j : ClassAt(p, j) = ClassOf(p, cycle, e, t, counters[p], j)
  BY <1>1 DEF ClassAt, cycle, e, t
<1>8. LevelOf(p, Crs)
  BY LevelFacts DEF LevelOf
<1>9. ClassAt(p, Crs) = "first" /\ ClassAt(p, Crs)' = "done"
  BY <1>1, <1>2, <1>6, <1>7, <1>8, CoarseEnds
<1>10. \A j : LevelOf(p, j) /\ j # Crs => ClassAt(p, j)' = ClassAt(p, j)
  BY <1>1, <1>2, <1>6, <1>7, CoarseEnds
<1>11. Busy(p)
  BY <1>1, <1>8, <1>9, WorkIsBusy
<1>12. PassesOn(p)
  <2>1. \/ Head(t).op = "prol" /\ Head(t).i = LastLevel(p)
        \/ Head(t).op \in {"wstart", "wloop"}
    <3>1. ComesAfterCoarse(p, cycle, Head(t)) /\ cycle \in {"V", "F", "W"}
      BY <1>1, <1>2, TailOfCoarse, HeadIs
    <3> QED
      BY <3>1 DEF ComesAfterCoarse
  <2>2. \A l \in Level : l < Crs /\ p \in Members(l) => Sent(p, l)'
    BY <1>1, <1>6, <2>1, LastFacts DEF SentBy, ProlOps
  <2>3. \A j \in Level : p \in Members(j) => (ClassAt(p, j)' # "off" => ClassAt(p, j) # "off")
    BY <1>9, <1>10 DEF LevelOf
  <2> QED
    BY <1>3, <2>2, <2>3 DEF PassesOn
<1> QED
  BY <1>3, <1>5, <1>6, <1>9, <1>10, <1>11, <1>12

LEMMA CrsStep ==
  ASSUME JInv, IInv', AtCrs, \A q \in Proc : FailsNow(q),
         \A q \in Members(Crs) : Solved(q, Crs)'
  PROVE  JInv'
<1>1. Crs \in Level /\ Crs \in Nat /\ Members(Crs) \subseteq Proc
  BY LevelFacts, SomeMember
<1>2. OnlySteps(Members(Crs))
  BY DEF AtCrs, OnlySteps, CoarseDone
<1>3. \A j \in Level : j # Crs => sol'[j] = sol[j] /\ def'[j] = def[j]
  BY DEF JInv, IInv, Data, AtCrs
<1>4. \A q \in Proc : SameCall(q) /\ PassesOn(q) /\ PlanAt(q)'
  BY <1>2, CrsMoves, OthersStayToo DEF Keeps
<1>5. Computes(Members(Crs), Crs)
  <2>1. \A q \in Members(Crs) : ~In(q, "split")
    BY CrsMoves
  <2>2. ~(Crs < Crs)
    BY <1>1
  <2>3. UNCHANGED <<input, rhs, up, down>>
    BY DEF AtCrs
  <2> QED
    BY <1>3, <2>1, <2>2, <2>3 DEF Computes
<1>6. NewClasses({Crs}, [j \in {Crs} |-> "done"])
  <2> DEFINE new == [j \in {Crs} |-> "done"]
  <2>1. new[Crs] = "done"
    OBVIOUS
  <2> HIDE DEF new
  <2>2. \A q \in Proc : calls'[q] = calls[q] /\ PlanAt(q)'
    BY <1>4 DEF SameCall
  <2>3. ASSUME NEW q \in Proc, NEW j, LevelOf(q, j)
        PROVE  ClassAt(q, j)' = IF j \in {Crs} THEN new[j] ELSE ClassAt(q, j)
    <3>1. CASE q \in Members(Crs)
      BY <2>1, <2>3, <3>1, CrsMoves
    <3>2. CASE q \notin Members(Crs)
      <4>1. j # Crs
        BY <2>3, <3>2 DEF LevelOf
      <4> QED
        BY <1>2, <2>3, <3>2, <4>1, OthersStayToo DEF Keeps
    <3> QED
      BY <3>1, <3>2
  <2>4. Top \in {Crs} => \A q \in Proc : Busy(q)
    BY CrsMoves, TopIsOurs
  <2>5. NewClasses({Crs}, new)
    BY <2>2, <2>3, <2>4 DEF NewClasses
  <2> QED
    BY <2>5 DEF new
<1>7. \A q \in Proc : Busy(q)' => Busy(q)
  <2> SUFFICES ASSUME NEW q \in Proc, Busy(q)' PROVE Busy(q)
    OBVIOUS
  <2>1. CASE q \in Members(Crs)
    BY <2>1, CrsMoves
  <2>2. CASE q \notin Members(Crs)
    BY <1>2, <2>2, OthersStayToo, TopIsOurs DEF Keeps, Busy, LevelOf
  <2> QED
    BY <2>1, <2>2
<1>8. AllSolved'
  <2> SUFFICES ASSUME NEW j \in Level, NEW q \in Members(j), j # Crs PROVE Solved(q, j)'
    BY DEF AllSolved
  <2>1. q \in Proc /\ LevelOf(q, j) /\ j \in Nat /\ j <= Crs
    BY SomeMember, LevelFacts DEF LevelOf
  <2>2. Solved(q, j) /\ SameCall(q)
    BY <1>4, <2>1 DEF JInv, AllSolved
  <2>3. \A k \in {Crs} : ~(k < j)
    BY <1>1, <2>1
  <2>4. SameBefore(q, j)
    BY <1>6, <2>1, <2>3, NewBefore
  <2>5. ClassAt(q, j)' = ClassAt(q, j)
    BY <1>6, <2>1 DEF NewClasses
  <2>6. Unsolved(q, j) => Unsolved(q, j)'
    <3>1. CASE q \in Members(Crs)
      BY <3>1, CrsMoves DEF Unsolved
    <3>2. CASE q \notin Members(Crs)
      BY <1>2, <2>1, <3>2, OthersStayToo DEF Waits
    <3> QED
      BY <3>1, <3>2
  <2>7. sol'[j][q] = sol[j][q] /\ rhs' = rhs
    BY <1>3 DEF AtCrs
  <2> QED
    BY <2>1, <2>2, <2>4, <2>5, <2>6, <2>7, KeepSolved
<1>9. rhs' = rhs /\ cor' = cor
  BY DEF AtCrs
<1> QED
  BY <1>1, <1>4, <1>5, <1>6, <1>7, <1>8, <1>9, LevelStep2

LEMMA SmoothedAtCrs ==
  ASSUME JInv
  PROVE  Smoothed(CrsSolver, Crs, rhs[Crs]) \in Vector /\ sol[Crs] \in Vector
<1>1. Crs \in Level /\ CrsSolver \in Int /\ rhs[Crs] \in Vector /\ sol[Crs] \in Vector
  BY LevelFacts, FactorFacts DEF JInv, IInv, Data
<1>2. \A p \in Proc : rhs[Crs][p] \in Int
  BY <1>1, VectorFacts
<1> QED
  BY <1>1, <1>2, SmoothedIs

LEMMA CoarseSolveJ ==
  ASSUME JInv, IInv', CoarseSolve
  PROVE  JInv'
<1>1. AtCrs /\ failed' = failed /\ sol' = [sol EXCEPT ![Crs] = Smoothed(CrsSolver, Crs, rhs[Crs])]
  BY SmoothedAtCrs DEF CoarseSolve, AtCrs, driver, network, outcome
<1>2. Crs \in Level /\ Members(Crs) \subseteq Proc
  BY LevelFacts, SomeMember
<1>3. sol'[Crs] = Smoothed(CrsSolver, Crs, rhs[Crs])
  BY <1>1, <1>2 DEF JInv, IInv, Data
<1>4. ASSUME NEW q \in Members(Crs) PROVE Solved(q, Crs)'
  <2>1. /\ SameCall(q) /\ ClassAt(q, Crs)' = "done" /\ q \in Proc /\ LevelOf(q, Crs)
        /\ \A j : LevelOf(q, j) /\ j # Crs => ClassAt(q, j)' = ClassAt(q, j)
        /\ Busy(q)
    BY <1>1, <1>2, <1>4, CrsMoves DEF LevelOf
  <2>2. SameBefore(q, Crs)
    <3> SUFFICES ASSUME NEW j \in Level, j < Crs PROVE ClassAt(q, j)' = ClassAt(q, j)
      BY DEF SameBefore
    <3>1. j \in Nat /\ Crs \in Nat
      BY LevelFacts
    <3>2. j # Crs /\ j <= Crs
      BY <3>1
    <3> QED
      BY <1>2, <2>1, <3>2, MembersBelow
  <2>3. rhs' = rhs
    BY <1>1 DEF AtCrs
  <2>4. (KindAt(q, Crs))' = KindAt(q, Crs) /\ (GivenAt(q, Crs))' = GivenAt(q, Crs) /\ CallOf(q)' = CallOf(q)
    BY <2>1, <2>2, <2>3, KeepKind, KeepGiven, SameCallOf
  <2> DEFINE b == GivenAt(q, Crs)
             kind == KindAt(q, Crs)
  <2>5. Agree(Crs, rhs[Crs], b) /\ b \in Vector
    <3>1. \A m \in Members(Crs) : Busy(m)
      BY <1>1, CrsMoves
    <3> QED
      BY <1>2, <1>4, <3>1, GivenAgrees DEF JInv
  <2>6. kind \in Cycle
    <3>1. todo[q] # <<>>
      BY <2>1 DEF Busy, ClassAt
    <3> QED
      BY <2>1, <3>1, KindIs
  <2> HIDE DEF b, kind
  <2>7. \A a : Cycles(a)[Crs][kind][b] = Smoothed(CrsSolver, Crs, b)
    BY <1>2, <2>5, <2>6, CyclesAre
  <2>8. CrsSolver \in Int
    BY <1>2, FactorFacts
  <2>9. Agree(Crs, Smoothed(CrsSolver, Crs, rhs[Crs]), Smoothed(CrsSolver, Crs, b))
    BY <1>2, <2>5, <2>8, SmoothedAgrees
  <2>10. \A a : sol'[Crs][q] = Cycles(a)[Crs][kind][b][q]
    BY <1>3, <1>4, <2>7, <2>9 DEF Agree
  <2>11. \A a, k, g : Expected("done", a, Crs, k, g) = Cycles(a)[Crs][k][g]
    BY DEF Expected
  <2> QED
    BY <2>1, <2>4, <2>10, <2>11 DEF Solved, b, kind
<1>5. \A q \in Proc : FailsNow(q)
  BY <1>1 DEF FailsNow
<1> QED
  BY <1>1, <1>4, <1>5, CrsStep

\* When the coarse grid solver runs, all processes are in the same call.
LEMMA AllInCall ==
  ASSUME JInv, AtCrs, NEW p \in Members(Crs), NEW q \in Proc
  PROVE  calls[q] = calls[p]
<1>1. p \in Proc /\ Busy(p) /\ ClassAt(p, Crs) = "first" /\ Top \in Nat /\ Crs \in Nat /\ Top <= Crs /\ Crs \in Level
  BY CrsMoves, SomeMember, LevelFacts
<1>2. Busy(q)
  <2>1. CASE Top = Crs
    BY <2>1, CrsMoves, TopIsOurs
  <2>2. CASE Top < Crs
    <3>1. Top + 1 \in Level /\ Top \in Level /\ Top + 1 <= Crs
      BY <1>1, <2>2, LevelFacts
    <3>2. p \in Members(Top + 1) /\ q \in Members(Top)
      BY <1>1, <3>1, MembersBelow, TopIsOurs
    <3>3. ClassAt(p, Top + 1) # "off"
      <4>1. CASE Top + 1 = Crs
        BY <1>1, <4>1
      <4>2. CASE Top + 1 < Crs
        <5>1. LevelOf(p, Crs)
          BY <1>1 DEF LevelOf
        <5> QED
          BY <1>1, <3>1, <4>2, <5>1, VisitedBefore DEF JInv, Visits
      <4> QED
        BY <1>1, <3>1, <4>1, <4>2
    <3>4. Sent(q, Top)
      BY <2>2, <3>1, <3>2, <3>3 DEF JInv, Passed, Gone
    <3> QED
      BY <2>2, <3>1, <3>4, SentIsBusy DEF JInv
  <2> QED
    BY <1>1, <2>1, <2>2
<1> QED
  BY <1>1, <1>2 DEF JInv, Together, SameCalls

LEMMA CoarseFailsJ ==
  ASSUME JInv, IInv', CoarseFails
  PROVE  JInv'
<1>1. AtCrs
  BY SmoothedAtCrs DEF CoarseFails, AtCrs, driver, network, outcome
<1>2. PICK p \in Members(Crs) : failed' = calls[p]
  BY DEF CoarseFails
<1>3. \A q \in Proc : calls'[q] = failed'
  BY <1>1, <1>2, AllInCall DEF AtCrs
<1>4. \A q \in Proc : FailsNow(q)
  BY <1>3 DEF FailsNow
<1>5. \A q \in Members(Crs) : Solved(q, Crs)'
  BY <1>3, NotSolved, SomeMember, LevelFacts
<1> QED
  BY <1>1, <1>4, <1>5, CrsStep
----------------------------------------------------------------------------
(* Restriction.                                                            *)

\* The processes of the next level come to it.
LEMMA RestMoves ==
  ASSUME JInv, NEW l \in Level, Rest(l), NEW p \in Members(l + 1)
  PROVE  /\ SameCall(p) /\ PlanAt(p)' /\ Busy(p) /\ Left(p, l)
         /\ ClassAt(p, l + 1)' = "first" /\ At(p, "rest", l + 1)'
         /\ \A j : LevelOf(p, j) /\ j # l + 1 => ClassAt(p, j)' = ClassAt(p, j)
         /\ \A j : LevelOf(p, j) /\ l < j => ClassAt(p, j) = "off"
         /\ Sent(p, l)' /\ \A j \in Level : Sent(p, j) => Sent(p, j)'
         /\ \A j : ~At(p, "rest", j) /\ ~At(p, "split", j)
<1> DEFINE e == Head(todo[p])
           t == Tail(todo[p])
           cycle == CallOf(p).cycle
<1>1. /\ l < Crs /\ todo[p] # <<>> /\ e.op = "transfer" /\ e.i = l
      /\ todo' = [q \in Proc |-> IF q \in Members(l + 1) THEN LoopGoesOn(q, "rest", l + 1) ELSE todo[q]]
      /\ UNCHANGED <<input, calls, counters>>
  BY DEF Rest, At, driver
<1>2. l + 1 \in Level /\ l \in Nat /\ p \in Proc /\ p \in Members(l)
  BY <1>1, NextLevel
<1>3. IsHead(p, cycle, e, t, counters[p])
  BY <1>1, <1>2, NowIs DEF Now
<1>4. \A j : ~At(p, "rest", j) /\ ~At(p, "split", j)
  BY <1>1 DEF At
<1>5. Left(p, l)
  BY <1>1, <1>2 DEF Left, Below
<1>6. e.lvl <= l + 1 /\ l + 1 <= LastLevel(p)
  <2>1. e.lvl <= e.i /\ e.lvl \in Nat
    <3> HIDE DEF e, t, cycle
    <3> QED
      BY <1>1, <1>3, HeadIs DEF RestOps
  <2>2. e.lvl <= l + 1
    <3> HIDE DEF e
    <3> QED
      BY <1>1, <1>2, <2>1
  <2>3. LevelOf(p, l + 1)
    BY <1>2 DEF LevelOf
  <2> QED
    BY <1>2, <2>2, <2>3, LevelOfFacts
<1>7. LoopGoes(p, "rest", l + 1)
  BY <1>1, <1>2, <1>6 DEF LoopGoes, RestOps
<1>8. GoesTo(p, e, t, "rest", l + 1)
  BY <1>2, <1>7, GoesOnTo
<1> DEFINE f == GoneOn(e, "rest", l + 1)
<1> HIDE DEF e, t, cycle
<1>9. \A j : ClassAt(p, j) = ClassOf(p, cycle, e, t, counters[p], j)
  BY <1>1 DEF ClassAt, cycle, e, t
<1>10. \A j : ClassAt(p, j)' = ClassOf(p, cycle, f, t, counters[p], j)
  BY <1>8 DEF GoesTo, cycle
<1>11. \A j : LevelOf(p, j) =>
         /\ j # l + 1 => ClassOf(p, cycle, f, t, counters[p], j) = ClassOf(p, cycle, e, t, counters[p], j)
         /\ j = l + 1 => ClassOf(p, cycle, f, t, counters[p], j) = "first"
  BY <1>1, <1>3, GoesDown
<1>12. LevelOf(p, l + 1) /\ LevelOf(p, l)
  BY <1>2 DEF LevelOf
<1>13. \A j : LevelOf(p, j) /\ l < j => ClassAt(p, j) = "off"
  BY <1>1, <1>9 DEF ClassOf, RestOps
<1>14. ClassAt(p, l) \in Visits
  <2>1. ~(l > e.i)
    BY <1>1, <1>2
  <2>2. ClassOf(p, cycle, e, t, counters[p], l) = Visit(p, cycle, e, t, counters[p], l)
    BY <1>1, <2>1 DEF ClassOf, RestOps, ProlOps
  <2> QED
    BY <1>9, <2>2 DEF Visit, Visits
<1>15. Busy(p)
  BY <1>2, <1>12, <1>14, WorkIsBusy DEF Visits
<1>16. \A j : Sent(p, j)' <=> SentBy(f, j)
  BY <1>8 DEF GoesTo
<1>17. f.op = "rest" /\ f.i = l + 1
  BY DEF GoneOn
<1>18. Sent(p, l)'
  BY <1>2, <1>16, <1>17 DEF SentBy, RestOps
<1>19. \A j \in Level : Sent(p, j) => Sent(p, j)'
  <2> SUFFICES ASSUME NEW j \in Level, SentBy(e, j) PROVE SentBy(f, j)
    BY <1>16 DEF Sent, e
  <2> HIDE DEF f
  <2>1. j < l
    BY <1>1 DEF SentBy, RestOps, ProlOps
  <2>2. j < l + 1
    <3>1. j \in Nat
      BY LevelFacts
    <3> QED
      BY <1>2, <2>1, <3>1
  <2> QED
    BY <1>17, <2>2 DEF SentBy, RestOps
<1>20. SameCall(p) /\ PlanAt(p)' /\ At(p, "rest", l + 1)'
  BY <1>8 DEF GoesTo
<1> HIDE DEF f
<1> QED
  BY <1>4, <1>5, <1>9, <1>10, <1>11, <1>12, <1>13, <1>15, <1>18, <1>19, <1>20

\* What a ghost has sent.
LEMMA GhostSent ==
  ASSUME JInv, NEW l \in Level, Rest(l), NEW g \in Members(l) \ Members(l + 1)
  PROVE  up[g] = <<Weight[l].rest * Filter(l, def[l])[g]>> /\ Sent(g, l) /\ Left(g, l)
<1>1. l < Crs
  BY DEF Rest
<1>2. g \in Proc /\ Parent[g] \in Members(l + 1) /\ g \in Ghosts(l, Parent[g])
  BY <1>1, GhostHasParent
<1>3. up[g] # <<>>
  BY <1>2 DEF Rest
<1>4. up[g] = <<Weight[l].rest * Filter(l, def[l])[g]>> /\ Sent(g, l)
  BY <1>1, <1>3 DEF JInv, Passed, UpIs
<1> QED
  BY <1>1, <1>2, <1>4, SentIsBusy DEF JInv

\* They get the restricted defect there.
LEMMA RestGives ==
  ASSUME JInv, NEW l \in Level, Rest(l), NEW q \in Members(l + 1)
  PROVE  rhs'[l + 1][q] = Restricted(l, Defect(l, rhs[l], sol[l]))[q]
<1> DEFINE d == Filter(l, def[l])
           u == [g \in Proc |-> Head(up[g])]
           S == {p \in Members(l) : q \in Members(l + 1) /\ CoarseProc(l, p) = q}
           F == [g \in Ghosts(l, q) |-> Head(up[g])]
<1>1. l < Crs /\ l + 1 \in Level /\ l \in Nat /\ Members(l) \subseteq Proc /\ q \in Proc
      /\ rhs \in [Level -> Vector] /\ def \in [Level -> Vector]
  BY NextLevel DEF Rest, JInv, IInv, Data
<1>2. d = Defect(l, rhs[l], sol[l])
  <2>1. \A p \in Members(l) : Left(p, l)
    BY RestMoves, GhostSent
  <2>2. l \in Top .. Crs - 1
    BY <1>1, LevelFacts
  <2> QED
    BY <2>1, <2>2 DEF JInv, IInv, Levels, LevelIsRight
<1>3. d \in Vector
  <2>1. \A p \in Proc : def[l][p] \in Num
    BY <1>1, VectorFacts
  <2> QED
    BY <2>1, FilterIs
<1>4. Ghosts(l, q) \subseteq Members(l) \ Members(l + 1)
  BY DEF Ghosts
<1>5. \A g \in Ghosts(l, q) : u[g] = Weight[l].rest * d[g]
  <2> SUFFICES ASSUME NEW g \in Ghosts(l, q) PROVE u[g] = Weight[l].rest * d[g]
    OBVIOUS
  <2>1. up[g] = <<Weight[l].rest * d[g]>> /\ g \in Proc
    BY <1>1, <1>4, GhostSent
  <2> HIDE DEF d
  <2> QED
    BY <2>1
<1>6. F = [g \in Ghosts(l, q) |-> u[g]]
  BY <1>1, <1>4
<1>7. rhs'[l + 1][q] = IF q \in Fixed[l + 1] THEN 0 ELSE (Weight[l].rest * d[q] + SumFunction(F)) % Prime
  <2>1. def'[l][q] = d[q]
    BY <1>1 DEF Rest
  <2>2. PICK j : j = [p \in Proc |->
           IF p \notin Members(l + 1) THEN rhs[l + 1][p]
           ELSE (Weight[l].rest * def'[l][p] + SumFunction([g \in Ghosts(l, p) |-> Head(up[g])])) % Prime]
    OBVIOUS
  <2>3. rhs' = [rhs EXCEPT ![l + 1] = Filter(l + 1, j)]
    BY <2>2 DEF Rest
  <2>4. rhs'[l + 1] = Filter(l + 1, j)
    BY <1>1, <2>3
  <2>5. j[q] = (Weight[l].rest * d[q] + SumFunction(F)) % Prime
    BY <1>1, <2>1, <2>2
  <2> HIDE DEF F, d
  <2> QED
    BY <1>1, <2>4, <2>5 DEF Filter
<1>8. Restricted(l, d)[q] = IF q \in Fixed[l + 1] THEN 0 ELSE (Weight[l].rest * SumFunctionOnSet(d, S)) % Prime
  BY <1>1, RestrictedAt
<1> HIDE DEF d, u
<1>9. (Weight[l].rest * d[q] + SumFunction(F)) % Prime = (Weight[l].rest * SumFunctionOnSet(d, S)) % Prime
  <2>1. (Weight[l].rest * d[q] + SumFunction([g \in Ghosts(l, q) |-> u[g]])) % Prime
          = (Weight[l].rest * SumFunctionOnSet(d, S)) % Prime
    BY <1>1, <1>3, <1>5, GatherIs
  <2> HIDE DEF S, F
  <2> QED
    BY <1>6, <2>1
<1> HIDE DEF S, F
<1> QED
  BY <1>2, <1>7, <1>8, <1>9

LEMMA NowLinked ==
  ASSUME NEW p, NEW l, rhs'[l][p] = Restricted(l - 1, Defect(l - 1, rhs'[l - 1], sol'[l - 1]))[p]
  PROVE  Linked(p, l)'
BY DEF Linked

LEMMA RestJ ==
  ASSUME JInv, IInv', NEW l \in Level, Rest(l)
  PROVE  JInv'
<1>1. /\ l < Crs
      /\ def' = [def EXCEPT ![l] = [p \in Proc |-> IF p \in Members(l + 1) THEN Filter(l, @)[p] ELSE @[p]]]
      /\ up' = [g \in Proc |-> IF g \in Members(l) \ Members(l + 1) THEN Tail(up[g]) ELSE up[g]]
      /\ todo' = [p \in Proc |-> IF p \in Members(l + 1) THEN LoopGoesOn(p, "rest", l + 1) ELSE todo[p]]
      /\ UNCHANGED <<input, calls, sol, counters, down, failed, cor>>
  BY DEF Rest, driver, outcome
<1>2. /\ l + 1 \in Level /\ l \in Nat /\ Top <= l /\ Top \in Nat /\ Crs \in Nat /\ (l + 1) - 1 = l /\ Top < l + 1
      /\ Members(l) \subseteq Proc /\ Members(l + 1) \subseteq Members(l) /\ Members(l + 1) # {}
      /\ Top # l + 1 /\ l # l + 1
  BY <1>1, NextLevel
<1>3. OnlySteps(Members(l + 1))
  BY <1>1 DEF OnlySteps
<1>4. \A j \in Level : j # l + 1 => rhs'[j] = rhs[j]
  <2>1. PICK x : rhs' = [rhs EXCEPT ![l + 1] = x]
    BY DEF Rest
  <2> QED
    BY <2>1 DEF JInv, IInv, Data
<1>5. /\ \A j \in Level : j # l => def'[j] = def[j]
      /\ \A g \in Members(l) \ Members(l + 1) : def'[l][g] = def[l][g]
  BY <1>1, <1>2 DEF JInv, IInv, Data
<1>6. ASSUME NEW q \in Proc
      PROVE  /\ SameCall(q) /\ FailsNow(q) /\ PlanAt(q)' /\ calls'[q] = calls[q]
             /\ \A j : LevelOf(q, j) /\ j # l + 1 => ClassAt(q, j)' = ClassAt(q, j)
             /\ LevelOf(q, l + 1) => ClassAt(q, l + 1)' = "first"
             /\ \A j \in Level : j < Crs /\ q \in Members(j) /\ Sent(q, j) => Sent(q, j)'
             /\ \A j \in Level : At(q, "split", j) => At(q, "split", j)'
             /\ \A j : LevelOf(q, j) /\ j # l + 1 /\ Unsolved(q, j) => Unsolved(q, j)'
  <2>1. FailsNow(q) /\ calls'[q] = calls[q]
    BY <1>1 DEF FailsNow
  <2>2. CASE q \in Members(l + 1)
    <3>1. \A j : LevelOf(q, j) /\ j # l + 1 /\ Unsolved(q, j) => Unsolved(q, j)'
      <4> SUFFICES ASSUME NEW j, LevelOf(q, j), j # l + 1, Unsolved(q, j) PROVE Unsolved(q, j)'
        OBVIOUS
      <4>1. j = Crs /\ ClassAt(q, j) = "first"
        BY <2>2, RestMoves DEF Unsolved
      <4> QED
        BY <1>1, <2>2, <4>1, RestMoves
    <3> QED
      BY <2>1, <2>2, <3>1, RestMoves
  <2>3. CASE q \notin Members(l + 1)
    BY <1>3, <2>1, <2>3, OthersStayToo DEF Keeps, Waits, StaysSplit, LevelOf
  <2> QED
    BY <2>2, <2>3
<1>7. NewClasses({l + 1}, [j \in {l + 1} |-> "first"])
  <2> DEFINE new == [j \in {l + 1} |-> "first"]
  <2>1. new[l + 1] = "first"
    OBVIOUS
  <2> HIDE DEF new
  <2>2. \A q \in Proc : \A j : LevelOf(q, j) => ClassAt(q, j)' = IF j \in {l + 1} THEN new[j] ELSE ClassAt(q, j)
    BY <1>6, <2>1
  <2>3. NewClasses({l + 1}, new)
    BY <1>2, <1>6, <2>2 DEF NewClasses
  <2> QED
    BY <2>3 DEF new
<1>8. Plans' /\ Together'
  BY <1>7, TogetherStep
<1>9. \A q \in Proc : Busy(q)' => Busy(q)
  BY <1>2, <1>6, TopIsOurs DEF Busy, LevelOf
<1>10. Passed'
  <2> SUFFICES ASSUME NEW j \in Level, j < Crs
               PROVE  Gone(j)' /\ \A g \in Members(j) \ Members(j + 1) : UpIs(j, g)' /\ DownIs(j, g)'
    BY DEF Passed
  <2>1. Gone(j) /\ \A g \in Members(j) \ Members(j + 1) : UpIs(j, g) /\ DownIs(j, g)
    BY DEF JInv, Passed
  <2>2. j + 1 \in Level /\ Members(j) \subseteq Proc /\ Members(j + 1) \subseteq Proc /\ j \in Nat
    BY NextLevel
  <2>3. \A q \in Members(j) : Sent(q, j) => Sent(q, j)'
    BY <1>6, <2>2
  <2>4. \A g \in Members(j) \ Members(j + 1) : j # l => up'[g] = up[g]
    <3> SUFFICES ASSUME NEW g \in Members(j) \ Members(j + 1), j # l PROVE up'[g] = up[g]
      OBVIOUS
    <3>1. g \notin Members(l) \ Members(l + 1)
      BY OneGhostLevel
    <3> QED
      BY <1>1, <2>2, <3>1
  <2>5. \A g \in Members(l) \ Members(l + 1) : up'[g] = <<>> /\ Sent(g, l)'
    <3> SUFFICES ASSUME NEW g \in Members(l) \ Members(l + 1) PROVE up'[g] = <<>> /\ Sent(g, l)'
      OBVIOUS
    <3>1. up[g] = <<Weight[l].rest * Filter(l, def[l])[g]>> /\ Sent(g, l) /\ g \in Proc
      BY <1>2, GhostSent
    <3>2. up'[g] = Tail(up[g])
      BY <1>1, <3>1
    <3>3. \A x : Tail(<<x>>) = <<>>
      OBVIOUS
    <3> QED
      BY <1>1, <1>6, <3>1, <3>2, <3>3
  <2>6. Gone(j)'
    <3>1. CASE j = l
      <4>1. \A q \in Members(l) : Sent(q, l)' /\ (q \notin Members(l + 1) => up'[q] = <<>>)
        BY <2>5, RestMoves
      <4> QED
        BY <3>1, <4>1 DEF Gone
    <3>2. CASE j # l
      <4>1. j + 1 # l + 1
        BY <1>2, <2>2, <3>2
      <4>2. \A q \in Members(j + 1) : ClassAt(q, j + 1)' # "off" => ClassAt(q, j + 1) # "off"
        BY <1>6, <2>2, <4>1 DEF LevelOf
      <4> QED
        BY <2>1, <2>3, <2>4, <3>2, <4>2, KeepGone
    <3> QED
      BY <3>1, <3>2
  <2>7. ASSUME NEW g \in Members(j) \ Members(j + 1) PROVE UpIs(j, g)' /\ DownIs(j, g)'
    <3>3. UpIs(j, g)'
      <4>1. CASE j = l
        BY <2>5, <2>7, <4>1 DEF UpIs
      <4>2. CASE j # l
        <5>1. def'[j][g] = def[j][g]
          BY <1>5, <4>2
        <5> QED
          BY <2>1, <2>3, <2>4, <2>7, <4>2, <5>1, KeepUp
      <4> QED
        BY <4>1, <4>2
    <3>4. Parent[g] \in Proc /\ (At(Parent[g], "split", j + 1) => At(Parent[g], "split", j + 1)')
      BY <1>6, <2>2, GhostHasParent
    <3>5. DownIs(j, g)'
      BY <1>1, <2>1, <2>7, <3>4, KeepDown
    <3> QED
      BY <3>3, <3>5
  <2> QED
    BY <2>6, <2>7
<1>11. Given'
  <2>1. \A q \in Proc : HasDef(q)'
    BY <1>2, <1>4, <1>6, <1>9, TopIsOurs, KeepDef DEF JInv, Given
  <2>2. ASSUME NEW j \in Level, Top < j, NEW q \in Members(j) PROVE Linked(q, j)'
    <3>1. q \in Proc /\ LevelOf(q, j) /\ j \in Nat /\ j <= Crs
      BY SomeMember, LevelFacts DEF LevelOf
    <3>2. CASE j = l + 1
      <4>1. rhs'[l] = rhs[l] /\ sol' = sol
        BY <1>1, <1>2, <1>4
      <4>2. rhs'[l + 1][q] = Restricted(l, Defect(l, rhs[l], sol[l]))[q]
        BY <3>2, RestGives
      <4>3. j - 1 = l
        BY <1>2, <3>2
      <4>4. rhs'[j][q] = Restricted(j - 1, Defect(j - 1, rhs'[j - 1], sol'[j - 1]))[q]
        BY <3>2, <4>1, <4>2, <4>3
      <4> QED
        BY <4>4, NowLinked
    <3>3. CASE j = l + 2
      <4>1. l + 1 <= j /\ l < j /\ j # l + 1
        BY <1>2, <3>1, <3>3
      <4>2. q \in Members(l + 1)
        BY <1>2, <4>1, MembersBelow
      <4>3. ClassAt(q, j)' = "off"
        BY <3>1, <4>1, <4>2, RestMoves
      <4> QED
        BY <4>3, NotLinked
    <3>4. CASE j # l + 1 /\ j # l + 2
      <4>1. j - 1 \in Level /\ j - 1 # l + 1
        BY <1>2, <2>2, <3>1, <3>4, LevelFacts
      <4>2. rhs'[j] = rhs[j] /\ rhs'[j - 1] = rhs[j - 1] /\ sol' = sol
        BY <1>1, <1>4, <3>4, <4>1
      <4>3. Linked(q, j) /\ ClassAt(q, j)' = ClassAt(q, j)
        BY <1>6, <2>2, <3>1, <3>4 DEF JInv, Given
      <4> QED
        BY <4>2, <4>3, KeepLinked
    <3> QED
      BY <3>2, <3>3, <3>4
  <2> QED
    BY <2>1, <2>2 DEF Given
<1>12. AllSolved'
  <2> SUFFICES ASSUME NEW j \in Level, NEW q \in Members(j) PROVE Solved(q, j)'
    BY DEF AllSolved
  <2>1. q \in Proc /\ LevelOf(q, j) /\ j \in Nat
    BY SomeMember, LevelFacts DEF LevelOf
  <2>2. Solved(q, j)
    BY DEF JInv, AllSolved
  <2>3. CASE j = l + 1
    <3>1. ClassAt(q, l + 1)' = "first" /\ At(q, "rest", l + 1)'
      BY <2>3, RestMoves
    <3>2. Unsolved(q, l + 1)'
      BY <3>1 DEF Unsolved
    <3> QED
      BY <2>3, <3>2, NotSolved
  <2>4. CASE j # l + 1 /\ q \in Members(l + 1) /\ l < j
    <3>1. ClassAt(q, j)' = "off"
      BY <2>1, <2>4, RestMoves
    <3> QED
      BY <3>1, NotSolved
  <2>5. CASE j # l + 1 /\ ~(q \in Members(l + 1) /\ l < j)
    <3>1. ~(l + 1 < j)
      <4>1. CASE q \in Members(l + 1)
        BY <1>2, <2>1, <2>5, <4>1
      <4>2. CASE q \notin Members(l + 1)
        <5>1. ~(l + 1 <= j)
          BY <1>2, <4>2, MembersBelow
        <5> QED
          BY <1>2, <2>1, <5>1
      <4> QED
        BY <4>1, <4>2
    <3>2. SameBefore(q, j)
      BY <1>7, <2>1, <3>1, NewBefore
    <3>3. ClassAt(q, j)' = ClassAt(q, j) /\ SameCall(q) /\ FailsNow(q) /\ (Unsolved(q, j) => Unsolved(q, j)')
      BY <1>6, <2>1, <2>5
    <3>4. rhs'[j] = rhs[j] /\ sol'[j][q] = sol[j][q]
      BY <1>1, <1>4, <2>5
    <3> QED
      BY <2>2, <3>2, <3>3, <3>4, KeepSolved
  <2> QED
    BY <2>3, <2>4, <2>5
<1>13. AllAnswered'
  BY <1>1, <1>6, KeepAnswer DEF JInv, AllAnswered
<1> QED
  BY <1>8, <1>10, <1>11, <1>12, <1>13 DEF JInv
----------------------------------------------------------------------------
(* Prolongation.                                                           *)

\* The class of a level after a correction.
Fresh(p, l) == IF ClassAt(p, l) = "first" /\ Twice(KindAt(p, l), l) THEN "turn" ELSE "done"

\* The processes of a level come to it from the next.
LEMMA ProlMoves ==
  ASSUME JInv, NEW l \in Level, Prolongate(l), NEW p \in Members(l)
  PROVE  /\ SameCall(p) /\ PlanAt(p)' /\ Busy(p) /\ Left(p, l) /\ todo[p] # <<>>
         /\ ClassAt(p, l) \in Visits /\ ClassAt(p, l)' = Fresh(p, l)
         /\ ClassAt(p, l) = "second" => Twice(KindAt(p, l), l)
         /\ Fresh(p, l) = "done" <=> Head(todo[p]).smooth \/ l # Head(todo[p]).lvl
         /\ \A j : LevelOf(p, j) /\ j # l /\ j # l + 1 => ClassAt(p, j)' = ClassAt(p, j)
         /\ LevelOf(p, l + 1) => ClassAt(p, l + 1) = "done" /\ ClassAt(p, l + 1)' = "off"
         /\ \A j : LevelOf(p, j) /\ l < j => ClassAt(p, j)' = "off"
         /\ \A j \in Level : j # l /\ Sent(p, j) => Sent(p, j)'
         /\ \A j : ~At(p, "rest", j) /\ (At(p, "split", j) => j = l + 1)
<1> DEFINE e == Head(todo[p])
           t == Tail(todo[p])
           cycle == CallOf(p).cycle
           f == GoneOn(e, "prol", l)
           c == counters[p]
<1>1. /\ l < Crs /\ todo[p] # <<>> /\ e.op \in ProlOps /\ e.i = l + 1 /\ l >= e.lvl
      /\ todo' = [q \in Proc |-> IF q \in Members(l) THEN LoopGoesOn(q, "prol", l) ELSE todo[q]]
      /\ UNCHANGED <<input, calls, counters>>
  BY DEF Prolongate, ReadyToProlongate, At, driver, ProlOps
<1>2. l + 1 \in Level /\ l \in Nat /\ p \in Proc /\ LevelOf(p, l) /\ l <= LastLevel(p)
  <2>1. l + 1 \in Level /\ l \in Nat /\ p \in Proc /\ LevelOf(p, l)
    BY <1>1, NextLevel DEF LevelOf
  <2> QED
    BY <2>1, LevelOfFacts
<1>3. IsHead(p, cycle, e, t, c)
  BY <1>1, <1>2, NowIs DEF Now
<1>4. \A j : ~At(p, "rest", j) /\ (At(p, "split", j) => j = l + 1)
  BY <1>1 DEF At, ProlOps
<1>5. Left(p, l)
  BY <1>1, <1>2 DEF Left, Below, ProlOps
<1>6. e.lvl \in Nat /\ e.lvl <= l /\ e.smooth \in BOOLEAN
  <2> HIDE DEF e, t, cycle, c
  <2>1. e.lvl \in Nat /\ e.smooth \in BOOLEAN
    BY <1>1, <1>3, HeadIs
  <2> QED
    BY <1>1, <1>2, <2>1
<1>7. LoopGoes(p, "prol", l)
  BY <1>1, <1>2, <1>6 DEF LoopGoes, ProlOps
<1>8. GoesTo(p, e, t, "prol", l)
  BY <1>2, <1>7, GoesOnTo
<1>9. \A j : ClassAt(p, j) = ClassOf(p, cycle, e, t, c, j)
  BY <1>1 DEF ClassAt
<1>10. \A j : ClassAt(p, j)' = ClassOf(p, cycle, f, t, c, j)
  BY <1>8 DEF GoesTo
<1>11. KindAt(p, l) = KindOf(p, cycle, e, t, c, l)
  BY <1>9 DEF KindAt, KindOf, SecondBefore
<1>12. \A j : Sent(p, j) <=> SentBy(e, j)
  BY <1>1 DEF Sent
<1>13. \A j : Sent(p, j)' <=> SentBy(f, j)
  BY <1>8 DEF GoesTo
<1>14. SameCall(p) /\ PlanAt(p)'
  BY <1>8 DEF GoesTo
<1>15. f.op = "prol" /\ f.i = l /\ f.lvl = e.lvl /\ f.smooth = e.smooth
  BY DEF GoneOn
<1>16. (Head(todo[p]).smooth \/ l # Head(todo[p]).lvl) <=> ~(l = e.lvl /\ ~e.smooth)
  BY <1>6
<1> DEFINE v == Visit(p, cycle, e, t, c, l)
<1> HIDE DEF e, t, cycle, c
<1>17. /\ \A j : LevelOf(p, j) /\ j # l /\ j # l + 1 =>
            ClassOf(p, cycle, f, t, c, j) = ClassOf(p, cycle, e, t, c, j)
       /\ ClassOf(p, cycle, f, t, c, l + 1) = "off"
       /\ ClassOf(p, cycle, f, t, c, l) = IF l = e.lvl /\ ~e.smooth THEN "turn" ELSE "done"
       /\ ClassOf(p, cycle, e, t, c, l) = v
       /\ IF v = "first" THEN l = e.lvl /\ ~e.smooth <=> Twice(KindAt(p, l), l)
                         ELSE ~(l = e.lvl /\ ~e.smooth) /\ Twice(KindAt(p, l), l)
  BY <1>1, <1>3, <1>6, <1>11, GoesUp
<1>18. v \in Visits
  BY DEF v, Visit, Visits
<1> HIDE DEF v, f
<1>19. ClassAt(p, l) \in Visits /\ ClassAt(p, l)' = Fresh(p, l) /\ (ClassAt(p, l) = "second" => Twice(KindAt(p, l), l))
  BY <1>9, <1>10, <1>17, <1>18 DEF Fresh, Visits
<1>20. Fresh(p, l) = "done" <=> Head(todo[p]).smooth \/ l # Head(todo[p]).lvl
  BY <1>10, <1>16, <1>17, <1>19
<1>21. Busy(p)
  BY <1>2, <1>19, WorkIsBusy DEF Visits
<1>22. ClassAt(p, l + 1) = "done"
  <2>1. l + 1 = e.i /\ ~(l + 1 > e.i) /\ ~(l + 1 < e.i) /\ ~(l + 1 = e.lvl)
    BY <1>1, <1>2, <1>6
  <2>2. ClassOf(p, cycle, e, t, c, l + 1) = "done"
    BY <1>1, <2>1 DEF ClassOf, RestOps, ProlOps
  <2> QED
    BY <1>9, <2>2
<1>23. ASSUME NEW j, LevelOf(p, j), l < j PROVE ClassAt(p, j)' = "off"
  <2>1. ClassOf(p, cycle, f, t, c, j) = "off"
    BY <1>15, <1>23 DEF ClassOf, RestOps, ProlOps
  <2> QED
    BY <1>10, <2>1
<1>24. ASSUME NEW j \in Level, j # l, SentBy(e, j) PROVE SentBy(f, j)
  <2>1. j < l + 1 /\ j \in Nat
    BY <1>1, <1>24, LevelFacts DEF SentBy, RestOps, ProlOps
  <2>2. j < l
    BY <1>2, <1>24, <2>1
  <2> QED
    BY <1>15, <2>2 DEF SentBy, ProlOps
<1> QED
  BY <1>1, <1>4, <1>5, <1>9, <1>10, <1>12, <1>13, <1>14, <1>17, <1>19, <1>20, <1>21, <1>22, <1>23, <1>24

\* The kind of the cycle on the next level.
LEMMA NextKind ==
  ASSUME JInv, NEW m \in Proc, todo[m] # <<>>, NEW l \in Level
  PROVE  KindAt(m, l + 1) = IF ClassAt(m, l) = "second" THEN SecondKind(KindAt(m, l)) ELSE KindAt(m, l)
<1>1. SecondBefore(m, l + 1) <=> SecondBefore(m, l) \/ ClassAt(m, l) = "second"
  <2>1. \A j \in Level : j < l + 1 <=> j < l \/ j = l
    BY LevelFacts
  <2> QED
    BY <2>1 DEF SecondBefore
<1>2. CallOf(m).cycle \in {"V", "F", "W"}
  BY HeadOf DEF JInv, Cycle
<1> QED
  BY <1>1, <1>2 DEF KindAt, SecondKind

\* What the step computes.
LEMMA ProlComputes ==
  ASSUME JInv, NEW l \in Level, Prolongate(l),
         NEW c, c = Correction(l, Arrived(l)), NEW t, t = Filter(l, MatrixApply(l, c)),
         NEW omega, omega = Omega(l, c, t), NEW s, s = Axpy(omega, c, sol[l]),
         NEW d, d = DefectAfter(l, s, omega, t)
  PROVE  /\ sol'[l] = IF PostSmooths(l) THEN Axpy(1, Smoothed(Post[l], l, d), s) ELSE s
         /\ \A j \in Level : j # l => sol'[j] = sol[j] /\ def'[j] = def[j]
<1>1. sol \in [Level -> Vector] /\ def \in [Level -> Vector]
  BY DEF JInv, IInv, Data
<1>2. \/ /\ PostSmooths(l)
         /\ def' = [def EXCEPT ![l] = d]
         /\ sol' = [sol EXCEPT ![l] = Axpy(1, Smoothed(Post[l], l, d), s)]
      \/ /\ ~PostSmooths(l)
         /\ sol' = [sol EXCEPT ![l] = s]
         /\ def' = def
  BY DEF Prolongate
<1> QED
  BY <1>1, <1>2

\* What a ghost gets.
LEMMA GhostGets ==
  ASSUME JInv, NEW l \in Level, Prolongate(l), NEW g \in Members(l) \ Members(l + 1)
  PROVE  down[g] # <<>> /\ down[g] = <<sol[l + 1][Parent[g]]>> /\ Head(down[g]) = sol[l + 1][Parent[g]]
<1>1. l < Crs /\ down[g] # <<>>
  BY DEF Prolongate, ReadyToProlongate
<1>2. down[g] = <<sol[l + 1][Parent[g]]>>
  BY <1>1 DEF JInv, Passed, DownIs
<1>3. \A x : Head(<<x>>) = x
  OBVIOUS
<1> QED
  BY <1>1, <1>2, <1>3

\* The coarse solution is the next level's cycle.
LEMMA CoarseIs ==
  ASSUME JInv, NEW l \in Level, Prolongate(l), NEW q \in Members(l), calls[q] # failed,
         NEW kind, kind = KindAt(q, l), NEW b, b = GivenAt(q, l), NEW adapt, adapt = CallOf(q).adapt,
         NEW x, Agree(l, sol[l], x), NEW m \in Members(l + 1),
         NEW kind2, kind2 = IF ClassAt(q, l) = "second" THEN SecondKind(kind) ELSE kind
  PROVE  sol[l + 1][m] = CoarseAnswer(adapt, l, kind2, b, x)[m]
<1> DEFINE D == Defect(l, rhs[l], sol[l])
           R == Restricted(l, D)
<1>1. /\ l < Crs /\ l + 1 \in Level /\ l \in Nat /\ Members(l) \subseteq Proc /\ m \in Members(l) /\ m \in Proc
      /\ l + 1 # Top /\ (l + 1) - 1 = l /\ Top < l + 1
  BY NextLevel DEF Prolongate
<1>2. \A p \in Members(l) : Busy(p) /\ todo[p] # <<>>
  BY ProlMoves
<1>3. /\ ClassAt(m, l) = ClassAt(q, l) /\ calls[m] = calls[q] /\ CallOf(m) = CallOf(q)
      /\ KindAt(m, l) = KindAt(q, l)
  BY <1>1, <1>2, SameWork DEF JInv
<1>4. KindAt(m, l + 1) = kind2
  BY <1>1, <1>2, <1>3, NextKind
<1>5. ClassAt(m, l + 1) = "done"
  BY <1>1, ProlMoves DEF LevelOf
<1>6. sol[l + 1][m] = Cycles(adapt)[l + 1][kind2][GivenAt(m, l + 1)][m]
  <2>1. Solved(m, l + 1)
    BY <1>1 DEF JInv, AllSolved
  <2>2. \A a, k, g : Expected("done", a, l + 1, k, g) = Cycles(a)[l + 1][k][g]
    BY DEF Expected
  <2>3. ~Unsolved(m, l + 1)
    BY <1>5 DEF Unsolved
  <2>4. sol[l + 1][m] = Expected("done", CallOf(m).adapt, l + 1, KindAt(m, l + 1), GivenAt(m, l + 1))[m]
    BY <1>3, <1>5, <2>1, <2>3 DEF Solved
  <2> QED
    BY <1>3, <1>4, <2>2, <2>4
<1>7. D \in Vector
  <2>1. \A p \in Proc : rhs[l][p] \in Int /\ sol[l][p] \in Int
    BY VectorFacts DEF JInv, IInv, Data
  <2> QED
    BY <2>1, ResidualIs
<1>8. R \in Vector /\ \A p \in Proc : p \notin Members(l + 1) => R[p] = 0
  <2> HIDE DEF D
  <2> QED
    BY <1>1, <1>7, RestrictedIs
<1>9. ASSUME NEW p \in Members(l + 1) PROVE rhs[l + 1][p] = R[p]
  <2>1. p \in Members(l)
    BY <1>1, NextLevel
  <2>2. ClassAt(p, l + 1) = "done"
    BY <1>1, <2>1, ProlMoves DEF LevelOf
  <2>3. Linked(p, l + 1)
    BY <1>1 DEF JInv, Given
  <2>4. rhs[l + 1][p] = Restricted((l + 1) - 1, Defect((l + 1) - 1, rhs[(l + 1) - 1], sol[(l + 1) - 1]))[p]
    BY <2>2, <2>3 DEF Linked
  <2>5. (l + 1) - 1 = l
    BY <1>1
  <2> QED
    BY <2>4, <2>5
<1>10. Within(l + 1, rhs[l + 1]) = R
  <2> HIDE DEF R
  <2>1. R = [p \in Proc |-> R[p]]
    BY <1>8 DEF Vector
  <2> QED
    BY <1>8, <1>9, <2>1 DEF Within
<1>11. R = Restricted(l, Defect(l, b, x))
  <2>1. Agree(l, rhs[l], b)
    BY <1>2, GivenAgrees DEF JInv
  <2>2. Agree(l, D, Defect(l, b, x))
    BY <2>1, DefectAgrees
  <2> HIDE DEF D
  <2> QED
    BY <1>1, <2>2, RestrictedAgrees
<1> HIDE DEF R
<1>12. GivenAt(m, l + 1) = Restricted(l, Defect(l, b, x))
  BY <1>1, <1>10, <1>11 DEF GivenAt
<1> QED
  BY <1>6, <1>12 DEF CoarseAnswer

LEMMA ProlSolves ==
  ASSUME JInv, NEW l \in Level, Prolongate(l), NEW q \in Members(l), calls[q] # failed,
         NEW kind, kind = KindAt(q, l), NEW b, b = GivenAt(q, l), NEW adapt, adapt = CallOf(q).adapt,
         NEW class, class = Fresh(q, l)
  PROVE  sol'[l][q] = Expected(class, adapt, l, kind, b)[q]
<1>1. l < Crs /\ l + 1 \in Level /\ l \in Nat /\ Members(l) \subseteq Proc /\ q \in Proc
  BY NextLevel DEF Prolongate
<1>2. ASSUME NEW p \in Members(l)
      PROVE  /\ Busy(p) /\ todo[p] # <<>> /\ Left(p, l)
             /\ ClassAt(p, l) = ClassAt(q, l) /\ CallOf(p) = CallOf(q) /\ KindAt(p, l) = kind
             /\ ClassAt(p, l) \in Visits /\ ~Unsolved(p, l) /\ Fresh(p, l) = class
             /\ class = "done" <=> Head(todo[p]).smooth \/ l # Head(todo[p]).lvl
  <2>1. Busy(p) /\ Busy(q)
    BY ProlMoves
  <2>2. ClassAt(p, l) = ClassAt(q, l) /\ CallOf(p) = CallOf(q) /\ KindAt(p, l) = kind
    BY <2>1, SameWork DEF JInv
  <2>3. ~Unsolved(p, l)
    BY <1>1, ProlMoves DEF Unsolved
  <2>4. Fresh(p, l) = class
    BY <2>2 DEF Fresh
  <2> QED
    BY <2>1, <2>2, <2>3, <2>4, ProlMoves
<1>3. Agree(l, b, rhs[l]) /\ Agree(l, rhs[l], b) /\ b \in Vector
  BY <1>2, GivenAgrees DEF JInv
<1>4. kind \in Cycle /\ adapt \in Adapts
  BY <1>1, <1>2, KindIs, HeadOf DEF JInv
<1>5. PICK x : x = Expected(ClassAt(q, l), adapt, l, kind, b)
  OBVIOUS
<1>6. Agree(l, sol[l], x)
  <2>1. ClassAt(q, l) # "off"
    BY <1>2 DEF Visits
  <2> QED
    BY <1>2, <1>5, <2>1, SolvedAgrees
<1>7. PICK kind2 : kind2 = IF ClassAt(q, l) = "second" THEN SecondKind(kind) ELSE kind
  OBVIOUS
<1>8. \A m \in Members(l + 1) : sol[l + 1][m] = CoarseAnswer(adapt, l, kind2, b, x)[m]
  BY <1>6, <1>7, CoarseIs
<1>9. Adapt(l) = adapt
  <2>1. PICK p : p = CHOOSE o \in Members(l) : TRUE
    OBVIOUS
  <2>2. p \in Members(l)
    BY <2>1
  <2>3. CallOf(p) = CallOf(q)
    BY <1>2, <2>2
  <2> QED
    BY <2>1, <2>3 DEF Adapt, CallOf
<1>10. Filter(l, def[l]) = Defect(l, rhs[l], sol[l])
  <2>1. l \in Top .. Crs - 1
    BY <1>1, LevelFacts
  <2> QED
    BY <1>2, <2>1 DEF JInv, IInv, Levels, LevelIsRight
<1>11. \A g \in Members(l) \ Members(l + 1) : down[g] # <<>> /\ Head(down[g]) = sol[l + 1][Parent[g]]
  BY GhostGets
<1>12. PICK c : c = Correction(l, Arrived(l))
  OBVIOUS
<1>13. PICK t : t = Filter(l, MatrixApply(l, c))
  OBVIOUS
<1>14. PICK omega : omega = Omega(l, c, t)
  OBVIOUS
<1>15. PICK s : s = Axpy(omega, c, sol[l])
  OBVIOUS
<1>16. PICK d : d = DefectAfter(l, s, omega, t)
  OBVIOUS
<1>17. omega \in Int
  <2>1. c \in Vector /\ t \in Vector
    BY <1>1, <1>11, <1>12, <1>13, CorrectionIs DEF JInv
  <2> QED
    BY <1>2, <1>14, <2>1, OmegaIs DEF JInv
<1>18. PICK y : y = Improved(adapt, l, kind2, b, x)
  OBVIOUS
<1>19. Agree(l, s, y) /\ Agree(l, Axpy(1, Smoothed(Post[l], l, d), s), Axpy(1, Smoothed(Post[l], l, Defect(l, b, y)), y))
  BY <1>1, <1>3, <1>4, <1>6, <1>8, <1>9, <1>10, <1>11, <1>12, <1>13, <1>14, <1>15, <1>16, <1>17, <1>18, ImprovedIs
     DEF JInv
<1>20. sol'[l] = IF PostSmooths(l) THEN Axpy(1, Smoothed(Post[l], l, d), s) ELSE s
  BY <1>12, <1>13, <1>14, <1>15, <1>16, ProlComputes
<1>21. PostSmooths(l) <=> Post[l] # 0 /\ class = "done"
  BY <1>2 DEF PostSmooths
<1>22. sol'[l][q] = IF class = "done" THEN Smoother(Post[l], l, b, y)[q] ELSE y[q]
  <2>1. Smoother(Post[l], l, b, y) = IF Post[l] = 0 THEN y ELSE Axpy(1, Smoothed(Post[l], l, Defect(l, b, y)), y)
    BY OnceIs DEF Smoother
  <2> QED
    BY <1>19, <1>20, <1>21, <2>1 DEF Agree
<1>23. CASE ClassAt(q, l) = "first"
  <2>1. y = OnceCorrected(adapt, l, kind, b)
    <3>1. x = FirstAnswer(l, b)
      BY <1>5, <1>23 DEF Expected
    <3> QED
      BY <1>7, <1>18, <1>23, <3>1 DEF OnceCorrected
  <2>2. class = IF Twice(kind, l) THEN "turn" ELSE "done"
    BY <1>23 DEF Fresh
  <2>3. CASE Twice(kind, l)
    BY <1>22, <2>1, <2>2, <2>3 DEF Expected
  <2>4. CASE ~Twice(kind, l)
    <3>1. Cycles(adapt)[l][kind][b] = Smoother(Post[l], l, b, y)
      BY <1>1, <1>3, <1>4, <2>1, <2>4, CycleIs
    <3> QED
      BY <1>22, <2>2, <2>4, <3>1 DEF Expected
  <2> QED
    BY <2>3, <2>4
<1>24. CASE ClassAt(q, l) = "second"
  <2>1. y = TwiceCorrected(adapt, l, kind, b)
    <3>1. x = SecondAnswer(adapt, l, kind, b)
      BY <1>5, <1>24 DEF Expected
    <3> QED
      BY <1>7, <1>18, <1>24, <3>1 DEF TwiceCorrected
  <2>2. class = "done"
    BY <1>24 DEF Fresh
  <2>3. Twice(kind, l)
    BY <1>24, ProlMoves
  <2>4. Cycles(adapt)[l][kind][b] = Smoother(Post[l], l, b, y)
    BY <1>1, <1>3, <1>4, <2>1, <2>3, CycleIs
  <2> QED
    BY <1>22, <2>2, <2>4 DEF Expected
<1> QED
  BY <1>2, <1>23, <1>24 DEF Visits

LEMMA ProlongateJ ==
  ASSUME JInv, IInv', NEW l \in Level, Prolongate(l)
  PROVE  JInv'
<1>1. /\ l < Crs
      /\ down' = [g \in Proc |-> IF g \in Members(l) \ Members(l + 1) THEN Tail(down[g]) ELSE down[g]]
      /\ todo' = [p \in Proc |-> IF p \in Members(l) THEN LoopGoesOn(p, "prol", l) ELSE todo[p]]
      /\ UNCHANGED <<input, calls, rhs, counters, up, failed, cor>>
  BY DEF Prolongate, driver, outcome
<1>2. /\ l + 1 \in Level /\ l \in Nat /\ Top <= l /\ Top \in Nat /\ Crs \in Nat /\ Top < l + 1
      /\ Members(l) \subseteq Proc /\ Members(l + 1) \subseteq Members(l) /\ Members(l + 1) # {}
      /\ Top # l + 1 /\ l # l + 1
  BY <1>1, NextLevel
<1>3. OnlySteps(Members(l))
  BY <1>1 DEF OnlySteps
<1>4. \A j \in Level : j # l => sol'[j] = sol[j] /\ def'[j] = def[j]
  BY ProlComputes
<1>5. PICK m \in Members(l) : TRUE
  BY <1>2
<1>6. PICK class : class = Fresh(m, l)
  OBVIOUS
<1>7. \A p \in Members(l) : Fresh(p, l) = class
  <2> SUFFICES ASSUME NEW p \in Members(l) PROVE Fresh(p, l) = Fresh(m, l)
    BY <1>6
  <2>1. Busy(p) /\ Busy(m)
    BY <1>5, ProlMoves
  <2> QED
    BY <1>5, <2>1, SameWork DEF JInv, Fresh
<1>8. class \in {"turn", "done"}
  BY <1>6 DEF Fresh
<1>9. ASSUME NEW q \in Proc
      PROVE  /\ SameCall(q) /\ FailsNow(q) /\ PlanAt(q)' /\ calls'[q] = calls[q]
             /\ \A j : LevelOf(q, j) /\ j # l /\ j # l + 1 => ClassAt(q, j)' = ClassAt(q, j)
             /\ LevelOf(q, l) => ClassAt(q, l)' = class /\ ClassAt(q, l) # "off" /\ Busy(q)
             /\ LevelOf(q, l + 1) => ClassAt(q, l + 1)' = "off"
             /\ \A j \in Level : j < Crs /\ j # l /\ q \in Members(j) /\ Sent(q, j) => Sent(q, j)'
  <2>1. FailsNow(q) /\ calls'[q] = calls[q]
    BY <1>1 DEF FailsNow
  <2>2. CASE q \in Members(l)
    <3>1. ClassAt(q, l)' = class /\ ClassAt(q, l) # "off" /\ Busy(q)
      BY <1>7, <2>2, ProlMoves DEF Visits
    <3>2. /\ SameCall(q) /\ PlanAt(q)'
          /\ \A j : LevelOf(q, j) /\ j # l /\ j # l + 1 => ClassAt(q, j)' = ClassAt(q, j)
          /\ LevelOf(q, l + 1) => ClassAt(q, l + 1)' = "off"
          /\ \A j \in Level : j # l /\ Sent(q, j) => Sent(q, j)'
      BY <2>2, ProlMoves
    <3> QED
      BY <2>1, <3>1, <3>2
  <2>3. CASE q \notin Members(l)
    BY <1>2, <1>3, <2>1, <2>3, OthersStayToo DEF Keeps, LevelOf
  <2> QED
    BY <2>2, <2>3
<1>10. PICK new : new = [j \in {l, l + 1} |-> IF j = l THEN class ELSE "off"]
  OBVIOUS
<1>11. NewClasses({l, l + 1}, new)
  <2>1. new[l] = class /\ new[l + 1] = "off"
    BY <1>2, <1>10
  <2>2. \A q \in Proc : \A j : LevelOf(q, j) => ClassAt(q, j)' = IF j \in {l, l + 1} THEN new[j] ELSE ClassAt(q, j)
    BY <1>9, <2>1
  <2>3. Top \in {l, l + 1} => \A q \in Proc : Busy(q)
    BY <1>2, <1>9, TopIsOurs DEF LevelOf
  <2> QED
    BY <1>9, <2>2, <2>3 DEF NewClasses
<1>12. Plans' /\ Together'
  BY <1>11, TogetherStep
<1>13. \A q \in Proc : Busy(q)' => Busy(q)
  <2> SUFFICES ASSUME NEW q \in Proc, Busy(q)' PROVE Busy(q)
    OBVIOUS
  <2>1. LevelOf(q, Top)
    BY TopIsOurs DEF LevelOf
  <2>2. Top # l => ClassAt(q, Top)' = ClassAt(q, Top)
    BY <1>2, <1>9, <2>1
  <2> QED
    BY <1>9, <2>1, <2>2 DEF Busy
<1>14. Passed'
  <2> SUFFICES ASSUME NEW j \in Level, j < Crs
               PROVE  Gone(j)' /\ \A g \in Members(j) \ Members(j + 1) : UpIs(j, g)' /\ DownIs(j, g)'
    BY DEF Passed
  <2>1. Gone(j) /\ \A g \in Members(j) \ Members(j + 1) : UpIs(j, g) /\ DownIs(j, g)
    BY DEF JInv, Passed
  <2>2. j + 1 \in Level /\ Members(j) \subseteq Proc /\ Members(j + 1) \subseteq Proc /\ j \in Nat
    BY NextLevel
  <2>3. j # l => \A q \in Members(j) : Sent(q, j) => Sent(q, j)'
    BY <1>9, <2>2
  <2>4. Gone(j)'
    <3>1. CASE j = l
      <4>1. \A q \in Members(j + 1) : ClassAt(q, j + 1)' = "off"
        BY <1>9, <2>2, <3>1 DEF LevelOf
      <4> QED
        BY <4>1, NoneGone
    <3>2. CASE j # l
      <4>1. j + 1 # l + 1
        BY <1>2, <2>2, <3>2
      <4>2. \A q \in Members(j + 1) : ClassAt(q, j + 1)' # "off" => ClassAt(q, j + 1) # "off"
        BY <1>9, <2>2, <4>1 DEF LevelOf
      <4> QED
        BY <1>1, <2>1, <2>3, <3>2, <4>2, KeepGone
    <3> QED
      BY <3>1, <3>2
  <2>5. ASSUME NEW g \in Members(j) \ Members(j + 1) PROVE UpIs(j, g)' /\ DownIs(j, g)'
    <3>1. UpIs(j, g)'
      <4>1. CASE j = l
        <5>1. PICK p \in Members(l + 1) : TRUE
          BY <1>2
        <5>2. ClassAt(p, l + 1) # "off"
          BY <1>2, ProlMoves DEF LevelOf
        <5>3. up[g] = <<>>
          BY <2>1, <2>5, <4>1, <5>2 DEF Gone
        <5> QED
          BY <1>1, <5>3 DEF UpIs
      <4>2. CASE j # l
        BY <1>1, <1>4, <2>1, <2>3, <2>5, <4>2, KeepUp
      <4> QED
        BY <4>1, <4>2
    <3>2. DownIs(j, g)'
      <4>1. CASE j = l
        <5>1. down[g] = <<sol[l + 1][Parent[g]]>> /\ g \in Proc
          BY <1>2, <2>5, <4>1, GhostGets
        <5>2. down'[g] = Tail(down[g])
          BY <1>1, <2>5, <4>1, <5>1
        <5>3. \A x : Tail(<<x>>) = <<>>
          OBVIOUS
        <5>4. down'[g] = <<>>
          BY <5>1, <5>2, <5>3
        <5> QED
          BY <5>4 DEF DownIs
      <4>2. CASE j # l
        <5>1. down'[g] = down[g]
          <6>1. g \notin Members(l) \ Members(l + 1)
            BY <2>5, <4>2, OneGhostLevel
          <6> QED
            BY <1>1, <2>2, <2>5, <6>1
        <5>2. Parent[g] \in Members(j + 1) /\ Parent[g] \in Proc
          BY <2>2, <2>5, GhostHasParent
        <5>3. CASE Parent[g] \in Members(l)
          <6>1. ~At(Parent[g], "split", j + 1)
            <7>1. j + 1 # l + 1
              BY <1>2, <2>2, <4>2
            <7> QED
              BY <5>3, <7>1, ProlMoves
          <6> QED
            BY <2>1, <2>5, <5>1, <6>1, KeepDown
        <5>4. CASE Parent[g] \notin Members(l)
          <6>1. j + 1 # l
            BY <5>2, <5>4
          <6>2. sol'[j + 1][Parent[g]] = sol[j + 1][Parent[g]]
            BY <1>4, <2>2, <6>1
          <6>3. At(Parent[g], "split", j + 1) => At(Parent[g], "split", j + 1)'
            BY <1>3, <2>2, <5>2, <5>4, OthersStayToo DEF StaysSplit
          <6> QED
            BY <2>1, <2>5, <5>1, <6>2, <6>3, KeepDown
        <5> QED
          BY <5>3, <5>4
      <4> QED
        BY <4>1, <4>2
    <3> QED
      BY <3>1, <3>2
  <2> QED
    BY <2>4, <2>5
<1>15. Given'
  <2>1. \A q \in Proc : HasDef(q)'
    BY <1>1, <1>9, <1>13, KeepDef DEF JInv, Given
  <2>2. ASSUME NEW j \in Level, Top < j, NEW q \in Members(j) PROVE Linked(q, j)'
    <3>1. q \in Proc /\ LevelOf(q, j) /\ j \in Nat /\ j <= Crs
      BY SomeMember, LevelFacts DEF LevelOf
    <3>2. CASE j = l + 1
      <4>1. ClassAt(q, j)' = "off"
        BY <1>9, <3>1, <3>2
      <4> QED
        BY <4>1, NotLinked
    <3>3. CASE j # l + 1
      <4>1. j - 1 \in Level /\ j - 1 # l
        BY <1>2, <2>2, <3>1, <3>3, LevelFacts
      <4>2. rhs'[j] = rhs[j] /\ rhs'[j - 1] = rhs[j - 1] /\ sol'[j - 1] = sol[j - 1]
        BY <1>1, <1>4, <4>1
      <4>3. Linked(q, j)
        BY <2>2 DEF JInv, Given
      <4>4. ClassAt(q, j)' # "off" => ClassAt(q, j) # "off"
        BY <1>9, <3>1, <3>3
      <4> QED
        BY <4>2, <4>3, <4>4, KeepLinked
    <3> QED
      BY <3>2, <3>3
  <2> QED
    BY <2>1, <2>2 DEF Given
<1>16. AllSolved'
  <2> SUFFICES ASSUME NEW j \in Level, NEW q \in Members(j) PROVE Solved(q, j)'
    BY DEF AllSolved
  <2>1. q \in Proc /\ LevelOf(q, j) /\ j \in Nat /\ SameCall(q) /\ FailsNow(q)
    BY <1>9, SomeMember, LevelFacts DEF LevelOf
  <2>2. Solved(q, j)
    BY DEF JInv, AllSolved
  <2>3. CASE j = l
    <3>1. SameBefore(q, l)
      <4>1. \A k \in {l, l + 1} : ~(k < j)
        BY <1>2, <2>3
      <4> QED
        BY <1>11, <2>1, <2>3, <4>1, NewBefore
    <3>2. (KindAt(q, l))' = KindAt(q, l) /\ (GivenAt(q, l))' = GivenAt(q, l) /\ CallOf(q)' = CallOf(q)
      BY <1>1, <2>1, <3>1, KeepKind, KeepGiven, SameCallOf
    <3>3. ClassAt(q, l)' = class /\ Fresh(q, l) = class /\ calls'[q] = calls[q] /\ failed' = failed
      BY <1>1, <1>7, <1>9, <2>1, <2>3
    <3>4. calls[q] # failed =>
            sol'[l][q] = Expected(class, CallOf(q).adapt, l, KindAt(q, l), GivenAt(q, l))[q]
      BY <2>3, <3>3, ProlSolves
    <3>5. class = "turn" \/ class = "done"
      BY <1>8
    <3>6. /\ \A a, k, g : Expected("turn", a, l, k, g) = OnceCorrected(a, l, k, g)
          /\ \A a, k, g : Expected("done", a, l, k, g) = Cycles(a)[l][k][g]
      BY DEF Expected
    <3>7. Solved(q, l)'
      BY <3>2, <3>3, <3>4, <3>5, <3>6 DEF Solved
    <3> QED
      BY <2>3, <3>7
  <2>4. CASE q \in Members(l) /\ l < j
    <3>1. ClassAt(q, j)' = "off"
      BY <2>1, <2>4, ProlMoves
    <3> QED
      BY <3>1, NotSolved
  <2>5. CASE j # l /\ ~(q \in Members(l) /\ l < j)
    <3>1. ~(l < j)
      <4>1. l <= j => q \in Members(l)
        BY MembersBelow
      <4> QED
        BY <1>2, <2>1, <2>5, <4>1
    <3>2. SameBefore(q, j)
      <4>1. \A k \in {l, l + 1} : ~(k < j)
        BY <1>2, <2>1, <3>1
      <4> QED
        BY <1>11, <2>1, <4>1, NewBefore
    <3>3. j # l + 1 /\ j # Crs
      BY <1>1, <1>2, <2>1, <3>1
    <3>4. ClassAt(q, j)' = ClassAt(q, j) /\ rhs'[j] = rhs[j] /\ sol'[j][q] = sol[j][q]
      BY <1>1, <1>4, <1>9, <2>1, <2>5, <3>3
    <3>5. Unsolved(q, j) => Unsolved(q, j)'
      <4>1. CASE q \in Members(l)
        BY <3>3, <4>1, ProlMoves DEF Unsolved
      <4>2. CASE q \notin Members(l)
        BY <1>3, <2>1, <4>2, OthersStayToo DEF Waits
      <4> QED
        BY <4>1, <4>2
    <3> QED
      BY <2>1, <2>2, <3>2, <3>4, <3>5, KeepSolved
  <2> QED
    BY <2>3, <2>4, <2>5, <1>2, <2>1
<1>17. AllAnswered'
  BY <1>1, <1>9, KeepAnswer DEF JInv, AllAnswered
<1> QED
  BY <1>12, <1>14, <1>15, <1>16, <1>17 DEF JInv
----------------------------------------------------------------------------
(* All steps.                                                              *)

LEMMA JInvInit == CycleInit => JInv
<1> SUFFICES ASSUME CycleInit PROVE JInv
  OBVIOUS
<1>1. IInv
  BY CycleInitIsRight
<1>2. \A p \in Proc : todo[p] = <<>> /\ calls[p] = 0 /\ up[p] = <<>> /\ down[p] = <<>>
  BY DEF CycleInit
<1>3. DOMAIN cor = Proc
  BY DEF CycleInit
<1>4. \A p \in Proc : \A l : ClassAt(p, l) = "off"
  BY <1>2 DEF ClassAt
<1>5. \A l \in Level : Members(l) \subseteq Proc /\ (l < Crs => Members(l + 1) \subseteq Proc)
  BY SomeMember, NextLevel
<1>6. Plans
  BY <1>2 DEF Plans, PlanAt
<1>7. Together
  <2>1. \A p, q \in Proc : SameCalls(p, q)
    BY <1>2, <1>4 DEF SameCalls, Busy
  <2>2. \A l \in Level : SameLevel(l)
    BY <1>4, <1>5 DEF SameLevel
  <2> QED
    BY <2>1, <2>2 DEF Together
<1>8. Passed
  <2> SUFFICES ASSUME NEW l \in Level, l < Crs
               PROVE  Gone(l) /\ \A g \in Members(l) \ Members(l + 1) : UpIs(l, g) /\ DownIs(l, g)
    BY DEF Passed
  <2> QED
    BY <1>2, <1>4, <1>5 DEF Gone, UpIs, DownIs
<1>9. Given
  BY <1>4, <1>5 DEF Given, HasDef, Linked, Busy
<1>10. AllSolved
  BY <1>4, <1>5 DEF AllSolved, Solved
<1>11. AllAnswered
  BY <1>2, <1>3 DEF AllAnswered, HasAnswer
<1> QED
  BY <1>1, <1>6, <1>7, <1>8, <1>9, <1>10, <1>11 DEF JInv

LEMMA JInvIsInductive == JInv /\ [CycleNext]_cycleVars => JInv'
<1> SUFFICES ASSUME JInv, [CycleNext]_cycleVars PROVE JInv'
  OBVIOUS
<1>1. IInv'
  BY IInvIsInductive DEF JInv
<1>2. CASE UNCHANGED cycleVars
  <2>1. UNCHANGED <<input, calls, todo, counters, vectors, network, failed, cor>>
    BY <1>2 DEF cycleVars, driver, outcome
  <2>2. PICK p \in Proc : TRUE
    BY SomeMember, LevelFacts
  <2>3. OnlyStep(p)
    BY <2>1 DEF OnlyStep
  <2>4. Keeps(p) /\ Waits(p) /\ StaysSplit(p)
    BY <2>1, Unmoved DEF JInv
  <2> QED
    BY <1>1, <2>1, <2>3, <2>4, QuietStep
<1>3. ASSUME NEW l \in Level, Collective(l) PROVE JInv'
  BY <1>1, <1>3, PreSmoothJ, RestJ, SmoothPeakJ, ProlongateJ DEF Collective
<1>4. CASE CoarseSolve
  BY <1>1, <1>4, CoarseSolveJ
<1>5. CASE CoarseFails
  BY <1>1, <1>5, CoarseFailsJ
<1>6. ASSUME NEW p \in Proc, Local(p) PROVE JInv'
  <2>1. CASE Apply(p) \/ CycleReturn(p) \/ LoopEnds(p)
    BY <1>1, <2>1, ApplyJ, ReturnJ, LoopEndsJ
  <2>2. CASE FLoop(p) \/ WStart(p) \/ WLoop(p) \/ WEnd(p)
    BY <1>1, <2>2, FLoopJ, WStartJ, WLoopJ, WEndJ
  <2>3. CASE ZeroStart(p) \/ FromPeak(p) \/ NoCoarseLevel(p)
    BY <1>1, <2>3, ZeroStartJ, FromPeakJ, NoCoarseLevelJ
  <2>4. ASSUME NEW l \in Level, RestSend(p, l) \/ Split(p, l) PROVE JInv'
    BY <1>1, <2>4, RestSendJ, SplitJ
  <2> QED
    BY <1>6, <2>1, <2>2, <2>3, <2>4 DEF Local
<1> QED
  BY <1>2, <1>3, <1>4, <1>5, <1>6 DEF CycleNext

\* What apply returns on any hierarchy is the cycle that textbooks define by recursion,
\* for every call whose coarse grid solver has not failed: the loops over levels, the
\* counters, the peaks, the processes that leave on some levels and the vectors of
\* earlier calls make no difference (_apply_cycle_v, _apply_cycle_f, _apply_cycle_w).
THEOREM CorrectionsAreCycles == CycleSpec => []CorrectionIsTheCycle
<1>1. JInv => CorrectionIsTheCycle
  <2> SUFFICES ASSUME JInv, NEW p \in Proc, todo[p] = <<>>, calls[p] > 0, calls[p] # failed
               PROVE  cor[p] = CycleAnswers[input][calls[p]][p]
    BY DEF CorrectionIsTheCycle
  <2>1. cor[p] = Cycles(CallOf(p).adapt)[Top][CallOf(p).cycle][CallOf(p).def][p]
    BY DEF JInv, AllAnswered, HasAnswer
  <2>2. input \in Inputs /\ calls[p] \in Nat /\ calls[p] <= Len(input)
    BY DEF JInv, IInv, Data, CycleControl
  <2>3. input \in Seq(CycleCall)
    BY <2>2, MultiGridAssumption
  <2>4. calls[p] \in DOMAIN input
    BY <2>2, <2>3
  <2>5. CycleAnswers[input] =
          [k \in DOMAIN input |-> Cycles(input[k].adapt)[Top][input[k].cycle][input[k].def]]
    BY <2>2 DEF CycleAnswers
  <2> QED
    BY <2>1, <2>4, <2>5 DEF CallOf
<1> QED
  BY <1>1, JInvInit, JInvIsInductive, PTL DEF CycleSpec
=============================================================================
