----------------------------- MODULE SolverProofs ----------------------------
(***************************************************************************)
(* Proofs about SolverLoops, for all numbers of processes, neighbourhoods, *)
(* norms and parameters, in three steps.                                   *)
(*   - A call follows from the one before it and its result, by a loop     *)
(*     that is the same on all processes: hence the trail is the one       *)
(*     history of calls, and each process is at some point of it (Inv).    *)
(*   - One solver by itself: from what its control knows of the norms that *)
(*     it has seen (Told), each call leads on by the rule (EveryCall).     *)
(*   - All processes: the norms seen at a call belong to the history, too  *)
(*     (Memory), so that a process that is last in the history takes the   *)
(*     steps of the rule, and the others only follow.                      *)
(***************************************************************************)
EXTENDS SolverLoops, DataLemmas

\* s is a sequence, whatever is in it.
IsSequence(s) == s \in Seq({s[k] : k \in DOMAIN s})

\* What follows the k-th call on process p.
After(p, k) == Proceed(p, trail[k].ctl, trail[k].op, res[k])

\* The call with which a process goes on, from n, in a solve.
Following(n, solve) ==
  IF n.at = "idle" THEN [op |-> "defect", ctl |-> n.ctl, solve |-> solve + 1]
                   ELSE [op |-> n.at, ctl |-> n.ctl, solve |-> solve]

Shape ==
  /\ cfg \in Config
  /\ solves \in [Rank -> Nat] /\ pos \in [Rank -> Nat]
  /\ DOMAIN ctl = Rank /\ DOMAIN at = Rank
  /\ IsSequence(trail) /\ IsSequence(res)
  /\ Len(res) <= Len(trail)
  /\ \A p \in Rank : pos[p] <= Len(trail)
  /\ \A k \in 1 .. Len(trail) : trail[k].solve \in Nat /\ trail[k].solve > 0

\* The first call is that of a new solver, and each other one follows from the one
\* before, on every process.
OneHistory ==
  /\ Len(trail) > 0 => trail[1] = [op |-> "defect", ctl |-> NewControl, solve |-> 1]
  /\ \A k \in 1 .. Len(trail) : k < Len(trail) =>
       /\ k <= Len(res)
       /\ \A p \in Rank : trail[k + 1] = Following(After(p, k), trail[k].solve)

\* Solves follow each other.
SolvesInOrder ==
  \A p \in Rank : \A j, k \in 1 .. Len(trail) : j < k =>
    /\ trail[j].solve <= trail[k].solve
    /\ After(p, j).at = "idle" => trail[j].solve < trail[k].solve

\* A process that waits does so in its call of the trail; one that has returned did
\* so after its last call.
InHistory(p) ==
  /\ at[p] # "idle" => pos[p] > 0 /\ trail[pos[p]] = Call(p)
  /\ at[p] = "idle" /\ pos[p] > 0 =>
       /\ pos[p] <= Len(res)
       /\ After(p, pos[p]).at = "idle" /\ ctl[p] = After(p, pos[p]).ctl
       /\ solves[p] = trail[pos[p]].solve
  /\ at[p] = "idle" /\ pos[p] = 0 => ctl[p] = NewControl /\ solves[p] = 0

Inv == Shape /\ OneHistory /\ SolvesInOrder /\ \A p \in Rank : InHistory(p)

----------------------------------------------------------------------------
\* The loops are the same on all processes: those who skip norms agree.
LEMMA SameNorms ==
  ASSUME cfg \in Config, NEW p \in Rank, NEW q \in Rank, NEW s
  PROVE  CalcDef(cfg, p, s) <=> CalcDef(cfg, q, s)
<1>1. AgreesOnSkips(cfg)
  BY SolverAssumption
<1>2. CASE ~cfg.skip_def_calc \/ cfg.min_iter < cfg.max_iter \/ cfg.min_stag_iter > 0
  BY <1>2 DEF CalcDef
<1>3. CASE cfg.plots = {}
  BY <1>3 DEF CalcDef, PlotIter
<1>4. CASE cfg.plots = Rank /\ cfg.plot_interval[p] = cfg.plot_interval[q]
  BY <1>4 DEF CalcDef, PlotIter
<1>. QED
  BY <1>1, <1>2, <1>3, <1>4 DEF AgreesOnSkips

LEMMA SameLoops ==
  ASSUME cfg \in Config, NEW p \in Rank, NEW q \in Rank, NEW s, NEW op, NEW r
  PROVE  Proceed(p, s, op, r) = Proceed(q, s, op, r)
<1>1. CalcDef(cfg, p, NextIteration(s)) <=> CalcDef(cfg, q, NextIteration(s))
  BY SameNorms
<1>2. \A next : NewDefect(p, s, next) = NewDefect(q, s, next)
  BY <1>1 DEF NewDefect
<1>3. Richardson(p, s, op, r) = Richardson(q, s, op, r)
  BY <1>2 DEF Richardson
<1>4. PCG(p, s, op, r) = PCG(q, s, op, r)
  BY <1>2 DEF PCG
<1>5. BiCGStab(p, s, op, r) = BiCGStab(q, s, op, r)
  BY <1>1 DEF BiCGStab
<1>. QED
  BY <1>3, <1>4, <1>5 DEF Proceed

\* What Append() does, to sequences of anything.
LEMMA Appended ==
  ASSUME NEW s, NEW e, IsSequence(s)
  PROVE  /\ IsSequence(Append(s, e)) /\ Len(s) \in Nat
         /\ Len(Append(s, e)) = Len(s) + 1
         /\ \A k \in 1 .. Len(s) : Append(s, e)[k] = s[k]
         /\ Append(s, e)[Len(s) + 1] = e
<1>. DEFINE T == {s[k] : k \in DOMAIN s} \cup {e}
            t == Append(s, e)
<1>1. s \in Seq(T)
  BY DEF IsSequence
<1>2. t \in Seq(T) /\ Len(s) \in Nat /\ Len(t) = Len(s) + 1
  BY <1>1
<1>3. (\A k \in 1 .. Len(s) : t[k] = s[k]) /\ t[Len(s) + 1] = e
  BY <1>1
<1>4. DOMAIN t = 1 .. Len(t)
  BY <1>2
<1>5. T \subseteq {t[k] : k \in DOMAIN t}
  <2>1. \A k \in DOMAIN s : k \in DOMAIN t /\ t[k] = s[k]
    BY <1>1, <1>2, <1>3, <1>4
  <2>2. Len(s) + 1 \in DOMAIN t /\ t[Len(s) + 1] = e
    BY <1>2, <1>3, <1>4
  <2>. QED
    BY <2>1, <2>2
<1>6. t \in Seq({t[k] : k \in DOMAIN t})
  BY <1>2, <1>5
<1>. QED
  BY <1>2, <1>3, <1>6 DEF IsSequence
----------------------------------------------------------------------------
LEMMA InitInv == Init => Inv
<1> SUFFICES ASSUME Init PROVE Inv
  OBVIOUS
<1> USE DEF Init
<1>1. Shape
  BY DEF Shape, IsSequence
<1>2. OneHistory /\ SolvesInOrder
  BY DEF OneHistory, SolvesInOrder
<1>3. \A p \in Rank : InHistory(p)
  BY DEF InHistory
<1>. QED
  BY <1>1, <1>2, <1>3 DEF Inv

\* Only the solver, which stays, is behind the loops.
LEMMA AfterNext ==
  ASSUME cfg' = cfg, NEW q \in Rank, NEW k
  PROVE  After(q, k)' = Proceed(q, trail'[k].ctl, trail'[k].op, res'[k])
BY DEF After, Proceed, Richardson, PCG, BiCGStab, NewDefect, Loop, Unless, ApplyPrecond, To,
       Return, HalfWay, IfFinite, OnFrom, AfterLoop

\* Results are added to the history only for its last call.
LEMMA OldResults ==
  ASSUME Inv, NEW k \in 1 .. Len(trail), k < Len(trail)
  PROVE  k \in 1 .. Len(res) /\ Len(trail) \in Nat /\ Len(res) \in Nat
<1>1. Len(trail) \in Nat /\ Len(res) \in Nat
  BY DEF Inv, Shape, IsSequence
<1>. QED
  BY <1>1 DEF Inv, OneHistory

\* Process p, after its first k0 calls, goes on to a call that follows from the last
\* one of these.
GoesOn(p, s, op, n, k0) ==
  /\ n \in Nat /\ n > 0 /\ k0 \in Nat /\ pos[p] = k0
  /\ op # "idle" /\ cfg' = cfg
  /\ Enter(p, s, op, n) /\ solves' = [solves EXCEPT ![p] = n]
  /\ IsSequence(res') /\ Len(res) <= Len(res') /\ Len(res') <= Len(trail)
  /\ \A k \in 1 .. Len(res) : res'[k] = res[k]
  /\ k0 <= Len(res')
  /\ k0 = 0 => op = "defect" /\ s = NewControl /\ n = 1
  /\ k0 > 0 =>
       [op |-> op, ctl |-> s, solve |-> n] =
         Following(Proceed(p, trail[k0].ctl, trail[k0].op, res'[k0]), trail[k0].solve)

\* This keeps the history, whether the process is the first to come there or not.
LEMMA GoOn ==
  ASSUME Inv, NEW p \in Rank, NEW s, NEW op, NEW n, NEW k0, GoesOn(p, s, op, n, k0)
  PROVE  Inv'
<1>. USE DEF GoesOn
<1>. DEFINE e == [op |-> op, ctl |-> s, solve |-> n]
<1>0. /\ Len(trail) \in Nat /\ Len(res) \in Nat /\ Len(res') \in Nat
      /\ k0 \in Nat /\ k0 <= Len(trail)
  BY DEF Inv, Shape, IsSequence
<1>1. /\ ctl' = [ctl EXCEPT ![p] = s] /\ at' = [at EXCEPT ![p] = op]
      /\ pos' = [pos EXCEPT ![p] = @ + 1]
      /\ trail' = IF k0 < Len(trail) THEN trail ELSE Append(trail, e)
  BY DEF Enter
<1>2. /\ IsSequence(trail') /\ Len(trail') \in Nat
      /\ \A k \in 1 .. Len(trail) : trail'[k] = trail[k]
      /\ trail'[k0 + 1] = e /\ k0 + 1 <= Len(trail') /\ Len(trail) <= Len(trail')
      /\ Len(trail') # Len(trail) => Len(trail) = k0 /\ Len(trail') = k0 + 1
  <2>1. CASE k0 = Len(trail)
    <3>1. trail' = Append(trail, e) /\ IsSequence(trail)
      BY <1>0, <1>1, <2>1 DEF Inv, Shape
    <3>. QED
      BY <3>1, <1>0, <2>1, Appended
  <2>2. CASE k0 < Len(trail) /\ k0 = 0
    <3>1. trail' = trail /\ IsSequence(trail)
      BY <1>1, <2>2 DEF Inv, Shape
    <3>2. trail[1] = [op |-> "defect", ctl |-> NewControl, solve |-> 1]
      BY <1>0, <2>2 DEF Inv, OneHistory
    <3>. QED
      BY <3>1, <3>2, <1>0, <2>2
  <2>3. CASE k0 < Len(trail) /\ k0 > 0
    <3>1. trail' = trail /\ IsSequence(trail)
      BY <1>1, <2>3 DEF Inv, Shape
    <3>2. k0 \in 1 .. Len(trail) /\ k0 \in 1 .. Len(res)
      BY <1>0, <2>3, OldResults
    <3>3. trail[k0 + 1] = Following(After(p, k0), trail[k0].solve)
      BY <3>2, <2>3 DEF Inv, OneHistory
    <3>4. res'[k0] = res[k0]
      BY <3>2
    <3>5. trail[k0 + 1] = e
      BY <3>3, <3>4, <2>3 DEF After
    <3>. QED
      BY <3>1, <3>5, <1>0, <2>3
  <2>. QED
    BY <2>1, <2>2, <2>3, <1>0
<1>3. \A q \in Rank : \A k \in 1 .. Len(trail) : k <= Len(res) => After(q, k)' = After(q, k)
  <2> SUFFICES ASSUME NEW q \in Rank, NEW k \in 1 .. Len(trail), k <= Len(res)
               PROVE  After(q, k)' = After(q, k)
    OBVIOUS
  <2>1. trail'[k] = trail[k] /\ res'[k] = res[k]
    BY <1>0, <1>2
  <2>. QED
    BY <2>1, AfterNext DEF After
<1>4. k0 > 0 => \A q \in Rank : e = Following(After(q, k0)', trail'[k0].solve)
  <2> SUFFICES ASSUME k0 > 0, NEW q \in Rank
               PROVE  e = Following(After(q, k0)', trail'[k0].solve)
    OBVIOUS
  <2>1. trail'[k0] = trail[k0]
    BY <1>0, <1>2
  <2>2. After(q, k0)' = Proceed(q, trail[k0].ctl, trail[k0].op, res'[k0])
    BY <2>1, AfterNext
  <2>3. Proceed(q, trail[k0].ctl, trail[k0].op, res'[k0])
          = Proceed(p, trail[k0].ctl, trail[k0].op, res'[k0])
    BY SameLoops DEF Inv, Shape
  <2>. QED
    BY <2>1, <2>2, <2>3
<1>5. Shape'
  <2>1. \A q \in Rank : pos'[q] \in Nat /\ pos'[q] <= Len(trail')
    BY <1>0, <1>1, <1>2 DEF Inv, Shape
  <2>2. \A k \in 1 .. Len(trail') : trail'[k].solve \in Nat /\ trail'[k].solve > 0
    <3> SUFFICES ASSUME NEW k \in 1 .. Len(trail')
                 PROVE  trail'[k].solve \in Nat /\ trail'[k].solve > 0
      OBVIOUS
    <3>1. CASE k \in 1 .. Len(trail)
      BY <3>1, <1>2 DEF Inv, Shape
    <3>2. CASE k = k0 + 1
      BY <3>2, <1>2
    <3>. QED
      BY <3>1, <3>2, <1>0, <1>2
  <2>. QED
    BY <2>1, <2>2, <1>0, <1>1, <1>2 DEF Inv, Shape
<1>6. OneHistory'
  <2>1. Len(trail') > 0 => trail'[1] = [op |-> "defect", ctl |-> NewControl, solve |-> 1]
    <3>1. CASE Len(trail) > 0
      BY <3>1, <1>0, <1>2 DEF Inv, OneHistory
    <3>2. CASE Len(trail) = 0
      BY <3>2, <1>0, <1>2
    <3>. QED
      BY <3>1, <3>2, <1>0
  <2>2. ASSUME NEW k \in 1 .. Len(trail'), k < Len(trail')
        PROVE  /\ k <= Len(res')
               /\ \A q \in Rank : trail'[k + 1] = Following(After(q, k)', trail'[k].solve)
    <3>1. CASE k < Len(trail)
      <4>1. k \in 1 .. Len(trail) /\ k + 1 \in 1 .. Len(trail) /\ k \in 1 .. Len(res)
        BY <3>1, <1>0, OldResults
      <4>2. \A q \in Rank : trail[k + 1] = Following(After(q, k), trail[k].solve)
        BY <4>1, <3>1 DEF Inv, OneHistory
      <4>3. trail'[k + 1] = trail[k + 1] /\ trail'[k] = trail[k]
        BY <4>1, <1>2
      <4>4. \A q \in Rank : After(q, k)' = After(q, k)
        BY <4>1, <1>3
      <4>. QED
        BY <4>1, <4>2, <4>3, <4>4, <1>0
    <3>2. CASE k = k0
      BY <3>2, <1>2, <1>4, <1>0
    <3>. QED
      BY <3>1, <3>2, <1>0, <1>2, <2>2
  <2>. QED
    BY <2>1, <2>2 DEF OneHistory, Following
<1>7. SolvesInOrder'
  <2> SUFFICES ASSUME NEW q \in Rank, NEW j \in 1 .. Len(trail'), NEW k \in 1 .. Len(trail'), j < k
               PROVE  /\ trail'[j].solve <= trail'[k].solve
                      /\ After(q, j)'.at = "idle" => trail'[j].solve < trail'[k].solve
    BY DEF SolvesInOrder
  <2>1. ASSUME NEW i \in 1 .. Len(trail), i < Len(trail)
        PROVE  trail'[i] = trail[i] /\ After(q, i)' = After(q, i)
    BY <2>1, <1>0, <1>2, <1>3, OldResults
  <2>2. CASE k \in 1 .. Len(trail)
    <3>1. j \in 1 .. Len(trail) /\ j < Len(trail)
      BY <2>2, <1>0
    <3>2. trail'[k] = trail[k]
      BY <2>2, <1>2
    <3>. QED
      BY <3>1, <3>2, <2>1, <2>2 DEF Inv, SolvesInOrder
  <2>3. CASE k = k0 + 1 /\ Len(trail) = k0
    <3>1. k0 > 0 /\ k0 \in 1 .. Len(trail) /\ j \in 1 .. k0
      BY <2>3, <1>0
    <3>2. trail'[k].solve = n /\ trail'[k0] = trail[k0] /\ trail[k0].solve \in Nat
      BY <2>3, <3>1, <1>2 DEF Inv, Shape
    <3>3. /\ trail[k0].solve <= n
          /\ After(q, k0)'.at = "idle" => trail[k0].solve < n
      <4>1. e = Following(After(q, k0)', trail[k0].solve)
        BY <1>4, <3>1, <3>2
      <4>2. e.solve = n
        OBVIOUS
      <4>3. CASE After(q, k0)'.at = "idle"
        BY <4>1, <4>2, <4>3, <3>2 DEF Following
      <4>4. CASE After(q, k0)'.at # "idle"
        BY <4>1, <4>2, <4>4, <3>2 DEF Following
      <4>. QED
        BY <4>3, <4>4
    <3>4. CASE j = k0
      BY <3>2, <3>3, <3>4
    <3>5. CASE j < k0
      <4>1. /\ trail'[j] = trail[j] /\ After(q, j)' = After(q, j)
            /\ trail[j].solve \in Nat
        BY <2>1, <2>3, <3>1, <3>5 DEF Inv, Shape
      <4>2. /\ trail[j].solve <= trail[k0].solve
            /\ After(q, j).at = "idle" => trail[j].solve < trail[k0].solve
        BY <2>3, <3>1, <3>5 DEF Inv, SolvesInOrder
      <4>. QED
        BY <4>1, <4>2, <3>2, <3>3
    <3>. QED
      BY <3>1, <3>4, <3>5, <1>0
  <2>. QED
    BY <2>2, <2>3, <1>0, <1>2
<1>8. ASSUME NEW q \in Rank PROVE InHistory(q)'
  <2>1. CASE q = p
    BY <2>1, <1>0, <1>1, <1>2 DEF InHistory, Call, Inv, Shape
  <2>2. CASE q # p
    <3>1. /\ at'[q] = at[q] /\ pos'[q] = pos[q] /\ ctl'[q] = ctl[q] /\ solves'[q] = solves[q]
          /\ pos[q] \in Nat /\ pos[q] <= Len(trail)
      BY <2>2, <1>1 DEF Inv, Shape
    <3>2. pos[q] > 0 => trail'[pos[q]] = trail[pos[q]]
      BY <3>1, <1>0, <1>2
    <3>3. pos[q] > 0 /\ pos[q] <= Len(res) => After(q, pos[q])' = After(q, pos[q])
      BY <3>1, <1>0, <1>3
    <3>4. InHistory(q)
      BY DEF Inv
    <3>. QED
      BY <3>1, <3>2, <3>3, <3>4, <1>0 DEF InHistory, Call
  <2>. QED
    BY <2>1, <2>2
<1>. QED
  BY <1>5, <1>6, <1>7, <1>8 DEF Inv
----------------------------------------------------------------------------
LEMMA CorrectInv ==
  ASSUME Inv, NEW p \in Rank, Correct(p)
  PROVE  Inv'
<1>1. PICK k0 \in Nat : pos[p] = k0
  BY DEF Inv, Shape
<1>2. PICK m \in Nat : solves[p] = m
  BY DEF Inv, Shape
<1>3. /\ at[p] = "idle" /\ cfg' = cfg /\ res' = res
      /\ solves' = [solves EXCEPT ![p] = m + 1]
      /\ Enter(p, ctl[p], "defect", m + 1)
  BY <1>2 DEF Correct
<1>4. IsSequence(res') /\ Len(res') <= Len(trail) /\ Len(res) \in Nat
  BY <1>3 DEF Inv, Shape, IsSequence
<1>5. CASE k0 = 0
  <2>1. ctl[p] = NewControl /\ m = 0
    BY <1>1, <1>2, <1>3, <1>5 DEF Inv, InHistory
  <2>. QED
    <3>1. GoesOn(p, ctl[p], "defect", m + 1, k0)
      BY <1>1, <1>3, <1>4, <1>5, <2>1 DEF GoesOn
    <3>. QED
      BY <3>1, GoOn
<1>6. CASE k0 > 0
  <2>1. /\ k0 <= Len(res) /\ ctl[p] = After(p, k0).ctl /\ After(p, k0).at = "idle"
        /\ m = trail[k0].solve
    BY <1>1, <1>2, <1>3, <1>6 DEF Inv, InHistory
  <2>2. [op |-> "defect", ctl |-> ctl[p], solve |-> m + 1] = Following(After(p, k0), trail[k0].solve)
    BY <2>1 DEF Following
  <2>3. After(p, k0) = Proceed(p, trail[k0].ctl, trail[k0].op, res'[k0])
    BY <1>3 DEF After
  <2>. QED
    <3>1. GoesOn(p, ctl[p], "defect", m + 1, k0)
      BY <1>1, <1>3, <1>4, <1>6, <2>1, <2>2, <2>3 DEF GoesOn
    <3>. QED
      BY <3>1, GoOn
<1>. QED
  BY <1>5, <1>6

\* A process that returns leaves the trail alone.
LEMMA ComeBack ==
  ASSUME Inv, NEW p \in Rank, NEW n, NEW k0 \in Nat, pos[p] = k0, k0 > 0,
         n.at = "idle", cfg' = cfg, solves' = solves,
         Enter(p, n.ctl, n.at, solves[p]),
         IsSequence(res'), Len(res) <= Len(res'), Len(res') <= Len(trail),
         \A k \in 1 .. Len(res) : res'[k] = res[k],
         k0 <= Len(res'),
         solves[p] = trail[k0].solve,
         n = Proceed(p, trail[k0].ctl, trail[k0].op, res'[k0])
  PROVE  Inv'
<1>1. /\ ctl' = [ctl EXCEPT ![p] = n.ctl] /\ at' = [at EXCEPT ![p] = "idle"]
      /\ pos' = pos /\ trail' = trail
  BY DEF Enter
<1>2. Len(trail) \in Nat /\ Len(res) \in Nat /\ Len(res') \in Nat
  BY DEF Inv, Shape, IsSequence
<1>3. \A q \in Rank : \A k \in 1 .. Len(res) : After(q, k)' = After(q, k)
  <2> SUFFICES ASSUME NEW q \in Rank, NEW k \in 1 .. Len(res)
               PROVE  After(q, k)' = After(q, k)
    OBVIOUS
  <2>. QED
    BY <1>1, AfterNext DEF After
<1>4. Shape'
  BY <1>1, <1>2 DEF Inv, Shape
<1>5. OneHistory'
  <2> SUFFICES ASSUME NEW k \in 1 .. Len(trail), k < Len(trail)
               PROVE  /\ k <= Len(res')
                      /\ \A q \in Rank : trail[k + 1] = Following(After(q, k)', trail[k].solve)
    BY <1>1 DEF Inv, OneHistory, Following
  <2>. QED
    BY <1>2, <1>3, OldResults DEF Inv, OneHistory
<1>6. SolvesInOrder'
  <2> SUFFICES ASSUME NEW q \in Rank, NEW j \in 1 .. Len(trail), NEW k \in 1 .. Len(trail), j < k
               PROVE  /\ trail[j].solve <= trail[k].solve
                      /\ After(q, j)'.at = "idle" => trail[j].solve < trail[k].solve
    BY <1>1 DEF SolvesInOrder
  <2>1. j < Len(trail)
    BY <1>2
  <2>2. After(q, j)' = After(q, j)
    BY <1>3, <2>1, OldResults
  <2>. QED
    BY <2>2 DEF Inv, SolvesInOrder
<1>7. ASSUME NEW q \in Rank PROVE InHistory(q)'
  <2>1. CASE q = p
    <3>1. After(p, k0)' = n
      BY <1>1, AfterNext
    <3>2. at'[p] = "idle" /\ ctl'[p] = n.ctl /\ pos'[p] = k0
      BY <1>1 DEF Inv, Shape
    <3>. QED
      BY <1>1, <2>1, <3>1, <3>2 DEF InHistory
  <2>2. CASE q # p
    <3>1. /\ at'[q] = at[q] /\ pos'[q] = pos[q] /\ ctl'[q] = ctl[q] /\ solves'[q] = solves[q]
          /\ pos[q] \in Nat
      BY <2>2, <1>1 DEF Inv, Shape
    <3>2. pos[q] > 0 /\ pos[q] <= Len(res) => After(q, pos[q])' = After(q, pos[q])
      BY <3>1, <1>2, <1>3
    <3>3. InHistory(q)
      BY DEF Inv
    <3>. QED
      BY <1>1, <1>2, <3>1, <3>2, <3>3 DEF InHistory, Call
  <2>. QED
    BY <2>1, <2>2
<1>. QED
  BY <1>4, <1>5, <1>6, <1>7 DEF Inv

\* Process p gets the answer r to its k0-th call, the last one that it has made, and goes
\* on to n.
Answer(p, r, n, k0) ==
  /\ at[p] # "idle" /\ k0 > 0 /\ pos[p] = k0 /\ trail[k0] = Call(p) /\ k0 <= Len(trail)
  /\ cfg' = cfg /\ solves' = solves
  /\ IsSequence(res') /\ Len(res) <= Len(res') /\ Len(res') <= Len(trail)
  /\ \A k \in 1 .. Len(res) : res'[k] = res[k]
  /\ k0 <= Len(res') /\ res'[k0] = r
  /\ Len(res') # Len(res) => Len(res') = k0 /\ r \in Answers(p)
  /\ n = Proceed(p, trail[k0].ctl, trail[k0].op, r)
  /\ Enter(p, n.ctl, n.at, solves[p])
  /\ seen' = [seen EXCEPT ![p] = Seen(p, r, n)]

LEMMA Answered ==
  ASSUME Inv, NEW p \in Rank, Complete(p)
  PROVE  \E k0 \in Nat : \E r, n : Answer(p, r, n, k0)
<1>1. PICK k0 \in Nat : pos[p] = k0
  BY DEF Inv, Shape
<1>2. /\ at[p] # "idle" /\ k0 > 0 /\ trail[k0] = Call(p) /\ k0 <= Len(trail)
      /\ cfg' = cfg /\ solves' = solves
      /\ Len(trail) \in Nat /\ Len(res) \in Nat /\ IsSequence(res) /\ Len(res) <= Len(trail)
  BY <1>1 DEF Complete, Inv, InHistory, Shape, IsSequence
<1>3. \E r : /\ GetAnswer(p, r)
             /\ IsSequence(res') /\ Len(res) <= Len(res') /\ Len(res') <= Len(trail)
             /\ \A k \in 1 .. Len(res) : res'[k] = res[k]
             /\ k0 <= Len(res') /\ res'[k0] = r
             /\ Len(res') # Len(res) => Len(res') = k0 /\ r \in Answers(p)
  <2>1. CASE k0 <= Len(res)
    <3>1. GetAnswer(p, res[k0]) /\ res' = res
      BY <1>1, <2>1 DEF Complete
    <3>. QED
      BY <3>1, <2>1, <1>2
  <2>2. CASE k0 > Len(res)
    <3>1. k0 = Len(trail) /\ k0 = Len(res) + 1
      <4>1. ASSUME k0 < Len(trail) PROVE FALSE
        BY <4>1, <1>2, <2>2, OldResults
      <4>2. ASSUME Len(res) + 1 < Len(trail) PROVE FALSE
        <5>1. Len(res) + 1 \in 1 .. Len(trail)
          BY <4>2, <1>2
        <5>2. Len(res) + 1 \in 1 .. Len(res)
          BY <5>1, <4>2, OldResults
        <5>. QED
          BY <5>2, <1>2
      <4>. QED
        BY <4>1, <4>2, <1>2, <2>2
    <3>2. PICK r \in Answers(p) : GetAnswer(p, r) /\ res' = Append(res, r)
      BY <1>1, <1>2, <2>2 DEF Complete
    <3>. QED
      BY <3>1, <3>2, <1>2, Appended
  <2>. QED
    BY <2>1, <2>2, <1>2
<1>4. PICK r : /\ GetAnswer(p, r)
               /\ IsSequence(res') /\ Len(res) <= Len(res') /\ Len(res') <= Len(trail)
               /\ \A k \in 1 .. Len(res) : res'[k] = res[k]
               /\ k0 <= Len(res') /\ res'[k0] = r
               /\ Len(res') # Len(res) => Len(res') = k0 /\ r \in Answers(p)
  BY <1>3
<1>5. PICK n : /\ n = Proceed(p, ctl[p], at[p], r) /\ Enter(p, n.ctl, n.at, solves[p])
               /\ seen' = [seen EXCEPT ![p] = Seen(p, r, n)]
  BY <1>4 DEF GetAnswer, StatusOf
<1>6. trail[k0].op = at[p] /\ trail[k0].ctl = ctl[p]
  BY <1>2 DEF Call
<1>7. n = Proceed(p, trail[k0].ctl, trail[k0].op, r)
  BY <1>5, <1>6
<1>8. Answer(p, r, n, k0)
  BY <1>1, <1>2, <1>4, <1>5, <1>7, Zenon DEF Answer
<1>. QED
  BY <1>8

LEMMA CompleteInv ==
  ASSUME Inv, NEW p \in Rank, Complete(p)
  PROVE  Inv'
<1>1. PICK k0 \in Nat : \E r, n : Answer(p, r, n, k0)
  BY Answered
<1>2. PICK r, n : Answer(p, r, n, k0)
  BY <1>1
<1>3. /\ at[p] # "idle" /\ k0 > 0 /\ pos[p] = k0 /\ trail[k0] = Call(p) /\ k0 <= Len(trail)
      /\ cfg' = cfg /\ solves' = solves
      /\ Len(trail) \in Nat /\ Len(res) \in Nat
  BY <1>2 DEF Answer, Inv, Shape, IsSequence
<1>4. /\ IsSequence(res') /\ Len(res) <= Len(res') /\ Len(res') <= Len(trail)
      /\ \A k \in 1 .. Len(res) : res'[k] = res[k]
      /\ k0 <= Len(res') /\ res'[k0] = r
  BY <1>2 DEF Answer
<1>5. Enter(p, n.ctl, n.at, solves[p])
  BY <1>2 DEF Answer
<1>6. trail[k0].op = at[p] /\ trail[k0].ctl = ctl[p] /\ trail[k0].solve = solves[p]
  BY <1>3 DEF Call
<1>7. n = Proceed(p, trail[k0].ctl, trail[k0].op, res'[k0])
  BY <1>2 DEF Answer
<1>8. CASE n.at = "idle"
  BY <1>3, <1>4, <1>5, <1>6, <1>7, <1>8, ComeBack
<1>9. CASE n.at # "idle"
  <2>1. PICK m \in Nat : solves[p] = m
    BY DEF Inv, Shape
  <2>2. m > 0
    BY <1>3, <1>6, <2>1 DEF Inv, Shape
  <2>3. solves' = [solves EXCEPT ![p] = m]
    BY <1>3, <2>1 DEF Inv, Shape
  <2>4. [op |-> n.at, ctl |-> n.ctl, solve |-> m] = Following(n, trail[k0].solve)
    BY <1>6, <1>9, <2>1 DEF Following
  <2>5. Enter(p, n.ctl, n.at, m)
    BY <1>5, <2>1
  <2>. QED
    <3>1. [op |-> n.at, ctl |-> n.ctl, solve |-> m] =
            Following(Proceed(p, trail[k0].ctl, trail[k0].op, res'[k0]), trail[k0].solve)
      BY <1>7, <2>4
    <3>2. GoesOn(p, n.ctl, n.at, m, k0)
      <4>1. /\ m \in Nat /\ m > 0 /\ k0 \in Nat /\ pos[p] = k0 /\ n.at # "idle" /\ cfg' = cfg
            /\ ~(k0 = 0)
        BY <1>3, <1>9, <2>1, <2>2
      <4>2. /\ Enter(p, n.ctl, n.at, m) /\ solves' = [solves EXCEPT ![p] = m]
        BY <2>3, <2>5
      <4>3. /\ IsSequence(res') /\ Len(res) <= Len(res') /\ Len(res') <= Len(trail)
            /\ \A k \in 1 .. Len(res) : res'[k] = res[k]
            /\ k0 <= Len(res')
        BY <1>4
      <4>. QED
        BY <3>1, <4>1, <4>2, <4>3, Zenon DEF GoesOn
    <3>. QED
      BY <3>2, GoOn
<1>. QED
  BY <1>8, <1>9

LEMMA NextInv == Inv /\ [Next]_vars => Inv'
<1> SUFFICES ASSUME Inv, [Next]_vars PROVE Inv'
  OBVIOUS
<1>1. ASSUME NEW p \in Rank, Correct(p) PROVE Inv'
  BY <1>1, CorrectInv
<1>2. ASSUME NEW p \in Rank, Complete(p) PROVE Inv'
  BY <1>2, CompleteInv
<1>3. CASE UNCHANGED vars
  <2>0. cfg' = cfg /\ trail' = trail /\ res' = res
    BY <1>3 DEF vars
  <2>1. ASSUME NEW q \in Rank, NEW k PROVE After(q, k)' = After(q, k)
    BY <2>0, AfterNext DEF After
  <2>2. Shape' /\ OneHistory' /\ SolvesInOrder'
    BY <1>3, <2>1 DEF Inv, Shape, OneHistory, SolvesInOrder, Following, vars
  <2>3. \A q \in Rank : InHistory(q)'
    BY <1>3, <2>1 DEF Inv, InHistory, Call, vars
  <2>. QED
    BY <2>2, <2>3 DEF Inv
<1>. QED
  BY <1>1, <1>2, <1>3 DEF Next, Step

\* Every call of every process is the one that the history has at this place: MPI
\* matches calls of one kind, made in one iteration of one solve, though processes
\* plot for themselves, and local solvers fail on some processes only.
THEOREM CallsMatch == Spec => []LockStep
<1>1. Inv => LockStep
  BY DEF Inv, InHistory, LockStep
<1>. QED
  BY <1>1, InitInv, NextInv, PTL DEF Spec

\* Processes that have returned from the same solve have the same status, the same
\* number of iterations and the same defects.
THEOREM SameVerdicts == Spec => []VerdictsAgree
<1>1. Inv => VerdictsAgree
  <2> SUFFICES ASSUME Inv PROVE VerdictsAgree
    OBVIOUS
  <2>0. \A p \in Rank : pos[p] \in Nat
    BY DEF Inv, Shape
  <2> SUFFICES ASSUME NEW p \in Rank, NEW q \in Rank, at[p] = "idle", at[q] = "idle",
                      solves[p] = solves[q], pos[p] <= pos[q]
               PROVE  ctl[p] = ctl[q]
    BY <2>0 DEF VerdictsAgree
  <2>1. /\ pos[p] \in Nat /\ pos[q] \in Nat /\ pos[p] <= Len(trail) /\ pos[q] <= Len(trail)
        /\ Len(trail) \in Nat
    BY DEF Inv, Shape, IsSequence
  <2>2. InHistory(p) /\ InHistory(q)
    BY DEF Inv
  <2>3. CASE pos[q] = 0
    BY <2>1, <2>2, <2>3 DEF InHistory
  <2>4. CASE pos[q] > 0 /\ pos[p] = 0
    BY <2>1, <2>2, <2>4 DEF InHistory, Inv, Shape
  <2>5. CASE pos[p] > 0 /\ pos[p] = pos[q]
    <3>1. After(p, pos[p]) = After(q, pos[p])
      BY SameLoops DEF After, Inv, Shape
    <3>. QED
      BY <2>2, <2>5, <3>1 DEF InHistory
  <2>6. CASE pos[p] > 0 /\ pos[p] < pos[q]
    <3>1. trail[pos[p]].solve < trail[pos[q]].solve
      BY <2>1, <2>2, <2>6 DEF InHistory, Inv, SolvesInOrder
    <3>2. trail[pos[p]].solve = solves[p] /\ trail[pos[q]].solve = solves[p]
      BY <2>1, <2>2, <2>6 DEF InHistory
    <3>3. solves[p] \in Nat
      BY DEF Inv, Shape
    <3>. QED
      BY <3>1, <3>2, <3>3
  <2>. QED
    BY <2>1, <2>3, <2>4, <2>5, <2>6
<1>. QED
  BY <1>1, InitInv, NextInv, PTL DEF Spec
----------------------------------------------------------------------------
(* What each call leads to.                                                *)

LEMMA RichardsonCalls ==
  ASSUME NEW p, NEW s, NEW r
  PROVE  /\ Richardson(p, s, "defect", r) = To(s, "norm0")
         /\ Richardson(p, s, "norm0", r) = Loop(SetInitialDefect(cfg, s, r), "update")
         /\ Richardson(p, s, "status", r) = Unless(s, r, "sync")
         /\ Richardson(p, s, "sync", r) = To(s, "update")
         /\ Richardson(p, s, "update", r) = NewDefect(p, s, "update")
         /\ Richardson(p, s, "norm", r) = Loop(SetNewDefect(cfg, s, r), "update")
BY DEF Richardson

LEMMA PCGCalls ==
  ASSUME NEW p, NEW s, NEW r
  PROVE  /\ PCG(p, s, "defect", r) = To(s, "norm0")
         /\ PCG(p, s, "norm0", r) = Loop(SetInitialDefect(cfg, s, r), "gamma")
         /\ PCG(p, s, "status", r) = Unless(s, r, "sync")
         /\ PCG(p, s, "sync", r) = To(s, "gamma")
         /\ PCG(p, s, "gamma", r) = To(s, "direction")
         /\ PCG(p, s, "direction", r) = To(s, "alpha")
         /\ PCG(p, s, "alpha", r) = NewDefect(p, s, "gamma")
         /\ PCG(p, s, "norm", r) = Loop(SetNewDefect(cfg, s, r), "gamma")
BY DEF PCG

LEMMA BiCGStabCalls ==
  ASSUME NEW p, NEW s, NEW r
  PROVE  /\ BiCGStab(p, s, "defect", r) = ApplyPrecond(s, "status0", "rho")
         /\ BiCGStab(p, s, "status0", r) = Unless(s, r, "sync0")
         /\ BiCGStab(p, s, "sync0", r) = To(s, "rho")
         /\ BiCGStab(p, s, "rho", r) = To(s, "norm0")
         /\ BiCGStab(p, s, "norm0", r) = AfterLoop(SetInitialDefect(cfg, s, r), "first")
         /\ BiCGStab(p, s, "first", r) = ApplyPrecond(s, "status", "alpha")
         /\ BiCGStab(p, s, "status", r) = Unless(s, r, "sync")
         /\ BiCGStab(p, s, "sync", r) = To(s, "alpha")
         /\ BiCGStab(p, s, "alpha", r) = To(s, "half")
         /\ BiCGStab(p, s, "half", r) = HalfWay(s, r)
         /\ BiCGStab(p, s, "second", r) = ApplyPrecond(s, "status2", "omega")
         /\ BiCGStab(p, s, "status2", r) = Unless(s, r, "sync2")
         /\ BiCGStab(p, s, "sync2", r) = To(s, "omega")
         /\ BiCGStab(p, s, "omega", r) =
              IfFinite(s, r, IF CalcDef(cfg, p, NextIteration(s)) THEN To(NextIteration(s), "norm")
                             ELSE OnFrom(AnalyseDefect(cfg, NextIteration(s)), "beta"))
         /\ BiCGStab(p, s, "norm", r) = OnFrom(SetNewDefect(cfg, s, r), "beta")
         /\ BiCGStab(p, s, "beta", r) = IfFinite(s, r, To(s, "first"))
BY DEF BiCGStab

(***************************************************************************)
(* What the control knows of the norms h that have been seen in a solve.   *)
(***************************************************************************)
Status == {"undefined", "progress", "aborted", "success", "diverged", "max_iter", "stagnated"}

Control ==
  [status : Status, num_iter : Nat, num_stag_iter : Nat, def_init : Int, def_cur : Int, def_prev : Int]

\* Iteration i stagnates, and is one that counts.
Stagnant(h, i) ==
  /\ i >= 1 /\ i >= cfg.min_iter
  /\ 100 * h[i + 1] >= cfg.stag_rate * h[i]

\* The last n iterations do, and the one before does not.
Counts(h, n) ==
  /\ \A k \in 0 .. n - 1 : Stagnant(h, Len(h) - 1 - k)
  /\ ~Stagnant(h, Len(h) - 1 - n)

Knows(s, h) ==
  /\ s.status = "progress"
  /\ h \in Seq(Int) /\ Len(h) > 0 /\ h[1] = s.def_init
  /\ cfg.min_stag_iter > 0 => Counts(h, s.num_stag_iter) /\ s.num_stag_iter < cfg.min_stag_iter

\* Between two norms, and when the next one is due.
Iterates(s, h) == Knows(s, h) /\ Len(h) = s.num_iter + 1 /\ h[Len(h)] = s.def_cur
Awaits(s, h) == Knows(s, h) /\ Len(h) = s.num_iter /\ h[Len(h)] = s.def_prev

LEMMA Parameters ==
  ASSUME cfg \in Config
  PROVE  /\ cfg.min_iter \in Nat /\ cfg.max_iter \in Nat /\ cfg.min_stag_iter \in Nat
         /\ cfg.tol_abs \in Nat /\ cfg.tol_rel \in Nat /\ cfg.tol_abs_low \in Nat
         /\ cfg.div_abs \in Nat /\ cfg.div_rel \in Nat /\ cfg.stag_rate \in Nat
         /\ cfg.kind \in {"richardson", "pcg", "bicgstab"}
BY SolverAssumption DEF Parameter

LEMMA Values == Value \subseteq Int
BY SolverAssumption DEF Value, NotFinite

LEMMA Analysed ==
  ASSUME cfg \in Config, NEW s \in Control
  PROVE  /\ AnalyseDefect(cfg, s) \in Control
         /\ AnalyseDefect(cfg, s).status # "undefined"
         /\ AnalyseDefect(cfg, s).num_iter = s.num_iter
         /\ AnalyseDefect(cfg, s).def_init = s.def_init
         /\ AnalyseDefect(cfg, s).def_cur = s.def_cur
         /\ AnalyseDefect(cfg, s).def_prev = s.def_prev
<1>1. Stagnations(cfg, s) \in Nat
  BY DEF Stagnations, Control
<1>. DEFINE a == AnalyseDefect(cfg, s)
<1>2. \E st \in Status \ {"undefined"}, n \in Nat :
        \/ a = [s EXCEPT !.status = st]
        \/ a = [s EXCEPT !.num_stag_iter = n, !.status = st]
  <2>1. \/ \E st \in {"aborted", "diverged", "progress", "success", "max_iter"} :
             a = [s EXCEPT !.status = st]
        \/ \E st \in {"stagnated", "progress"} :
             a = [s EXCEPT !.num_stag_iter = Stagnations(cfg, s), !.status = st]
    BY Zenon DEF AnalyseDefect
  <2>. HIDE DEF a
  <2>. QED
    BY <1>1, <2>1 DEF Status
<1>. HIDE DEF a
<1>3. PICK st \in Status \ {"undefined"}, n \in Nat :
        \/ a = [s EXCEPT !.status = st]
        \/ a = [s EXCEPT !.num_stag_iter = n, !.status = st]
  BY <1>2
<1>4. CASE a = [s EXCEPT !.status = st]
  BY <1>3, <1>4 DEF Control, a
<1>5. CASE a = [s EXCEPT !.num_stag_iter = n, !.status = st]
  BY <1>3, <1>5 DEF Control, a
<1>. QED
  BY <1>3, <1>4, <1>5

\* One more norm that stagnates is counted, and any other ends the count.
LEMMA OneMoreCounted ==
  ASSUME cfg \in Config, NEW h \in Seq(Int), Len(h) > 0, NEW d \in Int, NEW n \in Nat, Counts(h, n)
  PROVE  /\ Stagnant(Append(h, d), Len(h)) => Counts(Append(h, d), n + 1)
         /\ ~Stagnant(Append(h, d), Len(h)) => Counts(Append(h, d), 0)
<1>. DEFINE g == Append(h, d)
<1>1. Len(h) \in Nat /\ Len(g) = Len(h) + 1 /\ \A k \in 1 .. Len(h) : g[k] = h[k]
  OBVIOUS
<1>2. \A i \in Int : i < Len(h) => (Stagnant(g, i) <=> Stagnant(h, i))
  <2> SUFFICES ASSUME NEW i \in Int, i < Len(h), i >= 1 PROVE g[i] = h[i] /\ g[i + 1] = h[i + 1]
    BY DEF Stagnant
  <2>. QED
    BY <1>1
<1>. HIDE DEF g
<1>3. ASSUME Stagnant(g, Len(h)) PROVE Counts(g, n + 1)
  <2>1. ASSUME NEW k \in 0 .. n + 1 - 1 PROVE Stagnant(g, Len(g) - 1 - k)
    <3>1. CASE k = 0
      BY <3>1, <1>1, <1>3
    <3>2. CASE k # 0
      <4>1. k - 1 \in 0 .. n - 1 /\ Len(g) - 1 - k = Len(h) - 1 - (k - 1)
        BY <3>2, <1>1
      <4>2. Stagnant(h, Len(h) - 1 - (k - 1))
        BY <4>1 DEF Counts
      <4>. QED
        BY <4>1, <4>2, <1>1, <1>2
    <3>. QED
      BY <3>1, <3>2
  <2>2. ~Stagnant(g, Len(g) - 1 - (n + 1))
    <3>1. Len(g) - 1 - (n + 1) = Len(h) - 1 - n /\ Len(h) - 1 - n < Len(h) /\ Len(h) - 1 - n \in Int
      BY <1>1
    <3>2. ~Stagnant(h, Len(h) - 1 - n)
      BY DEF Counts
    <3>. QED
      BY <3>1, <3>2, <1>2
  <2>. QED
    BY <2>1, <2>2 DEF Counts
<1>4. ASSUME ~Stagnant(g, Len(h)) PROVE Counts(g, 0)
  BY <1>1, <1>4 DEF Counts
<1>. QED
  BY <1>3, <1>4 DEF g

LEMMA Measured ==
  ASSUME cfg \in Config, NEW s \in Control, NEW d \in Int, NEW h, Awaits(s, h)
  PROVE  /\ SetNewDefect(cfg, s, d) \in Control
         /\ SetNewDefect(cfg, s, d).num_iter = s.num_iter
         /\ SetNewDefect(cfg, s, d).def_cur = d
         /\ SetNewDefect(cfg, s, d).status = Rule!Verdict(Append(h, d))
         /\ SetNewDefect(cfg, s, d).status = "progress"
              => Iterates(SetNewDefect(cfg, s, d), Append(h, d))
<1>. DEFINE t == [s EXCEPT !.def_cur = d]
            a == AnalyseDefect(cfg, t)
            g == Append(h, d)
<1>0. a = SetNewDefect(cfg, s, d)
  BY DEF SetNewDefect
<1>1. /\ t \in Control /\ t.def_cur = d /\ t.num_iter = s.num_iter /\ t.def_init = s.def_init
      /\ t.def_prev = s.def_prev /\ t.num_stag_iter = s.num_stag_iter
  BY DEF Control
<1>2. /\ h \in Seq(Int) /\ Len(h) \in Nat /\ Len(h) > 0
      /\ g \in Seq(Int) /\ Len(g) = Len(h) + 1 /\ g[Len(g)] = d /\ g[1] = h[1] /\ g[Len(h)] = h[Len(h)]
      /\ h[Len(h)] = s.def_prev /\ h[1] = s.def_init /\ Len(h) = s.num_iter
  BY DEF Awaits, Knows
<1>. HIDE DEF t, g
<1>3. /\ a \in Control /\ a.num_iter = s.num_iter /\ a.def_init = s.def_init /\ a.def_cur = d
  BY <1>1, Analysed
<1>4. Stagnant(g, Len(h)) <=> s.num_iter >= cfg.min_iter /\ 100 * d >= cfg.stag_rate * s.def_prev
  <2>1. g[Len(h) + 1] = d /\ Len(h) >= 1
    BY <1>2
  <2>. QED
    BY <2>1, <1>2 DEF Stagnant
<1>5. cfg.min_stag_iter > 0 =>
        /\ Counts(h, s.num_stag_iter) /\ s.num_stag_iter < cfg.min_stag_iter
        /\ Stagnant(g, Len(h)) => Counts(g, s.num_stag_iter + 1)
        /\ ~Stagnant(g, Len(h)) => Counts(g, 0)
  BY <1>2, OneMoreCounted DEF Awaits, Knows, Control, g
\* Before the least number of iterations nothing has been counted.
<1>6. s.num_iter < cfg.min_iter /\ cfg.min_stag_iter > 0 => s.num_stag_iter = 0 /\ Counts(g, 0)
  <2> SUFFICES ASSUME s.num_iter < cfg.min_iter, cfg.min_stag_iter > 0
               PROVE  s.num_stag_iter = 0 /\ Counts(g, 0)
    OBVIOUS
  <2>1. ~Stagnant(h, Len(h) - 1) /\ ~Stagnant(g, Len(h))
    <3>1. ~(Len(h) >= cfg.min_iter) /\ ~(Len(h) - 1 >= cfg.min_iter)
      <4>1. cfg.min_iter \in Nat /\ Len(h) \in Nat /\ Len(h) < cfg.min_iter
        BY <1>2, Parameters
      <4>. QED
        BY <4>1
    <3>. QED
      BY <3>1 DEF Stagnant
  <2>2. s.num_stag_iter \in Nat
    BY DEF Control
  <2>3. s.num_stag_iter > 0 => 0 \in 0 .. s.num_stag_iter - 1 /\ Len(h) - 1 - 0 = Len(h) - 1
    <3>1. Len(h) \in Nat
      BY <1>2
    <3>. QED
      BY <2>2, <3>1
  <2>. QED
    BY <1>5, <2>1, <2>2, <2>3 DEF Counts
\* The rule looks at the same iterations.
<1>7. ASSUME NEW n \in Nat, Counts(g, n), cfg.min_stag_iter > 0
      PROVE  n >= cfg.min_stag_iter <=> Rule!Stagnated(g)
  <2>1. Rule!Stagnated(g) <=> \A k \in 0 .. cfg.min_stag_iter - 1 : Stagnant(g, Len(g) - 1 - k)
    BY <1>7 DEF Rule!Stagnated, Stagnant
  <2>2. CASE n >= cfg.min_stag_iter
    <3>1. \A k \in 0 .. cfg.min_stag_iter - 1 : k \in 0 .. n - 1
      BY <2>2, Parameters
    <3>. QED
      BY <2>1, <2>2, <3>1, <1>7 DEF Counts
  <2>3. CASE n < cfg.min_stag_iter
    <3>1. n \in 0 .. cfg.min_stag_iter - 1 /\ ~(n >= cfg.min_stag_iter)
      BY <2>3, Parameters
    <3>. QED
      BY <2>1, <3>1, <1>7 DEF Counts
  <2>. QED
    BY <2>2, <2>3, Parameters
<1>8. Rule!Diverged(d, s.def_init) <=> IsDiverged(cfg, t, d)
  BY <1>1 DEF Rule!Diverged, IsDiverged
<1>9. Rule!Converged(d, s.def_init) <=> IsConverged(cfg, t, d)
  BY <1>1 DEF Rule!Converged, IsConverged
<1>10. Rule!Verdict(g) =
         IF d = NotFinite THEN "aborted"
         ELSE IF IsDiverged(cfg, t, d) THEN "diverged"
         ELSE IF s.num_iter < cfg.min_iter THEN "progress"
         ELSE IF IsConverged(cfg, t, d) THEN "success"
         ELSE IF s.num_iter >= cfg.max_iter THEN "max_iter"
         ELSE IF Rule!Stagnated(g) THEN "stagnated"
         ELSE "progress"
  <2>1. g[Len(g)] = d /\ Len(g) - 1 = s.num_iter /\ Len(g) - 1 # 0 /\ g[1] = s.def_init
    BY <1>2
  <2>. QED
    BY <2>1, <1>8, <1>9 DEF Rule!Verdict
<1>11. CASE d = NotFinite \/ IsDiverged(cfg, t, d)
  <2>1. a.status = Rule!Verdict(g) /\ a.status # "progress"
    BY <1>11, <1>10, <1>1 DEF AnalyseDefect, IsFinite, Control
  <2>. QED
    BY <2>1, <1>0, <1>3 DEF g
<1>12. CASE d # NotFinite /\ ~IsDiverged(cfg, t, d) /\ s.num_iter < cfg.min_iter
  <2>1. a = [t EXCEPT !.status = "progress"]
    BY <1>12, <1>1 DEF AnalyseDefect, IsFinite
  <2>2. a.status = "progress" /\ a.num_stag_iter = s.num_stag_iter
    BY <2>1, <1>1 DEF Control
  <2>. QED
    BY <2>2, <1>0, <1>2, <1>3, <1>6, <1>10, <1>12 DEF Iterates, Knows, g, Awaits
<1>13. CASE /\ d # NotFinite /\ ~IsDiverged(cfg, t, d) /\ s.num_iter >= cfg.min_iter
            /\ IsConverged(cfg, t, d) \/ s.num_iter >= cfg.max_iter
  <2>1. a.status = Rule!Verdict(g) /\ a.status # "progress"
    BY <1>13, <1>10, <1>1, Parameters DEF AnalyseDefect, IsFinite, Control
  <2>. QED
    BY <2>1, <1>0, <1>3 DEF g
<1>14. CASE /\ d # NotFinite /\ ~IsDiverged(cfg, t, d) /\ ~(s.num_iter < cfg.min_iter)
            /\ ~IsConverged(cfg, t, d) /\ ~(s.num_iter >= cfg.max_iter)
  <2>1. CASE cfg.min_stag_iter = 0
    <3>1. a = [t EXCEPT !.status = "progress"]
      BY <2>1, <1>14, <1>1 DEF AnalyseDefect, IsFinite
    <3>2. a.status = "progress" /\ ~Rule!Stagnated(g)
      BY <2>1, <3>1, <1>1 DEF Control, Rule!Stagnated
    <3>. QED
      BY <2>1, <3>2, <1>0, <1>2, <1>3, <1>10, <1>14 DEF Iterates, Knows, g, Awaits
  <2>2. CASE cfg.min_stag_iter # 0
    <3>. DEFINE c == Stagnations(cfg, t)
    <3>0. cfg.min_stag_iter > 0 /\ s.num_iter >= cfg.min_iter /\ s.num_iter \in Nat
      BY <2>2, <1>14, Parameters DEF Control
    <3>1. c = IF Stagnant(g, Len(h)) THEN s.num_stag_iter + 1 ELSE 0
      BY <3>0, <1>1, <1>4 DEF Stagnations
    <3>2. c \in Nat /\ Counts(g, c)
      BY <3>0, <3>1, <1>5 DEF Control
    <3>3. c >= cfg.min_stag_iter <=> Rule!Stagnated(g)
      BY <3>0, <3>2, <1>7
    <3>. HIDE DEF c
    <3>4. a = [t EXCEPT !.num_stag_iter = c,
                        !.status = IF c >= cfg.min_stag_iter THEN "stagnated" ELSE "progress"]
      BY <2>2, <1>14, <1>1 DEF AnalyseDefect, IsFinite, c
    <3>5. /\ a.status = IF c >= cfg.min_stag_iter THEN "stagnated" ELSE "progress"
          /\ a.num_stag_iter = c
      BY <3>4, <1>1 DEF Control
    <3>6. a.status = Rule!Verdict(g)
      BY <3>3, <3>5, <1>10, <1>14
    <3>7. a.status = "progress" => c < cfg.min_stag_iter
      BY <3>2, <3>5, Parameters
    <3>. QED
      BY <3>2, <3>5, <3>6, <3>7, <1>0, <1>2, <1>3 DEF Iterates, Knows, g, Awaits
  <2>. QED
    BY <2>1, <2>2
<1>. QED
  <2>1. s.num_iter \in Nat /\ cfg.min_iter \in Nat
    BY Parameters DEF Control
  <2>. QED
    BY <2>1, <1>11, <1>12, <1>13, <1>14

----------------------------------------------------------------------------
(* One solver by itself: from a call to the next, it goes by the rule.     *)

Beginning == {"defect", "status0", "sync0", "rho", "norm0"}

\* The calls of a solver.
Calls ==
  CASE cfg.kind = "richardson" -> {"defect", "norm0", "status", "sync", "update", "norm"}
    [] cfg.kind = "pcg" -> {"defect", "norm0", "status", "sync", "gamma", "direction", "alpha", "norm"}
    [] cfg.kind = "bicgstab" ->
         {"defect", "status0", "sync0", "rho", "norm0", "first", "status", "sync", "alpha", "half",
          "second", "status2", "sync2", "omega", "norm", "beta"}

\* What holds in a call op, with control s, of a process that has seen the norms h.
Told(s, op, h) ==
  /\ s \in Control /\ h \in Seq(Int) /\ op \in Calls
  /\ op \in Beginning => s.status # "progress"
  /\ op = "norm" => Awaits(s, h)
  /\ op \notin Beginning \cup {"norm"} => Iterates(s, h)

Returned(s, h) == s \in Control /\ h \in Seq(Int) /\ s.status # "progress"

\* The norms seen after the answer r, with which the solver goes on to n.
SeenAfter(s, op, h, r, n) ==
  CASE op = "norm0" -> <<r>>
    [] op = "status0" /\ n.at = "idle" -> <<>>
    [] op = "norm" -> Append(h, r)
    [] op = "half" /\ n.at = "idle" /\ IsFinite(r) -> Append(h, r)
    [] op \notin NormCall /\ n.ctl.num_iter > s.num_iter /\ n.at # "norm" -> Append(h, s.def_cur)
    [] OTHER -> h

\* A step from the norms h and the verdict v to g and w obeys the rule.
Obeys(h, v, g, w) ==
  seen[Leader] = h /\ ctl[Leader].status = v /\ (seen[Leader])' = g /\ (ctl[Leader].status)' = w
    /\ cfg' = cfg => [Rule!Next]_(Rule!vars)

Right(s, op, h, r, n) ==
  /\ n.at # "idle" => Told(n.ctl, n.at, SeenAfter(s, op, h, r, n))
  /\ n.at = "idle" => Returned(n.ctl, SeenAfter(s, op, h, r, n))
  /\ Obeys(h, s.status, SeenAfter(s, op, h, r, n), n.ctl.status)

LEMMA CallsOf ==
  /\ cfg.kind = "richardson" => Calls = {"defect", "norm0", "status", "sync", "update", "norm"}
  /\ cfg.kind = "pcg" =>
       Calls = {"defect", "norm0", "status", "sync", "gamma", "direction", "alpha", "norm"}
  /\ cfg.kind = "bicgstab" =>
       Calls = {"defect", "status0", "sync0", "rho", "norm0", "first", "status", "sync", "alpha",
                "half", "second", "status2", "sync2", "omega", "norm", "beta"}
BY DEF Calls

LEMMA ObeysNothing == ASSUME NEW h, NEW v PROVE Obeys(h, v, h, v)
BY DEF Obeys, Rule!vars

LEMMA ObeysStart ==
  ASSUME NEW h, NEW v, v # "progress", NEW d \in Value,
         NEW w, w = IF cfg.kind = "bicgstab" /\ Rule!Verdict(<<d>>) # "progress"
                    THEN "undefined" ELSE Rule!Verdict(<<d>>)
  PROVE  Obeys(h, v, <<d>>, w)
<1> SUFFICES ASSUME ctl[Leader].status = v, (seen[Leader])' = <<d>>, (ctl[Leader].status)' = w,
                    cfg' = cfg
             PROVE  Rule!Next
  BY DEF Obeys
<1>1. Rule!Start(d)
  BY DEF Rule!Start
<1>. QED
  BY <1>1 DEF Rule!Next, Value

LEMMA ObeysIterate ==
  ASSUME NEW h, NEW d, d \in Value \/ (cfg.skip_def_calc /\ h # <<>> /\ d = h[Len(h)]),
         NEW w, w = Rule!Verdict(Append(h, d))
  PROVE  Obeys(h, "progress", Append(h, d), w)
<1> SUFFICES ASSUME seen[Leader] = h, ctl[Leader].status = "progress",
                    (seen[Leader])' = Append(h, d), (ctl[Leader].status)' = w, cfg' = cfg
             PROVE  Rule!Next
  BY DEF Obeys
<1>1. Rule!Iterate(d)
  BY DEF Rule!Iterate
<1>2. d \in Value \/ d \in Rule!Old
  BY DEF Rule!Old
<1>. QED
  BY <1>1, <1>2 DEF Rule!Next, Value

LEMMA ObeysAbort ==
  ASSUME NEW h, NEW v, NEW g,
         \/ v = "progress" /\ g = h
         \/ cfg.kind = "bicgstab" /\ v # "progress" /\ g = <<>>
  PROVE  Obeys(h, v, g, "aborted")
<1> SUFFICES ASSUME seen[Leader] = h, ctl[Leader].status = v,
                    (seen[Leader])' = g, (ctl[Leader].status)' = "aborted", cfg' = cfg
             PROVE  Rule!Next
  BY DEF Obeys
<1>1. Rule!Abort
  BY DEF Rule!Abort
<1>. QED
  BY <1>1 DEF Rule!Next

LEMMA ObeysHalfWay ==
  ASSUME NEW h, NEW d \in Value, d # NotFinite, cfg.kind = "bicgstab", NEW w,
         \/ Rule!Diverged(d, h[1]) /\ w = "diverged"
         \/ ~Rule!Diverged(d, h[1]) /\ Rule!Converged(d, h[1]) /\ w = "success"
  PROVE  Obeys(h, "progress", Append(h, d), w)
<1> SUFFICES ASSUME seen[Leader] = h, ctl[Leader].status = "progress",
                    (seen[Leader])' = Append(h, d), (ctl[Leader].status)' = w, cfg' = cfg
             PROVE  Rule!Next
  BY DEF Obeys
<1>1. Rule!StopHalfWay(d)
  BY DEF Rule!StopHalfWay
<1>. QED
  BY <1>1 DEF Rule!Next, Value

----------------------------------------------------------------------------
\* Calls that change nothing but the place in the loop.
LEMMA RightTo ==
  ASSUME NEW s, NEW op, NEW h, NEW r, NEW next, next # "idle",
         s \in Control, Told(s, next, h), op \notin {"norm0", "norm"}
  PROVE  Right(s, op, h, r, To(s, next))
<1>1. SeenAfter(s, op, h, r, To(s, next)) = h
  <2>1. ~(s.num_iter > s.num_iter)
    BY DEF Control
  <2>. QED
    BY <2>1 DEF SeenAfter, To
<1>. QED
  BY <1>1, ObeysNothing DEF Right, To

LEMMA RightApply ==
  ASSUME NEW s, NEW op, NEW h, NEW r, NEW call, NEW next, call # "idle", next # "idle",
         s \in Control, Told(s, call, h), Told(s, next, h), op \notin {"norm0", "norm"}
  PROVE  Right(s, op, h, r, ApplyPrecond(s, call, next))
BY RightTo DEF ApplyPrecond

\* Solves that are aborted.
LEMMA RightAbort ==
  ASSUME NEW s, NEW op, NEW h, NEW r, s \in Control, h \in Seq(Int),
         \/ op = "status0" /\ cfg.kind = "bicgstab" /\ s.status # "progress"
         \/ op \notin {"status0", "norm0", "norm", "half"} /\ s.status = "progress"
         \/ op = "half" /\ ~IsFinite(r) /\ s.status = "progress"
  PROVE  Right(s, op, h, r, Return(s, "aborted"))
<1>. DEFINE n == Return(s, "aborted")
<1>1. n.at = "idle" /\ n.ctl \in Control /\ n.ctl.status = "aborted" /\ n.ctl.num_iter = s.num_iter
  BY DEF Return, To, Control, Status
<1>2. ~(n.ctl.num_iter > s.num_iter)
  BY <1>1 DEF Control
<1>. HIDE DEF n
<1>3. SeenAfter(s, op, h, r, n) = IF op = "status0" THEN <<>> ELSE h
  BY <1>1, <1>2 DEF SeenAfter
<1>4. Obeys(h, s.status, SeenAfter(s, op, h, r, n), "aborted")
  BY <1>3, ObeysAbort
<1>5. SeenAfter(s, op, h, r, n) \in Seq(Int)
  BY <1>3
<1>. QED
  BY <1>1, <1>4, <1>5 DEF Right, Returned, n

\* The initial defect.
LEMMA Initialised ==
  ASSUME cfg \in Config, NEW s \in Control, NEW d \in Value
  PROVE  /\ SetInitialDefect(cfg, s, d) \in Control
         /\ SetInitialDefect(cfg, s, d).status = Rule!Verdict(<<d>>)
         /\ SetInitialDefect(cfg, s, d).num_iter = 0
         /\ SetInitialDefect(cfg, s, d).def_cur = d
         /\ SetInitialDefect(cfg, s, d).status = "progress"
              => Iterates(SetInitialDefect(cfg, s, d), <<d>>)
<1>. DEFINE t == SetInitialDefect(cfg, s, d)
            h == <<d>>
<1>0. d \in Int
  BY Values
<1>1. /\ t \in Control /\ t.num_iter = 0 /\ t.num_stag_iter = 0
      /\ t.def_init = d /\ t.def_cur = d /\ t.def_prev = d
      /\ t.status = IF ~IsFinite(d) THEN "aborted" ELSE IF d = 0 THEN "success" ELSE "progress"
  BY <1>0 DEF SetInitialDefect, Control, Status
<1>2. h \in Seq(Int) /\ Len(h) = 1 /\ h[1] = d
  BY <1>0
<1>. HIDE DEF t, h
<1>3. t.status = Rule!Verdict(h)
  <2>1. h[Len(h)] = d /\ Len(h) - 1 = 0
    BY <1>2
  <2>. QED
    BY <2>1, <1>1 DEF Rule!Verdict, IsFinite
<1>4. Counts(h, 0)
  <2>1. ~Stagnant(h, Len(h) - 1 - 0) /\ \A k \in 0 .. 0 - 1 : FALSE
    BY <1>2 DEF Stagnant
  <2>. QED
    BY <2>1 DEF Counts
<1>5. t.status = "progress" => Iterates(t, h)
  <2>1. cfg.min_stag_iter > 0 => 0 < cfg.min_stag_iter
    BY Parameters
  <2>. QED
    BY <1>1, <1>2, <1>4, <2>1 DEF Iterates, Knows
<1>. QED
  BY <1>1, <1>3, <1>5 DEF t, h

LEMMA RightStart ==
  ASSUME cfg \in Config, NEW s, NEW h, NEW r \in Value, Told(s, "norm0", h),
         NEW next, {"status", next} \subseteq Calls \ (Beginning \cup {"norm", "idle"}),
         NEW n,
         \/ cfg.kind # "bicgstab" /\ n = Loop(SetInitialDefect(cfg, s, r), next)
         \/ cfg.kind = "bicgstab" /\ n = AfterLoop(SetInitialDefect(cfg, s, r), next)
  PROVE  Right(s, "norm0", h, r, n)
<1>. DEFINE t == SetInitialDefect(cfg, s, r)
<1>0. r \in Int
  BY Values
<1>1. s \in Control /\ s.status # "progress"
  BY DEF Told, Beginning
<1>2. /\ t \in Control /\ t.status = Rule!Verdict(<<r>>)
      /\ t.status = "progress" => Iterates(t, <<r>>)
  BY <1>1, Initialised
<1>. HIDE DEF t
<1>3. SeenAfter(s, "norm0", h, r, n) = <<r>>
  BY DEF SeenAfter, NormCall
<1>4. <<r>> \in Seq(Int)
  BY <1>0
<1>5. CASE t.status = "progress"
  <2>1. n.ctl = t /\ n.at # "idle" /\ n.at \in {"status", next}
    BY <1>5 DEF Loop, AfterLoop, ApplyPrecond, To, t
  <2>2. Told(n.ctl, n.at, <<r>>)
    BY <2>1, <1>2, <1>4, <1>5 DEF Told
  <2>3. Obeys(h, s.status, <<r>>, n.ctl.status)
    BY <2>1, <1>1, <1>2, <1>5, ObeysStart
  <2>. QED
    BY <2>1, <2>2, <2>3, <1>3 DEF Right
<1>6. CASE t.status # "progress" /\ cfg.kind # "bicgstab"
  <2>1. n.ctl = t /\ n.at = "idle"
    BY <1>6 DEF Loop, To, t
  <2>2. Obeys(h, s.status, <<r>>, n.ctl.status)
    BY <2>1, <1>1, <1>2, <1>6, ObeysStart
  <2>. QED
    BY <2>1, <2>2, <1>2, <1>3, <1>4, <1>6 DEF Right, Returned
<1>7. CASE t.status # "progress" /\ cfg.kind = "bicgstab"
  <2>1. n.ctl = [t EXCEPT !.status = "undefined"] /\ n.at = "idle"
    BY <1>7 DEF AfterLoop, Return, To, t
  <2>2. n.ctl \in Control /\ n.ctl.status = "undefined"
    BY <2>1, <1>2 DEF Control, Status
  <2>3. Obeys(h, s.status, <<r>>, "undefined")
    BY <1>1, <1>2, <1>7, ObeysStart
  <2>. QED
    BY <2>1, <2>2, <2>3, <1>3, <1>4 DEF Right, Returned
<1>. QED
  BY <1>5, <1>6, <1>7

----------------------------------------------------------------------------
\* The next norm is due, or the last one is taken once more.
LEMMA Goes ==
  ASSUME cfg \in Config, NEW s \in Control, NEW h, Iterates(s, h)
  PROVE  /\ NextIteration(s) \in Control
         /\ NextIteration(s).num_iter = s.num_iter + 1
         /\ NextIteration(s).status = "progress"
         /\ NextIteration(s).def_cur = s.def_cur
         /\ Awaits(NextIteration(s), h)
         /\ AnalyseDefect(cfg, NextIteration(s)) = SetNewDefect(cfg, NextIteration(s), s.def_cur)
<1>. DEFINE t == NextIteration(s)
<1>1. /\ t \in Control /\ t.num_iter = s.num_iter + 1 /\ t.def_prev = s.def_cur /\ t.def_cur = s.def_cur
      /\ t.status = s.status /\ t.def_init = s.def_init /\ t.num_stag_iter = s.num_stag_iter
  <2>1. s.num_iter + 1 \in Nat /\ s.def_cur \in Int
    BY DEF Control
  <2>. QED
    BY <2>1 DEF NextIteration, Control
<1>2. Awaits(t, h) /\ t.status = "progress"
  BY <1>1 DEF Iterates, Awaits, Knows
<1>3. [t EXCEPT !.def_cur = s.def_cur] = t
  BY <1>1 DEF Control
<1>. QED
  BY <1>1, <1>2, <1>3 DEF SetNewDefect

\* What the loop makes of a norm d, be it new or not.
LEMMA RightVerdict ==
  ASSUME cfg \in Config, NEW s \in Control, NEW h, Awaits(s, h), NEW d \in Int,
         d \in Value \/ (cfg.skip_def_calc /\ d = h[Len(h)]),
         NEW next, {"status", next} \subseteq Calls \ (Beginning \cup {"norm", "idle"}), NEW n,
         \/ n = Loop(SetNewDefect(cfg, s, d), next)
         \/ n = OnFrom(SetNewDefect(cfg, s, d), next)
  PROVE  /\ n.at # "idle" => Told(n.ctl, n.at, Append(h, d))
         /\ n.at = "idle" => Returned(n.ctl, Append(h, d))
         /\ n.ctl = SetNewDefect(cfg, s, d)
         /\ n.at # "norm"
         /\ Obeys(h, "progress", Append(h, d), n.ctl.status)
<1>. DEFINE t == SetNewDefect(cfg, s, d)
<1>1. h \in Seq(Int) /\ h # <<>> /\ Append(h, d) \in Seq(Int)
  BY DEF Awaits, Knows
<1>2. /\ t \in Control /\ t.status = Rule!Verdict(Append(h, d))
      /\ t.status = "progress" => Iterates(t, Append(h, d))
  BY Measured
<1>. HIDE DEF t
<1>3. Obeys(h, "progress", Append(h, d), t.status)
  BY <1>1, <1>2, ObeysIterate
<1>4. CASE t.status = "progress"
  <2>1. n.ctl = t /\ n.at # "idle" /\ n.at \in {"status", next}
    BY <1>4 DEF Loop, OnFrom, ApplyPrecond, To, t
  <2>2. Told(n.ctl, n.at, Append(h, d))
    BY <2>1, <1>1, <1>2, <1>4 DEF Told
  <2>. QED
    BY <2>1, <2>2, <1>3 DEF t
<1>5. CASE t.status # "progress"
  <2>1. n.ctl = t /\ n.at = "idle"
    BY <1>5 DEF Loop, OnFrom, To, t
  <2>. QED
    BY <2>1, <1>1, <1>2, <1>3, <1>5 DEF Returned, t
<1>. QED
  BY <1>4, <1>5

LEMMA RightNorm ==
  ASSUME cfg \in Config, NEW s, NEW h, NEW r \in Value, Told(s, "norm", h),
         NEW next, {"status", next} \subseteq Calls \ (Beginning \cup {"norm", "idle"}), NEW n,
         \/ n = Loop(SetNewDefect(cfg, s, r), next)
         \/ n = OnFrom(SetNewDefect(cfg, s, r), next)
  PROVE  Right(s, "norm", h, r, n)
<1>1. r \in Int
  BY Values
<1>2. s \in Control /\ Awaits(s, h) /\ s.status = "progress"
  BY DEF Told, Awaits, Knows
<1>3. SeenAfter(s, "norm", h, r, n) = Append(h, r)
  BY DEF SeenAfter, NormCall
<1>4. /\ n.at # "idle" => Told(n.ctl, n.at, Append(h, r))
      /\ n.at = "idle" => Returned(n.ctl, Append(h, r))
      /\ Obeys(h, "progress", Append(h, r), n.ctl.status)
  BY <1>1, <1>2, RightVerdict
<1>. QED
  BY <1>2, <1>3, <1>4 DEF Right

\* A call after which the norm is computed, or left out.
LEMMA RightSkip ==
  ASSUME cfg \in Config, NEW p, NEW s, NEW op, NEW h, NEW r, s \in Control, Iterates(s, h),
         op \notin NormCall \cup {"status0"}, "norm" \in Calls,
         NEW next, {"status", next} \subseteq Calls \ (Beginning \cup {"norm", "idle"}), NEW n,
         CalcDef(cfg, p, NextIteration(s)) => n = To(NextIteration(s), "norm"),
         ~CalcDef(cfg, p, NextIteration(s)) =>
           \/ n = Loop(AnalyseDefect(cfg, NextIteration(s)), next)
           \/ n = OnFrom(AnalyseDefect(cfg, NextIteration(s)), next)
  PROVE  Right(s, op, h, r, n)
<1>. DEFINE t == NextIteration(s)
<1>1. /\ t \in Control /\ t.num_iter = s.num_iter + 1 /\ t.status = "progress" /\ Awaits(t, h)
      /\ AnalyseDefect(cfg, t) = SetNewDefect(cfg, t, s.def_cur)
  BY Goes
<1>2. h \in Seq(Int) /\ s.status = "progress" /\ h[Len(h)] = s.def_cur
  BY DEF Iterates, Knows
<1>3. CASE CalcDef(cfg, p, t)
  <2>1. n.ctl = t /\ n.at = "norm"
    BY <1>3 DEF To
  <2>2. SeenAfter(s, op, h, r, n) = h
    BY <2>1 DEF SeenAfter, NormCall
  <2>3. Told(t, "norm", h)
    BY <1>1, <1>2 DEF Told, Beginning
  <2>. QED
    BY <2>1, <2>2, <2>3, <1>1, <1>2, ObeysNothing DEF Right
<1>4. CASE ~CalcDef(cfg, p, t)
  <2>1. cfg.skip_def_calc
    BY <1>4 DEF CalcDef
  <2>2. s.def_cur \in Int
    BY DEF Control
  <2>3. /\ n.at # "idle" => Told(n.ctl, n.at, Append(h, s.def_cur))
        /\ n.at = "idle" => Returned(n.ctl, Append(h, s.def_cur))
        /\ n.ctl = SetNewDefect(cfg, t, s.def_cur)
        /\ n.at # "norm"
        /\ Obeys(h, "progress", Append(h, s.def_cur), n.ctl.status)
    BY <1>1, <1>2, <1>4, <2>1, <2>2, RightVerdict
  <2>4. n.ctl.num_iter = s.num_iter + 1
    BY <1>1, <2>2, <2>3, Measured
  <2>5. SeenAfter(s, op, h, r, n) = Append(h, s.def_cur)
    <3>1. n.ctl.num_iter > s.num_iter
      BY <2>4 DEF Control
    <3>. QED
      BY <2>3, <3>1 DEF SeenAfter, NormCall
  <2>. QED
    BY <2>3, <2>5, <1>2 DEF Right
<1>. QED
  BY <1>3, <1>4

\* BiCGStab in the middle of an iteration.
LEMMA RightHalfWay ==
  ASSUME cfg \in Config, NEW s, NEW h, NEW r \in Value, Told(s, "half", h), cfg.kind = "bicgstab"
  PROVE  Right(s, "half", h, r, HalfWay(s, r))
<1>. DEFINE n == HalfWay(s, r)
<1>0. r \in Int
  BY Values
<1>1. /\ s \in Control /\ Iterates(s, h) /\ s.status = "progress" /\ h \in Seq(Int)
      /\ h[1] = s.def_init /\ s.num_iter \in Nat /\ s.def_cur \in Int
  BY DEF Told, Beginning, Iterates, Knows, Control
<1>2. Rule!Diverged(r, h[1]) <=> IsDiverged(cfg, s, r)
  BY <1>1 DEF Rule!Diverged, IsDiverged
<1>3. Rule!Converged(r, h[1]) <=> IsConverged(cfg, s, r)
  BY <1>1 DEF Rule!Converged, IsConverged
<1>4. ASSUME NEW cur \in Int, NEW st \in Status
      PROVE  LET t == [[s EXCEPT !.num_iter = @ + 1, !.def_prev = s.def_cur, !.def_cur = cur]
                         EXCEPT !.status = st]
             IN  t \in Control /\ t.status = st
  <2>1. s.num_iter + 1 \in Nat
    BY <1>1
  <2>. QED
    BY <1>1, <2>1 DEF Control
<1>5. CASE ~IsFinite(r)
  <2>1. /\ n.at = "idle" /\ n.ctl \in Control /\ n.ctl.status = "aborted"
    BY <1>1, <1>4, <1>5 DEF HalfWay, Return, To, Status
  <2>2. SeenAfter(s, "half", h, r, n) = h
    BY <2>1, <1>5 DEF SeenAfter, NormCall
  <2>. QED
    BY <2>1, <2>2, <1>1, ObeysAbort DEF Right, Returned
<1>6. CASE IsFinite(r) /\ (IsDiverged(cfg, s, r) \/ IsConverged(cfg, s, r))
  <2>1. /\ n.at = "idle" /\ n.ctl \in Control
        /\ n.ctl.status = IF IsDiverged(cfg, s, r) THEN "diverged" ELSE "success"
    <3>. DEFINE w == IF IsDiverged(cfg, s, r) THEN "diverged" ELSE "success"
    <3>1. /\ n.at = "idle"
          /\ n.ctl = [[s EXCEPT !.num_iter = @ + 1, !.def_prev = s.def_cur, !.def_cur = r]
                        EXCEPT !.status = w]
      BY <1>6 DEF HalfWay, Return, To
    <3>2. w \in Status
      BY DEF Status
    <3>. HIDE DEF n, w
    <3>3. n.ctl \in Control /\ n.ctl.status = w
      <4>1. s.num_iter + 1 \in Nat /\ s.def_cur \in Int /\ s \in Control
        BY <1>1
      <4>. QED
        BY <3>1, <3>2, <4>1, <1>0 DEF Control
    <3>. QED
      BY <3>1, <3>3 DEF n, w
  <2>2. SeenAfter(s, "half", h, r, n) = Append(h, r)
    BY <2>1, <1>6 DEF SeenAfter, NormCall
  <2>3. Obeys(h, "progress", Append(h, r), n.ctl.status)
    BY <2>1, <1>2, <1>3, <1>6, ObeysHalfWay DEF IsFinite
  <2>4. Append(h, r) \in Seq(Int) /\ n.ctl.status # "progress"
    BY <2>1, <1>0, <1>1
  <2>. HIDE DEF n
  <2>. QED
    BY <2>1, <2>2, <2>3, <2>4, <1>1 DEF Right, Returned, n
<1>7. CASE IsFinite(r) /\ ~IsDiverged(cfg, s, r) /\ ~IsConverged(cfg, s, r)
  <2>1. n = To(s, "second")
    BY <1>7 DEF HalfWay
  <2>2. Told(s, "second", h)
    BY <1>1, CallsOf DEF Told, Beginning
  <2>. QED
    BY <2>1, <2>2, <1>1, RightTo
<1>. QED
  BY <1>5, <1>6, <1>7

----------------------------------------------------------------------------
(* All calls of each solver.                                               *)

\* From one call to another, in the beginning of a solve or within an iteration.
LEMMA SameKnowledge ==
  ASSUME NEW s, NEW op, NEW h, Told(s, op, h), NEW next \in Calls,
         \/ op \in Beginning /\ next \in Beginning
         \/ op \notin Beginning \cup {"norm"} /\ next \notin Beginning \cup {"norm"}
  PROVE  Told(s, next, h)
BY DEF Told, Beginning

LEMMA RightRichardson ==
  ASSUME cfg \in Config, cfg.kind = "richardson", NEW p, NEW s, NEW op, NEW h, NEW r,
         Told(s, op, h), op \in NormCall => r \in Value
  PROVE  Right(s, op, h, r, Richardson(p, s, op, r))
<1>0. Calls = {"defect", "norm0", "status", "sync", "update", "norm"} /\ s \in Control /\ op \in Calls
  BY CallsOf DEF Told
<1>. DEFINE n == Richardson(p, s, op, r)
<1>. USE DEF Beginning
<1>1. CASE op = "defect"
  <2>1. n = To(s, "norm0") /\ Told(s, "norm0", h)
    BY <1>0, <1>1, RichardsonCalls, SameKnowledge
  <2>. QED
    BY <2>1, <1>0, <1>1, RightTo
<1>2. CASE op = "norm0"
  <2>1. n = Loop(SetInitialDefect(cfg, s, r), "update")
    BY <1>2, RichardsonCalls
  <2>2. {"status", "update"} \subseteq Calls \ (Beginning \cup {"norm", "idle"})
    BY <1>0
  <2>. QED
    BY <2>1, <2>2, <1>2, RightStart DEF NormCall
<1>3. CASE op = "status"
  <2>1. n = Unless(s, r, "sync") /\ Told(s, "sync", h)
    BY <1>0, <1>3, RichardsonCalls, SameKnowledge
  <2>2. s.status = "progress" /\ h \in Seq(Int)
    BY <1>3 DEF Told, Iterates, Knows
  <2>. QED
    BY <2>1, <2>2, <1>0, <1>3, RightTo, RightAbort DEF Unless
<1>4. CASE op = "sync"
  <2>1. n = To(s, "update") /\ Told(s, "update", h)
    BY <1>0, <1>4, RichardsonCalls, SameKnowledge
  <2>. QED
    BY <2>1, <1>0, <1>4, RightTo
<1>5. CASE op = "update"
  <2>1. n = NewDefect(p, s, "update") /\ Iterates(s, h)
    BY <1>5, RichardsonCalls DEF Told
  <2>2. {"status", "update"} \subseteq Calls \ (Beginning \cup {"norm", "idle"}) /\ "norm" \in Calls
    BY <1>0
  <2>3. /\ CalcDef(cfg, p, NextIteration(s)) => n = To(NextIteration(s), "norm")
        /\ ~CalcDef(cfg, p, NextIteration(s)) => n = Loop(AnalyseDefect(cfg, NextIteration(s)), "update")
    BY <2>1 DEF NewDefect
  <2>4. op \notin NormCall \cup {"status0"}
    BY <1>5 DEF NormCall
  <2>. HIDE DEF n
  <2>5. Right(s, op, h, r, n)
    BY <2>1, <2>2, <2>3, <2>4, <1>0, RightSkip
  <2>. QED
    BY <2>5 DEF n
<1>6. CASE op = "norm"
  <2>1. n = Loop(SetNewDefect(cfg, s, r), "update")
    BY <1>6, RichardsonCalls
  <2>2. {"status", "update"} \subseteq Calls \ (Beginning \cup {"norm", "idle"})
    BY <1>0
  <2>. QED
    BY <2>1, <2>2, <1>6, RightNorm DEF NormCall
<1>. QED
  BY <1>0, <1>1, <1>2, <1>3, <1>4, <1>5, <1>6

LEMMA RightPCG ==
  ASSUME cfg \in Config, cfg.kind = "pcg", NEW p, NEW s, NEW op, NEW h, NEW r,
         Told(s, op, h), op \in NormCall => r \in Value
  PROVE  Right(s, op, h, r, PCG(p, s, op, r))
<1>0. /\ Calls = {"defect", "norm0", "status", "sync", "gamma", "direction", "alpha", "norm"}
      /\ s \in Control /\ op \in Calls
  BY CallsOf DEF Told
<1>. DEFINE n == PCG(p, s, op, r)
<1>. USE DEF Beginning
<1>1. CASE op = "defect"
  <2>1. n = To(s, "norm0") /\ Told(s, "norm0", h)
    BY <1>0, <1>1, PCGCalls, SameKnowledge
  <2>. QED
    BY <2>1, <1>0, <1>1, RightTo
<1>2. CASE op = "norm0"
  <2>1. n = Loop(SetInitialDefect(cfg, s, r), "gamma")
    BY <1>2, PCGCalls
  <2>2. {"status", "gamma"} \subseteq Calls \ (Beginning \cup {"norm", "idle"})
    BY <1>0
  <2>. QED
    BY <2>1, <2>2, <1>2, RightStart DEF NormCall
<1>3. CASE op = "status"
  <2>1. n = Unless(s, r, "sync") /\ Told(s, "sync", h)
    BY <1>0, <1>3, PCGCalls, SameKnowledge
  <2>2. s.status = "progress" /\ h \in Seq(Int)
    BY <1>3 DEF Told, Iterates, Knows
  <2>. QED
    BY <2>1, <2>2, <1>0, <1>3, RightTo, RightAbort DEF Unless
<1>4. CASE op \in {"sync", "gamma", "direction"}
  <2>. DEFINE next == IF op = "sync" THEN "gamma" ELSE IF op = "gamma" THEN "direction" ELSE "alpha"
  <2>1. n = To(s, next)
    BY <1>4, PCGCalls
  <2>2. Told(s, next, h)
    BY <1>0, <1>4, SameKnowledge
  <2>. QED
    BY <2>1, <2>2, <1>0, <1>4, RightTo
<1>5. CASE op = "alpha"
  <2>1. n = NewDefect(p, s, "gamma") /\ Iterates(s, h)
    BY <1>5, PCGCalls DEF Told
  <2>2. {"status", "gamma"} \subseteq Calls \ (Beginning \cup {"norm", "idle"}) /\ "norm" \in Calls
    BY <1>0
  <2>3. /\ CalcDef(cfg, p, NextIteration(s)) => n = To(NextIteration(s), "norm")
        /\ ~CalcDef(cfg, p, NextIteration(s)) => n = Loop(AnalyseDefect(cfg, NextIteration(s)), "gamma")
    BY <2>1 DEF NewDefect
  <2>4. op \notin NormCall \cup {"status0"}
    BY <1>5 DEF NormCall
  <2>. HIDE DEF n
  <2>5. Right(s, op, h, r, n)
    BY <2>1, <2>2, <2>3, <2>4, <1>0, RightSkip
  <2>. QED
    BY <2>5 DEF n
<1>6. CASE op = "norm"
  <2>1. n = Loop(SetNewDefect(cfg, s, r), "gamma")
    BY <1>6, PCGCalls
  <2>2. {"status", "gamma"} \subseteq Calls \ (Beginning \cup {"norm", "idle"})
    BY <1>0
  <2>. QED
    BY <2>1, <2>2, <1>6, RightNorm DEF NormCall
<1>. QED
  BY <1>0, <1>1, <1>2, <1>3, <1>4, <1>5, <1>6

LEMMA RightBiCGStab ==
  ASSUME cfg \in Config, cfg.kind = "bicgstab", NEW p, NEW s, NEW op, NEW h, NEW r,
         Told(s, op, h), op \in NormCall => r \in Value
  PROVE  Right(s, op, h, r, BiCGStab(p, s, op, r))
<1>0. /\ Calls = {"defect", "status0", "sync0", "rho", "norm0", "first", "status", "sync", "alpha",
                  "half", "second", "status2", "sync2", "omega", "norm", "beta"}
      /\ s \in Control /\ op \in Calls
  BY CallsOf DEF Told
<1>. DEFINE n == BiCGStab(p, s, op, r)
<1>. USE DEF Beginning
<1>1. CASE op = "defect"
  <2>1. n = ApplyPrecond(s, "status0", "rho") /\ Told(s, "status0", h) /\ Told(s, "rho", h)
    BY <1>0, <1>1, BiCGStabCalls, SameKnowledge
  <2>. QED
    BY <2>1, <1>0, <1>1, RightApply
<1>2. CASE op = "status0"
  <2>1. n = Unless(s, r, "sync0") /\ Told(s, "sync0", h)
    BY <1>0, <1>2, BiCGStabCalls, SameKnowledge
  <2>2. s.status # "progress" /\ h \in Seq(Int)
    BY <1>2 DEF Told
  <2>. QED
    BY <2>1, <2>2, <1>0, <1>2, RightTo, RightAbort DEF Unless
<1>3. CASE op \in {"sync0", "rho"}
  <2>. DEFINE next == IF op = "sync0" THEN "rho" ELSE "norm0"
  <2>1. n = To(s, next)
    BY <1>3, BiCGStabCalls
  <2>2. Told(s, next, h)
    BY <1>0, <1>3, SameKnowledge
  <2>. QED
    BY <2>1, <2>2, <1>0, <1>3, RightTo
<1>4. CASE op = "norm0"
  <2>1. n = AfterLoop(SetInitialDefect(cfg, s, r), "first")
    BY <1>4, BiCGStabCalls
  <2>2. {"status", "first"} \subseteq Calls \ (Beginning \cup {"norm", "idle"})
    BY <1>0
  <2>. QED
    BY <2>1, <2>2, <1>4, RightStart DEF NormCall
<1>5. CASE op = "first"
  <2>1. n = ApplyPrecond(s, "status", "alpha") /\ Told(s, "status", h) /\ Told(s, "alpha", h)
    BY <1>0, <1>5, BiCGStabCalls, SameKnowledge
  <2>. QED
    BY <2>1, <1>0, <1>5, RightApply
<1>6. CASE op = "second"
  <2>1. n = ApplyPrecond(s, "status2", "omega") /\ Told(s, "status2", h) /\ Told(s, "omega", h)
    BY <1>0, <1>6, BiCGStabCalls, SameKnowledge
  <2>. QED
    BY <2>1, <1>0, <1>6, RightApply
<1>7. CASE op \in {"status", "status2"}
  <2>. DEFINE next == IF op = "status" THEN "sync" ELSE "sync2"
  <2>1. n = Unless(s, r, next)
    BY <1>7, BiCGStabCalls
  <2>2. Told(s, next, h)
    BY <1>0, <1>7, SameKnowledge
  <2>3. s.status = "progress" /\ h \in Seq(Int)
    BY <1>7 DEF Told, Iterates, Knows
  <2>. QED
    BY <2>1, <2>2, <2>3, <1>0, <1>7, RightTo, RightAbort DEF Unless
<1>8. CASE op \in {"sync", "alpha", "sync2"}
  <2>. DEFINE next == IF op = "sync" THEN "alpha" ELSE IF op = "alpha" THEN "half" ELSE "omega"
  <2>1. n = To(s, next)
    BY <1>8, BiCGStabCalls
  <2>2. Told(s, next, h)
    BY <1>0, <1>8, SameKnowledge
  <2>. QED
    BY <2>1, <2>2, <1>0, <1>8, RightTo
<1>9. CASE op = "half"
  BY <1>9, BiCGStabCalls, RightHalfWay DEF NormCall
<1>10. CASE op = "omega"
  <2>1. /\ n = IfFinite(s, r, IF CalcDef(cfg, p, NextIteration(s)) THEN To(NextIteration(s), "norm")
                              ELSE OnFrom(AnalyseDefect(cfg, NextIteration(s)), "beta"))
        /\ Iterates(s, h) /\ s.status = "progress" /\ h \in Seq(Int)
    BY <1>10, BiCGStabCalls DEF Told, Iterates, Knows
  <2>2. {"status", "beta"} \subseteq Calls \ (Beginning \cup {"norm", "idle"}) /\ "norm" \in Calls
    BY <1>0
  <2>3. CASE IsFinite(r)
    <3>1. /\ CalcDef(cfg, p, NextIteration(s)) => n = To(NextIteration(s), "norm")
          /\ ~CalcDef(cfg, p, NextIteration(s)) =>
               n = OnFrom(AnalyseDefect(cfg, NextIteration(s)), "beta")
      BY <2>1, <2>3 DEF IfFinite
    <3>2. op \notin NormCall \cup {"status0"}
      BY <1>10 DEF NormCall
    <3>. HIDE DEF n
    <3>3. Right(s, op, h, r, n)
      BY <2>1, <2>2, <3>1, <3>2, <1>0, RightSkip
    <3>. QED
      BY <3>3 DEF n
  <2>4. CASE ~IsFinite(r)
    BY <2>1, <2>4, <1>0, <1>10, RightAbort DEF IfFinite
  <2>. QED
    BY <2>3, <2>4
<1>11. CASE op = "norm"
  <2>1. n = OnFrom(SetNewDefect(cfg, s, r), "beta")
    BY <1>11, BiCGStabCalls
  <2>2. {"status", "beta"} \subseteq Calls \ (Beginning \cup {"norm", "idle"})
    BY <1>0
  <2>. QED
    BY <2>1, <2>2, <1>11, RightNorm DEF NormCall
<1>12. CASE op = "beta"
  <2>1. /\ n = IfFinite(s, r, To(s, "first")) /\ Told(s, "first", h)
        /\ s.status = "progress" /\ h \in Seq(Int)
    BY <1>0, <1>12, BiCGStabCalls, SameKnowledge DEF Told, Iterates, Knows
  <2>. QED
    BY <2>1, <1>0, <1>12, RightTo, RightAbort DEF IfFinite
<1>. QED
  BY <1>0, <1>1, <1>2, <1>3, <1>4, <1>5, <1>6, <1>7, <1>8, <1>9, <1>10, <1>11, <1>12

\* Whatever the solver is, from each call it goes on by the rule.
LEMMA EveryCall ==
  ASSUME cfg \in Config, NEW p, NEW s, NEW op, NEW h, NEW r,
         Told(s, op, h), op \in NormCall => r \in Value
  PROVE  Right(s, op, h, r, Proceed(p, s, op, r))
<1>1. CASE cfg.kind = "richardson"
  BY <1>1, RightRichardson DEF Proceed
<1>2. CASE cfg.kind = "pcg"
  BY <1>2, RightPCG DEF Proceed
<1>3. CASE cfg.kind = "bicgstab"
  BY <1>3, RightBiCGStab DEF Proceed
<1>. QED
  BY <1>1, <1>2, <1>3, Parameters

\* A verdict is about the norm that has just been computed, in the current iteration.
IterationAt(op, s) ==
  CASE op = "norm0" -> 0
    [] op = "half" -> s.num_iter + 1
    [] OTHER -> s.num_iter

LEMMA VerdictOnNorm ==
  ASSUME cfg \in Config, NEW p, NEW s, NEW op, NEW h, NEW r,
         Told(s, op, h), op \in NormCall => r \in Value, ~MaySkip,
         Proceed(p, s, op, r).at = "idle",
         Proceed(p, s, op, r).ctl.status \notin {"undefined", "aborted"}
  PROVE  /\ op \in NormCall
         /\ r = Proceed(p, s, op, r).ctl.def_cur
         /\ IterationAt(op, s) = Proceed(p, s, op, r).ctl.num_iter
<1>. DEFINE n == Proceed(p, s, op, r)
<1>1. s \in Control /\ op \in Calls
  BY DEF Told
<1>2. \A t : CalcDef(cfg, p, t)
  BY Parameters DEF MaySkip, CalcDef
<1>3. \A t, next : Return(t, "aborted").ctl = [t EXCEPT !.status = "aborted"] /\ To(t, next).at = next
  BY DEF Return, To
<1>4. Return(s, "aborted").ctl.status = "aborted"
  BY <1>1, <1>3 DEF Control
<1>5. \A next : next # "idle" => NewDefect(p, s, next).at # "idle"
  BY <1>2, <1>3 DEF NewDefect
<1>6. \A failures, next : next # "idle" /\ Unless(s, failures, next).at = "idle"
                            => Unless(s, failures, next).ctl.status = "aborted"
  BY <1>3, <1>4 DEF Unless
<1>7. \A next, call : next # "idle" /\ call # "idle" => ApplyPrecond(s, call, next).at # "idle"
  BY <1>3 DEF ApplyPrecond
<1>8. CASE op \notin NormCall
  <2>1. CASE cfg.kind = "richardson"
    <3>1. n = Richardson(p, s, op, r) /\ op \in {"defect", "status", "sync", "update"}
      BY <2>1, <1>1, <1>8, CallsOf DEF Proceed, NormCall
    <3>. QED
      BY <3>1, <1>3, <1>5, <1>6, RichardsonCalls
  <2>2. CASE cfg.kind = "pcg"
    <3>1. n = PCG(p, s, op, r) /\ op \in {"defect", "status", "sync", "gamma", "direction", "alpha"}
      BY <2>2, <1>1, <1>8, CallsOf DEF Proceed, NormCall
    <3>. QED
      BY <3>1, <1>3, <1>5, <1>6, PCGCalls
  <2>3. CASE cfg.kind = "bicgstab"
    <3>1. /\ n = BiCGStab(p, s, op, r)
          /\ op \in {"defect", "status0", "sync0", "rho", "first", "status", "sync", "alpha",
                     "second", "status2", "sync2", "omega", "beta"}
      BY <2>3, <1>1, <1>8, CallsOf DEF Proceed, NormCall
    <3>2. CASE op \in {"defect", "sync0", "rho", "first", "sync", "alpha", "second", "sync2"}
      BY <3>1, <3>2, <1>3, <1>7, BiCGStabCalls
    <3>3. CASE op \in {"status0", "status", "status2"}
      BY <3>1, <3>3, <1>6, BiCGStabCalls
    <3>4. CASE op = "omega"
      <4>1. n = IfFinite(s, r, To(NextIteration(s), "norm"))
        BY <3>1, <3>4, <1>2, BiCGStabCalls
      <4>. QED
        BY <4>1, <1>3, <1>4 DEF IfFinite
    <3>5. CASE op = "beta"
      <4>1. n = IfFinite(s, r, To(s, "first"))
        BY <3>1, <3>5, BiCGStabCalls
      <4>. QED
        BY <4>1, <1>3, <1>4 DEF IfFinite
    <3>. QED
      BY <3>1, <3>2, <3>3, <3>4, <3>5
  <2>. QED
    BY <2>1, <2>2, <2>3, Parameters
<1>9. CASE op = "norm0"
  <2>1. \/ \E next : next # "idle" /\ n = Loop(SetInitialDefect(cfg, s, r), next)
        \/ n = AfterLoop(SetInitialDefect(cfg, s, r), "first")
    <3>1. CASE cfg.kind = "richardson"
      BY <3>1, <1>9, RichardsonCalls DEF Proceed
    <3>2. CASE cfg.kind = "pcg"
      BY <3>2, <1>9, PCGCalls DEF Proceed
    <3>3. CASE cfg.kind = "bicgstab"
      BY <3>3, <1>9, BiCGStabCalls DEF Proceed
    <3>. QED
      BY <3>1, <3>2, <3>3, Parameters
  <2>. DEFINE t == SetInitialDefect(cfg, s, r)
  <2>2. r \in Value /\ t \in Control /\ t.num_iter = 0 /\ t.def_cur = r
    BY <1>1, <1>9, Initialised DEF NormCall
  <2>. HIDE DEF t
  <2>3. [t EXCEPT !.status = "undefined"].status = "undefined"
    BY <2>2 DEF Control
  <2>4. n.ctl = t
    <3>1. CASE t.status = "progress"
      BY <2>1, <3>1 DEF Loop, AfterLoop, ApplyPrecond, To, t
    <3>2. CASE t.status # "progress"
      <4>1. CASE \E next : n = Loop(t, next)
        BY <3>2, <4>1 DEF Loop, To
      <4>2. CASE n = AfterLoop(t, "first")
        <5>1. n.ctl.status = "undefined"
          BY <3>2, <4>2, <2>3 DEF AfterLoop, Return, To
        <5>. QED
          BY <5>1
      <4>. QED
        BY <4>1, <4>2, <2>1 DEF t
    <3>. QED
      BY <3>1, <3>2
  <2>. QED
    BY <2>2, <2>4, <1>9 DEF IterationAt, NormCall
<1>10. CASE op = "norm"
  <2>1. \E next : \/ n = Loop(SetNewDefect(cfg, s, r), next)
                  \/ n = OnFrom(SetNewDefect(cfg, s, r), next)
    <3>1. CASE cfg.kind = "richardson"
      BY <3>1, <1>10, RichardsonCalls DEF Proceed
    <3>2. CASE cfg.kind = "pcg"
      BY <3>2, <1>10, PCGCalls DEF Proceed
    <3>3. CASE cfg.kind = "bicgstab"
      BY <3>3, <1>10, BiCGStabCalls DEF Proceed
    <3>. QED
      BY <3>1, <3>2, <3>3, Parameters
  <2>. DEFINE t == SetNewDefect(cfg, s, r)
  <2>2. n.ctl = t
    BY <2>1 DEF Loop, OnFrom, ApplyPrecond, To
  <2>3. r \in Int
    <3>1. r \in Value
      BY <1>10 DEF NormCall
    <3>. QED
      BY <3>1, Values
  <2>4. t.num_iter = s.num_iter /\ t.def_cur = r
    BY <2>3, <1>1, <1>10, Measured DEF Told
  <2>. QED
    BY <2>2, <2>4, <1>10 DEF IterationAt, NormCall
<1>11. CASE op = "half"
  <2>1. n = HalfWay(s, r)
    <3>1. cfg.kind = "bicgstab"
      BY <1>1, <1>11, CallsOf, Parameters
    <3>. QED
      BY <3>1, <1>11, BiCGStabCalls DEF Proceed
  <2>2. ASSUME NEW cur \in Int, NEW st
        PROVE  LET t == [[s EXCEPT !.num_iter = @ + 1, !.def_prev = s.def_cur, !.def_cur = cur]
                           EXCEPT !.status = st]
               IN  t.status = st /\ t.num_iter = s.num_iter + 1 /\ t.def_cur = cur
    <3>1. s.num_iter + 1 \in Nat
      BY <1>1 DEF Control
    <3>. QED
      BY <3>1, <1>1 DEF Control
  <2>3. r \in Int /\ s.def_cur \in Int
    <3>1. r \in Value
      BY <1>11 DEF NormCall
    <3>. QED
      BY <3>1, <1>1, Values DEF Control
  <2>4. n.ctl.num_iter = s.num_iter + 1 /\ n.ctl.def_cur = r
    <3>1. CASE ~IsFinite(r)
      <4>1. n.ctl = [[s EXCEPT !.num_iter = @ + 1, !.def_prev = s.def_cur, !.def_cur = s.def_cur]
                       EXCEPT !.status = "aborted"]
        BY <2>1, <3>1 DEF HalfWay, Return, To
      <4>2. n.ctl.status = "aborted"
        BY <4>1, <2>2, <2>3
      <4>. QED
        BY <4>2
    <3>2. CASE IsFinite(r)
      BY <2>1, <2>2, <2>3, <3>2, <1>3 DEF HalfWay, Return, To
    <3>. QED
      BY <3>1, <3>2
  <2>. QED
    BY <2>4, <1>11 DEF IterationAt, NormCall
<1>. QED
  BY <1>8, <1>9, <1>10, <1>11 DEF NormCall

(***************************************************************************)
(* All processes: what has been seen belongs to the history as well.       *)
(***************************************************************************)
SeenAt(p, k, g) == SeenAfter(trail[k].ctl, trail[k].op, g, res[k], After(p, k))

\* h[k] are the norms that a process has seen in its k-th call.
Remembers(h) ==
  /\ IsSequence(h) /\ Len(h) = Len(trail)
  /\ Len(trail) > 0 => h[1] = <<>>
  /\ \A k \in 1 .. Len(trail) : Told(trail[k].ctl, trail[k].op, h[k])
  /\ \A k \in 1 .. Len(trail) : k < Len(trail) => \A p \in Rank : h[k + 1] = SeenAt(p, k, h[k])
  /\ \A p \in Rank :
       /\ at[p] # "idle" => seen[p] = h[pos[p]]
       /\ at[p] = "idle" => seen[p] = IF pos[p] = 0 THEN <<>> ELSE SeenAt(p, pos[p], h[pos[p]])

NormsAreNorms == \A k \in 1 .. Len(res) : trail[k].op \in NormCall => res[k] \in Value

\* The last call of the history is that of some process.
SomeoneIsLast == \E p \in Rank : pos[p] = Len(trail)

Memory == DOMAIN seen = Rank /\ NormsAreNorms /\ SomeoneIsLast /\ \E h : Remembers(h)

LEMMA InitMemory == Init => Memory
<1> SUFFICES ASSUME Init PROVE Memory
  OBVIOUS
<1>1. IsSequence(<<>>) /\ Len(<<>>) = 0
  BY DEF IsSequence
<1>2. Remembers(<<>>)
  BY <1>1 DEF Init, Remembers
<1>3. SomeoneIsLast
  BY SolverAssumption DEF Init, SomeoneIsLast
<1>. QED
  BY <1>2, <1>3 DEF Init, Memory, NormsAreNorms

LEMMA SeenAtNext ==
  ASSUME cfg' = cfg, NEW q \in Rank, NEW k, NEW g
  PROVE  SeenAt(q, k, g)' = SeenAfter(trail'[k].ctl, trail'[k].op, g, res'[k],
                                      Proceed(q, trail'[k].ctl, trail'[k].op, res'[k]))
BY AfterNext DEF SeenAt, SeenAfter

LEMMA ToldNext ==
  ASSUME cfg' = cfg, NEW k, NEW g
  PROVE  Told(trail[k].ctl, trail[k].op, g)' <=> Told(trail'[k].ctl, trail'[k].op, g)
BY DEF Told, Calls, Awaits, Iterates, Knows, Counts, Stagnant

\* A process goes on to a call e, with the norms x.
MovesOn(p, k0, h, e, x) ==
  /\ pos[p] = k0 /\ pos'[p] = k0 + 1 /\ at'[p] # "idle"
  /\ DOMAIN seen' = Rank /\ seen'[p] = x
  /\ \A q \in Rank \ {p} : at'[q] = at[q] /\ pos'[q] = pos[q] /\ seen'[q] = seen[q]
  /\ trail' = IF k0 < Len(trail) THEN trail ELSE Append(trail, e)
  /\ cfg' = cfg
  /\ Len(res) <= Len(res') /\ Len(res') <= Len(trail) /\ k0 <= Len(res')
  /\ \A k \in 1 .. Len(res) : res'[k] = res[k]
  /\ NormsAreNorms'
  /\ Told(e.ctl, e.op, x)
  /\ k0 = 0 => x = <<>>
  /\ k0 > 0 => x = SeenAfter(trail[k0].ctl, trail[k0].op, h[k0], res'[k0],
                             Proceed(p, trail[k0].ctl, trail[k0].op, res'[k0]))

LEMMA MovesOnMemory ==
  ASSUME Inv, Inv', Memory, NEW p \in Rank, NEW k0 \in Nat, NEW h, Remembers(h), NEW e, NEW x,
         MovesOn(p, k0, h, e, x)
  PROVE  Memory'
<1>m. /\ pos[p] = k0 /\ pos'[p] = k0 + 1 /\ at'[p] # "idle"
      /\ DOMAIN seen' = Rank /\ seen'[p] = x
      /\ \A q \in Rank \ {p} : at'[q] = at[q] /\ pos'[q] = pos[q] /\ seen'[q] = seen[q]
      /\ trail' = IF k0 < Len(trail) THEN trail ELSE Append(trail, e)
      /\ Len(res) <= Len(res') /\ Len(res') <= Len(trail) /\ k0 <= Len(res')
      /\ \A k \in 1 .. Len(res) : res'[k] = res[k]
      /\ Told(e.ctl, e.op, x)
      /\ k0 = 0 => x = <<>>
      /\ k0 > 0 => x = SeenAfter(trail[k0].ctl, trail[k0].op, h[k0], res'[k0],
                                 Proceed(p, trail[k0].ctl, trail[k0].op, res'[k0]))
  BY DEF MovesOn
<1>. PICK g : g = IF k0 < Len(trail) THEN h ELSE Append(h, x)
  OBVIOUS
<1>0. /\ Len(trail) \in Nat /\ Len(res) \in Nat /\ Len(res') \in Nat /\ k0 <= Len(trail)
      /\ IsSequence(trail) /\ IsSequence(h) /\ Len(h) = Len(trail)
  <2>1. IsSequence(trail) /\ IsSequence(h) /\ Len(h) = Len(trail) /\ k0 <= Len(trail)
    BY <1>m DEF Inv, Shape, Remembers
  <2>2. Len(trail) \in Nat
    BY <2>1 DEF IsSequence
  <2>3. Len(res) \in Nat
    BY DEF Inv, Shape, IsSequence
  <2>4. Len(res') \in Nat
    BY DEF Inv, Shape, IsSequence
  <2>. QED
    BY <2>1, <2>2, <2>3, <2>4
<1>a. cfg' = cfg
  BY DEF MovesOn
<1>1. /\ \A k \in 1 .. Len(trail) : trail'[k] = trail[k] /\ g[k] = h[k]
      /\ IsSequence(g) /\ Len(g) = Len(trail') /\ Len(trail') \in Nat
      /\ k0 < Len(trail) => trail' = trail /\ g = h
      /\ k0 = Len(trail) => Len(trail') = k0 + 1 /\ trail'[k0 + 1] = e /\ g[k0 + 1] = x
  <2>1. CASE k0 < Len(trail)
    BY <1>m, <2>1, <1>0
  <2>2. CASE k0 = Len(trail)
    <3>1. trail' = Append(trail, e) /\ g = Append(h, x)
      BY <1>m, <2>2, <1>0
    <3>. QED
      BY <1>m, <3>1, <2>2, <1>0, Appended
  <2>. QED
    BY <1>m, <2>1, <2>2, <1>0
<1>2. ASSUME NEW q \in Rank, NEW k \in 1 .. Len(trail), k <= Len(res)
      PROVE  SeenAt(q, k, g[k])' = SeenAt(q, k, h[k])
  <2>1. trail'[k] = trail[k] /\ res'[k] = res[k] /\ g[k] = h[k]
    BY <1>m, <1>0, <1>1, <1>2
  <2>2. SeenAt(q, k, g[k])' = SeenAfter(trail'[k].ctl, trail'[k].op, g[k], res'[k],
                                        Proceed(q, trail'[k].ctl, trail'[k].op, res'[k]))
    BY <1>a, SeenAtNext
  <2>3. SeenAt(q, k, h[k]) = SeenAfter(trail[k].ctl, trail[k].op, h[k], res[k],
                                       Proceed(q, trail[k].ctl, trail[k].op, res[k]))
    BY DEF SeenAt, After
  <2>. QED
    BY <1>m, <2>1, <2>2, <2>3
<1>3. k0 > 0 => \A q \in Rank : SeenAt(q, k0, g[k0])' = x
  <2> SUFFICES ASSUME k0 > 0, NEW q \in Rank PROVE SeenAt(q, k0, g[k0])' = x
    OBVIOUS
  <2>1. trail'[k0] = trail[k0] /\ g[k0] = h[k0]
    BY <1>m, <1>0, <1>1
  <2>2. Proceed(q, trail[k0].ctl, trail[k0].op, res'[k0])
          = Proceed(p, trail[k0].ctl, trail[k0].op, res'[k0])
    BY <1>m, SameLoops DEF Inv, Shape
  <2>3. SeenAt(q, k0, g[k0])' = SeenAfter(trail'[k0].ctl, trail'[k0].op, g[k0], res'[k0],
                                          Proceed(q, trail'[k0].ctl, trail'[k0].op, res'[k0]))
    BY <1>a, SeenAtNext
  <2>. QED
    BY <1>m, <2>1, <2>2, <2>3
<1>4. g[k0 + 1] = x
  <2>1. CASE k0 = Len(trail)
    BY <1>m, <2>1, <1>1
  <2>2. CASE k0 < Len(trail) /\ k0 = 0
    BY <1>m, <2>2, <1>0, <1>1 DEF Remembers
  <2>3. CASE k0 < Len(trail) /\ k0 > 0
    <3>1. k0 \in 1 .. Len(trail) /\ k0 <= Len(res)
      BY <1>m, <2>3, <1>0, OldResults
    <3>2. h[k0 + 1] = SeenAt(p, k0, h[k0])
      BY <1>m, <2>3, <3>1 DEF Remembers
    <3>. QED
      BY <1>m, <2>3, <3>1, <3>2, <1>1, <1>2, <1>3
  <2>. QED
    BY <1>m, <2>1, <2>2, <2>3, <1>0
<1>5. ASSUME NEW k \in 1 .. Len(trail')
      PROVE  Told(trail[k].ctl, trail[k].op, g[k])'
  <2>1. CASE k \in 1 .. Len(trail)
    <3>1. Told(trail[k].ctl, trail[k].op, h[k]) /\ trail'[k] = trail[k] /\ g[k] = h[k]
      BY <1>m, <2>1, <1>1 DEF Remembers
    <3>. QED
      BY <1>a, <3>1, ToldNext
  <2>2. CASE k0 = Len(trail) /\ k = k0 + 1
    <3>1. Told(trail'[k].ctl, trail'[k].op, g[k])
      BY <1>m, <2>2, <1>1
    <3>. QED
      BY <1>a, <3>1, ToldNext
  <2>. QED
    BY <1>m, <2>1, <2>2, <1>0, <1>1
<1>6. ASSUME NEW k \in 1 .. Len(trail'), k < Len(trail'), NEW q \in Rank
      PROVE  g[k + 1] = SeenAt(q, k, g[k])'
  <2>1. CASE k < Len(trail)
    <3>1. k \in 1 .. Len(trail) /\ k + 1 \in 1 .. Len(trail) /\ k <= Len(res)
      BY <1>m, <2>1, <1>0, OldResults
    <3>2. h[k + 1] = SeenAt(q, k, h[k])
      BY <1>m, <2>1, <3>1 DEF Remembers
    <3>. QED
      BY <1>m, <3>1, <3>2, <1>1, <1>2
  <2>2. CASE k = Len(trail) /\ k0 = Len(trail)
    BY <1>m, <2>2, <1>0, <1>3, <1>4
  <2>. QED
    BY <1>m, <2>1, <2>2, <1>0, <1>1, <1>6
<1>7. ASSUME NEW q \in Rank
      PROVE  /\ at'[q] # "idle" => seen'[q] = g[pos'[q]]
             /\ at'[q] = "idle" =>
                  seen'[q] = IF pos'[q] = 0 THEN <<>> ELSE SeenAt(q, pos[q], g[pos[q]])'
  <2>1. CASE q = p
    BY <1>m, <2>1, <1>4
  <2>2. CASE q # p
    <3>1. /\ at'[q] = at[q] /\ pos'[q] = pos[q] /\ seen'[q] = seen[q]
          /\ pos[q] \in Nat /\ pos[q] <= Len(trail) /\ InHistory(q)
      BY <1>m, <2>2 DEF Inv, Shape
    <3>2. CASE at[q] # "idle"
      <4>1. pos[q] \in 1 .. Len(trail)
        BY <1>m, <3>1, <3>2, <1>0 DEF InHistory
      <4>2. seen[q] = h[pos[q]] /\ g[pos[q]] = h[pos[q]]
        BY <1>m, <4>1, <3>2, <1>1 DEF Remembers
      <4>. QED
        BY <1>m, <3>1, <3>2, <4>2
    <3>3. CASE at[q] = "idle" /\ pos[q] = 0
      BY <1>m, <3>1, <3>3 DEF Remembers
    <3>4. CASE at[q] = "idle" /\ pos[q] > 0
      <4>1. PICK k \in 1 .. Len(trail) : pos[q] = k /\ pos'[q] = k /\ k <= Len(res)
        BY <1>m, <3>1, <3>4, <1>0 DEF InHistory
      <4>2. seen[q] = SeenAt(q, k, h[k])
        BY <1>m, <3>4, <4>1 DEF Remembers
      <4>3. seen'[q] = SeenAt(q, k, g[k])'
        BY <1>m, <4>1, <4>2, <3>1, <1>2
      <4>4. SeenAt(q, pos[q], g[pos[q]])' = SeenAt(q, k, g[k])'
        BY <1>m, <4>1 DEF SeenAt, After
      <4>5. k # 0 /\ at'[q] = "idle" /\ pos'[q] = k
        BY <1>m, <4>1, <3>1, <3>4
      <4>. QED
        BY <1>m, <4>3, <4>4, <4>5
    <3>5. pos[q] = 0 \/ pos[q] > 0
      BY <3>1
    <3>. QED
      BY <3>2, <3>3, <3>4, <3>5, Zenon
  <2>. QED
    BY <1>m, <2>1, <2>2
<1>8. Remembers(g)'
  <2>1. Len(trail') > 0 => g[1] = <<>>
    <3>1. CASE Len(trail) > 0
      BY <1>m, <3>1, <1>0, <1>1 DEF Remembers
    <3>2. CASE Len(trail) = 0
      BY <1>m, <3>2, <1>0, <1>4
    <3>. QED
      BY <1>m, <3>1, <3>2, <1>0
  <2>. QED
    BY <1>m, <2>1, <1>1, <1>5, <1>6, <1>7 DEF Remembers
<1>9. SomeoneIsLast'
  <2>1. CASE k0 = Len(trail)
    BY <1>m, <2>1, <1>1 DEF SomeoneIsLast
  <2>2. CASE k0 < Len(trail)
    <3>1. PICK q \in Rank : pos[q] = Len(trail)
      BY <1>m DEF Memory, SomeoneIsLast
    <3>2. q # p /\ trail' = trail
      BY <1>m, <2>2, <3>1, <1>0, <1>1
    <3>. QED
      BY <1>m, <3>1, <3>2 DEF SomeoneIsLast
  <2>. QED
    BY <1>m, <2>1, <2>2, <1>0
<1>. QED
  BY <1>m, <1>8, <1>9 DEF Memory, MovesOn

\* What has been seen after a call goes by the rule.
LEMMA Continues ==
  ASSUME Inv, NEW p \in Rank, NEW h, Remembers(h), NEW k \in 1 .. Len(trail), NEW r,
         trail[k].op \in NormCall => r \in Value
  PROVE  Right(trail[k].ctl, trail[k].op, h[k], r, Proceed(p, trail[k].ctl, trail[k].op, r))
BY EveryCall DEF Inv, Shape, Remembers

LEMMA NewReturned == cfg \in Config => Returned(NewControl, <<>>) /\ "defect" \in Calls
<1>1. NewControl \in Control /\ NewControl.status # "progress"
  BY DEF NewControl, Control, Status
<1>2. cfg \in Config => "defect" \in Calls
  BY CallsOf, Parameters
<1>. QED
  BY <1>1, <1>2 DEF Returned

LEMMA IdleReturned ==
  ASSUME Inv, Memory, NEW p \in Rank, at[p] = "idle"
  PROVE  Returned(ctl[p], seen[p])
<1>1. PICK h : Remembers(h)
  BY DEF Memory
<1>2. PICK k \in Nat : pos[p] = k
  BY DEF Inv, Shape
<1>3. CASE k = 0
  BY <1>1, <1>2, <1>3, NewReturned DEF Inv, InHistory, Remembers, Shape
<1>4. CASE k > 0
  <2>1. /\ k <= Len(res) /\ k \in 1 .. Len(trail) /\ k \in 1 .. Len(res)
        /\ After(p, k).at = "idle" /\ ctl[p] = After(p, k).ctl
    BY <1>2, <1>4 DEF Inv, InHistory, Shape, IsSequence
  <2>2. seen[p] = SeenAt(p, k, h[k])
    BY <1>1, <1>2, <1>4 DEF Remembers
  <2>3. trail[k].op \in NormCall => res[k] \in Value
    BY <2>1 DEF Memory, NormsAreNorms
  <2>4. Right(trail[k].ctl, trail[k].op, h[k], res[k], After(p, k))
    BY <1>1, <2>1, <2>3, Continues DEF After
  <2>. QED
    BY <2>1, <2>2, <2>4 DEF Right, SeenAt
<1>. QED
  BY <1>3, <1>4

LEMMA CorrectMemory ==
  ASSUME Inv, Inv', Memory, NEW p \in Rank, Correct(p)
  PROVE  Memory'
<1>1. PICK k0 \in Nat : pos[p] = k0
  BY DEF Inv, Shape
<1>2. PICK h : Remembers(h)
  BY DEF Memory
<1>3. PICK x : x = seen[p]
  OBVIOUS
<1>4. PICK e : e = [op |-> "defect", ctl |-> ctl[p], solve |-> solves[p] + 1]
  OBVIOUS
<1>5. /\ at[p] = "idle" /\ cfg' = cfg /\ res' = res /\ seen' = seen
      /\ Enter(p, ctl[p], "defect", solves[p] + 1)
  BY DEF Correct
<1>6. /\ DOMAIN at = Rank /\ DOMAIN pos = Rank /\ DOMAIN seen = Rank
      /\ Len(res) \in Nat /\ Len(trail) \in Nat /\ Len(res) <= Len(trail) /\ k0 <= Len(trail)
      /\ IsSequence(trail)
  BY <1>1 DEF Inv, Shape, Memory, IsSequence
<1>7. /\ at' = [at EXCEPT ![p] = "defect"] /\ pos' = [pos EXCEPT ![p] = @ + 1]
      /\ trail' = IF k0 < Len(trail) THEN trail ELSE Append(trail, e)
  BY <1>1, <1>4, <1>5 DEF Enter
<1>8. Told(e.ctl, e.op, x)
  <2>1. Returned(ctl[p], seen[p])
    BY <1>5, IdleReturned
  <2>2. "defect" \in Calls
    BY NewReturned DEF Inv, Shape
  <2>. QED
    BY <2>1, <2>2, <1>3, <1>4 DEF Returned, Told, Beginning
<1>9. k0 = 0 => x = <<>>
  BY <1>1, <1>2, <1>3, <1>5 DEF Remembers
<1>10. k0 > 0 => /\ k0 <= Len(res)
                 /\ x = SeenAfter(trail[k0].ctl, trail[k0].op, h[k0], res'[k0],
                                  Proceed(p, trail[k0].ctl, trail[k0].op, res'[k0]))
  BY <1>1, <1>2, <1>3, <1>5 DEF Remembers, SeenAt, After, Inv, InHistory
<1>11. NormsAreNorms'
  <2>1. \A k \in 1 .. Len(trail) : trail'[k] = trail[k]
    BY <1>6, <1>7, Appended
  <2>. QED
    BY <2>1, <1>5, <1>6 DEF NormsAreNorms, Memory
<1>12. /\ pos'[p] = k0 + 1 /\ at'[p] # "idle" /\ DOMAIN seen' = Rank /\ seen'[p] = x
       /\ \A q \in Rank \ {p} : at'[q] = at[q] /\ pos'[q] = pos[q] /\ seen'[q] = seen[q]
  BY <1>1, <1>3, <1>5, <1>6, <1>7
<1>13. MovesOn(p, k0, h, e, x)
  BY <1>1, <1>5, <1>6, <1>7, <1>8, <1>9, <1>10, <1>11, <1>12 DEF MovesOn
<1>. QED
  BY <1>2, <1>13, MovesOnMemory

LEMMA CompleteMemory ==
  ASSUME Inv, Inv', Memory, NEW p \in Rank, Complete(p)
  PROVE  Memory'
<1>1. PICK k0 \in Nat : \E r, n : Answer(p, r, n, k0)
  BY Answered
<1>2. PICK r, n : Answer(p, r, n, k0)
  BY <1>1
<1>3. PICK h : Remembers(h)
  BY DEF Memory
<1>4. PICK x : x = Seen(p, r, n)
  OBVIOUS
<1>5. PICK e : e = [op |-> n.at, ctl |-> n.ctl, solve |-> solves[p]]
  OBVIOUS
<1>6. /\ at[p] # "idle" /\ k0 > 0 /\ pos[p] = k0 /\ trail[k0] = Call(p) /\ k0 <= Len(trail)
      /\ cfg' = cfg
      /\ IsSequence(res') /\ Len(res) <= Len(res') /\ Len(res') <= Len(trail)
      /\ \A k \in 1 .. Len(res) : res'[k] = res[k]
      /\ k0 <= Len(res') /\ res'[k0] = r
      /\ Len(res') # Len(res) => Len(res') = k0 /\ r \in Answers(p)
      /\ n = Proceed(p, trail[k0].ctl, trail[k0].op, r)
      /\ Enter(p, n.ctl, n.at, solves[p])
      /\ seen' = [seen EXCEPT ![p] = x]
  BY <1>2, <1>4 DEF Answer
<1>7. /\ DOMAIN at = Rank /\ DOMAIN pos = Rank /\ DOMAIN seen = Rank
      /\ Len(res) \in Nat /\ Len(res') \in Nat /\ Len(trail) \in Nat /\ k0 \in 1 .. Len(trail)
      /\ IsSequence(trail)
  <2>1. DOMAIN at = Rank /\ DOMAIN pos = Rank /\ DOMAIN seen = Rank /\ IsSequence(trail)
    BY DEF Inv, Shape, Memory
  <2>2. Len(res) \in Nat /\ Len(trail) \in Nat
    BY DEF Inv, Shape, IsSequence
  <2>3. Len(res') \in Nat
    BY <1>6 DEF IsSequence
  <2>. QED
    BY <2>1, <2>2, <2>3, <1>6
<1>8. trail[k0].op = at[p] /\ trail[k0].ctl = ctl[p] /\ seen[p] = h[k0]
  BY <1>3, <1>6 DEF Call, Remembers
<1>9. x = SeenAfter(trail[k0].ctl, trail[k0].op, h[k0], r, n)
  BY <1>4, <1>8 DEF Seen, SeenAfter
<1>10. \A k \in 1 .. Len(trail) : trail'[k] = trail[k]
  <2>1. trail' = trail \/ trail' = Append(trail, e)
    BY <1>5, <1>6 DEF Enter
  <2>. QED
    BY <2>1, <1>7, Appended
<1>11. NormsAreNorms'
  <2> SUFFICES ASSUME NEW k \in 1 .. Len(res'), trail[k].op \in NormCall
               PROVE  res'[k] \in Value
    BY <1>6, <1>7, <1>10 DEF NormsAreNorms
  <2>1. CASE k \in 1 .. Len(res)
    BY <2>1, <1>6 DEF Memory, NormsAreNorms
  <2>2. CASE k = k0 /\ r \in Answers(p)
    <3>1. at[p] \in NormCall /\ at[p] \notin {"omega", "beta"} \cup StatusCall
      BY <2>2, <1>8 DEF NormCall, StatusCall
    <3>2. Answers(p) = Value
      BY <3>1 DEF Answers, Value
    <3>. QED
      BY <2>2, <3>2, <1>6
  <2>3. k \in 1 .. Len(res) \/ (Len(res') # Len(res) /\ k > Len(res))
    BY <1>7
  <2>4. k = k0 \/ k \in 1 .. Len(res)
    <3>1. CASE k > Len(res) /\ Len(res') = k0
      <4>1. k0 = Len(trail) \/ k0 < Len(trail)
        BY <1>7
      <4>2. CASE k < k0
        <5>1. k \in 1 .. Len(trail) /\ k < Len(trail)
          BY <4>2, <1>7
        <5>. QED
          BY <5>1, OldResults
      <4>. QED
        BY <3>1, <4>2, <1>7
    <3>. QED
      BY <3>1, <2>3, <1>6
  <2>. QED
    BY <2>1, <2>2, <2>3, <2>4, <1>6, <1>7
<1>12. Right(trail[k0].ctl, trail[k0].op, h[k0], r, n)
  <2>1. trail[k0].op \in NormCall => r \in Value
    BY <1>6, <1>7, <1>10, <1>11 DEF NormsAreNorms
  <2>. QED
    BY <2>1, <1>3, <1>6, <1>7, Continues
<1>13. CASE n.at # "idle"
  <2>1. /\ at' = [at EXCEPT ![p] = n.at] /\ pos' = [pos EXCEPT ![p] = @ + 1]
        /\ trail' = IF k0 < Len(trail) THEN trail ELSE Append(trail, e)
    BY <1>5, <1>6, <1>13 DEF Enter
  <2>2. Told(e.ctl, e.op, x)
    BY <1>5, <1>9, <1>12, <1>13 DEF Right
  <2>3. /\ pos'[p] = k0 + 1 /\ at'[p] # "idle" /\ DOMAIN seen' = Rank /\ seen'[p] = x
        /\ \A q \in Rank \ {p} : at'[q] = at[q] /\ pos'[q] = pos[q] /\ seen'[q] = seen[q]
    BY <2>1, <1>6, <1>7, <1>13
  <2>4. MovesOn(p, k0, h, e, x)
    BY <2>1, <2>2, <2>3, <1>6, <1>9, <1>11 DEF MovesOn
  <2>. QED
    BY <2>4, <1>3, MovesOnMemory
<1>14. CASE n.at = "idle"
  <2>1. at' = [at EXCEPT ![p] = "idle"] /\ pos' = pos /\ trail' = trail
    BY <1>6, <1>14 DEF Enter
  <2>2. ASSUME NEW q \in Rank, NEW k \in 1 .. Len(trail), k <= Len(res)
        PROVE  SeenAt(q, k, h[k])' = SeenAt(q, k, h[k])
    <3>1. trail'[k] = trail[k] /\ res'[k] = res[k]
      BY <2>1, <2>2, <1>6, <1>7
    <3>2. SeenAt(q, k, h[k])' = SeenAfter(trail'[k].ctl, trail'[k].op, h[k], res'[k],
                                          Proceed(q, trail'[k].ctl, trail'[k].op, res'[k]))
      BY <1>6, SeenAtNext
    <3>3. SeenAt(q, k, h[k]) = SeenAfter(trail[k].ctl, trail[k].op, h[k], res[k],
                                         Proceed(q, trail[k].ctl, trail[k].op, res[k]))
      BY DEF SeenAt, After
    <3>. QED
      BY <3>1, <3>2, <3>3
  <2>3. ASSUME NEW k \in 1 .. Len(trail)
        PROVE  Told(trail[k].ctl, trail[k].op, h[k])'
    <3>1. Told(trail'[k].ctl, trail'[k].op, h[k])
      BY <2>1, <1>3 DEF Remembers
    <3>. QED
      BY <3>1, <1>6, ToldNext
  <2>4. ASSUME NEW k \in 1 .. Len(trail), k < Len(trail), NEW q \in Rank
        PROVE  h[k + 1] = SeenAt(q, k, h[k])'
    <3>1. k <= Len(res)
      BY <2>4, OldResults
    <3>2. h[k + 1] = SeenAt(q, k, h[k])
      BY <2>4, <1>3 DEF Remembers
    <3>. QED
      BY <3>1, <3>2, <2>2
  <2>5. ASSUME NEW q \in Rank
        PROVE  /\ at'[q] # "idle" => seen'[q] = h[pos'[q]]
               /\ at'[q] = "idle" =>
                    seen'[q] = IF pos'[q] = 0 THEN <<>> ELSE SeenAt(q, pos[q], h[pos[q]])'
    <3>1. CASE q = p
      <4>1. SeenAt(p, k0, h[k0])' = x
        <5>1. SeenAt(p, k0, h[k0])' = SeenAfter(trail'[k0].ctl, trail'[k0].op, h[k0], res'[k0],
                                                Proceed(p, trail'[k0].ctl, trail'[k0].op, res'[k0]))
          BY <1>6, SeenAtNext
        <5>. QED
          BY <5>1, <2>1, <1>6, <1>9
      <4>2. SeenAt(p, pos[p], h[pos[p]])' = SeenAt(p, k0, h[k0])'
        BY <2>1, <1>6 DEF SeenAt, After
      <4>3. seen'[p] = x /\ at'[p] = "idle" /\ pos'[p] # 0
        BY <2>1, <1>6, <1>7
      <4>. QED
        BY <3>1, <4>1, <4>2, <4>3
    <3>2. CASE q # p
      <4>1. /\ at'[q] = at[q] /\ pos'[q] = pos[q] /\ seen'[q] = seen[q]
            /\ pos[q] \in Nat /\ pos[q] <= Len(trail) /\ InHistory(q)
        BY <2>1, <3>2, <1>6, <1>7 DEF Inv, Shape
      <4>2. CASE at[q] # "idle" \/ pos[q] = 0
        BY <4>1, <4>2, <1>3 DEF Remembers
      <4>3. CASE at[q] = "idle" /\ pos[q] > 0
        <5>1. PICK k \in 1 .. Len(trail) : pos[q] = k /\ pos'[q] = k /\ k <= Len(res)
          BY <4>1, <4>3, <1>7 DEF InHistory
        <5>2. seen[q] = SeenAt(q, k, h[k])
          BY <4>3, <5>1, <1>3 DEF Remembers
        <5>3. seen'[q] = SeenAt(q, k, h[k])'
          BY <4>1, <5>1, <5>2, <2>2
        <5>4. SeenAt(q, pos[q], h[pos[q]])' = SeenAt(q, k, h[k])'
          BY <5>1 DEF SeenAt, After
        <5>5. k # 0 /\ at'[q] = "idle" /\ pos'[q] = k
          BY <5>1, <4>1, <4>3
        <5>. QED
          BY <5>3, <5>4, <5>5
      <4>4. pos[q] = 0 \/ pos[q] > 0
        BY <4>1
      <4>. QED
        BY <4>2, <4>3, <4>4, Zenon
    <3>. QED
      BY <3>1, <3>2
  <2>6. Remembers(h)'
    BY <2>1, <2>3, <2>4, <2>5, <1>3 DEF Remembers
  <2>7. SomeoneIsLast'
    BY <2>1 DEF SomeoneIsLast, Memory
  <2>8. DOMAIN seen' = Rank
    BY <1>6, <1>7
  <2>. QED
    BY <2>6, <2>7, <2>8, <1>11 DEF Memory
<1>. QED
  BY <1>13, <1>14

LEMMA NextMemory == Inv /\ Inv' /\ Memory /\ [Next]_vars => Memory'
<1> SUFFICES ASSUME Inv, Inv', Memory, [Next]_vars PROVE Memory'
  OBVIOUS
<1>1. ASSUME NEW p \in Rank, Correct(p) PROVE Memory'
  BY <1>1, CorrectMemory
<1>2. ASSUME NEW p \in Rank, Complete(p) PROVE Memory'
  BY <1>2, CompleteMemory
<1>3. CASE UNCHANGED vars
  <2>0. /\ cfg' = cfg /\ trail' = trail /\ res' = res /\ seen' = seen /\ at' = at /\ pos' = pos
    BY <1>3 DEF vars
  <2>1. PICK h : Remembers(h)
    BY DEF Memory
  <2>2. ASSUME NEW q \in Rank, NEW k, NEW g PROVE SeenAt(q, k, g)' = SeenAt(q, k, g)
    <3>1. SeenAt(q, k, g)' = SeenAfter(trail'[k].ctl, trail'[k].op, g, res'[k],
                                       Proceed(q, trail'[k].ctl, trail'[k].op, res'[k]))
      BY <2>0, SeenAtNext
    <3>. QED
      BY <3>1, <2>0 DEF SeenAt, After
  <2>3. ASSUME NEW k, NEW g PROVE Told(trail[k].ctl, trail[k].op, g)' <=> Told(trail[k].ctl, trail[k].op, g)
    BY <2>0, ToldNext
  <2>4. Remembers(h)'
    <3>1. ASSUME NEW q \in Rank
          PROVE  SeenAt(q, pos[q], h[pos[q]])' = SeenAt(q, pos[q], h[pos[q]])
      <4>1. PICK k : pos[q] = k /\ pos'[q] = k
        BY <2>0
      <4>2. SeenAt(q, pos[q], h[pos[q]])' = SeenAt(q, k, h[k])'
        BY <4>1 DEF SeenAt, After
      <4>. QED
        BY <4>1, <4>2, <2>2
    <3>2. \A q \in Rank : \A k : SeenAt(q, k, h[k])' = SeenAt(q, k, h[k])
      BY <2>2
    <3>3. \A k : Told(trail[k].ctl, trail[k].op, h[k])' <=> Told(trail[k].ctl, trail[k].op, h[k])
      BY <2>3
    <3>. QED
      BY <3>1, <3>2, <3>3, <2>0, <2>1 DEF Remembers
  <2>. QED
    BY <2>0, <2>4 DEF Memory, NormsAreNorms, SomeoneIsLast
<1>. QED
  BY <1>1, <1>2, <1>3 DEF Next, Step

\* The status of a solve is about a norm that has been computed in its last iteration:
\* unless the parameters permit it, no solver returns with an old one.
THEOREM VerdictsAreFresh == Spec => []DefectIsFresh
<1>1. Inv /\ Memory => DefectIsFresh
  <2> SUFFICES ASSUME Inv, Memory, NEW p \in Rank, at[p] = "idle",
                      ctl[p].status \notin {"undefined", "aborted"}, ~MaySkip
               PROVE  Computed(p)
    BY DEF DefectIsFresh
  <2>1. PICK h : Remembers(h)
    BY DEF Memory
  <2>2. PICK k \in Nat : pos[p] = k
    BY DEF Inv, Shape
  <2>3. k > 0
    BY <2>2 DEF Inv, InHistory, NewControl
  <2>4. /\ k \in 1 .. Len(res) /\ k \in 1 .. Len(trail)
        /\ After(p, k).at = "idle" /\ ctl[p] = After(p, k).ctl
    BY <2>2, <2>3 DEF Inv, InHistory, Shape, IsSequence
  <2>5. Told(trail[k].ctl, trail[k].op, h[k]) /\ (trail[k].op \in NormCall => res[k] \in Value)
    BY <2>1, <2>4 DEF Remembers, Memory, NormsAreNorms
  <2>6. /\ trail[k].op \in NormCall /\ res[k] = ctl[p].def_cur
        /\ IterationAt(trail[k].op, trail[k].ctl) = ctl[p].num_iter
    BY <2>4, <2>5, VerdictOnNorm DEF After, Inv, Shape
  <2>7. IterationOf(k) = ctl[p].num_iter
    BY <2>6 DEF IterationOf, IterationAt
  <2>8. \A j \in k + 1 .. pos[p] : FALSE
    BY <2>2
  <2>. QED
    BY <2>2, <2>4, <2>6, <2>7, <2>8 DEF Computed
<1>. QED
  BY <1>1, InitInv, NextInv, InitMemory, NextMemory, PTL DEF Spec

----------------------------------------------------------------------------
(* The refinement of StoppingRule.  The verdict is that of a process which *)
(* has made the last call of the history, or has returned from it if any   *)
(* has.                                                                    *)
IsLast(p) ==
  /\ p \in Rank /\ pos[p] = Len(trail)
  /\ at[p] = "idle" \/ \A q \in Rank : pos[q] = Len(trail) => at[q] # "idle"

LEMMA SolvesOf ==
  ASSUME Inv, NEW p \in Rank
  PROVE  /\ pos[p] \in Nat /\ pos[p] <= Len(trail) /\ solves[p] \in Nat /\ Len(trail) \in Nat
         /\ pos[p] = 0 => solves[p] = 0
         /\ pos[p] > 0 => solves[p] = trail[pos[p]].solve
<1>1. /\ pos[p] \in Nat /\ pos[p] <= Len(trail) /\ solves[p] \in Nat /\ Len(trail) \in Nat
      /\ InHistory(p)
  BY DEF Inv, Shape, IsSequence
<1>. QED
  BY <1>1 DEF InHistory, Call

LEMMA AheadIsLast == Inv /\ Memory => \A p \in Rank : Ahead(p) <=> pos[p] = Len(trail)
<1> SUFFICES ASSUME Inv, Memory, NEW p \in Rank
             PROVE  Ahead(p) <=> pos[p] = Len(trail)
  OBVIOUS
<1>1. ASSUME NEW q \in Rank, pos[q] = Len(trail), NEW o \in Rank PROVE solves[o] <= solves[q]
  <2>1. PICK j, k \in Nat : pos[o] = j /\ pos[q] = k
    BY SolvesOf
  <2>2. j <= k /\ solves[o] \in Nat /\ solves[q] \in Nat
    BY <2>1, <1>1, SolvesOf
  <2>3. CASE j = 0
    BY <2>1, <2>2, <2>3, SolvesOf
  <2>4. CASE j > 0 /\ j < k
    <3>1. j \in 1 .. Len(trail) /\ k \in 1 .. Len(trail)
      BY <2>1, <2>4, SolvesOf
    <3>2. trail[j].solve <= trail[k].solve
      BY <3>1, <2>4 DEF Inv, SolvesInOrder
    <3>3. solves[o] = trail[j].solve /\ solves[q] = trail[k].solve
      BY <2>1, <2>4, SolvesOf
    <3>. QED
      BY <3>2, <3>3
  <2>5. CASE j > 0 /\ j = k
    <3>1. solves[o] = trail[j].solve /\ solves[q] = trail[j].solve
      BY <2>1, <2>5, SolvesOf
    <3>. QED
      BY <3>1, <2>2
  <2>. QED
    BY <2>2, <2>3, <2>4, <2>5
<1>2. ASSUME pos[p] = Len(trail) PROVE Ahead(p)
  <2> SUFFICES ASSUME NEW q \in Rank
               PROVE  solves[q] < solves[p] \/ (solves[q] = solves[p] /\ pos[q] <= pos[p])
    BY DEF Ahead
  <2>1. solves[q] <= solves[p] /\ pos[q] <= pos[p] /\ solves[q] \in Nat /\ solves[p] \in Nat
    BY <1>1, <1>2, SolvesOf
  <2>. QED
    BY <2>1
<1>3. ASSUME Ahead(p) PROVE pos[p] = Len(trail)
  <2>1. PICK q \in Rank : pos[q] = Len(trail)
    BY DEF Memory, SomeoneIsLast
  <2>2. solves[p] <= solves[q] /\ solves[p] \in Nat /\ solves[q] \in Nat
    BY <2>1, <1>1, SolvesOf
  <2>3. pos[q] <= pos[p]
    BY <2>2, <1>3 DEF Ahead
  <2>4. pos[p] \in Nat /\ Len(trail) \in Nat /\ pos[p] <= Len(trail)
    BY SolvesOf
  <2>. QED
    BY <2>1, <2>3, <2>4
<1>. QED
  BY <1>2, <1>3

LEMMA LeaderIsLast == Inv /\ Memory => IsLast(Leader)
<1> SUFFICES ASSUME Inv, Memory PROVE IsLast(Leader)
  OBVIOUS
<1>. DEFINE Leads(p) == p \in Rank /\ Ahead(p) /\ \A q \in Rank : Ahead(q) => at[p] = "idle" \/ at[q] # "idle"
<1>1. \E p : Leads(p)
  <2>1. PICK q \in Rank : pos[q] = Len(trail)
    BY DEF Memory, SomeoneIsLast
  <2>2. CASE \E p \in Rank : pos[p] = Len(trail) /\ at[p] = "idle"
    BY <2>2, AheadIsLast
  <2>3. CASE ~\E p \in Rank : pos[p] = Len(trail) /\ at[p] = "idle"
    BY <2>1, <2>3, AheadIsLast
  <2>. QED
    BY <2>2, <2>3
<1>2. Leads(Leader)
  BY <1>1 DEF Leader
<1>. QED
  BY <1>2, AheadIsLast DEF IsLast

\* Those at the end of the history have seen the same.
LastAgree ==
  \A p, q \in Rank : IsLast(p) /\ IsLast(q) => ctl[p] = ctl[q] /\ seen[p] = seen[q]

LEMMA SamePlace == Inv /\ Memory => LastAgree
<1> SUFFICES ASSUME Inv, Memory, NEW p \in Rank, NEW q \in Rank, IsLast(p), IsLast(q)
             PROVE  ctl[p] = ctl[q] /\ seen[p] = seen[q]
  BY DEF LastAgree
<1>1. PICK k \in Nat : pos[p] = k /\ pos[q] = k /\ k <= Len(trail)
  BY SolvesOf DEF IsLast
<1>2. PICK h : Remembers(h)
  BY DEF Memory
<1>3. InHistory(p) /\ InHistory(q)
  BY DEF Inv
<1>4. CASE at[p] # "idle"
  <2>1. at[q] # "idle"
    BY <1>4 DEF IsLast
  <2>2. trail[k] = Call(p) /\ trail[k] = Call(q)
    BY <2>1, <1>1, <1>3, <1>4 DEF InHistory
  <2>3. Call(p).ctl = ctl[p] /\ Call(q).ctl = ctl[q]
    BY DEF Call
  <2>. QED
    BY <2>1, <2>2, <2>3, <1>1, <1>2, <1>4 DEF Remembers
<1>5. CASE at[p] = "idle"
  <2>1. at[q] = "idle"
    BY <1>5 DEF IsLast
  <2>2. CASE k = 0
    BY <2>1, <2>2, <1>1, <1>2, <1>3, <1>5 DEF InHistory, Remembers
  <2>3. CASE k > 0
    <3>1. After(p, k) = After(q, k)
      BY SameLoops DEF After, Inv, Shape
    <3>2. seen[p] = SeenAt(p, k, h[k]) /\ seen[q] = SeenAt(q, k, h[k])
      BY <2>1, <2>3, <1>1, <1>2, <1>5 DEF Remembers
    <3>. QED
      BY <2>1, <2>3, <3>1, <3>2, <1>1, <1>3, <1>5 DEF InHistory, SeenAt
  <2>. QED
    BY <2>2, <2>3
<1>. QED
  BY <1>4, <1>5

\* What a last process does is what the leader does.
LEMMA LastSteps ==
  ASSUME Inv, Memory, Inv', Memory', cfg' = cfg,
         NEW p \in Rank, IsLast(p), NEW q \in Rank, IsLast(q)',
         Obeys(seen[p], ctl[p].status, seen'[q], ctl'[q].status)
  PROVE  [Rule!Next]_(Rule!vars)
<1>1. IsLast(Leader) /\ Leader \in Rank
  BY LeaderIsLast DEF IsLast
<1>2. IsLast(Leader)'
  <2>1. Inv' /\ Memory' => IsLast(Leader)'
    BY LeaderIsLast, PTL
  <2>. QED
    BY <2>1
<1>3. seen[Leader] = seen[p] /\ ctl[Leader] = ctl[p]
  BY <1>1, SamePlace DEF LastAgree
<1>4. (seen[Leader])' = seen'[q] /\ (ctl[Leader])' = ctl'[q]
  <2>1. Inv' /\ Memory' => LastAgree'
    BY SamePlace, PTL
  <2>2. Leader' \in Rank
    BY <1>2 DEF IsLast
  <2>3. ASSUME NEW l, l = Leader' PROVE IsLast(l)'
    BY <1>2, <2>3 DEF IsLast
  <2>4. PICK l \in Rank : l = Leader'
    BY <2>2
  <2>5. IsLast(l)'
    BY <2>3, <2>4
  <2>. QED
    BY <2>1, <2>4, <2>5 DEF LastAgree
<1>. QED
  BY <1>3, <1>4 DEF Obeys

LEMMA ThereIsALast ==
  ASSUME Inv, Memory
  PROVE  \E q \in Rank : IsLast(q)
BY LeaderIsLast DEF IsLast

LEMMA CorrectObeys ==
  ASSUME Inv, Memory, Inv', Memory', NEW p \in Rank, Correct(p)
  PROVE  [Rule!Next]_(Rule!vars)
<1>1. /\ at[p] = "idle" /\ cfg' = cfg /\ seen' = seen
      /\ Enter(p, ctl[p], "defect", solves[p] + 1)
  BY DEF Correct
<1>2. PICK k \in Nat : pos[p] = k /\ k <= Len(trail) /\ Len(trail) \in Nat
  BY SolvesOf
<1>3. /\ DOMAIN at = Rank /\ DOMAIN pos = Rank /\ DOMAIN ctl = Rank /\ IsSequence(trail)
      /\ \A q \in Rank : pos[q] \in Nat /\ pos[q] <= Len(trail)
  BY DEF Inv, Shape
<1>4. PICK e : trail' = IF k < Len(trail) THEN trail ELSE Append(trail, e)
  BY <1>1, <1>2 DEF Enter
<1>5. /\ ctl' = [ctl EXCEPT ![p] = ctl[p]] /\ at' = [at EXCEPT ![p] = "defect"]
      /\ pos' = [pos EXCEPT ![p] = @ + 1]
  BY <1>1 DEF Enter
<1>6. /\ at'[p] = "defect" /\ pos'[p] = k + 1
      /\ \A q \in Rank : ctl'[q] = ctl[q] /\ (q # p => at'[q] = at[q] /\ pos'[q] = pos[q])
  BY <1>2, <1>3, <1>5
<1>7. \A q \in Rank : Obeys(seen[q], ctl[q].status, seen'[q], ctl'[q].status)
  BY <1>1, <1>6, ObeysNothing
<1>8. CASE k = Len(trail)
  <2>1. Len(trail') = k + 1
    BY <1>2, <1>3, <1>4, <1>8, Appended
  <2>2. IsLast(p)
    BY <1>1, <1>2, <1>8 DEF IsLast
  <2>3. \A q \in Rank : q # p => pos'[q] # k + 1
    BY <1>2, <1>3, <1>6, <1>8
  <2>4. IsLast(p)'
    BY <1>6, <2>1, <2>3 DEF IsLast
  <2>. QED
    BY <2>2, <2>4, <1>1, <1>7, LastSteps
<1>9. CASE k < Len(trail)
  <2>1. trail' = trail
    BY <1>4, <1>9
  <2>2. PICK q \in Rank : IsLast(q)
    BY ThereIsALast
  <2>3. q # p
    BY <2>2, <1>2, <1>9 DEF IsLast
  <2>4. IsLast(q)'
    BY <1>6, <2>1, <2>2, <2>3 DEF IsLast
  <2>. QED
    BY <2>2, <2>4, <1>1, <1>7, LastSteps
<1>. QED
  BY <1>2, <1>8, <1>9

LEMMA CompleteObeys ==
  ASSUME Inv, Memory, Inv', Memory', NEW p \in Rank, Complete(p)
  PROVE  [Rule!Next]_(Rule!vars)
<1>1. PICK k \in Nat : \E r, n : Answer(p, r, n, k)
  BY Answered
<1>2. PICK r, n : Answer(p, r, n, k)
  BY <1>1
<1>3. PICK h : Remembers(h)
  BY DEF Memory
<1>4. PICK x : x = Seen(p, r, n)
  OBVIOUS
<1>5. PICK e : e = [op |-> n.at, ctl |-> n.ctl, solve |-> solves[p]]
  OBVIOUS
<1>6. /\ at[p] # "idle" /\ k > 0 /\ pos[p] = k /\ trail[k] = Call(p) /\ k <= Len(trail)
      /\ cfg' = cfg
      /\ \A j \in 1 .. Len(res) : res'[j] = res[j]
      /\ k <= Len(res') /\ res'[k] = r
      /\ n = Proceed(p, trail[k].ctl, trail[k].op, r)
      /\ Enter(p, n.ctl, n.at, solves[p])
      /\ seen' = [seen EXCEPT ![p] = x]
  BY <1>2, <1>4 DEF Answer
<1>7. /\ DOMAIN at = Rank /\ DOMAIN pos = Rank /\ DOMAIN ctl = Rank /\ DOMAIN seen = Rank
      /\ Len(trail) \in Nat /\ Len(res) \in Nat /\ IsSequence(trail)
      /\ \A q \in Rank : pos[q] \in Nat /\ pos[q] <= Len(trail)
  BY DEF Inv, Shape, Memory, IsSequence
<1>8. trail[k].op = at[p] /\ trail[k].ctl = ctl[p] /\ seen[p] = h[k]
  BY <1>3, <1>6 DEF Call, Remembers
<1>9. x = SeenAfter(trail[k].ctl, trail[k].op, h[k], r, n)
  BY <1>4, <1>8 DEF Seen, SeenAfter
<1>10. /\ ctl' = [ctl EXCEPT ![p] = n.ctl] /\ at' = [at EXCEPT ![p] = n.at]
       /\ n.at = "idle" => pos' = pos /\ trail' = trail
       /\ n.at # "idle" => /\ pos' = [pos EXCEPT ![p] = @ + 1]
                           /\ trail' = IF k < Len(trail) THEN trail ELSE Append(trail, e)
  BY <1>5, <1>6 DEF Enter
<1>11. /\ at'[p] = n.at /\ ctl'[p] = n.ctl /\ seen'[p] = x
       /\ pos'[p] = IF n.at = "idle" THEN k ELSE k + 1
       /\ \A q \in Rank : q # p => /\ at'[q] = at[q] /\ pos'[q] = pos[q]
                                   /\ ctl'[q] = ctl[q] /\ seen'[q] = seen[q]
  BY <1>6, <1>7, <1>10
\* A process that is behind the others is not heard of.
<1>12. CASE k < Len(trail)
  <2>1. trail' = trail
    BY <1>10, <1>12
  <2>2. PICK q \in Rank : IsLast(q)
    BY ThereIsALast
  <2>3. q # p
    BY <2>2, <1>6, <1>12 DEF IsLast
  <2>4. \A o \in Rank : pos'[o] = Len(trail) /\ at'[o] = "idle" => pos[o] = Len(trail) /\ at[o] = "idle"
    BY <1>6, <1>7, <1>11, <1>12
  <2>5. IsLast(q)'
    BY <1>11, <2>1, <2>2, <2>3, <2>4 DEF IsLast
  <2>6. Obeys(seen[q], ctl[q].status, seen'[q], ctl'[q].status)
    BY <1>11, <2>3, ObeysNothing
  <2>. QED
    BY <2>2, <2>5, <2>6, <1>6, LastSteps
\* One that others have followed already says what they have said.
<1>13. CASE k = Len(trail) /\ \E q \in Rank : pos[q] = k /\ at[q] = "idle"
  <2>1. PICK q \in Rank : pos[q] = k /\ at[q] = "idle"
    BY <1>13
  <2>2. /\ IsLast(q) /\ q # p /\ k <= Len(res)
        /\ After(q, k).at = "idle" /\ ctl[q] = After(q, k).ctl
        /\ seen[q] = SeenAt(q, k, h[k])
    BY <2>1, <1>3, <1>6, <1>13 DEF IsLast, Inv, InHistory, Remembers
  <2>3. After(q, k) = n /\ res[k] = r
    <3>1. res[k] = r
      BY <2>2, <1>6, <1>7
    <3>. QED
      BY <3>1, <1>6, SameLoops DEF After, Inv, Shape
  <2>4. n.at = "idle" /\ ctl[q] = n.ctl /\ seen[q] = x
    BY <2>2, <2>3, <1>9 DEF SeenAt
  <2>5. IsLast(q)'
    BY <2>1, <2>2, <2>4, <1>10, <1>11, <1>13 DEF IsLast
  <2>6. Obeys(seen[q], ctl[q].status, seen'[q], ctl'[q].status)
    BY <1>11, <2>2, ObeysNothing
  <2>. QED
    BY <2>2, <2>5, <2>6, <1>6, LastSteps
\* The first one takes the step.
<1>14. CASE k = Len(trail) /\ ~\E q \in Rank : pos[q] = k /\ at[q] = "idle"
  <2>1. IsLast(p)
    BY <1>6, <1>14 DEF IsLast
  <2>2. IsLast(p)'
    <3>1. CASE n.at = "idle"
      BY <3>1, <1>10, <1>11, <1>14 DEF IsLast
    <3>2. CASE n.at # "idle"
      <4>1. Len(trail') = k + 1
        BY <3>2, <1>7, <1>10, <1>14, Appended
      <4>2. \A q \in Rank : q # p => pos'[q] # k + 1
        BY <1>7, <1>11, <1>14
      <4>. QED
        BY <3>2, <4>1, <4>2, <1>11 DEF IsLast
    <3>. QED
      BY <3>1, <3>2
  <2>3. Right(trail[k].ctl, trail[k].op, h[k], r, n)
    <3>1. PICK m \in Nat : m = Len(res')
      BY <1>2 DEF Answer, IsSequence, Inv, Shape
    <3>2. k \in 1 .. Len(trail) /\ k \in 1 .. Len(res')
      BY <3>1, <1>6, <1>14
    <3>3. trail'[k] = trail[k]
      BY <3>2, <1>7, <1>10, <1>14, Appended
    <3>4. trail[k].op \in NormCall => r \in Value
      BY <3>2, <3>3, <1>6 DEF Memory, NormsAreNorms
    <3>. QED
      BY <3>2, <3>4, <1>3, <1>6, Continues
  <2>4. Obeys(seen[p], ctl[p].status, seen'[p], ctl'[p].status)
    BY <2>3, <1>8, <1>9, <1>11 DEF Right
  <2>. QED
    BY <2>1, <2>2, <2>4, <1>6, LastSteps
<1>. QED
  BY <1>6, <1>7, <1>12, <1>13, <1>14

\* Solvers stop by the rule: on what its norms say, the first time that they do.  The
\* counter of stagnations, the number of iterations and the initial defect that the loops
\* carry along say no more and no less than all norms of the solve, and nothing is left
\* in them of an earlier solve.
THEOREM SolversStopByTheRule == Spec => ImplementsRule
<1>1. Init => Rule!Init
  <2> SUFFICES ASSUME Init PROVE Rule!Init
    OBVIOUS
  <2>1. Leader \in Rank
    BY InitInv, InitMemory, LeaderIsLast DEF IsLast
  <2>. QED
    BY <2>1 DEF Init, Rule!Init, NewControl
<1>2. Inv /\ Memory /\ Inv' /\ Memory' /\ [Next]_vars => [Rule!Next]_(Rule!vars)
  <2> SUFFICES ASSUME Inv, Memory, Inv', Memory', [Next]_vars PROVE [Rule!Next]_(Rule!vars)
    OBVIOUS
  <2>1. ASSUME NEW p \in Rank, Correct(p) PROVE [Rule!Next]_(Rule!vars)
    BY <2>1, CorrectObeys
  <2>2. ASSUME NEW p \in Rank, Complete(p) PROVE [Rule!Next]_(Rule!vars)
    BY <2>2, CompleteObeys
  <2>3. CASE UNCHANGED vars
    <3>1. PICK q \in Rank : IsLast(q)
      BY ThereIsALast
    <3>2. IsLast(q)'
      BY <2>3, <3>1 DEF IsLast, vars
    <3>3. Obeys(seen[q], ctl[q].status, seen'[q], ctl'[q].status) /\ cfg' = cfg
      BY <2>3, ObeysNothing DEF vars
    <3>. QED
      BY <3>1, <3>2, <3>3, LastSteps
  <2>. QED
    BY <2>1, <2>2, <2>3 DEF Next, Step
<1>. QED
  BY <1>1, <1>2, InitInv, NextInv, InitMemory, NextMemory, PTL DEF Spec, ImplementsRule, Rule!Spec
=============================================================================
