--------------------------- MODULE MultiGridCycle ---------------------------
(***************************************************************************)
(* The multigrid cycles as textbooks define them, by recursion on levels:  *)
(* the reference that the loops of MultiGrid have to agree with.           *)
(***************************************************************************)
EXTENDS MultiGrid

\* x, which TLC then computes only once.
Once(x) == CHOOSE y \in {x} : y = y

Smoother(factor, l, b, x) ==
  IF factor = 0 THEN x ELSE Once(Axpy(1, Smoothed(factor, l, Defect(l, b, x)), x))

PeakSmoother(l, b, x) ==
  IF Peak[l] # 0 THEN Smoother(Peak[l], l, b, x)
  ELSE Smoother(Post[l], l, b, Smoother(Pre[l], l, b, x))

Restricted(l, d) ==
  Once(Filter(l + 1, [q \in Proc |->
    (Weight[l].rest
       * SumFunctionOnSet(d, {p \in Members(l) : q \in Members(l + 1)
                                                 /\ CoarseProc(l, p) = q})) % Prime]))

Prolongated(l, x) ==
  Once(Filter(l, [p \in Proc |->
    IF p \in Members(l) THEN (Weight[l].prol * x[CoarseProc(l, p)]) % Prime ELSE 0]))

\* x, corrected by the coarse grid's answer c, times a factor.
Corrected(adapt, l, b, x, c) ==
  LET t == Filter(l, MatrixApply(l, c))
      d == Defect(l, b, x)
      omega == CASE adapt = "Fixed" -> 1
                 [] adapt = "MinEnergy" -> Quotient(Dot(l, d, c), Dot(l, t, c))
                 [] adapt = "MinDefect" -> Quotient(Dot(l, d, t), Dot(l, t, t))
  IN Once(Axpy(omega, c, x))

\* An approximate solution of the system with right-hand side b on level l, with what
\* cycles there are on the next.
Cycled(adapt, l, kind, b, next) ==
  LET Coarse(k, x) == Corrected(adapt, l, b, x,
                        Prolongated(l, next[k][Restricted(l, Defect(l, b, x))]))
      start == Smoothed(Pre[l], l, b)
      once == Coarse(kind, start)
      again == CASE kind = "V" -> once
                 [] kind = "F" -> IF l = Top THEN once
                                  ELSE Coarse("V", PeakSmoother(l, b, once))
                 [] kind = "W" -> Coarse("W", PeakSmoother(l, b, once))
  IN Smoother(Post[l], l, b, again)

Cycles(adapt) ==
  LET cycles[l \in Level] ==
        [kind \in {"V", "F", "W"} |-> [b \in Vector |->
          IF l = Crs THEN Smoothed(CrsSolver, Crs, b) ELSE Cycled(adapt, l, kind, b, cycles[l + 1])]]
  IN cycles

\* The answers to all inputs.
CycleAnswers ==
  [given \in Inputs |->
    [k \in DOMAIN given |-> Cycles(given[k].adapt)[Top][given[k].cycle][given[k].def]]]

\* What apply returns is the cycle of what it was given, for each call: loops over
\* levels, counters, peaks and processes that leave on some levels are an
\* implementation of the recursion, and nothing of an earlier call is left in it,
\* not even of one whose coarse grid solver failed.
CorrectionIsTheCycle ==
  \A p \in Proc :
    todo[p] = <<>> /\ calls[p] > 0 /\ calls[p] # failed
      => cor[p] = CycleAnswers[input][calls[p]][p]
=============================================================================
