----------------------------- MODULE SolverLoops ----------------------------
(***************************************************************************)
(* All processes run the loop of one solver - Richardson, PCG or BiCGStab, *)
(* preconditioned by a Schwarz method or not at all - each on its own.     *)
(* They meet in calls only: products with the matrix, for which a process  *)
(* needs its neighbours, and reductions, for which it needs all.  MPI      *)
(* matches the calls by their order, so that a process that leaves one out *)
(* is answered by the wrong one, or not at all.                            *)
(*                                                                         *)
(* What a process computes between two calls is one step.  Numbers are     *)
(* drawn as far as the control depends on them: norms, and whether omega   *)
(* and beta of BiCGStab are finite.  A reduction gives the same to all.    *)
(***************************************************************************)
EXTENDS IterativeSolver, Sequences, FiniteSets

CONSTANTS Rank,        \* the processes
          Neighbours,  \* Neighbours[p]: with whom p exchanges entries
          Norm,        \* bound: the finite norms that are drawn
          Config,      \* the solvers and their parameters
          MayFail,     \* processes whose local solver may fail
          Solves       \* bound: calls of correct()

Parameter == {"min_iter", "max_iter", "min_stag_iter", "tol_abs", "tol_rel", "tol_abs_low",
              "div_abs", "div_rel", "stag_rate"}

\* Norms are skipped by all processes or by none, as the comment of
\* skip_defect_calc asks.
AgreesOnSkips(c) ==
  \/ ~c.skip_def_calc \/ c.min_iter < c.max_iter \/ c.min_stag_iter > 0
  \/ c.plots = {}
  \/ c.plots = Rank /\ \A p, q \in Rank : c.plot_interval[p] = c.plot_interval[q]

ASSUME SolverAssumption ==
  /\ Rank # {}
  /\ Neighbours \in [Rank -> SUBSET Rank]
  /\ \A p, q \in Rank : p \in Neighbours[q] <=> q \in Neighbours[p]
  /\ Norm \subseteq Nat
  /\ \A c \in Config :
       /\ c.kind \in {"richardson", "pcg", "bicgstab"}
       /\ c.precond \in {"none", "schwarz"}
       /\ \A f \in Parameter : c[f] \in Nat
       /\ c.skip_def_calc \in BOOLEAN
       /\ c.plots \subseteq Rank
       /\ c.plot_interval \in [Rank -> Nat \ {0}]
       /\ AgreesOnSkips(c)
  /\ MayFail \subseteq Rank
  /\ Solves \in Nat

VARIABLES cfg,     \* the solver
          solves,  \* number of calls of correct() of a process
          ctl,     \* its control
          at,      \* the call it waits in, or "idle"
          val,     \* what it gives to this call
          pos,     \* number of its calls
          trail,   \* all calls in their order, with the control of the process that was first
          res,     \* their results, as far as some process has got them
          seen     \* history: the norms that a process has seen in its solve

vars == <<cfg, solves, ctl, at, val, pos, trail, res, seen>>

Init ==
  /\ cfg \in Config
  /\ solves = [p \in Rank |-> 0]
  /\ ctl = [p \in Rank |-> NewControl]
  /\ at = [p \in Rank |-> "idle"]
  /\ val = [p \in Rank |-> 0]
  /\ pos = [p \in Rank |-> 0]
  /\ trail = <<>> /\ res = <<>>
  /\ seen = [p \in Rank |-> <<>>]

----------------------------------------------------------------------------
(* The loops: the control and the next call of process p, that has got r   *)
(* from its call op.                                                       *)

To(s, op) == [ctl |-> s, at |-> op]
Return(s, status) == To([s EXCEPT !.status = status], "idle")

\* Without a preconditioner, the defect is copied.
ApplyPrecond(s, op, next) == IF cfg.precond = "schwarz" THEN To(s, op) ELSE To(s, next)

\* status_success of what the preconditioner returns: all local solvers succeeded,
\* and the corrections are synchronised.
Unless(s, failures, next) == IF failures > 0 THEN Return(s, "aborted") ELSE To(s, next)

\* The head of the loop: on with the preconditioner, or return.
Loop(s, next) ==
  IF s.status = "progress" THEN ApplyPrecond(s, "status", next) ELSE To(s, "idle")

\* Slip: the previous defect is stored for the plot only.
NewDefectPlotted(p, s, next) ==
  LET n == NextIteration(s)
      s1 == IF PlotIter(cfg, p, n) THEN n ELSE [n EXCEPT !.def_prev = s.def_prev]
  IN  IF CalcDef(cfg, p, s1) THEN To(s1, "norm") ELSE Loop(AnalyseDefect(cfg, s1), next)

\* _set_new_defect, and on to the loop if it needs no norm.
NewDefect(p, s, next) ==
  LET s1 == NextIteration(s)
  IN  IF CalcDef(cfg, p, s1) THEN To(s1, "norm") ELSE Loop(AnalyseDefect(cfg, s1), next)

Richardson(p, s, op, r) ==
  CASE op = "defect" -> To(s, "norm0")
    [] op = "norm0"  -> Loop(SetInitialDefect(cfg, s, r), "update")
    [] op = "status" -> Unless(s, r, "sync")
    [] op = "sync"   -> To(s, "update")
    [] op = "update" -> NewDefect(p, s, "update")
    [] op = "norm"   -> Loop(SetNewDefect(cfg, s, r), "update")

PCG(p, s, op, r) ==
  CASE op = "defect"    -> To(s, "norm0")
    [] op = "norm0"     -> Loop(SetInitialDefect(cfg, s, r), "gamma")
    [] op = "status"    -> Unless(s, r, "sync")
    [] op = "sync"      -> To(s, "gamma")
    [] op = "gamma"     -> To(s, "direction")
    [] op = "direction" -> To(s, "alpha")
    [] op = "alpha"     -> NewDefect(p, s, "gamma")
    [] op = "norm"      -> Loop(SetNewDefect(cfg, s, r), "gamma")

\* The break in the middle of an iteration of BiCGStab.
HalfWay(s, d) ==
  LET stop(cur, status) ==
        Return([s EXCEPT !.num_iter = @ + 1, !.def_prev = s.def_cur, !.def_cur = cur], status)
  IN  IF ~IsFinite(d) THEN stop(s.def_cur, "aborted")
      ELSE IF IsDiverged(cfg, s, d) THEN stop(d, "diverged")
      ELSE IF IsConverged(cfg, s, d) THEN stop(d, "success")
      ELSE To(s, "second")

IfFinite(s, r, next) == IF IsFinite(r) THEN next ELSE Return(s, "aborted")

OnFrom(s, next) == IF s.status = "progress" THEN To(s, next) ELSE To(s, "idle")

\* A loop that is not entered leads to its end, "we should never reach this point".
AfterLoop(s, next) == IF s.status = "progress" THEN To(s, next) ELSE Return(s, "undefined")

BiCGStab(p, s, op, r) ==
  LET s1 == NextIteration(s)
  IN  CASE op = "defect"  -> ApplyPrecond(s, "status0", "rho")
        [] op = "status0" -> Unless(s, r, "sync0")
        [] op = "sync0"   -> To(s, "rho")
        [] op = "rho"     -> To(s, "norm0")
        [] op = "norm0"   -> AfterLoop(SetInitialDefect(cfg, s, r), "first")
        [] op = "first"   -> ApplyPrecond(s, "status", "alpha")
        [] op = "status"  -> Unless(s, r, "sync")
        [] op = "sync"    -> To(s, "alpha")
        [] op = "alpha"   -> To(s, "half")
        [] op = "half"    -> HalfWay(s, r)
        [] op = "second"  -> ApplyPrecond(s, "status2", "omega")
        [] op = "status2" -> Unless(s, r, "sync2")
        [] op = "sync2"   -> To(s, "omega")
        [] op = "omega"   -> IfFinite(s, r, IF CalcDef(cfg, p, s1) THEN To(s1, "norm")
                                            ELSE OnFrom(AnalyseDefect(cfg, s1), "beta"))
        [] op = "norm"    -> OnFrom(SetNewDefect(cfg, s, r), "beta")
        [] op = "beta"    -> IfFinite(s, r, To(s, "first"))

Proceed(p, s, op, r) ==
  CASE cfg.kind = "richardson" -> Richardson(p, s, op, r)
    [] cfg.kind = "pcg"        -> PCG(p, s, op, r)
    [] cfg.kind = "bicgstab"   -> BiCGStab(p, s, op, r)

----------------------------------------------------------------------------
(* The calls.                                                              *)

\* Calls for which a process needs its neighbours.
Product == {"defect", "update", "direction", "first", "second", "sync0", "sync", "sync2"}
NormCall == {"norm0", "norm", "half"}
StatusCall == {"status0", "status", "status2"}

\* The sum of the local solvers' failures.
GlobalStatus == Cardinality({q \in Rank : val[q] > 0})

\* Slip: the Schwarz preconditioner returns what the local solver did.
LocalStatusOf(p, gstat) == IF at[p] \in StatusCall THEN val[p] ELSE gstat

\* What the Schwarz preconditioner returns after the reduction.
StatusOf(p, gstat) == gstat

Answers(p) ==
  CASE at[p] \in NormCall -> Norm \cup {NotFinite}
    [] at[p] \in {"omega", "beta"} -> {0, NotFinite}
    [] at[p] \in StatusCall -> {GlobalStatus}
    [] OTHER -> {0}

Call(p) == [op |-> at[p], ctl |-> ctl[p], solve |-> solves[p]]

\* Those whom p needs have come to their call with the same number, which is the
\* same call.
Met(p) ==
  /\ \A q \in IF at[p] \in Product THEN Neighbours[p] ELSE Rank : pos[q] >= pos[p]
  /\ trail[pos[p]].op = at[p]
  /\ \A q \in Rank : at[q] # "idle" /\ pos[q] = pos[p] => at[q] = at[p]

\* Process p makes its next call, in its n-th solve.
Enter(p, s, op, n) ==
  /\ ctl' = [ctl EXCEPT ![p] = s]
  /\ at' = [at EXCEPT ![p] = op]
  /\ IF op = "idle"
     THEN UNCHANGED <<pos, trail, val>>
     ELSE /\ pos' = [pos EXCEPT ![p] = @ + 1]
          /\ trail' = IF pos[p] < Len(trail) THEN trail
                      ELSE Append(trail, [op |-> op, ctl |-> s, solve |-> n])
          /\ \E v \in IF op \in StatusCall /\ p \in MayFail THEN {0, 1} ELSE {0} :
               val' = [val EXCEPT ![p] = v]

Correct(p) ==
  /\ at[p] = "idle" /\ solves[p] < Solves
  /\ solves' = [solves EXCEPT ![p] = @ + 1]
  /\ Enter(p, ctl[p], "defect", solves[p] + 1)
  /\ UNCHANGED <<cfg, res, seen>>

\* The norms seen by p when it goes on from a call to n.
Seen(p, r, n) ==
  CASE at[p] = "norm0" -> <<r>>
    [] at[p] = "status0" /\ n.at = "idle" -> <<>>
    [] at[p] = "norm" -> Append(seen[p], r)
    [] at[p] = "half" /\ n.at = "idle" /\ IsFinite(r) -> Append(seen[p], r)
    [] at[p] \notin NormCall /\ n.ctl.num_iter > ctl[p].num_iter /\ n.at # "norm" ->
         Append(seen[p], ctl[p].def_cur)
    [] OTHER -> seen[p]

GetAnswer(p, r) ==
  \E n \in {Proceed(p, ctl[p], at[p], StatusOf(p, r))} :
    /\ Enter(p, n.ctl, n.at, solves[p])
    /\ seen' = [seen EXCEPT ![p] = Seen(p, r, n)]

Complete(p) ==
  /\ at[p] # "idle"
  /\ Met(p)
  /\ IF pos[p] <= Len(res)
     THEN GetAnswer(p, res[pos[p]]) /\ UNCHANGED res
     ELSE \E r \in Answers(p) : GetAnswer(p, r) /\ res' = Append(res, r)
  /\ UNCHANGED <<cfg, solves>>

Step(p) == Correct(p) \/ Complete(p)

Next == \E p \in Rank : Step(p)

Spec == Init /\ [][Next]_vars

\* Every process goes on as long as it can.
FairSpec == Spec /\ \A p \in Rank : WF_vars(Step(p))

----------------------------------------------------------------------------
(* Properties.                                                             *)

Value == Norm \cup {NotFinite}

\* The n-th call is the same on all processes and finds them with the same control,
\* though some plot more than others, and whatever their local solvers do.
LockStep == \A p \in Rank : at[p] # "idle" => trail[pos[p]] = Call(p)

\* Processes return from a solve with the same status, the same number of
\* iterations and the same defects.
VerdictsAgree ==
  \A p, q \in Rank :
    at[p] = "idle" /\ at[q] = "idle" /\ solves[p] = solves[q] => ctl[p] = ctl[q]

\* The defect that a status is about has been computed in the last iteration,
\* unless the parameters permit to skip it.
MaySkip ==
  cfg.skip_def_calc /\ cfg.min_iter >= cfg.max_iter /\ cfg.min_stag_iter = 0

IterationOf(k) ==
  CASE trail[k].op = "norm0" -> 0
    [] trail[k].op = "half" -> trail[k].ctl.num_iter + 1
    [] OTHER -> trail[k].ctl.num_iter

Computed(p) ==
  \E k \in 1 .. Len(res) :
    /\ k <= pos[p] /\ trail[k].op \in NormCall
    /\ res[k] = ctl[p].def_cur /\ IterationOf(k) = ctl[p].num_iter
    /\ \A j \in k + 1 .. pos[p] : trail[j].op \notin NormCall

DefectIsFresh ==
  \A p \in Rank :
    at[p] = "idle" /\ ctl[p].status \notin {"undefined", "aborted"} /\ ~MaySkip => Computed(p)

\* A call of correct() has come to a verdict.
VerdictIsDefined ==
  \A p \in Rank : at[p] = "idle" /\ solves[p] > 0 => ctl[p].status # "undefined"

\* The solver that is ahead of the others stops by the rule: its verdict is what
\* the norms of this solve say, the first time that they do.
Ahead(p) == \A q \in Rank : solves[q] < solves[p] \/ (solves[q] = solves[p] /\ pos[q] <= pos[p])
Leader == CHOOSE p \in Rank : Ahead(p) /\ \A q \in Rank : Ahead(q) => at[p] = "idle" \/ at[q] # "idle"

Rule == INSTANCE StoppingRule WITH seen <- seen[Leader], verdict <- ctl[Leader].status

ImplementsRule == Rule!Spec

\* Nobody waits for ever: all solves return on all processes.
AllReturn == <>(\A p \in Rank : solves[p] = Solves /\ at[p] = "idle")
=============================================================================
