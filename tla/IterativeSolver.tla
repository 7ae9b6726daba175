--------------------------- MODULE IterativeSolver --------------------------
(***************************************************************************)
(* The control that all iterative solvers inherit: when the defect norm is *)
(* computed, and what the solver makes of it.  A norm is a natural number, *)
(* or NotFinite; a configuration c holds the parameters of a solver and    *)
(* s the members that change while it iterates.  The relative tolerance    *)
(* is 1 / c.tol_rel, and the stagnation rate is in percent.                *)
(***************************************************************************)
EXTENDS Integers

NotFinite == -1
IsFinite(d) == d # NotFinite

\* The constructor.
NewControl ==
  [status |-> "undefined", num_iter |-> 0, num_stag_iter |-> 0,
   def_init |-> 0, def_cur |-> 0, def_prev |-> 0]

IsConverged(c, s, d) ==
  d <= c.tol_abs /\ (d * c.tol_rel <= s.def_init \/ d <= c.tol_abs_low)

IsDiverged(c, s, d) == d > c.div_abs \/ d > c.div_rel * s.def_init

\* The code takes a norm of at most eps^2 for zero.
SetInitialDefect(c, s, d) ==
  [s EXCEPT !.def_init = d, !.def_cur = d, !.def_prev = d,
            !.num_iter = 0, !.num_stag_iter = 0,
            !.status = IF ~IsFinite(d) THEN "aborted"
                       ELSE IF d = 0 THEN "success" ELSE "progress"]

\* Slip: count stagnations without a look at the ones in between.
StagnationsInAll(c, s) ==
  IF 100 * s.def_cur >= c.stag_rate * s.def_prev THEN s.num_stag_iter + 1 ELSE s.num_stag_iter

\* An iteration that does not stagnate resets the count.
Stagnations(c, s) ==
  IF 100 * s.def_cur >= c.stag_rate * s.def_prev THEN s.num_stag_iter + 1 ELSE 0

AnalyseDefect(c, s) ==
  LET stag == Stagnations(c, s)
      stop(st) == [s EXCEPT !.status = st]
  IN  IF ~IsFinite(s.def_cur) THEN stop("aborted")
      ELSE IF IsDiverged(c, s, s.def_cur) THEN stop("diverged")
      ELSE IF s.num_iter < c.min_iter THEN stop("progress")
      ELSE IF IsConverged(c, s, s.def_cur) THEN stop("success")
      ELSE IF s.num_iter >= c.max_iter THEN stop("max_iter")
      ELSE IF c.min_stag_iter = 0 THEN stop("progress")
      ELSE [s EXCEPT !.num_stag_iter = stag,
                     !.status = IF stag >= c.min_stag_iter THEN "stagnated" ELSE "progress"]

----------------------------------------------------------------------------
(* _set_new_defect, up to the norm and from there on.                      *)

NextIteration(s) == [s EXCEPT !.num_iter = @ + 1, !.def_prev = s.def_cur]

\* _plot_iter() of process p, which plots if it is in c.plots.
PlotIter(c, p, s) == s.num_iter % c.plot_interval[p] = 0 /\ p \in c.plots

\* Slip: the norm is for the plot only.
CalcDefToPlot(c, p, s) == ~c.skip_def_calc \/ PlotIter(c, p, s) \/ c.min_stag_iter > 0

CalcDef(c, p, s) ==
  ~c.skip_def_calc \/ c.min_iter < c.max_iter \/ PlotIter(c, p, s) \/ c.min_stag_iter > 0

\* Slip: the new norm is not stored.
SetNewDefectUnstored(c, s, d) == AnalyseDefect(c, s)

SetNewDefect(c, s, d) == AnalyseDefect(c, [s EXCEPT !.def_cur = d])
=============================================================================
