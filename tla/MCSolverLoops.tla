---------------------------- MODULE MCSolverLoops ---------------------------
EXTENDS SolverLoops, TLC

CONSTANTS p1, p2, p3

\* p3 is not a neighbour of p1.
Row == p1 :> {p2} @@ p2 :> {p1, p3} @@ p3 :> {p2}

Always == [p \in Rank |-> 1]

\* Parameters as the constructor sets them, but for a smaller scale.
Default ==
  [kind |-> "richardson", precond |-> "none", min_iter |-> 0, max_iter |-> 2, min_stag_iter |-> 0,
   tol_abs |-> 9, tol_rel |-> 4, tol_abs_low |-> 0, div_abs |-> 9, div_rel |-> 1, stag_rate |-> 95,
   skip_def_calc |-> TRUE, plots |-> {}, plot_interval |-> Always]

Schwarz == [Default EXCEPT !.precond = "schwarz"]
PCGSolver == [Default EXCEPT !.kind = "pcg", !.tol_abs_low = 4]
BiCGStabSolver == [Schwarz EXCEPT !.kind = "bicgstab"]

\* A smoother, which does not look at its defects; one process would like to.
Smoother == [Default EXCEPT !.min_iter = 2]
Curious == [Default EXCEPT !.plots = {p1}, !.plot_interval = p1 :> 1 @@ p2 :> 2 @@ p3 :> 1]
Plotter == [Default EXCEPT !.min_iter = 2, !.plots = Rank, !.plot_interval = [p \in Rank |-> 2]]
Stagnating == [Default EXCEPT !.max_iter = 4, !.min_iter = 1, !.min_stag_iter = 2,
                              !.plots = {p2}]

Solvers ==
  {Schwarz, PCGSolver, BiCGStabSolver,
   [BiCGStabSolver EXCEPT !.precond = "none", !.min_iter = 2, !.max_iter = 2],
   Smoother, [Smoother EXCEPT !.skip_def_calc = FALSE], Curious, Plotter, Stagnating}

OneBiCGStab == {BiCGStabSolver}
=============================================================================
