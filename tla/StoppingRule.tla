---------------------------- MODULE StoppingRule ----------------------------
(***************************************************************************)
(* What an iterative solver promises: it goes through the norms of its     *)
(* defects one by one and stops at the first that one of its criteria is   *)
(* about.  The verdict is a function of the norms seen in this solve; no   *)
(* counter is carried along, and nothing is left of earlier solves.        *)
(***************************************************************************)
EXTENDS Integers, Sequences

CONSTANTS Norm,      \* finite norms: natural numbers
          NotFinite  \* any other

VARIABLES cfg,       \* the parameters
          seen,      \* the norms seen in this solve, the initial one first
          verdict    \* "undefined" before the first solve

vars == <<cfg, seen, verdict>>

Iterations == Len(seen) - 1

Converged(d, init) ==
  d <= cfg.tol_abs /\ (d * cfg.tol_rel <= init \/ d <= cfg.tol_abs_low)
Diverged(d, init) == d > cfg.div_abs \/ d > cfg.div_rel * init

\* The last min_stag_iter iterations have all reduced the norm too little; the
\* ones before the minimum do not count.
Stagnated(h) ==
  /\ cfg.min_stag_iter > 0
  /\ \A k \in 0 .. cfg.min_stag_iter - 1 :
       LET i == Len(h) - 1 - k
       IN  i >= 1 /\ i >= cfg.min_iter /\ 100 * h[i + 1] >= cfg.stag_rate * h[i]

\* The verdict on the norms h.
Verdict(h) ==
  LET d == h[Len(h)]
      n == Len(h) - 1
  IN  IF d = NotFinite THEN "aborted"
      ELSE IF n = 0 THEN IF d = 0 THEN "success" ELSE "progress"
      ELSE IF Diverged(d, h[1]) THEN "diverged"
      ELSE IF n < cfg.min_iter THEN "progress"
      ELSE IF Converged(d, h[1]) THEN "success"
      ELSE IF n >= cfg.max_iter THEN "max_iter"
      ELSE IF Stagnated(h) THEN "stagnated"
      ELSE "progress"

Init == seen = <<>> /\ verdict = "undefined"

\* BiCGStab has no verdict of its own on an initial defect that ends the solve.
Start(d) ==
  /\ verdict # "progress"
  /\ seen' = <<d>>
  /\ verdict' = IF cfg.kind = "bicgstab" /\ Verdict(seen') # "progress"
                THEN "undefined" ELSE Verdict(seen')

\* If defects may be skipped, an old norm may be seen again.
Iterate(d) ==
  /\ verdict = "progress"
  /\ seen' = Append(seen, d) /\ verdict' = Verdict(seen')

Old == IF cfg.skip_def_calc /\ seen # <<>> THEN {seen[Len(seen)]} ELSE {}

\* BiCGStab may stop in the middle of an iteration, whatever their number is.
StopHalfWay(d) ==
  /\ cfg.kind = "bicgstab" /\ verdict = "progress"
  /\ \/ d = NotFinite /\ verdict' = "aborted" /\ UNCHANGED seen
     \/ d # NotFinite /\ Diverged(d, seen[1]) /\ verdict' = "diverged"
        /\ seen' = Append(seen, d)
     \/ d # NotFinite /\ ~Diverged(d, seen[1]) /\ Converged(d, seen[1])
        /\ verdict' = "success" /\ seen' = Append(seen, d)

\* The preconditioner fails, or a factor of the recurrence is not finite; BiCGStab
\* calls the preconditioner before it has seen any norm.
Abort ==
  /\ verdict' = "aborted"
  /\ \/ verdict = "progress" /\ UNCHANGED seen
     \/ cfg.kind = "bicgstab" /\ verdict # "progress" /\ seen' = <<>>

Next ==
  /\ \/ \E d \in Norm \cup {NotFinite} : Start(d) \/ Iterate(d) \/ StopHalfWay(d)
     \/ \E d \in Old : Iterate(d)
     \/ Abort
  /\ UNCHANGED cfg

Spec == Init /\ [][Next]_vars
=============================================================================
