------------------------------ MODULE MultiGrid -----------------------------
(***************************************************************************)
(* The multigrid preconditioner: V-, F- and W-cycles as loops over the     *)
(* levels, run by processes that have different numbers of levels.  Each   *)
(* process follows its own control flow and knows only its own levels;     *)
(* operations within a level (products, smoothers, synchronisation of      *)
(* vectors, see Gate) are collective among the level's processes, and are  *)
(* one step here, taken when all of them have come to it.  Between levels, *)
(* ghosts send to their parents and wait for what comes back.              *)
(*                                                                         *)
(* todo[p] is what p still has to do in its call of apply, first the call  *)
(* it is in: "rest" and "prol" have the level they started from or go to   *)
(* (cur_lvl), whether to smooth there (cur_smooth), and their loop index.  *)
(***************************************************************************)
EXTENDS LevelOperators

CONSTANTS Inputs,         \* what the program may apply the multigrid to: calls, in turn
          CoarseMayFail,  \* may the coarse grid solver fail?
          Junk            \* what is in vectors that nobody wrote

\* A call, with what set_cycle and set_adapt_cgc have chosen before it.
CycleCall == [cycle : {"V", "F", "W"}, adapt : {"Fixed", "MinEnergy", "MinDefect"}, def : Vector]

ASSUME MultiGridAssumption ==
  /\ Inputs \subseteq Seq(CycleCall)
  /\ CoarseMayFail \in BOOLEAN
  /\ Junk \in Num

VARIABLES input,            \* the calls of the program, one after the other
          calls,            \* number of calls of apply by p
          todo,
          rhs, sol, def,    \* the vectors of the levels
          counters, cgs,    \* of the W-cycle; _counters keeps its values between calls
          up, down,         \* what ghosts sent to their parents, and parents to ghosts
          failed,           \* in which call a coarse grid solver has failed; 0 if in none
          cor, status,      \* what apply returned
          fault             \* a failed assertion

vectors == <<rhs, sol, def>>
network == <<up, down>>
driver == <<counters, cgs>>
outcome == <<cor, status, fault>>
cycleVars == <<input, calls, todo, vectors, driver, network, failed, outcome>>

CycleInit ==
  /\ input \in Inputs
  /\ calls = [p \in Proc |-> 0]
  /\ todo = [p \in Proc |-> <<>>]
  /\ rhs = [l \in Level |-> [p \in Proc |-> Junk]]
  /\ sol = rhs /\ def = rhs
  /\ counters = [p \in Proc |-> [l \in Level |-> 0]]
  /\ cgs = [p \in Proc |-> 0]
  /\ up = [p \in Proc |-> <<>>] /\ down = up
  /\ failed = 0
  /\ cor = [p \in Proc |-> Junk]
  /\ status = [p \in Proc |-> "undefined"]
  /\ fault = "none"

----------------------------------------------------------------------------
(* The control flow of a process.                                          *)

\* Slip: every process counts the levels of the whole hierarchy.
LastVirtual(p) == Crs

\* last_level, the coarsest level on this process.
LastLevel(p) == IF Phys[p] < Crs THEN Phys[p] ELSE Crs

DoRest(l, smooth) == [op |-> "rest", lvl |-> l, smooth |-> smooth, i |-> l]
DoProl(p, l, smooth) == [op |-> "prol", lvl |-> l, smooth |-> smooth, i |-> LastLevel(p)]
DoPeak(l) == [op |-> "peak", i |-> l]
Do(op) == [op |-> op, i |-> 0]
DoFLoop(l) == [op |-> "floop", i |-> l]

At(p, op, i) == todo[p] # <<>> /\ Head(todo[p]).op = op /\ Head(todo[p]).i = i
In(p, op) == todo[p] # <<>> /\ Head(todo[p]).op = op

\* _apply_cycle_v, _apply_cycle_f and _apply_cycle_w.
CycleCalls(p, cycle) ==
  CASE cycle = "V" -> <<DoRest(Top, TRUE), Do("coarse"), DoProl(p, Top, TRUE), Do("return")>>
    [] cycle = "F" -> <<DoRest(Top, TRUE), DoFLoop(LastLevel(p) - 1)>>
    [] cycle = "W" -> <<DoRest(Top, TRUE), Do("coarse"), Do("wstart")>>

Apply(p) ==
  /\ todo[p] = <<>> /\ calls[p] < Len(input)
  /\ calls' = [calls EXCEPT ![p] = @ + 1]
  /\ rhs' = [rhs EXCEPT ![Top][p] = input[calls'[p]].def[p]]
  /\ todo' = [todo EXCEPT ![p] = CycleCalls(p, input[calls'[p]].cycle)]
  /\ UNCHANGED <<input, sol, def, driver, network, failed, outcome>>

\* All cycles return Status::success.
CycleReturn(p) ==
  /\ In(p, "return")
  /\ cor' = [cor EXCEPT ![p] = sol[Top][p]]
  /\ status' = [status EXCEPT ![p] = "success"]
  /\ todo' = [todo EXCEPT ![p] = <<>>]
  /\ UNCHANGED <<input, calls, vectors, driver, network, failed, fault>>

\* The loops of _apply_rest and _apply_prol end.
LoopEnds(p) ==
  /\ \/ In(p, "rest") /\ Head(todo[p]).i >= LastLevel(p)
     \/ In(p, "prol") /\ Head(todo[p]).i <= Head(todo[p]).lvl
  /\ todo' = [todo EXCEPT ![p] = Tail(@)]
  /\ UNCHANGED <<input, calls, vectors, driver, network, failed, outcome>>

\* What the F-cycle does when its loop variable is l, and how it ends.
FPeak(p, l) ==
  <<Do("coarse"), DoProl(p, l, FALSE), DoPeak(l), DoRest(l, FALSE), DoFLoop(l - 1)>>
FEnd(p) == <<Do("coarse"), DoProl(p, Top, TRUE), Do("return")>>

FCalls(p, l) == IF l > Top THEN FPeak(p, l) ELSE FEnd(p)

FLoop(p) ==
  /\ In(p, "floop")
  /\ todo' = [todo EXCEPT ![p] = FCalls(p, Head(@).i)]
  /\ UNCHANGED <<input, calls, vectors, driver, network, failed, outcome>>

StartCounters(c, p) == [l \in Level |-> IF l <= LastLevel(p) THEN 0 ELSE c[l]]

WStart(p) ==
  /\ In(p, "wstart")
  /\ counters' = [counters EXCEPT ![p] = StartCounters(@, p)]
  /\ cgs' = [cgs EXCEPT ![p] = 1]
  /\ todo' = [todo EXCEPT ![p] = <<Do("wloop")>>]
  /\ UNCHANGED <<input, calls, vectors, network, failed, outcome>>

\* The level closest to the coarse level whose counter is 0, or else the top level.
PeakLevel(p) == Max({l \in Top .. LastLevel(p) - 1 : counters[p][l] = 0} \cup {Top})

\* Slip: counters below the peak level are left alone.
StepCountersOnly(c, p, peak) == [c EXCEPT ![peak] = @ + 1]

StepCounters(c, p, peak) ==
  [l \in Level |-> IF l > peak /\ l < LastLevel(p) THEN 0 ELSE IF l = peak THEN c[l] + 1 ELSE c[l]]

WCalls(p, l) == <<DoProl(p, l, FALSE), DoPeak(l), DoRest(l, FALSE), Do("coarse"), Do("wloop")>>

WLoop(p) ==
  /\ In(p, "wloop") /\ cgs[p] < 2 ^ (LastLevel(p) - Top)
  /\ LET peak == PeakLevel(p)
     IN /\ counters' = [counters EXCEPT ![p] = StepCounters(@, p, peak)]
        /\ todo' = [todo EXCEPT ![p] = WCalls(p, peak)]
  /\ cgs' = [cgs EXCEPT ![p] = @ + 1]
  /\ UNCHANGED <<input, calls, vectors, network, failed, outcome>>

WEnd(p) ==
  /\ In(p, "wloop") /\ cgs[p] >= 2 ^ (LastLevel(p) - Top)
  /\ todo' = [todo EXCEPT ![p] = <<DoProl(p, Top, TRUE), Do("return")>>]
  /\ fault' = IF \A l \in Top .. LastLevel(p) - 1 : counters[p][l] = 1 THEN fault ELSE "assert"
  /\ UNCHANGED <<input, calls, vectors, driver, network, failed, cor, status>>

----------------------------------------------------------------------------
(* _apply_rest: down to the coarse level.                                  *)

\* The loop body goes on in p with op and loop index i.
LoopGoesOn(p, op, i) == [todo[p] EXCEPT ![1].op = op, ![1].i = i]

\* Slip: the pre-smoother is applied when restricting from a peak, too.
SmoothsAlways(p) == TRUE

\* Not when restricting from a peak: that would discard its solution.
Smooths(p) == Head(todo[p]).smooth \/ Head(todo[p]).i # Head(todo[p]).lvl

PreSmooth(l) ==
  /\ l < Crs /\ Pre[l] # 0
  /\ \A p \in Members(l) : At(p, "rest", l) /\ Smooths(p)
  /\ sol' = [sol EXCEPT ![l] = Smoothed(Pre[l], l, rhs[l])]
  /\ def' = [def EXCEPT ![l] = Residual(l, rhs[l], sol'[l])]
  /\ todo' = [p \in Proc |-> IF p \in Members(l) THEN LoopGoesOn(p, "transfer", l) ELSE todo[p]]
  /\ UNCHANGED <<input, calls, rhs, driver, network, failed, outcome>>

\* There is no pre-smoother: zero is the solution.
ZeroStart(p) ==
  /\ In(p, "rest") /\ Smooths(p)
  /\ LET l == Head(todo[p]).i
     IN /\ l < LastLevel(p) /\ Pre[l] = 0
        /\ sol' = [sol EXCEPT ![l][p] = 0]
        /\ def' = [def EXCEPT ![l][p] = rhs[l][p]]
        /\ todo' = [todo EXCEPT ![p] = LoopGoesOn(p, "transfer", l)]
  /\ UNCHANGED <<input, calls, rhs, driver, network, failed, outcome>>

\* From a peak level, whose defect is that of the peak-smoother.
FromPeak(p) ==
  /\ In(p, "rest") /\ ~Smooths(p) /\ Head(todo[p]).i < LastLevel(p)
  /\ todo' = [todo EXCEPT ![p] = LoopGoesOn(p, "transfer", Head(@).i)]
  /\ UNCHANGED <<input, calls, vectors, driver, network, failed, outcome>>

\* p has no part in level l+1: it sends its share of the restricted defect, and is done.
RestSend(p, l) ==
  /\ At(p, "transfer", l) /\ p \notin Members(l + 1)
  /\ def' = [def EXCEPT ![l][p] = Filter(l, def[l])[p]]
  /\ up' = [up EXCEPT ![p] = Append(@, Weight[l].rest * def'[l][p])]
  /\ todo' = [todo EXCEPT ![p] = Tail(@)]
  /\ UNCHANGED <<input, calls, rhs, sol, driver, down, failed, outcome>>

\* The processes of level l+1 restrict, gather from their ghosts, and synchronise.
Rest(l) ==
  /\ l < Crs
  /\ \A p \in Members(l + 1) :
       At(p, "transfer", l) /\ \A g \in Ghosts(l, p) : up[g] # <<>>
  /\ def' = [def EXCEPT ![l] = [p \in Proc |-> IF p \in Members(l + 1) THEN Filter(l, @)[p]
                                                                       ELSE @[p]]]
  /\ LET joined == [p \in Proc |->
           IF p \notin Members(l + 1) THEN rhs[l + 1][p]
           ELSE (Weight[l].rest * def'[l][p]
                   + SumFunction([g \in Ghosts(l, p) |-> Head(up[g])])) % Prime]
     IN rhs' = [rhs EXCEPT ![l + 1] = Filter(l + 1, joined)]
  /\ up' = [g \in Proc |-> IF g \in Members(l) \ Members(l + 1) THEN Tail(up[g]) ELSE up[g]]
  /\ todo' = [p \in Proc |-> IF p \in Members(l + 1) THEN LoopGoesOn(p, "rest", l + 1) ELSE todo[p]]
  /\ UNCHANGED <<input, calls, sol, driver, down, failed, outcome>>

----------------------------------------------------------------------------
(* _apply_coarse.                                                          *)

CoarseDone == [p \in Proc |-> IF p \in Members(Crs) THEN Tail(todo[p]) ELSE todo[p]]

CoarseSolve ==
  /\ \A p \in Members(Crs) : In(p, "coarse")
  /\ sol' = [sol EXCEPT ![Crs] = Smoothed(CrsSolver, Crs, rhs[Crs])]
  /\ todo' = CoarseDone
  /\ UNCHANGED <<input, calls, rhs, def, driver, network, failed, outcome>>

\* The solver may have written its result or not; Status::aborted is returned, and
\* nobody looks at it.  In a run of the program it fails once, at most.
CoarseFails ==
  /\ CoarseMayFail /\ failed = 0
  /\ \A p \in Members(Crs) : In(p, "coarse")
  /\ \E s \in {sol[Crs], Smoothed(CrsSolver, Crs, rhs[Crs])} : sol' = [sol EXCEPT ![Crs] = s]
  /\ \E p \in Members(Crs) : failed' = calls[p]
  /\ todo' = CoarseDone
  /\ UNCHANGED <<input, calls, rhs, def, driver, network, outcome>>

NoCoarseLevel(p) ==
  /\ In(p, "coarse") /\ p \notin Members(Crs)
  /\ todo' = [todo EXCEPT ![p] = Tail(@)]
  /\ UNCHANGED <<input, calls, vectors, driver, network, failed, outcome>>

----------------------------------------------------------------------------
(* _apply_smooth_peak.                                                     *)

\* _apply_smooth_def: what becomes of the solution and of the defect.
SmoothDef(factor, l, v) ==
  LET s == Axpy(1, Smoothed(factor, l, v.def), v.sol)
  IN [sol |-> s, def |-> Defect(l, rhs[l], s)]

IfAny(factor, l, v) == IF factor = 0 THEN v ELSE SmoothDef(factor, l, v)

\* Slip: the defect of the last restriction is taken.
PeakFromOldDefect(l) == IfAny(Peak[l], l, [sol |-> sol[l], def |-> def[l]])

\* Without a peak-smoother, the pre- and the post-smoother take its place.
AfterPeak(l) ==
  LET v == [sol |-> sol[l], def |-> Defect(l, rhs[l], sol[l])]
  IN IF Peak[l] # 0 THEN SmoothDef(Peak[l], l, v) ELSE IfAny(Post[l], l, IfAny(Pre[l], l, v))

SmoothPeak(l) ==
  /\ \A p \in Members(l) : At(p, "peak", l)
  /\ sol' = [sol EXCEPT ![l] = AfterPeak(l).sol]
  /\ def' = [def EXCEPT ![l] = AfterPeak(l).def]
  /\ todo' = [p \in Proc |-> IF p \in Members(l) THEN Tail(todo[p]) ELSE todo[p]]
  /\ UNCHANGED <<input, calls, rhs, driver, network, failed, outcome>>

----------------------------------------------------------------------------
(* _apply_prol: up from the last level.                                    *)

\* A parent scatters the coarse solution to its ghosts.
Split(p, l) ==
  /\ At(p, "prol", l + 1) /\ l >= Head(todo[p]).lvl
  /\ p \in Members(l + 1) /\ Ghosts(l, p) # {}
  /\ down' = [g \in Proc |-> IF g \in Ghosts(l, p) THEN Append(down[g], sol[l + 1][p])
                                                   ELSE down[g]]
  /\ todo' = [todo EXCEPT ![p] = LoopGoesOn(p, "split", l + 1)]
  /\ UNCHANGED <<input, calls, vectors, driver, up, failed, outcome>>

ReadyToProlongate(p, l) ==
  IF p \in Members(l + 1) THEN At(p, IF Ghosts(l, p) = {} THEN "prol" ELSE "split", l + 1)
                          ELSE At(p, "prol", l + 1) /\ down[p] # <<>>

\* _adapt_cgc, in the call that the processes of level l are in.
Adapt(l) == input[calls[CHOOSE p \in Members(l) : TRUE]].adapt

\* The factor of the coarse grid correction c, whose product with the matrix is t.
Omega(l, c, t) ==
  CASE Adapt(l) = "Fixed" -> 1
    [] Adapt(l) = "MinEnergy" -> Quotient(Dot(l, def[l], c), Dot(l, t, c))
    [] Adapt(l) = "MinDefect" -> Quotient(Dot(l, def[l], t), Dot(l, t, t))

\* def is that of the solution before its correction.
DefectAfter(l, s, omega, t) ==
  IF Adapt(l) = "Fixed" THEN Defect(l, rhs[l], s) ELSE Axpy(-omega, t, def[l])

\* Not on the peak that the prolongation goes to.
PostSmooths(l) ==
  /\ Post[l] # 0
  /\ \A p \in Members(l) : Head(todo[p]).smooth \/ l # Head(todo[p]).lvl

Correction(l, x) == Filter(l, Scale(Weight[l].prol, x))

\* What the processes of level l get from level l+1.
Arrived(l) ==
  [p \in Proc |-> IF p \in Members(l + 1) THEN sol[l + 1][p]
                  ELSE IF p \in Members(l) THEN Head(down[p]) ELSE 0]

\* (c, t and omega are bound by \E so that TLC computes each of them once.)
Prolongate(l) ==
  /\ l < Crs
  /\ \A p \in Members(l) : ReadyToProlongate(p, l) /\ l >= Head(todo[p]).lvl
  /\ \E c \in {Correction(l, Arrived(l))} :
     \E t \in {Filter(l, MatrixApply(l, c))} :
     \E omega \in {Omega(l, c, t)} :
     LET corrected == Axpy(omega, c, sol[l])
         d == DefectAfter(l, corrected, omega, t)
     IN IF PostSmooths(l)
        THEN /\ def' = [def EXCEPT ![l] = d]
             /\ sol' = [sol EXCEPT ![l] = Axpy(1, Smoothed(Post[l], l, d), corrected)]
        ELSE /\ sol' = [sol EXCEPT ![l] = corrected]
             /\ def' = def
  /\ down' = [g \in Proc |-> IF g \in Members(l) \ Members(l + 1) THEN Tail(down[g]) ELSE down[g]]
  /\ todo' = [p \in Proc |-> IF p \in Members(l) THEN LoopGoesOn(p, "prol", l) ELSE todo[p]]
  /\ UNCHANGED <<input, calls, rhs, driver, up, failed, outcome>>

----------------------------------------------------------------------------
Collective(l) == PreSmooth(l) \/ Rest(l) \/ SmoothPeak(l) \/ Prolongate(l)

Local(p) ==
  \/ Apply(p) \/ CycleReturn(p) \/ LoopEnds(p)
  \/ FLoop(p) \/ WStart(p) \/ WLoop(p) \/ WEnd(p)
  \/ ZeroStart(p) \/ FromPeak(p) \/ NoCoarseLevel(p)
  \/ \E l \in Level : RestSend(p, l) \/ Split(p, l)

Finished == \A p \in Proc : todo[p] = <<>> /\ calls[p] = Len(input)

CycleNext ==
  \/ \E l \in Level : Collective(l)
  \/ CoarseSolve \/ CoarseFails
  \/ \E p \in Proc : Local(p)

CycleSpec == CycleInit /\ [][CycleNext]_cycleVars

\* As long as processes can go on, some of them do.
FairCycleSpec == CycleSpec /\ WF_cycleVars(CycleNext)
----------------------------------------------------------------------------

CounterValues(p) ==
  [l \in Top .. LastLevel(p) - 1 |-> counters[p][l] * 2 ^ (LastLevel(p) - 1 - l)]

\* The counters of the W-cycle are the digits of a binary number, that of its
\* coarse grid solves so far: this is why every level above the coarse one gets
\* its two visits, and why the sanity check at the end (1508-1512) holds.
CountersCountSolves ==
  \A p \in Proc : In(p, "wloop") => SumFunction(CounterValues(p)) = cgs[p] - 1

UsesDefect(l) ==
  \/ \A p \in Members(l) : At(p, "transfer", l)
  \/ /\ \A p \in Members(l) : ReadyToProlongate(p, l) /\ l >= Head(todo[p]).lvl
     /\ Adapt(l) # "Fixed"

\* What is restricted is the filtered defect of the current solution, and so is
\* the defect that an adaptive correction projects onto: neither peak-smoothing
\* nor corrections leave an old defect behind.
DefectIsCurrent ==
  \A l \in Top .. Crs - 1 :
    UsesDefect(l) => Filter(l, def[l]) = Defect(l, rhs[l], sol[l])

\* No process waits forever for its level, its ghosts or its parent.
AllFinish == <>Finished
=============================================================================
