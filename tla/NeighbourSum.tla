---------------------------- MODULE NeighbourSum ----------------------------
(***************************************************************************)
(* What the synchronisations of a program promise: every process takes the *)
(* operations 1, 2, ... one after the other, and has the result of one not *)
(* before those that have a part in its result have entered the same       *)
(* operation.  It may have it before processes it shares nothing with do.  *)
(***************************************************************************)
EXTENDS Naturals

CONSTANTS Rank,            \* the processes
          N,               \* number of operations
          Partners(_, _),  \* the others with a part in p's result of operation t
          Outcome(_, _)    \* p's result of operation t

VARIABLES entered,         \* number of operations a process has entered
          result           \* the result of the last one; {} while it waits

vars == <<entered, result>>

Waits(p) == result[p] = {}

Init ==
  /\ entered = [p \in Rank |-> 0]
  /\ \A p \in Rank : result[p] # {}

Enter(p) ==
  /\ ~Waits(p) /\ entered[p] < N
  /\ entered' = [entered EXCEPT ![p] = @ + 1]
  /\ result' = [result EXCEPT ![p] = {}]

Leave(p) ==
  /\ Waits(p)
  /\ \A q \in Partners(entered[p], p) : entered[q] >= entered[p]
  /\ result' = [result EXCEPT ![p] = Outcome(entered[p], p)]
  /\ UNCHANGED entered

\* Without partners nobody needs to wait.
Pass(p) ==
  /\ ~Waits(p) /\ entered[p] < N
  /\ Partners(entered[p] + 1, p) = {}
  /\ entered' = [entered EXCEPT ![p] = @ + 1]
  /\ result' = [result EXCEPT ![p] = Outcome(entered[p] + 1, p)]

Next == \E p \in Rank : Enter(p) \/ Leave(p) \/ Pass(p)

Spec == Init /\ [][Next]_vars
=============================================================================
