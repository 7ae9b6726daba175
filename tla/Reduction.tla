----------------------------- MODULE Reduction ------------------------------
(***************************************************************************)
(* What a ticket of a global scalar operation promises: every process may  *)
(* join a ticket at a time of its own, and gets a result only after all    *)
(* processes have joined, which is made of the values that they all gave   *)
(* to this very ticket.                                                    *)
(***************************************************************************)
CONSTANTS Rank,    \* the processes of the communicator
          Ticket   \* the operations

VARIABLES joined,  \* the tickets a process has joined
          result   \* the contributions in a process' result: pairs of a process
                   \* and the ticket its value was given to; none as yet: {}

vars == <<joined, result>>

Init ==
  /\ joined = [p \in Rank |-> {}]
  /\ result = [p \in Rank |-> [t \in Ticket |-> {}]]

Join(p, t) ==
  /\ t \notin joined[p]
  /\ joined' = [joined EXCEPT ![p] = @ \cup {t}]
  /\ UNCHANGED result

Deliver(p, t) ==
  /\ \A q \in Rank : t \in joined[q]
  /\ result[p][t] = {}
  /\ result' = [result EXCEPT ![p][t] = Rank \X {t}]
  /\ UNCHANGED joined

Next == \E p \in Rank, t \in Ticket : Join(p, t) \/ Deliver(p, t)

Spec == Init /\ [][Next]_vars
=============================================================================
