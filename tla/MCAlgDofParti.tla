---------------------------- MODULE MCAlgDofParti ---------------------------
EXTENDS AlgDofParti

CONSTANTS a, b, c, d, e

\* All four meet in a, so that 1 shares nothing with 2 and 3 that one of them owns.
\* 2 and 3 share b and c as well; the order of their mirror is the one of neither.
Locals == 0 :> <<a>> @@ 1 :> <<d, a>> @@ 2 :> <<a, b, c>> @@ 3 :> <<b, e, a, c>>
Gates ==
  0 :> <<[rank |-> 2, dofs |-> <<a>>], [rank |-> 1, dofs |-> <<a>>], [rank |-> 3, dofs |-> <<a>>]>>
  @@ 1 :> <<[rank |-> 2, dofs |-> <<a>>], [rank |-> 0, dofs |-> <<a>>], [rank |-> 3, dofs |-> <<a>>]>>
  @@ 2 :> <<[rank |-> 3, dofs |-> <<c, a, b>>], [rank |-> 1, dofs |-> <<a>>],
            [rank |-> 0, dofs |-> <<a>>]>>
  @@ 3 :> <<[rank |-> 0, dofs |-> <<a>>], [rank |-> 1, dofs |-> <<a>>],
            [rank |-> 2, dofs |-> <<c, a, b>>]>>

\* 2 and 3 have entries of the row of a in columns that 0 does not have, and 1 has none
\* in the row of a at all.
Patterns ==
  0 :> {<<a, a>>}
  @@ 1 :> {<<d, d>>, <<d, a>>}
  @@ 2 :> {<<a, a>>, <<a, b>>, <<b, b>>, <<b, a>>, <<c, c>>}
  @@ 3 :> {<<a, a>>, <<a, e>>, <<b, b>>, <<b, e>>, <<c, c>>, <<c, b>>, <<e, e>>}
Filters == 0 :> {} @@ 1 :> {a, d} @@ 2 :> {a, b} @@ 3 :> {b}

Solves == <<"init_symbolic", "init_numeric", "apply", "allgather", "init_numeric",
            "done_symbolic", "init_symbolic", "init_numeric", "apply">>
=============================================================================
