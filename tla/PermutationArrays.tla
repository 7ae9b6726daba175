-------------------------- MODULE PermutationArrays --------------------------
(***************************************************************************)
(* kernel/adjacency/permutation.{hpp,cpp}: a permutation has two arrays.   *)
(* perm_pos[i] is the old position of what comes to position i; swap_pos   *)
(* lists the exchanges that bring an array in this order without a copy.   *)
(***************************************************************************)
EXTENDS Integers, FiniteSets, SequencesExt

Identity(n) == [i \in 0 .. n - 1 |-> i]
Size(p) == Cardinality(DOMAIN p)
Exchange(x, i, j) == [x EXCEPT ![i] = x[j], ![j] = x[i]]

\* Slip: an entry is looked for where it was before the exchanges.
SwapUntraced(perm) == perm

\* calc_swap_from_perm: follows an entry through the exchanges made before.
SwapFromPerm(perm) ==
  LET swap[i \in DOMAIN perm] ==
        LET trace[j \in DOMAIN perm] == IF j < i THEN trace[swap[j]] ELSE j
        IN  trace[perm[i]]
  IN  swap

\* operator()(x): exchanges 0, 1, ..., n - 2; backwards for the inverse.
Exchanges(swap, at, x) ==
  LET after[k \in 0 .. Len(at)] ==
        IF k = 0 THEN x ELSE Exchange(after[k - 1], at[k], swap[at[k]])
  IN  after[Len(at)]

Forward(n) == [i \in 1 .. n - 1 |-> i - 1]
InSitu(swap, x) == Exchanges(swap, Forward(Size(x)), x)
InSituInverse(swap, x) == Exchanges(swap, Reverse(Forward(Size(x))), x)

\* operator()(y, x) and the same for the inverse, with a second array.
Gather(perm, x) == [i \in DOMAIN x |-> x[perm[i]]]
Scatter(perm, x) == [k \in DOMAIN x |-> x[CHOOSE i \in DOMAIN x : perm[i] = k]]

\* calc_perm_from_swap, and the constructor from the inverse array.
PermFromSwap(swap) == InSitu(swap, Identity(Size(swap)))
PermFromInverse(v) == Scatter(v, Identity(Size(v)))
=============================================================================
