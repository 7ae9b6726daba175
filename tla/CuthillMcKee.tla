---------------------------- MODULE CuthillMcKee -----------------------------
(***************************************************************************)
(* CuthillMcKee::compute (kernel/adjacency/cuthill_mckee.cpp): numbers the *)
(* nodes of a graph level by level from a root, one component after the    *)
(* other.  lvl1, lvl2 and lvl3 are one-based positions: the first and the  *)
(* last of the current level, and the last that is taken.                  *)
(***************************************************************************)
EXTENDS GraphRender, PermutationArrays, NodeArrays

VARIABLES graph,       \* the graph to be numbered
          options,     \* [reverse, root, sort]: the other arguments
          permutation, \* perm_pos of the result
          swap_pos,    \* swap_pos of the result
          node_mask,   \* nodes that have been processed
          lvl1, lvl2, lvl3, lvl_root,
          pc           \* "idle", "roots", "levels", "done" or "failed"

cmVars == <<graph, options, permutation, swap_pos, node_mask, lvl1, lvl2, lvl3, lvl_root, pc>>

Options == [reverse : BOOLEAN, root : {"default", "minimum", "maximum"},
            sort : {"default", "asc", "desc"}]
NoOptions == [reverse |-> FALSE, root |-> "default", sort |-> "default"]

CMInit ==
  /\ graph = [j \in Node |-> <<>>] /\ options = NoOptions
  /\ permutation = UnsetArray /\ swap_pos = UnsetArray
  /\ node_mask = {} /\ lvl1 = 0 /\ lvl2 = 0 /\ lvl3 = 0 /\ lvl_root = 0
  /\ pc = "idle"

\* The call of compute: the arrays of the permutation are allocated, not initialised.
Compute(g, o) ==
  /\ pc = "idle"
  /\ graph' = g /\ options' = o /\ pc' = "roots"
  /\ UNCHANGED <<permutation, swap_pos, node_mask, lvl1, lvl2, lvl3, lvl_root>>

Degree(j) == Len(graph[j])

\* Slip: the search for the minimum starts from NumNodes.
IsRootBelow(r) ==
  LET unmarked == Node \ node_mask
  IN  /\ r \in unmarked
      /\ IF options.root = "minimum"
         THEN /\ Degree(r) < NumNodes
              /\ \A j \in unmarked : Degree(r) <= Degree(j)
         ELSE \A j \in unmarked : r <= j

\* The first node of the best degree among those that are not marked.  The search for
\* the maximum starts from 0, so it passes over nodes without neighbours; that for the
\* minimum starts from NumNodes + 1.
IsRoot(r) ==
  LET unmarked == Node \ node_mask
      First(Better(_, _)) == \A j \in unmarked : Better(Degree(r), Degree(j))
                                                   \/ (Degree(r) = Degree(j) /\ r <= j)
  IN  /\ r \in unmarked
      /\ CASE options.root = "default" -> \A j \in unmarked : r <= j
           [] options.root = "minimum" -> First(<) /\ Degree(r) < NumNodes + 1
           [] options.root = "maximum" -> First(>) /\ Degree(r) > 0

\* The root of the next component is placed after lvl1.
NextRoot ==
  /\ pc = "roots" /\ lvl2 < NumNodes
  /\ \E r \in Node :
       /\ IsRoot(r)
       /\ permutation' = [permutation EXCEPT ![lvl1] = r]
       /\ node_mask' = node_mask \cup {r}
  /\ lvl1' = lvl1 + 1 /\ lvl2' = lvl1 + 1 /\ lvl3' = lvl1 + 1 /\ lvl_root' = lvl1 + 1
  /\ pc' = "levels"
  /\ UNCHANGED <<graph, options, swap_pos>>

\* InternalError("No root found!")
NoRoot ==
  /\ pc = "roots" /\ lvl2 < NumNodes /\ ~\E r \in Node : IsRoot(r)
  /\ pc' = "failed"
  /\ UNCHANGED <<graph, options, permutation, swap_pos, node_mask, lvl1, lvl2, lvl3, lvl_root>>

\* The nodes next to the current level that have not been processed, in the order in
\* which they are met.
Level == [x \in 1 .. lvl2 - lvl1 + 1 |-> permutation[lvl1 + x - 2]]
Unprocessed == LET met == Injectify(Through(Level, graph))
               IN  AtPlaces(met, {x \in DOMAIN met : met[x] \notin node_mask})

SortLevel(s) ==
  CASE options.sort = "default" -> s
    [] options.sort = "asc" -> InsertionSort(s, [x \in DOMAIN s |-> Degree(s[x])])
    [] options.sort = "desc" -> InsertionSort(s, [x \in DOMAIN s |-> -Degree(s[x])])

NextLevel ==
  /\ pc = "levels" /\ lvl2 < NumNodes /\ Unprocessed # <<>>
  /\ LET level == SortLevel(Unprocessed)
     IN  /\ permutation' = [i \in Node |-> IF i + 1 - lvl2 \in DOMAIN level
                                           THEN level[i + 1 - lvl2] ELSE permutation[i]]
         /\ node_mask' = node_mask \cup ToSet(level)
         /\ lvl3' = lvl2 + Len(level)
  /\ lvl1' = lvl2 + 1 /\ lvl2' = lvl3'
  /\ UNCHANGED <<graph, options, swap_pos, lvl_root, pc>>

\* Slip: the whole array up to the end of the component is reversed.
EndComponentFromStart ==
  /\ pc = "levels" /\ (lvl2 < NumNodes => Unprocessed = <<>>)
  /\ permutation' =
       IF options.reverse
       THEN [i \in Node |-> IF i < lvl2 THEN permutation[lvl2 - 1 - i] ELSE permutation[i]]
       ELSE permutation
  /\ pc' = "roots"
  /\ UNCHANGED <<graph, options, swap_pos, node_mask, lvl1, lvl2, lvl3, lvl_root>>

\* No node is left next to the component, or none at all: reverse its part of the array.
EndComponent ==
  /\ pc = "levels" /\ (lvl2 < NumNodes => Unprocessed = <<>>)
  /\ permutation' =
       IF options.reverse
       THEN [i \in Node |-> IF i \in lvl_root - 1 .. lvl2 - 1
                            THEN permutation[lvl_root + lvl2 - 2 - i] ELSE permutation[i]]
       ELSE permutation
  /\ pc' = "roots"
  /\ UNCHANGED <<graph, options, swap_pos, node_mask, lvl1, lvl2, lvl3, lvl_root>>

ReturnPermutation ==
  /\ pc = "roots" /\ lvl2 >= NumNodes
  /\ swap_pos' = SwapFromPerm(permutation)
  /\ pc' = "done"
  /\ UNCHANGED <<graph, options, permutation, node_mask, lvl1, lvl2, lvl3, lvl_root>>

CMStep == NextRoot \/ NoRoot \/ NextLevel \/ EndComponent \/ ReturnPermutation
=============================================================================
