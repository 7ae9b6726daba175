----------------------------- MODULE GraphRender -----------------------------
(***************************************************************************)
(* How kernel/adjacency/graph.hpp renders adjactors.  A graph is the list  *)
(* of image nodes of every domain node, counted from 0: its arrays of      *)
(* pointers and of indices are one function of sequences here.             *)
(***************************************************************************)
EXTENDS Integers, FiniteSets, SequencesExt, Selection

Below(n) == 0 .. n - 1

\* Every entry once, where it comes first.
Injectify(s) == AtPlaces(s, {x \in DOMAIN s : \A y \in 1 .. x - 1 : s[y] # s[x]})

\* Linear insertion by ascending keys, which keeps the order of entries with the same key.
InsertionSort(s, keys) ==
  ByRank(s, [x \in DOMAIN s |-> Cardinality({y \in DOMAIN s : \/ keys[y] < keys[x]
                                                              \/ y <= x /\ keys[y] = keys[x]})])

SortIndices(g) == [i \in DOMAIN g |-> InsertionSort(g[i], g[i])]

\* Domain nodes are counted through, so the lists of the transposed graph are ascending.
RenderTranspose(g, numImage) ==
  [k \in Below(numImage) |->
     FlattenSeq([j \in 1 .. Cardinality(DOMAIN g) |->
       [x \in 1 .. Cardinality({y \in DOMAIN g[j - 1] : g[j - 1][y] = k}) |-> j - 1]])]

\* What the nodes of a list are adjacent to, one after the other.
Through(s, g) == FlattenSeq([x \in DOMAIN s |-> g[s[x]]])

RenderInjectify(g, h) == [i \in DOMAIN g |-> Injectify(Through(g[i], h))]

\* Graph(other, domain_perm, image_perm) takes row domain_perm[i] of the other graph,
\* and gives the image node k the new number image_perm[k].
PermutedGraph(g, domainPerm, imagePerm) ==
  [i \in DOMAIN g |-> LET s == g[domainPerm[i]]
                      IN  [x \in DOMAIN s |-> imagePerm[s[x]]]]
=============================================================================
