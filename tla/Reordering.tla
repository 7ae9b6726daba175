----------------------------- MODULE Reordering ------------------------------
(***************************************************************************)
(* A program that renumbers a system: SymbolicAssembler makes the pattern  *)
(* of the matrix from the DOFs of the cells, CuthillMcKee numbers its      *)
(* graph, SparseMatrixCSR::permute and DenseVector::permute bring matrix   *)
(* and vector in this order and back, and a Colouring is made of the graph *)
(* in the old or of the matrix in the new order.                           *)
(***************************************************************************)
EXTENDS CuthillMcKee, Colouring

CONSTANTS DofGraphs  \* the mappings of cells to DOFs that are tried

\* Cells are counted from 0, as the nodes are.
ASSUME DofGraphsAssumption ==
  \A g \in DofGraphs : /\ IsFiniteSet(DOMAIN g) /\ DOMAIN g = Below(Cardinality(DOMAIN g))
                       /\ \A c \in DOMAIN g : g[c] \in Seq(Nat)

VARIABLES dof_graph,   \* cell -> DOFs
          matrix,      \* row -> entries in the order of the array, of column and value
          vector,      \* DOF -> value
          phase        \* what the program has done

systemVars == <<dof_graph, matrix, vector, phase>>
vars == <<cmVars, colVars, systemVars>>

\* Cells have DOFs of their own order, every DOF is in a cell, and none twice in one.
IsDofGraph(g) ==
  /\ \A c \in DOMAIN g : IsInjective(g[c]) /\ ToSet(g[c]) \subseteq Node
  /\ Node = UNION {ToSet(g[c]) : c \in DOMAIN g}

Init ==
  /\ CMInit /\ ColInit
  /\ dof_graph \in {g \in DofGraphs : IsDofGraph(g)}
  /\ matrix = [i \in Node |-> <<>>] /\ vector = UnsetArray
  /\ phase = "begin"

\* The graph of a matrix: its column indices (RenderType::as_is).
GraphOf(m) == [i \in Node |-> [x \in DOMAIN m[i] |-> m[i][x].col]]

\* assemble_graph_std1, and values that tell every entry from all others.
Assemble ==
  /\ phase = "begin"
  /\ LET support == RenderTranspose(dof_graph, NumNodes)
         adjactor == SortIndices(RenderInjectify(support, dof_graph))
     IN  matrix' = [i \in Node |-> [x \in DOMAIN adjactor[i] |->
                      [col |-> adjactor[i][x], val |-> <<i, adjactor[i][x]>>]]]
  /\ vector' = [i \in Node |-> i]
  /\ phase' = "assembled"
  /\ UNCHANGED <<dof_graph, cmVars, colVars>>

Renumber ==
  /\ phase = "assembled"
  /\ \E o \in Options : Compute(GraphOf(matrix), o)
  /\ phase' = "numbering"
  /\ UNCHANGED <<dof_graph, matrix, vector, colVars>>

Number == /\ phase = "numbering" /\ CMStep
          /\ UNCHANGED <<systemVars, colVars>>

SortRow(row) == InsertionSort(row, [x \in DOMAIN row |-> row[x].col])

\* Slip: columns get their old numbers.
PermuteMatrixByOld(m, permRow, permCol) ==
  LET renamed(s) == [x \in DOMAIN s |-> [s[x] EXCEPT !.col = permCol[@]]]
  IN  [i \in DOMAIN m |-> SortRow(renamed(m[permRow[i]]))]

\* SparseMatrixCSR::permute: rows are copied in their new order, columns get the numbers
\* that the inverse gives them, and every row is sorted by columns again.
PermuteMatrix(m, permRow, permCol) ==
  LET number == PermFromInverse(permCol)
      renamed(s) == [x \in DOMAIN s |-> [s[x] EXCEPT !.col = number[@]]]
  IN  [i \in DOMAIN m |-> SortRow(renamed(m[permRow[i]]))]

\* DenseVector::permute
PermuteVector(swap, x) == InSitu(swap, x)

PermuteSystem ==
  /\ phase = "numbering" /\ pc = "done"
  /\ matrix' = PermuteMatrix(matrix, permutation, permutation)
  /\ vector' = PermuteVector(swap_pos, vector)
  /\ phase' = "permuted"
  /\ UNCHANGED <<dof_graph, cmVars, colVars>>

\* Two colourings, one after the other: the first keeps the graph and takes its nodes in
\* the new order, the second takes the permuted matrix.
ColourInOrder ==
  /\ phase = "permuted" /\ Construct(graph, TRUE, permutation)
  /\ phase' = "coloured once"
  /\ UNCHANGED <<dof_graph, matrix, vector, cmVars>>

ColourMatrix ==
  /\ phase = "coloured once" /\ Construct(GraphOf(matrix), FALSE, Identity(NumNodes))
  /\ phase' = "coloured twice"
  /\ UNCHANGED <<dof_graph, matrix, vector, cmVars>>

Colour == /\ ColStep
          /\ UNCHANGED <<systemVars, cmVars>>

\* Back to the old order by Permutation::inverse.
PermuteBack ==
  /\ phase = "coloured twice" /\ next = NumNodes
  /\ LET inverse == PermFromInverse(permutation)
     IN  /\ matrix' = PermuteMatrix(matrix, inverse, inverse)
         /\ vector' = PermuteVector(SwapFromPerm(inverse), vector)
  /\ phase' = "restored"
  /\ UNCHANGED <<dof_graph, cmVars, colVars>>

Next == \/ Assemble \/ Renumber \/ Number \/ PermuteSystem
        \/ ColourInOrder \/ ColourMatrix \/ Colour \/ PermuteBack

Spec == Init /\ [][Next]_vars

----------------------------------------------------------------------------
\* Two DOFs are coupled if a cell has both of them.
Coupled(i, j) == \E c \in DOMAIN dof_graph : {i, j} \subseteq ToSet(dof_graph[c])

\* Row i is about DOF p[i], whose couplings it has in ascending order of their columns,
\* and so is entry i of the vector: products of matrix and vector are the same as before.
IsSystemOf(p) ==
  /\ vector = p
  /\ \A i \in Node :
       /\ ToSet(matrix[i]) = {[col |-> j, val |-> <<p[i], p[j]>>] :
                                j \in {k \in Node : Coupled(p[i], p[k])}}
       /\ \A x, y \in DOMAIN matrix[i] : x < y => matrix[i][x].col < matrix[i][y].col

\* Whatever the order, the system is the one that was assembled: the entries of a row
\* come from a transposition, a composition and a sort, and a permutation moves them by
\* rows, by columns and by exchanges, each with a convention of its own of what is old
\* and what is new.  [symbolic_assembler.hpp:90, sparse_matrix_csr.hpp:2338, dense_vector.hpp:1065]
SystemIsTheSame ==
  /\ phase \in {"assembled", "restored"} => IsSystemOf(Identity(NumNodes))
  /\ phase = "permuted" => IsSystemOf(permutation)

Numbered == phase = "numbering" /\ pc = "done"

\* A permutation has one meaning, forwards and backwards: its exchanges do what its other
\* array says, and each can be made from the other; a graph that is permuted by its
\* constructor - which is to be told the new numbers of image nodes, not their old ones -
\* is the graph of the permuted matrix.  [permutation.cpp:144, 158, permutation.hpp:184, graph.cpp:145]
PermutationsAgree ==
  /\ Numbered =>
       /\ InSitu(swap_pos, Identity(NumNodes)) = Gather(permutation, Identity(NumNodes))
       /\ InSituInverse(swap_pos, Identity(NumNodes)) = Scatter(permutation, Identity(NumNodes))
       /\ SwapFromPerm(PermFromSwap(swap_pos)) = swap_pos
  /\ phase = "permuted" =>
       SortIndices(PermutedGraph(graph, permutation, PermFromInverse(permutation))) = GraphOf(matrix)

----------------------------------------------------------------------------
\* Ball(r)[k]: what is at most k steps away from r; End(r): what is farthest away.
Around(S) == S \cup UNION {ToSet(graph[i]) : i \in S}
Ball(r) == LET ball[k \in 0 .. NumNodes] == IF k = 0 THEN {r} ELSE Around(ball[k - 1]) IN ball
Distance(r, n) == CHOOSE k \in 0 .. NumNodes :
                    n \in Ball(r)[k] /\ (k > 0 => n \notin Ball(r)[k - 1])
End(r) == LET component == Ball(r)[NumNodes]
          IN  {m \in component : \A n \in component : Distance(r, n) <= Distance(r, m)}

\* What is asked of a root: no node n is a better one than r, nor as good and earlier.
NoWorse(r, n) ==
  CASE options.root = "default" -> r <= n
    [] options.root = "minimum" -> Degree(r) < Degree(n) \/ (Degree(r) = Degree(n) /\ r <= n)
    [] options.root = "maximum" -> Degree(r) > Degree(n) \/ (Degree(r) = Degree(n) /\ r <= n)

\* "This function creates a Cuthill-McKee permutation of the given graph"
\* (cuthill_mckee.hpp:90), and has a loop of its own for graphs of several components
\* (cuthill_mckee.cpp:229, "the separability loop"): it returns a permutation of all of them.
EveryGraphIsNumbered == pc # "failed"

\* The root that its component r belongs to gets, and whether it is wide: several nodes
\* are as far from it as nodes of the component are.
IsRootOfComponent(r) == \A n \in Ball(r)[NumNodes] : NoWorse(r, n)
HasWideEnd(r) == Cardinality(End(r)) > 1

\* compute fails for a graph if, and only if, a component that is not the last has more
\* than one node in its last level, seen from the root that it gets: then the root of the
\* next component is placed over the second node of this level, and in the end there is
\* a place left and no node for it.  Connected graphs are numbered, and so are those with
\* a wide end in their last component only.  [cuthill_mckee.cpp:114]
FailsForWideEndsOnly ==
  LET WideBefore == \E r, s \in Node : /\ IsRootOfComponent(r) /\ IsRootOfComponent(s)
                                      /\ r # s /\ NoWorse(r, s) /\ HasWideEnd(r)
  IN  /\ pc = "failed" => WideBefore
      /\ Numbered => ~WideBefore

\* The numbering of Cuthill and McKee: one component after the other; the first (in the
\* reversed numbering the last) node of each is the best root of those that are left, and
\* its other nodes follow by their distance from it, by their degrees if they are sorted, and
\* otherwise by the first of their neighbours one level before.
NumberedByLevels ==
  Numbered =>
       LET component == [n \in Node |-> Ball(n)[NumNodes]]
           position == PermFromInverse(permutation)
           Precedes(m, n) == IF options.reverse /\ n \in component[m]
                             THEN position[m] > position[n] ELSE position[m] < position[n]
           Root(n) == CHOOSE r \in component[n] : \A m \in component[n] : r = m \/ Precedes(r, m)
           root == [n \in Node |-> Root(n)]
           level == [n \in Node |-> Distance(root[n], n)]
           Parent(n) == CHOOSE m \in ToSet(graph[n]) :
                          /\ level[m] = level[n] - 1
                          /\ \A k \in ToSet(graph[n]) \ {m} : level[k] = level[m] => Precedes(m, k)
           Sooner(m, n) == CASE options.sort = "default" -> FALSE
                             [] options.sort = "asc" -> Degree(m) < Degree(n)
                             [] options.sort = "desc" -> Degree(m) > Degree(n)
       IN  /\ ToSet([x \in 1 .. NumNodes |-> permutation[x - 1]]) = Node
           /\ \A m, n \in Node :
                /\ (n \in component[m] \/ Precedes(m, n)) => NoWorse(root[m], n)
                /\ (n \notin component[m] /\ Precedes(m, n)) => \A k \in component[m] : Precedes(k, n)
                /\ (n \in component[m] /\ level[m] < level[n]) => Precedes(m, n)
                /\ (n \in component[m] /\ level[m] = level[n] /\ m # n) =>
                     /\ Sooner(m, n) => Precedes(m, n)
                     /\ (~Sooner(m, n) /\ ~Sooner(n, m) /\ Precedes(Parent(m), Parent(n)))
                          => Precedes(m, n)
=============================================================================
