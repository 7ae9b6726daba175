------------------------------ MODULE Colouring ------------------------------
(***************************************************************************)
(* Colouring::Colouring(graph) and Colouring::Colouring(graph, order) of   *)
(* kernel/adjacency/colouring.cpp: nodes get one colour after the other,   *)
(* the one used least that no neighbour has, or else a new one.            *)
(***************************************************************************)
EXTENDS GraphRender, NodeArrays

VARIABLES neighbours,  \* the graph
          ordered,     \* whether an order is given
          order,       \* the order of the nodes
          colouring,   \* node -> colour
          num_colours, \* colours that are used
          col_num,     \* colour -> number of its nodes
          next         \* how many nodes have their colour; NumNodes before and after

colVars == <<neighbours, ordered, order, colouring, num_colours, col_num, next>>

\* A graph is symmetric if it is rendered from one mapping and its transpose; an order is
\* a permutation of the nodes.
Symmetric(g) == \A i \in Node : \A x \in DOMAIN g[i] : \E y \in DOMAIN g[g[i][x]] : g[g[i][x]][y] = i
GraphOfNodes(g) == /\ g \in [Node -> Seq(Node)]
                   /\ Symmetric(g)
IsOrder(o) == /\ o \in [Node -> Node]
              /\ \A i, j \in Node : o[i] = o[j] => i = j
              /\ \A i \in Node : \E k \in Node : o[k] = i

ColInit ==
  /\ neighbours = [i \in Node |-> <<>>] /\ ordered = FALSE /\ order = [i \in Node |-> i]
  /\ colouring = UnsetArray
  /\ num_colours = 0 /\ col_num = [c \in Node |-> 0] /\ next = NumNodes

\* A constructor is called, and whatever this object was before is overwritten.
Construct(g, isOrdered, o) ==
  /\ next = NumNodes
  /\ GraphOfNodes(g) /\ IsOrder(o)
  /\ neighbours' = g /\ ordered' = isOrdered /\ order' = o
  /\ colouring' = UnsetArray
  /\ num_colours' = 0 /\ col_num' = [c \in Node |-> 0] /\ next' = 0

\* Slip: a node's own entry is compared instead of its neighbour's.
HasColourAtNode(m, i) == IF ordered THEN colouring[i] # Unset ELSE m < i

\* col_aux: the colours of neighbours that have one.  Without an order these are the
\* neighbours of lower index; the entries of the others are not initialised.
Neighbours(i) == {neighbours[i][x] : x \in DOMAIN neighbours[i]}
HasColour(m, i) == IF ordered THEN colouring[m] # Unset ELSE m < i
Taken(i) == {colouring[m] : m \in {n \in Neighbours(i) : HasColour(n, i)}}
Free(i) == (0 .. num_colours - 1) \ Taken(i)

Assign(i, c) == /\ colouring' = [colouring EXCEPT ![i] = c]
                /\ col_num' = [col_num EXCEPT ![c] = @ + 1]

ColourNode(i) ==
  \/ \E c \in Free(i) :
       /\ \A d \in Free(i) : col_num[c] < col_num[d] \/ (col_num[c] = col_num[d] /\ c <= d)
       /\ Assign(i, c)
       /\ UNCHANGED num_colours
  \/ /\ Free(i) = {}
     /\ Assign(i, num_colours)
     /\ num_colours' = num_colours + 1

ColStep ==
  /\ next < NumNodes
  /\ ColourNode(IF ordered THEN order[next] ELSE next)
  /\ next' = next + 1
  /\ UNCHANGED <<neighbours, ordered, order>>

ColNext == \/ \E g \in [Node -> Seq(Node)], b \in BOOLEAN, o \in [Node -> Node] : Construct(g, b, o)
           \/ ColStep

ColSpec == ColInit /\ [][ColNext]_colVars

----------------------------------------------------------------------------
NodesOfColour(colours, c) ==
  AtPlaces([x \in 1 .. NumNodes |-> x - 1], {x \in 1 .. NumNodes : colours[x - 1] = c})

\* Slip: the greatest colour is taken for the number of colours.
PartitionToMaxColour(colours, num) == [c \in 0 .. num - 2 |-> NodesOfColour(colours, c)]

\* create_partition_graph: the nodes of each colour, in ascending order.
PartitionGraph(colours, num) == [c \in 0 .. num - 1 |-> NodesOfColour(colours, c)]

\* clone goes through the constructor from an array, which counts the colours anew.
ClonedColours == Cardinality({colouring[i] : i \in Node})

----------------------------------------------------------------------------
Finished == next = NumNodes

\* Nodes next to each other do not get one colour, in whatever order they are taken and
\* although each looks only at those before it.  [colouring.hpp:84, 95]
ProperColouring ==
  \A i \in Node : \A j \in Neighbours(i) \ {i} :
    (colouring[i] # Unset /\ colouring[j] # Unset) => colouring[i] # colouring[j]

\* The arrays of counts have one entry more than the degree of the graph: every colour is
\* within the degree of some node, so no colour is beyond their end.
ColoursFit == \A c \in 0 .. num_colours - 1 : \E i \in Node : c <= Len(neighbours[i])

\* The counts by which the least used colour is chosen are right, and no colour is without
\* a node, which clone and get_max_colour rely on.
UsesAreCounted ==
  /\ \A c \in 0 .. num_colours - 1 :
       /\ col_num[c] = Cardinality({i \in Node : colouring[i] = c})
       /\ col_num[c] > 0
  /\ \A i \in Node : colouring[i] = Unset \/ colouring[i] < num_colours

\* The partition graph of a clone has every node in one list, and no two of one list
\* are next to each other: its lists can be worked on in parallel.
PartitionIsIndependent ==
  (Finished /\ num_colours > 0) =>
    LET parts == PartitionGraph(colouring, ClonedColours)
        Part(c) == {parts[c][x] : x \in DOMAIN parts[c]}
    IN  /\ \A i \in Node : Cardinality({c \in DOMAIN parts : i \in Part(c)}) = 1
        /\ \A c \in DOMAIN parts : \A i, j \in Part(c) : i = j \/ j \notin Neighbours(i)
=============================================================================
