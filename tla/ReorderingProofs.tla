-------------------------- MODULE ReorderingProofs ---------------------------
(***************************************************************************)
(* Theorems for any number of nodes, all graphs, mappings and options:     *)
(* nodes next to each other get different colours, and the lists of nodes  *)
(* of one colour are what they should be; Cuthill-McKee returns a          *)
(* permutation, whose two arrays agree and which goes through components   *)
(* and levels in order; a system that is assembled, permuted and permuted  *)
(* back is the same.                                                       *)
(*                                                                         *)
(* Sorts and selections take entries by their ranks: the first section     *)
(* says which, the later ones what lists, exchanges and rows are then.     *)
(* Inv is the invariant of Colouring, CMInv that of CuthillMcKee, SysInv   *)
(* that of the program that uses both, and LevelsInv says what has been    *)
(* numbered so far: whole components, and a ball around the last root.     *)
(***************************************************************************)
EXTENDS Reordering, DataLemmas

----------------------------------------------------------------------------
(* Sorts.                                                                  *)

\* InsertionSort takes the entries by their keys, and those of the same key in their order.
SortsBy(p, n, keys) ==
  /\ p \in [1 .. n -> 1 .. n]
  /\ \A x \in 1 .. n : \E r \in 1 .. n : p[r] = x
  /\ \A a, b \in 1 .. n : a < b =>
       keys[p[a]] < keys[p[b]] \/ (keys[p[a]] = keys[p[b]] /\ p[a] < p[b])

Sorts(p, s, n, keys) ==
  /\ SortsBy(p, n, keys)
  /\ InsertionSort(s, keys) = [r \in 1 .. n |-> s[p[r]]]

LEMMA InsertionSortIs ==
  ASSUME NEW s, NEW n \in Nat, DOMAIN s = 1 .. n, NEW keys, \A x \in 1 .. n : keys[x] \in Int
  PROVE  \E p : Sorts(p, s, n, keys)
<1> DEFINE S == DOMAIN s
           R == {e \in S \X S : \/ keys[e[1]] < keys[e[2]]
                                \/ e[1] <= e[2] /\ keys[e[1]] = keys[e[2]]}
           rank == [x \in DOMAIN s |-> Cardinality({y \in DOMAIN s : \/ keys[y] < keys[x]
                                                                     \/ y <= x /\ keys[y] = keys[x]})]
           K == [x \in S |-> keys[x]]
<1>1. IsFiniteSet(S) /\ Cardinality(S) = n
  <2>1. Cardinality(1 .. n) = IF 1 > n THEN 0 ELSE n - 1 + 1
    BY FS_Interval
  <2> QED
    BY <2>1, FS_Interval
<1>2. K \in [S -> Int] /\ S \subseteq Int
  OBVIOUS
<1>3. \A x, y \in S : <<x, y>> \in R <=> (keys[x] < keys[y] \/ (x <= y /\ keys[x] = keys[y]))
  OBVIOUS
<1>4. rank = [x \in S |-> Cardinality(Upto(R, S, x))]
  <2>1. ASSUME NEW x \in S PROVE rank[x] = Cardinality(Upto(R, S, x))
    <3>1. PICK up : up = {y \in DOMAIN s : \/ keys[y] < keys[x]
                                           \/ y <= x /\ keys[y] = keys[x]}
      OBVIOUS
    <3>2. rank[x] = Cardinality(up)
      BY <3>1
    <3>3. Upto(R, S, x) = up
      <4>1. \A y \in S : y \in up <=> (keys[y] < keys[x] \/ (y <= x /\ keys[y] = keys[x]))
        BY <3>1
      <4>2. up \subseteq S
        BY <3>1
      <4> HIDE DEF R, S
      <4> QED
        BY <1>3, <4>1, <4>2 DEF Upto
    <3> HIDE DEF R, S, rank
    <3> QED
      BY <3>2, <3>3
  <2>2. rank = [x \in S |-> rank[x]]
    OBVIOUS
  <2> HIDE DEF rank, S, R
  <2> QED
    BY <2>1, <2>2
<1>5. InsertionSort(s, keys) = ByRank(s, rank)
  BY DEF InsertionSort
<1>6. \A x \in S : K[x] = keys[x]
  OBVIOUS
<1> HIDE DEF R, rank, K
<1>7. IsOrderOf(R, S)
  <2> HIDE DEF S
  <2>1. \A x, y \in S : <<x, y>> \in R <=> (K[x] < K[y] \/ (x <= y /\ K[x] = K[y]))
    BY <1>3, <1>6
  <2>3. \A x \in S : <<x, x>> \in R
    BY <1>2, <2>1
  <2>4. ASSUME NEW x \in S, NEW y \in S PROVE <<x, y>> \in R \/ <<y, x>> \in R
    <3>1. K[x] \in Int /\ K[y] \in Int /\ x \in Int /\ y \in Int
      BY <1>2
    <3>2. K[x] < K[y] \/ K[y] < K[x] \/ (K[x] = K[y] /\ (x <= y \/ y <= x))
      BY <3>1
    <3> QED
      BY <2>1, <3>2
  <2>5. \A x, y \in S : <<x, y>> \in R /\ <<y, x>> \in R => x = y
    BY <1>2, <2>1
  <2>6. \A x, y, z \in S : <<x, y>> \in R /\ <<y, z>> \in R => <<x, z>> \in R
    BY <1>2, <2>1
  <2> QED
    BY <2>3, <2>4, <2>5, <2>6 DEF IsOrderOf
<1>8. PICK p : Lists(p, R, S) /\ ByRank(s, rank) = [r \in 1 .. n |-> s[p[r]]]
  <2> HIDE DEF S
  <2>1. PICK p : Enumerates(p, rank, R, S)
    BY <1>1, <1>4, <1>7, ByRankIs
  <2> QED
    BY <1>1, <2>1 DEF Enumerates
<1>9. SortsBy(p, n, keys)
  <2>1. p \in [S -> S] /\ \A x \in S : \E r \in S : p[r] = x
    BY <1>1, <1>8 DEF Lists
  <2>2. ASSUME NEW a \in S, NEW b \in S, a < b
        PROVE  keys[p[a]] < keys[p[b]] \/ (keys[p[a]] = keys[p[b]] /\ p[a] < p[b])
    <3>1. p[a] # p[b] /\ <<p[a], p[b]>> \in R
      BY <1>1, <1>8, <2>2 DEF Lists
    <3>2. p[a] \in S /\ p[b] \in S
      BY <2>1
    <3>3. keys[p[a]] < keys[p[b]] \/ (p[a] <= p[b] /\ keys[p[a]] = keys[p[b]])
      BY <1>3, <3>1, <3>2
    <3>4. p[a] \in Int /\ p[b] \in Int
      BY <1>2, <3>2
    <3> QED
      BY <3>1, <3>3, <3>4
  <2> QED
    BY <2>1, <2>2 DEF SortsBy
<1> QED
  BY <1>5, <1>8, <1>9 DEF Sorts
NodeAt(k) == IF ordered THEN order[k] ELSE k

Shape ==
  /\ GraphOfNodes(neighbours) /\ ordered \in BOOLEAN /\ IsOrder(order)
  /\ colouring \in [Node -> Nat \cup {Unset}]
  /\ num_colours \in Nat /\ col_num \in [Node -> Nat] /\ next \in 0 .. NumNodes

\* Before a constructor is called nothing has a colour; in it, the nodes that were taken.
Progress ==
  \/ next = NumNodes /\ \A i \in Node : colouring[i] = Unset
  \/ \A i \in Node : colouring[i] # Unset <=> \E k \in 0 .. next - 1 : NodeAt(k) = i

OfColour(c) == {i \in Node : colouring[i] = c}

Counted ==
  /\ \A i \in Node : colouring[i] # Unset => colouring[i] < num_colours
  /\ \A c \in 0 .. num_colours - 1 : c \in Node /\ OfColour(c) # {}
  /\ \A c \in Node : col_num[c] = Cardinality(OfColour(c))

Inv == Shape /\ Progress /\ Counted /\ ColoursFit /\ ProperColouring

----------------------------------------------------------------------------
\* There are NumNodes nodes.
LEMMA NodesAreFinite == IsFiniteSet(Node) /\ Cardinality(Node) = NumNodes /\ Unset \notin Nat
BY FS_Interval, NumNodesAssumption, UnsetAssumption DEF Node

\* If every number below n has an element of its own in a finite set, n is at most its size.
LEMMA EachHasItsOwn ==
  ASSUME NEW n \in Nat, NEW T, IsFiniteSet(T), NEW f \in [0 .. n - 1 -> T],
         \A c, d \in 0 .. n - 1 : f[c] = f[d] => c = d
  PROVE  n <= Cardinality(T)
<1>1. f \in Injection(0 .. n - 1, T)
  BY DEF Injection, IsInjective
<1>2. Cardinality(0 .. n - 1) <= Cardinality(T)
  BY <1>1, FS_Injection
<1>3. Cardinality(0 .. n - 1) = n
  <2>1. Cardinality(0 .. n - 1) = IF 0 > n - 1 THEN 0 ELSE n - 1 - 0 + 1
    BY FS_Interval
  <2> QED
    BY <2>1
<1> QED
  BY <1>2, <1>3

\* The sets of nodes of one colour are finite.
LEMMA ColoursAreFinite ==
  ASSUME NEW c PROVE IsFiniteSet(OfColour(c)) /\ Cardinality(OfColour(c)) \in Nat
<1>1. OfColour(c) \in SUBSET Node
  BY DEF OfColour
<1> QED
  BY <1>1, NodesAreFinite, FS_Subset, FS_CardinalityType

LEMMA InitInv == ColInit => Inv
<1> SUFFICES ASSUME ColInit PROVE Inv
  OBVIOUS
<1> USE DEF ColInit
<1>1. Shape
  <2>1. GraphOfNodes(neighbours)
    BY DEF GraphOfNodes, Symmetric
  <2>2. IsOrder(order)
    BY DEF IsOrder
  <2>3. colouring \in [Node -> Nat \cup {Unset}]
    BY DEF UnsetArray
  <2>4. ordered \in BOOLEAN /\ num_colours \in Nat /\ next \in 0 .. NumNodes
    <3>1. ordered \in BOOLEAN
      BY Zenon
    <3>2. num_colours \in Nat /\ next \in 0 .. NumNodes
      BY NumNodesAssumption
    <3> QED
      BY <3>1, <3>2
  <2>5. col_num \in [Node -> Nat]
    <3>1. col_num = [c \in Node |-> 0]
      OBVIOUS
    <3> QED
      BY <3>1
  <2> QED
    BY <2>1, <2>2, <2>3, <2>4, <2>5 DEF Shape
<1>2. \A i \in Node : colouring[i] = Unset
  BY DEF UnsetArray
<1>3. Progress
  BY <1>2 DEF Progress
<1>4. Counted
  <2>1. \A c \in Node : OfColour(c) = {}
    BY <1>2, NodesAreFinite DEF OfColour, Node
  <2>2. \A c \in Node : col_num[c] = Cardinality(OfColour(c))
    BY <2>1, FS_EmptySet
  <2> QED
    BY <1>2, <2>2 DEF Counted
<1> QED
  BY <1>1, <1>2, <1>3, <1>4 DEF Inv, ColoursFit, ProperColouring, Neighbours

\* The call of a constructor leaves nothing of an earlier colouring.
LEMMA ConstructInv ==
  ASSUME NEW g \in [Node -> Seq(Node)], NEW b \in BOOLEAN, NEW o \in [Node -> Node],
         Construct(g, b, o)
  PROVE  Inv'
<1> USE DEF Construct
<1>1. Shape'
  <2>1. GraphOfNodes(neighbours)' /\ IsOrder(order)'
    BY DEF GraphOfNodes, Symmetric, IsOrder
  <2> QED
    BY <2>1, NumNodesAssumption DEF Shape, UnsetArray
<1>2. \A i \in Node : colouring'[i] = Unset
  BY DEF UnsetArray
<1>3. Progress'
  <2>1. 0 .. next' - 1 = {}
    OBVIOUS
  <2> QED
    BY <1>2, <2>1 DEF Progress
<1>4. Counted'
  <2>1. \A c \in Node : OfColour(c)' = {}
    BY <1>2, NodesAreFinite DEF OfColour, Node
  <2>2. \A c \in Node : col_num'[c] = Cardinality(OfColour(c)')
    BY <2>1, FS_EmptySet
  <2> QED
    BY <1>2, <2>2 DEF Counted
<1> QED
  BY <1>1, <1>2, <1>3, <1>4 DEF Inv, ColoursFit, ProperColouring, Neighbours

----------------------------------------------------------------------------
\* The node that is taken has no colour yet, and the neighbours that are looked at are
\* those with a colour, in both constructors.
LEMMA TakenNode ==
  ASSUME Inv, next < NumNodes, NEW i, i = NodeAt(next)
  PROVE  /\ i \in Node /\ colouring[i] = Unset
         /\ \A m \in Node : HasColour(m, i) <=> colouring[m] # Unset
<1> USE DEF Inv, Shape
<1>1. next \in Node /\ \A k \in 0 .. next - 1 : k \in Node /\ k # next
  BY NumNodesAssumption DEF Node
<1>2. i \in Node /\ \A k \in 0 .. next - 1 : NodeAt(k) # i
  BY <1>1 DEF NodeAt, IsOrder
<1>3. \A j \in Node : colouring[j] # Unset <=> \E k \in 0 .. next - 1 : NodeAt(k) = j
  BY NumNodesAssumption DEF Progress
<1>4. ~ordered => \A m \in Node : m < i <=> m \in 0 .. next - 1
  BY <1>1 DEF NodeAt, Node
<1>5. ~ordered => \A m \in Node : m < i <=> colouring[m] # Unset
  BY <1>3, <1>4 DEF NodeAt
<1> QED
  BY <1>2, <1>3, <1>5 DEF HasColour

\* What any choice of a colour that no coloured neighbour has preserves.
LEMMA AssignKeeps ==
  ASSUME Inv, next < NumNodes, NEW i, i = NodeAt(next), NEW c \in Node, c \notin Taken(i),
         Assign(i, c), num_colours' \in Nat, num_colours <= num_colours', c < num_colours',
         UNCHANGED <<neighbours, ordered, order>>, next' = next + 1
  PROVE  /\ Shape' /\ Progress' /\ ProperColouring'
         /\ \A j \in Node : colouring'[j] # Unset => colouring'[j] < num_colours'
         /\ \A d \in Node : col_num'[d] = Cardinality(OfColour(d)')
         /\ OfColour(c)' # {} /\ \A d \in Node : OfColour(d) # {} => OfColour(d)' # {}
<1>0. GraphOfNodes(neighbours)' /\ IsOrder(order)'
  <2>1. /\ GraphOfNodes(neighbours) /\ IsOrder(order)
        /\ neighbours' = neighbours /\ order' = order
    BY DEF Inv, Shape
  <2> QED
    BY <2>1 DEF GraphOfNodes, Symmetric, IsOrder
<1> USE DEF Inv, Shape, Assign
<1>1. /\ i \in Node /\ colouring[i] = Unset
      /\ \A m \in Node : HasColour(m, i) <=> colouring[m] # Unset
  BY TakenNode
<1>2. c \in Nat /\ c # Unset
  BY NodesAreFinite DEF Node
<1>3. /\ colouring'[i] = c
      /\ \A j \in Node : j # i => colouring'[j] = colouring[j]
  BY <1>1
<1>4. Shape'
  <2>2. colouring' \in [Node -> Nat \cup {Unset}] /\ col_num' \in [Node -> Nat]
    BY <1>1, <1>2
  <2>3. next' \in 0 .. NumNodes
    BY NumNodesAssumption
  <2> QED
    BY <1>0, <2>2, <2>3
<1>5. Progress'
  <2>1. \A j \in Node : colouring[j] # Unset <=> \E k \in 0 .. next - 1 : NodeAt(k) = j
    BY NumNodesAssumption DEF Progress
  <2>2. \A k : NodeAt(k)' = NodeAt(k)
    BY DEF NodeAt
  <2>3. 0 .. next' - 1 = (0 .. next - 1) \cup {next}
    OBVIOUS
  <2>4. \A j \in Node : colouring'[j] # Unset <=> \E k \in 0 .. next' - 1 : NodeAt(k)' = j
    BY <1>2, <1>3, <2>1, <2>2, <2>3
  <2> QED
    BY <2>4 DEF Progress
<1>6. ProperColouring'
  <2>1. \A m \in Neighbours(i) : m \in Node /\ (m # i /\ colouring'[m] # Unset => colouring'[m] # c)
    <3>1. \A m \in Neighbours(i) : m \in Node
      BY <1>1 DEF Neighbours, GraphOfNodes
    <3> QED
      BY <1>1, <1>3, <3>1 DEF Taken
  <2>2. \A a \in Node : Neighbours(a)' = Neighbours(a)
    BY DEF Neighbours
  <2>3. \A a \in Node : i \in Neighbours(a) => a \in Neighbours(i)
    BY DEF Neighbours, GraphOfNodes, Symmetric
  <2>4. ASSUME NEW a \in Node, NEW b \in Neighbours(a) \ {a},
               colouring'[a] # Unset, colouring'[b] # Unset
        PROVE  colouring'[a] # colouring'[b]
    <3>1. b \in Node
      BY DEF Neighbours, GraphOfNodes
    <3>2. CASE a = i
      BY <1>3, <2>1, <2>4, <3>2
    <3>3. CASE b = i
      BY <1>3, <2>1, <2>3, <2>4, <3>3
    <3>4. CASE a # i /\ b # i
      BY <1>3, <2>4, <3>1, <3>4 DEF ProperColouring
    <3> QED
      BY <3>2, <3>3, <3>4
  <2> QED
    BY <2>2, <2>4 DEF ProperColouring
<1>7. \A j \in Node : colouring'[j] # Unset => colouring'[j] < num_colours'
  <2> SUFFICES ASSUME NEW j \in Node, colouring'[j] # Unset
               PROVE  colouring'[j] < num_colours'
    OBVIOUS
  <2>1. CASE j = i
    BY <1>3, <2>1
  <2>2. CASE j # i
    <3>1. colouring[j] \in Nat /\ colouring[j] < num_colours
      BY <1>3, <2>2 DEF Counted
    <3> QED
      BY <1>3, <2>2, <3>1
  <2> QED
    BY <2>1, <2>2
<1>8. OfColour(c)' = OfColour(c) \cup {i} /\ i \notin OfColour(c)
  BY <1>1, <1>2, <1>3 DEF OfColour
<1>9. \A d \in Node : d # c => OfColour(d)' = OfColour(d)
  <2>1. \A d \in Node : d # Unset
    BY NodesAreFinite DEF Node
  <2> QED
    BY <1>1, <1>3, <2>1 DEF OfColour
<1>10. \A d \in Node : col_num'[d] = Cardinality(OfColour(d)')
  <2>1. col_num'[c] = col_num[c] + 1 /\ \A d \in Node : d # c => col_num'[d] = col_num[d]
    OBVIOUS
  <2>2. Cardinality(OfColour(c)') = Cardinality(OfColour(c)) + 1
    BY <1>8, ColoursAreFinite, FS_AddElement
  <2> QED
    BY <1>9, <2>1, <2>2 DEF Counted
<1> QED
  BY <1>4, <1>5, <1>6, <1>7, <1>8, <1>9, <1>10

\* A new colour is needed only if every old one is that of a neighbour: there are no more
\* colours than neighbours, and no more than other nodes.
LEMMA NewColourFits ==
  ASSUME Inv, next < NumNodes, NEW i, i = NodeAt(next), Free(i) = {}
  PROVE  num_colours <= Len(neighbours[i]) /\ num_colours \in Node
<1> USE DEF Inv, Shape
<1>1. /\ i \in Node /\ colouring[i] = Unset
      /\ \A m \in Node : HasColour(m, i) <=> colouring[m] # Unset
  BY TakenNode
<1>2. neighbours[i] \in Seq(Node)
  BY <1>1 DEF GraphOfNodes
<1>3. \A c \in 0 .. num_colours - 1 :
        \E x \in DOMAIN neighbours[i] : colouring[neighbours[i][x]] = c
  <2>1. \A c \in 0 .. num_colours - 1 : c \in Taken(i)
    BY DEF Free
  <2>2. \A c \in Taken(i) : \E m \in Neighbours(i) : colouring[m] = c
    BY DEF Taken
  <2> QED
    BY <2>1, <2>2 DEF Neighbours
<1>4. num_colours <= Len(neighbours[i])
  <2> DEFINE f == [c \in 0 .. num_colours - 1 |->
                     CHOOSE x \in DOMAIN neighbours[i] : colouring[neighbours[i][x]] = c]
             T == DOMAIN neighbours[i]
  <2>1. \A c \in 0 .. num_colours - 1 : f[c] \in T /\ colouring[neighbours[i][f[c]]] = c
    BY <1>3
  <2>2. f \in [0 .. num_colours - 1 -> T]
    BY <2>1
  <2>3. \A c, d \in 0 .. num_colours - 1 : f[c] = f[d] => c = d
    BY <2>1
  <2>4. T = 1 .. Len(neighbours[i]) /\ Len(neighbours[i]) \in Nat
    BY <1>2
  <2>5. IsFiniteSet(T) /\ Cardinality(T) = Len(neighbours[i])
    <3>1. \A n \in Nat : IsFiniteSet(1 .. n) /\ Cardinality(1 .. n) = n
      <4> TAKE n \in Nat
      <4>1. IsFiniteSet(1 .. n) /\ Cardinality(1 .. n) = IF 1 > n THEN 0 ELSE n - 1 + 1
        BY FS_Interval
      <4> QED
        BY <4>1
    <3> QED
      BY <2>4, <3>1
  <2> HIDE DEF f, T
  <2>6. num_colours <= Cardinality(T)
    BY <2>2, <2>3, <2>5, EachHasItsOwn
  <2> QED
    BY <2>5, <2>6
<1>5. num_colours \in Node
  <2> DEFINE f == [c \in 0 .. num_colours - 1 |-> CHOOSE m \in Node : colouring[m] = c]
             T == Node \ {i}
  <2>1. \A c \in 0 .. num_colours - 1 : f[c] \in Node /\ colouring[f[c]] = c
    BY DEF Counted, OfColour
  <2>2. \A c \in 0 .. num_colours - 1 : f[c] # i
    BY <1>1, <2>1, NodesAreFinite
  <2>3. f \in [0 .. num_colours - 1 -> T]
    BY <2>1, <2>2
  <2>4. \A c, d \in 0 .. num_colours - 1 : f[c] = f[d] => c = d
    BY <2>1
  <2>5. IsFiniteSet(T) /\ Cardinality(T) = NumNodes - 1
    BY <1>1, NodesAreFinite, FS_RemoveElement
  <2> HIDE DEF f, T
  <2>6. num_colours <= Cardinality(T)
    BY <2>3, <2>4, <2>5, EachHasItsOwn
  <2> QED
    BY <2>5, <2>6, NumNodesAssumption DEF Node
<1> QED
  BY <1>4, <1>5

\* One node after the other.
LEMMA StepInv == Inv /\ ColStep => Inv'
<1> SUFFICES ASSUME Inv, ColStep PROVE Inv'
  OBVIOUS
<1> DEFINE i == NodeAt(next)
<1>1. /\ next < NumNodes /\ ColourNode(i)
      /\ next' = next + 1 /\ UNCHANGED <<neighbours, ordered, order>>
  BY DEF ColStep, NodeAt
<1> HIDE DEF i
<1>2. i = NodeAt(next) /\ num_colours \in Nat
  BY DEF i, Inv, Shape
<1>3. CASE \E c \in Free(i) : Assign(i, c) /\ UNCHANGED num_colours
  <2>1. PICK c \in Free(i) : Assign(i, c) /\ UNCHANGED num_colours
    BY <1>3
  <2>2. c \in 0 .. num_colours - 1 /\ c \notin Taken(i) /\ c \in Node
    BY <2>1 DEF Free, Inv, Counted
  <2>3. num_colours' \in Nat /\ num_colours <= num_colours' /\ c < num_colours'
    BY <1>2, <2>1, <2>2
  <2>4. /\ Shape' /\ Progress' /\ ProperColouring'
        /\ \A j \in Node : colouring'[j] # Unset => colouring'[j] < num_colours'
        /\ \A d \in Node : col_num'[d] = Cardinality(OfColour(d)')
        /\ OfColour(c)' # {} /\ \A d \in Node : OfColour(d) # {} => OfColour(d)' # {}
    BY <1>1, <1>2, <2>1, <2>2, <2>3, AssignKeeps
  <2>5. Counted'
    BY <2>1, <2>4 DEF Counted, Inv
  <2>6. ColoursFit'
    BY <1>1, <2>1 DEF ColoursFit, Inv
  <2> QED
    BY <2>4, <2>5, <2>6 DEF Inv
<1>4. CASE Free(i) = {} /\ Assign(i, num_colours) /\ num_colours' = num_colours + 1
  <2>1. num_colours <= Len(neighbours[i]) /\ num_colours \in Node
    BY <1>1, <1>2, <1>4, NewColourFits
  <2>2. i \in Node /\ \A m \in Neighbours(i) : m \in Node
    BY <1>1, <1>2, TakenNode DEF Inv, Shape, GraphOfNodes, Neighbours
  <2>3. num_colours \notin Taken(i)
    <3>1. \A m \in Neighbours(i) : HasColour(m, i) => colouring[m] # num_colours
      <4> SUFFICES ASSUME NEW m \in Neighbours(i), HasColour(m, i), colouring[m] = num_colours
                   PROVE  FALSE
        OBVIOUS
      <4>1. colouring[m] # Unset
        BY <1>2, NodesAreFinite
      <4>2. num_colours < num_colours
        BY <2>2, <4>1 DEF Inv, Counted
      <4> QED
        BY <1>2, <4>2
    <3> QED
      BY <3>1 DEF Taken
  <2>4. PICK c \in Node : c = num_colours
    BY <2>1
  <2>5. /\ num_colours' \in Nat /\ num_colours <= num_colours' /\ c < num_colours'
        /\ c \notin Taken(i) /\ Assign(i, c)
    BY <1>2, <1>4, <2>3, <2>4
  <2>6. /\ Shape' /\ Progress' /\ ProperColouring'
        /\ \A j \in Node : colouring'[j] # Unset => colouring'[j] < num_colours'
        /\ \A d \in Node : col_num'[d] = Cardinality(OfColour(d)')
        /\ OfColour(c)' # {} /\ \A d \in Node : OfColour(d) # {} => OfColour(d)' # {}
    BY <1>1, <1>2, <2>5, AssignKeeps
  <2>7. 0 .. num_colours' - 1 = (0 .. num_colours - 1) \cup {c}
    BY <1>2, <1>4, <2>4
  <2>8. Counted'
    BY <2>6, <2>7 DEF Counted, Inv
  <2>9. ColoursFit'
    BY <1>1, <2>1, <2>2, <2>4, <2>7 DEF ColoursFit, Inv
  <2> QED
    BY <2>6, <2>8, <2>9 DEF Inv
<1> QED
  BY <1>1, <1>3, <1>4 DEF ColourNode

\* Inv is inductive.
LEMMA InvIsInvariant == ColSpec => []Inv
<1>1. Inv /\ [ColNext]_colVars => Inv'
  <2> SUFFICES ASSUME Inv, [ColNext]_colVars PROVE Inv'
    OBVIOUS
  <2>1. CASE \E g \in [Node -> Seq(Node)], b \in BOOLEAN, o \in [Node -> Node] : Construct(g, b, o)
    BY <2>1, ConstructInv
  <2>2. CASE ColStep
    BY <2>2, StepInv
  <2>3. CASE UNCHANGED colVars
    BY <2>3 DEF colVars, Inv, Shape, GraphOfNodes, Symmetric, IsOrder, Progress, NodeAt,
                Counted, OfColour, ColoursFit, ProperColouring, Neighbours
  <2> QED
    BY <2>1, <2>2, <2>3 DEF ColNext
<1> QED
  BY <1>1, InitInv, PTL DEF ColSpec

\* The promise of both constructors: adjacent nodes do not have the same colour, for every
\* symmetric graph and every order.  [colouring.hpp:84, 95]
THEOREM NeighboursDiffer == ColSpec => []ProperColouring
<1>1. Inv => ProperColouring
  BY DEF Inv
<1> QED
  BY <1>1, InvIsInvariant, PTL

\* No colour is counted beyond the end of the arrays of degree + 1 entries.
THEOREM CountsStayInBounds == ColSpec => []ColoursFit
<1>1. Inv => ColoursFit
  BY DEF Inv
<1> QED
  BY <1>1, InvIsInvariant, PTL

\* Colours are counted right, and none is unused: a clone, which counts the colours anew,
\* has as many.
THEOREM UsesAreExact == ColSpec => []UsesAreCounted
<1>1. Inv => UsesAreCounted
  <2> SUFFICES ASSUME Inv PROVE UsesAreCounted
    OBVIOUS
  <2>1. ASSUME NEW c \in 0 .. num_colours - 1
        PROVE  col_num[c] = Cardinality({i \in Node : colouring[i] = c}) /\ col_num[c] > 0
    <3>1. c \in Node /\ OfColour(c) # {} /\ col_num[c] = Cardinality(OfColour(c))
      BY DEF Inv, Counted
    <3>2. Cardinality(OfColour(c)) \in Nat /\ Cardinality(OfColour(c)) # 0
      BY <3>1, ColoursAreFinite, FS_EmptySet
    <3> QED
      BY <3>1, <3>2 DEF OfColour
  <2> QED
    BY <2>1 DEF UsesAreCounted, Inv, Counted
<1> QED
  BY <1>1, InvIsInvariant, PTL

\* The list of a colour has the nodes of this colour.
LEMMA PartIs ==
  ASSUME NEW c
  PROVE  LET t == NodesOfColour(colouring, c)
         IN  {t[x] : x \in DOMAIN t} = OfColour(c)
<1> DEFINE places == {x \in 1 .. NumNodes : colouring[x - 1] = c}
           s == [x \in 1 .. NumNodes |-> x - 1]
           t == NodesOfColour(colouring, c)
           m == Cardinality(places)
<1>1. IsFiniteSet(places) /\ places \subseteq Int
  <2>1. places \in SUBSET (1 .. NumNodes)
    OBVIOUS
  <2>2. IsFiniteSet(1 .. NumNodes)
    BY NumNodesAssumption, FS_Interval
  <2> HIDE DEF places
  <2>3. IsFiniteSet(places)
    BY <2>1, <2>2, FS_Subset
  <2> QED
    BY <2>1, <2>3
<1>2. PICK p : Picks(p, s, places)
  <2> HIDE DEF places, s
  <2> QED
    BY <1>1, AtPlacesIs
<1>3. t = [r \in 1 .. m |-> s[p[r]]] /\ Ascends(p, places)
  <2>1. t = AtPlaces(s, places)
    BY DEF NodesOfColour
  <2> HIDE DEF places, s, t
  <2> QED
    BY <1>2, <2>1 DEF Picks
<1>4. \A x \in places : x \in 1 .. NumNodes /\ s[x] = x - 1 /\ x - 1 \in Node /\ colouring[x - 1] = c
  BY NumNodesAssumption DEF Node
<1>5. \A i \in OfColour(c) : i + 1 \in places /\ s[i + 1] = i
  BY NumNodesAssumption DEF Node, OfColour
<1> HIDE DEF places, s, t
<1>6. ASSUME NEW r \in 1 .. m PROVE t[r] \in OfColour(c)
  <2>1. p[r] \in places
    BY <1>3 DEF Ascends
  <2> QED
    BY <1>3, <1>4, <2>1 DEF OfColour
<1>7. ASSUME NEW i \in OfColour(c) PROVE \E r \in 1 .. m : t[r] = i
  <2>1. PICK r \in 1 .. m : p[r] = i + 1
    BY <1>3, <1>5 DEF Ascends
  <2>2. t[r] = i
    BY <1>3, <1>5, <2>1
  <2> QED
    BY <2>2
<1>8. DOMAIN t = 1 .. m
  BY <1>3
<1>9. {t[x] : x \in DOMAIN t} = OfColour(c)
  BY <1>6, <1>7, <1>8
<1> QED
  BY <1>9 DEF t

\* A clone counts as many colours as there are, when all nodes have theirs.
LEMMA AllColoured ==
  ASSUME Inv, Finished, num_colours > 0
  PROVE  /\ \A i \in Node : colouring[i] \in 0 .. num_colours - 1
         /\ ClonedColours = num_colours
<1>1. Shape /\ Counted /\ Progress
  BY DEF Inv
<1>2. ~(\A i \in Node : colouring[i] = Unset)
  <2>1. 0 \in 0 .. num_colours - 1
    BY <1>1 DEF Shape
  <2>2. PICK i \in Node : colouring[i] = 0
    BY <1>1, <2>1 DEF Counted, OfColour
  <2> QED
    BY <2>2, UnsetAssumption
<1>3. ASSUME NEW i \in Node PROVE colouring[i] # Unset
  <2>1. next = NumNodes /\ \A j \in Node : colouring[j] # Unset <=> \E k \in 0 .. next - 1 : NodeAt(k) = j
    BY <1>1, <1>2 DEF Progress, Finished
  <2>2. \E k \in 0 .. NumNodes - 1 : NodeAt(k) = i
    BY <1>1 DEF NodeAt, Shape, IsOrder, Node
  <2> QED
    BY <2>1, <2>2
<1>4. \A i \in Node : colouring[i] \in 0 .. num_colours - 1
  BY <1>1, <1>3 DEF Shape, Counted
<1>5. {colouring[i] : i \in Node} = 0 .. num_colours - 1
  <2>1. \A c \in 0 .. num_colours - 1 : \E i \in Node : colouring[i] = c
    BY <1>1 DEF Counted, OfColour
  <2> QED
    BY <1>4, <2>1
<1>6. Cardinality(0 .. num_colours - 1) = num_colours
  <2>1. num_colours \in Nat
    BY <1>1 DEF Shape
  <2>2. Cardinality(0 .. num_colours - 1) = IF 0 > num_colours - 1 THEN 0 ELSE num_colours - 1 - 0 + 1
    BY <2>1, FS_Interval
  <2> QED
    BY <2>1, <2>2
<1> QED
  BY <1>4, <1>5, <1>6 DEF ClonedColours

\* What create_partition_graph makes of a finished colouring, or of its clone, has each node
\* in one list, and no two adjacent nodes in one.  [colouring.cpp:289]
THEOREM PartsAreIndependent == ColSpec => []PartitionIsIndependent
<1>1. Inv => PartitionIsIndependent
  <2> SUFFICES ASSUME Inv, Finished, num_colours > 0
               PROVE  LET parts == PartitionGraph(colouring, ClonedColours)
                          Part(c) == {parts[c][x] : x \in DOMAIN parts[c]}
                      IN  /\ \A i \in Node : Cardinality({c \in DOMAIN parts : i \in Part(c)}) = 1
                          /\ \A c \in DOMAIN parts : \A i, j \in Part(c) : i = j \/ j \notin Neighbours(i)
    BY DEF PartitionIsIndependent
  <2> DEFINE parts == PartitionGraph(colouring, ClonedColours)
             Part(c) == {parts[c][x] : x \in DOMAIN parts[c]}
  <2>1. DOMAIN parts = 0 .. num_colours - 1
    BY AllColoured DEF PartitionGraph
  <2>2. \A c \in DOMAIN parts : Part(c) = OfColour(c)
    BY PartIs DEF PartitionGraph
  <2> HIDE DEF parts, Part
  <2>3. ASSUME NEW i \in Node PROVE Cardinality({c \in DOMAIN parts : i \in Part(c)}) = 1
    <3>1. colouring[i] \in DOMAIN parts
      BY <2>1, AllColoured
    <3>2. {c \in DOMAIN parts : i \in Part(c)} = {colouring[i]}
      BY <2>2, <3>1 DEF OfColour
    <3> QED
      BY <3>2, FS_Singleton
  <2>4. ASSUME NEW c \in DOMAIN parts, NEW i \in Part(c), NEW j \in Part(c), i # j
        PROVE  j \notin Neighbours(i)
    <3>1. i \in Node /\ j \in Node /\ colouring[i] = c /\ colouring[j] = c /\ c # Unset
      BY <2>1, <2>2, UnsetAssumption DEF OfColour
    <3> QED
      BY <2>4, <3>1 DEF Inv, ProperColouring
  <2> QED
    BY <2>3, <2>4 DEF parts, Part
<1> QED
  BY <1>1, InvIsInvariant, PTL

----------------------------------------------------------------------------
(* The program that renumbers a system.                                    *)

\* Every step of the program is one of Colouring, or leaves the colouring alone.
LEMMA StepSimulates == [Next]_vars => [ColNext]_colVars
<1> SUFFICES ASSUME [Next]_vars PROVE [ColNext]_colVars
  OBVIOUS
<1>1. CASE Assemble \/ Renumber \/ Number \/ PermuteSystem \/ PermuteBack \/ UNCHANGED vars
  BY <1>1 DEF Assemble, Renumber, Number, PermuteSystem, PermuteBack, vars
<1>2. CASE ColourInOrder
  <2>1. Construct(graph, TRUE, permutation)
    BY <1>2 DEF ColourInOrder
  <2>2. graph \in [Node -> Seq(Node)] /\ permutation \in [Node -> Node]
    BY <2>1 DEF Construct, GraphOfNodes, IsOrder
  <2> QED
    BY <2>1, <2>2 DEF ColNext
<1>3. CASE ColourMatrix
  <2>1. Construct(GraphOf(matrix), FALSE, Identity(NumNodes))
    BY <1>3 DEF ColourMatrix
  <2>2. GraphOf(matrix) \in [Node -> Seq(Node)] /\ Identity(NumNodes) \in [Node -> Node]
    BY <2>1 DEF Construct, GraphOfNodes, IsOrder
  <2> QED
    BY <2>1, <2>2 DEF ColNext
<1>4. CASE Colour
  BY <1>4 DEF Colour, ColNext
<1> QED
  BY <1>1, <1>2, <1>3, <1>4 DEF Next

\* The program colours as Colouring does, whatever cells, roots and sorts it has: no two
\* coupled DOFs get one colour, neither in the new order nor in the new matrix.
THEOREM ProgramColoursProperly == Spec => ColSpec /\ []ProperColouring
<1>1. Init => ColInit
  BY DEF Init
<1>2. Spec => ColSpec
  BY <1>1, StepSimulates, PTL DEF Spec, ColSpec
<1> QED
  BY <1>2, NeighboursDiffer, PTL

----------------------------------------------------------------------------
(* Permutations.  y[k] is the identity after k exchanges; it has the first  *)
(* k entries of the permutation, and exchange k fetches the next one.       *)

IsPermutation(p) ==
  /\ p \in [Node -> Node]
  /\ \A i, j \in Node : p[i] = p[j] => i = j
  /\ \A k \in Node : \E i \in Node : p[i] = k

LEMMA ExchangeIs ==
  ASSUME NEW S, NEW x \in [Node -> S], NEW i \in Node, NEW j \in Node
  PROVE  Exchange(x, i, j) = [m \in Node |-> IF m = i THEN x[j] ELSE IF m = j THEN x[i] ELSE x[m]]
BY DEF Exchange

\* An exchange of entries of a permutation makes one.
LEMMA ExchangePermutes ==
  ASSUME NEW p, IsPermutation(p), NEW i \in Node, NEW j \in Node
  PROVE  IsPermutation(Exchange(p, i, j))
<1> DEFINE q == Exchange(p, i, j)
<1>1. q = [m \in Node |-> IF m = i THEN p[j] ELSE IF m = j THEN p[i] ELSE p[m]]
  <2>1. p \in [Node -> Node]
    BY DEF IsPermutation
  <2> QED
    BY <2>1, ExchangeIs
<1> HIDE DEF q
<1>2. q \in [Node -> Node]
  BY <1>1 DEF IsPermutation
<1>3. ASSUME NEW a \in Node, NEW b \in Node, q[a] = q[b] PROVE a = b
  BY <1>1, <1>3 DEF IsPermutation
<1>4. ASSUME NEW k \in Node PROVE \E a \in Node : q[a] = k
  <2>1. PICK a \in Node : p[a] = k
    BY DEF IsPermutation
  <2>2. q[i] = p[j] /\ q[j] = p[i] /\ (a # i /\ a # j => q[a] = p[a])
    BY <1>1
  <2> QED
    BY <2>1, <2>2
<1> QED
  BY <1>2, <1>3, <1>4 DEF IsPermutation, q

LEMMA IdentityPermutes == IsPermutation(Identity(NumNodes)) /\ \A i \in Node : Identity(NumNodes)[i] = i
BY DEF IsPermutation, Identity, Node

\* The first k exchanges, and what they have made of the identity.
Fetches(perm, sw, y, k) ==
  /\ y[0] = Identity(NumNodes)
  /\ \A j \in 0 .. k : /\ IsPermutation(y[j])
                       /\ \A m \in 0 .. j - 1 : y[j][m] = perm[m]
  /\ \A j \in 0 .. k - 1 : /\ sw[j] \in Node /\ sw[j] >= j /\ y[j][sw[j]] = perm[j]
                           /\ y[j + 1] = Exchange(y[j], j, sw[j])

LEMMA FetchesExist ==
  ASSUME NEW perm, IsPermutation(perm)
  PROVE  \E sw, y : Fetches(perm, sw, y, NumNodes) /\ sw = [j \in Node |-> sw[j]]
<1> DEFINE T == {k \in Nat : k <= NumNodes => \E sw, y : Fetches(perm, sw, y, k)}
<1>1. 0 \in T
  <2> DEFINE y == [j \in {0} |-> Identity(NumNodes)]
  <2>1. Fetches(perm, y, y, 0)
    BY IdentityPermutes DEF Fetches
  <2> QED
    BY <2>1
<1>2. ASSUME NEW k \in T PROVE k + 1 \in T
  <2> SUFFICES ASSUME k + 1 <= NumNodes PROVE \E sw, y : Fetches(perm, sw, y, k + 1)
    OBVIOUS
  <2>1. k \in Nat /\ k <= NumNodes /\ k \in Node
    BY NumNodesAssumption DEF Node
  <2>2. PICK sw, y : Fetches(perm, sw, y, k)
    BY <2>1
  <2>3. IsPermutation(y[k]) /\ \A m \in 0 .. k - 1 : y[k][m] = perm[m]
    BY <2>1, <2>2 DEF Fetches
  <2>4. PICK q \in Node : y[k][q] = perm[k]
    BY <2>1, <2>3 DEF IsPermutation
  <2>5. q >= k
    <3> SUFFICES ASSUME q < k PROVE FALSE
      BY <2>1, NumNodesAssumption DEF Node
    <3>1. q \in 0 .. k - 1
      BY <2>1 DEF Node
    <3>2. perm[q] = perm[k] /\ q # k
      BY <2>1, <2>3, <2>4, <3>1
    <3> QED
      BY <2>1, <3>2 DEF IsPermutation
  <2> DEFINE z == Exchange(y[k], k, q)
             sw2 == [j \in 0 .. k |-> IF j = k THEN q ELSE sw[j]]
             y2 == [j \in 0 .. k + 1 |-> IF j = k + 1 THEN z ELSE y[j]]
  <2>6. IsPermutation(z)
    BY <2>1, <2>3, ExchangePermutes
  <2>7. \A m \in 0 .. k : z[m] = perm[m]
    <3>1. z = [m \in Node |-> IF m = k THEN y[k][q] ELSE IF m = q THEN y[k][k] ELSE y[k][m]]
      <4>1. y[k] \in [Node -> Node]
        BY <2>3 DEF IsPermutation
      <4>2. PICK v \in [Node -> Node] : v = y[k]
        BY <4>1
      <4>3. Exchange(v, k, q) = [m \in Node |-> IF m = k THEN v[q] ELSE IF m = q THEN v[k] ELSE v[m]]
        BY <2>1, ExchangeIs
      <4> QED
        BY <4>2, <4>3
    <3> HIDE DEF z
    <3> TAKE m \in 0 .. k
    <3>2. m \in Node /\ (m = k \/ (m \in 0 .. k - 1 /\ m # q))
      BY <2>1, <2>5, NumNodesAssumption DEF Node
    <3> QED
      BY <2>3, <2>4, <3>1, <3>2
  <2>8. /\ \A j \in 0 .. k - 1 : sw2[j] = sw[j]
        /\ sw2[k] = q
        /\ \A j \in 0 .. k : y2[j] = y[j]
        /\ y2[k + 1] = z
    BY <2>1
  <2> HIDE DEF sw2, y2, z
  <2>9. y2[0] = Identity(NumNodes)
    BY <2>1, <2>2, <2>8 DEF Fetches
  <2>10. ASSUME NEW j \in 0 .. k + 1 PROVE IsPermutation(y2[j]) /\ \A m \in 0 .. j - 1 : y2[j][m] = perm[m]
    <3>1. CASE j = k + 1
      BY <2>1, <2>6, <2>7, <2>8, <3>1
    <3>2. CASE j # k + 1
      <4>1. j \in 0 .. k
        BY <2>1, <3>2
      <4> QED
        BY <2>2, <2>8, <4>1 DEF Fetches
    <3> QED
      BY <3>1, <3>2
  <2>11. ASSUME NEW j \in 0 .. (k + 1) - 1
         PROVE  /\ sw2[j] \in Node /\ sw2[j] >= j /\ y2[j][sw2[j]] = perm[j]
                /\ y2[j + 1] = Exchange(y2[j], j, sw2[j])
    <3>1. CASE j = k
      BY <2>1, <2>4, <2>5, <2>8, <3>1 DEF z
    <3>2. CASE j # k
      <4>1. j \in 0 .. k - 1 /\ j + 1 \in 0 .. k /\ j \in 0 .. k
        BY <2>1, <3>2
      <4> QED
        BY <2>2, <2>8, <4>1 DEF Fetches
    <3> QED
      BY <3>1, <3>2
  <2>12. Fetches(perm, sw2, y2, k + 1)
    BY <2>9, <2>10, <2>11 DEF Fetches
  <2> QED
    BY <2>12
<1>3. T = Nat
  <2> HIDE DEF T
  <2>1. T \in SUBSET Nat
    BY DEF T
  <2> QED
    BY <1>1, <1>2, <2>1, AllNumbers
<1>4. PICK sw, y : Fetches(perm, sw, y, NumNodes)
  BY <1>3, NumNodesAssumption
<1> DEFINE s == [j \in Node |-> sw[j]]
<1>5. Fetches(perm, s, y, NumNodes)
  BY <1>4 DEF Fetches, Node
<1> QED
  BY <1>5

\* Following an entry through the exchanges that were made before.
IsTrace(t, sw, i) == t = [j \in Node |-> IF j < i THEN t[sw[j]] ELSE j]

LEMMA TraceExists ==
  ASSUME NEW sw, NEW i \in Node, \A j \in 0 .. i - 1 : sw[j] \in Node /\ sw[j] >= j
  PROVE  \E t : IsTrace(t, sw, i)
<1> DEFINE From(m) == {j \in Node : j >= m}
           Part(t, m) == \A j \in From(m) : t[j] = IF j < i THEN t[sw[j]] ELSE j
           T == {k \in Nat : k <= NumNodes => \E t : Part(t, NumNodes - k)}
<1>1. 0 \in T
  <2>1. From(NumNodes - 0) = {}
    BY NumNodesAssumption DEF Node
  <2>2. Part(0, NumNodes - 0)
    BY <2>1
  <2> QED
    BY <2>2
<1>2. ASSUME NEW k \in T PROVE k + 1 \in T
  <2> SUFFICES ASSUME k + 1 <= NumNodes PROVE \E t : Part(t, NumNodes - (k + 1))
    OBVIOUS
  <2>1. PICK m \in Node : m = NumNodes - (k + 1) /\ NumNodes - k = m + 1
    BY NumNodesAssumption DEF Node
  <2>2. PICK t : Part(t, m + 1)
    BY <2>1, NumNodesAssumption
  <2> DEFINE u == [j \in Node |-> IF j = m THEN (IF m < i THEN t[sw[m]] ELSE m) ELSE t[j]]
  <2>3. ASSUME NEW j \in From(m) PROVE u[j] = IF j < i THEN u[sw[j]] ELSE j
    <3>1. j \in Node /\ j >= m /\ m \in Int /\ j \in Int /\ i \in Int
      BY DEF Node
    <3>2. j < i => sw[j] \in Node /\ sw[j] >= j /\ sw[j] \in Int
      BY <3>1 DEF Node
    <3>3. CASE j = m
      <4>1. j < i /\ sw[j] # m => u[sw[j]] = t[sw[m]]
        BY <3>2, <3>3
      <4> QED
        BY <3>1, <3>3, <4>1
    <3>4. CASE j # m
      <4>1. j \in From(m + 1)
        BY <3>1, <3>4
      <4>2. u[j] = t[j] /\ (j < i => u[sw[j]] = t[sw[j]])
        BY <3>1, <3>2, <3>4
      <4> QED
        BY <2>2, <4>1, <4>2
    <3> QED
      BY <3>3, <3>4
  <2>4. Part(u, m)
    BY <2>3
  <2> QED
    BY <2>1, <2>4
<1>3. T = Nat
  <2> HIDE DEF T
  <2>1. T \in SUBSET Nat
    BY DEF T
  <2> QED
    BY <1>1, <1>2, <2>1, AllNumbers
<1>4. PICK t : Part(t, 0)
  BY <1>3, NumNodesAssumption
<1> DEFINE u == [j \in Node |-> t[j]]
<1>5. \A j \in Node : u[j] = IF j < i THEN u[sw[j]] ELSE j
  <2> TAKE j \in Node
  <2>1. j \in From(0)
    BY DEF Node
  <2>2. j < i => sw[j] \in Node
    BY DEF Node
  <2> QED
    BY <1>4, <2>1, <2>2
<1>6. IsTrace(u, sw, i)
  BY <1>5 DEF IsTrace
<1> QED
  BY <1>6

\* It leads from an entry to where it is before exchange i.
LEMMA TraceFinds ==
  ASSUME NEW perm, IsPermutation(perm), NEW sw, NEW y, Fetches(perm, sw, y, NumNodes),
         NEW i \in Node, NEW t, IsTrace(t, sw, i)
  PROVE  t[perm[i]] = sw[i]
<1> DEFINE Leads(k) == \A q \in Node : y[k][q] = perm[i] => q >= k /\ t[q] = t[perm[i]]
           T == {k \in Nat : k <= i => Leads(k)}
<1>1. ASSUME NEW k \in 0 .. i
      PROVE  /\ IsPermutation(y[k]) /\ k \in Node
             /\ \A m \in 0 .. k - 1 : y[k][m] = perm[m]
  BY NumNodesAssumption DEF Fetches, Node
<1>2. ASSUME NEW k \in 0 .. i, NEW q \in Node, y[k][q] = perm[i] PROVE q >= k
  <2> SUFFICES ASSUME q < k PROVE FALSE
    BY DEF Node
  <2>1. q \in 0 .. k - 1 /\ q # i
    BY DEF Node
  <2>2. perm[q] = perm[i]
    BY <1>1, <1>2, <2>1
  <2> QED
    BY <2>1, <2>2 DEF IsPermutation
<1>3. 0 \in T
  <2>1. 0 \in 0 .. i
    BY DEF Node
  <2>2. \A q \in Node : y[0][q] = q
    BY IdentityPermutes DEF Fetches
  <2> QED
    BY <1>2, <2>1, <2>2
<1>4. ASSUME NEW k \in T PROVE k + 1 \in T
  <2> SUFFICES ASSUME k + 1 <= i, NEW q \in Node, y[k + 1][q] = perm[i]
               PROVE  q >= k + 1 /\ t[q] = t[perm[i]]
    OBVIOUS
  <2>1. k \in 0 .. i /\ k + 1 \in 0 .. i /\ k < i /\ k \in 0 .. NumNodes - 1 /\ k \in Node /\ i \in Int
    BY NumNodesAssumption DEF Node
  <2>2. Leads(k)
    BY <2>1
  <2>3. /\ sw[k] \in Node /\ sw[k] >= k /\ y[k][sw[k]] = perm[k]
        /\ y[k + 1] = Exchange(y[k], k, sw[k])
    BY <2>1 DEF Fetches
  <2>4. y[k + 1] = [m \in Node |-> IF m = k THEN y[k][sw[k]] ELSE IF m = sw[k] THEN y[k][k] ELSE y[k][m]]
    <3>1. PICK v \in [Node -> Node] : v = y[k]
      BY <1>1, <2>1 DEF IsPermutation
    <3>2. PICK s \in Node : s = sw[k]
      BY <2>3
    <3>3. Exchange(v, k, s) = [m \in Node |-> IF m = k THEN v[s] ELSE IF m = s THEN v[k] ELSE v[m]]
      BY <2>1, ExchangeIs
    <3> QED
      BY <2>3, <3>1, <3>2, <3>3
  <2>5. perm[k] # perm[i]
    BY <2>1 DEF IsPermutation
  <2>6. q >= k + 1
    BY <1>2, <2>1
  <2>7. q # k /\ q # sw[k] => y[k][q] = perm[i]
    BY <2>4
  <2>8. q = sw[k] /\ q # k => y[k][k] = perm[i]
    BY <2>4
  <2>9. t[k] = t[sw[k]]
    BY <2>1 DEF IsTrace
  <2>10. q # k
    BY <2>1, <2>6 DEF Node
  <2> QED
    BY <2>1, <2>2, <2>6, <2>7, <2>8, <2>9, <2>10
<1>5. T = Nat
  <2> HIDE DEF T
  <2>1. T \in SUBSET Nat
    BY DEF T
  <2> QED
    BY <1>3, <1>4, <2>1, AllNumbers
<1>6. Leads(i)
  BY <1>5 DEF Node
<1>7. sw[i] \in Node /\ sw[i] >= i /\ y[i][sw[i]] = perm[i]
  BY DEF Fetches, Node
<1>8. t[sw[i]] = sw[i]
  BY <1>7 DEF IsTrace, Node
<1> QED
  BY <1>6, <1>7, <1>8

\* calc_swap_from_perm finds these exchanges, and no others.
Traced(sw, perm) == sw = [i \in Node |-> (CHOOSE t : IsTrace(t, sw, i))[perm[i]]]

LEMMA SwapFetches ==
  ASSUME NEW perm, IsPermutation(perm)
  PROVE  /\ \E y : Fetches(perm, SwapFromPerm(perm), y, NumNodes)
         /\ DOMAIN SwapFromPerm(perm) = Node
<1>1. PICK sw, y : Fetches(perm, sw, y, NumNodes) /\ sw = [j \in Node |-> sw[j]]
  BY FetchesExist
<1>2. ASSUME NEW i \in Node PROVE sw[i] = (CHOOSE t : IsTrace(t, sw, i))[perm[i]]
  <2>1. \A j \in 0 .. i - 1 : sw[j] \in Node /\ sw[j] >= j
    BY <1>1, NumNodesAssumption DEF Fetches, Node
  <2>2. \E t : IsTrace(t, sw, i)
    BY <2>1, TraceExists
  <2>3. PICK t : t = (CHOOSE u : IsTrace(u, sw, i)) /\ IsTrace(t, sw, i)
    BY <2>2
  <2>4. t[perm[i]] = sw[i]
    BY <1>1, <2>3, TraceFinds
  <2> QED
    BY <2>3, <2>4
<1>3. Traced(sw, perm)
  BY <1>1, <1>2 DEF Traced
<1>4. ASSUME NEW s, Traced(s, perm) PROVE s = sw
  <2>1. ASSUME NEW i \in Node, \A j \in 0 .. i - 1 : s[j] = sw[j] PROVE s[i] = sw[i]
    <3>1. \A j \in 0 .. i - 1 : sw[j] \in Node /\ sw[j] >= j
      BY <1>1, NumNodesAssumption DEF Fetches, Node
    <3>2. PICK u : IsTrace(u, sw, i)
      BY <3>1, TraceExists
    <3>3. ASSUME NEW t PROVE IsTrace(t, s, i) <=> IsTrace(t, sw, i)
      <4>1. \A j \in Node : j < i => s[j] = sw[j]
        BY <2>1 DEF Node
      <4>2. [j \in Node |-> IF j < i THEN t[s[j]] ELSE j] = [j \in Node |-> IF j < i THEN t[sw[j]] ELSE j]
        BY <4>1
      <4> QED
        BY <4>2 DEF IsTrace
    <3>4. PICK t : t = (CHOOSE r : IsTrace(r, s, i)) /\ IsTrace(t, s, i)
      BY <3>2, <3>3
    <3>5. s[i] = t[perm[i]]
      BY <1>4, <3>4 DEF Traced
    <3> QED
      BY <1>1, <3>3, <3>4, <3>5, TraceFinds
  <2>2. \A i \in Node : s[i] = sw[i]
    <3> DEFINE U == {i \in Nat : \A j \in 0 .. i - 1 : j \in Node => s[j] = sw[j]}
    <3>1. 0 \in U
      OBVIOUS
    <3>2. ASSUME NEW i \in U PROVE i + 1 \in U
      <4> SUFFICES ASSUME NEW j \in 0 .. (i + 1) - 1, j \in Node PROVE s[j] = sw[j]
        OBVIOUS
      <4>1. CASE j = i
        <5>1. \A l \in 0 .. j - 1 : l \in Node
          BY NumNodesAssumption DEF Node
        <5> QED
          BY <2>1, <4>1, <5>1
      <4>2. CASE j # i
        BY <4>2
      <4> QED
        BY <4>1, <4>2
    <3>3. U = Nat
      <4> HIDE DEF U
      <4>1. U \in SUBSET Nat
        BY DEF U
      <4> QED
        BY <3>1, <3>2, <4>1, AllNumbers
    <3> TAKE i \in Node
    <3>4. i + 1 \in Nat /\ i \in 0 .. (i + 1) - 1
      BY NumNodesAssumption DEF Node
    <3> HIDE DEF U
    <3>5. i + 1 \in U
      BY <3>3, <3>4
    <3> QED
      BY <3>4, <3>5 DEF U
  <2>3. s = [i \in Node |-> s[i]]
    BY <1>4 DEF Traced
  <2> QED
    BY <1>1, <2>2, <2>3
<1>5. SwapFromPerm(perm) = CHOOSE s : Traced(s, perm)
  <2>1. DOMAIN perm = Node
    BY DEF IsPermutation
  <2> QED
    BY <2>1 DEF SwapFromPerm, Traced, IsTrace
<1>6. SwapFromPerm(perm) = sw
  BY <1>3, <1>4, <1>5
<1> QED
  BY <1>1, <1>6

\* The arrays after the exchanges of a list of places.
IsAfter(f, swap, at, x) ==
  /\ f[0] = x
  /\ \A k \in 1 .. Len(at) : f[k] = Exchange(f[k - 1], at[k], swap[at[k]])
After(f, swap, at, x) == f = [k \in 0 .. Len(at) |-> IF k = 0 THEN x ELSE Exchange(f[k - 1], at[k], swap[at[k]])]

LEMMA ExchangesAre ==
  ASSUME NEW swap, NEW at, Len(at) \in Nat, NEW x
  PROVE  \E f : IsAfter(f, swap, at, x) /\ Exchanges(swap, at, x) = f[Len(at)]
<1> DEFINE T == {n \in Nat : n <= Len(at) =>
                   \E f : f = [k \in 0 .. n |-> IF k = 0 THEN x ELSE Exchange(f[k - 1], at[k], swap[at[k]])]}
<1>1. 0 \in T
  <2> DEFINE f == [k \in 0 .. 0 |-> x]
  <2>1. f = [k \in 0 .. 0 |-> IF k = 0 THEN x ELSE Exchange(f[k - 1], at[k], swap[at[k]])]
    OBVIOUS
  <2> QED
    BY <2>1
<1>2. ASSUME NEW n \in T PROVE n + 1 \in T
  <2> SUFFICES ASSUME n + 1 <= Len(at)
               PROVE  \E f : f = [k \in 0 .. n + 1 |-> IF k = 0 THEN x ELSE Exchange(f[k - 1], at[k], swap[at[k]])]
    OBVIOUS
  <2>1. n \in Nat /\ n <= Len(at)
    OBVIOUS
  <2>2. PICK f : f = [k \in 0 .. n |-> IF k = 0 THEN x ELSE Exchange(f[k - 1], at[k], swap[at[k]])]
    BY <2>1
  <2> DEFINE g == [k \in 0 .. n + 1 |-> IF k = n + 1 THEN Exchange(f[n], at[n + 1], swap[at[n + 1]]) ELSE f[k]]
  <2>3. \A k \in 0 .. n : g[k] = f[k]
    BY <2>1
  <2>4. g[n + 1] = Exchange(f[n], at[n + 1], swap[at[n + 1]]) /\ DOMAIN g = 0 .. n + 1
    BY <2>1
  <2>5. g = [k \in 0 .. n + 1 |-> g[k]]
    OBVIOUS
  <2> HIDE DEF g
  <2>6. ASSUME NEW k \in 0 .. n + 1
        PROVE  g[k] = IF k = 0 THEN x ELSE Exchange(g[k - 1], at[k], swap[at[k]])
    <3>1. CASE k = n + 1
      <4>1. n \in 0 .. n /\ k - 1 = n /\ k # 0
        BY <2>1, <3>1
      <4> QED
        BY <2>3, <2>4, <3>1, <4>1
    <3>2. CASE k # n + 1
      <4>1. k \in 0 .. n /\ (k # 0 => k - 1 \in 0 .. n)
        BY <2>1, <3>2
      <4>2. f[k] = IF k = 0 THEN x ELSE Exchange(f[k - 1], at[k], swap[at[k]])
        BY <2>2, <4>1
      <4> QED
        BY <2>3, <4>1, <4>2
    <3> QED
      BY <3>1, <3>2
  <2>7. g = [k \in 0 .. n + 1 |-> IF k = 0 THEN x ELSE Exchange(g[k - 1], at[k], swap[at[k]])]
    BY <2>5, <2>6
  <2> QED
    BY <2>7
<1>3. T = Nat
  <2> HIDE DEF T
  <2>1. T \in SUBSET Nat
    BY DEF T
  <2> QED
    BY <1>1, <1>2, <2>1, AllNumbers
<1>4. \E f : After(f, swap, at, x)
  BY <1>3 DEF After
<1>5. PICK f : f = (CHOOSE g : After(g, swap, at, x)) /\ After(f, swap, at, x)
  BY <1>4
<1>6. Exchanges(swap, at, x) = f[Len(at)]
  BY <1>5 DEF Exchanges, After
<1>7. IsAfter(f, swap, at, x)
  <2>1. \A k \in 0 .. Len(at) : f[k] = IF k = 0 THEN x ELSE Exchange(f[k - 1], at[k], swap[at[k]])
    BY <1>5 DEF After
  <2> QED
    BY <2>1 DEF IsAfter
<1> QED
  BY <1>6, <1>7

\* The last entry has come to its place when all others have.
LEMMA LastIsFetched ==
  ASSUME NEW perm, IsPermutation(perm), NEW sw, NEW y, Fetches(perm, sw, y, NumNodes), NEW i \in Node
  PROVE  y[NumNodes - 1][i] = perm[i]
<1> DEFINE n == NumNodes - 1
<1>1. n \in Nat /\ n \in Node /\ n \in 0 .. NumNodes
  BY NumNodesAssumption DEF Node
<1>2. IsPermutation(y[n]) /\ \A m \in 0 .. n - 1 : y[n][m] = perm[m]
  BY <1>1 DEF Fetches
<1>3. CASE i # n
  <2>1. i \in 0 .. n - 1
    BY <1>1, <1>3 DEF Node
  <2> QED
    BY <1>2, <2>1
<1>4. CASE i = n
  <2>1. PICK j \in Node : y[n][j] = perm[n]
    BY <1>1, <1>2 DEF IsPermutation
  <2>2. CASE j # n
    <3>1. j \in 0 .. n - 1
      BY <1>1, <2>2 DEF Node
    <3>2. perm[j] = perm[n]
      BY <1>2, <2>1, <3>1
    <3> QED
      BY <1>1, <2>2, <3>2 DEF IsPermutation
  <2>3. CASE j = n
    BY <1>4, <2>1, <2>3
  <2> QED
    BY <2>2, <2>3
<1> QED
  BY <1>3, <1>4

LEMMA ExchangeComposes ==
  ASSUME NEW v \in [Node -> Node], NEW x, NEW k \in Node, NEW s \in Node
  PROVE  Exchange([i \in Node |-> x[v[i]]], k, s) = [m \in Node |-> x[Exchange(v, k, s)[m]]]
<1>1. Exchange(v, k, s) = [m \in Node |-> IF m = k THEN v[s] ELSE IF m = s THEN v[k] ELSE v[m]]
  BY DEF Exchange
<1>2. PICK u : u = [i \in Node |-> x[v[i]]]
  OBVIOUS
<1>3. Exchange(u, k, s) = [m \in Node |-> IF m = k THEN u[s] ELSE IF m = s THEN u[k] ELSE u[m]]
  BY <1>2 DEF Exchange
<1> QED
  BY <1>1, <1>2, <1>3

\* Exchanges come to what the array of positions says.
LEMMA InSituGathers ==
  ASSUME NEW perm, IsPermutation(perm), NEW S, NEW x \in [Node -> S]
  PROVE  InSitu(SwapFromPerm(perm), x) = [i \in Node |-> x[perm[i]]]
<1> DEFINE sw == SwapFromPerm(perm)
           at == Forward(NumNodes)
<1>1. PICK y : Fetches(perm, sw, y, NumNodes)
  BY SwapFetches
<1>2. Size(x) = NumNodes
  <2>1. Cardinality(Node) = NumNodes
    BY NodesAreFinite
  <2> QED
    BY <2>1 DEF Size
<1>3. NumNodes - 1 \in Nat /\ Len(at) = NumNodes - 1 /\ \A k \in 1 .. NumNodes - 1 : at[k] = k - 1
  BY NumNodesAssumption DEF Forward
<1> HIDE DEF at, sw
<1>4. PICK f : IsAfter(f, sw, at, x) /\ Exchanges(sw, at, x) = f[Len(at)]
  BY <1>3, ExchangesAre
<1> DEFINE T == {k \in Nat : k <= NumNodes - 1 => f[k] = [i \in Node |-> x[y[k][i]]]}
<1>5. 0 \in T
  <2>1. y[0] = Identity(NumNodes) /\ f[0] = x
    BY <1>1, <1>4 DEF Fetches, IsAfter
  <2>2. [i \in Node |-> x[y[0][i]]] = x
    BY <2>1, IdentityPermutes
  <2> QED
    BY <2>1, <2>2
<1>6. ASSUME NEW k \in T PROVE k + 1 \in T
  <2> SUFFICES ASSUME k + 1 <= NumNodes - 1 PROVE f[k + 1] = [i \in Node |-> x[y[k + 1][i]]]
    OBVIOUS
  <2>1. k \in Nat /\ k \in Node /\ k \in 0 .. NumNodes - 1 /\ k \in 0 .. NumNodes /\ k + 1 \in 1 .. NumNodes - 1
    BY NumNodesAssumption DEF Node
  <2>2. f[k] = [i \in Node |-> x[y[k][i]]]
    BY <2>1
  <2>3. /\ IsPermutation(y[k])
        /\ sw[k] \in Node /\ y[k + 1] = Exchange(y[k], k, sw[k])
    BY <1>1, <2>1 DEF Fetches
  <2>4. PICK v \in [Node -> Node] : v = y[k]
    BY <2>3 DEF IsPermutation
  <2>5. PICK s \in Node : s = sw[k]
    BY <2>3
  <2>6. Exchange([i \in Node |-> x[v[i]]], k, s) = [m \in Node |-> x[Exchange(v, k, s)[m]]]
    <3>1. k \in Node
      BY <2>1
    <3> HIDE DEF T
    <3> QED
      BY <3>1, ExchangeComposes
  <2>9. at[k + 1] = k
    BY <1>3, <2>1
  <2>10. f[k + 1] = Exchange(f[k], at[k + 1], sw[at[k + 1]])
    <3>1. k + 1 \in 1 .. Len(at) /\ (k + 1) - 1 = k
      BY <1>3, <2>1
    <3> QED
      BY <1>4, <3>1 DEF IsAfter
  <2>11. f[k + 1] = Exchange([i \in Node |-> x[v[i]]], k, s)
    BY <2>2, <2>4, <2>5, <2>9, <2>10
  <2>12. y[k + 1] = Exchange(v, k, s)
    BY <2>3, <2>4, <2>5
  <2> QED
    BY <2>6, <2>11, <2>12
<1>7. T = Nat
  <2> HIDE DEF T
  <2>1. T \in SUBSET Nat
    BY DEF T
  <2> QED
    BY <1>5, <1>6, <2>1, AllNumbers
<1>8. f[NumNodes - 1] = [i \in Node |-> x[y[NumNodes - 1][i]]]
  BY <1>3, <1>7
<1>9. \A i \in Node : y[NumNodes - 1][i] = perm[i]
  BY <1>1, LastIsFetched
<1>10. f[NumNodes - 1] = [i \in Node |-> x[perm[i]]]
  BY <1>8, <1>9
<1>11. InSitu(sw, x) = f[NumNodes - 1]
  BY <1>2, <1>3, <1>4 DEF InSitu, at
<1> QED
  BY <1>10, <1>11 DEF sw

LEMMA ExchangeTwice ==
  ASSUME NEW v \in [Node -> Node], NEW k \in Node, NEW s \in Node
  PROVE  Exchange(Exchange(v, k, s), k, s) = v
<1>1. PICK u : u = Exchange(v, k, s)
  OBVIOUS
<1>2. u = [m \in Node |-> IF m = k THEN v[s] ELSE IF m = s THEN v[k] ELSE v[m]]
  BY <1>1 DEF Exchange
<1>3. Exchange(u, k, s) = [m \in Node |-> IF m = k THEN u[s] ELSE IF m = s THEN u[k] ELSE u[m]]
  BY <1>2 DEF Exchange
<1>4. \A m \in Node : (IF m = k THEN u[s] ELSE IF m = s THEN u[k] ELSE u[m]) = v[m]
  BY <1>2
<1>5. Exchange(u, k, s) = [m \in Node |-> v[m]]
  BY <1>3, <1>4
<1> QED
  BY <1>1, <1>5

\* What is new for each old position.
Inverts(w, perm) ==
  /\ IsPermutation(w)
  /\ \A i \in Node : w[perm[i]] = i /\ perm[w[i]] = i

LEMMA ScatterInverts ==
  ASSUME NEW perm, IsPermutation(perm)
  PROVE  /\ Inverts(PermFromInverse(perm), perm)
         /\ PermFromInverse(perm) = Scatter(perm, Identity(NumNodes))
         /\ \A z \in [Node -> Node] : (\A i \in Node : perm[z[i]] = i) => z = PermFromInverse(perm)
<1> DEFINE w == Scatter(perm, Identity(NumNodes))
           Place(k) == CHOOSE i \in Node : perm[i] = k
<1>1. perm \in [Node -> Node] /\ Size(perm) = NumNodes
  BY NodesAreFinite DEF IsPermutation, Size
<1>2. ASSUME NEW k \in Node PROVE Place(k) \in Node /\ perm[Place(k)] = k
  <2>1. \E i \in Node : perm[i] = k
    BY DEF IsPermutation
  <2> QED
    BY <2>1
<1>3. w = [k \in Node |-> Place(k)]
  <2>1. DOMAIN Identity(NumNodes) = Node
    BY DEF Identity, Node
  <2> HIDE DEF Place
  <2>2. w = [k \in Node |-> Identity(NumNodes)[Place(k)]]
    BY <2>1 DEF Scatter, Place
  <2> QED
    BY <1>2, <2>2, IdentityPermutes
<1> HIDE DEF Place, w
<1>4. w \in [Node -> Node]
  BY <1>2, <1>3
<1>5. ASSUME NEW i \in Node PROVE w[perm[i]] = i /\ perm[w[i]] = i
  <2>1. perm[i] \in Node
    BY <1>1
  <2>2. perm[w[i]] = i /\ perm[w[perm[i]]] = perm[i] /\ w[perm[i]] \in Node
    BY <1>2, <1>3, <1>4, <2>1
  <2> QED
    BY <2>2 DEF IsPermutation
<1>6. IsPermutation(w)
  <2>1. ASSUME NEW i \in Node, NEW j \in Node, w[i] = w[j] PROVE i = j
    BY <1>5, <2>1
  <2>2. ASSUME NEW k \in Node PROVE \E i \in Node : w[i] = k
    BY <1>1, <1>5
  <2> QED
    BY <1>4, <2>1, <2>2 DEF IsPermutation
<1>7. ASSUME NEW z \in [Node -> Node], \A i \in Node : perm[z[i]] = i PROVE z = w
  <2>1. \A i \in Node : z[i] = w[i]
    BY <1>4, <1>5, <1>7 DEF IsPermutation
  <2> QED
    BY <1>4, <2>1
<1>8. PermFromInverse(perm) = w
  BY <1>1 DEF PermFromInverse, w
<1> QED
  BY <1>5, <1>6, <1>7, <1>8 DEF Inverts, w

\* The exchanges made backwards bring every entry back.
LEMMA InSituScatters ==
  ASSUME NEW perm, IsPermutation(perm)
  PROVE  InSituInverse(SwapFromPerm(perm), Identity(NumNodes)) = PermFromInverse(perm)
<1> DEFINE sw == SwapFromPerm(perm)
           at == Reverse(Forward(NumNodes))
           x == Identity(NumNodes)
<1>1. PICK y : Fetches(perm, sw, y, NumNodes)
  BY SwapFetches
<1>2. Size(x) = NumNodes /\ x \in [Node -> Node]
  <2>1. Cardinality(Node) = NumNodes
    BY NodesAreFinite
  <2>2. x \in [Node -> Node]
    BY IdentityPermutes DEF IsPermutation
  <2> QED
    BY <2>1, <2>2 DEF Size
<1>3. NumNodes - 1 \in Nat /\ Len(at) = NumNodes - 1 /\ \A k \in 1 .. NumNodes - 1 : at[k] = NumNodes - 1 - k
  <2>1. PICK s : s = Forward(NumNodes)
    OBVIOUS
  <2>2. /\ NumNodes - 1 \in Nat /\ DOMAIN s = 1 .. NumNodes - 1 /\ Len(s) = NumNodes - 1
        /\ \A k \in 1 .. NumNodes - 1 : s[k] = k - 1
    BY <2>1, NumNodesAssumption DEF Forward
  <2>3. at = [k \in 1 .. NumNodes - 1 |-> s[(NumNodes - 1 - k) + 1]]
    BY <2>1, <2>2 DEF Reverse
  <2>4. \A k \in 1 .. NumNodes - 1 : (NumNodes - 1 - k) + 1 \in 1 .. NumNodes - 1
    BY NumNodesAssumption
  <2>5. \A k \in 1 .. NumNodes - 1 : at[k] = NumNodes - 1 - k
    BY <2>2, <2>3, <2>4
  <2>6. Len(at) = NumNodes - 1
    BY <2>2, <2>3
  <2> QED
    BY <2>2, <2>5, <2>6
<1> HIDE DEF at, sw, x
<1>4. PICK f : IsAfter(f, sw, at, x) /\ Exchanges(sw, at, x) = f[Len(at)]
  BY <1>3, ExchangesAre
<1> DEFINE Holds(j) == f[j] \in [Node -> Node] /\ y[NumNodes - 1 - j] = [m \in Node |-> perm[f[j][m]]]
           T == {j \in Nat : j <= NumNodes - 1 => Holds(j)}
<1>5. 0 \in T
  <2>1. f[0] = x
    BY <1>4 DEF IsAfter
  <2>2. \A i \in Node : y[NumNodes - 1][i] = perm[i]
    BY <1>1, LastIsFetched
  <2>3. y[NumNodes - 1] \in [Node -> Node] /\ NumNodes - 1 - 0 = NumNodes - 1
    <3>1. NumNodes - 1 \in 0 .. NumNodes /\ NumNodes - 1 - 0 = NumNodes - 1
      BY NumNodesAssumption
    <3> QED
      BY <1>1, <3>1 DEF Fetches, IsPermutation
  <2>4. \A i \in Node : f[0][i] = i
    BY <2>1, IdentityPermutes DEF x
  <2>5. y[NumNodes - 1] = [m \in Node |-> perm[f[0][m]]]
    BY <2>2, <2>3, <2>4
  <2>6. Holds(0)
    BY <1>2, <2>1, <2>3, <2>5
  <2> QED
    BY <2>6
<1>6. ASSUME NEW j \in T PROVE j + 1 \in T
  <2> SUFFICES ASSUME j + 1 <= NumNodes - 1 PROVE Holds(j + 1)
    OBVIOUS
  <2>1. PICK k \in Node : k = NumNodes - 1 - (j + 1)
    BY NumNodesAssumption DEF Node
  <2>2. /\ NumNodes - 1 - j = k + 1 /\ k \in 0 .. NumNodes - 1 /\ k \in 0 .. NumNodes
        /\ j + 1 \in 1 .. NumNodes - 1 /\ j + 1 - 1 = j
    BY <2>1, NumNodesAssumption DEF Node
  <2>3. f[j] \in [Node -> Node] /\ y[k + 1] = [m \in Node |-> perm[f[j][m]]]
    <3>1. j \in Nat /\ j <= NumNodes - 1 /\ NumNodes - 1 - j = k + 1
      BY <2>2, NumNodesAssumption
    <3>2. Holds(j)
      BY <3>1
    <3> QED
      BY <3>1, <3>2
  <2>4. /\ IsPermutation(y[k])
        /\ sw[k] \in Node /\ y[k + 1] = Exchange(y[k], k, sw[k])
    BY <1>1, <2>2 DEF Fetches
  <2>5. PICK v \in [Node -> Node] : v = y[k]
    BY <2>4 DEF IsPermutation
  <2>6. PICK s \in Node : s = sw[k]
    BY <2>4
  <2>7. PICK u \in [Node -> Node] : u = f[j]
    BY <2>3
  <2>8. f[j + 1] = Exchange(u, k, s)
    <3>1. at[j + 1] = k
      BY <1>3, <2>1, <2>2
    <3> QED
      BY <1>3, <1>4, <2>2, <2>6, <2>7, <3>1 DEF IsAfter
  <2> HIDE DEF T, Holds
  <2>9. v = Exchange([m \in Node |-> perm[u[m]]], k, s)
    <3>1. Exchange(v, k, s) = [m \in Node |-> perm[u[m]]]
      BY <2>3, <2>4, <2>5, <2>6, <2>7
    <3>2. Exchange(Exchange(v, k, s), k, s) = v
      BY ExchangeTwice
    <3> QED
      BY <3>1, <3>2
  <2>10. v = [m \in Node |-> perm[Exchange(u, k, s)[m]]]
    <3>1. PICK w : w = [m \in Node |-> perm[u[m]]]
      OBVIOUS
    <3>2. PICK z : z = Exchange(u, k, s)
      OBVIOUS
    <3>3. z = [m \in Node |-> IF m = k THEN u[s] ELSE IF m = s THEN u[k] ELSE u[m]]
      BY <3>2 DEF Exchange
    <3>4. Exchange(w, k, s) = [m \in Node |-> IF m = k THEN w[s] ELSE IF m = s THEN w[k] ELSE w[m]]
      BY <3>1 DEF Exchange
    <3>5. v = Exchange(w, k, s)
      BY <2>9, <3>1
    <3>6. \A m \in Node : Exchange(w, k, s)[m] = perm[z[m]]
      BY <2>6, <2>7, <3>1, <3>3, <3>4
    <3>7. v = [m \in Node |-> perm[z[m]]]
      BY <3>4, <3>5, <3>6
    <3> QED
      BY <3>2, <3>7
  <2>11. Exchange(u, k, s) \in [Node -> Node]
    <3>1. Exchange(u, k, s) = [m \in Node |-> IF m = k THEN u[s] ELSE IF m = s THEN u[k] ELSE u[m]]
      BY DEF Exchange
    <3> QED
      BY <3>1
  <2>12. y[NumNodes - 1 - (j + 1)] = v
    BY <2>1, <2>5
  <2> QED
    BY <2>8, <2>10, <2>11, <2>12 DEF Holds
<1>7. T = Nat
  <2> HIDE DEF T
  <2>1. T \in SUBSET Nat
    BY DEF T
  <2> QED
    BY <1>5, <1>6, <2>1, AllNumbers
<1>8. Holds(NumNodes - 1)
  BY <1>3, <1>7
<1>9. PICK z \in [Node -> Node] : z = f[NumNodes - 1]
  BY <1>8
<1>10. \A i \in Node : perm[z[i]] = i
  <2>1. y[0] = [m \in Node |-> perm[z[m]]]
    <3>1. NumNodes - 1 - (NumNodes - 1) = 0
      BY NumNodesAssumption
    <3> QED
      BY <1>8, <1>9, <3>1
  <2>2. \A i \in Node : y[0][i] = i
    BY <1>1, IdentityPermutes DEF Fetches
  <2> QED
    BY <2>1, <2>2
<1>11. z = PermFromInverse(perm)
  BY <1>10, ScatterInverts
<1>12. InSituInverse(sw, x) = f[NumNodes - 1]
  BY <1>2, <1>3, <1>4 DEF InSituInverse, at
<1> QED
  BY <1>9, <1>11, <1>12 DEF sw, x

\* The exchanges of a permutation say all about it.
LEMMA ExchangesAgree ==
  ASSUME NEW perm, IsPermutation(perm)
  PROVE  LET swap == SwapFromPerm(perm)
         IN  /\ InSitu(swap, Identity(NumNodes)) = Gather(perm, Identity(NumNodes))
             /\ InSituInverse(swap, Identity(NumNodes)) = Scatter(perm, Identity(NumNodes))
             /\ SwapFromPerm(PermFromSwap(swap)) = swap
<1> DEFINE sw == SwapFromPerm(perm)
<1>1. perm \in [Node -> Node] /\ Identity(NumNodes) \in [Node -> Node]
  BY IdentityPermutes DEF IsPermutation
<1>2. InSitu(sw, Identity(NumNodes)) = [i \in Node |-> Identity(NumNodes)[perm[i]]]
  BY <1>1, InSituGathers
<1>3. \A i \in Node : perm[i] \in Node /\ Identity(NumNodes)[perm[i]] = perm[i]
  BY <1>1, IdentityPermutes
<1>4. InSitu(sw, Identity(NumNodes)) = perm
  BY <1>1, <1>2, <1>3
<1>5. Gather(perm, Identity(NumNodes)) = perm
  BY <1>1, <1>3 DEF Gather
<1>6. Size(sw) = NumNodes
  <2>1. DOMAIN sw = Node
    BY SwapFetches
  <2> QED
    BY <2>1, NodesAreFinite DEF Size
<1>7. PermFromSwap(sw) = perm
  BY <1>4, <1>6 DEF PermFromSwap
<1>8. InSituInverse(sw, Identity(NumNodes)) = Scatter(perm, Identity(NumNodes))
  BY InSituScatters, ScatterInverts
<1> QED
  BY <1>4, <1>5, <1>7, <1>8

----------------------------------------------------------------------------
(* Lists of nodes.                                                         *)

\* What is in a list that is made of others.
LEMMA FlattenHas ==
  ASSUME NEW seqs, NEW n, IsPieces(seqs, n)
  PROVE  /\ IsSeq(FlattenSeq(seqs))
         /\ \A v : v \in ToSet(FlattenSeq(seqs)) <=> \E i \in 1 .. n : v \in ToSet(seqs[i])
<1> DEFINE f == FlattenSeq(seqs)
<1>1. Joins(f, seqs, n)
  BY FlattenJoins
<1> HIDE DEF f
<1>2. IsSeq(f) /\ DOMAIN f = 1 .. Before(seqs, n + 1)
  BY <1>1, SeqDomain DEF Joins
<1>3. \A i \in 1 .. n : DOMAIN seqs[i] = 1 .. Len(seqs[i]) /\ Len(seqs[i]) \in Nat
  BY SeqDomain DEF IsPieces
<1>4. ASSUME NEW m \in DOMAIN f PROVE \E i \in 1 .. n : f[m] \in ToSet(seqs[i])
  <2>1. PICK i \in 1 .. n : \E k \in 1 .. Len(seqs[i]) : m = Before(seqs, i) + k
    BY <1>2, PieceAt DEF InSomePiece
  <2>3. PICK k \in 1 .. Len(seqs[i]) : m = Before(seqs, i) + k
    BY <2>1
  <2>2. f[m] = seqs[i][k]
    BY <1>1, <2>3 DEF Joins
  <2> QED
    BY <1>3, <2>2 DEF ToSet
<1>5. ASSUME NEW i \in 1 .. n, NEW k \in DOMAIN seqs[i] PROVE seqs[i][k] \in ToSet(f)
  <2>1. n \in Nat /\ k \in 1 .. Len(seqs[i])
    BY <1>3 DEF IsPieces
  <2>2. f[Before(seqs, i) + k] = seqs[i][k]
    BY <1>1, <2>1 DEF Joins
  <2>3. Before(seqs, i) + k \in DOMAIN f
    <3>1. n + 1 \in 1 .. n + 1 /\ i < n + 1 /\ i \in 1 .. n + 1
      BY <2>1
    <3>2. Before(seqs, i) + Len(seqs[i]) <= Before(seqs, n + 1)
      BY <3>1, BeforeGrows
    <3>3. Before(seqs, i) \in Nat /\ Before(seqs, n + 1) \in Nat /\ Len(seqs[i]) \in Nat
      BY <1>3, <3>1, BeforeNext
    <3> QED
      BY <1>2, <2>1, <3>2, <3>3
  <2> QED
    BY <2>2, <2>3 DEF ToSet
<1> QED
  BY <1>2, <1>4, <1>5 DEF ToSet, f

LEMMA ThroughIs ==
  ASSUME NEW s, IsSeq(s), NEW g, \A v \in ToSet(s) : IsSeq(g[v])
  PROVE  /\ IsSeq(Through(s, g))
         /\ \A w : w \in ToSet(Through(s, g)) <=> \E v \in ToSet(s) : w \in ToSet(g[v])
<1> DEFINE seqs == [x \in DOMAIN s |-> g[s[x]]]
           n == Len(s)
<1>1. DOMAIN s = 1 .. n /\ n \in Nat
  BY SeqDomain
<1>2. IsPieces(seqs, n)
  BY <1>1 DEF IsPieces, ToSet
<1>3. \A x \in 1 .. n : seqs[x] = g[s[x]]
  BY <1>1
<1>4. Through(s, g) = FlattenSeq(seqs)
  BY DEF Through
<1> HIDE DEF seqs
<1>5. /\ IsSeq(FlattenSeq(seqs))
      /\ \A v : v \in ToSet(FlattenSeq(seqs)) <=> \E i \in 1 .. n : v \in ToSet(seqs[i])
  BY <1>2, FlattenHas
<1>6. \A v : v \in ToSet(s) <=> \E i \in 1 .. n : v = s[i]
  BY <1>1 DEF ToSet
<1> QED
  BY <1>3, <1>4, <1>5, <1>6

LEMMA InjectifyIs ==
  ASSUME NEW s, IsSeq(s)
  PROVE  IsSeq(Injectify(s)) /\ ToSet(Injectify(s)) = ToSet(s) /\ IsInjective(Injectify(s))
<1> DEFINE places == {x \in DOMAIN s : \A y \in 1 .. x - 1 : s[y] # s[x]}
<1>1. DOMAIN s = 1 .. Len(s) /\ Len(s) \in Nat
  BY SeqDomain
<1>2. Injectify(s) = AtPlaces(s, places)
  BY DEF Injectify
<1>3. places \subseteq DOMAIN s
  OBVIOUS
<1>4. \A x, y \in places : s[x] = s[y] => x = y
  <2> TAKE x, y \in places
  <2>1. x < y => x \in 1 .. y - 1
    BY <1>1
  <2>2. y < x => y \in 1 .. x - 1
    BY <1>1
  <2>3. x < y \/ y < x \/ x = y
    BY <1>1
  <2> QED
    BY <2>1, <2>2, <2>3
<1>5. ASSUME NEW x \in DOMAIN s PROVE \E y \in places : s[y] = s[x]
  <2> DEFINE T == {y \in DOMAIN s : s[y] = s[x]}
  <2>1. T \in SUBSET Nat /\ x \in T
    BY <1>1
  <2>2. PICK y \in T : \A z \in T : y <= z
    <3> HIDE DEF T
    <3> QED
      BY <2>1, LeastNumber
  <2>3. \A z \in 1 .. y - 1 : z \in DOMAIN s /\ ~(y <= z)
    BY <1>1
  <2>4. y \in places
    BY <2>2, <2>3
  <2> QED
    BY <2>4
<1>6. {s[x] : x \in places} = ToSet(s)
  BY <1>5 DEF ToSet
<1> HIDE DEF places
<1> QED
  BY <1>2, <1>3, <1>4, <1>6, PlacesHave

\* A list that is sorted has the same entries as before, and their keys do not descend.
IsSortOf(t, s, keys) ==
  /\ IsSeq(t) /\ ToSet(t) = ToSet(s) /\ Len(t) = Len(s) /\ (IsInjective(s) => IsInjective(t))
  /\ \E p : SortsBy(p, Len(s), keys) /\ t = [r \in 1 .. Len(s) |-> s[p[r]]]

LEMMA SortHas ==
  ASSUME NEW s, IsSeq(s), NEW keys, \A x \in DOMAIN s : keys[x] \in Int
  PROVE  IsSortOf(InsertionSort(s, keys), s, keys)
<1> DEFINE n == Len(s)
           t == InsertionSort(s, keys)
<1>1. DOMAIN s = 1 .. n /\ n \in Nat
  BY SeqDomain
<1>2. PICK p : SortsBy(p, n, keys) /\ t = [r \in 1 .. n |-> s[p[r]]]
  <2>1. \E p : Sorts(p, s, n, keys)
    BY <1>1, InsertionSortIs
  <2> QED
    BY <2>1 DEF Sorts
<1> HIDE DEF t
<1>3. p \in [1 .. n -> 1 .. n] /\ \A x \in 1 .. n : \E r \in 1 .. n : p[r] = x
  BY <1>2 DEF SortsBy
<1>4. IsSeq(t) /\ Len(t) = n
  <2>1. t = [r \in 1 .. n |-> t[r]]
    BY <1>2
  <2> QED
    BY <1>1, <2>1, FunctionIsSeq
<1>5. ToSet(t) = ToSet(s)
  <2>1. \A x \in 1 .. n : \E r \in 1 .. n : t[r] = s[x]
    BY <1>2, <1>3
  <2>2. \A r \in 1 .. n : p[r] \in 1 .. n /\ t[r] = s[p[r]]
    BY <1>2, <1>3
  <2>3. DOMAIN t = 1 .. n
    BY <1>2
  <2>4. ToSet(s) \subseteq ToSet(t)
    BY <1>1, <2>1, <2>3 DEF ToSet
  <2>5. ToSet(t) \subseteq ToSet(s)
    BY <1>1, <2>2, <2>3 DEF ToSet
  <2> QED
    BY <2>4, <2>5
<1>6. ASSUME IsInjective(s) PROVE IsInjective(t)
  <2> SUFFICES ASSUME NEW a \in 1 .. n, NEW b \in 1 .. n, t[a] = t[b] PROVE a = b
    BY <1>2 DEF IsInjective
  <2>1. p[a] = p[b]
    BY <1>1, <1>2, <1>3, <1>6 DEF IsInjective
  <2>2. a < b \/ b < a \/ a = b
    BY <1>1
  <2>3. ASSUME NEW c \in 1 .. n, NEW d \in 1 .. n, c < d PROVE p[c] # p[d]
    <3>1. p[c] \in 1 .. n /\ p[d] \in 1 .. n
      BY <1>3
    <3>2. p[c] \in Int /\ keys[p[c]] \in Int
      BY <1>1, <3>1
    <3>3. keys[p[c]] < keys[p[d]] \/ (keys[p[c]] = keys[p[d]] /\ p[c] < p[d])
      BY <1>2, <2>3 DEF SortsBy
    <3> QED
      BY <3>2, <3>3
  <2> QED
    BY <2>1, <2>2, <2>3
<1> QED
  BY <1>2, <1>4, <1>5, <1>6 DEF IsSortOf, t

\* Numbers that ascend are told by their set.
Ascending(s) == IsSeq(s) /\ \A x, y \in DOMAIN s : s[x] \in Int /\ (x < y => s[x] < s[y])

LEMMA AscendingSame ==
  ASSUME NEW s, NEW t, Ascending(s), Ascending(t), ToSet(s) = ToSet(t)
  PROVE  s = t
<1>1. /\ DOMAIN s = 1 .. Len(s) /\ Len(s) \in Nat
      /\ DOMAIN t = 1 .. Len(t) /\ Len(t) \in Nat
  BY SeqDomain DEF Ascending
<1> DEFINE Same(j) == j \in DOMAIN s /\ j \in DOMAIN t /\ s[j] = t[j]
           T == {j \in Nat : (j \in DOMAIN s \/ j \in DOMAIN t) /\ ~Same(j)}
<1>2. ASSUME T # {} PROVE FALSE
  <2>1. PICK j \in T : \A i \in T : j <= i
    <3>1. T \in SUBSET Nat
      OBVIOUS
    <3> HIDE DEF T
    <3> QED
      BY <1>2, <3>1, LeastNumber
  <2>2. ASSUME NEW u, NEW w, Ascending(u), Ascending(w), ToSet(u) = ToSet(w), j \in DOMAIN u,
               DOMAIN w = 1 .. Len(w), Len(w) \in Nat, DOMAIN u = 1 .. Len(u), Len(u) \in Nat,
               \A i \in 1 .. j - 1 : i \in DOMAIN u /\ i \in DOMAIN w /\ u[i] = w[i]
        PROVE  j \in DOMAIN w /\ w[j] <= u[j] /\ w[j] \in Int /\ u[j] \in Int
    <3>1. PICK i \in DOMAIN w : w[i] = u[j]
      BY <2>2 DEF ToSet
    <3>2. i >= j
      <4> SUFFICES ASSUME i < j PROVE FALSE
        BY <2>2
      <4>1. i \in 1 .. j - 1
        BY <2>2
      <4>2. u[i] = u[j] /\ i \in DOMAIN u /\ u[i] < u[j] /\ u[i] \in Int
        BY <2>2, <3>1, <4>1 DEF Ascending
      <4> QED
        BY <4>2
    <3>3. j \in DOMAIN w
      BY <2>2, <3>2
    <3>4. j < i => w[j] < w[i]
      BY <2>2, <3>3 DEF Ascending
    <3>5. w[j] \in Int /\ w[i] \in Int
      BY <2>2, <3>3 DEF Ascending
    <3> QED
      BY <2>2, <3>1, <3>2, <3>3, <3>4, <3>5
  <2>3. \A i \in 1 .. j - 1 : Same(i)
    <3> TAKE i \in 1 .. j - 1
    <3>1. i \in Nat /\ ~(j <= i) /\ (i \in DOMAIN s \/ i \in DOMAIN t)
      BY <1>1
    <3> QED
      BY <2>1, <3>1
  <2>4. j \in DOMAIN s \/ j \in DOMAIN t
    OBVIOUS
  <2> HIDE DEF T
  <2>5. j \in DOMAIN s => j \in DOMAIN t /\ t[j] <= s[j] /\ t[j] \in Int /\ s[j] \in Int
    BY <1>1, <2>2, <2>3
  <2>6. j \in DOMAIN t => j \in DOMAIN s /\ s[j] <= t[j] /\ t[j] \in Int /\ s[j] \in Int
    BY <1>1, <2>2, <2>3
  <2>7. Same(j)
    BY <2>4, <2>5, <2>6
  <2> QED
    BY <2>1, <2>7 DEF T
<1>3. \A j \in DOMAIN s : j \in Nat /\ Same(j)
  BY <1>1, <1>2
<1>4. \A j \in DOMAIN t : j \in Nat /\ Same(j)
  BY <1>1, <1>2
<1>5. s = [j \in 1 .. Len(s) |-> s[j]] /\ t = [j \in 1 .. Len(t) |-> t[j]]
  BY <1>1, SeqDomain DEF Ascending
<1> QED
  BY <1>1, <1>3, <1>4, <1>5

\* Keys that all differ ascend.
Arranges(t, s, keys) ==
  \E p : /\ p \in [DOMAIN s -> DOMAIN s] /\ t = [r \in DOMAIN s |-> s[p[r]]]
         /\ \A a, b \in DOMAIN s : a < b => keys[p[a]] < keys[p[b]]

LEMMA KeysAscend ==
  ASSUME NEW s, IsSeq(s), NEW keys, \A x \in DOMAIN s : keys[x] \in Int,
         \A x, y \in DOMAIN s : keys[x] = keys[y] => x = y,
         NEW t, IsSortOf(t, s, keys)
  PROVE  Arranges(t, s, keys)
<1>1. DOMAIN s = 1 .. Len(s) /\ Len(s) \in Nat
  BY SeqDomain
<1>2. PICK p : SortsBy(p, Len(s), keys) /\ t = [r \in 1 .. Len(s) |-> s[p[r]]]
  BY DEF IsSortOf
<1>3. p \in [DOMAIN s -> DOMAIN s]
  BY <1>1, <1>2 DEF SortsBy
<1>4. ASSUME NEW a \in DOMAIN s, NEW b \in DOMAIN s, a < b PROVE keys[p[a]] < keys[p[b]]
  <2>1. p[a] \in DOMAIN s /\ p[b] \in DOMAIN s /\ p[a] \in Int
    BY <1>1, <1>3
  <2>2. keys[p[a]] < keys[p[b]] \/ (keys[p[a]] = keys[p[b]] /\ p[a] < p[b])
    BY <1>1, <1>2, <1>4 DEF SortsBy
  <2> QED
    BY <2>1, <2>2
<1> QED
  BY <1>1, <1>2, <1>3, <1>4 DEF Arranges

LEMMA IndicesAscend ==
  ASSUME NEW s, IsSeq(s), IsInjective(s), \A v \in ToSet(s) : v \in Int
  PROVE  Ascending(InsertionSort(s, s)) /\ ToSet(InsertionSort(s, s)) = ToSet(s)
<1> DEFINE t == InsertionSort(s, s)
<1>1. \A x \in DOMAIN s : s[x] \in Int
  BY DEF ToSet
<1>2. IsSortOf(t, s, s)
  BY <1>1, SortHas
<1> HIDE DEF t
<1>3. PICK p : /\ p \in [DOMAIN s -> DOMAIN s] /\ t = [r \in DOMAIN s |-> s[p[r]]]
               /\ \A a, b \in DOMAIN s : a < b => s[p[a]] < s[p[b]]
  BY <1>1, <1>2, KeysAscend DEF IsInjective, Arranges
<1>4. Ascending(t)
  BY <1>1, <1>2, <1>3 DEF Ascending, IsSortOf
<1> QED
  BY <1>2, <1>4 DEF t, IsSortOf

----------------------------------------------------------------------------
(* Rows of matrices.                                                       *)

CoupledIn(g, i, j) == \E c \in DOMAIN g : {i, j} \subseteq ToSet(g[c])
Entry(i, j, p) == [col |-> j, val |-> <<p[i], p[j]>>]

RowIs(row, i, p, g) ==
  /\ IsSeq(row)
  /\ \A e : e \in ToSet(row) <=> \E j \in Node : CoupledIn(g, p[i], p[j]) /\ e = Entry(i, j, p)
  /\ \A x, y \in DOMAIN row : x < y => row[x].col < row[y].col

\* A row of the permuted matrix.
LEMMA RowPermutes ==
  ASSUME NEW perm, IsPermutation(perm), NEW w, Inverts(w, perm),
         NEW p \in [Node -> Node], NEW i \in Node, NEW row, NEW g, RowIs(row, perm[i], p, g)
  PROVE  RowIs(SortRow([x \in DOMAIN row |-> [row[x] EXCEPT !.col = w[@]]]), i,
               [k \in Node |-> p[perm[k]]], g)
<1> DEFINE s == [x \in DOMAIN row |-> [row[x] EXCEPT !.col = w[@]]]
           keys == [x \in DOMAIN s |-> s[x].col]
           t == SortRow(s)
           q == [k \in Node |-> p[perm[k]]]
<1>1. /\ perm \in [Node -> Node] /\ w \in [Node -> Node]
      /\ \A k \in Node : w[perm[k]] = k /\ perm[w[k]] = k
  BY DEF IsPermutation, Inverts
<1>2. DOMAIN row = 1 .. Len(row) /\ Len(row) \in Nat
  BY SeqDomain DEF RowIs
<1>3. ASSUME NEW x \in DOMAIN row
      PROVE  \E j \in Node : CoupledIn(g, p[perm[i]], p[j]) /\ row[x] = Entry(perm[i], j, p)
  <2>1. row[x] \in ToSet(row)
    BY DEF ToSet
  <2> QED
    BY <2>1 DEF RowIs
<1>4. ASSUME NEW x \in DOMAIN row, NEW j \in Node, row[x] = Entry(perm[i], j, p)
      PROVE  s[x] = Entry(i, w[j], q) /\ row[x].col = j
  <2>1. s[x] = [col |-> w[j], val |-> <<p[perm[i]], p[j]>>]
    BY <1>4 DEF Entry
  <2>2. q[w[j]] = p[j] /\ q[i] = p[perm[i]]
    BY <1>1
  <2> QED
    BY <1>4, <2>1, <2>2 DEF Entry
<1>5. IsSeq(s) /\ DOMAIN s = DOMAIN row
  <2>1. s = [x \in 1 .. Len(row) |-> s[x]]
    BY <1>2
  <2> HIDE DEF s
  <2>2. IsSeq(s)
    BY <1>2, <2>1, FunctionIsSeq
  <2> QED
    BY <1>2, <2>1, <2>2
<1>6. \A x \in DOMAIN s : keys[x] = s[x].col
  OBVIOUS
<1>7. t = InsertionSort(s, keys)
  BY DEF SortRow
<1> HIDE DEF s, keys, t, q
<1>8. ASSUME NEW x \in DOMAIN s PROVE keys[x] \in Int /\ row[x].col \in Node /\ keys[x] = w[row[x].col]
  <2>1. PICK j \in Node : row[x] = Entry(perm[i], j, p)
    BY <1>3, <1>5
  <2>2. s[x] = Entry(i, w[j], q) /\ row[x].col = j
    BY <1>4, <1>5, <2>1
  <2>3. keys[x] = w[j] /\ w[j] \in Node
    BY <1>1, <1>6, <2>2 DEF Entry
  <2> QED
    BY <2>2, <2>3 DEF Node
<1>9. \A x, y \in DOMAIN s : keys[x] = keys[y] => x = y
  <2> SUFFICES ASSUME NEW x \in DOMAIN s, NEW y \in DOMAIN s, keys[x] = keys[y] PROVE x = y
    OBVIOUS
  <2>1. row[x].col = row[y].col /\ row[x].col \in Int
    BY <1>1, <1>8 DEF Node
  <2>2. ~(x < y) /\ ~(y < x)
    BY <1>5, <1>8, <2>1 DEF RowIs, Node
  <2> QED
    BY <1>2, <1>5, <2>2
<1>10. IsSortOf(t, s, keys)
  BY <1>5, <1>7, <1>8, SortHas
<1>11. PICK f : /\ f \in [DOMAIN s -> DOMAIN s] /\ t = [r \in DOMAIN s |-> s[f[r]]]
                /\ \A a, b \in DOMAIN s : a < b => keys[f[a]] < keys[f[b]]
  <2>1. Arranges(t, s, keys)
    BY <1>5, <1>8, <1>9, <1>10, KeysAscend
  <2> QED
    BY <2>1 DEF Arranges
<1>12. \A x, y \in DOMAIN t : x < y => t[x].col < t[y].col
  BY <1>6, <1>11
<1>13. ASSUME NEW e
       PROVE  e \in ToSet(t) <=> \E j \in Node : CoupledIn(g, q[i], q[j]) /\ e = Entry(i, j, q)
  <2>1. e \in ToSet(t) <=> \E x \in DOMAIN s : e = s[x]
    BY <1>10 DEF IsSortOf, ToSet
  <2>2. ASSUME NEW x \in DOMAIN s, e = s[x] PROVE \E j \in Node : CoupledIn(g, q[i], q[j]) /\ e = Entry(i, j, q)
    <3>1. PICK j \in Node : CoupledIn(g, p[perm[i]], p[j]) /\ row[x] = Entry(perm[i], j, p)
      BY <1>3, <1>5
    <3>2. e = Entry(i, w[j], q) /\ w[j] \in Node
      BY <1>1, <1>4, <1>5, <2>2, <3>1
    <3>3. q[i] = p[perm[i]] /\ q[w[j]] = p[j]
      BY <1>1, <3>2 DEF q
    <3> QED
      BY <3>1, <3>2, <3>3
  <2>3. ASSUME NEW j \in Node, CoupledIn(g, q[i], q[j]), e = Entry(i, j, q) PROVE \E x \in DOMAIN s : e = s[x]
    <3>1. q[i] = p[perm[i]] /\ q[j] = p[perm[j]] /\ perm[j] \in Node /\ w[perm[j]] = j
      BY <1>1 DEF q
    <3>2. Entry(perm[i], perm[j], p) \in ToSet(row)
      BY <2>3, <3>1 DEF RowIs
    <3>3. PICK x \in DOMAIN row : row[x] = Entry(perm[i], perm[j], p)
      BY <3>2 DEF ToSet
    <3> QED
      BY <1>4, <1>5, <2>3, <3>1, <3>3
  <2> QED
    BY <2>1, <2>2, <2>3
<1>14. RowIs(t, i, q, g)
  BY <1>10, <1>12, <1>13 DEF RowIs, IsSortOf
<1> QED
  BY <1>14 DEF t, s, q

----------------------------------------------------------------------------
(* The pattern of the matrix.                                              *)

IsMapping(g) ==
  /\ IsFiniteSet(DOMAIN g) /\ DOMAIN g = Below(Cardinality(DOMAIN g))
  /\ \A c \in DOMAIN g : IsSeq(g[c])
  /\ IsDofGraph(g)

\* The lists of the transposed mapping.
LEMMA TransposeIs ==
  ASSUME NEW g, IsMapping(g), NEW k \in Node
  PROVE  /\ IsSeq(RenderTranspose(g, NumNodes)[k])
         /\ \A c : c \in ToSet(RenderTranspose(g, NumNodes)[k]) <=> c \in DOMAIN g /\ k \in ToSet(g[c])
<1> DEFINE n == Cardinality(DOMAIN g)
           Met(c) == {y \in DOMAIN g[c] : g[c][y] = k}
           seqs == [j \in 1 .. n |-> [x \in 1 .. Cardinality(Met(j - 1)) |-> j - 1]]
<1>1. n \in Nat /\ DOMAIN g = 0 .. n - 1
  BY FS_CardinalityType DEF IsMapping, Below
<1>2. ASSUME NEW c \in DOMAIN g
      PROVE  Cardinality(Met(c)) \in Nat /\ (Cardinality(Met(c)) # 0 <=> k \in ToSet(g[c]))
  <2>1. DOMAIN g[c] = 1 .. Len(g[c]) /\ Len(g[c]) \in Nat
    BY SeqDomain DEF IsMapping
  <2>2. IsFiniteSet(Met(c))
    <3>1. IsFiniteSet(DOMAIN g[c]) /\ Met(c) \in SUBSET (DOMAIN g[c])
      BY <2>1, FS_Interval
    <3> HIDE DEF Met
    <3> QED
      BY <3>1, FS_Subset
  <2>3. Met(c) # {} <=> k \in ToSet(g[c])
    BY DEF ToSet
  <2> QED
    BY <2>2, <2>3, FS_CardinalityType, FS_EmptySet
<1>3. ASSUME NEW j \in 1 .. n
      PROVE  /\ IsSeq(seqs[j])
             /\ \A c : c \in ToSet(seqs[j]) <=> c = j - 1 /\ k \in ToSet(g[j - 1])
  <2>1. j - 1 \in DOMAIN g
    BY <1>1
  <2>2. PICK m \in Nat : m = Cardinality(Met(j - 1))
    BY <1>2, <2>1
  <2>3. seqs[j] = [x \in 1 .. m |-> j - 1]
    BY <2>2
  <2>4. IsSeq(seqs[j])
    <3>1. PICK s : s = seqs[j]
      OBVIOUS
    <3>2. s = [x \in 1 .. m |-> s[x]]
      BY <2>3, <3>1
    <3> QED
      BY <3>1, <3>2, FunctionIsSeq
  <2>5. m # 0 <=> k \in ToSet(g[j - 1])
    BY <1>2, <2>1, <2>2
  <2>6. m # 0 => 1 \in 1 .. m
    OBVIOUS
  <2>7. m = 0 => 1 .. m = {}
    OBVIOUS
  <2>8. \A c : c \in ToSet(seqs[j]) <=> c = j - 1 /\ m # 0
    BY <2>3, <2>6, <2>7 DEF ToSet
  <2> QED
    BY <2>4, <2>5, <2>8
<1>4. IsPieces(seqs, n)
  <2>1. seqs = [i \in 1 .. n |-> seqs[i]]
    OBVIOUS
  <2> HIDE DEF seqs
  <2> QED
    BY <1>1, <1>3, <2>1 DEF IsPieces
<1>5. RenderTranspose(g, NumNodes)[k] = FlattenSeq(seqs)
  BY DEF RenderTranspose, Below, Node
<1> HIDE DEF seqs
<1>6. /\ IsSeq(FlattenSeq(seqs))
      /\ \A c : c \in ToSet(FlattenSeq(seqs)) <=> \E j \in 1 .. n : c \in ToSet(seqs[j])
  BY <1>4, FlattenHas
<1>7. ASSUME NEW c PROVE (\E j \in 1 .. n : c \in ToSet(seqs[j])) <=> c \in DOMAIN g /\ k \in ToSet(g[c])
  <2>1. ASSUME NEW j \in 1 .. n, c \in ToSet(seqs[j]) PROVE c \in DOMAIN g /\ k \in ToSet(g[c])
    <3>1. c = j - 1 /\ k \in ToSet(g[j - 1])
      BY <1>3, <2>1
    <3> QED
      BY <1>1, <3>1
  <2>2. ASSUME c \in DOMAIN g, k \in ToSet(g[c]) PROVE \E j \in 1 .. n : c \in ToSet(seqs[j])
    <3>1. PICK j \in 1 .. n : j - 1 = c
      <4>1. c + 1 \in 1 .. n /\ (c + 1) - 1 = c
        BY <1>1, <2>2
      <4> QED
        BY <4>1
    <3>2. c \in ToSet(seqs[j])
      BY <1>3, <2>2, <3>1
    <3> QED
      BY <3>2
  <2> QED
    BY <2>1, <2>2
<1> QED
  BY <1>5, <1>6, <1>7

\* Each DOF is listed with those it shares a cell with, once and in ascending order.
ListsCoupled(adjactor, g) ==
  /\ DOMAIN adjactor = Node
  /\ \A i \in Node : /\ Ascending(adjactor[i])
                     /\ \A j : j \in ToSet(adjactor[i]) <=> j \in Node /\ CoupledIn(g, i, j)

LEMMA PatternIs ==
  ASSUME NEW g, IsMapping(g)
  PROVE  ListsCoupled(SortIndices(RenderInjectify(RenderTranspose(g, NumNodes), g)), g)
<1> DEFINE support == RenderTranspose(g, NumNodes)
           r == RenderInjectify(support, g)
           adjactor == SortIndices(r)
<1>1. DOMAIN support = Node
  BY DEF RenderTranspose, Below, Node
<1>2. \A i \in Node : /\ IsSeq(support[i])
                      /\ \A c : c \in ToSet(support[i]) <=> c \in DOMAIN g /\ i \in ToSet(g[c])
  BY TransposeIs
<1> HIDE DEF support
<1>3. DOMAIN r = Node /\ \A i \in Node : r[i] = Injectify(Through(support[i], g))
  BY <1>1 DEF RenderInjectify
<1> HIDE DEF r
<1>4. DOMAIN adjactor = Node /\ \A i \in Node : adjactor[i] = InsertionSort(r[i], r[i])
  BY <1>3 DEF SortIndices
<1> HIDE DEF adjactor
<1>5. ASSUME NEW i \in Node
      PROVE  /\ Ascending(adjactor[i])
             /\ \A j : j \in ToSet(adjactor[i]) <=> j \in Node /\ CoupledIn(g, i, j)
  <2> DEFINE t == Through(support[i], g)
  <2>1. \A c \in ToSet(support[i]) : IsSeq(g[c])
    BY <1>2 DEF IsMapping
  <2>2. IsSeq(t) /\ \A j : j \in ToSet(t) <=> \E c \in ToSet(support[i]) : j \in ToSet(g[c])
    BY <1>2, <2>1, ThroughIs
  <2> HIDE DEF t
  <2>3. \A j : j \in ToSet(t) <=> j \in Node /\ CoupledIn(g, i, j)
    <3>1. \A c \in DOMAIN g : \A j \in ToSet(g[c]) : j \in Node
      BY DEF IsMapping, IsDofGraph
    <3> QED
      BY <1>2, <2>2, <3>1 DEF CoupledIn
  <2>4. IsSeq(Injectify(t)) /\ ToSet(Injectify(t)) = ToSet(t) /\ IsInjective(Injectify(t))
    BY <2>2, InjectifyIs
  <2>5. r[i] = Injectify(t)
    BY <1>3 DEF t
  <2>6. \A v \in ToSet(r[i]) : v \in Int
    BY <2>3, <2>4, <2>5 DEF Node
  <2>7. Ascending(InsertionSort(r[i], r[i])) /\ ToSet(InsertionSort(r[i], r[i])) = ToSet(r[i])
    BY <2>4, <2>5, <2>6, IndicesAscend
  <2> QED
    BY <1>4, <2>3, <2>4, <2>5, <2>7
<1> QED
  BY <1>4, <1>5 DEF ListsCoupled, adjactor, r, support

\* The matrix that is assembled of it.
LEMMA AssembledRow ==
  ASSUME NEW adjactor, NEW g, ListsCoupled(adjactor, g), NEW i \in Node
  PROVE  RowIs([x \in DOMAIN adjactor[i] |-> [col |-> adjactor[i][x], val |-> <<i, adjactor[i][x]>>]],
               i, Identity(NumNodes), g)
<1> DEFINE s == adjactor[i]
           row == [x \in DOMAIN s |-> [col |-> s[x], val |-> <<i, s[x]>>]]
<1>1. Ascending(s) /\ \A j : j \in ToSet(s) <=> j \in Node /\ CoupledIn(g, i, j)
  BY DEF ListsCoupled
<1> HIDE DEF s
<1>2. DOMAIN s = 1 .. Len(s) /\ Len(s) \in Nat
  BY <1>1, SeqDomain DEF Ascending
<1>3. IsSeq(row)
  <2>1. row = [x \in 1 .. Len(s) |-> row[x]]
    BY <1>2
  <2> HIDE DEF row
  <2> QED
    BY <1>2, <2>1, FunctionIsSeq
<1>4. \A j \in Node : Identity(NumNodes)[j] = j
  BY IdentityPermutes
<1>5. \A x \in DOMAIN s : s[x] \in Node /\ row[x] = Entry(i, s[x], Identity(NumNodes))
  BY <1>1, <1>4 DEF Entry, ToSet
<1>6. \A x, y \in DOMAIN row : x < y => row[x].col < row[y].col
  BY <1>1 DEF Ascending
<1>7. ASSUME NEW e
      PROVE  e \in ToSet(row) <=>
               \E j \in Node : CoupledIn(g, Identity(NumNodes)[i], Identity(NumNodes)[j])
                                 /\ e = Entry(i, j, Identity(NumNodes))
  <2>1. DOMAIN row = DOMAIN s
    OBVIOUS
  <2> HIDE DEF row
  <2>2. \A x \in DOMAIN s : CoupledIn(g, i, s[x])
    BY <1>1 DEF ToSet
  <2>3. \A j \in Node : CoupledIn(g, i, j) => \E x \in DOMAIN s : s[x] = j
    BY <1>1 DEF ToSet
  <2> QED
    BY <1>4, <1>5, <2>1, <2>2, <2>3 DEF ToSet
<1> QED
  BY <1>3, <1>6, <1>7 DEF RowIs, s

----------------------------------------------------------------------------
(* Cuthill-McKee: the array is filled from its begin with different nodes  *)
(* that are marked.  A root that is placed too early leaves fewer filled   *)
(* than are marked, and the array is never full then.                      *)

Filled ==
  /\ \A i \in 0 .. lvl2 - 1 : permutation[i] \in node_mask
  /\ \A i, j \in 0 .. lvl2 - 1 : permutation[i] = permutation[j] => i = j

CMInv ==
  /\ graph \in [Node -> Seq(Node)] /\ options \in Options
  /\ permutation \in [Node -> Node \cup {Unset}] /\ node_mask \subseteq Node
  /\ lvl1 \in Nat /\ lvl2 \in Nat /\ lvl_root \in Nat /\ lvl1 <= lvl2 /\ lvl2 <= NumNodes
  /\ pc \in {"idle", "roots", "levels", "done", "failed"}
  /\ pc = "levels" => lvl1 > 0 /\ lvl_root > 0 /\ lvl_root <= lvl2
  /\ Filled
  /\ pc = "done" => lvl2 = NumNodes /\ swap_pos = SwapFromPerm(permutation)

\* A full array is a permutation.
LEMMA FullPermutes ==
  ASSUME CMInv, lvl2 = NumNodes
  PROVE  IsPermutation(permutation)
<1>1. Node = 0 .. lvl2 - 1
  BY DEF Node
<1>2. permutation \in [Node -> Node] /\ \A i, j \in Node : permutation[i] = permutation[j] => i = j
  BY <1>1 DEF CMInv, Filled
<1>3. permutation \in Injection(Node, Node)
  BY <1>2 DEF Injection, IsInjective
<1>4. permutation \in Surjection(Node, Node)
  BY <1>3, NodesAreFinite, FS_Injection
<1>5. \A k \in Node : \E i \in Node : permutation[i] = k
  BY <1>4 DEF Surjection
<1> QED
  BY <1>2, <1>5 DEF IsPermutation

LEMMA RootKeeps ==
  ASSUME CMInv, NextRoot
  PROVE  CMInv'
<1>1. PICK r \in Node : /\ r \notin node_mask
                        /\ permutation' = [permutation EXCEPT ![lvl1] = r]
                        /\ node_mask' = node_mask \cup {r}
  BY DEF NextRoot, IsRoot
<1>2. /\ lvl1 \in Node /\ lvl1 \in Nat /\ lvl1 <= lvl2 /\ lvl2 < NumNodes /\ lvl2 \in Nat
      /\ lvl1' = lvl1 + 1 /\ lvl2' = lvl1 + 1 /\ lvl_root' = lvl1 + 1
      /\ pc' = "levels" /\ UNCHANGED <<graph, options, swap_pos>>
  BY NumNodesAssumption DEF CMInv, NextRoot, Node
<1>3. permutation' \in [Node -> Node \cup {Unset}] /\ node_mask' \subseteq Node
  BY <1>1 DEF CMInv
<1>4. permutation'[lvl1] = r /\ \A i \in 0 .. lvl1 - 1 : permutation'[i] = permutation[i] /\ i \in 0 .. lvl2 - 1
  BY <1>1, <1>2 DEF CMInv
<1>5. \A i \in 0 .. lvl2' - 1 : i = lvl1 \/ i \in 0 .. lvl1 - 1
  BY <1>2
<1>6. Filled'
  BY <1>1, <1>4, <1>5 DEF CMInv, Filled
<1>7. lvl1' \in Nat /\ lvl2' \in Nat /\ lvl_root' \in Nat /\ lvl1' > 0 /\ lvl2' <= NumNodes
  BY <1>2, NumNodesAssumption
<1> QED
  BY <1>2, <1>3, <1>6, <1>7 DEF CMInv

\* The next level consists of nodes that are not marked yet, each once.
LEMMA LevelIs ==
  ASSUME CMInv, pc = "levels"
  PROVE  /\ IsSeq(SortLevel(Unprocessed)) /\ IsInjective(SortLevel(Unprocessed))
         /\ \A v \in ToSet(SortLevel(Unprocessed)) : v \in Node /\ v \notin node_mask
         /\ Unprocessed # <<>> => Len(SortLevel(Unprocessed)) > 0
<1> DEFINE level == Level
           t == Through(level, graph)
           met == Injectify(t)
           places == {x \in DOMAIN met : met[x] \notin node_mask}
           u == Unprocessed
<1>1. IsSeq(level) /\ \A v \in ToSet(level) : v \in Node
  <2>1. PICK n \in Nat : n = lvl2 - lvl1 + 1
    BY DEF CMInv
  <2>2. level = [x \in 1 .. n |-> permutation[lvl1 + x - 2]]
    BY <2>1 DEF Level
  <2>3. \A x \in 1 .. n : lvl1 + x - 2 \in 0 .. lvl2 - 1
    BY <2>1 DEF CMInv
  <2>4. \A x \in 1 .. n : level[x] \in Node
    BY <2>2, <2>3 DEF CMInv, Filled
  <2> HIDE DEF level
  <2>5. level = [x \in 1 .. n |-> level[x]]
    BY <2>2
  <2>6. IsSeq(level)
    BY <2>5, FunctionIsSeq
  <2> QED
    BY <2>2, <2>4, <2>6 DEF ToSet
<1>2. \A v \in Node : IsSeq(graph[v]) /\ \A w \in ToSet(graph[v]) : w \in Node
  <2> TAKE v \in Node
  <2>1. graph[v] \in Seq(Node)
    BY DEF CMInv
  <2> QED
    BY <2>1 DEF IsSeq, ToSet
<1>3. IsSeq(t) /\ \A w \in ToSet(t) : w \in Node
  <2> HIDE DEF level
  <2>1. IsSeq(t) /\ \A w : w \in ToSet(t) <=> \E v \in ToSet(level) : w \in ToSet(graph[v])
    BY <1>1, <1>2, ThroughIs
  <2> QED
    BY <1>1, <1>2, <2>1
<1> HIDE DEF t
<1>4. IsSeq(met) /\ IsInjective(met) /\ \A w \in ToSet(met) : w \in Node
  BY <1>3, InjectifyIs
<1> HIDE DEF met
<1>5. u = AtPlaces(met, places)
  BY DEF Unprocessed, met, t
<1>6. /\ IsSeq(u) /\ IsInjective(u)
      /\ \A v \in ToSet(u) : v \in Node /\ v \notin node_mask
  <2>1. places \subseteq DOMAIN met /\ \A x, y \in places : met[x] = met[y] => x = y
    BY <1>4 DEF IsInjective
  <2>2. ASSUME NEW x \in places PROVE met[x] \in Node /\ met[x] \notin node_mask
    BY <1>4 DEF ToSet
  <2> HIDE DEF places
  <2>3. IsSeq(u) /\ IsInjective(u) /\ ToSet(u) = {met[x] : x \in places}
    BY <1>4, <1>5, <2>1, PlacesHave
  <2> QED
    BY <2>2, <2>3
<1> HIDE DEF u
<1>7. \A x \in DOMAIN u : Degree(u[x]) \in Nat
  <2> TAKE x \in DOMAIN u
  <2>1. u[x] \in Node
    BY <1>6 DEF ToSet
  <2> QED
    BY <1>2, <2>1, SeqLength DEF Degree
<1>8. ASSUME NEW keys, \A x \in DOMAIN u : keys[x] \in Int
      PROVE  IsSortOf(InsertionSort(u, keys), u, keys)
  BY <1>6, <1>8, SortHas
<1>9. SortLevel(u) = u \/ \E keys : IsSortOf(SortLevel(u), u, keys)
  <2> DEFINE up == [x \in DOMAIN u |-> Degree(u[x])]
             down == [x \in DOMAIN u |-> -Degree(u[x])]
  <2>1. (\A x \in DOMAIN u : up[x] \in Int) /\ (\A x \in DOMAIN u : down[x] \in Int)
    BY <1>7
  <2>2. options.sort \in {"default", "asc", "desc"}
    BY DEF CMInv, Options
  <2>3. SortLevel(u) = u \/ SortLevel(u) = InsertionSort(u, up) \/ SortLevel(u) = InsertionSort(u, down)
    BY <2>2 DEF SortLevel
  <2> HIDE DEF up, down
  <2> QED
    BY <1>8, <2>1, <2>3
<1>10. /\ IsSeq(SortLevel(u)) /\ IsInjective(SortLevel(u))
       /\ ToSet(SortLevel(u)) = ToSet(u) /\ Len(SortLevel(u)) = Len(u)
  BY <1>6, <1>9 DEF IsSortOf
<1>11. u # <<>> => Len(u) > 0
  BY <1>6, SeqLength
<1> QED
  BY <1>6, <1>10, <1>11 DEF u

LEMMA LevelKeeps ==
  ASSUME CMInv, NextLevel
  PROVE  CMInv'
<1> DEFINE level == SortLevel(Unprocessed)
           n == Len(level)
<1>1. /\ permutation' = [i \in Node |-> IF i + 1 - lvl2 \in DOMAIN level
                                        THEN level[i + 1 - lvl2] ELSE permutation[i]]
      /\ node_mask' = node_mask \cup ToSet(level)
      /\ lvl1' = lvl2 + 1 /\ lvl2' = lvl2 + n
      /\ pc = "levels" /\ UNCHANGED <<graph, options, swap_pos, lvl_root, pc>>
  BY DEF NextLevel
<1>2. /\ IsSeq(level) /\ IsInjective(level) /\ n > 0
      /\ \A v \in ToSet(level) : v \in Node /\ v \notin node_mask
  BY <1>1, LevelIs DEF NextLevel
<1> HIDE DEF level
<1>3. DOMAIN level = 1 .. n /\ n \in Nat
  BY <1>2, SeqDomain
<1> HIDE DEF n
<1>4. lvl2 \in Nat /\ lvl2 <= NumNodes /\ permutation \in [Node -> Node \cup {Unset}] /\ node_mask \subseteq Node
  BY DEF CMInv
<1> DEFINE f == [i \in 0 .. lvl2 + n - 1 |-> IF i < lvl2 THEN permutation[i] ELSE level[i + 1 - lvl2]]
<1>5. \A i \in 0 .. lvl2 + n - 1 :
         IF i < lvl2 THEN i \in 0 .. lvl2 - 1 /\ f[i] = permutation[i] /\ f[i] \in node_mask
         ELSE i + 1 - lvl2 \in DOMAIN level /\ f[i] = level[i + 1 - lvl2] /\ f[i] \in ToSet(level)
  <2> TAKE i \in 0 .. lvl2 + n - 1
  <2>1. CASE i < lvl2
    BY <1>3, <1>4, <2>1 DEF CMInv, Filled
  <2>2. CASE ~(i < lvl2)
    BY <1>3, <1>4, <2>2 DEF ToSet
  <2> QED
    BY <2>1, <2>2
<1>6. DOMAIN f = 0 .. lvl2 + n - 1
  OBVIOUS
<1> HIDE DEF f
<1>7. \A i \in 0 .. lvl2 + n - 1 : f[i] \in node_mask' /\ f[i] \in Node
  BY <1>1, <1>2, <1>4, <1>5
<1>8. \A i, j \in 0 .. lvl2 + n - 1 : f[i] = f[j] => i = j
  <2> SUFFICES ASSUME NEW i \in 0 .. lvl2 + n - 1, NEW j \in 0 .. lvl2 + n - 1, f[i] = f[j] PROVE i = j
    OBVIOUS
  <2>1. CASE i < lvl2 /\ j < lvl2
    BY <1>5, <2>1 DEF CMInv, Filled
  <2>2. CASE ~(i < lvl2) /\ ~(j < lvl2)
    <3>1. i + 1 - lvl2 = j + 1 - lvl2
      BY <1>2, <1>5, <2>2 DEF IsInjective
    <3> QED
      BY <1>4, <3>1
  <2>3. CASE (i < lvl2) # (j < lvl2)
    BY <1>2, <1>5, <2>3
  <2> QED
    BY <2>1, <2>2, <2>3
<1>9. lvl2 + n <= NumNodes
  <2>1. f \in [0 .. lvl2 + n - 1 -> Node]
    <3>1. f = [i \in 0 .. lvl2 + n - 1 |-> f[i]]
      BY DEF f
    <3> QED
      BY <1>7, <3>1
  <2>2. f \in Injection(0 .. lvl2 + n - 1, Node)
    BY <1>6, <1>8, <2>1 DEF Injection, IsInjective
  <2>3. Cardinality(0 .. lvl2 + n - 1) <= NumNodes
    BY <2>2, NodesAreFinite, FS_Injection
  <2>4. Cardinality(0 .. lvl2 + n - 1) = IF 0 > lvl2 + n - 1 THEN 0 ELSE (lvl2 + n - 1) - 0 + 1
    BY <1>3, <1>4, FS_Interval
  <2> QED
    BY <1>3, <1>4, <2>3, <2>4, NumNodesAssumption
<1>10. \A i \in 0 .. lvl2 + n - 1 : i \in Node /\ permutation'[i] = f[i]
  <2> TAKE i \in 0 .. lvl2 + n - 1
  <2>1. i \in Node
    BY <1>3, <1>4, <1>9, NumNodesAssumption DEF Node
  <2>2. i < lvl2 => i + 1 - lvl2 \notin DOMAIN level
    BY <1>3, <1>4
  <2> QED
    BY <1>1, <1>5, <2>1, <2>2
<1>11. Filled'
  <2>1. 0 .. lvl2' - 1 = 0 .. lvl2 + n - 1
    BY <1>1, <1>3, <1>4
  <2> QED
    <3>1. \A i \in 0 .. lvl2' - 1 : permutation'[i] \in node_mask'
      BY <1>7, <1>10, <2>1
    <3>2. \A i, j \in 0 .. lvl2' - 1 : permutation'[i] = permutation'[j] => i = j
      BY <1>8, <1>10, <2>1
    <3> QED
      BY <3>1, <3>2 DEF Filled
<1>12. permutation' \in [Node -> Node \cup {Unset}] /\ node_mask' \subseteq Node
  <2>1. \A x \in DOMAIN level : level[x] \in Node
    BY <1>2 DEF ToSet
  <2> QED
    BY <1>1, <1>2, <1>4, <2>1
<1>13. /\ lvl1' \in Nat /\ lvl2' \in Nat /\ lvl1' <= lvl2' /\ lvl2' <= NumNodes
       /\ lvl1' > 0 /\ lvl_root' > 0 /\ lvl_root' <= lvl2'
  BY <1>1, <1>2, <1>3, <1>4, <1>9 DEF CMInv
<1> QED
  BY <1>1, <1>11, <1>12, <1>13 DEF CMInv

LEMMA ReverseKeeps ==
  ASSUME CMInv, EndComponent
  PROVE  CMInv'
<1>1. /\ lvl2 \in Nat /\ lvl_root \in Nat /\ lvl_root > 0 /\ lvl_root <= lvl2 /\ lvl2 <= NumNodes
      /\ pc' = "roots" /\ UNCHANGED <<graph, options, swap_pos, node_mask, lvl1, lvl2, lvl_root>>
  BY DEF CMInv, EndComponent
<1> DEFINE From(i) == IF options.reverse /\ i \in lvl_root - 1 .. lvl2 - 1 THEN lvl_root + lvl2 - 2 - i ELSE i
<1>2. permutation' = [i \in Node |-> permutation[From(i)]]
  BY DEF EndComponent, CMInv
<1>3. \A i \in 0 .. lvl2 - 1 : From(i) \in 0 .. lvl2 - 1 /\ i \in Node
  BY <1>1, NumNodesAssumption DEF Node
<1>4. \A i, j \in 0 .. lvl2 - 1 : From(i) = From(j) => i = j
  BY <1>1
<1>5. \A i \in Node : From(i) \in Node
  BY <1>1, NumNodesAssumption DEF Node
<1> HIDE DEF From
<1>6. permutation' \in [Node -> Node \cup {Unset}]
  BY <1>2, <1>5 DEF CMInv
<1>7. Filled'
  BY <1>1, <1>2, <1>3, <1>4 DEF CMInv, Filled
<1> QED
  BY <1>1, <1>6, <1>7 DEF CMInv

LEMMA CMKeeps ==
  ASSUME CMInv, CMStep
  PROVE  CMInv'
<1>1. CASE NextRoot
  BY <1>1, RootKeeps
<1>2. CASE NoRoot
  BY <1>2 DEF NoRoot, CMInv, Filled
<1>3. CASE NextLevel
  BY <1>3, LevelKeeps
<1>4. CASE EndComponent
  BY <1>4, ReverseKeeps
<1>5. CASE ReturnPermutation
  <2>1. lvl2 = NumNodes
    BY <1>5, NumNodesAssumption DEF ReturnPermutation, CMInv
  <2> QED
    BY <1>5, <2>1 DEF ReturnPermutation, CMInv, Filled
<1> QED
  BY <1>1, <1>2, <1>3, <1>4, <1>5 DEF CMStep

----------------------------------------------------------------------------
(* The system: its rows, in the order p, are about the couplings of the    *)
(* DOFs that p has there.                                                  *)

HasRows(m, p, g) == m = [i \in Node |-> m[i]] /\ \A i \in Node : RowIs(m[i], i, p, g)

LEMMA MatrixPermutes ==
  ASSUME NEW perm, IsPermutation(perm), NEW p \in [Node -> Node], NEW m, NEW g, HasRows(m, p, g)
  PROVE  HasRows(PermuteMatrix(m, perm, perm), [k \in Node |-> p[perm[k]]], g)
<1> DEFINE w == PermFromInverse(perm)
           renamed(s) == [x \in DOMAIN s |-> [s[x] EXCEPT !.col = w[@]]]
           r == PermuteMatrix(m, perm, perm)
           q == [k \in Node |-> p[perm[k]]]
<1>1. Inverts(w, perm)
  BY ScatterInverts
<1>2. DOMAIN m = Node
  BY DEF HasRows
<1>3. r = [i \in Node |-> SortRow(renamed(m[perm[i]]))]
  BY <1>2 DEF PermuteMatrix
<1> HIDE DEF w, r
<1>4. ASSUME NEW i \in Node PROVE RowIs(r[i], i, q, g)
  <2>1. perm[i] \in Node
    BY DEF IsPermutation
  <2>2. PICK row : row = m[perm[i]]
    OBVIOUS
  <2>3. RowIs(row, perm[i], p, g)
    BY <2>1, <2>2 DEF HasRows
  <2>4. RowIs(SortRow(renamed(row)), i, q, g)
    BY <1>1, <2>3, RowPermutes
  <2>5. r[i] = SortRow(renamed(row))
    BY <1>3, <2>2
  <2> QED
    BY <2>4, <2>5
<1>5. r = [i \in Node |-> r[i]]
  BY <1>3
<1> HIDE DEF q
<1>6. HasRows(r, q, g)
  BY <1>4, <1>5 DEF HasRows
<1> QED
  BY <1>6 DEF r, q

\* The graph of such a matrix.
GraphIs(h, p, g) ==
  /\ h \in [Node -> Seq(Node)]
  /\ \A i \in Node : /\ Ascending(h[i])
                     /\ \A j : j \in ToSet(h[i]) <=> j \in Node /\ CoupledIn(g, p[i], p[j])

LEMMA GraphOfRows ==
  ASSUME NEW m, NEW p, NEW g, HasRows(m, p, g)
  PROVE  GraphIs(GraphOf(m), p, g)
<1> DEFINE h == GraphOf(m)
<1>1. h = [i \in Node |-> [x \in DOMAIN m[i] |-> m[i][x].col]]
  BY DEF GraphOf
<1> HIDE DEF h
<1>2. ASSUME NEW i \in Node
      PROVE  /\ h[i] \in Seq(Node) /\ Ascending(h[i])
             /\ \A j : j \in ToSet(h[i]) <=> j \in Node /\ CoupledIn(g, p[i], p[j])
  <2>1. PICK row : row = m[i]
    OBVIOUS
  <2>2. RowIs(row, i, p, g)
    BY <2>1 DEF HasRows
  <2>3. PICK s : s = h[i]
    OBVIOUS
  <2>4. s = [x \in DOMAIN row |-> row[x].col]
    BY <1>1, <2>1, <2>3
  <2>5. DOMAIN row = 1 .. Len(row) /\ Len(row) \in Nat
    BY <2>2, SeqDomain DEF RowIs
  <2>6. ASSUME NEW x \in DOMAIN row
        PROVE  s[x] \in Node /\ CoupledIn(g, p[i], p[s[x]])
    <3>1. row[x] \in ToSet(row)
      BY DEF ToSet
    <3>2. PICK j \in Node : CoupledIn(g, p[i], p[j]) /\ row[x] = Entry(i, j, p)
      BY <2>2, <3>1 DEF RowIs
    <3>3. s[x] = j
      BY <2>4, <3>2 DEF Entry
    <3> QED
      BY <3>2, <3>3
  <2>7. ASSUME NEW j \in Node, CoupledIn(g, p[i], p[j]) PROVE \E x \in DOMAIN row : s[x] = j
    <3>1. Entry(i, j, p) \in ToSet(row)
      BY <2>2, <2>7 DEF RowIs
    <3>2. PICK x \in DOMAIN row : row[x] = Entry(i, j, p)
      BY <3>1 DEF ToSet
    <3>3. s[x] = j
      BY <2>4, <3>2 DEF Entry
    <3> QED
      BY <3>3
  <2>8. s \in Seq(Node)
    BY <2>4, <2>5, <2>6
  <2>9. \A x, y \in DOMAIN s : s[x] \in Int /\ (x < y => s[x] < s[y])
    BY <2>2, <2>4, <2>6 DEF RowIs, Node
  <2>10. Ascending(s)
    BY <2>8, <2>9 DEF Ascending, IsSeq
  <2>11. \A j : j \in ToSet(s) <=> j \in Node /\ CoupledIn(g, p[i], p[j])
    BY <2>4, <2>6, <2>7 DEF ToSet
  <2> QED
    BY <2>3, <2>8, <2>10, <2>11
<1>3. h \in [Node -> Seq(Node)]
  BY <1>1, <1>2
<1>4. GraphIs(h, p, g)
  BY <1>2, <1>3 DEF GraphIs
<1> QED
  BY <1>4 DEF h

\* Graph's constructor makes the same of the graph that permute makes of the matrix.
LEMMA GraphsAgree ==
  ASSUME NEW perm, IsPermutation(perm), NEW h, NEW f, NEW g,
         GraphIs(h, Identity(NumNodes), g), GraphIs(f, perm, g)
  PROVE  SortIndices(PermutedGraph(h, perm, PermFromInverse(perm))) = f
<1> DEFINE w == PermFromInverse(perm)
           r == PermutedGraph(h, perm, w)
           t == SortIndices(r)
<1>1. /\ perm \in [Node -> Node] /\ w \in [Node -> Node]
      /\ \A k \in Node : w[perm[k]] = k /\ perm[w[k]] = k
  BY ScatterInverts DEF Inverts, IsPermutation
<1>2. DOMAIN h = Node
  BY DEF GraphIs
<1>3. r = [i \in Node |-> [x \in DOMAIN h[perm[i]] |-> w[h[perm[i]][x]]]]
  BY <1>2 DEF PermutedGraph
<1> HIDE DEF w, r
<1>4. t = [i \in Node |-> InsertionSort(r[i], r[i])]
  BY <1>3 DEF SortIndices
<1> HIDE DEF t
<1>5. ASSUME NEW i \in Node PROVE t[i] = f[i]
  <2>1. PICK s, u : s = h[perm[i]] /\ u = r[i]
    OBVIOUS
  <2>2. perm[i] \in Node
    BY <1>1
  <2>3. /\ Ascending(s)
        /\ \A j : j \in ToSet(s) <=> j \in Node /\ CoupledIn(g, perm[i], j)
    <3>1. /\ Ascending(s)
          /\ \A j : j \in ToSet(s) <=>
               j \in Node /\ CoupledIn(g, Identity(NumNodes)[perm[i]], Identity(NumNodes)[j])
      BY <2>1, <2>2 DEF GraphIs
    <3> QED
      BY <2>2, <3>1, IdentityPermutes
  <2>4. u = [x \in DOMAIN s |-> w[s[x]]]
    BY <1>3, <2>1
  <2>5. DOMAIN s = 1 .. Len(s) /\ Len(s) \in Nat
    BY <2>3, SeqDomain DEF Ascending
  <2>6. \A x \in DOMAIN s : s[x] \in Node /\ w[s[x]] \in Node /\ perm[w[s[x]]] = s[x]
    BY <1>1, <2>3 DEF ToSet
  <2>7. IsSeq(u)
    <3>1. u = [x \in 1 .. Len(s) |-> u[x]]
      BY <2>4, <2>5
    <3> QED
      BY <2>5, <3>1, FunctionIsSeq
  <2>8. IsInjective(u)
    <3> SUFFICES ASSUME NEW x \in DOMAIN s, NEW y \in DOMAIN s, u[x] = u[y] PROVE x = y
      BY <2>4 DEF IsInjective
    <3>1. s[x] = s[y]
      BY <2>4, <2>6
    <3>2. s[x] \in Int /\ (x < y => s[x] < s[y]) /\ (y < x => s[y] < s[x])
      BY <2>3 DEF Ascending
    <3>3. ~(x < y) /\ ~(y < x)
      BY <3>1, <3>2
    <3> QED
      BY <2>5, <3>3
  <2>9. \A j : j \in ToSet(u) <=> j \in Node /\ CoupledIn(g, perm[i], perm[j])
    <3>1. ASSUME NEW x \in DOMAIN s PROVE u[x] \in Node /\ CoupledIn(g, perm[i], perm[u[x]])
      <4>1. s[x] \in ToSet(s)
        BY DEF ToSet
      <4> QED
        BY <2>3, <2>4, <2>6, <4>1
    <3>2. ASSUME NEW j \in Node, CoupledIn(g, perm[i], perm[j]) PROVE \E x \in DOMAIN s : u[x] = j
      <4>1. perm[j] \in ToSet(s)
        BY <1>1, <2>3, <3>2
      <4>2. PICK x \in DOMAIN s : s[x] = perm[j]
        BY <4>1 DEF ToSet
      <4>3. u[x] = j
        BY <1>1, <2>4, <4>2
      <4> QED
        BY <4>3
    <3> QED
      BY <2>4, <3>1, <3>2 DEF ToSet
  <2>10. \A v \in ToSet(u) : v \in Int
    BY <2>9 DEF Node
  <2>11. Ascending(InsertionSort(u, u)) /\ ToSet(InsertionSort(u, u)) = ToSet(u)
    BY <2>7, <2>8, <2>10, IndicesAscend
  <2>12. Ascending(f[i]) /\ \A j : j \in ToSet(f[i]) <=> j \in Node /\ CoupledIn(g, perm[i], perm[j])
    BY DEF GraphIs
  <2>13. ToSet(f[i]) = ToSet(InsertionSort(u, u))
    BY <2>9, <2>11, <2>12
  <2>14. f[i] = InsertionSort(u, u)
    BY <2>11, <2>12, <2>13, AscendingSame
  <2> QED
    BY <1>4, <2>1, <2>14
<1>6. DOMAIN f = Node /\ f = [i \in Node |-> f[i]]
  BY DEF GraphIs
<1>7. t = f
  BY <1>4, <1>5, <1>6
<1> QED
  BY <1>7 DEF t, r, w

----------------------------------------------------------------------------
(* The program: whatever is done, matrix and vector are the system that    *)
(* was assembled, in the order they are in.                                *)

Old == {"assembled", "numbering", "restored"}
New == {"permuted", "coloured once", "coloured twice"}

SysInv ==
  /\ IsMapping(dof_graph) /\ CMInv
  /\ phase \in Old \cup New \cup {"begin"}
  /\ phase \in Old => HasRows(matrix, Identity(NumNodes), dof_graph) /\ vector = Identity(NumNodes)
  /\ phase \in New => /\ HasRows(matrix, permutation, dof_graph) /\ vector = permutation
                      /\ pc = "done"
  /\ phase \in {"numbering"} \cup New => GraphIs(graph, Identity(NumNodes), dof_graph)

LEMMA SysInit == ASSUME Init PROVE SysInv
<1>1. IsMapping(dof_graph)
  <2>1. dof_graph \in DofGraphs /\ IsDofGraph(dof_graph)
    BY DEF Init
  <2> QED
    BY <2>1, DofGraphsAssumption DEF IsMapping, IsSeq
<1>2. CMInv
  <2>1. graph \in [Node -> Seq(Node)]
    BY DEF Init, CMInit
  <2>2. options \in Options
    BY DEF Init, CMInit, NoOptions, Options
  <2>3. permutation \in [Node -> Node \cup {Unset}] /\ node_mask \subseteq Node
    BY DEF Init, CMInit, UnsetArray
  <2>4. lvl1 = 0 /\ lvl2 = 0 /\ lvl_root = 0 /\ pc = "idle"
    BY DEF Init, CMInit
  <2>5. Filled
    BY <2>4 DEF Filled
  <2> QED
    BY <2>1, <2>2, <2>3, <2>4, <2>5, NumNodesAssumption DEF CMInv
<1> QED
  BY <1>1, <1>2 DEF Init, SysInv, Old, New

\* The graph that is numbered has lists of nodes.
LEMMA PatternStays ==
  ASSUME SysInv, phase' \in Old \cup New, UNCHANGED <<dof_graph, cmVars>>,
         phase' \in Old => HasRows(matrix', Identity(NumNodes), dof_graph) /\ vector' = Identity(NumNodes),
         phase' \in New => /\ HasRows(matrix', permutation, dof_graph) /\ vector' = permutation
                           /\ pc = "done",
         phase' \in {"numbering"} \cup New => GraphIs(graph, Identity(NumNodes), dof_graph)
  PROVE  SysInv'
<1>1. CMInv'
  BY DEF SysInv, CMInv, Filled, cmVars
<1>2. IsMapping(dof_graph)'
  BY DEF SysInv
<1> QED
  BY <1>1, <1>2 DEF SysInv, cmVars

LEMMA AssembleKeeps == ASSUME SysInv, Assemble PROVE SysInv'
<1> DEFINE adjactor == SortIndices(RenderInjectify(RenderTranspose(dof_graph, NumNodes), dof_graph))
           m == [i \in Node |-> [x \in DOMAIN adjactor[i] |-> [col |-> adjactor[i][x], val |-> <<i, adjactor[i][x]>>]]]
<1>1. ListsCoupled(adjactor, dof_graph)
  BY PatternIs DEF SysInv
<1>2. matrix' = m /\ vector' = [i \in Node |-> i] /\ phase' = "assembled" /\ UNCHANGED <<dof_graph, cmVars>>
  BY DEF Assemble
<1> HIDE DEF adjactor
<1>3. \A i \in Node : RowIs(m[i], i, Identity(NumNodes), dof_graph)
  <2> TAKE i \in Node
  <2>1. RowIs([x \in DOMAIN adjactor[i] |-> [col |-> adjactor[i][x], val |-> <<i, adjactor[i][x]>>]],
              i, Identity(NumNodes), dof_graph)
    BY <1>1, AssembledRow
  <2> QED
    BY <2>1
<1>4. m = [i \in Node |-> m[i]]
  OBVIOUS
<1> HIDE DEF m
<1>5. HasRows(m, Identity(NumNodes), dof_graph)
  BY <1>3, <1>4 DEF HasRows
<1>6. vector' = Identity(NumNodes)
  BY <1>2 DEF Identity, Node
<1> QED
  BY <1>2, <1>5, <1>6, PatternStays DEF Old, New

LEMMA RenumberKeeps == ASSUME SysInv, Renumber PROVE SysInv'
<1>1. PICK o \in Options : Compute(GraphOf(matrix), o)
  BY DEF Renumber
<1>2. /\ graph' = GraphOf(matrix) /\ options' = o /\ pc' = "roots"
      /\ UNCHANGED <<permutation, swap_pos, node_mask, lvl1, lvl2, lvl3, lvl_root>>
  BY <1>1 DEF Compute
<1>3. /\ phase = "assembled" /\ phase' = "numbering" /\ UNCHANGED <<dof_graph, matrix, vector>>
  BY DEF Renumber
<1>4. HasRows(matrix, Identity(NumNodes), dof_graph) /\ vector = Identity(NumNodes)
  BY <1>3 DEF SysInv, Old
<1>5. GraphIs(GraphOf(matrix), Identity(NumNodes), dof_graph)
  BY <1>4, GraphOfRows
<1>6. CMInv'
  <2>1. graph' \in [Node -> Seq(Node)]
    BY <1>2, <1>5 DEF GraphIs
  <2> QED
    BY <1>2, <2>1 DEF SysInv, CMInv, Filled
<1>7. IsMapping(dof_graph)'
  BY <1>3 DEF SysInv
<1>8. HasRows(matrix, Identity(NumNodes), dof_graph)' /\ GraphIs(graph, Identity(NumNodes), dof_graph)'
  BY <1>2, <1>3, <1>4, <1>5
<1> QED
  BY <1>3, <1>4, <1>6, <1>7, <1>8 DEF SysInv, Old, New

LEMMA NumberKeeps == ASSUME SysInv, Number PROVE SysInv'
<1>1. phase = "numbering" /\ CMStep /\ UNCHANGED <<dof_graph, matrix, vector, phase>>
  BY DEF Number, systemVars
<1>2. CMInv'
  BY <1>1, CMKeeps DEF SysInv
<1>3. UNCHANGED graph
  BY <1>1 DEF CMStep, NextRoot, NoRoot, NextLevel, EndComponent, ReturnPermutation
<1> QED
  BY <1>1, <1>2, <1>3 DEF SysInv, Old, New

LEMMA PermuteKeeps == ASSUME SysInv, PermuteSystem PROVE SysInv'
<1> DEFINE id == Identity(NumNodes)
<1>1. /\ phase = "numbering" /\ pc = "done" /\ phase' = "permuted"
      /\ matrix' = PermuteMatrix(matrix, permutation, permutation)
      /\ vector' = InSitu(swap_pos, vector)
      /\ UNCHANGED <<dof_graph, cmVars>>
  BY DEF PermuteSystem, PermuteVector
<1>2. HasRows(matrix, id, dof_graph) /\ vector = id /\ GraphIs(graph, id, dof_graph)
  BY <1>1 DEF SysInv, Old
<1>3. IsPermutation(permutation) /\ permutation \in [Node -> Node] /\ swap_pos = SwapFromPerm(permutation)
  BY <1>1, FullPermutes DEF SysInv, CMInv, IsPermutation
<1>4. id \in [Node -> Node] /\ \A i \in Node : id[i] = i
  BY IdentityPermutes DEF IsPermutation
<1> HIDE DEF id
<1>5. [k \in Node |-> id[permutation[k]]] = permutation
  BY <1>3, <1>4
<1>6. HasRows(matrix', permutation, dof_graph)
  BY <1>1, <1>2, <1>3, <1>4, <1>5, MatrixPermutes
<1>7. vector' = permutation
  BY <1>1, <1>2, <1>3, <1>4, <1>5, InSituGathers
<1> QED
  BY <1>1, <1>2, <1>6, <1>7, PatternStays DEF Old, New, id

LEMMA PermuteBackKeeps == ASSUME SysInv, PermuteBack PROVE SysInv'
<1> DEFINE w == PermFromInverse(permutation)
<1>1. /\ phase = "coloured twice" /\ phase' = "restored"
      /\ matrix' = PermuteMatrix(matrix, w, w)
      /\ vector' = InSitu(SwapFromPerm(w), vector)
      /\ UNCHANGED <<dof_graph, cmVars>>
  BY DEF PermuteBack, PermuteVector
<1>2. HasRows(matrix, permutation, dof_graph) /\ vector = permutation /\ pc = "done"
  BY <1>1 DEF SysInv, New
<1>3. IsPermutation(permutation) /\ permutation \in [Node -> Node]
  BY <1>2, FullPermutes DEF SysInv, CMInv, IsPermutation
<1>4. IsPermutation(w) /\ \A i \in Node : permutation[w[i]] = i
  BY <1>3, ScatterInverts DEF Inverts
<1> HIDE DEF w
<1>5. [k \in Node |-> permutation[w[k]]] = Identity(NumNodes)
  BY <1>4 DEF Identity, Node
<1>6. HasRows(matrix', Identity(NumNodes), dof_graph)
  BY <1>1, <1>2, <1>3, <1>4, <1>5, MatrixPermutes
<1>7. vector' = Identity(NumNodes)
  <2>1. InSitu(SwapFromPerm(w), permutation) = [i \in Node |-> permutation[w[i]]]
    BY <1>3, <1>4, InSituGathers
  <2> QED
    BY <1>1, <1>2, <1>5, <2>1
<1> QED
  BY <1>1, <1>6, <1>7, PatternStays DEF Old, New

LEMMA ColourKeeps == ASSUME SysInv, ColourInOrder \/ ColourMatrix \/ Colour PROVE SysInv'
<1>1. /\ UNCHANGED <<dof_graph, matrix, vector, cmVars>>
      /\ \/ phase \in New /\ phase' \in New
         \/ phase' = phase
  BY DEF ColourInOrder, ColourMatrix, Colour, systemVars, New
<1>2. CMInv'
  BY <1>1 DEF SysInv, CMInv, Filled, cmVars
<1> QED
  BY <1>1, <1>2 DEF SysInv, Old, New, cmVars

LEMMA SysInvIsInvariant == Spec => []SysInv
<1>1. SysInv /\ [Next]_vars => SysInv'
  <2> SUFFICES ASSUME SysInv, [Next]_vars PROVE SysInv'
    OBVIOUS
  <2>1. CASE UNCHANGED vars
    BY <2>1 DEF vars, cmVars, systemVars, SysInv, CMInv, Filled
  <2>2. CASE Next
    BY <2>2, AssembleKeeps, RenumberKeeps, NumberKeeps, PermuteKeeps, PermuteBackKeeps, ColourKeeps DEF Next
  <2> QED
    BY <2>1, <2>2
<1> QED
  BY <1>1, SysInit, PTL DEF Spec

LEMMA SystemOfRows ==
  ASSUME NEW p, HasRows(matrix, p, dof_graph), vector = p
  PROVE  IsSystemOf(p)
<1>1. ASSUME NEW i \in Node
      PROVE  /\ ToSet(matrix[i]) = {[col |-> j, val |-> <<p[i], p[j]>>] :
                                     j \in {k \in Node : Coupled(p[i], p[k])}}
             /\ \A x, y \in DOMAIN matrix[i] : x < y => matrix[i][x].col < matrix[i][y].col
  <2>1. RowIs(matrix[i], i, p, dof_graph)
    BY DEF HasRows
  <2>2. \A e : e \in ToSet(matrix[i]) <=>
                 e \in {[col |-> j, val |-> <<p[i], p[j]>>] : j \in {k \in Node : Coupled(p[i], p[k])}}
    BY <2>1 DEF RowIs, Entry, CoupledIn, Coupled
  <2> QED
    BY <2>1, <2>2 DEF RowIs
<1> QED
  BY <1>1 DEF IsSystemOf

\* For any number of nodes, all mappings of cells to DOFs and all options of Cuthill-McKee:
\* what is assembled has each coupling of the mapping once, in order, and permuting matrix and
\* vector there and back renames DOFs and changes nothing else.
\* [symbolic_assembler.hpp:90, sparse_matrix_csr.hpp:2338, dense_vector.hpp:1065]
THEOREM SystemStaysTheSame == Spec => []SystemIsTheSame
<1>1. SysInv => SystemIsTheSame
  BY SystemOfRows DEF SysInv, SystemIsTheSame, Old, New
<1> QED
  BY <1>1, SysInvIsInvariant, PTL

\* The two arrays of the permutation that Cuthill-McKee returns agree in both directions, and
\* the constructor of Graph permutes as the matrix does.  [permutation.cpp:144, graph.cpp:145]
THEOREM ConventionsAgree == Spec => []PermutationsAgree
<1>1. SysInv => PermutationsAgree
  <2> SUFFICES ASSUME SysInv PROVE PermutationsAgree
    OBVIOUS
  <2>1. ASSUME Numbered
        PROVE  /\ InSitu(swap_pos, Identity(NumNodes)) = Gather(permutation, Identity(NumNodes))
               /\ InSituInverse(swap_pos, Identity(NumNodes)) = Scatter(permutation, Identity(NumNodes))
               /\ SwapFromPerm(PermFromSwap(swap_pos)) = swap_pos
    <3>1. IsPermutation(permutation) /\ swap_pos = SwapFromPerm(permutation)
      BY <2>1, FullPermutes DEF Numbered, SysInv, CMInv
    <3> QED
      BY <3>1, ExchangesAgree
  <2>2. ASSUME phase = "permuted"
        PROVE  SortIndices(PermutedGraph(graph, permutation, PermFromInverse(permutation))) = GraphOf(matrix)
    <3>1. IsPermutation(permutation)
      BY <2>2, FullPermutes DEF SysInv, CMInv, New
    <3>2. GraphIs(graph, Identity(NumNodes), dof_graph) /\ GraphIs(GraphOf(matrix), permutation, dof_graph)
      BY <2>2, GraphOfRows DEF SysInv, New
    <3> QED
      BY <3>1, <3>2, GraphsAgree
  <2> QED
    BY <2>1, <2>2 DEF PermutationsAgree
<1> QED
  BY <1>1, SysInvIsInvariant, PTL

----------------------------------------------------------------------------
(* Levels of any graph.                                                    *)

\* Ball, Distance, End, NoWorse and Sooner for any graph g and options o.
Beside(g, S) == S \cup UNION {ToSet(g[i]) : i \in S}
Balls(g, r) == LET ball[k \in 0 .. NumNodes] == IF k = 0 THEN {r} ELSE Beside(g, ball[k - 1]) IN ball
ComponentOf(g, r) == Balls(g, r)[NumNodes]
Steps(g, r, n) == CHOOSE k \in 0 .. NumNodes :
                    n \in Balls(g, r)[k] /\ (k > 0 => n \notin Balls(g, r)[k - 1])
Ends(g, r) == {m \in ComponentOf(g, r) : \A n \in ComponentOf(g, r) : Steps(g, r, n) <= Steps(g, r, m)}
Fits(g, o, r, n) == CASE o.root = "default" -> r <= n
                      [] o.root = "minimum" -> Len(g[r]) < Len(g[n]) \/ (Len(g[r]) = Len(g[n]) /\ r <= n)
                      [] o.root = "maximum" -> Len(g[r]) > Len(g[n]) \/ (Len(g[r]) = Len(g[n]) /\ r <= n)
Prefers(g, o, m, n) == CASE o.sort = "default" -> FALSE
                         [] o.sort = "asc" -> Len(g[m]) < Len(g[n])
                         [] o.sort = "desc" -> Len(g[m]) > Len(g[n])

\* A list q of nodes follows the distances from its first; within a level it follows the
\* degrees, and otherwise what is next to an earlier node of the level before comes earlier.
Leads(g, q, y, i) == q[i] \in ToSet(g[q[y]]) /\ Steps(g, q[0], q[i]) = Steps(g, q[0], q[y]) + 1
Ordered(g, o, q, n) ==
  \A i, j \in 0 .. n - 1 :
    /\ Steps(g, q[0], q[i]) < Steps(g, q[0], q[j]) => i < j
    /\ (i < j /\ Steps(g, q[0], q[i]) = Steps(g, q[0], q[j])) =>
         /\ ~Prefers(g, o, q[j], q[i])
         /\ ~Prefers(g, o, q[i], q[j]) =>
              \A x \in 0 .. n - 1 : Leads(g, q, x, j) => \E y \in 0 .. x : Leads(g, q, y, i)

\* The nodes from place a to before place c, in the order in which they were numbered.
Stretch(p, a, c, reversed) == [i \in 0 .. c - a - 1 |-> p[IF reversed THEN c - 1 - i ELSE a + i]]
Placed(p, b) == {p[x] : x \in 0 .. b - 1}

IsPart(g, o, p, a, c, q) ==
  /\ q = Stretch(p, a, c, o.reverse)
  /\ {q[i] : i \in 0 .. c - a - 1} = ComponentOf(g, q[0])
  /\ Ordered(g, o, q, c - a)
  /\ \A n \in Node \ Placed(p, a) : Fits(g, o, q[0], n)

\* Before place b there are whole components.
Parts(g, o, p, b) == \A x \in 0 .. b - 1 : \E a \in 0 .. x : \E c \in x + 1 .. b : \E q : IsPart(g, o, p, a, c, q)

\* From there up to l2 there are the nodes of a ball, of which those from l1 on are its last
\* level: so many steps away from the root as the ball is wide.
IsBall(g, o, p, b, l1, l2, q, d) ==
  /\ q = Stretch(p, b, l2, FALSE)
  /\ d < l2 - b
  /\ {q[i] : i \in 0 .. l2 - b - 1} = Balls(g, q[0])[d]
  /\ \A i \in 0 .. l2 - b - 1 : Steps(g, q[0], q[i]) = d <=> i + b >= l1 - 1
  /\ Ordered(g, o, q, l2 - b)
  /\ \A n \in Node \ Placed(p, b) : Fits(g, o, q[0], n)
Grows(g, o, p, b, l1, l2) == \E q : \E d \in 0 .. NumNodes - 1 : IsBall(g, o, p, b, l1, l2, q, d)

\* Of the components of which S has all nodes: none has a wide end, the last one has, or one
\* has that is not the last.
IsBest(g, o, r) == \A n \in ComponentOf(g, r) : Fits(g, o, r, n)
IsWide(g, r) == Cardinality(Ends(g, r)) > 1
AllNarrow(g, o, S) == \A r \in S : IsBest(g, o, r) => ~IsWide(g, r)
LastWide(g, o, S) ==
  \E r \in S : IsBest(g, o, r) /\ IsWide(g, r) /\ \A n \in Node \ S : Fits(g, o, r, n)
WideBefore(g, o, S) ==
  \E r, s \in S : /\ IsBest(g, o, r) /\ IsBest(g, o, s)
                  /\ r # s /\ Fits(g, o, r, s) /\ IsWide(g, r)

Lost == \E n \in node_mask : \A x \in 0 .. lvl2 - 1 : permutation[x] # n

Levelled ==
  /\ node_mask = Placed(permutation, lvl2) /\ pc \in {"roots", "levels", "done"}
  /\ pc = "levels" => /\ lvl_root <= lvl1
                      /\ Parts(graph, options, permutation, lvl_root - 1)
                      /\ Grows(graph, options, permutation, lvl_root - 1, lvl1, lvl2)
                      /\ AllNarrow(graph, options, Placed(permutation, lvl_root - 1))
  /\ pc # "levels" => /\ Parts(graph, options, permutation, lvl2)
                      /\ IF lvl1 < lvl2 THEN LastWide(graph, options, node_mask)
                         ELSE AllNarrow(graph, options, node_mask)
                      /\ ~WideBefore(graph, options, node_mask)

LevelsInv ==
  /\ pc = "idle" => lvl1 = 0 /\ lvl2 = 0 /\ node_mask = {}
  /\ pc = "failed" => phase = "numbering"
  /\ phase = "numbering" => (Lost /\ WideBefore(graph, options, Node)) \/ Levelled

----------------------------------------------------------------------------
(* Balls: they grow until they are whole components.                       *)

\* The pattern of a matrix: every node is next to itself, and neighbours are so mutually.
IsPattern(g) ==
  /\ \A i \in Node : i \in ToSet(g[i]) /\ ToSet(g[i]) \subseteq Node /\ Len(g[i]) \in 1 .. NumNodes
  /\ \A i, j \in Node : j \in ToSet(g[i]) => i \in ToSet(g[j])

IsBalls(ball, g, r) ==
  /\ ball \in [0 .. NumNodes -> SUBSET Node] /\ ball[0] = {r}
  /\ \A k \in 1 .. NumNodes : ball[k] = Beside(g, ball[k - 1])

LEMMA BesideIs ==
  ASSUME NEW g, IsPattern(g), NEW S \in SUBSET Node
  PROVE  /\ Beside(g, S) \in SUBSET Node /\ S \subseteq Beside(g, S)
         /\ \A n : n \in Beside(g, S) <=> \E i \in S : n \in ToSet(g[i])
BY DEF Beside, IsPattern

LEMMA BallsAre ==
  ASSUME NEW g, IsPattern(g), NEW r \in Node
  PROVE  IsBalls(Balls(g, r), g, r)
<1> DEFINE Is(f, n) == f = [k \in 0 .. n |-> IF k = 0 THEN {r} ELSE Beside(g, f[k - 1])]
           T == {n \in Nat : \E f : Is(f, n) /\ \A k \in 0 .. n : f[k] \in SUBSET Node}
<1>1. 0 \in T
  <2> DEFINE f == [k \in 0 .. 0 |-> {r}]
  <2>1. Is(f, 0) /\ \A k \in 0 .. 0 : f[k] \in SUBSET Node
    OBVIOUS
  <2> QED
    BY <2>1
<1>2. ASSUME NEW n \in T PROVE n + 1 \in T
  <2>1. n \in Nat
    OBVIOUS
  <2>2. PICK f : Is(f, n) /\ \A k \in 0 .. n : f[k] \in SUBSET Node
    OBVIOUS
  <2> DEFINE h == [k \in 0 .. n + 1 |-> IF k = n + 1 THEN Beside(g, f[n]) ELSE f[k]]
  <2>3. \A k \in 0 .. n : h[k] = f[k]
    BY <2>1
  <2>4. h[n + 1] = Beside(g, f[n])
    BY <2>1
  <2>5. h = [k \in 0 .. n + 1 |-> h[k]]
    OBVIOUS
  <2> HIDE DEF h
  <2>6. ASSUME NEW k \in 0 .. n + 1
        PROVE  h[k] = (IF k = 0 THEN {r} ELSE Beside(g, h[k - 1])) /\ h[k] \in SUBSET Node
    <3>1. CASE k = n + 1
      <4>1. n \in 0 .. n /\ k - 1 = n /\ k # 0
        BY <2>1, <3>1
      <4>2. f[n] \in SUBSET Node
        BY <2>2, <4>1
      <4> QED
        BY <2>3, <2>4, <3>1, <4>1, <4>2, BesideIs
    <3>2. CASE k # n + 1
      <4>1. k \in 0 .. n /\ (k # 0 => k - 1 \in 0 .. n)
        BY <2>1, <3>2
      <4>2. f[k] = IF k = 0 THEN {r} ELSE Beside(g, f[k - 1])
        BY <2>2, <4>1
      <4> QED
        BY <2>2, <2>3, <4>1, <4>2
    <3> QED
      BY <3>1, <3>2
  <2>7. Is(h, n + 1)
    BY <2>5, <2>6
  <2>8. \A k \in 0 .. n + 1 : h[k] \in SUBSET Node
    BY <2>6
  <2> QED
    BY <2>1, <2>7, <2>8
<1>3. NumNodes \in T
  <2> HIDE DEF T
  <2>1. T \in SUBSET Nat
    BY DEF T
  <2>2. T = Nat
    BY <1>1, <1>2, <2>1, AllNumbers
  <2> QED
    BY <2>2, NumNodesAssumption
<1>4. PICK f : Is(f, NumNodes) /\ \A k \in 0 .. NumNodes : f[k] \in SUBSET Node
  BY <1>3
<1>5. PICK ball : ball = (CHOOSE h : Is(h, NumNodes)) /\ Is(ball, NumNodes)
  BY <1>4
<1>6. Balls(g, r) = ball
  BY <1>5 DEF Balls
<1>7. ball = f
  <2> DEFINE U == {k \in Nat : k <= NumNodes => ball[k] = f[k]}
  <2>1. 0 \in U
    <3>1. 0 \in 0 .. NumNodes
      BY NumNodesAssumption
    <3> QED
      BY <1>4, <1>5, <3>1
  <2>2. ASSUME NEW k \in U PROVE k + 1 \in U
    <3> SUFFICES ASSUME k + 1 <= NumNodes PROVE ball[k + 1] = f[k + 1]
      OBVIOUS
    <3>1. k + 1 \in 0 .. NumNodes /\ k + 1 # 0 /\ (k + 1) - 1 = k /\ ball[k] = f[k]
      BY NumNodesAssumption
    <3>2. ball[k + 1] = Beside(g, ball[k])
      BY <1>5, <3>1
    <3>3. f[k + 1] = Beside(g, f[k])
      BY <1>4, <3>1
    <3> QED
      BY <3>1, <3>2, <3>3
  <2>3. U = Nat
    <3> HIDE DEF U
    <3>1. U \in SUBSET Nat
      BY DEF U
    <3> QED
      BY <2>1, <2>2, <3>1, AllNumbers
  <2>4. \A k \in 0 .. NumNodes : ball[k] = f[k]
    BY <2>3, NumNodesAssumption
  <2> QED
    BY <1>4, <1>5, <2>4
<1>8. \A k \in 0 .. NumNodes : ball[k] = (IF k = 0 THEN {r} ELSE Beside(g, ball[k - 1])) /\ ball[k] \in SUBSET Node
  BY <1>4, <1>5, <1>7
<1>9. ball \in [0 .. NumNodes -> SUBSET Node]
  <2>1. DOMAIN ball = 0 .. NumNodes /\ ball = [k \in 0 .. NumNodes |-> ball[k]]
    BY <1>5
  <2> QED
    BY <1>8, <2>1
<1>10. 0 \in 0 .. NumNodes /\ \A k \in 1 .. NumNodes : k \in 0 .. NumNodes /\ k # 0
  BY NumNodesAssumption
<1> QED
  BY <1>6, <1>8, <1>9, <1>10 DEF IsBalls

\* A set that has all neighbours of its nodes has all balls around them.
LEMMA BallsStayIn ==
  ASSUME NEW g, IsPattern(g), NEW r \in Node, NEW ball, IsBalls(ball, g, r),
         NEW S \in SUBSET Node, NEW b \in 0 .. NumNodes, ball[b] \subseteq S, Beside(g, S) \subseteq S
  PROVE  \A k \in b .. NumNodes : ball[k] \subseteq S
<1> DEFINE U == {m \in Nat : b + m <= NumNodes => ball[b + m] \subseteq S}
<1>1. 0 \in U
  OBVIOUS
<1>2. ASSUME NEW m \in U PROVE m + 1 \in U
  <2> SUFFICES ASSUME b + (m + 1) <= NumNodes PROVE ball[b + (m + 1)] \subseteq S
    OBVIOUS
  <2>1. /\ b + (m + 1) \in 1 .. NumNodes /\ b + m \in 0 .. NumNodes /\ (b + (m + 1)) - 1 = b + m
    BY NumNodesAssumption
  <2>2. ball[b + (m + 1)] = Beside(g, ball[b + m]) /\ ball[b + m] \in SUBSET Node /\ ball[b + m] \subseteq S
    BY <2>1 DEF IsBalls
  <2>3. Beside(g, ball[b + m]) \subseteq Beside(g, S)
    BY <2>2 DEF Beside
  <2> QED
    BY <2>2, <2>3
<1>3. U = Nat
  <2> HIDE DEF U
  <2>1. U \in SUBSET Nat
    BY DEF U
  <2> QED
    BY <1>1, <1>2, <2>1, AllNumbers
<1> SUFFICES ASSUME NEW k \in b .. NumNodes PROVE ball[k] \subseteq S
  OBVIOUS
<1>4. k - b \in Nat /\ b + (k - b) = k /\ k <= NumNodes
  BY NumNodesAssumption
<1>5. k - b \in U
  BY <1>3, <1>4
<1> QED
  BY <1>4, <1>5

LEMMA BallsGrow ==
  ASSUME NEW g, IsPattern(g), NEW r \in Node, NEW ball, IsBalls(ball, g, r),
         NEW k \in 0 .. NumNodes, NEW l \in k .. NumNodes
  PROVE  ball[k] \subseteq ball[l]
<1> DEFINE U == {m \in Nat : k + m <= NumNodes => ball[k] \subseteq ball[k + m]}
<1>1. 0 \in U
  OBVIOUS
<1>2. ASSUME NEW m \in U PROVE m + 1 \in U
  <2> SUFFICES ASSUME k + (m + 1) <= NumNodes PROVE ball[k] \subseteq ball[k + (m + 1)]
    OBVIOUS
  <2>1. k + (m + 1) \in 1 .. NumNodes /\ k + m \in 0 .. NumNodes /\ (k + (m + 1)) - 1 = k + m
    BY NumNodesAssumption
  <2>2. ball[k + (m + 1)] = Beside(g, ball[k + m]) /\ ball[k] \subseteq ball[k + m]
    BY <2>1 DEF IsBalls
  <2> QED
    BY <2>2 DEF Beside
<1>3. U = Nat
  <2> HIDE DEF U
  <2>1. U \in SUBSET Nat
    BY DEF U
  <2> QED
    BY <1>1, <1>2, <2>1, AllNumbers
<1>4. l - k \in Nat /\ k + (l - k) = l /\ l <= NumNodes
  BY NumNodesAssumption
<1>5. l - k \in U
  BY <1>3, <1>4
<1> QED
  BY <1>4, <1>5

\* There are not more levels than nodes: the last ball has all neighbours of its nodes.
LEMMA LastBall ==
  ASSUME NEW g, IsPattern(g), NEW r \in Node, NEW ball, IsBalls(ball, g, r)
  PROVE  Beside(g, ball[NumNodes]) = ball[NumNodes]
<1>1. \A k \in 0 .. NumNodes : /\ ball[k] \in SUBSET Node /\ IsFiniteSet(ball[k])
                               /\ Cardinality(ball[k]) \in Nat /\ Cardinality(ball[k]) <= NumNodes
  <2>1. \A k \in 0 .. NumNodes : ball[k] \in SUBSET Node
    BY DEF IsBalls
  <2> QED
    BY <2>1, NodesAreFinite, FS_Subset, FS_CardinalityType
<1> DEFINE U == {k \in Nat : k <= NumNodes =>
                   \/ Cardinality(ball[k]) >= k + 1
                   \/ \E j \in 0 .. k - 1 : ball[j + 1] = ball[j]}
<1>2. 0 \in U
  <2>1. ball[0] = {r} /\ Cardinality({r}) = 1
    BY FS_Singleton DEF IsBalls
  <2> QED
    BY <2>1
<1>3. ASSUME NEW k \in U PROVE k + 1 \in U
  <2> SUFFICES ASSUME k + 1 <= NumNodes, ~\E j \in 0 .. (k + 1) - 1 : ball[j + 1] = ball[j]
               PROVE  Cardinality(ball[k + 1]) >= (k + 1) + 1
    OBVIOUS
  <2>1. k \in Nat /\ k \in 0 .. (k + 1) - 1 /\ k \in 0 .. NumNodes /\ k + 1 \in k .. NumNodes /\ k + 1 \in 0 .. NumNodes
    BY NumNodesAssumption
  <2>2. \A j \in 0 .. k - 1 : j \in 0 .. (k + 1) - 1
    BY <2>1
  <2>3. Cardinality(ball[k]) >= k + 1
    BY <2>1, <2>2
  <2>4. ball[k] \subseteq ball[k + 1] /\ ball[k + 1] # ball[k]
    BY <2>1, BallsGrow
  <2>5. Cardinality(ball[k]) < Cardinality(ball[k + 1])
    BY <1>1, <2>1, <2>4, FS_Subset
  <2> QED
    BY <1>1, <2>1, <2>3, <2>5
<1>4. U = Nat
  <2> HIDE DEF U
  <2>1. U \in SUBSET Nat
    BY DEF U
  <2> QED
    BY <1>2, <1>3, <2>1, AllNumbers
<1>5. PICK j \in 0 .. NumNodes - 1 : ball[j + 1] = ball[j]
  <2>1. NumNodes \in U /\ NumNodes \in 0 .. NumNodes
    BY <1>4, NumNodesAssumption
  <2>2. ~(Cardinality(ball[NumNodes]) >= NumNodes + 1)
    BY <1>1, <2>1, NumNodesAssumption
  <2> QED
    BY <2>1, <2>2
<1>6. j \in 0 .. NumNodes /\ j + 1 \in 1 .. NumNodes /\ (j + 1) - 1 = j /\ NumNodes \in j .. NumNodes
  BY NumNodesAssumption
<1>7. Beside(g, ball[j]) = ball[j] /\ ball[j] \in SUBSET Node
  BY <1>1, <1>5, <1>6 DEF IsBalls
<1>8. ball[NumNodes] \subseteq ball[j] /\ ball[j] \subseteq ball[NumNodes]
  BY <1>6, <1>7, BallsStayIn, BallsGrow
<1>9. ball[NumNodes] = ball[j]
  BY <1>8
<1> QED
  BY <1>7, <1>9

\* Components: what is linked is linked mutually, and has the same component.
LEMMA ComponentIs ==
  ASSUME NEW g, IsPattern(g), NEW r \in Node
  PROVE  /\ r \in ComponentOf(g, r) /\ ComponentOf(g, r) \in SUBSET Node
         /\ Beside(g, ComponentOf(g, r)) = ComponentOf(g, r)
         /\ \A S \in SUBSET Node : r \in S /\ Beside(g, S) \subseteq S => ComponentOf(g, r) \subseteq S
<1> DEFINE ball == Balls(g, r)
<1>1. IsBalls(ball, g, r)
  BY BallsAre
<1> HIDE DEF ball
<1>2. 0 \in 0 .. NumNodes /\ NumNodes \in 0 .. NumNodes
  BY NumNodesAssumption
<1>3. ball[0] = {r} /\ ball[NumNodes] \in SUBSET Node
  BY <1>1, <1>2 DEF IsBalls
<1>4. ball[0] \subseteq ball[NumNodes]
  BY <1>1, <1>2, BallsGrow
<1>5. \A S \in SUBSET Node : r \in S /\ Beside(g, S) \subseteq S => ball[NumNodes] \subseteq S
  BY <1>1, <1>2, <1>3, BallsStayIn
<1>6. Beside(g, ball[NumNodes]) = ball[NumNodes]
  BY <1>1, LastBall
<1> QED
  BY <1>3, <1>4, <1>5, <1>6 DEF ComponentOf, ball

LEMMA SameComponent ==
  ASSUME NEW g, IsPattern(g), NEW m \in Node, NEW n \in ComponentOf(g, m)
  PROVE  /\ n \in Node /\ m \in ComponentOf(g, n)
         /\ ComponentOf(g, n) = ComponentOf(g, m)
<1>1. n \in Node /\ Beside(g, ComponentOf(g, m)) = ComponentOf(g, m) /\ ComponentOf(g, m) \in SUBSET Node
      /\ m \in ComponentOf(g, m)
  BY ComponentIs
<1>2. /\ Beside(g, ComponentOf(g, n)) = ComponentOf(g, n) /\ ComponentOf(g, n) \in SUBSET Node
      /\ n \in ComponentOf(g, n)
  BY <1>1, ComponentIs
<1>3. ComponentOf(g, n) \subseteq ComponentOf(g, m)
  BY <1>1, ComponentIs
<1>4. m \in ComponentOf(g, n)
  <2> SUFFICES ASSUME m \notin ComponentOf(g, n) PROVE FALSE
    OBVIOUS
  <2> DEFINE S == Node \ ComponentOf(g, n)
  <2>1. S \in SUBSET Node /\ m \in S
    OBVIOUS
  <2>2. Beside(g, S) \subseteq S
    <3> SUFFICES ASSUME NEW x \in Beside(g, S), x \notin S PROVE FALSE
      OBVIOUS
    <3>1. PICK i \in S : x \in ToSet(g[i])
      BY <2>1, BesideIs
    <3>2. x \in Node /\ i \in Node /\ i \in ToSet(g[x])
      BY <2>1, <3>1 DEF IsPattern
    <3>3. x \in ComponentOf(g, n)
      BY <3>2
    <3>4. i \in Beside(g, ComponentOf(g, n))
      BY <1>2, <3>2, <3>3, BesideIs
    <3> QED
      BY <1>2, <3>4
  <2>3. ComponentOf(g, m) \subseteq S
    <3> HIDE DEF S
    <3> QED
      BY <2>1, <2>2, ComponentIs
  <2> QED
    BY <1>2, <2>3
<1>5. ComponentOf(g, m) \subseteq ComponentOf(g, n)
  BY <1>2, <1>4, ComponentIs
<1> QED
  BY <1>1, <1>3, <1>4, <1>5

\* Distances: a node is in the balls of its distance and wider.
LEMMA StepsAre ==
  ASSUME NEW g, IsPattern(g), NEW r \in Node, NEW n \in ComponentOf(g, r)
  PROVE  /\ Steps(g, r, n) \in 0 .. NumNodes
         /\ \A k \in 0 .. NumNodes : n \in Balls(g, r)[k] <=> Steps(g, r, n) <= k
<1> DEFINE ball == Balls(g, r)
           U == {k \in Nat : k <= NumNodes /\ n \in ball[k]}
           Is(k) == n \in ball[k] /\ (k > 0 => n \notin ball[k - 1])
<1>1. IsBalls(ball, g, r) /\ n \in ball[NumNodes]
  BY BallsAre DEF ComponentOf
<1> HIDE DEF ball
<1>2. U \in SUBSET Nat /\ NumNodes \in U
  BY <1>1, NumNodesAssumption
<1>3. PICK k \in U : \A m \in U : k <= m
  <2> HIDE DEF U
  <2> QED
    BY <1>2, LeastNumber
<1>4. k \in 0 .. NumNodes /\ Is(k)
  <2>1. k \in Nat /\ k <= NumNodes /\ n \in ball[k]
    BY <1>3
  <2>2. ASSUME k > 0 PROVE n \notin ball[k - 1]
    <3>1. k - 1 \in Nat /\ k - 1 <= NumNodes /\ ~(k <= k - 1)
      BY <2>1, <2>2, NumNodesAssumption
    <3> QED
      BY <1>3, <3>1
  <2> QED
    BY <2>1, <2>2, NumNodesAssumption
<1>5. PICK d : d = Steps(g, r, n) /\ d \in 0 .. NumNodes /\ Is(d)
  <2>1. Steps(g, r, n) = CHOOSE l \in 0 .. NumNodes : Is(l)
    BY DEF Steps, ball
  <2> QED
    BY <1>4, <2>1
<1>6. ASSUME NEW l \in 0 .. NumNodes PROVE n \in ball[l] <=> d <= l
  <2>1. ASSUME d <= l PROVE n \in ball[l]
    <3>1. l \in d .. NumNodes
      BY <1>5, <2>1
    <3> QED
      BY <1>1, <1>5, <3>1, BallsGrow
  <2>2. ASSUME ~(d <= l) PROVE n \notin ball[l]
    <3>1. d > 0 /\ d - 1 \in l .. NumNodes
      BY <1>5, <2>2, NumNodesAssumption
    <3> QED
      BY <1>1, <1>5, <3>1, BallsGrow
  <2> QED
    BY <2>1, <2>2
<1> QED
  BY <1>5, <1>6 DEF ball

\* Only the root is not a step away from the root.
LEMMA RootAlone ==
  ASSUME NEW g, IsPattern(g), NEW r \in Node
  PROVE  Steps(g, r, r) = 0 /\ \A n \in ComponentOf(g, r) : Steps(g, r, n) = 0 => n = r
<1>1. 0 \in 0 .. NumNodes /\ Balls(g, r)[0] = {r} /\ r \in ComponentOf(g, r)
  BY NumNodesAssumption, BallsAre, ComponentIs DEF IsBalls
<1>2. ASSUME NEW n \in ComponentOf(g, r)
      PROVE  Steps(g, r, n) \in 0 .. NumNodes /\ (n \in {r} <=> Steps(g, r, n) <= 0)
  BY <1>1, StepsAre
<1>3. \A n \in ComponentOf(g, r) : n \in {r} <=> Steps(g, r, n) = 0
  BY <1>2
<1> QED
  BY <1>1, <1>3

\* Neighbours are at most one step farther away.
LEMMA NextStep ==
  ASSUME NEW g, IsPattern(g), NEW r \in Node, NEW m \in ComponentOf(g, r), NEW n \in ToSet(g[m])
  PROVE  n \in ComponentOf(g, r) /\ Steps(g, r, n) <= Steps(g, r, m) + 1
<1>1. m \in Node /\ n \in ComponentOf(g, r)
  BY ComponentIs, BesideIs
<1>2. Steps(g, r, m) \in 0 .. NumNodes /\ Steps(g, r, n) \in 0 .. NumNodes
  BY <1>1, StepsAre
<1>3. CASE Steps(g, r, m) < NumNodes
  <2> DEFINE k == Steps(g, r, m)
             ball == Balls(g, r)
  <2>1. k \in 0 .. NumNodes /\ k + 1 \in 1 .. NumNodes /\ k + 1 \in 0 .. NumNodes /\ (k + 1) - 1 = k /\ k <= k
    BY <1>2, <1>3, NumNodesAssumption
  <2>2. m \in ball[k]
    BY <2>1, StepsAre
  <2>3. IsBalls(ball, g, r)
    BY BallsAre
  <2> HIDE DEF k, ball
  <2>4. ball[k + 1] = Beside(g, ball[k]) /\ ball[k] \in SUBSET Node
    BY <2>1, <2>3 DEF IsBalls
  <2>5. n \in ball[k + 1]
    BY <2>2, <2>4, BesideIs
  <2> QED
    BY <1>1, <2>1, <2>5, StepsAre DEF k, ball
<1>4. CASE ~(Steps(g, r, m) < NumNodes)
  <2> DEFINE k == Steps(g, r, m)
             l == Steps(g, r, n)
  <2>1. k \in 0 .. NumNodes /\ l \in 0 .. NumNodes /\ ~(k < NumNodes)
    BY <1>2, <1>4
  <2> HIDE DEF k, l
  <2>2. l <= k + 1
    BY <2>1, NumNodesAssumption
  <2> QED
    BY <1>1, <2>2 DEF k, l
<1> QED
  BY <1>1, <1>3, <1>4

\* What is in the last ball of a component, and not in the ball before, is its end.
LEMMA EndIs ==
  ASSUME NEW g, IsPattern(g), NEW r \in Node, NEW d \in 0 .. NumNodes, Balls(g, r)[d] = ComponentOf(g, r),
         NEW e \in ComponentOf(g, r), Steps(g, r, e) = d
  PROVE  Ends(g, r) = {m \in ComponentOf(g, r) : Steps(g, r, m) = d}
<1>1. \A m \in ComponentOf(g, r) : Steps(g, r, m) \in 0 .. NumNodes /\ Steps(g, r, m) <= d
  BY StepsAre
<1>2. d \in Nat /\ \A m \in ComponentOf(g, r) : Steps(g, r, m) \in Nat
  BY <1>1, NumNodesAssumption
<1>3. \A m \in ComponentOf(g, r) :
         (\A n \in ComponentOf(g, r) : Steps(g, r, n) <= Steps(g, r, m)) <=> Steps(g, r, m) = d
  <2> TAKE m \in ComponentOf(g, r)
  <2>1. ASSUME \A n \in ComponentOf(g, r) : Steps(g, r, n) <= Steps(g, r, m) PROVE Steps(g, r, m) = d
    <3>1. d <= Steps(g, r, m)
      BY <2>1
    <3> QED
      BY <1>1, <1>2, <3>1
  <2> QED
    BY <1>1, <2>1
<1> QED
  BY <1>3 DEF Ends

----------------------------------------------------------------------------
(* The order in which nodes are met.                                       *)

LEMMA PlacesInOrder ==
  ASSUME NEW s, IsSeq(s), NEW places, places \subseteq DOMAIN s,
         NEW a \in DOMAIN AtPlaces(s, places), NEW b \in DOMAIN AtPlaces(s, places), a < b
  PROVE  \E x, y \in places : x < y /\ AtPlaces(s, places)[a] = s[x] /\ AtPlaces(s, places)[b] = s[y]
<1>1. IsFiniteSet(places) /\ places \subseteq Int
  <2>1. DOMAIN s = 1 .. Len(s) /\ Len(s) \in Nat
    BY SeqDomain
  <2>2. IsFiniteSet(1 .. Len(s))
    BY <2>1, FS_Interval
  <2> QED
    BY <2>1, <2>2, FS_Subset
<1>2. PICK p : Picks(p, s, places)
  BY <1>1, AtPlacesIs
<1> DEFINE n == Cardinality(places)
<1>3. AtPlaces(s, places) = [r \in 1 .. n |-> s[p[r]]] /\ Ascends(p, places)
  BY <1>2 DEF Picks
<1>4. a \in 1 .. n /\ b \in 1 .. n
  BY <1>3
<1>5. p[a] \in places /\ p[b] \in places /\ p[a] < p[b]
  BY <1>3, <1>4 DEF Ascends
<1> QED
  BY <1>3, <1>4, <1>5

LEMMA FirstInOrder ==
  ASSUME NEW s, IsSeq(s), NEW a \in DOMAIN Injectify(s), NEW b \in DOMAIN Injectify(s), a < b
  PROVE  \E x, y \in DOMAIN s : /\ x < y /\ Injectify(s)[a] = s[x] /\ Injectify(s)[b] = s[y]
                                /\ \A z \in 1 .. y - 1 : s[z] # s[y]
<1> DEFINE places == {x \in DOMAIN s : \A y \in 1 .. x - 1 : s[y] # s[x]}
<1>1. Injectify(s) = AtPlaces(s, places)
  BY DEF Injectify
<1>2. \A y \in places : y \in DOMAIN s /\ \A z \in 1 .. y - 1 : s[z] # s[y]
  OBVIOUS
<1>3. places \subseteq DOMAIN s
  OBVIOUS
<1> HIDE DEF places
<1>4. \E x, y \in places : x < y /\ Injectify(s)[a] = s[x] /\ Injectify(s)[b] = s[y]
  BY <1>1, <1>3, PlacesInOrder
<1> QED
  BY <1>2, <1>4

\* Before place z in t there is only what is next to the first x nodes of s.
NotLater(t, s, g, x, z) ==
  \A q \in DOMAIN t : q < z => \E y \in DOMAIN s : y <= x /\ t[q] \in ToSet(g[s[y]])

\* What is met at a node comes after what is met before it only.
LEMMA ThroughInOrder ==
  ASSUME NEW s, IsSeq(s), NEW g, \A v \in ToSet(s) : IsSeq(g[v]), NEW x \in DOMAIN s, NEW w \in ToSet(g[s[x]])
  PROVE  \E z \in DOMAIN Through(s, g) :
           Through(s, g)[z] = w /\ NotLater(Through(s, g), s, g, x, z)
<1> DEFINE seqs == [i \in DOMAIN s |-> g[s[i]]]
           n == Len(s)
           t == Through(s, g)
<1>1. DOMAIN s = 1 .. n /\ n \in Nat
  BY SeqDomain
<1>2. IsPieces(seqs, n)
  BY <1>1 DEF IsPieces, ToSet
<1>3. \A i \in 1 .. n : seqs[i] = g[s[i]]
  BY <1>1
<1>4. t = FlattenSeq(seqs)
  BY DEF Through
<1> HIDE DEF seqs, t
<1>5. Joins(t, seqs, n)
  BY <1>2, <1>4, FlattenJoins
<1>6. IsSeq(t) /\ DOMAIN t = 1 .. Before(seqs, n + 1)
  BY <1>5, SeqDomain DEF Joins
<1>7. \A i \in 1 .. n : DOMAIN seqs[i] = 1 .. Len(seqs[i]) /\ Len(seqs[i]) \in Nat
  BY <1>2, SeqDomain DEF IsPieces
<1>8. \A i \in 1 .. n + 1 : Before(seqs, i) \in Nat
  BY <1>2, BeforeNext
<1>9. \A i, j \in 1 .. n : i < j => Before(seqs, i) + Len(seqs[i]) <= Before(seqs, j)
  <2> TAKE i, j \in 1 .. n
  <2>1. j \in 1 .. n + 1
    BY <1>1
  <2> QED
    BY <1>2, <2>1, BeforeGrows
<1>10. x \in 1 .. n /\ n + 1 \in 1 .. n + 1 /\ \A i \in 1 .. n : i \in 1 .. n + 1 /\ i < n + 1
  BY <1>1
<1>11. PICK k \in 1 .. Len(seqs[x]) : seqs[x][k] = w
  BY <1>3, <1>7, <1>10 DEF ToSet
<1> DEFINE z == Before(seqs, x) + k
<1>12. t[z] = w
  BY <1>5, <1>10, <1>11 DEF Joins
<1>13. z \in DOMAIN t
  <2>1. Before(seqs, x) + Len(seqs[x]) <= Before(seqs, n + 1)
    BY <1>2, <1>10, BeforeGrows
  <2>2. Before(seqs, x) \in Nat /\ Before(seqs, n + 1) \in Nat /\ Len(seqs[x]) \in Nat
    BY <1>7, <1>8, <1>10
  <2> QED
    BY <1>6, <1>11, <2>1, <2>2
<1>14. ASSUME NEW q \in DOMAIN t, q < z
       PROVE  \E y \in DOMAIN s : y <= x /\ t[q] \in ToSet(g[s[y]])
  <2>1. InSomePiece(seqs, n, q)
    BY <1>2, <1>6, PieceAt
  <2>2. PICK i \in 1 .. n : \E l \in 1 .. Len(seqs[i]) : q = Before(seqs, i) + l
    BY <2>1 DEF InSomePiece
  <2>3. PICK l \in 1 .. Len(seqs[i]) : q = Before(seqs, i) + l
    BY <2>2
  <2>4. t[q] = seqs[i][l]
    BY <1>5, <2>3 DEF Joins
  <2>5. t[q] \in ToSet(g[s[i]])
    BY <1>3, <1>7, <2>3, <2>4 DEF ToSet
  <2>6. ~(x < i)
    <3> SUFFICES ASSUME x < i PROVE FALSE
      OBVIOUS
    <3>1. Before(seqs, x) + Len(seqs[x]) <= Before(seqs, i)
      BY <1>9, <1>10
    <3>2. Before(seqs, x) \in Nat /\ Before(seqs, i) \in Nat /\ Len(seqs[x]) \in Nat
      BY <1>7, <1>8, <1>10
    <3>3. l \in Nat /\ l >= 1 /\ k <= Len(seqs[x]) /\ k \in Nat
      BY <1>7, <1>11, <2>3, <3>2
    <3> QED
      BY <1>14, <2>3, <3>1, <3>2, <3>3
  <2>7. i <= x
    BY <1>10, <2>6
  <2> QED
    BY <1>1, <2>5, <2>7
<1> HIDE DEF z
<1>15. NotLater(t, s, g, x, z)
  BY <1>14 DEF NotLater
<1> QED
  BY <1>12, <1>13, <1>15 DEF t

\* An earlier entry of u was met at an earlier node of s, or at the same.
MetInOrder(u, s, g) ==
  \A a, b \in DOMAIN u : a < b =>
    \A x \in DOMAIN s : u[b] \in ToSet(g[s[x]]) => \E y \in DOMAIN s : y <= x /\ u[a] \in ToSet(g[s[y]])

Fresh(met, mask) == AtPlaces(met, {x \in DOMAIN met : met[x] \notin mask})

LEMMA MetIs ==
  ASSUME NEW s, IsSeq(s), NEW g, \A v \in ToSet(s) : IsSeq(g[v]), NEW met, met = Injectify(Through(s, g)),
         NEW mask, NEW u, u = Fresh(met, mask)
  PROVE  /\ IsSeq(u) /\ IsInjective(u) /\ MetInOrder(u, s, g)
         /\ \A w : w \in ToSet(u) <=> w \notin mask /\ \E v \in ToSet(s) : w \in ToSet(g[v])
<1> DEFINE t == Through(s, g)
           places == {x \in DOMAIN met : met[x] \notin mask}
<1>1. IsSeq(t) /\ \A w : w \in ToSet(t) <=> \E v \in ToSet(s) : w \in ToSet(g[v])
  BY ThroughIs
<1>2. \A x \in DOMAIN s : \A w \in ToSet(g[s[x]]) :
        \E z \in DOMAIN t : t[z] = w /\ NotLater(t, s, g, x, z)
  BY ThroughInOrder
<1> HIDE DEF t
<1>3. met = Injectify(t)
  BY DEF t
<1>4. IsSeq(met) /\ ToSet(met) = ToSet(t) /\ IsInjective(met)
  BY <1>1, <1>3, InjectifyIs
<1>5. places \subseteq DOMAIN met /\ \A x, y \in places : met[x] = met[y] => x = y
  BY <1>4 DEF IsInjective
<1>6. u = AtPlaces(met, places)
  BY DEF Fresh
<1>7. \A w : w \in {met[x] : x \in places} <=> w \in ToSet(met) /\ w \notin mask
  BY DEF ToSet
<1> HIDE DEF places
<1>8. IsSeq(u) /\ IsInjective(u) /\ ToSet(u) = {met[x] : x \in places}
  <2>1. /\ IsSeq(AtPlaces(met, places)) /\ IsInjective(AtPlaces(met, places))
        /\ ToSet(AtPlaces(met, places)) = {met[x] : x \in places}
    BY <1>4, <1>5, PlacesHave
  <2> QED
    BY <1>6, <2>1
<1>9. MetInOrder(u, s, g)
  <2> SUFFICES ASSUME NEW a \in DOMAIN u, NEW b \in DOMAIN u, a < b, NEW x \in DOMAIN s, u[b] \in ToSet(g[s[x]])
               PROVE  \E y \in DOMAIN s : y <= x /\ u[a] \in ToSet(g[s[y]])
    BY DEF MetInOrder
  <2>1. PICK c, d \in places : c < d /\ u[a] = met[c] /\ u[b] = met[d]
    <3>1. a \in DOMAIN AtPlaces(met, places) /\ b \in DOMAIN AtPlaces(met, places) /\ a < b
      BY <1>6
    <3>2. \E c, d \in places : c < d /\ AtPlaces(met, places)[a] = met[c] /\ AtPlaces(met, places)[b] = met[d]
      BY <1>4, <1>5, <3>1, PlacesInOrder
    <3> QED
      BY <1>6, <3>2
  <2>2. c \in DOMAIN Injectify(t) /\ d \in DOMAIN Injectify(t)
    BY <1>3, <1>5, <2>1
  <2>3. PICK e, f \in DOMAIN t : e < f /\ met[c] = t[e] /\ met[d] = t[f] /\ \A z \in 1 .. f - 1 : t[z] # t[f]
    BY <1>1, <1>3, <2>1, <2>2, FirstInOrder
  <2>4. PICK z \in DOMAIN t : t[z] = u[b] /\ NotLater(t, s, g, x, z)
    BY <1>2
  <2>5. DOMAIN t = 1 .. Len(t) /\ Len(t) \in Nat
    BY <1>1, SeqDomain
  <2>6. z \notin 1 .. f - 1
    BY <2>1, <2>3, <2>4
  <2>7. e < z
    BY <2>3, <2>5, <2>6
  <2> QED
    BY <2>1, <2>3, <2>4, <2>7 DEF NotLater
<1> QED
  BY <1>1, <1>4, <1>7, <1>8, <1>9

\* A level that is sorted follows degrees, and otherwise the order it had.
SortedInOrder(level, u, g, o) ==
  \A a, b \in DOMAIN level : a < b =>
    /\ ~Prefers(g, o, level[b], level[a])
    /\ ~Prefers(g, o, level[a], level[b]) =>
         \E x, y \in DOMAIN u : x < y /\ level[a] = u[x] /\ level[b] = u[y]

LEMMA KeyedInOrder ==
  ASSUME NEW u, IsSeq(u), NEW keys, \A x \in DOMAIN u : keys[x] \in Int, NEW t, t = InsertionSort(u, keys),
         NEW a \in DOMAIN t, NEW b \in DOMAIN t, a < b
  PROVE  \E x, y \in DOMAIN u : /\ t[a] = u[x] /\ t[b] = u[y]
                                /\ keys[x] < keys[y] \/ (keys[x] = keys[y] /\ x < y)
<1>1. IsSortOf(t, u, keys)
  BY SortHas
<1>2. PICK p : SortsBy(p, Len(u), keys) /\ t = [r \in 1 .. Len(u) |-> u[p[r]]]
  BY <1>1 DEF IsSortOf
<1>3. DOMAIN u = 1 .. Len(u) /\ Len(u) \in Nat
  BY SeqDomain
<1>4. a \in 1 .. Len(u) /\ b \in 1 .. Len(u)
  BY <1>2
<1>5. /\ p[a] \in 1 .. Len(u) /\ p[b] \in 1 .. Len(u)
      /\ keys[p[a]] < keys[p[b]] \/ (keys[p[a]] = keys[p[b]] /\ p[a] < p[b])
  BY <1>2, <1>4 DEF SortsBy
<1> QED
  BY <1>2, <1>3, <1>4, <1>5

LEMMA SortedIs ==
  ASSUME CMInv, NEW u, IsSeq(u), IsInjective(u), \A v \in ToSet(u) : v \in Node
  PROVE  /\ IsSeq(SortLevel(u)) /\ IsInjective(SortLevel(u)) /\ ToSet(SortLevel(u)) = ToSet(u)
         /\ Len(SortLevel(u)) = Len(u)
         /\ SortedInOrder(SortLevel(u), u, graph, options)
<1> DEFINE up == [x \in DOMAIN u |-> Degree(u[x])]
           down == [x \in DOMAIN u |-> -Degree(u[x])]
           level == SortLevel(u)
<1>1. \A x \in DOMAIN u : Degree(u[x]) \in Nat
  <2> TAKE x \in DOMAIN u
  <2>1. graph[u[x]] \in Seq(Node)
    BY DEF ToSet, CMInv
  <2> QED
    BY <2>1 DEF Degree
<1>2. \A x \in DOMAIN u : /\ up[x] = Degree(u[x]) /\ up[x] \in Int
                          /\ down[x] = -Degree(u[x]) /\ down[x] \in Int
  BY <1>1
<1>3. DOMAIN u = 1 .. Len(u) /\ Len(u) \in Nat
  BY SeqDomain
<1>4. CASE options.sort = "default"
  <2>1. level = u
    BY <1>4 DEF SortLevel
  <2>2. \A m, n : ~Prefers(graph, options, m, n)
    BY <1>4 DEF Prefers
  <2> QED
    BY <2>1, <2>2 DEF SortedInOrder
<1>5. CASE options.sort = "asc"
  <2>1. level = InsertionSort(u, up)
    BY <1>5 DEF SortLevel
  <2>2. \A m, n : Prefers(graph, options, m, n) <=> Degree(m) < Degree(n)
    BY <1>5 DEF Prefers, Degree
  <2> HIDE DEF up, level
  <2>3. IsSortOf(level, u, up)
    BY <1>2, <2>1, SortHas
  <2>4. ASSUME NEW a \in DOMAIN level, NEW b \in DOMAIN level, a < b
        PROVE  /\ ~Prefers(graph, options, level[b], level[a])
               /\ ~Prefers(graph, options, level[a], level[b]) =>
                    \E x, y \in DOMAIN u : x < y /\ level[a] = u[x] /\ level[b] = u[y]
    <3>1. PICK x, y \in DOMAIN u : /\ level[a] = u[x] /\ level[b] = u[y]
                                   /\ up[x] < up[y] \/ (up[x] = up[y] /\ x < y)
      BY <1>2, <2>1, <2>4, KeyedInOrder
    <3>2. /\ up[x] = Degree(level[a]) /\ up[y] = Degree(level[b])
          /\ up[x] \in Int /\ up[y] \in Int
      BY <1>2, <3>1
    <3> QED
      BY <2>2, <3>1, <3>2
  <2> QED
    BY <2>3, <2>4 DEF IsSortOf, SortedInOrder, level
<1>6. CASE options.sort = "desc"
  <2>1. level = InsertionSort(u, down)
    BY <1>6 DEF SortLevel
  <2>2. \A m, n : Prefers(graph, options, m, n) <=> Degree(m) > Degree(n)
    BY <1>6 DEF Prefers, Degree
  <2> HIDE DEF down, level
  <2>3. IsSortOf(level, u, down)
    BY <1>2, <2>1, SortHas
  <2>4. ASSUME NEW a \in DOMAIN level, NEW b \in DOMAIN level, a < b
        PROVE  /\ ~Prefers(graph, options, level[b], level[a])
               /\ ~Prefers(graph, options, level[a], level[b]) =>
                    \E x, y \in DOMAIN u : x < y /\ level[a] = u[x] /\ level[b] = u[y]
    <3>1. PICK x, y \in DOMAIN u : /\ level[a] = u[x] /\ level[b] = u[y]
                                   /\ down[x] < down[y] \/ (down[x] = down[y] /\ x < y)
      BY <1>2, <2>1, <2>4, KeyedInOrder
    <3>2. /\ down[x] = -Degree(level[a]) /\ down[y] = -Degree(level[b])
          /\ Degree(level[a]) \in Nat /\ Degree(level[b]) \in Nat
      BY <1>1, <1>2, <3>1
    <3>3. PICK j, k \in Nat : j = Degree(level[a]) /\ k = Degree(level[b])
      BY <3>2
    <3>4. ~(k > j) /\ (~(j > k) => x < y)
      BY <3>1, <3>2, <3>3
    <3> QED
      BY <2>2, <3>1, <3>3, <3>4
  <2> QED
    BY <2>3, <2>4 DEF IsSortOf, SortedInOrder, level
<1>7. options.sort \in {"default", "asc", "desc"}
  BY DEF CMInv, Options
<1> QED
  BY <1>4, <1>5, <1>6, <1>7

\* The next level: what is next to the current one and not yet taken, by degrees, and
\* otherwise in the order in which it is met.
Follows(level, s, g, o) ==
  \A a, b \in DOMAIN level : a < b =>
    /\ ~Prefers(g, o, level[b], level[a])
    /\ ~Prefers(g, o, level[a], level[b]) =>
         \A x \in DOMAIN s : level[b] \in ToSet(g[s[x]]) => \E y \in DOMAIN s : y <= x /\ level[a] \in ToSet(g[s[y]])

LEMMA LevelFollows ==
  ASSUME CMInv, pc = "levels"
  PROVE  /\ IsSeq(SortLevel(Unprocessed)) /\ IsInjective(SortLevel(Unprocessed))
         /\ Follows(SortLevel(Unprocessed), Level, graph, options)
         /\ \A w : w \in ToSet(SortLevel(Unprocessed)) <=>
                     w \notin node_mask /\ \E v \in ToSet(Level) : w \in ToSet(graph[v])
         /\ IsSeq(Unprocessed) /\ Len(SortLevel(Unprocessed)) = Len(Unprocessed)
<1> DEFINE s == Level
           met == Injectify(Through(s, graph))
           u == Unprocessed
           level == SortLevel(u)
<1>1. IsSeq(s) /\ \A v \in ToSet(s) : v \in Node
  <2>1. PICK n \in Nat : n = lvl2 - lvl1 + 1
    BY DEF CMInv
  <2>2. s = [x \in 1 .. n |-> permutation[lvl1 + x - 2]]
    BY <2>1 DEF Level
  <2>3. \A x \in 1 .. n : lvl1 + x - 2 \in 0 .. lvl2 - 1
    BY <2>1 DEF CMInv
  <2>4. \A x \in 1 .. n : s[x] \in Node
    BY <2>2, <2>3 DEF CMInv, Filled
  <2> HIDE DEF s
  <2>5. s = [x \in 1 .. n |-> s[x]]
    BY <2>2
  <2>6. IsSeq(s)
    BY <2>5, FunctionIsSeq
  <2> QED
    BY <2>2, <2>4, <2>6 DEF ToSet
<1>2. \A v \in Node : IsSeq(graph[v]) /\ \A w \in ToSet(graph[v]) : w \in Node
  <2> TAKE v \in Node
  <2>1. graph[v] \in Seq(Node)
    BY DEF CMInv
  <2> QED
    BY <2>1 DEF IsSeq, ToSet
<1>3. u = Fresh(met, node_mask)
  BY DEF Unprocessed, Fresh
<1> HIDE DEF s, u, met
<1>4. met = Injectify(Through(s, graph)) /\ \A v \in ToSet(s) : IsSeq(graph[v])
  BY <1>1, <1>2 DEF met
<1>5. /\ IsSeq(u) /\ IsInjective(u) /\ MetInOrder(u, s, graph)
      /\ \A w : w \in ToSet(u) <=> w \notin node_mask /\ \E v \in ToSet(s) : w \in ToSet(graph[v])
  BY <1>1, <1>3, <1>4, MetIs
<1>6. \A v \in ToSet(u) : v \in Node
  BY <1>1, <1>2, <1>5
<1>7. /\ IsSeq(level) /\ IsInjective(level) /\ ToSet(level) = ToSet(u)
      /\ Len(level) = Len(u)
      /\ SortedInOrder(level, u, graph, options)
  BY <1>5, <1>6, SortedIs
<1> HIDE DEF level
<1>8. Follows(level, s, graph, options)
  <2> SUFFICES ASSUME NEW a \in DOMAIN level, NEW b \in DOMAIN level, a < b
               PROVE  /\ ~Prefers(graph, options, level[b], level[a])
                      /\ ~Prefers(graph, options, level[a], level[b]) =>
                           \A x \in DOMAIN s : level[b] \in ToSet(graph[s[x]]) =>
                             \E y \in DOMAIN s : y <= x /\ level[a] \in ToSet(graph[s[y]])
    BY DEF Follows
  <2>1. /\ ~Prefers(graph, options, level[b], level[a])
        /\ ~Prefers(graph, options, level[a], level[b]) =>
             \E x, y \in DOMAIN u : x < y /\ level[a] = u[x] /\ level[b] = u[y]
    BY <1>7 DEF SortedInOrder
  <2> QED
    BY <1>5, <2>1 DEF MetInOrder
<1> QED
  BY <1>5, <1>7, <1>8 DEF level, u, s

----------------------------------------------------------------------------
(* Components in the array.                                                *)

Distinct(p, b) ==
  /\ b \in 0 .. NumNodes /\ \A x \in 0 .. b - 1 : p[x] \in Node
  /\ \A x, y \in 0 .. b - 1 : p[x] = p[y] => x = y

\* Where the places of an array come in a part of it, and the other way round.
Turned(a, c, reversed, i) == IF reversed THEN c - 1 - i ELSE a + i
Returned(a, c, reversed, x) == IF reversed THEN c - 1 - x ELSE x - a

IsStretch(q, p, a, c, reversed) ==
  /\ DOMAIN q = 0 .. c - a - 1
  /\ \A i \in 0 .. c - a - 1 : /\ Turned(a, c, reversed, i) \in a .. c - 1
                               /\ q[i] = p[Turned(a, c, reversed, i)]
  /\ \A x \in a .. c - 1 : /\ Returned(a, c, reversed, x) \in 0 .. c - a - 1
                           /\ q[Returned(a, c, reversed, x)] = p[x]

LEMMA StretchIs ==
  ASSUME NEW p, NEW a \in Nat, NEW c \in Nat, a < c, NEW reversed \in BOOLEAN, NEW q, q = Stretch(p, a, c, reversed)
  PROVE  IsStretch(q, p, a, c, reversed)
<1>1. DOMAIN q = 0 .. c - a - 1 /\ \A i \in 0 .. c - a - 1 : q[i] = p[Turned(a, c, reversed, i)]
  BY DEF Stretch, Turned
<1>2. \A i \in 0 .. c - a - 1 : Turned(a, c, reversed, i) \in a .. c - 1
  BY DEF Turned
<1>3. \A x \in a .. c - 1 : /\ Returned(a, c, reversed, x) \in 0 .. c - a - 1
                            /\ Turned(a, c, reversed, Returned(a, c, reversed, x)) = x
  BY DEF Turned, Returned
<1>4. \A x \in a .. c - 1 : q[Returned(a, c, reversed, x)] = p[x]
  <2> TAKE x \in a .. c - 1
  <2> DEFINE i == Returned(a, c, reversed, x)
  <2>1. i \in 0 .. c - a - 1 /\ Turned(a, c, reversed, i) = x
    BY <1>3
  <2> HIDE DEF i
  <2>2. q[i] = p[x]
    BY <1>1, <2>1
  <2> QED
    BY <2>2 DEF i
<1> QED
  BY <1>1, <1>2, <1>3, <1>4 DEF IsStretch

\* A part is a component: its nodes are at the places from a to before c.
LEMMA PartHas ==
  ASSUME NEW g, IsPattern(g), NEW o \in Options, NEW p, NEW b, Distinct(p, b),
         NEW a \in Nat, NEW c \in a + 1 .. b, NEW q, IsPart(g, o, p, a, c, q)
  PROVE  /\ q[0] \in Node /\ \A x \in a .. c - 1 : x \in 0 .. b - 1
         /\ ComponentOf(g, q[0]) = {p[x] : x \in a .. c - 1}
         /\ \A x \in 0 .. b - 1 : p[x] \in ComponentOf(g, q[0]) <=> x \in a .. c - 1
<1>1. PICK reversed \in BOOLEAN : q = Stretch(p, a, c, reversed)
  BY DEF Options, IsPart
<1> DEFINE To(i) == Turned(a, c, reversed, i)
           From(x) == Returned(a, c, reversed, x)
<1>8. c \in Nat /\ a < c /\ b \in Nat /\ c <= b
  BY NumNodesAssumption DEF Distinct
<1>9. IsStretch(q, p, a, c, reversed)
  BY <1>1, <1>8, StretchIs
<1>2. /\ \A i \in 0 .. c - a - 1 : To(i) \in a .. c - 1 /\ q[i] = p[To(i)]
      /\ \A x \in a .. c - 1 : From(x) \in 0 .. c - a - 1 /\ q[From(x)] = p[x]
  BY <1>9 DEF IsStretch
<1> HIDE DEF To, From
<1>3. ComponentOf(g, q[0]) = {q[i] : i \in 0 .. c - a - 1}
  BY DEF IsPart
<1>4. {q[i] : i \in 0 .. c - a - 1} = {p[x] : x \in a .. c - 1}
  BY <1>2
<1>5. \A x \in a .. c - 1 : x \in 0 .. b - 1
  BY <1>8
<1>6. q[0] \in Node
  <2>1. 0 \in 0 .. c - a - 1
    BY <1>8
  <2>2. \E x \in a .. c - 1 : q[0] = p[x]
    BY <1>2, <2>1
  <2> QED
    BY <1>5, <2>2 DEF Distinct
<1>7. \A x \in 0 .. b - 1 : p[x] \in {p[y] : y \in a .. c - 1} <=> x \in a .. c - 1
  BY <1>5 DEF Distinct
<1> QED
  BY <1>3, <1>4, <1>5, <1>6, <1>7

LEMMA PartsClosed ==
  ASSUME NEW g, IsPattern(g), NEW o \in Options, NEW p, NEW b, Distinct(p, b), Parts(g, o, p, b)
  PROVE  Placed(p, b) \in SUBSET Node /\ Beside(g, Placed(p, b)) \subseteq Placed(p, b)
<1>1. Placed(p, b) \in SUBSET Node
  BY DEF Placed, Distinct
<1>2. ASSUME NEW n \in Beside(g, Placed(p, b)) PROVE n \in Placed(p, b)
  <2>1. PICK m \in Placed(p, b) : n \in ToSet(g[m])
    BY <1>1, BesideIs
  <2>2. PICK x \in 0 .. b - 1 : m = p[x]
    BY <2>1 DEF Placed
  <2>3. PICK a \in 0 .. x : \E c \in x + 1 .. b : \E q : IsPart(g, o, p, a, c, q)
    BY DEF Parts
  <2>4. PICK c \in x + 1 .. b : \E q : IsPart(g, o, p, a, c, q)
    BY <2>3
  <2>5. PICK q : IsPart(g, o, p, a, c, q)
    BY <2>4
  <2>6. a \in Nat /\ c \in a + 1 .. b /\ x \in a .. c - 1
    BY NumNodesAssumption DEF Distinct
  <2>7. /\ q[0] \in Node /\ ComponentOf(g, q[0]) = {p[y] : y \in a .. c - 1}
        /\ \A y \in a .. c - 1 : y \in 0 .. b - 1
    BY <2>5, <2>6, PartHas
  <2>8. m \in ComponentOf(g, q[0])
    BY <2>2, <2>6, <2>7
  <2>9. n \in ComponentOf(g, q[0])
    BY <2>1, <2>7, <2>8, NextStep
  <2> QED
    BY <2>7, <2>9 DEF Placed
<1> QED
  BY <1>1, <1>2

\* Parts stay when what is behind them changes.
LEMMA PartsStay ==
  ASSUME NEW g, NEW o \in Options, NEW p, NEW b \in Nat, Parts(g, o, p, b),
         NEW u, \A x \in 0 .. b - 1 : u[x] = p[x]
  PROVE  Parts(g, o, u, b) /\ Placed(u, b) = Placed(p, b)
<1>1. Placed(u, b) = Placed(p, b)
  BY DEF Placed
<1>2. ASSUME NEW x \in 0 .. b - 1
      PROVE  \E a \in 0 .. x : \E c \in x + 1 .. b : \E q : IsPart(g, o, u, a, c, q)
  <2>3. PICK a \in 0 .. x : \E c \in x + 1 .. b : \E q : IsPart(g, o, p, a, c, q)
    BY DEF Parts
  <2>4. PICK c \in x + 1 .. b : \E q : IsPart(g, o, p, a, c, q)
    BY <2>3
  <2>5. PICK q : IsPart(g, o, p, a, c, q)
    BY <2>4
  <2>6. a \in Nat /\ c \in Nat /\ a < c /\ c <= b /\ o.reverse \in BOOLEAN
    BY DEF Options
  <2>7. \A i \in 0 .. c - a - 1 : Turned(a, c, o.reverse, i) \in 0 .. b - 1
    BY <2>6 DEF Turned
  <2>8. Stretch(u, a, c, o.reverse) = Stretch(p, a, c, o.reverse)
    BY <2>7 DEF Stretch, Turned
  <2>9. Placed(u, a) = Placed(p, a)
    BY <2>6 DEF Placed
  <2>10. IsPart(g, o, u, a, c, q)
    BY <2>5, <2>8, <2>9 DEF IsPart
  <2> QED
    BY <2>10
<1> QED
  BY <1>1, <1>2 DEF Parts

\* What the next level has is exactly one step farther away than the last.
IsNextLevel(level, p, l2, s, g) ==
  \A w : w \in ToSet(level) <=> w \notin Placed(p, l2) /\ \E v \in ToSet(s) : w \in ToSet(g[v])
IsLevel(s, p, l1, l2) == s = [x \in 1 .. l2 - l1 + 1 |-> p[l1 + x - 2]]

HasBall(g, p, b, l2, q, d) ==
  /\ q[0] \in Node /\ q[0] = p[b]
  /\ \A i \in 0 .. l2 - b - 1 : /\ q[i] = p[b + i] /\ b + i \in 0 .. l2 - 1
                                /\ q[i] \in Balls(g, q[0])[d] /\ q[i] \in ComponentOf(g, q[0])
                                /\ Steps(g, q[0], q[i]) \in 0 .. d
  /\ \A w \in Balls(g, q[0])[d] : \E i \in 0 .. l2 - b - 1 : q[i] = w

LEMMA BallHas ==
  ASSUME NEW g, IsPattern(g), NEW o, NEW p, NEW b \in Nat, NEW l1 \in Nat, NEW l2 \in Nat, b < l1, l1 <= l2,
         Distinct(p, l2), NEW q, NEW d \in 0 .. NumNodes - 1, IsBall(g, o, p, b, l1, l2, q, d)
  PROVE  HasBall(g, p, b, l2, q, d)
<1> DEFINE n == l2 - b
<1>1. n \in Nat /\ n > 0
  OBVIOUS
<1>2. q = [i \in 0 .. n - 1 |-> p[b + i]]
  BY DEF IsBall, Stretch
<1>3. \A i \in 0 .. n - 1 : q[i] = p[b + i] /\ b + i \in 0 .. l2 - 1
  BY <1>2
<1>4. 0 \in 0 .. n - 1
  BY <1>1
<1>5. q[0] \in Node /\ q[0] = p[b]
  BY <1>3, <1>4 DEF Distinct
<1>6. {q[i] : i \in 0 .. n - 1} = Balls(g, q[0])[d]
  BY DEF IsBall
<1> HIDE DEF n
<1>7. d \in 0 .. NumNodes /\ NumNodes \in d .. NumNodes
  BY NumNodesAssumption
<1>8. Balls(g, q[0])[d] \subseteq ComponentOf(g, q[0])
  BY <1>5, <1>7, BallsAre, BallsGrow DEF ComponentOf
<1>9. ASSUME NEW i \in 0 .. n - 1
      PROVE  q[i] \in Balls(g, q[0])[d] /\ q[i] \in ComponentOf(g, q[0]) /\ Steps(g, q[0], q[i]) \in 0 .. d
  <2>1. q[i] \in Balls(g, q[0])[d] /\ q[i] \in ComponentOf(g, q[0])
    BY <1>6, <1>8
  <2>2. Steps(g, q[0], q[i]) \in 0 .. NumNodes /\ Steps(g, q[0], q[i]) <= d
    BY <1>5, <1>7, <2>1, StepsAre
  <2> QED
    BY <2>1, <2>2
<1> QED
  BY <1>3, <1>5, <1>6, <1>9 DEF n, HasBall

\* The nodes of the next level are one step farther away than those of the last.
LEMMA NextLevelIs ==
  ASSUME NEW g, IsPattern(g), NEW o \in Options,
         NEW p, NEW b \in Nat, NEW l1 \in Nat, NEW l2 \in Nat, b < l1, l1 <= l2,
         Distinct(p, l2), Parts(g, o, p, b), NEW q, NEW d \in 0 .. NumNodes - 1, IsBall(g, o, p, b, l1, l2, q, d),
         NEW s, IsLevel(s, p, l1, l2), NEW level, IsNextLevel(level, p, l2, s, g)
  PROVE  /\ Balls(g, q[0])[d + 1] = Balls(g, q[0])[d] \cup ToSet(level)
         /\ \A w \in ToSet(level) : /\ w \notin Balls(g, q[0])[d]
                                    /\ w \in ComponentOf(g, q[0]) /\ Steps(g, q[0], w) = d + 1
<1> DEFINE n == l2 - b
           r == q[0]
           ball == Balls(g, q[0])
<1>1. /\ r \in Node /\ r = p[b]
      /\ \A i \in 0 .. n - 1 : /\ q[i] = p[b + i] /\ b + i \in 0 .. l2 - 1
                               /\ q[i] \in ball[d] /\ q[i] \in ComponentOf(g, r) /\ Steps(g, r, q[i]) \in 0 .. d
      /\ \A w \in ball[d] : \E i \in 0 .. n - 1 : q[i] = w
  <2>1. HasBall(g, p, b, l2, q, d)
    BY BallHas
  <2> QED
    BY <2>1 DEF HasBall
<1>2. IsBalls(ball, g, r)
  BY <1>1, BallsAre
<1>3. \A i \in 0 .. n - 1 : Steps(g, r, q[i]) = d <=> i + b >= l1 - 1
  BY DEF IsBall
<1>4. /\ d \in 0 .. NumNodes /\ d + 1 \in 0 .. NumNodes /\ d + 1 \in 1 .. NumNodes /\ (d + 1) - 1 = d
      /\ NumNodes \in d + 1 .. NumNodes /\ d + 1 \in d .. NumNodes
  BY NumNodesAssumption
<1>5. \A w \in ComponentOf(g, r) : /\ Steps(g, r, w) \in 0 .. NumNodes
                                   /\ \A k \in 0 .. NumNodes : w \in ball[k] <=> Steps(g, r, w) <= k
  BY <1>1, StepsAre
<1>6. n \in Nat /\ b \in 0 .. l2 - 1 /\ \A i \in 0 .. n - 1 : (i + b >= l1 - 1) => i + b - l1 + 2 \in 1 .. l2 - l1 + 1
  OBVIOUS
<1>7. \A x \in 1 .. l2 - l1 + 1 : /\ l1 + x - 2 - b \in 0 .. n - 1 /\ l1 + x - 2 - b + b >= l1 - 1
                                  /\ b + (l1 + x - 2 - b) = l1 + x - 2
  OBVIOUS
<1> HIDE DEF n, r, ball
<1>8. ball[d] \in SUBSET Node /\ ball[d + 1] = Beside(g, ball[d]) /\ ball[d + 1] \subseteq ComponentOf(g, r)
  <2>1. ball[d] \in SUBSET Node /\ ball[d + 1] = Beside(g, ball[d])
    BY <1>2, <1>4 DEF IsBalls
  <2>2. ball[d + 1] \subseteq ball[NumNodes]
    BY <1>1, <1>2, <1>4, BallsGrow
  <2> QED
    BY <2>1, <2>2 DEF ComponentOf, ball, r
<1>9. ball[d] \subseteq ball[d + 1]
  BY <1>1, <1>2, <1>4, BallsGrow
<1>10. ASSUME NEW w \in ToSet(level) PROVE w \in ball[d + 1] /\ w \notin ball[d]
  <2>1. w \notin Placed(p, l2) /\ \E v \in ToSet(s) : w \in ToSet(g[v])
    BY DEF IsNextLevel
  <2>2. PICK x \in 1 .. l2 - l1 + 1 : w \in ToSet(g[p[l1 + x - 2]])
    <3>1. PICK v \in ToSet(s) : w \in ToSet(g[v])
      BY <2>1
    <3>2. DOMAIN s = 1 .. l2 - l1 + 1 /\ \A x \in 1 .. l2 - l1 + 1 : s[x] = p[l1 + x - 2]
      BY DEF IsLevel
    <3>3. PICK x \in 1 .. l2 - l1 + 1 : s[x] = v
      BY <3>1, <3>2 DEF ToSet
    <3> QED
      BY <3>1, <3>2, <3>3
  <2>3. PICK i \in 0 .. n - 1 : p[l1 + x - 2] = q[i]
    BY <1>1, <1>7
  <2>4. w \in ball[d + 1]
    BY <1>1, <1>8, <2>2, <2>3, BesideIs
  <2>5. w \notin ball[d]
    <3>1. \A j \in 0 .. n - 1 : q[j] \in Placed(p, l2)
      BY <1>1 DEF Placed
    <3> QED
      BY <1>1, <2>1, <3>1
  <2> QED
    BY <2>4, <2>5
<1>11. ASSUME NEW w \in ball[d + 1], w \notin ball[d] PROVE w \in ToSet(level)
  <2>1. PICK v \in ball[d] : w \in ToSet(g[v])
    BY <1>8, BesideIs
  <2>2. PICK i \in 0 .. n - 1 : q[i] = v
    BY <1>1
  <2>3. v \in ComponentOf(g, r) /\ Steps(g, r, v) \in 0 .. d /\ v \in Node
    BY <1>1, <1>8, <2>2
  <2>4. w \in ComponentOf(g, r) /\ Steps(g, r, w) <= Steps(g, r, v) + 1
    BY <1>1, <2>1, <2>3, NextStep
  <2>5. Steps(g, r, v) = d
    <3>1. ~(Steps(g, r, w) <= d) /\ Steps(g, r, w) \in 0 .. NumNodes
      BY <1>4, <1>5, <1>11, <2>4
    <3> QED
      BY <2>3, <2>4, <3>1, NumNodesAssumption
  <2>6. i + b >= l1 - 1
    BY <1>3, <2>2, <2>5
  <2>7. v \in ToSet(s)
    <3>1. i + b - l1 + 2 \in 1 .. l2 - l1 + 1
      BY <1>6, <2>6
    <3>2. l1 + (i + b - l1 + 2) - 2 = b + i
      OBVIOUS
    <3>3. s[i + b - l1 + 2] = p[b + i] /\ DOMAIN s = 1 .. l2 - l1 + 1
      BY <3>1, <3>2 DEF IsLevel
    <3> QED
      BY <1>1, <2>2, <3>1, <3>3 DEF ToSet
  <2>8. w \notin Placed(p, l2)
    <3> SUFFICES ASSUME NEW y \in 0 .. l2 - 1, w = p[y] PROVE FALSE
      BY DEF Placed
    <3>1. CASE y < b
      <4>1. Distinct(p, b)
        BY NumNodesAssumption DEF Distinct
      <4>2. Placed(p, b) \in SUBSET Node /\ Beside(g, Placed(p, b)) \subseteq Placed(p, b)
        BY <4>1, PartsClosed
      <4>3. w \in Placed(p, b)
        BY <3>1 DEF Placed
      <4>4. v \in ToSet(g[w])
        BY <2>1, <2>3, <4>2, <4>3 DEF IsPattern
      <4>5. v \in Placed(p, b)
        BY <4>2, <4>3, <4>4, BesideIs
      <4>6. PICK x \in 0 .. b - 1 : v = p[x]
        BY <4>5 DEF Placed
      <4>7. v = p[b + i] /\ b + i \in 0 .. l2 - 1 /\ x \in 0 .. l2 - 1
        BY <1>1, <1>6, <2>2
      <4>8. x = b + i
        BY <4>6, <4>7 DEF Distinct
      <4> QED
        BY <4>6, <4>8
    <3>2. CASE ~(y < b)
      <4>1. y - b \in 0 .. n - 1 /\ b + (y - b) = y
        BY <3>2 DEF n
      <4>2. q[y - b] = w
        BY <1>1, <4>1
      <4> QED
        BY <1>1, <1>11, <4>1, <4>2
    <3> QED
      BY <3>1, <3>2
  <2> QED
    BY <2>1, <2>7, <2>8 DEF IsNextLevel
<1>12. \A w \in ToSet(level) : w \in ComponentOf(g, r) /\ Steps(g, r, w) = d + 1
  <2> TAKE w \in ToSet(level)
  <2>1. w \in ComponentOf(g, r) /\ w \in ball[d + 1] /\ w \notin ball[d]
    BY <1>8, <1>10
  <2>2. Steps(g, r, w) \in 0 .. NumNodes /\ Steps(g, r, w) <= d + 1 /\ ~(Steps(g, r, w) <= d)
    BY <1>4, <1>5, <2>1
  <2> QED
    BY <2>1, <2>2
<1> QED
  BY <1>9, <1>10, <1>11, <1>12 DEF ball, r

\* u is p with the next level behind place l2.
Extends(u, p, l2, level, m) ==
  /\ \A x \in 0 .. l2 - 1 : u[x] = p[x]
  /\ \A x \in 1 .. m : u[l2 + x - 1] = level[x]

LEMMA BallGrows ==
  ASSUME NEW g, IsPattern(g), NEW o \in Options,
         NEW p, NEW b \in Nat, NEW l1 \in Nat, NEW l2 \in Nat, b < l1, l1 <= l2,
         Distinct(p, l2), Parts(g, o, p, b), NEW q, NEW d \in 0 .. NumNodes - 1, IsBall(g, o, p, b, l1, l2, q, d),
         NEW s, IsLevel(s, p, l1, l2), NEW level, IsNextLevel(level, p, l2, s, g), Follows(level, s, g, o),
         NEW m \in Nat, m > 0, l2 + m <= NumNodes, DOMAIN level = 1 .. m,
         NEW u, Extends(u, p, l2, level, m)
  PROVE  Grows(g, o, u, b, l2 + 1, l2 + m)
<1> DEFINE n == l2 - b
           r == q[0]
           ball == Balls(g, q[0])
           z == Stretch(u, b, l2 + m, FALSE)
           D(w) == Steps(g, r, w)
<1>1. /\ r \in Node
      /\ \A i \in 0 .. n - 1 : /\ q[i] = p[b + i] /\ b + i \in 0 .. l2 - 1
                               /\ q[i] \in ball[d] /\ q[i] \in ComponentOf(g, r) /\ D(q[i]) \in 0 .. d
      /\ \A w \in ball[d] : \E i \in 0 .. n - 1 : q[i] = w
  <2>1. HasBall(g, p, b, l2, q, d)
    BY BallHas
  <2> QED
    BY <2>1 DEF HasBall
<1>2. /\ ball[d + 1] = ball[d] \cup ToSet(level)
      /\ \A w \in ToSet(level) : w \notin ball[d] /\ w \in ComponentOf(g, r) /\ D(w) = d + 1
  BY NextLevelIs
<1>3. /\ \A i \in 0 .. n - 1 : D(q[i]) = d <=> i + b >= l1 - 1
      /\ \A w \in Node \ Placed(p, b) : Fits(g, o, r, w)
  BY DEF IsBall
<1>4. \A i, j \in 0 .. n - 1 :
        /\ D(q[i]) < D(q[j]) => i < j
        /\ (i < j /\ D(q[i]) = D(q[j])) =>
             /\ ~Prefers(g, o, q[j], q[i])
             /\ ~Prefers(g, o, q[i], q[j]) =>
                  \A x \in 0 .. n - 1 : Leads(g, q, x, j) => \E y \in 0 .. x : Leads(g, q, y, i)
  BY DEF IsBall, Ordered
<1>5. n \in Nat /\ n > 0 /\ n = l2 - b /\ d \in Nat /\ d < n /\ l2 + m - b = n + m /\ l2 = n + b
  BY NumNodesAssumption DEF IsBall
<1>6. /\ \A i \in 0 .. n - 1 : z[i] = q[i]
      /\ \A i \in n .. n + m - 1 : i - n + 1 \in 1 .. m /\ z[i] = level[i - n + 1]
  <2>1. z = [i \in 0 .. n + m - 1 |-> u[b + i]]
    BY <1>5 DEF Stretch
  <2> HIDE DEF z
  <2>2. ASSUME NEW i \in 0 .. n - 1 PROVE z[i] = q[i]
    <3>1. i \in 0 .. n + m - 1 /\ b + i \in 0 .. l2 - 1
      BY <1>5
    <3> QED
      BY <1>1, <2>1, <3>1 DEF Extends
  <2>3. ASSUME NEW i \in n .. n + m - 1 PROVE i - n + 1 \in 1 .. m /\ z[i] = level[i - n + 1]
    <3>1. i \in 0 .. n + m - 1 /\ i - n + 1 \in 1 .. m /\ l2 + (i - n + 1) - 1 = b + i
      BY <1>5
    <3> QED
      BY <2>1, <3>1 DEF Extends
  <2> QED
    BY <2>2, <2>3
<1> HIDE DEF z, r, ball, n
<1>7. ASSUME NEW i \in 0 .. n + m - 1
      PROVE  /\ i < n => i \in 0 .. n - 1 /\ z[i] = q[i]
             /\ ~(i < n) => /\ i \in n .. n + m - 1 /\ i - n + 1 \in 1 .. m
                            /\ z[i] = level[i - n + 1] /\ z[i] \in ToSet(level)
  <2>1. CASE i < n
    <3>1. i \in 0 .. n - 1
      BY <1>5, <2>1
    <3> QED
      BY <1>6, <2>1, <3>1
  <2>2. CASE ~(i < n)
    BY <1>5, <1>6, <2>2 DEF ToSet
  <2> QED
    BY <2>1, <2>2
<1>8. z[0] = r /\ 0 \in 0 .. n + m - 1
  BY <1>5, <1>6 DEF r
<1>9. \A i \in 0 .. n + m - 1 : /\ i < n => D(z[i]) \in 0 .. d
                                /\ ~(i < n) => D(z[i]) = d + 1
  BY <1>1, <1>2, <1>7
<1> DEFINE E(i) == D(z[i])
<1>10. \A i \in 0 .. n + m - 1 : /\ i < n => E(i) \in 0 .. d
                                 /\ ~(i < n) => E(i) = d + 1
  BY <1>9
<1>11. ASSUME NEW i \in 0 .. n + m - 1, NEW y \in 0 .. n + m - 1, Leads(g, z, y, i)
       PROVE  z[i] \in ToSet(g[z[y]]) /\ E(i) = E(y) + 1
  BY <1>8, <1>11 DEF Leads
<1>12. ASSUME NEW i \in 0 .. n + m - 1, NEW y \in 0 .. n + m - 1, z[i] \in ToSet(g[z[y]]), E(i) = E(y) + 1
       PROVE  Leads(g, z, y, i)
  BY <1>8, <1>12 DEF Leads
<1>13. \A i \in 0 .. n - 1 : D(z[i]) = d <=> i + b >= l1 - 1
  BY <1>3, <1>6
<1>14. \A i \in 0 .. n - 1 : E(i) = d <=> i + b >= l1 - 1
  BY <1>13
<1> HIDE DEF E
<1>15. ASSUME NEW i \in 0 .. n + m - 1, NEW j \in 0 .. n + m - 1
       PROVE  /\ E(i) < E(j) => i < j
              /\ (i < j /\ E(i) = E(j)) =>
                   /\ ~Prefers(g, o, z[j], z[i])
                   /\ ~Prefers(g, o, z[i], z[j]) =>
                        \A x \in 0 .. n + m - 1 : Leads(g, z, x, j) => \E y \in 0 .. x : Leads(g, z, y, i)
  <2>1. CASE i < n /\ j < n
    <3>1. i \in 0 .. n - 1 /\ j \in 0 .. n - 1 /\ z[i] = q[i] /\ z[j] = q[j]
      BY <1>7, <2>1
    <3>2. E(i) = D(q[i]) /\ E(j) = D(q[j])
      BY <3>1 DEF E
    <3>3. ASSUME i < j, E(i) = E(j), ~Prefers(g, o, z[i], z[j]), NEW x \in 0 .. n + m - 1, Leads(g, z, x, j)
          PROVE  \E y \in 0 .. x : Leads(g, z, y, i)
      <4>1. z[j] \in ToSet(g[z[x]]) /\ E(j) = E(x) + 1
        BY <1>11, <3>3
      <4>2. x < n
        BY <1>5, <1>10, <2>1, <4>1
      <4>3. x \in 0 .. n - 1 /\ z[x] = q[x]
        BY <1>7, <4>2
      <4>4. Leads(g, q, x, j)
        BY <3>1, <4>1, <4>3 DEF Leads, E, r
      <4>5. PICK y \in 0 .. x : Leads(g, q, y, i)
        BY <1>4, <3>1, <3>2, <3>3, <4>3, <4>4
      <4>6. y \in 0 .. n - 1 /\ y \in 0 .. n + m - 1
        BY <1>5, <4>3
      <4>7. z[y] = q[y]
        BY <1>6, <4>6
      <4>8. z[i] \in ToSet(g[z[y]]) /\ E(i) = E(y) + 1
        BY <3>1, <4>5, <4>7 DEF Leads, E, r
      <4>9. Leads(g, z, y, i)
        BY <1>12, <4>6, <4>8
      <4> QED
        BY <4>9
    <3> QED
      BY <1>4, <3>1, <3>2, <3>3
  <2>2. CASE i < n /\ ~(j < n)
    BY <1>5, <1>10, <2>2
  <2>3. CASE ~(i < n) /\ j < n
    BY <1>5, <1>10, <2>3
  <2>4. CASE ~(i < n) /\ ~(j < n)
    <3> DEFINE e == i - n + 1
               f == j - n + 1
    <3>1. /\ E(i) = d + 1 /\ E(j) = d + 1 /\ e \in 1 .. m /\ f \in 1 .. m
          /\ z[i] = level[e] /\ z[j] = level[f] /\ (i < j => e < f)
      <4>1. E(i) = d + 1 /\ E(j) = d + 1
        BY <1>10, <2>4
      <4>2. e \in 1 .. m /\ f \in 1 .. m /\ z[i] = level[e] /\ z[j] = level[f]
        BY <1>7, <2>4
      <4>3. i < j => e < f
        BY <1>5
      <4> QED
        BY <4>1, <4>2, <4>3
    <3> HIDE DEF e, f
    <3>2. ASSUME i < j
          PROVE  /\ ~Prefers(g, o, level[f], level[e])
                 /\ ~Prefers(g, o, level[e], level[f]) =>
                      \A x \in DOMAIN s : level[f] \in ToSet(g[s[x]]) => \E y \in DOMAIN s : y <= x /\ level[e] \in ToSet(g[s[y]])
      BY <3>1, <3>2 DEF Follows
    <3>3. ASSUME i < j, ~Prefers(g, o, z[i], z[j]), NEW x \in 0 .. n + m - 1, Leads(g, z, x, j)
          PROVE  \E y \in 0 .. x : Leads(g, z, y, i)
      <4>1. z[j] \in ToSet(g[z[x]]) /\ E(j) = E(x) + 1
        BY <1>11, <3>3
      <4>2. x < n
        BY <1>5, <1>10, <3>1, <4>1
      <4>3. x \in 0 .. n - 1 /\ z[x] = q[x] /\ E(x) = d
        <5>1. x \in 0 .. n - 1 /\ z[x] = q[x] /\ E(x) \in 0 .. d
          BY <1>7, <1>10, <4>2
        <5> QED
          BY <1>5, <3>1, <4>1, <5>1
      <4>4. x + b >= l1 - 1
        BY <1>14, <4>3
      <4> DEFINE c == x + b - l1 + 2
      <4>5. c \in 1 .. l2 - l1 + 1 /\ l1 + c - 2 = b + x /\ c \in Nat
        BY <1>5, <4>3, <4>4
      <4> HIDE DEF c
      <4>6. DOMAIN s = 1 .. l2 - l1 + 1 /\ \A k \in 1 .. l2 - l1 + 1 : s[k] = p[l1 + k - 2]
        BY DEF IsLevel
      <4>7. s[c] = z[x]
        BY <1>1, <4>3, <4>5, <4>6
      <4>8. PICK k \in 1 .. l2 - l1 + 1 : k <= c /\ level[e] \in ToSet(g[s[k]])
        BY <3>1, <3>2, <3>3, <4>1, <4>5, <4>6, <4>7
      <4> DEFINE y == l1 + k - 2 - b
      <4>9. y \in 0 .. n - 1 /\ y \in 0 .. x /\ b + y = l1 + k - 2 /\ y + b >= l1 - 1
        <5>1. k \in Nat /\ k >= 1 /\ k <= c /\ x \in Nat /\ x <= n - 1
          BY <1>5, <4>3, <4>5, <4>8
        <5>2. y \in Nat /\ y <= x /\ b + y = l1 + k - 2 /\ y + b >= l1 - 1
          BY <1>5, <4>5, <5>1
        <5> HIDE DEF y
        <5> QED
          BY <1>5, <5>1, <5>2
      <4> HIDE DEF y
      <4>10. z[y] = q[y] /\ q[y] = p[b + y] /\ E(y) = d
        BY <1>1, <1>6, <1>14, <4>9
      <4>11. s[k] = z[y] /\ y \in 0 .. n + m - 1
        <5>1. y \in 0 .. n + m - 1
          BY <1>5, <4>9
        <5>2. s[k] = p[l1 + k - 2]
          BY <4>6
        <5> QED
          BY <4>9, <4>10, <5>1, <5>2
      <4>12. z[i] \in ToSet(g[z[y]]) /\ E(i) = E(y) + 1
        BY <3>1, <4>8, <4>10, <4>11
      <4>13. Leads(g, z, y, i)
        BY <1>12, <4>11, <4>12
      <4> QED
        BY <4>9, <4>13
    <3>4. ~(E(i) < E(j))
      BY <1>5, <3>1
    <3> QED
      BY <3>1, <3>2, <3>3, <3>4
  <2> QED
    BY <2>1, <2>2, <2>3, <2>4
<1>22. 0 .. (l2 + m) - b - 1 = 0 .. n + m - 1
  BY <1>5
<1>16. Ordered(g, o, z, (l2 + m) - b)
  <2>1. \A i, j \in 0 .. (l2 + m) - b - 1 :
          /\ Steps(g, r, z[i]) < Steps(g, r, z[j]) => i < j
          /\ (i < j /\ Steps(g, r, z[i]) = Steps(g, r, z[j])) =>
               /\ ~Prefers(g, o, z[j], z[i])
               /\ ~Prefers(g, o, z[i], z[j]) =>
                    \A x \in 0 .. (l2 + m) - b - 1 : Leads(g, z, x, j) => \E y \in 0 .. x : Leads(g, z, y, i)
    BY <1>15, <1>22 DEF E
  <2> QED
    BY <1>8, <2>1 DEF Ordered
<1>17. {z[i] : i \in 0 .. n + m - 1} = ball[d + 1]
  <2>1. ASSUME NEW i \in 0 .. n + m - 1 PROVE z[i] \in ball[d + 1]
    BY <1>1, <1>2, <1>7
  <2>2. ASSUME NEW w \in ball[d + 1] PROVE \E i \in 0 .. n + m - 1 : z[i] = w
    <3>1. CASE w \in ball[d]
      <4>1. PICK i \in 0 .. n - 1 : q[i] = w
        BY <1>1, <3>1
      <4>2. i \in 0 .. n + m - 1 /\ z[i] = w
        BY <1>5, <1>6, <4>1
      <4> QED
        BY <4>2
    <3>2. CASE w \in ToSet(level)
      <4>1. PICK x \in 1 .. m : level[x] = w
        BY <3>2 DEF ToSet
      <4>2. x + n - 1 \in n .. n + m - 1 /\ x + n - 1 \in 0 .. n + m - 1 /\ (x + n - 1) - n + 1 = x
        BY <1>5
      <4>3. z[x + n - 1] = w
        BY <1>6, <4>1, <4>2
      <4> QED
        BY <4>2, <4>3
    <3> QED
      BY <1>2, <3>1, <3>2
  <2> QED
    BY <2>1, <2>2
<1>18. \A i \in 0 .. n + m - 1 : E(i) = d + 1 <=> i + b >= (l2 + 1) - 1
  BY <1>5, <1>10
<1>19. Placed(u, b) = Placed(p, b)
  <2>1. \A x \in 0 .. b - 1 : u[x] = p[x]
    BY <1>5 DEF Extends
  <2> QED
    BY <2>1 DEF Placed
<1>20. d + 1 \in 0 .. NumNodes - 1 /\ d + 1 < (l2 + m) - b /\ (l2 + m) - b = n + m
  BY <1>5, NumNodesAssumption
<1>21. IsBall(g, o, u, b, l2 + 1, l2 + m, z, d + 1)
  <2>1. \A i \in 0 .. (l2 + m) - b - 1 : Steps(g, z[0], z[i]) = d + 1 <=> i + b >= (l2 + 1) - 1
    BY <1>8, <1>18, <1>22 DEF E
  <2>2. {z[i] : i \in 0 .. (l2 + m) - b - 1} = Balls(g, z[0])[d + 1]
    BY <1>8, <1>17, <1>22 DEF ball, r
  <2>3. \A w \in Node \ Placed(u, b) : Fits(g, o, z[0], w)
    BY <1>3, <1>8, <1>19
  <2>4. z = Stretch(u, b, l2 + m, FALSE)
    BY DEF z
  <2> QED
    BY <1>16, <1>20, <2>1, <2>2, <2>3, <2>4 DEF IsBall
<1> QED
  BY <1>20, <1>21 DEF Grows

\* An array that is full has every node.
LEMMA FullHasAll ==
  ASSUME NEW p, Distinct(p, NumNodes), NEW w \in Node
  PROVE  \E x \in Node : p[x] = w
<1> DEFINE f == [x \in Node |-> p[x]]
<1>1. Node = 0 .. NumNodes - 1
  BY DEF Node
<1>2. f \in [Node -> Node] /\ \A x, y \in Node : f[x] = f[y] => x = y
  BY <1>1 DEF Distinct
<1>3. f \in Injection(Node, Node)
  BY <1>2 DEF Injection, IsInjective
<1>4. f \in Surjection(Node, Node)
  BY <1>3, NodesAreFinite, FS_Injection
<1>5. \E x \in Node : f[x] = w
  BY <1>4 DEF Surjection
<1> QED
  BY <1>5

\* The last level is the end of the component: nothing more is next to it, or all are taken.
LEMMA BallIsComponent ==
  ASSUME NEW g, IsPattern(g), NEW o \in Options,
         NEW p, NEW b \in Nat, NEW l1 \in Nat, NEW l2 \in Nat, b < l1, l1 <= l2,
         Distinct(p, l2), Parts(g, o, p, b), NEW q, NEW d \in 0 .. NumNodes - 1, IsBall(g, o, p, b, l1, l2, q, d),
         NEW s, IsLevel(s, p, l1, l2), NEW level, l2 < NumNodes => IsNextLevel(level, p, l2, s, g) /\ ToSet(level) = {}
  PROVE  Balls(g, q[0])[d] = ComponentOf(g, q[0])
<1> DEFINE r == q[0]
           ball == Balls(g, q[0])
<1>1. /\ r \in Node /\ r = p[b]
      /\ \A i \in 0 .. l2 - b - 1 : q[i] = p[b + i] /\ q[i] \in ball[d]
  <2>1. HasBall(g, p, b, l2, q, d)
    BY BallHas
  <2> QED
    BY <2>1 DEF HasBall
<1>2. ball[d] \in SUBSET Node /\ ball[d] \subseteq ComponentOf(g, r)
  <2>1. IsBalls(ball, g, r) /\ d \in 0 .. NumNodes /\ NumNodes \in d .. NumNodes
    BY <1>1, BallsAre, NumNodesAssumption
  <2> HIDE DEF ball, r
  <2>2. ball[d] \subseteq ball[NumNodes]
    BY <1>1, <2>1, BallsGrow
  <2> QED
    BY <2>1, <2>2 DEF IsBalls, ComponentOf, ball, r
<1>3. CASE l2 < NumNodes
  <2>1. ball[d + 1] = ball[d]
    <3>1. ball[d + 1] = ball[d] \cup ToSet(level)
      BY <1>3, NextLevelIs
    <3> QED
      BY <1>3, <3>1
  <2>2. IsBalls(ball, g, r) /\ d + 1 \in 1 .. NumNodes /\ (d + 1) - 1 = d
    BY <1>1, BallsAre, NumNodesAssumption
  <2>3. ball[0] = {r} /\ 0 \in 0 .. NumNodes /\ d \in 0 .. NumNodes /\ d \in 0 .. d /\ d \in Nat
    BY <2>2, NumNodesAssumption DEF IsBalls
  <2> HIDE DEF ball, r
  <2>4. Beside(g, ball[d]) = ball[d]
    BY <2>1, <2>2 DEF IsBalls
  <2>5. r \in ball[d]
    <3>1. d \in 0 .. NumNodes
      BY <2>3
    <3>2. ball[0] \subseteq ball[d]
      BY <1>1, <2>2, <2>3, <3>1, BallsGrow
    <3> QED
      BY <2>3, <3>2
  <2>6. ComponentOf(g, r) \subseteq ball[d]
    BY <1>1, <1>2, <2>4, <2>5, ComponentIs
  <2> QED
    BY <1>2, <2>6 DEF ball, r
<1>4. CASE ~(l2 < NumNodes)
  <2> HIDE DEF ball, r
  <2>1. l2 = NumNodes
    BY <1>4, NumNodesAssumption DEF Distinct
  <2>2. ASSUME NEW w \in ComponentOf(g, r) PROVE w \in ball[d]
    <3>1. w \in Node /\ r \in ComponentOf(g, w)
      BY <1>1, SameComponent
    <3>2. PICK x \in Node : p[x] = w
      BY <2>1, <3>1, FullHasAll
    <3>3. x \in 0 .. l2 - 1 /\ b \in 0 .. l2 - 1
      BY <2>1 DEF Node
    <3>4. CASE x < b
      <4>1. Distinct(p, b)
        BY NumNodesAssumption DEF Distinct
      <4>2. Placed(p, b) \in SUBSET Node /\ Beside(g, Placed(p, b)) \subseteq Placed(p, b)
        BY <4>1, PartsClosed
      <4>3. w \in Placed(p, b)
        BY <3>2, <3>3, <3>4 DEF Placed
      <4>4. ComponentOf(g, w) \subseteq Placed(p, b)
        BY <3>1, <4>2, <4>3, ComponentIs
      <4>5. PICK y \in 0 .. b - 1 : p[b] = p[y]
        BY <1>1, <3>1, <4>4 DEF Placed
      <4>6. y \in 0 .. l2 - 1 /\ y # b
        BY <3>3
      <4> QED
        BY <3>3, <4>5, <4>6 DEF Distinct
    <3>5. CASE ~(x < b)
      <4>1. x - b \in 0 .. l2 - b - 1 /\ b + (x - b) = x
        BY <3>3, <3>5
      <4>2. q[x - b] = w
        BY <1>1, <3>2, <4>1
      <4> QED
        BY <1>1, <4>1, <4>2
    <3> QED
      BY <3>4, <3>5
  <2> QED
    BY <1>2, <2>2 DEF ball, r
<1> QED
  BY <1>3, <1>4

\* The component as compute leaves it, reversed if this was asked for.
IsReversal(u, p, b, l2, reversed) ==
  /\ \A x \in 0 .. b - 1 : u[x] = p[x]
  /\ \A x \in b .. l2 - 1 : u[x] = p[IF reversed THEN b + l2 - 1 - x ELSE x]

LEMMA BallBecomesPart ==
  ASSUME NEW g, IsPattern(g), NEW o \in Options,
         NEW p, NEW b \in Nat, NEW l1 \in Nat, NEW l2 \in Nat, b < l1, l1 <= l2,
         Parts(g, o, p, b), NEW q, NEW d \in 0 .. NumNodes - 1, IsBall(g, o, p, b, l1, l2, q, d),
         Balls(g, q[0])[d] = ComponentOf(g, q[0]), NEW u, IsReversal(u, p, b, l2, o.reverse)
  PROVE  Parts(g, o, u, l2)
<1>1. Parts(g, o, u, b) /\ Placed(u, b) = Placed(p, b)
  BY PartsStay DEF IsReversal
<1>2. q = Stretch(u, b, l2, o.reverse)
  <2>1. q = [i \in 0 .. l2 - b - 1 |-> p[b + i]]
    BY DEF IsBall, Stretch
  <2>2. PICK reversed \in BOOLEAN : o.reverse = reversed
    BY DEF Options
  <2>3. ASSUME NEW i \in 0 .. l2 - b - 1 PROVE u[IF reversed THEN l2 - 1 - i ELSE b + i] = p[b + i]
    <3>1. CASE reversed
      <4>1. l2 - 1 - i \in b .. l2 - 1 /\ b + l2 - 1 - (l2 - 1 - i) = b + i
        OBVIOUS
      <4>2. u[l2 - 1 - i] = p[b + l2 - 1 - (l2 - 1 - i)]
        BY <2>2, <3>1, <4>1 DEF IsReversal
      <4> QED
        BY <3>1, <4>1, <4>2
    <3>2. CASE ~reversed
      <4>1. b + i \in b .. l2 - 1
        OBVIOUS
      <4> QED
        BY <2>2, <3>2, <4>1 DEF IsReversal
    <3> QED
      BY <3>1, <3>2
  <2> QED
    BY <2>1, <2>2, <2>3 DEF Stretch
<1>3. IsPart(g, o, u, b, l2, q)
  BY <1>1, <1>2 DEF IsPart, IsBall
<1>4. ASSUME NEW x \in 0 .. l2 - 1
      PROVE  \E a \in 0 .. x : \E c \in x + 1 .. l2 : \E z : IsPart(g, o, u, a, c, z)
  <2>1. CASE x < b
    <3>1. x \in 0 .. b - 1
      BY <2>1
    <3>2. PICK a \in 0 .. x : \E c \in x + 1 .. b : \E z : IsPart(g, o, u, a, c, z)
      BY <1>1, <3>1 DEF Parts
    <3>3. PICK c \in x + 1 .. b : \E z : IsPart(g, o, u, a, c, z)
      BY <3>2
    <3>4. c \in x + 1 .. l2
      BY <3>1
    <3> QED
      BY <3>3, <3>4
  <2>2. CASE ~(x < b)
    <3>1. b \in 0 .. x /\ l2 \in x + 1 .. l2
      BY <2>2
    <3> QED
      BY <1>3, <3>1
  <2> QED
    BY <2>1, <2>2
<1> QED
  BY <1>4 DEF Parts

\* If the last level has more than one node, the component ends with more than one, and
\* otherwise with one.
LEMMA BallEndsWide ==
  ASSUME NEW g, IsPattern(g), NEW o, NEW p, NEW b \in Nat, NEW l1 \in Nat, NEW l2 \in Nat, b < l1, l1 < l2,
         Distinct(p, l2), NEW q, NEW d \in 0 .. NumNodes - 1, IsBall(g, o, p, b, l1, l2, q, d),
         Balls(g, q[0])[d] = ComponentOf(g, q[0])
  PROVE  IsWide(g, q[0])
<1> DEFINE r == q[0]
           n == l2 - b
<1>1. /\ r \in Node
      /\ \A i \in 0 .. n - 1 : q[i] = p[b + i] /\ b + i \in 0 .. l2 - 1 /\ q[i] \in ComponentOf(g, r)
      /\ \A w \in ComponentOf(g, r) : \E i \in 0 .. n - 1 : q[i] = w
  <2>1. HasBall(g, p, b, l2, q, d)
    BY BallHas
  <2> QED
    BY <2>1 DEF HasBall
<1>2. \A i \in 0 .. n - 1 : Steps(g, r, q[i]) = d <=> i + b >= l1 - 1
  BY DEF IsBall
<1>3. /\ l1 - 1 - b \in 0 .. n - 1 /\ (l1 - 1 - b) + b >= l1 - 1 /\ b + (l1 - 1 - b) = l1 - 1
      /\ l1 - b \in 0 .. n - 1 /\ (l1 - b) + b >= l1 - 1 /\ b + (l1 - b) = l1
      /\ l1 - 1 \in 0 .. l2 - 1 /\ l1 \in 0 .. l2 - 1 /\ l1 - 1 # l1
  OBVIOUS
<1> DEFINE e == q[l1 - 1 - b]
           f == q[l1 - b]
<1>4. /\ e \in ComponentOf(g, r) /\ Steps(g, r, e) = d /\ e = p[l1 - 1]
      /\ f \in ComponentOf(g, r) /\ Steps(g, r, f) = d /\ f = p[l1]
  BY <1>1, <1>2, <1>3
<1>5. e # f
  BY <1>3, <1>4 DEF Distinct
<1> HIDE DEF e, f, n
<1>6. d \in 0 .. NumNodes
  BY NumNodesAssumption
<1>7. Ends(g, r) = {w \in ComponentOf(g, r) : Steps(g, r, w) = d}
  BY <1>1, <1>4, <1>6, EndIs
<1>8. Cardinality(Ends(g, r)) > 1
  <2>1. {e, f} \subseteq Ends(g, r) /\ Ends(g, r) \subseteq Node
    BY <1>1, <1>4, <1>7, ComponentIs
  <2>2. IsFiniteSet(Ends(g, r)) /\ Cardinality(Ends(g, r)) \in Nat
    BY <2>1, NodesAreFinite, FS_Subset, FS_CardinalityType
  <2>3. Cardinality({e, f}) = 2
    <3>1. IsFiniteSet({e}) /\ Cardinality({e}) = 1
      BY FS_Singleton
    <3>2. f \notin {e} /\ {e, f} = {e} \cup {f}
      BY <1>5
    <3>3. Cardinality({e} \cup {f}) = Cardinality({e}) + 1
      BY <3>1, <3>2, FS_AddElement
    <3> QED
      BY <3>1, <3>2, <3>3
  <2>4. Cardinality({e, f}) <= Cardinality(Ends(g, r))
    BY <2>1, <2>2, FS_Subset
  <2> QED
    BY <2>2, <2>3, <2>4
<1> QED
  BY <1>8 DEF IsWide

LEMMA BallEndsNarrow ==
  ASSUME NEW g, IsPattern(g), NEW o, NEW p, NEW b \in Nat, NEW l2 \in Nat, b < l2,
         Distinct(p, l2), NEW q, NEW d \in 0 .. NumNodes - 1, IsBall(g, o, p, b, l2, l2, q, d),
         Balls(g, q[0])[d] = ComponentOf(g, q[0])
  PROVE  ~IsWide(g, q[0])
<1> DEFINE r == q[0]
           n == l2 - b
           e == q[n - 1]
<1>1. /\ r \in Node
      /\ \A i \in 0 .. n - 1 : q[i] \in ComponentOf(g, r)
      /\ \A w \in ComponentOf(g, r) : \E i \in 0 .. n - 1 : q[i] = w
  <2>1. HasBall(g, p, b, l2, q, d)
    BY BallHas
  <2> QED
    BY <2>1 DEF HasBall
<1>2. \A i \in 0 .. n - 1 : Steps(g, r, q[i]) = d <=> i + b >= l2 - 1
  BY DEF IsBall
<1>3. n - 1 \in 0 .. n - 1 /\ \A i \in 0 .. n - 1 : i + b >= l2 - 1 <=> i = n - 1
  OBVIOUS
<1>4. e \in ComponentOf(g, r) /\ \A w \in ComponentOf(g, r) : Steps(g, r, w) = d <=> w = e
  <2>1. e \in ComponentOf(g, r) /\ Steps(g, r, e) = d
    BY <1>1, <1>2, <1>3
  <2>2. ASSUME NEW w \in ComponentOf(g, r), Steps(g, r, w) = d PROVE w = e
    BY <1>1, <1>2, <1>3, <2>2
  <2> QED
    BY <2>1, <2>2
<1> HIDE DEF e, n
<1>5. d \in 0 .. NumNodes
  BY NumNodesAssumption
<1>6. Ends(g, r) = {e}
  BY <1>1, <1>4, <1>5, EndIs
<1> QED
  BY <1>6, FS_Singleton DEF IsWide

\* Of two nodes only one is the better root.
LEMMA OneFits ==
  ASSUME NEW g, IsPattern(g), NEW o \in Options, NEW r \in Node, NEW s \in Node,
         Fits(g, o, r, s), Fits(g, o, s, r)
  PROVE  r = s
<1>1. o.root \in {"default", "minimum", "maximum"}
  BY DEF Options
<1>2. Len(g[r]) \in Nat /\ Len(g[s]) \in Nat /\ r \in Nat /\ s \in Nat
  BY NumNodesAssumption DEF IsPattern, Node
<1>3. CASE o.root = "default"
  BY <1>2, <1>3 DEF Fits
<1>4. CASE o.root = "minimum"
  BY <1>2, <1>4 DEF Fits
<1>5. CASE o.root = "maximum"
  BY <1>2, <1>5 DEF Fits
<1> QED
  BY <1>1, <1>3, <1>4, <1>5

\* The component of a node that is in a part is placed, and its best node was a better root
\* than all that are not.
LEMMA PartIsWhole ==
  ASSUME NEW g, IsPattern(g), NEW o \in Options, NEW p, NEW b, Distinct(p, b), Parts(g, o, p, b),
         NEW s \in Placed(p, b)
  PROVE  /\ s \in Node /\ ComponentOf(g, s) \subseteq Placed(p, b)
         /\ IsBest(g, o, s) => \A n \in Node \ Placed(p, b) : Fits(g, o, s, n)
<1>1. PICK x \in 0 .. b - 1 : s = p[x]
  BY DEF Placed
<1>2. PICK a \in 0 .. x : \E c \in x + 1 .. b : \E q : IsPart(g, o, p, a, c, q)
  BY <1>1 DEF Parts
<1>3. PICK c \in x + 1 .. b : \E q : IsPart(g, o, p, a, c, q)
  BY <1>2
<1>4. PICK q : IsPart(g, o, p, a, c, q)
  BY <1>3
<1>5. b \in Nat /\ a \in Nat /\ c \in Nat /\ c \in a + 1 .. b /\ x \in a .. c - 1 /\ a <= b
  BY NumNodesAssumption DEF Distinct
<1>6. /\ q[0] \in Node /\ \A y \in a .. c - 1 : y \in 0 .. b - 1
      /\ ComponentOf(g, q[0]) = {p[y] : y \in a .. c - 1}
  BY <1>4, <1>5, PartHas
<1>7. s \in ComponentOf(g, q[0]) /\ ComponentOf(g, q[0]) \subseteq Placed(p, b)
  BY <1>1, <1>5, <1>6 DEF Placed
<1>8. s \in Node /\ q[0] \in ComponentOf(g, s) /\ ComponentOf(g, s) = ComponentOf(g, q[0])
  BY <1>6, <1>7, SameComponent
<1>9. s \notin Placed(p, a)
  <2> SUFFICES ASSUME NEW y \in 0 .. a - 1, p[y] = p[x] PROVE FALSE
    BY <1>1 DEF Placed
  <2>1. y \in 0 .. b - 1 /\ y # x
    BY <1>5
  <2> QED
    BY <2>1 DEF Distinct
<1>10. \A n \in Node \ Placed(p, a) : Fits(g, o, q[0], n)
  BY <1>4 DEF IsPart
<1>11. Placed(p, a) \subseteq Placed(p, b)
  <2>1. \A y \in 0 .. a - 1 : y \in 0 .. b - 1
    BY <1>5
  <2> QED
    BY <2>1 DEF Placed
<1>12. ASSUME IsBest(g, o, s) PROVE s = q[0]
  <2>1. Fits(g, o, s, q[0]) /\ Fits(g, o, q[0], s)
    BY <1>8, <1>9, <1>10, <1>12 DEF IsBest
  <2> QED
    BY <1>6, <1>8, <2>1, OneFits
<1> QED
  BY <1>7, <1>8, <1>10, <1>11, <1>12

\* A component that is added to narrow ones is the last of them.
LEMMA EndsStayNarrow ==
  ASSUME NEW g, IsPattern(g), NEW o \in Options, NEW p, NEW b \in Nat, NEW l1 \in Nat, NEW l2 \in Nat,
         b < l1, l1 <= l2, Distinct(p, l2), Parts(g, o, p, b), AllNarrow(g, o, Placed(p, b)),
         NEW q, NEW d \in 0 .. NumNodes - 1, IsBall(g, o, p, b, l1, l2, q, d),
         Balls(g, q[0])[d] = ComponentOf(g, q[0])
  PROVE  /\ IF l1 < l2 THEN LastWide(g, o, Placed(p, l2)) ELSE AllNarrow(g, o, Placed(p, l2))
         /\ ~WideBefore(g, o, Placed(p, l2))
<1> DEFINE r == q[0]
           A == Placed(p, b)
           S == Placed(p, l2)
<1>1. /\ r \in Node
      /\ \A i \in 0 .. l2 - b - 1 : q[i] = p[b + i] /\ b + i \in 0 .. l2 - 1 /\ q[i] \in ComponentOf(g, r)
      /\ \A w \in ComponentOf(g, r) : \E i \in 0 .. l2 - b - 1 : q[i] = w
  <2>1. HasBall(g, p, b, l2, q, d)
    BY BallHas
  <2> QED
    BY <2>1 DEF HasBall
<1>2. S = A \cup ComponentOf(g, r)
  <2>1. \A x \in 0 .. l2 - 1 : x \in 0 .. b - 1 \/ (x - b \in 0 .. l2 - b - 1 /\ b + (x - b) = x)
    OBVIOUS
  <2>2. \A x \in 0 .. b - 1 : x \in 0 .. l2 - 1
    OBVIOUS
  <2>3. ASSUME NEW x \in 0 .. l2 - 1 PROVE p[x] \in A \cup ComponentOf(g, r)
    <3>1. CASE x \in 0 .. b - 1
      BY <3>1 DEF Placed
    <3>2. CASE x - b \in 0 .. l2 - b - 1 /\ b + (x - b) = x
      BY <1>1, <3>2
    <3> QED
      BY <2>1, <3>1, <3>2
  <2>4. A \subseteq S
    BY <2>2 DEF Placed
  <2>5. ASSUME NEW w \in ComponentOf(g, r) PROVE w \in S
    <3>1. PICK i \in 0 .. l2 - b - 1 : q[i] = w
      BY <1>1
    <3>2. w = p[b + i] /\ b + i \in 0 .. l2 - 1
      BY <1>1, <3>1
    <3> QED
      BY <3>2 DEF Placed
  <2>6. \A w \in S : w \in A \cup ComponentOf(g, r)
    BY <2>3 DEF Placed
  <2> HIDE DEF A, S
  <2> QED
    BY <2>4, <2>5, <2>6
<1>3. Distinct(p, b)
  <2>1. b \in 0 .. NumNodes /\ \A x \in 0 .. b - 1 : x \in 0 .. l2 - 1
    BY NumNodesAssumption DEF Distinct
  <2> QED
    BY <2>1 DEF Distinct
<1>4. \A w \in ComponentOf(g, r) : w \notin A
  <2> SUFFICES ASSUME NEW i \in 0 .. l2 - b - 1, NEW x \in 0 .. b - 1, q[i] = p[x] PROVE FALSE
    BY <1>1 DEF Placed
  <2>1. b + i \in 0 .. l2 - 1 /\ x \in 0 .. l2 - 1 /\ x # b + i /\ p[b + i] = p[x]
    BY <1>1
  <2> QED
    BY <2>1 DEF Distinct
<1>5. /\ \A n \in Node \ A : Fits(g, o, r, n)
      /\ ComponentOf(g, r) \in SUBSET Node /\ r \in ComponentOf(g, r)
  BY <1>1, ComponentIs DEF IsBall
<1>6. IsBest(g, o, r) /\ r \in S /\ r \notin A /\ \A n \in Node \ S : Fits(g, o, r, n)
  BY <1>2, <1>4, <1>5 DEF IsBest
<1>7. ASSUME NEW s \in S, IsBest(g, o, s) PROVE s \in A \/ s = r
  <2> SUFFICES ASSUME s \in ComponentOf(g, r) PROVE s = r
    BY <1>2
  <2>1. s \in Node /\ r \in ComponentOf(g, s)
    BY <1>1, SameComponent
  <2>2. Fits(g, o, s, r) /\ Fits(g, o, r, s)
    BY <1>6, <1>7, <2>1 DEF IsBest
  <2> QED
    BY <1>1, <2>1, <2>2, OneFits
<1>8. \A s \in A : IsBest(g, o, s) => s \in Node /\ ~IsWide(g, s) /\ Fits(g, o, s, r)
  BY <1>1, <1>3, <1>6, PartIsWhole DEF AllNarrow
<1>9. ~WideBefore(g, o, S)
  <2> SUFFICES ASSUME NEW m \in S, NEW s \in S, IsBest(g, o, m), IsBest(g, o, s),
                      m # s, Fits(g, o, m, s), IsWide(g, m)
               PROVE  FALSE
    BY DEF WideBefore
  <2>1. m = r /\ s \in A
    BY <1>7, <1>8
  <2> QED
    BY <1>1, <1>8, <2>1, OneFits
<1>10. CASE l1 < l2
  <2>1. IsWide(g, r)
    BY <1>10, BallEndsWide
  <2> QED
    BY <1>6, <1>9, <1>10, <2>1 DEF LastWide
<1>11. CASE ~(l1 < l2)
  <2>1. l1 = l2 /\ b < l2
    BY <1>11
  <2>2. ~IsWide(g, r)
    BY <2>1, BallEndsNarrow
  <2>3. AllNarrow(g, o, S)
    BY <1>7, <1>8, <2>2 DEF AllNarrow
  <2> QED
    BY <1>9, <1>11, <2>3
<1> QED
  BY <1>10, <1>11

----------------------------------------------------------------------------
(* The steps of compute keep the components before the root whole, and the   *)
(* ball around it a ball; or a node is lost.                                *)

LEMMA GraphIsPattern ==
  ASSUME NEW g, IsMapping(g), NEW h, GraphIs(h, Identity(NumNodes), g)
  PROVE  IsPattern(h)
<1>1. \A i \in Node : Identity(NumNodes)[i] = i
  BY IdentityPermutes
<1>2. \A i, j \in Node : j \in ToSet(h[i]) <=> CoupledIn(g, i, j)
  BY <1>1 DEF GraphIs
<1>3. \A i, j \in Node : CoupledIn(g, i, j) <=> CoupledIn(g, j, i)
  BY DEF CoupledIn
<1>4. \A i \in Node : CoupledIn(g, i, i)
  BY DEF IsMapping, IsDofGraph, CoupledIn
<1>5. ASSUME NEW i \in Node PROVE ToSet(h[i]) \subseteq Node /\ Len(h[i]) \in 1 .. NumNodes
  <2>1. Ascending(h[i]) /\ \A j \in ToSet(h[i]) : j \in Node
    BY DEF GraphIs
  <2>2. PICK n : n = Len(h[i])
    OBVIOUS
  <2>3. n \in Nat /\ DOMAIN h[i] = 1 .. n /\ h[i] = [x \in 1 .. n |-> h[i][x]]
    BY <2>1, <2>2, SeqDomain DEF Ascending
  <2>4. \A x \in 1 .. n : h[i][x] \in Node
    BY <2>1, <2>3 DEF ToSet
  <2>5. \A x, y \in 1 .. n : x < y => h[i][x] < h[i][y]
    BY <2>1, <2>3 DEF Ascending
  <2>6. \A x, y \in 1 .. n : h[i][x] = h[i][y] => x = y
    BY <2>4, <2>5 DEF Node
  <2>7. h[i] \in [1 .. n -> Node]
    BY <2>3, <2>4
  <2>8. h[i] \in Injection(1 .. n, Node)
    BY <2>3, <2>6, <2>7 DEF Injection, IsInjective
  <2>9. Cardinality(1 .. n) <= NumNodes
    BY <2>8, NodesAreFinite, FS_Injection
  <2>10. Cardinality(1 .. n) = IF 1 > n THEN 0 ELSE n - 1 + 1
    BY <2>3, FS_Interval
  <2>11. n # 0
    BY <1>2, <1>4, <2>3 DEF ToSet
  <2>12. n \in 1 .. NumNodes
    BY <2>3, <2>9, <2>10, <2>11, NumNodesAssumption
  <2> QED
    BY <2>1, <2>2, <2>12
<1> QED
  BY <1>2, <1>3, <1>4, <1>5 DEF IsPattern

LEMMA PlacesDiffer ==
  ASSUME CMInv
  PROVE  Distinct(permutation, lvl2) /\ Placed(permutation, lvl2) \subseteq node_mask
BY NumNodesAssumption DEF CMInv, Filled, Distinct, Placed

\* The best of some nodes, and of those the first.
FirstBest(U, key, r) == r \in U /\ \A j \in U : key[r] < key[j] \/ (key[r] = key[j] /\ r <= j)

LEMMA FirstBestIs ==
  ASSUME NEW U \in SUBSET Node, U # {}, NEW key, \A j \in U : key[j] \in Nat
  PROVE  \E r \in U : FirstBest(U, key, r)
<1> DEFINE K == {key[j] : j \in U}
<1>1. PICK k \in K : \A l \in K : k <= l
  <2>1. K \in SUBSET Nat /\ K # {}
    OBVIOUS
  <2> HIDE DEF K
  <2> QED
    BY <2>1, LeastNumber
<1> DEFINE V == {j \in U : key[j] = k}
<1>2. PICK r \in V : \A j \in V : r <= j
  <2>1. V # {}
    BY <1>1
  <2>2. V \in SUBSET Nat
    <3>1. V \subseteq Node
      OBVIOUS
    <3> HIDE DEF V
    <3> QED
      BY <3>1, NumNodesAssumption DEF Node
  <2> HIDE DEF V
  <2> QED
    BY <2>1, <2>2, LeastNumber
<1>3. ASSUME NEW j \in U PROVE key[r] < key[j] \/ (key[r] = key[j] /\ r <= j)
  <2>1. key[r] = k /\ k <= key[j] /\ k \in Nat /\ key[j] \in Nat
    BY <1>1, <1>2
  <2>2. key[j] = k => r <= j
    BY <1>2
  <2> QED
    BY <2>1, <2>2
<1> QED
  BY <1>2, <1>3 DEF FirstBest

\* A root fits all nodes that are not marked, and there is one if any is left.
LEMMA RootFits ==
  ASSUME CMInv, NEW r, IsRoot(r), NEW n \in Node \ node_mask
  PROVE  r \in Node /\ r \notin node_mask /\ Fits(graph, options, r, n)
<1>1. r \in Node /\ r \notin node_mask
  BY DEF IsRoot
<1>2. options.root \in {"default", "minimum", "maximum"}
  BY DEF CMInv, Options
<1>4. CASE options.root = "default"
  BY <1>1, <1>4 DEF IsRoot, Fits
<1>5. CASE options.root = "minimum"
  <2>1. Degree(r) < Degree(n) \/ (Degree(r) = Degree(n) /\ r <= n)
    BY <1>5 DEF IsRoot
  <2> QED
    BY <1>1, <1>5, <2>1 DEF Fits, Degree
<1>6. CASE options.root = "maximum"
  <2>1. Degree(r) > Degree(n) \/ (Degree(r) = Degree(n) /\ r <= n)
    BY <1>6 DEF IsRoot
  <2> QED
    BY <1>1, <1>6, <2>1 DEF Fits, Degree
<1> QED
  BY <1>2, <1>4, <1>5, <1>6

LEMMA RootIsFound ==
  ASSUME CMInv, IsPattern(graph), NEW n \in Node \ node_mask
  PROVE  \E r \in Node : IsRoot(r)
<1> DEFINE U == Node \ node_mask
<1>1. U \in SUBSET Node /\ U # {}
  OBVIOUS
<1>2. \A j \in U : Degree(j) \in 1 .. NumNodes
  BY DEF IsPattern, Degree
<1>3. options.root \in {"default", "minimum", "maximum"}
  BY DEF CMInv, Options
<1>4. CASE options.root = "default"
  <2> DEFINE key == [j \in Node |-> 0]
  <2>1. \A j \in U : key[j] = 0
    OBVIOUS
  <2> HIDE DEF key
  <2>2. PICK r \in U : FirstBest(U, key, r)
    BY <1>1, <2>1, FirstBestIs
  <2>3. r \in Node /\ r \in U /\ \A j \in U : r <= j
    BY <2>1, <2>2 DEF FirstBest
  <2>4. IsRoot(r)
    BY <1>4, <2>3 DEF IsRoot
  <2> QED
    BY <2>3, <2>4
<1>5. CASE options.root = "minimum"
  <2> DEFINE key == [j \in Node |-> Degree(j)]
  <2>1. \A j \in U : key[j] = Degree(j) /\ key[j] \in Nat
    BY <1>2
  <2> HIDE DEF key
  <2>2. PICK r \in U : FirstBest(U, key, r)
    BY <1>1, <2>1, FirstBestIs
  <2>3. r \in Node /\ r \in U /\ \A j \in U : Degree(r) < Degree(j) \/ (Degree(r) = Degree(j) /\ r <= j)
    BY <2>1, <2>2 DEF FirstBest
  <2>4. Degree(r) < NumNodes + 1
    BY <1>2, <2>3, NumNodesAssumption
  <2>5. IsRoot(r)
    BY <1>5, <2>3, <2>4 DEF IsRoot
  <2> QED
    BY <2>3, <2>5
<1>6. CASE options.root = "maximum"
  <2> DEFINE key == [j \in Node |-> NumNodes - Degree(j)]
  <2>1. \A j \in U : key[j] = NumNodes - Degree(j) /\ key[j] \in Nat
    BY <1>2, NumNodesAssumption
  <2> HIDE DEF key
  <2>2. PICK r \in U : FirstBest(U, key, r)
    BY <1>1, <2>1, FirstBestIs
  <2>3. r \in Node /\ r \in U /\ \A j \in U : key[r] < key[j] \/ (key[r] = key[j] /\ r <= j)
    BY <2>2 DEF FirstBest
  <2>4. \A j \in U : Degree(r) > Degree(j) \/ (Degree(r) = Degree(j) /\ r <= j)
    BY <1>2, <2>1, <2>3, NumNodesAssumption
  <2>5. Degree(r) > 0
    BY <1>2, <2>3
  <2>6. IsRoot(r)
    BY <1>6, <2>3, <2>4, <2>5 DEF IsRoot
  <2> QED
    BY <2>3, <2>6
<1> QED
  BY <1>3, <1>4, <1>5, <1>6

\* Fewer places than nodes do not have all of them.
LEMMA SomeAreLeft ==
  ASSUME NEW p, NEW b, Distinct(p, b), b < NumNodes
  PROVE  \E n \in Node : n \notin Placed(p, b)
<1> SUFFICES ASSUME Node \subseteq Placed(p, b) PROVE FALSE
  OBVIOUS
<1> DEFINE f == [x \in 0 .. b - 1 |-> p[x]]
<1>1. b \in Nat /\ 0 \in Int /\ b - 1 \in Int
  BY NumNodesAssumption DEF Distinct
<1>2. f \in Surjection(0 .. b - 1, Node)
  BY DEF Surjection, Distinct, Placed
<1>3. IsFiniteSet(0 .. b - 1) /\ Cardinality(0 .. b - 1) = IF 0 > b - 1 THEN 0 ELSE (b - 1) - 0 + 1
  BY <1>1, FS_Interval
<1>4. Cardinality(Node) <= Cardinality(0 .. b - 1)
  BY <1>2, <1>3, FS_Surjection
<1> QED
  BY <1>1, <1>3, <1>4, NodesAreFinite, NumNodesAssumption

\* The ball of a root that was placed at b.
LEMMA FirstBall ==
  ASSUME NEW g, IsPattern(g), NEW o, NEW p, NEW b \in Nat, p[b] \in Node,
         \A n \in Node \ Placed(p, b) : Fits(g, o, p[b], n)
  PROVE  Grows(g, o, p, b, b + 1, b + 1)
<1> DEFINE q == Stretch(p, b, b + 1, FALSE)
           r == p[b]
<1>1. (b + 1) - b - 1 = 0 /\ 0 < (b + 1) - b /\ 0 .. (b + 1) - b - 1 = {0} /\ (b + 1) - 1 = b /\ b + 0 = b
  OBVIOUS
<1>2. q = [i \in {0} |-> p[b + i]]
  BY <1>1 DEF Stretch
<1>3. q[0] = r
  BY <1>1, <1>2
<1>4. Balls(g, r)[0] = {r} /\ Steps(g, r, r) = 0
  BY BallsAre, RootAlone DEF IsBalls
<1>5. 0 \in 0 .. NumNodes - 1
  BY NumNodesAssumption
<1>6. Ordered(g, o, q, (b + 1) - b)
  <2> SUFFICES ASSUME NEW i \in 0 .. (b + 1) - b - 1, NEW j \in 0 .. (b + 1) - b - 1
               PROVE  ~(Steps(g, q[0], q[i]) < Steps(g, q[0], q[j])) /\ ~(i < j)
    BY DEF Ordered
  <2>1. i = 0 /\ j = 0
    BY <1>1
  <2> HIDE DEF q
  <2> QED
    BY <1>3, <1>4, <2>1
<1>7. \A i \in {0} : i + b >= b
  OBVIOUS
<1> HIDE DEF r
<1>8. \A n \in Node \ Placed(p, b) : Fits(g, o, q[0], n)
  BY <1>3 DEF r
<1>9. q = Stretch(p, b, b + 1, FALSE)
  OBVIOUS
<1> HIDE DEF q
<1>10. {q[i] : i \in {0}} = {r}
  BY <1>3
<1>11. \A i \in {0} : Steps(g, q[0], q[i]) = 0 <=> i + b >= (b + 1) - 1
  BY <1>1, <1>3, <1>4, <1>7
<1>12. IsBall(g, o, p, b, b + 1, b + 1, q, 0)
  BY <1>1, <1>3, <1>4, <1>6, <1>8, <1>9, <1>10, <1>11 DEF IsBall
<1> QED
  BY <1>5, <1>12 DEF Grows

\* What is lost stays lost, and if a root is placed over a node, this is lost.
LEMMA RootLevels ==
  ASSUME CMInv, IsPattern(graph), phase = "numbering", phase' = "numbering", LevelsInv, NextRoot
  PROVE  LevelsInv'
<1>1. PICK r \in Node : /\ IsRoot(r) /\ permutation' = [permutation EXCEPT ![lvl1] = r]
                        /\ node_mask' = node_mask \cup {r}
  BY DEF NextRoot
<1>2. /\ lvl1 \in Node /\ lvl1 \in Nat /\ lvl1 <= lvl2 /\ lvl2 < NumNodes /\ lvl2 \in Nat
      /\ lvl1' = lvl1 + 1 /\ lvl2' = lvl1 + 1 /\ lvl_root' = lvl1 + 1
      /\ pc = "roots" /\ pc' = "levels" /\ UNCHANGED <<graph, options>>
  BY NumNodesAssumption DEF CMInv, NextRoot, Node
<1>3. r \notin node_mask /\ \A n \in Node \ node_mask : Fits(graph, options, r, n)
  BY <1>1, RootFits DEF IsRoot
<1>4. permutation'[lvl1] = r /\ \A x \in 0 .. lvl1 - 1 : permutation'[x] = permutation[x] /\ x \in 0 .. lvl2 - 1
  BY <1>1, <1>2 DEF CMInv
<1>5. \A x \in 0 .. lvl2' - 1 : x = lvl1 \/ x \in 0 .. lvl1 - 1
  BY <1>2
<1>6. ASSUME NEW n \in node_mask, \A x \in 0 .. lvl1 - 1 : permutation[x] # n PROVE Lost'
  <2>1. n \in node_mask' /\ \A x \in 0 .. lvl2' - 1 : permutation'[x] # n
    BY <1>1, <1>3, <1>4, <1>5, <1>6
  <2> QED
    BY <2>1 DEF Lost
<1>7. CASE Lost /\ WideBefore(graph, options, Node)
  <2>1. PICK n \in node_mask : \A x \in 0 .. lvl2 - 1 : permutation[x] # n
    BY <1>7 DEF Lost
  <2>2. Lost'
    BY <1>4, <1>6, <2>1
  <2> QED
    BY <1>2, <1>7, <2>2 DEF LevelsInv
<1>8. CASE Levelled /\ lvl1 < lvl2
  <2>1. /\ LastWide(graph, options, node_mask) /\ node_mask = Placed(permutation, lvl2)
        /\ Parts(graph, options, permutation, lvl2)
    BY <1>2, <1>8 DEF Levelled
  <2>2. Distinct(permutation, lvl2) /\ options \in Options
    BY PlacesDiffer DEF CMInv
  <2>3. PICK m \in node_mask : /\ IsBest(graph, options, m) /\ IsWide(graph, m)
                               /\ \A n \in Node \ node_mask : Fits(graph, options, m, n)
    BY <2>1 DEF LastWide
  <2>4. \A n \in node_mask : n \in Node /\ ComponentOf(graph, n) \subseteq node_mask
    BY <2>1, <2>2, PartIsWhole
  <2>5. IsBest(graph, options, r)
    <3> SUFFICES ASSUME NEW n \in ComponentOf(graph, r) PROVE n \notin node_mask /\ n \in Node
      BY <1>3 DEF IsBest
    <3>1. n \in Node /\ r \in ComponentOf(graph, n)
      BY SameComponent
    <3> QED
      BY <1>3, <2>4, <3>1
  <2>6. WideBefore(graph, options, Node)
    BY <1>3, <2>3, <2>4, <2>5 DEF WideBefore
  <2>7. lvl1 \in 0 .. lvl2 - 1 /\ \A x \in 0 .. lvl1 - 1 : x \in 0 .. lvl2 - 1 /\ x # lvl1
    BY <1>2, <1>8
  <2>8. permutation[lvl1] \in node_mask /\ \A x \in 0 .. lvl1 - 1 : permutation[x] # permutation[lvl1]
    BY <2>7, PlacesDiffer DEF CMInv, Filled
  <2>9. Lost'
    BY <1>6, <2>8
  <2> QED
    BY <1>2, <2>6, <2>9 DEF LevelsInv
<1>9. CASE Levelled /\ ~(lvl1 < lvl2)
  <2>1. lvl1 = lvl2
    BY <1>2, <1>9
  <2>2. /\ node_mask = Placed(permutation, lvl1) /\ Parts(graph, options, permutation, lvl1)
        /\ AllNarrow(graph, options, Placed(permutation, lvl1))
    BY <1>2, <1>9, <2>1 DEF Levelled
  <2>3. Parts(graph, options, permutation', lvl1) /\ Placed(permutation', lvl1) = Placed(permutation, lvl1)
    BY <1>2, <1>4, <2>2, PartsStay DEF CMInv
  <2>4. Grows(graph, options, permutation', lvl1, lvl1 + 1, lvl1 + 1)
    <3>1. PICK p : p = permutation'
      OBVIOUS
    <3>2. p[lvl1] \in Node /\ \A n \in Node \ Placed(p, lvl1) : Fits(graph, options, p[lvl1], n)
      BY <1>1, <1>3, <1>4, <2>2, <2>3, <3>1
    <3>3. Grows(graph, options, p, lvl1, lvl1 + 1, lvl1 + 1)
      BY <1>2, <3>2, FirstBall
    <3> QED
      BY <3>1, <3>3
  <2>5. node_mask' = Placed(permutation', lvl2')
    <3>1. 0 .. lvl2' - 1 = (0 .. lvl1 - 1) \cup {lvl1}
      BY <1>2
    <3>2. Placed(permutation', lvl2') = Placed(permutation', lvl1) \cup {r}
      BY <1>4, <3>1 DEF Placed
    <3> QED
      BY <1>1, <2>2, <2>3, <3>2
  <2>6. lvl_root' - 1 = lvl1 /\ lvl_root' <= lvl1'
    BY <1>2
  <2>7. Levelled'
    BY <1>2, <2>2, <2>3, <2>4, <2>5, <2>6 DEF Levelled
  <2> QED
    BY <1>2, <2>7 DEF LevelsInv
<1> QED
  BY <1>7, <1>8, <1>9 DEF LevelsInv

LEMMA FailureLevels ==
  ASSUME CMInv, IsPattern(graph), phase = "numbering", phase' = "numbering", LevelsInv, NoRoot
  PROVE  LevelsInv'
<1>1. /\ pc = "roots" /\ lvl2 < NumNodes /\ pc' = "failed" /\ ~\E r \in Node : IsRoot(r)
      /\ UNCHANGED <<graph, options, permutation, node_mask, lvl1, lvl2, lvl_root>>
  BY DEF NoRoot
<1>2. CASE Levelled
  <2>1. node_mask = Placed(permutation, lvl2)
    BY <1>2 DEF Levelled
  <2>2. PICK n \in Node \ node_mask : TRUE
    BY <1>1, <2>1, PlacesDiffer, SomeAreLeft
  <2> QED
    BY <1>1, <2>2, RootIsFound
<1>3. CASE Lost /\ WideBefore(graph, options, Node)
  <2>1. Lost'
    BY <1>1, <1>3 DEF Lost
  <2> QED
    BY <1>1, <1>3, <2>1 DEF LevelsInv
<1> QED
  BY <1>2, <1>3 DEF LevelsInv

LEMMA ReturnLevels ==
  ASSUME phase = "numbering", phase' = "numbering", LevelsInv, ReturnPermutation
  PROVE  LevelsInv'
<1>1. /\ pc = "roots" /\ pc' = "done"
      /\ UNCHANGED <<graph, options, permutation, node_mask, lvl1, lvl2, lvl_root>>
  BY DEF ReturnPermutation
<1>2. Levelled => Levelled'
  BY <1>1 DEF Levelled
<1>3. Lost => Lost'
  BY <1>1 DEF Lost
<1> QED
  BY <1>1, <1>2, <1>3 DEF LevelsInv

LEMMA NextLevelLevels ==
  ASSUME CMInv, IsPattern(graph), phase = "numbering", phase' = "numbering", LevelsInv, NextLevel
  PROVE  LevelsInv'
<1> DEFINE level == SortLevel(Unprocessed)
           m == Len(level)
           b == lvl_root - 1
<1>1. /\ permutation' = [i \in Node |-> IF i + 1 - lvl2 \in DOMAIN level
                                        THEN level[i + 1 - lvl2] ELSE permutation[i]]
      /\ node_mask' = node_mask \cup ToSet(level)
      /\ lvl1' = lvl2 + 1 /\ lvl2' = lvl2 + m
      /\ pc = "levels" /\ UNCHANGED <<graph, options, lvl_root, pc>>
  BY DEF NextLevel
<1>2. /\ IsSeq(level) /\ m > 0 /\ Follows(level, Level, graph, options)
      /\ \A w : w \in ToSet(level) <=> w \notin node_mask /\ \E v \in ToSet(Level) : w \in ToSet(graph[v])
  BY <1>1, LevelIs, LevelFollows DEF NextLevel
<1>3. lvl2' <= NumNodes
  BY LevelKeeps DEF CMInv
<1> HIDE DEF level
<1>4. DOMAIN level = 1 .. m /\ m \in Nat
  BY <1>2, SeqDomain
<1> HIDE DEF m
<1>5. /\ lvl1 \in Nat /\ lvl2 \in Nat /\ lvl1 <= lvl2 /\ lvl1 > 0 /\ lvl2 + m <= NumNodes
      /\ lvl_root \in Nat /\ lvl_root > 0 /\ b \in Nat /\ b <= lvl2
  BY <1>1, <1>3 DEF CMInv
<1>6. /\ \A x \in 0 .. lvl2 - 1 : permutation'[x] = permutation[x]
      /\ \A x \in 1 .. m : permutation'[lvl2 + x - 1] = level[x]
  <2>1. ASSUME NEW x \in 0 .. lvl2 - 1 PROVE permutation'[x] = permutation[x]
    <3>1. x \in Node /\ x + 1 - lvl2 \notin DOMAIN level
      BY <1>4, <1>5, NumNodesAssumption DEF Node
    <3> QED
      BY <1>1, <3>1
  <2>2. ASSUME NEW x \in 1 .. m PROVE permutation'[lvl2 + x - 1] = level[x]
    <3>1. lvl2 + x - 1 \in Node /\ (lvl2 + x - 1) + 1 - lvl2 = x /\ x \in DOMAIN level
      BY <1>4, <1>5, NumNodesAssumption DEF Node
    <3> QED
      BY <1>1, <3>1
  <2> QED
    BY <2>1, <2>2
<1>7. \A x \in 0 .. lvl2' - 1 : x \in 0 .. lvl2 - 1 \/ (x - lvl2 + 1 \in 1 .. m /\ lvl2 + (x - lvl2 + 1) - 1 = x)
  BY <1>1, <1>4, <1>5
<1>8. \A x \in 0 .. lvl2' - 1 : \/ x \in 0 .. lvl2 - 1 /\ permutation'[x] = permutation[x]
                                \/ permutation'[x] \in ToSet(level)
  BY <1>4, <1>6, <1>7 DEF ToSet
<1>9. CASE Lost /\ WideBefore(graph, options, Node)
  <2>1. PICK n \in node_mask : \A x \in 0 .. lvl2 - 1 : permutation[x] # n
    BY <1>9 DEF Lost
  <2>2. n \in node_mask' /\ \A x \in 0 .. lvl2' - 1 : permutation'[x] # n
    BY <1>1, <1>2, <1>8, <2>1
  <2>3. Lost'
    BY <2>2 DEF Lost
  <2> QED
    BY <1>1, <1>9, <2>3 DEF LevelsInv
<1>10. CASE Levelled
  <2>1. /\ node_mask = Placed(permutation, lvl2) /\ lvl_root <= lvl1 /\ b < lvl1
        /\ Parts(graph, options, permutation, b) /\ Grows(graph, options, permutation, b, lvl1, lvl2)
        /\ AllNarrow(graph, options, Placed(permutation, b))
    BY <1>1, <1>5, <1>10 DEF Levelled
  <2>2. PICK q : \E d \in 0 .. NumNodes - 1 : IsBall(graph, options, permutation, b, lvl1, lvl2, q, d)
    BY <2>1 DEF Grows
  <2>3. PICK d \in 0 .. NumNodes - 1 : IsBall(graph, options, permutation, b, lvl1, lvl2, q, d)
    BY <2>2
  <2>4. IsLevel(Level, permutation, lvl1, lvl2)
    BY DEF Level, IsLevel
  <2>5. IsNextLevel(level, permutation, lvl2, Level, graph)
    BY <1>2, <2>1 DEF IsNextLevel
  <2>6. PICK u : u = permutation'
    OBVIOUS
  <2>7. Extends(u, permutation, lvl2, level, m)
    BY <1>6, <2>6 DEF Extends
  <2>8. Distinct(permutation, lvl2) /\ options \in Options
    BY PlacesDiffer DEF CMInv
  <2> HIDE DEF b
  <2>9. Grows(graph, options, u, b, lvl2 + 1, lvl2 + m)
    BY <1>2, <1>4, <1>5, <2>1, <2>3, <2>4, <2>5, <2>7, <2>8, BallGrows
  <2>10. Parts(graph, options, u, b) /\ Placed(u, b) = Placed(permutation, b)
    <3>1. \A x \in 0 .. b - 1 : u[x] = permutation[x]
      BY <1>5, <1>6, <2>6
    <3> QED
      BY <1>5, <2>1, <2>8, <3>1, PartsStay
  <2>11. node_mask' = Placed(permutation', lvl2')
    <3>1. ASSUME NEW w \in Placed(permutation', lvl2') PROVE w \in node_mask'
      BY <1>1, <1>8, <2>1 DEF Placed
    <3>2. ASSUME NEW w \in node_mask' PROVE w \in Placed(permutation', lvl2')
      <4>1. CASE w \in node_mask
        <5>1. PICK x \in 0 .. lvl2 - 1 : w = permutation[x]
          BY <2>1, <4>1 DEF Placed
        <5>2. x \in 0 .. lvl2' - 1
          BY <1>1, <1>4, <1>5
        <5> QED
          BY <1>6, <5>1, <5>2 DEF Placed
      <4>2. CASE w \in ToSet(level)
        <5>1. PICK x \in 1 .. m : w = level[x]
          BY <1>4, <4>2 DEF ToSet
        <5>2. lvl2 + x - 1 \in 0 .. lvl2' - 1
          BY <1>1, <1>4, <1>5
        <5> QED
          BY <1>6, <5>1, <5>2 DEF Placed
      <4> QED
        BY <1>1, <4>1, <4>2
    <3> QED
      BY <3>1, <3>2
  <2>12. lvl_root' <= lvl1' /\ lvl_root' - 1 = b
    BY <1>1, <1>5, <2>1 DEF b
  <2>13. Levelled'
    BY <1>1, <2>1, <2>6, <2>9, <2>10, <2>11, <2>12 DEF Levelled
  <2> QED
    BY <1>1, <2>13 DEF LevelsInv
<1> QED
  BY <1>9, <1>10 DEF LevelsInv

LEMMA EndLevels ==
  ASSUME CMInv, IsPattern(graph), phase = "numbering", phase' = "numbering", LevelsInv, EndComponent
  PROVE  LevelsInv'
<1> DEFINE b == lvl_root - 1
           reversed == options.reverse
           From(x) == IF reversed /\ x \in b .. lvl2 - 1 THEN lvl_root + lvl2 - 2 - x ELSE x
<1>1. /\ pc = "levels" /\ pc' = "roots" /\ UNCHANGED <<graph, options, node_mask, lvl1, lvl2, lvl_root>>
      /\ lvl2 < NumNodes => Unprocessed = <<>>
      /\ permutation' = [i \in Node |-> permutation[From(i)]]
  BY DEF EndComponent, CMInv
<1>2. /\ lvl1 \in Nat /\ lvl2 \in Nat /\ lvl1 <= lvl2 /\ lvl1 > 0 /\ lvl2 <= NumNodes
      /\ lvl_root \in Nat /\ lvl_root > 0 /\ lvl_root <= lvl2 /\ b \in Nat /\ b < lvl2
  BY <1>1 DEF CMInv
<1>3. \A x \in 0 .. lvl2 - 1 : From(x) \in 0 .. lvl2 - 1 /\ From(From(x)) = x /\ x \in Node
  BY <1>2, NumNodesAssumption DEF Node
<1>4. (\A x \in 0 .. b - 1 : From(x) = x) /\ (~reversed => \A x \in b .. lvl2 - 1 : From(x) = x)
  BY <1>2
<1>5. reversed => \A x \in b .. lvl2 - 1 : From(x) = b + lvl2 - 1 - x
  BY <1>2
<1>6. (\A x \in 0 .. b - 1 : x \in 0 .. lvl2 - 1) /\ (\A x \in b .. lvl2 - 1 : x \in 0 .. lvl2 - 1)
  BY <1>2
<1> HIDE DEF From, b
<1>7. \A x \in 0 .. lvl2 - 1 : permutation'[x] = permutation[From(x)]
  BY <1>1, <1>3
<1>8. Placed(permutation', lvl2) = Placed(permutation, lvl2)
  BY <1>3, <1>7 DEF Placed
<1>9. IsReversal(permutation', permutation, b, lvl2, reversed)
  <2>1. \A x \in 0 .. b - 1 : permutation'[x] = permutation[x]
    BY <1>4, <1>6, <1>7
  <2>2. \A x \in b .. lvl2 - 1 : permutation'[x] = permutation[IF reversed THEN b + lvl2 - 1 - x ELSE x]
    BY <1>4, <1>5, <1>6, <1>7
  <2> QED
    BY <2>1, <2>2 DEF IsReversal
<1>10. CASE Lost /\ WideBefore(graph, options, Node)
  <2>1. PICK n \in node_mask : \A x \in 0 .. lvl2 - 1 : permutation[x] # n
    BY <1>10 DEF Lost
  <2>2. n \in node_mask' /\ \A x \in 0 .. lvl2' - 1 : permutation'[x] # n
    BY <1>1, <1>3, <1>7, <2>1
  <2>3. Lost'
    BY <2>2 DEF Lost
  <2> QED
    BY <1>1, <1>10, <2>3 DEF LevelsInv
<1>11. CASE Levelled
  <2>1. /\ node_mask = Placed(permutation, lvl2) /\ lvl_root <= lvl1 /\ b < lvl1
        /\ Parts(graph, options, permutation, b) /\ Grows(graph, options, permutation, b, lvl1, lvl2)
        /\ AllNarrow(graph, options, Placed(permutation, b))
    BY <1>1, <1>2, <1>11 DEF Levelled, b
  <2>2. PICK q : \E d \in 0 .. NumNodes - 1 : IsBall(graph, options, permutation, b, lvl1, lvl2, q, d)
    BY <2>1 DEF Grows
  <2>3. PICK d \in 0 .. NumNodes - 1 : IsBall(graph, options, permutation, b, lvl1, lvl2, q, d)
    BY <2>2
  <2>4. IsLevel(Level, permutation, lvl1, lvl2)
    BY DEF Level, IsLevel
  <2> DEFINE level == SortLevel(Unprocessed)
  <2>5. lvl2 < NumNodes => IsNextLevel(level, permutation, lvl2, Level, graph) /\ ToSet(level) = {}
    <3> SUFFICES ASSUME lvl2 < NumNodes
                 PROVE  IsNextLevel(level, permutation, lvl2, Level, graph) /\ ToSet(level) = {}
      OBVIOUS
    <3>1. /\ IsSeq(level) /\ IsSeq(Unprocessed) /\ Len(level) = Len(Unprocessed)
          /\ \A w : w \in ToSet(level) <=> w \notin node_mask /\ \E v \in ToSet(Level) : w \in ToSet(graph[v])
      BY <1>1, LevelFollows
    <3> HIDE DEF level
    <3>2. IsNextLevel(level, permutation, lvl2, Level, graph)
      BY <2>1, <3>1 DEF IsNextLevel
    <3>3. Len(level) = 0
      BY <1>1, <3>1, SeqLength
    <3>4. DOMAIN level = 1 .. 0
      BY <3>1, <3>3, SeqDomain
    <3> QED
      BY <3>2, <3>4 DEF ToSet
  <2>6. Distinct(permutation, lvl2) /\ options \in Options
    BY PlacesDiffer DEF CMInv
  <2> HIDE DEF level
  <2>7. Balls(graph, q[0])[d] = ComponentOf(graph, q[0])
    BY <1>2, <2>1, <2>3, <2>4, <2>5, <2>6, BallIsComponent
  <2>8. PICK u : u = permutation'
    OBVIOUS
  <2>9. Parts(graph, options, u, lvl2)
    BY <1>2, <1>9, <2>1, <2>3, <2>6, <2>7, <2>8, BallBecomesPart
  <2>10. /\ IF lvl1 < lvl2 THEN LastWide(graph, options, Placed(permutation, lvl2))
            ELSE AllNarrow(graph, options, Placed(permutation, lvl2))
         /\ ~WideBefore(graph, options, Placed(permutation, lvl2))
    BY <1>2, <2>1, <2>3, <2>6, <2>7, EndsStayNarrow
  <2>11. Levelled'
    BY <1>1, <1>8, <2>1, <2>8, <2>9, <2>10 DEF Levelled
  <2> QED
    BY <1>1, <2>11 DEF LevelsInv
<1> QED
  BY <1>10, <1>11 DEF LevelsInv

LEMMA NumberLevels ==
  ASSUME SysInv, LevelsInv, Number
  PROVE  LevelsInv'
<1>1. phase = "numbering" /\ phase' = "numbering" /\ CMStep /\ CMInv
  BY DEF Number, systemVars, SysInv
<1>2. IsPattern(graph)
  BY <1>1, GraphIsPattern DEF SysInv
<1> QED
  BY <1>1, <1>2, RootLevels, FailureLevels, NextLevelLevels, EndLevels, ReturnLevels DEF CMStep

LEMMA LevelsInit == ASSUME Init PROVE LevelsInv
BY DEF Init, CMInit, LevelsInv

LEMMA RenumberLevels ==
  ASSUME SysInv, LevelsInv, Renumber
  PROVE  LevelsInv'
<1>1. PICK o \in Options : Compute(GraphOf(matrix), o)
  BY DEF Renumber
<1>2. /\ lvl1' = 0 /\ lvl2' = 0 /\ node_mask' = {} /\ pc' = "roots" /\ phase' = "numbering"
  BY <1>1 DEF Compute, LevelsInv, Renumber
<1>3. 0 .. lvl2' - 1 = {}
  BY <1>2
<1>4. Placed(permutation', lvl2') = {} /\ Parts(graph', options', permutation', lvl2')
  BY <1>3 DEF Placed, Parts
<1>5. AllNarrow(graph', options', {}) /\ ~WideBefore(graph', options', {})
  BY DEF AllNarrow, WideBefore
<1>6. Levelled'
  BY <1>2, <1>4, <1>5 DEF Levelled
<1> QED
  BY <1>2, <1>6 DEF LevelsInv

LEMMA LevelsInvIsInvariant == Spec => [](SysInv /\ LevelsInv)
<1>1. SysInv /\ LevelsInv /\ [Next]_vars => LevelsInv'
  <2> SUFFICES ASSUME SysInv, LevelsInv, [Next]_vars PROVE LevelsInv'
    OBVIOUS
  <2>1. CASE UNCHANGED vars
    <3>1. UNCHANGED <<graph, options, permutation, node_mask, lvl1, lvl2, lvl_root, pc, phase>>
      BY <2>1 DEF vars, cmVars, systemVars
    <3>2. (Levelled => Levelled') /\ (Lost => Lost')
      BY <3>1 DEF Levelled, Lost
    <3> QED
      BY <3>1, <3>2 DEF LevelsInv
  <2>2. CASE Assemble \/ PermuteSystem \/ ColourInOrder \/ ColourMatrix \/ Colour \/ PermuteBack
    <3>1. UNCHANGED <<graph, options, permutation, node_mask, lvl1, lvl2, lvl_root, pc>>
      BY <2>2 DEF Assemble, PermuteSystem, ColourInOrder, ColourMatrix, Colour, PermuteBack, cmVars
    <3>2. CASE phase' = phase
      <4>1. (Levelled => Levelled') /\ (Lost => Lost')
        BY <3>1 DEF Levelled, Lost
      <4> QED
        BY <3>1, <3>2, <4>1 DEF LevelsInv
    <3>3. CASE phase' # phase
      <4>1. phase' # "numbering" /\ pc # "failed"
        BY <2>2, <3>3 DEF Assemble, PermuteSystem, ColourInOrder, ColourMatrix, Colour, PermuteBack,
                          systemVars, LevelsInv
      <4> QED
        BY <3>1, <4>1 DEF LevelsInv
    <3> QED
      BY <3>2, <3>3
  <2> QED
    BY <2>1, <2>2, RenumberLevels, NumberLevels DEF Next
<1>2. Init => LevelsInv
  BY LevelsInit
<1> QED
  BY <1>1, <1>2, SysInvIsInvariant, PTL DEF Spec

----------------------------------------------------------------------------
(* The order of a numbering that is complete.                              *)

\* Precedes, and what is said of the component of a node n: it is the list q of k nodes, at[x]
\* is the place of node x in it, and no node behind it would have been a better root.
Earlier(g, o, w, m, n) == IF o.reverse /\ n \in ComponentOf(g, m) THEN w[m] > w[n] ELSE w[m] < w[n]

InPart(g, o, w, n, q, k, at) ==
  /\ k \in Nat /\ q[0] \in ComponentOf(g, n) /\ at[q[0]] = 0 /\ Ordered(g, o, q, k)
  /\ \A x \in ComponentOf(g, n) : at[x] \in 0 .. k - 1 /\ q[at[x]] = x
  /\ \A i \in 0 .. k - 1 : q[i] \in ComponentOf(g, n) /\ at[q[i]] = i
  /\ \A x, y \in ComponentOf(g, n) : Earlier(g, o, w, x, y) <=> at[x] < at[y]
IsBehind(g, o, w, n, q) ==
  /\ \A x \in Node : x \in ComponentOf(g, n) \/ Earlier(g, o, w, n, x) => Fits(g, o, q[0], x)
  /\ \A x \in Node \ ComponentOf(g, n) : Earlier(g, o, w, n, x) =>
       \A y \in ComponentOf(g, n) : Earlier(g, o, w, y, x)

LEMMA PartOf ==
  ASSUME NEW g, IsPattern(g), NEW o \in Options, NEW p, IsPermutation(p), Parts(g, o, p, NumNodes),
         NEW w, Inverts(w, p), NEW n \in Node
  PROVE  \E q, k, at : InPart(g, o, w, n, q, k, at) /\ IsBehind(g, o, w, n, q)
<1>1. /\ \A x \in Node : w[x] \in Node /\ w[x] \in 0 .. NumNodes - 1 /\ w[p[x]] = x /\ p[w[x]] = x
      /\ \A x \in 0 .. NumNodes - 1 : p[x] \in Node /\ w[p[x]] = x
  BY DEF Inverts, IsPermutation, Node
<1>2. Distinct(p, NumNodes)
  <2>1. NumNodes \in 0 .. NumNodes
    BY NumNodesAssumption
  <2>2. \A x, y \in 0 .. NumNodes - 1 : p[x] = p[y] => x = y
    BY <1>1
  <2> QED
    BY <1>1, <2>1, <2>2 DEF Distinct
<1>3. PICK a \in 0 .. w[n] : \E c \in w[n] + 1 .. NumNodes : \E q : IsPart(g, o, p, a, c, q)
  BY <1>1 DEF Parts
<1>4. PICK c \in w[n] + 1 .. NumNodes : \E q : IsPart(g, o, p, a, c, q)
  BY <1>3
<1>5. PICK q : IsPart(g, o, p, a, c, q)
  BY <1>4
<1>6. a \in Nat /\ c \in Nat /\ a < c /\ c \in a + 1 .. NumNodes /\ w[n] \in a .. c - 1 /\ NumNodes \in Nat
  <2>1. w[n] \in Nat
    BY <1>1, NumNodesAssumption
  <2> QED
    BY <2>1, NumNodesAssumption
<1>7. /\ q[0] \in Node /\ \A x \in a .. c - 1 : x \in 0 .. NumNodes - 1
      /\ \A x \in 0 .. NumNodes - 1 : p[x] \in ComponentOf(g, q[0]) <=> x \in a .. c - 1
  BY <1>2, <1>5, <1>6, PartHas
<1>8. n \in ComponentOf(g, q[0])
  <2>1. p[w[n]] \in ComponentOf(g, q[0])
    BY <1>1, <1>6, <1>7
  <2> QED
    BY <1>1, <2>1
<1>9. ComponentOf(g, n) = ComponentOf(g, q[0]) /\ ComponentOf(g, n) \in SUBSET Node
  BY <1>7, <1>8, SameComponent, ComponentIs
<1> DEFINE C == ComponentOf(g, n)
<1>10. \A x \in Node : x \in C <=> w[x] \in a .. c - 1
  BY <1>1, <1>7, <1>9
<1>11. \A x, y \in C : y \in ComponentOf(g, x)
  BY <1>9, SameComponent, ComponentIs
<1>12. PICK reversed \in BOOLEAN : o.reverse = reversed
  BY DEF Options
<1> DEFINE k == c - a
           at == [x \in Node |-> Returned(a, c, reversed, w[x])]
<1>13. IsStretch(q, p, a, c, reversed)
  BY <1>5, <1>6, <1>12, StretchIs DEF IsPart
<1>14. \A x \in C : at[x] \in 0 .. k - 1 /\ q[at[x]] = x
  <2> TAKE x \in C
  <2>1. x \in Node /\ w[x] \in a .. c - 1 /\ at[x] = Returned(a, c, reversed, w[x])
    BY <1>9, <1>10
  <2> QED
    BY <1>1, <1>13, <2>1 DEF IsStretch
<1>15. \A i \in 0 .. k - 1 : q[i] \in C /\ at[q[i]] = i
  <2> TAKE i \in 0 .. k - 1
  <2>1. Turned(a, c, reversed, i) \in a .. c - 1 /\ q[i] = p[Turned(a, c, reversed, i)]
    BY <1>13 DEF IsStretch
  <2>2. q[i] \in C /\ q[i] \in Node /\ w[q[i]] = Turned(a, c, reversed, i)
    BY <1>1, <1>7, <1>9, <2>1
  <2>3. Returned(a, c, reversed, Turned(a, c, reversed, i)) = i
    BY <1>6 DEF Turned, Returned
  <2> QED
    BY <2>2, <2>3
<1>16. ASSUME NEW x \in C, NEW y \in C PROVE Earlier(g, o, w, x, y) <=> at[x] < at[y]
  <2>1. /\ at[x] = Returned(a, c, reversed, w[x]) /\ at[y] = Returned(a, c, reversed, w[y])
        /\ w[x] \in a .. c - 1 /\ w[y] \in a .. c - 1
    BY <1>9, <1>10
  <2>2. Earlier(g, o, w, x, y) <=> IF reversed THEN w[x] > w[y] ELSE w[x] < w[y]
    BY <1>11, <1>12 DEF Earlier
  <2> HIDE DEF at
  <2>3. CASE reversed
    BY <1>6, <2>1, <2>2, <2>3 DEF Returned
  <2>4. CASE ~reversed
    BY <1>6, <2>1, <2>2, <2>4 DEF Returned
  <2> QED
    BY <2>3, <2>4
<1>17. ASSUME NEW x \in Node, a <= w[x] PROVE Fits(g, o, q[0], x)
  <2>1. x \notin Placed(p, a)
    <3> SUFFICES ASSUME NEW z \in 0 .. a - 1, x = p[z] PROVE FALSE
      BY DEF Placed
    <3>1. z \in 0 .. NumNodes - 1
      BY <1>6
    <3> QED
      BY <1>1, <1>6, <1>17, <3>1
  <2> QED
    BY <1>5, <2>1 DEF IsPart
<1>18. ASSUME NEW x \in Node, x \notin C, Earlier(g, o, w, n, x)
       PROVE  c <= w[x] /\ \A y \in C : Earlier(g, o, w, y, x)
  <2>1. w[n] < w[x] /\ w[x] \notin a .. c - 1 /\ w[x] \in Int
    BY <1>1, <1>10, <1>18 DEF Earlier
  <2>2. c <= w[x]
    BY <1>6, <2>1
  <2>3. ASSUME NEW y \in C PROVE Earlier(g, o, w, y, x)
    <3>1. w[y] \in a .. c - 1
      BY <1>9, <1>10
    <3>2. w[y] < w[x]
      BY <1>6, <2>1, <2>2, <3>1
    <3>3. ComponentOf(g, y) = C
      BY <1>9, SameComponent
    <3> QED
      BY <1>18, <3>2, <3>3 DEF Earlier
  <2> QED
    BY <2>2, <2>3
<1>19. \A x \in Node : x \in C \/ Earlier(g, o, w, n, x) => a <= w[x]
  <2> SUFFICES ASSUME NEW x \in Node, x \in C \/ Earlier(g, o, w, n, x) PROVE a <= w[x]
    OBVIOUS
  <2>1. w[x] \in Int
    BY <1>1
  <2>2. CASE x \in C
    BY <1>6, <1>10, <2>2
  <2>3. CASE x \notin C
    BY <1>6, <1>18, <2>1, <2>3
  <2> QED
    BY <2>2, <2>3
<1>20. q[0] \in C /\ at[q[0]] = 0 /\ k \in Nat
  <2>1. 0 \in 0 .. k - 1
    BY <1>6
  <2> QED
    BY <1>6, <1>15, <2>1
<1>21. Ordered(g, o, q, k)
  BY <1>5 DEF IsPart
<1> HIDE DEF at, k
<1>22. InPart(g, o, w, n, q, k, at)
  BY <1>14, <1>15, <1>16, <1>20, <1>21 DEF InPart
<1>23. IsBehind(g, o, w, n, q)
  BY <1>17, <1>18, <1>19 DEF IsBehind
<1> QED
  BY <1>22, <1>23

\* Root and Parent: the first of a component, and the first next to m of the level before.
IsFirst(g, o, w, n, r) ==
  r \in ComponentOf(g, n) /\ \A x \in ComponentOf(g, n) : r = x \/ Earlier(g, o, w, r, x)
IsParent(g, o, w, level, n, m) ==
  /\ m \in ToSet(g[n]) /\ level[m] = level[n] - 1
  /\ \A x \in ToSet(g[n]) \ {m} : level[x] = level[m] => Earlier(g, o, w, m, x)

LEMMA FirstIs ==
  ASSUME NEW g, NEW o, NEW w, NEW n, NEW q, NEW k, NEW at, InPart(g, o, w, n, q, k, at)
  PROVE  /\ IsFirst(g, o, w, n, q[0])
         /\ \A r : IsFirst(g, o, w, n, r) => r = q[0]
<1>1. /\ q[0] \in ComponentOf(g, n) /\ at[q[0]] = 0 /\ k \in Nat
      /\ \A x \in ComponentOf(g, n) : at[x] \in 0 .. k - 1 /\ q[at[x]] = x
      /\ \A x, y \in ComponentOf(g, n) : Earlier(g, o, w, x, y) <=> at[x] < at[y]
  BY DEF InPart
<1>2. ASSUME NEW x \in ComponentOf(g, n), x # q[0] PROVE Earlier(g, o, w, q[0], x) /\ ~Earlier(g, o, w, x, q[0])
  <2>1. at[x] # 0 /\ at[x] \in 0 .. k - 1
    BY <1>1, <1>2
  <2>2. at[q[0]] < at[x] /\ ~(at[x] < at[q[0]])
    BY <1>1, <2>1
  <2> QED
    BY <1>1, <2>2
<1> QED
  BY <1>1, <1>2 DEF IsFirst

\* Behind the root, every node has a neighbour that is one step closer.
LEMMA OneCloser ==
  ASSUME NEW g, IsPattern(g), NEW r \in Node, NEW n \in ComponentOf(g, r), Steps(g, r, n) # 0
  PROVE  \E m \in ToSet(g[n]) : m \in ComponentOf(g, r) /\ Steps(g, r, m) = Steps(g, r, n) - 1
<1> DEFINE d == Steps(g, r, n)
           ball == Balls(g, r)
<1>1. d \in 0 .. NumNodes /\ \A k \in 0 .. NumNodes : n \in ball[k] <=> d <= k
  BY StepsAre
<1>2. IsBalls(ball, g, r)
  BY BallsAre
<1>3. ComponentOf(g, r) \in SUBSET Node /\ NumNodes \in Nat /\ NumNodes \in 0 .. NumNodes
  BY ComponentIs, NumNodesAssumption
<1>4. ASSUME NEW m \in ComponentOf(g, r)
      PROVE  Steps(g, r, m) \in 0 .. NumNodes /\ \A k \in 0 .. NumNodes : m \in ball[k] <=> Steps(g, r, m) <= k
  BY StepsAre
<1>5. d # 0
  OBVIOUS
<1> HIDE DEF d, ball
<1>6. d \in 1 .. NumNodes /\ d - 1 \in 0 .. NumNodes /\ ~(d <= d - 1) /\ d <= d
  BY <1>1, <1>5, NumNodesAssumption
<1>7. n \in ball[d] /\ n \notin ball[d - 1] /\ ball[d] = Beside(g, ball[d - 1]) /\ ball[d - 1] \in SUBSET Node
  BY <1>1, <1>2, <1>6 DEF IsBalls
<1>8. PICK m \in ball[d - 1] : n \in ToSet(g[m])
  BY <1>7, BesideIs
<1>9. m \in ComponentOf(g, r)
  <2>1. ball[d - 1] \subseteq ball[NumNodes]
    <3>1. NumNodes \in d - 1 .. NumNodes
      BY <1>3, <1>6
    <3> QED
      BY <1>2, <1>6, <3>1, BallsGrow
  <2> QED
    BY <2>1 DEF ComponentOf, ball
<1>10. m \in Node /\ n \in Node /\ m \in ToSet(g[n])
  BY <1>3, <1>8, <1>9 DEF IsPattern
<1>11. Steps(g, r, m) <= d - 1 /\ Steps(g, r, m) \in 0 .. NumNodes
  BY <1>4, <1>6, <1>9
<1>12. d <= Steps(g, r, m) + 1
  BY <1>8, <1>9, NextStep DEF d
<1>13. Steps(g, r, m) = d - 1
  BY <1>6, <1>11, <1>12
<1> QED
  BY <1>9, <1>10, <1>13 DEF d

\* The level of a node, in its component, is its distance from the root.
LevelsIn(g, n, q, level) == \A x \in ComponentOf(g, n) : level[x] = Steps(g, q[0], x)

\* The place of a parent leads to that of its child, and no earlier place does.
IsLeader(g, q, k, i, y) == Leads(g, q, y, i) /\ \A x \in 0 .. k - 1 : Leads(g, q, x, i) => y <= x

LEMMA ParentIs ==
  ASSUME NEW g, IsPattern(g), NEW o, NEW w, NEW n \in Node, NEW q, NEW k, NEW at, InPart(g, o, w, n, q, k, at),
         NEW level, LevelsIn(g, n, q, level), NEW c \in ComponentOf(g, n), level[c] # 0
  PROVE  /\ \E m : IsParent(g, o, w, level, c, m)
         /\ \A m : IsParent(g, o, w, level, c, m) => m \in ComponentOf(g, n) /\ IsLeader(g, q, k, at[c], at[m])
<1> DEFINE C == ComponentOf(g, n)
           r == q[0]
           D(x) == Steps(g, r, x)
<1>1. /\ r \in C /\ k \in Nat
      /\ \A x \in C : at[x] \in 0 .. k - 1 /\ q[at[x]] = x
      /\ \A i \in 0 .. k - 1 : q[i] \in C /\ at[q[i]] = i
      /\ \A x, y \in C : Earlier(g, o, w, x, y) <=> at[x] < at[y]
  BY DEF InPart
<1>2. r \in Node /\ ComponentOf(g, r) = C /\ C \in SUBSET Node
  BY <1>1, SameComponent, ComponentIs
<1>3. \A x \in C : D(x) \in 0 .. NumNodes /\ level[x] = D(x)
  BY <1>2, StepsAre DEF LevelsIn
<1>4. c \in C /\ c \in Node /\ D(c) # 0
  BY <1>2, <1>3
<1>5. \A m \in ToSet(g[c]) : m \in C
  BY <1>2, <1>4, NextStep
<1>6. \A m \in C : m \in ToSet(g[c]) <=> c \in ToSet(g[m])
  BY <1>2, <1>4 DEF IsPattern
<1>7. PICK f \in ToSet(g[c]) : D(f) = D(c) - 1
  BY <1>2, <1>4, OneCloser
<1>8. ASSUME NEW x \in C, NEW y \in C PROVE Leads(g, q, at[x], at[y]) <=> y \in ToSet(g[x]) /\ D(y) = D(x) + 1
  BY <1>1 DEF Leads
<1> HIDE DEF C, r, D
<1>9. \E m : IsParent(g, o, w, level, c, m)
  <2> DEFINE N == {m \in ToSet(g[c]) : level[m] = level[c] - 1}
             A == {at[m] : m \in N}
  <2>1. f \in N
    BY <1>3, <1>4, <1>5, <1>7
  <2>2. A \in SUBSET Nat /\ A # {}
    <3>1. \A m \in N : at[m] \in Nat
      BY <1>1, <1>5
    <3> QED
      BY <2>1, <3>1
  <2>3. PICK a \in A : \A b \in A : a <= b
    <3> HIDE DEF A
    <3> QED
      BY <2>2, LeastNumber
  <2>4. PICK m \in N : at[m] = a
    OBVIOUS
  <2>5. m \in ToSet(g[c]) /\ level[m] = level[c] - 1 /\ m \in C
    BY <1>5, <2>4
  <2>6. ASSUME NEW x \in ToSet(g[c]) \ {m}, level[x] = level[m] PROVE Earlier(g, o, w, m, x)
    <3>1. x \in N /\ x \in C /\ x # m
      BY <1>5, <2>5, <2>6
    <3>2. at[m] <= at[x]
      BY <2>3, <2>4, <3>1
    <3>3. at[m] # at[x] /\ at[m] \in Nat /\ at[x] \in Nat
      BY <1>1, <2>5, <3>1
    <3>4. at[m] < at[x]
      BY <3>2, <3>3
    <3> QED
      BY <1>1, <2>5, <3>1, <3>4
  <2> QED
    BY <2>5, <2>6 DEF IsParent
<1>10. ASSUME NEW m, IsParent(g, o, w, level, c, m) PROVE m \in C /\ IsLeader(g, q, k, at[c], at[m])
  <2>1. m \in ToSet(g[c]) /\ m \in C /\ level[m] = level[c] - 1
    BY <1>5, <1>10 DEF IsParent
  <2>2. D(c) = D(m) + 1 /\ D(m) \in Int
    BY <1>3, <1>4, <2>1, NumNodesAssumption
  <2>3. Leads(g, q, at[m], at[c])
    BY <1>4, <1>6, <1>8, <2>1, <2>2
  <2>4. ASSUME NEW y \in 0 .. k - 1, Leads(g, q, y, at[c]) PROVE at[m] <= y
    <3>1. q[y] \in C /\ at[q[y]] = y
      BY <1>1
    <3>2. c \in ToSet(g[q[y]]) /\ D(c) = D(q[y]) + 1
      BY <1>4, <1>8, <2>4, <3>1
    <3>3. q[y] \in ToSet(g[c]) /\ level[q[y]] = level[m]
      <4>1. D(q[y]) = D(m)
        BY <1>3, <2>2, <3>1, <3>2, NumNodesAssumption
      <4> QED
        BY <1>3, <1>6, <2>1, <3>1, <3>2, <4>1
    <3>4. q[y] = m \/ Earlier(g, o, w, m, q[y])
      BY <1>10, <3>3 DEF IsParent
    <3>5. at[m] \in Nat /\ y \in Nat
      BY <1>1, <2>1
    <3>6. y = at[m] \/ at[m] < y
      BY <1>1, <2>1, <3>1, <3>4
    <3> QED
      BY <3>5, <3>6
  <2> QED
    BY <2>1, <2>3, <2>4 DEF IsLeader
<1> QED
  BY <1>9, <1>10 DEF C

\* Two nodes of a component follow their levels, and in a level their degrees and parents.
LEMMA LevelsOrder ==
  ASSUME NEW g, IsPattern(g), NEW o, NEW w, NEW n \in Node, NEW q, NEW k, NEW at, InPart(g, o, w, n, q, k, at),
         NEW level, LevelsIn(g, n, q, level), NEW b \in ComponentOf(g, n), NEW c \in ComponentOf(g, n)
  PROVE  /\ level[b] < level[c] => Earlier(g, o, w, b, c)
         /\ (level[b] = level[c] /\ b # c) =>
              /\ level[b] # 0
              /\ Prefers(g, o, b, c) => Earlier(g, o, w, b, c)
              /\ \A s, t : /\ IsParent(g, o, w, level, b, s) /\ IsParent(g, o, w, level, c, t)
                           /\ ~Prefers(g, o, b, c) /\ ~Prefers(g, o, c, b) /\ Earlier(g, o, w, s, t)
                           => Earlier(g, o, w, b, c)
<1> DEFINE C == ComponentOf(g, n)
           r == q[0]
           D(x) == Steps(g, r, x)
<1>1. /\ r \in C /\ k \in Nat
      /\ \A x \in C : at[x] \in 0 .. k - 1 /\ q[at[x]] = x
      /\ \A x, y \in C : Earlier(g, o, w, x, y) <=> at[x] < at[y]
  BY DEF InPart
<1>2. r \in Node /\ ComponentOf(g, r) = C
  BY <1>1, SameComponent, ComponentIs
<1>3. \A x \in C : D(x) \in 0 .. NumNodes /\ level[x] = D(x)
  BY <1>2, StepsAre DEF LevelsIn
<1>4. b \in C /\ c \in C /\ at[b] \in 0 .. k - 1 /\ at[c] \in 0 .. k - 1 /\ q[at[b]] = b /\ q[at[c]] = c
  BY <1>1
<1>5. \A i, j \in 0 .. k - 1 :
        /\ D(q[i]) < D(q[j]) => i < j
        /\ (i < j /\ D(q[i]) = D(q[j])) =>
             /\ ~Prefers(g, o, q[j], q[i])
             /\ ~Prefers(g, o, q[i], q[j]) =>
                  \A x \in 0 .. k - 1 : Leads(g, q, x, j) => \E y \in 0 .. x : Leads(g, q, y, i)
  BY DEF InPart, Ordered
<1>6. \A x \in C : D(x) = 0 => x = r
  BY <1>2, RootAlone
<1>7. \A x \in C : level[x] # 0 =>
        \A m : IsParent(g, o, w, level, x, m) => m \in C /\ IsLeader(g, q, k, at[x], at[m])
  BY ParentIs
<1> HIDE DEF C, r, D
<1>8. ASSUME level[b] < level[c] PROVE Earlier(g, o, w, b, c)
  <2>1. at[b] < at[c]
    BY <1>3, <1>4, <1>5, <1>8
  <2> QED
    BY <1>1, <1>4, <2>1
<1>9. ASSUME level[b] = level[c], b # c, ~Earlier(g, o, w, b, c)
      PROVE  /\ level[b] # 0 /\ ~Prefers(g, o, b, c)
             /\ ~Prefers(g, o, c, b) =>
                  \A x \in 0 .. k - 1 : Leads(g, q, x, at[b]) => \E y \in 0 .. x : Leads(g, q, y, at[c])
  <2>1. ~(at[b] < at[c])
    BY <1>1, <1>4, <1>9
  <2>2. at[c] < at[b]
    <3>1. at[b] # at[c]
      BY <1>4, <1>9
    <3> QED
      BY <1>4, <2>1, <3>1
  <2>3. D(q[at[c]]) = D(q[at[b]])
    BY <1>3, <1>4, <1>9
  <2>4. level[b] # 0
    BY <1>3, <1>4, <1>6, <1>9
  <2> QED
    BY <1>4, <1>5, <2>2, <2>3, <2>4
<1>10. ASSUME level[b] = level[c], b # c PROVE level[b] # 0
  BY <1>3, <1>4, <1>6, <1>10
<1>11. ASSUME level[b] = level[c], b # c, NEW s, NEW t, IsParent(g, o, w, level, b, s), IsParent(g, o, w, level, c, t),
              ~Prefers(g, o, c, b), Earlier(g, o, w, s, t), ~Earlier(g, o, w, b, c)
       PROVE  FALSE
  <2>1. /\ s \in C /\ IsLeader(g, q, k, at[b], at[s])
        /\ t \in C /\ IsLeader(g, q, k, at[c], at[t])
    BY <1>4, <1>7, <1>10, <1>11
  <2>2. at[s] < at[t] /\ at[s] \in 0 .. k - 1 /\ at[t] \in 0 .. k - 1
    BY <1>1, <1>11, <2>1
  <2>3. Leads(g, q, at[s], at[b])
    BY <2>1 DEF IsLeader
  <2>4. PICK y \in 0 .. at[s] : Leads(g, q, y, at[c])
    BY <1>9, <1>11, <2>2, <2>3
  <2>5. y \in 0 .. k - 1
    BY <1>1, <2>2
  <2>6. at[t] <= y
    BY <2>1, <2>4, <2>5 DEF IsLeader
  <2> QED
    BY <2>2, <2>4, <2>6
<1> QED
  BY <1>8, <1>9, <1>10, <1>11

LEMMA NamesAgree ==
  ASSUME NEW r
  PROVE  Ball(r) = Balls(graph, r) /\ End(r) = Ends(graph, r) /\ \A n : Distance(r, n) = Steps(graph, r, n)
<1>1. Ball(r) = Balls(graph, r)
  BY Zenon DEF Ball, Balls, Around, Beside
<1>2. \A n : Distance(r, n) = Steps(graph, r, n)
  BY <1>1, Zenon DEF Distance, Steps
<1>3. End(r) = Ends(graph, r)
  BY <1>1, <1>2 DEF End, Ends, ComponentOf
<1> QED
  BY <1>1, <1>2, <1>3

\* A numbering that is complete consists of whole components.
LEMMA NumberedParts ==
  ASSUME SysInv, LevelsInv, Numbered
  PROVE  /\ IsPattern(graph) /\ options \in Options /\ IsPermutation(permutation)
         /\ Inverts(PermFromInverse(permutation), permutation)
         /\ Parts(graph, options, permutation, NumNodes)
         /\ ~WideBefore(graph, options, Node)
<1>1. phase = "numbering" /\ pc = "done" /\ CMInv /\ lvl2 = NumNodes /\ options \in Options
  BY DEF Numbered, SysInv, CMInv
<1>2. IsPattern(graph)
  BY <1>1, GraphIsPattern DEF SysInv
<1>3. IsPermutation(permutation)
  BY <1>1, FullPermutes
<1>4. ~Lost
  <2> SUFFICES ASSUME NEW n \in node_mask, \A x \in 0 .. lvl2 - 1 : permutation[x] # n PROVE FALSE
    BY DEF Lost
  <2>1. n \in Node /\ Distinct(permutation, NumNodes)
    BY <1>1, PlacesDiffer DEF CMInv
  <2>2. PICK x \in Node : permutation[x] = n
    BY <2>1, FullHasAll
  <2> QED
    BY <1>1, <2>2 DEF Node
<1>5. /\ Parts(graph, options, permutation, NumNodes) /\ node_mask = Placed(permutation, NumNodes)
      /\ ~WideBefore(graph, options, node_mask)
  BY <1>1, <1>4 DEF LevelsInv, Levelled
<1>6. Placed(permutation, NumNodes) = Node
  <2>1. ASSUME NEW n \in Node PROVE n \in Placed(permutation, NumNodes)
    <3>1. Distinct(permutation, NumNodes)
      BY <1>1, PlacesDiffer
    <3>2. PICK x \in Node : permutation[x] = n
      BY <3>1, FullHasAll
    <3> QED
      BY <3>2 DEF Placed, Node
  <2>2. \A x \in 0 .. NumNodes - 1 : permutation[x] \in Node
    BY <1>1, PlacesDiffer DEF Distinct
  <2> QED
    BY <2>1, <2>2 DEF Placed
<1> QED
  BY <1>1, <1>2, <1>3, <1>5, <1>6, ScatterInverts

LEMMA FailureIs ==
  ASSUME SysInv, LevelsInv
  PROVE  FailsForWideEndsOnly
<1> DEFINE Wide == \E r, s \in Node : /\ IsRootOfComponent(r) /\ IsRootOfComponent(s)
                                     /\ r # s /\ NoWorse(r, s) /\ HasWideEnd(r)
<1>1. \A r, n : NoWorse(r, n) <=> Fits(graph, options, r, n)
  BY DEF NoWorse, Fits, Degree
<1>2. \A r : /\ IsRootOfComponent(r) <=> IsBest(graph, options, r)
             /\ HasWideEnd(r) <=> IsWide(graph, r)
  BY <1>1, NamesAgree DEF IsRootOfComponent, HasWideEnd, IsBest, IsWide, ComponentOf
<1>3. Wide <=> WideBefore(graph, options, Node)
  BY <1>1, <1>2 DEF WideBefore
<1> HIDE DEF Wide
<1>4. pc = "failed" => Wide
  BY <1>3 DEF LevelsInv, Levelled
<1>5. Numbered => ~Wide
  BY <1>3, NumberedParts
<1> QED
  BY <1>4, <1>5 DEF FailsForWideEndsOnly, Wide

LEMMA LevelsNumber ==
  ASSUME SysInv, LevelsInv
  PROVE  NumberedByLevels
<1> DEFINE component == [n \in Node |-> Ball(n)[NumNodes]]
           position == PermFromInverse(permutation)
           Precedes(m, n) == IF options.reverse /\ n \in component[m]
                             THEN position[m] > position[n] ELSE position[m] < position[n]
           Root(n) == CHOOSE r \in component[n] : \A m \in component[n] : r = m \/ Precedes(r, m)
           root == [n \in Node |-> Root(n)]
           level == [n \in Node |-> Distance(root[n], n)]
           Parent(n) == CHOOSE m \in ToSet(graph[n]) :
                          /\ level[m] = level[n] - 1
                          /\ \A k \in ToSet(graph[n]) \ {m} : level[k] = level[m] => Precedes(m, k)
           Sooner(m, n) == CASE options.sort = "default" -> FALSE
                             [] options.sort = "asc" -> Degree(m) < Degree(n)
                             [] options.sort = "desc" -> Degree(m) > Degree(n)
           C(n) == ComponentOf(graph, n)
           Prec(m, n) == Earlier(graph, options, position, m, n)
<1>1. ASSUME Numbered
      PROVE  /\ ToSet([x \in 1 .. NumNodes |-> permutation[x - 1]]) = Node
             /\ \A m, n \in Node :
                  /\ (n \in component[m] \/ Precedes(m, n)) => NoWorse(root[m], n)
                  /\ (n \notin component[m] /\ Precedes(m, n)) => \A k \in component[m] : Precedes(k, n)
                  /\ (n \in component[m] /\ level[m] < level[n]) => Precedes(m, n)
                  /\ (n \in component[m] /\ level[m] = level[n] /\ m # n) =>
                       /\ Sooner(m, n) => Precedes(m, n)
                       /\ (~Sooner(m, n) /\ ~Sooner(n, m) /\ Precedes(Parent(m), Parent(n)))
                            => Precedes(m, n)
  <2>1. /\ IsPattern(graph) /\ options \in Options /\ IsPermutation(permutation)
        /\ Inverts(position, permutation) /\ Parts(graph, options, permutation, NumNodes)
    BY <1>1, NumberedParts
  <2>2. ToSet([x \in 1 .. NumNodes |-> permutation[x - 1]]) = Node
    <3> DEFINE f == [x \in 1 .. NumNodes |-> permutation[x - 1]]
    <3>1. \A x \in 1 .. NumNodes : x - 1 \in Node /\ f[x] \in Node
      <4> TAKE x \in 1 .. NumNodes
      <4>1. x - 1 \in Node
        BY NumNodesAssumption DEF Node
      <4> QED
        BY <2>1, <4>1 DEF IsPermutation
    <3>2. ASSUME NEW n \in Node PROVE \E x \in 1 .. NumNodes : f[x] = n
      <4>1. PICK i \in Node : permutation[i] = n
        BY <2>1 DEF IsPermutation
      <4>2. i + 1 \in 1 .. NumNodes /\ (i + 1) - 1 = i
        BY NumNodesAssumption DEF Node
      <4> QED
        BY <4>1, <4>2
    <3>3. DOMAIN f = 1 .. NumNodes
      OBVIOUS
    <3> HIDE DEF f
    <3>4. ToSet(f) = Node
      BY <3>1, <3>2, <3>3 DEF ToSet
    <3> QED
      BY <3>4 DEF f
  <2> HIDE DEF position
  <2>3. \A n \in Node : component[n] = C(n)
    BY NamesAgree DEF ComponentOf
  <2>4. \A n : C(n) = ComponentOf(graph, n)
    OBVIOUS
  <2> HIDE DEF component
  <2>5. \A m \in Node : \A n : Precedes(m, n) <=> Prec(m, n)
    BY <2>3 DEF Earlier
  <2>6. \A n \in Node : C(n) \in SUBSET Node /\ n \in C(n)
    BY <2>1, ComponentIs
  <2>7. \A r, n : NoWorse(r, n) <=> Fits(graph, options, r, n)
    BY DEF NoWorse, Fits, Degree
  <2>8. \A m, n : Sooner(m, n) <=> Prefers(graph, options, m, n)
    BY DEF Prefers, Degree
  <2> HIDE DEF Precedes, Sooner, C
  <2>9. ASSUME NEW n \in Node
        PROVE  \E q, k, at : InPart(graph, options, position, n, q, k, at) /\ IsBehind(graph, options, position, n, q)
    BY <2>1, PartOf
  <2>10. ASSUME NEW n \in Node, NEW q, NEW k, NEW at, InPart(graph, options, position, n, q, k, at)
         PROVE  root[n] = q[0]
    <3>1. /\ IsFirst(graph, options, position, n, q[0])
          /\ \A r : IsFirst(graph, options, position, n, r) => r = q[0]
      BY <2>10, FirstIs
    <3>2. \A r : (r \in component[n] /\ \A m \in component[n] : r = m \/ Precedes(r, m))
                  <=> IsFirst(graph, options, position, n, r)
      BY <2>3, <2>4, <2>5, <2>6 DEF IsFirst
    <3>3. IsFirst(graph, options, position, n, Root(n))
      BY <3>1, <3>2
    <3>4. Root(n) = q[0]
      BY <3>1, <3>3
    <3> QED
      BY <3>4
  <2> HIDE DEF root
  <2>11. \A n \in Node : level[n] = Steps(graph, root[n], n)
    BY NamesAgree
  <2> HIDE DEF level
  <2>12. ASSUME NEW m \in Node, NEW n \in C(m), NEW q, NEW k, NEW at, InPart(graph, options, position, m, q, k, at)
         PROVE  root[n] = q[0]
    <3>1. C(n) = C(m) /\ n \in Node
      BY <2>1, <2>4, <2>6, SameComponent
    <3>2. InPart(graph, options, position, n, q, k, at)
      BY <2>4, <2>12, <3>1 DEF InPart
    <3> QED
      BY <2>10, <3>1, <3>2
  <2>13. ASSUME NEW n \in Node
         PROVE  \A m : (/\ m \in ToSet(graph[n]) /\ level[m] = level[n] - 1
                        /\ \A k \in ToSet(graph[n]) \ {m} : level[k] = level[m] => Precedes(m, k))
                       <=> IsParent(graph, options, position, level, n, m)
    <3>1. ToSet(graph[n]) \subseteq Node
      BY <2>1 DEF IsPattern
    <3> QED
      BY <2>5, <3>1 DEF IsParent
  <2>14. ASSUME NEW m \in Node, NEW n \in Node
         PROVE  /\ (n \in component[m] \/ Precedes(m, n)) => NoWorse(root[m], n)
                /\ (n \notin component[m] /\ Precedes(m, n)) => \A k \in component[m] : Precedes(k, n)
    <3>1. PICK q, k, at : InPart(graph, options, position, m, q, k, at) /\ IsBehind(graph, options, position, m, q)
      BY <2>9
    <3>2. root[m] = q[0]
      BY <2>10, <3>1
    <3> QED
      BY <2>3, <2>4, <2>5, <2>6, <2>7, <3>1, <3>2 DEF IsBehind
  <2>15. ASSUME NEW m \in Node, NEW n \in C(m)
         PROVE  /\ level[m] < level[n] => Precedes(m, n)
                /\ (level[m] = level[n] /\ m # n) =>
                     /\ Sooner(m, n) => Precedes(m, n)
                     /\ (~Sooner(m, n) /\ ~Sooner(n, m) /\ Precedes(Parent(m), Parent(n)))
                          => Precedes(m, n)
    <3>1. PICK q, k, at : InPart(graph, options, position, m, q, k, at)
      BY <2>9
    <3>2. m \in C(m) /\ n \in Node
      BY <2>6
    <3>3. LevelsIn(graph, m, q, level)
      BY <2>4, <2>6, <2>11, <2>12, <3>1 DEF LevelsIn
    <3>4. /\ level[m] < level[n] => Prec(m, n)
          /\ (level[m] = level[n] /\ m # n) =>
               /\ level[m] # 0
               /\ Prefers(graph, options, m, n) => Prec(m, n)
               /\ \A s, t : /\ IsParent(graph, options, position, level, m, s)
                            /\ IsParent(graph, options, position, level, n, t)
                            /\ ~Prefers(graph, options, m, n) /\ ~Prefers(graph, options, n, m) /\ Prec(s, t)
                            => Prec(m, n)
      BY <2>1, <2>4, <3>1, <3>2, <3>3, LevelsOrder
    <3>5. ASSUME NEW x \in C(m), level[x] # 0
          PROVE  IsParent(graph, options, position, level, x, Parent(x)) /\ Parent(x) \in Node
      <4>1. \E p : IsParent(graph, options, position, level, x, p)
        BY <2>1, <2>4, <3>1, <3>3, <3>5, ParentIs
      <4>2. x \in Node
        BY <2>6, <3>5
      <4>3. IsParent(graph, options, position, level, x, Parent(x))
        BY <2>13, <4>1, <4>2
      <4>4. ToSet(graph[x]) \subseteq Node
        BY <2>1, <4>2 DEF IsPattern
      <4> HIDE DEF Parent
      <4> QED
        BY <4>3, <4>4 DEF IsParent
    <3> HIDE DEF Parent
    <3> QED
      BY <2>5, <2>8, <3>2, <3>4, <3>5
  <2> HIDE DEF Parent
  <2>16. \A m, n \in Node : n \in component[m] => n \in C(m)
    BY <2>3
  <2> QED
    BY <2>2, <2>14, <2>15, <2>16
<1> HIDE DEF component, position, Precedes, Root, root, level, Parent, Sooner, C, Prec
<1> QED
  BY <1>1, Zenon DEF NumberedByLevels, component, position, Precedes, Root, root, level, Parent, Sooner

\* For any number of nodes, all graphs of assembled matrices and all options: what compute
\* returns is a numbering of Cuthill and McKee, component by component and level by level from
\* the best root of the nodes that are left.  [cuthill_mckee.cpp:19]
THEOREM NumberedFromItsRoots == Spec => []NumberedByLevels
<1>1. SysInv /\ LevelsInv => NumberedByLevels
  BY LevelsNumber
<1> QED
  BY <1>1, LevelsInvIsInvariant, PTL

\* For all of them: compute fails if a component that is not the last ends with a level of
\* more than one node, and for no other graph.  [cuthill_mckee.cpp:114]
THEOREM FailsOnlyThen == Spec => []FailsForWideEndsOnly
<1>1. SysInv /\ LevelsInv => FailsForWideEndsOnly
  BY FailureIs
<1> QED
  BY <1>1, LevelsInvIsInvariant, PTL
=============================================================================
