-------------------------- MODULE AlgDofPartiProofs -------------------------
(***************************************************************************)
(* For all numbers of processes, gates, patterns and programs: numbers are *)
(* those of one numbering, messages fulfil the receives that they are      *)
(* meant for, and each call gives a process what it promises, not before   *)
(* those that it needs have begun it.                                      *)
(*                                                                         *)
(* Between two processes that share DOFs, messages go up to the one that   *)
(* owns some of them, and down to the other.  The rounds of all calls are  *)
(* numbered through in each direction: a process has sent Sent(dir, p)     *)
(* messages to each process above or below it, and has taken               *)
(* Taken(dir, p, i) from the i-th.  A channel holds what is between these  *)
(* numbers, in their order (Inv).  What they have told a process so far    *)
(* is in its numbers, rows and sums (Whole).                               *)
(***************************************************************************)
EXTENDS AlgDofParti, DataLemmas

----------------------------------------------------------------------------
(* What the gates determine.                                               *)

Offset(p) == SumOver(0 .. p - 1, [q \in Rank |-> Len(owned_dofs[q])])

Global(d) == Offset(LowestHolder[d]) + own_dof_idx[LowestHolder[d]][d]

Serves(p, q) == p # q /\ \E d \in Holds(q) : LowestHolder[d] = p

\* The DOFs of q that p owns, as their mirror lists them.
Served(p, q) == LET m == CHOOSE n \in ToSet(Gate[q]) : n.rank = p IN MirrorOf(q, m, p)

\* The columns of q in a row, and their numbers, of all rows that p owns.
Columns(q, d) == {Global(e[2]) : e \in {f \in Pattern[q] : f[1] = d}}
RowsOf(p, q) == [k \in DOMAIN Served(p, q) |-> Cardinality(Columns(q, Served(p, q)[k]))]
ColsOf(p, q) == [k \in DOMAIN Served(p, q) |-> Columns(q, Served(p, q)[k])]

\* The values of q in the row of d and the column g, and all that it has in p's rows.
LocalOf(q, d, g) ==
  SetToBag({<<q, e[1], e[2]>> : e \in {f \in Pattern[q] : f[1] = d /\ Global(f[2]) = g}})
ValuesOf(p, q) ==
  [k \in DOMAIN Served(p, q) |->
     [g \in Columns(q, Served(p, q)[k]) |-> LocalOf(q, Served(p, q)[k], g)]]

----------------------------------------------------------------------------
(* Rounds.                                                                 *)

Dir == {"up", "down"}
Rounds(dir) == IF dir = "up" THEN ToOwners ELSE ToDonees
Sources(dir, p) == IF dir = "up" THEN donee_neighbours[p] ELSE owner_neighbours[p]
Targets(dir, p) == IF dir = "up" THEN owner_neighbours[p] ELSE donee_neighbours[p]

\* How many rounds of messages each call has.
Count(dir) ==
  [t \in 1 .. Len(Program) |->
     CASE Program[t] = "init_symbolic" -> IF dir = "up" THEN 3 ELSE 1
       [] Program[t] = "init_numeric" -> IF dir = "up" THEN 1 ELSE 0
       [] Program[t] = "apply" -> IF dir = "up" THEN 0 ELSE 1
       [] OTHER -> 0]

RoundNo(round) == CASE round = "rows" -> 2 [] round = "cols" -> 3 [] OTHER -> 1

\* Where p is before the first round of its call.
Early(dir) == {"exscan", "allreduce"} \cup (IF dir = "up" THEN {"numbers"} ELSE {})

\* The rounds that a process has left behind in its t-th call, and those that it has done.
Past(dir, t, where) ==
  IF where \in Rounds(dir) THEN SumBefore(Count(dir), t) + RoundNo(where) - 1
  ELSE IF where \in Early(dir) THEN SumBefore(Count(dir), t)
  ELSE SumBefore(Count(dir), t + 1)

Done(dir, t, where, part) ==
  Past(dir, t, where) + (IF where \in Rounds(dir) /\ part THEN 1 ELSE 0)

Sent(dir, p) == Done(dir, begun[p], at[p], posted[p])
Taken(dir, p, i) == Done(dir, begun[p], at[p], i \notin recvs[p])

Serial(dir, m) == SumBefore(Count(dir), m.id) + RoundNo(m.round)

\* The call to which a round or a collective belongs.
CallOf(where) ==
  CASE where \in {"exscan", "allreduce", "numbers", "dims", "rows", "cols"} -> "init_symbolic"
    [] where = "values" -> "init_numeric"
    [] where = "shared" -> "apply"
    [] where \in {"offsets", "counts", "full"} -> "allgather"

\* What q sends to p.
IsContent(q, p, m) ==
  LET up == Served(p, q)
      down == Served(q, p)
  IN  CASE m.round = "numbers" -> m.content = [k \in DOMAIN down |-> Global(down[k])]
        [] m.round = "shared" -> m.content = [k \in DOMAIN down |-> SetToBag({<<q, down[k]>>})]
        [] m.round = "dims" -> m.content.rows = Len(up)
        [] m.round = "rows" -> m.content = RowsOf(p, q)
        [] m.round = "cols" -> m.content = ColsOf(p, q)
        [] m.round = "values" -> m.content = ValuesOf(p, q)

IsMessage(dir, q, p, m) ==
  /\ m.id \in 1 .. Len(Program) /\ m.round \in Rounds(dir)
  /\ Program[m.id] = CallOf(m.round)
  /\ IsContent(q, p, m)

----------------------------------------------------------------------------
(* The invariant.                                                          *)

Where == {"exscan", "allreduce", "offsets", "counts", "full"} \cup ToOwners \cup ToDonees

Shape ==
  /\ eager \in BOOLEAN
  /\ begun \in [Rank -> 0 .. Len(Program)]
  /\ at \in [Rank -> Where \cup {"none"}]
  /\ posted \in [Rank -> BOOLEAN]
  /\ recvs \in [Rank -> SUBSET Nat]
  /\ chan = [p \in Rank |-> [q \in Rank |-> chan[p][q]]]
  /\ \A p, q \in Rank : IsSeq(chan[p][q])
  /\ given = [p \in Rank |-> given[p]]
  /\ adp = [p \in Rank |-> adp[p]] /\ bufs = [p \in Rank |-> bufs[p]]

\* Outside of rounds nothing is awaited.
Phase(p) ==
  /\ at[p] # "none" => begun[p] > 0 /\ Program[begun[p]] = CallOf(at[p])
  /\ \A dir \in Dir : at[p] \in Rounds(dir) => recvs[p] \subseteq DOMAIN Sources(dir, p)
  /\ at[p] \notin ToOwners \cup ToDonees => ~posted[p] /\ recvs[p] = {}

\* What a process knows of its partition.
Awaits(p, q) == at[p] = "numbers" /\ \E i \in recvs[p] : owner_neighbours[p][i].rank = q

Numbers(p) ==
  /\ DOMAIN adp[p].number = Holds(p)
  /\ \A d \in Holds(p) :
       adp[p].number[d] = IF Awaits(p, LowestHolder[d]) THEN NoNumber ELSE Global(d)

Partition(p) ==
  IF ~SetUp(begun[p]) \/ at[p] = "exscan" THEN adp[p] = EmptyParti
  ELSE IF at[p] = "allreduce" THEN adp[p] = [EmptyParti EXCEPT !.offset = Offset(p)]
  ELSE /\ adp[p] = [x \in DOMAIN EmptyParti |-> adp[p][x]]
       /\ adp[p].offset = Offset(p) /\ adp[p].owned = owned_dofs[p]
       /\ adp[p].owner = owner_neighbours[p] /\ adp[p].donee = donee_neighbours[p]
       /\ Numbers(p)

\* What it knows of the rows of its donees.
RowsKnown(p, i) == \/ at[p] \notin {"exscan", "allreduce", "numbers", "dims", "rows"}
                   \/ at[p] = "rows" /\ i \notin recvs[p]
ColsKnown(p, i) == \/ at[p] \notin {"exscan", "allreduce", "numbers", "dims", "rows", "cols"}
                   \/ at[p] = "cols" /\ i \notin recvs[p]

Buffer(p) ==
  SetUp(begun[p]) /\ at[p] \notin {"exscan", "allreduce", "numbers"} =>
    /\ bufs[p] = [i \in DOMAIN donee_neighbours[p] |-> bufs[p][i]]
    /\ \A i \in DOMAIN donee_neighbours[p] :
         LET q == donee_neighbours[p][i].rank
         IN  /\ bufs[p][i] = [x \in DOMAIN NoRows |-> bufs[p][i][x]]
             /\ RowsKnown(p, i) => bufs[p][i].row_ptr = RowsOf(p, q)
             /\ ColsKnown(p, i) => bufs[p][i].cols = ColsOf(p, q)

\* The collectives: each call of the program has its own.
Shares ==
  [t \in 1 .. Len(Program) |-> CASE Program[t] = "init_symbolic" -> 2
                                 [] Program[t] = "allgather" -> 3
                                 [] OTHER -> 0]

Given(t, where) ==
  CASE where \in {"exscan", "offsets"} -> SumBefore(Shares, t) + 1
    [] where \in {"allreduce", "counts"} -> SumBefore(Shares, t) + 2
    [] OTHER -> SumBefore(Shares, t + 1)

\* The first two of init_symbolic() are about the number of owned DOFs.
IsOfSizes(k) == \E t \in 1 .. Len(Program) : /\ Program[t] = "init_symbolic"
                                            /\ k \in SumBefore(Shares, t) + 1 .. SumBefore(Shares, t) + 2

Collective(p) ==
  /\ IsSeq(given[p]) /\ Len(given[p]) = Given(begun[p], at[p])
  /\ \A k \in 1 .. Len(given[p]) : IsOfSizes(k) => given[p][k] = Len(owned_dofs[p])

LocalInv(p) == Phase(p) /\ Partition(p) /\ Buffer(p) /\ Collective(p)

\* What lies between two processes.
InOrder ==
  \A dir \in Dir, p \in Rank : \A i \in DOMAIN Sources(dir, p) :
    LET q == Sources(dir, p)[i].rank
        c == chan[q][p]
    IN  /\ Len(c) = Sent(dir, q) - Taken(dir, p, i)
        /\ \A k \in 1 .. Len(c) : /\ IsMessage(dir, q, p, c[k])
                                  /\ Serial(dir, c[k]) = Taken(dir, p, i) + k

OnlyNeighbours == \A p, q \in Rank : ~Serves(p, q) /\ ~Serves(q, p) => chan[p][q] = <<>>

Inv == Shape /\ (\A p \in Rank : LocalInv(p)) /\ InOrder /\ OnlyNeighbours


----------------------------------------------------------------------------
(* Owners.                                                                 *)

LEMMA RankIs == P \in Nat \ {0} /\ \A r : r \in Rank <=> r \in Nat /\ r < P
<1>1. P \in Nat \ {0}
  BY AlgDofPartiAssumption
<1> QED
  BY <1>1 DEF Rank

LEMMA RankType == Rank \subseteq Nat /\ IsFiniteSet(Rank)
BY RankIs, FS_Interval DEF Rank

\* A set of ranks has a least one.
LEMMA LeastRank ==
  ASSUME NEW S \in SUBSET Rank, S # {}
  PROVE  Min(S) \in S /\ \A q \in S : Min(S) <= q
<1>1. \E n \in S : \A m \in S : n <= m
  BY RankType, LeastNumber
<1> QED
  BY <1>1 DEF Min

\* The owner of a DOF is the lowest rank that has it.
LEMMA LowestHolderIs ==
  ASSUME NEW p \in Rank, NEW d \in Holds(p)
  PROVE  /\ d \in AllDofs
         /\ LowestHolder[d] \in Rank /\ d \in Holds(LowestHolder[d])
         /\ \A q \in Rank : d \in Holds(q) => LowestHolder[d] <= q
<1>1. Holders(d) \in SUBSET Rank /\ p \in Holders(d)
  BY DEF Holders
<1>2. Min(Holders(d)) \in Holders(d) /\ \A q \in Holders(d) : Min(Holders(d)) <= q
  BY <1>1, LeastRank
<1>3. d \in AllDofs /\ LowestHolder[d] = Min(Holders(d))
  BY DEF AllDofs, LowestHolder
<1> QED
  BY <1>2, <1>3 DEF Holders

\* The neighbours of a process are those that share a DOF with it.
LEMMA NeighboursAre ==
  \A p \in Rank :
    {Gate[p][i].rank : i \in DOMAIN Gate[p]} = {q \in Rank \ {p} : Holds(p) \cap Holds(q) # {}}
BY AlgDofPartiAssumption, Zenon

LEMMA MirrorsAre ==
  \A p \in Rank : \A i \in DOMAIN Gate[p] :
     ToSet(Gate[p][i].dofs) = Holds(p) \cap Holds(Gate[p][i].rank)
BY AlgDofPartiAssumption, Zenon

LEMMA GateHas ==
  ASSUME NEW p \in Rank, NEW i \in DOMAIN Gate[p]
  PROVE  /\ Gate[p][i].rank \in Rank \ {p}
         /\ IsSeq(Gate[p][i].dofs)
         /\ ToSet(Gate[p][i].dofs) = Holds(p) \cap Holds(Gate[p][i].rank)
<1>1. Gate[p] \in Seq([rank : Rank, dofs : Seq(Dof)])
  BY AlgDofPartiAssumption
<1>2. Gate[p][i] \in [rank : Rank, dofs : Seq(Dof)]
  BY <1>1, SeqElement
<1>3. IsSeq(Gate[p][i].dofs)
  BY <1>2 DEF IsSeq
<1>4. Gate[p][i].rank \in {Gate[p][j].rank : j \in DOMAIN Gate[p]}
  OBVIOUS
<1> QED
  BY <1>3, <1>4, NeighboursAre, MirrorsAre

LEMMA GateReaches ==
  ASSUME NEW p \in Rank, NEW q \in Rank \ {p}, NEW d \in Holds(p) \cap Holds(q)
  PROVE  \E i \in DOMAIN Gate[p] : Gate[p][i].rank = q
<1>1. q \in {Gate[p][i].rank : i \in DOMAIN Gate[p]}
  BY NeighboursAre
<1> QED
  BY <1>1

\* A process finds the owners of its DOFs.
LEMMA OwnersAre ==
  ASSUME NEW p \in Rank, NEW d \in Holds(p)
  PROVE  dof_owners[p][d] = LowestHolder[d]
<1> DEFINE S == {p} \cup {m.rank : m \in {g \in ToSet(Gate[p]) : d \in ToSet(g.dofs)}}
<1>1. S = Holders(d)
  <2>1. ASSUME NEW q \in S PROVE q \in Holders(d)
    <3>1. CASE q = p
      BY <3>1 DEF Holders
    <3>2. CASE q # p
      <4>1. PICK i \in DOMAIN Gate[p] : q = Gate[p][i].rank /\ d \in ToSet(Gate[p][i].dofs)
        BY <3>2 DEF ToSet
      <4> QED
        BY <4>1, GateHas DEF Holders
    <3> QED
      BY <3>1, <3>2
  <2>2. ASSUME NEW q \in Holders(d), q # p PROVE q \in S
    <3>1. q \in Rank \ {p} /\ d \in Holds(p) \cap Holds(q)
      BY <2>2 DEF Holders
    <3>2. PICK i \in DOMAIN Gate[p] : Gate[p][i].rank = q
      BY <3>1, GateReaches
    <3>3. d \in ToSet(Gate[p][i].dofs) /\ Gate[p][i] \in ToSet(Gate[p])
      BY <3>1, <3>2, GateHas DEF ToSet
    <3> QED
      BY <3>2, <3>3
  <2>3. p \in S
    OBVIOUS
  <2> QED
    BY <2>1, <2>2, <2>3
<1>2. LowestHolder[d] = Min(Holders(d))
  BY DEF AllDofs, LowestHolder
<1>3. DofOwner(p, d) = Min(S)
  BY DEF DofOwner
<1> QED
  BY <1>1, <1>2, <1>3 DEF dof_owners

\* What a process owns, in its order.
Own(p) == {d \in Holds(p) : LowestHolder[d] = p}

LEMMA OwnedAre ==
  ASSUME NEW p \in Rank
  PROVE  /\ IsSeq(owned_dofs[p]) /\ Len(owned_dofs[p]) \in Nat
         /\ DOMAIN owned_dofs[p] = 1 .. Len(owned_dofs[p])
         /\ ToSet(owned_dofs[p]) = Own(p) /\ IsInjective(owned_dofs[p])
<1> DEFINE places == {k \in DOMAIN Local[p] : dof_owners[p][Local[p][k]] = p}
<1>1. IsSeq(Local[p])
  BY AlgDofPartiAssumption DEF IsSeq
<1>2. \A i, j \in DOMAIN Local[p] : Local[p][i] = Local[p][j] => i = j
  BY AlgDofPartiAssumption, Zenon
<1>3. {Local[p][k] : k \in places} = Own(p)
  <2>1. \A k \in DOMAIN Local[p] : Local[p][k] \in Holds(p)
    BY DEF Holds, ToSet
  <2>2. \A d \in Holds(p) : \E k \in DOMAIN Local[p] : d = Local[p][k]
    BY DEF Holds, ToSet
  <2> QED
    BY <2>1, <2>2, OwnersAre DEF Own
<1>4. owned_dofs[p] = AtPlaces(Local[p], places)
  BY DEF owned_dofs
<1>5. places \subseteq DOMAIN Local[p]
  OBVIOUS
<1> HIDE DEF places
<1>6. /\ IsSeq(AtPlaces(Local[p], places))
      /\ ToSet(AtPlaces(Local[p], places)) = {Local[p][k] : k \in places}
      /\ (\A x, y \in places : Local[p][x] = Local[p][y] => x = y) => IsInjective(AtPlaces(Local[p], places))
  BY <1>1, <1>5, PlacesHave
<1>7. IsSeq(owned_dofs[p]) /\ ToSet(owned_dofs[p]) = Own(p) /\ IsInjective(owned_dofs[p])
  BY <1>2, <1>3, <1>4, <1>5, <1>6
<1> QED
  BY <1>7, SeqDomain

LEMMA OwnIndexIs ==
  ASSUME NEW p \in Rank, NEW d \in Own(p)
  PROVE  /\ own_dof_idx[p][d] \in 0 .. Len(owned_dofs[p]) - 1
         /\ owned_dofs[p][own_dof_idx[p][d] + 1] = d
<1> DEFINE s == owned_dofs[p]
<1>1. ToSet(s) = Own(p) /\ DOMAIN s = 1 .. Len(s) /\ Len(s) \in Nat
  BY OwnedAre
<1>2. own_dof_idx[p][d] = CHOOSE k \in 0 .. Len(s) - 1 : s[k + 1] = d
  BY <1>1 DEF own_dof_idx
<1> HIDE DEF s
<1>3. PICK k \in 1 .. Len(s) : s[k] = d
  BY <1>1 DEF ToSet
<1>4. k - 1 \in 0 .. Len(s) - 1 /\ (k - 1) + 1 = k
  BY <1>1
<1>5. \E j \in 0 .. Len(s) - 1 : s[j + 1] = d
  BY <1>3, <1>4
<1> QED
  BY <1>2, <1>5 DEF s

----------------------------------------------------------------------------
(* Numbers.                                                                *)

LEMMA OffsetNext ==
  ASSUME NEW p \in Rank
  PROVE  Offset(0) = 0 /\ Offset(p) \in Int /\ Offset(p + 1) = Offset(p) + Len(owned_dofs[p])
<1> DEFINE v == [q \in Rank |-> Len(owned_dofs[q])]
<1>1. p \in Nat /\ 0 .. p \subseteq Rank /\ IsFiniteSet(0 .. p)
  BY RankIs, FS_Interval
<1>2. \A q \in 0 .. p : v[q] \in Int
  BY <1>1, OwnedAre
<1>3. (p + 1) - 1 = p /\ (0 .. p) \ {p} = 0 .. p - 1 /\ p \in 0 .. p /\ 0 .. 0 - 1 = {}
  BY <1>1
<1>4. v[p] = Len(owned_dofs[p]) /\ v[p] \in Nat
  BY OwnedAre
<1>5. \A i : Offset(i) = Sum(v, 0 .. i - 1)
  BY DEF Offset, SumOver, Sum
<1> HIDE DEF v
<1>6. Sum(v, 0 .. p) = v[p] + Sum(v, 0 .. p - 1) /\ Sum(v, 0 .. p - 1) \in Int
  <2>1. /\ Sum(v, 0 .. p) = v[p] + Sum(v, (0 .. p) \ {p})
        /\ Sum(v, (0 .. p) \ {p}) \in Int
    BY <1>1, <1>2, <1>3, SumOfOneMore
  <2> QED
    BY <1>3, <2>1
<1>7. Offset(0) = 0
  BY <1>3, <1>5, SumOfNone
<1>8. Offset(p + 1) = v[p] + Offset(p) /\ Offset(p) \in Int
  BY <1>3, <1>5, <1>6
<1>9. PICK a \in Int, b \in Nat : a = Offset(p) /\ b = v[p]
  BY <1>4, <1>8
<1>10. Offset(p + 1) = a + b
  BY <1>8, <1>9
<1> QED
  BY <1>4, <1>7, <1>8, <1>9, <1>10

\* The numbers of a process begin after those of lower ranks.
LEMMA OffsetGrows ==
  ASSUME NEW p \in Rank, NEW q \in Rank, p < q
  PROVE  Offset(p) + Len(owned_dofs[p]) <= Offset(q)
<1> DEFINE T == {m \in Nat : p + 1 + m \in Rank => Offset(p + 1) <= Offset(p + 1 + m)}
<1>1. p \in Nat /\ q \in Nat /\ P \in Nat /\ \A r : r \in Rank <=> r \in Nat /\ r < P
  BY RankIs
<1>2. 0 \in T
  <2>1. p + 1 + 0 = p + 1 /\ p + 1 \in Rank
    BY <1>1
  <2>2. Offset(p + 1) \in Int
    BY <2>1, OffsetNext
  <2> QED
    BY <2>1, <2>2
<1>3. ASSUME NEW m \in T PROVE m + 1 \in T
  <2> SUFFICES ASSUME p + 1 + (m + 1) \in Rank PROVE Offset(p + 1) <= Offset(p + 1 + (m + 1))
    OBVIOUS
  <2>1. PICK k \in Nat : k = p + 1 + m
    BY <1>1
  <2>2. k \in Rank /\ k + 1 = p + 1 + (m + 1) /\ k + 1 \in Rank /\ p + 1 \in Rank
    BY <1>1, <2>1
  <2>3. Offset(p + 1) <= Offset(k)
    BY <2>1, <2>2
  <2>4. Offset(k + 1) = Offset(k) + Len(owned_dofs[k]) /\ Len(owned_dofs[k]) \in Nat
    BY <2>2, OffsetNext, OwnedAre
  <2>5. Offset(p + 1) \in Int /\ Offset(k) \in Int
    BY <2>2, OffsetNext
  <2> QED
    BY <2>2, <2>3, <2>4, <2>5
<1>4. T = Nat
  <2> HIDE DEF T
  <2>1. T \in SUBSET Nat
    BY DEF T
  <2> QED
    BY <1>2, <1>3, <2>1, AllNumbers
<1>5. PICK m \in Nat : p + 1 + m = q
  <2>1. q - (p + 1) \in Nat /\ p + 1 + (q - (p + 1)) = q
    BY <1>1
  <2> QED
    BY <2>1
<1>6. Offset(p + 1) <= Offset(q)
  <2>1. m \in T
    BY <1>4
  <2> QED
    BY <1>1, <1>5, <2>1
<1>7. Offset(p + 1) = Offset(p) + Len(owned_dofs[p])
  BY OffsetNext
<1> QED
  BY <1>6, <1>7

\* A number belongs to one DOF.
GlobalAt(d, p, k) == /\ p \in Rank /\ k \in 0 .. Len(owned_dofs[p]) - 1
                     /\ LowestHolder[d] = p /\ owned_dofs[p][k + 1] = d /\ Global(d) = Offset(p) + k

LEMMA GlobalIs ==
  ASSUME NEW r \in Rank, NEW d \in Holds(r)
  PROVE  \E p, k : GlobalAt(d, p, k)
<1>1. LowestHolder[d] \in Rank /\ d \in Own(LowestHolder[d])
  BY LowestHolderIs DEF Own
<1> QED
  BY <1>1, OwnIndexIs DEF GlobalAt, Global

LEMMA GlobalIsNumber ==
  ASSUME NEW r \in Rank, NEW d \in Holds(r)
  PROVE  Global(d) \in Nat
<1>1. PICK p, k : GlobalAt(d, p, k)
  BY GlobalIs
<1>2. p \in Rank /\ k \in Nat /\ Global(d) = Offset(p) + k
  BY <1>1, OwnedAre DEF GlobalAt
<1>3. Offset(p) \in Nat
  <2>1. 0 \in Rank /\ p \in Nat
    BY <1>2, RankIs
  <2>2. Offset(0) = 0 /\ Offset(p) \in Int
    BY <1>2, OffsetNext
  <2>3. 0 < p => Offset(0) + Len(owned_dofs[0]) <= Offset(p) /\ Len(owned_dofs[0]) \in Nat
    BY <1>2, <2>1, OffsetGrows, OwnedAre
  <2> QED
    BY <2>1, <2>2, <2>3
<1> QED
  BY <1>2, <1>3

LEMMA GlobalIsOnce ==
  ASSUME NEW r \in Rank, NEW d \in Holds(r), NEW s \in Rank, NEW c \in Holds(s), Global(d) = Global(c)
  PROVE  d = c
<1>1. PICK p, k : GlobalAt(d, p, k)
  BY GlobalIs
<1>2. PICK q, l : GlobalAt(c, q, l)
  BY GlobalIs
<1>3. /\ p \in Rank /\ Len(owned_dofs[p]) \in Nat /\ k \in 0 .. Len(owned_dofs[p]) - 1
      /\ q \in Rank /\ Len(owned_dofs[q]) \in Nat /\ l \in 0 .. Len(owned_dofs[q]) - 1
      /\ Offset(p) \in Int /\ Offset(q) \in Int /\ Offset(p) + k = Offset(q) + l
      /\ p \in Int /\ q \in Int
  <2>1. \A n \in Rank : Len(owned_dofs[n]) \in Nat /\ Offset(n) \in Int /\ n \in Int
    BY OwnedAre, OffsetNext, RankType
  <2> QED
    BY <1>1, <1>2, <2>1 DEF GlobalAt
<1>4. ~(p < q)
  <2>1. p < q => Offset(p) + Len(owned_dofs[p]) <= Offset(q)
    BY <1>3, OffsetGrows
  <2> QED
    BY <1>3, <2>1
<1>5. ~(q < p)
  <2>1. q < p => Offset(q) + Len(owned_dofs[q]) <= Offset(p)
    BY <1>3, OffsetGrows
  <2> QED
    BY <1>3, <2>1
<1>6. p = q /\ k = l
  BY <1>3, <1>4, <1>5
<1> QED
  BY <1>1, <1>2, <1>6 DEF GlobalAt

----------------------------------------------------------------------------
(* Neighbours.                                                             *)

LEMMA GateOnce ==
  ASSUME NEW p \in Rank, NEW i \in DOMAIN Gate[p], NEW j \in DOMAIN Gate[p],
         Gate[p][i].rank = Gate[p][j].rank
  PROVE  i = j
<1>1. \A q \in Rank : \A k, l \in DOMAIN Gate[q] : Gate[q][k].rank = Gate[q][l].rank => k = l
  BY AlgDofPartiAssumption, Zenon
<1> QED
  BY <1>1

\* A neighbour has the same mirror.
LEMMA GateIsMutual ==
  ASSUME NEW p \in Rank, NEW i \in DOMAIN Gate[p]
  PROVE  \E j \in DOMAIN Gate[Gate[p][i].rank] :
           Gate[Gate[p][i].rank][j].rank = p /\ Gate[Gate[p][i].rank][j].dofs = Gate[p][i].dofs
<1>1. \A q \in Rank : \A k \in DOMAIN Gate[q] : \E j \in DOMAIN Gate[Gate[q][k].rank] :
        Gate[Gate[q][k].rank][j] = [rank |-> q, dofs |-> Gate[q][k].dofs]
  BY AlgDofPartiAssumption, Zenon
<1>2. PICK j \in DOMAIN Gate[Gate[p][i].rank] :
        Gate[Gate[p][i].rank][j] = [rank |-> p, dofs |-> Gate[p][i].dofs]
  BY <1>1
<1> QED
  BY <1>2

LEMMA MirrorOfIs ==
  ASSUME NEW p \in Rank, NEW i \in DOMAIN Gate[p], NEW q
  PROVE  /\ IsSeq(MirrorOf(p, Gate[p][i], q))
         /\ ToSet(MirrorOf(p, Gate[p][i], q)) = {d \in ToSet(Gate[p][i].dofs) : LowestHolder[d] = q}
<1> DEFINE s == Gate[p][i].dofs
           places == {k \in DOMAIN s : dof_owners[p][s[k]] = q}
<1>1. IsSeq(s) /\ ToSet(s) \subseteq Holds(p)
  BY GateHas
<1>2. MirrorOf(p, Gate[p][i], q) = AtPlaces(s, places)
  BY DEF MirrorOf
<1>3. {s[k] : k \in places} = {d \in ToSet(s) : LowestHolder[d] = q}
  <2>1. \A k \in DOMAIN s : s[k] \in ToSet(s) /\ dof_owners[p][s[k]] = LowestHolder[s[k]]
    BY <1>1, OwnersAre DEF ToSet
  <2>2. \A d \in ToSet(s) : \E k \in DOMAIN s : d = s[k]
    BY DEF ToSet
  <2> QED
    BY <2>1, <2>2
<1>4. places \subseteq DOMAIN s
  OBVIOUS
<1> HIDE DEF places
<1>5. /\ IsSeq(AtPlaces(s, places))
      /\ ToSet(AtPlaces(s, places)) = {s[x] : x \in places}
  BY <1>1, <1>4, PlacesHave
<1> QED
  BY <1>2, <1>3, <1>5

\* The two sides of a mirror select the same.
LEMMA MirrorsMatch ==
  ASSUME NEW p \in Rank, NEW i \in DOMAIN Gate[p], NEW q \in Rank, NEW j \in DOMAIN Gate[q],
         Gate[p][i].rank = q, Gate[q][j].dofs = Gate[p][i].dofs, NEW r
  PROVE  MirrorOf(p, Gate[p][i], r) = MirrorOf(q, Gate[q][j], r)
<1> DEFINE s == Gate[p][i].dofs
<1>1. \A k \in DOMAIN s : s[k] \in Holds(p) /\ s[k] \in Holds(q)
  BY GateHas DEF ToSet
<1>2. \A k \in DOMAIN s : dof_owners[p][s[k]] = dof_owners[q][s[k]]
  BY <1>1, OwnersAre
<1>3. {k \in DOMAIN s : dof_owners[p][s[k]] = r} = {k \in DOMAIN s : dof_owners[q][s[k]] = r}
  BY <1>2
<1> QED
  BY <1>3 DEF MirrorOf

LEMMA ServedIs ==
  ASSUME NEW p \in Rank, NEW q \in Rank, NEW i \in DOMAIN Gate[q], Gate[q][i].rank = p
  PROVE  Served(p, q) = MirrorOf(q, Gate[q][i], p)
<1>1. Gate[q][i] \in ToSet(Gate[q])
  BY DEF ToSet
<1>2. \A n \in ToSet(Gate[q]) : n.rank = p => n = Gate[q][i]
  BY GateOnce DEF ToSet
<1> QED
  BY <1>1, <1>2 DEF Served

\* What one process owns and another has.
LEMMA ServesIs ==
  ASSUME NEW p \in Rank, NEW q \in Rank, Serves(p, q)
  PROVE  /\ p < q
         /\ IsSeq(Served(p, q)) /\ DOMAIN Served(p, q) = 1 .. Len(Served(p, q)) /\ Len(Served(p, q)) \in Nat
         /\ ToSet(Served(p, q)) = {d \in Holds(q) : LowestHolder[d] = p}
<1>1. PICK d \in Holds(q) : p # q /\ LowestHolder[d] = p
  BY DEF Serves
<1>2. d \in Holds(p) /\ p <= q
  BY <1>1, LowestHolderIs
<1>3. PICK i \in DOMAIN Gate[q] : Gate[q][i].rank = p
  BY <1>1, <1>2, GateReaches
<1>4. Served(p, q) = MirrorOf(q, Gate[q][i], p)
  BY <1>3, ServedIs
<1>5. /\ IsSeq(Served(p, q))
      /\ ToSet(Served(p, q)) = {c \in ToSet(Gate[q][i].dofs) : LowestHolder[c] = p}
  BY <1>4, MirrorOfIs
<1>6. ToSet(Gate[q][i].dofs) = Holds(q) \cap Holds(p)
  BY <1>3, GateHas
<1>7. {c \in Holds(q) \cap Holds(p) : LowestHolder[c] = p} = {c \in Holds(q) : LowestHolder[c] = p}
  BY LowestHolderIs
<1>8. p < q
  BY <1>1, <1>2, RankType
<1> QED
  BY <1>5, <1>6, <1>7, <1>8, SeqDomain

\* A list is empty when nothing is in it.
LEMMA SeqNotEmpty ==
  ASSUME NEW s, IsSeq(s)
  PROVE  (s # <<>> => ToSet(s) # {}) /\ (ToSet(s) # {} => s # <<>>)
<1>1. DOMAIN s = 1 .. Len(s) /\ Len(s) \in Nat /\ (Len(s) = 0 <=> s = <<>>)
  BY SeqDomain, SeqLength
<1>2. ASSUME s # <<>> PROVE ToSet(s) # {}
  <2>1. 1 \in DOMAIN s
    BY <1>1, <1>2
  <2>2. s[1] \in ToSet(s)
    BY <2>1 DEF ToSet
  <2> QED
    BY <1>1, <1>2, <2>2
<1>3. ASSUME s = <<>> PROVE ToSet(s) = {}
  <2>1. DOMAIN s = {}
    BY <1>1, <1>3
  <2>2. ToSet(s) = {}
    BY <2>1 DEF ToSet
  <2> QED
    BY <1>1, <1>3, <2>2
<1> QED
  BY <1>2, <1>3

\* Where the rows of q that p owns are on p.
Indices(p, q) == [k \in DOMAIN Served(p, q) |-> own_dof_idx[p][Served(p, q)[k]]]

LEMMA OwnerSide ==
  ASSUME NEW p \in Rank, NEW i \in DOMAIN Gate[p], NEW q, q = Gate[p][i].rank
  PROVE  /\ q < p /\ OwnerVidx(p, Gate[p][i]) # <<>> <=> Serves(q, p)
         /\ OwnerVidx(p, Gate[p][i]) = Served(q, p)
<1>1. q \in Rank \ {p} /\ ToSet(Gate[p][i].dofs) = Holds(p) \cap Holds(q)
  BY GateHas
<1>2. OwnerVidx(p, Gate[p][i]) = Served(q, p)
  BY <1>1, ServedIs DEF OwnerVidx
<1>3. /\ IsSeq(Served(q, p))
      /\ ToSet(Served(q, p)) = {c \in ToSet(Gate[p][i].dofs) : LowestHolder[c] = q}
  BY <1>1, <1>2, MirrorOfIs DEF OwnerVidx
<1>4. /\ Served(q, p) # <<>> => ToSet(Served(q, p)) # {}
      /\ ToSet(Served(q, p)) # {} => Served(q, p) # <<>>
  BY <1>3, SeqNotEmpty
<1>5. Serves(q, p) => q < p /\ ToSet(Served(q, p)) # {}
  BY <1>1, ServesIs DEF Serves
<1>6. ToSet(Served(q, p)) # {} => Serves(q, p)
  <2>1. \A c \in ToSet(Served(q, p)) : c \in Holds(p) /\ LowestHolder[c] = q
    BY <1>1, <1>3
  <2> QED
    BY <1>1, <2>1 DEF Serves
<1> QED
  BY <1>2, <1>4, <1>5, <1>6

LEMMA DoneeSide ==
  ASSUME NEW p \in Rank, NEW i \in DOMAIN Gate[p], NEW q, q = Gate[p][i].rank
  PROVE  /\ q > p /\ DoneeVidx(p, Gate[p][i]) # <<>> <=> Serves(p, q)
         /\ DoneeVidx(p, Gate[p][i]) = Indices(p, q)
<1>1. q \in Rank \ {p} /\ ToSet(Gate[p][i].dofs) = Holds(p) \cap Holds(q)
  BY GateHas
<1>2. PICK j \in DOMAIN Gate[q] : Gate[q][j].rank = p /\ Gate[q][j].dofs = Gate[p][i].dofs
  BY GateIsMutual
<1>3. Served(p, q) = MirrorOf(p, Gate[p][i], p)
  BY <1>1, <1>2, ServedIs, MirrorsMatch
<1>4. DoneeVidx(p, Gate[p][i]) = Indices(p, q)
  BY <1>3 DEF DoneeVidx, Indices
<1>5. /\ IsSeq(Served(p, q))
      /\ ToSet(Served(p, q)) = {c \in ToSet(Gate[p][i].dofs) : LowestHolder[c] = p}
  BY <1>3, MirrorOfIs
<1>6. (Indices(p, q) # <<>>) <=> (Served(p, q) # <<>>)
  <2>1. DOMAIN Served(p, q) = 1 .. Len(Served(p, q)) /\ Len(Served(p, q)) \in Nat
    BY <1>5, SeqDomain
  <2>2. Indices(p, q) = [k \in 1 .. Len(Served(p, q)) |-> Indices(p, q)[k]]
    BY <2>1 DEF Indices
  <2>3. IsSeq(Indices(p, q)) /\ Len(Indices(p, q)) = Len(Served(p, q))
    BY <2>1, <2>2, FunctionIsSeq
  <2> QED
    BY <1>5, <2>3, SeqLength
<1>7. /\ Served(p, q) # <<>> => ToSet(Served(p, q)) # {}
      /\ ToSet(Served(p, q)) # {} => Served(p, q) # <<>>
  BY <1>5, SeqNotEmpty
<1>8. Serves(p, q) => p < q /\ ToSet(Served(p, q)) # {}
  BY <1>1, ServesIs DEF Serves
<1>9. p < q <=> q > p
  BY <1>1, RankType
<1>10. ToSet(Served(p, q)) # {} => Serves(p, q)
  <2>1. \A c \in ToSet(Served(p, q)) : c \in Holds(q) /\ LowestHolder[c] = p
    BY <1>1, <1>5
  <2> QED
    BY <1>1, <2>1 DEF Serves
<1> QED
  BY <1>4, <1>6, <1>7, <1>8, <1>9, <1>10

\* A list of processes has each process of a set once.
ListsRanks(list, S) ==
  /\ IsSeq(list) /\ DOMAIN list = 1 .. Len(list) /\ Len(list) \in Nat
  /\ \A i \in DOMAIN list : list[i].rank \in S
  /\ \A q \in S : \E i \in DOMAIN list : list[i].rank = q
  /\ \A i, j \in DOMAIN list : list[i].rank = list[j].rank => i = j

OwnersOf(p) == {q \in Rank : Serves(q, p)}
DoneesOf(p) == {q \in Rank : Serves(p, q)}

LEMMA SelectedRanks ==
  ASSUME NEW p \in Rank, NEW places \in SUBSET DOMAIN Gate[p]
  PROVE  ListsRanks(AtPlaces(Gate[p], places), {Gate[p][i].rank : i \in places})
<1> DEFINE t == AtPlaces(Gate[p], places)
<1>1. IsSeq(Gate[p])
  BY AlgDofPartiAssumption DEF IsSeq
<1>2. \A x, y \in places : Gate[p][x] = Gate[p][y] => x = y
  BY GateOnce
<1>3. IsSeq(t) /\ ToSet(t) = {Gate[p][x] : x \in places} /\ IsInjective(t)
  BY <1>1, <1>2, PlacesHave
<1> HIDE DEF t
<1>4. \A i \in DOMAIN t : \E x \in places : t[i] = Gate[p][x]
  BY <1>3 DEF ToSet
<1>5. \A x \in places : \E i \in DOMAIN t : t[i] = Gate[p][x]
  <2>1. \A x \in places : Gate[p][x] \in ToSet(t)
    BY <1>3
  <2> QED
    BY <2>1 DEF ToSet
<1>6. ASSUME NEW i \in DOMAIN t, NEW j \in DOMAIN t, t[i].rank = t[j].rank PROVE i = j
  <2>1. PICK x \in places : t[i] = Gate[p][x]
    BY <1>4
  <2>2. PICK y \in places : t[j] = Gate[p][y]
    BY <1>4
  <2>3. x = y
    BY <1>6, <2>1, <2>2, GateOnce
  <2> QED
    BY <1>3, <2>1, <2>2, <2>3 DEF IsInjective
<1>7. DOMAIN t = 1 .. Len(t) /\ Len(t) \in Nat
  BY <1>3, SeqDomain
<1> QED
  BY <1>3, <1>4, <1>5, <1>6, <1>7 DEF ListsRanks, t

\* An owner-neighbour has DOFs of p, listed as their mirror does.
LEMMA OwnersListed ==
  ASSUME NEW p \in Rank
  PROVE  /\ ListsRanks(owner_neighbours[p], OwnersOf(p))
         /\ \A i \in DOMAIN owner_neighbours[p] :
              owner_neighbours[p][i].idx = Served(owner_neighbours[p][i].rank, p)
<1> DEFINE places == {i \in DOMAIN Gate[p] : Gate[p][i].rank < p /\ OwnerVidx(p, Gate[p][i]) # <<>>}
           t == AtPlaces(Gate[p], places)
           l == owner_neighbours[p]
<1>1. l = [i \in DOMAIN t |-> [rank |-> t[i].rank, idx |-> OwnerVidx(p, t[i])]]
  BY DEF owner_neighbours
<1>2. {Gate[p][i].rank : i \in places} = OwnersOf(p)
  <2>1. \A i \in DOMAIN Gate[p] : i \in places <=> Serves(Gate[p][i].rank, p)
    BY OwnerSide
  <2>2. \A i \in DOMAIN Gate[p] : Gate[p][i].rank \in Rank
    BY GateHas
  <2>3. ASSUME NEW q \in OwnersOf(p) PROVE \E i \in DOMAIN Gate[p] : Gate[p][i].rank = q
    <3>1. PICK d \in Holds(p) : p # q /\ q \in Rank /\ LowestHolder[d] = q
      BY <2>3 DEF OwnersOf, Serves
    <3>2. d \in Holds(p) \cap Holds(q) /\ q \in Rank \ {p}
      BY <3>1, LowestHolderIs
    <3> QED
      BY <3>2, GateReaches
  <2> QED
    BY <2>1, <2>2, <2>3 DEF OwnersOf
<1>3. places \in SUBSET DOMAIN Gate[p]
  OBVIOUS
<1>4. \A i \in DOMAIN t : \E j \in places : t[i] = Gate[p][j]
  <2> HIDE DEF places
  <2>1. IsSeq(Gate[p])
    BY AlgDofPartiAssumption DEF IsSeq
  <2>2. ToSet(t) = {Gate[p][x] : x \in places}
    BY <1>3, <2>1, PlacesHave
  <2> HIDE DEF t
  <2> QED
    BY <2>2 DEF ToSet
<1>5. ListsRanks(t, OwnersOf(p))
  <2> HIDE DEF places
  <2> QED
    BY <1>2, <1>3, SelectedRanks
<1>6. \A i \in DOMAIN t : OwnerVidx(p, t[i]) = Served(t[i].rank, p)
  BY <1>3, <1>4, OwnerSide
<1> HIDE DEF t
<1>7. DOMAIN l = DOMAIN t /\ \A i \in DOMAIN t : l[i].rank = t[i].rank /\ l[i].idx = OwnerVidx(p, t[i])
  BY <1>1
<1>8. IsSeq(l) /\ Len(l) = Len(t)
  <2>1. DOMAIN t = 1 .. Len(t) /\ Len(t) \in Nat
    BY <1>5 DEF ListsRanks
  <2>2. l = [i \in 1 .. Len(t) |-> l[i]]
    BY <1>1, <2>1
  <2> HIDE DEF l
  <2> QED
    BY <2>1, <2>2, FunctionIsSeq
<1> HIDE DEF l
<1>9. ListsRanks(l, OwnersOf(p))
  BY <1>5, <1>7, <1>8 DEF ListsRanks
<1> QED
  BY <1>6, <1>7, <1>9 DEF l

\* A donee has DOFs that p owns.
LEMMA DoneesListed ==
  ASSUME NEW p \in Rank
  PROVE  /\ ListsRanks(donee_neighbours[p], DoneesOf(p))
         /\ \A i \in DOMAIN donee_neighbours[p] :
              donee_neighbours[p][i].idx = Indices(p, donee_neighbours[p][i].rank)
<1> DEFINE places == {i \in DOMAIN Gate[p] : Gate[p][i].rank > p /\ DoneeVidx(p, Gate[p][i]) # <<>>}
           t == AtPlaces(Gate[p], places)
           l == donee_neighbours[p]
<1>1. l = [i \in DOMAIN t |-> [rank |-> t[i].rank, idx |-> DoneeVidx(p, t[i])]]
  BY DEF donee_neighbours
<1>2. {Gate[p][i].rank : i \in places} = DoneesOf(p)
  <2>1. \A i \in DOMAIN Gate[p] : i \in places <=> Serves(p, Gate[p][i].rank)
    BY DoneeSide
  <2>2. \A i \in DOMAIN Gate[p] : Gate[p][i].rank \in Rank
    BY GateHas
  <2>3. ASSUME NEW q \in DoneesOf(p) PROVE \E i \in DOMAIN Gate[p] : Gate[p][i].rank = q
    <3>1. PICK d \in Holds(q) : p # q /\ q \in Rank /\ LowestHolder[d] = p
      BY <2>3 DEF DoneesOf, Serves
    <3>2. d \in Holds(p) \cap Holds(q) /\ q \in Rank \ {p}
      BY <3>1, LowestHolderIs
    <3> QED
      BY <3>2, GateReaches
  <2> QED
    BY <2>1, <2>2, <2>3 DEF DoneesOf
<1>3. places \in SUBSET DOMAIN Gate[p]
  OBVIOUS
<1>4. \A i \in DOMAIN t : \E j \in places : t[i] = Gate[p][j]
  <2> HIDE DEF places
  <2>1. IsSeq(Gate[p])
    BY AlgDofPartiAssumption DEF IsSeq
  <2>2. ToSet(t) = {Gate[p][x] : x \in places}
    BY <1>3, <2>1, PlacesHave
  <2> HIDE DEF t
  <2> QED
    BY <2>2 DEF ToSet
<1>5. ListsRanks(t, DoneesOf(p))
  <2> HIDE DEF places
  <2> QED
    BY <1>2, <1>3, SelectedRanks
<1>6. \A i \in DOMAIN t : DoneeVidx(p, t[i]) = Indices(p, t[i].rank)
  BY <1>3, <1>4, DoneeSide
<1> HIDE DEF t
<1>7. DOMAIN l = DOMAIN t /\ \A i \in DOMAIN t : l[i].rank = t[i].rank /\ l[i].idx = DoneeVidx(p, t[i])
  BY <1>1
<1>8. IsSeq(l) /\ Len(l) = Len(t)
  <2>1. DOMAIN t = 1 .. Len(t) /\ Len(t) \in Nat
    BY <1>5 DEF ListsRanks
  <2>2. l = [i \in 1 .. Len(t) |-> l[i]]
    BY <1>1, <2>1
  <2> HIDE DEF l
  <2> QED
    BY <2>1, <2>2, FunctionIsSeq
<1> HIDE DEF l
<1>9. ListsRanks(l, DoneesOf(p))
  BY <1>5, <1>7, <1>8 DEF ListsRanks
<1> QED
  BY <1>6, <1>7, <1>9 DEF l

----------------------------------------------------------------------------
(* Calls and rounds.                                                       *)

LEMMA ProgramIs ==
  /\ Len(Program) \in Nat /\ DOMAIN Program = 1 .. Len(Program)
  /\ \A t \in 1 .. Len(Program) :
       Program[t] \in {"init_symbolic", "init_numeric", "apply", "allgather", "done_symbolic"}
<1> DEFINE S == {"init_symbolic", "init_numeric", "apply", "allgather", "done_symbolic"}
<1>1. Program \in Seq(S)
  BY AlgDofPartiAssumption
<1> HIDE DEF S
<1>2. Len(Program) \in Nat /\ DOMAIN Program = 1 .. Len(Program)
  BY <1>1
<1>3. \A t \in 1 .. Len(Program) : Program[t] \in S
  BY <1>1, <1>2
<1> QED
  BY <1>2, <1>3 DEF S

LEMMA NotSetUp == ~SetUp(0)
BY DEF SetUp

LEMMA SetUpNext ==
  ASSUME NEW t \in 1 .. Len(Program)
  PROVE  /\ Program[t] = "init_symbolic" <=> ~SetUp(t - 1)
         /\ SetUp(t) <=> Program[t] = "init_symbolic" \/ (SetUp(t - 1) /\ Program[t] # "done_symbolic")
<1>1. Program[t] = "init_symbolic" <=> ~SetUp(t - 1)
  BY ProgramIs, LifeCycleAssumption
<1>2. t \in Nat \ {0} /\ t \in 1 .. t /\ t + 1 .. t = {}
  BY ProgramIs
<1>3. Program[t] = "init_symbolic" => SetUp(t)
  BY <1>2 DEF SetUp
<1>4. ASSUME SetUp(t - 1), Program[t] # "done_symbolic" PROVE SetUp(t)
  <2>1. PICK s \in 1 .. t - 1 :
          Program[s] = "init_symbolic" /\ \A u \in s + 1 .. t - 1 : Program[u] # "done_symbolic"
    BY <1>4 DEF SetUp
  <2>2. s \in 1 .. t /\ \A u \in s + 1 .. t : u = t \/ u \in s + 1 .. t - 1
    BY <1>2
  <2> QED
    BY <1>4, <2>1, <2>2 DEF SetUp
<1>5. ASSUME SetUp(t), Program[t] # "init_symbolic" PROVE SetUp(t - 1) /\ Program[t] # "done_symbolic"
  <2>1. PICK s \in 1 .. t :
          Program[s] = "init_symbolic" /\ \A u \in s + 1 .. t : Program[u] # "done_symbolic"
    BY <1>5 DEF SetUp
  <2>2. s \in 1 .. t - 1
    BY <1>2, <1>5, <2>1
  <2>3. t \in s + 1 .. t /\ \A u \in s + 1 .. t - 1 : u \in s + 1 .. t
    BY <1>2, <2>2
  <2> QED
    BY <2>1, <2>2, <2>3 DEF SetUp
<1> QED
  BY <1>1, <1>3, <1>4, <1>5

LEMMA CountIs ==
  ASSUME NEW dir \in Dir, NEW t \in 1 .. Len(Program)
  PROVE  /\ SumBefore(Count(dir), t) \in Nat /\ Count(dir)[t] \in Nat
         /\ SumBefore(Count(dir), t + 1) = SumBefore(Count(dir), t) + Count(dir)[t]
         /\ Program[t] = "init_symbolic" => Count(dir)[t] = IF dir = "up" THEN 3 ELSE 1
         /\ Program[t] = "init_numeric" => Count(dir)[t] = IF dir = "up" THEN 1 ELSE 0
         /\ Program[t] = "apply" => Count(dir)[t] = IF dir = "up" THEN 0 ELSE 1
         /\ Program[t] \in {"allgather", "done_symbolic"} => Count(dir)[t] = 0
<1>1. Len(Program) \in Nat
  BY ProgramIs
<1>2. \A s \in 1 .. Len(Program) :
         /\ Count(dir)[s] \in Nat
         /\ Program[s] = "init_symbolic" => Count(dir)[s] = IF dir = "up" THEN 3 ELSE 1
         /\ Program[s] = "init_numeric" => Count(dir)[s] = IF dir = "up" THEN 1 ELSE 0
         /\ Program[s] = "apply" => Count(dir)[s] = IF dir = "up" THEN 0 ELSE 1
         /\ Program[s] \in {"allgather", "done_symbolic"} => Count(dir)[s] = 0
  <2> TAKE s \in 1 .. Len(Program)
  <2>1. Count(dir)[s] =
          CASE Program[s] = "init_symbolic" -> IF dir = "up" THEN 3 ELSE 1
            [] Program[s] = "init_numeric" -> IF dir = "up" THEN 1 ELSE 0
            [] Program[s] = "apply" -> IF dir = "up" THEN 0 ELSE 1
            [] OTHER -> 0
    BY DEF Count
  <2> QED
    BY <2>1, ProgramIs
<1> DEFINE v == Count(dir)
<1> HIDE DEF v
<1>3. \A s \in 1 .. Len(Program) : v[s] \in Nat
  BY <1>2 DEF v
<1>4. SumBefore(v, t) \in Nat /\ SumBefore(v, t + 1) = SumBefore(v, t) + v[t]
  <2>1. t \in 1 .. Len(Program) + 1
    BY <1>1
  <2> QED
    BY <1>1, <1>3, <2>1, SumBeforeNext
<1> QED
  BY <1>2, <1>4 DEF v

LEMMA SharesIs ==
  ASSUME NEW t \in 1 .. Len(Program)
  PROVE  /\ SumBefore(Shares, t) \in Nat /\ Shares[t] \in Nat
         /\ SumBefore(Shares, t + 1) = SumBefore(Shares, t) + Shares[t]
         /\ Program[t] = "init_symbolic" => Shares[t] = 2
         /\ Program[t] = "allgather" => Shares[t] = 3
         /\ Program[t] \in {"init_numeric", "apply", "done_symbolic"} => Shares[t] = 0
<1>1. Len(Program) \in Nat
  BY ProgramIs
<1>2. \A s \in 1 .. Len(Program) :
         /\ Shares[s] \in Nat
         /\ Program[s] = "init_symbolic" => Shares[s] = 2
         /\ Program[s] = "allgather" => Shares[s] = 3
         /\ Program[s] \in {"init_numeric", "apply", "done_symbolic"} => Shares[s] = 0
  <2> TAKE s \in 1 .. Len(Program)
  <2>1. Shares[s] = CASE Program[s] = "init_symbolic" -> 2
                      [] Program[s] = "allgather" -> 3
                      [] OTHER -> 0
    BY DEF Shares
  <2> QED
    BY <2>1
<1> DEFINE v == Shares
<1> HIDE DEF v
<1>3. \A s \in 1 .. Len(Program) : v[s] \in Nat
  BY <1>2 DEF v
<1>4. SumBefore(v, t) \in Nat /\ SumBefore(v, t + 1) = SumBefore(v, t) + v[t]
  <2>1. t \in 1 .. Len(Program) + 1
    BY <1>1
  <2> QED
    BY <1>1, <1>3, <2>1, SumBeforeNext
<1> QED
  BY <1>2, <1>4 DEF v

\* Where a process goes within a call, and where each call begins.
Moves ==
  {<<"exscan", "allreduce">>, <<"allreduce", "numbers">>, <<"numbers", "dims">>, <<"dims", "rows">>,
   <<"rows", "cols">>, <<"cols", "none">>, <<"values", "none">>, <<"shared", "none">>,
   <<"offsets", "counts">>, <<"counts", "full">>, <<"full", "none">>}

Starts ==
  {<<"init_symbolic", "exscan">>, <<"init_numeric", "values">>, <<"apply", "shared">>,
   <<"allgather", "offsets">>, <<"done_symbolic", "none">>}

LEMMA RoundsAre ==
  /\ Rounds("up") = {"dims", "rows", "cols", "values"} /\ Rounds("down") = {"numbers", "shared"}
  /\ Early("up") = {"exscan", "allreduce", "numbers"} /\ Early("down") = {"exscan", "allreduce"}
  /\ RoundNo("numbers") = 1 /\ RoundNo("shared") = 1 /\ RoundNo("dims") = 1
  /\ RoundNo("rows") = 2 /\ RoundNo("cols") = 3 /\ RoundNo("values") = 1
BY DEF Rounds, Early, RoundNo, ToOwners, ToDonees

LEMMA DoneUp ==
  ASSUME NEW t, NEW a \in Nat, a = SumBefore(Count("up"), t), NEW b \in Nat, b = SumBefore(Count("up"), t + 1)
  PROVE  /\ \A u \in {"exscan", "allreduce", "numbers"} :
              Done("up", t, u, TRUE) = a /\ Done("up", t, u, FALSE) = a
         /\ \A u \in {"shared", "offsets", "counts", "full", "none"} :
              Done("up", t, u, TRUE) = b /\ Done("up", t, u, FALSE) = b
         /\ Done("up", t, "dims", FALSE) = a /\ Done("up", t, "dims", TRUE) = a + 1
         /\ Done("up", t, "rows", FALSE) = a + 1 /\ Done("up", t, "rows", TRUE) = a + 2
         /\ Done("up", t, "cols", FALSE) = a + 2 /\ Done("up", t, "cols", TRUE) = a + 3
         /\ Done("up", t, "values", FALSE) = a /\ Done("up", t, "values", TRUE) = a + 1
<1>1. \A u \in {"exscan", "allreduce", "numbers"} : u \notin Rounds("up") /\ Past("up", t, u) = a
  BY RoundsAre DEF Past
<1>2. \A u \in {"shared", "offsets", "counts", "full", "none"} :
        u \notin Rounds("up") /\ Past("up", t, u) = b
  BY RoundsAre DEF Past
<1>3. /\ \A u \in {"dims", "rows", "cols", "values"} : u \in Rounds("up")
      /\ Past("up", t, "dims") = a /\ Past("up", t, "rows") = a + 1
      /\ Past("up", t, "cols") = a + 2 /\ Past("up", t, "values") = a
  BY RoundsAre DEF Past
<1>4. \A u, x : u \notin Rounds("up") /\ Past("up", t, u) \in Nat => Done("up", t, u, x) = Past("up", t, u)
  BY DEF Done
<1>5. \A u : u \in Rounds("up") /\ Past("up", t, u) \in Nat =>
        Done("up", t, u, TRUE) = Past("up", t, u) + 1 /\ Done("up", t, u, FALSE) = Past("up", t, u)
  BY DEF Done
<1>6. /\ Done("up", t, "dims", FALSE) = a /\ Done("up", t, "dims", TRUE) = a + 1
      /\ Done("up", t, "rows", FALSE) = a + 1 /\ Done("up", t, "rows", TRUE) = a + 2
      /\ Done("up", t, "cols", FALSE) = a + 2 /\ Done("up", t, "cols", TRUE) = a + 3
      /\ Done("up", t, "values", FALSE) = a /\ Done("up", t, "values", TRUE) = a + 1
  <2>1. Done("up", t, "dims", FALSE) = a /\ Done("up", t, "dims", TRUE) = a + 1
    BY <1>3, <1>5
  <2>2. Done("up", t, "rows", FALSE) = a + 1 /\ Done("up", t, "rows", TRUE) = a + 2
    <3>1. a + 1 \in Nat /\ (a + 1) + 1 = a + 2
      OBVIOUS
    <3>2. Done("up", t, "rows", FALSE) = a + 1 /\ Done("up", t, "rows", TRUE) = (a + 1) + 1
      BY <1>3, <1>5, <3>1, Zenon
    <3> QED
      BY <3>1, <3>2
  <2>3. Done("up", t, "cols", FALSE) = a + 2 /\ Done("up", t, "cols", TRUE) = a + 3
    <3>1. a + 2 \in Nat /\ (a + 2) + 1 = a + 3
      OBVIOUS
    <3>2. Done("up", t, "cols", FALSE) = a + 2 /\ Done("up", t, "cols", TRUE) = (a + 2) + 1
      BY <1>3, <1>5, <3>1, Zenon
    <3> QED
      BY <3>1, <3>2
  <2>4. Done("up", t, "values", FALSE) = a /\ Done("up", t, "values", TRUE) = a + 1
    BY <1>3, <1>5
  <2> QED
    BY <2>1, <2>2, <2>3, <2>4
<1> QED
  BY <1>1, <1>2, <1>4, <1>6

LEMMA DoneDown ==
  ASSUME NEW t, NEW a \in Nat, a = SumBefore(Count("down"), t), NEW b \in Nat, b = SumBefore(Count("down"), t + 1)
  PROVE  /\ \A u \in {"exscan", "allreduce"} :
              Done("down", t, u, TRUE) = a /\ Done("down", t, u, FALSE) = a
         /\ \A u \in {"dims", "rows", "cols", "values", "offsets", "counts", "full", "none"} :
              Done("down", t, u, TRUE) = b /\ Done("down", t, u, FALSE) = b
         /\ Done("down", t, "numbers", FALSE) = a /\ Done("down", t, "numbers", TRUE) = a + 1
         /\ Done("down", t, "shared", FALSE) = a /\ Done("down", t, "shared", TRUE) = a + 1
<1>1. \A u \in {"exscan", "allreduce"} : u \notin Rounds("down") /\ Past("down", t, u) = a
  BY RoundsAre DEF Past
<1>2. \A u \in {"dims", "rows", "cols", "values", "offsets", "counts", "full", "none"} :
        u \notin Rounds("down") /\ Past("down", t, u) = b
  BY RoundsAre DEF Past
<1>3. /\ \A u \in {"numbers", "shared"} : u \in Rounds("down")
      /\ Past("down", t, "numbers") = a /\ Past("down", t, "shared") = a
  BY RoundsAre DEF Past
<1>4. \A u, x : u \notin Rounds("down") /\ Past("down", t, u) \in Nat => Done("down", t, u, x) = Past("down", t, u)
  BY DEF Done
<1>5. \A u : u \in Rounds("down") /\ Past("down", t, u) \in Nat =>
        Done("down", t, u, TRUE) = Past("down", t, u) + 1 /\ Done("down", t, u, FALSE) = Past("down", t, u)
  BY DEF Done
<1>6. /\ Done("down", t, "numbers", FALSE) = a /\ Done("down", t, "numbers", TRUE) = a + 1
      /\ Done("down", t, "shared", FALSE) = a /\ Done("down", t, "shared", TRUE) = a + 1
  BY <1>3, <1>5
<1> QED
  BY <1>1, <1>2, <1>4, <1>6

LEMMA DoneMoves ==
  ASSUME NEW dir \in Dir, NEW t \in 1 .. Len(Program), NEW w, NEW v, <<w, v>> \in Moves,
         Program[t] = CallOf(w)
  PROVE  Done(dir, t, w, TRUE) = Done(dir, t, v, FALSE)
<1> PICK a \in Nat, b \in Nat, c \in Nat :
       /\ a = SumBefore(Count(dir), t) /\ c = Count(dir)[t] /\ b = SumBefore(Count(dir), t + 1)
       /\ b = a + c
  BY CountIs
<1>1. /\ Program[t] = "init_symbolic" => c = IF dir = "up" THEN 3 ELSE 1
      /\ Program[t] = "init_numeric" => c = IF dir = "up" THEN 1 ELSE 0
      /\ Program[t] = "apply" => c = IF dir = "up" THEN 0 ELSE 1
      /\ Program[t] = "allgather" => c = 0
  BY CountIs
<1>2. CASE dir = "up"
  <2>0. a = SumBefore(Count("up"), t) /\ b = SumBefore(Count("up"), t + 1)
    BY <1>2
  <2>1. /\ \A u \in {"exscan", "allreduce", "numbers"} :
              Done("up", t, u, TRUE) = a /\ Done("up", t, u, FALSE) = a
        /\ \A u \in {"shared", "offsets", "counts", "full", "none"} :
              Done("up", t, u, TRUE) = b /\ Done("up", t, u, FALSE) = b
        /\ Done("up", t, "dims", FALSE) = a /\ Done("up", t, "dims", TRUE) = a + 1
        /\ Done("up", t, "rows", FALSE) = a + 1 /\ Done("up", t, "rows", TRUE) = a + 2
        /\ Done("up", t, "cols", FALSE) = a + 2 /\ Done("up", t, "cols", TRUE) = a + 3
        /\ Done("up", t, "values", FALSE) = a /\ Done("up", t, "values", TRUE) = a + 1
    BY <2>0, DoneUp
  <2> QED
    BY <1>1, <1>2, <2>1 DEF Moves, CallOf
<1>3. CASE dir = "down"
  <2>0. a = SumBefore(Count("down"), t) /\ b = SumBefore(Count("down"), t + 1)
    BY <1>3
  <2>1. /\ \A u \in {"exscan", "allreduce"} : Done("down", t, u, TRUE) = a /\ Done("down", t, u, FALSE) = a
        /\ \A u \in {"dims", "rows", "cols", "values", "offsets", "counts", "full", "none"} :
              Done("down", t, u, TRUE) = b /\ Done("down", t, u, FALSE) = b
        /\ Done("down", t, "numbers", FALSE) = a /\ Done("down", t, "numbers", TRUE) = a + 1
        /\ Done("down", t, "shared", FALSE) = a /\ Done("down", t, "shared", TRUE) = a + 1
    BY <2>0, DoneDown
  <2> QED
    BY <1>1, <1>3, <2>1 DEF Moves, CallOf
<1> QED
  BY <1>2, <1>3 DEF Dir

LEMMA DoneBegins ==
  ASSUME NEW dir \in Dir, NEW n \in 1 .. Len(Program), NEW v, <<Program[n], v>> \in Starts
  PROVE  Done(dir, n, v, FALSE) = SumBefore(Count(dir), n)
<1> PICK a \in Nat, b \in Nat, c \in Nat :
       /\ a = SumBefore(Count(dir), n) /\ c = Count(dir)[n] /\ b = SumBefore(Count(dir), n + 1)
       /\ b = a + c
  BY CountIs
<1>1. /\ Program[n] = "init_symbolic" => c = IF dir = "up" THEN 3 ELSE 1
      /\ Program[n] = "init_numeric" => c = IF dir = "up" THEN 1 ELSE 0
      /\ Program[n] = "apply" => c = IF dir = "up" THEN 0 ELSE 1
      /\ Program[n] \in {"allgather", "done_symbolic"} => c = 0
  BY CountIs
<1>2. \/ Program[n] = "init_symbolic" /\ v = "exscan"
      \/ Program[n] = "init_numeric" /\ v = "values"
      \/ Program[n] = "apply" /\ v = "shared"
      \/ Program[n] = "allgather" /\ v = "offsets"
      \/ Program[n] = "done_symbolic" /\ v = "none"
  BY DEF Starts
<1>3. CASE dir = "up"
  <2>0. a = SumBefore(Count("up"), n) /\ b = SumBefore(Count("up"), n + 1)
    BY <1>3
  <2>1. /\ \A u \in {"exscan", "allreduce", "numbers"} :
              Done("up", n, u, TRUE) = a /\ Done("up", n, u, FALSE) = a
        /\ \A u \in {"shared", "offsets", "counts", "full", "none"} :
              Done("up", n, u, TRUE) = b /\ Done("up", n, u, FALSE) = b
        /\ Done("up", n, "dims", FALSE) = a /\ Done("up", n, "dims", TRUE) = a + 1
        /\ Done("up", n, "rows", FALSE) = a + 1 /\ Done("up", n, "rows", TRUE) = a + 2
        /\ Done("up", n, "cols", FALSE) = a + 2 /\ Done("up", n, "cols", TRUE) = a + 3
        /\ Done("up", n, "values", FALSE) = a /\ Done("up", n, "values", TRUE) = a + 1
    BY <2>0, DoneUp
  <2>2. Done(dir, n, v, FALSE) = Done("up", n, v, FALSE)
    BY <1>3
  <2>3. Done("up", n, v, FALSE) = a
    <3>1. CASE Program[n] = "init_symbolic" /\ v = "exscan"
      BY <2>1, <3>1
    <3>2. CASE Program[n] = "init_numeric" /\ v = "values"
      BY <2>1, <3>2
    <3>3. CASE Program[n] = "apply" /\ v = "shared"
      <4>1. c = 0 /\ b = a
        BY <1>1, <1>3, <3>3
      <4> QED
        BY <2>1, <3>3, <4>1
    <3>4. CASE Program[n] = "allgather" /\ v = "offsets"
      <4>1. c = 0 /\ b = a
        BY <1>1, <1>3, <3>4
      <4> QED
        BY <2>1, <3>4, <4>1
    <3>5. CASE Program[n] = "done_symbolic" /\ v = "none"
      <4>1. c = 0 /\ b = a
        BY <1>1, <1>3, <3>5
      <4> QED
        BY <2>1, <3>5, <4>1
    <3> QED
      BY <1>2, <3>1, <3>2, <3>3, <3>4, <3>5
  <2> QED
    BY <2>2, <2>3
<1>4. CASE dir = "down"
  <2>0. a = SumBefore(Count("down"), n) /\ b = SumBefore(Count("down"), n + 1)
    BY <1>4
  <2>1. /\ \A u \in {"exscan", "allreduce"} : Done("down", n, u, TRUE) = a /\ Done("down", n, u, FALSE) = a
        /\ \A u \in {"dims", "rows", "cols", "values", "offsets", "counts", "full", "none"} :
              Done("down", n, u, TRUE) = b /\ Done("down", n, u, FALSE) = b
        /\ Done("down", n, "numbers", FALSE) = a /\ Done("down", n, "numbers", TRUE) = a + 1
        /\ Done("down", n, "shared", FALSE) = a /\ Done("down", n, "shared", TRUE) = a + 1
    BY <2>0, DoneDown
  <2>2. Done(dir, n, v, FALSE) = Done("down", n, v, FALSE)
    BY <1>4
  <2>3. Done("down", n, v, FALSE) = a
    <3>1. CASE Program[n] = "init_symbolic" /\ v = "exscan"
      BY <2>1, <3>1
    <3>2. CASE Program[n] = "init_numeric" /\ v = "values"
      <4>1. c = 0 /\ b = a
        BY <1>1, <1>4, <3>2
      <4> QED
        BY <2>1, <3>2, <4>1
    <3>3. CASE Program[n] = "apply" /\ v = "shared"
      BY <2>1, <3>3
    <3>4. CASE Program[n] = "allgather" /\ v = "offsets"
      <4>1. c = 0 /\ b = a
        BY <1>1, <1>4, <3>4
      <4> QED
        BY <2>1, <3>4, <4>1
    <3>5. CASE Program[n] = "done_symbolic" /\ v = "none"
      <4>1. c = 0 /\ b = a
        BY <1>1, <1>4, <3>5
      <4> QED
        BY <2>1, <3>5, <4>1
    <3> QED
      BY <1>2, <3>1, <3>2, <3>3, <3>4, <3>5
  <2> QED
    BY <2>2, <2>3
<1> QED
  BY <1>3, <1>4 DEF Dir

LEMMA DoneStarts ==
  ASSUME NEW dir \in Dir, NEW t \in Nat, t + 1 \in 1 .. Len(Program),
         NEW v, <<Program[t + 1], v>> \in Starts
  PROVE  Done(dir, t, "none", TRUE) = Done(dir, t + 1, v, FALSE)
<1>1. "none" \notin Rounds(dir) /\ "none" \notin Early(dir)
  BY RoundsAre DEF Dir
<1>2. Past(dir, t, "none") = SumBefore(Count(dir), t + 1) /\ SumBefore(Count(dir), t + 1) \in Nat
  BY <1>1, CountIs DEF Past
<1>3. Done(dir, t, "none", TRUE) = SumBefore(Count(dir), t + 1)
  BY <1>1, <1>2 DEF Done
<1> QED
  BY <1>3, DoneBegins

----------------------------------------------------------------------------
(* Who sends to whom.                                                      *)

\* q sends to p.
Link(dir, q, p) == IF dir = "up" THEN Serves(p, q) ELSE Serves(q, p)

LEMMA SourcesListed ==
  ASSUME NEW dir \in Dir, NEW p \in Rank
  PROVE  ListsRanks(Sources(dir, p), {q \in Rank : Link(dir, q, p)})
<1>1. CASE dir = "up"
  BY <1>1, DoneesListed DEF Sources, Link, DoneesOf
<1>2. CASE dir = "down"
  BY <1>2, OwnersListed DEF Sources, Link, OwnersOf
<1> QED
  BY <1>1, <1>2 DEF Dir

LEMMA TargetsListed ==
  ASSUME NEW dir \in Dir, NEW p \in Rank
  PROVE  ListsRanks(Targets(dir, p), {q \in Rank : Link(dir, p, q)})
<1>1. CASE dir = "up"
  BY <1>1, OwnersListed DEF Targets, Link, OwnersOf
<1>2. CASE dir = "down"
  BY <1>2, DoneesListed DEF Targets, Link, DoneesOf
<1> QED
  BY <1>1, <1>2 DEF Dir

LEMMA SourceIs ==
  ASSUME NEW dir \in Dir, NEW p \in Rank, NEW i \in DOMAIN Sources(dir, p)
  PROVE  Sources(dir, p)[i].rank \in Rank /\ Link(dir, Sources(dir, p)[i].rank, p)
BY SourcesListed DEF ListsRanks

\* Two processes send to each other in different directions.
LEMMA LinkIsOneWay ==
  ASSUME NEW dir \in Dir, NEW e \in Dir, NEW p \in Rank, NEW q \in Rank, Link(dir, p, q)
  PROVE  p # q /\ (Link(e, p, q) => e = dir)
<1>1. \A m, n \in Rank : Serves(m, n) => m < n /\ m \in Nat /\ n \in Nat
  BY ServesIs, RankType
<1>2. ~(Serves(p, q) /\ Serves(q, p)) /\ (Serves(p, q) \/ Serves(q, p))
  BY <1>1 DEF Link
<1>3. p # q
  BY <1>2 DEF Serves
<1> QED
  BY <1>2, <1>3 DEF Link, Dir

----------------------------------------------------------------------------
(* What a step leaves alone.                                               *)

LEMMA DoneSame ==
  ASSUME NEW dir, NEW t, NEW w, NEW x, NEW y, w \in Rounds(dir) => (x <=> y)
  PROVE  Done(dir, t, w, x) = Done(dir, t, w, y)
BY DEF Done

LEMMA OthersKeep ==
  ASSUME NEW r \in Rank, LocalInv(r),
         begun'[r] = begun[r], at'[r] = at[r], posted'[r] = posted[r], recvs'[r] = recvs[r],
         given'[r] = given[r], adp'[r] = adp[r], bufs'[r] = bufs[r]
  PROVE  LocalInv(r)'
<1>1. Phase(r)'
  BY DEF LocalInv, Phase
<1>2. Partition(r)'
  <2>1. \A q : Awaits(r, q)' <=> Awaits(r, q)
    BY DEF Awaits
  <2>2. Numbers(r)' <=> Numbers(r)
    BY <2>1 DEF Numbers
  <2> QED
    BY <2>2 DEF LocalInv, Partition
<1>3. Buffer(r)'
  BY DEF LocalInv, Buffer, RowsKnown, ColsKnown
<1>4. Collective(r)'
  BY DEF LocalInv, Collective
<1> QED
  BY <1>1, <1>2, <1>3, <1>4 DEF LocalInv

LEMMA ChannelsKeep ==
  ASSUME InOrder, OnlyNeighbours, NEW p \in Rank, chan' = chan,
         \A r \in Rank \ {p} : /\ begun'[r] = begun[r] /\ at'[r] = at[r]
                               /\ posted'[r] = posted[r] /\ recvs'[r] = recvs[r],
         \A dir \in Dir : /\ Sent(dir, p)' = Sent(dir, p)
                          /\ \A i \in DOMAIN Sources(dir, p) : Taken(dir, p, i)' = Taken(dir, p, i)
  PROVE  InOrder' /\ OnlyNeighbours'
<1>1. \A dir \in Dir, r \in Rank : Sent(dir, r)' = Sent(dir, r)
  BY DEF Sent
<1>2. \A dir \in Dir, r \in Rank : \A i \in DOMAIN Sources(dir, r) : Taken(dir, r, i)' = Taken(dir, r, i)
  BY DEF Taken
<1>3. InOrder'
  <2> SUFFICES ASSUME NEW dir \in Dir, NEW r \in Rank, NEW i \in DOMAIN Sources(dir, r)
               PROVE  LET q == Sources(dir, r)[i].rank
                          c == chan'[q][r]
                      IN  /\ Len(c) = Sent(dir, q)' - Taken(dir, r, i)'
                          /\ \A k \in 1 .. Len(c) : /\ IsMessage(dir, q, r, c[k])
                                                    /\ Serial(dir, c[k]) = Taken(dir, r, i)' + k
    BY DEF InOrder
  <2>1. Sources(dir, r)[i].rank \in Rank
    BY SourceIs
  <2> QED
    BY <1>1, <1>2, <2>1 DEF InOrder
<1>4. OnlyNeighbours'
  BY DEF OnlyNeighbours
<1> QED
  BY <1>3, <1>4

\* A process goes on after a round or a collective.
LEMMA CountsStay ==
  ASSUME Shape, NEW p \in Rank, Phase(p), NEW v, <<at[p], v>> \in Moves,
         at[p] \in ToOwners \cup ToDonees => posted[p] /\ recvs[p] = {},
         begun'[p] = begun[p], at'[p] = v, posted'[p] = FALSE,
         \A dir \in Dir : v \in Rounds(dir) => DOMAIN Sources(dir, p) \subseteq recvs'[p]
  PROVE  \A dir \in Dir : /\ Sent(dir, p)' = Sent(dir, p)
                          /\ \A i \in DOMAIN Sources(dir, p) : Taken(dir, p, i)' = Taken(dir, p, i)
<1> TAKE dir \in Dir
<1>1. at[p] # "none" /\ begun[p] \in 1 .. Len(Program) /\ Program[begun[p]] = CallOf(at[p])
  <2>1. at[p] # "none"
    BY DEF Moves
  <2>2. begun[p] \in 0 .. Len(Program)
    BY DEF Shape
  <2> QED
    BY <2>1, <2>2, ProgramIs DEF Phase
<1>2. Done(dir, begun[p], at[p], TRUE) = Done(dir, begun[p], v, FALSE)
  <2> PICK t \in 1 .. Len(Program) : t = begun[p]
    BY <1>1
  <2> PICK w : w = at[p]
    OBVIOUS
  <2>1. Done(dir, t, w, TRUE) = Done(dir, t, v, FALSE)
    BY <1>1, DoneMoves
  <2> QED
    BY <2>1
<1>3. at[p] \in Rounds(dir) => at[p] \in ToOwners \cup ToDonees
  BY DEF Rounds
<1>4. Sent(dir, p) = Done(dir, begun[p], at[p], TRUE) /\ Sent(dir, p)' = Done(dir, begun[p], v, FALSE)
  BY <1>3, DoneSame DEF Sent
<1>5. ASSUME NEW i \in DOMAIN Sources(dir, p)
      PROVE  /\ Taken(dir, p, i) = Done(dir, begun[p], at[p], TRUE)
             /\ Taken(dir, p, i)' = Done(dir, begun[p], v, FALSE)
  <2>1. Taken(dir, p, i) = Done(dir, begun[p], at[p], TRUE)
    BY <1>3 DEF Taken, Done
  <2>2. v \in Rounds(dir) => i \in recvs'[p]
    BY <1>5
  <2>3. Taken(dir, p, i)' = Done(dir, begun[p], v, FALSE)
    BY <2>2 DEF Taken, Done
  <2> QED
    BY <2>1, <2>3
<1> QED
  BY <1>2, <1>4, <1>5

\* A process begins the next call.
LEMMA CountsStart ==
  ASSUME Shape, NEW p \in Rank, NEW call, MayStart(p, call), NEW v, <<call, v>> \in Starts,
         begun'[p] = begun[p] + 1, at'[p] = v, posted'[p] = FALSE,
         \A dir \in Dir : v \in Rounds(dir) => DOMAIN Sources(dir, p) \subseteq recvs'[p]
  PROVE  \A dir \in Dir : /\ Sent(dir, p)' = Sent(dir, p)
                          /\ \A i \in DOMAIN Sources(dir, p) : Taken(dir, p, i)' = Taken(dir, p, i)
<1> TAKE dir \in Dir
<1>1. /\ at[p] = "none" /\ begun[p] \in Nat /\ begun[p] + 1 \in 1 .. Len(Program)
      /\ Program[begun[p] + 1] = call
  <2>1. begun[p] \in 0 .. Len(Program)
    BY DEF Shape
  <2> QED
    BY <2>1, ProgramIs DEF MayStart
<1>2. Done(dir, begun[p], "none", TRUE) = Done(dir, begun[p] + 1, v, FALSE)
  <2> PICK t \in Nat : t = begun[p]
    BY <1>1
  <2>1. Done(dir, t, "none", TRUE) = Done(dir, t + 1, v, FALSE)
    BY <1>1, DoneStarts
  <2> QED
    BY <2>1
<1>3. "none" \notin Rounds(dir)
  BY RoundsAre DEF Dir
<1>4. /\ Sent(dir, p) = Done(dir, begun[p], "none", TRUE)
      /\ Sent(dir, p)' = Done(dir, begun[p] + 1, v, FALSE)
  BY <1>1, <1>3 DEF Sent, Done
<1>5. ASSUME NEW i \in DOMAIN Sources(dir, p)
      PROVE  /\ Taken(dir, p, i) = Done(dir, begun[p], "none", TRUE)
             /\ Taken(dir, p, i)' = Done(dir, begun[p] + 1, v, FALSE)
  <2>1. Taken(dir, p, i) = Done(dir, begun[p], "none", TRUE)
    BY <1>1, <1>3 DEF Taken, Done
  <2>2. v \in Rounds(dir) => i \in recvs'[p]
    BY <1>5
  <2>3. Taken(dir, p, i)' = Done(dir, begun[p] + 1, v, FALSE)
    BY <2>2 DEF Taken, Done
  <2> QED
    BY <2>1, <2>3
<1> QED
  BY <1>2, <1>4, <1>5

----------------------------------------------------------------------------
(* Parts of a step.                                                        *)

OthersStay(p) ==
  \A r \in Rank \ {p} :
    /\ begun'[r] = begun[r] /\ at'[r] = at[r] /\ posted'[r] = posted[r] /\ recvs'[r] = recvs[r]
    /\ given'[r] = given[r] /\ adp'[r] = adp[r] /\ bufs'[r] = bufs[r]

CountsSame(p) ==
  \A dir \in Dir : /\ Sent(dir, p)' = Sent(dir, p)
                   /\ \A i \in DOMAIN Sources(dir, p) : Taken(dir, p, i)' = Taken(dir, p, i)

LEMMA QuietStep ==
  ASSUME Inv, NEW p \in Rank, Shape', LocalInv(p)', OthersStay(p), CountsSame(p), chan' = chan
  PROVE  Inv'
<1>1. InOrder' /\ OnlyNeighbours'
  BY ChannelsKeep DEF Inv, OthersStay, CountsSame
<1>2. ASSUME NEW r \in Rank, r # p PROVE LocalInv(r)'
  BY <1>2, OthersKeep DEF Inv, OthersStay
<1> QED
  BY <1>1, <1>2 DEF Inv

LEMMA SetUpIs ==
  ASSUME NEW t \in 1 .. Len(Program)
  PROVE  SetUp(t) <=> Program[t] # "done_symbolic"
BY SetUpNext

LEMMA CallIs ==
  ASSUME Shape, NEW p \in Rank, Phase(p), at[p] # "none"
  PROVE  begun[p] \in 1 .. Len(Program) /\ Program[begun[p]] = CallOf(at[p]) /\ SetUp(begun[p])
<1>1. begun[p] \in 0 .. Len(Program) /\ at[p] \in Where
  BY DEF Shape
<1>2. begun[p] \in 1 .. Len(Program) /\ Program[begun[p]] = CallOf(at[p])
  BY <1>1, ProgramIs DEF Phase
<1>3. CallOf(at[p]) # "done_symbolic"
  BY <1>1 DEF CallOf, Where, ToOwners, ToDonees
<1> QED
  BY <1>2, <1>3, SetUpIs

LEMMA StartIs ==
  ASSUME Shape, NEW p \in Rank, NEW call, MayStart(p, call)
  PROVE  /\ at[p] = "none" /\ begun[p] \in Nat /\ begun[p] + 1 \in 1 .. Len(Program)
         /\ Program[begun[p] + 1] = call
         /\ call = "init_symbolic" <=> ~SetUp(begun[p])
         /\ SetUp(begun[p] + 1) <=> call # "done_symbolic"
<1>1. begun[p] \in 0 .. Len(Program)
  BY DEF Shape
<1>2. /\ at[p] = "none" /\ begun[p] \in Nat /\ begun[p] + 1 \in 1 .. Len(Program)
      /\ Program[begun[p] + 1] = call /\ (begun[p] + 1) - 1 = begun[p]
  BY <1>1, ProgramIs DEF MayStart
<1>3. PICK t \in 1 .. Len(Program) : t = begun[p] + 1
  BY <1>2
<1>4. /\ Program[t] = "init_symbolic" <=> ~SetUp(t - 1)
      /\ SetUp(t) <=> Program[t] # "done_symbolic"
  BY SetUpNext, SetUpIs
<1>5. t - 1 = begun[p]
  BY <1>2, <1>3
<1> QED
  BY <1>2, <1>3, <1>4, <1>5

\* Collectives.
LEMMA GivenMoves ==
  ASSUME NEW t \in 1 .. Len(Program), NEW w, NEW v, <<w, v>> \in Moves, Program[t] = CallOf(w)
  PROVE  /\ Given(t, w) \in Nat
         /\ w \in {"exscan", "offsets", "counts"} => Given(t, v) = Given(t, w) + 1
         /\ w \notin {"exscan", "offsets", "counts"} => Given(t, v) = Given(t, w)
<1> PICK a \in Nat, b \in Nat, c \in Nat :
       /\ a = SumBefore(Shares, t) /\ c = Shares[t] /\ b = SumBefore(Shares, t + 1)
       /\ b = a + c
  BY SharesIs
<1>1. /\ Program[t] = "init_symbolic" => c = 2
      /\ Program[t] = "allgather" => c = 3
  BY SharesIs
<1>2. /\ Given(t, "exscan") = a + 1 /\ Given(t, "offsets") = a + 1
      /\ Given(t, "allreduce") = a + 2 /\ Given(t, "counts") = a + 2
      /\ \A u \in {"numbers", "dims", "rows", "cols", "values", "shared", "full", "none"} :
           Given(t, u) = b
  BY DEF Given
<1> QED
  BY <1>1, <1>2 DEF Moves, CallOf

LEMMA GivenStarts ==
  ASSUME NEW t \in Nat, t + 1 \in 1 .. Len(Program), NEW v, <<Program[t + 1], v>> \in Starts
  PROVE  /\ Given(t, "none") \in Nat
         /\ v \in {"exscan", "offsets"} => Given(t + 1, v) = Given(t, "none") + 1
         /\ v \notin {"exscan", "offsets"} => Given(t + 1, v) = Given(t, "none")
<1>1. Given(t, "none") = SumBefore(Shares, t + 1)
  BY DEF Given
<1>2. PICK n \in 1 .. Len(Program) : n = t + 1
  OBVIOUS
<1>3. PICK a \in Nat, b \in Nat, c \in Nat :
        /\ a = SumBefore(Shares, n) /\ c = Shares[n] /\ b = SumBefore(Shares, n + 1) /\ b = a + c
  BY SharesIs
<1>4. Program[n] \in {"init_numeric", "apply", "done_symbolic"} => c = 0
  BY <1>3, SharesIs
<1>5. v \in {"exscan", "offsets"} \/ (v \in {"values", "shared", "none"} /\ c = 0)
  BY <1>2, <1>4 DEF Starts
<1>6. v \in {"exscan", "offsets"} => Given(n, v) = a + 1
  BY <1>3 DEF Given
<1>7. v \in {"values", "shared", "none"} => Given(n, v) = b
  BY <1>3 DEF Given
<1>8. Given(t, "none") = a
  BY <1>1, <1>2, <1>3
<1> QED
  BY <1>2, <1>3, <1>5, <1>6, <1>7, <1>8

LEMMA OfSizes ==
  ASSUME NEW t \in 1 .. Len(Program), NEW k \in SumBefore(Shares, t) + 1 .. SumBefore(Shares, t + 1)
  PROVE  IsOfSizes(k) <=> Program[t] = "init_symbolic"
<1>1. /\ SumBefore(Shares, t) \in Nat /\ Shares[t] \in Nat
      /\ SumBefore(Shares, t + 1) = SumBefore(Shares, t) + Shares[t]
      /\ Program[t] = "init_symbolic" => Shares[t] = 2
  BY SharesIs
<1>2. Program[t] = "init_symbolic" => IsOfSizes(k)
  BY <1>1 DEF IsOfSizes
<1>3. ASSUME IsOfSizes(k) PROVE Program[t] = "init_symbolic"
  <2>1. PICK s \in 1 .. Len(Program) :
          /\ Program[s] = "init_symbolic" /\ k \in SumBefore(Shares, s) + 1 .. SumBefore(Shares, s) + 2
    BY <1>3 DEF IsOfSizes
  <2>2. Shares[s] = 2 /\ SumBefore(Shares, s) \in Nat
    BY <2>1, SharesIs
  <2> DEFINE v == Shares
  <2>3. Len(Program) \in Nat /\ \A u \in 1 .. Len(Program) : v[u] \in Nat
    BY ProgramIs, SharesIs
  <2>4. s \in 1 .. Len(Program) + 1 /\ t \in 1 .. Len(Program) + 1
    BY <2>3
  <2> HIDE DEF v
  <2>5. s < t => SumBefore(v, s) + v[s] <= SumBefore(v, t)
    BY <2>3, <2>4, SumBeforeGrows
  <2>6. t < s => SumBefore(v, t) + v[t] <= SumBefore(v, s)
    BY <2>3, <2>4, SumBeforeGrows
  <2>7. ~(s < t)
    BY <1>1, <2>1, <2>2, <2>5 DEF v
  <2>8. ~(t < s)
    BY <1>1, <2>1, <2>2, <2>6 DEF v
  <2>9. s = t
    BY <2>3, <2>7, <2>8
  <2> QED
    BY <2>1, <2>9
<1> QED
  BY <1>2, <1>3

LEMMA CollectiveSame ==
  ASSUME NEW p \in Rank, Collective(p), given'[p] = given[p],
         Given(begun'[p], at'[p]) = Given(begun[p], at[p])
  PROVE  Collective(p)'
BY DEF Collective

LEMMA CollectiveCall ==
  ASSUME NEW p \in Rank, Collective(p), NEW value, given'[p] = Append(given[p], value),
         Given(begun'[p], at'[p]) = Given(begun[p], at[p]) + 1,
         IsOfSizes(Len(given[p]) + 1) => value = Len(owned_dofs[p])
  PROVE  Collective(p)'
<1> DEFINE s == given[p]
           n == given'[p]
<1>1. IsSeq(s) /\ \A k \in 1 .. Len(s) : IsOfSizes(k) => s[k] = Len(owned_dofs[p])
  BY DEF Collective
<1>2. n = Append(s, value)
  OBVIOUS
<1>3. Len(s) = Given(begun[p], at[p])
  BY DEF Collective
<1>4. IsOfSizes(Len(s) + 1) => value = Len(owned_dofs[p])
  OBVIOUS
<1> HIDE DEF s, n
<1>5. /\ IsSeq(n) /\ Len(n) = Len(s) + 1 /\ n[Len(s) + 1] = value
      /\ \A k \in 1 .. Len(s) : n[k] = s[k]
  BY <1>1, <1>2, SeqAppend
<1>6. \A k \in 1 .. Len(n) : k \in 1 .. Len(s) \/ k = Len(s) + 1
  BY <1>1, <1>5, SeqPlaces
<1>7. \A k \in 1 .. Len(n) : IsOfSizes(k) => n[k] = Len(owned_dofs[p])
  BY <1>1, <1>4, <1>5, <1>6
<1>8. Len(n) = Given(begun'[p], at'[p])
  BY <1>3, <1>5
<1> QED
  BY <1>5, <1>7, <1>8 DEF Collective, n

\* The partition, while a call does not change it.
Plain == {"none", "values", "shared", "offsets", "counts", "full"}

LEMMA PartsKeep ==
  ASSUME NEW p \in Rank, LocalInv(p), at[p] \in Plain, at'[p] \in Plain,
         SetUp(begun[p]), SetUp(begun'[p]),
         adp'[p] = [x \in DOMAIN EmptyParti |-> adp'[p][x]],
         adp'[p].offset = adp[p].offset, adp'[p].owned = adp[p].owned, adp'[p].owner = adp[p].owner,
         adp'[p].donee = adp[p].donee, adp'[p].number = adp[p].number, bufs'[p] = bufs[p]
  PROVE  Partition(p)' /\ Buffer(p)'
<1>1. at[p] \notin {"exscan", "allreduce", "numbers", "dims", "rows", "cols"}
  BY DEF Plain
<1>2. at'[p] \notin {"exscan", "allreduce", "numbers", "dims", "rows", "cols"}
  BY DEF Plain
<1>3. (\A q : ~Awaits(p, q)) /\ (\A q : ~Awaits(p, q)')
  BY <1>1, <1>2 DEF Awaits
<1>4. Numbers(p) => Numbers(p)'
  BY <1>3 DEF Numbers
<1>5. Partition(p)'
  BY <1>1, <1>2, <1>4 DEF LocalInv, Partition
<1>6. Buffer(p)'
  BY <1>1, <1>2 DEF LocalInv, Buffer, RowsKnown, ColsKnown
<1> QED
  BY <1>5, <1>6

----------------------------------------------------------------------------
(* Calls without messages, and the first steps of the others.              *)

LEMMA InitSymbolicKeeps ==
  ASSUME Inv, NEW p \in Rank, InitSymbolic(p)
  PROVE  Inv'
<1>1. Shape /\ LocalInv(p) /\ Phase(p) /\ MayStart(p, "init_symbolic")
  BY DEF Inv, LocalInv, InitSymbolic
<1>2. /\ at[p] = "none" /\ begun[p] \in Nat /\ begun[p] + 1 \in 1 .. Len(Program)
      /\ Program[begun[p] + 1] = "init_symbolic" /\ ~SetUp(begun[p])
  BY <1>1, StartIs
<1>3. /\ begun' = [begun EXCEPT ![p] = begun[p] + 1] /\ at' = [at EXCEPT ![p] = "exscan"]
      /\ given' = [given EXCEPT ![p] = Append(given[p], Len(owned_dofs[p]))]
      /\ UNCHANGED <<eager, posted, recvs, chan, adp, bufs>>
  BY DEF InitSymbolic, Begin, Call
<1>4. /\ begun'[p] = begun[p] + 1 /\ at'[p] = "exscan"
      /\ given'[p] = Append(given[p], Len(owned_dofs[p])) /\ OthersStay(p)
  BY <1>1, <1>3 DEF Shape, OthersStay
<1>5. Shape'
  <2>1. begun' \in [Rank -> 0 .. Len(Program)]
    BY <1>1, <1>2, <1>3, ProgramIs DEF Shape
  <2> QED
    BY <1>1, <1>3, <2>1 DEF Shape, Where
<1>6. posted[p] = FALSE /\ recvs[p] = {}
  BY <1>1, <1>2 DEF Phase, Shape, ToOwners, ToDonees
<1>7. Phase(p)'
  BY <1>2, <1>3, <1>4, <1>6, RoundsAre DEF Phase, CallOf, Dir
<1>8. Partition(p)' /\ Buffer(p)'
  BY <1>1, <1>2, <1>3, <1>4 DEF LocalInv, Partition, Buffer
<1>9. Collective(p)'
  <2>1. <<Program[begun[p] + 1], "exscan">> \in Starts
    BY <1>2 DEF Starts
  <2>2. Given(begun[p] + 1, "exscan") = Given(begun[p], "none") + 1
    BY <1>2, <2>1, GivenStarts
  <2> QED
    BY <1>1, <1>2, <1>4, <2>2, CollectiveCall DEF LocalInv
<1>10. CountsSame(p)
  <2>1. <<"init_symbolic", "exscan">> \in Starts /\ \A dir \in Dir : "exscan" \notin Rounds(dir)
    BY RoundsAre DEF Starts, Dir
  <2> QED
    BY <1>1, <1>3, <1>4, <1>6, <2>1, CountsStart DEF CountsSame
<1>11. LocalInv(p)'
  BY <1>7, <1>8, <1>9 DEF LocalInv
<1> QED
  BY <1>3, <1>4, <1>5, <1>10, <1>11, QuietStep

LEMMA ScanKeeps ==
  ASSUME Inv, NEW p \in Rank, Scan(p)
  PROVE  Inv'
<1> DEFINE k == Len(given[p])
           x == IF p = 0 THEN adp[p].offset ELSE SumOver(0 .. p - 1, Gathered(p))
<1>1. Shape /\ LocalInv(p) /\ Phase(p) /\ at[p] = "exscan" /\ Arrived(p, 0 .. p - 1)
  BY DEF Inv, LocalInv, Scan
<1>2. begun[p] \in 1 .. Len(Program) /\ Program[begun[p]] = "init_symbolic" /\ SetUp(begun[p])
  BY <1>1, CallIs DEF CallOf
<1>3. /\ begun' = begun /\ at' = [at EXCEPT ![p] = "allreduce"]
      /\ given' = [given EXCEPT ![p] = Append(given[p], Len(owned_dofs[p]))]
      /\ adp' = [adp EXCEPT ![p].offset = x]
      /\ UNCHANGED <<eager, posted, recvs, chan, bufs>>
  BY DEF Scan, Goto, Call
<1>4. adp[p] = EmptyParti
  BY <1>1 DEF LocalInv, Partition
<1>5. k = SumBefore(Shares, begun[p]) + 1 /\ SumBefore(Shares, begun[p]) \in Nat /\ IsOfSizes(k)
      /\ IsOfSizes(k + 1)
  <2>1. k = SumBefore(Shares, begun[p]) + 1
    BY <1>1 DEF LocalInv, Collective, Given
  <2>2. SumBefore(Shares, begun[p]) \in Nat
    BY <1>2, SharesIs
  <2> QED
    BY <1>2, <2>1, <2>2 DEF IsOfSizes
<1>6. x = Offset(p)
  <2>1. p \in Nat /\ 0 .. p - 1 \subseteq Rank /\ IsFiniteSet(0 .. p - 1)
    <3>1. p \in Nat /\ p < P /\ P \in Nat
      BY RankIs
    <3>2. 0 .. p - 1 \subseteq Rank
      BY <3>1, RankIs
    <3>3. p - 1 \in Int /\ 0 \in Int
      BY <3>1
    <3> QED
      BY <3>1, <3>2, <3>3, FS_Interval
  <2>2. CASE p = 0
    BY <1>4, <2>2, OffsetNext DEF EmptyParti
  <2>3. CASE p # 0
    <3> DEFINE v == Gathered(p)
               w == [q \in Rank |-> Len(owned_dofs[q])]
    <3>1. \A q \in 0 .. p - 1 : v[q] = Len(owned_dofs[q])
      <4> TAKE q \in 0 .. p - 1
      <4>1. q \in Rank /\ v[q] = given[q][k]
        BY <2>1 DEF Gathered
      <4>2. Len(given[q]) >= k /\ IsSeq(given[q])
        BY <1>1, <4>1 DEF Arrived, Inv, LocalInv, Collective
      <4>3. Len(given[q]) \in Nat
        BY <4>2, SeqLength
      <4>4. k \in 1 .. Len(given[q])
        BY <1>5, <4>2, <4>3
      <4>5. Collective(q)
        BY <4>1 DEF Inv, LocalInv
      <4> QED
        BY <1>5, <4>1, <4>4, <4>5 DEF Collective
    <3>2. \A q \in 0 .. p - 1 : w[q] = Len(owned_dofs[q]) /\ Len(owned_dofs[q]) \in Int
      BY <2>1, OwnedAre
    <3>3. x = Sum(v, 0 .. p - 1) /\ Offset(p) = Sum(w, 0 .. p - 1)
      BY <2>3 DEF SumOver, Sum, Offset
    <3> HIDE DEF v, w
    <3>4. Sum(v, 0 .. p - 1) = Sum(w, 0 .. p - 1)
      BY <2>1, <3>1, <3>2, SumOfSame
    <3> QED
      BY <3>3, <3>4
  <2> QED
    BY <2>2, <2>3
<1>7. adp'[p] = [EmptyParti EXCEPT !.offset = Offset(p)]
  BY <1>1, <1>3, <1>4, <1>6 DEF Shape
<1> HIDE DEF x
<1>8. /\ begun'[p] = begun[p] /\ at'[p] = "allreduce"
      /\ given'[p] = Append(given[p], Len(owned_dofs[p])) /\ OthersStay(p)
  BY <1>1, <1>3 DEF Shape, OthersStay
<1>9. Shape'
  BY <1>1, <1>3 DEF Shape, Where
<1>10. posted[p] = FALSE /\ recvs[p] = {}
  BY <1>1 DEF Phase, Shape, ToOwners, ToDonees
<1>11. Phase(p)'
  BY <1>2, <1>3, <1>8, <1>10, RoundsAre DEF Phase, CallOf, Dir
<1>12. Partition(p)' /\ Buffer(p)'
  BY <1>2, <1>7, <1>8 DEF Partition, Buffer
<1>13. <<"exscan", "allreduce">> \in Moves /\ CallOf("exscan") = "init_symbolic"
       /\ \A dir \in Dir : "allreduce" \notin Rounds(dir)
  BY RoundsAre DEF Moves, Dir, CallOf
<1>14. Collective(p)'
  <2>1. Given(begun[p], "allreduce") = Given(begun[p], "exscan") + 1
    BY <1>2, <1>13, GivenMoves
  <2> QED
    BY <1>1, <1>8, <2>1, CollectiveCall DEF LocalInv
<1>15. CountsSame(p)
  BY <1>1, <1>3, <1>8, <1>10, <1>13, CountsStay DEF CountsSame, ToOwners, ToDonees
<1>16. LocalInv(p)'
  BY <1>11, <1>12, <1>14 DEF LocalInv
<1> QED
  BY <1>3, <1>8, <1>9, <1>15, <1>16, QuietStep

LEMMA EmptyIs ==
  /\ EmptyParti.offset = 0 /\ EmptyParti.number = <<>> /\ EmptyParti.owner = <<>>
  /\ EmptyParti.donee = <<>>
  /\ DOMAIN EmptyParti = {"offset", "total", "number", "owned", "owner", "donee", "offsets", "counts"}
BY DEF EmptyParti

LEMMA ReduceKeeps ==
  ASSUME Inv, NEW p \in Rank, Reduce(p)
  PROVE  Inv'
<1> DEFINE sum == SumOver(Rank, Gathered(p))
           num == [d \in Holds(p) |->
                     IF dof_owners[p][d] = p THEN adp[p].offset + own_dof_idx[p][d]
                     ELSE IF d \in DOMAIN adp[p].number THEN adp[p].number[d] ELSE NoNumber]
<1>1. Shape /\ LocalInv(p) /\ Phase(p) /\ at[p] = "allreduce"
  BY DEF Inv, LocalInv, Reduce
<1>2. begun[p] \in 1 .. Len(Program) /\ Program[begun[p]] = "init_symbolic" /\ SetUp(begun[p])
  BY <1>1, CallIs DEF CallOf
<1>3. /\ begun' = begun /\ at' = [at EXCEPT ![p] = "numbers"]
      /\ adp' = [adp EXCEPT ![p].total = sum, ![p].owned = owned_dofs[p],
                            ![p].owner = @ \o owner_neighbours[p],
                            ![p].donee = @ \o donee_neighbours[p],
                            ![p].number = [d \in Holds(p) |->
                              IF dof_owners[p][d] = p THEN adp[p].offset + own_dof_idx[p][d]
                              ELSE IF d \in DOMAIN @ THEN @[d] ELSE NoNumber]]
      /\ recvs' = [recvs EXCEPT ![p] = 1 .. Len(adp'[p].owner)]
      /\ UNCHANGED <<eager, posted, given, chan, bufs>>
  BY DEF Reduce, Goto, Expect
<1>4. adp[p] = [EmptyParti EXCEPT !.offset = Offset(p)]
  BY <1>1, <1>2 DEF LocalInv, Partition
<1>5. /\ adp[p].offset = Offset(p) /\ adp[p].number = <<>> /\ adp[p].owner = <<>>
      /\ adp[p].donee = <<>> /\ DOMAIN adp[p] = DOMAIN EmptyParti
  BY <1>4, EmptyIs
<1>6. IsSeq(owner_neighbours[p]) /\ IsSeq(donee_neighbours[p])
      /\ DOMAIN owner_neighbours[p] = 1 .. Len(owner_neighbours[p])
  BY OwnersListed, DoneesListed DEF ListsRanks
<1>7. adp'[p] = [adp[p] EXCEPT !.total = sum, !.owned = owned_dofs[p],
                               !.owner = adp[p].owner \o owner_neighbours[p],
                               !.donee = adp[p].donee \o donee_neighbours[p],
                               !.number = num]
  BY <1>1, <1>3 DEF Shape
<1> HIDE DEF sum
<1>8. /\ adp'[p].offset = Offset(p) /\ adp'[p].owned = owned_dofs[p]
      /\ adp'[p].owner = owner_neighbours[p] /\ adp'[p].donee = donee_neighbours[p]
      /\ adp'[p].number = num
      /\ adp'[p] = [x \in DOMAIN EmptyParti |-> adp'[p][x]]
  <2> HIDE DEF num
  <2>1. <<>> \o owner_neighbours[p] = owner_neighbours[p] /\ <<>> \o donee_neighbours[p] = donee_neighbours[p]
    BY <1>6, SeqAfterNothing
  <2> QED
    BY <1>5, <1>7, <2>1, EmptyIs
<1>9. recvs'[p] = DOMAIN owner_neighbours[p]
  BY <1>1, <1>3, <1>6, <1>8 DEF Shape
<1>10. /\ begun'[p] = begun[p] /\ at'[p] = "numbers" /\ given'[p] = given[p] /\ OthersStay(p)
  BY <1>1, <1>3 DEF Shape, OthersStay
<1>11. Shape'
  <2>1. recvs' \in [Rank -> SUBSET Nat]
    <3>1. DOMAIN owner_neighbours[p] \subseteq Nat
      BY <1>6
    <3> QED
      BY <1>1, <1>3, <1>6, <1>8, <3>1 DEF Shape
  <2>2. adp' = [r \in Rank |-> adp'[r]]
    BY <1>1, <1>3 DEF Shape
  <2>3. at' \in [Rank -> Where \cup {"none"}]
    BY <1>1, <1>3 DEF Shape, Where, ToDonees
  <2>4. UNCHANGED <<eager, begun, posted, given, chan, bufs>>
    BY <1>3
  <2> QED
    BY <1>1, <2>1, <2>2, <2>3, <2>4 DEF Shape
<1>12. posted[p] = FALSE
  BY <1>1 DEF Phase, Shape, ToOwners, ToDonees
<1>13. /\ Rounds("down") = {"numbers", "shared"} /\ "numbers" \notin Rounds("up")
       /\ Sources("down", p) = owner_neighbours[p]
  BY RoundsAre DEF Sources
<1>14. \A dir \in Dir : "numbers" \in Rounds(dir) => DOMAIN Sources(dir, p) \subseteq recvs'[p]
  BY <1>9, <1>13 DEF Dir
<1>15. Phase(p)'
  <2>1. \A dir \in Dir : "numbers" \in Rounds(dir) => recvs'[p] \subseteq DOMAIN Sources(dir, p)
    BY <1>9, <1>13 DEF Dir
  <2> QED
    BY <1>2, <1>10, <2>1 DEF Phase, CallOf, ToDonees
<1>16. Partition(p)'
  <2>1. \A d \in Holds(p) : Awaits(p, LowestHolder[d])' <=> LowestHolder[d] # p
    <3> TAKE d \in Holds(p)
    <3>1. Awaits(p, LowestHolder[d])' <=>
            \E i \in DOMAIN owner_neighbours[p] : owner_neighbours[p][i].rank = LowestHolder[d]
      BY <1>9, <1>10 DEF Awaits
    <3>2. (\E i \in DOMAIN owner_neighbours[p] : owner_neighbours[p][i].rank = LowestHolder[d])
            <=> LowestHolder[d] \in OwnersOf(p)
      BY OwnersListed DEF ListsRanks
    <3>3. LowestHolder[d] \in OwnersOf(p) <=> LowestHolder[d] # p
      BY LowestHolderIs DEF OwnersOf, Serves
    <3> QED
      BY <3>1, <3>2, <3>3
  <2>2. \A d \in Holds(p) : num[d] = IF Awaits(p, LowestHolder[d])' THEN NoNumber ELSE Global(d)
    <3> TAKE d \in Holds(p)
    <3>1. dof_owners[p][d] = LowestHolder[d]
      BY OwnersAre
    <3>2. d \notin DOMAIN adp[p].number
      BY <1>5
    <3> QED
      BY <1>5, <2>1, <3>1, <3>2 DEF Global
  <2>3. Numbers(p)'
    <3>1. DOMAIN num = Holds(p)
      OBVIOUS
    <3> HIDE DEF num
    <3> QED
      BY <1>8, <2>2, <3>1 DEF Numbers
  <2> HIDE DEF num
  <2> QED
    BY <1>2, <1>8, <1>10, <2>3 DEF Partition
<1>17. Buffer(p)'
  BY <1>10 DEF Buffer
<1>18. <<"allreduce", "numbers">> \in Moves /\ CallOf("allreduce") = "init_symbolic"
  BY DEF Moves, CallOf
<1>19. Collective(p)'
  <2>1. Given(begun[p], "numbers") = Given(begun[p], "allreduce")
    BY <1>2, <1>18, GivenMoves
  <2> QED
    BY <1>1, <1>10, <2>1, CollectiveSame DEF LocalInv
<1>20. CountsSame(p)
  BY <1>1, <1>3, <1>10, <1>12, <1>14, <1>18, CountsStay DEF CountsSame, ToOwners, ToDonees
<1>21. LocalInv(p)'
  BY <1>15, <1>16, <1>17, <1>19 DEF LocalInv
<1> QED
  BY <1>3, <1>10, <1>11, <1>20, <1>21, QuietStep

LEMMA NumberedKeeps ==
  ASSUME Inv, NEW p \in Rank, Numbered(p)
  PROVE  Inv'
<1> DEFINE rows == [i \in DOMAIN adp[p].donee |-> NoRows]
<1>1. Shape /\ LocalInv(p) /\ Phase(p) /\ at[p] = "numbers" /\ posted[p] /\ recvs[p] = {}
  BY DEF Inv, LocalInv, Numbered, AllReceived
<1>2. begun[p] \in 1 .. Len(Program) /\ Program[begun[p]] = "init_symbolic" /\ SetUp(begun[p])
  BY <1>1, CallIs DEF CallOf
<1>3. /\ begun' = begun /\ at' = [at EXCEPT ![p] = "dims"]
      /\ posted' = [posted EXCEPT ![p] = FALSE]
      /\ bufs' = [bufs EXCEPT ![p] = rows]
      /\ recvs' = [recvs EXCEPT ![p] = 1 .. Len(adp[p].donee)]
      /\ UNCHANGED <<eager, given, chan, adp>>
  BY DEF Numbered, Goto, Expect
<1>4. /\ adp[p] = [x \in DOMAIN EmptyParti |-> adp[p][x]]
      /\ adp[p].offset = Offset(p) /\ adp[p].owned = owned_dofs[p]
      /\ adp[p].owner = owner_neighbours[p] /\ adp[p].donee = donee_neighbours[p]
      /\ Numbers(p)
  BY <1>1, <1>2 DEF LocalInv, Partition
<1>5. DOMAIN donee_neighbours[p] = 1 .. Len(donee_neighbours[p]) /\ Len(donee_neighbours[p]) \in Nat
  BY DoneesListed DEF ListsRanks
<1>6. /\ begun'[p] = begun[p] /\ at'[p] = "dims" /\ posted'[p] = FALSE /\ given'[p] = given[p]
      /\ adp'[p] = adp[p] /\ bufs'[p] = [i \in DOMAIN donee_neighbours[p] |-> NoRows]
      /\ recvs'[p] = DOMAIN donee_neighbours[p] /\ OthersStay(p)
  BY <1>1, <1>3, <1>4, <1>5 DEF Shape, OthersStay
<1> HIDE DEF rows
<1>7. Shape'
  <2>1. recvs' \in [Rank -> SUBSET Nat]
    BY <1>1, <1>3, <1>4, <1>5 DEF Shape
  <2>2. bufs' = [r \in Rank |-> bufs'[r]] /\ posted' \in [Rank -> BOOLEAN]
    BY <1>1, <1>3 DEF Shape
  <2>3. at' \in [Rank -> Where \cup {"none"}]
    BY <1>1, <1>3 DEF Shape, Where, ToOwners
  <2>4. UNCHANGED <<eager, begun, given, chan, adp>>
    BY <1>3
  <2> QED
    BY <1>1, <2>1, <2>2, <2>3, <2>4 DEF Shape
<1>8. /\ "dims" \in Rounds("up") /\ "dims" \notin Rounds("down")
      /\ Sources("up", p) = donee_neighbours[p]
  BY RoundsAre DEF Sources
<1>9. \A dir \in Dir : "dims" \in Rounds(dir) => recvs'[p] = DOMAIN Sources(dir, p)
  BY <1>6, <1>8 DEF Dir
<1>10. Phase(p)'
  BY <1>2, <1>6, <1>9 DEF Phase, CallOf, ToOwners
<1>11. Partition(p)'
  <2>1. \A q : ~Awaits(p, q) /\ ~Awaits(p, q)'
    BY <1>1, <1>6 DEF Awaits
  <2>2. Numbers(p)'
    BY <1>4, <1>6, <2>1 DEF Numbers
  <2> QED
    BY <1>2, <1>4, <1>6, <2>2 DEF Partition
<1>12. Buffer(p)'
  <2>1. \A i \in DOMAIN donee_neighbours[p] : bufs'[p][i] = NoRows /\ ~RowsKnown(p, i)' /\ ~ColsKnown(p, i)'
    BY <1>6 DEF RowsKnown, ColsKnown
  <2>2. NoRows = [x \in DOMAIN NoRows |-> NoRows[x]]
    BY DEF NoRows
  <2>3. bufs'[p] = [i \in DOMAIN donee_neighbours[p] |-> bufs'[p][i]]
    BY <1>6
  <2> QED
    BY <2>1, <2>2, <2>3 DEF Buffer
<1>13. <<"numbers", "dims">> \in Moves /\ CallOf("numbers") = "init_symbolic"
  BY DEF Moves, CallOf
<1>14. Collective(p)'
  <2>1. Given(begun[p], "dims") = Given(begun[p], "numbers")
    BY <1>2, <1>13, GivenMoves
  <2> QED
    BY <1>1, <1>6, <2>1, CollectiveSame DEF LocalInv
<1>15. CountsSame(p)
  BY <1>1, <1>6, <1>9, <1>13, CountsStay DEF CountsSame
<1>16. LocalInv(p)'
  BY <1>10, <1>11, <1>12, <1>14 DEF LocalInv
<1> QED
  BY <1>3, <1>6, <1>7, <1>15, <1>16, QuietStep

LEMMA PostReceivesKeeps ==
  ASSUME Inv, NEW p \in Rank, PostReceives(p)
  PROVE  Inv'
<1> DEFINE v == IF at[p] = "dims" THEN "rows" ELSE "cols"
<1>1. /\ Shape /\ LocalInv(p) /\ Phase(p) /\ at[p] \in {"dims", "rows"}
      /\ posted[p] /\ recvs[p] = {}
  BY DEF Inv, LocalInv, PostReceives, AllReceived
<1>2. begun[p] \in 1 .. Len(Program) /\ Program[begun[p]] = "init_symbolic" /\ SetUp(begun[p])
  BY <1>1, CallIs DEF CallOf
<1>3. /\ begun' = begun /\ at' = [at EXCEPT ![p] = v]
      /\ posted' = [posted EXCEPT ![p] = FALSE]
      /\ recvs' = [recvs EXCEPT ![p] = 1 .. Len(adp[p].donee)]
      /\ UNCHANGED <<eager, given, chan, adp, bufs>>
  BY DEF PostReceives, Goto, Expect
<1>4. adp[p].donee = donee_neighbours[p]
  BY <1>1, <1>2 DEF LocalInv, Partition
<1>5. DOMAIN donee_neighbours[p] = 1 .. Len(donee_neighbours[p]) /\ Len(donee_neighbours[p]) \in Nat
  BY DoneesListed DEF ListsRanks
<1>6. /\ begun'[p] = begun[p] /\ at'[p] = v /\ posted'[p] = FALSE /\ given'[p] = given[p]
      /\ adp'[p] = adp[p] /\ bufs'[p] = bufs[p]
      /\ recvs'[p] = DOMAIN donee_neighbours[p] /\ OthersStay(p)
  BY <1>1, <1>3, <1>4, <1>5 DEF Shape, OthersStay
<1>7. \/ at[p] = "dims" /\ v = "rows"
      \/ at[p] = "rows" /\ v = "cols"
  BY <1>1
<1> HIDE DEF v
<1>8. Shape'
  <2>1. recvs' \in [Rank -> SUBSET Nat]
    BY <1>1, <1>3, <1>4, <1>5 DEF Shape
  <2>2. posted' \in [Rank -> BOOLEAN]
    BY <1>1, <1>3 DEF Shape
  <2>3. at' \in [Rank -> Where \cup {"none"}]
    BY <1>1, <1>3, <1>7 DEF Shape, Where, ToOwners
  <2>4. UNCHANGED <<eager, begun, given, chan, adp, bufs>>
    BY <1>3
  <2> QED
    BY <1>1, <2>1, <2>2, <2>3, <2>4 DEF Shape
<1>9. \A dir \in Dir : v \in Rounds(dir) => recvs'[p] = DOMAIN Sources(dir, p)
  <2>1. v \in {"rows", "cols"} /\ Sources("up", p) = donee_neighbours[p]
    BY <1>7 DEF Sources
  <2> QED
    BY <1>6, <2>1, RoundsAre DEF Dir
<1>10. Phase(p)'
  BY <1>2, <1>6, <1>7, <1>9 DEF Phase, CallOf, ToOwners
<1>11. Partition(p)'
  <2>1. \A q : ~Awaits(p, q) /\ ~Awaits(p, q)'
    BY <1>1, <1>6, <1>7 DEF Awaits
  <2>2. Numbers(p) => Numbers(p)'
    BY <1>6, <2>1 DEF Numbers
  <2> QED
    BY <1>1, <1>2, <1>6, <1>7, <2>2 DEF Partition, LocalInv
<1>12. Buffer(p)'
  <2>1. \A i \in DOMAIN donee_neighbours[p] :
          /\ RowsKnown(p, i)' => RowsKnown(p, i)
          /\ ~ColsKnown(p, i)'
    BY <1>1, <1>6, <1>7 DEF RowsKnown, ColsKnown
  <2> QED
    BY <1>1, <1>2, <1>6, <2>1 DEF LocalInv, Buffer
<1>13. <<at[p], v>> \in Moves /\ CallOf(at[p]) = "init_symbolic"
  BY <1>7 DEF Moves, CallOf
<1>14. Collective(p)'
  <2>1. Given(begun[p], v) = Given(begun[p], at[p])
    <3> PICK t \in 1 .. Len(Program) : t = begun[p]
      BY <1>2
    <3> PICK w : w = at[p]
      OBVIOUS
    <3> QED
      BY <1>1, <1>2, <1>13, GivenMoves
  <2> QED
    BY <1>1, <1>6, <2>1, CollectiveSame DEF LocalInv
<1>15. CountsSame(p)
  BY <1>1, <1>6, <1>9, <1>13, CountsStay DEF CountsSame
<1>16. LocalInv(p)'
  BY <1>10, <1>11, <1>12, <1>14 DEF LocalInv
<1> QED
  BY <1>3, <1>6, <1>8, <1>15, <1>16, QuietStep

LEMMA StructuredKeeps ==
  ASSUME Inv, NEW p \in Rank, Structured(p)
  PROVE  Inv'
<1>1. Shape /\ LocalInv(p) /\ Phase(p) /\ at[p] = "cols" /\ posted[p] /\ recvs[p] = {}
  BY DEF Inv, LocalInv, Structured, AllReceived
<1>2. begun[p] \in 1 .. Len(Program) /\ Program[begun[p]] = "init_symbolic" /\ SetUp(begun[p])
  BY <1>1, CallIs DEF CallOf
<1>3. /\ begun' = begun /\ at' = [at EXCEPT ![p] = "none"]
      /\ posted' = [posted EXCEPT ![p] = FALSE]
      /\ UNCHANGED <<eager, recvs, given, chan, adp, bufs>>
  BY DEF Structured, Goto
<1>4. /\ begun'[p] = begun[p] /\ at'[p] = "none" /\ posted'[p] = FALSE /\ given'[p] = given[p]
      /\ adp'[p] = adp[p] /\ bufs'[p] = bufs[p] /\ recvs'[p] = {} /\ OthersStay(p)
  BY <1>1, <1>3 DEF Shape, OthersStay
<1>5. Shape'
  BY <1>1, <1>3 DEF Shape
<1>6. \A dir \in Dir : "none" \notin Rounds(dir)
  BY RoundsAre DEF Dir
<1>7. Phase(p)'
  BY <1>4, <1>6 DEF Phase
<1>8. Partition(p)'
  <2>1. \A q : ~Awaits(p, q) /\ ~Awaits(p, q)'
    BY <1>1, <1>4 DEF Awaits
  <2>2. Numbers(p) => Numbers(p)'
    BY <1>4, <2>1 DEF Numbers
  <2> QED
    BY <1>1, <1>2, <1>4, <2>2 DEF Partition, LocalInv
<1>9. Buffer(p)'
  <2>1. \A i \in DOMAIN donee_neighbours[p] : RowsKnown(p, i) /\ ColsKnown(p, i)
    BY <1>1 DEF RowsKnown, ColsKnown
  <2> QED
    BY <1>1, <1>2, <1>4, <2>1 DEF LocalInv, Buffer
<1>10. <<"cols", "none">> \in Moves /\ CallOf("cols") = "init_symbolic"
  BY DEF Moves, CallOf
<1>11. Collective(p)'
  <2>1. Given(begun[p], "none") = Given(begun[p], "cols")
    BY <1>2, <1>10, GivenMoves
  <2> QED
    BY <1>1, <1>4, <2>1, CollectiveSame DEF LocalInv
<1>12. CountsSame(p)
  BY <1>1, <1>4, <1>6, <1>10, CountsStay DEF CountsSame
<1>13. LocalInv(p)'
  BY <1>7, <1>8, <1>9, <1>11 DEF LocalInv
<1> QED
  BY <1>3, <1>4, <1>5, <1>12, <1>13, QuietStep

\* The calls that do not change the partition begin and go on.
LEMMA PlainStarts ==
  ASSUME Inv, NEW p \in Rank, NEW call \in {"init_numeric", "apply", "allgather"}, MayStart(p, call),
         NEW v, <<call, v>> \in Starts,
         Shape', OthersStay(p), Collective(p)', chan' = chan,
         begun'[p] = begun[p] + 1, at'[p] = v, posted'[p] = posted[p],
         adp'[p] = adp[p], bufs'[p] = bufs[p],
         \A dir \in Dir : v \in Rounds(dir) => recvs'[p] = DOMAIN Sources(dir, p),
         v \notin ToOwners \cup ToDonees => recvs'[p] = recvs[p]
  PROVE  Inv'
<1>1. Shape /\ LocalInv(p) /\ Phase(p)
  BY DEF Inv, LocalInv
<1>2. /\ at[p] = "none" /\ begun[p] \in Nat /\ begun[p] + 1 \in 1 .. Len(Program)
      /\ Program[begun[p] + 1] = call /\ SetUp(begun[p]) /\ SetUp(begun[p] + 1)
  BY <1>1, StartIs
<1>3. v \in {"values", "shared", "offsets"} /\ call = CallOf(v)
  BY DEF Starts, CallOf
<1>4. posted'[p] = FALSE /\ recvs[p] = {}
  BY <1>1, <1>2 DEF Phase, Shape, ToOwners, ToDonees
<1>5. Phase(p)'
  BY <1>2, <1>3, <1>4 DEF Phase
<1>6. at[p] \in Plain \cup {"none"} /\ at'[p] \in Plain
  BY <1>2, <1>3 DEF Plain
<1>7. adp'[p] = [x \in DOMAIN EmptyParti |-> adp'[p][x]]
  BY <1>1, <1>2 DEF LocalInv, Partition
<1>8. Partition(p)' /\ Buffer(p)'
  BY <1>1, <1>2, <1>6, <1>7, PartsKeep DEF Plain
<1>9. CountsSame(p)
  BY <1>1, <1>4, CountsStart DEF CountsSame
<1>10. LocalInv(p)'
  BY <1>5, <1>8 DEF LocalInv
<1> QED
  BY <1>9, <1>10, QuietStep

LEMMA PlainGoes ==
  ASSUME Inv, NEW p \in Rank, at[p] \in Plain, NEW v, <<at[p], v>> \in Moves,
         at[p] \in {"values", "shared"} => posted[p] /\ recvs[p] = {},
         Shape', OthersStay(p), Collective(p)', chan' = chan,
         begun'[p] = begun[p], at'[p] = v, posted'[p] = FALSE, recvs'[p] = recvs[p],
         adp'[p] = [x \in DOMAIN EmptyParti |-> adp'[p][x]],
         adp'[p].offset = adp[p].offset, adp'[p].owned = adp[p].owned, adp'[p].owner = adp[p].owner,
         adp'[p].donee = adp[p].donee, adp'[p].number = adp[p].number, bufs'[p] = bufs[p]
  PROVE  Inv'
<1>1. Shape /\ LocalInv(p) /\ Phase(p)
  BY DEF Inv, LocalInv
<1>2. at[p] # "none"
  BY DEF Moves
<1>3. begun[p] \in 1 .. Len(Program) /\ Program[begun[p]] = CallOf(at[p]) /\ SetUp(begun[p])
  BY <1>1, <1>2, CallIs
<1>4. v \in {"none", "counts", "full"} /\ (v # "none" => CallOf(v) = CallOf(at[p]))
  BY DEF Moves, Plain, CallOf
<1>5. recvs[p] = {}
  BY <1>1 DEF Phase, Plain, ToOwners, ToDonees
<1>6. v \notin ToOwners \cup ToDonees /\ \A dir \in Dir : v \notin Rounds(dir)
  BY <1>4, RoundsAre DEF Dir, ToOwners, ToDonees
<1>7. Phase(p)'
  <2>1. begun[p] > 0
    BY <1>3, ProgramIs
  <2> QED
    BY <1>3, <1>4, <1>5, <1>6, <2>1 DEF Phase
<1>8. Partition(p)' /\ Buffer(p)'
  BY <1>1, <1>3, <1>4, PartsKeep DEF Plain
<1>9. CountsSame(p)
  <2>1. at[p] \in ToOwners \cup ToDonees => posted[p] /\ recvs[p] = {}
    BY DEF Plain, ToOwners, ToDonees
  <2> QED
    BY <1>1, <1>6, <2>1, CountsStay DEF CountsSame
<1>10. LocalInv(p)'
  BY <1>7, <1>8 DEF LocalInv
<1> QED
  BY <1>9, <1>10, QuietStep

LEMMA InitNumericKeeps ==
  ASSUME Inv, NEW p \in Rank, InitNumeric(p)
  PROVE  Inv'
<1>1. Shape /\ LocalInv(p) /\ MayStart(p, "init_numeric")
  BY DEF Inv, LocalInv, InitNumeric
<1>2. /\ at[p] = "none" /\ begun[p] \in Nat /\ begun[p] + 1 \in 1 .. Len(Program)
      /\ Program[begun[p] + 1] = "init_numeric" /\ SetUp(begun[p])
  BY <1>1, StartIs
<1>3. /\ begun' = [begun EXCEPT ![p] = begun[p] + 1] /\ at' = [at EXCEPT ![p] = "values"]
      /\ recvs' = [recvs EXCEPT ![p] = 1 .. Len(adp[p].donee)]
      /\ UNCHANGED <<eager, posted, given, chan, adp, bufs>>
  BY DEF InitNumeric, Begin, Expect
<1>4. adp[p].donee = donee_neighbours[p]
  BY <1>1, <1>2 DEF LocalInv, Partition
<1>5. DOMAIN donee_neighbours[p] = 1 .. Len(donee_neighbours[p]) /\ Len(donee_neighbours[p]) \in Nat
  BY DoneesListed DEF ListsRanks
<1>6. /\ begun'[p] = begun[p] + 1 /\ at'[p] = "values" /\ posted'[p] = posted[p] /\ given'[p] = given[p]
      /\ adp'[p] = adp[p] /\ bufs'[p] = bufs[p] /\ OthersStay(p)
      /\ recvs'[p] = DOMAIN donee_neighbours[p]
  BY <1>1, <1>3, <1>4, <1>5 DEF Shape, OthersStay
<1>7. Shape'
  <2>1. begun' \in [Rank -> 0 .. Len(Program)]
    BY <1>1, <1>2, <1>3, ProgramIs DEF Shape
  <2>2. at' \in [Rank -> Where \cup {"none"}]
    BY <1>1, <1>3 DEF Shape, Where, ToOwners, ToDonees
  <2>3. recvs' \in [Rank -> SUBSET Nat]
    BY <1>1, <1>3, <1>4, <1>5 DEF Shape
  <2>4. UNCHANGED <<eager, posted, given, chan, adp, bufs>>
    BY <1>3
  <2> QED
    BY <1>1, <2>1, <2>2, <2>3, <2>4 DEF Shape
<1>8. <<"init_numeric", "values">> \in Starts
  BY DEF Starts
<1>9. Collective(p)'
  <2>1. Given(begun[p] + 1, "values") = Given(begun[p], "none")
    BY <1>2, <1>8, GivenStarts
  <2> QED
    BY <1>1, <1>2, <1>6, <2>1, CollectiveSame DEF LocalInv
<1>10. "values" \in ToOwners /\ \A dir \in Dir : "values" \in Rounds(dir) => recvs'[p] = DOMAIN Sources(dir, p)
  <2>1. "values" \in ToOwners /\ "values" \notin Rounds("down") /\ Sources("up", p) = donee_neighbours[p]
    BY RoundsAre DEF Sources, ToOwners
  <2> QED
    BY <1>6, <2>1 DEF Dir
<1> QED
  BY <1>1, <1>3, <1>6, <1>7, <1>8, <1>9, <1>10, PlainStarts

LEMMA AssembledKeeps ==
  ASSUME Inv, NEW p \in Rank, Assembled(p)
  PROVE  Inv'
<1>1. Shape /\ LocalInv(p) /\ Phase(p) /\ at[p] = "values" /\ posted[p] /\ recvs[p] = {}
  BY DEF Inv, LocalInv, Assembled, AllReceived
<1>2. begun[p] \in 1 .. Len(Program) /\ Program[begun[p]] = CallOf("values") /\ SetUp(begun[p])
  BY <1>1, CallIs
<1>3. /\ begun' = begun /\ at' = [at EXCEPT ![p] = "none"]
      /\ posted' = [posted EXCEPT ![p] = FALSE]
      /\ UNCHANGED <<eager, recvs, chan, bufs, given, adp>>
  BY DEF Assembled, Goto
<1>4. adp[p] = [x \in DOMAIN EmptyParti |-> adp[p][x]]
  BY <1>1, <1>2 DEF LocalInv, Partition
<1>5. posted'[p] = FALSE
  BY <1>1, <1>3 DEF Phase, Shape, ToOwners, ToDonees
<1>6. /\ begun'[p] = begun[p] /\ at'[p] = "none" /\ bufs'[p] = bufs[p] /\ recvs'[p] = recvs[p]
      /\ OthersStay(p) /\ given'[p] = given[p]
  BY <1>1, <1>3 DEF Shape, OthersStay
<1>7. /\ adp'[p] = [x \in DOMAIN EmptyParti |-> adp'[p][x]]
      /\ adp'[p].offset = adp[p].offset /\ adp'[p].owned = adp[p].owned
      /\ adp'[p].owner = adp[p].owner /\ adp'[p].donee = adp[p].donee
      /\ adp'[p].number = adp[p].number
  BY <1>3, <1>4
<1>8. Shape'
  <2>1. at' \in [Rank -> Where \cup {"none"}]
    BY <1>1, <1>3 DEF Shape, Where
  <2>2. /\ posted' \in [Rank -> BOOLEAN] /\ given' = [r \in Rank |-> given'[r]]
        /\ adp' = [r \in Rank |-> adp'[r]]
    BY <1>1, <1>3 DEF Shape
  <2>3. UNCHANGED <<begun, eager, recvs, chan, bufs>>
    BY <1>3
  <2> QED
    BY <1>1, <2>1, <2>2, <2>3 DEF Shape
<1>9. <<"values", "none">> \in Moves /\ "values" \in Plain
  BY DEF Moves, Plain
<1>10. Collective(p)'
  <2>1. Given(begun[p], "none") = Given(begun[p], "values")
    BY <1>2, <1>9, GivenMoves
  <2> QED
    BY <1>1, <1>6, <2>1, CollectiveSame DEF LocalInv
<1> QED
  BY <1>1, <1>3, <1>5, <1>6, <1>7, <1>8, <1>9, <1>10, PlainGoes

LEMMA ApplyKeeps ==
  ASSUME Inv, NEW p \in Rank, Apply(p)
  PROVE  Inv'
<1>1. Shape /\ LocalInv(p) /\ MayStart(p, "apply")
  BY DEF Inv, LocalInv, Apply
<1>2. /\ at[p] = "none" /\ begun[p] \in Nat /\ begun[p] + 1 \in 1 .. Len(Program)
      /\ Program[begun[p] + 1] = "apply" /\ SetUp(begun[p])
  BY <1>1, StartIs
<1>3. /\ begun' = [begun EXCEPT ![p] = begun[p] + 1] /\ at' = [at EXCEPT ![p] = "shared"]
      /\ recvs' = [recvs EXCEPT ![p] = 1 .. Len(adp[p].owner)]
      /\ UNCHANGED <<eager, posted, given, chan, adp, bufs>>
  BY DEF Apply, Begin, Expect
<1>4. adp[p].owner = owner_neighbours[p]
  BY <1>1, <1>2 DEF LocalInv, Partition
<1>5. DOMAIN owner_neighbours[p] = 1 .. Len(owner_neighbours[p]) /\ Len(owner_neighbours[p]) \in Nat
  BY OwnersListed DEF ListsRanks
<1>6. /\ begun'[p] = begun[p] + 1 /\ at'[p] = "shared" /\ posted'[p] = posted[p] /\ given'[p] = given[p]
      /\ adp'[p] = adp[p] /\ bufs'[p] = bufs[p] /\ OthersStay(p)
      /\ recvs'[p] = DOMAIN owner_neighbours[p]
  BY <1>1, <1>3, <1>4, <1>5 DEF Shape, OthersStay
<1>7. Shape'
  <2>1. begun' \in [Rank -> 0 .. Len(Program)]
    BY <1>1, <1>2, <1>3, ProgramIs DEF Shape
  <2>2. at' \in [Rank -> Where \cup {"none"}]
    BY <1>1, <1>3 DEF Shape, Where, ToOwners, ToDonees
  <2>3. recvs' \in [Rank -> SUBSET Nat]
    BY <1>1, <1>3, <1>4, <1>5 DEF Shape
  <2>4. UNCHANGED <<eager, posted, given, chan, adp, bufs>>
    BY <1>3
  <2> QED
    BY <1>1, <2>1, <2>2, <2>3, <2>4 DEF Shape
<1>8. <<"apply", "shared">> \in Starts
  BY DEF Starts
<1>9. Collective(p)'
  <2>1. Given(begun[p] + 1, "shared") = Given(begun[p], "none")
    BY <1>2, <1>8, GivenStarts
  <2> QED
    BY <1>1, <1>2, <1>6, <2>1, CollectiveSame DEF LocalInv
<1>10. "shared" \in ToDonees /\ \A dir \in Dir : "shared" \in Rounds(dir) => recvs'[p] = DOMAIN Sources(dir, p)
  <2>1. "shared" \in ToDonees /\ "shared" \notin Rounds("up") /\ Sources("down", p) = owner_neighbours[p]
    BY RoundsAre DEF Sources, ToDonees
  <2> QED
    BY <1>6, <2>1 DEF Dir
<1> QED
  BY <1>1, <1>3, <1>6, <1>7, <1>8, <1>9, <1>10, PlainStarts

LEMMA DownloadedKeeps ==
  ASSUME Inv, NEW p \in Rank, Downloaded(p)
  PROVE  Inv'
<1>1. Shape /\ LocalInv(p) /\ Phase(p) /\ at[p] = "shared" /\ posted[p] /\ recvs[p] = {}
  BY DEF Inv, LocalInv, Downloaded, AllReceived
<1>2. begun[p] \in 1 .. Len(Program) /\ Program[begun[p]] = CallOf("shared") /\ SetUp(begun[p])
  BY <1>1, CallIs
<1>3. /\ begun' = begun /\ at' = [at EXCEPT ![p] = "none"]
      /\ posted' = [posted EXCEPT ![p] = FALSE]
      /\ UNCHANGED <<eager, recvs, chan, bufs, given, adp>>
  BY DEF Downloaded, Goto
<1>4. adp[p] = [x \in DOMAIN EmptyParti |-> adp[p][x]]
  BY <1>1, <1>2 DEF LocalInv, Partition
<1>5. posted'[p] = FALSE
  BY <1>1, <1>3 DEF Phase, Shape, ToOwners, ToDonees
<1>6. /\ begun'[p] = begun[p] /\ at'[p] = "none" /\ bufs'[p] = bufs[p] /\ recvs'[p] = recvs[p]
      /\ OthersStay(p) /\ given'[p] = given[p]
  BY <1>1, <1>3 DEF Shape, OthersStay
<1>7. /\ adp'[p] = [x \in DOMAIN EmptyParti |-> adp'[p][x]]
      /\ adp'[p].offset = adp[p].offset /\ adp'[p].owned = adp[p].owned
      /\ adp'[p].owner = adp[p].owner /\ adp'[p].donee = adp[p].donee
      /\ adp'[p].number = adp[p].number
  BY <1>3, <1>4
<1>8. Shape'
  <2>1. at' \in [Rank -> Where \cup {"none"}]
    BY <1>1, <1>3 DEF Shape, Where
  <2>2. /\ posted' \in [Rank -> BOOLEAN] /\ given' = [r \in Rank |-> given'[r]]
        /\ adp' = [r \in Rank |-> adp'[r]]
    BY <1>1, <1>3 DEF Shape
  <2>3. UNCHANGED <<begun, eager, recvs, chan, bufs>>
    BY <1>3
  <2> QED
    BY <1>1, <2>1, <2>2, <2>3 DEF Shape
<1>9. <<"shared", "none">> \in Moves /\ "shared" \in Plain
  BY DEF Moves, Plain
<1>10. Collective(p)'
  <2>1. Given(begun[p], "none") = Given(begun[p], "shared")
    BY <1>2, <1>9, GivenMoves
  <2> QED
    BY <1>1, <1>6, <2>1, CollectiveSame DEF LocalInv
<1> QED
  BY <1>1, <1>3, <1>5, <1>6, <1>7, <1>8, <1>9, <1>10, PlainGoes

LEMMA AllGatherKeeps ==
  ASSUME Inv, NEW p \in Rank, AllGather(p)
  PROVE  Inv'
<1>1. Shape /\ LocalInv(p) /\ MayStart(p, "allgather")
  BY DEF Inv, LocalInv, AllGather
<1>2. /\ at[p] = "none" /\ begun[p] \in Nat /\ begun[p] + 1 \in 1 .. Len(Program)
      /\ Program[begun[p] + 1] = "allgather" /\ SetUp(begun[p])
  BY <1>1, StartIs
<1>3. /\ begun' = [begun EXCEPT ![p] = begun[p] + 1] /\ at' = [at EXCEPT ![p] = "offsets"]
      /\ given' = [given EXCEPT ![p] = Append(given[p], adp[p].offset)]
      /\ UNCHANGED <<eager, posted, recvs, chan, adp, bufs>>
  BY DEF AllGather, Begin, Call
<1>6. /\ begun'[p] = begun[p] + 1 /\ at'[p] = "offsets" /\ posted'[p] = posted[p]
      /\ adp'[p] = adp[p] /\ bufs'[p] = bufs[p] /\ recvs'[p] = recvs[p] /\ OthersStay(p)
      /\ given'[p] = Append(given[p], adp[p].offset)
  BY <1>1, <1>3 DEF Shape, OthersStay
<1>7. Shape'
  <2>1. begun' \in [Rank -> 0 .. Len(Program)]
    BY <1>1, <1>2, <1>3, ProgramIs DEF Shape
  <2>2. at' \in [Rank -> Where \cup {"none"}]
    BY <1>1, <1>3 DEF Shape, Where, ToOwners, ToDonees
  <2>3. given' = [r \in Rank |-> given'[r]]
    BY <1>1, <1>3 DEF Shape
  <2>4. UNCHANGED <<eager, posted, recvs, chan, adp, bufs>>
    BY <1>3
  <2> QED
    BY <1>1, <2>1, <2>2, <2>3, <2>4 DEF Shape
<1>8. <<"allgather", "offsets">> \in Starts
  BY DEF Starts
<1>9. Collective(p)'
  <2>1. Given(begun[p] + 1, "offsets") = Given(begun[p], "none") + 1
    BY <1>2, <1>8, GivenStarts
  <2>2. ~IsOfSizes(Len(given[p]) + 1)
    <3>1. Len(given[p]) + 1 = Given(begun[p] + 1, "offsets")
      BY <1>1, <1>2, <2>1 DEF LocalInv, Collective
    <3>2. Given(begun[p] + 1, "offsets") = SumBefore(Shares, begun[p] + 1) + 1
      BY DEF Given
    <3> PICK t \in 1 .. Len(Program) : t = begun[p] + 1
      BY <1>2
    <3>3. /\ SumBefore(Shares, t) \in Nat /\ Shares[t] = 3
          /\ SumBefore(Shares, t + 1) = SumBefore(Shares, t) + Shares[t]
      BY <1>2, SharesIs
    <3>4. SumBefore(Shares, t) + 1 \in SumBefore(Shares, t) + 1 .. SumBefore(Shares, t + 1)
      BY <3>3
    <3>5. ~IsOfSizes(SumBefore(Shares, t) + 1)
      BY <1>2, <3>4, OfSizes
    <3> QED
      BY <3>1, <3>2, <3>5
  <2> QED
    BY <1>1, <1>2, <1>6, <2>1, <2>2, CollectiveCall DEF LocalInv
<1>10. \A dir \in Dir : "offsets" \notin Rounds(dir)
  BY RoundsAre DEF Dir
<1> QED
  BY <1>1, <1>3, <1>6, <1>7, <1>8, <1>9, <1>10, PlainStarts

LEMMA LearnOffsetsKeeps ==
  ASSUME Inv, NEW p \in Rank, LearnOffsets(p)
  PROVE  Inv'
<1>1. Shape /\ LocalInv(p) /\ Phase(p) /\ at[p] = "offsets"
  BY DEF Inv, LocalInv, LearnOffsets
<1>2. begun[p] \in 1 .. Len(Program) /\ Program[begun[p]] = CallOf("offsets") /\ SetUp(begun[p])
  BY <1>1, CallIs
<1>3. /\ begun' = begun /\ at' = [at EXCEPT ![p] = "counts"]
      /\ given' = [given EXCEPT ![p] = Append(given[p], Len(adp[p].owned))]
      /\ adp' = [adp EXCEPT ![p].offsets = Gathered(p)]
      /\ UNCHANGED <<eager, posted, recvs, chan, bufs>>
  BY DEF LearnOffsets, Goto, Call
<1>4. adp[p] = [x \in DOMAIN EmptyParti |-> adp[p][x]]
  BY <1>1, <1>2 DEF LocalInv, Partition
<1>5. posted'[p] = FALSE
  BY <1>1, <1>3 DEF Phase, Shape, ToOwners, ToDonees
<1>6. /\ begun'[p] = begun[p] /\ at'[p] = "counts" /\ bufs'[p] = bufs[p] /\ recvs'[p] = recvs[p]
      /\ OthersStay(p) /\ given'[p] = Append(given[p], Len(adp[p].owned))
  BY <1>1, <1>3 DEF Shape, OthersStay
<1>7. /\ adp'[p] = [x \in DOMAIN EmptyParti |-> adp'[p][x]]
      /\ adp'[p].offset = adp[p].offset /\ adp'[p].owned = adp[p].owned
      /\ adp'[p].owner = adp[p].owner /\ adp'[p].donee = adp[p].donee
      /\ adp'[p].number = adp[p].number
  <2>1. adp'[p] = [adp[p] EXCEPT !.offsets = Gathered(p)]
    BY <1>1, <1>3 DEF Shape
  <2> QED
    BY <1>4, <2>1, EmptyIs
<1>8. Shape'
  <2>1. at' \in [Rank -> Where \cup {"none"}]
    BY <1>1, <1>3 DEF Shape, Where
  <2>2. /\ posted' \in [Rank -> BOOLEAN] /\ given' = [r \in Rank |-> given'[r]]
        /\ adp' = [r \in Rank |-> adp'[r]]
    BY <1>1, <1>3 DEF Shape
  <2>3. UNCHANGED <<begun, eager, recvs, chan, bufs>>
    BY <1>3
  <2> QED
    BY <1>1, <2>1, <2>2, <2>3 DEF Shape
<1>9. <<"offsets", "counts">> \in Moves /\ "offsets" \in Plain
  BY DEF Moves, Plain
<1>10. Collective(p)'
  <2>1. Given(begun[p], "counts") = Given(begun[p], "offsets") + 1
    BY <1>2, <1>9, GivenMoves
  <2>2. ~IsOfSizes(Len(given[p]) + 1)
    <3> PICK t \in 1 .. Len(Program) : t = begun[p]
      BY <1>2
    <3>1. Program[t] = "allgather"
      BY <1>2 DEF CallOf
    <3>2. Len(given[p]) + 1 = Given(t, "counts")
      BY <1>1, <2>1 DEF LocalInv, Collective
    <3>3. /\ SumBefore(Shares, t) \in Nat /\ Shares[t] = 3
          /\ SumBefore(Shares, t + 1) = SumBefore(Shares, t) + Shares[t]
      BY <3>1, SharesIs
    <3>4. Given(t, "counts") = SumBefore(Shares, t) + 2
      BY <3>3 DEF Given
    <3>5. SumBefore(Shares, t) + 2 \in SumBefore(Shares, t) + 1 .. SumBefore(Shares, t + 1)
      BY <3>3
    <3>6. ~IsOfSizes(SumBefore(Shares, t) + 2)
      BY <3>1, <3>5, OfSizes
    <3> QED
      BY <3>2, <3>4, <3>6
  <2> QED
    BY <1>1, <1>6, <2>1, <2>2, CollectiveCall DEF LocalInv
<1> QED
  BY <1>1, <1>3, <1>5, <1>6, <1>7, <1>8, <1>9, <1>10, PlainGoes

LEMMA LearnCountsKeeps ==
  ASSUME Inv, NEW p \in Rank, LearnCounts(p)
  PROVE  Inv'
<1>1. Shape /\ LocalInv(p) /\ Phase(p) /\ at[p] = "counts"
  BY DEF Inv, LocalInv, LearnCounts
<1>2. begun[p] \in 1 .. Len(Program) /\ Program[begun[p]] = CallOf("counts") /\ SetUp(begun[p])
  BY <1>1, CallIs
<1>3. /\ begun' = begun /\ at' = [at EXCEPT ![p] = "full"]
      /\ given' = [given EXCEPT ![p] = Append(given[p], Uploaded(p))]
      /\ adp' = [adp EXCEPT ![p].counts = Gathered(p)]
      /\ UNCHANGED <<eager, posted, recvs, chan, bufs>>
  BY DEF LearnCounts, Goto, Call
<1>4. adp[p] = [x \in DOMAIN EmptyParti |-> adp[p][x]]
  BY <1>1, <1>2 DEF LocalInv, Partition
<1>5. posted'[p] = FALSE
  BY <1>1, <1>3 DEF Phase, Shape, ToOwners, ToDonees
<1>6. /\ begun'[p] = begun[p] /\ at'[p] = "full" /\ bufs'[p] = bufs[p] /\ recvs'[p] = recvs[p]
      /\ OthersStay(p) /\ given'[p] = Append(given[p], Uploaded(p))
  BY <1>1, <1>3 DEF Shape, OthersStay
<1>7. /\ adp'[p] = [x \in DOMAIN EmptyParti |-> adp'[p][x]]
      /\ adp'[p].offset = adp[p].offset /\ adp'[p].owned = adp[p].owned
      /\ adp'[p].owner = adp[p].owner /\ adp'[p].donee = adp[p].donee
      /\ adp'[p].number = adp[p].number
  <2>1. adp'[p] = [adp[p] EXCEPT !.counts = Gathered(p)]
    BY <1>1, <1>3 DEF Shape
  <2> QED
    BY <1>4, <2>1, EmptyIs
<1>8. Shape'
  <2>1. at' \in [Rank -> Where \cup {"none"}]
    BY <1>1, <1>3 DEF Shape, Where
  <2>2. /\ posted' \in [Rank -> BOOLEAN] /\ given' = [r \in Rank |-> given'[r]]
        /\ adp' = [r \in Rank |-> adp'[r]]
    BY <1>1, <1>3 DEF Shape
  <2>3. UNCHANGED <<begun, eager, recvs, chan, bufs>>
    BY <1>3
  <2> QED
    BY <1>1, <2>1, <2>2, <2>3 DEF Shape
<1>9. <<"counts", "full">> \in Moves /\ "counts" \in Plain
  BY DEF Moves, Plain
<1>10. Collective(p)'
  <2>1. Given(begun[p], "full") = Given(begun[p], "counts") + 1
    BY <1>2, <1>9, GivenMoves
  <2>2. ~IsOfSizes(Len(given[p]) + 1)
    <3> PICK t \in 1 .. Len(Program) : t = begun[p]
      BY <1>2
    <3>1. Program[t] = "allgather"
      BY <1>2 DEF CallOf
    <3>2. Len(given[p]) + 1 = Given(t, "full")
      BY <1>1, <2>1 DEF LocalInv, Collective
    <3>3. /\ SumBefore(Shares, t) \in Nat /\ Shares[t] = 3
          /\ SumBefore(Shares, t + 1) = SumBefore(Shares, t) + Shares[t]
      BY <3>1, SharesIs
    <3>4. Given(t, "full") = SumBefore(Shares, t) + 3
      BY <3>3 DEF Given
    <3>5. SumBefore(Shares, t) + 3 \in SumBefore(Shares, t) + 1 .. SumBefore(Shares, t + 1)
      BY <3>3
    <3>6. ~IsOfSizes(SumBefore(Shares, t) + 3)
      BY <3>1, <3>5, OfSizes
    <3> QED
      BY <3>2, <3>4, <3>6
  <2> QED
    BY <1>1, <1>6, <2>1, <2>2, CollectiveCall DEF LocalInv
<1> QED
  BY <1>1, <1>3, <1>5, <1>6, <1>7, <1>8, <1>9, <1>10, PlainGoes

LEMMA GatherKeeps ==
  ASSUME Inv, NEW p \in Rank, Gather(p)
  PROVE  Inv'
<1>1. Shape /\ LocalInv(p) /\ Phase(p) /\ at[p] = "full"
  BY DEF Inv, LocalInv, Gather
<1>2. begun[p] \in 1 .. Len(Program) /\ Program[begun[p]] = CallOf("full") /\ SetUp(begun[p])
  BY <1>1, CallIs
<1>3. /\ begun' = begun /\ at' = [at EXCEPT ![p] = "none"]
      /\ UNCHANGED <<eager, posted, recvs, chan, bufs, given, adp>>
  BY DEF Gather, Goto
<1>4. adp[p] = [x \in DOMAIN EmptyParti |-> adp[p][x]]
  BY <1>1, <1>2 DEF LocalInv, Partition
<1>5. posted'[p] = FALSE
  BY <1>1, <1>3 DEF Phase, Shape, ToOwners, ToDonees
<1>6. /\ begun'[p] = begun[p] /\ at'[p] = "none" /\ bufs'[p] = bufs[p] /\ recvs'[p] = recvs[p]
      /\ OthersStay(p) /\ given'[p] = given[p]
  BY <1>1, <1>3 DEF Shape, OthersStay
<1>7. /\ adp'[p] = [x \in DOMAIN EmptyParti |-> adp'[p][x]]
      /\ adp'[p].offset = adp[p].offset /\ adp'[p].owned = adp[p].owned
      /\ adp'[p].owner = adp[p].owner /\ adp'[p].donee = adp[p].donee
      /\ adp'[p].number = adp[p].number
  BY <1>3, <1>4
<1>8. Shape'
  <2>1. at' \in [Rank -> Where \cup {"none"}]
    BY <1>1, <1>3 DEF Shape, Where
  <2>2. /\ posted' \in [Rank -> BOOLEAN] /\ given' = [r \in Rank |-> given'[r]]
        /\ adp' = [r \in Rank |-> adp'[r]]
    BY <1>1, <1>3 DEF Shape
  <2>3. UNCHANGED <<begun, eager, recvs, chan, bufs>>
    BY <1>3
  <2> QED
    BY <1>1, <2>1, <2>2, <2>3 DEF Shape
<1>9. <<"full", "none">> \in Moves /\ "full" \in Plain
  BY DEF Moves, Plain
<1>10. Collective(p)'
  <2>1. Given(begun[p], "none") = Given(begun[p], "full")
    BY <1>2, <1>9, GivenMoves
  <2> QED
    BY <1>1, <1>6, <2>1, CollectiveSame DEF LocalInv
<1> QED
  BY <1>1, <1>3, <1>5, <1>6, <1>7, <1>8, <1>9, <1>10, PlainGoes

LEMMA DoneSymbolicKeeps ==
  ASSUME Inv, NEW p \in Rank, DoneSymbolic(p)
  PROVE  Inv'
<1>1. Shape /\ LocalInv(p) /\ Phase(p) /\ MayStart(p, "done_symbolic")
  BY DEF Inv, LocalInv, DoneSymbolic
<1>2. /\ at[p] = "none" /\ begun[p] \in Nat /\ begun[p] + 1 \in 1 .. Len(Program)
      /\ Program[begun[p] + 1] = "done_symbolic" /\ ~SetUp(begun[p] + 1)
  BY <1>1, StartIs
<1>3. /\ begun' = [begun EXCEPT ![p] = begun[p] + 1] /\ at' = [at EXCEPT ![p] = "none"]
      /\ adp' = [adp EXCEPT ![p] = EmptyParti] /\ bufs' = [bufs EXCEPT ![p] = <<>>]
      /\ UNCHANGED <<eager, posted, recvs, given, chan>>
  BY DEF DoneSymbolic, Begin
<1>4. /\ begun'[p] = begun[p] + 1 /\ at'[p] = "none" /\ adp'[p] = EmptyParti
      /\ given'[p] = given[p] /\ OthersStay(p)
  BY <1>1, <1>3 DEF Shape, OthersStay
<1>5. Shape'
  <2>1. begun' \in [Rank -> 0 .. Len(Program)]
    BY <1>1, <1>2, <1>3, ProgramIs DEF Shape
  <2>2. at' \in [Rank -> Where \cup {"none"}]
    BY <1>1, <1>3 DEF Shape
  <2>3. adp' = [r \in Rank |-> adp'[r]] /\ bufs' = [r \in Rank |-> bufs'[r]]
    BY <1>1, <1>3 DEF Shape
  <2>4. UNCHANGED <<eager, posted, recvs, given, chan>>
    BY <1>3
  <2> QED
    BY <1>1, <2>1, <2>2, <2>3, <2>4 DEF Shape
<1>6. posted[p] = FALSE /\ recvs[p] = {}
  BY <1>1, <1>2 DEF Phase, Shape, ToOwners, ToDonees
<1>7. Phase(p)'
  BY <1>3, <1>4, <1>6, RoundsAre DEF Phase, Dir
<1>8. Partition(p)' /\ Buffer(p)'
  BY <1>2, <1>4 DEF Partition, Buffer
<1>9. <<"done_symbolic", "none">> \in Starts
  BY DEF Starts
<1>10. Collective(p)'
  <2>1. Given(begun[p] + 1, "none") = Given(begun[p], "none")
    BY <1>2, <1>9, GivenStarts
  <2> QED
    BY <1>1, <1>2, <1>4, <2>1, CollectiveSame DEF LocalInv
<1>11. CountsSame(p)
  <2>1. \A dir \in Dir : "none" \notin Rounds(dir)
    BY RoundsAre DEF Dir
  <2> QED
    BY <1>1, <1>3, <1>4, <1>6, <1>9, <2>1, CountsStart DEF CountsSame
<1>12. LocalInv(p)'
  BY <1>7, <1>8, <1>10 DEF LocalInv
<1> QED
  BY <1>3, <1>4, <1>5, <1>11, <1>12, QuietStep

----------------------------------------------------------------------------
(* Messages.                                                               *)

\* A process in a round of messages.
LEMMA RoundIs ==
  ASSUME Inv, NEW p \in Rank, NEW dir \in Dir, at[p] \in Rounds(dir)
  PROVE  /\ at[p] \in ToOwners \cup ToDonees
         /\ begun[p] \in 1 .. Len(Program) /\ Program[begun[p]] = CallOf(at[p]) /\ SetUp(begun[p])
         /\ \A e \in Dir : at[p] \in Rounds(e) => e = dir
         /\ SendsTo(p) = Targets(dir, p) /\ ReceivesFrom(p) = Sources(dir, p)
         /\ adp[p].offset = Offset(p) /\ adp[p].owned = owned_dofs[p] /\ Numbers(p)
         /\ adp[p].owner = owner_neighbours[p] /\ adp[p].donee = donee_neighbours[p]
<1>1. Shape /\ Phase(p) /\ Partition(p)
  BY DEF Inv, LocalInv
<1>2. at[p] \in ToOwners \cup ToDonees
  BY DEF Rounds
<1>3. at[p] # "none" /\ at[p] # "exscan" /\ at[p] # "allreduce"
  BY <1>2 DEF ToOwners, ToDonees
<1>4. begun[p] \in 1 .. Len(Program) /\ Program[begun[p]] = CallOf(at[p]) /\ SetUp(begun[p])
  BY <1>1, <1>3, CallIs
<1>5. \A e \in Dir : at[p] \in Rounds(e) => e = dir
  BY RoundsAre DEF Dir
<1>6. /\ adp[p].offset = Offset(p) /\ adp[p].owned = owned_dofs[p] /\ Numbers(p)
      /\ adp[p].owner = owner_neighbours[p] /\ adp[p].donee = donee_neighbours[p]
  BY <1>1, <1>3, <1>4 DEF Partition
<1>7. SendsTo(p) = Targets(dir, p) /\ ReceivesFrom(p) = Sources(dir, p)
  BY <1>6 DEF SendsTo, ReceivesFrom, Targets, Sources, Rounds, Dir, ToOwners, ToDonees
<1> QED
  BY <1>2, <1>4, <1>5, <1>6, <1>7

\* Its place in the numbers of all rounds.
LEMMA RoundCounts ==
  ASSUME NEW dir \in Dir, NEW t \in 1 .. Len(Program), NEW w \in Rounds(dir)
  PROVE  /\ SumBefore(Count(dir), t) + RoundNo(w) \in Nat
         /\ Done(dir, t, w, FALSE) + 1 = SumBefore(Count(dir), t) + RoundNo(w)
         /\ Done(dir, t, w, TRUE) = SumBefore(Count(dir), t) + RoundNo(w)
         /\ Done(dir, t, w, FALSE) \in Nat
<1>1. PICK a \in Nat : a = SumBefore(Count(dir), t)
  BY CountIs
<1>2. RoundNo(w) \in {1, 2, 3}
  BY RoundsAre DEF Dir
<1>3. PICK k \in {1, 2, 3} : k = RoundNo(w)
  BY <1>2
<1>4. Past(dir, t, w) = a + k - 1
  BY <1>1, <1>3 DEF Past
<1>5. a + k \in Nat /\ (a + k - 1) + 0 \in Nat /\ ((a + k - 1) + 0) + 1 = a + k /\ (a + k - 1) + 1 = a + k
  OBVIOUS
<1>6. Done(dir, t, w, FALSE) = (a + k - 1) + 0 /\ Done(dir, t, w, TRUE) = (a + k - 1) + 1
  BY <1>4 DEF Done
<1> QED
  BY <1>1, <1>3, <1>5, <1>6, Zenon

\* What a process sends is what the other one expects of it.
LEMMA ContentIs ==
  ASSUME Inv, NEW p \in Rank, NEW dir \in Dir, at[p] \in Rounds(dir),
         NEW i \in DOMAIN Targets(dir, p), NEW q, q = Targets(dir, p)[i].rank
  PROVE  IsContent(p, q, Message(p, i))
<1>1. /\ SendsTo(p) = Targets(dir, p) /\ adp[p].offset = Offset(p) /\ adp[p].owned = owned_dofs[p]
      /\ Numbers(p) /\ adp[p].owner = owner_neighbours[p]
  BY RoundIs
<1>2. q \in Rank /\ Link(dir, p, q)
  BY TargetsListed DEF ListsRanks
<1> DEFINE m == Message(p, i)
           idx == SendsTo(p)[i].idx
<1>3. m.round = at[p] /\ m.content = Content(p, i)
  BY DEF Message
<1> HIDE DEF m
<1>4. CASE dir = "down"
  <2>1. /\ Serves(p, q) /\ idx = Indices(p, q) /\ at[p] \in {"numbers", "shared"}
    BY <1>1, <1>2, <1>4, DoneesListed, RoundsAre DEF Link, Targets
  <2> DEFINE down == Served(p, q)
  <2>2. \A k \in DOMAIN down : down[k] \in Own(p) /\ LowestHolder[down[k]] = p
    <3> TAKE k \in DOMAIN down
    <3>1. down[k] \in {d \in Holds(q) : LowestHolder[d] = p}
      BY <1>2, <2>1, ServesIs DEF ToSet
    <3>2. down[k] \in Holds(LowestHolder[down[k]])
      BY <1>2, <3>1, LowestHolderIs
    <3> QED
      BY <3>1, <3>2 DEF Own
  <2>3. DOMAIN idx = DOMAIN down /\ \A k \in DOMAIN down : idx[k] = own_dof_idx[p][down[k]]
    BY <2>1 DEF Indices
  <2> HIDE DEF idx, down
  <2>4. CASE at[p] = "numbers"
    <3>1. m.content = [k \in DOMAIN idx |-> adp[p].offset + idx[k]]
      BY <1>3, <2>4 DEF Content, idx
    <3>2. \A k \in DOMAIN down : adp[p].offset + idx[k] = Global(down[k])
      BY <1>1, <2>2, <2>3 DEF Global
    <3>3. m.content = [k \in DOMAIN down |-> Global(down[k])]
      BY <2>3, <3>1, <3>2
    <3> QED
      BY <1>3, <2>4, <3>3 DEF IsContent, down, m
  <2>5. CASE at[p] = "shared"
    <3>1. m.content = [k \in DOMAIN idx |-> Uploaded(p)[idx[k]]]
      BY <1>3, <2>5 DEF Content, idx
    <3>2. \A k \in DOMAIN down : Uploaded(p)[idx[k]] = SetToBag({<<p, down[k]>>})
      <4> TAKE k \in DOMAIN down
      <4>1. /\ idx[k] \in 0 .. Len(adp[p].owned) - 1 /\ adp[p].owned[idx[k] + 1] = down[k]
        BY <1>1, <2>2, <2>3, OwnIndexIs
      <4> QED
        BY <4>1 DEF Uploaded
    <3>3. m.content = [k \in DOMAIN down |-> SetToBag({<<p, down[k]>>})]
      BY <2>3, <3>1, <3>2
    <3> QED
      BY <1>3, <2>5, <3>3 DEF IsContent, down, m
  <2> QED
    BY <2>1, <2>4, <2>5
<1>5. CASE dir = "up"
  <2>1. /\ idx = Served(q, p) /\ at[p] \in {"dims", "rows", "cols", "values"}
        /\ adp[p].owner[i].idx = idx
    BY <1>1, <1>2, <1>5, OwnersListed, RoundsAre DEF Targets
  <2> DEFINE up == Served(q, p)
  <2>2. \A d \in Holds(p) : adp[p].number[d] = Global(d)
    BY <1>1, <2>1 DEF Numbers, Awaits
  <2>3. Pattern[p] \subseteq Holds(p) \X Holds(p)
    BY AlgDofPartiAssumption
  <2>4. \A d : {adp[p].number[e[2]] : e \in {f \in Pattern[p] : f[1] = d}} = Columns(p, d)
    BY <2>2, <2>3 DEF Columns
  <2>5. OwnerBuf(p, i) = ColsOf(q, p)
    BY <2>1, <2>4 DEF OwnerBuf, ColsOf
  <2>6. \A k \in DOMAIN up : OwnerBuf(p, i)[k] = Columns(p, up[k])
    BY <2>5 DEF ColsOf
  <2> HIDE DEF idx
  <2>7. CASE at[p] = "dims"
    <3>1. m.content.rows = Len(idx)
      BY <1>3, <2>7 DEF Content, idx
    <3> QED
      BY <1>3, <2>1, <2>7, <3>1 DEF IsContent, m
  <2>8. CASE at[p] = "rows"
    <3>1. m.content = [k \in DOMAIN idx |-> Cardinality(OwnerBuf(p, i)[k])]
      BY <1>3, <2>8 DEF Content, idx
    <3>2. m.content = RowsOf(q, p)
      BY <2>1, <2>6, <3>1 DEF RowsOf
    <3> QED
      BY <1>3, <2>8, <3>2 DEF IsContent, m
  <2>9. CASE at[p] = "cols"
    <3>1. m.content = ColsOf(q, p)
      BY <1>3, <2>5, <2>9 DEF Content
    <3> QED
      BY <1>3, <2>9, <3>1 DEF IsContent, m
  <2>10. CASE at[p] = "values"
    <3>1. m.content = [k \in DOMAIN idx |-> [g \in OwnerBuf(p, i)[k] |-> LocalValue(p, idx[k], g)]]
      BY <1>3, <2>10 DEF Content, idx
    <3>2. \A d, g : LocalValue(p, d, g) = LocalOf(p, d, g)
      BY <2>2, <2>3 DEF LocalValue, LocalOf
    <3>3. m.content = ValuesOf(q, p)
      <4> HIDE DEF m
      <4>1. \A k \in DOMAIN up : [g \in OwnerBuf(p, i)[k] |-> LocalValue(p, idx[k], g)] =
                                 [g \in Columns(p, up[k]) |-> LocalOf(p, up[k], g)]
        BY <2>1, <2>6, <3>2
      <4>2. m.content = [k \in DOMAIN up |-> [g \in Columns(p, up[k]) |-> LocalOf(p, up[k], g)]]
        BY <2>1, <3>1, <4>1
      <4> QED
        BY <4>2 DEF ValuesOf
    <3> QED
      BY <1>3, <2>10, <3>3 DEF IsContent, m
  <2> QED
    BY <2>1, <2>7, <2>8, <2>9, <2>10
<1> QED
  BY <1>4, <1>5 DEF Dir

\* The counts are numbers.
LEMMA DoneIsNumber ==
  ASSUME Shape, NEW p \in Rank, Phase(p), NEW dir \in Dir, NEW x
  PROVE  Done(dir, begun[p], at[p], x) \in Nat
<1>1. begun[p] \in 0 .. Len(Program) /\ Len(Program) \in Nat
  BY ProgramIs DEF Shape
<1>2. CASE at[p] = "none"
  <2>1. "none" \notin Rounds(dir) /\ "none" \notin Early(dir)
    BY RoundsAre DEF Dir
  <2>2. Done(dir, begun[p], at[p], x) = Past(dir, begun[p], "none") + 0
    BY <1>2, <2>1 DEF Done
  <2>3. Past(dir, begun[p], "none") = SumBefore(Count(dir), begun[p] + 1)
    BY <2>1 DEF Past
  <2>4. CASE begun[p] = 0
    <3>1. SumBefore(Count(dir), 1) = 0
      <4> DEFINE v == Count(dir)
      <4> HIDE DEF v
      <4>1. 0 \in Nat /\ \A i \in 1 .. 0 : v[i] \in Nat
        OBVIOUS
      <4>2. SumBefore(v, 1) = 0
        BY <4>1, SumBeforeNext
      <4> QED
        BY <4>2 DEF v
    <3> QED
      BY <2>2, <2>3, <2>4, <3>1
  <2>5. CASE begun[p] # 0
    <3>1. begun[p] \in 1 .. Len(Program)
      BY <1>1, <2>5
    <3>2. SumBefore(Count(dir), begun[p] + 1) \in Nat
      BY <3>1, CountIs
    <3> QED
      BY <2>2, <2>3, <3>2
  <2> QED
    BY <2>4, <2>5
<1>3. CASE at[p] \in Rounds(dir)
  <2>1. at[p] # "none"
    BY <1>3, RoundsAre DEF Dir
  <2>2. PICK t \in 1 .. Len(Program) : t = begun[p]
    BY <2>1, CallIs
  <2>3. PICK w \in Rounds(dir) : w = at[p]
    BY <1>3
  <2>4. /\ Done(dir, t, w, FALSE) \in Nat
        /\ Done(dir, t, w, TRUE) = SumBefore(Count(dir), t) + RoundNo(w)
        /\ SumBefore(Count(dir), t) + RoundNo(w) \in Nat
    BY RoundCounts
  <2>5. Done(dir, t, w, TRUE) \in Nat
    BY <2>4, Zenon
  <2>6. Done(dir, t, w, x) = Done(dir, t, w, TRUE) \/ Done(dir, t, w, x) = Done(dir, t, w, FALSE)
    <3>1. CASE x
      BY <3>1 DEF Done
    <3>2. CASE ~x
      BY <3>2 DEF Done
    <3> QED
      BY <3>1, <3>2
  <2>7. Done(dir, t, w, x) \in Nat
    <3>1. CASE Done(dir, t, w, x) = Done(dir, t, w, TRUE)
      BY <2>5, <3>1, Zenon
    <3>2. CASE Done(dir, t, w, x) = Done(dir, t, w, FALSE)
      BY <2>4, <3>2, Zenon
    <3> QED
      BY <2>6, <3>1, <3>2
  <2> QED
    BY <2>2, <2>3, <2>7
<1>4. CASE at[p] # "none" /\ at[p] \notin Rounds(dir)
  <2>1. PICK t \in 1 .. Len(Program) : t = begun[p]
    BY <1>4, CallIs
  <2>2. SumBefore(Count(dir), t) \in Nat /\ SumBefore(Count(dir), t + 1) \in Nat
    BY CountIs
  <2>3. Past(dir, t, at[p]) \in Nat
    BY <1>4, <2>2 DEF Past
  <2>4. Done(dir, t, at[p], x) = Past(dir, t, at[p]) + 0
    BY <1>4 DEF Done
  <2> QED
    BY <2>1, <2>3, <2>4
<1> QED
  BY <1>2, <1>3, <1>4

\* A message is put at the end of the channel to each of those it is sent to.
LEMMA SendIs ==
  ASSUME Inv, NEW p \in Rank, NEW dir \in Dir, at[p] \in Rounds(dir), Send(p)
  PROVE  /\ chan' = [r \in Rank |-> [q \in Rank |-> chan'[r][q]]]
         /\ \A r \in Rank \ {p} : \A q \in Rank : chan'[r][q] = chan[r][q]
         /\ \A q \in Rank : ~Link(dir, p, q) => chan'[p][q] = chan[p][q]
         /\ \A q \in Rank : Link(dir, p, q) =>
              \E i \in DOMAIN Targets(dir, p) :
                q = Targets(dir, p)[i].rank /\ chan'[p][q] = chan[p][q] \o <<Message(p, i)>>
<1> DEFINE list == Targets(dir, p)
           msgs == [i \in DOMAIN list |-> Message(p, i)]
           new(q) == AtPlaces(msgs, {i \in DOMAIN list : list[i].rank = q})
<1>1. Shape /\ SendsTo(p) = list
  BY RoundIs DEF Inv
<1>2. chan' = [chan EXCEPT ![p] = [q \in Rank |-> @[q] \o new(q)]]
  BY <1>1 DEF Send
<1>3. /\ \A q \in Rank : chan'[p][q] = chan[p][q] \o new(q)
      /\ \A r \in Rank \ {p} : \A q \in Rank : chan'[r][q] = chan[r][q]
      /\ chan' = [r \in Rank |-> [q \in Rank |-> chan'[r][q]]]
  <2> HIDE DEF new
  <2>1. chan = [r \in Rank |-> [q \in Rank |-> chan[r][q]]]
    BY <1>1 DEF Shape
  <2> QED
    BY <1>2, <2>1
<1>4. ListsRanks(list, {q \in Rank : Link(dir, p, q)})
  BY TargetsListed
<1>5. ASSUME NEW q \in Rank, ~Link(dir, p, q) PROVE chan'[p][q] = chan[p][q]
  <2>1. {i \in DOMAIN list : list[i].rank = q} = {}
    BY <1>4, <1>5 DEF ListsRanks
  <2>2. new(q) = <<>>
    BY <2>1, NoPlace
  <2>3. IsSeq(chan[p][q])
    BY <1>1 DEF Shape
  <2> QED
    BY <1>3, <2>2, <2>3, SeqSame
<1>6. ASSUME NEW q \in Rank, Link(dir, p, q)
      PROVE  \E i \in DOMAIN list : q = list[i].rank /\ chan'[p][q] = chan[p][q] \o <<Message(p, i)>>
  <2>1. PICK i \in DOMAIN list : list[i].rank = q
    BY <1>4, <1>6 DEF ListsRanks
  <2>2. {j \in DOMAIN list : list[j].rank = q} = {i} /\ i \in Int
    BY <1>4, <2>1 DEF ListsRanks
  <2>3. new(q) = <<msgs[i]>>
    <3> HIDE DEF msgs
    <3> QED
      BY <2>2, OnePlace
  <2>4. new(q) = <<Message(p, i)>>
    BY <2>3
  <2> HIDE DEF new
  <2> QED
    BY <1>3, <2>1, <2>4
<1> QED
  BY <1>3, <1>5, <1>6

LEMMA PostSendsKeeps ==
  ASSUME Inv, NEW p \in Rank, PostSends(p)
  PROVE  Inv'
<1>1. at[p] \in ToOwners \cup ToDonees /\ ~posted[p] /\ Send(p)
  BY DEF PostSends
<1>2. PICK dir \in Dir : at[p] \in Rounds(dir)
  BY <1>1 DEF Dir, Rounds
<1>3. posted' = [posted EXCEPT ![p] = TRUE] /\ UNCHANGED <<eager, begun, at, recvs, given, adp, bufs>>
  BY DEF PostSends
<1>4. /\ Shape /\ LocalInv(p) /\ InOrder /\ OnlyNeighbours
      /\ begun[p] \in 1 .. Len(Program) /\ Program[begun[p]] = CallOf(at[p])
      /\ \A e \in Dir : at[p] \in Rounds(e) => e = dir
  BY <1>2, RoundIs DEF Inv
<1>5. /\ chan' = [r \in Rank |-> [q \in Rank |-> chan'[r][q]]]
      /\ \A r \in Rank \ {p} : \A q \in Rank : chan'[r][q] = chan[r][q]
      /\ \A q \in Rank : ~Link(dir, p, q) => chan'[p][q] = chan[p][q]
      /\ \A q \in Rank : Link(dir, p, q) =>
           \E i \in DOMAIN Targets(dir, p) :
             q = Targets(dir, p)[i].rank /\ chan'[p][q] = chan[p][q] \o <<Message(p, i)>>
  BY <1>1, <1>2, SendIs
<1>6. \A r \in Rank \ {p} : posted'[r] = posted[r]
  BY <1>3, <1>4 DEF Shape
<1>7. posted'[p] = TRUE
  BY <1>3, <1>4 DEF Shape
<1>8. Shape'
  <2>1. posted' \in [Rank -> BOOLEAN]
    BY <1>3, <1>4 DEF Shape
  <2>2. ASSUME NEW r \in Rank, NEW q \in Rank PROVE IsSeq(chan'[r][q])
    <3>1. IsSeq(chan[r][q])
      BY <1>4 DEF Shape
    <3>2. CASE r = p /\ Link(dir, p, q)
      <4>1. PICK i : chan'[p][q] = chan[p][q] \o <<Message(p, i)>>
        BY <1>5, <3>2
      <4> QED
        BY <3>1, <3>2, <4>1, SeqLonger
    <3>3. CASE r # p \/ ~Link(dir, p, q)
      <4>1. chan'[r][q] = chan[r][q]
        BY <1>5, <3>3
      <4> QED
        BY <3>1, <4>1
    <3> QED
      BY <3>2, <3>3
  <2>3. UNCHANGED <<eager, begun, at, recvs, given, adp, bufs>>
    BY <1>3
  <2> QED
    BY <1>4, <1>5, <2>1, <2>2, <2>3 DEF Shape
<1>9. LocalInv(p)'
  <2>1. Phase(p)'
    BY <1>1, <1>3, <1>4 DEF LocalInv, Phase
  <2>2. Partition(p)'
    <3>1. \A q : Awaits(p, q)' <=> Awaits(p, q)
      BY <1>3 DEF Awaits
    <3>2. Numbers(p)' <=> Numbers(p)
      BY <1>3, <3>1 DEF Numbers
    <3> QED
      BY <1>3, <1>4, <3>2 DEF LocalInv, Partition
  <2>3. Buffer(p)'
    BY <1>3, <1>4 DEF LocalInv, Buffer, RowsKnown, ColsKnown
  <2>4. Collective(p)'
    BY <1>3, <1>4 DEF LocalInv, Collective
  <2> QED
    BY <2>1, <2>2, <2>3, <2>4 DEF LocalInv
<1>10. ASSUME NEW r \in Rank, r # p PROVE LocalInv(r)'
  BY <1>3, <1>6, <1>10, OthersKeep DEF Inv
<1>11. /\ \A e \in Dir, r \in Rank \ {p} : Sent(e, r)' = Sent(e, r)
       /\ \A e \in Dir, r \in Rank : \A i \in DOMAIN Sources(e, r) : Taken(e, r, i)' = Taken(e, r, i)
  BY <1>3, <1>6 DEF Sent, Taken
<1>12. \A e \in Dir : e # dir => Sent(e, p)' = Sent(e, p)
  <2> SUFFICES ASSUME NEW e \in Dir, e # dir PROVE Sent(e, p)' = Sent(e, p)
    OBVIOUS
  <2>1. at[p] \notin Rounds(e)
    BY <1>4
  <2>2. /\ Sent(e, p) = Done(e, begun[p], at[p], posted[p])
        /\ Sent(e, p)' = Done(e, begun[p], at[p], posted'[p])
    BY <1>3 DEF Sent
  <2>3. Done(e, begun[p], at[p], posted[p]) = Done(e, begun[p], at[p], posted'[p])
    BY <2>1, DoneSame
  <2> QED
    BY <2>2, <2>3
<1>13. /\ Sent(dir, p) \in Nat /\ Sent(dir, p)' = Sent(dir, p) + 1
       /\ \A i : Serial(dir, Message(p, i)) = Sent(dir, p) + 1
  <2> PICK t \in 1 .. Len(Program) : t = begun[p]
    BY <1>4
  <2> PICK w \in Rounds(dir) : w = at[p]
    BY <1>2
  <2>1. Sent(dir, p) = Done(dir, t, w, FALSE) /\ Sent(dir, p)' = Done(dir, t, w, TRUE)
    BY <1>1, <1>3, <1>7 DEF Sent, Done
  <2>2. \A i : Serial(dir, Message(p, i)) = SumBefore(Count(dir), t) + RoundNo(w)
    BY DEF Serial, Message
  <2>3. /\ Done(dir, t, w, FALSE) \in Nat
        /\ Done(dir, t, w, FALSE) + 1 = SumBefore(Count(dir), t) + RoundNo(w)
        /\ Done(dir, t, w, TRUE) = SumBefore(Count(dir), t) + RoundNo(w)
    BY RoundCounts
  <2> QED
    BY <2>1, <2>2, <2>3
<1>14. InOrder'
  <2> SUFFICES ASSUME NEW e \in Dir, NEW r \in Rank, NEW i \in DOMAIN Sources(e, r),
                      NEW q, q = Sources(e, r)[i].rank
               PROVE  /\ Len(chan'[q][r]) = Sent(e, q)' - Taken(e, r, i)'
                      /\ \A k \in 1 .. Len(chan'[q][r]) :
                           /\ IsMessage(e, q, r, chan'[q][r][k])
                           /\ Serial(e, chan'[q][r][k]) = Taken(e, r, i)' + k
    BY DEF InOrder
  <2>1. q \in Rank /\ Link(e, q, r) /\ Taken(e, r, i)' = Taken(e, r, i)
    BY <1>11, SourceIs
  <2>2. /\ Len(chan[q][r]) = Sent(e, q) - Taken(e, r, i)
        /\ \A k \in 1 .. Len(chan[q][r]) : /\ IsMessage(e, q, r, chan[q][r][k])
                                           /\ Serial(e, chan[q][r][k]) = Taken(e, r, i) + k
    BY <1>4 DEF InOrder
  <2>3. CASE q # p \/ e # dir
    <3>1. q = p => ~Link(dir, p, r)
      BY <2>1, <2>3, LinkIsOneWay
    <3>2. chan'[q][r] = chan[q][r] /\ Sent(e, q)' = Sent(e, q)
      BY <1>5, <1>11, <1>12, <2>1, <2>3, <3>1
    <3> QED
      BY <2>1, <2>2, <3>2
  <2>4. CASE q = p /\ e = dir
    <3>1. PICK j \in DOMAIN Targets(dir, p) :
            r = Targets(dir, p)[j].rank /\ chan'[p][r] = chan[p][r] \o <<Message(p, j)>>
      BY <1>5, <2>1, <2>4
    <3> DEFINE c == chan[p][r]
               n == chan'[p][r]
               m == Message(p, j)
    <3>2. n = c \o <<m>>
      BY <3>1
    <3>3. IsSeq(c)
      BY <1>4 DEF Shape
    <3>4. IsMessage(dir, p, r, m)
      <4>1. IsContent(p, r, m)
        BY <1>2, <3>1, ContentIs
      <4>2. m.id = begun[p] /\ m.round = at[p]
        BY DEF Message
      <4> HIDE DEF m
      <4> QED
        BY <1>2, <1>4, <4>1, <4>2 DEF IsMessage
    <3>5. Serial(dir, m) = Sent(dir, p) + 1
      BY <1>13
    <3>6. /\ Len(c) = Sent(dir, p) - Taken(dir, r, i)
          /\ \A k \in 1 .. Len(c) : IsMessage(dir, p, r, c[k]) /\ Serial(dir, c[k]) = Taken(dir, r, i) + k
      BY <2>2, <2>4
    <3> HIDE DEF c, n, m
    <3>7. /\ IsSeq(n) /\ Len(n) = Len(c) + 1 /\ n[Len(c) + 1] = m
          /\ \A k \in 1 .. Len(c) : n[k] = c[k]
      BY <3>2, <3>3, SeqLonger
    <3>8. Len(c) \in Nat /\ \A k \in 1 .. Len(n) : k \in 1 .. Len(c) \/ k = Len(c) + 1
      BY <3>3, <3>7, SeqPlaces
    <3>9. Taken(dir, r, i) \in Int
      <4>1. Taken(dir, r, i) = Done(dir, begun[r], at[r], i \notin recvs[r])
        BY DEF Taken
      <4> QED
        BY <4>1, DoneIsNumber DEF Inv, LocalInv
    <3>10. /\ Len(n) = Sent(dir, p)' - Taken(dir, r, i)
           /\ Taken(dir, r, i) + (Len(c) + 1) = Sent(dir, p) + 1
      BY <1>13, <3>6, <3>7, <3>8, <3>9
    <3>11. \A k \in 1 .. Len(n) : IsMessage(dir, p, r, n[k]) /\ Serial(dir, n[k]) = Taken(dir, r, i) + k
      BY <3>4, <3>5, <3>6, <3>7, <3>8, <3>10
    <3> QED
      BY <2>1, <2>4, <3>10, <3>11 DEF n
  <2> QED
    BY <2>3, <2>4
<1>15. OnlyNeighbours'
  <2> SUFFICES ASSUME NEW r \in Rank, NEW q \in Rank, ~Serves(r, q), ~Serves(q, r)
               PROVE  chan'[r][q] = <<>>
    BY DEF OnlyNeighbours
  <2>1. ~Link(dir, r, q)
    BY DEF Link
  <2>2. chan'[r][q] = chan[r][q]
    BY <1>5, <2>1
  <2> QED
    BY <1>4, <2>2 DEF OnlyNeighbours
<1> QED
  BY <1>8, <1>9, <1>10, <1>14, <1>15 DEF Inv

\* A call has as many rounds as its rounds are numbered, and numbers tell them apart.
LEMMA RoundFits ==
  ASSUME NEW dir \in Dir, NEW t \in 1 .. Len(Program), NEW w \in Rounds(dir), Program[t] = CallOf(w)
  PROVE  RoundNo(w) \in Nat /\ 1 <= RoundNo(w) /\ RoundNo(w) <= Count(dir)[t]
<1>1. /\ Program[t] = "init_symbolic" => Count(dir)[t] = IF dir = "up" THEN 3 ELSE 1
      /\ Program[t] = "init_numeric" => Count(dir)[t] = IF dir = "up" THEN 1 ELSE 0
      /\ Program[t] = "apply" => Count(dir)[t] = IF dir = "up" THEN 0 ELSE 1
  BY CountIs
<1>2. CASE dir = "up"
  <2>1. w \in {"dims", "rows", "cols", "values"}
    BY <1>2, RoundsAre
  <2> QED
    BY <1>1, <1>2, <2>1, RoundsAre DEF CallOf
<1>3. CASE dir = "down"
  <2>1. w \in {"numbers", "shared"}
    BY <1>3, RoundsAre
  <2> QED
    BY <1>1, <1>3, <2>1, RoundsAre DEF CallOf
<1> QED
  BY <1>2, <1>3 DEF Dir

LEMMA RoundsDiffer ==
  ASSUME NEW dir \in Dir, NEW w \in Rounds(dir), NEW u \in Rounds(dir), CallOf(w) = CallOf(u),
         RoundNo(w) = RoundNo(u)
  PROVE  w = u
<1>1. CASE dir = "up"
  <2>1. w \in {"dims", "rows", "cols", "values"} /\ u \in {"dims", "rows", "cols", "values"}
    BY <1>1, RoundsAre
  <2> QED
    BY <2>1, RoundsAre DEF CallOf
<1>2. CASE dir = "down"
  <2>1. w \in {"numbers", "shared"} /\ u \in {"numbers", "shared"}
    BY <1>2, RoundsAre
  <2> QED
    BY <2>1 DEF CallOf
<1> QED
  BY <1>1, <1>2 DEF Dir

\* Different rounds of all calls have different numbers.
LEMMA SerialIsOnce ==
  ASSUME NEW dir \in Dir,
         NEW t \in 1 .. Len(Program), NEW w \in Rounds(dir), Program[t] = CallOf(w),
         NEW s \in 1 .. Len(Program), NEW u \in Rounds(dir), Program[s] = CallOf(u),
         SumBefore(Count(dir), t) + RoundNo(w) = SumBefore(Count(dir), s) + RoundNo(u)
  PROVE  t = s /\ w = u
<1>1. PICK a \in Nat, b \in Nat : a = SumBefore(Count(dir), t) /\ b = SumBefore(Count(dir), s)
  BY CountIs
<1>2. PICK m \in Nat, n \in Nat : m = Count(dir)[t] /\ n = Count(dir)[s]
  BY CountIs
<1>3. PICK k \in Nat, l \in Nat : k = RoundNo(w) /\ l = RoundNo(u)
  BY RoundFits
<1>4. 1 <= k /\ k <= m /\ 1 <= l /\ l <= n /\ a + k = b + l
  BY <1>1, <1>2, <1>3, RoundFits
<1> DEFINE v == Count(dir)
<1>5. Len(Program) \in Nat /\ \A x \in 1 .. Len(Program) : v[x] \in Nat
  BY ProgramIs, CountIs
<1>6. t \in 1 .. Len(Program) + 1 /\ s \in 1 .. Len(Program) + 1
  BY <1>5
<1>7. t < s => a + m <= b
  <2> HIDE DEF v
  <2>1. t < s => SumBefore(v, t) + v[t] <= SumBefore(v, s)
    BY <1>5, <1>6, SumBeforeGrows
  <2> QED
    BY <1>1, <1>2, <2>1 DEF v
<1>8. s < t => b + n <= a
  <2> HIDE DEF v
  <2>1. s < t => SumBefore(v, s) + v[s] <= SumBefore(v, t)
    BY <1>5, <1>6, SumBeforeGrows
  <2> QED
    BY <1>1, <1>2, <2>1 DEF v
<1> HIDE DEF v
<1>9. ~(t < s) /\ ~(s < t)
  BY <1>4, <1>7, <1>8
<1>10. t = s
  BY <1>5, <1>9
<1>11. k = l
  BY <1>1, <1>4, <1>10
<1> QED
  BY <1>3, <1>10, <1>11, RoundsDiffer

\* The oldest message of a channel is of the call and the round that the process is in.
LEMMA HeadIsRight ==
  ASSUME Inv, NEW p \in Rank, NEW dir \in Dir, at[p] \in Rounds(dir), NEW i \in recvs[p],
         NEW q, q = Sources(dir, p)[i].rank, chan[q][p] # <<>>
  PROVE  LET m == Head(chan[q][p])
         IN  /\ i \in DOMAIN Sources(dir, p) /\ q \in Rank /\ Link(dir, q, p)
             /\ m.id = begun[p] /\ m.round = at[p] /\ IsContent(q, p, m)
<1> DEFINE c == chan[q][p]
           m == Head(c)
<1>1. i \in DOMAIN Sources(dir, p)
  BY DEF Inv, LocalInv, Phase
<1>2. q \in Rank /\ Link(dir, q, p)
  BY <1>1, SourceIs
<1>3. IsSeq(c) /\ c # <<>>
  BY <1>2 DEF Inv, Shape
<1>4. /\ Len(c) = Sent(dir, q) - Taken(dir, p, i)
      /\ \A k \in 1 .. Len(c) : IsMessage(dir, q, p, c[k]) /\ Serial(dir, c[k]) = Taken(dir, p, i) + k
  BY <1>1 DEF Inv, InOrder
<1> HIDE DEF c
<1>5. m = c[1] /\ 1 \in 1 .. Len(c)
  BY <1>3, SeqShorter
<1> HIDE DEF m
<1>6. IsMessage(dir, q, p, m) /\ Serial(dir, m) = Taken(dir, p, i) + 1
  BY <1>4, <1>5
<1>7. PICK t \in 1 .. Len(Program) : t = begun[p] /\ Program[t] = CallOf(at[p])
  BY RoundIs
<1>8. PICK w \in Rounds(dir) : w = at[p]
  OBVIOUS
<1>9. Taken(dir, p, i) = Done(dir, t, w, FALSE)
  BY <1>7, <1>8 DEF Taken, Done
<1>10. Done(dir, t, w, FALSE) + 1 = SumBefore(Count(dir), t) + RoundNo(w)
  BY RoundCounts
<1>11. Serial(dir, m) = SumBefore(Count(dir), t) + RoundNo(w)
  BY <1>6, <1>9, <1>10
<1>12. PICK s \in 1 .. Len(Program), u \in Rounds(dir) : s = m.id /\ u = m.round /\ Program[s] = CallOf(u)
  BY <1>6 DEF IsMessage
<1>13. SumBefore(Count(dir), t) + RoundNo(w) = SumBefore(Count(dir), s) + RoundNo(u)
  BY <1>11, <1>12 DEF Serial
<1>14. t = s /\ w = u
  BY <1>7, <1>8, <1>12, <1>13, SerialIsOnce
<1>15. IsContent(q, p, m)
  BY <1>6 DEF IsMessage
<1> QED
  BY <1>1, <1>2, <1>7, <1>8, <1>12, <1>14, <1>15 DEF m, c

\* A number of a DOF is set when the message of its owner is taken.
LEMMA TakeNumbers ==
  ASSUME Inv, NEW p \in Rank, NEW i \in recvs[p], Take(p, i)
  PROVE  Partition(p)'
<1>1. PICK dir \in Dir : at[p] \in Rounds(dir)
  <2>1. at[p] \in ToOwners \cup ToDonees
    BY DEF Inv, LocalInv, Phase
  <2> QED
    BY <2>1 DEF Dir, Rounds
<1>2. PICK q : q = Sources(dir, p)[i].rank
  OBVIOUS
<1> DEFINE content == Head(chan[q][p]).content
<1>3. ReceivesFrom(p)[i].rank = q /\ adp[p].owner = owner_neighbours[p] /\ Numbers(p)
      /\ SetUp(begun[p]) /\ at[p] \notin {"exscan", "allreduce"}
  BY <1>1, <1>2, RoundIs DEF ToOwners, ToDonees
<1>4. /\ chan[q][p] # <<>>
      /\ UNCHANGED <<begun, at>> /\ recvs' = [recvs EXCEPT ![p] = @ \ {i}]
      /\ adp' = IF at[p] = "numbers"
                  THEN [adp EXCEPT ![p].number = NumbersSet(p, i, content)] ELSE adp
  BY <1>3 DEF Take
<1>5. Shape /\ Partition(p)
  BY DEF Inv, LocalInv
<1>6. recvs'[p] = recvs[p] \ {i}
  BY <1>4, <1>5 DEF Shape
<1>7. CASE at[p] # "numbers"
  <2>1. adp'[p] = adp[p] /\ \A r : ~Awaits(p, r) /\ ~Awaits(p, r)'
    BY <1>4, <1>7 DEF Awaits
  <2>2. Numbers(p)'
    BY <1>3, <2>1 DEF Numbers
  <2> QED
    BY <1>3, <1>4, <1>5, <2>1, <2>2 DEF Partition
<1>8. CASE at[p] = "numbers"
  <2>1. dir = "down"
    BY <1>1, <1>8, RoundsAre DEF Dir
  <2>2. /\ i \in DOMAIN owner_neighbours[p] /\ owner_neighbours[p][i].rank = q /\ q \in Rank /\ Serves(q, p)
        /\ content = [k \in DOMAIN Served(q, p) |-> Global(Served(q, p)[k])]
    <3>1. /\ i \in DOMAIN Sources(dir, p) /\ q \in Rank /\ Link(dir, q, p)
          /\ Head(chan[q][p]).round = at[p] /\ IsContent(q, p, Head(chan[q][p]))
      BY <1>1, <1>2, <1>4, HeadIsRight
    <3> QED
      BY <1>2, <1>8, <2>1, <3>1 DEF Sources, Link, IsContent
  <2> DEFINE num == NumbersSet(p, i, content)
             down == Served(q, p)
  <2>3. adp'[p] = [adp[p] EXCEPT !.number = num]
    <3>1. adp' = [adp EXCEPT ![p].number = num]
      BY <1>4, <1>8
    <3> HIDE DEF num
    <3> QED
      BY <1>5, <3>1 DEF Shape
  <2>4. adp[p] = [x \in DOMAIN EmptyParti |-> adp[p][x]]
    BY <1>3, <1>5, <1>8 DEF Partition
  <2>5. /\ adp'[p] = [x \in DOMAIN EmptyParti |-> adp'[p][x]] /\ adp'[p].number = num
        /\ adp'[p].offset = adp[p].offset /\ adp'[p].owned = adp[p].owned
        /\ adp'[p].owner = adp[p].owner /\ adp'[p].donee = adp[p].donee
    <3> HIDE DEF num
    <3> QED
      BY <2>3, <2>4, EmptyIs
  <2>6. \A r : Awaits(p, r)' <=> Awaits(p, r) /\ r # q
    <3>1. \A j \in recvs[p] : j \in DOMAIN owner_neighbours[p]
      BY <1>1, <2>1 DEF Inv, LocalInv, Phase, Sources
    <3>2. \A j \in DOMAIN owner_neighbours[p] : owner_neighbours[p][j].rank = q => j = i
      BY <2>2, OwnersListed DEF ListsRanks
    <3> QED
      BY <1>4, <1>6, <2>2, <3>1, <3>2 DEF Awaits
  <2>7. adp[p].owner[i].idx = down
    BY <1>3, <2>2, OwnersListed
  <2>8. ToSet(down) = {d \in Holds(p) : LowestHolder[d] = q}
    BY <2>2, ServesIs
  <2>9. DOMAIN num = Holds(p)
    BY <1>3 DEF NumbersSet, Numbers
  <2>10. \A d \in Holds(p) : num[d] = IF Awaits(p, LowestHolder[d])' THEN NoNumber ELSE Global(d)
    <3> TAKE d \in Holds(p)
    <3>1. d \in DOMAIN adp[p].number
      BY <1>3 DEF Numbers
    <3>2. CASE d \in ToSet(down)
      <4>1. num[d] = content[CHOOSE k \in DOMAIN down : down[k] = d]
        BY <2>7, <3>1, <3>2 DEF NumbersSet
      <4>2. PICK k \in DOMAIN down : down[k] = d /\ num[d] = content[k]
        <5>1. \E k \in DOMAIN down : down[k] = d
          BY <3>2 DEF ToSet
        <5> HIDE DEF content, down, num
        <5> QED
          BY <4>1, <5>1
      <4>3. content[k] = Global(d)
        BY <2>2, <4>2
      <4>4. ~Awaits(p, LowestHolder[d])'
        BY <2>6, <2>8, <3>2
      <4> QED
        BY <4>2, <4>3, <4>4
    <3>3. CASE d \notin ToSet(down)
      <4>1. num[d] = adp[p].number[d]
        BY <2>7, <3>1, <3>3 DEF NumbersSet
      <4>2. Awaits(p, LowestHolder[d])' <=> Awaits(p, LowestHolder[d])
        BY <2>6, <2>8, <3>3
      <4> QED
        BY <1>3, <4>1, <4>2 DEF Numbers
    <3> QED
      BY <3>2, <3>3
  <2>11. Numbers(p)'
    <3> HIDE DEF num, content, down
    <3> QED
      BY <2>5, <2>9, <2>10 DEF Numbers
  <2> QED
    BY <1>3, <1>4, <1>5, <1>8, <2>5, <2>11 DEF Partition
<1> QED
  BY <1>7, <1>8

\* What is known of the rows of donees, too.
LEMMA TakeRows ==
  ASSUME Inv, NEW p \in Rank, NEW i \in recvs[p], Take(p, i)
  PROVE  Buffer(p)'
<1>1. PICK dir \in Dir : at[p] \in Rounds(dir)
  <2>1. at[p] \in ToOwners \cup ToDonees
    BY DEF Inv, LocalInv, Phase
  <2> QED
    BY <2>1 DEF Dir, Rounds
<1>2. PICK q : q = Sources(dir, p)[i].rank
  OBVIOUS
<1>3. PICK content : content = Head(chan[q][p]).content
  OBVIOUS
<1>4. ReceivesFrom(p)[i].rank = q /\ SetUp(begun[p])
  BY <1>1, <1>2, RoundIs
<1>5. /\ chan[q][p] # <<>>
      /\ UNCHANGED <<begun, at>> /\ recvs' = [recvs EXCEPT ![p] = @ \ {i}]
      /\ bufs' = IF at[p] \in {"dims", "rows", "cols"}
                   THEN [bufs EXCEPT ![p][i] = Received(p, @, content)] ELSE bufs
  BY <1>3, <1>4 DEF Take
<1>6. Shape /\ Buffer(p)
  BY DEF Inv, LocalInv
<1>7. recvs'[p] = recvs[p] \ {i}
  BY <1>5, <1>6 DEF Shape
<1>8. CASE at[p] \in {"numbers", "shared", "values"}
  <2>1. bufs'[p] = bufs[p]
    BY <1>5, <1>8
  <2>2. at[p] # "numbers" => \A j : RowsKnown(p, j) /\ ColsKnown(p, j)
    BY <1>8 DEF RowsKnown, ColsKnown
  <2> QED
    BY <1>4, <1>5, <1>6, <1>8, <2>1, <2>2 DEF Buffer
<1>9. CASE at[p] \in {"dims", "rows", "cols"}
  <2>1. dir = "up"
    BY <1>1, <1>9, RoundsAre DEF Dir
  <2>2. /\ i \in DOMAIN donee_neighbours[p] /\ donee_neighbours[p][i].rank = q
        /\ at[p] = "rows" => content = RowsOf(p, q)
        /\ at[p] = "cols" => content = ColsOf(p, q)
    <3>1. /\ i \in DOMAIN Sources(dir, p) /\ Head(chan[q][p]).round = at[p]
          /\ IsContent(q, p, Head(chan[q][p]))
      BY <1>1, <1>2, <1>5, HeadIsRight
    <3> QED
      BY <1>2, <1>3, <2>1, <3>1 DEF Sources, IsContent
  <2>3. /\ bufs[p] = [j \in DOMAIN donee_neighbours[p] |-> bufs[p][j]]
        /\ \A j \in DOMAIN donee_neighbours[p] :
             /\ bufs[p][j] = [x \in DOMAIN NoRows |-> bufs[p][j][x]]
             /\ RowsKnown(p, j) => bufs[p][j].row_ptr = RowsOf(p, donee_neighbours[p][j].rank)
             /\ ColsKnown(p, j) => bufs[p][j].cols = ColsOf(p, donee_neighbours[p][j].rank)
    BY <1>4, <1>6, <1>9 DEF Buffer
  <2> DEFINE b == bufs[p][i]
             n == Received(p, b, content)
  <2>4. bufs'[p] = [bufs[p] EXCEPT ![i] = n]
    <3>1. bufs' = [bufs EXCEPT ![p][i] = n]
      BY <1>5, <1>6, <1>9, <2>2, <2>3 DEF Shape
    <3> HIDE DEF n
    <3> QED
      BY <1>6, <3>1 DEF Shape
  <2>5. /\ bufs'[p] = [j \in DOMAIN donee_neighbours[p] |-> bufs'[p][j]] /\ bufs'[p][i] = n
        /\ \A j \in DOMAIN donee_neighbours[p] : j # i => bufs'[p][j] = bufs[p][j]
    <3> HIDE DEF n
    <3> QED
      BY <2>2, <2>3, <2>4
  <2>6. \A j : j # i => /\ RowsKnown(p, j)' <=> RowsKnown(p, j)
                        /\ ColsKnown(p, j)' <=> ColsKnown(p, j)
    BY <1>5, <1>7 DEF RowsKnown, ColsKnown
  <2>7. DOMAIN NoRows = {"rows", "used", "row_ptr", "cols"} /\ b = [x \in DOMAIN NoRows |-> b[x]]
    BY <2>2, <2>3 DEF NoRows
  <2>8. /\ n = [x \in DOMAIN NoRows |-> n[x]]
        /\ RowsKnown(p, i)' => n.row_ptr = RowsOf(p, q)
        /\ ColsKnown(p, i)' => n.cols = ColsOf(p, q)
    <3>1. CASE at[p] = "dims"
      <4>1. n = [b EXCEPT !.rows = content.rows, !.used = content.used]
        BY <3>1 DEF Received
      <4>2. ~RowsKnown(p, i)' /\ ~ColsKnown(p, i)'
        BY <1>5, <3>1 DEF RowsKnown, ColsKnown
      <4> HIDE DEF n, b
      <4> QED
        BY <2>7, <4>1, <4>2
    <3>2. CASE at[p] = "rows"
      <4>1. n = [b EXCEPT !.row_ptr = content]
        BY <3>2 DEF Received
      <4>2. content = RowsOf(p, q) /\ ~ColsKnown(p, i)'
        BY <1>5, <2>2, <3>2 DEF ColsKnown
      <4> HIDE DEF n, b
      <4> QED
        BY <2>7, <4>1, <4>2
    <3>3. CASE at[p] = "cols"
      <4>1. n = [b EXCEPT !.cols = content]
        BY <3>3 DEF Received
      <4>2. content = ColsOf(p, q)
        BY <2>2, <3>3
      <4>3. b.row_ptr = RowsOf(p, q)
        BY <2>2, <2>3, <3>3 DEF RowsKnown
      <4> HIDE DEF n, b
      <4> QED
        BY <2>7, <4>1, <4>2, <4>3
    <3> QED
      BY <1>9, <3>1, <3>2, <3>3
  <2> HIDE DEF n
  <2>9. \A j \in DOMAIN donee_neighbours[p] :
          /\ bufs'[p][j] = [x \in DOMAIN NoRows |-> bufs'[p][j][x]]
          /\ RowsKnown(p, j)' => bufs'[p][j].row_ptr = RowsOf(p, donee_neighbours[p][j].rank)
          /\ ColsKnown(p, j)' => bufs'[p][j].cols = ColsOf(p, donee_neighbours[p][j].rank)
    <3> TAKE j \in DOMAIN donee_neighbours[p]
    <3>1. CASE j = i
      BY <2>2, <2>5, <2>8, <3>1
    <3>2. CASE j # i
      BY <2>3, <2>5, <2>6, <3>2
    <3> QED
      BY <3>1, <3>2
  <2> QED
    BY <2>5, <2>9 DEF Buffer
<1> QED
  BY <1>1, <1>8, <1>9 DEF Rounds, ToOwners, ToDonees

\* The messages that are left follow the one that is taken.
LEMMA TakeOrders ==
  ASSUME Inv, NEW p \in Rank, NEW i \in recvs[p], Take(p, i)
  PROVE  /\ InOrder' /\ OnlyNeighbours'
         /\ chan' = [r \in Rank |-> [q \in Rank |-> chan'[r][q]]]
         /\ \A r, q \in Rank : IsSeq(chan'[r][q])
<1>1. PICK dir \in Dir : at[p] \in Rounds(dir)
  <2>1. at[p] \in ToOwners \cup ToDonees
    BY DEF Inv, LocalInv, Phase
  <2> QED
    BY <2>1 DEF Dir, Rounds
<1>2. PICK q : q = Sources(dir, p)[i].rank
  OBVIOUS
<1>3. /\ ReceivesFrom(p)[i].rank = q /\ begun[p] \in 1 .. Len(Program)
      /\ \A e \in Dir : at[p] \in Rounds(e) => e = dir
  BY <1>1, <1>2, RoundIs
<1>4. /\ chan[q][p] # <<>> /\ chan' = [chan EXCEPT ![q][p] = Tail(@)]
      /\ UNCHANGED <<begun, at, posted>> /\ recvs' = [recvs EXCEPT ![p] = @ \ {i}]
  BY <1>3 DEF Take
<1>5. Shape /\ InOrder /\ OnlyNeighbours
  BY DEF Inv
<1>6. i \in DOMAIN Sources(dir, p) /\ q \in Rank /\ Link(dir, q, p)
  BY <1>1, <1>2, <1>4, HeadIsRight
<1>7. /\ chan' = [r \in Rank |-> [s \in Rank |-> chan'[r][s]]]
      /\ chan'[q][p] = Tail(chan[q][p])
      /\ \A r, s \in Rank : r # q \/ s # p => chan'[r][s] = chan[r][s]
  <2>1. chan = [r \in Rank |-> [s \in Rank |-> chan[r][s]]]
    BY <1>5 DEF Shape
  <2> QED
    BY <1>4, <1>6, <2>1
<1>8. \A r, s \in Rank : IsSeq(chan'[r][s])
  <2> TAKE r, s \in Rank
  <2>1. IsSeq(chan[r][s])
    BY <1>5 DEF Shape
  <2>2. CASE r = q /\ s = p
    BY <1>4, <1>7, <2>1, <2>2, SeqShorter
  <2>3. CASE r # q \/ s # p
    <3>1. chan'[r][s] = chan[r][s]
      BY <1>7, <2>3
    <3> QED
      BY <2>1, <3>1
  <2> QED
    BY <2>2, <2>3
<1>9. recvs'[p] = recvs[p] \ {i} /\ \A r \in Rank \ {p} : recvs'[r] = recvs[r]
  BY <1>4, <1>5 DEF Shape
<1>10. /\ \A e \in Dir, r \in Rank : Sent(e, r)' = Sent(e, r)
       /\ \A e \in Dir, r \in Rank \ {p} : \A j : Taken(e, r, j)' = Taken(e, r, j)
       /\ \A e \in Dir : \A j : j # i => Taken(e, p, j)' = Taken(e, p, j)
  BY <1>4, <1>9 DEF Sent, Taken
<1>11. \A e \in Dir : e # dir => \A j : Taken(e, p, j)' = Taken(e, p, j)
  <2> SUFFICES ASSUME NEW e \in Dir, e # dir, NEW j PROVE Taken(e, p, j)' = Taken(e, p, j)
    OBVIOUS
  <2>1. at[p] \notin Rounds(e)
    BY <1>3
  <2>2. /\ Taken(e, p, j) = Done(e, begun[p], at[p], j \notin recvs[p])
        /\ Taken(e, p, j)' = Done(e, begun[p], at[p], j \notin recvs'[p])
    BY <1>4 DEF Taken
  <2>3. Done(e, begun[p], at[p], j \notin recvs[p]) = Done(e, begun[p], at[p], j \notin recvs'[p])
    BY <2>1, DoneSame
  <2> QED
    BY <2>2, <2>3
<1>12. Taken(dir, p, i) \in Nat /\ Taken(dir, p, i)' = Taken(dir, p, i) + 1
  <2> PICK t \in 1 .. Len(Program) : t = begun[p]
    BY <1>3
  <2> PICK w \in Rounds(dir) : w = at[p]
    BY <1>1
  <2>1. Taken(dir, p, i) = Done(dir, t, w, FALSE) /\ Taken(dir, p, i)' = Done(dir, t, w, TRUE)
    BY <1>4, <1>9 DEF Taken, Done
  <2>2. /\ Done(dir, t, w, FALSE) \in Nat
        /\ Done(dir, t, w, FALSE) + 1 = SumBefore(Count(dir), t) + RoundNo(w)
        /\ Done(dir, t, w, TRUE) = SumBefore(Count(dir), t) + RoundNo(w)
    BY RoundCounts
  <2> QED
    BY <2>1, <2>2
<1>13. InOrder'
  <2> SUFFICES ASSUME NEW e \in Dir, NEW r \in Rank, NEW j \in DOMAIN Sources(e, r),
                      NEW s, s = Sources(e, r)[j].rank
               PROVE  /\ Len(chan'[s][r]) = Sent(e, s)' - Taken(e, r, j)'
                      /\ \A k \in 1 .. Len(chan'[s][r]) :
                           /\ IsMessage(e, s, r, chan'[s][r][k])
                           /\ Serial(e, chan'[s][r][k]) = Taken(e, r, j)' + k
    BY DEF InOrder
  <2>1. s \in Rank /\ Link(e, s, r) /\ Sent(e, s)' = Sent(e, s)
    BY <1>10, SourceIs
  <2>2. /\ Len(chan[s][r]) = Sent(e, s) - Taken(e, r, j)
        /\ \A k \in 1 .. Len(chan[s][r]) : /\ IsMessage(e, s, r, chan[s][r][k])
                                           /\ Serial(e, chan[s][r][k]) = Taken(e, r, j) + k
    BY <1>5 DEF InOrder
  <2>3. CASE r = p /\ e = dir /\ j = i
    <3> DEFINE c == chan[q][p]
               n == chan'[q][p]
    <3>1. s = q /\ n = Tail(c) /\ c # <<>> /\ IsSeq(c)
      BY <1>2, <1>4, <1>5, <1>6, <1>7, <2>3 DEF Shape
    <3>2. /\ Len(c) = Sent(dir, q) - Taken(dir, p, i)
          /\ \A k \in 1 .. Len(c) : IsMessage(dir, q, p, c[k]) /\ Serial(dir, c[k]) = Taken(dir, p, i) + k
      BY <2>2, <2>3, <3>1
    <3> HIDE DEF c, n
    <3>3. /\ Len(n) = Len(c) - 1 /\ Len(c) \in Nat
          /\ \A k \in 1 .. Len(n) : k + 1 \in 1 .. Len(c) /\ n[k] = c[k + 1] /\ k \in Nat
      BY <3>1, SeqShorter, SeqTailPlaces
    <3>4. Sent(dir, q) \in Int
      BY <1>6, DoneIsNumber DEF Sent, Inv, LocalInv
    <3>5. Len(n) = Sent(dir, q) - (Taken(dir, p, i) + 1)
      BY <1>12, <3>2, <3>3, <3>4
    <3>6. ASSUME NEW k \in 1 .. Len(n)
          PROVE  IsMessage(dir, q, p, n[k]) /\ Serial(dir, n[k]) = (Taken(dir, p, i) + 1) + k
      <4>1. IsMessage(dir, q, p, n[k]) /\ Serial(dir, n[k]) = Taken(dir, p, i) + (k + 1)
        BY <3>2, <3>3
      <4> QED
        BY <1>12, <4>1
    <3> QED
      BY <1>12, <2>1, <2>3, <3>1, <3>5, <3>6 DEF n
  <2>4. CASE ~(r = p /\ e = dir /\ j = i)
    <3>1. Taken(e, r, j)' = Taken(e, r, j)
      BY <1>10, <1>11, <2>4
    <3>2. CASE s = q /\ r = p
      <4>1. e = dir
        BY <1>6, <2>1, <3>2, LinkIsOneWay
      <4>2. j = i
        BY <1>2, <1>6, <3>2, <4>1, SourcesListed DEF ListsRanks
      <4> QED
        BY <2>4, <3>2, <4>1, <4>2
    <3>3. CASE s # q \/ r # p
      <4>1. chan'[s][r] = chan[s][r]
        BY <1>7, <2>1, <3>3
      <4> QED
        BY <2>1, <2>2, <3>1, <4>1
    <3> QED
      BY <3>2, <3>3
  <2> QED
    BY <2>3, <2>4
<1>14. OnlyNeighbours'
  <2> SUFFICES ASSUME NEW r \in Rank, NEW s \in Rank, ~Serves(r, s), ~Serves(s, r)
               PROVE  chan'[r][s] = <<>>
    BY DEF OnlyNeighbours
  <2>1. r # q \/ s # p
    BY <1>6 DEF Link
  <2>2. chan'[r][s] = chan[r][s]
    BY <1>7, <2>1
  <2> QED
    BY <1>5, <2>2 DEF OnlyNeighbours
<1> QED
  BY <1>7, <1>8, <1>13, <1>14

LEMMA TakeKeeps ==
  ASSUME Inv, NEW p \in Rank, NEW i \in recvs[p], Take(p, i)
  PROVE  Inv'
<1>1. Shape /\ LocalInv(p)
  BY DEF Inv
<1>2. PICK content : content = Head(chan[ReceivesFrom(p)[i].rank][p]).content
  OBVIOUS
<1>3. /\ UNCHANGED <<eager, begun, at, posted, given>> /\ recvs' = [recvs EXCEPT ![p] = @ \ {i}]
      /\ adp' = IF at[p] = "numbers"
                  THEN [adp EXCEPT ![p].number = NumbersSet(p, i, content)] ELSE adp
      /\ bufs' = IF at[p] \in {"dims", "rows", "cols"}
                   THEN [bufs EXCEPT ![p][i] = Received(p, @, content)] ELSE bufs
  BY <1>2 DEF Take
<1>4. /\ InOrder' /\ OnlyNeighbours'
      /\ chan' = [r \in Rank |-> [q \in Rank |-> chan'[r][q]]]
      /\ \A r, q \in Rank : IsSeq(chan'[r][q])
  BY TakeOrders
<1>5. Shape'
  <2>1. adp' = [r \in Rank |-> adp'[r]]
    BY <1>1, <1>3 DEF Shape
  <2>2. bufs' = [r \in Rank |-> bufs'[r]]
    BY <1>1, <1>3 DEF Shape
  <2>3. recvs' \in [Rank -> SUBSET Nat]
    BY <1>1, <1>3 DEF Shape
  <2>4. UNCHANGED <<eager, begun, at, posted, given>>
    BY <1>3
  <2> QED
    BY <1>1, <1>4, <2>1, <2>2, <2>3, <2>4 DEF Shape
<1>6. OthersStay(p)
  BY <1>1, <1>3 DEF Shape, OthersStay
<1>7. recvs'[p] \subseteq recvs[p] /\ recvs[p] # {}
  BY <1>1, <1>3 DEF Shape
<1>8. Phase(p)'
  BY <1>1, <1>3, <1>7 DEF LocalInv, Phase
<1>9. Collective(p)'
  BY <1>1, <1>3 DEF LocalInv, Collective
<1>10. Partition(p)' /\ Buffer(p)'
  BY TakeNumbers, TakeRows
<1>11. LocalInv(p)'
  BY <1>8, <1>9, <1>10 DEF LocalInv
<1>12. ASSUME NEW r \in Rank, r # p PROVE LocalInv(r)'
  BY <1>6, <1>12, OthersKeep DEF Inv, OthersStay
<1> QED
  BY <1>4, <1>5, <1>11, <1>12 DEF Inv

----------------------------------------------------------------------------
(* The theorems.                                                           *)

LEMMA InitOK == Init => Inv
<1> SUFFICES ASSUME Init PROVE Inv
  OBVIOUS
<1>1. Len(Program) \in Nat
  BY ProgramIs
<1>2. IsSeq(<<>>) /\ Len(<<>>) = 0
  BY DEF IsSeq
<1>3. Shape
  BY <1>1, <1>2 DEF Init, Shape
<1>4. \A dir \in Dir : "none" \notin Rounds(dir)
  BY RoundsAre DEF Dir
<1>5. SumBefore(Shares, 1) = 0
  <2> DEFINE v == Shares
  <2> HIDE DEF v
  <2>1. 0 \in Nat /\ \A i \in 1 .. 0 : v[i] \in Nat
    OBVIOUS
  <2>2. SumBefore(v, 1) = 0
    BY <2>1, SumBeforeNext
  <2> QED
    BY <2>2 DEF v
<1>6. ASSUME NEW p \in Rank PROVE LocalInv(p)
  <2>1. /\ begun[p] = 0 /\ at[p] = "none" /\ posted[p] = FALSE /\ recvs[p] = {}
        /\ adp[p] = EmptyParti /\ given[p] = <<>>
    BY DEF Init
  <2>2. Phase(p)
    BY <1>4, <2>1 DEF Phase
  <2>3. Partition(p) /\ Buffer(p)
    BY <2>1, NotSetUp DEF Partition, Buffer
  <2>4. Given(0, "none") = 0
    BY <1>5 DEF Given
  <2>5. Collective(p)
    BY <1>2, <2>1, <2>4 DEF Collective
  <2> QED
    BY <2>2, <2>3, <2>5 DEF LocalInv
<1>7. InOrder
  <2> SUFFICES ASSUME NEW dir \in Dir, NEW p \in Rank, NEW i \in DOMAIN Sources(dir, p),
                      NEW q, q = Sources(dir, p)[i].rank
               PROVE  Len(chan[q][p]) = Sent(dir, q) - Taken(dir, p, i) /\ Len(chan[q][p]) = 0
    BY DEF InOrder
  <2>1. q \in Rank
    BY SourceIs
  <2>2. chan[q][p] = <<>>
    BY <2>1 DEF Init
  <2>3. PICK n \in Nat : n = Done(dir, 0, "none", FALSE)
    <3>1. Done(dir, begun[p], at[p], FALSE) \in Nat
      BY <1>3, <1>6, DoneIsNumber DEF LocalInv
    <3> QED
      BY <3>1 DEF Init
  <2>4. Sent(dir, q) = n
    BY <2>1, <2>3 DEF Init, Sent
  <2>5. Taken(dir, p, i) = n
    <3>1. Taken(dir, p, i) = Done(dir, 0, "none", TRUE)
      BY DEF Init, Taken
    <3>2. Done(dir, 0, "none", TRUE) = Done(dir, 0, "none", FALSE)
      BY <1>4, DoneSame
    <3> QED
      BY <2>3, <3>1, <3>2
  <2> QED
    BY <1>2, <2>2, <2>4, <2>5
<1>8. OnlyNeighbours
  BY DEF Init, OnlyNeighbours
<1> QED
  BY <1>3, <1>6, <1>7, <1>8 DEF Inv

LEMMA NextKeeps == Inv /\ [Next]_vars => Inv'
<1> SUFFICES ASSUME Inv, [Next]_vars PROVE Inv'
  OBVIOUS
<1>1. ASSUME NEW p \in Rank, Step(p) PROVE Inv'
  <2>1. CASE InitSymbolic(p)
    BY <2>1, InitSymbolicKeeps
  <2>2. CASE Scan(p)
    BY <2>2, ScanKeeps
  <2>3. CASE Reduce(p)
    BY <2>3, ReduceKeeps
  <2>4. CASE Numbered(p)
    BY <2>4, NumberedKeeps
  <2>5. CASE PostReceives(p)
    BY <2>5, PostReceivesKeeps
  <2>6. CASE Structured(p)
    BY <2>6, StructuredKeeps
  <2>7. CASE InitNumeric(p)
    BY <2>7, InitNumericKeeps
  <2>8. CASE Assembled(p)
    BY <2>8, AssembledKeeps
  <2>9. CASE Apply(p)
    BY <2>9, ApplyKeeps
  <2>10. CASE Downloaded(p)
    BY <2>10, DownloadedKeeps
  <2>11. CASE DoneSymbolic(p)
    BY <2>11, DoneSymbolicKeeps
  <2>12. CASE AllGather(p)
    BY <2>12, AllGatherKeeps
  <2>13. CASE LearnOffsets(p)
    BY <2>13, LearnOffsetsKeeps
  <2>14. CASE LearnCounts(p)
    BY <2>14, LearnCountsKeeps
  <2>15. CASE Gather(p)
    BY <2>15, GatherKeeps
  <2>16. CASE PostSends(p)
    BY <2>16, PostSendsKeeps
  <2>17. CASE \E i \in recvs[p] : Take(p, i)
    BY <2>17, TakeKeeps
  <2> QED
    BY <1>1, <2>1, <2>2, <2>3, <2>4, <2>5, <2>6, <2>7, <2>8, <2>9, <2>10, <2>11, <2>12, <2>13,
       <2>14, <2>15, <2>16, <2>17 DEF Step
<1>2. CASE UNCHANGED vars
  <2>1. UNCHANGED <<eager, begun, at, posted, recvs, given, chan, adp, bufs>>
    BY <1>2 DEF vars
  <2>2. Shape'
    BY <2>1 DEF Inv, Shape
  <2>3. \A r \in Rank : LocalInv(r)'
    BY <2>1, OthersKeep DEF Inv
  <2>4. PICK p \in Rank : TRUE
    BY RankIs
  <2>5. InOrder' /\ OnlyNeighbours'
    BY <2>1, <2>4, ChannelsKeep DEF Inv, Sent, Taken
  <2> QED
    BY <2>2, <2>3, <2>5 DEF Inv
<1> QED
  BY <1>1, <1>2 DEF Next

\* What one process knows of the others, and what lies in the channels, stays as Inv
\* says at all times.
THEOREM PartitionInvariant == Spec => []Inv
BY InitOK, NextKeeps, PTL DEF Spec

\* A number that a process knows is the global one.
LEMMA KnownIsGlobal ==
  ASSUME Inv, NEW p \in Rank, NEW d \in DOMAIN adp[p].number, adp[p].number[d] # NoNumber
  PROVE  d \in Holds(p) /\ adp[p].number[d] = Global(d)
<1>1. Partition(p)
  BY DEF Inv, LocalInv
<1>2. adp[p].number # <<>>
  OBVIOUS
<1>3. [EmptyParti EXCEPT !.offset = Offset(p)].number = <<>> /\ EmptyParti.number = <<>>
  BY EmptyIs
<1>4. Numbers(p)
  BY <1>1, <1>2, <1>3 DEF Partition
<1> QED
  BY <1>4 DEF Numbers

\* Whatever the gates are, the numbers that processes know of DOFs, be they their own
\* or learned from owners, belong to one numbering: equal for equal DOFs only.
THEOREM NumberingIsOne == Spec => []OneNumbering
<1>1. Inv => OneNumbering
  <2> SUFFICES ASSUME Inv, NEW p \in Rank, NEW q \in Rank,
                      NEW d \in DOMAIN adp[p].number, NEW c \in DOMAIN adp[q].number,
                      adp[p].number[d] # NoNumber, adp[q].number[c] # NoNumber
               PROVE  adp[p].number[d] = adp[q].number[c] <=> d = c
    BY DEF OneNumbering
  <2>1. d \in Holds(p) /\ adp[p].number[d] = Global(d)
    BY KnownIsGlobal
  <2>2. c \in Holds(q) /\ adp[q].number[c] = Global(c)
    BY KnownIsGlobal
  <2>3. Global(d) = Global(c) => d = c
    BY <2>1, <2>2, GlobalIsOnce
  <2> QED
    BY <2>1, <2>2, <2>3
<1> QED
  BY <1>1, PartitionInvariant, PTL

\* A message is as long as the mirror of the one who takes it.
LEMMA LengthIs ==
  ASSUME NEW n \in Nat, NEW f, DOMAIN f = 1 .. n
  PROVE  Len(f) = n
OBVIOUS

LEMMA HeadFits ==
  ASSUME Inv, NEW p \in Rank, NEW i \in recvs[p], NEW from, from = ReceivesFrom(p)[i],
         chan[from.rank][p] # <<>>
  PROVE  LET m == Head(chan[from.rank][p])
             known == bufs[p][i]
         IN  /\ m.id = begun[p] /\ m.round = at[p]
             /\ at[p] = "dims" => m.content.rows = Len(from.idx)
             /\ at[p] # "dims" => Len(m.content) = Len(from.idx)
             /\ at[p] = "cols" => \A k \in DOMAIN m.content : Cardinality(m.content[k]) = known.row_ptr[k]
             /\ at[p] = "values" => \A k \in DOMAIN m.content : DOMAIN m.content[k] = known.cols[k]
<1> DEFINE q == from.rank
           m == Head(chan[q][p])
<1>1. PICK dir \in Dir : at[p] \in Rounds(dir)
  <2>1. at[p] \in ToOwners \cup ToDonees
    BY DEF Inv, LocalInv, Phase
  <2> QED
    BY <2>1 DEF Dir, Rounds
<1>2. from = Sources(dir, p)[i] /\ SetUp(begun[p])
  BY <1>1, RoundIs
<1>3. /\ i \in DOMAIN Sources(dir, p) /\ q \in Rank /\ Link(dir, q, p)
      /\ m.id = begun[p] /\ m.round = at[p] /\ IsContent(q, p, m)
  BY <1>1, <1>2, HeadIsRight
<1> HIDE DEF q, m
<1>4. CASE dir = "down"
  <2> DEFINE down == Served(q, p)
  <2>1. at[p] \in {"numbers", "shared"} /\ Serves(q, p) /\ from.idx = down
    BY <1>1, <1>2, <1>3, <1>4, RoundsAre, OwnersListed DEF Sources, Link, q
  <2>2. DOMAIN down = 1 .. Len(down) /\ Len(down) \in Nat
    BY <1>3, <2>1, ServesIs
  <2>3. DOMAIN m.content = DOMAIN down
    BY <1>3, <2>1 DEF IsContent
  <2>4. Len(m.content) = Len(down)
    BY <2>2, <2>3, LengthIs
  <2> QED
    BY <1>3, <2>1, <2>4 DEF m, q
<1>5. CASE dir = "up"
  <2> DEFINE up == Served(p, q)
  <2>1. /\ at[p] \in {"dims", "rows", "cols", "values"} /\ Serves(p, q)
        /\ i \in DOMAIN donee_neighbours[p] /\ donee_neighbours[p][i].rank = q
        /\ from.idx = Indices(p, q)
    BY <1>1, <1>2, <1>3, <1>5, RoundsAre, DoneesListed DEF Sources, Link, q
  <2>2. DOMAIN up = 1 .. Len(up) /\ Len(up) \in Nat
    BY <1>3, <2>1, ServesIs
  <2>3. Len(from.idx) = Len(up)
    <3>1. DOMAIN Indices(p, q) = DOMAIN up
      BY DEF Indices
    <3> HIDE DEF up
    <3> QED
      BY <2>1, <2>2, <3>1, LengthIs
  <2>4. /\ at[p] \in {"cols", "values"} => bufs[p][i].row_ptr = RowsOf(p, q)
        /\ at[p] = "values" => bufs[p][i].cols = ColsOf(p, q)
    <3>1. /\ RowsKnown(p, i) => bufs[p][i].row_ptr = RowsOf(p, q)
          /\ ColsKnown(p, i) => bufs[p][i].cols = ColsOf(p, q)
      BY <1>2, <2>1 DEF Inv, LocalInv, Buffer
    <3> QED
      BY <3>1 DEF RowsKnown, ColsKnown
  <2>5. CASE at[p] = "dims"
    <3>1. m.content.rows = Len(up)
      BY <1>3, <2>5 DEF IsContent
    <3> QED
      BY <1>3, <2>3, <2>5, <3>1 DEF m, q
  <2>6. CASE at[p] = "rows"
    <3>1. DOMAIN m.content = DOMAIN up
      BY <1>3, <2>6 DEF IsContent, RowsOf
    <3>2. Len(m.content) = Len(up)
      BY <2>2, <3>1, LengthIs
    <3> QED
      BY <1>3, <2>3, <2>6, <3>2 DEF m, q
  <2>7. CASE at[p] = "cols"
    <3>1. m.content = ColsOf(p, q)
      BY <1>3, <2>7 DEF IsContent
    <3>2. DOMAIN m.content = DOMAIN up
      BY <3>1 DEF ColsOf
    <3>3. Len(m.content) = Len(up)
      BY <2>2, <3>2, LengthIs
    <3>4. \A k \in DOMAIN m.content : Cardinality(m.content[k]) = bufs[p][i].row_ptr[k]
      BY <2>4, <2>7, <3>1, <3>2 DEF ColsOf, RowsOf
    <3> QED
      BY <1>3, <2>3, <2>7, <3>3, <3>4 DEF m, q
  <2>8. CASE at[p] = "values"
    <3>1. DOMAIN m.content = DOMAIN up /\ \A k \in DOMAIN up : DOMAIN m.content[k] = Columns(q, up[k])
      BY <1>3, <2>8 DEF IsContent, ValuesOf
    <3>2. Len(m.content) = Len(up)
      BY <2>2, <3>1, LengthIs
    <3>3. \A k \in DOMAIN m.content : DOMAIN m.content[k] = bufs[p][i].cols[k]
      BY <2>4, <2>8, <3>1 DEF ColsOf
    <3> QED
      BY <1>3, <2>3, <2>8, <3>2, <3>3 DEF m, q
  <2> QED
    BY <2>1, <2>5, <2>6, <2>7, <2>8
<1> QED
  BY <1>4, <1>5 DEF Dir

\* All messages have the same tag, and calls follow each other without a barrier: still
\* a receive gets the message of its call and round, as long as its buffer, with the
\* rows that were announced.
THEOREM RoundsMatch == Spec => []RightRound
<1>1. Inv => RightRound
  BY HeadFits DEF RightRound
<1> QED
  BY <1>1, PartitionInvariant, PTL

----------------------------------------------------------------------------
(* The calls keep their promises.  First the numbers: those of one process *)
(* begin after the DOFs of lower ranks.                                    *)

LEMMA TrueOwnedIs ==
  ASSUME NEW p \in Rank
  PROVE  TrueOwned[p] = owned_dofs[p]
<1>1. \A k \in DOMAIN Local[p] : Local[p][k] \in Holds(p)
  BY DEF Holds, ToSet
<1>2. \A k \in DOMAIN Local[p] : dof_owners[p][Local[p][k]] = LowestHolder[Local[p][k]]
  BY <1>1, OwnersAre
<1>3. {k \in DOMAIN Local[p] : dof_owners[p][Local[p][k]] = p} =
        {k \in DOMAIN Local[p] : LowestHolder[Local[p][k]] = p}
  BY <1>2
<1> QED
  BY <1>3 DEF TrueOwned, owned_dofs

LEMMA HolderOf ==
  ASSUME NEW d \in AllDofs
  PROVE  \E p \in Rank : d \in Holds(p)
BY DEF AllDofs

LEMMA TrueRowIs ==
  ASSUME NEW d \in AllDofs
  PROVE  /\ LowestHolder[d] \in Rank /\ d \in Own(LowestHolder[d])
         /\ TrueRow[d] = own_dof_idx[LowestHolder[d]][d]
<1> DEFINE p == LowestHolder[d]
           s == owned_dofs[p]
<1>1. p \in Rank /\ d \in Own(p)
  BY HolderOf, LowestHolderIs DEF Own
<1>2. DOMAIN s = 1 .. Len(s) /\ Len(s) \in Nat /\ IsInjective(s)
  BY <1>1, OwnedAre
<1>3. PICK j : j = own_dof_idx[p][d]
  OBVIOUS
<1>4. j \in 0 .. Len(s) - 1 /\ s[j + 1] = d
  BY <1>1, <1>3, OwnIndexIs
<1>5. TrueRow[d] = (CHOOSE k \in DOMAIN s : s[k] = d) - 1
  BY <1>1, TrueOwnedIs DEF TrueRow
<1> HIDE DEF s
<1>6. j + 1 \in DOMAIN s /\ j = (j + 1) - 1
  BY <1>2, <1>4
<1>7. (CHOOSE k \in DOMAIN s : s[k] = d) = j + 1
  BY <1>2, <1>4, <1>6 DEF IsInjective
<1> QED
  BY <1>1, <1>3, <1>5, <1>6, <1>7

LEMMA OwnSize ==
  ASSUME NEW p \in Rank
  PROVE  IsFiniteSet(Own(p)) /\ Cardinality(Own(p)) = Len(owned_dofs[p])
<1> DEFINE s == owned_dofs[p]
<1>1. /\ IsSeq(s) /\ DOMAIN s = 1 .. Len(s) /\ Len(s) \in Nat /\ IsInjective(s) /\ ToSet(s) = Own(p)
      /\ s = [k \in 1 .. Len(s) |-> s[k]]
  BY OwnedAre, SeqDomain
<1> HIDE DEF s
<1>2. s \in Bijection(1 .. Len(s), Own(p))
  <2>1. \A k \in 1 .. Len(s) : s[k] \in Own(p)
    BY <1>1 DEF ToSet
  <2>2. \A d \in Own(p) : \E k \in 1 .. Len(s) : s[k] = d
    BY <1>1 DEF ToSet
  <2>3. s \in [1 .. Len(s) -> Own(p)]
    BY <1>1, <2>1
  <2> QED
    BY <1>1, <2>2, <2>3 DEF Bijection, Injection, Surjection
<1>3. IsFiniteSet(1 .. Len(s)) /\ Cardinality(1 .. Len(s)) = Len(s)
  <2>1. 1 \in Int /\ Len(s) \in Int
    BY <1>1
  <2>2. /\ IsFiniteSet(1 .. Len(s))
        /\ Cardinality(1 .. Len(s)) = IF 1 > Len(s) THEN 0 ELSE Len(s) - 1 + 1
    BY <2>1, FS_Interval
  <2> QED
    BY <1>1, <2>2
<1>4. ExistsBijection(1 .. Len(s), Own(p))
  BY <1>2 DEF ExistsBijection
<1> QED
  BY <1>3, <1>4, FS_Bijection DEF s

\* What lower ranks own.
Lower(m) == {c \in AllDofs : LowestHolder[c] < m}

LEMMA LowerSize ==
  ASSUME NEW n \in Nat, n <= P
  PROVE  IsFiniteSet(Lower(n)) /\ Cardinality(Lower(n)) = Offset(n)
<1> DEFINE T == {m \in Nat : m <= P => IsFiniteSet(Lower(m)) /\ Cardinality(Lower(m)) = Offset(m)}
<1>1. 0 \in T
  <2>1. Lower(0) = {}
    <3>1. \A c \in AllDofs : LowestHolder[c] \in Nat
      BY TrueRowIs, RankType
    <3> QED
      BY <3>1 DEF Lower
  <2>2. 0 \in Rank
    BY RankIs
  <2> QED
    BY <2>1, <2>2, OffsetNext, FS_EmptySet
<1>2. ASSUME NEW m \in T PROVE m + 1 \in T
  <2> SUFFICES ASSUME m + 1 <= P
               PROVE  IsFiniteSet(Lower(m + 1)) /\ Cardinality(Lower(m + 1)) = Offset(m + 1)
    OBVIOUS
  <2>1. m \in Nat /\ m <= P /\ m \in Rank
    BY RankIs
  <2>2. IsFiniteSet(Lower(m)) /\ Cardinality(Lower(m)) = Offset(m)
    BY <2>1
  <2>3. Lower(m + 1) = Lower(m) \cup Own(m)
    <3>1. \A c \in AllDofs : LowestHolder[c] \in Nat /\ c \in Own(LowestHolder[c])
      BY TrueRowIs, RankType
    <3>2. \A c \in Own(m) : c \in AllDofs /\ LowestHolder[c] = m
      BY <2>1, LowestHolderIs DEF Own
    <3> QED
      BY <2>1, <3>1, <3>2 DEF Lower
  <2>4. Lower(m) \cap Own(m) = {}
    BY <2>1 DEF Lower, Own
  <2>5. IsFiniteSet(Own(m)) /\ Cardinality(Own(m)) = Len(owned_dofs[m])
    BY <2>1, OwnSize
  <2>6. /\ IsFiniteSet(Lower(m) \cup Own(m))
        /\ Cardinality(Lower(m) \cup Own(m)) =
             Cardinality(Lower(m)) + Cardinality(Own(m)) - Cardinality(Lower(m) \cap Own(m))
    BY <2>2, <2>5, FS_Union
  <2>7. Cardinality(Lower(m) \cap Own(m)) = 0
    BY <2>4, FS_EmptySet
  <2>8. Offset(m) \in Int /\ Offset(m + 1) = Offset(m) + Len(owned_dofs[m]) /\ Len(owned_dofs[m]) \in Nat
    BY <2>1, OffsetNext, OwnedAre
  <2>9. PICK a \in Int, b \in Nat : a = Offset(m) /\ b = Len(owned_dofs[m])
    BY <2>8
  <2>10. Cardinality(Lower(m) \cup Own(m)) = a + b
    BY <2>2, <2>5, <2>6, <2>7, <2>9
  <2>11. Offset(m + 1) = a + b
    BY <2>8, <2>9
  <2> QED
    BY <2>3, <2>6, <2>10, <2>11, Zenon
<1>3. T = Nat
  <2> HIDE DEF T
  <2>1. T \in SUBSET Nat
    BY DEF T
  <2> QED
    BY <1>1, <1>2, <2>1, AllNumbers
<1> QED
  BY <1>3

\* The number of all DOFs.
Total == Offset(P)

LEMMA TrueNumberIs ==
  ASSUME NEW d \in AllDofs
  PROVE  TrueNumber[d] = Global(d)
<1> DEFINE p == LowestHolder[d]
<1>1. p \in Rank /\ TrueRow[d] = own_dof_idx[p][d] /\ d \in Own(p)
  BY TrueRowIs
<1>2. p \in Nat /\ p <= P
  BY <1>1, RankIs
<1>3. Cardinality({c \in AllDofs : LowestHolder[c] < LowestHolder[d]}) = Offset(p)
  BY <1>2, LowerSize DEF Lower
<1>4. TrueNumber[d] = TrueRow[d] + Offset(p)
  BY <1>3 DEF TrueNumber
<1>5. own_dof_idx[p][d] \in 0 .. Len(owned_dofs[p]) - 1 /\ Len(owned_dofs[p]) \in Nat /\ Offset(p) \in Int
  BY <1>1, OwnIndexIs, OwnedAre, OffsetNext
<1>6. PICK a \in Int, b \in Int : a = own_dof_idx[p][d] /\ b = Offset(p)
  BY <1>5
<1>7. TrueNumber[d] = a + b /\ Global(d) = b + a
  BY <1>1, <1>4, <1>6 DEF Global
<1> QED
  BY <1>6, <1>7

LEMMA TotalIs ==
  /\ Total \in Nat /\ \A q \in Rank : Offset(q) \in Nat /\ Offset(q) + Len(owned_dofs[q]) <= Total
<1>1. P \in Nat \ {0} /\ \A r : r \in Rank <=> r \in Nat /\ r < P
  BY RankIs
<1>2. PICK l \in Nat : l = P - 1 /\ l + 1 = P /\ l \in Rank
  BY <1>1
<1>3. Total = Offset(l) + Len(owned_dofs[l])
  BY <1>2, OffsetNext DEF Total
<1>4. 0 \in Rank /\ Offset(0) = 0
  BY <1>1, OffsetNext
<1>5. ASSUME NEW q \in Rank
      PROVE  Offset(q) \in Nat /\ Offset(q) + Len(owned_dofs[q]) <= Total
  <2>1. q \in Nat /\ q <= l
    BY <1>1, <1>2
  <2>2. /\ Offset(q) \in Int /\ Len(owned_dofs[q]) \in Nat
        /\ Offset(l) \in Int /\ Len(owned_dofs[l]) \in Nat /\ Len(owned_dofs[0]) \in Nat
    BY <1>2, <1>4, OffsetNext, OwnedAre
  <2>3. q < l => Offset(q) + Len(owned_dofs[q]) <= Offset(l)
    BY <1>2, OffsetGrows
  <2>4. 0 < q => Offset(0) + Len(owned_dofs[0]) <= Offset(q)
    BY <1>4, OffsetGrows
  <2>5. Offset(q) \in Nat
    BY <1>4, <2>1, <2>2, <2>4
  <2>6. Offset(q) + Len(owned_dofs[q]) <= Total
    BY <1>2, <1>3, <2>1, <2>2, <2>3
  <2> QED
    BY <2>5, <2>6
<1>6. Total \in Nat
  <2>1. Offset(l) \in Nat /\ Len(owned_dofs[l]) \in Nat
    BY <1>2, <1>5, OwnedAre
  <2> QED
    BY <1>3, <2>1
<1> QED
  BY <1>5, <1>6

\* Every number belongs to a DOF of some process.
LEMMA NumberBelongs ==
  ASSUME NEW g \in 0 .. Total - 1
  PROVE  \E q \in Rank : g - Offset(q) \in 0 .. Len(owned_dofs[q]) - 1
<1> DEFINE T == {m \in Nat : m <= P /\ g < Offset(m)}
<1>1. P \in Nat \ {0} /\ \A r : r \in Rank <=> r \in Nat /\ r < P
  BY RankIs
<1>2. Total \in Nat /\ g \in Nat /\ g < Total
  BY TotalIs
<1>3. P \in T
  BY <1>1, <1>2 DEF Total
<1>4. PICK n \in T : \A m \in T : n <= m
  <2> HIDE DEF T
  <2>1. T \in SUBSET Nat
    BY DEF T
  <2> QED
    BY <1>3, <2>1, LeastNumber
<1>5. n # 0
  <2>1. 0 \in Rank
    BY <1>1
  <2> QED
    BY <1>2, <2>1, OffsetNext
<1>6. PICK q \in Nat : q = n - 1 /\ q + 1 = n
  BY <1>5
<1>7. q \in Rank /\ q \notin T /\ q <= P
  BY <1>1, <1>4, <1>6
<1>8. Offset(q) \in Nat /\ Len(owned_dofs[q]) \in Nat
  BY <1>7, TotalIs, OwnedAre
<1>9. ~(g < Offset(q))
  BY <1>7
<1>10. g < Offset(q) + Len(owned_dofs[q])
  BY <1>6, <1>7, OffsetNext
<1>11. g - Offset(q) \in 0 .. Len(owned_dofs[q]) - 1
  BY <1>2, <1>8, <1>9, <1>10
<1> QED
  BY <1>7, <1>11

\* The i-th DOF that q owns.
LEMMA OwnedNumber ==
  ASSUME NEW q \in Rank, NEW i \in 0 .. Len(owned_dofs[q]) - 1, NEW d, d = owned_dofs[q][i + 1]
  PROVE  /\ d \in AllDofs /\ d \in Own(q) /\ LowestHolder[d] = q /\ own_dof_idx[q][d] = i
         /\ Global(d) = Offset(q) + i
<1> DEFINE s == owned_dofs[q]
<1>1. DOMAIN s = 1 .. Len(s) /\ Len(s) \in Nat /\ ToSet(s) = Own(q) /\ IsInjective(s)
  BY OwnedAre
<1>2. i + 1 \in 1 .. Len(s)
  BY <1>1
<1>3. d \in Own(q)
  BY <1>1, <1>2 DEF ToSet
<1>4. d \in AllDofs /\ LowestHolder[d] = q
  BY <1>3, LowestHolderIs DEF Own
<1>5. PICK j : j = own_dof_idx[q][d]
  OBVIOUS
<1>6. j \in 0 .. Len(s) - 1 /\ s[j + 1] = d
  BY <1>3, <1>5, OwnIndexIs
<1> HIDE DEF s
<1>7. s[i + 1] = d
  BY DEF s
<1>8. j + 1 = i + 1
  BY <1>1, <1>2, <1>6, <1>7 DEF IsInjective
<1>9. j = i
  BY <1>1, <1>6, <1>8
<1> QED
  BY <1>3, <1>4, <1>5, <1>9 DEF Global

LEMMA GlobalOfAll ==
  ASSUME NEW d \in AllDofs
  PROVE  Global(d) \in 0 .. Total - 1
<1>1. PICK r \in Rank : d \in Holds(r)
  BY HolderOf
<1>2. PICK p, k : GlobalAt(d, p, k)
  BY <1>1, GlobalIs
<1>3. /\ p \in Rank /\ Len(owned_dofs[p]) \in Nat /\ k \in 0 .. Len(owned_dofs[p]) - 1
      /\ Global(d) = Offset(p) + k
      /\ Offset(p) \in Nat /\ Offset(p) + Len(owned_dofs[p]) <= Total /\ Total \in Nat
  BY <1>2, OwnedAre, TotalIs DEF GlobalAt
<1> QED
  BY <1>3

----------------------------------------------------------------------------
(* Entries of matrices, as sums of those of the processes.                 *)

LEMMA EntryIs ==
  ASSUME NEW q \in Rank, NEW f \in Pattern[q]
  PROVE  /\ f = <<f[1], f[2]>> /\ f[1] \in Holds(q) /\ f[2] \in Holds(q)
         /\ f[1] \in AllDofs /\ f[2] \in AllDofs
<1>1. \A r \in Rank : Pattern[r] \subseteq Holds(r) \X Holds(r)
  BY AlgDofPartiAssumption, Zenon
<1>2. f \in Holds(q) \X Holds(q)
  BY <1>1
<1> QED
  BY <1>2 DEF AllDofs

\* The entries in rows that p owns.
Entries(p) == {f \in UNION {Pattern[q] : q \in Rank} : LowestHolder[f[1]] = p}
Key(f) == <<own_dof_idx[LowestHolder[f[1]]][f[1]], Global(f[2])>>
Keys(p) == {Key(f) : f \in Entries(p)}

LEMMA EntriesAre ==
  ASSUME NEW p \in Rank, NEW f \in Entries(p)
  PROVE  /\ f = <<f[1], f[2]>> /\ f[1] \in Own(p) /\ f[1] \in AllDofs /\ f[2] \in AllDofs
         /\ LowestHolder[f[1]] = p
<1>1. PICK q \in Rank : f \in Pattern[q]
  BY DEF Entries
<1>2. LowestHolder[f[1]] = p
  BY DEF Entries
<1> QED
  BY <1>1, <1>2, EntryIs, TrueRowIs

LEMMA SameNumber ==
  ASSUME NEW d \in AllDofs, NEW c \in AllDofs, Global(d) = Global(c)
  PROVE  d = c
BY HolderOf, GlobalIsOnce

LEMMA SameIndex ==
  ASSUME NEW p \in Rank, NEW d \in Own(p), NEW c \in Own(p), own_dof_idx[p][d] = own_dof_idx[p][c]
  PROVE  d = c
<1>1. owned_dofs[p][own_dof_idx[p][d] + 1] = d /\ owned_dofs[p][own_dof_idx[p][c] + 1] = c
  BY OwnIndexIs
<1> QED
  BY <1>1

LEMMA KeyIsOnce ==
  ASSUME NEW p \in Rank, NEW f \in Entries(p), NEW g \in Entries(p), Key(f) = Key(g)
  PROVE  f = g
<1>1. /\ own_dof_idx[p][f[1]] = own_dof_idx[p][g[1]] /\ Global(f[2]) = Global(g[2])
  BY EntriesAre DEF Key
<1>2. f[1] = g[1]
  BY <1>1, EntriesAre, SameIndex
<1>3. f[2] = g[2]
  BY <1>1, EntriesAre, SameNumber
<1> QED
  BY <1>2, <1>3, EntriesAre

\* The contributions of some processes to an entry.
Givers(S, f) == {<<q, f[1], f[2]>> : q \in {r \in S : f \in Pattern[r]}}
Summed(S, f) == SetToBag(Givers(S, f))

IsMatrix(m, p, S) ==
  /\ m = [k \in Keys(p) |-> m[k]]
  /\ \A f \in Entries(p) : m[Key(f)] = Summed(S, f)

LEMMA BagOfMore ==
  ASSUME NEW A, NEW B, A \cap B = {}
  PROVE  SetToBag(A) (+) SetToBag(B) = SetToBag(A \cup B)
BY DEF SetToBag, (+)

LEMMA BagOfNone ==
  ASSUME NEW A
  PROVE  EmptyBag (+) SetToBag(A) = SetToBag(A)
<1>1. EmptyBag = SetToBag({}) /\ {} \cup A = A
  BY DEF EmptyBag, SetToBag
<1> QED
  BY <1>1, BagOfMore

LEMMA SummedMore ==
  ASSUME NEW S, NEW q, q \notin S, NEW f
  PROVE  Summed(S, f) (+) Summed({q}, f) = Summed(S \cup {q}, f)
<1>1. Givers(S, f) \cap Givers({q}, f) = {}
  BY DEF Givers
<1>2. Givers(S, f) \cup Givers({q}, f) = Givers(S \cup {q}, f)
  BY DEF Givers
<1> QED
  BY <1>1, <1>2, BagOfMore DEF Summed

LEMMA SummedSame ==
  ASSUME NEW S, NEW q, NEW f, f \notin Pattern[q]
  PROVE  Summed(S \cup {q}, f) = Summed(S, f)
<1>1. Givers(S \cup {q}, f) = Givers(S, f)
  BY DEF Givers
<1> QED
  BY <1>1 DEF Summed

\* Nobody else has entries in a row of p.
LEMMA SummedAll ==
  ASSUME NEW p \in Rank, NEW f \in Entries(p)
  PROVE  Summed({p} \cup DoneesOf(p), f) = Summed(Rank, f)
<1>1. ASSUME NEW r \in Rank, f \in Pattern[r] PROVE r \in {p} \cup DoneesOf(p)
  BY <1>1, EntryIs, EntriesAre DEF DoneesOf, Serves
<1>2. {p} \cup DoneesOf(p) \subseteq Rank
  BY DEF DoneesOf
<1>3. Givers({p} \cup DoneesOf(p), f) = Givers(Rank, f)
  BY <1>1, <1>2 DEF Givers
<1> QED
  BY <1>3 DEF Summed

LEMMA LocalIs ==
  ASSUME NEW p \in Rank, NEW f \in Entries(p), NEW q \in Rank
  PROVE  LocalOf(q, f[1], Global(f[2])) = Summed({q}, f)
<1>1. ASSUME NEW e \in Pattern[q], e[1] = f[1], Global(e[2]) = Global(f[2])
      PROVE  e = f
  <2>1. e[2] = f[2]
    BY <1>1, EntryIs, EntriesAre, SameNumber
  <2> QED
    BY <1>1, <2>1, EntryIs, EntriesAre
<1>2. {e \in Pattern[q] : e[1] = f[1] /\ Global(e[2]) = Global(f[2])} =
        {e \in {f} : e \in Pattern[q]}
  BY <1>1
<1>3. {<<q, e[1], e[2]>> : e \in {e \in {f} : e \in Pattern[q]}} = Givers({q}, f)
  BY DEF Givers
<1> QED
  BY <1>2, <1>3 DEF LocalOf, Summed

LEMMA TrueMatrixIs ==
  ASSUME NEW p \in Rank
  PROVE  /\ TrueMatrix[p] = [k \in Keys(p) |-> TrueMatrix[p][k]]
         /\ \A f \in Entries(p) :
              TrueMatrix[p][Key(f)] = IF f[1] \notin Filtered[p] THEN Summed(Rank, f)
                                      ELSE IF f[1] = f[2] THEN Unit ELSE EmptyBag
<1> DEFINE key(f) == <<TrueRow[f[1]], TrueNumber[f[2]]>>
           val(f) == IF f[1] \notin Filtered[p] THEN Summed(Rank, f)
                     ELSE IF f[1] = f[2] THEN Unit ELSE EmptyBag
           pick(k) == CHOOSE f \in Entries(p) : key(f) = k
           m == TrueMatrix[p]
<1>1. m = [k \in {key(f) : f \in Entries(p)} |-> val(pick(k))]
  BY DEF TrueMatrix, Entries, Summed, Givers
<1>2. \A f \in Entries(p) : key(f) = Key(f)
  <2> SUFFICES ASSUME NEW f \in Entries(p) PROVE key(f) = Key(f)
    OBVIOUS
  <2>1. f[1] \in AllDofs /\ f[2] \in AllDofs
    BY EntriesAre
  <2>2. TrueRow[f[1]] = own_dof_idx[LowestHolder[f[1]]][f[1]] /\ TrueNumber[f[2]] = Global(f[2])
    BY <2>1, TrueRowIs, TrueNumberIs
  <2> QED
    BY <2>2 DEF Key
<1>3. {key(f) : f \in Entries(p)} = Keys(p)
  BY <1>2 DEF Keys
<1>4. ASSUME NEW f \in Entries(p) PROVE pick(Key(f)) = f
  <2>1. key(f) = Key(f) /\ \A g \in Entries(p) : key(g) = Key(f) => g = f
    BY <1>2, KeyIsOnce
  <2> HIDE DEF key
  <2> QED
    BY <2>1
<1>5. m = [k \in Keys(p) |-> val(pick(k))]
  BY <1>1, <1>3
<1> HIDE DEF m, pick
<1>6. m = [k \in Keys(p) |-> m[k]]
  BY <1>5
<1>7. ASSUME NEW f \in Entries(p) PROVE m[Key(f)] = val(f)
  <2>1. Key(f) \in Keys(p)
    BY DEF Keys
  <2>2. m[Key(f)] = val(pick(Key(f)))
    BY <1>5, <2>1
  <2> QED
    BY <1>4, <2>2
<1> QED
  BY <1>6, <1>7 DEF m

----------------------------------------------------------------------------
(* What processes know beyond the partition: whom they have met, what they *)
(* have passed to the collectives, and of whom their sums are.             *)

\* What q passes in allgather(): as the k-th of its collectives.
UploadOf(q) == [k \in 0 .. Len(owned_dofs[q]) - 1 |-> SetToBag({<<q, owned_dofs[q][k + 1]>>})]

ShareOf(q, n) == CASE n = 1 -> Offset(q) [] n = 2 -> Len(owned_dofs[q]) [] n = 3 -> UploadOf(q)

Passed(q) ==
  \A t \in 1 .. Len(Program) : \A n \in 1 .. 3 :
    Program[t] = "allgather" /\ SumBefore(Shares, t) + n <= Len(given[q])
      => given[q][SumBefore(Shares, t) + n] = ShareOf(q, n)

Met(p) == at[p] \in {"numbers", "dims", "rows", "cols"} => \A q \in Rank : begun[q] >= begun[p]

Learnt(p) ==
  SetUp(begun[p]) /\ at[p] \notin {"exscan", "allreduce"} =>
    /\ adp[p].total = Total
    /\ adp[p].number = [d \in Holds(p) |-> adp[p].number[d]]
    /\ at[p] \in {"counts", "full"} => adp[p].offsets = [q \in Rank |-> Offset(q)]
    /\ at[p] = "full" => adp[p].counts = [q \in Rank |-> Len(owned_dofs[q])]

\* The rows of the matrix are there.
Structural == {"exscan", "allreduce", "numbers", "dims", "rows", "cols"}
Rows(p) ==
  SetUp(begun[p]) /\ at[p] \notin Structural => matrix[p] = [k \in Keys(p) |-> matrix[p][k]]

\* Those whose message has been added, and p itself.
Heard(dir, p) == {p} \cup {Sources(dir, p)[i].rank : i \in DOMAIN Sources(dir, p) \ recvs[p]}

IsVector(v, p, S) ==
  v = [d \in Holds(p) |-> IF LowestHolder[d] \in S THEN TrueValue(d) ELSE EmptyBag]

Sums(p) ==
  /\ \A dir \in Dir : at[p] \in Rounds(dir) \cap {"values", "shared"} /\ ~posted[p] =>
                        recvs[p] = DOMAIN Sources(dir, p)
  /\ at[p] = "values" /\ ~posted[p] => \A e \in Keys(p) : matrix[p][e] = EmptyBag
  /\ at[p] = "values" /\ posted[p] => IsMatrix(matrix[p], p, Heard("up", p))
  /\ at[p] = "shared" /\ posted[p] => IsVector(vector[p], p, Heard("down", p))

Known(p) == Met(p) /\ Passed(p) /\ Learnt(p) /\ Rows(p) /\ Sums(p)

Whole ==
  /\ matrix = [p \in Rank |-> matrix[p]] /\ vector = [p \in Rank |-> vector[p]]
  /\ \A p \in Rank : Known(p)

\* A step changes what one process has.
OthersSum(p) ==
  /\ \A r \in Rank \ {p} : matrix'[r] = matrix[r] /\ vector'[r] = vector[r]
  /\ matrix' = [r \in Rank |-> matrix'[r]] /\ vector' = [r \in Rank |-> vector'[r]]

LEMMA ShapesAre ==
  ASSUME Inv, Whole
  PROVE  /\ begun = [r \in Rank |-> begun[r]] /\ at = [r \in Rank |-> at[r]]
         /\ posted = [r \in Rank |-> posted[r]] /\ recvs = [r \in Rank |-> recvs[r]]
         /\ given = [r \in Rank |-> given[r]] /\ adp = [r \in Rank |-> adp[r]]
         /\ bufs = [r \in Rank |-> bufs[r]]
         /\ matrix = [r \in Rank |-> matrix[r]] /\ vector = [r \in Rank |-> vector[r]]
         /\ \A r \in Rank : begun[r] \in Nat /\ begun[r] \in 0 .. Len(Program) /\ posted[r] \in BOOLEAN
<1>1. Len(Program) \in Nat
  BY ProgramIs
<1> QED
  BY <1>1 DEF Inv, Shape, Whole

LEMMA CallsAreOwn ==
  ASSUME Inv, Whole, NEW p \in Rank,
         \/ InitSymbolic(p) \/ Scan(p) \/ Reduce(p)
         \/ AllGather(p) \/ LearnOffsets(p) \/ LearnCounts(p) \/ Gather(p)
  PROVE  OthersStay(p) /\ OthersSum(p)
<1> USE ShapesAre DEF OthersStay, OthersSum, Begin, Goto, Call, Expect
<1>1. CASE InitSymbolic(p)
  BY <1>1 DEF InitSymbolic
<1>2. CASE Scan(p)
  BY <1>2 DEF Scan
<1>3. CASE Reduce(p)
  BY <1>3 DEF Reduce
<1>4. CASE AllGather(p)
  BY <1>4 DEF AllGather
<1>5. CASE LearnOffsets(p)
  BY <1>5 DEF LearnOffsets
<1>6. CASE LearnCounts(p)
  BY <1>6 DEF LearnCounts
<1>7. CASE Gather(p)
  BY <1>7 DEF Gather
<1> QED
  BY <1>1, <1>2, <1>3, <1>4, <1>5, <1>6, <1>7

LEMMA RoundsAreOwn ==
  ASSUME Inv, Whole, NEW p \in Rank,
         \/ Numbered(p) \/ PostReceives(p) \/ Structured(p) \/ InitNumeric(p) \/ Assembled(p)
         \/ Apply(p) \/ Downloaded(p) \/ DoneSymbolic(p)
  PROVE  OthersStay(p) /\ OthersSum(p)
<1> USE ShapesAre DEF OthersStay, OthersSum, Begin, Goto, Expect
<1>1. CASE Numbered(p)
  BY <1>1 DEF Numbered
<1>2. CASE PostReceives(p)
  BY <1>2 DEF PostReceives
<1>3. CASE Structured(p)
  BY <1>3 DEF Structured
<1>4. CASE InitNumeric(p)
  BY <1>4 DEF InitNumeric
<1>5. CASE Assembled(p)
  BY <1>5 DEF Assembled
<1>6. CASE Apply(p)
  BY <1>6 DEF Apply
<1>7. CASE Downloaded(p)
  BY <1>7 DEF Downloaded
<1>8. CASE DoneSymbolic(p)
  BY <1>8 DEF DoneSymbolic
<1> QED
  BY <1>1, <1>2, <1>3, <1>4, <1>5, <1>6, <1>7, <1>8

LEMMA MessagesAreOwn ==
  ASSUME Inv, Whole, NEW p \in Rank, PostSends(p) \/ \E i \in recvs[p] : Take(p, i)
  PROVE  OthersStay(p) /\ OthersSum(p)
<1> USE ShapesAre
<1>1. CASE PostSends(p)
  <2>1. /\ UNCHANGED <<begun, at, recvs, given, adp, bufs>>
        /\ posted' = [posted EXCEPT ![p] = TRUE]
    BY <1>1 DEF PostSends
  <2>2. \E x : matrix' = IF at[p] = "values" THEN [matrix EXCEPT ![p] = x] ELSE matrix
    BY <1>1 DEF PostSends
  <2>3. \E x : vector' = IF at[p] = "shared" THEN [vector EXCEPT ![p] = x] ELSE vector
    BY <1>1 DEF PostSends
  <2>4. OthersStay(p)
    BY <2>1 DEF OthersStay
  <2> QED
    BY <2>2, <2>3, <2>4 DEF OthersSum
<1>2. ASSUME NEW i \in recvs[p], Take(p, i) PROVE OthersStay(p) /\ OthersSum(p)
  <2>1. UNCHANGED <<begun, at, posted, given>> /\ recvs' = [recvs EXCEPT ![p] = @ \ {i}]
    BY <1>2 DEF Take
  <2>2. \E x : adp' = IF at[p] = "numbers" THEN [adp EXCEPT ![p].number = x] ELSE adp
    BY <1>2 DEF Take
  <2>3. \E x : bufs' = IF at[p] \in {"dims", "rows", "cols"} THEN [bufs EXCEPT ![p][i] = x] ELSE bufs
    <3> DEFINE content == Head(chan[ReceivesFrom(p)[i].rank][p]).content
    <3>1. bufs' = IF at[p] \in {"dims", "rows", "cols"}
                    THEN [bufs EXCEPT ![p][i] = Received(p, @, content)] ELSE bufs
      BY <1>2 DEF Take
    <3>2. [bufs EXCEPT ![p][i] = Received(p, @, content)] =
             [bufs EXCEPT ![p][i] = Received(p, bufs[p][i], content)]
      OBVIOUS
    <3> QED
      BY <3>1, <3>2
  <2>4. \E x : matrix' = IF at[p] = "values" THEN [matrix EXCEPT ![p] = x] ELSE matrix
    BY <1>2 DEF Take
  <2>5. \E x : vector' = IF at[p] = "shared" THEN [vector EXCEPT ![p] = x] ELSE vector
    BY <1>2 DEF Take
  <2>6. OthersStay(p)
    <3>1. \A r \in Rank \ {p} : adp'[r] = adp[r]
      BY <2>2
    <3>2. \A r \in Rank \ {p} : bufs'[r] = bufs[r]
      BY <2>3
    <3> QED
      BY <2>1, <3>1, <3>2 DEF OthersStay
  <2> QED
    BY <2>4, <2>5, <2>6 DEF OthersSum
<1> QED
  BY <1>1, <1>2

LEMMA StepIsOwn ==
  ASSUME Inv, Whole, NEW p \in Rank, Step(p)
  PROVE  OthersStay(p) /\ OthersSum(p)
BY CallsAreOwn, RoundsAreOwn, MessagesAreOwn DEF Step

\* What a process knows stays true while others take steps.
LEMMA WholeStep ==
  ASSUME Inv, Whole, NEW p \in Rank, OthersStay(p), OthersSum(p),
         begun'[p] = begun[p] \/ begun'[p] = begun[p] + 1,
         Known(p)'
  PROVE  Whole'
<1>1. ASSUME NEW r \in Rank \ {p} PROVE Known(r)'
  <2>1. /\ Known(r) /\ begun'[r] = begun[r] /\ at'[r] = at[r] /\ posted'[r] = posted[r]
        /\ recvs'[r] = recvs[r] /\ given'[r] = given[r] /\ adp'[r] = adp[r]
        /\ matrix'[r] = matrix[r] /\ vector'[r] = vector[r]
    BY DEF Whole, OthersStay, OthersSum
  <2>2. Met(r)'
    <3>1. \A q \in Rank : begun[q] \in Nat
      BY ShapesAre
    <3>2. \A q \in Rank : begun'[q] = begun[q] \/ begun'[q] = begun[q] + 1
      BY DEF OthersStay
    <3> QED
      BY <2>1, <3>1, <3>2 DEF Met, Known
  <2>3. Passed(r)'
    BY <2>1 DEF Known, Passed
  <2>4. Learnt(r)'
    BY <2>1 DEF Known, Learnt
  <2>5. Rows(r)'
    BY <2>1 DEF Known, Rows
  <2>6. Sums(r)'
    BY <2>1 DEF Known, Sums, Heard
  <2> QED
    BY <2>2, <2>3, <2>4, <2>5, <2>6 DEF Known
<1> QED
  BY <1>1 DEF Whole, OthersSum

----------------------------------------------------------------------------
(* Parts of what a process knows.                                          *)

LEMMA MetKeeps ==
  ASSUME Inv, Whole, NEW p \in Rank, OthersStay(p),
         begun'[p] = begun[p] \/ begun'[p] = begun[p] + 1,
         at'[p] \in {"numbers", "dims", "rows", "cols"} =>
           at[p] \in {"numbers", "dims", "rows", "cols"} /\ begun'[p] = begun[p]
  PROVE  Met(p)'
<1> SUFFICES ASSUME at'[p] \in {"numbers", "dims", "rows", "cols"}, NEW q \in Rank
             PROVE  begun'[q] >= begun'[p]
  BY DEF Met
<1>1. begun'[p] = begun[p] /\ begun[q] >= begun[p]
  BY DEF Whole, Known, Met
<1>2. begun'[q] = begun[q] \/ begun'[q] = begun[q] + 1
  BY DEF OthersStay
<1>3. begun[q] \in Nat /\ begun[p] \in Nat
  BY ShapesAre
<1> QED
  BY <1>1, <1>2, <1>3

\* A place among the collectives belongs to one call.
LEMMA SlotIsOnce ==
  ASSUME NEW t \in 1 .. Len(Program), NEW s \in 1 .. Len(Program),
         NEW n \in 1 .. Shares[t], NEW m \in 1 .. Shares[s],
         SumBefore(Shares, t) + n = SumBefore(Shares, s) + m
  PROVE  t = s /\ n = m
<1>1. PICK a \in Nat, b \in Nat : a = SumBefore(Shares, t) /\ b = SumBefore(Shares, s)
  BY SharesIs
<1>2. PICK k \in Nat, l \in Nat : k = Shares[t] /\ l = Shares[s]
  BY SharesIs
<1> DEFINE v == Shares
<1>3. Len(Program) \in Nat /\ \A x \in 1 .. Len(Program) : v[x] \in Nat
  BY ProgramIs, SharesIs
<1>4. t \in 1 .. Len(Program) + 1 /\ s \in 1 .. Len(Program) + 1
  BY <1>3
<1>5. t < s => a + k <= b
  <2> HIDE DEF v
  <2>1. t < s => SumBefore(v, t) + v[t] <= SumBefore(v, s)
    BY <1>3, <1>4, SumBeforeGrows
  <2> QED
    BY <1>1, <1>2, <2>1 DEF v
<1>6. s < t => b + l <= a
  <2> HIDE DEF v
  <2>1. s < t => SumBefore(v, s) + v[s] <= SumBefore(v, t)
    BY <1>3, <1>4, SumBeforeGrows
  <2> QED
    BY <1>1, <1>2, <2>1 DEF v
<1> HIDE DEF v
<1>7. n \in Nat /\ m \in Nat /\ 1 <= n /\ n <= k /\ 1 <= m /\ m <= l /\ a + n = b + m
  BY <1>1, <1>2
<1>8. ~(t < s) /\ ~(s < t)
  BY <1>5, <1>6, <1>7
<1>9. t = s
  BY <1>3, <1>8
<1> QED
  BY <1>1, <1>7, <1>9

LEMMA PassedSame ==
  ASSUME Whole, NEW p \in Rank, given'[p] = given[p]
  PROVE  Passed(p)'
BY DEF Whole, Known, Passed

LEMMA PassedMore ==
  ASSUME Inv, Inv', Whole, NEW p \in Rank, NEW value, given'[p] = Append(given[p], value),
         NEW u \in 1 .. Len(Program), NEW n \in 1 .. Shares[u],
         Given(begun'[p], at'[p]) = SumBefore(Shares, u) + n,
         Program[u] = "allgather" => value = ShareOf(p, n)
  PROVE  Passed(p)'
<1>1. PICK s, s1 : s = given[p] /\ s1 = given'[p]
  OBVIOUS
<1>2. IsSeq(s) /\ Len(s1) = SumBefore(Shares, u) + n
  BY <1>1 DEF Inv, LocalInv, Collective
<1>3. /\ Len(s) \in Nat /\ Len(s1) = Len(s) + 1
      /\ \A k \in 1 .. Len(s) : s1[k] = s[k]
      /\ s1[Len(s) + 1] = value
  BY <1>1, <1>2, SeqAppend, SeqLength
<1> SUFFICES ASSUME NEW t \in 1 .. Len(Program), NEW m \in 1 .. 3, Program[t] = "allgather",
                    SumBefore(Shares, t) + m <= Len(s1)
             PROVE  s1[SumBefore(Shares, t) + m] = ShareOf(p, m)
  BY <1>1 DEF Passed
<1>4. PICK k : k = SumBefore(Shares, t) + m
  OBVIOUS
<1>5. k \in Nat /\ 1 <= k /\ k <= Len(s) + 1 /\ m \in 1 .. Shares[t]
  <2>1. PICK j \in Nat : j = SumBefore(Shares, t)
    BY SharesIs
  <2>2. Shares[t] = 3
    BY SharesIs
  <2>3. k = j + m /\ j + m <= Len(s) + 1
    BY <1>3, <1>4, <2>1
  <2> QED
    BY <1>3, <2>1, <2>2, <2>3
<1>6. CASE k <= Len(s)
  <2>1. s[k] = ShareOf(p, m)
    BY <1>1, <1>4, <1>6 DEF Whole, Known, Passed
  <2> QED
    BY <1>3, <1>4, <1>5, <1>6, <2>1
<1>7. CASE k = Len(s) + 1
  <2>1. SumBefore(Shares, t) + m = SumBefore(Shares, u) + n
    BY <1>2, <1>3, <1>4, <1>7
  <2>2. t = u /\ m = n
    BY <1>5, <2>1, SlotIsOnce
  <2> QED
    BY <1>3, <1>4, <1>7, <2>2
<1> QED
  BY <1>3, <1>5, <1>6, <1>7

LEMMA LearntKeeps ==
  ASSUME Whole, NEW p \in Rank, adp'[p] = adp[p],
         SetUp(begun'[p]) /\ at'[p] \notin {"exscan", "allreduce"} =>
           /\ SetUp(begun[p]) /\ at[p] \notin {"exscan", "allreduce"}
           /\ at'[p] \notin {"counts", "full"}
  PROVE  Learnt(p)'
BY DEF Whole, Known, Learnt

LEMMA RowsKeep ==
  ASSUME Whole, NEW p \in Rank, matrix'[p] = matrix[p],
         SetUp(begun'[p]) /\ at'[p] \notin Structural => SetUp(begun[p]) /\ at[p] \notin Structural
  PROVE  Rows(p)'
BY DEF Whole, Known, Rows

LEMMA NoSums ==
  ASSUME NEW p \in Rank, at'[p] \notin {"values", "shared"}
  PROVE  Sums(p)'
BY DEF Sums

\* The calls with the most steps, and those with the fewest.
LEMMA InitSymbolicKnows ==
  ASSUME Inv, Inv', Whole, NEW p \in Rank, InitSymbolic(p)
  PROVE  Whole'
<1>1. /\ begun'[p] = begun[p] + 1 /\ at'[p] = "exscan" /\ adp'[p] = adp[p] /\ matrix'[p] = matrix[p]
      /\ given'[p] = Append(given[p], Len(owned_dofs[p]))
      /\ MayStart(p, "init_symbolic")
  BY ShapesAre DEF InitSymbolic, Begin, Call
<1>2. OthersStay(p) /\ OthersSum(p)
  BY CallsAreOwn
<1>3. begun[p] + 1 \in 1 .. Len(Program) /\ Program[begun[p] + 1] = "init_symbolic"
  BY <1>1, StartIs DEF Inv
<1>4. Passed(p)'
  <2>1. PICK u \in 1 .. Len(Program) : u = begun[p] + 1
    BY <1>3
  <2>2. Program[u] = "init_symbolic" /\ Shares[u] = 2
    BY <1>3, <2>1, SharesIs
  <2>3. Given(u, "exscan") = SumBefore(Shares, u) + 1 /\ 1 \in 1 .. Shares[u]
    BY <2>2 DEF Given
  <2>4. begun'[p] = u
    BY <1>1, <2>1
  <2> QED
    BY <1>1, <2>2, <2>3, <2>4, PassedMore
<1>5. Met(p)' /\ Learnt(p)' /\ Rows(p)' /\ Sums(p)'
  BY <1>1, <1>2, MetKeeps, LearntKeeps, RowsKeep, NoSums DEF Structural
<1> QED
  BY <1>1, <1>2, <1>4, <1>5, WholeStep DEF Known

LEMMA ScanKnows ==
  ASSUME Inv, Inv', Whole, NEW p \in Rank, Scan(p)
  PROVE  Whole'
<1>1. /\ begun'[p] = begun[p] /\ at[p] = "exscan" /\ at'[p] = "allreduce"
      /\ matrix'[p] = matrix[p]
      /\ given'[p] = Append(given[p], Len(owned_dofs[p]))
  BY ShapesAre DEF Scan, Goto, Call
<1>2. OthersStay(p) /\ OthersSum(p)
  BY CallsAreOwn
<1>3. begun[p] \in 1 .. Len(Program) /\ Program[begun[p]] = "init_symbolic"
  BY <1>1, CallIs DEF CallOf, Inv, LocalInv
<1>4. Passed(p)'
  <2>1. PICK u \in 1 .. Len(Program) : u = begun[p]
    BY <1>3
  <2>2. Program[u] = "init_symbolic" /\ Shares[u] = 2
    BY <1>3, <2>1, SharesIs
  <2>3. Given(u, "allreduce") = SumBefore(Shares, u) + 2 /\ 2 \in 1 .. Shares[u]
    BY <2>2 DEF Given
  <2> QED
    BY <1>1, <2>1, <2>2, <2>3, PassedMore
<1>5. Met(p)' /\ Learnt(p)' /\ Rows(p)' /\ Sums(p)'
  BY <1>1, <1>2, MetKeeps, RowsKeep, NoSums DEF Structural, Learnt
<1> QED
  BY <1>1, <1>2, <1>4, <1>5, WholeStep DEF Known

\* Who is as far with the collectives as p has begun as many calls.
LEMMA GivenAfter ==
  ASSUME Inv, NEW p \in Rank, NEW q \in Rank, Len(given[q]) >= Len(given[p]),
         at[p] \in {"exscan", "allreduce", "offsets", "counts", "full"}
  PROVE  begun[q] >= begun[p]
<1>1. PICK t, s, n : t = begun[p] /\ s = begun[q] /\ n = Len(Program)
  OBVIOUS
<1>2. n \in Nat /\ t \in 1 .. n /\ s \in 0 .. n /\ Program[t] = CallOf(at[p])
  BY <1>1, ProgramIs, CallIs DEF Inv, LocalInv, Shape
<1>3. /\ Len(given[p]) = Given(t, at[p]) /\ Len(given[q]) = Given(s, at[q])
      /\ Phase(p) /\ Phase(q) /\ at[q] \in Where \cup {"none"}
  BY <1>1 DEF Inv, LocalInv, Collective, Shape
<1> SUFFICES ASSUME s < t PROVE FALSE
  BY <1>1, <1>2
<1>4. PICK a \in Nat : a = SumBefore(Shares, t)
  BY <1>1, <1>2, SharesIs
<1>5. Len(given[p]) >= a + 1
  <2>1. Program[t] \in {"init_symbolic", "allgather"}
    BY <1>2 DEF CallOf
  <2>2. Shares[t] \in {2, 3} /\ SumBefore(Shares, t + 1) = a + Shares[t]
    BY <1>1, <1>2, <1>4, <2>1, SharesIs
  <2>3. Given(t, at[p]) \in {a + 1, a + 2, a + Shares[t]}
    BY <1>4, <2>2 DEF Given
  <2> QED
    BY <1>3, <2>2, <2>3
<1>6. PICK b \in Nat : b = SumBefore(Shares, s + 1)
  <2>1. s + 1 \in 1 .. n
    BY <1>2
  <2> QED
    BY <1>1, <2>1, SharesIs
<1>7. Len(given[q]) <= b
  <2>1. CASE s = 0
    <3>1. at[q] = "none"
      BY <1>1, <1>3, <2>1 DEF Phase
    <3> QED
      BY <1>3, <1>6, <3>1 DEF Given
  <2>2. CASE s # 0
    <3>1. s \in 1 .. n
      BY <1>2, <2>2
    <3>2. PICK c \in Nat : c = SumBefore(Shares, s)
      BY <1>1, <3>1, SharesIs
    <3>3. PICK d \in Nat : d = Shares[s]
      BY <1>1, <3>1, SharesIs
    <3>4. b = c + d
      BY <1>1, <1>6, <3>1, <3>2, <3>3, SharesIs
    <3>5. at[q] \in {"exscan", "offsets", "allreduce", "counts"} => d >= 2
      <4> HAVE at[q] \in {"exscan", "offsets", "allreduce", "counts"}
      <4>1. Program[s] = CallOf(at[q])
        BY <1>1, <1>3 DEF Phase
      <4>2. Program[s] \in {"init_symbolic", "allgather"}
        BY <4>1 DEF CallOf
      <4>3. Shares[s] \in {2, 3}
        BY <1>1, <3>1, <4>2, SharesIs
      <4> QED
        BY <3>3, <4>3
    <3>6. (Given(s, at[q]) \in {c + 1, c + 2} /\ d >= 2) \/ Given(s, at[q]) = b
      BY <1>6, <3>2, <3>5 DEF Given
    <3> QED
      BY <1>3, <3>4, <3>6
  <2> QED
    BY <2>1, <2>2
<1>8. b <= a
  <2>1. CASE s + 1 = t
    BY <1>2, <1>4, <1>6, <2>1
  <2>2. CASE s + 1 # t
    <3>1. s + 1 \in 1 .. n /\ s + 1 < t /\ t \in 1 .. n + 1
      BY <1>2, <2>2
    <3> DEFINE v == Shares
    <3>2. \A x \in 1 .. n : v[x] \in Nat
      BY <1>1, SharesIs
    <3>3. PICK k : k = s + 1
      OBVIOUS
    <3> HIDE DEF v
    <3>4. SumBefore(v, k) + v[k] <= SumBefore(v, t)
      BY <1>2, <3>1, <3>2, <3>3, SumBeforeGrows
    <3>5. v[k] \in Nat
      BY <3>1, <3>2, <3>3
    <3>6. SumBefore(v, k) = b /\ SumBefore(v, t) = a
      BY <1>4, <1>6, <3>3 DEF v
    <3> QED
      BY <3>4, <3>5, <3>6
  <2> QED
    BY <2>1, <2>2
<1> QED
  BY <1>3, <1>5, <1>7, <1>8, SeqLength DEF Inv, LocalInv, Collective

\* allreduce adds up the numbers of DOFs.
LEMMA ReduceTotal ==
  ASSUME Inv, NEW p \in Rank, Reduce(p)
  PROVE  SumOver(Rank, Gathered(p)) = Total
<1>1. PICK k : k = Len(given[p])
  OBVIOUS
<1>2. /\ begun[p] \in 1 .. Len(Program) /\ Program[begun[p]] = "init_symbolic"
      /\ at[p] = "allreduce" /\ Arrived(p, Rank)
  BY CallIs DEF CallOf, Inv, LocalInv, Reduce
<1>3. k \in Nat /\ 1 <= k /\ IsOfSizes(k)
  <2>1. k = SumBefore(Shares, begun[p]) + 2
    BY <1>1, <1>2 DEF Inv, LocalInv, Collective, Given
  <2>2. SumBefore(Shares, begun[p]) \in Nat
    BY <1>2, SharesIs
  <2> QED
    BY <1>2, <2>1, <2>2 DEF IsOfSizes
<1>4. \A q \in Rank : given[q][k] = Len(owned_dofs[q])
  <2> TAKE q \in Rank
  <2>1. Len(given[q]) >= k /\ Collective(q)
    BY <1>1, <1>2 DEF Arrived, Inv, LocalInv
  <2>2. Len(given[q]) \in Nat
    BY <2>1, SeqLength DEF Collective
  <2>3. k \in 1 .. Len(given[q])
    BY <1>3, <2>1, <2>2
  <2> QED
    BY <1>3, <2>1, <2>3 DEF Collective
<1>5. Gathered(p) = [q \in Rank |-> Len(owned_dofs[q])]
  BY <1>1, <1>4 DEF Gathered
<1> QED
  BY <1>5 DEF Total, Offset, Rank

LEMMA ReduceKnows ==
  ASSUME Inv, Inv', Whole, NEW p \in Rank, Reduce(p)
  PROVE  Whole'
<1>1. /\ begun'[p] = begun[p] /\ at[p] = "allreduce" /\ at'[p] = "numbers"
      /\ given'[p] = given[p] /\ Arrived(p, Rank)
  BY ShapesAre DEF Reduce, Goto
<1>2. OthersStay(p) /\ OthersSum(p)
  BY CallsAreOwn
<1>3. Met(p)'
  <2> SUFFICES ASSUME NEW q \in Rank PROVE begun'[q] >= begun'[p]
    BY DEF Met
  <2>1. begun' = begun
    BY DEF Reduce, Goto
  <2>2. Len(given[q]) >= Len(given[p])
    BY <1>1 DEF Arrived
  <2> QED
    BY <1>1, <2>1, <2>2, GivenAfter
<1>4. Learnt(p)'
  <2> DEFINE sum == SumOver(Rank, Gathered(p))
             own == owned_dofs[p]
             up == adp[p].owner \o owner_neighbours[p]
             down == adp[p].donee \o donee_neighbours[p]
             num == [d \in Holds(p) |->
                       IF dof_owners[p][d] = p THEN adp[p].offset + own_dof_idx[p][d]
                       ELSE IF d \in DOMAIN adp[p].number THEN adp[p].number[d] ELSE NoNumber]
  <2>1. adp' = [adp EXCEPT ![p].total = sum, ![p].owned = own,
                           ![p].owner = @ \o owner_neighbours[p],
                           ![p].donee = @ \o donee_neighbours[p],
                           ![p].number = [d \in Holds(p) |->
                             IF dof_owners[p][d] = p THEN adp[p].offset + own_dof_idx[p][d]
                             ELSE IF d \in DOMAIN @ THEN @[d] ELSE NoNumber]]
    BY DEF Reduce
  <2>2. adp'[p] = [adp[p] EXCEPT !.total = sum, !.owned = own, !.owner = up, !.donee = down,
                                 !.number = num]
    BY <2>1, ShapesAre
  <2>3. SetUp(begun[p]) /\ adp[p] = [EmptyParti EXCEPT !.offset = Offset(p)]
    BY <1>1, CallIs DEF Inv, LocalInv, Partition
  <2>4. DOMAIN adp[p] = DOMAIN EmptyParti
    BY <2>3, EmptyIs
  <2>5. DOMAIN num = Holds(p) /\ num = [d \in Holds(p) |-> num[d]]
    OBVIOUS
  <2> HIDE DEF sum, own, up, down, num
  <2>6. adp'[p].total = sum /\ adp'[p].number = num
    BY <2>2, <2>4, EmptyIs
  <2> QED
    BY <1>1, <2>5, <2>6, ReduceTotal DEF Learnt, sum
<1>5. Passed(p)' /\ Rows(p)' /\ Sums(p)'
  BY <1>1, PassedSame, NoSums DEF Rows, Structural
<1> QED
  BY <1>1, <1>2, <1>3, <1>4, <1>5, WholeStep DEF Known

LEMMA IdleIs ==
  ASSUME Inv, NEW p \in Rank, NEW call \in {"init_numeric", "apply", "allgather"}, MayStart(p, call)
  PROVE  /\ at[p] = "none" /\ SetUp(begun[p]) /\ ~posted[p]
         /\ begun[p] + 1 \in 1 .. Len(Program) /\ Program[begun[p] + 1] = call
         /\ adp[p].offset = Offset(p) /\ adp[p].owned = owned_dofs[p]
         /\ adp[p].owner = owner_neighbours[p] /\ adp[p].donee = donee_neighbours[p]
<1>1. /\ at[p] = "none" /\ begun[p] + 1 \in 1 .. Len(Program) /\ Program[begun[p] + 1] = call
      /\ SetUp(begun[p])
  BY StartIs DEF Inv
<1>2. Phase(p) /\ Partition(p)
  BY DEF Inv, LocalInv
<1>3. ~posted[p]
  BY <1>1, <1>2 DEF Phase, ToOwners, ToDonees
<1>4. /\ adp[p].offset = Offset(p) /\ adp[p].owned = owned_dofs[p]
      /\ adp[p].owner = owner_neighbours[p] /\ adp[p].donee = donee_neighbours[p]
  BY <1>1, <1>2 DEF Partition
<1> QED
  BY <1>1, <1>3, <1>4, Zenon

LEMMA WaitsKnow ==
  ASSUME Inv, Whole, NEW p \in Rank, Numbered(p) \/ PostReceives(p)
  PROVE  Whole'
<1>1. /\ begun'[p] = begun[p] /\ adp'[p] = adp[p] /\ matrix'[p] = matrix[p] /\ given'[p] = given[p]
      /\ at[p] \in {"numbers", "dims", "rows"} /\ at'[p] \in {"dims", "rows", "cols"}
  BY ShapesAre DEF Numbered, PostReceives, Goto
<1>2. OthersStay(p) /\ OthersSum(p)
  BY RoundsAreOwn
<1>3. Met(p)' /\ Learnt(p)' /\ Rows(p)' /\ Sums(p)' /\ Passed(p)'
  BY <1>1, <1>2, MetKeeps, LearntKeeps, RowsKeep, NoSums, PassedSame DEF Structural
<1> QED
  BY <1>1, <1>2, <1>3, WholeStep DEF Known

LEMMA DownloadedKnows ==
  ASSUME Inv, Whole, NEW p \in Rank, Downloaded(p)
  PROVE  Whole'
<1>1. /\ begun'[p] = begun[p] /\ adp'[p] = adp[p] /\ matrix'[p] = matrix[p] /\ given'[p] = given[p]
      /\ at[p] = "shared" /\ at'[p] = "none"
  BY ShapesAre DEF Downloaded, Goto
<1>2. OthersStay(p) /\ OthersSum(p)
  BY RoundsAreOwn
<1>3. Met(p)' /\ Learnt(p)' /\ Rows(p)' /\ Sums(p)' /\ Passed(p)'
  BY <1>1, <1>2, MetKeeps, LearntKeeps, RowsKeep, NoSums, PassedSame DEF Structural
<1> QED
  BY <1>1, <1>2, <1>3, WholeStep DEF Known

LEMMA ApplyKnows ==
  ASSUME Inv, Whole, NEW p \in Rank, Apply(p)
  PROVE  Whole'
<1>1. /\ begun'[p] = begun[p] + 1 /\ adp'[p] = adp[p] /\ matrix'[p] = matrix[p]
      /\ given'[p] = given[p] /\ MayStart(p, "apply") /\ at'[p] = "shared"
      /\ posted'[p] = posted[p] /\ recvs'[p] = 1 .. Len(adp[p].owner)
  BY ShapesAre DEF Apply, Begin, Expect
<1>2. OthersStay(p) /\ OthersSum(p)
  BY RoundsAreOwn
<1>3. at[p] = "none" /\ SetUp(begun[p]) /\ adp[p].owner = owner_neighbours[p] /\ ~posted[p]
  BY <1>1, IdleIs
<1>4. Sums(p)'
  <2>1. recvs'[p] = DOMAIN owner_neighbours[p]
    BY <1>1, <1>3, OwnersListed DEF ListsRanks
  <2>2. \A dir \in Dir : "shared" \in Rounds(dir) => Sources(dir, p) = owner_neighbours[p]
    BY RoundsAre DEF Dir, Sources
  <2> QED
    BY <1>1, <1>3, <2>1, <2>2 DEF Sums
<1>5. Met(p)' /\ Learnt(p)' /\ Rows(p)' /\ Passed(p)'
  BY <1>1, <1>2, <1>3, MetKeeps, LearntKeeps, RowsKeep, PassedSame DEF Structural
<1> QED
  BY <1>1, <1>2, <1>4, <1>5, WholeStep DEF Known

LEMMA InitNumericKnows ==
  ASSUME Inv, Whole, NEW p \in Rank, InitNumeric(p)
  PROVE  Whole'
<1>1. /\ begun'[p] = begun[p] + 1 /\ adp'[p] = adp[p]
      /\ matrix'[p] = [e \in DOMAIN matrix[p] |-> EmptyBag]
      /\ given'[p] = given[p] /\ MayStart(p, "init_numeric") /\ at'[p] = "values"
      /\ posted'[p] = posted[p] /\ recvs'[p] = 1 .. Len(adp[p].donee)
  BY ShapesAre DEF InitNumeric, Begin, Expect
<1>2. OthersStay(p) /\ OthersSum(p)
  BY RoundsAreOwn
<1>3. at[p] = "none" /\ SetUp(begun[p]) /\ adp[p].donee = donee_neighbours[p] /\ ~posted[p]
  BY <1>1, IdleIs
<1>4. DOMAIN matrix[p] = Keys(p)
  BY <1>3 DEF Whole, Known, Rows, Structural
<1>5. Sums(p)'
  <2>1. recvs'[p] = DOMAIN donee_neighbours[p]
    BY <1>1, <1>3, DoneesListed DEF ListsRanks
  <2>2. \A dir \in Dir : "values" \in Rounds(dir) => Sources(dir, p) = donee_neighbours[p]
    BY RoundsAre DEF Dir, Sources
  <2>3. \A e \in Keys(p) : matrix'[p][e] = EmptyBag
    BY <1>1, <1>4
  <2> QED
    BY <1>1, <1>3, <2>1, <2>2, <2>3 DEF Sums
<1>6. Rows(p)'
  BY <1>1, <1>4 DEF Rows
<1>7. Met(p)' /\ Learnt(p)' /\ Passed(p)'
  BY <1>1, <1>2, <1>3, MetKeeps, LearntKeeps, PassedSame
<1> QED
  BY <1>1, <1>2, <1>5, <1>6, <1>7, WholeStep DEF Known

LEMMA AssembledKnows ==
  ASSUME Inv, Whole, NEW p \in Rank, Assembled(p)
  PROVE  Whole'
<1>1. /\ begun'[p] = begun[p] /\ adp'[p] = adp[p] /\ given'[p] = given[p]
      /\ matrix'[p] = FilterMatrix(p, matrix[p])
      /\ at[p] = "values" /\ at'[p] = "none"
  BY ShapesAre DEF Assembled, Goto
<1>2. OthersStay(p) /\ OthersSum(p)
  BY RoundsAreOwn
<1>3. SetUp(begun[p])
  BY <1>1, CallIs DEF Inv, LocalInv
<1>4. Rows(p)'
  <2>1. DOMAIN matrix[p] = Keys(p)
    BY <1>1, <1>3 DEF Whole, Known, Rows, Structural
  <2> QED
    BY <1>1, <2>1 DEF Rows, FilterMatrix
<1>5. Met(p)' /\ Learnt(p)' /\ Sums(p)' /\ Passed(p)'
  BY <1>1, <1>2, MetKeeps, LearntKeeps, NoSums, PassedSame
<1> QED
  BY <1>1, <1>2, <1>4, <1>5, WholeStep DEF Known

LEMMA DoneSymbolicKnows ==
  ASSUME Inv, Whole, NEW p \in Rank, DoneSymbolic(p)
  PROVE  Whole'
<1>1. /\ begun'[p] = begun[p] + 1 /\ given'[p] = given[p] /\ MayStart(p, "done_symbolic")
      /\ at'[p] = "none"
  BY ShapesAre DEF DoneSymbolic, Begin
<1>2. OthersStay(p) /\ OthersSum(p)
  BY RoundsAreOwn
<1>3. ~SetUp(begun'[p])
  <2>1. ~SetUp(begun[p] + 1)
    BY <1>1, StartIs DEF Inv
  <2> QED
    BY <1>1, <2>1, Zenon
<1>4. Met(p)' /\ Learnt(p)' /\ Rows(p)' /\ Sums(p)' /\ Passed(p)'
  BY <1>1, <1>2, <1>3, MetKeeps, NoSums, PassedSame DEF Learnt, Rows
<1> QED
  BY <1>1, <1>2, <1>4, WholeStep DEF Known

LEMMA GatherKnows ==
  ASSUME Inv, Whole, NEW p \in Rank, Gather(p)
  PROVE  Whole'
<1>1. /\ begun'[p] = begun[p] /\ adp'[p] = adp[p] /\ matrix'[p] = matrix[p] /\ given'[p] = given[p]
      /\ at[p] = "full" /\ at'[p] = "none"
  BY ShapesAre DEF Gather, Goto
<1>2. OthersStay(p) /\ OthersSum(p)
  BY CallsAreOwn
<1>3. Met(p)' /\ Learnt(p)' /\ Rows(p)' /\ Sums(p)' /\ Passed(p)'
  BY <1>1, <1>2, MetKeeps, LearntKeeps, RowsKeep, NoSums, PassedSame DEF Structural
<1> QED
  BY <1>1, <1>2, <1>3, WholeStep DEF Known

\* Collectives of allgather().
LEMMA AllGatherKnows ==
  ASSUME Inv, Inv', Whole, NEW p \in Rank, AllGather(p)
  PROVE  Whole'
<1>1. /\ begun'[p] = begun[p] + 1 /\ adp'[p] = adp[p] /\ matrix'[p] = matrix[p]
      /\ given'[p] = Append(given[p], adp[p].offset)
      /\ MayStart(p, "allgather") /\ at'[p] = "offsets"
  BY ShapesAre DEF AllGather, Begin, Call
<1>2. OthersStay(p) /\ OthersSum(p)
  BY CallsAreOwn
<1>3. /\ at[p] = "none" /\ SetUp(begun[p]) /\ adp[p].offset = Offset(p)
      /\ begun[p] + 1 \in 1 .. Len(Program) /\ Program[begun[p] + 1] = "allgather"
  BY <1>1, IdleIs
<1>4. Passed(p)'
  <2>1. PICK u \in 1 .. Len(Program) : u = begun[p] + 1
    BY <1>3
  <2>2. Program[u] = "allgather" /\ Shares[u] = 3
    BY <1>3, <2>1, SharesIs
  <2>3. /\ Given(u, "offsets") = SumBefore(Shares, u) + 1 /\ 1 \in 1 .. Shares[u]
        /\ ShareOf(p, 1) = Offset(p)
    BY <2>2 DEF Given, ShareOf
  <2>4. begun'[p] = u
    BY <1>1, <2>1
  <2> QED
    BY <1>1, <1>3, <2>2, <2>3, <2>4, PassedMore
<1>5. Met(p)' /\ Learnt(p)' /\ Rows(p)' /\ Sums(p)'
  BY <1>1, <1>2, <1>3, MetKeeps, LearntKeeps, RowsKeep, NoSums DEF Structural
<1> QED
  BY <1>1, <1>2, <1>4, <1>5, WholeStep DEF Known

\* What all have passed, when p has passed the n-th share of its call.
LEMMA GatheredIs ==
  ASSUME Inv, Whole, NEW p \in Rank, Arrived(p, Rank), Program[begun[p]] = "allgather",
         begun[p] \in 1 .. Len(Program), NEW n \in 1 .. 3,
         Given(begun[p], at[p]) = SumBefore(Shares, begun[p]) + n
  PROVE  Gathered(p) = [q \in Rank |-> ShareOf(q, n)]
<1>1. PICK k, t : t = begun[p] /\ k = SumBefore(Shares, t) + n
  OBVIOUS
<1>2. k = Len(given[p])
  BY <1>1 DEF Inv, LocalInv, Collective
<1>3. \A q \in Rank : given[q][k] = ShareOf(q, n)
  <2> TAKE q \in Rank
  <2>1. Len(given[q]) >= k
    BY <1>2 DEF Arrived
  <2>2. Len(given[q]) \in Nat /\ k \in Nat
    BY <1>2, SeqLength DEF Inv, LocalInv, Collective
  <2>3. k <= Len(given[q])
    BY <2>1, <2>2
  <2> QED
    BY <1>1, <2>3 DEF Whole, Known, Passed
<1> QED
  BY <1>2, <1>3 DEF Gathered

\* In allgather(), what belongs to the place of p.
LEMMA GatherPlace ==
  ASSUME Inv, NEW p \in Rank, at[p] \in {"offsets", "counts", "full"}
  PROVE  /\ begun[p] \in 1 .. Len(Program) /\ Program[begun[p]] = "allgather" /\ SetUp(begun[p])
         /\ Shares[begun[p]] = 3
         /\ Given(begun[p], "offsets") = SumBefore(Shares, begun[p]) + 1
         /\ Given(begun[p], "counts") = SumBefore(Shares, begun[p]) + 2
         /\ Given(begun[p], "full") = SumBefore(Shares, begun[p]) + 3
         /\ adp[p].offset = Offset(p) /\ adp[p].owned = owned_dofs[p]
         /\ DOMAIN adp[p] = DOMAIN EmptyParti
<1>1. begun[p] \in 1 .. Len(Program) /\ Program[begun[p]] = "allgather" /\ SetUp(begun[p])
  BY CallIs DEF CallOf, Inv, LocalInv
<1>2. Shares[begun[p]] = 3 /\ SumBefore(Shares, begun[p] + 1) = SumBefore(Shares, begun[p]) + 3
  BY <1>1, SharesIs
<1>3. Partition(p)
  BY DEF Inv, LocalInv
<1>4. /\ adp[p].offset = Offset(p) /\ adp[p].owned = owned_dofs[p]
      /\ adp[p] = [x \in DOMAIN EmptyParti |-> adp[p][x]]
  BY <1>1, <1>3 DEF Partition
<1>5. /\ Given(begun[p], "offsets") = SumBefore(Shares, begun[p]) + 1
      /\ Given(begun[p], "counts") = SumBefore(Shares, begun[p]) + 2
      /\ Given(begun[p], "full") = SumBefore(Shares, begun[p]) + 3
  BY <1>2 DEF Given
<1>6. DOMAIN adp[p] = DOMAIN EmptyParti
  BY <1>4
<1> QED
  BY <1>1, <1>2, <1>4, <1>5, <1>6

LEMMA LearnOffsetsKnows ==
  ASSUME Inv, Inv', Whole, NEW p \in Rank, LearnOffsets(p)
  PROVE  Whole'
<1>1. /\ begun'[p] = begun[p] /\ matrix'[p] = matrix[p]
      /\ adp'[p] = [adp[p] EXCEPT !.offsets = Gathered(p)]
      /\ given'[p] = Append(given[p], Len(adp[p].owned))
      /\ at[p] = "offsets" /\ at'[p] = "counts" /\ Arrived(p, Rank)
  BY ShapesAre DEF LearnOffsets, Goto, Call
<1>2. OthersStay(p) /\ OthersSum(p)
  BY CallsAreOwn
<1>3. PICK u \in 1 .. Len(Program) : u = begun[p]
  BY <1>1, GatherPlace
<1>4. /\ Program[u] = "allgather" /\ SetUp(u) /\ Shares[u] = 3
      /\ Given(u, "offsets") = SumBefore(Shares, u) + 1
      /\ Given(u, "counts") = SumBefore(Shares, u) + 2
      /\ adp[p].owned = owned_dofs[p]
      /\ DOMAIN adp[p] = DOMAIN EmptyParti
  BY <1>1, <1>3, GatherPlace
<1>5. Passed(p)'
  <2>1. ShareOf(p, 2) = Len(owned_dofs[p]) /\ 2 \in 1 .. Shares[u]
    BY <1>4 DEF ShareOf
  <2>2. Given(begun'[p], at'[p]) = SumBefore(Shares, u) + 2
    BY <1>1, <1>3, <1>4
  <2>3. Len(adp[p].owned) = ShareOf(p, 2)
    BY <1>4, <2>1
  <2> QED
    BY <1>1, <2>1, <2>2, <2>3, PassedMore
<1>6. Gathered(p) = [q \in Rank |-> Offset(q)]
  <2>1. 1 \in 1 .. 3 /\ Gathered(p) = [q \in Rank |-> ShareOf(q, 1)]
    BY <1>1, <1>3, <1>4, GatheredIs
  <2>2. \A q : ShareOf(q, 1) = Offset(q)
    BY DEF ShareOf
  <2> QED
    BY <2>1, <2>2
<1>7. Learnt(p)'
  <2>1. adp[p].total = Total /\ adp[p].number = [d \in Holds(p) |-> adp[p].number[d]]
    BY <1>1, <1>3, <1>4 DEF Whole, Known, Learnt
  <2>2. /\ adp'[p].total = adp[p].total /\ adp'[p].number = adp[p].number
        /\ adp'[p].offsets = Gathered(p)
    BY <1>1, <1>4, EmptyIs
  <2> QED
    BY <1>1, <1>6, <2>1, <2>2 DEF Learnt
<1>8. Met(p)' /\ Rows(p)' /\ Sums(p)'
  BY <1>1, <1>2, <1>3, <1>4, MetKeeps, RowsKeep, NoSums DEF Structural
<1> QED
  BY <1>1, <1>2, <1>5, <1>7, <1>8, WholeStep DEF Known

LEMMA LearnCountsKnows ==
  ASSUME Inv, Inv', Whole, NEW p \in Rank, LearnCounts(p)
  PROVE  Whole'
<1>1. /\ begun'[p] = begun[p] /\ matrix'[p] = matrix[p]
      /\ adp'[p] = [adp[p] EXCEPT !.counts = Gathered(p)]
      /\ given'[p] = Append(given[p], Uploaded(p))
      /\ at[p] = "counts" /\ at'[p] = "full" /\ Arrived(p, Rank)
  BY ShapesAre DEF LearnCounts, Goto, Call
<1>2. OthersStay(p) /\ OthersSum(p)
  BY CallsAreOwn
<1>3. PICK u \in 1 .. Len(Program) : u = begun[p]
  BY <1>1, GatherPlace
<1>4. /\ Program[u] = "allgather" /\ SetUp(u) /\ Shares[u] = 3
      /\ Given(u, "counts") = SumBefore(Shares, u) + 2
      /\ Given(u, "full") = SumBefore(Shares, u) + 3
      /\ adp[p].owned = owned_dofs[p]
      /\ DOMAIN adp[p] = DOMAIN EmptyParti
  BY <1>1, <1>3, GatherPlace
<1>5. Passed(p)'
  <2>1. ShareOf(p, 3) = Uploaded(p) /\ 3 \in 1 .. Shares[u]
    BY <1>4 DEF ShareOf, UploadOf, Uploaded
  <2>2. Given(begun'[p], at'[p]) = SumBefore(Shares, u) + 3
    BY <1>1, <1>3, <1>4
  <2> QED
    BY <1>1, <2>1, <2>2, PassedMore
<1>6. Gathered(p) = [q \in Rank |-> Len(owned_dofs[q])]
  <2>1. 2 \in 1 .. 3 /\ Gathered(p) = [q \in Rank |-> ShareOf(q, 2)]
    BY <1>1, <1>3, <1>4, GatheredIs
  <2>2. \A q : ShareOf(q, 2) = Len(owned_dofs[q])
    BY DEF ShareOf
  <2> QED
    BY <2>1, <2>2
<1>7. Learnt(p)'
  <2>1. /\ adp[p].total = Total /\ adp[p].number = [d \in Holds(p) |-> adp[p].number[d]]
        /\ adp[p].offsets = [q \in Rank |-> Offset(q)]
    BY <1>1, <1>3, <1>4 DEF Whole, Known, Learnt
  <2>2. /\ adp'[p].total = adp[p].total /\ adp'[p].number = adp[p].number
        /\ adp'[p].offsets = adp[p].offsets /\ adp'[p].counts = Gathered(p)
    BY <1>1, <1>4, EmptyIs
  <2> QED
    BY <1>1, <1>6, <2>1, <2>2 DEF Learnt
<1>8. Met(p)' /\ Rows(p)' /\ Sums(p)'
  BY <1>1, <1>2, <1>3, <1>4, MetKeeps, RowsKeep, NoSums DEF Structural
<1> QED
  BY <1>1, <1>2, <1>5, <1>7, <1>8, WholeStep DEF Known

----------------------------------------------------------------------------
(* Rows, and the sums in them.                                             *)

\* What a process without missing numbers knows.
LEMMA NumbersAre ==
  ASSUME Inv, NEW p \in Rank, SetUp(begun[p]), at[p] \notin {"exscan", "allreduce", "numbers"}
  PROVE  /\ adp[p].offset = Offset(p) /\ adp[p].owned = owned_dofs[p]
         /\ adp[p].owner = owner_neighbours[p] /\ adp[p].donee = donee_neighbours[p]
         /\ DOMAIN adp[p].number = Holds(p) /\ \A d \in Holds(p) : adp[p].number[d] = Global(d)
<1>1. Partition(p)
  BY DEF Inv, LocalInv
<1>2. /\ adp[p].offset = Offset(p) /\ adp[p].owned = owned_dofs[p]
      /\ adp[p].owner = owner_neighbours[p] /\ adp[p].donee = donee_neighbours[p]
      /\ Numbers(p)
  BY <1>1 DEF Partition
<1>3. DOMAIN adp[p].number = Holds(p) /\ \A d \in Holds(p) : adp[p].number[d] = Global(d)
  BY <1>2 DEF Numbers, Awaits
<1> QED
  BY <1>2, <1>3, Zenon

\* An entry of q in a row of p: where p finds it.
LEMMA EntryOfDonee ==
  ASSUME NEW p \in Rank, NEW q \in Rank \ {p}, NEW f \in Pattern[q], f \in Entries(p)
  PROVE  /\ Serves(p, q)
         /\ \E k \in DOMAIN Served(p, q) : /\ Served(p, q)[k] = f[1]
                                          /\ Indices(p, q)[k] = own_dof_idx[p][f[1]]
         /\ Global(f[2]) \in Columns(q, f[1])
<1>1. f[1] \in Holds(q) /\ LowestHolder[f[1]] = p
  BY EntryIs, EntriesAre
<1>2. Serves(p, q)
  BY <1>1 DEF Serves
<1>3. f[1] \in ToSet(Served(p, q))
  BY <1>1, <1>2, ServesIs
<1>4. PICK k \in DOMAIN Served(p, q) : Served(p, q)[k] = f[1]
  BY <1>3 DEF ToSet
<1>5. Indices(p, q)[k] = own_dof_idx[p][f[1]]
  BY <1>4 DEF Indices
<1> QED
  BY <1>2, <1>4, <1>5 DEF Columns

\* And the other way: what donees have in the rows of their mirrors is of p.
LEMMA DoneeHasEntry ==
  ASSUME NEW p \in Rank, NEW q \in Rank, Serves(p, q), NEW k \in DOMAIN Served(p, q),
         NEW g \in Columns(q, Served(p, q)[k])
  PROVE  \E f \in Pattern[q] : /\ f \in Entries(p) /\ f[1] = Served(p, q)[k] /\ Global(f[2]) = g
                              /\ Key(f) = <<Indices(p, q)[k], g>>
<1>1. PICK f \in Pattern[q] : f[1] = Served(p, q)[k] /\ Global(f[2]) = g
  BY DEF Columns
<1>2. Served(p, q)[k] \in {d \in Holds(q) : LowestHolder[d] = p}
  BY ServesIs DEF ToSet
<1>3. f \in Entries(p)
  BY <1>1, <1>2 DEF Entries
<1>4. Indices(p, q)[k] = own_dof_idx[p][f[1]]
  BY <1>1 DEF Indices
<1> QED
  BY <1>1, <1>2, <1>3, <1>4 DEF Key

LEMMA StructureIs ==
  ASSUME Inv, NEW p \in Rank, at[p] = "cols", recvs[p] = {}
  PROVE  Structure(p) = Keys(p)
<1> DEFINE donees == donee_neighbours[p]
<1>1. SetUp(begun[p])
  BY CallIs DEF Inv, LocalInv
<1>2. /\ adp[p].owned = owned_dofs[p] /\ adp[p].donee = donees
      /\ \A d \in Holds(p) : adp[p].number[d] = Global(d)
  BY <1>1, NumbersAre
<1>3. \A i \in DOMAIN donees : /\ donees[i].rank \in Rank /\ Serves(p, donees[i].rank)
                               /\ donees[i].idx = Indices(p, donees[i].rank)
                               /\ bufs[p][i].cols = ColsOf(p, donees[i].rank)
  <2> TAKE i \in DOMAIN donees
  <2>1. donees[i].rank \in DoneesOf(p) /\ donees[i].idx = Indices(p, donees[i].rank)
    BY DoneesListed DEF ListsRanks
  <2>2. Buffer(p)
    BY DEF Inv, LocalInv
  <2>3. ColsKnown(p, i) => bufs[p][i].cols = ColsOf(p, donees[i].rank)
    BY <1>1, <2>2 DEF Buffer
  <2> QED
    BY <2>1, <2>3 DEF ColsKnown, DoneesOf
<1> DEFINE own == {s \in (0 .. Len(adp[p].owned) - 1) \X Pattern[p] :
                     s[2][1] = adp[p].owned[s[1] + 1]}
           mine == {<<s[1], adp[p].number[s[2][2]]>> : s \in own}
           of(i) == UNION {{donees[i].idx[k]} \X bufs[p][i].cols[k] : k \in DOMAIN donees[i].idx}
           theirs == UNION {of(i) : i \in DOMAIN donees}
<1>4. Structure(p) = mine \cup theirs
  BY <1>2 DEF Structure
<1> HIDE DEF donees
<1>5. ASSUME NEW e \in mine PROVE e \in Keys(p)
  <2>1. PICK s \in own : e = <<s[1], adp[p].number[s[2][2]]>>
    OBVIOUS
  <2>2. PICK j, f : j = s[1] /\ f = s[2]
    OBVIOUS
  <2>3. j \in 0 .. Len(owned_dofs[p]) - 1 /\ f \in Pattern[p] /\ f[1] = owned_dofs[p][j + 1]
    BY <1>2, <2>2
  <2>4. own_dof_idx[p][f[1]] = j /\ LowestHolder[f[1]] = p
    BY <2>3, OwnedNumber
  <2>5. f \in Entries(p)
    BY <2>3, <2>4 DEF Entries
  <2>6. adp[p].number[f[2]] = Global(f[2])
    BY <1>2, <2>3, EntryIs
  <2>7. e = Key(f)
    BY <2>1, <2>2, <2>4, <2>6 DEF Key
  <2> QED
    BY <2>5, <2>7 DEF Keys
<1>6. ASSUME NEW e \in theirs PROVE e \in Keys(p)
  <2>1. PICK i \in DOMAIN donees : e \in of(i)
    OBVIOUS
  <2>2. PICK k \in DOMAIN donees[i].idx : e \in {donees[i].idx[k]} \X bufs[p][i].cols[k]
    BY <2>1
  <2>3. PICK q : q = donees[i].rank
    OBVIOUS
  <2>4. /\ q \in Rank /\ Serves(p, q) /\ donees[i].idx = Indices(p, q)
        /\ bufs[p][i].cols = ColsOf(p, q)
    BY <1>3, <2>3
  <2>5. k \in DOMAIN Served(p, q)
    BY <2>2, <2>4 DEF Indices
  <2>6. bufs[p][i].cols[k] = Columns(q, Served(p, q)[k])
    BY <2>4, <2>5 DEF ColsOf
  <2>7. PICK g \in Columns(q, Served(p, q)[k]) : e = <<Indices(p, q)[k], g>>
    BY <2>2, <2>4, <2>6
  <2>8. PICK f \in Pattern[q] : f \in Entries(p) /\ Key(f) = <<Indices(p, q)[k], g>>
    BY <2>4, <2>5, DoneeHasEntry
  <2> QED
    BY <2>7, <2>8 DEF Keys
<1>7. ASSUME NEW f \in Entries(p) PROVE Key(f) \in mine \cup theirs
  <2>1. PICK q \in Rank : f \in Pattern[q]
    BY DEF Entries
  <2>2. f[1] \in Own(p) /\ LowestHolder[f[1]] = p
    BY EntriesAre
  <2>3. PICK j : j = own_dof_idx[p][f[1]]
    OBVIOUS
  <2>4. Key(f) = <<j, Global(f[2])>>
    BY <2>2, <2>3 DEF Key
  <2>5. CASE q = p
    <3>1. j \in 0 .. Len(owned_dofs[p]) - 1 /\ owned_dofs[p][j + 1] = f[1]
      BY <2>2, <2>3, OwnIndexIs
    <3>2. adp[p].number[f[2]] = Global(f[2])
      BY <1>2, <2>1, <2>5, EntryIs
    <3>3. <<j, f>> \in own
      BY <1>2, <2>1, <2>5, <3>1
    <3>4. <<j, adp[p].number[f[2]]>> \in mine
      BY <3>3
    <3> QED
      BY <2>4, <3>2, <3>4
  <2>6. CASE q # p
    <3>1. Serves(p, q) /\ Global(f[2]) \in Columns(q, f[1])
      BY <2>1, <2>6, EntryOfDonee
    <3>2. PICK k \in DOMAIN Served(p, q) : Served(p, q)[k] = f[1] /\ Indices(p, q)[k] = j
      BY <2>1, <2>3, <2>6, EntryOfDonee
    <3>3. q \in DoneesOf(p)
      BY <3>1 DEF DoneesOf
    <3>4. PICK i \in DOMAIN donees : donees[i].rank = q
      BY <3>3, DoneesListed DEF ListsRanks, donees
    <3>5. donees[i].idx = Indices(p, q) /\ bufs[p][i].cols = ColsOf(p, q)
      BY <1>3, <3>4
    <3>6. k \in DOMAIN donees[i].idx /\ donees[i].idx[k] = j
      BY <3>2, <3>5 DEF Indices
    <3>7. bufs[p][i].cols[k] = Columns(q, f[1])
      BY <3>2, <3>5 DEF ColsOf
    <3>8. <<j, Global(f[2])>> \in of(i)
      BY <3>1, <3>6, <3>7
    <3> QED
      BY <2>4, <3>4, <3>8
  <2> QED
    BY <2>5, <2>6
<1> HIDE DEF mine, theirs
<1>8. Keys(p) \subseteq mine \cup theirs
  BY <1>7 DEF Keys
<1> QED
  BY <1>4, <1>5, <1>6, <1>8

LEMMA StructuredKnows ==
  ASSUME Inv, Whole, NEW p \in Rank, Structured(p)
  PROVE  Whole'
<1>1. /\ begun'[p] = begun[p] /\ adp'[p] = adp[p] /\ given'[p] = given[p]
      /\ matrix'[p] = [e \in Structure(p) |-> EmptyBag]
      /\ at[p] = "cols" /\ at'[p] = "none" /\ recvs[p] = {}
  BY ShapesAre DEF Structured, Goto, AllReceived
<1>2. OthersStay(p) /\ OthersSum(p)
  BY RoundsAreOwn
<1>3. SetUp(begun[p])
  BY <1>1, CallIs DEF Inv, LocalInv
<1>4. Rows(p)'
  BY <1>1, StructureIs DEF Rows
<1>5. Met(p)' /\ Learnt(p)' /\ Sums(p)' /\ Passed(p)'
  BY <1>1, <1>2, <1>3, MetKeeps, LearntKeeps, NoSums, PassedSame
<1> QED
  BY <1>1, <1>2, <1>4, <1>5, WholeStep DEF Known

\* A process hears of one more with each message.
LEMMA HeardMore ==
  ASSUME NEW dir \in Dir, NEW p \in Rank, NEW i \in recvs[p], i \in DOMAIN Sources(dir, p),
         recvs'[p] = recvs[p] \ {i}, NEW q, q = Sources(dir, p)[i].rank
  PROVE  Heard(dir, p)' = Heard(dir, p) \cup {q} /\ q \notin Heard(dir, p)
<1>1. PICK s : s = Sources(dir, p)
  OBVIOUS
<1>2. \A j, k \in DOMAIN s : s[j].rank = s[k].rank => j = k
  BY <1>1, SourcesListed DEF ListsRanks
<1>3. q # p
  <2>1. Link(dir, q, p) /\ q \in Rank
    BY SourceIs
  <2> QED
    BY <2>1, LinkIsOneWay
<1>4. /\ Heard(dir, p) = {p} \cup {s[j].rank : j \in DOMAIN s \ recvs[p]}
      /\ Heard(dir, p)' = {p} \cup {s[j].rank : j \in DOMAIN s \ recvs'[p]}
  BY <1>1 DEF Heard
<1>5. DOMAIN s \ recvs'[p] = (DOMAIN s \ recvs[p]) \cup {i}
  BY <1>1
<1>6. q = s[i].rank /\ i \in DOMAIN s /\ i \notin DOMAIN s \ recvs[p]
  BY <1>1
<1> QED
  BY <1>2, <1>3, <1>4, <1>5, <1>6

\* _upload_own(): what it leaves alone is zero, since the matrix has been formatted.
LEMMA OwnUploadedIs ==
  ASSUME Inv, Whole, NEW p \in Rank, at[p] = "values", ~posted[p]
  PROVE  IsMatrix(OwnUploaded(p), p, {p})
<1>1. SetUp(begun[p])
  BY CallIs DEF Inv, LocalInv
<1>2. DOMAIN matrix[p] = Keys(p)
  BY <1>1 DEF Whole, Known, Rows, Structural
<1>3. adp[p].owned = owned_dofs[p] /\ \A d \in Holds(p) : adp[p].number[d] = Global(d)
  BY <1>1, NumbersAre
<1>4. \A d, g : LocalValue(p, d, g) = LocalOf(p, d, g)
  <2> TAKE d, g
  <2>1. \A f \in Pattern[p] : adp[p].number[f[2]] = Global(f[2])
    BY <1>3, EntryIs
  <2> QED
    BY <2>1 DEF LocalValue, LocalOf
<1> DEFINE m == OwnUploaded(p)
<1>5. m = [e \in Keys(p) |-> LocalValue(p, adp[p].owned[e[1] + 1], e[2])]
  <2> DEFINE d(e) == adp[p].owned[e[1] + 1]
             own(e) == {f \in Pattern[p] : f[1] = d(e) /\ adp[p].number[f[2]] = e[2]}
  <2>1. ASSUME NEW e \in Keys(p), e \notin MyData(p)
        PROVE  matrix[p][e] = LocalValue(p, d(e), e[2])
    <3>1. own(e) = {}
      BY <1>2, <2>1 DEF MyData
    <3>2. {<<p, f[1], f[2]>> : f \in own(e)} = {}
      BY <3>1
    <3>3. LocalValue(p, d(e), e[2]) = EmptyBag
      BY <3>2 DEF LocalValue, EmptyBag, SetToBag
    <3>4. matrix[p][e] = EmptyBag
      BY <2>1 DEF Whole, Known, Sums
    <3> QED
      BY <3>3, <3>4
  <2>2. m = [e \in Keys(p) |-> IF e \in MyData(p) THEN LocalValue(p, d(e), e[2]) ELSE matrix[p][e]]
    BY <1>2 DEF OwnUploaded
  <2> HIDE DEF m, d
  <2>3. \A e \in Keys(p) : (IF e \in MyData(p) THEN LocalValue(p, d(e), e[2]) ELSE matrix[p][e])
                               = LocalValue(p, d(e), e[2])
    BY <2>1
  <2>4. m = [e \in Keys(p) |-> LocalValue(p, d(e), e[2])]
    BY <2>2, <2>3
  <2> QED
    BY <2>4 DEF d
<1> HIDE DEF m
<1>6. m = [e \in Keys(p) |-> m[e]]
  BY <1>5
<1>7. ASSUME NEW f \in Entries(p) PROVE m[Key(f)] = Summed({p}, f)
  <2>1. f[1] \in Own(p) /\ LowestHolder[f[1]] = p
    BY EntriesAre
  <2>2. PICK e : e = Key(f)
    OBVIOUS
  <2>3. e[1] = own_dof_idx[p][f[1]] /\ e[2] = Global(f[2]) /\ e \in Keys(p)
    BY <2>1, <2>2 DEF Key, Keys
  <2>4. owned_dofs[p][e[1] + 1] = f[1]
    BY <2>1, <2>3, OwnIndexIs
  <2>5. m[e] = LocalOf(p, f[1], Global(f[2]))
    BY <1>3, <1>4, <1>5, <2>3, <2>4
  <2> QED
    BY <2>2, <2>5, LocalIs
<1> QED
  BY <1>6, <1>7 DEF IsMatrix, m

LEMMA PostSendsKnows ==
  ASSUME Inv, Whole, NEW p \in Rank, PostSends(p)
  PROVE  Whole'
<1>1. /\ begun'[p] = begun[p] /\ adp'[p] = adp[p] /\ given'[p] = given[p] /\ at'[p] = at[p]
      /\ recvs'[p] = recvs[p] /\ at[p] \in ToDonees \cup ToOwners /\ ~posted[p]
  BY ShapesAre DEF PostSends
<1>2. OthersStay(p) /\ OthersSum(p)
  BY MessagesAreOwn
<1>3. SetUp(begun[p])
  BY <1>1, CallIs DEF Inv, LocalInv, ToDonees, ToOwners
<1>4. Met(p)' /\ Passed(p)'
  BY <1>1, <1>2, MetKeeps, PassedSame
<1>5. Learnt(p)'
  BY <1>1, LearntKeeps DEF ToDonees, ToOwners
<1>6. posted'[p] = TRUE
  BY ShapesAre DEF PostSends
<1>7. /\ at[p] = "values" => matrix'[p] = OwnUploaded(p)
      /\ at[p] # "values" => matrix'[p] = matrix[p]
  BY ShapesAre DEF PostSends
<1>8. CASE at[p] = "values"
  <2>1. recvs[p] = DOMAIN Sources("up", p)
    BY <1>1, <1>8, RoundsAre DEF Whole, Known, Sums, Dir
  <2>2. Heard("up", p)' = {p}
    <3>1. recvs'[p] = DOMAIN Sources("up", p)'
      BY <1>1, <2>1 DEF Sources
    <3> QED
      BY <3>1 DEF Heard
  <2>3. IsMatrix(matrix'[p], p, {p})
    BY <1>1, <1>7, <1>8, OwnUploadedIs
  <2>4. Sums(p)'
    BY <1>1, <1>6, <1>8, <2>2, <2>3 DEF Sums
  <2>5. Rows(p)'
    BY <2>3 DEF IsMatrix, Rows
  <2> QED
    BY <1>1, <1>2, <1>4, <1>5, <2>4, <2>5, WholeStep DEF Known
<1>9. CASE at[p] = "shared"
  <2>1. recvs[p] = DOMAIN Sources("down", p)
    BY <1>1, <1>9, RoundsAre DEF Whole, Known, Sums, Dir
  <2>2. Heard("down", p)' = {p}
    <3>1. recvs'[p] = DOMAIN Sources("down", p)'
      BY <1>1, <2>1 DEF Sources
    <3> QED
      BY <3>1 DEF Heard
  <2>3. vector'[p] = [d \in Holds(p) |->
                        IF dof_owners[p][d] = p THEN Uploaded(p)[own_dof_idx[p][d]] ELSE EmptyBag]
    BY <1>9, ShapesAre DEF PostSends
  <2>4. ASSUME NEW d \in Holds(p), LowestHolder[d] = p
        PROVE  Uploaded(p)[own_dof_idx[p][d]] = TrueValue(d)
    <3>1. /\ own_dof_idx[p][d] \in 0 .. Len(owned_dofs[p]) - 1
          /\ owned_dofs[p][own_dof_idx[p][d] + 1] = d
      BY <2>4, OwnIndexIs DEF Own
    <3>2. adp[p].owned = owned_dofs[p]
      BY <1>3, <1>9, NumbersAre
    <3> QED
      BY <2>4, <3>1, <3>2 DEF Uploaded, TrueValue
  <2>5. IsVector(vector'[p], p, {p})
    <3>1. \A d \in Holds(p) : dof_owners[p][d] = LowestHolder[d]
      BY OwnersAre
    <3>2. \A d \in Holds(p) :
            (IF dof_owners[p][d] = p THEN Uploaded(p)[own_dof_idx[p][d]] ELSE EmptyBag)
              = (IF LowestHolder[d] \in {p} THEN TrueValue(d) ELSE EmptyBag)
      BY <2>4, <3>1
    <3> QED
      BY <2>3, <3>2 DEF IsVector
  <2>6. Sums(p)'
    BY <1>1, <1>6, <1>9, <2>2, <2>5 DEF Sums
  <2>7. Rows(p)'
    BY <1>1, <1>7, <1>9, RowsKeep
  <2> QED
    BY <1>1, <1>2, <1>4, <1>5, <2>6, <2>7, WholeStep DEF Known
<1>10. CASE at[p] \notin {"values", "shared"}
  <2>1. Sums(p)' /\ Rows(p)'
    BY <1>1, <1>7, <1>10, NoSums, RowsKeep
  <2> QED
    BY <1>1, <1>2, <1>4, <1>5, <2>1, WholeStep DEF Known
<1> QED
  BY <1>8, <1>9, <1>10

\* The message that a receive gets, when sums are formed.
LEMMA SumIsOf ==
  ASSUME Inv, NEW p \in Rank, NEW i \in recvs[p], Take(p, i), at[p] \in {"values", "shared"},
         NEW dir \in Dir, at[p] \in Rounds(dir), NEW q, q = Sources(dir, p)[i].rank
  PROVE  /\ i \in DOMAIN Sources(dir, p) /\ q \in Rank /\ Link(dir, q, p)
         /\ posted[p] /\ SetUp(begun[p])
         /\ IsContent(q, p, Head(chan[q][p])) /\ Head(chan[q][p]).round = at[p]
<1>1. ReceivesFrom(p) = Sources(dir, p) /\ SetUp(begun[p])
  BY RoundIs
<1>2. chan[q][p] # <<>> /\ posted[p]
  BY <1>1 DEF Take
<1> QED
  BY <1>1, <1>2, HeadIsRight

LEMMA ValuesAddedIs ==
  ASSUME Inv, NEW p \in Rank, NEW q \in Rank, NEW i \in DOMAIN donee_neighbours[p],
         q = donee_neighbours[p][i].rank, at[p] = "values",
         NEW S, q \notin S, IsMatrix(matrix[p], p, S)
  PROVE  IsMatrix(ValuesAdded(p, i, ValuesOf(p, q)), p, S \cup {q})
<1>1. SetUp(begun[p])
  BY CallIs DEF Inv, LocalInv
<1>2. q \in DoneesOf(p) /\ donee_neighbours[p][i].idx = Indices(p, q)
  BY DoneesListed DEF ListsRanks
<1>3. Serves(p, q) /\ q # p
  BY <1>2 DEF DoneesOf, Serves
<1>4. adp[p].donee = donee_neighbours[p]
  BY <1>1, NumbersAre
<1>5. bufs[p][i].cols = ColsOf(p, q)
  <2>1. Buffer(p)
    BY DEF Inv, LocalInv
  <2>2. ColsKnown(p, i) => bufs[p][i].cols = ColsOf(p, q)
    BY <1>1, <2>1 DEF Buffer
  <2> QED
    BY <2>2 DEF ColsKnown
<1> DEFINE idx == adp[p].donee[i].idx
           cols == bufs[p][i].cols
           up == Served(p, q)
           sent == UNION {{k} \X cols[k] : k \in DOMAIN idx}
           new(e) == {s \in sent : <<idx[s[1]], s[2]>> = e}
           one(e) == CHOOSE s \in new(e) : TRUE
           old == matrix[p]
           values == ValuesOf(p, q)
           m == ValuesAdded(p, i, values)
<1>6. DOMAIN old = Keys(p) /\ \A f \in Entries(p) : old[Key(f)] = Summed(S, f)
  BY DEF IsMatrix
<1>7. m = [e \in DOMAIN old |-> IF new(e) = {} THEN old[e]
                               ELSE old[e] (+) values[one(e)[1]][one(e)[2]]]
  BY DEF ValuesAdded
<1>8. /\ idx = Indices(p, q) /\ DOMAIN idx = DOMAIN up
      /\ \A k \in DOMAIN up : cols[k] = Columns(q, up[k])
  BY <1>2, <1>4, <1>5 DEF Indices, ColsOf
<1>9. \A s : s \in sent <=> \E k \in DOMAIN up : \E g \in Columns(q, up[k]) : s = <<k, g>>
  <2> HIDE DEF idx, cols, up
  <2> QED
    BY <1>8
<1> HIDE DEF idx, cols, up, sent, m, old, values, one
<1>10. m = [e \in Keys(p) |-> m[e]]
  BY <1>6, <1>7
<1>11. ASSUME NEW f \in Entries(p) PROVE m[Key(f)] = Summed(S \cup {q}, f)
  <2>1. f[1] \in Own(p) /\ LowestHolder[f[1]] = p /\ f[2] \in AllDofs
    BY EntriesAre
  <2>2. Key(f) = <<own_dof_idx[p][f[1]], Global(f[2])>> /\ Key(f) \in Keys(p)
    BY <2>1 DEF Key, Keys
  <2>3. ASSUME NEW s \in new(Key(f))
        PROVE  /\ f \in Pattern[q]
               /\ values[s[1]][s[2]] = Summed({q}, f)
    <3>1. PICK k \in DOMAIN up : \E g \in Columns(q, up[k]) : s = <<k, g>>
      BY <1>9
    <3>2. PICK g \in Columns(q, up[k]) : s = <<k, g>>
      BY <3>1
    <3>3. <<idx[k], g>> = Key(f)
      BY <3>2
    <3>4. PICK h \in Pattern[q] : /\ h \in Entries(p) /\ h[1] = up[k] /\ Global(h[2]) = g
                                  /\ Key(h) = <<idx[k], g>>
      BY <1>3, <1>8, <3>2, DoneeHasEntry DEF up
    <3>5. h = f
      BY <3>3, <3>4, KeyIsOnce
    <3>6. up[k] = f[1] /\ g = Global(f[2])
      BY <3>4, <3>5
    <3>7. values[k][g] = LocalOf(q, f[1], Global(f[2]))
      BY <3>2, <3>6 DEF ValuesOf, up, values
    <3>8. s[1] = k /\ s[2] = g
      BY <3>2
    <3> QED
      BY <3>4, <3>5, <3>7, <3>8, LocalIs
  <2>4. CASE f \in Pattern[q]
    <3>1. PICK k \in DOMAIN up : up[k] = f[1] /\ idx[k] = own_dof_idx[p][f[1]]
      BY <1>3, <1>8, <2>4, EntryOfDonee DEF up
    <3>2. Global(f[2]) \in Columns(q, up[k])
      BY <1>3, <2>4, <3>1, EntryOfDonee
    <3>3. <<k, Global(f[2])>> \in sent
      BY <1>9, <3>1, <3>2
    <3>4. <<k, Global(f[2])>> \in new(Key(f))
      BY <2>2, <3>1, <3>3
    <3>5. PICK s \in new(Key(f)) : m[Key(f)] = old[Key(f)] (+) values[s[1]][s[2]]
      <4>1. one(Key(f)) \in new(Key(f)) /\ new(Key(f)) # {}
        BY <3>4 DEF one
      <4>2. m[Key(f)] = old[Key(f)] (+) values[one(Key(f))[1]][one(Key(f))[2]]
        BY <1>6, <1>7, <2>2, <4>1
      <4> QED
        BY <4>1, <4>2
    <3>6. m[Key(f)] = Summed(S, f) (+) Summed({q}, f)
      BY <1>6, <2>3, <3>5 DEF old
    <3> QED
      BY <3>6, SummedMore
  <2>5. CASE f \notin Pattern[q]
    <3>1. new(Key(f)) = {}
      BY <2>3, <2>5
    <3>2. m[Key(f)] = old[Key(f)]
      BY <1>6, <1>7, <2>2, <3>1
    <3>3. Summed(S \cup {q}, f) = Summed(S, f)
      BY <2>5, SummedSame
    <3> QED
      BY <1>6, <3>2, <3>3
  <2> QED
    BY <2>4, <2>5
<1>12. IsMatrix(m, p, S \cup {q})
  BY <1>10, <1>11 DEF IsMatrix
<1> QED
  BY <1>12 DEF m, values

LEMMA EntriesAddedIs ==
  ASSUME Inv, NEW p \in Rank, NEW q \in Rank, NEW i \in DOMAIN owner_neighbours[p],
         q = owner_neighbours[p][i].rank, at[p] = "shared", NEW content,
         content = [k \in DOMAIN Served(q, p) |-> SetToBag({<<q, Served(q, p)[k]>>})],
         NEW S, q \notin S, IsVector(vector[p], p, S)
  PROVE  IsVector(EntriesAdded(p, i, content), p, S \cup {q})
<1>1. SetUp(begun[p])
  BY CallIs DEF Inv, LocalInv
<1>2. q \in OwnersOf(p) /\ owner_neighbours[p][i].idx = Served(q, p)
  BY OwnersListed DEF ListsRanks
<1>3. adp[p].owner = owner_neighbours[p]
  BY <1>1, NumbersAre
<1> DEFINE idx == adp[p].owner[i].idx
           place(d) == CHOOSE k \in DOMAIN idx : idx[k] = d
           v == EntriesAdded(p, i, content)
<1>4. idx = Served(q, p) /\ ToSet(idx) = {d \in Holds(p) : LowestHolder[d] = q}
  BY <1>2, <1>3, ServesIs DEF OwnersOf
<1>5. v = [d \in Holds(p) |-> IF d \in ToSet(idx) THEN vector[p][d] (+) content[place(d)]
                              ELSE vector[p][d]]
  BY DEF EntriesAdded
<1> HIDE DEF idx
<1>6. ASSUME NEW d \in Holds(p)
      PROVE  (IF d \in ToSet(idx) THEN vector[p][d] (+) content[place(d)] ELSE vector[p][d])
               = (IF LowestHolder[d] \in S \cup {q} THEN TrueValue(d) ELSE EmptyBag)
  <2>1. vector[p][d] = IF LowestHolder[d] \in S THEN TrueValue(d) ELSE EmptyBag
    BY DEF IsVector
  <2>2. CASE LowestHolder[d] = q
    <3>1. d \in ToSet(idx)
      BY <1>4, <2>2
    <3>2. place(d) \in DOMAIN idx /\ idx[place(d)] = d
      BY <3>1 DEF ToSet
    <3>3. content[place(d)] = SetToBag({<<q, d>>})
      <4> HIDE DEF place
      <4> QED
        BY <1>4, <3>2
    <3>4. vector[p][d] = EmptyBag
      BY <2>1, <2>2
    <3>5. vector[p][d] (+) content[place(d)] = TrueValue(d)
      BY <2>2, <3>3, <3>4, BagOfNone DEF TrueValue
    <3> QED
      BY <2>2, <3>1, <3>5
  <2>3. CASE LowestHolder[d] # q
    BY <1>4, <2>1, <2>3
  <2> QED
    BY <2>2, <2>3
<1> HIDE DEF place
<1> DEFINE old(d) == IF d \in ToSet(idx) THEN vector[p][d] (+) content[place(d)] ELSE vector[p][d]
           sum(d) == IF LowestHolder[d] \in S \cup {q} THEN TrueValue(d) ELSE EmptyBag
<1>7. v = [d \in Holds(p) |-> old(d)] /\ \A d \in Holds(p) : old(d) = sum(d)
  BY <1>5, <1>6
<1>8. v = [d \in Holds(p) |-> sum(d)]
  <2> HIDE DEF old, sum, v
  <2> QED
    BY <1>7
<1> QED
  BY <1>8 DEF IsVector

LEMMA TakeKnows ==
  ASSUME Inv, Inv', Whole, NEW p \in Rank, NEW i \in recvs[p], Take(p, i)
  PROVE  Whole'
<1> DEFINE q == ReceivesFrom(p)[i].rank
           content == Head(chan[q][p]).content
<1>1. /\ begun'[p] = begun[p] /\ given'[p] = given[p] /\ at'[p] = at[p]
      /\ recvs'[p] = recvs[p] \ {i} /\ posted'[p] = posted[p]
  BY ShapesAre DEF Take
<1>2. OthersStay(p) /\ OthersSum(p)
  BY MessagesAreOwn
<1>3. at[p] \in ToDonees \cup ToOwners
  BY DEF Inv, LocalInv, Phase
<1>4. SetUp(begun[p])
  BY <1>3, CallIs DEF Inv, LocalInv, ToDonees, ToOwners
<1>5. Met(p)' /\ Passed(p)'
  BY <1>1, <1>2, MetKeeps, PassedSame
<1>6. Learnt(p)'
  <2>1. CASE at[p] = "numbers"
    <3> DEFINE x == NumbersSet(p, i, content)
    <3>1. adp' = [adp EXCEPT ![p].number = x]
      BY <2>1 DEF Take
    <3>2. x = [d \in DOMAIN adp[p].number |-> x[d]]
      <4> DEFINE idx == adp[p].owner[i].idx
                 num(d) == IF d \in ToSet(idx) THEN content[CHOOSE k \in DOMAIN idx : idx[k] = d]
                           ELSE adp[p].number[d]
      <4>1. x = [d \in DOMAIN adp[p].number |-> num(d)]
        BY DEF NumbersSet
      <4> HIDE DEF x, num
      <4> QED
        BY <4>1
    <3>3. DOMAIN adp[p].number = Holds(p) /\ DOMAIN adp[p] = DOMAIN EmptyParti
      <4>1. Partition(p)
        BY DEF Inv, LocalInv
      <4>2. Numbers(p) /\ adp[p] = [y \in DOMAIN EmptyParti |-> adp[p][y]]
        BY <1>4, <2>1, <4>1 DEF Partition
      <4> QED
        BY <4>2 DEF Numbers
    <3>4. adp[p].total = Total
      BY <1>4, <2>1 DEF Whole, Known, Learnt
    <3> HIDE DEF x
    <3>5. adp'[p] = [adp[p] EXCEPT !.number = x]
      BY <3>1, ShapesAre
    <3>6. adp'[p].total = adp[p].total /\ adp'[p].number = x
      BY <3>3, <3>5, EmptyIs
    <3> QED
      BY <1>1, <2>1, <3>2, <3>3, <3>4, <3>6 DEF Learnt
  <2>2. CASE at[p] # "numbers"
    <3>1. adp'[p] = adp[p]
      BY <2>2 DEF Take
    <3> QED
      BY <1>1, <1>3, <3>1, LearntKeeps DEF ToDonees, ToOwners
  <2> QED
    BY <2>1, <2>2
<1>7. CASE at[p] = "values"
  <2>1. /\ "up" \in Dir /\ at[p] \in Rounds("up") /\ Sources("up", p) = donee_neighbours[p]
        /\ SetUp(begun[p])
    BY <1>4, <1>7, RoundsAre DEF Dir, Sources
  <2>2. ReceivesFrom(p) = donee_neighbours[p]
    BY <2>1, RoundIs
  <2>3. /\ i \in DOMAIN donee_neighbours[p] /\ q \in Rank /\ posted[p]
        /\ IsContent(q, p, Head(chan[q][p])) /\ Head(chan[q][p]).round = "values"
    BY <1>7, <2>1, <2>2, SumIsOf
  <2>4. content = ValuesOf(p, q)
    BY <2>3 DEF IsContent
  <2>5. Heard("up", p)' = Heard("up", p) \cup {q} /\ q \notin Heard("up", p)
    BY <1>1, <2>1, <2>2, <2>3, HeardMore
  <2>6. IsMatrix(matrix[p], p, Heard("up", p))
    BY <1>7, <2>3 DEF Whole, Known, Sums
  <2>7. matrix'[p] = ValuesAdded(p, i, content)
    BY <1>7, ShapesAre DEF Take
  <2> HIDE DEF content
  <2>8. IsMatrix(matrix'[p], p, Heard("up", p) \cup {q})
    <3>1. PICK S : S = Heard("up", p)
      OBVIOUS
    <3>2. q = donee_neighbours[p][i].rank
      BY <2>2
    <3> HIDE DEF q
    <3>3. IsMatrix(ValuesAdded(p, i, ValuesOf(p, q)), p, S \cup {q})
      BY <1>7, <2>3, <2>5, <2>6, <3>1, <3>2, ValuesAddedIs
    <3> QED
      BY <2>4, <2>7, <3>1, <3>3
  <2>9. Sums(p)'
    <3>1. posted'[p] /\ at'[p] = "values"
      BY <1>1, <1>7, <2>3
    <3>2. IsMatrix(matrix'[p], p, Heard("up", p)')
      BY <2>5, <2>8
    <3> QED
      BY <3>1, <3>2 DEF Sums
  <2>10. Rows(p)'
    BY <2>8 DEF Rows, IsMatrix
  <2> QED
    BY <1>1, <1>2, <1>5, <1>6, <2>9, <2>10, WholeStep DEF Known
<1>8. CASE at[p] = "shared"
  <2>1. /\ "down" \in Dir /\ at[p] \in Rounds("down") /\ Sources("down", p) = owner_neighbours[p]
        /\ SetUp(begun[p])
    BY <1>4, <1>8, RoundsAre DEF Dir, Sources
  <2>2. ReceivesFrom(p) = owner_neighbours[p]
    BY <2>1, RoundIs
  <2>3. /\ i \in DOMAIN owner_neighbours[p] /\ q \in Rank /\ posted[p]
        /\ IsContent(q, p, Head(chan[q][p])) /\ Head(chan[q][p]).round = "shared"
    BY <1>8, <2>1, <2>2, SumIsOf
  <2>4. content = [k \in DOMAIN Served(q, p) |-> SetToBag({<<q, Served(q, p)[k]>>})]
    BY <2>3 DEF IsContent
  <2>5. Heard("down", p)' = Heard("down", p) \cup {q} /\ q \notin Heard("down", p)
    BY <1>1, <2>1, <2>2, <2>3, HeardMore
  <2>6. IsVector(vector[p], p, Heard("down", p))
    BY <1>8, <2>3 DEF Whole, Known, Sums
  <2>7. vector'[p] = EntriesAdded(p, i, content)
    BY <1>8, ShapesAre DEF Take
  <2> HIDE DEF content
  <2>8. IsVector(vector'[p], p, Heard("down", p) \cup {q})
    <3>1. PICK S : S = Heard("down", p)
      OBVIOUS
    <3>2. q = owner_neighbours[p][i].rank
      BY <2>2
    <3> HIDE DEF q
    <3>3. IsVector(EntriesAdded(p, i, content), p, S \cup {q})
      BY <1>8, <2>3, <2>4, <2>5, <2>6, <3>1, <3>2, EntriesAddedIs
    <3> QED
      BY <2>7, <3>1, <3>3
  <2>9. Sums(p)'
    <3>1. posted'[p] /\ at'[p] = "shared"
      BY <1>1, <1>8, <2>3
    <3>2. IsVector(vector'[p], p, Heard("down", p)')
      BY <2>5, <2>8
    <3> QED
      BY <3>1, <3>2 DEF Sums
  <2>10. matrix'[p] = matrix[p]
    BY <1>8 DEF Take
  <2>11. Rows(p)'
    BY <1>1, <2>10, RowsKeep
  <2> QED
    BY <1>1, <1>2, <1>5, <1>6, <2>9, <2>11, WholeStep DEF Known
<1>9. CASE at[p] \notin {"values", "shared"}
  <2>1. matrix'[p] = matrix[p]
    BY <1>9 DEF Take
  <2>2. Sums(p)' /\ Rows(p)'
    BY <1>1, <1>9, <2>1, NoSums, RowsKeep
  <2> QED
    BY <1>1, <1>2, <1>5, <1>6, <2>2, WholeStep DEF Known
<1> QED
  BY <1>7, <1>8, <1>9

LEMMA InitKnows == Init => Whole
<1> SUFFICES ASSUME Init PROVE Whole
  OBVIOUS
<1>1. ASSUME NEW p \in Rank PROVE Known(p)
  <2>1. at[p] = "none" /\ begun[p] = 0 /\ given[p] = <<>>
    BY <1>1 DEF Init
  <2>2. Passed(p)
    <3> SUFFICES ASSUME NEW t \in 1 .. Len(Program), NEW n \in 1 .. 3,
                        SumBefore(Shares, t) + n <= Len(given[p])
                 PROVE  FALSE
      BY DEF Passed
    <3>1. SumBefore(Shares, t) \in Nat /\ Len(given[p]) = 0
      BY <2>1, SharesIs
    <3> QED
      BY <3>1
  <2>3. ~SetUp(begun[p])
    BY <2>1, NotSetUp
  <2> QED
    BY <2>1, <2>2, <2>3 DEF Known, Met, Learnt, Rows, Sums
<1> QED
  BY <1>1 DEF Init, Whole

LEMMA NextKnows == Inv /\ Inv' /\ Whole /\ [Next]_vars => Whole'
<1> SUFFICES ASSUME Inv, Inv', Whole, [Next]_vars PROVE Whole'
  OBVIOUS
<1>1. ASSUME NEW p \in Rank, Step(p) PROVE Whole'
  BY <1>1, InitSymbolicKnows, ScanKnows, ReduceKnows, WaitsKnow, StructuredKnows, InitNumericKnows,
     AssembledKnows, ApplyKnows, DownloadedKnows, DoneSymbolicKnows, AllGatherKnows,
     LearnOffsetsKnows, LearnCountsKnows, GatherKnows, PostSendsKnows, TakeKnows DEF Step
<1>2. CASE UNCHANGED vars
  <2>1. UNCHANGED <<begun, at, posted, recvs, given, adp, matrix, vector>>
    BY <1>2 DEF vars
  <2> QED
    BY <2>1 DEF Whole, Known, Met, Passed, Learnt, Rows, Sums, Heard
<1> QED
  BY <1>1, <1>2 DEF Next

LEMMA WholeAlways == Spec => []Whole
<1>1. Inv /\ [Next]_vars => Inv'
  BY NextKeeps
<1> QED
  BY <1>1, InitKnows, NextKnows, PartitionInvariant, PTL DEF Spec

----------------------------------------------------------------------------
(* A process has its result when those it needs have begun the call.       *)

LEMMA SentBelow ==
  ASSUME Inv, NEW q \in Rank, NEW dir \in Dir, begun[q] + 1 \in 1 .. Len(Program)
  PROVE  Sent(dir, q) <= SumBefore(Count(dir), begun[q] + 1) /\ Sent(dir, q) \in Nat
<1>1. PICK s, w, x : s = begun[q] /\ w = at[q] /\ x = posted[q]
  OBVIOUS
<1>2. s \in Nat /\ s + 1 \in 1 .. Len(Program) /\ Len(Program) \in Nat /\ Shape /\ Phase(q)
  BY <1>1, ProgramIs DEF Inv, LocalInv, Shape
<1>3. PICK b \in Nat : b = SumBefore(Count(dir), s + 1)
  BY <1>2, CountIs
<1>4. Sent(dir, q) = Done(dir, s, w, x) /\ x \in BOOLEAN
  BY <1>1, <1>2 DEF Sent, Shape
<1>5. Sent(dir, q) \in Nat
  BY <1>2, DoneIsNumber DEF Sent
<1>6. CASE w \in Rounds(dir)
  <2>1. w # "none"
    BY <1>6, RoundsAre DEF Dir
  <2>2. s \in 1 .. Len(Program) /\ Program[s] = CallOf(w)
    BY <1>1, <1>2, <2>1, CallIs
  <2>3. PICK a \in Nat, c \in Nat : a = SumBefore(Count(dir), s) /\ c = Count(dir)[s]
    BY <2>2, CountIs
  <2>4. b = a + c
    BY <1>3, <2>2, <2>3, CountIs
  <2>5. RoundNo(w) \in Nat /\ RoundNo(w) <= c
    BY <1>6, <2>2, <2>3, RoundFits
  <2>6. PICK d \in Nat : d = RoundNo(w)
    BY <2>5
  <2>7. Done(dir, s, w, TRUE) = a + d /\ Done(dir, s, w, FALSE) + 1 = a + d /\ Done(dir, s, w, FALSE) \in Nat
    BY <1>6, <2>2, <2>3, <2>6, RoundCounts
  <2>8. Done(dir, s, w, TRUE) <= b /\ Done(dir, s, w, FALSE) <= b
    <3>1. PICK y, z : y = Done(dir, s, w, TRUE) /\ z = Done(dir, s, w, FALSE)
      OBVIOUS
    <3>2. y = a + d /\ z + 1 = a + d /\ z \in Nat /\ d <= c
      BY <2>5, <2>6, <2>7, <3>1
    <3>3. y <= b /\ z <= b
      BY <2>4, <3>2
    <3> QED
      BY <3>1, <3>3
  <2>9. x = TRUE \/ x = FALSE
    BY <1>4
  <2>10. Done(dir, s, w, x) <= b
    BY <2>8, <2>9, Zenon
  <2> QED
    BY <1>1, <1>3, <1>4, <1>5, <2>10
<1>7. CASE w \notin Rounds(dir) /\ w \in Early(dir)
  <2>1. w # "none"
    BY <1>7 DEF Early
  <2>2. s \in 1 .. Len(Program)
    BY <1>1, <1>2, <2>1, CallIs
  <2>3. PICK a \in Nat, c \in Nat : a = SumBefore(Count(dir), s) /\ c = Count(dir)[s]
    BY <2>2, CountIs
  <2>4. b = a + c
    BY <1>3, <2>2, <2>3, CountIs
  <2>5. Done(dir, s, w, x) = a
    BY <1>7, <2>3 DEF Done, Past
  <2> QED
    BY <1>1, <1>3, <1>4, <1>5, <2>3, <2>4, <2>5
<1>8. CASE w \notin Rounds(dir) /\ w \notin Early(dir)
  <2>1. Done(dir, s, w, x) = b
    BY <1>3, <1>8 DEF Done, Past
  <2> QED
    BY <1>1, <1>3, <1>4, <1>5, <2>1
<1> QED
  BY <1>6, <1>7, <1>8

\* Whoever has sent for a round has begun the call.
LEMMA SentAfter ==
  ASSUME Inv, NEW p \in Rank, NEW dir \in Dir, at[p] \in Rounds(dir), NEW i \in DOMAIN Sources(dir, p),
         i \notin recvs[p], NEW q, q = Sources(dir, p)[i].rank
  PROVE  begun[q] >= begun[p]
<1>1. PICK t, w, n : t = begun[p] /\ w = at[p] /\ n = Len(Program)
  OBVIOUS
<1>2. n \in Nat /\ t \in 1 .. n /\ Program[t] = CallOf(w)
  BY <1>1, RoundIs, ProgramIs
<1>3. q \in Rank /\ begun[q] \in 0 .. n /\ IsSeq(chan[q][p])
  BY <1>1, SourceIs DEF Inv, Shape
<1>4. Len(chan[q][p]) = Sent(dir, q) - Taken(dir, p, i) /\ Len(chan[q][p]) \in Nat
  BY <1>3, SeqLength DEF Inv, InOrder
<1>5. PICK a \in Nat, r \in Nat : a = SumBefore(Count(dir), t) /\ r = RoundNo(w) /\ 1 <= r
  BY <1>1, <1>2, CountIs, RoundFits
<1>6. Taken(dir, p, i) = a + r
  <2>1. Taken(dir, p, i) = Done(dir, t, w, TRUE)
    BY <1>1, DoneSame DEF Taken
  <2>2. Done(dir, t, w, TRUE) = SumBefore(Count(dir), t) + RoundNo(w)
    BY <1>1, <1>2, RoundCounts
  <2> QED
    BY <1>5, <2>1, <2>2
<1> SUFFICES ASSUME begun[q] < t PROVE FALSE
  BY <1>1, <1>2, <1>3
<1>7. PICK s \in Nat : s = begun[q] /\ s + 1 \in 1 .. n
  BY <1>2, <1>3
<1>8. PICK b \in Nat, m \in Nat : b = SumBefore(Count(dir), s + 1) /\ m = Sent(dir, q) /\ m <= b
  <2>1. Sent(dir, q) \in Nat /\ Sent(dir, q) <= SumBefore(Count(dir), s + 1)
    BY <1>1, <1>3, <1>7, SentBelow
  <2>2. SumBefore(Count(dir), s + 1) \in Nat
    BY <1>1, <1>7, CountIs
  <2> QED
    BY <2>1, <2>2
<1>9. b <= a
  <2>1. CASE s + 1 = t
    BY <1>5, <1>8, <2>1
  <2>2. CASE s + 1 # t
    <3> DEFINE v == Count(dir)
    <3>1. \A x \in 1 .. n : v[x] \in Nat
      BY <1>1, CountIs
    <3>2. PICK k \in 1 .. n : k = s + 1 /\ k < t /\ t \in 1 .. n + 1
      BY <1>2, <1>7, <2>2
    <3> HIDE DEF v
    <3>3. SumBefore(v, k) + v[k] <= SumBefore(v, t)
      BY <1>2, <3>1, <3>2, SumBeforeGrows
    <3>4. v[k] \in Nat
      BY <3>1
    <3>5. SumBefore(v, k) = b /\ SumBefore(v, t) = a
      BY <1>5, <1>8, <3>2 DEF v
    <3> QED
      BY <3>3, <3>4, <3>5
  <2> QED
    BY <2>1, <2>2
<1> QED
  BY <1>4, <1>5, <1>6, <1>8, <1>9

\* When nothing is awaited, all have been heard.
LEMMA HeardAll ==
  ASSUME NEW dir \in Dir, NEW p \in Rank, recvs[p] = {}
  PROVE  Heard(dir, p) = {p} \cup {q \in Rank : Link(dir, q, p)}
<1>1. ListsRanks(Sources(dir, p), {q \in Rank : Link(dir, q, p)})
  BY SourcesListed
<1>2. Heard(dir, p) = {p} \cup {Sources(dir, p)[i].rank : i \in DOMAIN Sources(dir, p)}
  BY DEF Heard
<1> QED
  BY <1>1, <1>2 DEF ListsRanks

----------------------------------------------------------------------------
(* What a process has at the end of a call, and who has begun it then.     *)

Accompanied(p) == \A q \in Partners(begun[p], p) : begun[q] >= begun[p]

LEMMA StructuredGives ==
  ASSUME Inv, Whole, NEW p \in Rank, Structured(p)
  PROVE  Outcome(begun[p], p) = Result(p)' /\ Accompanied(p)
<1>1. /\ at[p] = "cols" /\ recvs[p] = {} /\ at'[p] = "none" /\ begun'[p] = begun[p] /\ adp'[p] = adp[p]
      /\ matrix'[p] = [e \in Structure(p) |-> EmptyBag]
  BY ShapesAre DEF Structured, AllReceived, Goto
<1>2. begun[p] \in 1 .. Len(Program) /\ Program[begun[p]] = "init_symbolic" /\ SetUp(begun[p])
  BY <1>1, CallIs DEF CallOf, Inv, LocalInv
<1>3. adp[p].number = [d \in Holds(p) |-> TrueNumber[d]]
  <2>1. adp[p].number = [d \in Holds(p) |-> adp[p].number[d]]
    BY <1>1, <1>2 DEF Whole, Known, Learnt
  <2>2. \A d \in Holds(p) : adp[p].number[d] = TrueNumber[d]
    BY <1>1, <1>2, NumbersAre, TrueNumberIs, LowestHolderIs
  <2> QED
    BY <2>1, <2>2
<1>4. DOMAIN matrix'[p] = DOMAIN TrueMatrix[p]
  <2>1. DOMAIN matrix'[p] = Keys(p)
    BY <1>1, StructureIs
  <2> QED
    BY <2>1, TrueMatrixIs
<1>5. Result(p)' = {<<adp[p].number, DOMAIN matrix'[p]>>}
  BY <1>1, <1>2 DEF Result
<1>6. Outcome(begun[p], p) = {<<[d \in Holds(p) |-> TrueNumber[d]], DOMAIN TrueMatrix[p]>>}
  BY <1>2 DEF Outcome
<1>7. Accompanied(p)
  BY <1>1, <1>2 DEF Accompanied, Partners, Whole, Known, Met
<1> QED
  BY <1>3, <1>4, <1>5, <1>6, <1>7

\* The rows that are filtered.
LEMMA FilteredIs ==
  ASSUME Inv, Whole, NEW p \in Rank, at[p] = "values", NEW f \in Entries(p), NEW i,
         i = own_dof_idx[p][f[1]]
  PROVE  /\ i \in FilteredRows(p) <=> f[1] \in Filtered[p]
         /\ Global(f[2]) = adp[p].offset + i <=> f[1] = f[2]
<1>1. SetUp(begun[p])
  BY CallIs DEF Inv, LocalInv
<1>2. /\ adp[p].offset = Offset(p) /\ adp[p].total = Total
      /\ \A d \in Holds(p) : adp[p].number[d] = Global(d)
  BY <1>1, NumbersAre DEF Whole, Known, Learnt
<1>3. f[1] \in Own(p) /\ f[1] \in AllDofs /\ f[2] \in AllDofs /\ LowestHolder[f[1]] = p
  BY EntriesAre
<1>4. PICK o, n, t : o = Offset(p) /\ n = Len(owned_dofs[p]) /\ t = Total
  OBVIOUS
<1>5. o \in Nat /\ n \in Nat /\ t \in Nat /\ o + n <= t
  BY <1>4, TotalIs, OwnedAre
<1>6. i \in 0 .. n - 1
  BY <1>3, <1>4, OwnIndexIs
<1>7. Global(f[1]) = o + i
  BY <1>3, <1>4 DEF Global
<1>8. Filtered[p] \subseteq Holds(p)
  BY AlgDofPartiAssumption, Zenon
<1>9. ASSUME f[1] \in Filtered[p] PROVE i \in FilteredRows(p)
  <2>1. adp[p].number[f[1]] = o + i
    BY <1>2, <1>7, <1>8, <1>9
  <2>2. IsMine(p, o + i)
    BY <1>2, <1>4, <1>5, <1>6 DEF IsMine
  <2>3. (o + i) - o = i
    BY <1>5, <1>6
  <2> QED
    BY <1>2, <1>4, <1>9, <2>1, <2>2, <2>3 DEF FilteredRows
<1>10. ASSUME i \in FilteredRows(p) PROVE f[1] \in Filtered[p]
  <2>1. PICK c \in Filtered[p] : IsMine(p, adp[p].number[c]) /\ i = adp[p].number[c] - o
    BY <1>2, <1>4, <1>10 DEF FilteredRows
  <2>2. c \in Holds(p) /\ adp[p].number[c] = Global(c)
    BY <1>2, <1>8, <2>1
  <2>3. Global(c) \in Nat
    BY <2>2, GlobalIsNumber
  <2>4. Global(c) = Global(f[1])
    BY <1>5, <1>6, <1>7, <2>1, <2>2, <2>3
  <2>5. c = f[1]
    BY <1>3, <2>2, <2>4, LowestHolderIs, SameNumber
  <2> QED
    BY <2>1, <2>5
<1>11. Global(f[2]) = o + i <=> f[1] = f[2]
  BY <1>3, <1>7, SameNumber
<1> QED
  BY <1>2, <1>4, <1>9, <1>10, <1>11

LEMMA AssembledGives ==
  ASSUME Inv, Whole, NEW p \in Rank, Assembled(p)
  PROVE  Outcome(begun[p], p) = Result(p)' /\ Accompanied(p)
<1>1. /\ at[p] = "values" /\ posted[p] /\ recvs[p] = {} /\ at'[p] = "none" /\ begun'[p] = begun[p]
      /\ matrix'[p] = FilterMatrix(p, matrix[p])
  BY ShapesAre DEF Assembled, AllReceived, Goto
<1>2. begun[p] \in 1 .. Len(Program) /\ Program[begun[p]] = "init_numeric"
  BY <1>1, CallIs DEF CallOf, Inv, LocalInv
<1>3. Heard("up", p) = {p} \cup DoneesOf(p)
  BY <1>1, HeardAll DEF Dir, Link, DoneesOf
<1>4. IsMatrix(matrix[p], p, {p} \cup DoneesOf(p))
  BY <1>1, <1>3 DEF Whole, Known, Sums
<1>5. FilterMatrix(p, matrix[p]) = TrueMatrix[p]
  <2> DEFINE m == matrix[p]
             val(k) == FilterMatrix(p, m)[k]
  <2>1. DOMAIN m = Keys(p)
    BY <1>4 DEF IsMatrix
  <2>2. ASSUME NEW k \in Keys(p)
        PROVE  TrueMatrix[p][k] = IF k[1] \notin FilteredRows(p) THEN m[k]
                                  ELSE IF k[2] = adp[p].offset + k[1] THEN Unit ELSE EmptyBag
    <3>1. PICK f \in Entries(p) : k = Key(f)
      BY DEF Keys
    <3>2. k[1] = own_dof_idx[p][f[1]] /\ k[2] = Global(f[2])
      BY <3>1, EntriesAre DEF Key
    <3>3. /\ k[1] \in FilteredRows(p) <=> f[1] \in Filtered[p]
          /\ k[2] = adp[p].offset + k[1] <=> f[1] = f[2]
      BY <1>1, <3>2, FilteredIs
    <3>4. m[k] = Summed(Rank, f)
      BY <1>4, <3>1, SummedAll DEF IsMatrix
    <3>5. TrueMatrix[p][k] = IF f[1] \notin Filtered[p] THEN Summed(Rank, f)
                             ELSE IF f[1] = f[2] THEN Unit ELSE EmptyBag
      BY <3>1, TrueMatrixIs
    <3> QED
      BY <3>3, <3>4, <3>5
  <2>3. TrueMatrix[p] = [k \in Keys(p) |-> TrueMatrix[p][k]]
    BY TrueMatrixIs
  <2> QED
    BY <2>1, <2>2, <2>3 DEF FilterMatrix
<1>6. Result(p)' = {matrix'[p]} /\ Outcome(begun[p], p) = {TrueMatrix[p]}
  BY <1>1, <1>2 DEF Result, Outcome
<1>7. Accompanied(p)
  <2>1. ASSUME NEW q \in Rank \ {p}, NEW d \in Holds(q), LowestHolder[d] = p
        PROVE  begun[q] >= begun[p]
    <3>1. "up" \in Dir /\ at[p] \in Rounds("up")
      BY <1>1, RoundsAre DEF Dir
    <3>2. Link("up", q, p)
      BY <2>1 DEF Link, Serves
    <3>3. PICK i \in DOMAIN Sources("up", p) : Sources("up", p)[i].rank = q
      BY <3>1, <3>2, SourcesListed DEF ListsRanks
    <3> QED
      BY <1>1, <3>1, <3>3, SentAfter
  <2> QED
    BY <1>2, <2>1 DEF Accompanied, Partners
<1> QED
  BY <1>1, <1>5, <1>6, <1>7

LEMMA DownloadedGives ==
  ASSUME Inv, Whole, NEW p \in Rank, Downloaded(p)
  PROVE  Outcome(begun[p], p) = Result(p)' /\ Accompanied(p)
<1>1. /\ at[p] = "shared" /\ posted[p] /\ recvs[p] = {} /\ at'[p] = "none" /\ begun'[p] = begun[p]
      /\ vector'[p] = vector[p]
  BY ShapesAre DEF Downloaded, AllReceived, Goto
<1>2. begun[p] \in 1 .. Len(Program) /\ Program[begun[p]] = "apply"
  BY <1>1, CallIs DEF CallOf, Inv, LocalInv
<1>3. \A d \in Holds(p) : LowestHolder[d] \in Rank /\ (LowestHolder[d] # p => Serves(LowestHolder[d], p))
  BY LowestHolderIs DEF Serves
<1>4. \A d \in Holds(p) : LowestHolder[d] \in Heard("down", p)
  <2>1. Heard("down", p) = {p} \cup {q \in Rank : Link("down", q, p)}
    BY <1>1, HeardAll DEF Dir
  <2> QED
    BY <1>3, <2>1 DEF Link
<1>5. vector[p] = [d \in Holds(p) |-> TrueValue(d)]
  BY <1>1, <1>4 DEF Whole, Known, Sums, IsVector
<1>6. Result(p)' = {vector'[p]} /\ Outcome(begun[p], p) = {[d \in Holds(p) |-> TrueValue(d)]}
  BY <1>1, <1>2 DEF Result, Outcome
<1>7. Accompanied(p)
  <2>1. ASSUME NEW q \in Rank, Serves(q, p)
        PROVE  begun[q] >= begun[p]
    <3>1. "down" \in Dir /\ at[p] \in Rounds("down")
      BY <1>1, RoundsAre DEF Dir
    <3>2. Link("down", q, p)
      BY <2>1 DEF Link
    <3>3. PICK i \in DOMAIN Sources("down", p) : Sources("down", p)[i].rank = q
      BY <3>1, <3>2, SourcesListed DEF ListsRanks
    <3> QED
      BY <1>1, <3>1, <3>3, SentAfter
  <2> QED
    BY <1>2, <1>3, <2>1 DEF Accompanied, Partners
<1> QED
  BY <1>1, <1>5, <1>6, <1>7

\* The number g is that of one DOF, and the one who has it is found by the offsets.
LEMMA NumberedDof ==
  ASSUME NEW g \in 0 .. Total - 1, NEW q, NEW d,
         q = (CHOOSE r \in Rank : g - Offset(r) \in 0 .. Len(owned_dofs[r]) - 1),
         d = (CHOOSE c \in AllDofs : TrueNumber[c] = g)
  PROVE  /\ q \in Rank /\ g - Offset(q) \in DOMAIN UploadOf(q)
         /\ UploadOf(q)[g - Offset(q)] = TrueValue(d)
         /\ \E c \in AllDofs : TrueNumber[c] = g
<1>1. q \in Rank /\ g - Offset(q) \in 0 .. Len(owned_dofs[q]) - 1
  BY NumberBelongs
<1>2. PICK i \in 0 .. Len(owned_dofs[q]) - 1 : i = g - Offset(q)
  BY <1>1
<1>3. PICK c : c = owned_dofs[q][i + 1]
  OBVIOUS
<1>4. c \in AllDofs /\ LowestHolder[c] = q /\ Global(c) = Offset(q) + i
  BY <1>1, <1>2, <1>3, OwnedNumber
<1>5. Offset(q) \in Nat /\ g \in Int /\ Len(owned_dofs[q]) \in Nat
  BY <1>1, TotalIs, OwnedAre
<1>6. Global(c) = g
  BY <1>2, <1>4, <1>5
<1>7. TrueNumber[c] = g
  BY <1>4, <1>6, TrueNumberIs
<1>8. d = c
  <2>1. d \in AllDofs /\ TrueNumber[d] = g
    BY <1>4, <1>7
  <2>2. Global(d) = Global(c)
    BY <1>6, <2>1, TrueNumberIs
  <2> QED
    BY <1>4, <2>1, <2>2, SameNumber
<1>9. UploadOf(q)[i] = SetToBag({<<q, c>>}) /\ i \in DOMAIN UploadOf(q)
  BY <1>3 DEF UploadOf
<1>10. TrueValue(d) = SetToBag({<<q, c>>})
  BY <1>4, <1>8 DEF TrueValue
<1> QED
  BY <1>1, <1>2, <1>4, <1>7, <1>9, <1>10

LEMMA GatherGives ==
  ASSUME Inv, Whole, NEW p \in Rank, Gather(p)
  PROVE  Outcome(begun[p], p) = Result(p)' /\ Accompanied(p)
<1> DEFINE from(g) == CHOOSE q \in Rank : g - Offset(q) \in 0 .. Len(owned_dofs[q]) - 1
           dof(g) == CHOOSE d \in AllDofs : TrueNumber[d] = g
           source(g) == CHOOSE q \in Rank : g - adp[p].offsets[q] \in 0 .. adp[p].counts[q] - 1
<1>1. /\ at[p] = "full" /\ at'[p] = "none" /\ begun'[p] = begun[p] /\ Arrived(p, Rank)
      /\ vector'[p] = [g \in 0 .. adp[p].total - 1 |->
                        Gathered(p)[source(g)][g - adp[p].offsets[source(g)]]]
  BY ShapesAre DEF Gather, Goto
<1>2. begun[p] \in 1 .. Len(Program) /\ Program[begun[p]] = "allgather" /\ SetUp(begun[p])
  BY <1>1, GatherPlace
<1>3. /\ adp[p].total = Total /\ adp[p].offsets = [q \in Rank |-> Offset(q)]
      /\ adp[p].counts = [q \in Rank |-> Len(owned_dofs[q])]
  BY <1>1, <1>2 DEF Whole, Known, Learnt
<1>4. Gathered(p) = [q \in Rank |-> UploadOf(q)]
  <2>1. Given(begun[p], at[p]) = SumBefore(Shares, begun[p]) + 3
    BY <1>1, GatherPlace
  <2>2. Gathered(p) = [q \in Rank |-> ShareOf(q, 3)]
    <3>1. 3 \in 1 .. 3
      OBVIOUS
    <3> QED
      BY <1>1, <1>2, <2>1, <3>1, GatheredIs
  <2> QED
    BY <2>2 DEF ShareOf
<1>5. ASSUME NEW g \in 0 .. Total - 1
      PROVE  source(g) = from(g) /\ from(g) \in Rank
  <2>1. \A q \in Rank : (g - adp[p].offsets[q] \in 0 .. adp[p].counts[q] - 1) <=>
                        (g - Offset(q) \in 0 .. Len(owned_dofs[q]) - 1)
    BY <1>3
  <2> QED
    BY <2>1, NumberedDof
<1> HIDE DEF source
<1>6. ASSUME NEW g \in 0 .. Total - 1
      PROVE  vector'[p][g] = TrueValue(dof(g))
  <2>1. PICK q, d : q = from(g) /\ d = dof(g)
    OBVIOUS
  <2>2. q \in Rank /\ UploadOf(q)[g - Offset(q)] = TrueValue(d)
    BY <2>1, NumberedDof
  <2>3. vector'[p][g] = Gathered(p)[q][g - adp[p].offsets[q]]
    <3>1. g \in 0 .. adp[p].total - 1
      BY <1>3
    <3>2. vector'[p][g] = Gathered(p)[source(g)][g - adp[p].offsets[source(g)]]
      BY <1>1, <3>1
    <3>3. source(g) = q
      BY <1>5, <2>1
    <3> QED
      BY <3>2, <3>3
  <2> QED
    BY <1>3, <1>4, <2>1, <2>2, <2>3
<1>7. {TrueNumber[d] : d \in AllDofs} = 0 .. Total - 1
  <2>1. \A d \in AllDofs : TrueNumber[d] \in 0 .. Total - 1
    BY TrueNumberIs, GlobalOfAll
  <2>2. \A g \in 0 .. Total - 1 : \E d \in AllDofs : TrueNumber[d] = g
    BY NumberedDof
  <2> QED
    BY <2>1, <2>2
<1>8. vector'[p] = [g \in 0 .. Total - 1 |-> TrueValue(dof(g))]
  <2>1. PICK v : v = vector'[p]
    OBVIOUS
  <2>2. v = [g \in 0 .. Total - 1 |-> v[g]]
    BY <1>1, <1>3, <2>1
  <2> QED
    BY <1>6, <2>1, <2>2
<1>9. /\ Result(p)' = {vector'[p]}
      /\ Outcome(begun[p], p) = {[g \in {TrueNumber[d] : d \in AllDofs} |-> TrueValue(dof(g))]}
  <2>1. Result(p)' = {vector'[p]}
    BY <1>1, <1>2 DEF Result
  <2>2. Outcome(begun[p], p) = {[g \in {TrueNumber[d] : d \in AllDofs} |-> TrueValue(dof(g))]}
    BY <1>2 DEF Outcome
  <2> QED
    BY <2>1, <2>2
<1>10. Accompanied(p)
  BY <1>1, <1>2, GivenAfter DEF Accompanied, Partners, Arrived
<1> QED
  BY <1>7, <1>8, <1>9, <1>10

----------------------------------------------------------------------------
(* The calls implement the promise.                                        *)

\* What the promise sees of a process.
Results == [p \in Rank |-> Result(p)]

\* A step of one process changes its own result only.
LEMMA OneResult ==
  ASSUME NEW p \in Rank, OthersStay(p), OthersSum(p), NEW v, v = Result(p)'
  PROVE  Results' = [Results EXCEPT ![p] = v]
<1>1. ASSUME NEW q \in Rank \ {p} PROVE Result(q)' = Result(q)
  <2>1. /\ begun'[q] = begun[q] /\ at'[q] = at[q] /\ adp'[q] = adp[q]
        /\ matrix'[q] = matrix[q] /\ vector'[q] = vector[q]
    BY DEF OthersStay, OthersSum
  <2> QED
    BY <2>1 DEF Result
<1>2. Results' = [q \in Rank |-> Result(q)'] /\ DOMAIN Results = Rank
  BY DEF Results
<1> QED
  BY <1>1, <1>2 DEF Results

LEMMA NotSeen ==
  ASSUME Inv, Whole, NEW p \in Rank, Step(p), begun' = begun, Result(p)' = Result(p)
  PROVE  UNCHANGED Promise!vars
<1>1. Results' = [Results EXCEPT ![p] = Result(p)]
  BY StepIsOwn, OneResult
<1>2. Results' = Results
  BY <1>1 DEF Results
<1> QED
  BY <1>2 DEF Promise!vars, Results

\* Within a call a process has no result.
LEMMA Within ==
  ASSUME NEW p \in Rank, at[p] # "none", begun[p] # 0
  PROVE  Result(p) = {}
BY DEF Result

LEMMA Outside ==
  ASSUME NEW p \in Rank, at[p] = "none", begun[p] \in 0 .. Len(Program)
  PROVE  Result(p) # {}
<1>1. CASE begun[p] = 0
  BY <1>1 DEF Result
<1>2. CASE begun[p] \in 1 .. Len(Program)
  BY <1>2, ProgramIs DEF Result
<1> QED
  BY <1>1, <1>2, ProgramIs

\* A call that has partners is begun.
LEMMA CallSeen ==
  ASSUME Inv, Whole, NEW p \in Rank, InitSymbolic(p) \/ InitNumeric(p) \/ Apply(p) \/ AllGather(p)
  PROVE  Promise!Enter(p)
<1>1. /\ at[p] = "none" /\ begun[p] < Len(Program) /\ begun' = [begun EXCEPT ![p] = @ + 1]
      /\ at'[p] # "none"
  BY ShapesAre DEF InitSymbolic, InitNumeric, Apply, AllGather, MayStart, Begin
<1>2. begun[p] \in Nat /\ begun[p] \in 0 .. Len(Program) /\ begun'[p] = begun[p] + 1
  BY <1>1, ShapesAre
<1>3. Result(p)' = {}
  BY <1>1, <1>2 DEF Result
<1>4. Results' = [Results EXCEPT ![p] = {}]
  BY <1>3, CallsAreOwn, RoundsAreOwn, OneResult
<1>5. Results[p] # {}
  BY <1>1, <1>2, Outside DEF Results
<1> QED
  BY <1>1, <1>4, <1>5 DEF Promise!Enter, Promise!Waits, Results

\* A call that has partners returns.
LEMMA ReturnSeen ==
  ASSUME Inv, Whole, NEW p \in Rank, Structured(p) \/ Assembled(p) \/ Downloaded(p) \/ Gather(p)
  PROVE  Promise!Leave(p)
<1>1. at[p] # "none" /\ begun' = begun
  BY DEF Structured, Assembled, Downloaded, Gather, Goto
<1>2. Outcome(begun[p], p) = Result(p)' /\ Accompanied(p)
  BY StructuredGives, AssembledGives, DownloadedGives, GatherGives
<1>3. Results' = [Results EXCEPT ![p] = Outcome(begun[p], p)]
  BY <1>2, CallsAreOwn, RoundsAreOwn, OneResult
<1>4. Results[p] = {}
  <2>1. begun[p] # 0
    BY <1>1, CallIs DEF Inv, LocalInv
  <2> QED
    BY <1>1, <2>1, Within DEF Results
<1> QED
  BY <1>1, <1>2, <1>3, <1>4 DEF Promise!Leave, Promise!Waits, Results, Accompanied

\* done_symbolic() needs nobody.
LEMMA DoneSeen ==
  ASSUME Inv, Whole, NEW p \in Rank, DoneSymbolic(p)
  PROVE  Promise!Pass(p)
<1>1. /\ at[p] = "none" /\ begun[p] < Len(Program) /\ begun' = [begun EXCEPT ![p] = @ + 1]
      /\ at'[p] = "none" /\ adp'[p] = EmptyParti /\ Program[begun[p] + 1] = "done_symbolic"
  BY ShapesAre DEF DoneSymbolic, MayStart, Begin
<1>2. begun[p] \in Nat /\ begun[p] \in 0 .. Len(Program) /\ begun'[p] = begun[p] + 1
  BY <1>1, ShapesAre
<1>3. Result(p)' = {<<>>} /\ Outcome(begun[p] + 1, p) = {<<>>} /\ Partners(begun[p] + 1, p) = {}
  BY <1>1, <1>2 DEF Result, Outcome, Partners, EmptyParti
<1>4. Results' = [Results EXCEPT ![p] = Outcome(begun[p] + 1, p)]
  BY <1>3, RoundsAreOwn, OneResult
<1>5. Results[p] # {}
  BY <1>1, <1>2, Outside DEF Results
<1> QED
  BY <1>1, <1>3, <1>4, <1>5 DEF Promise!Pass, Promise!Waits, Results

\* All other steps are within a call.
LEMMA RoundSeen ==
  ASSUME Inv, Whole, NEW p \in Rank, Step(p),
         \/ Scan(p) \/ Reduce(p) \/ Numbered(p) \/ PostReceives(p) \/ LearnOffsets(p) \/ LearnCounts(p)
         \/ PostSends(p) \/ \E i \in recvs[p] : Take(p, i)
  PROVE  UNCHANGED Promise!vars
<1>1. begun' = begun /\ at[p] # "none" /\ at'[p] # "none"
  <2>1. CASE Scan(p) \/ Reduce(p) \/ LearnOffsets(p) \/ LearnCounts(p)
    BY <2>1, ShapesAre DEF Scan, Reduce, LearnOffsets, LearnCounts, Goto
  <2>2. CASE Numbered(p) \/ PostReceives(p)
    BY <2>2, ShapesAre DEF Numbered, PostReceives, Goto
  <2>3. CASE PostSends(p)
    BY <2>3 DEF PostSends, ToDonees, ToOwners
  <2>4. ASSUME NEW i \in recvs[p], Take(p, i)
        PROVE  begun' = begun /\ at[p] # "none" /\ at'[p] # "none"
    <3>1. UNCHANGED <<begun, at>> /\ recvs[p] # {}
      BY <2>4 DEF Take
    <3>2. at[p] \in ToOwners \cup ToDonees
      BY <3>1 DEF Inv, LocalInv, Phase
    <3> QED
      BY <3>1, <3>2 DEF ToDonees, ToOwners
  <2> QED
    BY <2>1, <2>2, <2>3, <2>4
<1>2. begun[p] # 0
  BY <1>1, CallIs DEF Inv, LocalInv
<1>3. Result(p) = {} /\ Result(p)' = {}
  BY <1>1, <1>2 DEF Result
<1> QED
  BY <1>1, <1>3, NotSeen

LEMMA StepSeen ==
  ASSUME Inv, Whole, [Next]_vars
  PROVE  [Promise!Next]_(Promise!vars)
<1>1. ASSUME NEW p \in Rank, Step(p)
      PROVE  Promise!Next \/ UNCHANGED Promise!vars
  <2>1. CASE InitSymbolic(p) \/ InitNumeric(p) \/ Apply(p) \/ AllGather(p)
    BY <2>1, CallSeen DEF Promise!Next
  <2>2. CASE Structured(p) \/ Assembled(p) \/ Downloaded(p) \/ Gather(p)
    BY <2>2, ReturnSeen DEF Promise!Next
  <2>3. CASE DoneSymbolic(p)
    BY <2>3, DoneSeen DEF Promise!Next
  <2>4. CASE \/ Scan(p) \/ Reduce(p) \/ Numbered(p) \/ PostReceives(p) \/ LearnOffsets(p) \/ LearnCounts(p)
             \/ PostSends(p) \/ \E i \in recvs[p] : Take(p, i)
    BY <1>1, <2>4, RoundSeen
  <2> QED
    BY <1>1, <2>1, <2>2, <2>3, <2>4 DEF Step
<1>2. CASE UNCHANGED vars
  <2>1. Results' = Results
    BY <1>2 DEF vars, Results, Result
  <2> QED
    BY <1>2, <2>1 DEF vars, Promise!vars, Results
<1> QED
  BY <1>1, <1>2 DEF Next

LEMMA PromiseStart ==
  ASSUME Init
  PROVE  Promise!Init
BY DEF Init, Promise!Init, Result

\* In whatever order messages come, and whether MPI has room for them or not, a process
\* gets the numbers of one numbering of all DOFs and the rows it owns, in them the sum of
\* the entries of all processes, and the values of the owners, not before those it needs
\* have begun the same call.
THEOREM CallsKeepPromise == Spec => ImplementsPromise
<1>1. Init => Promise!Init
  BY PromiseStart
<1>2. Inv /\ Whole /\ [Next]_vars => [Promise!Next]_(Promise!vars)
  BY StepSeen
<1> QED
  BY <1>1, <1>2, PartitionInvariant, WholeAlways, PTL DEF Spec, ImplementsPromise, Promise!Spec
=============================================================================
