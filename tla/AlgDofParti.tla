----------------------------- MODULE AlgDofParti ----------------------------
(***************************************************************************)
(* Solvers of other libraries want each degree of freedom (DOF) on one     *)
(* process, and numbers that are consecutive on each.  ADPSolverBase makes *)
(* them from the gate: the lowest rank that has a DOF owns it, an exscan   *)
(* says where the numbers of a process begin, and owners tell them to the  *)
(* others, their donees.  Donees send the structure of the rows that they  *)
(* do not own, and then the values, to the owners; owners send the entries *)
(* of a solution to the donees.                                            *)
(*                                                                         *)
(* Mirrors list what two processes share, in an order both agree on, but   *)
(* not that of the DOFs on either.  All messages between two processes     *)
(* have the same tag; MPI delivers them in their order.  Entries of        *)
(* vectors and matrices are kept as the bag of the local entries that are  *)
(* added up in them.                                                       *)
(***************************************************************************)
EXTENDS Integers, SequencesExt, Selection

CONSTANTS P,         \* number of processes
          Dof,       \* the degrees of freedom
          Local,     \* Local[p]: the ones of p, in p's order
          Gate,      \* Gate[p]: p's neighbours, each with the DOFs of its mirror
          Pattern,   \* Pattern[p]: where p's local matrix may be non-zero
          Filtered,  \* Filtered[p]: the DOFs of p's unit filter
          Program    \* the calls, the same on all processes

Rank == 0 .. P - 1

Holds(p) == ToSet(Local[p])
Holders(d) == {p \in Rank : d \in Holds(p)}

\* Neighbours agree on the order of a mirror; and nobody is without DOFs of its own,
\* which assemble_by_gate() asserts.
ASSUME AlgDofPartiAssumption ==
  /\ P \in Nat \ {0}
  /\ Local \in [Rank -> Seq(Dof)]
  /\ Gate \in [Rank -> Seq([rank : Rank, dofs : Seq(Dof)])]
  /\ \A p \in Rank :
       /\ \A i, j \in DOMAIN Local[p] : Local[p][i] = Local[p][j] => i = j
       /\ \A i, j \in DOMAIN Gate[p] : Gate[p][i].rank = Gate[p][j].rank => i = j
       /\ {Gate[p][i].rank : i \in DOMAIN Gate[p]} =
            {q \in Rank \ {p} : Holds(p) \cap Holds(q) # {}}
       /\ \A i \in DOMAIN Gate[p] :
            /\ ToSet(Gate[p][i].dofs) = Holds(p) \cap Holds(Gate[p][i].rank)
            /\ \E j \in DOMAIN Gate[Gate[p][i].rank] :
                 Gate[Gate[p][i].rank][j] = [rank |-> p, dofs |-> Gate[p][i].dofs]
       /\ \E d \in Holds(p) : \A q \in Holders(d) : p <= q
       /\ Pattern[p] \subseteq Holds(p) \X Holds(p)
       /\ Filtered[p] \subseteq Holds(p)
  /\ Program \in Seq({"init_symbolic", "init_numeric", "apply", "allgather", "done_symbolic"})

\* Symbolic initialisation comes first, and done_symbolic() before another one.
\* [base.hpp:237]
SetUp(t) == \E s \in 1 .. t : /\ Program[s] = "init_symbolic"
                            /\ \A u \in s + 1 .. t : Program[u] # "done_symbolic"

ASSUME LifeCycleAssumption ==
  \A t \in DOMAIN Program : Program[t] = "init_symbolic" <=> ~SetUp(t - 1)

VARIABLES eager,   \* whether sends are complete at once
          begun,   \* number of calls that p has begun
          at,      \* the collective or the round of messages p is in, "none" outside
          posted,  \* whether its sends of this round are posted
          recvs,   \* its active receives, by the positions of neighbours
          given,   \* what p has passed to the collectives, in their order
          chan,    \* chan[p][q]: what p has sent to q and q has not taken
          adp,     \* _alg_dof_parti
          bufs,    \* _donee_bufs: the rows of donees, as far as they are known
          matrix,  \* _adp_matrix: its entries, by owned row and global column
          vector   \* the vector that is downloaded or gathered

vars == <<eager, begun, at, posted, recvs, given, chan, adp, bufs, matrix, vector>>

NoNumber == -1  \* ~Index(0)
EmptyParti == [offset |-> 0, total |-> 0, number |-> <<>>, owned |-> <<>>,
               owner |-> <<>>, donee |-> <<>>, offsets |-> <<>>, counts |-> <<>>]
NoRows == [rows |-> 0, used |-> 0, row_ptr |-> <<>>, cols |-> <<>>]

Init ==
  /\ eager \in BOOLEAN
  /\ begun = [p \in Rank |-> 0]
  /\ at = [p \in Rank |-> "none"]
  /\ posted = [p \in Rank |-> FALSE]
  /\ recvs = [p \in Rank |-> {}]
  /\ given = [p \in Rank |-> <<>>]
  /\ chan = [p \in Rank |-> [q \in Rank |-> <<>>]]
  /\ adp = [p \in Rank |-> EmptyParti]
  /\ bufs = [p \in Rank |-> <<>>]
  /\ matrix = [p \in Rank |-> <<>>]
  /\ vector = [p \in Rank |-> <<>>]

----------------------------------------------------------------------------
(* Who owns what, as a process finds out from its gate.                    *)

\* Slip: the first neighbour with a lower rank is taken, not the lowest.
FirstOwner(p, d) ==
  LET lower == SelectSeq(Gate[p], LAMBDA m : m.rank < p /\ d \in ToSet(m.dofs))
  IN  IF lower = <<>> THEN p ELSE lower[1].rank

DofOwner(p, d) == Min({p} \cup {m.rank : m \in {g \in ToSet(Gate[p]) : d \in ToSet(g.dofs)}})

dof_owners == [p \in Rank |-> [d \in Holds(p) |-> DofOwner(p, d)]]

owned_dofs ==
  [p \in Rank |-> AtPlaces(Local[p], {k \in DOMAIN Local[p] : dof_owners[p][Local[p][k]] = p})]

own_dof_idx ==
  [p \in Rank |-> [d \in ToSet(owned_dofs[p]) |->
     CHOOSE k \in 0 .. Len(owned_dofs[p]) - 1 : owned_dofs[p][k + 1] = d]]

\* The DOFs of a mirror that q owns.
MirrorOf(p, m, q) == AtPlaces(m.dofs, {k \in DOMAIN m.dofs : dof_owners[p][m.dofs[k]] = q})

OwnerVidx(p, m) == MirrorOf(p, m, m.rank)

\* Slip: that p may not own a DOF of the mirror is not seen.
DoneeVidxAll(p, m) ==
  [k \in DOMAIN m.dofs |->
     IF dof_owners[p][m.dofs[k]] = p THEN own_dof_idx[p][m.dofs[k]] ELSE NoNumber]

DoneeVidx(p, m) ==
  LET mine == MirrorOf(p, m, p)
  IN  [k \in DOMAIN mine |-> own_dof_idx[p][mine[k]]]

owner_neighbours == [p \in Rank |->
  LET lower == AtPlaces(Gate[p], {i \in DOMAIN Gate[p] :
                 Gate[p][i].rank < p /\ OwnerVidx(p, Gate[p][i]) # <<>>})
  IN  [i \in DOMAIN lower |-> [rank |-> lower[i].rank, idx |-> OwnerVidx(p, lower[i])]]]

donee_neighbours == [p \in Rank |->
  LET higher == AtPlaces(Gate[p], {i \in DOMAIN Gate[p] :
                  Gate[p][i].rank > p /\ DoneeVidx(p, Gate[p][i]) # <<>>})
  IN  [i \in DOMAIN higher |-> [rank |-> higher[i].rank, idx |-> DoneeVidx(p, higher[i])]]]

----------------------------------------------------------------------------
(* Collectives: the k-th of a process is the k-th of all.                  *)

Call(p, value) == given' = [given EXCEPT ![p] = Append(@, value)]

Arrived(p, ranks) == \A q \in ranks : Len(given[q]) >= Len(given[p])

Gathered(p) == [q \in Rank |-> given[q][Len(given[p])]]

SumOver(ranks, f) == SumFunctionOnSet(f, ranks)

----------------------------------------------------------------------------
(* Rounds of messages: owners to donees, or donees to owners.              *)

ToDonees == {"numbers", "shared"}
ToOwners == {"dims", "rows", "cols", "values"}

SendsTo(p) == IF at[p] \in ToDonees THEN adp[p].donee ELSE adp[p].owner
ReceivesFrom(p) == IF at[p] \in ToDonees THEN adp[p].owner ELSE adp[p].donee

\* _asm_mat_buf(): the columns of the rows that the i-th owner-neighbour owns.
OwnerBuf(p, i) ==
  LET rows == adp[p].owner[i].idx
  IN  [k \in DOMAIN rows |-> {adp[p].number[e[2]] : e \in {f \in Pattern[p] : f[1] = rows[k]}}]

\* The value of p's local matrix in the row of d and the global column g.
LocalValue(p, d, g) ==
  SetToBag({<<p, e[1], e[2]>> : e \in {f \in Pattern[p] : f[1] = d /\ adp[p].number[f[2]] = g}})

\* AlgDofPartiVector::upload()
Uploaded(p) == [k \in 0 .. Len(adp[p].owned) - 1 |-> SetToBag({<<p, adp[p].owned[k + 1]>>})]

\* What p sends to the i-th of those it sends to.
Content(p, i) ==
  LET n == SendsTo(p)[i]
  IN  CASE at[p] = "numbers" -> [k \in DOMAIN n.idx |-> adp[p].offset + n.idx[k]]
        [] at[p] = "dims" ->
             [rows |-> Len(n.idx),
              used |-> SumOver(DOMAIN n.idx, [k \in DOMAIN n.idx |-> Cardinality(OwnerBuf(p, i)[k])])]
        [] at[p] = "rows" -> [k \in DOMAIN n.idx |-> Cardinality(OwnerBuf(p, i)[k])]
        [] at[p] = "cols" -> OwnerBuf(p, i)
        [] at[p] = "values" ->
             [k \in DOMAIN n.idx |-> [g \in OwnerBuf(p, i)[k] |-> LocalValue(p, n.idx[k], g)]]
        [] at[p] = "shared" -> [k \in DOMAIN n.idx |-> Uploaded(p)[n.idx[k]]]

\* isend() to each, in the order of the neighbours.
Message(p, i) == [id |-> begun[p], round |-> at[p], content |-> Content(p, i)]

Send(p) ==
  chan' = [chan EXCEPT ![p] = [q \in Rank |->
    @[q] \o AtPlaces([i \in DOMAIN SendsTo(p) |-> Message(p, i)],
                     {i \in DOMAIN SendsTo(p) : SendsTo(p)[i].rank = q})]]

SendsDone(p) == eager \/ \A q \in Rank : chan[p][q] = <<>>

\* What is in the buffer of donees after a message.
Received(p, b, content) ==
  CASE at[p] = "dims" -> [b EXCEPT !.rows = content.rows, !.used = content.used]
    [] at[p] = "rows" -> [b EXCEPT !.row_ptr = content]
    [] at[p] = "cols" -> [b EXCEPT !.cols = content]

\* wait_any() and then scatter: numbers are set, entries are added.
NumbersSet(p, i, content) ==
  LET idx == adp[p].owner[i].idx
  IN  [d \in DOMAIN adp[p].number |->
         IF d \in ToSet(idx) THEN content[CHOOSE k \in DOMAIN idx : idx[k] = d]
                             ELSE adp[p].number[d]]

EntriesAdded(p, i, content) ==
  LET idx == adp[p].owner[i].idx
  IN  [d \in Holds(p) |->
         IF d \in ToSet(idx) THEN vector[p][d] (+) content[CHOOSE k \in DOMAIN idx : idx[k] = d]
                             ELSE vector[p][d]]

ValuesAdded(p, i, content) ==
  LET idx == adp[p].donee[i].idx
      sent == UNION {{k} \X bufs[p][i].cols[k] : k \in DOMAIN idx}
  IN  [e \in DOMAIN matrix[p] |->
         LET new == {s \in sent : <<idx[s[1]], s[2]>> = e}
         IN  IF new = {} THEN matrix[p][e]
             ELSE LET s == CHOOSE s \in new : TRUE IN matrix[p][e] (+) content[s[1]][s[2]]]

\* _my_data_mir: the entries of owned rows that p's local matrix has as well.
MyData(p) ==
  {e \in DOMAIN matrix[p] : \E f \in Pattern[p] :
     f[1] = adp[p].owned[e[1] + 1] /\ adp[p].number[f[2]] = e[2]}

\* _upload_own(): the others keep what is in them.
OwnUploaded(p) ==
  [e \in DOMAIN matrix[p] |->
     IF e \in MyData(p) THEN LocalValue(p, adp[p].owned[e[1] + 1], e[2]) ELSE matrix[p][e]]

----------------------------------------------------------------------------

\* The check of filter_matrix(), with the number of DOFs of all processes.
IsMine(p, g) == g >= adp[p].offset /\ g < adp[p].offset + adp[p].total

FilteredRows(p) ==
  {adp[p].number[d] - adp[p].offset : d \in {c \in Filtered[p] : IsMine(p, adp[p].number[c])}}

Unit == SetToBag({<<>>})

\* filter_matrix()
FilterMatrix(p, m) ==
  [e \in DOMAIN m |->
     IF e[1] \notin FilteredRows(p) THEN m[e]
     ELSE IF e[2] = adp[p].offset + e[1] THEN Unit ELSE EmptyBag]

\* _assemble_structure(): the own rows, and those of donees by the owned indices of
\* the mirrors.
Structure(p) ==
  LET own == {s \in (0 .. Len(adp[p].owned) - 1) \X Pattern[p] :
                s[2][1] = adp[p].owned[s[1] + 1]}
  IN  {<<s[1], adp[p].number[s[2][2]]>> : s \in own}
      \cup UNION {UNION {{adp[p].donee[i].idx[k]} \X bufs[p][i].cols[k]
                           : k \in DOMAIN adp[p].donee[i].idx} : i \in DOMAIN adp[p].donee}

\* The receives of a round are posted.
Expect(p, n) == recvs' = [recvs EXCEPT ![p] = 1 .. n]

MayStart(p, call) == at[p] = "none" /\ begun[p] < Len(Program) /\ Program[begun[p] + 1] = call

Begin(p, where) ==
  /\ begun' = [begun EXCEPT ![p] = @ + 1]
  /\ at' = [at EXCEPT ![p] = where]

Goto(p, where) == at' = [at EXCEPT ![p] = where] /\ UNCHANGED begun

\* init_symbolic(): assemble_by_gate() calls exscan.
InitSymbolic(p) ==
  /\ MayStart(p, "init_symbolic") /\ Begin(p, "exscan")
  /\ Call(p, Len(owned_dofs[p]))
  /\ UNCHANGED <<eager, posted, recvs, chan, adp, bufs, matrix, vector>>

\* Slip: the number of own DOFs is added, too.
ScanInclusive(p) ==
  /\ at[p] = "exscan" /\ Arrived(p, 0 .. p - 1) /\ Goto(p, "allreduce")
  /\ adp' = [adp EXCEPT ![p].offset = SumOver(0 .. p, Gathered(p))]
  /\ Call(p, Len(owned_dofs[p]))
  /\ UNCHANGED <<eager, posted, recvs, chan, bufs, matrix, vector>>

\* exscan returns when all lower ranks have called it; rank 0 keeps what it had.
Scan(p) ==
  /\ at[p] = "exscan" /\ Arrived(p, 0 .. p - 1) /\ Goto(p, "allreduce")
  /\ adp' = [adp EXCEPT ![p].offset = IF p = 0 THEN @ ELSE SumOver(0 .. p - 1, Gathered(p))]
  /\ Call(p, Len(owned_dofs[p]))
  /\ UNCHANGED <<eager, posted, recvs, chan, bufs, matrix, vector>>

\* allreduce returns; neighbours are pushed to the lists, own DOFs get their
\* numbers, and receives for the other numbers are posted.
Reduce(p) ==
  /\ at[p] = "allreduce" /\ Arrived(p, Rank) /\ Goto(p, "numbers")
  /\ adp' = [adp EXCEPT
       ![p].total = SumOver(Rank, Gathered(p)),
       ![p].owned = owned_dofs[p],
       ![p].owner = @ \o owner_neighbours[p],
       ![p].donee = @ \o donee_neighbours[p],
       ![p].number = [d \in Holds(p) |->
         IF dof_owners[p][d] = p THEN adp[p].offset + own_dof_idx[p][d]
         ELSE IF d \in DOMAIN @ THEN @[d] ELSE NoNumber]]
  /\ Expect(p, Len(adp'[p].owner))
  /\ UNCHANGED <<eager, posted, given, chan, bufs, matrix, vector>>

\* The sends of a round follow when those of the round before are complete.  Before
\* they are processed, own values are set.
PostSends(p) ==
  /\ at[p] \in ToDonees \cup ToOwners /\ ~posted[p] /\ SendsDone(p)
  /\ Send(p)
  /\ posted' = [posted EXCEPT ![p] = TRUE]
  /\ matrix' = IF at[p] = "values" THEN [matrix EXCEPT ![p] = OwnUploaded(p)] ELSE matrix
  /\ vector' = IF at[p] = "shared"
                 THEN [vector EXCEPT ![p] = [d \in Holds(p) |->
                        IF dof_owners[p][d] = p THEN Uploaded(p)[own_dof_idx[p][d]] ELSE EmptyBag]]
                 ELSE vector
  /\ UNCHANGED <<eager, begun, at, recvs, given, adp, bufs>>

\* A posted receive gets the oldest message; what must be scattered waits for the
\* loop over wait_any(), after the sends.
Take(p, i) ==
  LET q == ReceivesFrom(p)[i].rank
      content == Head(chan[q][p]).content
  IN  /\ i \in recvs[p] /\ chan[q][p] # <<>>
      /\ at[p] \in {"numbers", "shared", "values"} => posted[p]
      /\ chan' = [chan EXCEPT ![q][p] = Tail(@)]
      /\ recvs' = [recvs EXCEPT ![p] = @ \ {i}]
      /\ adp' = IF at[p] = "numbers"
                  THEN [adp EXCEPT ![p].number = NumbersSet(p, i, content)] ELSE adp
      /\ bufs' = IF at[p] \in {"dims", "rows", "cols"}
                   THEN [bufs EXCEPT ![p][i] = Received(p, @, content)] ELSE bufs
      /\ matrix' = IF at[p] = "values"
                     THEN [matrix EXCEPT ![p] = ValuesAdded(p, i, content)] ELSE matrix
      /\ vector' = IF at[p] = "shared"
                     THEN [vector EXCEPT ![p] = EntriesAdded(p, i, content)] ELSE vector
      /\ UNCHANGED <<eager, begun, at, posted, given>>

AllReceived(p) == posted[p] /\ recvs[p] = {}

\* assemble_by_gate() returns; upload_symbolic() posts its first receives.
Numbered(p) ==
  /\ at[p] = "numbers" /\ AllReceived(p) /\ SendsDone(p) /\ Goto(p, "dims")
  /\ posted' = [posted EXCEPT ![p] = FALSE]
  /\ bufs' = [bufs EXCEPT ![p] = [i \in DOMAIN adp[p].donee |-> NoRows]]
  /\ Expect(p, Len(adp[p].donee))
  /\ UNCHANGED <<eager, given, chan, adp, matrix, vector>>

\* The next receives are posted before the sends of this round are awaited.
PostReceives(p) ==
  /\ at[p] \in {"dims", "rows"} /\ AllReceived(p)
  /\ Goto(p, IF at[p] = "dims" THEN "rows" ELSE "cols")
  /\ posted' = [posted EXCEPT ![p] = FALSE]
  /\ Expect(p, Len(adp[p].donee))
  /\ UNCHANGED <<eager, given, chan, adp, bufs, matrix, vector>>

\* upload_symbolic() and init_symbolic() return, with a matrix of zeros.
Structured(p) ==
  /\ at[p] = "cols" /\ AllReceived(p) /\ SendsDone(p) /\ Goto(p, "none")
  /\ posted' = [posted EXCEPT ![p] = FALSE]
  /\ matrix' = [matrix EXCEPT ![p] = [e \in Structure(p) |-> EmptyBag]]
  /\ UNCHANGED <<eager, recvs, given, chan, adp, bufs, vector>>

\* Slip: the matrix is not formatted.
InitNumericUnformatted(p) ==
  /\ MayStart(p, "init_numeric") /\ Begin(p, "values")
  /\ Expect(p, Len(adp[p].donee))
  /\ UNCHANGED <<eager, posted, given, chan, adp, bufs, matrix, vector>>

\* init_numeric(): upload_numeric() formats the matrix and posts its receives.
InitNumeric(p) ==
  /\ MayStart(p, "init_numeric") /\ Begin(p, "values")
  /\ matrix' = [matrix EXCEPT ![p] = [e \in DOMAIN @ |-> EmptyBag]]
  /\ Expect(p, Len(adp[p].donee))
  /\ UNCHANGED <<eager, posted, given, chan, adp, bufs, vector>>

\* upload_numeric() returns, and init_numeric() filters the matrix.
Assembled(p) ==
  /\ at[p] = "values" /\ AllReceived(p) /\ SendsDone(p) /\ Goto(p, "none")
  /\ posted' = [posted EXCEPT ![p] = FALSE]
  /\ matrix' = [matrix EXCEPT ![p] = FilterMatrix(p, @)]
  /\ UNCHANGED <<eager, recvs, given, chan, adp, bufs, vector>>

\* A solver uploads a vector, and downloads one: download() posts its receives.
Apply(p) ==
  /\ MayStart(p, "apply") /\ Begin(p, "shared")
  /\ Expect(p, Len(adp[p].owner))
  /\ UNCHANGED <<eager, posted, given, chan, adp, bufs, matrix, vector>>

\* download() returns.
Downloaded(p) ==
  /\ at[p] = "shared" /\ AllReceived(p) /\ SendsDone(p) /\ Goto(p, "none")
  /\ posted' = [posted EXCEPT ![p] = FALSE]
  /\ UNCHANGED <<eager, recvs, given, chan, adp, bufs, matrix, vector>>

\* done_symbolic(): matrix and partitioning are cleared.
DoneSymbolic(p) ==
  /\ MayStart(p, "done_symbolic") /\ Begin(p, "none")
  /\ adp' = [adp EXCEPT ![p] = EmptyParti]
  /\ bufs' = [bufs EXCEPT ![p] = <<>>]
  /\ matrix' = [matrix EXCEPT ![p] = <<>>]
  /\ UNCHANGED <<eager, posted, recvs, given, chan, vector>>

----------------------------------------------------------------------------
(* assemble_allgather() and AlgDofPartiVector::allgather(): three          *)
(* collectives, each of which needs all processes.                         *)

AllGather(p) ==
  /\ MayStart(p, "allgather") /\ Begin(p, "offsets")
  /\ Call(p, adp[p].offset)
  /\ UNCHANGED <<eager, posted, recvs, chan, adp, bufs, matrix, vector>>

LearnOffsets(p) ==
  /\ at[p] = "offsets" /\ Arrived(p, Rank) /\ Goto(p, "counts")
  /\ adp' = [adp EXCEPT ![p].offsets = Gathered(p)]
  /\ Call(p, Len(adp[p].owned))
  /\ UNCHANGED <<eager, posted, recvs, chan, bufs, matrix, vector>>

LearnCounts(p) ==
  /\ at[p] = "counts" /\ Arrived(p, Rank) /\ Goto(p, "full")
  /\ adp' = [adp EXCEPT ![p].counts = Gathered(p)]
  /\ Call(p, Uploaded(p))
  /\ UNCHANGED <<eager, posted, recvs, chan, bufs, matrix, vector>>

\* allgatherv: the values of q are put where q's numbers begin.
Gather(p) ==
  /\ at[p] = "full" /\ Arrived(p, Rank) /\ Goto(p, "none")
  /\ vector' = [vector EXCEPT ![p] = [g \in 0 .. adp[p].total - 1 |->
       LET k(q) == g - adp[p].offsets[q]
           from == CHOOSE q \in Rank : k(q) \in 0 .. adp[p].counts[q] - 1
       IN  Gathered(p)[from][k(from)]]]
  /\ UNCHANGED <<eager, posted, recvs, given, chan, adp, bufs, matrix>>

----------------------------------------------------------------------------
Step(p) ==
  \/ InitSymbolic(p) \/ Scan(p) \/ Reduce(p) \/ Numbered(p) \/ PostReceives(p) \/ Structured(p)
  \/ InitNumeric(p) \/ Assembled(p) \/ Apply(p) \/ Downloaded(p) \/ DoneSymbolic(p)
  \/ AllGather(p) \/ LearnOffsets(p) \/ LearnCounts(p) \/ Gather(p)
  \/ PostSends(p) \/ \E i \in recvs[p] : Take(p, i)

Next == \E p \in Rank : Step(p)

Spec == Init /\ [][Next]_vars

\* Processes run, and MPI delivers.
FairSpec == Spec /\ \A p \in Rank : WF_vars(Step(p))

----------------------------------------------------------------------------
(* Properties.                                                             *)

\* The numbers are those of one numbering: whoever knows the number of a DOF knows
\* the same one, and different DOFs have different numbers.
OneNumbering ==
  \A p, q \in Rank : \A d \in DOMAIN adp[p].number, c \in DOMAIN adp[q].number :
    LET n == adp[p].number[d]
        k == adp[q].number[c]
    IN  begun[p] = begun[q] /\ n # NoNumber /\ k # NoNumber => (n = k <=> d = c)

\* A message fulfils the receive it was meant for, though all have the same tag: it
\* has as many entries as the mirror of the receiver, and the rows that the
\* receiver was told of.
RightRound ==
  \A p \in Rank : \A i \in recvs[p] :
    LET from == ReceivesFrom(p)[i]
        m == Head(chan[from.rank][p])
        known == bufs[p][i]
    IN  chan[from.rank][p] # <<>> =>
          /\ m.id = begun[p] /\ m.round = at[p]
          /\ at[p] = "dims" => m.content.rows = Len(from.idx)
          /\ at[p] # "dims" => Len(m.content) = Len(from.idx)
          /\ at[p] = "cols" => \A k \in DOMAIN m.content : Cardinality(m.content[k]) = known.row_ptr[k]
          /\ at[p] = "values" => \A k \in DOMAIN m.content : DOMAIN m.content[k] = known.cols[k]

\* Nobody waits for ever, whether MPI has room for messages or not.
AllDone == <>(\A p \in Rank : begun[p] = Len(Program) /\ at[p] = "none")

----------------------------------------------------------------------------
(* What the calls promise, in terms of all processes.                      *)

AllDofs == UNION {Holds(p) : p \in Rank}

LowestHolder == [d \in AllDofs |-> Min(Holders(d))]

TrueOwned ==
  [p \in Rank |-> AtPlaces(Local[p], {k \in DOMAIN Local[p] : LowestHolder[Local[p][k]] = p})]

TrueRow ==
  [d \in AllDofs |->
     LET own == TrueOwned[LowestHolder[d]] IN (CHOOSE k \in DOMAIN own : own[k] = d) - 1]

\* Number of DOFs with a lower owner, or with the same and before d there.
TrueNumber ==
  [d \in AllDofs |-> TrueRow[d] + Cardinality({c \in AllDofs : LowestHolder[c] < LowestHolder[d]})]

\* In each row that p owns, an entry where any process has one, with the contribution
\* of each process once; filtered rows are unit rows.
TrueMatrix ==
  [p \in Rank |->
     LET key(f) == <<TrueRow[f[1]], TrueNumber[f[2]]>>
         entries == {f \in UNION {Pattern[q] : q \in Rank} : LowestHolder[f[1]] = p}
     IN  [k \in {key(f) : f \in entries} |->
            LET f == CHOOSE f \in entries : key(f) = k
            IN  IF f[1] \notin Filtered[p]
                  THEN SetToBag({<<q, f[1], f[2]>> : q \in {r \in Rank : f \in Pattern[r]}})
                ELSE IF f[1] = f[2] THEN Unit ELSE EmptyBag]]

TrueValue(d) == SetToBag({<<LowestHolder[d], d>>})

Outcome(t, p) ==
  CASE Program[t] = "init_symbolic" ->
         {<<[d \in Holds(p) |-> TrueNumber[d]], DOMAIN TrueMatrix[p]>>}
    [] Program[t] = "init_numeric" -> {TrueMatrix[p]}
    [] Program[t] = "apply" -> {[d \in Holds(p) |-> TrueValue(d)]}
    [] Program[t] = "allgather" ->
         {[g \in {TrueNumber[d] : d \in AllDofs} |->
             TrueValue(CHOOSE d \in AllDofs : TrueNumber[d] = g)]}
    [] Program[t] = "done_symbolic" -> {<<>>}

\* Whom p waits for: all, those that have rows of p, or those that own DOFs of p.
Partners(t, p) ==
  CASE Program[t] \in {"init_symbolic", "allgather"} -> Rank \ {p}
    [] Program[t] = "init_numeric" ->
         {q \in Rank \ {p} : \E d \in Holds(q) : LowestHolder[d] = p}
    [] Program[t] = "apply" -> {LowestHolder[d] : d \in Holds(p)} \ {p}
    [] Program[t] = "done_symbolic" -> {}

Result(p) ==
  IF begun[p] = 0 THEN {<<>>}
  ELSE IF at[p] # "none" THEN {}
  ELSE LET call == Program[begun[p]]
       IN  CASE call = "init_symbolic" -> {<<adp[p].number, DOMAIN matrix[p]>>}
             [] call = "init_numeric" -> {matrix[p]}
             [] call \in {"apply", "allgather"} -> {vector[p]}
             [] call = "done_symbolic" -> {adp[p].number}

\* The calls implement the promise of all exchanges: a process has its numbers and
\* rows, sums and entries, and not before those it needs have begun the same call.
Promise == INSTANCE NeighbourSum WITH
  N <- Len(Program),
  entered <- begun,
  result <- [p \in Rank |-> Result(p)]

ImplementsPromise == Promise!Spec
=============================================================================
