----------------------------- MODULE SynchMatrix ----------------------------
(***************************************************************************)
(* Type-0 matrices are converted to type-1 ones: each process adds to its  *)
(* entries what its neighbours have for the same entries.  Sparsity        *)
(* patterns differ, so that neighbours first tell each other what they     *)
(* will send - sizes, row pointers and column indices, in three rounds -   *)
(* and then send the values.                                               *)
(*                                                                         *)
(* All messages between two processes have the same tag; MPI delivers them *)
(* in their order.  A send is complete when the message is taken, or at    *)
(* once if MPI has room for it.  As in SynchVector, an entry is kept as    *)
(* the function that says how much of each process' value is in it.        *)
(***************************************************************************)
EXTENDS Communicator, Naturals, Sequences, FiniteSets

CONSTANTS Dof,         \* rows and columns of the global matrices
          Holds,       \* Holds[p]: the ones that p has
          Neighbours,  \* Neighbours[p]: with whom p shares some, in p's order
          Pattern,     \* Pattern[m][p]: where p's part of matrix m may be non-zero
          Program      \* the matrices that are converted, one after the other

SharesWith(p) == {q \in Rank \ {p} : Holds[p] \cap Holds[q] # {}}

ASSUME MatrixAssumption ==
  /\ Holds \in [Rank -> SUBSET Dof]
  /\ Neighbours \in [Rank -> Seq(Rank)]
  /\ \A p \in Rank :
       /\ {Neighbours[p][i] : i \in DOMAIN Neighbours[p]} = SharesWith(p)
       /\ \A i, j \in DOMAIN Neighbours[p] : Neighbours[p][i] = Neighbours[p][j] => i = j
  /\ Program \in Seq(DOMAIN Pattern)
  /\ \A m \in DOMAIN Pattern, p \in Rank : Pattern[m][p] \subseteq Holds[p] \X Holds[p]

VARIABLES eager,   \* whether sends are complete at once
          begun,   \* number of conversions that p has begun
          at,      \* its round: dimensions, row pointers, columns, values; 0 outside
          posted,  \* whether its sends of this round are posted
          recvs,   \* its active receives, by the positions of neighbours
          buf,     \* _recv_bufs: the pattern and the size that are known of each
          target,  \* the matrix
          chan     \* chan[p][q]: what p has sent to q and q has not taken

vars == <<eager, begun, at, posted, recvs, buf, target, chan>>

NoBuffer == [rows |-> 0, used |-> 0, row_ptr |-> <<>>, col_ind |-> {}]

Init ==
  /\ eager \in BOOLEAN
  /\ begun = [p \in Rank |-> 0]
  /\ at = [p \in Rank |-> 0]
  /\ posted = [p \in Rank |-> FALSE]
  /\ recvs = [p \in Rank |-> {}]
  /\ buf = [p \in Rank |-> <<>>]
  /\ target = [p \in Rank |-> <<>>]
  /\ chan = [p \in Rank |-> [q \in Rank |-> <<>>]]

----------------------------------------------------------------------------
Matrix(p) == Program[begun[p]]

Mirror(p, i) == Holds[p] \cap Holds[Neighbours[p][i]]

\* _create_buffer_graph(): the part of p's pattern that the mirror has.
Buffer(p, i) == Pattern[Matrix(p)][p] \cap (Mirror(p, i) \X Mirror(p, i))

RowPtr(p, i) == [d \in Mirror(p, i) |-> Cardinality({e \in Buffer(p, i) : e[1] = d})]

\* gather()
Gather(p, i) == [e \in Buffer(p, i) |-> target[p][e]]

\* What p sends to its i-th neighbour.
Content(p, i) ==
  CASE at[p] = 1 -> [rows |-> Cardinality(Mirror(p, i)), used |-> Cardinality(Buffer(p, i))]
    [] at[p] = 2 -> RowPtr(p, i)
    [] at[p] = 3 -> Buffer(p, i)
    [] at[p] = 4 -> Gather(p, i)

\* Slip: the buffer is allocated with the dimensions of what p sends.
ReceivedOwn(p, i, b, content) ==
  CASE at[p] = 1 -> [b EXCEPT !.rows = Cardinality(Mirror(p, i)), !.used = Cardinality(Buffer(p, i))]
    [] at[p] = 2 -> [b EXCEPT !.row_ptr = content]
    [] at[p] = 3 -> [b EXCEPT !.col_ind = content]
    [] at[p] = 4 -> b

\* What p knows of its i-th neighbour's part, b so far, after a message.
Received(p, i, b, content) ==
  CASE at[p] = 1 -> [b EXCEPT !.rows = content.rows, !.used = content.used]
    [] at[p] = 2 -> [b EXCEPT !.row_ptr = content]
    [] at[p] = 3 -> [b EXCEPT !.col_ind = content]
    [] at[p] = 4 -> b

AddTo(t, u) == [r \in Rank |-> t[r] + u[r]]

\* scatter_axpy(): what p's own pattern lacks is not found, and left out.
ScatterAxpy(t, u) == [e \in DOMAIN t |-> IF e \in DOMAIN u THEN AddTo(t[e], u[e]) ELSE t[e]]

All(p) == DOMAIN Neighbours[p]

\* wait_all() for the sends has nothing to wait for.
SendsDone(p) == eager \/ \A q \in Rank : chan[p][q] = <<>>

\* isend() to each neighbour.
Send(p) ==
  chan' = [chan EXCEPT ![p] = [q \in Rank |->
    @[q] \o (IF q \in SharesWith(p)
               THEN LET i == CHOOSE i \in All(p) : Neighbours[p][i] = q
                    IN  <<[id |-> begun[p], round |-> at[p], content |-> Content(p, i)]>>
               ELSE <<>>)]]

----------------------------------------------------------------------------
\* synch_matrix(): the ticket is made, init() makes its send buffers and posts the
\* receives of the first round.  The matrix has p's own contributions.
Start(p) ==
  /\ at[p] = 0 /\ begun[p] < Len(Program)
  /\ begun' = [begun EXCEPT ![p] = @ + 1]
  /\ at' = [at EXCEPT ![p] = 1]
  /\ recvs' = [recvs EXCEPT ![p] = All(p)]
  /\ buf' = [buf EXCEPT ![p] = [i \in All(p) |-> NoBuffer]]
  /\ target' = [target EXCEPT ![p] =
       [e \in Pattern[Program[begun'[p]]][p] |-> [r \in Rank |-> IF r = p THEN 1 ELSE 0]]]
  /\ UNCHANGED <<eager, posted, chan>>

\* Slip: a request is used again before its send is complete.
PostSendsUnwaited(p) ==
  /\ at[p] # 0 /\ ~posted[p]
  /\ Send(p)
  /\ posted' = [posted EXCEPT ![p] = TRUE]
  /\ UNCHANGED <<eager, begun, at, recvs, buf, target>>

\* Slip: the receives of a round are awaited before its sends are posted.
PostSendsLate(p) ==
  /\ at[p] # 0 /\ ~posted[p] /\ SendsDone(p) /\ recvs[p] = {}
  /\ Send(p)
  /\ posted' = [posted EXCEPT ![p] = TRUE]
  /\ UNCHANGED <<eager, begun, at, recvs, buf, target>>

\* The sends of a round follow when those of the round before are complete.
PostSends(p) ==
  /\ at[p] # 0 /\ ~posted[p] /\ SendsDone(p)
  /\ Send(p)
  /\ posted' = [posted EXCEPT ![p] = TRUE]
  /\ UNCHANGED <<eager, begun, at, recvs, buf, target>>

TakeFrom(p, i) ==
  LET q == Neighbours[p][i]
      content == Head(chan[q][p]).content
  IN  /\ i \in recvs[p] /\ chan[q][p] # <<>>
      /\ chan' = [chan EXCEPT ![q][p] = Tail(@)]
      /\ recvs' = [recvs EXCEPT ![p] = @ \ {i}]
      /\ buf' = [buf EXCEPT ![p][i] = Received(p, i, @, content)]
      /\ target' = IF at[p] = 4 THEN [target EXCEPT ![p] = ScatterAxpy(@, content)] ELSE target
      /\ UNCHANGED <<eager, begun, at, posted>>

\* Slip: values are added while others are still to be gathered.
TakeAtOnce(p, i) == TakeFrom(p, i)

\* A posted receive gets the oldest message.  Values are added by the loop over
\* wait_any(), after the sends.
Take(p, i) == (at[p] = 4 => posted[p]) /\ TakeFrom(p, i)

\* Slip: the next receives are posted while some of this round are active.
PostReceivesUnwaited(p) ==
  /\ at[p] \in 1 .. 3 /\ posted[p]
  /\ at[p] = 3 => SendsDone(p)
  /\ at' = [at EXCEPT ![p] = @ + 1]
  /\ recvs' = [recvs EXCEPT ![p] = All(p)]
  /\ posted' = [posted EXCEPT ![p] = FALSE]
  /\ UNCHANGED <<eager, begun, buf, target, chan>>

\* wait_all() for the receives returns, and those of the next round are posted:
\* in init() before it waits for the sends, in exec() after init() has.
PostReceives(p) ==
  /\ at[p] \in 1 .. 3 /\ posted[p] /\ recvs[p] = {}
  /\ at[p] = 3 => SendsDone(p)
  /\ at' = [at EXCEPT ![p] = @ + 1]
  /\ recvs' = [recvs EXCEPT ![p] = All(p)]
  /\ posted' = [posted EXCEPT ![p] = FALSE]
  /\ UNCHANGED <<eager, begun, buf, target, chan>>

\* exec() and synch_matrix() return.
Return(p) ==
  /\ at[p] = 4 /\ posted[p] /\ recvs[p] = {} /\ SendsDone(p)
  /\ at' = [at EXCEPT ![p] = 0]
  /\ posted' = [posted EXCEPT ![p] = FALSE]
  /\ UNCHANGED <<eager, begun, recvs, buf, target, chan>>

Step(p) ==
  \/ Start(p)
  \/ PostSends(p)
  \/ \E i \in All(p) : Take(p, i)
  \/ PostReceives(p)
  \/ Return(p)

Next == \E p \in Rank : Step(p)

Spec == Init /\ [][Next]_vars

\* Processes run, and MPI delivers.
FairSpec == Spec /\ \A p \in Rank : WF_vars(Step(p))

----------------------------------------------------------------------------
(* Properties.                                                             *)

\* A message fulfils the receive it was meant for, that of the same matrix and round,
\* though all have the same tag and the neighbour may be one round ahead.
RightRound ==
  \A p \in Rank : \A i \in recvs[p] :
    LET q == Neighbours[p][i]
    IN  chan[q][p] # <<>> => Head(chan[q][p]).id = begun[p] /\ Head(chan[q][p]).round = at[p]

\* A receive has the room, and its values the places, that the rounds before have told.
RightPlaces ==
  \A p \in Rank : \A i \in recvs[p] :
    LET q == Neighbours[p][i]
        content == Head(chan[q][p]).content
        known == buf[p][i]
    IN  chan[q][p] # <<>> =>
          /\ at[p] = 2 => Cardinality(DOMAIN content) = known.rows
          /\ at[p] = 3 =>
               /\ Cardinality(content) = known.used
               /\ \A d \in DOMAIN known.row_ptr :
                    known.row_ptr[d] = Cardinality({e \in content : e[1] = d})
          /\ at[p] = 4 => DOMAIN content = known.col_ind

\* A request is null when it is given the next send, as its assignment asserts:
\* without room in MPI one message is under way between two processes, and with
\* room there are two, as neighbours run apart by one round.
OneSendEach ==
  \A p, q \in Rank : Len(chan[p][q]) <= IF eager THEN 2 ELSE 1

\* Nobody waits for ever, whether MPI has room for messages or not.
AllDone == <>(\A p \in Rank : begun[p] = Len(Program) /\ at[p] = 0)

\* The type-1 matrix of p: of each entry of its own pattern, what all who have
\* this entry contribute, each once.
Outcome(t, p) ==
  LET has == Pattern[Program[t]]
  IN  {[e \in has[p] |-> [r \in Rank |-> IF e \in has[r] THEN 1 ELSE 0]]}

\* A conversion implements the promise of all exchanges: the sum has the parts of all
\* neighbours, each once, and is not there before they have begun the same conversion.
Promise == INSTANCE NeighbourSum WITH
  N <- Len(Program),
  entered <- begun,
  result <- [p \in Rank |-> IF at[p] # 0 THEN {} ELSE {target[p]}],
  Partners <- LAMBDA t, p : SharesWith(p)

ImplementsPromise == Promise!Spec
=============================================================================
