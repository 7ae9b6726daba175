----------------------------- MODULE SynchVector ----------------------------
(***************************************************************************)
(* The exchange behind a type-0 vector's synchronisation: a ticket posts a *)
(* receive from each neighbour, gathers and sends the entries shared with  *)
(* each of them, and wait() adds what it receives, in the order in which   *)
(* it comes.                                                               *)
(*                                                                         *)
(* An entry of a vector is kept as the function that says how much of each *)
(* process' contribution is in it.  The messages between two processes     *)
(* have all the same tag, and MPI delivers them in the order in which they *)
(* were sent: a receive takes the first one, be it meant for it or not.    *)
(***************************************************************************)
EXTENDS Naturals, Sequences

CONSTANTS Rank,    \* the processes of the communicator
          Dof      \* the entries of the global vectors

VARIABLES ticket,  \* the ticket of a process
          target,  \* the vector a process synchronises: _target
          chan     \* chan[p][q]: what p has sent to q and q has not taken

vectorVars == <<ticket, target, chan>>

NoTicket == [open |-> FALSE, id |-> 0, ranks |-> <<>>, mirrors |-> <<>>,
             sent |-> 0, recvs |-> {}]

VectorInit ==
  /\ ticket = [p \in Rank |-> NoTicket]
  /\ target = [p \in Rank |-> [d \in Dof |-> [r \in Rank |-> 0]]]
  /\ chan = [p \in Rank |-> [q \in Rank |-> <<>>]]

Mirror(p, i) == ticket[p].mirrors[i]

\* _mirrors.at(i).gather(buffer, _target)
Gather(p, i) == [d \in Mirror(p, i) |-> target[p][d]]

\* Slip: scatter without axpy.
ScatterOver(p, i, buffer) ==
  [d \in Dof |-> IF d \in Mirror(p, i) \cap DOMAIN buffer THEN buffer[d] ELSE target[p][d]]

\* _mirrors.at(i).scatter_axpy(_target, buffer); a message that does not match the
\* mirror (see RightMatch) gives the entries it has.
ScatterAxpy(p, i, buffer) ==
  [d \in Dof |-> IF d \in Mirror(p, i) \cap DOMAIN buffer
                 THEN [r \in Rank |-> target[p][d][r] + buffer[d][r]]
                 ELSE target[p][d]]

----------------------------------------------------------------------------
\* The constructor up to its first send: x is the vector, and all receives are
\* posted.
Construct(p, id, x, ranks, mirrors) ==
  /\ target' = [target EXCEPT ![p] = x]
  /\ ticket' = [ticket EXCEPT ![p] =
                  [open |-> TRUE, id |-> id, ranks |-> ranks, mirrors |-> mirrors,
                   sent |-> 0, recvs |-> DOMAIN ranks]]
  /\ UNCHANGED chan

AllSent(p) == ticket[p].sent = Len(ticket[p].ranks)

\* Slip: post the receives after the sends, and block in a send until the
\* other side has posted its receive.
PostBlockingSend(p) ==
  /\ ticket[p].open /\ ~AllSent(p)
  /\ LET i == ticket[p].sent + 1
         q == ticket[p].ranks[i]
     IN  /\ ticket[q].open /\ AllSent(q)
         /\ chan' = [chan EXCEPT ![p][q] = Append(@, [id |-> ticket[p].id,
                                                      buffer |-> Gather(p, i)])]
         /\ ticket' = [ticket EXCEPT ![p].sent = i]
  /\ UNCHANGED target

\* Gather and send to the next neighbour.
PostSend(p) ==
  /\ ticket[p].open /\ ~AllSent(p)
  /\ LET i == ticket[p].sent + 1
         q == ticket[p].ranks[i]
     IN  /\ chan' = [chan EXCEPT ![p][q] = Append(@, [id |-> ticket[p].id,
                                                      buffer |-> Gather(p, i)])]
         /\ ticket' = [ticket EXCEPT ![p].sent = i]
  /\ UNCHANGED target

\* Slip: exchange with one neighbour after the other in one loop, which gathers
\* what was received from the neighbours before.
ReceiveInLoop(p, i) ==
  /\ ticket[p].open /\ i <= ticket[p].sent
  /\ i \in ticket[p].recvs
  /\ LET q == ticket[p].ranks[i]
     IN  /\ chan[q][p] # <<>>
         /\ target' = [target EXCEPT ![p] = ScatterAxpy(p, i, Head(chan[q][p]).buffer)]
         /\ chan' = [chan EXCEPT ![q][p] = Tail(@)]
  /\ ticket' = [ticket EXCEPT ![p].recvs = @ \ {i}]

\* Slip: take the newest message.
ReceiveNewest(p, i) ==
  /\ ticket[p].open /\ AllSent(p)
  /\ i \in ticket[p].recvs
  /\ LET q == ticket[p].ranks[i]
         last == chan[q][p][Len(chan[q][p])]
     IN  /\ chan[q][p] # <<>>
         /\ target' = [target EXCEPT ![p] = ScatterAxpy(p, i, last.buffer)]
         /\ chan' = [chan EXCEPT ![q][p] = SubSeq(@, 1, Len(@) - 1)]
  /\ ticket' = [ticket EXCEPT ![p].recvs = @ \ {i}]

\* wait(): wait_any returns the index of a receive that is fulfilled.
Receive(p, i) ==
  /\ ticket[p].open /\ AllSent(p)
  /\ i \in ticket[p].recvs
  /\ LET q == ticket[p].ranks[i]
     IN  /\ chan[q][p] # <<>>
         /\ target' = [target EXCEPT ![p] = ScatterAxpy(p, i, Head(chan[q][p]).buffer)]
         /\ chan' = [chan EXCEPT ![q][p] = Tail(@)]
  /\ ticket' = [ticket EXCEPT ![p].recvs = @ \ {i}]

\* Slip: return when the first receive is fulfilled.
ReturnEarly(p) ==
  /\ ticket[p].open /\ AllSent(p) /\ ticket[p].recvs # DOMAIN ticket[p].ranks
  /\ ticket' = [ticket EXCEPT ![p] = NoTicket]
  /\ UNCHANGED <<target, chan>>

\* wait_any finds no active receive; the sends are complete (see
\* SendsAreMatched), and the ticket is destroyed.
Return(p) ==
  /\ ticket[p].open /\ AllSent(p) /\ ticket[p].recvs = {}
  /\ ticket' = [ticket EXCEPT ![p] = NoTicket]
  /\ UNCHANGED <<target, chan>>
=============================================================================
