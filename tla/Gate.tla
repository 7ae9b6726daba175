-------------------------------- MODULE Gate --------------------------------
(***************************************************************************)
(* Gates know with whom a process shares which entries of a kind of vector *)
(* and how many share each: they synchronise vectors and multiply them.    *)
(* A process may have several gates (velocity and pressure, say), whose    *)
(* exchanges use one communicator.                                         *)
(*                                                                         *)
(* Processes build their gates on their own and run the same program of    *)
(* operations.  Contributions are counted in units, so that the share of   *)
(* an entry that from_1_to_0 leaves to each process is an integer.  What   *)
(* stands for the program's data: before sync_0, each process has a        *)
(* contribution of its own to each entry it holds; before sync_1 and dot,  *)
(* all who hold an entry have the same value for it.                       *)
(***************************************************************************)
EXTENDS SynchVector, FiniteSetsExt

CONSTANTS Kind,        \* the gates
          Holds,       \* Holds[g][p]: the entries of p's vectors
          Neighbours,  \* Neighbours[g][p]: with whom p shares some, in p's order
          Program,     \* the operations: records of op and gate
          Unit         \* the value of an entry, in units

SharesWith(g, p) == {q \in Rank \ {p} : Holds[g][p] \cap Holds[g][q] # {}}

ASSUME GateAssumption ==
  /\ Holds \in [Kind -> [Rank -> SUBSET Dof]]
  /\ Neighbours \in [Kind -> [Rank -> Seq(Rank)]]
  /\ \A g \in Kind, p \in Rank :
       /\ {Neighbours[g][p][i] : i \in DOMAIN Neighbours[g][p]} = SharesWith(g, p)
       /\ \A i, j \in DOMAIN Neighbours[g][p] :
            Neighbours[g][p][i] = Neighbours[g][p][j] => i = j
  /\ Program \in Seq([op : {"sync_0", "sync_1", "dot"}, gate : Kind])
  /\ Unit \in Nat

\* The share of an entry that each of those who hold it gets is an integer.
ASSUME UnitAssumption ==
  /\ IsFiniteSet(Rank)
  /\ \A g \in Kind, d \in Dof :
       {p \in Rank : d \in Holds[g][p]} # {} =>
         Unit % Cardinality({p \in Rank : d \in Holds[g][p]}) = 0

VARIABLES ranks,    \* _ranks of p's gates (_mirrors follows from them)
          freqs,    \* _freqs, before their inversion; <<>> as long as not compiled
          begun,    \* number of operations p has begun
          summing   \* p waits in an allreduce

gateVars == <<ranks, freqs>>
vars == <<ticket, target, chan, ranks, freqs, begun, summing>>

Init ==
  /\ VectorInit
  /\ ranks = [g \in Kind |-> [p \in Rank |-> <<>>]]
  /\ freqs = [g \in Kind |-> [p \in Rank |-> <<>>]]
  /\ begun = [p \in Rank |-> 0]
  /\ summing = [p \in Rank |-> FALSE]

\* What the assembly of a mirror for rank q finds.
MirrorOf(g, p, q) == Holds[g][p] \cap Holds[g][q]

Mirrors(g, p) == [i \in DOMAIN ranks[g][p] |-> MirrorOf(g, p, ranks[g][p][i])]

----------------------------------------------------------------------------
(* Building a gate.                                                        *)

Push(g, p) ==
  /\ Len(ranks[g][p]) < Len(Neighbours[g][p])
  /\ ranks' = [ranks EXCEPT ![g][p] = Append(@, Neighbours[g][p][Len(@) + 1])]
  /\ UNCHANGED <<freqs, begun, summing, vectorVars>>

\* Slip: count all the neighbours for each entry.
CountAll(g, p) == [d \in Holds[g][p] |-> 1 + Len(ranks[g][p])]

\* The vector of ones, plus one for each mirror that lists the entry.
Count(g, p) ==
  [d \in Holds[g][p] |-> 1 + Cardinality({i \in DOMAIN ranks[g][p] : d \in Mirrors(g, p)[i]})]

Compiled(g, p) == freqs[g][p] # <<>> \/ Holds[g][p] = {}

Compile(g, p) ==
  /\ Len(ranks[g][p]) = Len(Neighbours[g][p]) /\ ~Compiled(g, p)
  /\ freqs' = [freqs EXCEPT ![g][p] = Count(g, p)]
  /\ UNCHANGED <<ranks, begun, summing, vectorVars>>

----------------------------------------------------------------------------
(* Operations.                                                             *)

\* Contributions that p alone has: x[d] units to each of its entries.
Own(g, p, x) ==
  [d \in Dof |-> [r \in Rank |-> IF r = p /\ d \in Holds[g][p] THEN x[d] ELSE 0]]

\* component_product with the inverted frequencies, if there are neighbours.
Share(g, p, d) == IF ranks[g][p] = <<>> THEN Unit ELSE Unit \div freqs[g][p][d]

\* What an operation makes of the vector before it is communicated.
Weight(t, p, d) ==
  IF Program[t].op = "sync_0" THEN Unit ELSE Share(Program[t].gate, p, d)

Ready(p) ==
  /\ \A g \in Kind : Len(ranks[g][p]) = Len(Neighbours[g][p]) /\ Compiled(g, p)
  /\ ~ticket[p].open /\ ~summing[p]

Begin(p) == begun' = [begun EXCEPT ![p] = @ + 1]

\* sync_0 and sync_1: nothing to exchange without neighbours.
Sync(p) ==
  LET t == begun[p] + 1
      g == Program[t].gate
      x == Own(g, p, [d \in Holds[g][p] |-> Weight(t, p, d)])
  IN  /\ Ready(p) /\ t \in DOMAIN Program /\ Program[t].op # "dot"
      /\ Begin(p)
      /\ IF ranks[g][p] = <<>>
         THEN target' = [target EXCEPT ![p] = x] /\ UNCHANGED <<ticket, chan>>
         ELSE Construct(p, t, x, ranks[g][p], Mirrors(g, p))
      /\ UNCHANGED <<gateVars, summing>>

\* dot: the local product with the frequencies goes into an allreduce, on more
\* than one process.
Dot(p) ==
  LET t == begun[p] + 1
      g == Program[t].gate
  IN  /\ Ready(p) /\ t \in DOMAIN Program /\ Program[t].op = "dot"
      /\ Begin(p)
      /\ target' = [target EXCEPT ![p] = Own(g, p, [d \in Holds[g][p] |-> Share(g, p, d)])]
      /\ summing' = [summing EXCEPT ![p] = Rank # {p}]
      /\ UNCHANGED <<gateVars, ticket, chan>>

\* The contributions of all processes.
AllShares(g) ==
  [d \in Dof |-> [r \in Rank |-> IF d \in Holds[g][r] THEN Share(g, r, d) ELSE 0]]

\* The allreduce ends when all processes have entered it.
DotReturns(p) ==
  /\ summing[p]
  /\ \A q \in Rank : begun[q] >= begun[p]
  /\ target' = [target EXCEPT ![p] = AllShares(Program[begun[p]].gate)]
  /\ summing' = [summing EXCEPT ![p] = FALSE]
  /\ UNCHANGED <<gateVars, begun, ticket, chan>>

Exchange(p) ==
  /\ PostSend(p) \/ Return(p) \/ \E i \in DOMAIN ticket[p].ranks : Receive(p, i)
  /\ UNCHANGED <<gateVars, begun, summing>>

Step(p) ==
  \/ \E g \in Kind : Push(g, p) \/ Compile(g, p)
  \/ Sync(p) \/ Dot(p) \/ DotReturns(p) \/ Exchange(p)

Next == \E p \in Rank : Step(p)

Spec == Init /\ [][Next]_vars

\* Every process goes on as long as it can.
FairSpec == Spec /\ \A p \in Rank : WF_vars(Step(p))

----------------------------------------------------------------------------
(* Properties.                                                             *)

Sharers(g, d) == {p \in Rank : d \in Holds[g][p]}

Busy(p) == ticket[p].open \/ summing[p]

\* The result of an operation: of each entry, what all who hold it contribute.
Outcome(t, p) ==
  LET g == Program[t].gate
      mine == IF Program[t].op = "dot" THEN Dof ELSE Holds[g][p]
      part(d) == IF Program[t].op = "sync_0" THEN Unit ELSE Unit \div Cardinality(Sharers(g, d))
  IN  [d \in Dof |-> [r \in Rank |-> IF d \in mine \cap Holds[g][r] THEN part(d) ELSE 0]]

\* A process that has left an operation has the contributions of all who hold an
\* entry, each of them once, in whatever order they came, though neighbours may
\* have gone on already.
ResultsAreSums ==
  \A p \in Rank : ~Busy(p) /\ begun[p] > 0 => target[p] = Outcome(begun[p], p)

\* sync_1 gives back the vector it got, and dot counts each entry once: the
\* shares of an entry make up its value.
WholeAgain ==
  \A p \in Rank :
    ~Busy(p) /\ begun[p] > 0 /\ Program[begun[p]].op # "sync_0" =>
      \A d \in Holds[Program[begun[p]].gate][p] :
        MapThenSumSet(LAMBDA r : target[p][d][r], Rank) = Unit

\* A message is received by the operation it was sent for, though all have the
\* same tag and neighbours may be one operation ahead.
RightMatch ==
  \A p \in Rank : \A i \in ticket[p].recvs :
    LET q == ticket[p].ranks[i]
    IN  chan[q][p] # <<>> =>
          /\ Head(chan[q][p]).id = ticket[p].id
          /\ DOMAIN Head(chan[q][p]).buffer = ticket[p].mirrors[i]

\* When the last receive is fulfilled, all neighbours have posted the receives
\* that match the sends: wait_all finds them complete.
SendsAreMatched ==
  \A p \in Rank :
    ticket[p].open /\ AllSent(p) /\ ticket[p].recvs = {} =>
      \A i \in DOMAIN ticket[p].ranks : begun[ticket[p].ranks[i]] >= ticket[p].id

\* Neighbours run apart by one operation, so that at most two messages wait
\* between them.
TwoInFlight == \A p, q \in Rank : Len(chan[p][q]) <= 2

\* Nobody waits for ever.
AllDone == <>(\A p \in Rank : begun[p] = Len(Program) /\ ~Busy(p))

\* The operations implement the promise: what a process gets is made of the parts of
\* all who have one, each once, and it does not get it before they have begun the
\* same operation.  It may get it before others have.
Partners(t, p) ==
  IF Program[t].op = "dot" THEN Rank \ {p} ELSE SharesWith(Program[t].gate, p)

Promise == INSTANCE NeighbourSum WITH
  N <- Len(Program),
  entered <- begun,
  result <- [p \in Rank |-> IF Busy(p) THEN {} ELSE {target[p]}],
  Outcome <- LAMBDA t, p : {Outcome(t, p)}

ImplementsPromise == Promise!Spec
=============================================================================
