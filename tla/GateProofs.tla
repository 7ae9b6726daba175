----------------------------- MODULE GateProofs -----------------------------
(***************************************************************************)
(* Gates give the right sums, for all numbers of processes, kinds of gates *)
(* and programs of operations, in whatever order messages come.            *)
(*                                                                         *)
(* An operation t is used by two processes if they exchange entries in it. *)
(* The channel between them holds the operations that one has sent for and *)
(* the other has not taken, in the order of the program.                   *)
(***************************************************************************)
EXTENDS Gate, DataLemmas, FiniteSetTheorems

GateOf(t) == Program[t].gate

Uses(t, p, q) ==
  t \in DOMAIN Program /\ Program[t].op # "dot" /\ q \in SharesWith(GateOf(t), p)

\* p has sent to q what q needs in operation t.
HasSent(p, q, t) ==
  /\ Uses(t, p, q)
  /\ \/ t < begun[p]
     \/ t = begun[p] /\ (ticket[p].open => \E i \in 1 .. ticket[p].sent : ticket[p].ranks[i] = q)

\* p has taken what it needs from q in operation t.
HasTaken(p, q, t) ==
  /\ Uses(t, p, q)
  /\ \/ t < begun[p]
     \/ t = begun[p] /\ \A i \in ticket[p].recvs : ticket[p].ranks[i] # q

\* What is in an entry of those who hold it before operation t.
Worth(t, d) ==
  IF Program[t].op = "sync_0" THEN Unit
  ELSE Unit \div Cardinality(Sharers(GateOf(t), d))

\* What p sends to q in operation t.
Part(t, p, q) ==
  [d \in MirrorOf(GateOf(t), p, q) |-> [r \in Rank |-> IF r = p THEN Worth(t, d) ELSE 0]]

\* What p has added up in its operation t.
SumSoFar(p, t) ==
  [d \in Dof |-> [r \in Rank |->
    IF d \in Holds[GateOf(t)][p] \cap Holds[GateOf(t)][r] /\ (r = p \/ HasTaken(p, r, t))
    THEN Worth(t, d) ELSE 0]]

----------------------------------------------------------------------------
(* The invariant.                                                          *)

Shape ==
  /\ ranks = [g \in Kind |-> [p \in Rank |-> ranks[g][p]]]
  /\ freqs = [g \in Kind |-> [p \in Rank |-> freqs[g][p]]]
  /\ begun \in [Rank -> 0 .. Len(Program)]
  /\ summing \in [Rank -> BOOLEAN]
  /\ ticket = [p \in Rank |-> ticket[p]]
  /\ target = [p \in Rank |-> target[p]]
  /\ chan = [p \in Rank |-> [q \in Rank |-> chan[p][q]]]
  /\ \A p, q \in Rank : IsSeq(chan[p][q])

Built(g, p) ==
  ranks[g][p] = Neighbours[g][p] /\ (freqs[g][p] # <<>> \/ Holds[g][p] = {})

\* A gate knows neighbours in their order, and how many share an entry once it is compiled;
\* operations begin when all gates of the process are built.
Grown(g, p) ==
  /\ ranks[g][p] \in Seq(Rank)
  /\ Len(ranks[g][p]) <= Len(Neighbours[g][p])
  /\ \A i \in 1 .. Len(ranks[g][p]) : ranks[g][p][i] = Neighbours[g][p][i]
  /\ freqs[g][p] # <<>> =>
       freqs[g][p] = [d \in Holds[g][p] |-> Cardinality(Sharers(g, d))]
  /\ begun[p] > 0 => Built(g, p)

GatesGrow == \A g \in Kind, p \in Rank : Grown(g, p)

OpenTicket(p) ==
  LET near == Neighbours[GateOf(begun[p])][p]
  IN  /\ begun[p] > 0 /\ Program[begun[p]].op # "dot"
      /\ ticket[p] = [open |-> TRUE, id |-> begun[p], ranks |-> near,
                      mirrors |-> [i \in DOMAIN near |-> MirrorOf(GateOf(begun[p]), p, near[i])],
                      sent |-> ticket[p].sent, recvs |-> ticket[p].recvs]
      /\ ticket[p].sent \in 0 .. Len(near)
      /\ ticket[p].recvs \subseteq DOMAIN near
      /\ ticket[p].sent < Len(near) => ticket[p].recvs = DOMAIN near

Tickets ==
  \A p \in Rank :
    /\ ticket[p] = NoTicket \/ OpenTicket(p)
    /\ summing[p] => begun[p] > 0 /\ Program[begun[p]].op = "dot"

\* The channel from p to q.
Channel(p, q) ==
  LET c == chan[p][q]
  IN  /\ \A k \in 1 .. Len(c) :
           /\ HasSent(p, q, c[k].id) /\ ~HasTaken(q, p, c[k].id)
           /\ c[k].buffer = Part(c[k].id, p, q)
      /\ \A k, l \in 1 .. Len(c) : k < l => c[k].id < c[l].id
      /\ \A t \in DOMAIN Program :
           HasSent(p, q, t) /\ ~HasTaken(q, p, t) => \E k \in 1 .. Len(c) : c[k].id = t
      /\ \A t \in DOMAIN Program : HasTaken(q, p, t) => HasSent(p, q, t)

Channels == \A p, q \in Rank : Channel(p, q)

Sums ==
  \A p \in Rank : begun[p] > 0 =>
    /\ Program[begun[p]].op # "dot" => target[p] = SumSoFar(p, begun[p])
    /\ Program[begun[p]].op = "dot" /\ ~summing[p] => target[p] = Outcome(begun[p], p)

Inv == Shape /\ GatesGrow /\ Tickets /\ Channels /\ Sums

----------------------------------------------------------------------------
(* Neighbours, and who shares an entry.                                    *)

\* A list of neighbours has each process that something is shared with, once.
LEMMA NeighboursMeet ==
  ASSUME NEW g \in Kind, NEW p \in Rank
  PROVE  LET near == Neighbours[g][p]
         IN  /\ near \in Seq(Rank)
             /\ \A i \in DOMAIN near : near[i] \in SharesWith(g, p)
             /\ \A q \in SharesWith(g, p) : \E i \in DOMAIN near : near[i] = q
             /\ \A i, j \in DOMAIN near : near[i] = near[j] => i = j
<1> DEFINE near == Neighbours[g][p]
<1>1. near \in Seq(Rank)
  BY GateAssumption
<1>2. {near[i] : i \in DOMAIN near} = SharesWith(g, p)
  BY GateAssumption
<1>3. \A i, j \in DOMAIN near : near[i] = near[j] => i = j
  BY GateAssumption
<1> QED
  BY <1>1, <1>2, <1>3

\* Sharing is mutual.
LEMMA SharingIsMutual ==
  ASSUME NEW g, NEW p \in Rank, NEW q \in SharesWith(g, p)
  PROVE  q \in Rank /\ q # p /\ p \in SharesWith(g, q)
BY DEF SharesWith

\* An operation is one of the program, with one of the gates.
LEMMA OperationsHaveGates ==
  ASSUME NEW t \in DOMAIN Program
  PROVE  /\ GateOf(t) \in Kind /\ t \in Nat /\ t > 0
         /\ Program[t].op \in {"sync_0", "sync_1", "dot"}
<1>1. Program \in Seq([op : {"sync_0", "sync_1", "dot"}, gate : Kind])
  BY GateAssumption
<1>2. t \in 1 .. Len(Program) /\ Len(Program) \in Nat
  BY <1>1
<1>3. Program[t] \in [op : {"sync_0", "sync_1", "dot"}, gate : Kind]
  BY <1>1, SeqElement
<1> QED
  BY <1>2, <1>3 DEF GateOf

\* The mirrors that list an entry are as many as there are others who hold it.
LEMMA SharersAreNeighbours ==
  ASSUME NEW g \in Kind, NEW p \in Rank, NEW d \in Holds[g][p]
  PROVE  LET near == Neighbours[g][p]
             listed == {i \in DOMAIN near : d \in MirrorOf(g, p, near[i])}
         IN  /\ 1 + Cardinality(listed) = Cardinality(Sharers(g, d))
             /\ Cardinality(listed) \in Nat
<1> DEFINE near == Neighbours[g][p]
           listed == {i \in DOMAIN near : d \in MirrorOf(g, p, near[i])}
           others == Sharers(g, d) \ {p}
           place == [i \in listed |-> near[i]]
<1>1. IsFiniteSet(listed)
  <2>1. listed \subseteq 1 .. Len(near) /\ Len(near) \in Nat
    BY NeighboursMeet
  <2> QED
    BY <2>1, FS_Interval, FS_Subset
<1>2. place \in Bijection(listed, others)
  <2>1. \A i \in listed : place[i] \in others
    <3> TAKE i \in listed
    <3>1. near[i] \in SharesWith(g, p) /\ d \in Holds[g][near[i]]
      BY NeighboursMeet DEF MirrorOf
    <3> QED
      BY <3>1, SharingIsMutual DEF Sharers
  <2>2. \A q \in others : \E i \in listed : place[i] = q
    <3> TAKE q \in others
    <3>1. q \in SharesWith(g, p)
      BY DEF Sharers, SharesWith
    <3>2. PICK i \in DOMAIN near : near[i] = q
      BY <3>1, NeighboursMeet
    <3>3. i \in listed
      BY <3>2 DEF MirrorOf, Sharers
    <3> QED
      BY <3>2, <3>3
  <2>3. \A i, j \in listed : place[i] = place[j] => i = j
    BY NeighboursMeet
  <2> HIDE DEF listed, others
  <2> QED
    BY <2>1, <2>2, <2>3 DEF Bijection, Injection, Surjection, IsInjective
<1>3. IsFiniteSet(others) /\ Cardinality(others) = Cardinality(listed)
  <2> HIDE DEF listed, others, place
  <2>1. ExistsBijection(listed, others)
    BY <1>2 DEF ExistsBijection
  <2> QED
    BY <1>1, <2>1, FS_Bijection
<1>4. Cardinality(others \cup {p}) = Cardinality(others) + 1
  BY <1>3, FS_AddElement
<1>5. others \cup {p} = Sharers(g, d)
  BY DEF Sharers
<1>6. 1 + Cardinality(listed) = Cardinality(Sharers(g, d)) /\ Cardinality(listed) \in Nat
  <2>1. Cardinality(listed) \in Nat
    BY <1>1, FS_CardinalityType
  <2>2. Cardinality(Sharers(g, d)) = Cardinality(others) + 1
    BY <1>4, <1>5
  <2> HIDE DEF listed, others
  <2> QED
    BY <1>3, <2>1, <2>2
<1> QED
  BY <1>6

\* Shares are numbers.
LEMMA WorthIsNumber ==
  ASSUME NEW t \in DOMAIN Program, NEW p \in Rank, NEW d \in Holds[GateOf(t)][p]
  PROVE  Worth(t, d) \in Nat
<1>1. Cardinality(Sharers(GateOf(t), d)) \in Nat \ {0}
  <2> DEFINE near == Neighbours[GateOf(t)][p]
             listed == {i \in DOMAIN near : d \in MirrorOf(GateOf(t), p, near[i])}
  <2>1. /\ 1 + Cardinality(listed) = Cardinality(Sharers(GateOf(t), d))
        /\ Cardinality(listed) \in Nat
    BY SharersAreNeighbours, OperationsHaveGates
  <2> HIDE DEF listed
  <2> QED
    BY <2>1
<1>2. Unit \in Nat
  BY GateAssumption
<1>3. \A n \in Nat \ {0} : Unit \div n \in Nat
  BY <1>2
<1> QED
  BY <1>1, <1>2, <1>3 DEF Worth

\* What a process with a gate that is built makes of the vector.
LEMMA ShareIsPart ==
  ASSUME GatesGrow, NEW g \in Kind, NEW p \in Rank, Built(g, p), NEW d \in Holds[g][p]
  PROVE  Share(g, p, d) = Unit \div Cardinality(Sharers(g, d))
<1>1. CASE ranks[g][p] = <<>>
  <2>1. DOMAIN Neighbours[g][p] = {}
    BY <1>1 DEF Built
  <2>2. Sharers(g, d) = {p}
    <3>1. SharesWith(g, p) = {}
      BY <2>1, NeighboursMeet
    <3>2. d \in Dof
      BY GateAssumption
    <3> QED
      BY <3>1, <3>2 DEF SharesWith, Sharers
  <2>3. Cardinality(Sharers(g, d)) = 1
    BY <2>2, FS_Singleton
  <2> QED
    BY <1>1, <2>3, GateAssumption DEF Share
<1>2. CASE ranks[g][p] # <<>>
  <2>1. freqs[g][p] = [e \in Holds[g][p] |-> Cardinality(Sharers(g, e))]
    BY DEF GatesGrow, Grown, Built
  <2> QED
    BY <1>2, <2>1 DEF Share
<1> QED
  BY <1>1, <1>2

----------------------------------------------------------------------------
(* What steps leave as it is.                                              *)

\* The sum of a process that does nothing.
SumOf(p) ==
  begun[p] > 0 =>
    /\ Program[begun[p]].op # "dot" => target[p] = SumSoFar(p, begun[p])
    /\ Program[begun[p]].op = "dot" /\ ~summing[p] => target[p] = Outcome(begun[p], p)

LEMMA SumStays ==
  ASSUME Inv, NEW p \in Rank,
         begun'[p] = begun[p], ticket'[p] = ticket[p], target'[p] = target[p],
         summing'[p] = summing[p]
  PROVE  SumOf(p)'
<1>1. SumOf(p)
  BY DEF Inv, Sums, SumOf
<1>2. \A r, t : HasTaken(p, r, t)' <=> HasTaken(p, r, t)
  BY DEF HasTaken, Uses
<1>3. \A t : SumSoFar(p, t)' = SumSoFar(p, t)
  BY <1>2 DEF SumSoFar, Worth
<1>4. \A t : Outcome(t, p)' = Outcome(t, p)
  BY DEF Outcome, Sharers
<1> QED
  BY <1>1, <1>3, <1>4 DEF SumOf

\* Channels depend on what is sent and taken.
LEMMA ChannelsStay ==
  ASSUME Inv, chan' = chan,
         \A p, q \in Rank : \A t : HasSent(p, q, t)' <=> HasSent(p, q, t),
         \A p, q \in Rank : \A t : HasTaken(p, q, t)' <=> HasTaken(p, q, t)
  PROVE  Channels'
<1> SUFFICES ASSUME NEW p \in Rank, NEW q \in Rank
             PROVE  Channel(p, q)'
  BY DEF Channels
<1>1. Channel(p, q)
  BY DEF Inv, Channels
<1>2. \A t : Part(t, p, q)' = Part(t, p, q)
  BY DEF Part, Worth
<1> QED
  BY <1>1, <1>2 DEF Channel

\* A ticket is open, or there is none.
LEMMA NoOpenTicket ==
  ASSUME Inv, NEW p \in Rank, ~ticket[p].open
  PROVE  ticket[p] = NoTicket
<1>1. ticket[p] = NoTicket \/ OpenTicket(p)
  BY DEF Inv, Tickets
<1>2. OpenTicket(p) => ticket[p].open
  BY DEF OpenTicket
<1> QED
  BY <1>1, <1>2

\* A process that has no ticket has sent and taken all it had to.
LEMMA DoneUpToNow ==
  ASSUME Inv, NEW p \in Rank, ~ticket[p].open, NEW q, NEW t
  PROVE  /\ HasSent(p, q, t) <=> Uses(t, p, q) /\ t <= begun[p]
         /\ HasTaken(p, q, t) <=> Uses(t, p, q) /\ t <= begun[p]
<1>1. begun[p] \in Nat
  BY GateAssumption DEF Inv, Shape
<1>2. ticket[p].recvs = {}
  BY NoOpenTicket DEF NoTicket
<1>3. Uses(t, p, q) => t \in Nat
  BY OperationsHaveGates DEF Uses
<1>4. Uses(t, p, q) => (t <= begun[p] <=> t < begun[p] \/ t = begun[p])
  BY <1>1, <1>3
<1> QED
  BY <1>2, <1>4 DEF HasSent, HasTaken

\* A process begins an operation in which it has sent and taken nothing yet.
LEMMA EnterKeepsChannels ==
  ASSUME Inv, NEW p \in Rank, ~ticket[p].open, chan' = chan,
         begun' = [begun EXCEPT ![p] = @ + 1],
         \A q \in Rank \ {p} : ticket'[q] = ticket[q],
         \A q \in Rank : \A t : t = begun[p] + 1 => ~HasSent(p, q, t)' /\ ~HasTaken(p, q, t)'
  PROVE  Channels'
<1>1. begun[p] \in Nat /\ begun'[p] = begun[p] + 1 /\ \A q \in Rank \ {p} : begun'[q] = begun[q]
  BY GateAssumption DEF Inv, Shape
<1>2. \A q, t : Uses(t, p, q) => t \in Nat
  BY OperationsHaveGates DEF Uses
<1>3. \A q \in Rank : \A t : /\ HasSent(p, q, t)' <=> HasSent(p, q, t)
                             /\ HasTaken(p, q, t)' <=> HasTaken(p, q, t)
  <2> TAKE q \in Rank
  <2> TAKE t
  <2>1. CASE ~Uses(t, p, q)
    BY <2>1 DEF HasSent, HasTaken, Uses
  <2>2. CASE Uses(t, p, q) /\ t <= begun[p]
    <3>1. t \in Nat /\ t < begun'[p]
      BY <1>1, <1>2, <2>2
    <3>2. HasSent(p, q, t) /\ HasTaken(p, q, t)
      BY <2>2, DoneUpToNow
    <3> QED
      BY <2>2, <3>1, <3>2 DEF HasSent, HasTaken, Uses
  <2>3. CASE Uses(t, p, q) /\ t = begun[p] + 1
    <3>1. ~(t <= begun[p])
      BY <1>1, <2>3
    <3> QED
      BY <2>3, <3>1, DoneUpToNow
  <2>4. CASE Uses(t, p, q) /\ ~(t <= begun[p]) /\ t # begun[p] + 1
    <3>1. ~(t < begun'[p]) /\ t # begun'[p]
      BY <1>1, <1>2, <2>4
    <3>2. ~HasSent(p, q, t)' /\ ~HasTaken(p, q, t)'
      BY <3>1 DEF HasSent, HasTaken
    <3> QED
      BY <2>4, <3>2, DoneUpToNow
  <2> QED
    BY <2>1, <2>2, <2>3, <2>4
<1>4. \A r \in Rank \ {p} : \A q, t : /\ HasSent(r, q, t)' <=> HasSent(r, q, t)
                                      /\ HasTaken(r, q, t)' <=> HasTaken(r, q, t)
  BY <1>1 DEF HasSent, HasTaken, Uses
<1> QED
  BY <1>3, <1>4, ChannelsStay

----------------------------------------------------------------------------
LEMMA InitInv == ASSUME Init PROVE Inv
<1> USE DEF Init, VectorInit
<1>1. IsSeq(<<>>)
  BY DEF IsSeq
<1>2. Shape
  BY <1>1, GateAssumption DEF Shape
<1>3. GatesGrow
  <2> SUFFICES ASSUME NEW g \in Kind, NEW p \in Rank
               PROVE  Grown(g, p)
    BY DEF GatesGrow
  <2>1. ranks[g][p] = <<>> /\ freqs[g][p] = <<>> /\ begun[p] = 0
    OBVIOUS
  <2>2. Neighbours[g][p] \in Seq(Rank)
    BY NeighboursMeet
  <2> HIDE DEF Init
  <2> QED
    BY <2>1, <2>2 DEF Grown
<1>4. Tickets
  BY DEF Tickets
<1>5. Channels
  <2> SUFFICES ASSUME NEW p \in Rank, NEW q \in Rank
               PROVE  Channel(p, q)
    BY DEF Channels
  <2>1. chan[p][q] = <<>> /\ begun[p] = 0 /\ begun[q] = 0
    OBVIOUS
  <2>2. \A r, s, t : Uses(t, r, s) => t \in Nat /\ t > 0
    BY OperationsHaveGates DEF Uses
  <2>3. \A t : ~HasSent(p, q, t) /\ ~HasTaken(q, p, t)
    BY <2>1, <2>2 DEF HasSent, HasTaken
  <2> QED
    BY <2>1, <2>3 DEF Channel
<1>6. Sums
  BY DEF Sums
<1> QED
  BY <1>2, <1>3, <1>4, <1>5, <1>6 DEF Inv

\* A step that only builds a gate.
LEMMA BuildingKeepsInv ==
  ASSUME Inv, UNCHANGED <<begun, summing, vectorVars>>, Shape', GatesGrow'
  PROVE  Inv'
<1>1. UNCHANGED <<begun, summing, ticket, target, chan>>
  BY DEF vectorVars
<1>2. Tickets'
  BY <1>1 DEF Inv, Tickets, OpenTicket
<1>3. Channels'
  BY <1>1, ChannelsStay DEF HasSent, HasTaken, Uses
<1>4. Sums'
  BY <1>1, SumStays DEF Sums, SumOf
<1> QED
  BY <1>2, <1>3, <1>4 DEF Inv

LEMMA PushInv ==
  ASSUME Inv, NEW g \in Kind, NEW p \in Rank, Push(g, p)
  PROVE  Inv'
<1> DEFINE near == Neighbours[g][p]
           old == ranks[g][p]
           new == Append(old, near[Len(old) + 1])
<1> USE DEF Push
<1>1. old \in Seq(Rank) /\ near \in Seq(Rank) /\ Len(old) < Len(near)
      /\ \A i \in 1 .. Len(old) : old[i] = near[i]
  <2>1. Grown(g, p)
    BY DEF Inv, GatesGrow
  <2>2. near \in Seq(Rank)
    BY NeighboursMeet
  <2> QED
    BY <2>1, <2>2 DEF Grown
<1>2. ~(begun[p] > 0)
  <2> SUFFICES ASSUME begun[p] > 0 PROVE FALSE
    OBVIOUS
  <2>1. old = near
    BY DEF Inv, GatesGrow, Grown, Built
  <2>2. Len(near) \in Nat
    BY <1>1
  <2> QED
    BY <1>1, <2>1, <2>2
<1>3. ranks'[g][p] = new /\ \A h \in Kind, q \in Rank : ~(h = g /\ q = p) => ranks'[h][q] = ranks[h][q]
  BY DEF Inv, Shape
<1>4. Shape'
  BY ZenonT(30) DEF Inv, Shape, vectorVars, IsSeq
<1>5. new \in Seq(Rank) /\ Len(new) <= Len(near) /\ \A i \in 1 .. Len(new) : new[i] = near[i]
  BY <1>1
<1>6. GatesGrow'
  <2> SUFFICES ASSUME NEW h \in Kind, NEW q \in Rank
               PROVE  Grown(h, q)'
    BY DEF GatesGrow
  <2>0. Grown(h, q)
    BY DEF Inv, GatesGrow
  <2>1. CASE h = g /\ q = p
    <3> HIDE DEF new, near
    <3> QED
      BY <1>2, <1>3, <1>5, <2>0, <2>1 DEF near, Grown, Sharers
  <2>2. CASE ~(h = g /\ q = p)
    <3>1. ranks'[h][q] = ranks[h][q] /\ freqs' = freqs /\ begun' = begun
      BY <1>3, <2>2
    <3> HIDE DEF Push
    <3> QED
      BY <2>0, <3>1 DEF Grown, Built, Sharers
  <2> QED
    BY <2>1, <2>2
<1> QED
  BY <1>4, <1>6, BuildingKeepsInv

LEMMA CompileInv ==
  ASSUME Inv, NEW g \in Kind, NEW p \in Rank, Compile(g, p)
  PROVE  Inv'
<1> DEFINE near == Neighbours[g][p]
<1> USE DEF Compile
<1>1. ranks[g][p] = near
  <2>1. Grown(g, p) /\ near \in Seq(Rank)
    BY NeighboursMeet DEF Inv, GatesGrow
  <2>2. ranks[g][p] \in Seq(Rank) /\ Len(ranks[g][p]) = Len(near)
        /\ \A i \in 1 .. Len(near) : ranks[g][p][i] = near[i]
    BY <2>1 DEF Grown
  <2> QED
    BY <2>1, <2>2
<1>2. ~(begun[p] > 0)
  BY DEF Inv, GatesGrow, Grown, Built, Compiled
<1>3. Count(g, p) = [d \in Holds[g][p] |-> Cardinality(Sharers(g, d))]
  <2> SUFFICES ASSUME NEW d \in Holds[g][p]
               PROVE  1 + Cardinality({i \in DOMAIN ranks[g][p] : d \in Mirrors(g, p)[i]})
                      = Cardinality(Sharers(g, d))
    BY DEF Count
  <2>1. {i \in DOMAIN ranks[g][p] : d \in Mirrors(g, p)[i]}
        = {i \in DOMAIN near : d \in MirrorOf(g, p, near[i])}
    BY <1>1 DEF Mirrors
  <2> HIDE DEF Compile
  <2> QED
    BY <2>1, SharersAreNeighbours
<1>4. freqs'[g][p] = Count(g, p)
      /\ \A h \in Kind, q \in Rank : ~(h = g /\ q = p) => freqs'[h][q] = freqs[h][q]
  BY DEF Inv, Shape
<1>5. Shape'
  BY ZenonT(30) DEF Inv, Shape, vectorVars, IsSeq
<1>6. GatesGrow'
  <2> SUFFICES ASSUME NEW h \in Kind, NEW q \in Rank
               PROVE  Grown(h, q)'
    BY DEF GatesGrow
  <2>0. Grown(h, q) /\ ranks' = ranks /\ begun' = begun
    BY DEF Inv, GatesGrow
  <2> HIDE DEF Compile
  <2>1. CASE h = g /\ q = p
    BY <1>2, <1>3, <1>4, <2>0, <2>1 DEF Grown, Sharers
  <2>2. CASE ~(h = g /\ q = p)
    BY <1>4, <2>0, <2>2 DEF Grown, Built, Sharers
  <2> QED
    BY <2>1, <2>2
<1> QED
  BY <1>5, <1>6, BuildingKeepsInv

----------------------------------------------------------------------------
(* Beginning an operation.                                                 *)

\* Gates of a process that is ready are built, and it has no ticket.
LEMMA ReadyIsBuilt ==
  ASSUME Inv, NEW p \in Rank, Ready(p)
  PROVE  /\ \A g \in Kind : Built(g, p)
         /\ ticket[p] = NoTicket /\ ~ticket[p].open /\ ~summing[p]
<1>1. ASSUME NEW g \in Kind
      PROVE  Built(g, p)
  <2> DEFINE near == Neighbours[g][p]
  <2>1. Grown(g, p) /\ near \in Seq(Rank)
    BY NeighboursMeet DEF Inv, GatesGrow
  <2>2. ranks[g][p] \in Seq(Rank) /\ Len(ranks[g][p]) = Len(near)
        /\ \A i \in 1 .. Len(near) : ranks[g][p][i] = near[i]
    BY <2>1 DEF Grown, Ready
  <2>3. ranks[g][p] = near
    BY <2>1, <2>2
  <2> QED
    BY <2>3 DEF Ready, Compiled, Built
<1> QED
  BY <1>1, NoOpenTicket DEF Ready

\* The vector of a process that begins, in which it alone has a part.
LEMMA OwnIsSum ==
  ASSUME GatesGrow, NEW t \in DOMAIN Program, NEW p \in Rank, Built(GateOf(t), p)
  PROVE  Own(GateOf(t), p, [d \in Holds[GateOf(t)][p] |-> Weight(t, p, d)])
         = [d \in Dof |-> [r \in Rank |->
              IF r = p /\ d \in Holds[GateOf(t)][p] THEN Worth(t, d) ELSE 0]]
<1> DEFINE g == GateOf(t)
<1>1. g \in Kind
  BY OperationsHaveGates
<1>2. ASSUME NEW d \in Holds[g][p]
      PROVE  Weight(t, p, d) = Worth(t, d)
  <2>1. Share(g, p, d) = Unit \div Cardinality(Sharers(g, d))
    BY <1>1, ShareIsPart
  <2> QED
    BY <2>1 DEF Weight, Worth, GateOf
<1> HIDE DEF g
<1> QED
  BY <1>2 DEF Own, g

\* A process begins an operation: what is left to show is about itself.
LEMMA EnterInv ==
  ASSUME Inv, NEW p \in Rank, Ready(p), begun[p] + 1 \in DOMAIN Program, Begin(p),
         UNCHANGED <<ranks, freqs, chan>>,
         \A q \in Rank \ {p} : ticket'[q] = ticket[q] /\ target'[q] = target[q]
                               /\ summing'[q] = summing[q],
         Shape', SumOf(p)',
         ticket'[p] = NoTicket \/ OpenTicket(p)',
         summing'[p] => Program[begun[p] + 1].op = "dot",
         \A q \in Rank : \A t : t = begun[p] + 1 => ~HasSent(p, q, t)' /\ ~HasTaken(p, q, t)'
  PROVE  Inv'
<1>1. ~ticket[p].open /\ \A g \in Kind : Built(g, p)
  BY ReadyIsBuilt
<1>2. begun[p] \in Nat /\ begun' = [begun EXCEPT ![p] = @ + 1] /\ begun'[p] = begun[p] + 1
      /\ \A q \in Rank \ {p} : begun'[q] = begun[q]
  BY GateAssumption DEF Inv, Shape, Begin
<1>3. Channels'
  BY <1>1, <1>2, EnterKeepsChannels
<1>4. GatesGrow'
  <2> SUFFICES ASSUME NEW h \in Kind, NEW q \in Rank
               PROVE  Grown(h, q)'
    BY DEF GatesGrow
  <2>1. Grown(h, q)
    BY DEF Inv, GatesGrow
  <2> QED
    BY <1>1, <1>2, <2>1 DEF Grown, Built, Sharers
<1>5. Tickets'
  <2> SUFFICES ASSUME NEW q \in Rank
               PROVE  /\ ticket'[q] = NoTicket \/ OpenTicket(q)'
                      /\ summing'[q] => begun'[q] > 0 /\ Program[begun'[q]].op = "dot"
    BY DEF Tickets, NoTicket
  <2>1. CASE q = p
    BY <1>2, <2>1
  <2>2. CASE q # p
    <3>1. /\ ticket[q] = NoTicket \/ OpenTicket(q)
          /\ summing[q] => begun[q] > 0 /\ Program[begun[q]].op = "dot"
      BY DEF Inv, Tickets
    <3> QED
      BY <1>2, <2>2, <3>1 DEF OpenTicket
  <2> QED
    BY <2>1, <2>2
<1>6. Sums'
  <2> SUFFICES ASSUME NEW q \in Rank
               PROVE  SumOf(q)'
    BY DEF Sums, SumOf
  <2> QED
    BY <1>2, SumStays
<1> QED
  BY <1>3, <1>4, <1>5, <1>6 DEF Inv

LEMMA SyncInv ==
  ASSUME Inv, NEW p \in Rank, Sync(p)
  PROVE  Inv'
<1> DEFINE t == begun[p] + 1
           g == GateOf(t)
           near == Neighbours[g][p]
           x == Own(g, p, [d \in Holds[g][p] |-> Weight(t, p, d)])
<1>1. /\ Ready(p) /\ t \in DOMAIN Program /\ Program[t].op # "dot" /\ Begin(p)
      /\ IF ranks[g][p] = <<>>
         THEN target' = [target EXCEPT ![p] = x] /\ UNCHANGED <<ticket, chan>>
         ELSE Construct(p, t, x, ranks[g][p], Mirrors(g, p))
      /\ UNCHANGED <<ranks, freqs, summing>>
  BY DEF Sync, GateOf, gateVars
<1>2. /\ g \in Kind /\ ticket[p] = NoTicket /\ ~ticket[p].open /\ ~summing[p]
      /\ Built(g, p) /\ ranks[g][p] = near
  BY <1>1, ReadyIsBuilt, OperationsHaveGates DEF Built
<1>3. near \in Seq(Rank)
  BY <1>2, NeighboursMeet
<1>4. /\ begun[p] \in Nat /\ begun'[p] = t /\ t > 0 /\ t \in 0 .. Len(Program)
      /\ \A q \in Rank \ {p} : begun'[q] = begun[q]
      /\ begun' \in [Rank -> 0 .. Len(Program)]
  <2>1. Program \in Seq([op : {"sync_0", "sync_1", "dot"}, gate : Kind])
    BY GateAssumption
  <2>2. DOMAIN Program = 1 .. Len(Program) /\ Len(Program) \in Nat
    BY <2>1
  <2> QED
    BY <1>1, <2>2 DEF Inv, Shape, Begin
<1>5. /\ target' = [target EXCEPT ![p] = x]
      /\ chan' = chan
  BY <1>1 DEF Construct
<1>6. /\ target'[p] = x
      /\ \A q \in Rank \ {p} : target'[q] = target[q]
      /\ target' = [q \in Rank |-> target'[q]]
  BY <1>5 DEF Inv, Shape
<1>7. x = [d \in Dof |-> [r \in Rank |-> IF r = p /\ d \in Holds[g][p] THEN Worth(t, d) ELSE 0]]
  BY <1>1, <1>2, OwnIsSum DEF Inv
<1>8. /\ ticket' = [q \in Rank |-> ticket'[q]]
      /\ \A q \in Rank \ {p} : ticket'[q] = ticket[q]
      /\ near = <<>> => ticket'[p] = NoTicket
      /\ near # <<>> => ticket'[p] = [open |-> TRUE, id |-> t, ranks |-> near,
                                      mirrors |-> Mirrors(g, p), sent |-> 0, recvs |-> DOMAIN near]
  BY <1>1, <1>2, ZenonT(30) DEF Inv, Shape, Construct
<1> HIDE DEF x
<1>9. ticket'[p] = NoTicket \/ OpenTicket(p)'
  <2>1. CASE near = <<>>
    BY <1>8, <2>1
  <2>2. CASE near # <<>>
    <3>1. Mirrors(g, p) = [i \in DOMAIN near |-> MirrorOf(g, p, near[i])]
      BY <1>2 DEF Mirrors
    <3>2. Len(near) \in Nat
      BY <1>3
    <3> QED
      BY <1>1, <1>4, <1>8, <2>2, <3>1, <3>2 DEF OpenTicket
  <2> QED
    BY <2>1, <2>2
<1>10. \A q \in Rank : \A s : s = t => ~HasSent(p, q, s)' /\ ~HasTaken(p, q, s)'
  <2> SUFFICES ASSUME NEW q \in Rank, NEW s, s = t, Uses(s, p, q)
               PROVE  ~HasSent(p, q, s)' /\ ~HasTaken(p, q, s)'
    BY DEF HasSent, HasTaken, Uses
  <2>1. PICK i \in DOMAIN near : near[i] = q
    BY <1>2, NeighboursMeet DEF Uses
  <2>2. near # <<>>
    BY <2>1
  <2>3. ticket'[p].open /\ ticket'[p].sent = 0 /\ ticket'[p].recvs = DOMAIN near /\ ticket'[p].ranks = near
    BY <1>8, <2>2
  <2>4. ~(s < begun'[p])
    BY <1>4
  <2> QED
    BY <2>1, <2>3, <2>4 DEF HasSent, HasTaken
<1>11. SumOf(p)'
  <2>1. \A r \in Rank : \A s : s = begun'[p] => ~HasTaken(p, r, s)'
    BY <1>4, <1>10
  <2>2. SumSoFar(p, begun[p])' = x
    <3>1. \A r \in Rank : ~HasTaken(p, r, begun[p])'
      BY <2>1
    <3>2. SumSoFar(p, begun[p])' = [d \in Dof |-> [r \in Rank |->
             IF r = p /\ d \in Holds[GateOf(begun'[p])][p] THEN Worth(begun'[p], d) ELSE 0]]
      BY <3>1 DEF GateOf, Worth, Sharers, SumSoFar
    <3> QED
      BY <1>4, <1>7, <3>2
  <2> QED
    BY <1>1, <1>4, <1>6, <2>2 DEF SumOf
<1>12. Shape'
  BY <1>1, <1>4, <1>5, <1>6, <1>8 DEF Inv, Shape, IsSeq
<1> QED
  BY <1>1, <1>2, <1>5, <1>6, <1>8, <1>9, <1>10, <1>11, <1>12, EnterInv

LEMMA DotInv ==
  ASSUME Inv, NEW p \in Rank, Dot(p)
  PROVE  Inv'
<1> DEFINE t == begun[p] + 1
           g == GateOf(t)
           x == Own(g, p, [d \in Holds[g][p] |-> Share(g, p, d)])
<1>1. /\ Ready(p) /\ t \in DOMAIN Program /\ Program[t].op = "dot" /\ Begin(p)
      /\ target' = [target EXCEPT ![p] = x]
      /\ summing' = [summing EXCEPT ![p] = Rank # {p}]
      /\ UNCHANGED <<ranks, freqs, ticket, chan>>
  BY DEF Dot, GateOf, gateVars
<1>2. /\ g \in Kind /\ ticket[p] = NoTicket /\ ~ticket[p].open
      /\ Built(g, p)
  BY <1>1, ReadyIsBuilt, OperationsHaveGates
<1>3. /\ begun[p] \in Nat /\ begun'[p] = t /\ t > 0 /\ t \in 0 .. Len(Program)
      /\ begun' \in [Rank -> 0 .. Len(Program)]
  <2>1. Program \in Seq([op : {"sync_0", "sync_1", "dot"}, gate : Kind])
    BY GateAssumption
  <2>2. DOMAIN Program = 1 .. Len(Program) /\ Len(Program) \in Nat
    BY <2>1
  <2> QED
    BY <1>1, <2>2 DEF Inv, Shape, Begin
<1>4. x = [d \in Dof |-> [r \in Rank |-> IF r = p /\ d \in Holds[g][p] THEN Worth(t, d) ELSE 0]]
  <2>1. \A d : Weight(t, p, d) = Share(g, p, d)
    BY <1>1 DEF Weight, GateOf
  <2>2. x = Own(g, p, [d \in Holds[g][p] |-> Weight(t, p, d)])
    BY <2>1
  <2> HIDE DEF x
  <2> QED
    BY <1>1, <1>2, <2>2, OwnIsSum DEF Inv
<1> HIDE DEF x
<1>5. /\ target'[p] = x
      /\ summing'[p] = (Rank # {p})
      /\ \A q \in Rank \ {p} : target'[q] = target[q] /\ summing'[q] = summing[q]
      /\ target' = [q \in Rank |-> target'[q]]
      /\ summing' \in [Rank -> BOOLEAN]
  BY <1>1 DEF Inv, Shape
<1>6. \A q \in Rank : \A s : s = t => ~HasSent(p, q, s)' /\ ~HasTaken(p, q, s)'
  BY <1>1 DEF HasSent, HasTaken, Uses
<1>7. SumOf(p)'
  <2>1. ASSUME Rank = {p}
        PROVE  x = Outcome(t, p)
    <3>1. \A d : Worth(t, d) = Unit \div Cardinality(Sharers(g, d))
      BY <1>1 DEF Worth
    <3>2. Outcome(t, p) = [d \in Dof |-> [r \in Rank |->
             IF d \in Dof \cap Holds[g][r] THEN Unit \div Cardinality(Sharers(g, d)) ELSE 0]]
      BY <1>1 DEF Outcome, GateOf
    <3> QED
      BY <1>4, <2>1, <3>1, <3>2
  <2>2. \A s : Outcome(s, p)' = Outcome(s, p)
    BY DEF Outcome, Sharers
  <2> QED
    BY <1>1, <1>3, <1>5, <2>1, <2>2 DEF SumOf
<1>8. Shape'
  BY <1>1, <1>3, <1>5 DEF Inv, Shape, IsSeq
<1> QED
  BY <1>1, <1>2, <1>5, <1>6, <1>7, <1>8, EnterInv

\* An allreduce returns when all have entered it: their gates are built, and their shares
\* make up the result.
LEMMA DotReturnsInv ==
  ASSUME Inv, NEW p \in Rank, DotReturns(p)
  PROVE  Inv' /\ SumOf(p)'
<1> DEFINE t == begun[p]
           g == GateOf(t)
<1>1. /\ summing[p] /\ \A q \in Rank : begun[q] >= t
      /\ target' = [target EXCEPT ![p] = AllShares(g)]
      /\ summing' = [summing EXCEPT ![p] = FALSE]
      /\ UNCHANGED <<ranks, freqs, begun, ticket, chan>>
  BY DEF DotReturns, GateOf, gateVars
<1>2. t > 0 /\ Program[t].op = "dot" /\ t \in DOMAIN Program /\ g \in Kind /\ t \in Nat
  <2>1. t > 0 /\ Program[t].op = "dot"
    BY <1>1 DEF Inv, Tickets
  <2>2. t \in DOMAIN Program
    <3>1. Program \in Seq([op : {"sync_0", "sync_1", "dot"}, gate : Kind])
      BY GateAssumption
    <3>2. DOMAIN Program = 1 .. Len(Program) /\ Len(Program) \in Nat
      BY <3>1
    <3>3. t \in 0 .. Len(Program)
      BY DEF Inv, Shape
    <3> QED
      BY <2>1, <3>2, <3>3
  <2> QED
    BY <2>1, <2>2, OperationsHaveGates
<1>3. \A q \in Rank : Built(g, q)
  <2> TAKE q \in Rank
  <2>1. begun[q] > 0
    <3>1. begun[q] \in Nat /\ begun[q] >= t
      BY <1>1, GateAssumption DEF Inv, Shape
    <3> QED
      BY <1>2, <3>1
  <2> QED
    BY <1>2, <2>1 DEF Inv, GatesGrow, Grown
<1>4. AllShares(g) = Outcome(t, p)
  <2>1. ASSUME NEW r \in Rank, NEW d \in Holds[g][r]
        PROVE  Share(g, r, d) = Unit \div Cardinality(Sharers(g, d))
    BY <1>2, <1>3, ShareIsPart DEF Inv
  <2>2. Outcome(t, p) = [d \in Dof |-> [r \in Rank |->
           IF d \in Dof \cap Holds[g][r] THEN Unit \div Cardinality(Sharers(g, d)) ELSE 0]]
    BY <1>2 DEF Outcome, GateOf
  <2> HIDE DEF g
  <2> QED
    BY <2>1, <2>2 DEF AllShares
<1>5. /\ target'[p] = Outcome(t, p)
      /\ summing'[p] = FALSE
      /\ \A q \in Rank \ {p} : target'[q] = target[q] /\ summing'[q] = summing[q]
      /\ target' = [q \in Rank |-> target'[q]]
      /\ summing' \in [Rank -> BOOLEAN]
  BY <1>1, <1>4 DEF Inv, Shape
<1>6. Shape'
  BY <1>1, <1>5 DEF Inv, Shape, IsSeq
<1>7. GatesGrow' /\ Tickets'
  <2>1. GatesGrow'
    BY <1>1 DEF Inv, GatesGrow, Grown, Built, Sharers
  <2>2. \A q \in Rank : OpenTicket(q)' <=> OpenTicket(q)
    BY <1>1 DEF OpenTicket
  <2>3. \A q \in Rank : summing'[q] => summing[q]
    BY <1>5
  <2> QED
    BY <1>1, <2>1, <2>2, <2>3 DEF Inv, Tickets
<1>8. Channels'
  BY <1>1, ChannelsStay DEF HasSent, HasTaken, Uses
<1>9. SumOf(p)'
  <2>1. \A s : Outcome(s, p)' = Outcome(s, p)
    BY DEF Outcome, Sharers
  <2> QED
    BY <1>1, <1>2, <1>5, <2>1 DEF SumOf
<1>10. Sums'
  <2> SUFFICES ASSUME NEW q \in Rank
               PROVE  SumOf(q)'
    BY DEF Sums, SumOf
  <2> QED
    BY <1>1, <1>5, <1>9, SumStays
<1> QED
  BY <1>6, <1>7, <1>8, <1>9, <1>10 DEF Inv

----------------------------------------------------------------------------
(* Exchanging messages.                                                    *)

\* What an open ticket knows.
LEMMA TicketKnows ==
  ASSUME Inv, NEW p \in Rank, ticket[p].open
  PROVE  LET t == begun[p]
             near == Neighbours[GateOf(t)][p]
         IN  /\ t \in DOMAIN Program /\ t \in Nat /\ t > 0 /\ Program[t].op # "dot"
             /\ GateOf(t) \in Kind /\ ~summing[p] /\ OpenTicket(p)
             /\ ticket[p].id = t /\ ticket[p].ranks = near
             /\ \A i \in DOMAIN near : Mirror(p, i) = MirrorOf(GateOf(t), p, near[i])
             /\ \A q : Uses(t, p, q) <=> q \in SharesWith(GateOf(t), p)
             /\ DOMAIN near = 1 .. Len(near) /\ Len(near) \in Nat
             /\ ticket[p].sent \in 0 .. Len(near) /\ ticket[p].recvs \subseteq DOMAIN near
<1> DEFINE t == begun[p]
           near == Neighbours[GateOf(t)][p]
<1>1. OpenTicket(p)
  BY DEF Inv, Tickets, NoTicket
<1>2. t > 0 /\ Program[t].op # "dot" /\ ~summing[p]
  BY <1>1 DEF OpenTicket, Inv, Tickets
<1>3. t \in DOMAIN Program
  <2>1. Program \in Seq([op : {"sync_0", "sync_1", "dot"}, gate : Kind])
    BY GateAssumption
  <2>2. DOMAIN Program = 1 .. Len(Program) /\ Len(Program) \in Nat
    BY <2>1
  <2>3. t \in 0 .. Len(Program)
    BY DEF Inv, Shape
  <2> QED
    BY <1>2, <2>2, <2>3
<1>4. GateOf(t) \in Kind /\ t \in Nat
  BY <1>3, OperationsHaveGates
<1>5. near \in Seq(Rank)
  BY <1>4, NeighboursMeet
<1>6. DOMAIN near = 1 .. Len(near) /\ Len(near) \in Nat
  BY <1>5
<1>7. /\ ticket[p].id = t /\ ticket[p].ranks = near
      /\ ticket[p].mirrors = [i \in DOMAIN near |-> MirrorOf(GateOf(t), p, near[i])]
      /\ ticket[p].sent \in 0 .. Len(near) /\ ticket[p].recvs \subseteq DOMAIN near
  BY <1>1 DEF OpenTicket
<1>8. \A i \in DOMAIN near : Mirror(p, i) = MirrorOf(GateOf(t), p, near[i])
  BY <1>7 DEF Mirror
<1>9. \A q : Uses(t, p, q) <=> q \in SharesWith(GateOf(t), p)
  BY <1>2, <1>3 DEF Uses
<1> QED
  BY <1>1, <1>2, <1>3, <1>4, <1>6, <1>7, <1>8, <1>9

\* A step of an exchange: what is left to show is about the process and its channels.
LEMMA ExchangeInv ==
  ASSUME Inv, NEW p \in Rank, UNCHANGED <<ranks, freqs, begun, summing>>,
         \A q \in Rank \ {p} : ticket'[q] = ticket[q] /\ target'[q] = target[q],
         Shape', SumOf(p)', ~summing[p],
         ticket'[p] = NoTicket \/ OpenTicket(p)',
         Channels'
  PROVE  Inv'
<1>1. GatesGrow'
  BY DEF Inv, GatesGrow, Grown, Built, Sharers
<1>2. Tickets'
  <2> SUFFICES ASSUME NEW q \in Rank
               PROVE  /\ ticket'[q] = NoTicket \/ OpenTicket(q)'
                      /\ summing'[q] => begun'[q] > 0 /\ Program[begun'[q]].op = "dot"
    BY DEF Tickets, NoTicket
  <2>1. CASE q = p
    BY <2>1
  <2>2. CASE q # p
    <3>1. /\ ticket[q] = NoTicket \/ OpenTicket(q)
          /\ summing[q] => begun[q] > 0 /\ Program[begun[q]].op = "dot"
      BY DEF Inv, Tickets
    <3> QED
      BY <2>2, <3>1 DEF OpenTicket
  <2> QED
    BY <2>1, <2>2
<1>3. Sums'
  <2> SUFFICES ASSUME NEW q \in Rank
               PROVE  SumOf(q)'
    BY DEF Sums, SumOf
  <2> QED
    BY SumStays
<1> QED
  BY <1>1, <1>2, <1>3 DEF Inv

LEMMA ReturnInv ==
  ASSUME Inv, NEW p \in Rank, Return(p), UNCHANGED <<ranks, freqs, begun, summing>>
  PROVE  Inv' /\ ticket'[p] = NoTicket
<1> DEFINE t == begun[p]
           near == Neighbours[GateOf(t)][p]
<1>1. /\ ticket[p].open /\ ticket[p].sent = Len(ticket[p].ranks) /\ ticket[p].recvs = {}
      /\ ticket' = [ticket EXCEPT ![p] = NoTicket]
      /\ UNCHANGED <<target, chan>>
  BY DEF Return, AllSent
<1>2. /\ ticket'[p] = NoTicket
      /\ \A q \in Rank \ {p} : ticket'[q] = ticket[q]
      /\ ticket' = [q \in Rank |-> ticket'[q]]
  BY <1>1 DEF Inv, Shape
<1>3. \A q, s : HasSent(p, q, s)' <=> HasSent(p, q, s)
  <2> SUFFICES ASSUME NEW q, Uses(t, p, q)
               PROVE  HasSent(p, q, t)' <=> HasSent(p, q, t)
    BY <1>1, <1>2 DEF HasSent, Uses
  <2>1. q \in SharesWith(GateOf(t), p) /\ GateOf(t) \in Kind
        /\ DOMAIN near = 1 .. Len(near) /\ ticket[p].ranks = near
    BY <1>1, TicketKnows
  <2>2. PICK i \in DOMAIN near : near[i] = q
    BY <2>1, NeighboursMeet
  <2>3. \E j \in 1 .. ticket[p].sent : ticket[p].ranks[j] = q
    BY <1>1, <2>1, <2>2
  <2> QED
    BY <1>2, <2>3 DEF HasSent, Uses, NoTicket
<1>4. \A q, s : HasTaken(p, q, s)' <=> HasTaken(p, q, s)
  BY <1>1, <1>2 DEF HasTaken, Uses, NoTicket
<1>5. \A r \in Rank \ {p} : \A q, s : /\ HasSent(r, q, s)' <=> HasSent(r, q, s)
                                      /\ HasTaken(r, q, s)' <=> HasTaken(r, q, s)
  BY <1>2 DEF HasSent, HasTaken, Uses
<1>6. Channels'
  BY <1>1, <1>3, <1>4, <1>5, ChannelsStay
<1>7. SumOf(p)'
  <2>1. SumOf(p)
    BY DEF Inv, Sums, SumOf
  <2>2. \A s : SumSoFar(p, s)' = SumSoFar(p, s)
    BY <1>4 DEF SumSoFar, Worth, Sharers
  <2>3. \A s : Outcome(s, p)' = Outcome(s, p)
    BY DEF Outcome, Sharers
  <2> QED
    BY <1>1, <2>1, <2>2, <2>3 DEF SumOf
<1>8. Shape'
  BY <1>1, <1>2 DEF Inv, Shape, IsSeq
<1>9. ~summing[p]
  BY <1>1, TicketKnows
<1> QED
  BY <1>1, <1>2, <1>6, <1>7, <1>8, <1>9, ExchangeInv

\* What an open ticket is after a step that changes the two fields given here.
TicketWith(p, t, sent, recvs) ==
  [open |-> TRUE, id |-> t, ranks |-> Neighbours[GateOf(t)][p],
   mirrors |-> [j \in DOMAIN Neighbours[GateOf(t)][p] |->
                  MirrorOf(GateOf(t), p, Neighbours[GateOf(t)][p][j])],
   sent |-> sent, recvs |-> recvs]

LEMMA TicketSends ==
  ASSUME NEW p, NEW t, NEW a, NEW b, NEW i, NEW x, x = TicketWith(p, t, a, b), NEW y
  PROVE  /\ y = [x EXCEPT !.sent = i] => y = TicketWith(p, t, i, b)
         /\ y = [x EXCEPT !.recvs = i] => y = TicketWith(p, t, a, i)
<1> DEFINE near == Neighbours[GateOf(t)][p]
           mirrors == [j \in DOMAIN near |-> MirrorOf(GateOf(t), p, near[j])]
           o == TRUE
<1>1. \A u, v : TicketWith(p, t, u, v)
                = [open |-> o, id |-> t, ranks |-> near, mirrors |-> mirrors, sent |-> u, recvs |-> v]
  BY DEF TicketWith
<1> HIDE DEF near, mirrors, o
<1>2. x = [open |-> o, id |-> t, ranks |-> near, mirrors |-> mirrors, sent |-> a, recvs |-> b]
  BY <1>1
<1> QED
  BY <1>1, <1>2

\* One channel depends on what is sent and taken by its two processes.
LEMMA ChannelStays ==
  ASSUME NEW p \in Rank, NEW q \in Rank, Channel(p, q), chan'[p][q] = chan[p][q],
         \A t : HasSent(p, q, t)' <=> HasSent(p, q, t),
         \A t : HasTaken(q, p, t)' <=> HasTaken(q, p, t)
  PROVE  Channel(p, q)'
<1>1. \A t : Part(t, p, q)' = Part(t, p, q)
  BY DEF Part, Worth
<1> QED
  BY <1>1 DEF Channel

\* A process that is still sending has its own part in its vector: what it gathers is
\* its part of the sum.
LEMMA GatherIsPart ==
  ASSUME Inv, NEW p \in Rank, ticket[p].open, ~AllSent(p)
  PROVE  LET t == begun[p]
             near == Neighbours[GateOf(t)][p]
         IN  \A i \in DOMAIN near : Gather(p, i) = Part(t, p, near[i])
<1> DEFINE t == begun[p]
           g == GateOf(t)
           near == Neighbours[g][p]
<1> SUFFICES ASSUME NEW i \in DOMAIN near
             PROVE  Gather(p, i) = Part(t, p, near[i])
  OBVIOUS
<1>1. /\ OpenTicket(p) /\ g \in Kind /\ ticket[p].ranks = near /\ t > 0 /\ Program[t].op # "dot"
      /\ Mirror(p, i) = MirrorOf(g, p, near[i])
      /\ Len(near) \in Nat /\ ticket[p].sent \in 0 .. Len(near)
  BY TicketKnows
<1>2. ticket[p].recvs = DOMAIN near
  <2>1. ticket[p].sent < Len(near)
    BY <1>1 DEF AllSent
  <2> QED
    BY <1>1, <2>1 DEF OpenTicket
<1>3. \A r \in Rank : ~HasTaken(p, r, t)
  <2> SUFFICES ASSUME NEW r \in Rank, Uses(t, p, r), HasTaken(p, r, t)
               PROVE  FALSE
    BY DEF HasTaken
  <2>1. PICK j \in DOMAIN near : near[j] = r
    BY <1>1, NeighboursMeet DEF Uses
  <2>2. ~(t < t)
    BY <1>1, TicketKnows
  <2> QED
    BY <1>1, <1>2, <2>1, <2>2 DEF HasTaken
<1>4. target[p] = [d \in Dof |-> [r \in Rank |->
        IF r = p /\ d \in Holds[g][p] THEN Worth(t, d) ELSE 0]]
  <2>1. target[p] = SumSoFar(p, t)
    BY <1>1 DEF Inv, Sums
  <2> QED
    BY <1>3, <2>1 DEF SumSoFar
<1>5. \A d \in MirrorOf(g, p, near[i]) :
        target[p][d] = [r \in Rank |-> IF r = p THEN Worth(t, d) ELSE 0]
  <2>1. MirrorOf(g, p, near[i]) \subseteq Holds[g][p] \cap Dof
    BY <1>1, GateAssumption DEF MirrorOf
  <2> QED
    BY <1>4, <2>1
<1>6. Gather(p, i) = [d \in MirrorOf(g, p, near[i]) |-> target[p][d]]
  BY <1>1 DEF Gather
<1> HIDE DEF near
<1> QED
  BY <1>5, <1>6 DEF Part

\* The channel gets the message of an operation that comes after all in it.
LEMMA SentChannel ==
  ASSUME NEW p \in Rank, NEW q \in Rank, NEW t, NEW old, NEW new, NEW message,
         IsSeq(old), old = chan[p][q], new = chan'[p][q], new = Append(old, message),
         message.id = t, message.buffer = Part(t, p, q), t = begun[p], t \in DOMAIN Program,
         Channel(p, q), ~HasSent(p, q, t), HasSent(p, q, t)',
         \A u : HasTaken(q, p, u)' <=> HasTaken(q, p, u),
         \A u : u # t => (HasSent(p, q, u)' <=> HasSent(p, q, u))
  PROVE  Channel(p, q)'
<1>1. /\ Len(new) = Len(old) + 1
      /\ \A k \in 1 .. Len(old) : new[k] = old[k]
      /\ new[Len(old) + 1] = message
  BY SeqAppend
<1>2. /\ Len(old) + 1 \in 1 .. Len(new)
      /\ \A k \in 1 .. Len(old) : k \in 1 .. Len(new)
      /\ \A k \in 1 .. Len(new) : k \in 1 .. Len(old) \/ k = Len(old) + 1
      /\ \A k, l \in 1 .. Len(new) : k < l => k \in 1 .. Len(old)
  BY <1>1, SeqPlaces
<1>3. \A u : Part(u, p, q)' = Part(u, p, q)
  BY DEF Part, Worth
<1>4. ~HasTaken(q, p, t)
  BY DEF Channel
<1>5. ASSUME NEW k \in 1 .. Len(old), NEW u, u = old[k].id
      PROVE  /\ u < t /\ HasSent(p, q, u)' /\ ~HasTaken(q, p, u)'
             /\ old[k].buffer = Part(u, p, q)
  <2>1. /\ HasSent(p, q, u) /\ ~HasTaken(q, p, u)
        /\ old[k].buffer = Part(u, p, q)
    BY <1>5 DEF Channel
  <2>2. u # t
    BY <2>1
  <2>3. u < t
    BY <2>1, <2>2 DEF HasSent
  <2> QED
    BY <2>1, <2>2, <2>3
<1>6. ASSUME NEW k \in 1 .. Len(new), NEW u, u = new[k].id
      PROVE  /\ HasSent(p, q, u)' /\ ~HasTaken(q, p, u)'
             /\ new[k].buffer = Part(u, p, q)'
  <2>1. CASE k \in 1 .. Len(old)
    <3>1. new[k] = old[k]
      BY <1>1, <2>1
    <3> QED
      BY <1>3, <1>5, <1>6, <2>1, <3>1
  <2>2. CASE k = Len(old) + 1
    BY <1>1, <1>3, <1>4, <1>6, <2>2
  <2> QED
    BY <1>2, <2>1, <2>2
<1>7. ASSUME NEW k \in 1 .. Len(new), NEW l \in 1 .. Len(new), k < l
      PROVE  new[k].id < new[l].id
  <2>1. k \in 1 .. Len(old) /\ new[k] = old[k]
    BY <1>1, <1>2, <1>7
  <2>2. CASE l \in 1 .. Len(old)
    <3>1. new[l] = old[l] /\ old[k].id < old[l].id
      BY <1>1, <1>7, <2>1, <2>2 DEF Channel
    <3> QED
      BY <2>1, <3>1
  <2>3. CASE l = Len(old) + 1
    <3>1. new[l].id = t /\ old[k].id < t
      BY <1>1, <1>5, <2>1, <2>3
    <3> QED
      BY <2>1, <3>1
  <2> QED
    BY <1>2, <2>2, <2>3
<1>8. ASSUME NEW u \in DOMAIN Program, HasSent(p, q, u)', ~HasTaken(q, p, u)'
      PROVE  \E k \in 1 .. Len(new) : new[k].id = u
  <2>1. CASE u = t
    BY <1>1, <1>2, <2>1
  <2>2. CASE u # t
    <3>1. HasSent(p, q, u) /\ ~HasTaken(q, p, u)
      BY <1>8, <2>2
    <3>2. PICK k \in 1 .. Len(old) : old[k].id = u
      BY <3>1 DEF Channel
    <3> QED
      BY <1>1, <1>2, <3>2
  <2> QED
    BY <2>1, <2>2
<1>9. ASSUME NEW u \in DOMAIN Program, HasTaken(q, p, u)'
      PROVE  HasSent(p, q, u)'
  <2>1. HasSent(p, q, u)
    BY <1>9 DEF Channel
  <2> QED
    BY <2>1
<1>10. (\A k \in 1 .. Len(chan[p][q]) :
           /\ HasSent(p, q, chan[p][q][k].id) /\ ~HasTaken(q, p, chan[p][q][k].id)
           /\ chan[p][q][k].buffer = Part(chan[p][q][k].id, p, q))'
  BY <1>6
<1>11. (\A k, l \in 1 .. Len(chan[p][q]) : k < l => chan[p][q][k].id < chan[p][q][l].id)'
  BY <1>7
<1>12. (\A u \in DOMAIN Program :
           HasSent(p, q, u) /\ ~HasTaken(q, p, u)
              => \E k \in 1 .. Len(chan[p][q]) : chan[p][q][k].id = u)'
  BY <1>8
<1>13. (\A u \in DOMAIN Program : HasTaken(q, p, u) => HasSent(p, q, u))'
  BY <1>9
<1> QED
  BY <1>10, <1>11, <1>12, <1>13 DEF Channel

LEMMA PostSendInv ==
  ASSUME Inv, NEW p \in Rank, PostSend(p), UNCHANGED <<ranks, freqs, begun, summing>>,
         NEW t, t = begun[p], NEW i, i = ticket[p].sent + 1,
         NEW q, q = Neighbours[GateOf(t)][p][i],
         NEW old, old = chan[p][q], NEW message, message = [id |-> t, buffer |-> Gather(p, i)]
  PROVE  Inv'
<1> DEFINE g == GateOf(t)
           near == Neighbours[g][p]
<1>1. /\ ticket[p].open /\ ~AllSent(p) /\ OpenTicket(p)
      /\ t \in DOMAIN Program /\ t \in Nat /\ t > 0 /\ Program[t].op # "dot"
      /\ g \in Kind /\ ~summing[p]
      /\ ticket[p].id = t /\ ticket[p].ranks = near
      /\ \A s : Uses(t, p, s) <=> s \in SharesWith(g, p)
      /\ DOMAIN near = 1 .. Len(near) /\ Len(near) \in Nat
      /\ ticket[p].sent \in 0 .. Len(near) /\ ticket[p].recvs \subseteq DOMAIN near
  BY TicketKnows DEF PostSend
<1>2. i \in DOMAIN near /\ ticket[p].sent \in Nat /\ i \in Nat
  BY <1>1 DEF AllSent
<1>3. q \in Rank /\ q # p /\ Uses(t, p, q) /\ q \in SharesWith(g, p)
  <2>1. q \in SharesWith(g, p)
    BY <1>1, <1>2, NeighboursMeet
  <2> QED
    BY <1>1, <2>1, SharingIsMutual
<1>4. /\ chan' = [chan EXCEPT ![p][q] = Append(@, message)]
      /\ ticket' = [ticket EXCEPT ![p].sent = i]
      /\ target' = target
  BY <1>1 DEF PostSend
<1>5. message.id = t /\ message.buffer = Part(t, p, q)
  BY <1>1, <1>2, GatherIsPart
<1>6. /\ chan'[p][q] = Append(old, message)
      /\ \A r, s \in Rank : ~(r = p /\ s = q) => chan'[r][s] = chan[r][s]
      /\ chan' = [r \in Rank |-> [s \in Rank |-> chan'[r][s]]]
  <2>1. chan = [r \in Rank |-> [s \in Rank |-> chan[r][s]]]
    BY DEF Inv, Shape
  <2>2. PICK new, n : new = chan' /\ n = Append(old, message)
    OBVIOUS
  <2>3. new = [chan EXCEPT ![p][q] = n]
    BY <1>4, <2>2
  <2>4. /\ new[p][q] = n
        /\ \A r, s \in Rank : ~(r = p /\ s = q) => new[r][s] = chan[r][s]
        /\ new = [r \in Rank |-> [s \in Rank |-> new[r][s]]]
    BY <1>3, <2>1, <2>3
  <2> QED
    BY <2>2, <2>4
<1>7. /\ ticket'[p] = [ticket[p] EXCEPT !.sent = i]
      /\ \A r \in Rank \ {p} : ticket'[r] = ticket[r]
      /\ ticket' = [r \in Rank |-> ticket'[r]]
  BY <1>4 DEF Inv, Shape
<1>8. /\ ticket'[p].open /\ ticket'[p].sent = i /\ ticket'[p].recvs = ticket[p].recvs
      /\ ticket'[p].ranks = near
      /\ OpenTicket(p)'
  <2>1. ticket[p] = [open |-> TRUE, id |-> t, ranks |-> near,
                     mirrors |-> [j \in DOMAIN near |-> MirrorOf(g, p, near[j])],
                     sent |-> ticket[p].sent, recvs |-> ticket[p].recvs]
        /\ (ticket[p].sent < Len(near) => ticket[p].recvs = DOMAIN near)
    BY <1>1 DEF OpenTicket
  <2>2. ticket'[p] = [open |-> TRUE, id |-> t, ranks |-> near,
                      mirrors |-> [j \in DOMAIN near |-> MirrorOf(g, p, near[j])],
                      sent |-> i, recvs |-> ticket[p].recvs]
    <3>1. PICK a, b : ticket[p] = TicketWith(p, t, a, b) /\ b = ticket[p].recvs
      BY <2>1 DEF TicketWith
    <3>2. ticket'[p] = TicketWith(p, t, i, b)
      <4>1. PICK x, y : x = ticket[p] /\ y = ticket'[p]
        OBVIOUS
      <4>2. x = TicketWith(p, t, a, b) /\ y = [x EXCEPT !.sent = i]
        BY <1>7, <3>1, <4>1
      <4> QED
        BY <4>1, <4>2, TicketSends
    <3> QED
      BY <3>1, <3>2 DEF TicketWith
  <2>3. ticket[p].sent < Len(near)
    BY <1>1 DEF AllSent
  <2>4. ticket'[p].open /\ ticket'[p].sent = i /\ ticket'[p].recvs = ticket[p].recvs
        /\ ticket'[p].ranks = near
    BY <2>2
  <2>5. i \in 0 .. Len(near)
    BY <1>1, <1>2
  <2> QED
    BY <1>1, <2>1, <2>2, <2>3, <2>4, <2>5 DEF OpenTicket
<1>9. \A r \in Rank : \A s, u : HasTaken(r, s, u)' <=> HasTaken(r, s, u)
  <2> TAKE r \in Rank
  <2>1. ticket'[r].recvs = ticket[r].recvs /\ ticket'[r].ranks = ticket[r].ranks
    BY <1>1, <1>7, <1>8
  <2> QED
    BY <2>1 DEF HasTaken, Uses
<1>10. \A r \in Rank \ {p} : \A s, u : HasSent(r, s, u)' <=> HasSent(r, s, u)
  BY <1>7 DEF HasSent, Uses
<1>11. \A s, u : ~(s = q /\ u = t) => (HasSent(p, s, u)' <=> HasSent(p, s, u))
  <2> SUFFICES ASSUME NEW s, Uses(t, p, s), s # q
               PROVE  HasSent(p, s, t)' <=> HasSent(p, s, t)
    BY DEF HasSent, Uses
  <2>1. (\E j \in 1 .. i : near[j] = s) <=> (\E j \in 1 .. ticket[p].sent : near[j] = s)
    BY <1>2
  <2> QED
    BY <1>1, <1>8, <2>1 DEF HasSent, Uses
<1>12. HasSent(p, q, t)'
  <2>1. i \in 1 .. i /\ near[i] = q
    BY <1>2
  <2> QED
    BY <1>3, <1>8, <2>1 DEF HasSent, Uses
<1>13. ~HasSent(p, q, t)
  <2>1. ~(t < t)
    BY <1>1
  <2>2. \A j \in 1 .. ticket[p].sent : near[j] # q
    <3> TAKE j \in 1 .. ticket[p].sent
    <3>1. j \in DOMAIN near /\ j # i
      BY <1>1, <1>2
    <3> QED
      BY <1>1, <1>2, <3>1, NeighboursMeet
  <2> QED
    BY <1>1, <2>1, <2>2 DEF HasSent
<1>14. Channel(p, q)'
  <2>1. Channel(p, q) /\ IsSeq(old)
    BY <1>3 DEF Inv, Channels, Shape
  <2>2. PICK new : new = chan'[p][q]
    OBVIOUS
  <2>3. new = Append(old, message)
    BY <1>6, <2>2
  <2> QED
    BY <1>1, <1>3, <1>5, <1>9, <1>11, <1>12, <1>13, <2>1, <2>2, <2>3, SentChannel
<1>15. Channels'
  <2> SUFFICES ASSUME NEW r \in Rank, NEW s \in Rank
               PROVE  Channel(r, s)'
    BY DEF Channels
  <2>1. CASE r = p /\ s = q
    BY <1>14, <2>1
  <2>2. CASE ~(r = p /\ s = q)
    <3>1. Channel(r, s)
      BY DEF Inv, Channels
    <3>2. \A u : HasSent(r, s, u)' <=> HasSent(r, s, u)
      BY <1>10, <1>11, <2>2
    <3> QED
      BY <1>6, <1>9, <2>2, <3>1, <3>2, ChannelStays
  <2> QED
    BY <2>1, <2>2
<1>16. SumOf(p)'
  <2>1. SumOf(p)
    BY DEF Inv, Sums, SumOf
  <2>2. \A u : SumSoFar(p, u)' = SumSoFar(p, u)
    BY <1>9 DEF SumSoFar, Worth, Sharers
  <2>3. \A u : Outcome(u, p)' = Outcome(u, p)
    BY DEF Outcome, Sharers
  <2> QED
    BY <1>4, <2>1, <2>2, <2>3 DEF SumOf
<1>17. Shape'
  <2>1. \A r, s \in Rank : IsSeq(chan'[r][s])
    <3> TAKE r, s \in Rank
    <3>1. IsSeq(chan[r][s])
      BY DEF Inv, Shape
    <3>2. CASE r = p /\ s = q
      <4>1. IsSeq(Append(old, message))
        BY <3>1, <3>2, SeqAppend
      <4> QED
        BY <1>6, <3>2, <4>1
    <3>3. CASE ~(r = p /\ s = q)
      BY <1>6, <3>1, <3>3
    <3> QED
      BY <3>2, <3>3
  <2>2. (\A r, s \in Rank : IsSeq(chan[r][s]))'
    BY <2>1 DEF IsSeq
  <2>3. chan' = [r \in Rank |-> [s \in Rank |-> chan'[r][s]]]
        /\ ticket' = [r \in Rank |-> ticket'[r]] /\ target' = target
    BY <1>4, <1>6, <1>7
  <2> QED
    BY <2>2, <2>3 DEF Inv, Shape
<1> QED
  BY <1>1, <1>4, <1>7, <1>8, <1>15, <1>16, <1>17, ExchangeInv

\* What is in front of an active receive is the message of the same operation.
LEMMA HeadIsNext ==
  ASSUME Inv, NEW p \in Rank, ticket[p].open, NEW i \in ticket[p].recvs,
         NEW t, t = begun[p], NEW q, q = ticket[p].ranks[i],
         NEW c, c = chan[q][p], c # <<>>
  PROVE  /\ c[1].id = t /\ c[1].buffer = Part(t, q, p)
         /\ Head(c) = c[1] /\ IsSeq(c) /\ Channel(q, p)
         /\ q \in Rank /\ q # p /\ q \in SharesWith(GateOf(t), p)
         /\ HasSent(q, p, t) /\ ~HasTaken(p, q, t)
<1>0. PICK h : h = c[1].id
  OBVIOUS
<1>1. /\ t \in DOMAIN Program /\ t \in Nat /\ Program[t].op # "dot" /\ GateOf(t) \in Kind
      /\ i \in DOMAIN Neighbours[GateOf(t)][p] /\ q = Neighbours[GateOf(t)][p][i]
  BY TicketKnows
<1>2. q \in SharesWith(GateOf(t), p) /\ q \in Rank /\ q # p /\ p \in SharesWith(GateOf(t), q)
  BY <1>1, NeighboursMeet, SharingIsMutual
<1>3. Channel(q, p) /\ IsSeq(c)
  BY <1>2 DEF Inv, Channels, Shape
<1>4. Head(c) = c[1] /\ 1 \in 1 .. Len(c) /\ \A k \in 1 .. Len(c) : k # 1 => 1 < k
  <2>1. PICK n : n = Tail(c)
    OBVIOUS
  <2> QED
    BY <1>3, <2>1, SeqTailPlaces, SeqShorter
<1>5. HasSent(q, p, h) /\ ~HasTaken(p, q, h) /\ c[1].buffer = Part(h, q, p)
  BY <1>0, <1>3, <1>4 DEF Channel
<1>6. h \in DOMAIN Program /\ h \in Nat /\ Uses(h, p, q)
  <2>1. Uses(h, q, p)
    BY <1>5 DEF HasSent
  <2>2. h \in DOMAIN Program /\ h \in Nat
    BY <2>1, OperationsHaveGates DEF Uses
  <2> QED
    BY <1>2, <2>1, <2>2, SharingIsMutual DEF Uses
<1>7. ~(h < t)
  BY <1>5, <1>6 DEF HasTaken
<1>8. ~HasTaken(p, q, t)
  <2>1. ~(t < t)
    BY <1>1
  <2> QED
    BY <2>1 DEF HasTaken
<1>9. h = t
  <2> SUFFICES ASSUME t < h PROVE FALSE
    BY <1>1, <1>6, <1>7
  <2>1. t < begun[q]
    <3>1. begun[q] \in 0 .. Len(Program)
      BY <1>2 DEF Inv, Shape
    <3>2. begun[q] \in Nat
      BY <3>1, GateAssumption
    <3>3. h < begun[q] \/ h = begun[q]
      BY <1>5 DEF HasSent
    <3> QED
      BY <1>1, <1>6, <3>2, <3>3
  <2>2. HasSent(q, p, t)
    BY <1>1, <1>2, <2>1 DEF HasSent, Uses
  <2>3. PICK k \in 1 .. Len(c) : c[k].id = t
    BY <1>1, <1>3, <1>8, <2>2 DEF Channel
  <2>4. k # 1
    <3>1. t # h
      BY <1>1, <1>6
    <3> QED
      BY <1>0, <2>3, <3>1
  <2>5. 1 < k
    BY <1>4, <2>3, <2>4
  <2>6. c[1].id < c[k].id
    BY <1>3, <1>4, <2>3, <2>5 DEF Channel
  <2> QED
    BY <1>0, <1>7, <2>3, <2>6
<1> QED
  BY <1>0, <1>2, <1>3, <1>4, <1>5, <1>8, <1>9

\* The channel loses its first message, which is taken now.
LEMMA TakenChannel ==
  ASSUME NEW p \in Rank, NEW q \in Rank, NEW t, NEW old, NEW new,
         IsSeq(old), old # <<>>, old = chan[q][p], new = chan'[q][p], new = Tail(old),
         old[1].id = t, t \in Nat, Channel(q, p), HasTaken(p, q, t)', HasSent(q, p, t),
         \A u : HasSent(q, p, u)' <=> HasSent(q, p, u),
         \A u : u # t => (HasTaken(p, q, u)' <=> HasTaken(p, q, u))
  PROVE  Channel(q, p)'
<1>1. /\ 1 \in 1 .. Len(old)
      /\ \A k \in 1 .. Len(new) : k + 1 \in 1 .. Len(old) /\ new[k] = old[k + 1] /\ k \in Nat /\ 1 < k + 1
      /\ \A k \in 1 .. Len(old) : k # 1 => k - 1 \in 1 .. Len(new) /\ new[k - 1] = old[k] /\ 1 < k
      /\ \A k, l \in 1 .. Len(new) : k < l => k + 1 < l + 1
  BY SeqTailPlaces
<1>2. \A u : Part(u, q, p)' = Part(u, q, p)
  BY DEF Part, Worth
<1>3. ASSUME NEW k \in 1 .. Len(new), NEW u, u = new[k].id
      PROVE  /\ HasSent(q, p, u)' /\ ~HasTaken(p, q, u)'
             /\ new[k].buffer = Part(u, q, p)'
  <2>1. PICK j \in 1 .. Len(old) : j = k + 1 /\ new[k] = old[j] /\ 1 < j
    BY <1>1
  <2>2. /\ HasSent(q, p, u) /\ ~HasTaken(p, q, u)
        /\ old[j].buffer = Part(u, q, p)
    BY <1>3, <2>1 DEF Channel
  <2>3. t < u
    BY <1>1, <1>3, <2>1 DEF Channel
  <2>4. u # t
    BY <2>3
  <2> QED
    BY <1>2, <2>1, <2>2, <2>4
<1>4. ASSUME NEW k \in 1 .. Len(new), NEW l \in 1 .. Len(new), k < l
      PROVE  new[k].id < new[l].id
  <2>1. PICK i \in 1 .. Len(old), j \in 1 .. Len(old) : i < j /\ new[k] = old[i] /\ new[l] = old[j]
    BY <1>1, <1>4
  <2> QED
    BY <2>1 DEF Channel
<1>5. ASSUME NEW u \in DOMAIN Program, HasSent(q, p, u)', ~HasTaken(p, q, u)'
      PROVE  \E k \in 1 .. Len(new) : new[k].id = u
  <2>1. u # t /\ HasSent(q, p, u) /\ ~HasTaken(p, q, u)
    BY <1>5
  <2>2. PICK k \in 1 .. Len(old) : old[k].id = u
    BY <2>1 DEF Channel
  <2>3. k # 1
    BY <2>1, <2>2
  <2> QED
    BY <1>1, <2>2, <2>3
<1>6. ASSUME NEW u \in DOMAIN Program, HasTaken(p, q, u)'
      PROVE  HasSent(q, p, u)'
  <2>1. CASE u = t
    BY <2>1
  <2>2. CASE u # t
    BY <1>6, <2>2 DEF Channel
  <2> QED
    BY <2>1, <2>2
<1> QED
  BY <1>3, <1>4, <1>5, <1>6 DEF Channel

\* The sum when a part has been added to its entries.
Added(old, m, b) ==
  [d \in Dof |-> IF d \in m \cap DOMAIN b
                 THEN [r \in Rank |-> old[d][r] + b[d][r]]
                 ELSE old[d]]

\* Scattering what came from q adds q's part to the sum.
LEMMA ScatterAddsPart ==
  ASSUME NEW p \in Rank, NEW t \in DOMAIN Program, NEW q \in SharesWith(GateOf(t), p),
         NEW old, old = SumSoFar(p, t), NEW m, m = MirrorOf(GateOf(t), p, q),
         NEW b, b = Part(t, q, p), NEW new, new = Added(old, m, b),
         ~HasTaken(p, q, t), HasTaken(p, q, t)',
         \A r \in Rank \ {q} : HasTaken(p, r, t)' <=> HasTaken(p, r, t)
  PROVE  new = SumSoFar(p, t)'
<1>1. q \in Rank /\ q # p
  BY SharingIsMutual
<1>2. PICK have : have = [d \in Dof |->
        {r \in Rank : d \in Holds[GateOf(t)][p] \cap Holds[GateOf(t)][r]
                      /\ (r = p \/ HasTaken(p, r, t))}]
  OBVIOUS
<1>3. PICK worth : worth = [d \in Dof |-> Worth(t, d)]
  OBVIOUS
<1>4. /\ m \subseteq Dof /\ DOMAIN b = m
      /\ b = [d \in m |-> [r \in Rank |-> IF r = q THEN worth[d] ELSE 0]]
  <2>1. m \subseteq Dof
    BY OperationsHaveGates, GateAssumption DEF MirrorOf
  <2>2. b = [d \in m |-> [r \in Rank |-> IF r = q THEN Worth(t, d) ELSE 0]]
    BY DEF MirrorOf, Part
  <2> QED
    BY <1>3, <2>1, <2>2
<1>5. old = [d \in Dof |-> [r \in Rank |-> IF r \in have[d] THEN worth[d] ELSE 0]]
  BY <1>2, <1>3 DEF SumSoFar
<1>6. /\ \A d \in Dof : q \notin have[d]
      /\ \A d \in Dof : \A r \in have[d] : worth[d] \in Nat
      /\ \A d \in m : worth[d] \in Nat
  BY <1>1, <1>2, <1>3, <1>4, WorthIsNumber DEF MirrorOf
<1>7. SumSoFar(p, t)' = [d \in Dof |-> [r \in Rank |->
        IF r \in have[d] \/ (r = q /\ d \in m) THEN worth[d] ELSE 0]]
  <2>1. \A d \in Dof, r \in Rank :
          d \in Holds[GateOf(t)][p] \cap Holds[GateOf(t)][r] /\ (r = p \/ HasTaken(p, r, t)')
          <=> r \in have[d] \/ (r = q /\ d \in m)
    BY <1>1, <1>2 DEF MirrorOf
  <2>2. SumSoFar(p, t)' = [d \in Dof |-> [r \in Rank |->
          IF d \in Holds[GateOf(t)][p] \cap Holds[GateOf(t)][r] /\ (r = p \/ HasTaken(p, r, t)')
          THEN Worth(t, d) ELSE 0]]
    BY DEF SumSoFar, Worth
  <2> QED
    BY <1>3, <2>1, <2>2
<1>8. ASSUME NEW d \in m, NEW r \in Rank
      PROVE  old[d][r] + b[d][r] = IF r \in have[d] \/ r = q THEN worth[d] ELSE 0
  <2>1. CASE r = q
    <3>1. old[d][r] = 0 /\ b[d][r] = worth[d]
      BY <1>4, <1>5, <1>6, <2>1
    <3>2. 0 + worth[d] = worth[d]
      BY <1>6
    <3> QED
      BY <2>1, <3>1, <3>2
  <2>2. CASE r # q
    <3>1. /\ old[d][r] = IF r \in have[d] THEN worth[d] ELSE 0
          /\ b[d][r] = 0 /\ old[d][r] \in Nat
      BY <1>4, <1>5, <1>6, <2>2
    <3>2. old[d][r] + 0 = old[d][r]
      BY <3>1
    <3> QED
      BY <2>2, <3>1, <3>2
  <2> QED
    BY <2>1, <2>2
<1>9. ASSUME NEW d \in Dof
      PROVE  new[d] = [r \in Rank |->
        IF r \in have[d] \/ (r = q /\ d \in m) THEN worth[d] ELSE 0]
  <2>1. CASE d \in m
    <3>1. new[d] = [r \in Rank |-> old[d][r] + b[d][r]]
      BY <1>4, <2>1 DEF Added
    <3> QED
      BY <1>8, <2>1, <3>1
  <2>2. CASE d \notin m
    <3>1. new[d] = old[d]
      BY <2>2 DEF Added
    <3> QED
      BY <1>5, <2>2, <3>1
  <2> QED
    BY <2>1, <2>2
<1> QED
  BY <1>7, <1>9 DEF Added

LEMMA ReceiveInv ==
  ASSUME Inv, NEW p \in Rank, NEW i \in ticket[p].recvs, Receive(p, i),
         UNCHANGED <<ranks, freqs, begun, summing>>,
         NEW t, t = begun[p], NEW q, q = ticket[p].ranks[i],
         NEW old, old = chan[q][p], NEW rest, rest = ticket[p].recvs \ {i}
  PROVE  Inv'
<1> DEFINE g == GateOf(t)
           near == Neighbours[g][p]
<1>1. /\ ticket[p].open /\ AllSent(p) /\ OpenTicket(p)
      /\ t \in DOMAIN Program /\ t \in Nat /\ t > 0 /\ Program[t].op # "dot"
      /\ g \in Kind /\ ~summing[p]
      /\ ticket[p].id = t /\ ticket[p].ranks = near
      /\ \A s : Uses(t, p, s) <=> s \in SharesWith(g, p)
      /\ DOMAIN near = 1 .. Len(near) /\ Len(near) \in Nat
      /\ ticket[p].sent \in 0 .. Len(near) /\ ticket[p].recvs \subseteq DOMAIN near
      /\ Mirror(p, i) = MirrorOf(g, p, q)
  BY TicketKnows DEF Receive
<1>2. /\ old # <<>>
      /\ chan' = [chan EXCEPT ![q][p] = Tail(@)]
      /\ ticket' = [ticket EXCEPT ![p].recvs = rest]
      /\ target' = [target EXCEPT ![p] = ScatterAxpy(p, i, Head(old).buffer)]
  BY DEF Receive
<1>3. /\ old[1].id = t /\ old[1].buffer = Part(t, q, p)
      /\ Head(old) = old[1] /\ IsSeq(old) /\ Channel(q, p)
      /\ q \in Rank /\ q # p /\ q \in SharesWith(g, p)
      /\ HasSent(q, p, t) /\ ~HasTaken(p, q, t)
  <2>1. ticket[p].open /\ old # <<>>
    BY <1>1, <1>2
  <2> QED
    BY <2>1, HeadIsNext, SMTT(30)
<1>4. /\ chan'[q][p] = Tail(old)
      /\ \A r, s \in Rank : ~(r = q /\ s = p) => chan'[r][s] = chan[r][s]
      /\ chan' = [r \in Rank |-> [s \in Rank |-> chan'[r][s]]]
  <2>1. chan = [r \in Rank |-> [s \in Rank |-> chan[r][s]]]
    BY DEF Inv, Shape
  <2>2. PICK new, n : new = chan' /\ n = Tail(old)
    OBVIOUS
  <2>3. new = [chan EXCEPT ![q][p] = n]
    BY <1>2, <2>2
  <2>4. /\ new[q][p] = n
        /\ \A r, s \in Rank : ~(r = q /\ s = p) => new[r][s] = chan[r][s]
        /\ new = [r \in Rank |-> [s \in Rank |-> new[r][s]]]
    BY <1>3, <2>1, <2>3
  <2> QED
    BY <2>2, <2>4
<1>5. /\ ticket'[p] = [ticket[p] EXCEPT !.recvs = rest]
      /\ \A r \in Rank \ {p} : ticket'[r] = ticket[r]
      /\ ticket' = [r \in Rank |-> ticket'[r]]
  BY <1>2 DEF Inv, Shape
<1>6. /\ target'[p] = ScatterAxpy(p, i, Head(old).buffer)
      /\ \A r \in Rank \ {p} : target'[r] = target[r]
      /\ target' = [r \in Rank |-> target'[r]]
  BY <1>2 DEF Inv, Shape
<1>7. /\ ticket'[p].open /\ ticket'[p].sent = ticket[p].sent /\ ticket'[p].recvs = rest
      /\ ticket'[p].ranks = near
      /\ OpenTicket(p)'
  <2>1. ticket[p] = [open |-> TRUE, id |-> t, ranks |-> near,
                     mirrors |-> [j \in DOMAIN near |-> MirrorOf(g, p, near[j])],
                     sent |-> ticket[p].sent, recvs |-> ticket[p].recvs]
    BY <1>1 DEF OpenTicket
  <2>2. ticket'[p] = [open |-> TRUE, id |-> t, ranks |-> near,
                      mirrors |-> [j \in DOMAIN near |-> MirrorOf(g, p, near[j])],
                      sent |-> ticket[p].sent, recvs |-> rest]
    <3>1. PICK a, b : ticket[p] = TicketWith(p, t, a, b) /\ a = ticket[p].sent
      BY <2>1 DEF TicketWith
    <3>2. ticket'[p] = TicketWith(p, t, a, rest)
      <4>1. PICK x, y : x = ticket[p] /\ y = ticket'[p]
        OBVIOUS
      <4>2. x = TicketWith(p, t, a, b) /\ y = [x EXCEPT !.recvs = rest]
        BY <1>5, <3>1, <4>1
      <4> QED
        BY <4>1, <4>2, TicketSends
    <3> QED
      BY <3>1, <3>2 DEF TicketWith
  <2>3. ~(ticket[p].sent < Len(near))
    BY <1>1 DEF AllSent
  <2>4. ticket'[p].open /\ ticket'[p].sent = ticket[p].sent /\ ticket'[p].recvs = rest
        /\ ticket'[p].ranks = near
    BY <2>2
  <2>5. rest \subseteq DOMAIN near
    BY <1>1
  <2> QED
    BY <1>1, <2>2, <2>3, <2>4, <2>5 DEF OpenTicket
<1>8. \A r \in Rank : \A s, u : HasSent(r, s, u)' <=> HasSent(r, s, u)
  <2> TAKE r \in Rank
  <2>1. ticket'[r].open = ticket[r].open /\ ticket'[r].sent = ticket[r].sent
        /\ ticket'[r].ranks = ticket[r].ranks
    <3>1. CASE r = p
      <4>1. ticket[p].open = TRUE /\ ticket'[p].open = TRUE
        BY <1>1, <1>7 DEF OpenTicket
      <4> QED
        BY <1>1, <1>7, <3>1, <4>1
    <3>2. CASE r # p
      BY <1>5, <3>2
    <3> QED
      BY <3>1, <3>2
  <2> QED
    BY <2>1 DEF HasSent, Uses
<1>9. \A r \in Rank \ {p} : \A s, u : HasTaken(r, s, u)' <=> HasTaken(r, s, u)
  BY <1>5 DEF HasTaken, Uses
<1>10. \A s, u : ~(s = q /\ u = t) => (HasTaken(p, s, u)' <=> HasTaken(p, s, u))
  <2> SUFFICES ASSUME NEW s, Uses(t, p, s), s # q
               PROVE  HasTaken(p, s, t)' <=> HasTaken(p, s, t)
    BY DEF HasTaken, Uses
  <2>1. (\A j \in rest : near[j] # s) <=> (\A j \in ticket[p].recvs : near[j] # s)
    BY <1>1
  <2> QED
    BY <1>1, <1>7, <2>1 DEF HasTaken, Uses
<1>11. HasTaken(p, q, t)'
  <2>1. \A j \in rest : near[j] # q
    <3> TAKE j \in rest
    <3>1. j \in DOMAIN near /\ i \in DOMAIN near /\ j # i
      BY <1>1
    <3> QED
      BY <1>1, <3>1, NeighboursMeet
  <2> QED
    BY <1>1, <1>3, <1>7, <2>1 DEF HasTaken, Uses
<1>12. Channel(q, p)'
  <2>1. PICK new : new = chan'[q][p]
    OBVIOUS
  <2>2. new = Tail(old)
    BY <1>4, <2>1
  <2> QED
    BY <1>1, <1>2, <1>3, <1>8, <1>10, <1>11, <2>1, <2>2, TakenChannel
<1>13. Channels'
  <2> SUFFICES ASSUME NEW r \in Rank, NEW s \in Rank
               PROVE  Channel(r, s)'
    BY DEF Channels
  <2>1. CASE r = q /\ s = p
    BY <1>12, <2>1
  <2>2. CASE ~(r = q /\ s = p)
    <3>1. Channel(r, s)
      BY DEF Inv, Channels
    <3>2. \A u : HasTaken(s, r, u)' <=> HasTaken(s, r, u)
      BY <1>9, <1>10, <2>2
    <3> QED
      BY <1>4, <1>8, <2>2, <3>1, <3>2, ChannelStays
  <2> QED
    BY <2>1, <2>2
<1>14. SumOf(p)'
  <2>1. PICK have, new, m, b : /\ have = target[p] /\ new = target'[p]
                               /\ m = MirrorOf(g, p, q) /\ b = Part(t, q, p)
    OBVIOUS
  <2>2. have = SumSoFar(p, t)
    BY <1>1, <2>1 DEF Inv, Sums
  <2>3. new = Added(have, m, b)
    <3>1. new = ScatterAxpy(p, i, b) /\ Mirror(p, i) = m
      BY <1>1, <1>3, <1>6, <2>1
    <3> QED
      BY <2>1, <3>1 DEF ScatterAxpy, Added
  <2>4. \A r \in Rank \ {q} : HasTaken(p, r, t)' <=> HasTaken(p, r, t)
    BY <1>10
  <2>5. /\ t \in DOMAIN Program /\ q \in SharesWith(GateOf(t), p)
        /\ ~HasTaken(p, q, t) /\ HasTaken(p, q, t)'
    BY <1>1, <1>3, <1>11
  <2>6. new = SumSoFar(p, t)'
    BY <2>1, <2>2, <2>3, <2>4, <2>5, ScatterAddsPart, SMTT(30)
  <2>7. begun'[p] = t
    OBVIOUS
  <2> QED
    BY <1>1, <2>1, <2>6, <2>7 DEF SumOf
<1>15. Shape'
  <2>1. \A r, s \in Rank : IsSeq(chan'[r][s])
    <3> TAKE r, s \in Rank
    <3>1. IsSeq(chan[r][s])
      BY DEF Inv, Shape
    <3>2. CASE r = q /\ s = p
      <4>1. IsSeq(Tail(old))
        BY <1>2, <1>3, SeqShorter
      <4> QED
        BY <1>4, <3>2, <4>1
    <3>3. CASE ~(r = q /\ s = p)
      BY <1>4, <3>1, <3>3
    <3> QED
      BY <3>2, <3>3
  <2>2. (\A r, s \in Rank : IsSeq(chan[r][s]))'
    BY <2>1 DEF IsSeq
  <2> QED
    BY <1>4, <1>5, <1>6, <2>2 DEF Inv, Shape
<1> QED
  BY <1>1, <1>5, <1>6, <1>7, <1>13, <1>14, <1>15, ExchangeInv

----------------------------------------------------------------------------
(* Every step keeps the invariant.                                         *)

LEMMA ExchangeKeepsInv ==
  ASSUME Inv, NEW p \in Rank, Exchange(p)
  PROVE  Inv'
<1>1. UNCHANGED <<ranks, freqs, begun, summing>>
  BY DEF Exchange, gateVars
<1>2. CASE PostSend(p)
  <2>1. PICK t, i : t = begun[p] /\ i = ticket[p].sent + 1
    OBVIOUS
  <2>2. PICK q : q = Neighbours[GateOf(t)][p][i]
    OBVIOUS
  <2>3. PICK old, message : old = chan[p][q] /\ message = [id |-> t, buffer |-> Gather(p, i)]
    OBVIOUS
  <2> QED
    BY <1>1, <1>2, <2>1, <2>2, <2>3, PostSendInv
<1>3. CASE Return(p)
  BY <1>1, <1>3, ReturnInv
<1>4. ASSUME NEW i \in DOMAIN ticket[p].ranks, Receive(p, i)
      PROVE  Inv'
  <2>1. i \in ticket[p].recvs
    BY <1>4 DEF Receive
  <2>2. PICK t, q, rest : t = begun[p] /\ q = ticket[p].ranks[i] /\ rest = ticket[p].recvs \ {i}
    OBVIOUS
  <2>3. PICK old : old = chan[q][p]
    OBVIOUS
  <2> QED
    BY <1>1, <1>4, <2>1, <2>2, <2>3, ReceiveInv
<1> QED
  BY <1>2, <1>3, <1>4 DEF Exchange

LEMMA NextInv ==
  ASSUME Inv, [Next]_vars
  PROVE  Inv'
<1>1. ASSUME NEW p \in Rank, Step(p)
      PROVE  Inv'
  <2>1. ASSUME NEW g \in Kind, Push(g, p) \/ Compile(g, p)
        PROVE  Inv'
    BY <2>1, PushInv, CompileInv
  <2>2. CASE Sync(p)
    BY <2>2, SyncInv
  <2>3. CASE Dot(p)
    BY <2>3, DotInv
  <2>4. CASE DotReturns(p)
    BY <2>4, DotReturnsInv
  <2>5. CASE Exchange(p)
    BY <2>5, ExchangeKeepsInv
  <2> QED
    BY <1>1, <2>1, <2>2, <2>3, <2>4, <2>5 DEF Step
<1>2. CASE UNCHANGED vars
  <2>1. UNCHANGED <<ticket, target, chan, ranks, freqs, begun, summing>>
    BY <1>2 DEF vars
  <2>2. UNCHANGED <<begun, summing, vectorVars>>
    BY <2>1 DEF vectorVars
  <2>3. Shape'
    BY <2>1 DEF Inv, Shape, IsSeq
  <2>4. GatesGrow'
    BY <2>1 DEF Inv, GatesGrow, Grown, Built, Sharers
  <2> QED
    BY <2>2, <2>3, <2>4, BuildingKeepsInv
<1> QED
  BY <1>1, <1>2 DEF Next

LEMMA InvAlways == Spec => []Inv
<1>1. Init => Inv
  BY InitInv
<1>2. Inv /\ [Next]_vars => Inv'
  BY NextInv
<1> QED
  BY <1>1, <1>2, PTL DEF Spec

----------------------------------------------------------------------------
\* The message in front of a receive is the one of its operation.
LEMMA InvMatches == Inv => RightMatch
<1> SUFFICES ASSUME Inv, NEW p \in Rank, NEW i \in ticket[p].recvs,
                    chan[ticket[p].ranks[i]][p] # <<>>
             PROVE  LET q == ticket[p].ranks[i]
                    IN  /\ Head(chan[q][p]).id = ticket[p].id
                        /\ DOMAIN Head(chan[q][p]).buffer = ticket[p].mirrors[i]
  BY DEF RightMatch
<1>1. ticket[p].open
  BY NoOpenTicket DEF NoTicket
<1>2. PICK t, q : t = begun[p] /\ q = ticket[p].ranks[i]
  OBVIOUS
<1>3. PICK c : c = chan[q][p]
  OBVIOUS
<1>4. /\ c[1].id = t /\ c[1].buffer = Part(t, q, p) /\ Head(c) = c[1]
  BY <1>1, <1>2, <1>3, HeadIsNext
<1>5. ticket[p].id = t
  BY <1>1, <1>2, TicketKnows
<1>6. ticket[p].mirrors[i] = MirrorOf(GateOf(t), p, q)
  <2>1. i \in DOMAIN Neighbours[GateOf(t)][p] /\ Mirror(p, i) = MirrorOf(GateOf(t), p, q)
    BY <1>1, <1>2, TicketKnows
  <2> QED
    BY <2>1 DEF Mirror
<1>7. DOMAIN Part(t, q, p) = MirrorOf(GateOf(t), p, q)
  BY DEF Part, MirrorOf
<1> QED
  BY <1>2, <1>3, <1>4, <1>5, <1>6, <1>7

\* A message is received by the operation it was sent for, though all have the
\* same tag and neighbours may be one operation ahead (synch_vec.hpp: wait_any
\* gives a message of the right rank and tag, whatever the operation).
THEOREM MessagesMatchReceives == Spec => []RightMatch
BY InvMatches, InvAlways, PTL

\* What a process has taken was sent in the same operation.
LEMMA InvSends == Inv => SendsAreMatched
<1> SUFFICES ASSUME Inv, NEW p \in Rank, ticket[p].open, ticket[p].recvs = {},
                    NEW i \in DOMAIN ticket[p].ranks
             PROVE  begun[ticket[p].ranks[i]] >= ticket[p].id
  BY DEF SendsAreMatched
<1>1. PICK t, q : t = begun[p] /\ q = ticket[p].ranks[i]
  OBVIOUS
<1>2. /\ t \in DOMAIN Program /\ t \in Nat /\ GateOf(t) \in Kind /\ ticket[p].id = t
      /\ Uses(t, p, q) /\ q \in Rank
  <2>1. /\ t \in DOMAIN Program /\ t \in Nat /\ GateOf(t) \in Kind /\ ticket[p].id = t
        /\ ticket[p].ranks = Neighbours[GateOf(t)][p]
        /\ (Uses(t, p, q) <=> q \in SharesWith(GateOf(t), p))
    BY <1>1, TicketKnows
  <2> QED
    BY <1>1, <2>1, NeighboursMeet, SharingIsMutual
<1>3. HasTaken(p, q, t)
  BY <1>1, <1>2 DEF HasTaken
<1>4. Channel(q, p)
  BY <1>2 DEF Inv, Channels
<1>5. HasSent(q, p, t)
  BY <1>2, <1>3, <1>4 DEF Channel
<1>6. begun[q] \in 0 .. Len(Program)
  BY <1>2 DEF Inv, Shape
<1> QED
  BY <1>1, <1>2, <1>5, <1>6, GateAssumption DEF HasSent

\* When the last receive is fulfilled, all neighbours have posted the receives that
\* match the sends: wait_all on the sends (synch_vec.hpp) has nothing to wait for.
THEOREM SendsHaveReceivers == Spec => []SendsAreMatched
BY InvSends, InvAlways, PTL

\* Who has taken everything has the parts of all.
LEMMA InvResults == Inv => ResultsAreSums
<1> SUFFICES ASSUME Inv, NEW p \in Rank, ~Busy(p), begun[p] > 0
             PROVE  target[p] = Outcome(begun[p], p)
  BY DEF ResultsAreSums
<1>1. PICK t : t = begun[p]
  OBVIOUS
<1>2. t \in DOMAIN Program /\ t \in Nat /\ GateOf(t) \in Kind
  <2>1. Program \in Seq([op : {"sync_0", "sync_1", "dot"}, gate : Kind])
    BY GateAssumption
  <2>2. DOMAIN Program = 1 .. Len(Program) /\ Len(Program) \in Nat
    BY <2>1
  <2>3. t \in 0 .. Len(Program)
    BY <1>1 DEF Inv, Shape
  <2>4. t \in DOMAIN Program
    BY <1>1, <2>2, <2>3
  <2> QED
    BY <2>4, OperationsHaveGates
<1>3. CASE Program[t].op = "dot"
  BY <1>1, <1>3 DEF Inv, Sums, Busy
<1>4. CASE Program[t].op # "dot"
  <2>1. target[p] = SumSoFar(p, t)
    BY <1>1, <1>4 DEF Inv, Sums
  <2>2. \A r \in SharesWith(GateOf(t), p) : HasTaken(p, r, t)
    <3> TAKE r \in SharesWith(GateOf(t), p)
    <3>1. Uses(t, p, r) /\ t <= begun[p]
      BY <1>1, <1>2, <1>4 DEF Uses
    <3> QED
      BY <3>1, DoneUpToNow DEF Busy
  <2>3. \A d \in Dof, r \in Rank :
          d \in Holds[GateOf(t)][p] \cap Holds[GateOf(t)][r] => r = p \/ HasTaken(p, r, t)
    BY <2>2 DEF SharesWith
  <2>4. SumSoFar(p, t) = [d \in Dof |-> [r \in Rank |->
          IF d \in Holds[GateOf(t)][p] \cap Holds[GateOf(t)][r] THEN Worth(t, d) ELSE 0]]
    BY <2>3 DEF SumSoFar
  <2> QED
    BY <1>1, <1>4, <2>1, <2>4 DEF Outcome, Worth, GateOf
<1> QED
  BY <1>3, <1>4

\* A process that has left an operation has the contributions of all who hold an entry,
\* each of them once (gate.hpp: sync_0, sync_1, dot).
THEOREM SumsAreComplete == Spec => []ResultsAreSums
BY InvResults, InvAlways, PTL

\* A share, as often as there are sharers, is the value.
LEMMA SharesAreWhole ==
  ASSUME NEW g \in Kind, NEW d \in Dof, Sharers(g, d) # {}
  PROVE  Cardinality(Sharers(g, d)) * (Unit \div Cardinality(Sharers(g, d))) = Unit
<1>1. PICK n : n = Cardinality(Sharers(g, d))
  OBVIOUS
<1>2. n \in Nat \ {0}
  <2>1. IsFiniteSet(Sharers(g, d))
    BY UnitAssumption, FS_Subset DEF Sharers
  <2> QED
    BY <1>1, <2>1, FS_CardinalityType, FS_EmptySet
<1>3. Unit \in Nat /\ Unit % n = 0
  BY <1>1, <1>2, GateAssumption, UnitAssumption DEF Sharers
<1>4. n * (Unit \div n) = Unit
  BY <1>2, <1>3
<1> QED
  BY <1>1, <1>4

\* The contributions to an entry are the shares of those who hold it.
LEMMA InvWhole == Inv => WholeAgain
<1> SUFFICES ASSUME Inv, NEW p \in Rank, ~Busy(p), begun[p] > 0, Program[begun[p]].op # "sync_0",
                    NEW d \in Holds[Program[begun[p]].gate][p]
             PROVE  MapThenSumSet(LAMBDA r : target[p][d][r], Rank) = Unit
  BY DEF WholeAgain
<1> DEFINE t == begun[p]
           g == Program[t].gate
           A == Sharers(g, d)
           share == Unit \div Cardinality(A)
<1>1. g \in Kind /\ d \in Dof /\ p \in A
  <2>1. t \in DOMAIN Program
    <3>1. DOMAIN Program = 1 .. Len(Program) /\ Len(Program) \in Nat
      BY GateAssumption
    <3> QED
      BY <3>1 DEF Inv, Shape
  <2>2. g \in Kind
    BY <2>1, OperationsHaveGates DEF GateOf
  <2> QED
    BY <2>2, GateAssumption DEF Sharers
<1>2. target[p] = Outcome(t, p)
  BY InvResults DEF ResultsAreSums
<1>3. \A r \in Rank : target[p][d][r] = IF r \in A THEN share ELSE 0
  <2>1. \A r \in Rank : r \in A <=> d \in Holds[g][r]
    BY DEF Sharers
  <2> HIDE DEF A
  <2>2. Outcome(t, p)[d] = [r \in Rank |-> IF d \in Holds[g][r] THEN share ELSE 0]
    BY <1>1 DEF Outcome, A
  <2> QED
    BY <1>2, <2>1, <2>2
<1>4. IsFiniteSet(Rank) /\ A \in SUBSET Rank
  BY UnitAssumption DEF Sharers
<1>5. Cardinality(A) * share = Unit
  BY <1>1, SharesAreWhole
<1>6. share \in Int
  <2>1. Cardinality(A) \in Nat \ {0}
    BY <1>1, <1>4, FS_Subset, FS_CardinalityType, FS_EmptySet
  <2> QED
    BY <2>1, GateAssumption
<1> HIDE DEF A, share
<1>7. Sum(target[p][d], Rank) = Cardinality(A) * share
  BY <1>3, <1>4, <1>6, SumOfEqualShares
<1>8. MapThenSumSet(LAMBDA r : target[p][d][r], Rank) = Sum(target[p][d], Rank)
  BY DEF MapThenSumSet, MapThenFoldSet, Sum, SumFunctionOnSet, FoldFunctionOnSet
<1> QED
  BY <1>5, <1>7, <1>8

\* sync_1 gives back the vector it got, and dot counts each entry once, for all gates that
\* divide values into as many equal shares as there are processes that hold them.
THEOREM SharesMakeUpValues == Spec => []WholeAgain
BY InvWhole, InvAlways, PTL

\* Nobody sends for an operation before it has taken what the one before brought.
LEMMA InvTwo == Inv => TwoInFlight
<1> SUFFICES ASSUME Inv, NEW p \in Rank, NEW q \in Rank, ~(Len(chan[p][q]) <= 2)
             PROVE  FALSE
  BY DEF TwoInFlight
<1>1. PICK c : c = chan[p][q]
  OBVIOUS
<1>2. Channel(p, q) /\ Channel(q, p) /\ IsSeq(c)
  BY <1>1 DEF Inv, Channels, Shape
<1>3. 1 \in 1 .. Len(c) /\ 2 \in 1 .. Len(c) /\ 3 \in 1 .. Len(c)
  <2>1. Len(c) \in Nat
    BY <1>2, SeqLength
  <2> QED
    BY <1>1, <2>1
<1>4. PICK a, b, d : a = c[1].id /\ b = c[2].id /\ d = c[3].id
  OBVIOUS
<1>5. a < b /\ b < d
  BY <1>1, <1>2, <1>3, <1>4 DEF Channel
<1>6. ASSUME NEW k \in 1 .. Len(c), NEW t, t = c[k].id
      PROVE  HasSent(p, q, t) /\ ~HasTaken(q, p, t)
  BY <1>1, <1>2, <1>6 DEF Channel
<1>7. /\ HasSent(p, q, a) /\ ~HasTaken(q, p, a)
      /\ HasSent(p, q, b) /\ HasSent(p, q, d)
  BY <1>3, <1>4, <1>6
<1>8. \A t : Uses(t, p, q) => Uses(t, q, p) /\ t \in DOMAIN Program /\ t \in Nat
  BY SharingIsMutual, OperationsHaveGates DEF Uses
<1>9. /\ a \in Nat /\ b \in Nat /\ d \in Nat /\ b \in DOMAIN Program
      /\ Uses(a, q, p) /\ Uses(b, p, q)
  BY <1>7, <1>8 DEF HasSent
<1>10. begun[p] \in Nat /\ begun[q] \in Nat
  BY GateAssumption DEF Inv, Shape
<1>11. ~(a < begun[q])
  BY <1>7, <1>9 DEF HasTaken
<1>12. b < begun[p]
  <2>1. d < begun[p] \/ d = begun[p]
    BY <1>7 DEF HasSent
  <2> QED
    BY <1>5, <1>9, <1>10, <2>1
<1>13. HasSent(q, p, b)
  <2>1. HasTaken(p, q, b)
    BY <1>9, <1>12 DEF HasTaken
  <2> QED
    BY <1>2, <1>9, <2>1 DEF Channel
<1>14. b < begun[q] \/ b = begun[q]
  BY <1>13 DEF HasSent
<1> QED
  BY <1>5, <1>9, <1>10, <1>11, <1>14

\* Neighbours run apart by one operation, so that at most two messages wait between
\* them: nobody sends for an operation before it has taken what the one before brought.
THEOREM FewInFlight == Spec => []TwoInFlight
BY InvTwo, InvAlways, PTL

----------------------------------------------------------------------------
(* The operations implement the promise.                                   *)

\* What the promise sees of a process' vector.
Result == [p \in Rank |-> IF Busy(p) THEN {} ELSE {target[p]}]

LEMMA PromiseStart ==
  ASSUME Init
  PROVE  Promise!Init
BY DEF Init, VectorInit, Promise!Init, Busy, NoTicket

\* A step of one process changes its own result only.
LEMMA OneResult ==
  ASSUME NEW p \in Rank, NEW v, v = (IF Busy(p)' THEN {} ELSE {target'[p]}),
         \A q \in Rank \ {p} : /\ ticket'[q] = ticket[q] /\ summing'[q] = summing[q]
                               /\ target'[q] = target[q]
  PROVE  Result' = [Result EXCEPT ![p] = v]
<1>1. \A q \in Rank \ {p} : Busy(q)' <=> Busy(q)
  BY DEF Busy
<1>2. Result' = [q \in Rank |-> IF q = p THEN v ELSE Result[q]]
  <2>1. ASSUME NEW q \in Rank \ {p}
        PROVE  (IF Busy(q)' THEN {} ELSE {target'[q]}) = Result[q]
    BY <1>1 DEF Result
  <2>2. Result' = [q \in Rank |-> IF Busy(q)' THEN {} ELSE {target'[q]}]
    BY DEF Result
  <2> QED
    BY <2>1, <2>2
<1>3. DOMAIN Result = Rank
  BY DEF Result
<1> QED
  BY <1>2, <1>3

\* Who is not busy has a result.
LEMMA BusyWaits ==
  ASSUME NEW p \in Rank
  PROVE  Result[p] = {} <=> Busy(p)
BY DEF Result

\* The same after a step.
LEMMA ResultsThen == Inv' => ResultsAreSums'
BY InvResults, PTL

\* The result of an operation after a step.
LEMMA ResultAfter ==
  ASSUME Inv', NEW p \in Rank, ~Busy(p)', begun'[p] > 0
  PROVE  target'[p] = Outcome(begun'[p], p)
<1>1. ResultsAreSums'
  BY ResultsThen
<1>2. \A t : Outcome(t, p)' = Outcome(t, p)
  BY DEF Outcome, Sharers
<1> QED
  BY <1>1, <1>2 DEF ResultsAreSums

\* A step that neither begins nor ends an operation is not seen.
LEMMA NotSeen ==
  ASSUME begun' = begun,
         \A p \in Rank : (Busy(p)' <=> Busy(p)) /\ (~Busy(p) => target'[p] = target[p])
  PROVE  UNCHANGED Promise!vars
<1>1. Result' = Result
  BY DEF Result
<1> QED
  BY <1>1 DEF Promise!vars, Result

\* A process begins an operation and waits.
LEMMA SeenEnter ==
  ASSUME NEW p \in Rank, ~Busy(p), Busy(p)', begun[p] < Len(Program),
         begun' = [begun EXCEPT ![p] = @ + 1],
         \A q \in Rank \ {p} : /\ ticket'[q] = ticket[q] /\ summing'[q] = summing[q]
                               /\ target'[q] = target[q]
  PROVE  Promise!Enter(p)
<1>1. Result' = [Result EXCEPT ![p] = {}]
  <2>1. PICK v : v = (IF Busy(p)' THEN {} ELSE {target'[p]})
    OBVIOUS
  <2> QED
    BY <2>1, OneResult
<1>2. Result[p] # {}
  BY BusyWaits
<1> QED
  BY <1>1, <1>2 DEF Promise!Enter, Promise!Waits, Result

\* A process begins an operation that it does alone.
LEMMA SeenPass ==
  ASSUME NEW p \in Rank, ~Busy(p), ~Busy(p)', begun[p] < Len(Program), NEW t, t = begun[p] + 1,
         begun' = [begun EXCEPT ![p] = @ + 1], Partners(t, p) = {}, target'[p] = Outcome(t, p),
         \A q \in Rank \ {p} : /\ ticket'[q] = ticket[q] /\ summing'[q] = summing[q]
                               /\ target'[q] = target[q]
  PROVE  Promise!Pass(p)
<1>1. Result' = [Result EXCEPT ![p] = {Outcome(t, p)}]
  <2>1. PICK v : v = (IF Busy(p)' THEN {} ELSE {target'[p]})
    OBVIOUS
  <2> QED
    BY <2>1, OneResult
<1>2. Result[p] # {}
  BY BusyWaits
<1> QED
  BY <1>1, <1>2 DEF Promise!Pass, Promise!Waits, Result

\* A process ends an operation that its partners have begun.
LEMMA SeenLeave ==
  ASSUME NEW p \in Rank, Busy(p), ~Busy(p)', NEW t, t = begun[p], begun' = begun,
         \A q \in Partners(t, p) : begun[q] >= t, target'[p] = Outcome(t, p),
         \A q \in Rank \ {p} : /\ ticket'[q] = ticket[q] /\ summing'[q] = summing[q]
                               /\ target'[q] = target[q]
  PROVE  Promise!Leave(p)
<1>1. Result' = [Result EXCEPT ![p] = {Outcome(t, p)}]
  <2>1. PICK v : v = (IF Busy(p)' THEN {} ELSE {target'[p]})
    OBVIOUS
  <2> QED
    BY <2>1, OneResult
<1>2. Result[p] = {}
  BY BusyWaits
<1> QED
  BY <1>1, <1>2 DEF Promise!Leave, Promise!Waits, Result

LEMMA SyncSeen ==
  ASSUME Inv, NEW p \in Rank, Sync(p), Inv'
  PROVE  Promise!Enter(p) \/ Promise!Pass(p)
<1>1. PICK t, g : t = begun[p] + 1 /\ g = GateOf(t)
  OBVIOUS
<1>2. PICK x : x = Own(g, p, [d \in Holds[g][p] |-> Weight(t, p, d)])
  OBVIOUS
<1>3. /\ Ready(p) /\ t \in DOMAIN Program /\ Program[t].op # "dot" /\ Begin(p)
      /\ IF ranks[g][p] = <<>>
         THEN target' = [target EXCEPT ![p] = x] /\ UNCHANGED <<ticket, chan>>
         ELSE Construct(p, t, x, ranks[g][p], Mirrors(g, p))
      /\ UNCHANGED <<ranks, freqs, summing>>
  BY <1>1, <1>2 DEF Sync, GateOf, gateVars
<1>4. /\ g \in Kind /\ ~ticket[p].open /\ ~summing[p] /\ ranks[g][p] = Neighbours[g][p]
  BY <1>1, <1>3, ReadyIsBuilt, OperationsHaveGates DEF Built
<1>5. /\ begun' = [begun EXCEPT ![p] = @ + 1] /\ begun[p] \in Nat /\ begun[p] < Len(Program)
      /\ begun'[p] = t /\ t > 0
  <2>1. Program \in Seq([op : {"sync_0", "sync_1", "dot"}, gate : Kind])
    BY GateAssumption
  <2>2. DOMAIN Program = 1 .. Len(Program) /\ Len(Program) \in Nat
    BY <2>1
  <2>3. begun[p] \in Nat /\ DOMAIN begun = Rank
    BY <2>2 DEF Inv, Shape
  <2> QED
    BY <1>1, <1>3, <2>2, <2>3 DEF Begin
<1>6. \A q \in Rank \ {p} : /\ ticket'[q] = ticket[q] /\ summing'[q] = summing[q]
                            /\ target'[q] = target[q]
  BY <1>3 DEF Construct, Inv, Shape
<1>7. CASE ranks[g][p] = <<>>
  <2>1. ~Busy(p) /\ ~Busy(p)'
    BY <1>3, <1>4, <1>7 DEF Busy
  <2>2. Partners(t, p) = {}
    <3>1. DOMAIN Neighbours[g][p] = {}
      BY <1>4, <1>7
    <3>2. SharesWith(g, p) = {}
      BY <1>4, <3>1, NeighboursMeet
    <3> QED
      BY <1>1, <1>3, <3>2 DEF Partners, GateOf
  <2>3. target'[p] = Outcome(t, p)
    BY <1>5, <2>1, ResultAfter
  <2> QED
    BY <1>1, <1>5, <1>6, <2>1, <2>2, <2>3, SeenPass
<1>8. CASE ranks[g][p] # <<>>
  <2>1. ticket'[p].open
    BY <1>3, <1>8 DEF Construct, Inv, Shape
  <2>2. ~Busy(p) /\ Busy(p)'
    BY <1>4, <2>1 DEF Busy
  <2> QED
    BY <1>5, <1>6, <2>2, SeenEnter
<1> QED
  BY <1>7, <1>8

LEMMA DotSeen ==
  ASSUME Inv, NEW p \in Rank, Dot(p), Inv'
  PROVE  Promise!Enter(p) \/ Promise!Pass(p)
<1>1. PICK t, x : t = begun[p] + 1
                  /\ x = Own(GateOf(t), p, [d \in Holds[GateOf(t)][p] |-> Share(GateOf(t), p, d)])
  OBVIOUS
<1>2. /\ Ready(p) /\ t \in DOMAIN Program /\ Program[t].op = "dot" /\ Begin(p)
      /\ target' = [target EXCEPT ![p] = x]
      /\ summing' = [summing EXCEPT ![p] = Rank # {p}]
      /\ UNCHANGED ticket
  BY <1>1 DEF Dot, GateOf
<1>3. ~ticket[p].open /\ ~summing[p]
  BY <1>2 DEF Ready
<1>4. /\ begun' = [begun EXCEPT ![p] = @ + 1] /\ begun[p] < Len(Program)
      /\ begun'[p] = t /\ t > 0
  <2>1. Program \in Seq([op : {"sync_0", "sync_1", "dot"}, gate : Kind])
    BY GateAssumption
  <2>2. DOMAIN Program = 1 .. Len(Program) /\ Len(Program) \in Nat
    BY <2>1
  <2>3. begun[p] \in Nat /\ DOMAIN begun = Rank
    BY <2>2 DEF Inv, Shape
  <2> QED
    BY <1>1, <1>2, <2>2, <2>3 DEF Begin
<1>5. /\ \A q \in Rank \ {p} : /\ ticket'[q] = ticket[q] /\ summing'[q] = summing[q]
                               /\ target'[q] = target[q]
      /\ summing'[p] = (Rank # {p})
  BY <1>2 DEF Inv, Shape
<1>6. CASE Rank = {p}
  <2>1. ~Busy(p) /\ ~Busy(p)'
    BY <1>2, <1>3, <1>5, <1>6 DEF Busy
  <2>2. Partners(t, p) = {}
    BY <1>2, <1>6 DEF Partners
  <2>3. target'[p] = Outcome(t, p)
    BY <1>4, <2>1, ResultAfter
  <2> QED
    BY <1>1, <1>4, <1>5, <2>1, <2>2, <2>3, SeenPass
<1>7. CASE Rank # {p}
  <2>1. ~Busy(p) /\ Busy(p)'
    BY <1>3, <1>5, <1>7 DEF Busy
  <2> QED
    BY <1>4, <1>5, <2>1, SeenEnter
<1> QED
  BY <1>6, <1>7

LEMMA DotReturnsSeen ==
  ASSUME Inv, NEW p \in Rank, DotReturns(p), Inv'
  PROVE  Promise!Leave(p)
<1>1. PICK t : t = begun[p]
  OBVIOUS
<1>2. /\ summing[p] /\ \A q \in Rank : begun[q] >= t
      /\ target' = [target EXCEPT ![p] = AllShares(GateOf(t))]
      /\ summing' = [summing EXCEPT ![p] = FALSE]
      /\ UNCHANGED <<begun, ticket>>
  BY <1>1 DEF DotReturns, GateOf
<1>3. t > 0 /\ Program[t].op = "dot" /\ ~ticket[p].open
  <2>1. t > 0 /\ Program[t].op = "dot"
    BY <1>1, <1>2 DEF Inv, Tickets
  <2>2. ~ticket[p].open
    BY <1>1, <2>1, TicketKnows
  <2> QED
    BY <2>1, <2>2
<1>4. /\ \A q \in Rank \ {p} : /\ ticket'[q] = ticket[q] /\ summing'[q] = summing[q]
                               /\ target'[q] = target[q]
      /\ ~summing'[p]
  BY <1>2 DEF Inv, Shape
<1>5. Busy(p) /\ ~Busy(p)'
  BY <1>2, <1>3, <1>4 DEF Busy
<1>6. \A q \in Partners(t, p) : begun[q] >= t
  BY <1>2, <1>3 DEF Partners
<1>7. target'[p] = Outcome(t, p)
  BY <1>1, <1>2, <1>3, <1>5, ResultAfter
<1> QED
  BY <1>1, <1>2, <1>4, <1>5, <1>6, <1>7, SeenLeave

LEMMA ReturnSeen ==
  ASSUME Inv, NEW p \in Rank, Return(p), UNCHANGED <<begun, summing>>, Inv'
  PROVE  Promise!Leave(p)
<1>1. PICK t : t = begun[p]
  OBVIOUS
<1>2. /\ ticket[p].open /\ AllSent(p) /\ ticket[p].recvs = {}
      /\ ticket' = [ticket EXCEPT ![p] = NoTicket]
      /\ UNCHANGED target
  BY DEF Return
<1>3. /\ t > 0 /\ Program[t].op # "dot" /\ GateOf(t) \in Kind /\ ~summing[p]
      /\ ticket[p].ranks = Neighbours[GateOf(t)][p] /\ ticket[p].id = t
  BY <1>1, <1>2, TicketKnows
<1>4. /\ \A q \in Rank \ {p} : /\ ticket'[q] = ticket[q] /\ summing'[q] = summing[q]
                               /\ target'[q] = target[q]
      /\ ticket'[p] = NoTicket
  BY <1>2 DEF Inv, Shape
<1>5. Busy(p) /\ ~Busy(p)'
  BY <1>2, <1>3, <1>4 DEF Busy, NoTicket
<1>6. \A q \in Partners(t, p) : begun[q] >= t
  <2> TAKE q \in Partners(t, p)
  <2>1. q \in SharesWith(GateOf(t), p)
    BY <1>3 DEF Partners, GateOf
  <2>2. PICK i \in DOMAIN Neighbours[GateOf(t)][p] : Neighbours[GateOf(t)][p][i] = q
    BY <1>3, <2>1, NeighboursMeet
  <2> QED
    BY <1>2, <1>3, <2>2, InvSends DEF SendsAreMatched
<1>7. target'[p] = Outcome(t, p)
  BY <1>1, <1>3, <1>5, ResultAfter
<1> QED
  BY <1>1, <1>4, <1>5, <1>6, <1>7, SeenLeave

\* Sends and receives are within an operation.
LEMMA WithinOperation ==
  ASSUME Inv, NEW p \in Rank, UNCHANGED <<begun, summing>>,
         PostSend(p) \/ \E i \in DOMAIN ticket[p].ranks : Receive(p, i)
  PROVE  UNCHANGED Promise!vars
<1>1. /\ ticket[p].open /\ ticket'[p].open
      /\ \A q \in Rank \ {p} : ticket'[q] = ticket[q] /\ target'[q] = target[q]
  <2>1. CASE PostSend(p)
    <3>1. PICK i : i = ticket[p].sent + 1
      OBVIOUS
    <3>2. ticket[p].open /\ ticket' = [ticket EXCEPT ![p].sent = i] /\ UNCHANGED target
      BY <2>1, <3>1 DEF PostSend
    <3>3. ticket'[p] = [ticket[p] EXCEPT !.sent = i]
          /\ \A q \in Rank \ {p} : ticket'[q] = ticket[q] /\ target'[q] = target[q]
      BY <3>2 DEF Inv, Shape
    <3> QED
      BY <3>2, <3>3, TicketKnows DEF OpenTicket
  <2>2. ASSUME NEW i \in DOMAIN ticket[p].ranks, Receive(p, i)
        PROVE  /\ ticket[p].open /\ ticket'[p].open
               /\ \A q \in Rank \ {p} : ticket'[q] = ticket[q] /\ target'[q] = target[q]
    <3>1. PICK rest, x : rest = ticket[p].recvs \ {i}
                         /\ x = ScatterAxpy(p, i, Head(chan[ticket[p].ranks[i]][p]).buffer)
      OBVIOUS
    <3>2. ticket[p].open /\ ticket' = [ticket EXCEPT ![p].recvs = rest]
          /\ target' = [target EXCEPT ![p] = x]
      BY <2>2, <3>1 DEF Receive
    <3>3. ticket'[p] = [ticket[p] EXCEPT !.recvs = rest]
          /\ \A q \in Rank \ {p} : ticket'[q] = ticket[q] /\ target'[q] = target[q]
      BY <3>2 DEF Inv, Shape
    <3> QED
      BY <3>2, <3>3, TicketKnows DEF OpenTicket
  <2> QED
    BY <2>1, <2>2
<1>2. \A q \in Rank : (Busy(q)' <=> Busy(q)) /\ (~Busy(q) => target'[q] = target[q])
  BY <1>1 DEF Busy
<1> QED
  BY <1>2, NotSeen

LEMMA StepSeen ==
  ASSUME Inv, [Next]_vars, Inv'
  PROVE  [Promise!Next]_(Promise!vars)
<1>1. ASSUME NEW p \in Rank, Step(p)
      PROVE  Promise!Next \/ UNCHANGED Promise!vars
  <2>1. ASSUME NEW g \in Kind, Push(g, p) \/ Compile(g, p)
        PROVE  UNCHANGED Promise!vars
    <3>1. UNCHANGED <<begun, summing, ticket, target>>
      BY <2>1 DEF Push, Compile, vectorVars
    <3> QED
      BY <3>1, NotSeen DEF Busy
  <2>2. CASE Sync(p)
    BY <2>2, SyncSeen DEF Promise!Next
  <2>3. CASE Dot(p)
    BY <2>3, DotSeen DEF Promise!Next
  <2>4. CASE DotReturns(p)
    BY <2>4, DotReturnsSeen DEF Promise!Next
  <2>5. CASE Exchange(p)
    <3>1. UNCHANGED <<begun, summing>>
      BY <2>5 DEF Exchange
    <3>2. CASE Return(p)
      BY <3>1, <3>2, ReturnSeen DEF Promise!Next
    <3>3. CASE PostSend(p) \/ \E i \in DOMAIN ticket[p].ranks : Receive(p, i)
      BY <3>1, <3>3, WithinOperation
    <3> QED
      BY <2>5, <3>2, <3>3 DEF Exchange
  <2> QED
    BY <1>1, <2>1, <2>2, <2>3, <2>4, <2>5 DEF Step
<1>2. CASE UNCHANGED vars
  <2>1. UNCHANGED <<begun, summing, ticket, target>>
    BY <1>2 DEF vars
  <2> QED
    BY <2>1, NotSeen DEF Busy
<1> QED
  BY <1>1, <1>2 DEF Next

\* The operations of all gates, in whatever order messages come, implement the promise:
\* a process gets the sum of those who share its entries, and not before they have begun the
\* same operation.
THEOREM OperationsKeepPromise == Spec => ImplementsPromise
<1>1. Init => Promise!Init
  BY PromiseStart
<1>2. Inv /\ [Next]_vars /\ Inv' => [Promise!Next]_(Promise!vars)
  BY StepSeen
<1> QED
  BY <1>1, <1>2, InvAlways, PTL DEF Spec, ImplementsPromise, Promise!Spec
=============================================================================
