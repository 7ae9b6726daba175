---------------------------- MODULE TicketProofs ----------------------------
(***************************************************************************)
(* Tickets of scalars and of matrices, for any number of processes, of     *)
(* tickets, of conversions, and all sparsity patterns.                     *)
(***************************************************************************)
EXTENDS SynchScalar, SynchMatrix, DataLemmas, Integers, TLAPS

----------------------------------------------------------------------------
(* Scalars: tickets return the right results and implement the abstract    *)
(* reduction, with and without threads.                                    *)

\* The invariant holds before any ticket is made.
LEMMA FirstInOrder == ScalarInit => TicketsInOrder
<1> SUFFICES ASSUME ScalarInit PROVE TicketsInOrder
  OBVIOUS
<1> USE SynchScalarAssumption DEF ScalarInit
<1>1. TypeOK
  <2>1. /\ made \in [Rank -> 0 .. N] /\ spurious \in [Rank -> 0 .. MaxSpurious]
        /\ fault \in [Rank -> {"none", "assert"}]
    OBVIOUS
  <2>2. main \in [Rank -> [at : {"idle", "lock", "test", "asleep", "join"}, ticket : 0 .. N]]
    BY DEF Idle
  <2>3. calls \in [Rank -> Seq(Ticket)]
    OBVIOUS
  <2>. QED
    BY <2>1, <2>2, <2>3 DEF TypeOK
<1>2. CallsInOrder
  <2> SUFFICES ASSUME NEW p \in Rank
               PROVE  /\ Len(calls[p]) = IF Pending(p) THEN made[p] - 1 ELSE made[p]
                      /\ \A k \in DOMAIN calls[p] : calls[p][k] = k
    BY DEF CallsInOrder
  <2>1. calls[p] = <<>> /\ made[p] = 0 /\ ~Pending(p)
    BY DEF Pending
  <2>2. Len(<<>>) = 0 /\ DOMAIN <<>> = {}
    OBVIOUS
  <2>. QED
    BY <2>1, <2>2
<1>3. ThreadsOfTickets /\ MainInOrder /\ ResultsComplete
  BY DEF ThreadsOfTickets, MainInOrder, ResultsComplete, Idle
<1>. QED
  BY <1>1, <1>2, <1>3 DEF TicketsInOrder

\* The collective call of a ticket whose predecessors have all made theirs.
LEMMA CallKeepsOrder ==
  ASSUME CallsInOrder, TypeOK, NEW p \in Rank, NEW t \in Ticket,
         t = Len(calls[p]) + 1, IAllReduce(p, t)
  PROVE  /\ calls' \in [Rank -> Seq(Ticket)]
         /\ \A q \in Rank : \A k \in DOMAIN calls'[q] : calls'[q][k] = k
         /\ Len(calls'[p]) = t
         /\ \A q \in Rank \ {p} : calls'[q] = calls[q]
<1>1. calls[p] \in Seq(Ticket) /\ \A q \in Rank : \A k \in DOMAIN calls[q] : calls[q][k] = k
  BY DEF CallsInOrder, TypeOK
<1>2. /\ calls' = [calls EXCEPT ![p] = Append(calls[p], t)]
      /\ calls \in [Rank -> Seq(Ticket)]
  BY DEF IAllReduce, TypeOK
<1>3. /\ Append(calls[p], t) \in Seq(Ticket)
      /\ Len(Append(calls[p], t)) = t
      /\ \A k \in DOMAIN Append(calls[p], t) : Append(calls[p], t)[k] = k
  BY <1>1
<1>4. calls'[p] = Append(calls[p], t) /\ \A q \in Rank \ {p} : calls'[q] = calls[q]
  BY <1>2
<1>. QED
  BY <1>1, <1>2, <1>3, <1>4

\* A complete operation gives the ticket the values that all processes gave to
\* this ticket.
LEMMA CompleteIsRight ==
  ASSUME CallsInOrder, TypeOK, NEW p \in Rank, NEW t \in Ticket, Complete(p, t)
  PROVE  /\ result' = [result EXCEPT ![p][t] = Rank \X {t}]
         /\ \A q \in Rank : t \in DOMAIN calls[q]
<1>1. PICK k \in DOMAIN calls[p] :
        /\ calls[p][k] = t
        /\ \A q \in Rank : k \in DOMAIN calls[q]
        /\ result' = [result EXCEPT ![p][t] = {<<q, calls[q][k]>> : q \in Rank}]
  BY DEF Complete
<1>2. \A q \in Rank : calls[q][k] = k
  BY <1>1 DEF CallsInOrder
<1>3. k = t
  BY <1>1, <1>2
<1>4. {<<q, calls[q][k]>> : q \in Rank} = Rank \X {t}
  BY <1>2, <1>3
<1>. QED
  BY <1>1, <1>3, <1>4

\* Steps of threads that make no call.
LEMMA OrderUnchanged ==
  ASSUME CallsInOrder, UNCHANGED <<made, calls>>,
         \A p \in Rank : Pending(p)' <=> Pending(p)
  PROVE  CallsInOrder'
BY DEF CallsInOrder

LEMMA StepOfThread ==
  ASSUME TypeOK, NEW p \in Rank, NEW t \in Ticket, NEW step,
         thread' = [thread EXCEPT ![p][t] = step], UNCHANGED made,
         thread[p][t] \in {"start", "locked"} <=> step \in {"start", "locked"}
  PROVE  \A q \in Rank : Pending(q)' <=> Pending(q)
<1>1. \A q \in Rank : q # p => thread'[q] = thread[q]
  BY DEF TypeOK
<1>2. /\ \A u \in Ticket : u # t => thread'[p][u] = thread[p][u]
      /\ thread'[p][t] = step
  BY DEF TypeOK
<1>3. \A q \in Rank : made[q] > 0 => made[q] \in Ticket
  BY SynchScalarAssumption DEF TypeOK, Ticket
<1>. QED
  BY <1>1, <1>2, <1>3 DEF Pending

\* Steps of threads that do not end.
LEMMA ResultsUnchanged ==
  ASSUME TypeOK, ResultsComplete, NEW p \in Rank, NEW t \in Ticket, NEW step,
         thread' = [thread EXCEPT ![p][t] = step],
         thread[p][t] # "done", step # "done",
         UNCHANGED <<threaded, result, finished>>
  PROVE  ResultsComplete'
<1>1. \A q \in Rank, u \in Ticket :
        thread'[q][u] = thread[q][u] \/ (q = p /\ u = t /\ thread'[q][u] = step)
  BY DEF TypeOK
<1>2. \A q \in Rank, u \in Ticket : thread'[q][u] = "done" <=> thread[q][u] = "done"
  BY <1>1
<1>. QED
  BY <1>2 DEF ResultsComplete

\* Every step keeps the invariant.
LEMMA StepInOrder == TicketsInOrder /\ [ScalarNext]_scalars => TicketsInOrder'
<1> SUFFICES ASSUME TicketsInOrder, [ScalarNext]_scalars PROVE TicketsInOrder'
  OBVIOUS
<1> USE SynchScalarAssumption DEF Ticket
<1>1. TypeOK /\ CallsInOrder /\ ThreadsOfTickets /\ MainInOrder /\ ResultsComplete
  BY DEF TicketsInOrder
<1>2. ASSUME NEW p \in Rank, Construct(p)
      PROVE  TicketsInOrder'
  <2> DEFINE t == made[p] + 1
  <2>1. /\ fault[p] = "none" /\ main[p] = Idle /\ made[p] < N /\ t \in Ticket
        /\ made' = [made EXCEPT ![p] = t]
        /\ UNCHANGED <<threaded, flag, mutex, result, finished, spurious, fault>>
    BY <1>1, <1>2 DEF Construct, TypeOK
  <2>2. ~Pending(p) /\ Len(calls[p]) = made[p] /\ thread[p][t] = "none" /\ ~flag[p][t]
    <3>1. made[p] \in 0 .. N /\ ~(t <= made[p])
      BY <1>1 DEF TypeOK
    <3>2. ~Pending(p)
      BY <1>1, <2>1, <3>1 DEF ThreadsOfTickets, Pending, Idle
    <3>3. Len(calls[p]) = made[p]
      BY <1>1, <3>2 DEF CallsInOrder
    <3>. QED
      BY <1>1, <2>1, <3>1, <3>2, <3>3 DEF ThreadsOfTickets
  <2>3. CASE threaded
    <3>1. /\ thread' = [thread EXCEPT ![p][t] = "start"]
          /\ main' = [main EXCEPT ![p] = At("lock", t)]
          /\ calls' = calls
      BY <1>2, <2>3 DEF Construct
    <3>2. TypeOK'
      BY <1>1, <2>1, <3>1 DEF TypeOK, At
    <3>3. CallsInOrder'
      <4>1. /\ made'[p] = t /\ thread'[p][t] = "start" /\ made[p] \in Nat
            /\ \A q \in Rank \ {p} : made'[q] = made[q] /\ thread'[q] = thread[q]
        BY <1>1, <2>1, <3>1 DEF TypeOK
      <4>2. Pending(p)' /\ \A q \in Rank \ {p} : Pending(q)' <=> Pending(q)
        BY <4>1 DEF Pending
      <4>3. Len(calls[p]) = made'[p] - 1
        BY <2>2, <4>1
      <4>. QED
        BY <1>1, <3>1, <4>1, <4>2, <4>3 DEF CallsInOrder
    <3>4. ThreadsOfTickets'
      BY <1>1, <2>1, <2>2, <2>3, <3>1 DEF ThreadsOfTickets, TypeOK, At, Idle
    <3>5. MainInOrder'
      BY <1>1, <2>1, <3>1 DEF MainInOrder, TypeOK, At
    <3>6. ResultsComplete'
      <4>1. \A q \in Rank, u \in Ticket :
              thread'[q][u] = thread[q][u] \/ (q = p /\ u = t /\ thread'[q][u] = "start")
        BY <1>1, <3>1 DEF TypeOK
      <4>2. \A q \in Rank, u \in Ticket : thread[q][u] = "done" <=> thread'[q][u] = "done"
        BY <2>2, <4>1
      <4>. QED
        BY <1>1, <2>1, <4>2 DEF ResultsComplete
    <3>. QED
      BY <3>2, <3>3, <3>4, <3>5, <3>6 DEF TicketsInOrder
  <2>4. CASE ~threaded
    <3>1. IAllReduce(p, t) /\ thread' = thread /\ main' = main
      BY <1>2, <2>4 DEF Construct
    <3>2. /\ calls' \in [Rank -> Seq(Ticket)]
          /\ \A q \in Rank : \A k \in DOMAIN calls'[q] : calls'[q][k] = k
          /\ Len(calls'[p]) = t
          /\ \A q \in Rank \ {p} : calls'[q] = calls[q]
      BY <1>1, <2>1, <2>2, <3>1, CallKeepsOrder
    <3>3. TypeOK'
      <4>1. made' \in [Rank -> 0 .. N]
        BY <1>1, <2>1 DEF TypeOK
      <4>. QED
        BY <1>1, <2>1, <3>1, <3>2, <4>1 DEF TypeOK
    <3>4. CallsInOrder'
      <4>1. /\ made'[p] = t
            /\ \A q \in Rank \ {p} : made'[q] = made[q]
        BY <1>1, <2>1 DEF TypeOK
      <4>2. \A q \in Rank : ~Pending(q)
        <5>1. ASSUME NEW q \in Rank, made[q] > 0
              PROVE  thread[q][made[q]] = "none"
          <6>1. made[q] \in Ticket
            BY <1>1, <5>1 DEF TypeOK
          <6>. QED
            BY <1>1, <2>4, <6>1 DEF ThreadsOfTickets
        <5>. QED
          BY <5>1 DEF Pending
      <4>3. \A q \in Rank : ~Pending(q)'
        BY <2>2, <3>1, <4>1, <4>2 DEF Pending
      <4>4. \A q \in Rank : Len(calls'[q]) = made'[q]
        BY <1>1, <3>2, <4>1, <4>2 DEF CallsInOrder
      <4>. QED
        BY <3>2, <4>3, <4>4 DEF CallsInOrder
    <3>5. ThreadsOfTickets'
      BY <1>1, <2>1, <2>2, <2>4, <3>1 DEF ThreadsOfTickets, TypeOK
    <3>6. MainInOrder'
      BY <1>1, <2>1, <3>1 DEF MainInOrder, TypeOK, Idle
    <3>7. ResultsComplete'
      BY <1>1, <2>1, <3>1 DEF ResultsComplete, TypeOK
    <3>. QED
      BY <3>3, <3>4, <3>5, <3>6, <3>7 DEF TicketsInOrder
  <2>. QED
    BY <2>3, <2>4
<1>3. ASSUME NEW p \in Rank, Abort(p)
      PROVE  TicketsInOrder'
  <2>1. /\ UNCHANGED <<threaded, made, main, thread, flag, mutex, calls, result, finished, spurious>>
        /\ fault' = [fault EXCEPT ![p] = "assert"]
    BY <1>3 DEF Abort
  <2>2. TypeOK'
    BY <1>1, <2>1 DEF TypeOK
  <2>3. CallsInOrder'
    BY <1>1, <2>1, OrderUnchanged DEF Pending
  <2>4a. ThreadsOfTickets'
    BY <1>1, <2>1 DEF ThreadsOfTickets, MainInOrder
  <2>4b. MainInOrder'
    BY <1>1, <2>1 DEF ThreadsOfTickets, MainInOrder
  <2>4c. ResultsComplete'
    BY <1>1, <2>1 DEF ResultsComplete
  <2>. QED
    BY <2>2, <2>3, <2>4a, <2>4b, <2>4c DEF TicketsInOrder
<1>4. ASSUME NEW p \in Rank, NEW t \in Ticket, MainLock(p, t)
      PROVE  TicketsInOrder'
  <2>1. TypeOK'
    BY <1>1, <1>4 DEF MainLock, TypeOK, At
  <2>2a. CallsInOrder'
    BY <1>1, <1>4 DEF MainLock, CallsInOrder, Pending, TypeOK
  <2>2b. ResultsComplete'
    BY <1>1, <1>4 DEF MainLock, ResultsComplete, TypeOK
  <2>3a. ThreadsOfTickets'
    BY <1>1, <1>4 DEF MainLock, ThreadsOfTickets, MainInOrder, TypeOK, At
  <2>3b. MainInOrder'
    BY <1>1, <1>4 DEF MainLock, ThreadsOfTickets, MainInOrder, TypeOK, At
  <2>. QED
    BY <2>1, <2>2a, <2>2b, <2>3a, <2>3b DEF TicketsInOrder
<1>5. ASSUME NEW p \in Rank, NEW t \in Ticket, MainTest(p, t)
      PROVE  TicketsInOrder'
  <2>1. TypeOK'
    BY <1>1, <1>5 DEF MainTest, TypeOK, At, Idle
  <2>2a. CallsInOrder'
    BY <1>1, <1>5 DEF MainTest, CallsInOrder, Pending, TypeOK
  <2>2b. ResultsComplete'
    BY <1>1, <1>5 DEF MainTest, ResultsComplete, TypeOK
  <2>3. ThreadsOfTickets'
    BY <1>1, <1>5 DEF MainTest, ThreadsOfTickets, MainInOrder, TypeOK, At, Idle
  <2>4. MainInOrder'
    BY <1>1, <1>5 DEF MainTest, MainInOrder, TypeOK, At, Idle
  <2>. QED
    BY <2>1, <2>2a, <2>2b, <2>3, <2>4 DEF TicketsInOrder
<1>6. ASSUME NEW p \in Rank, NEW t \in Ticket, SpuriousWakeup(p, t)
      PROVE  TicketsInOrder'
  <2>1. TypeOK'
    BY <1>1, <1>6 DEF SpuriousWakeup, TypeOK, At
  <2>2a. CallsInOrder'
    BY <1>1, <1>6 DEF SpuriousWakeup, CallsInOrder, Pending, TypeOK
  <2>2b. ResultsComplete'
    BY <1>1, <1>6 DEF SpuriousWakeup, ResultsComplete, TypeOK
  <2>3a. ThreadsOfTickets'
    BY <1>1, <1>6 DEF SpuriousWakeup, ThreadsOfTickets, MainInOrder, TypeOK, At
  <2>3b. MainInOrder'
    BY <1>1, <1>6 DEF SpuriousWakeup, ThreadsOfTickets, MainInOrder, TypeOK, At
  <2>. QED
    BY <2>1, <2>2a, <2>2b, <2>3a, <2>3b DEF TicketsInOrder
<1>7. ASSUME NEW p \in Rank, NEW t \in Ticket, ThreadLock(p, t)
      PROVE  TicketsInOrder'
  <2>1. TypeOK'
    BY <1>1, <1>7 DEF ThreadLock, TypeOK
  <2>2. ResultsComplete'
    <3>1. /\ thread[p][t] = "start"
          /\ thread' = [thread EXCEPT ![p][t] = "locked"]
          /\ UNCHANGED <<threaded, result, finished>>
      BY <1>7 DEF ThreadLock
    <3>. QED
      BY <1>1, <3>1, ResultsUnchanged
  <2>4. CallsInOrder'
    <3>1. /\ thread[p][t] = "start"
          /\ thread' = [thread EXCEPT ![p][t] = "locked"]
          /\ UNCHANGED made /\ UNCHANGED <<made, calls>>
      BY <1>7 DEF ThreadLock
    <3>2. \A q \in Rank : Pending(q)' <=> Pending(q)
      BY <1>1, <3>1, StepOfThread
    <3>. QED
      BY <1>1, <3>1, <3>2, OrderUnchanged
  <2>3a. ThreadsOfTickets'
    BY <1>1, <1>7 DEF ThreadLock, ThreadsOfTickets, MainInOrder, TypeOK
  <2>3b. MainInOrder'
    BY <1>1, <1>7 DEF ThreadLock, ThreadsOfTickets, MainInOrder, TypeOK
  <2>. QED
    BY <2>1, <2>2, <2>3a, <2>3b, <2>4 DEF TicketsInOrder
<1>8. ASSUME NEW p \in Rank, NEW t \in Ticket, ThreadCall(p, t)
      PROVE  TicketsInOrder'
  <2>1. /\ thread[p][t] = "locked" /\ IAllReduce(p, t)
        /\ thread' = [thread EXCEPT ![p][t] = "called"]
        /\ UNCHANGED <<threaded, made, main, flag, mutex, result, finished, spurious, fault>>
    BY <1>8 DEF ThreadCall
  <2>2. t = made[p] /\ Len(calls[p]) = t - 1
    BY <1>1, <2>1 DEF ThreadsOfTickets, CallsInOrder, Pending
  <2>3. /\ calls' \in [Rank -> Seq(Ticket)]
        /\ \A q \in Rank : \A k \in DOMAIN calls'[q] : calls'[q][k] = k
        /\ Len(calls'[p]) = t
        /\ \A q \in Rank \ {p} : calls'[q] = calls[q]
    BY <1>1, <2>1, <2>2, CallKeepsOrder
  <2>4. TypeOK'
    BY <1>1, <2>1, <2>3 DEF TypeOK
  <2>5. CallsInOrder'
    BY <1>1, <2>1, <2>2, <2>3, ZenonT(30) DEF CallsInOrder, Pending, TypeOK
  <2>6a. ThreadsOfTickets'
    BY <1>1, <2>1 DEF ThreadsOfTickets, MainInOrder, TypeOK
  <2>6b. MainInOrder'
    BY <1>1, <2>1 DEF ThreadsOfTickets, MainInOrder, TypeOK
  <2>6c. ResultsComplete'
    BY <1>1, <2>1, ResultsUnchanged
  <2>. QED
    BY <2>4, <2>5, <2>6a, <2>6b, <2>6c DEF TicketsInOrder
<1>9. ASSUME NEW p \in Rank, NEW t \in Ticket, ThreadUnlock(p, t)
      PROVE  TicketsInOrder'
  <2>1. TypeOK'
    BY <1>1, <1>9 DEF ThreadUnlock, TypeOK
  <2>2. ResultsComplete'
    <3>1. /\ thread[p][t] = "called"
          /\ thread' = [thread EXCEPT ![p][t] = "unlocked"]
          /\ UNCHANGED <<threaded, result, finished>>
      BY <1>9 DEF ThreadUnlock
    <3>. QED
      BY <1>1, <3>1, ResultsUnchanged
  <2>4. CallsInOrder'
    <3>1. /\ thread[p][t] = "called"
          /\ thread' = [thread EXCEPT ![p][t] = "unlocked"]
          /\ UNCHANGED made /\ UNCHANGED <<made, calls>>
      BY <1>9 DEF ThreadUnlock
    <3>2. \A q \in Rank : Pending(q)' <=> Pending(q)
      BY <1>1, <3>1, StepOfThread
    <3>. QED
      BY <1>1, <3>1, <3>2, OrderUnchanged
  <2>3a. ThreadsOfTickets'
    BY <1>1, <1>9 DEF ThreadUnlock, ThreadsOfTickets, MainInOrder, TypeOK
  <2>3b. MainInOrder'
    BY <1>1, <1>9 DEF ThreadUnlock, ThreadsOfTickets, MainInOrder, TypeOK
  <2>. QED
    BY <2>1, <2>2, <2>3a, <2>3b, <2>4 DEF TicketsInOrder
<1>10. ASSUME NEW p \in Rank, NEW t \in Ticket, ThreadNotify(p, t)
       PROVE  TicketsInOrder'
  <2>1. TypeOK'
    BY <1>1, <1>10 DEF ThreadNotify, TypeOK, At
  <2>2. ResultsComplete'
    <3>1. /\ thread[p][t] = "unlocked"
          /\ thread' = [thread EXCEPT ![p][t] = "waiting"]
          /\ UNCHANGED <<threaded, result, finished>>
      BY <1>10 DEF ThreadNotify
    <3>. QED
      BY <1>1, <3>1, ResultsUnchanged
  <2>4. CallsInOrder'
    <3>1. /\ thread[p][t] = "unlocked"
          /\ thread' = [thread EXCEPT ![p][t] = "waiting"]
          /\ UNCHANGED made /\ UNCHANGED <<made, calls>>
      BY <1>10 DEF ThreadNotify
    <3>2. \A q \in Rank : Pending(q)' <=> Pending(q)
      BY <1>1, <3>1, StepOfThread
    <3>. QED
      BY <1>1, <3>1, <3>2, OrderUnchanged
  <2>3a. ThreadsOfTickets'
    BY <1>1, <1>10 DEF ThreadNotify, ThreadsOfTickets, MainInOrder, TypeOK, At
  <2>3b. MainInOrder'
    BY <1>1, <1>10 DEF ThreadNotify, ThreadsOfTickets, MainInOrder, TypeOK, At
  <2>. QED
    BY <2>1, <2>2, <2>3a, <2>3b, <2>4 DEF TicketsInOrder
<1>11. ASSUME NEW p \in Rank, NEW t \in Ticket, ThreadWait(p, t)
       PROVE  TicketsInOrder'
  <2>1. /\ thread[p][t] = "waiting" /\ threaded
        /\ result' = [result EXCEPT ![p][t] = Rank \X {t}]
        /\ thread' = [thread EXCEPT ![p][t] = "done"]
        /\ UNCHANGED <<threaded, made, main, flag, mutex, calls, finished, spurious, fault>>
    BY <1>1, <1>11, CompleteIsRight DEF ThreadWait, ThreadsOfTickets
  <2>2. TypeOK'
    BY <1>1, <2>1 DEF TypeOK
  <2>3a. ThreadsOfTickets'
    BY <1>1, <2>1 DEF ThreadsOfTickets, MainInOrder, TypeOK
  <2>3b. MainInOrder'
    BY <1>1, <2>1 DEF ThreadsOfTickets, MainInOrder, TypeOK
  <2>5. CallsInOrder'
    BY <1>1, <2>1, StepOfThread, OrderUnchanged
  <2>4. ResultsComplete'
    BY <1>1, <2>1 DEF ResultsComplete, TypeOK
  <2>. QED
    BY <2>2, <2>3a, <2>3b, <2>4, <2>5 DEF TicketsInOrder
<1>12. ASSUME NEW p \in Rank, NEW t \in Ticket, Wait(p, t)
       PROVE  TicketsInOrder'
  <2>1. TypeOK'
    BY <1>1, <1>12 DEF Wait, TypeOK, At
  <2>2a. CallsInOrder'
    BY <1>1, <1>12 DEF Wait, CallsInOrder, Pending, TypeOK
  <2>2b. ResultsComplete'
    BY <1>1, <1>12 DEF Wait, ResultsComplete, TypeOK
  <2>3a. ThreadsOfTickets'
    BY <1>1, <1>12 DEF Wait, ThreadsOfTickets, MainInOrder, TypeOK, At, Idle
  <2>3b. MainInOrder'
    BY <1>1, <1>12 DEF Wait, ThreadsOfTickets, MainInOrder, TypeOK, At, Idle
  <2>. QED
    BY <2>1, <2>2a, <2>2b, <2>3a, <2>3b DEF TicketsInOrder
<1>13. ASSUME NEW p \in Rank, NEW t \in Ticket, WaitReturns(p, t)
       PROVE  TicketsInOrder'
  <2>1. /\ main[p] = At("join", t)
        /\ main' = [main EXCEPT ![p] = Idle]
        /\ finished' = [finished EXCEPT ![p][t] = TRUE]
        /\ UNCHANGED <<threaded, made, thread, flag, mutex, calls, spurious, fault>>
    BY <1>13 DEF WaitReturns
  <2>2. /\ result' = [result EXCEPT ![p][t] = Rank \X {t}]
        /\ threaded => thread[p][t] = "done"
    <3>1. CASE threaded
      <4>1. thread[p][t] = "done" /\ result' = result /\ result[p][t] = Rank \X {t}
        BY <1>1, <1>13, <3>1 DEF WaitReturns, ResultsComplete
      <4>. QED
        BY <1>1, <4>1 DEF TypeOK
    <3>2. CASE ~threaded
      BY <1>1, <1>13, <3>2, CompleteIsRight DEF WaitReturns
    <3>. QED
      BY <3>1, <3>2
  <2>3. TypeOK'
    BY <1>1, <2>1, <2>2 DEF TypeOK, Idle
  <2>4a. CallsInOrder'
    BY <1>1, <2>1 DEF CallsInOrder, ThreadsOfTickets, Pending, TypeOK, Idle, At
  <2>4b. ThreadsOfTickets'
    BY <1>1, <2>1 DEF CallsInOrder, ThreadsOfTickets, Pending, TypeOK, Idle, At
  <2>5. MainInOrder'
    BY <1>1, <2>1 DEF MainInOrder, TypeOK, Idle
  <2>6. ResultsComplete'
    BY <1>1, <2>1, <2>2 DEF ResultsComplete, TypeOK
  <2>. QED
    BY <2>3, <2>4a, <2>4b, <2>5, <2>6 DEF TicketsInOrder
<1>14. CASE UNCHANGED scalars
  <2>1. UNCHANGED <<threaded, made, main, thread, flag, mutex, calls, result, finished, spurious, fault>>
    BY <1>14 DEF scalars
  <2>2. TypeOK'
    BY <1>1, <2>1 DEF TypeOK
  <2>3. CallsInOrder'
    BY <1>1, <2>1, OrderUnchanged DEF Pending
  <2>4a. ThreadsOfTickets'
    BY <1>1, <2>1 DEF ThreadsOfTickets, MainInOrder
  <2>4b. MainInOrder'
    BY <1>1, <2>1 DEF ThreadsOfTickets, MainInOrder
  <2>4c. ResultsComplete'
    BY <1>1, <2>1 DEF ResultsComplete
  <2>. QED
    BY <2>2, <2>3, <2>4a, <2>4b, <2>4c DEF TicketsInOrder
<1>. QED
  BY <1>2, <1>3, <1>4, <1>5, <1>6, <1>7, <1>8, <1>9, <1>10, <1>11, <1>12, <1>13, <1>14
     DEF ScalarNext, MainStep, ThreadStep

\* What wait() returns is made of the values that all processes gave to this
\* ticket, for every number of processes and of tickets in flight.
THEOREM ResultsAreRight == ScalarSpec => []RightResult
<1>1. TicketsInOrder => RightResult
  BY DEF TicketsInOrder, ResultsComplete, RightResult
<1>. QED
  BY <1>1, FirstInOrder, StepInOrder, PTL DEF ScalarSpec

\* Processes make the collective calls of their tickets one after the other, as the
\* threads and the constructors hand the mutexes over, and results are complete:
\* whatever state a ticket may be in, it is one of these.
THEOREM TicketsStayInOrder == ScalarSpec => []TicketsInOrder
BY FirstInOrder, StepInOrder, PTL DEF ScalarSpec

\* Mutexes, flags and threads of tickets are always in one of their states.
THEOREM TicketTypes == ScalarSpec => []TypeOK
<1>1. TicketsInOrder => TypeOK
  BY DEF TicketsInOrder
<1>. QED
  BY <1>1, TicketsStayInOrder, PTL

\* When a constructor returns, its collective call has been made.
THEOREM CallsAreMade == ScalarSpec => []ConstructorHasCalled
<1>1. TicketsInOrder => ConstructorHasCalled
  <2> SUFFICES ASSUME TicketsInOrder, NEW p \in Rank, main[p] = Idle, NEW t \in 1 .. made[p]
               PROVE  t \in DOMAIN calls[p] /\ calls[p][t] = t
    BY DEF ConstructorHasCalled
  <2>1. made[p] \in 0 .. N /\ calls[p] \in Seq(Ticket) /\ N \in Nat
    BY SynchScalarAssumption DEF TicketsInOrder, TypeOK
  <2>2. ~Pending(p)
    <3>1. \A k \in Ticket : thread[p][k] \in {"start", "locked"} => main[p].at \in {"lock", "test", "asleep"}
      BY DEF TicketsInOrder, ThreadsOfTickets
    <3>2. main[p].at = "idle"
      BY DEF Idle
    <3>3. made[p] > 0 => made[p] \in Ticket
      BY <2>1 DEF Ticket
    <3> QED
      BY <3>1, <3>2, <3>3 DEF Pending
  <2>. QED
    BY <2>1, <2>2 DEF TicketsInOrder, CallsInOrder
<1>. QED
  BY <1>1, FirstInOrder, StepInOrder, PTL DEF ScalarSpec

\* A collective call for the next ticket lets the process join it.
LEMMA CallJoins ==
  ASSUME TicketsInOrder, NEW p \in Rank, NEW t \in Ticket,
         t = Len(calls[p]) + 1, IAllReduce(p, t), UNCHANGED result
  PROVE  Reductions!Next
<1>1. TypeOK /\ CallsInOrder
  BY DEF TicketsInOrder
<1>2. /\ \A q \in Rank : \A k \in DOMAIN calls'[q] : calls'[q][k] = k
      /\ Len(calls'[p]) = t /\ calls' \in [Rank -> Seq(Ticket)]
      /\ \A q \in Rank \ {p} : calls'[q] = calls[q]
  BY <1>1, CallKeepsOrder
<1>3. calls[p] \in Seq(Ticket) /\ \A k \in DOMAIN calls[p] : calls[p][k] = k
  BY <1>1 DEF TypeOK, CallsInOrder
<1>4. /\ DOMAIN calls'[p] = 1 .. t
      /\ DOMAIN calls[p] = 1 .. (t - 1)
      /\ t \in Nat
  BY <1>2, <1>3 DEF Ticket
<1>5. Joined[p] = 1 .. (t - 1) /\ Joined'[p] = 1 .. t
  <2>1. 1 .. t \subseteq Ticket /\ 1 .. (t - 1) \subseteq Ticket
    BY SynchScalarAssumption DEF Ticket
  <2>2. Joined[p] = {u \in Ticket : u \in 1 .. (t - 1)}
    BY <1>3, <1>4 DEF Joined
  <2>3. Joined'[p] = {u \in Ticket : u \in 1 .. t}
    BY <1>2, <1>4 DEF Joined
  <2>. QED
    BY <2>1, <2>2, <2>3
<1>6. \A q \in Rank \ {p} : Joined'[q] = Joined[q]
  BY <1>2 DEF Joined
<1>7. t \notin Joined[p] /\ Joined'[p] = Joined[p] \cup {t}
  BY <1>4, <1>5
<1>8. Joined' = [Joined EXCEPT ![p] = @ \cup {t}]
  BY <1>6, <1>7 DEF Joined
<1>. QED
  BY <1>7, <1>8 DEF Reductions!Next, Reductions!Join

\* A complete operation delivers a result that was not there.
LEMMA CompleteDelivers ==
  ASSUME TicketsInOrder, NEW p \in Rank, NEW t \in Ticket,
         Complete(p, t), result[p][t] = {}, UNCHANGED calls
  PROVE  Reductions!Next
<1>1. /\ result' = [result EXCEPT ![p][t] = Rank \X {t}]
      /\ \A q \in Rank : t \in DOMAIN calls[q] /\ calls[q][t] = t
  BY CompleteIsRight DEF TicketsInOrder, CallsInOrder
<1>2. \A q \in Rank : t \in Joined[q]
  BY <1>1 DEF Joined
<1>3. Joined' = Joined
  BY DEF Joined
<1>. QED
  BY <1>1, <1>2, <1>3 DEF Reductions!Next, Reductions!Deliver

\* The tickets are the abstract reduction, however their threads are scheduled.
THEOREM TicketsAreReductions == ScalarSpec => ImplementsReduction
<1>1. ScalarInit => Reductions!Init
  <2> SUFFICES ASSUME ScalarInit PROVE Reductions!Init
    OBVIOUS
  <2>1. DOMAIN <<>> = {} /\ \A p \in Rank : calls[p] = <<>>
    BY DEF ScalarInit
  <2>2. Joined = [p \in Rank |-> {}]
    BY <2>1 DEF Joined
  <2>. QED
    BY <2>2 DEF ScalarInit, Reductions!Init
<1>2. TicketsInOrder /\ [ScalarNext]_scalars => [Reductions!Next]_(Reductions!vars)
  <2> SUFFICES ASSUME TicketsInOrder, [ScalarNext]_scalars
               PROVE  Reductions!Next \/ UNCHANGED <<Joined, result>>
    BY DEF Reductions!vars
  <2>1. CASE UNCHANGED <<calls, result>>
    BY <2>1 DEF Joined
  <2>2. ASSUME NEW p \in Rank, Construct(p), ~UNCHANGED calls
        PROVE  Reductions!Next
    <3> DEFINE t == made[p] + 1
    <3>1. /\ main[p] = Idle /\ made[p] < N /\ made[p] \in 0 .. N /\ N \in Nat
          /\ IAllReduce(p, t) /\ UNCHANGED result
      BY <2>2, SynchScalarAssumption DEF Construct, TicketsInOrder, TypeOK
    <3>2. ~Pending(p)
      BY <3>1 DEF TicketsInOrder, ThreadsOfTickets, Pending, Idle, Ticket
    <3>3. t = Len(calls[p]) + 1 /\ t \in Ticket
      BY <3>1, <3>2 DEF TicketsInOrder, CallsInOrder, Ticket
    <3>. QED
      BY <3>1, <3>3, CallJoins
  <2>3. ASSUME NEW p \in Rank, NEW t \in Ticket, ThreadCall(p, t)
        PROVE  Reductions!Next
    <3>1. thread[p][t] = "locked" /\ IAllReduce(p, t) /\ UNCHANGED result
      BY <2>3 DEF ThreadCall
    <3>2. t = made[p] /\ t \in Nat /\ t > 0 /\ Pending(p)
      BY <3>1 DEF TicketsInOrder, ThreadsOfTickets, Pending, Ticket
    <3>3. t = Len(calls[p]) + 1
      BY <3>2 DEF TicketsInOrder, CallsInOrder
    <3>. QED
      BY <3>1, <3>3, CallJoins
  <2>4. ASSUME NEW p \in Rank, NEW t \in Ticket, ThreadWait(p, t)
        PROVE  Reductions!Next
    <3>1. thread[p][t] = "waiting" /\ Complete(p, t) /\ UNCHANGED calls
      BY <2>4 DEF ThreadWait
    <3>2. result[p][t] = {}
      BY <3>1 DEF TicketsInOrder, ThreadsOfTickets, ResultsComplete
    <3>. QED
      BY <3>1, <3>2, CompleteDelivers
  <2>5. ASSUME NEW p \in Rank, NEW t \in Ticket, WaitReturns(p, t), ~UNCHANGED result
        PROVE  Reductions!Next
    <3>1. ~threaded /\ main[p] = At("join", t) /\ Complete(p, t) /\ UNCHANGED calls
      BY <2>5 DEF WaitReturns
    <3>2. result[p][t] = {}
      BY <3>1 DEF TicketsInOrder, MainInOrder, ResultsComplete, At
    <3>. QED
      BY <3>1, <3>2, CompleteDelivers
  <2>6. ASSUME NEW p \in Rank, NEW t \in Ticket,
               MainLock(p, t) \/ MainTest(p, t) \/ SpuriousWakeup(p, t) \/ ThreadLock(p, t)
               \/ ThreadUnlock(p, t) \/ ThreadNotify(p, t) \/ Wait(p, t)
        PROVE  UNCHANGED <<calls, result>>
    BY <2>6 DEF MainLock, MainTest, SpuriousWakeup, ThreadLock, ThreadUnlock, ThreadNotify, Wait
  <2>7. ASSUME NEW p \in Rank, Construct(p) PROVE UNCHANGED result
    BY <2>7 DEF Construct
  <2>8. ASSUME NEW p \in Rank, Abort(p) PROVE UNCHANGED <<calls, result>>
    BY <2>8 DEF Abort
  <2>9. ASSUME NEW p \in Rank, NEW t \in Ticket, WaitReturns(p, t) PROVE UNCHANGED calls
    BY <2>9 DEF WaitReturns
  <2>10. CASE UNCHANGED scalars
    BY <2>1, <2>10 DEF scalars
  <2>. QED
    BY <2>1, <2>2, <2>3, <2>4, <2>5, <2>6, <2>7, <2>8, <2>9, <2>10
       DEF ScalarNext, MainStep, ThreadStep
<1>. QED
  BY <1>1, <1>2, FirstInOrder, StepInOrder, PTL DEF ScalarSpec, ImplementsReduction, Reductions!Spec

----------------------------------------------------------------------------
(* Matrices: messages reach the receives they are meant for, few are under *)
(* way, and each conversion gives the sum that it promises.                *)
(*                                                                         *)
(* The rounds of a process are numbered through: it has sent Sent(p)       *)
(* messages to each neighbour and has taken Taken(p, i) from its i-th one. *)
(* A channel holds what is between these numbers, in their order.          *)

Sent(p) ==
  IF at[p] = 0 THEN 4 * begun[p]
  ELSE 4 * (begun[p] - 1) + at[p] - (IF posted[p] THEN 0 ELSE 1)

Taken(p, i) ==
  IF at[p] = 0 THEN 4 * begun[p]
  ELSE 4 * (begun[p] - 1) + at[p] - (IF i \in recvs[p] THEN 1 ELSE 0)

Serial(m) == 4 * (m.id - 1) + m.round

Shape ==
  /\ eager \in BOOLEAN
  /\ begun \in [Rank -> Nat]
  /\ at \in [Rank -> 0 .. 4]
  /\ posted \in [Rank -> BOOLEAN]
  /\ recvs \in [Rank -> SUBSET Nat]
  /\ chan = [p \in Rank |-> [q \in Rank |-> chan[p][q]]]
  /\ \A p, q \in Rank : IsSeq(chan[p][q])

\* Between conversions nothing is awaited, and all rounds are rounds of one.
Phases ==
  \A p \in Rank :
    /\ recvs[p] \subseteq All(p)
    /\ at[p] = 0 => ~posted[p] /\ recvs[p] = {}
    /\ at[p] # 0 => begun[p] > 0

InOrder ==
  \A p \in Rank : \A i \in All(p) :
    LET c == chan[Neighbours[p][i]][p]
    IN  /\ Len(c) = Sent(Neighbours[p][i]) - Taken(p, i)
        /\ \A k \in 1 .. Len(c) :
             /\ c[k].id \in Nat /\ c[k].round \in 1 .. 4
             /\ Serial(c[k]) = Taken(p, i) + k

OnlyNeighbours == \A p \in Rank : \A q \in Rank \ SharesWith(p) : chan[p][q] = <<>>

OneWithoutRoom == ~eager => \A p, q \in Rank : Len(chan[p][q]) <= 1

Inv == Shape /\ Phases /\ InOrder /\ OnlyNeighbours /\ OneWithoutRoom

----------------------------------------------------------------------------
(* Neighbours.                                                             *)

\* The list of a process has each it shares something with once, and they have it in
\* theirs.
LEMMA NeighboursMeet ==
  ASSUME NEW p \in Rank
  PROVE  /\ \A i \in All(p) : Neighbours[p][i] \in Rank /\ p \in SharesWith(Neighbours[p][i])
         /\ \A q \in SharesWith(p) : \E i \in All(p) : Neighbours[p][i] = q
         /\ \A i, j \in All(p) : Neighbours[p][i] = Neighbours[p][j] => i = j
         /\ All(p) \subseteq Nat
<1>1. {Neighbours[p][i] : i \in All(p)} = SharesWith(p)
  BY MatrixAssumption DEF All
<1>2. \A q \in SharesWith(p) : q \in Rank /\ p \in SharesWith(q)
  BY DEF SharesWith
<1>3. All(p) \subseteq Nat
  BY MatrixAssumption DEF All
<1> QED
  BY <1>1, <1>2, <1>3, MatrixAssumption DEF All

----------------------------------------------------------------------------
(* Counting.                                                               *)

\* A serial number tells the conversion and the round.
LEMMA SerialTellsRound ==
  ASSUME NEW a \in Nat, NEW b \in Nat, NEW r \in 1 .. 4, NEW t \in 1 .. 4,
         4 * (a - 1) + r = 4 * (b - 1) + t
  PROVE  a = b /\ r = t
OBVIOUS

\* What is sent and taken are numbers.
LEMMA CountsAreNumbers ==
  ASSUME Inv, NEW p \in Rank
  PROVE  Sent(p) \in Int /\ \A i \in All(p) : Taken(p, i) \in Int
<1>1. begun[p] \in Nat /\ at[p] \in 0 .. 4
  BY DEF Inv, Shape
<1> QED
  BY <1>1 DEF Sent, Taken

----------------------------------------------------------------------------
LEMMA InitInv == ASSUME Init PROVE Inv
<1> USE DEF Init
<1>1. IsSeq(<<>>)
  BY DEF IsSeq
<1>2. Shape
  BY <1>1 DEF Shape
<1>3. Phases
  BY DEF Phases
<1>4. InOrder
  <2>1. \A p \in Rank : \A i \in All(p) :
          Sent(Neighbours[p][i]) = 0 /\ Taken(p, i) = 0 /\ chan[Neighbours[p][i]][p] = <<>>
    BY NeighboursMeet DEF Sent, Taken
  <2> QED
    BY <2>1 DEF InOrder
<1>5. OnlyNeighbours /\ OneWithoutRoom
  BY DEF OnlyNeighbours, OneWithoutRoom
<1> QED
  BY <1>2, <1>3, <1>4, <1>5 DEF Inv

\* A step that leaves channels, and what was sent and taken, as they are.
LEMMA CountsStay ==
  ASSUME Inv, Shape', Phases', chan' = chan, eager' = eager,
         \A p \in Rank : Sent(p)' = Sent(p),
         \A p \in Rank : \A i \in All(p) : Taken(p, i)' = Taken(p, i)
  PROVE  Inv'
<1>1. InOrder'
  <2> SUFFICES ASSUME NEW p \in Rank, NEW i \in All(p)
               PROVE  LET c == chan[Neighbours[p][i]][p]
                      IN  /\ Len(c) = Sent(Neighbours[p][i])' - Taken(p, i)'
                          /\ \A k \in 1 .. Len(c) :
                               /\ c[k].id \in Nat /\ c[k].round \in 1 .. 4
                               /\ Serial(c[k]) = Taken(p, i)' + k
    BY DEF InOrder, Serial, All
  <2>1. Neighbours[p][i] \in Rank
    BY NeighboursMeet
  <2> QED
    BY <2>1 DEF Inv, InOrder
<1>2. OnlyNeighbours' /\ OneWithoutRoom'
  BY DEF Inv, OnlyNeighbours, OneWithoutRoom, SharesWith
<1> QED
  BY <1>1, <1>2 DEF Inv

LEMMA StartInv ==
  ASSUME Inv, NEW p \in Rank, Start(p)
  PROVE  Inv'
<1> USE DEF Start
<1>1. All(p) \subseteq Nat
  BY NeighboursMeet
<1>2. begun[p] \in Nat /\ at[p] = 0 /\ ~posted[p]
  BY DEF Inv, Shape, Phases
<1>3. Shape'
  BY <1>1, <1>2 DEF Inv, Shape, IsSeq
<1>4. Phases'
  BY <1>2 DEF Inv, Shape, Phases, All
<1>5. \A q \in Rank : Sent(q)' = Sent(q)
  <2> TAKE q \in Rank
  <2>1. begun[q] \in Nat
    BY DEF Inv, Shape
  <2> QED
    BY <1>2, <2>1 DEF Inv, Shape, Sent
<1>6. \A q \in Rank : \A i \in All(q) : Taken(q, i)' = Taken(q, i)
  <2> TAKE q \in Rank
  <2> TAKE i \in All(q)
  <2>1. begun[q] \in Nat
    BY DEF Inv, Shape
  <2> QED
    BY <1>2, <2>1 DEF Inv, Shape, Taken
<1> QED
  BY <1>3, <1>4, <1>5, <1>6, CountsStay

LEMMA PostReceivesInv ==
  ASSUME Inv, NEW p \in Rank, PostReceives(p)
  PROVE  Inv'
<1> USE DEF PostReceives
<1>1. All(p) \subseteq Nat
  BY NeighboursMeet
<1>2. begun[p] \in Nat \ {0}
  BY DEF Inv, Shape, Phases
<1>3. Shape'
  BY <1>1, <1>2 DEF Inv, Shape, IsSeq
<1>4. Phases'
  BY <1>2 DEF Inv, Shape, Phases, All
<1>5. \A q \in Rank : Sent(q)' = Sent(q)
  <2> TAKE q \in Rank
  <2>1. begun[q] \in Nat /\ at[q] \in 0 .. 4
    BY DEF Inv, Shape
  <2> QED
    BY <1>2, <2>1 DEF Inv, Shape, Sent
<1>6. \A q \in Rank : \A i \in All(q) : Taken(q, i)' = Taken(q, i)
  <2> TAKE q \in Rank
  <2> TAKE i \in All(q)
  <2>1. begun[q] \in Nat /\ at[q] \in 0 .. 4
    BY DEF Inv, Shape
  <2> QED
    BY <1>2, <2>1 DEF Inv, Shape, Taken
<1> QED
  BY <1>3, <1>4, <1>5, <1>6, CountsStay

LEMMA ReturnInv ==
  ASSUME Inv, NEW p \in Rank, Return(p)
  PROVE  Inv'
<1> USE DEF Return
<1>2. begun[p] \in Nat \ {0}
  BY DEF Inv, Shape, Phases
<1>3. Shape'
  BY <1>2 DEF Inv, Shape, IsSeq
<1>4. Phases'
  BY <1>2 DEF Inv, Shape, Phases, All
<1>5. \A q \in Rank : Sent(q)' = Sent(q)
  <2> TAKE q \in Rank
  <2>1. begun[q] \in Nat /\ at[q] \in 0 .. 4
    BY DEF Inv, Shape
  <2> QED
    BY <1>2, <2>1 DEF Inv, Shape, Sent
<1>6. \A q \in Rank : \A i \in All(q) : Taken(q, i)' = Taken(q, i)
  <2> TAKE q \in Rank
  <2> TAKE i \in All(q)
  <2>1. begun[q] \in Nat /\ at[q] \in 0 .. 4
    BY DEF Inv, Shape
  <2> QED
    BY <1>2, <2>1 DEF Inv, Shape, Taken
<1> QED
  BY <1>3, <1>4, <1>5, <1>6, CountsStay

LEMMA TakeInv ==
  ASSUME Inv, NEW p \in Rank, NEW i \in All(p), Take(p, i)
  PROVE  Inv'
<1> DEFINE q == Neighbours[p][i]
           old == chan[q][p]
<1> USE DEF Take, TakeFrom
<1>1. q \in Rank /\ i \in recvs[p] /\ old # <<>> /\ IsSeq(old)
  BY NeighboursMeet DEF Inv, Shape
<1>2. chan' = [chan EXCEPT ![q][p] = Tail(old)]
  OBVIOUS
<1>3. chan'[q][p] = Tail(old)
  BY <1>1, <1>2 DEF Inv, Shape
<1>4. \A r, t \in Rank : ~(r = q /\ t = p) => chan'[r][t] = chan[r][t]
  BY <1>1, <1>2 DEF Inv, Shape
<1>5. at[p] \in 1 .. 4 /\ begun[p] \in Nat \ {0}
  BY <1>1 DEF Inv, Shape, Phases
<1>6. Shape'
  <2>1. ASSUME NEW r \in Rank, NEW t \in Rank
        PROVE  IsSeq(chan'[r][t])
    <3>1. IsSeq(chan[r][t])
      BY DEF Inv, Shape
    <3>2. CASE r = q /\ t = p
      <4>1. IsSeq(Tail(old))
        BY <1>1, SeqShorter
      <4> QED
        BY <1>3, <3>2, <4>1
    <3>3. CASE ~(r = q /\ t = p)
      BY <1>4, <3>1, <3>3
    <3> QED
      BY <3>2, <3>3
  <2>2. chan' = [r \in Rank |-> [t \in Rank |-> chan'[r][t]]]
    BY <1>2, ZenonT(30) DEF Inv, Shape
  <2>3. recvs' \in [Rank -> SUBSET Nat]
    BY DEF Inv, Shape
  <2> QED
    BY <2>1, <2>2, <2>3 DEF Inv, Shape, IsSeq
<1>7. Phases'
  BY <1>5 DEF Inv, Shape, Phases, All
<1>8. \A r \in Rank : Sent(r)' = Sent(r)
  BY DEF Sent
<1>9. Taken(p, i)' = Taken(p, i) + 1
  <2>1. i \notin recvs'[p]
    BY DEF Inv, Shape
  <2> QED
    BY <1>1, <1>5, <2>1 DEF Taken
<1>10. \A r \in Rank : \A j \in All(r) : ~(r = p /\ j = i) => Taken(r, j)' = Taken(r, j)
  <2> TAKE r \in Rank
  <2> TAKE j \in All(r)
  <2>1. ~(r = p /\ j = i) => (j \in recvs'[r] <=> j \in recvs[r])
    BY DEF Inv, Shape
  <2> QED
    BY <2>1 DEF Taken
<1>11. InOrder'
  <2> SUFFICES ASSUME NEW r \in Rank, NEW j \in All(r)
               PROVE  LET c == chan'[Neighbours[r][j]][r]
                      IN  /\ Len(c) = Sent(Neighbours[r][j])' - Taken(r, j)'
                          /\ \A k \in 1 .. Len(c) :
                               /\ c[k].id \in Nat /\ c[k].round \in 1 .. 4
                               /\ Serial(c[k]) = Taken(r, j)' + k
    BY DEF InOrder, Serial, All
  <2>1. Neighbours[r][j] \in Rank
    BY NeighboursMeet
  <2>2. CASE r = p /\ j = i
    <3>1. /\ Len(old) = Sent(q) - Taken(p, i)
          /\ \A k \in 1 .. Len(old) : /\ old[k].id \in Nat /\ old[k].round \in 1 .. 4
                                      /\ Serial(old[k]) = Taken(p, i) + k
      BY <1>1 DEF Inv, InOrder
    <3>2. /\ Len(Tail(old)) = Len(old) - 1
          /\ \A k \in 1 .. Len(old) - 1 : Tail(old)[k] = old[k + 1]
          /\ Len(old) \in Nat \ {0}
      BY <1>1, SeqShorter
    <3>3. Sent(q) \in Int /\ Taken(p, i) \in Int
      BY <1>1, CountsAreNumbers
    <3>4. Len(Tail(old)) = Sent(q)' - Taken(p, i)'
      BY <1>1, <1>8, <1>9, <3>1, <3>2, <3>3
    <3>5. ASSUME NEW k \in 1 .. Len(Tail(old))
          PROVE  /\ Tail(old)[k].id \in Nat /\ Tail(old)[k].round \in 1 .. 4
                 /\ Serial(Tail(old)[k]) = Taken(p, i)' + k
      <4>1. k \in 1 .. Len(old) - 1 /\ k + 1 \in 1 .. Len(old) /\ k \in Int
        BY <3>2
      <4>2. Tail(old)[k] = old[k + 1] /\ Serial(old[k + 1]) = Taken(p, i) + (k + 1)
        BY <3>1, <3>2, <4>1
      <4> HIDE DEF old, q
      <4> QED
        BY <1>9, <3>1, <3>3, <4>1, <4>2
    <3> QED
      BY <1>3, <2>2, <3>4, <3>5
  <2>3. CASE ~(r = p /\ j = i)
    <3>1. ~(Neighbours[r][j] = q /\ r = p)
      BY <2>3, NeighboursMeet
    <3>2. chan'[Neighbours[r][j]][r] = chan[Neighbours[r][j]][r]
      BY <1>4, <2>1, <3>1
    <3>3. Sent(Neighbours[r][j])' = Sent(Neighbours[r][j]) /\ Taken(r, j)' = Taken(r, j)
      BY <1>8, <1>10, <2>1, <2>3
    <3> HIDE DEF Take, TakeFrom
    <3>4. LET c == chan[Neighbours[r][j]][r]
          IN  /\ Len(c) = Sent(Neighbours[r][j]) - Taken(r, j)
              /\ \A k \in 1 .. Len(c) :
                   /\ c[k].id \in Nat /\ c[k].round \in 1 .. 4
                   /\ Serial(c[k]) = Taken(r, j) + k
      BY DEF Inv, InOrder
    <3> QED
      BY <3>2, <3>3, <3>4
  <2> QED
    BY <2>2, <2>3
<1>12. OnlyNeighbours'
  <2>1. p \in SharesWith(q)
    BY NeighboursMeet
  <2> QED
    BY <1>4, <2>1 DEF Inv, OnlyNeighbours, SharesWith
<1>13. OneWithoutRoom'
  <2> SUFFICES ASSUME ~eager, NEW r \in Rank, NEW t \in Rank
               PROVE  Len(chan'[r][t]) <= 1
    BY DEF OneWithoutRoom
  <2>1. Len(chan[r][t]) <= 1
    BY DEF Inv, OneWithoutRoom
  <2>2. CASE r = q /\ t = p
    BY <1>1, <1>3, <2>1, <2>2, SeqShorter
  <2> QED
    BY <1>4, <2>1, <2>2
<1> QED
  BY <1>6, <1>7, <1>11, <1>12, <1>13 DEF Inv

LEMMA PostSendsInv ==
  ASSUME Inv, NEW p \in Rank, PostSends(p)
  PROVE  Inv'
<1> DEFINE message(q) == [id |-> begun[p], round |-> at[p],
                          content |-> Content(p, CHOOSE i \in All(p) : Neighbours[p][i] = q)]
<1> USE DEF PostSends
<1>1. at[p] \in 1 .. 4 /\ begun[p] \in Nat \ {0} /\ ~posted[p]
  BY DEF Inv, Shape, Phases
<1>2. chan' = [chan EXCEPT ![p] = [q \in Rank |->
         chan[p][q] \o (IF q \in SharesWith(p) THEN <<message(q)>> ELSE <<>>)]]
  BY DEF Send, Inv, Shape
<1>3. \A r, t \in Rank : r # p => chan'[r][t] = chan[r][t]
  BY <1>2 DEF Inv, Shape
<1>4. \A t \in SharesWith(p) : chan'[p][t] = chan[p][t] \o <<message(t)>>
  BY <1>2 DEF Inv, Shape, SharesWith
<1>5. \A t \in Rank \ SharesWith(p) : chan'[p][t] = chan[p][t]
  BY <1>2, SeqSame DEF Inv, Shape
<1> HIDE DEF message
<1>6. \A r, t \in Rank : IsSeq(chan[r][t]) /\ IsSeq(chan'[r][t])
  <2> TAKE r, t \in Rank
  <2>1. IsSeq(chan[r][t])
    BY DEF Inv, Shape
  <2>2. CASE r = p /\ t \in SharesWith(p)
    <3>1. IsSeq(chan[r][t] \o <<message(t)>>)
      BY <2>1, SeqLonger
    <3> QED
      BY <1>4, <2>1, <2>2, <3>1
  <2> QED
    BY <1>3, <1>5, <2>1, <2>2
<1>7. Shape'
  <2>1. chan' = [r \in Rank |-> [t \in Rank |-> chan'[r][t]]]
    BY <1>2 DEF Inv, Shape
  <2> QED
    BY <1>6, <2>1 DEF Inv, Shape, IsSeq
<1>8. Phases'
  BY <1>1 DEF Inv, Shape, Phases, All
<1>9. /\ Sent(p)' = Sent(p) + 1 /\ Sent(p) \in Int
      /\ Sent(p) + 1 = 4 * (begun[p] - 1) + at[p]
      /\ \A r \in Rank : r # p => Sent(r)' = Sent(r)
  BY <1>1 DEF Inv, Shape, Sent
<1>10. \A r \in Rank : \A j \in All(r) : Taken(r, j)' = Taken(r, j)
  BY DEF Taken
<1>11. \A t : /\ message(t).id = begun[p] /\ message(t).round = at[p]
              /\ Serial(message(t)) = Sent(p) + 1
  BY <1>9 DEF message, Serial
<1>12. InOrder'
  <2> SUFFICES ASSUME NEW r \in Rank, NEW j \in All(r)
               PROVE  LET c == chan'[Neighbours[r][j]][r]
                      IN  /\ Len(c) = Sent(Neighbours[r][j])' - Taken(r, j)'
                          /\ \A k \in 1 .. Len(c) :
                               /\ c[k].id \in Nat /\ c[k].round \in 1 .. 4
                               /\ Serial(c[k]) = Taken(r, j)' + k
    BY DEF InOrder, Serial, All
  <2>1. Neighbours[r][j] \in Rank
    BY NeighboursMeet
  <2>2. CASE Neighbours[r][j] = p
    <3> DEFINE old == chan[p][r]
               new == chan'[p][r]
    <3>1. r \in SharesWith(p) /\ new = old \o <<message(r)>> /\ IsSeq(old)
      BY <1>4, <1>6, <2>2, NeighboursMeet DEF SharesWith
    <3>2. /\ Len(old) = Sent(p) - Taken(r, j)
          /\ \A k \in 1 .. Len(old) : /\ old[k].id \in Nat /\ old[k].round \in 1 .. 4
                                      /\ Serial(old[k]) = Taken(r, j) + k
      BY <2>2 DEF Inv, InOrder
    <3>3. Len(old) \in Nat
      BY <3>1, SeqLength
    <3>4. Taken(r, j) \in Int
      BY DEF Inv, Shape, Taken
    <3> HIDE DEF old, new
    <3>5. /\ Len(new) = Len(old) + 1
          /\ \A k \in 1 .. Len(old) : new[k] = old[k]
          /\ new[Len(old) + 1] = message(r)
      BY <3>1, SeqLonger
    <3>6. Len(new) = Sent(p)' - Taken(r, j)'
      BY <1>9, <1>10, <3>2, <3>3, <3>4, <3>5
    <3>7. ASSUME NEW k \in 1 .. Len(new)
          PROVE  /\ new[k].id \in Nat /\ new[k].round \in 1 .. 4
                 /\ Serial(new[k]) = Taken(r, j)' + k
      <4>1. CASE k \in 1 .. Len(old)
        BY <1>10, <3>2, <3>5, <4>1
      <4>2. CASE k = Len(old) + 1
        <5>1. new[k] = message(r) /\ Sent(p) + 1 = Taken(r, j) + k
          BY <1>9, <3>2, <3>3, <3>4, <3>5, <4>2
        <5> QED
          BY <1>1, <1>10, <1>11, <5>1
      <4> QED
        BY <3>3, <3>5, <4>1, <4>2
    <3> QED
      BY <2>2, <3>6, <3>7 DEF new
  <2>3. CASE Neighbours[r][j] # p
    <3>1. chan'[Neighbours[r][j]][r] = chan[Neighbours[r][j]][r]
      BY <1>3, <2>1, <2>3
    <3>2. Sent(Neighbours[r][j])' = Sent(Neighbours[r][j]) /\ Taken(r, j)' = Taken(r, j)
      BY <1>9, <1>10, <2>1, <2>3
    <3> HIDE DEF PostSends
    <3>3. LET c == chan[Neighbours[r][j]][r]
          IN  /\ Len(c) = Sent(Neighbours[r][j]) - Taken(r, j)
              /\ \A k \in 1 .. Len(c) :
                   /\ c[k].id \in Nat /\ c[k].round \in 1 .. 4
                   /\ Serial(c[k]) = Taken(r, j) + k
      BY DEF Inv, InOrder
    <3> QED
      BY <3>1, <3>2, <3>3
  <2> QED
    BY <2>2, <2>3
<1>13. OnlyNeighbours'
  BY <1>3, <1>5 DEF Inv, OnlyNeighbours, SharesWith
<1>14. OneWithoutRoom'
  <2> SUFFICES ASSUME ~eager, NEW r \in Rank, NEW t \in Rank
               PROVE  Len(chan'[r][t]) <= 1
    BY DEF OneWithoutRoom
  <2>1. CASE r = p /\ t \in SharesWith(p)
    <3>1. Len(chan[r][t]) = 0
      BY <1>6, <2>1, SeqLength DEF SendsDone
    <3> QED
      <4>1. Len(chan[r][t] \o <<message(t)>>) = Len(chan[r][t]) + 1
        BY <1>6, SeqLonger
      <4>2. chan'[r][t] = chan[r][t] \o <<message(t)>>
        BY <1>4, <2>1
      <4>3. Len(chan'[r][t]) = 1
        BY <3>1, <4>1, <4>2
      <4> QED
        BY <4>3
  <2> QED
    BY <1>3, <1>5, <2>1 DEF Inv, OneWithoutRoom
<1> QED
  BY <1>7, <1>8, <1>12, <1>13, <1>14 DEF Inv

LEMMA NextInv == ASSUME Inv, [Next]_vars PROVE Inv'
<1>1. CASE Next
  BY <1>1, StartInv, PostSendsInv, TakeInv, PostReceivesInv, ReturnInv DEF Next, Step
<1>2. CASE UNCHANGED vars
  <2>1. Shape' /\ Phases'
    BY <1>2 DEF Inv, Shape, Phases, IsSeq, vars, All
  <2>2. \A p \in Rank : Sent(p)' = Sent(p) /\ \A i \in All(p) : Taken(p, i)' = Taken(p, i)
    BY <1>2 DEF Sent, Taken, vars
  <2> QED
    BY <1>2, <2>1, <2>2, CountsStay DEF vars
<1> QED
  BY <1>1, <1>2

LEMMA InvAlways == Spec => []Inv
<1>1. Init => Inv
  BY InitInv
<1>2. Inv /\ [Next]_vars => Inv'
  BY NextInv
<1> QED
  BY <1>1, <1>2, PTL DEF Spec

----------------------------------------------------------------------------
\* What is in front of an active receive is the message of the same conversion and the
\* same round: its serial number follows what was taken.
LEMMA InvRightRound == ASSUME Inv PROVE RightRound
<1> SUFFICES ASSUME NEW p \in Rank, NEW i \in recvs[p], chan[Neighbours[p][i]][p] # <<>>
             PROVE  LET m == Head(chan[Neighbours[p][i]][p])
                    IN  m.id = begun[p] /\ m.round = at[p]
  BY DEF RightRound
<1> DEFINE c == chan[Neighbours[p][i]][p]
<1>1. i \in All(p) /\ Neighbours[p][i] \in Rank
  BY NeighboursMeet DEF Inv, Phases
<1>2. at[p] \in 1 .. 4 /\ begun[p] \in Nat \ {0}
  BY DEF Inv, Shape, Phases
<1>3. IsSeq(c)
  BY <1>1 DEF Inv, Shape
<1>4. Head(c) = c[1] /\ Len(c) \in Nat \ {0}
  BY <1>3, SeqShorter
<1>5. c[1].id \in Nat /\ c[1].round \in 1 .. 4 /\ Serial(c[1]) = Taken(p, i) + 1
  BY <1>1, <1>4 DEF Inv, InOrder
<1>6. Taken(p, i) = 4 * (begun[p] - 1) + at[p] - 1
  BY <1>2 DEF Taken
<1> HIDE DEF c
<1>7. 4 * (c[1].id - 1) + c[1].round = 4 * (begun[p] - 1) + at[p]
  BY <1>2, <1>5, <1>6 DEF Serial
<1>8. c[1].id = begun[p] /\ c[1].round = at[p]
  <2> DEFINE a == c[1].id
             r == c[1].round
             b == begun[p]
             t == at[p]
  <2>1. a \in Nat /\ b \in Nat /\ r \in 1 .. 4 /\ t \in 1 .. 4 /\ 4 * (a - 1) + r = 4 * (b - 1) + t
    BY <1>2, <1>5, <1>7
  <2> HIDE DEF a, r, b, t
  <2>2. a = b /\ r = t
    BY <2>1, SerialTellsRound
  <2> QED
    BY <2>2 DEF a, r, b, t
<1> QED
  BY <1>4, <1>8 DEF c

\* Two processes that share something are at most one round apart.
LEMMA InvOneSendEach == ASSUME Inv PROVE OneSendEach
<1> SUFFICES ASSUME NEW p \in Rank, NEW q \in Rank
             PROVE  Len(chan[p][q]) <= IF eager THEN 2 ELSE 1
  BY DEF OneSendEach
<1>1. CASE ~eager
  BY <1>1 DEF Inv, OneWithoutRoom
<1>2. CASE q \notin SharesWith(p)
  BY <1>2 DEF Inv, OnlyNeighbours
<1>3. CASE eager /\ q \in SharesWith(p)
  <2>1. PICK i \in All(p) : Neighbours[p][i] = q
    BY <1>3, NeighboursMeet
  <2>2. PICK j \in All(q) : Neighbours[q][j] = p
    BY <1>3, NeighboursMeet DEF SharesWith
  <2>3. Len(chan[q][p]) = Sent(q) - Taken(p, i) /\ Len(chan[p][q]) = Sent(p) - Taken(q, j)
    BY <2>1, <2>2 DEF Inv, InOrder
  <2>4. Len(chan[q][p]) \in Nat
    BY SeqLength DEF Inv, Shape
  <2>5. /\ Sent(p) \in Int /\ Taken(p, i) \in Int /\ Sent(p) <= Taken(p, i) + 1
        /\ Sent(q) \in Int /\ Taken(q, j) \in Int /\ Sent(q) <= Taken(q, j) + 1
    BY DEF Inv, Shape, Sent, Taken
  <2> QED
    BY <1>3, <2>3, <2>4, <2>5
<1> QED
  BY <1>1, <1>2, <1>3

\* RightRound: whatever the number of processes, their neighbours, patterns and
\* programs, messages that all have the same tag reach the receives of their round.
THEOREM ReceivesGetTheirRound == Spec => []RightRound
<1>1. Inv => RightRound
  BY InvRightRound
<1> QED
  BY <1>1, InvAlways, PTL

\* OneSendEach: no request of a send is used again before the send is complete, and
\* never more than two messages are under way from one process to another.
THEOREM FewMessages == Spec => []OneSendEach
<1>1. Inv => OneSendEach
  BY InvOneSendEach
<1> QED
  BY <1>1, InvAlways, PTL

----------------------------------------------------------------------------
(* What messages say, what is known of neighbours, and what is added up.   *)

Shared(p, q) == Holds[p] \cap Holds[q]

\* The entries of p's part of the t-th matrix that q may have as well.
Part(t, p, q) == Pattern[Program[t]][p] \cap (Shared(p, q) \X Shared(p, q))

\* What p sends to q in a round of the t-th conversion.
Told(t, round, p, q) ==
  CASE round = 1 -> [rows |-> Cardinality(Shared(p, q)), used |-> Cardinality(Part(t, p, q))]
    [] round = 2 -> [d \in Shared(p, q) |-> Cardinality({e \in Part(t, p, q) : e[1] = d})]
    [] round = 3 -> Part(t, p, q)
    [] round = 4 -> [e \in Part(t, p, q) |-> [r \in Rank |-> IF r = p THEN 1 ELSE 0]]

\* p's part of the t-th matrix, with the values of the processes in S.
AddedUp(t, p, S) ==
  [e \in Pattern[Program[t]][p] |->
     [r \in Rank |-> IF r \in S /\ e \in Pattern[Program[t]][r] THEN 1 ELSE 0]]

\* Those whose values are in p's matrix.
Added(p) ==
  {p} \cup {q \in Rank : at[p] = 4 /\ \E i \in All(p) \ recvs[p] : Neighbours[p][i] = q}

\* p has taken the message of a round from its i-th neighbour.
Heard(p, i, round) == at[p] > round \/ (at[p] = round /\ i \notin recvs[p])

Frames ==
  /\ begun \in [Rank -> 0 .. Len(Program)]
  /\ target = [p \in Rank |-> target[p]]
  /\ buf = [p \in Rank |-> buf[p]]
  /\ \A p \in Rank : at[p] # 0 =>
       buf[p] = [i \in All(p) |-> [rows |-> buf[p][i].rows, used |-> buf[p][i].used,
                                   row_ptr |-> buf[p][i].row_ptr, col_ind |-> buf[p][i].col_ind]]

\* Nothing is added before the own values are sent.
Unsent == \A p \in Rank : at[p] = 4 /\ ~posted[p] => recvs[p] = All(p)

Contents ==
  \A p \in Rank : \A i \in All(p) :
    LET q == Neighbours[p][i]
        c == chan[q][p]
    IN  \A k \in 1 .. Len(c) : c[k].content = Told(c[k].id, c[k].round, q, p)

KnowsPart(p, i) ==
  LET q == Neighbours[p][i]
  IN  /\ Heard(p, i, 1) => /\ buf[p][i].rows = Told(begun[p], 1, q, p).rows
                           /\ buf[p][i].used = Told(begun[p], 1, q, p).used
      /\ Heard(p, i, 2) => buf[p][i].row_ptr = Told(begun[p], 2, q, p)
      /\ Heard(p, i, 3) => buf[p][i].col_ind = Told(begun[p], 3, q, p)

Known == \A p \in Rank : \A i \in All(p) : KnowsPart(p, i)

SumsUp(p) == at[p] # 0 => target[p] = AddedUp(begun[p], p, Added(p))

Sums == \A p \in Rank : SumsUp(p)

Whole == Frames /\ Unsent /\ Contents /\ Known /\ Sums

\* What p sends is what the promise of the round is: in the last round, its matrix has only
\* its own values.
LEMMA SendsTold ==
  ASSUME Inv, Frames, Unsent, Sums, NEW p \in Rank, at[p] # 0, ~posted[p], NEW i \in All(p)
  PROVE  Content(p, i) = Told(begun[p], at[p], p, Neighbours[p][i])
<1> DEFINE q == Neighbours[p][i]
           t == begun[p]
<1>1. at[p] \in 1 .. 4
  BY DEF Inv, Shape
<1>2. Mirror(p, i) = Shared(p, q) /\ Buffer(p, i) = Part(t, p, q)
  BY DEF Mirror, Shared, Buffer, Part, Matrix
<1>3. CASE at[p] = 1
  BY <1>2, <1>3 DEF Content, Told
<1>4. CASE at[p] = 2
  BY <1>2, <1>4 DEF Content, Told, RowPtr
<1>5. CASE at[p] = 3
  BY <1>2, <1>5 DEF Content, Told
<1>6. CASE at[p] = 4
  <2>1. Added(p) = {p}
    BY <1>6 DEF Unsent, Added
  <2>2. target[p] = AddedUp(t, p, {p})
    BY <1>6, <2>1 DEF Sums, SumsUp
  <2>3. \A e \in Part(t, p, q) : target[p][e] = [r \in Rank |-> IF r = p THEN 1 ELSE 0]
    BY <2>2 DEF AddedUp, Part
  <2>4. Told(t, 4, p, q) = [e \in Part(t, p, q) |-> [r \in Rank |-> IF r = p THEN 1 ELSE 0]]
    BY DEF Told
  <2>5. Gather(p, i) = Told(t, 4, p, q)
    BY <1>2, <2>3, <2>4, Zenon DEF Gather
  <2> QED
    BY <1>6, <2>5 DEF Content
<1> QED
  BY <1>1, <1>3, <1>4, <1>5, <1>6

\* The first message of an active receive.
LEMMA TakesTold ==
  ASSUME Inv, Contents, NEW p \in Rank, NEW i \in recvs[p], chan[Neighbours[p][i]][p] # <<>>
  PROVE  /\ i \in All(p) /\ Neighbours[p][i] \in Rank /\ at[p] \in 1 .. 4
         /\ Head(chan[Neighbours[p][i]][p]).content = Told(begun[p], at[p], Neighbours[p][i], p)
<1> DEFINE q == Neighbours[p][i]
           c == chan[q][p]
<1>1. i \in All(p) /\ q \in Rank /\ at[p] \in 1 .. 4
  BY NeighboursMeet DEF Inv, Phases, Shape
<1>2. Head(c).id = begun[p] /\ Head(c).round = at[p]
  BY InvRightRound DEF RightRound
<1>3. Head(c) = c[1] /\ 1 \in 1 .. Len(c)
  BY <1>1, SeqShorter DEF Inv, Shape
<1>4. \A k \in 1 .. Len(c) : c[k].content = Told(c[k].id, c[k].round, q, p)
  BY <1>1 DEF Contents
<1> QED
  BY <1>1, <1>2, <1>3, <1>4

----------------------------------------------------------------------------
LEMMA InitWhole == ASSUME Init PROVE Whole
<1> USE DEF Init
<1>1. Len(Program) \in Nat
  BY MatrixAssumption
<1>2. Frames
  BY <1>1 DEF Frames
<1>3. \A p \in Rank : \A i \in All(p) : chan[Neighbours[p][i]][p] = <<>>
  BY NeighboursMeet
<1>4. Contents
  BY <1>3 DEF Contents
<1> QED
  BY <1>2, <1>4 DEF Whole, Unsent, Known, KnowsPart, Heard, Sums, SumsUp

\* A process that is where it was, and waits for what it waited for, has what it had.
LEMMA OthersStay ==
  ASSUME Whole, NEW p \in Rank,
         at'[p] = at[p], begun'[p] = begun[p], recvs'[p] = recvs[p], buf'[p] = buf[p],
         target'[p] = target[p]
  PROVE  SumsUp(p)' /\ \A i \in All(p) : KnowsPart(p, i)'
<1>1. Added(p)' = Added(p)
  BY DEF Added, All
<1>2. \A i \in All(p) : \A round \in 1 .. 3 : Heard(p, i, round)' = Heard(p, i, round)
  BY DEF Heard
<1>3. SumsUp(p)'
  BY <1>1 DEF Whole, Sums, SumsUp, AddedUp
<1>4. ASSUME NEW i \in All(p) PROVE KnowsPart(p, i)'
  BY <1>2 DEF Whole, Known, KnowsPart, Told, Part, Shared
<1> QED
  BY <1>3, <1>4

LEMMA StartWhole ==
  ASSUME Inv, Inv', Whole, NEW p \in Rank, Start(p)
  PROVE  Whole'
<1> DEFINE t == begun[p] + 1
<1>1. /\ at[p] = 0 /\ begun[p] < Len(Program) /\ begun[p] \in Nat /\ Len(Program) \in Nat
      /\ begun' = [begun EXCEPT ![p] = t] /\ at' = [at EXCEPT ![p] = 1]
      /\ recvs' = [recvs EXCEPT ![p] = All(p)]
      /\ buf' = [buf EXCEPT ![p] = [i \in All(p) |-> NoBuffer]]
      /\ chan' = chan /\ posted' = posted
  BY MatrixAssumption DEF Start, Inv, Shape
<1>2. /\ begun'[p] = t /\ at'[p] = 1 /\ recvs'[p] = All(p) /\ buf'[p] = [i \in All(p) |-> NoBuffer]
      /\ \A q \in Rank \ {p} : /\ begun'[q] = begun[q] /\ at'[q] = at[q] /\ recvs'[q] = recvs[q]
                               /\ buf'[q] = buf[q]
  BY <1>1 DEF Inv, Shape, Whole, Frames
<1>3. /\ target' = [target EXCEPT ![p] =
            [e \in Pattern[Program[t]][p] |-> [r \in Rank |-> IF r = p THEN 1 ELSE 0]]]
  BY <1>2 DEF Start
<1>4. /\ target'[p] = [e \in Pattern[Program[t]][p] |-> [r \in Rank |-> IF r = p THEN 1 ELSE 0]]
      /\ \A q \in Rank \ {p} : target'[q] = target[q]
  BY <1>3 DEF Whole, Frames
<1>5. Frames'
  <2>1. begun' \in [Rank -> 0 .. Len(Program)]
    BY <1>1 DEF Whole, Frames
  <2>2. target' = [q \in Rank |-> target'[q]] /\ buf' = [q \in Rank |-> buf'[q]]
    BY <1>1, <1>3 DEF Whole, Frames
  <2>3. ASSUME NEW q \in Rank, at'[q] # 0
        PROVE  buf'[q] = [i \in All(q) |-> [rows |-> buf'[q][i].rows, used |-> buf'[q][i].used,
                          row_ptr |-> buf'[q][i].row_ptr, col_ind |-> buf'[q][i].col_ind]]
    BY <1>2, <2>3 DEF Whole, Frames, NoBuffer
  <2> QED
    BY <2>1, <2>2, <2>3 DEF Frames, All
<1>6. Unsent'
  BY <1>1, <1>2 DEF Whole, Unsent, All
<1>7. Contents'
  BY <1>1 DEF Whole, Contents, All
<1>8. Sums'
  <2>1. SumsUp(p)'
    <3>1. Added(p)' = {p}
      BY <1>2 DEF Added
    <3> QED
      BY <1>2, <1>4, <3>1 DEF SumsUp, AddedUp
  <2> QED
    BY <1>2, <1>4, <2>1, OthersStay DEF Sums
<1>9. Known'
  <2>1. ASSUME NEW i \in All(p) PROVE KnowsPart(p, i)'
    BY <1>2 DEF Heard, KnowsPart
  <2> QED
    BY <1>2, <1>4, <2>1, OthersStay DEF Known, All
<1> QED
  BY <1>5, <1>6, <1>7, <1>8, <1>9 DEF Whole

LEMMA PostSendsWhole ==
  ASSUME Inv, Inv', Whole, NEW p \in Rank, PostSends(p)
  PROVE  Whole'
<1> DEFINE message(q) == [id |-> begun[p], round |-> at[p],
                          content |-> Content(p, CHOOSE i \in All(p) : Neighbours[p][i] = q)]
<1>1. /\ at[p] # 0 /\ ~posted[p] /\ Send(p)
      /\ posted' = [posted EXCEPT ![p] = TRUE]
      /\ UNCHANGED <<begun, at, recvs, buf, target>>
  BY DEF PostSends
<1>2. chan' = [chan EXCEPT ![p] = [q \in Rank |->
         chan[p][q] \o (IF q \in SharesWith(p) THEN <<message(q)>> ELSE <<>>)]]
  BY <1>1 DEF Send, Inv, Shape
<1>3. \A r, t \in Rank : r # p => chan'[r][t] = chan[r][t]
  BY <1>2 DEF Inv, Shape
<1>4. \A t \in SharesWith(p) : chan'[p][t] = chan[p][t] \o <<message(t)>>
  BY <1>2 DEF Inv, Shape, SharesWith
<1>5. ASSUME NEW t \in SharesWith(p)
      PROVE  message(t) = [id |-> begun[p], round |-> at[p], content |-> Told(begun[p], at[p], p, t)]
  <2>1. PICK i \in All(p) : i = CHOOSE j \in All(p) : Neighbours[p][j] = t
    BY NeighboursMeet
  <2>2. Neighbours[p][i] = t
    BY <2>1, NeighboursMeet
  <2> QED
    BY <1>1, <2>1, <2>2, SendsTold DEF Whole
<1> HIDE DEF message
<1>6. Contents'
  <2> SUFFICES ASSUME NEW r \in Rank, NEW j \in All(r), NEW k \in 1 .. Len(chan'[Neighbours[r][j]][r])
               PROVE  LET m == chan'[Neighbours[r][j]][r][k]
                      IN  m.content = Told(m.id, m.round, Neighbours[r][j], r)
    BY DEF Contents, All, Told, Part, Shared
  <2>1. Neighbours[r][j] \in Rank /\ r \in SharesWith(Neighbours[r][j])
    BY NeighboursMeet
  <2>2. \A l \in 1 .. Len(chan[Neighbours[r][j]][r]) :
          LET m == chan[Neighbours[r][j]][r][l]
          IN  m.content = Told(m.id, m.round, Neighbours[r][j], r)
    BY DEF Whole, Contents
  <2>3. CASE Neighbours[r][j] = p
    <3>1. /\ IsSeq(chan[p][r]) /\ chan'[p][r] = chan[p][r] \o <<message(r)>>
      BY <1>4, <2>1, <2>3 DEF Inv, Shape
    <3>2. k \in 1 .. Len(chan[p][r]) \/ k = Len(chan[p][r]) + 1
      <4>1. k \in 1 .. Len(chan'[p][r])
        BY <2>3
      <4>2. Len(chan'[p][r]) = Len(chan[p][r]) + 1
        BY <3>1, SeqLonger
      <4> QED
        BY <3>1, <4>1, <4>2, SeqPlaces
    <3>3. CASE k \in 1 .. Len(chan[p][r])
      BY <2>2, <2>3, <3>1, <3>3, SeqLonger
    <3>4. CASE k = Len(chan[p][r]) + 1
      <4>1. chan'[p][r][k] = message(r)
        BY <3>1, <3>4, SeqLonger
      <4> QED
        BY <1>5, <2>1, <2>3, <4>1
    <3> QED
      BY <3>2, <3>3, <3>4
  <2> QED
    BY <1>3, <2>1, <2>2, <2>3
<1>7. Frames'
  BY <1>1 DEF Whole, Frames, All
<1>8. Unsent'
  BY <1>1 DEF Whole, Unsent, All, Inv, Shape
<1>9. Sums' /\ Known'
  BY <1>1, OthersStay DEF Sums, Known, All
<1> QED
  BY <1>6, <1>7, <1>8, <1>9 DEF Whole

LEMMA PostReceivesWhole ==
  ASSUME Inv, Inv', Whole, NEW p \in Rank, PostReceives(p)
  PROVE  Whole'
<1>1. /\ at[p] \in 1 .. 3 /\ posted[p] /\ recvs[p] = {}
      /\ at'[p] = at[p] + 1 /\ recvs'[p] = All(p)
      /\ \A q \in Rank \ {p} : at'[q] = at[q] /\ recvs'[q] = recvs[q] /\ posted'[q] = posted[q]
      /\ UNCHANGED <<begun, buf, target, chan>>
  BY DEF PostReceives, Inv, Shape
<1>2. Frames'
  BY <1>1 DEF Whole, Frames, All
<1>3. Unsent'
  BY <1>1 DEF Whole, Unsent, All
<1>4. Contents'
  BY <1>1 DEF Whole, Contents, All
<1>5. Sums'
  <2>1. Added(p) = {p} /\ Added(p)' = {p}
    BY <1>1 DEF Added, All
  <2>2. SumsUp(p)'
    BY <1>1, <2>1 DEF Whole, Sums, SumsUp, AddedUp
  <2> QED
    BY <1>1, <2>2, OthersStay DEF Sums
<1>6. Known'
  <2>1. ASSUME NEW i \in All(p) PROVE KnowsPart(p, i)'
    <3>1. \A round \in 1 .. 3 : Heard(p, i, round)' => Heard(p, i, round)
      BY <1>1 DEF Heard, All
    <3> QED
      BY <1>1, <3>1 DEF Whole, Known, KnowsPart, Told, Part, Shared
  <2> QED
    BY <1>1, <2>1, OthersStay DEF Known, All
<1> QED
  BY <1>2, <1>3, <1>4, <1>5, <1>6 DEF Whole

LEMMA ReturnWhole ==
  ASSUME Inv, Inv', Whole, NEW p \in Rank, Return(p)
  PROVE  Whole'
<1>1. /\ at'[p] = 0
      /\ \A q \in Rank \ {p} : at'[q] = at[q] /\ posted'[q] = posted[q]
      /\ UNCHANGED <<begun, recvs, buf, target, chan>>
  BY DEF Return, Inv, Shape
<1>2. Frames'
  BY <1>1 DEF Whole, Frames, All
<1>3. Unsent'
  BY <1>1 DEF Whole, Unsent, All
<1>4. Contents'
  BY <1>1 DEF Whole, Contents, All
<1>5. Sums' /\ Known'
  <2>1. SumsUp(p)' /\ \A i \in All(p) : KnowsPart(p, i)'
    BY <1>1 DEF SumsUp, KnowsPart, Heard
  <2> QED
    BY <1>1, <2>1, OthersStay DEF Sums, Known, All
<1> QED
  BY <1>2, <1>3, <1>4, <1>5 DEF Whole

\* The values of one more neighbour are added.
LEMMA OneMoreAdded ==
  ASSUME NEW t \in DOMAIN Program, NEW p \in Rank, NEW q \in SharesWith(p), NEW S, q \notin S
  PROVE  ScatterAxpy(AddedUp(t, p, S), Told(t, 4, q, p)) = AddedUp(t, p, S \cup {q})
<1> DEFINE has(r) == Pattern[Program[t]][r]
           a == AddedUp(t, p, S)
           u == Told(t, 4, q, p)
<1>1. q \in Rank /\ Program[t] \in DOMAIN Pattern
  BY MatrixAssumption DEF SharesWith
<1>2. has(p) \subseteq Holds[p] \X Holds[p] /\ has(q) \subseteq Holds[q] \X Holds[q]
  BY <1>1, MatrixAssumption
<1>3. \A e \in has(p) : e \in Part(t, q, p) <=> e \in has(q)
  BY <1>2 DEF Part, Shared
<1>4. /\ DOMAIN a = has(p) /\ DOMAIN u = Part(t, q, p)
      /\ \A e \in Part(t, q, p) : u[e] = [r \in Rank |-> IF r = q THEN 1 ELSE 0]
      /\ \A e \in has(p) : a[e] = [r \in Rank |-> IF r \in S /\ e \in has(r) THEN 1 ELSE 0]
  <2>1. u = [e \in Part(t, q, p) |-> [r \in Rank |-> IF r = q THEN 1 ELSE 0]]
    BY DEF Told
  <2>2. a = [e \in has(p) |-> [r \in Rank |-> IF r \in S /\ e \in has(r) THEN 1 ELSE 0]]
    BY DEF AddedUp
  <2>3. /\ DOMAIN u = Part(t, q, p)
        /\ \A e \in Part(t, q, p) : u[e] = [r \in Rank |-> IF r = q THEN 1 ELSE 0]
    BY <2>1, Zenon
  <2>4. /\ DOMAIN a = has(p)
        /\ \A e \in has(p) : a[e] = [r \in Rank |-> IF r \in S /\ e \in has(r) THEN 1 ELSE 0]
    BY <2>2, Zenon
  <2> QED
    BY <2>3, <2>4
<1> HIDE DEF a, u, has
<1>5. ASSUME NEW e \in has(p)
      PROVE  (IF e \in DOMAIN u THEN AddTo(a[e], u[e]) ELSE a[e])
             = [r \in Rank |-> IF r \in S \cup {q} /\ e \in has(r) THEN 1 ELSE 0]
  <2>1. CASE e \in has(q)
    <3>1. e \in DOMAIN u
      BY <1>3, <1>4, <2>1
    <3>2. ASSUME NEW r \in Rank
          PROVE  a[e][r] + u[e][r] = IF r \in S \cup {q} /\ e \in has(r) THEN 1 ELSE 0
      <4>1. u[e][r] = IF r = q THEN 1 ELSE 0
        BY <1>4, <3>1
      <4>2. a[e][r] = IF r \in S /\ e \in has(r) THEN 1 ELSE 0
        BY <1>4
      <4>3. CASE r = q
        BY <2>1, <4>1, <4>2, <4>3
      <4>4. CASE r # q
        BY <4>1, <4>2, <4>4
      <4> QED
        BY <4>3, <4>4
    <3> QED
      BY <3>1, <3>2 DEF AddTo
  <2>2. CASE e \notin has(q)
    <3>1. e \notin DOMAIN u
      BY <1>3, <1>4, <2>2
    <3> QED
      BY <1>4, <2>2, <3>1
  <2> QED
    BY <2>1, <2>2
<1>6. ScatterAxpy(a, u) = [e \in has(p) |-> IF e \in DOMAIN u THEN AddTo(a[e], u[e]) ELSE a[e]]
  BY <1>4 DEF ScatterAxpy
<1>7. ScatterAxpy(a, u) = [e \in has(p) |-> [r \in Rank |-> IF r \in S \cup {q} /\ e \in has(r) THEN 1 ELSE 0]]
  BY <1>5, <1>6
<1> QED
  BY <1>7 DEF a, u, has, AddedUp

IsBuffer(b) ==
  b = [rows |-> b.rows, used |-> b.used, row_ptr |-> b.row_ptr, col_ind |-> b.col_ind]

\* A message sets what its round is about.
LEMMA ReceivedSets ==
  ASSUME NEW p, NEW i, NEW b, IsBuffer(b), NEW c, at[p] \in 1 .. 4, NEW n, n = Received(p, i, b, c)
  PROVE  /\ IsBuffer(n)
         /\ at[p] = 1 => n.rows = c.rows /\ n.used = c.used
         /\ at[p] # 1 => n.rows = b.rows /\ n.used = b.used
         /\ n.row_ptr = IF at[p] = 2 THEN c ELSE b.row_ptr
         /\ n.col_ind = IF at[p] = 3 THEN c ELSE b.col_ind
<1>1. PICK ro, us, rp, co : b = [rows |-> ro, used |-> us, row_ptr |-> rp, col_ind |-> co]
  BY DEF IsBuffer
<1>2. CASE at[p] = 1
  <2>1. n = [b EXCEPT !.rows = c.rows, !.used = c.used]
    BY <1>2 DEF Received
  <2>2. n = [rows |-> c.rows, used |-> c.used, row_ptr |-> rp, col_ind |-> co]
    BY <1>1, <2>1
  <2> QED
    BY <1>1, <1>2, <2>2 DEF IsBuffer
<1>3. CASE at[p] = 2
  BY <1>1, <1>3 DEF Received, IsBuffer
<1>4. CASE at[p] = 3
  BY <1>1, <1>4 DEF Received, IsBuffer
<1>5. CASE at[p] = 4
  BY <1>1, <1>5 DEF Received, IsBuffer
<1> QED
  BY <1>2, <1>3, <1>4, <1>5

LEMMA TakeWhole ==
  ASSUME Inv, Inv', Whole, NEW p \in Rank, NEW i \in All(p), Take(p, i)
  PROVE  Whole'
<1> DEFINE q == Neighbours[p][i]
           content == Head(chan[q][p]).content
<1>1. /\ i \in recvs[p] /\ chan[q][p] # <<>>
      /\ chan' = [chan EXCEPT ![q][p] = Tail(@)]
      /\ recvs' = [recvs EXCEPT ![p] = @ \ {i}]
      /\ buf' = [buf EXCEPT ![p][i] = Received(p, i, @, content)]
      /\ target' = IF at[p] = 4 THEN [target EXCEPT ![p] = ScatterAxpy(@, content)] ELSE target
      /\ at[p] = 4 => posted[p]
      /\ UNCHANGED <<begun, at, posted>>
  BY DEF Take, TakeFrom
<1>2. /\ q \in Rank /\ at[p] \in 1 .. 4 /\ content = Told(begun[p], at[p], q, p)
      /\ begun[p] \in DOMAIN Program /\ q \in SharesWith(p)
  <2>1. q \in Rank /\ at[p] \in 1 .. 4 /\ content = Told(begun[p], at[p], q, p)
    BY <1>1, TakesTold DEF Whole
  <2>2. begun[p] \in 1 .. Len(Program)
    BY <2>1 DEF Inv, Phases, Whole, Frames
  <2>3. p \in SharesWith(q)
    BY NeighboursMeet
  <2> QED
    BY <2>1, <2>2, <2>3, MatrixAssumption DEF SharesWith
<1> HIDE DEF content
<1>3. /\ recvs'[p] = recvs[p] \ {i}
      /\ buf'[p] = [buf[p] EXCEPT ![i] = Received(p, i, buf[p][i], content)]
      /\ \A r \in Rank \ {p} : recvs'[r] = recvs[r] /\ buf'[r] = buf[r] /\ target'[r] = target[r]
      /\ target'[p] = IF at[p] = 4 THEN ScatterAxpy(target[p], content) ELSE target[p]
  BY <1>1 DEF Inv, Shape, Whole, Frames
<1>4. /\ DOMAIN buf[p] = All(p) /\ \A j \in All(p) : IsBuffer(buf[p][j])
      /\ buf'[p] = [j \in All(p) |-> IF j = i THEN Received(p, i, buf[p][i], content) ELSE buf[p][j]]
  <2>1. buf[p] = [j \in All(p) |-> [rows |-> buf[p][j].rows, used |-> buf[p][j].used,
                                    row_ptr |-> buf[p][j].row_ptr, col_ind |-> buf[p][j].col_ind]]
    BY <1>2 DEF Whole, Frames
  <2>2. DOMAIN buf[p] = All(p) /\ \A j \in All(p) : IsBuffer(buf[p][j])
    BY <2>1 DEF IsBuffer
  <2> QED
    BY <1>3, <2>2
<1>5. Frames'
  <2>1. target' = [r \in Rank |-> target'[r]] /\ buf' = [r \in Rank |-> buf'[r]]
    BY <1>1 DEF Whole, Frames
  <2>2. \A j \in All(p) : IsBuffer(buf'[p][j])
    BY <1>2, <1>4, ReceivedSets
  <2>3. buf'[p] = [j \in All(p) |-> [rows |-> buf'[p][j].rows, used |-> buf'[p][j].used,
                                     row_ptr |-> buf'[p][j].row_ptr, col_ind |-> buf'[p][j].col_ind]]
    BY <1>4, <2>2 DEF IsBuffer
  <2> QED
    BY <1>1, <1>3, <2>1, <2>3 DEF Whole, Frames, All
<1>6. Unsent'
  BY <1>1, <1>3 DEF Whole, Unsent, All
<1>7. Contents'
  <2>1. chan'[q][p] = Tail(chan[q][p])
        /\ \A r, t \in Rank : ~(r = q /\ t = p) => chan'[r][t] = chan[r][t]
    <3>1. PICK c : c = Tail(chan[q][p])
      OBVIOUS
    <3>2. chan' = [chan EXCEPT ![q][p] = c]
      BY <1>1, <3>1
    <3>3. chan'[q][p] = c /\ \A r, t \in Rank : ~(r = q /\ t = p) => chan'[r][t] = chan[r][t]
      BY <1>2, <3>2 DEF Inv, Shape
    <3> QED
      BY <3>1, <3>3
  <2> SUFFICES ASSUME NEW r \in Rank, NEW j \in All(r), NEW k \in 1 .. Len(chan'[Neighbours[r][j]][r])
               PROVE  LET m == chan'[Neighbours[r][j]][r][k]
                      IN  m.content = Told(m.id, m.round, Neighbours[r][j], r)
    BY DEF Contents, All, Told, Part, Shared
  <2>2. Neighbours[r][j] \in Rank
    BY NeighboursMeet
  <2>3. \A l \in 1 .. Len(chan[Neighbours[r][j]][r]) :
          LET m == chan[Neighbours[r][j]][r][l]
          IN  m.content = Told(m.id, m.round, Neighbours[r][j], r)
    BY DEF Whole, Contents
  <2>4. CASE Neighbours[r][j] = q /\ r = p
    <3>1. IsSeq(chan[q][p]) /\ chan[q][p] # <<>>
      BY <1>1, <1>2 DEF Inv, Shape
    <3> DEFINE c == chan[q][p]
               n == chan'[q][p]
    <3>2. n = Tail(c) /\ k \in 1 .. Len(n) /\ IsSeq(c) /\ c # <<>>
      BY <2>1, <2>4, <3>1
    <3>3. \A l \in 1 .. Len(c) : c[l].content = Told(c[l].id, c[l].round, q, p)
      BY <2>3, <2>4
    <3> HIDE DEF c, n
    <3>4. k + 1 \in 1 .. Len(c) /\ n[k] = c[k + 1]
      BY <3>2, SeqTailPlaces
    <3>5. n[k].content = Told(n[k].id, n[k].round, q, p)
      BY <3>3, <3>4
    <3> QED
      BY <2>4, <3>5 DEF n
  <2> QED
    BY <2>1, <2>2, <2>3, <2>4
<1>8. Sums'
  <2>1. SumsUp(p)'
    <3>1. target[p] = AddedUp(begun[p], p, Added(p))
      BY <1>2 DEF Whole, Sums, SumsUp
    <3>2. CASE at[p] = 4
      <4>1. q \notin Added(p)
        BY <1>1, <1>2, NeighboursMeet DEF Added, SharesWith
      <4>2. Added(p)' = Added(p) \cup {q}
        BY <1>1, <1>2, <1>3, <3>2 DEF Added, All
      <4>3. target'[p] = AddedUp(begun[p], p, Added(p) \cup {q})
        BY <1>2, <1>3, <3>1, <3>2, <4>1, OneMoreAdded
      <4> QED
        BY <1>1, <4>2, <4>3 DEF SumsUp, AddedUp
    <3>3. CASE at[p] # 4
      <4>1. Added(p)' = Added(p)
        BY <1>1, <3>3 DEF Added
      <4> QED
        BY <1>1, <1>3, <3>1, <3>3, <4>1 DEF SumsUp, AddedUp
    <3> QED
      BY <3>2, <3>3
  <2> QED
    BY <1>1, <1>3, <2>1, OthersStay DEF Sums
<1>9. Known'
  <2>1. ASSUME NEW j \in All(p) PROVE KnowsPart(p, j)'
    <3>1. KnowsPart(p, j)
      BY DEF Whole, Known
    <3>2. CASE j # i
      <4>1. buf'[p][j] = buf[p][j]
        BY <1>3, <3>2
      <4>2. \A round \in 1 .. 3 : Heard(p, j, round)' = Heard(p, j, round)
        BY <1>1, <1>3, <3>2 DEF Heard
      <4> QED
        BY <1>1, <3>1, <4>1, <4>2 DEF KnowsPart, Told, Part, Shared
    <3>3. CASE j = i
      <4> DEFINE b == buf[p][i]
                 n == buf'[p][i]
      <4>1. IsBuffer(b) /\ n = Received(p, i, b, content)
        BY <1>4
      <4> HIDE DEF b, n
      <4>2. /\ at[p] = 1 => n.rows = content.rows /\ n.used = content.used
            /\ at[p] # 1 => n.rows = b.rows /\ n.used = b.used
            /\ n.row_ptr = IF at[p] = 2 THEN content ELSE b.row_ptr
            /\ n.col_ind = IF at[p] = 3 THEN content ELSE b.col_ind
        BY <1>2, <4>1, ReceivedSets
      <4>3. \A round \in 1 .. 3 : Heard(p, i, round)' => Heard(p, i, round) \/ round = at[p]
        BY <1>1, <1>3 DEF Heard
      <4>4. /\ Heard(p, i, 1) => at[p] # 1 \/ i \notin recvs[p]
            /\ Heard(p, i, 1) => /\ b.rows = Told(begun[p], 1, q, p).rows
                                 /\ b.used = Told(begun[p], 1, q, p).used
            /\ Heard(p, i, 2) => b.row_ptr = Told(begun[p], 2, q, p)
            /\ Heard(p, i, 3) => b.col_ind = Told(begun[p], 3, q, p)
        BY <3>1, <3>3 DEF KnowsPart, Heard, b
      <4>5. /\ Heard(p, i, 1)' => /\ n.rows = Told(begun[p], 1, q, p).rows
                                  /\ n.used = Told(begun[p], 1, q, p).used
            /\ Heard(p, i, 2)' => n.row_ptr = Told(begun[p], 2, q, p)
            /\ Heard(p, i, 3)' => n.col_ind = Told(begun[p], 3, q, p)
        <5> HIDE DEF q
        <5> QED
          BY <1>1, <1>2, <4>2, <4>3, <4>4
      <4> QED
        BY <1>1, <3>3, <4>5 DEF KnowsPart, Told, Part, Shared, n
    <3> QED
      BY <3>2, <3>3
  <2> QED
    BY <1>1, <1>3, <2>1, OthersStay DEF Known, All
<1> QED
  BY <1>5, <1>6, <1>7, <1>8, <1>9 DEF Whole

LEMMA NextWhole == ASSUME Inv, Inv', Whole, [Next]_vars PROVE Whole'
<1>1. CASE Next
  BY <1>1, StartWhole, PostSendsWhole, TakeWhole, PostReceivesWhole, ReturnWhole DEF Next, Step
<1>2. CASE UNCHANGED vars
  <2>1. UNCHANGED <<begun, at, posted, recvs, buf, target, chan>>
    BY <1>2 DEF vars
  <2>2. Frames' /\ Unsent' /\ Contents'
    BY <2>1 DEF Whole, Frames, Unsent, Contents, All
  <2>3. Sums' /\ Known'
    BY <2>1, OthersStay DEF Sums, Known, All
  <2> QED
    BY <2>2, <2>3 DEF Whole
<1> QED
  BY <1>1, <1>2

LEMMA WholeAlways == Spec => []Whole
<1>1. Init => Whole
  BY InitWhole
<1>2. Inv /\ Inv' /\ Whole /\ [Next]_vars => Whole'
  BY NextWhole
<1> QED
  BY <1>1, <1>2, InvAlways, PTL DEF Spec

----------------------------------------------------------------------------
\* What a message of a later round has is what the rounds before have told.
LEMMA InvRightPlaces == ASSUME Inv, Whole PROVE RightPlaces
<1> SUFFICES ASSUME NEW p \in Rank, NEW i \in recvs[p], chan[Neighbours[p][i]][p] # <<>>
             PROVE  LET content == Head(chan[Neighbours[p][i]][p]).content
                        known == buf[p][i]
                    IN  /\ at[p] = 2 => Cardinality(DOMAIN content) = known.rows
                        /\ at[p] = 3 =>
                             /\ Cardinality(content) = known.used
                             /\ \A d \in DOMAIN known.row_ptr :
                                  known.row_ptr[d] = Cardinality({e \in content : e[1] = d})
                        /\ at[p] = 4 => DOMAIN content = known.col_ind
  BY DEF RightPlaces
<1> DEFINE q == Neighbours[p][i]
           t == begun[p]
           content == Head(chan[q][p]).content
<1>1. i \in All(p) /\ q \in Rank /\ content = Told(t, at[p], q, p)
  BY TakesTold DEF Whole
<1>2. KnowsPart(p, i)
  BY <1>1 DEF Whole, Known
<1> HIDE DEF content
<1>3. CASE at[p] = 2
  BY <1>1, <1>2, <1>3 DEF KnowsPart, Heard, Told, content
<1>4. CASE at[p] = 3
  <2>1. content = Part(t, q, p)
    BY <1>1, <1>4 DEF Told
  <2>2. /\ buf[p][i].used = Cardinality(Part(t, q, p))
        /\ buf[p][i].row_ptr = [d \in Shared(q, p) |-> Cardinality({e \in Part(t, q, p) : e[1] = d})]
    BY <1>2, <1>4 DEF KnowsPart, Heard, Told
  <2>3. \A d \in DOMAIN buf[p][i].row_ptr :
          buf[p][i].row_ptr[d] = Cardinality({e \in content : e[1] = d})
    BY <2>1, <2>2
  <2>4. Cardinality(content) = buf[p][i].used
    BY <2>1, <2>2
  <2> QED
    BY <1>4, <2>3, <2>4 DEF content
<1>5. CASE at[p] = 4
  <2>1. DOMAIN content = Part(t, q, p)
    BY <1>1, <1>5 DEF Told
  <2>2. buf[p][i].col_ind = Part(t, q, p)
    BY <1>2, <1>5 DEF KnowsPart, Heard, Told
  <2> QED
    BY <1>5, <2>1, <2>2 DEF content
<1> QED
  BY <1>3, <1>4, <1>5 DEF content

\* RightPlaces: the receive of a round has the room, and its values the places, that the
\* rounds before have told, whatever the patterns of the two processes are.
THEOREM ReceivesHaveRoom == Spec => []RightPlaces
<1>1. Inv /\ Whole => RightPlaces
  BY InvRightPlaces
<1> QED
  BY <1>1, InvAlways, WholeAlways, PTL

----------------------------------------------------------------------------
(* A conversion implements the promise.                                    *)

\* What the promise sees of a process' matrix.
Result == [p \in Rank |-> IF at[p] # 0 THEN {} ELSE {target[p]}]

LEMMA PromiseStart ==
  ASSUME Init
  PROVE  Promise!Init
BY DEF Init, Promise!Init

\* A step that neither begins nor ends a conversion is not seen.
LEMMA NotSeen ==
  ASSUME begun' = begun,
         \A p \in Rank : (at'[p] = 0 <=> at[p] = 0) /\ (at[p] = 0 => target'[p] = target[p])
  PROVE  UNCHANGED Promise!vars
<1>1. Result' = Result
  BY DEF Result
<1> QED
  BY <1>1 DEF Promise!vars, Result

\* A step of one process changes its own result only.
LEMMA OneResult ==
  ASSUME NEW p \in Rank, NEW v, v = (IF at'[p] # 0 THEN {} ELSE {target'[p]}),
         \A q \in Rank \ {p} : at'[q] = at[q] /\ target'[q] = target[q]
  PROVE  Result' = [Result EXCEPT ![p] = v]
<1>1. ASSUME NEW q \in Rank \ {p}
      PROVE  (IF at'[q] # 0 THEN {} ELSE {target'[q]}) = Result[q]
  BY DEF Result
<1>2. Result' = [q \in Rank |-> IF at'[q] # 0 THEN {} ELSE {target'[q]}] /\ DOMAIN Result = Rank
  BY DEF Result
<1> QED
  BY <1>1, <1>2

\* A process takes a matrix.
LEMMA StartSeen ==
  ASSUME Inv, Whole, NEW p \in Rank, Start(p)
  PROVE  Promise!Enter(p)
<1>1. /\ at[p] = 0 /\ begun[p] < Len(Program) /\ begun' = [begun EXCEPT ![p] = @ + 1]
      /\ at'[p] = 1
      /\ \A q \in Rank \ {p} : at'[q] = at[q] /\ target'[q] = target[q]
  BY DEF Start, Inv, Shape, Whole, Frames
<1>2. Result' = [Result EXCEPT ![p] = {}] /\ Result[p] # {}
  <2>1. PICK v : v = (IF at'[p] # 0 THEN {} ELSE {target'[p]})
    OBVIOUS
  <2>2. Result' = [Result EXCEPT ![p] = v]
    BY <1>1, <2>1, OneResult
  <2>3. v = {}
    BY <1>1, <2>1
  <2>4. Result[p] = {target[p]}
    BY <1>1 DEF Result
  <2> QED
    BY <2>2, <2>3, <2>4
<1> QED
  BY <1>1, <1>2 DEF Promise!Enter, Promise!Waits, Result

\* All neighbours have sent their values when a process leaves, and the values of all
\* are in its matrix.
LEMMA ReturnSeen ==
  ASSUME Inv, Whole, NEW p \in Rank, Return(p)
  PROVE  Promise!Leave(p)
<1> DEFINE t == begun[p]
<1>1. /\ at[p] = 4 /\ posted[p] /\ recvs[p] = {} /\ at'[p] = 0
      /\ \A q \in Rank \ {p} : at'[q] = at[q]
      /\ UNCHANGED <<begun, target>>
  BY DEF Return, Inv, Shape
<1>2. \A q \in SharesWith(p) : begun[q] >= t
  <2> TAKE q \in SharesWith(p)
  <2>1. PICK i \in All(p) : Neighbours[p][i] = q
    BY NeighboursMeet
  <2>2. Len(chan[q][p]) = Sent(q) - Taken(p, i) /\ q \in Rank
    BY <2>1, NeighboursMeet DEF Inv, InOrder
  <2>3. Len(chan[q][p]) \in Nat
    BY <2>2, SeqLength DEF Inv, Shape
  <2>4. Taken(p, i) = 4 * t /\ t \in Nat
    BY <1>1 DEF Taken, Inv, Shape
  <2>5. Sent(q) \in Int /\ Sent(q) <= 4 * begun[q] /\ begun[q] \in Nat
    BY <2>2 DEF Sent, Inv, Shape
  <2> QED
    BY <2>2, <2>3, <2>4, <2>5
<1>3. Outcome(t, p) = {target[p]}
  <2>1. Added(p) = {p} \cup SharesWith(p)
    BY <1>1, NeighboursMeet DEF Added, SharesWith
  <2>2. target[p] = AddedUp(t, p, {p} \cup SharesWith(p))
    BY <1>1, <2>1 DEF Whole, Sums, SumsUp
  <2>3. t \in 1 .. Len(Program)
    BY <1>1 DEF Inv, Phases, Whole, Frames
  <2>4. Program[t] \in DOMAIN Pattern
    BY <2>3, MatrixAssumption
  <2>5. \A e \in Pattern[Program[t]][p], r \in Rank :
          e \in Pattern[Program[t]][r] => r \in {p} \cup SharesWith(p)
    <3> TAKE e \in Pattern[Program[t]][p], r \in Rank
    <3>1. e \in Holds[p] \X Holds[p]
      BY <2>4, MatrixAssumption
    <3>2. e \in Pattern[Program[t]][r] => e \in Holds[r] \X Holds[r]
      BY <2>4, MatrixAssumption
    <3> QED
      BY <3>1, <3>2 DEF SharesWith
  <2> QED
    BY <2>2, <2>5 DEF AddedUp, Outcome
<1>4. Result' = [Result EXCEPT ![p] = Outcome(t, p)] /\ Result[p] = {}
  <2>1. PICK v : v = (IF at'[p] # 0 THEN {} ELSE {target'[p]})
    OBVIOUS
  <2>2. Result' = [Result EXCEPT ![p] = v] /\ v = {target[p]}
    BY <1>1, <2>1, OneResult
  <2> QED
    BY <1>1, <1>3, <2>2 DEF Result
<1> QED
  BY <1>1, <1>2, <1>4 DEF Promise!Leave, Promise!Waits, Result

LEMMA StepSeen ==
  ASSUME Inv, Whole, [Next]_vars
  PROVE  [Promise!Next]_(Promise!vars)
<1>1. ASSUME NEW p \in Rank, Step(p)
      PROVE  Promise!Next \/ UNCHANGED Promise!vars
  <2>1. CASE Start(p)
    BY <2>1, StartSeen DEF Promise!Next
  <2>2. CASE Return(p)
    BY <2>2, ReturnSeen DEF Promise!Next
  <2>3. CASE PostSends(p)
    BY <2>3, NotSeen DEF PostSends
  <2>4. CASE PostReceives(p)
    <3>1. begun' = begun /\ target' = target /\ \A q \in Rank : at'[q] = 0 <=> at[q] = 0
      BY <2>4 DEF PostReceives, Inv, Shape
    <3> QED
      BY <3>1, NotSeen
  <2>5. ASSUME NEW i \in All(p), Take(p, i)
        PROVE  UNCHANGED Promise!vars
    <3>1. at[p] # 0 /\ UNCHANGED <<begun, at>>
      BY <2>5 DEF Take, TakeFrom, Inv, Phases
    <3>2. \A q \in Rank \ {p} : target'[q] = target[q]
      BY <2>5 DEF Take, TakeFrom, Whole, Frames
    <3> QED
      BY <3>1, <3>2, NotSeen
  <2> QED
    BY <1>1, <2>1, <2>2, <2>3, <2>4, <2>5 DEF Step
<1>2. CASE UNCHANGED vars
  BY <1>2, NotSeen DEF vars
<1> QED
  BY <1>1, <1>2 DEF Next

\* In whatever order messages come, and whether MPI has room for them or not, a process
\* gets the sum over all processes of the entries of its own pattern, and not before its
\* neighbours have begun the same conversion.
THEOREM ConversionsKeepPromise == Spec => ImplementsPromise
<1>1. Init => Promise!Init
  BY PromiseStart
<1>2. Inv /\ Whole /\ [Next]_vars => [Promise!Next]_(Promise!vars)
  BY StepSeen
<1> QED
  BY <1>1, <1>2, InvAlways, WholeAlways, PTL DEF Spec, ImplementsPromise, Promise!Spec
=============================================================================
