---------------------------- MODULE SynchScalar -----------------------------
(***************************************************************************)
(* Tickets of asynchronous global operations on scalars.  With             *)
(* FEAT_MPI_THREAD_MULTIPLE each ticket has a thread of its own, which     *)
(* calls iallreduce and waits for it; the constructor returns when the     *)
(* call was made, which a mutex, a flag and a condition variable tell it.  *)
(* Without, the constructor calls iallreduce and wait() waits.             *)
(*                                                                         *)
(* MPI matches the collective calls of the processes by their order on the *)
(* communicator: the k-th call of one with the k-th call of every other.   *)
(* The program is the same on all processes and makes the tickets 1 .. N   *)
(* in this order (the Krylov solvers have up to four in flight), but waits *)
(* for them in any order.                                                  *)
(***************************************************************************)
EXTENDS Communicator, Naturals, Sequences

CONSTANTS N,            \* number of tickets the program makes
          MaxSpurious,  \* bound: spurious wakeups of a process
          MayAbort      \* processes whose preconditioner may fail

ASSUME SynchScalarAssumption ==
  /\ N \in Nat
  /\ MaxSpurious \in Nat
  /\ MayAbort \subseteq Rank

Ticket == 1 .. N

VARIABLES threaded,  \* whether the program is built with FEAT_MPI_THREAD_MULTIPLE
          made,      \* number of tickets a process has begun to construct
          main,      \* what its main thread does, and for which ticket
          thread,    \* what the thread of a ticket does
          flag,      \* _flag_allreduce_called of a ticket
          mutex,     \* who holds _mutex of a ticket
          calls,     \* the collective calls of a process, in their order
          result,    \* _r: the contributions it was computed from, {} before
          finished,  \* _finished
          spurious,  \* number of spurious wakeups
          fault      \* of a process: "none", or "assert" after a failed assertion

scalars == <<threaded, made, main, thread, flag, mutex, calls, result, finished, spurious, fault>>

Idle == [at |-> "idle", ticket |-> 0]
At(step, t) == [at |-> step, ticket |-> t]

ScalarInit ==
  /\ threaded \in BOOLEAN
  /\ made = [p \in Rank |-> 0]
  /\ main = [p \in Rank |-> Idle]
  /\ thread = [p \in Rank |-> [t \in Ticket |-> "none"]]
  /\ flag = [p \in Rank |-> [t \in Ticket |-> FALSE]]
  /\ mutex = [p \in Rank |-> [t \in Ticket |-> "free"]]
  /\ calls = [p \in Rank |-> <<>>]
  /\ result = [p \in Rank |-> [t \in Ticket |-> {}]]
  /\ finished = [p \in Rank |-> [t \in Ticket |-> FALSE]]
  /\ spurious = [p \in Rank |-> 0]
  /\ fault = [p \in Rank |-> "none"]

----------------------------------------------------------------------------
(* MPI.                                                                    *)

IAllReduce(p, t) == calls' = [calls EXCEPT ![p] = Append(@, t)]

\* The operation that p's ticket t became part of is complete: all processes
\* have made their k-th call, and their values are reduced.
Complete(p, t) ==
  \E k \in DOMAIN calls[p] :
    /\ calls[p][k] = t
    /\ \A q \in Rank : k \in DOMAIN calls[q]
    /\ result' = [result EXCEPT ![p][t] = {<<q, calls[q][k]>> : q \in Rank}]

----------------------------------------------------------------------------
(* The constructor, in the main thread.                                    *)

\* Without threads it makes the call; with threads it starts one and goes on to
\* lock the mutex.
Construct(p) ==
  /\ fault[p] = "none" /\ main[p] = Idle /\ made[p] < N
  /\ made' = [made EXCEPT ![p] = @ + 1]
  /\ LET t == made[p] + 1
     IN  IF threaded
         THEN /\ thread' = [thread EXCEPT ![p][t] = "start"]
              /\ main' = [main EXCEPT ![p] = At("lock", t)]
              /\ UNCHANGED calls
         ELSE IAllReduce(p, t) /\ UNCHANGED <<thread, main>>
  /\ UNCHANGED <<threaded, flag, mutex, result, finished, spurious, fault>>

\* std::unique_lock<std::mutex> l(_mutex), or the return of wait(l, ...).
MainLock(p, t) ==
  /\ fault[p] = "none" /\ main[p] = At("lock", t)
  /\ mutex[p][t] = "free"
  /\ mutex' = [mutex EXCEPT ![p][t] = "main"]
  /\ main' = [main EXCEPT ![p] = At("test", t)]
  /\ UNCHANGED <<threaded, made, thread, flag, calls, result, finished, spurious, fault>>

\* Slip: a wait without predicate returns at the first wakeup, or right away.
MainTestAlways(p, t) ==
  /\ fault[p] = "none" /\ main[p] = At("test", t)
  /\ main' = [main EXCEPT ![p] = Idle]
  /\ mutex' = [mutex EXCEPT ![p][t] = "free"]
  /\ UNCHANGED <<threaded, made, thread, flag, calls, result, finished, spurious, fault>>

\* The predicate of the condition variable: return, or release the mutex and
\* sleep in one step.
MainTest(p, t) ==
  /\ fault[p] = "none" /\ main[p] = At("test", t)
  /\ main' = [main EXCEPT ![p] = IF flag[p][t] THEN Idle ELSE At("asleep", t)]
  /\ mutex' = [mutex EXCEPT ![p][t] = "free"]
  /\ UNCHANGED <<threaded, made, thread, flag, calls, result, finished, spurious, fault>>

SpuriousWakeup(p, t) ==
  /\ fault[p] = "none" /\ main[p] = At("asleep", t)
  /\ spurious[p] < MaxSpurious
  /\ spurious' = [spurious EXCEPT ![p] = @ + 1]
  /\ main' = [main EXCEPT ![p] = At("lock", t)]
  /\ UNCHANGED <<threaded, made, thread, flag, mutex, calls, result, finished, fault>>

----------------------------------------------------------------------------
(* The thread of a ticket, _wait_function.                                 *)

ThreadLock(p, t) ==
  /\ fault[p] = "none" /\ thread[p][t] = "start"
  /\ mutex[p][t] = "free"
  /\ mutex' = [mutex EXCEPT ![p][t] = "thread"]
  /\ thread' = [thread EXCEPT ![p][t] = "locked"]
  /\ UNCHANGED <<threaded, made, main, flag, calls, result, finished, spurious, fault>>

ThreadCall(p, t) ==
  /\ fault[p] = "none" /\ thread[p][t] = "locked"
  /\ IAllReduce(p, t)
  /\ thread' = [thread EXCEPT ![p][t] = "called"]
  /\ UNCHANGED <<threaded, made, main, flag, mutex, result, finished, spurious, fault>>

\* flag_allreduce_called = true; l.unlock();
ThreadUnlock(p, t) ==
  /\ fault[p] = "none" /\ thread[p][t] = "called"
  /\ flag' = [flag EXCEPT ![p][t] = TRUE]
  /\ mutex' = [mutex EXCEPT ![p][t] = "free"]
  /\ thread' = [thread EXCEPT ![p][t] = "unlocked"]
  /\ UNCHANGED <<threaded, made, main, calls, result, finished, spurious, fault>>

\* Slip: nobody is notified.
ThreadSilent(p, t) ==
  /\ fault[p] = "none" /\ thread[p][t] = "unlocked"
  /\ thread' = [thread EXCEPT ![p][t] = "waiting"]
  /\ UNCHANGED <<threaded, made, main, flag, mutex, calls, result, finished, spurious, fault>>

ThreadNotify(p, t) ==
  /\ fault[p] = "none" /\ thread[p][t] = "unlocked"
  /\ main' = [main EXCEPT ![p] = IF @ = At("asleep", t) THEN At("lock", t) ELSE @]
  /\ thread' = [thread EXCEPT ![p][t] = "waiting"]
  /\ UNCHANGED <<threaded, made, flag, mutex, calls, result, finished, spurious, fault>>

ThreadWait(p, t) ==
  /\ fault[p] = "none" /\ thread[p][t] = "waiting"
  /\ Complete(p, t)
  /\ thread' = [thread EXCEPT ![p][t] = "done"]
  /\ UNCHANGED <<threaded, made, main, flag, mutex, calls, finished, spurious, fault>>

----------------------------------------------------------------------------
(* wait() and the destructor.                                              *)

\* The program waits for a ticket it has made; its main thread blocks.
Wait(p, t) ==
  /\ fault[p] = "none" /\ main[p] = Idle
  /\ t <= made[p] /\ ~finished[p][t]
  /\ main' = [main EXCEPT ![p] = At("join", t)]
  /\ UNCHANGED <<threaded, made, thread, flag, mutex, calls, result, finished, spurious, fault>>

\* Slip: without threads, the request is not waited for.
WaitReturnsAtOnce(p, t) ==
  /\ fault[p] = "none" /\ main[p] = At("join", t)
  /\ threaded => thread[p][t] = "done"
  /\ main' = [main EXCEPT ![p] = Idle]
  /\ finished' = [finished EXCEPT ![p][t] = TRUE]
  /\ UNCHANGED <<threaded, made, thread, flag, mutex, calls, result, spurious, fault>>

\* The thread has ended, or the request is complete.
WaitReturns(p, t) ==
  /\ fault[p] = "none" /\ main[p] = At("join", t)
  /\ IF threaded THEN thread[p][t] = "done" /\ UNCHANGED result ELSE Complete(p, t)
  /\ main' = [main EXCEPT ![p] = Idle]
  /\ finished' = [finished EXCEPT ![p][t] = TRUE]
  /\ UNCHANGED <<threaded, made, thread, flag, mutex, calls, spurious, fault>>

\* RBiCGStab, PipePCG and GroppPCG return Status::aborted when the preconditioner
\* fails between making a ticket and waiting for it: the destructor of the
\* ticket asserts that it is finished, which ends the process with all its threads.
\* Others go on until MPI_Abort has reached them; calls that were made stay made.
Abort(p) ==
  /\ fault[p] = "none" /\ main[p] = Idle /\ p \in MayAbort
  /\ \E t \in Ticket : t <= made[p] /\ ~finished[p][t]
  /\ fault' = [fault EXCEPT ![p] = "assert"]
  /\ UNCHANGED <<threaded, made, main, thread, flag, mutex, calls, result, finished, spurious>>

----------------------------------------------------------------------------
MainStep(p, t) == MainLock(p, t) \/ MainTest(p, t) \/ WaitReturns(p, t)

ThreadStep(p, t) ==
  \/ ThreadLock(p, t) \/ ThreadCall(p, t) \/ ThreadUnlock(p, t)
  \/ ThreadNotify(p, t) \/ ThreadWait(p, t)

ScalarNext ==
  \E p \in Rank :
    \/ Construct(p) \/ Abort(p)
    \/ \E t \in Ticket : MainStep(p, t) \/ ThreadStep(p, t) \/ Wait(p, t) \/ SpuriousWakeup(p, t)

ScalarSpec == ScalarInit /\ [][ScalarNext]_scalars

\* Threads that can run do run, and the program makes its tickets and waits for
\* all of them.  Nothing makes spurious wakeups or failing preconditioners
\* happen.
Fairness ==
  \A p \in Rank :
    /\ WF_scalars(Construct(p) \/ \E t \in Ticket : MainStep(p, t) \/ Wait(p, t))
    /\ \A t \in Ticket : WF_scalars(ThreadStep(p, t))

ScalarFairSpec == ScalarSpec /\ Fairness

----------------------------------------------------------------------------
(* Properties.                                                             *)

TypeOK ==
  /\ threaded \in BOOLEAN
  /\ made \in [Rank -> 0 .. N]
  /\ main \in [Rank -> [at : {"idle", "lock", "test", "asleep", "join"}, ticket : 0 .. N]]
  /\ thread \in [Rank -> [Ticket -> {"none", "start", "locked", "called",
                                     "unlocked", "waiting", "done"}]]
  /\ flag \in [Rank -> [Ticket -> BOOLEAN]]
  /\ mutex \in [Rank -> [Ticket -> {"free", "main", "thread"}]]
  /\ calls \in [Rank -> Seq(Ticket)]
  /\ result \in [Rank -> [Ticket -> SUBSET (Rank \X Ticket)]]
  /\ finished \in [Rank -> [Ticket -> BOOLEAN]]
  /\ spurious \in [Rank -> 0 .. MaxSpurious]
  /\ fault \in [Rank -> {"none", "assert"}]

\* What wait() returns is reduced from the values that all processes gave to
\* this ticket, and not to another one that was in flight.
RightResult ==
  \A p \in Rank, t \in Ticket : finished[p][t] => result[p][t] = Rank \X {t}

\* When the constructor has returned, the collective call has been made: the
\* next one, of any kind, comes after it.
ConstructorHasCalled ==
  \A p \in Rank : main[p] = Idle => \A t \in 1 .. made[p] : \E k \in DOMAIN calls[p] : calls[p][k] = t

\* The destructor finds its ticket finished.
NoFailedAssertion == \A p \in Rank : fault[p] = "none"

\* No wakeup is lost and no process waits for ever: every ticket gets finished,
\* unless a process is killed by its own assertion, and MPI kills the others.
AllFinish ==
  <>(\/ \E p \in Rank : fault[p] = "assert"
     \/ \A p \in Rank, t \in Ticket : finished[p][t])

\* The tickets for which a process has made its collective call.
Joined == [p \in Rank |-> {t \in Ticket : \E k \in DOMAIN calls[p] : calls[p][k] = t}]

Reductions == INSTANCE Reduction WITH joined <- Joined

\* The tickets implement the promise, in whatever order threads take their
\* steps: each process joins a ticket once, and no result is delivered before
\* everybody has joined.
ImplementsReduction == Reductions!Spec

----------------------------------------------------------------------------
(* The inductive invariant behind RightResult and the refinement.          *)

\* The thread of p's newest ticket has not made its call yet.
Pending(p) == made[p] > 0 /\ thread[p][made[p]] \in {"start", "locked"}

\* The calls of a process are those of its tickets, in the order in which they
\* were made, and only the newest may be missing.
CallsInOrder ==
  \A p \in Rank :
    /\ Len(calls[p]) = IF Pending(p) THEN made[p] - 1 ELSE made[p]
    /\ \A k \in DOMAIN calls[p] : calls[p][k] = k

\* Then the main thread is still in its constructor.
ThreadsOfTickets ==
  \A p \in Rank, t \in Ticket :
    /\ thread[p][t] \in {"start", "locked"} =>
         t = made[p] /\ main[p].at \in {"lock", "test", "asleep"} /\ ~flag[p][t]
    /\ thread[p][t] # "none" => t <= made[p] /\ threaded
    /\ flag[p][t] => t <= made[p]

MainInOrder ==
  \A p \in Rank :
    /\ main[p].at \in {"lock", "test", "asleep"} => main[p].ticket = made[p] /\ made[p] > 0
    /\ main[p].at = "join" =>
         main[p].ticket \in Ticket /\ ~finished[p][main[p].ticket]
    /\ main[p].at = "idle" => main[p] = Idle

ResultsComplete ==
  \A p \in Rank, t \in Ticket :
    /\ result[p][t] \in {{}, Rank \X {t}}
    /\ thread[p][t] = "done" => result[p][t] = Rank \X {t}
    /\ finished[p][t] => result[p][t] = Rank \X {t}
    /\ result[p][t] # {} => IF threaded THEN thread[p][t] = "done" ELSE finished[p][t]

TicketsInOrder ==
  TypeOK /\ CallsInOrder /\ ThreadsOfTickets /\ MainInOrder /\ ResultsComplete
=============================================================================
