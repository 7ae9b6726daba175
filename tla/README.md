# A verification project for FEAT3

FEAT3 is a C++ toolbox for finite elements and multigrid solvers on parallel
computers. What can go wrong in it without a wrong number in any single formula
is *shared and distributed state*: arrays that several containers share by
reference counts, vectors that several processes hold parts of, collective
operations that have to be called by all processes in one order, and solver loops
that have to be in the same place on every process. This directory models that
core in TLA+, checks it with TLC, and proves parts of it with TLAPS.

## 1. Inventory

| Part (source) | State | Operations | Talks to | What is hard |
|---|---|---|---|---|
| Memory pool `kernel/util/memory_pool.hpp` | counter per address | allocate, increase, release, finalise | containers | balance of counts over long call sequences, null pointers |
| Containers `kernel/lafem/container.hpp`, `dense_vector.hpp`, `sparse_matrix_csr.hpp`, `sparse_layout.hpp` | lists of arrays, `_foreign_memory` | construct, range, wrap, clone (5 modes), assign/convert, move, clear, layouts | pool, each other (aliases) | who owns an array, aliasing, conversions, self-assignment |
| Scalar tickets `kernel/global/synch_scal.hpp` | result, flag, mutex, thread or request | construct (starts an all-reduce), wait, destruct | MPI, one thread per ticket | threads against the constructor, order of collective calls, early returns of solvers |
| Vector tickets `kernel/global/synch_vec.hpp` | buffers, requests | construct (posts receives and sends), wait, destruct | MPI, mirrors | order of messages, buffers in use, deadlock |
| Gates `kernel/global/gate.hpp` | neighbours, mirrors, frequencies | push, compile, sync_0, sync_1, dot, sum | tickets | entries shared by three or more, processes without neighbours, overlap of operations |
| Matrix tickets `kernel/global/synch_mat.hpp` | layouts, buffers | init (layouts), exec (values) | MPI | two phases, two collective exchanges |
| Muxer, transfer `kernel/global/muxer.hpp`, `transfer.hpp` | sibling communicator, buffers | join, split, rest, prol, trunc and their ghost halves | MPI, multigrid | a parent and its ghosts must call the matching halves |
| Multigrid `kernel/solver/multigrid.hpp` | vectors per level, counters | apply (V, F, W), init and done | transfer, smoothers, coarse solver | loops instead of recursion, stale defects, processes with fewer levels |
| Iterative solvers `kernel/solver/iterative.hpp` | iteration counts, defects | apply, correct, stopping criteria | preconditioner | order of updates, stagnation, skipped defects |
| Message passing `kernel/util/dist.*` | request arrays | wait/test any/some/all, compress | MPI | inactive requests |
| Checkpoints `control/checkpoint_control.hpp`, `kernel/util/dist_file_io.*` | registered objects, files | save, load, restore | files of all processes | offsets, two files written one after the other |
| Domain control `control/domain/` | layers, levels, patches | partition, build hierarchy | meshes, MPI | consistency of levels over processes |
| Entry numbering `kernel/global/alg_dof_parti.hpp` | owned entries, neighbours | assemble, upload, download | gates, MPI | unique owners |
| Adjacency `kernel/adjacency/` | graphs, colourings, permutations | render, colour, reorder | meshes, matrices | boundary cases of pure algorithms |
| Utilities `kernel/util/` | queues, property trees, scanners | insert/update/delete, parse | everything | heap order after updates, nesting |

Everything else (geometry, spaces, assembly, cubature, kernels, other solvers,
applications, tools, build system) is arithmetic, file formats or glue; it is
listed in `PROJECT.json` with the reason for leaving it out.

How the parts work together: a *container* owns arrays in the *pool*. A *gate* knows
which entries of a process' vectors other processes hold as well; it makes *vector
tickets* to add up contributions and *scalar tickets* (or blocking all-reduces) for dot
products. The *multigrid* calls products and smoothers, each of which synchronises
by gates, and moves between levels by *transfers*; where fewer processes work on the
coarser level, the transfer goes through a *muxer*, whose ghosts send to a parent
process and take no part in coarser levels. The loops of *iterative solvers* call products
and reductions on all processes; *matrix tickets* add up matrices as vector tickets do vectors;
the *entry numbering* is built from a gate for solvers of other libraries. *Adjacency* makes the
sparsity patterns of matrices, and the permutations and colourings that they are worked on in.
*Checkpoints* write what containers hold, process by process.

## 2. Modules

| Module | Models | State |
|---|---|---|
| `MemoryPool` | the pool as a function from addresses to counters; allocate, increase, release | none (operators) |
| `Container` | containers and layouts over a pool; every operation that moves pointers | `live`, `arrays`, `foreign`, `pool`, `heap`, `fault`; `origin` is history (whose arrays a range points into) |
| `SharedArrays` | what containers promise: objects that share garbage-collected cells | `ref`, `val` |
| `Reduction` | what scalar tickets promise | results of tickets |
| `SynchScalar` | tickets: MPI's all-reduce, constructor, thread, wait, early return | per ticket: flag, mutex, thread position, request; per process: position |
| `SynchVector` | one exchange of a vector ticket | `ticket`, `target`, `chan` |
| `Gate` | gates, their construction and operations, as a program of all processes | `SynchVector`'s, `ranks`, `freqs`, `begun`, `summing` |
| `NeighbourSum` | what gates, matrix tickets and the entry numbering promise: an operation gives the sum over all who share, and not before they have begun it | |
| `SynchMatrix` | `SynchMatrix` and `convert_to_1`: three rounds of structure and one of values, for one matrix after the other | `eager`, `begun`, `at`, `posted`, `recvs`, `buf`, `target`, `chan` |
| `AlgDofParti` | owners, numbering, upload and download of matrix and vector, filter, allgather, and the life cycle of `ADPSolverBase` | `adp`, `bufs`, `matrix` and vectors; `begun`, `at`, `posted`, `recvs`, `given`, `chan` |
| `LevelOperators` | what a level does with vectors | none (operators) |
| `MultiGrid` | V-, F- and W-cycle of all processes | `todo` (control), `rhs`, `sol`, `def`, `counters`, `cgs`, messages of the muxer |
| `MultiGridCycle` | the cycles as a recursive function of the level | |
| `StoppingRule` | what an iterative solver promises: its verdict is a function of the norms it has seen | `cfg`, `seen`, `verdict` |
| `IterativeSolver` | the control all iterative solvers inherit | none (operators) |
| `SolverLoops` | the loops of Richardson, PCG and BiCGStab on all processes | `cfg`, `solves`, `ctl`, `at`, `val`, `pos`, `trail`, `res`; `seen` is history |
| `CheckpointStore` | what checkpoints promise: what was put away in full is found again | |
| `Checkpoint` | registered objects, ordered files, their sizes, streams, jobs that fail | `size`, `object`, `registered`, `input`, `offset`, `stream`, `job`, `data`, `sizes`; `saved`, `streamed`, `provenance` are history |
| `Communicator` | the processes that tickets of all kinds run on | none |
| `Selection` | loops that pick entries of a list | none (operators) |
| `NodeArrays`, `GraphRender`, `PermutationArrays` | nodes; rendering of graphs; permutations by exchanges | none (operators) |
| `CuthillMcKee` | numbering level by level | graph, options, `permutation`, `swap_pos`, `node_mask`, `lvl1`, `lvl2`, `lvl3`, `lvl_root`, `pc` |
| `Colouring` | both constructors and the partition graph | graph, order, `colouring`, `num_colours`, `col_num`, `next` |
| `Reordering` | a program that assembles a pattern, numbers, permutes and colours it | `CuthillMcKee`'s, `Colouring`'s, `dof_graph`, `matrix`, `vector`, `phase` |
| `StorageProofs`, `TicketProofs`, `GateProofs`, `AlgDofPartiProofs`, `SolverProofs`, `MultiGridProofs`, `ReorderingProofs`, `DataLemmas` | theorems (section 4) | |

A module `MCx` instantiates module `x` for TLC. Operators
whose comment begins with `Slip:` are plausible mistakes. No specification uses them:
each shows that some property would notice the mistake (`PROJECT.json`, `mutants`).

### Containers

A pointer is the start of an array, an address inside of it (ranges), null (an array
of length zero) or absent. An array has one content: to tell aliases from copies it is
enough to know which value was written last. `Slot` names the arrays of a container
(`elements`, `col_ind`, `row_ptr`), and `DataType`/`IndexType` give each object its types,
so that assign and clone know what to share and what to convert. Actions correspond to
member functions one by one; `Adopt`, `Discard` and `HandOver` are the code they share.
`assign` and `move` release their target's arrays without a look at `_foreign_memory`, as
the code does; `clear`, `clone` and the destructor go by the flag.

Two things about callers are assumed. A range is used "carefully" (as its constructor's
comment asks): while there is one, the vector it was cut from keeps its arrays.
And some *delicate* calls are made only if `Permit` names them, since the code
does not survive them: a range as target or source of assign (`range_target`, `range_source`), assign to itself
(`self_assign`), a layout moved over another (`layout_over`). The run makes none of them, and
none of its arrays is empty; section 6 says what a run with them (or with `EmptyShapes`) shows.

### Scalar tickets

Each ticket reduces the values that processes give to it; MPI matches the collective
calls of processes by their order. With `FEAT_MPI_THREAD_MULTIPLE`, the constructor
starts a thread that takes the mutex, makes the call, sets the flag, unlocks, notifies
and waits for the request, while the constructor waits for the flag; each of these
is an action, and spurious wakeups are bounded by `MaxSpurious`. Without it, the constructor
makes the call; the initial state says which build it is (`threaded`). A preconditioner that fails makes
solvers return with tickets unfinished (`Abort`); processes of `MayAbort` may do so. The assertion of the destructor ends this
process with its threads (`fault` is a function of the process); the other processes go on, as they do until `MPI_Abort`
(runtime.cpp:78-129) reaches them, and can still finish tickets for which all have made their calls.

### Gates

Contributions are kept apart by process (an entry's value says how much of each
process' contribution is in it) and counted in `Unit`s, a multiple of all frequencies. Messages between two processes
are delivered in order and carry the operation they were sent for as history, which lets
`RightMatch` say that no message is taken for another one. All processes run the same
`Program` of operations, at their own pace. `wait` has to wait for its sends as well;
`SendsAreMatched` shows that a ticket whose receives are all done has no send that MPI
would not have matched, so waiting adds no dependency. `synch_vector` is the construction
of a ticket and a wait. The asynchronous variants cannot be
instantiated: `VectorTicketType` (gate.hpp:42) names a ticket of `std::vector<Mirror_>`, and
`sync_0_async` (187) makes one of `Mirror_`. Hence at most one ticket per process is open.

### Matrix tickets

`init` tells neighbours, in this order, the sizes of the buffer matrices, their row pointers and their column
indices; `exec` sends the values and `wait` adds up what comes. A process posts the receives of a round,
then its sends, takes what comes in any order (`Take`), and goes on when its sends are complete. Sizes must be
there before row pointers can be received, since they say how long they are; but a neighbour may be a round ahead,
with messages that carry the same tag. `eager` says whether MPI has
room for messages: if not, a send is complete only when the message is taken, and if the program relied on
room it would stop. A message carries its matrix and round as history. What a process is told is
kept with the pattern it describes, so that `RightPlaces` can say where the values go.

### Entry numbering

The program is a list of calls, the same on all processes: the life cycle of `ADPSolverBase`
(`init_symbolic`, `init_numeric`, upload and download of vectors, `done_*`), which builds `AlgDofParti`
and the matrix from the gate. The lowest rank that has a DOF owns it. The steps of a
call that communicate are actions; exscan and allreduce are taken when all have come to
them. Neighbours agree on the order of a mirror and not on the order of their DOFs, so an index that is used
on the wrong side becomes visible. Entries of matrix and vectors are the bag of local
entries that are added up in them: a value added twice, or left from the last upload,
is not the sum any more. An upload formats the matrix (`InitNumeric`), then assigns the entries that the process has locally
(`MyData`, `OwnUploaded`) and adds what donees send; entries that only donees have are cleared by nothing but the
format. `given` maps to the operations of `NeighbourSum`.

### Multigrid

All that the multigrid relies on is that its operators are linear. The model gives each process one entry per
level, and matrices, smoothers and transfers are factors modulo a prime: two
cycles that differ in one operation, in its order or in one stale operand end in different
numbers, and a textbook recursion (`MultiGridCycle`) says which is right. An element of `input` is a call of
apply with the cycle and the kind of correction that the program has set before it. `todo[p]` is the rest
of a process' control flow, with the loop indices of `_apply_rest` and `_apply_prol`.
Operations within a level synchronise all its processes and are one step, taken when all have come to it;
a process that comes to another operation than the rest would block them all (`AllFinish`).
Between levels, ghosts and parents exchange messages. `vec_cor` and `vec_tmp` are written before they are read in each
step, so they are no variables; timings and statistics are left out.

### Iterative solvers

`IterativeSolver` has the control: the initial defect, each new one, convergence, divergence, stagnation, the limits
of iterations, and when a norm need not be computed (`skip_def_calc`, `min_iter`, plotting). `SolverLoops` has the
loops around it. Between two calls that communicate, a process does everything in one step: `At` is the call
it has come to, `trail` the calls made so far by anybody, and `pos` how many of them a process has made. A reduction
gives the same to all, drawn once: norms from `Norm` or not a number, and for BiCGStab whether
its quotients are finite. A local solver of the Schwarz preconditioner may fail on the processes in `MayFail`; the code
then makes an allreduce of the status, so that all return. What vectors hold is left out, except
whether the defect vector belongs to the iterate (`DefectIsFresh`).

### Checkpoints

Files and buffers are sequences of cells (identifier with length, size, byte). `save` builds the buffer of
registered objects, collects sizes, and writes two files, the data and the sizes; each write is a step of the job, and
`JobFails` may stop it between any two or within one, when what was written is junk. `load` reads the sizes,
computes offsets and gives each process its piece; `restore` looks objects up by identifier. A later job may
have another number of processes. Compressed pieces are one cell, which only the library can open; streams are
kept by the process.

### Adjacency

A graph is the function from nodes to lists of nodes that its two arrays stand for. `Reordering` begins
with a mapping from cells to DOFs, renders its transpose and the composition of both, sorts it, and
makes a matrix of it whose entries have values of their own. `CuthillMcKee` takes the graph with any options and goes step by
step: a root, then a level, with array positions as in the code, which fails for some graphs (`NoRoot`). The permutation is applied to
matrix and vector by exchanges, and undone. `Colouring` is one step per node; an entry of an array that
the code leaves uninitialised is `Unset`.

## 3. Runs

| Run | Instance | Shows |
|---|---|---|
| `containers` | 4 containers of two data types, 2 layouts, 3 addresses, at most 4 objects at a time | counters, live memory, no fault (in the inductive invariant `FaultFree`), deep clones are independent, refinement of `SharedArrays` |
| `scalar_tickets` | 2 processes, 2 tickets each, with and without threads, one spurious wakeup each, one process may abort | calls in the order of the tickets and right results under all interleavings and orders of waits, also on the process that goes on; refinement of `Reduction`; no lost wakeup |
| `scalar_aborts` | 2 processes, 2 tickets, no threads, all may abort | a finding |
| `gates` | 4 processes, 3 of them in one point and the fourth at the end of a row; two gates, six operations | frequencies, matching, refinement of `NeighbourSum` (sums), no deadlock; one process has no neighbours in the second gate and runs ahead |
| `matrices` | 4 processes, 3 of them in one DOF; a stiffness and a mass matrix with different patterns; with and without room in MPI | sizes, places and values reach the receives meant for them, no request is used while it is active, refinement of `NeighbourSum`, no deadlock |
| `numbering` | 4 processes that meet in one DOF, 5 DOFs, nine calls: two uploads of the matrix, a solve, an allgather, and everything once more after `done` | one numbering, all contributions in the owner's row, entries of owners at donees, refinement of `NeighbourSum`, no deadlock |
| `grid_cycles` | 4 processes (4, 3, 2, 2 of them on 4 levels), one level without pre- and peak-smoother; three programs of V-, F- and W-cycles with fixed and adaptive corrections; the coarse solver may fail once | the loops are the recursion, also in the call after a failed one; current defects, binary counters; all processes finish |
| `solver_loops` | 3 processes in a row, two solves, nine settings of solver and control, norms 0, 4, 5 and not a number, the local solver may fail on either end | the n-th call is the same for all, one verdict, refinement of `StoppingRule`, all return |
| `bicgstab_zero` | the same, BiCGStab only | a finding |
| `checkpoint` | jobs of 1 or 2 processes, a plain and a compressed file, two saves and a load, streams on one process | what was saved in full is restored, refinement of `CheckpointStore`; the model cannot stop (deadlock is checked) |
| `reordering` | 512 mappings of 3 cells to 4 DOFs, all 18 options | the system is the same in the new order and after the way back; one meaning of both arrays of a permutation; levels; which graphs the numbering refuses; proper colourings, independent classes |
| `separable_graphs` | the same | a finding |

**Bounds.** Four objects are enough for a source, a target, a third party that shares and a layout;
three addresses make the pool run out and be reused. `FewLive` is a state constraint:
objects beyond four are not explored, and with three addresses a fifth one would be
one more alias of the same kind. Two tickets in flight show every pairwise
order; `TicketsStayInOrder` is proved for any number. Two messages
in a channel are the most there can be (`FewInFlight`, `FewMessages`), so six operations on four
processes, of which two are not neighbours, reach the largest skew there is between neighbours; two
matrices do for `matrices`, which has four rounds each. In `numbering`, a DOF of all four
processes has an owner with three donees and a donee with two neighbours that do not own it, one process owns two
numbers in a block, and the second round begins with what the first left. Four levels are the fewest for which the F-cycle
has two peaks and the W-cycle resets several counters in one step, and two calls of
apply show what the first leaves behind, though its cycle was another one (`set_cycle` may
change it at any time, multigrid.hpp:1064). With the norms 0, 4 and 5, a defect is zero, stagnates,
converges or diverges according to the setting; two solves show what a solve leaves in the
counters. Four nodes are the fewest with a separable graph whose first component ends with a level of
two nodes, the case in which numbering fails, and have graphs in which the wide end is in the last
component, or is seen only from a node that is not the root, which do not fail. Two saves and a load show a file overwritten by
a job that fails, and one that was complete before. Addresses and containers of one type are symmetric in the
container run, which checks safety only.

**Deadlock.** Programs end, so `CHECK_DEADLOCK` is off except for `checkpoint`; where processes wait for each
other, a liveness property (`AllFinish`, `AllDone`, `AllReturn`) says that the end is the only stop.

**Fairness.** In `SynchScalar`, threads and processes are scheduled fairly (weak
fairness of each thread's and process' next step), MPI completes an operation that all processes have
called, and nothing is assumed about spurious wakeups and aborts. In `Gate`, `SynchMatrix`, `AlgDofParti` and
`SolverLoops`, each process goes on
when it can, and a message that was sent arrives: operating system and MPI both promise that. `MultiGrid`
needs only that *some* process goes
on as long as one can: every step comes closer to the end. `Checkpoint`, `Reordering` and
`Container` are checked for safety only: what a program calls next is up to it.

## 4. Proofs

All theorems hold for every number of objects, addresses, processes, operations and nodes, under
the named assumptions of the modules, which TLC evaluates for each instance.

* `StorageProofs`, containers: from `Spec`, with `Permit = {}`, `Inv` is inductive. `RefCount` alone is not:
  that `release_memory` takes away the right reference needs `OwnersHoldStarts` (owners
  hold start addresses), `IdleObjects` (what is not constructed holds nothing) and
  `RangesPointIntoOrigin` (a range has live memory because its origin has); the counting rests on
  lemmas on the cardinality of owners when one object's arrays change. `CountersAreExact`,
  `MemoryStaysLive` and `TypeCorrect` follow. `ProgramsDoNotFail` needs in addition that shapes
  have no array of length zero (`FullProgram`), and the invariant `FaultFree`
  (`ArraysAreFaultFree`), which `containers` checks as well.
  `ContainersShareArrays` shows the refinement of `SharedArrays`: what other objects refer to stays in the
  pool when one object gives its arrays back (`OthersStay`), and new arrays are fresh and distinct, so each operation
  rebinds the cells of one object, writes to a cell or takes cells over, or leaves them alone.
  `DeepClonesAreIndependent` follows from the same facts.
* `TicketProofs`, scalar tickets: an invariant about which calls a process has made, at which
  position of the constructor, gives `CallsAreMade`, `TicketsStayInOrder`, `TicketTypes` and `ResultsAreRight` (what
`ResultsComplete`, a part of `TicketsInOrder`, says of a finished ticket); the same
  invariant lets every step map to a step of `Reduction` or to a stutter (`TicketsAreReductions`).
* `GateProofs`: `Inv` says where every message is. `GatesGrow`: what of a gate is
  built; `Tickets`: who has begun what and still waits for whom; `Channels`: between two processes lie exactly the
  operations, in order, that the sender has begun and the receiver not taken; `Sums`: an entry has the
  contributions of those already received. `MessagesMatchReceives`, `SendsHaveReceivers`,
  `SumsAreComplete` and `FewInFlight` are consequences, and with them every step maps to one of `NeighbourSum`
  (`OperationsKeepPromise`). A ticket has one round, so a channel's content
  is an interval of operations that both share. `SharesMakeUpValues` is about the values themselves: what
  `from_1_to_0` leaves with the holders of an entry adds up to what all of them had. It needs
  that frequencies divide the unit (`UnitAssumption`), as the model counts in fractions of a value.
* `TicketProofs`, matrix tickets: the argument of `GateProofs` with rounds that are numbered through (`InOrder`), which
  have to be related to what a process has posted and has still to receive (`Phases`); without room in MPI
  at most one send to a neighbour is active (`OneWithoutRoom`). `ReceivesGetTheirRound` and
  `FewMessages` follow. What messages say is a second invariant, `Whole`: each holds the sizes, row pointers, column indices or
  values of the sender's part of the matrix it was sent for (`Contents`); what a process has been told so far is the part
  of its neighbour (`Known`), so there is room for what comes next (`ReceivesHaveRoom`); and a matrix is the sum of
  the parts taken so far (`Sums`), where a process has not added anything before it has sent its own
  (`Unsent`). Hence each step is one of `NeighbourSum` or a stutter (`ConversionsKeepPromise`).
* `AlgDofPartiProofs`: first what gates determine. Each process finds the owner of its DOFs alone, from its own
  mirrors; since mirrors of two processes list the same DOFs in the same order, all come to the lowest holder
  (`OwnersAre`), the lists of owners and donees are each other's mirror images (`OwnersListed`, `DoneesListed`), and the
  mirror without the DOFs of third processes is the same list on both sides, though one leaves them out by owner
  and the other by owned index (`MirrorsMatch`). The global number of a DOF is the offset of its owner and its index
  there, and no two DOFs have the same (`GlobalIsOnce`). Then the program: messages between two processes go up to
  the owner and down to the donee, and the rounds of all calls are numbered through in each direction, so that a channel holds
  what is between what one has `Sent` and the other `Taken` (`InOrder`), with the content that belongs to its round (`IsContent`);
  partition, buffers and the contributions to collectives are those of the position of each process in the program (`LocalInv`).
  `PartitionInvariant` is this invariant; `NumberingIsOne` and `RoundsMatch` follow. `LifeCycleAssumption` says that
  initialisation comes first and is undone before the next one, as `base.hpp` asks of callers.
  What messages add up to is a second invariant, `Whole`: a process that has left `allreduce` knows that all others have
  begun the call (`Met`) and how many DOFs there are (`Learnt`), the rows of its matrix are the keys of all entries in them, its own
  and those of its donees (`Rows`), and each entry is the bag of the contributions of those `Heard` so far, itself
  included (`Sums`). Between format and own upload, `Sums` says, all entries that this process has are empty: the upload assigns
  only those, so for the others the sum of the donees begins with what the format has left. Nobody but donees has entries in a row (`SummedAll`), filtered rows are found by their numbers
  although the upper bound of `filter_matrix` is too high (`FilteredIs`), a number belongs to one DOF (`NumberedDof`), and whoever has sent for a
  round has begun the call (`SentAfter`). So what a call returns is what `NeighbourSum` promises (`CallsKeepPromise`).
* `SolverProofs`: the calls of all processes are prefixes of one history (`OneHistory`), and
  what a process knows is a function of its position in it (`InHistory`): the control of two processes
  at the same call is the same, though some plot more and local solvers fail on some. This needs that the
  settings agree on skipped norms (`SolverAssumption`, from the comment of `skip_defect_calc`), and
  that a failed local solver is told to all. `CallsMatch` and `SameVerdicts` follow.
  What a process has been told (`Told`) is a function of its position too, so there is a history of norms
  of which each process remembers a beginning (`Memory`); the history is not a variable but is quantified over.
  `VerdictsAreFresh` says that whoever returns has looked at the defect of its last iterate; and the process that is last takes the
  steps of `StoppingRule` (`SolversStopByTheRule`). That there is a last one is why `Rank # {}` is assumed.
* `MultiGridProofs`, by itself: an inductive invariant (`IInv`) for every hierarchy and sequence of calls. What a process has still to do
  is a list in which one entry leads on to the next (`IsTodo`), so from its first entry one knows which levels it
  is `Below`: it has left them and not come back. When all processes of a level are below it, its defect is that of its
  solution. That alone is not inductive: without a pre-smoother, and from a peak, processes leave a level one by
  one. As long as some are below a level and others are not, there is no pre-smoother and those who left have a zero solution
  (`LevelIsRight`), so that the last one makes the defect right; processes that have no part in a level keep there what they
  had. A prolongation to a level ends this: after its correction and post-smoothing the defect there may be old, and it is the
  peak-smoother, or the next restriction's pre-smoother, that makes it right again before anybody restricts it
  (`SmoothPeakKeeps`, `PreSmoothKeeps`). `DefectsAreCurrent` follows, whether coarse grid solvers fail or not. For the W-cycle,
  the counters below the peak level are ones and become zeros (`PeakIs`, `StepCounts`); this adds one to a binary number
  (`OneMore`), and the number is the greatest if and only if all digits are 1 (`DigitSums`). So the counters count
  (`CountersCount`), and when the loop ends they all are 1 (`NoAssertionFails`). The assumption that each
  number but 0 has an inverse makes `Prime` a prime: the factor of an adaptive correction is a quotient.
* `MultiGridProofs`, the recursion: `CorrectionsAreCycles` says that what `apply` returns is the cycle of a textbook. The code has
  no recursion, but loops, a peak level and counters, and a cycle of a level is spread over the processes that have it. So
  first a process by itself: from its list of entries and its counters one reads off how far it is on every level (`ClassOf`): before its first
  correction, between the first and the peak-smoother, before a second one, done, or not there (`IsPlan`, and one lemma for each operation of how this goes on). Then the
  recursion: a value that a cycle of a level goes through has a name (`Expected`), depends only on the entries of
  processes that have the level, and each operation of the loops leads from one to the
  next (`ImprovedIs`, `AfterPeakSmooths`); this is arithmetic modulo `Prime`, where the loops update the defect by the
  correction and the recursion computes it anew. Then the two together: the inductive invariant `JInv`. Its heart is
  `AllSolved`, the solution of a level is the value expected there, but that needs `Given`, that the right-hand side has been
  computed from the finer level and that this has not changed since; which needs `Together` and
  `Passed`, that processes which share a level are equally far on it although each goes on alone, that ghosts have gone
  up to where their parents speak for them, and what lies between the two. A process may be a call ahead of others, if these
  have only to return (`SameCalls`). A call in which the coarse grid solver fails is left out, and nothing of it is left in the next.
* `StorageProofs`, checkpoints: its invariant `Kept` says what each file, stream and input consists of. A file
  is a row of pieces, and `SumBefore`, a sum of sizes, is where one of them begins; a piece is a buffer, and what
  `Parse` finds in it is what `Collect` has put there (`ReadBack`), whatever the bytes of the objects look like. So what was saved in full is restored
  by a job of the same size (`CheckpointsStay`). A torn compressed file is the harder case (`TornIsRefused`): the sizes may be
  those of an earlier save and point anywhere, and what lies there may be a hole. But a process
  reads something that decompresses only at the begin of a piece. The begins that n processes use increase strictly, as sizes are
  not zero, and there are no more than n pieces; so each has found its own. This argument showed where the property
  has to end (section 6). `CheckpointsAreAStore` is the refinement of `CheckpointStore`, under the hypothesis `Zlib`: without it, the
  last byte of a stream is lost.
* `ReorderingProofs`: counts are cardinalities of colour classes (`Counted`), so a minimal search
  finds a colour no neighbour has, and a new colour is below the degree of its node (`ColoursFit`).
  `NeighboursDiffer`, `CountsStayInBounds` and `UsesAreExact` follow for every symmetric graph and order.
  The reordering program calls the constructors with nothing else (`ProgramColoursProperly`), and the lists of the
  partition graph are the colour classes, in which no two nodes are adjacent (`PartsAreIndependent`).
  Cuthill-McKee's invariant `CMInv` says that `permutation` is, up to the end of the last level, a list of the
  nodes marked in `node_mask`, each once. Levels, sorts and reversals keep that (`LevelKeeps`, `SortHas`,
  `ReverseKeeps`), so what is returned is a permutation, whichever root and sort is chosen. Its other array is traced
  by `calc_swap_from_perm`: after any number of exchanges the rest of the order is what has still to be fetched
  (`SwapFetches`), so exchanges gather as the array of positions says (`InSituGathers`), and in the reverse direction
  scatter (`InSituScatters`). `ConventionsAgree` is the sum of this. Then `SysInv` relates the matrix to the mapping
  it was assembled from: a row has each coupled DOF once, in order (`AssembledRow`), and
  permuting twice, there and back, is renaming there and back (`MatrixPermutes`, `SystemStaysTheSame`). It assumes
  that the cells of a mapping are counted from 0 (`DofGraphsAssumption`), as they are in every `Adjacency::Graph`.
  Which order it is that Cuthill-McKee returns needs an invariant of its own, `LevelsInv`: the array begins with
  whole components (`Parts`), after which comes a ball around the last root (`Grows`), all nodes up to some distance from it, ordered by
  distance, degree and first neighbour (`Ordered`), and its last level is that between `lvl1` and `lvl2`. The
  nodes next to a level that are not marked are those one step farther from the root (`NextLevelIs`), because the other components are
  closed and the ball has all of its own levels; a list of neighbours without repetitions, sorted by a stable sort, keeps the order
  of the level before (`LevelFollows`, `BallGrows`). If there are none, the ball is the component (`BallIsComponent`). The one
  way out of this is the flaw of section 6: a root that is placed over a node (`Lost`); then the array never gets full, and nothing is returned.
  When this happens is the other half of the invariant. Roots are compared by degree and index, an order in which the root of a
  component is the first of all nodes that are left (`Fits`, `RootFits`, `PartIsWhole`). Before the last component no end is wide (`AllNarrow`),
  since `lvl1` is less than `lvl2` after a component if and only if its end is wide (`BallEndsWide`, `BallEndsNarrow`, `EndsStayNarrow`); if it is
  wide (`LastWide`) and a root follows, there is a wide end before another component (`WideBefore`) and a node is lost. As long as
  no node is lost, a root is found (`RootIsFound`). So `NumberedFromItsRoots` says what is returned, and `FailsOnlyThen`
  for which graphs something is.
* `DataLemmas`: what appending to and taking from queues does, sums over finite sets, and induction. The library's
  induction theorems have a predicate as parameter, which no prover here can instantiate. Here it is a set: a set of numbers that holds 0 and
  with each number the next one is `Nat` (`AllNumbers`), and the like for subsets of a finite set. So sums and
  recursive functions over sequences can be reasoned about. Its last section says where the pieces of
  joined sequences lie (`FlattenIs`), for files as for the rows of graphs.

Type invariants are proved where a proof needs them: `TypeCorrect` of `Container`, `TicketTypes` of `SynchScalar`, and
`Shape` of the other proof modules.

Every safety invariant, action property and refinement that a run checks for what the code does right is a theorem. Only
model-checked is liveness (`AllFinish`, `AllDone`, `AllReturn` and the like), which is beyond the prover. `Cycles` and the other recursions that theorems
speak about are recursive functions; what they compute is used one level at a time, through their defining equation, after a proof that there is such a function (`CyclesExist`, `CyclesAre`).

## 5. Not modelled

The map covers a small share of the repository, and most of the rest is not a subject for
model checking: geometry, finite element spaces, assembly, cubature, kernels, smoothers and optimisers are
arithmetic in templates, whose correctness is convergence to an exact solution, not a property of states;
applications, tutorials and tools use the library; third-party patches, meshes and tests are data.

Of the modelled parts, the following are left out. Containers: CUDA and pinned memory, serialisation (offsets in
floating point, see `hazards`), `permute` of a matrix that shares its arrays. Gates: conversion between gate types.
Muxer: how it is built, truncation, conversion. Multigrid: the life cycle of the hierarchy. Matrix tickets: blocks.
Solvers: what the recurrences compute. Checkpoints: reading on one process
and sending to the others, sequences of files. Entry numbering: products with the matrix, blocks.
Adjacency: render types that no other modelled part uses, `DynamicGraph`, `CompositeAdjactor`.
Everywhere: the non-MPI build, in which communication is trivial, statistics, time stamps, logging and rounding.
`PROJECT.json` lists every component with its state, and every hazard with the properties about it or the reason
why there is none.

## 6. Findings

Three disagreements have runs of their own.

1. Solvers that return `Status::aborted` with scalar tickets in flight are killed by the
   tickets' destructors (synch_scal.hpp:148, rbicgstab.hpp:266; `scalar_aborts`).
2. BiCGStab reaches the end of its function, which its comment says never happens, if the initial
   defect is zero, and returns an undefined status (`bicgstab_zero`).
3. Cuthill-McKee, which "creates a Cuthill-McKee permutation of the given graph" (cuthill_mckee.hpp:90) and has a "separability
   loop" (cuthill_mckee.cpp:229) for graphs of several components, throws `No root found!` for some of them (`separable_graphs`).
   The root of the next component is placed at `lvl1 + 1` (114), where `lvl1` is the begin of the last level and not its end. The smallest
   such graph has nodes 0 to 3 and edges 0-1 and 0-2. `FailsForWideEndsOnly` says which graphs these are: those in which a component that is not the last ends,
   seen from the root it gets, with a level of more than one node.

The following was met while modelling, and is kept out of the runs by an assumption, or is described by a property.

* `assign` and `move` release arrays of a range they overwrite (container.hpp:187, 778), though
  `_foreign_memory` (105) says they may not be freed: with `Permit = {"range_target"}`, `RefCount` fails.
* A container converted to itself loses its contents (container.hpp:192, `self_assign`).
* A layout moved over another leaks its arrays (sparse_layout.hpp:125, `layout_over`).
* A matrix without entries has null arrays; a shallow clone fails the assertion of
  `increase_memory` (memory_pool.hpp:220; `Shapes <- EmptyShapes`).
* `SparseMatrixCSR::permute` writes to its arrays in place (sparse_matrix_csr.hpp:2348, 2379-2383): shallow and layout
  clones, and matrices that share a layout, are changed with it.
* The multigrid ignores that its coarse grid solver failed, and returns `Status::success` (multigrid.hpp:1556);
  `grid_cycles` lets it fail and shows that the next call is not affected.
* `Muxer::convert` uses `at(i)` on lists that it did not resize (muxer.hpp:127-130): converting a parent's muxer to a new one
  throws. `Gate::convert` (gate.hpp:88-107) does it right.
* Comments of `alg_dof_parti.hpp` (268, 285) name owner and donee mirrors the other way round than the code uses
  them (483, 502, 850, 863). `filter_matrix` (1267) compares with the number of all
  DOFs instead of the own ones; as DOFs of other processes belong to lower ranks, and have lower numbers, this does no harm.
* With `root_maximum_degree`, nodes of degree zero are no candidates for roots (cuthill_mckee.cpp:90), so `compute` throws for
  graphs that have one; a matrix that the model assembles has an entry in every row.
* `create_partition_graph` leaves out nodes of colours above a gap in an array of colours given by the caller (colouring.cpp:52, 294);
  the arrays of both colouring constructors have none (`UsesAreExact`).
* `DynamicGraph::compose` has an inverted assertion (dynamic_graph.hpp:339); nothing calls it.
* Without zlib, `load` from a stream copies one byte less than it should, and the last one of the buffer is not
  initialised (checkpoint_control.hpp:633).
* A job of fewer processes than have saved may take pieces of a torn compressed checkpoint for those of other processes: if
  the save failed after the data were written, the sizes of the checkpoint before may lead a process to
  the begin of another one's piece, which decompresses (checkpoint_control.hpp:278-286, 330). `CompressedIsWhole` leaves this
  case out; with at least as many processes it cannot happen (`TornIsRefused`).

## 7. Plan

What is left, in this order:

1. `Muxer`: building (`set_parent`, `push_child`, `compile`), join and split with their ghost halves;
   the messages of `MultiGrid` refine to it.
2. `Hierarchy`: life cycle of `MultiGridHierarchy` with solver objects shared between roles.
3. `RequestVector`: wait and test functions, `compress`, over an abstract MPI.
4. `SerialLayout`: offsets of serialised containers in float arithmetic of 24 bits.
5. `DomainLayers`: levels and progeny groups of processes.
