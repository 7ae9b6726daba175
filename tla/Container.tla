----------------------------- MODULE Container ------------------------------
(***************************************************************************)
(* LAFEM containers (vectors, matrices) and matrix layouts: objects that   *)
(* own arrays of the memory pool, share them with each other and give them *)
(* back.  Every array is in a slot; ElementSlot are the data arrays        *)
(* (_elements), the other slots the index arrays (_indices).  A variable   *)
(* of the program may hold a container of any class (vector, matrix): the  *)
(* model tells classes apart only by the arrays they have.                 *)
(*                                                                         *)
(* The contents of an array is one abstract value: what the properties ask *)
(* is who sees whose writes, not how an array is computed.  Memory that    *)
(* was allocated and not written holds Undef, and so does freed memory.    *)
(*                                                                         *)
(* A failed assertion or an exception of the pool ends the program: fault  *)
(* records it and no action follows.                                       *)
(***************************************************************************)
EXTENDS MemoryPool

CONSTANTS Con,          \* the container variables of the program
          Layout,       \* the SparseLayout variables of the program
          ElementSlot,  \* slots of data arrays
          Val,          \* contents a program writes to an array
          Undef,        \* contents nobody has written
          DataType,     \* DT_ of each container
          IndexType,    \* IT_ of each container and layout
          Shapes,       \* patterns of arrays the constructors allocate
          Permit        \* the delicate calls the program makes

IndexSlot == Slot \ ElementSlot
Object == Con \cup Layout
Content == Val \cup {Undef}

(***************************************************************************)
(* Calls that a program can make and that the model switches on one at a   *)
(* time: to assign to or move into a container that is (or was) a range of *)
(* another one, to assign from a range, to assign a container to itself,   *)
(* to move a layout over one that still holds arrays.                      *)
(***************************************************************************)
Delicate == {"range_target", "range_source", "self_assign", "layout_over"}

\* A constructor's pattern says of each slot: no array, an array of zero size,
\* or an array with entries.
Pattern == [Slot -> {"none", "zero", "sized"}]

ASSUME ContainerAssumption ==
  /\ Con \cap Layout = {}
  /\ IsFiniteSet(Con \cup Layout)
  /\ ElementSlot \subseteq Slot /\ ElementSlot # {}
  /\ Undef \notin Val
  /\ Shapes \subseteq Pattern
  /\ Permit \subseteq Delicate

VARIABLES live,     \* the objects that are constructed
          arrays,   \* _elements and _indices of every object
          foreign,  \* _foreign_memory (never set in a layout)
          origin,   \* whose memory a range refers to, else the object itself (ghost)
          pool,     \* MemoryPool<Mem::Main>::_pool
          heap,     \* the contents of the arrays
          fault     \* "none", or how the program ended

vars == <<live, arrays, foreign, origin, pool, heap, fault>>

Init ==
  /\ live = {}
  /\ arrays = [o \in Object |-> NoArrays]
  /\ foreign = [o \in Object |-> FALSE]
  /\ origin = [o \in Object |-> o]
  /\ pool = EmptyPool
  /\ heap = [a \in Addr |-> Undef]
  /\ fault = "none"

----------------------------------------------------------------------------
(* Callers.                                                                *)

New(o) == fault = "none" /\ o \notin live
Live(o) == fault = "none" /\ o \in live

\* Nobody holds a range of the container: as long as there is one, its arrays
\* stay ("should be used carefully", says the range constructor).
Settled(o) == \A r \in Object : origin[r] = o => r = o

Allowed(call, delicate) == delicate => call \in Permit

----------------------------------------------------------------------------
(* Building blocks.                                                        *)

\* The program ends.
Fail(kind) == fault' = kind /\ UNCHANGED <<live, arrays, foreign, origin, pool, heap>>

\* The arrays an object answers for, where the code asks _foreign_memory.
OwnedForgetsTheFlag(o) == arrays[o]
Owned(o) == IF foreign[o] THEN NoArrays ELSE arrays[o]

\* The slots of a list that hold an array with entries, and one without.
SizedIn(m) == {s \in Slot : Sized(m[s])}
ZeroIn(m) == {s \in Slot : m[s] = NullPtr}

\* The contents behind a pointer, of memory that is in the pool n.
At(n, p) == IF Sized(p) /\ InPool(n, p[1]) THEN heap[p[1]] ELSE Undef

\* The contents an object shows.
View(o) == [s \in Slot |-> At(pool, arrays[o][s])]

\* The heap of the pool n, where the new arrays own hold the contents data.
HeapWith(n, own, data) ==
  [a \in Addr |->
     IF ~InPool(n, a) THEN Undef
     ELSE IF SlotsAt(own, a) # {} THEN data[CHOOSE s \in SlotsAt(own, a) : TRUE]
     ELSE heap[a]]

SameType(c, d) ==
  {s \in Slot : IF s \in ElementSlot THEN DataType[c] = DataType[d]
                                     ELSE IndexType[c] = IndexType[d]}

SameClass(c, d) == SameType(c, d) = Slot

\* The object o, whose old arrays are gone and left the pool n, shares the
\* arrays shared (a list of pointers), and allocates arrays in the slots sized
\* and zero, which get the contents data.
Adopt(o, n, shared, sized, zero, data, flag) ==
  IF AssertsOnIncrease(shared) THEN Fail("assert")
  ELSE IF ~CanIncrease(n, shared) THEN Fail("throw")
  ELSE \E own \in Allocations(n, sized, zero) :
         /\ arrays' = [arrays EXCEPT ![o] =
                         [s \in Slot |-> IF shared[s] = NoPtr THEN own[s] ELSE shared[s]]]
         /\ pool' = Increase(Increase(n, shared), own)
         /\ heap' = HeapWith(pool', own, data)
         /\ live' = live \cup {o}
         /\ foreign' = [foreign EXCEPT ![o] = flag]
         /\ origin' = [origin EXCEPT ![o] = o]
         /\ UNCHANGED fault

\* As Adopt, after the model m of another container: its arrays in the slots
\* share, copies of them in the slots copy, unwritten arrays elsewhere.
AdoptLike(o, n, m, share, copy, flag) ==
  Adopt(o, n, Only(m, share), SizedIn(m) \ share, ZeroIn(m) \ share,
        [s \in Slot |-> IF s \in copy THEN At(n, m[s]) ELSE Undef], flag)

\* The object p hands its arrays over to o, which has none any more.
HandOverKeepsThem(p, o) ==
  /\ arrays' = [arrays EXCEPT ![o] = arrays[p]]
  /\ foreign' = [foreign EXCEPT ![o] = foreign[p]]
  /\ origin' = [origin EXCEPT ![o] = IF origin[p] = p THEN o ELSE origin[p]]

HandOverForgetsTheFlag(p, o) ==
  /\ arrays' = [arrays EXCEPT ![o] = arrays[p], ![p] = NoArrays]
  /\ UNCHANGED foreign
  /\ origin' = [origin EXCEPT ![o] = IF origin[p] = p THEN o ELSE origin[p], ![p] = p]

HandOver(p, o) ==
  /\ arrays' = [arrays EXCEPT ![o] = arrays[p], ![p] = NoArrays]
  /\ foreign' = [foreign EXCEPT ![o] = foreign[p]]
  /\ origin' = [origin EXCEPT ![o] = IF origin[p] = p THEN o ELSE origin[p], ![p] = p]

\* The object gives back the arrays it answers for and has none any more.
Discard(o) ==
  /\ pool' = Release(pool, Owned(o))
  /\ heap' = HeapWith(pool', NoArrays, <<>>)
  /\ arrays' = [arrays EXCEPT ![o] = NoArrays]
  /\ foreign' = [foreign EXCEPT ![o] = FALSE]
  /\ origin' = [origin EXCEPT ![o] = o]
  /\ UNCHANGED fault

----------------------------------------------------------------------------
(* Constructors and destructors.                                           *)

\* DenseVector(size), DenseVector(size, value), SparseMatrixCSR(rows, columns,
\* used_elements): the arrays of the pattern shape, filled with v.
Construct(c, shape, v) ==
  /\ New(c)
  /\ Adopt(c, pool, NoArrays, {s \in Slot : shape[s] = "sized"},
           {s \in Slot : shape[s] = "zero"}, [s \in Slot |-> v], FALSE)

\* SparseMatrixCSR(rows, columns, col_ind, val, row_ptr), DenseVector(size,
\* data): wraps the data arrays of vectors, one for each of the slots.
Wrap(c, parts) ==
  /\ New(c)
  /\ \A s \in DOMAIN parts :
        /\ Live(parts[s]) /\ ~foreign[parts[s]]
        /\ DataType[parts[s]] = IF s \in ElementSlot THEN DataType[c] ELSE IndexType[c]
        /\ \E e \in ElementSlot : Sized(arrays[parts[s]][e])
  /\ LET Data(d) == CHOOSE p \in Pointer : Sized(p) /\ \E e \in ElementSlot : arrays[d][e] = p
         list == [s \in Slot |-> IF s \in DOMAIN parts THEN Data(parts[s]) ELSE NoPtr]
     IN  Adopt(c, pool, list, {}, {}, <<>>, FALSE)

\* DenseVector(dv_in, size, offset): a range of a vector, from its first
\* element (inside = 0) or a later one (inside = 1).
MakeRange(c, d, inside) ==
  /\ New(c) /\ Live(d) /\ SameClass(c, d)
  /\ SizedIn(arrays[d]) = ElementSlot /\ ZeroIn(arrays[d]) = {}
  /\ LET Shift(p) == IF inside = 0 THEN p ELSE Inside(p[1])
     IN  arrays' = [arrays EXCEPT ![c] = [s \in Slot |-> IF s \in ElementSlot
                                                         THEN Shift(arrays[d][s]) ELSE NoPtr]]
  /\ foreign' = [foreign EXCEPT ![c] = TRUE]
  /\ origin' = [origin EXCEPT ![c] = origin[d]]
  /\ live' = live \cup {c}
  /\ UNCHANGED <<pool, heap, fault>>

\* Container(Container&&): the source loses its arrays and keeps its flag.
MoveConstruct(c, d) ==
  /\ New(c) /\ Live(d) /\ SameClass(c, d) /\ Settled(d)
  /\ HandOver(d, c)
  /\ live' = live \cup {c}
  /\ UNCHANGED <<pool, heap, fault>>

\* ~Container()
Destroy(c) ==
  /\ Live(c) /\ Settled(c)
  /\ IF CanRelease(pool, Owned(c)) THEN Discard(c) /\ live' = live \ {c} ELSE Fail("throw")

----------------------------------------------------------------------------
(* Operations of a live container.                                         *)

\* clear()
Clear(c) ==
  /\ Live(c) /\ Settled(c)
  /\ IF CanRelease(pool, Owned(c)) THEN Discard(c) /\ UNCHANGED live ELSE Fail("throw")

CloneMode == {"Shallow", "Layout", "Weak", "Deep", "Allocate"}

SharedSlotsLayoutInDeep(mode) == CASE mode = "Shallow" -> Slot
                                   [] mode \in {"Layout", "Weak", "Deep"} -> IndexSlot
                                   [] mode = "Allocate" -> {}

SharedSlots(mode) == CASE mode = "Shallow" -> Slot
                       [] mode \in {"Layout", "Weak"} -> IndexSlot
                       [] mode \in {"Deep", "Allocate"} -> {}

CopiedSlots(mode) == CASE mode = "Weak" -> ElementSlot
                       [] mode = "Deep" -> Slot
                       [] mode \in {"Shallow", "Layout", "Allocate"} -> {}

\* clone(other, mode) between containers of one type: clear(), then share,
\* copy or just allocate.  The source is never the container itself, which
\* throws, and a range is cloned deeply, which the code asserts.
Clone(c, d, mode) ==
  /\ Live(c) /\ Live(d) /\ c # d /\ SameClass(c, d) /\ Settled(c)
  /\ foreign[d] => mode = "Deep"
  /\ IF CanRelease(pool, Owned(c))
     THEN AdoptLike(c, Release(pool, Owned(c)), arrays[d],
                    SharedSlots(mode), CopiedSlots(mode), FALSE)
     ELSE Fail("throw")

\* clone(other, mode) across types: t.assign(other), clone(t, mode), and t goes.
\* What t converts is t's own, so sharing it with t leaves it to the clone.
CloneAcross(c, d, mode) ==
  /\ Live(c) /\ Live(d) /\ ~SameClass(c, d) /\ Settled(c)
  /\ Allowed("range_source", foreign[d] /\ DataType[c] = DataType[d])
  /\ LET same == SameType(c, d)
         shared == SharedSlots(mode)
     IN  IF AssertsOnIncrease(Only(arrays[d], same \cup shared)) THEN Fail("assert")
         ELSE IF ~CanIncrease(pool, Only(arrays[d], same)) \/ ~CanRelease(pool, Owned(c))
         THEN Fail("throw")
         ELSE AdoptLike(c, Release(pool, Owned(c)), arrays[d], same \cap shared,
                        CopiedSlots(mode) \cup (shared \ same), FALSE)

\* assign(other), called by convert: gives the old arrays back whatever the flag
\* says, shares arrays of the same type, converts the others.  With other =
\* *this the arrays are gone before they are read.
Assign(c, d) ==
  /\ Live(c) /\ Live(d) /\ Settled(c)
  /\ Allowed("self_assign", c = d)
  /\ Allowed("range_target", foreign[c])
  /\ Allowed("range_source", foreign[d] /\ DataType[c] = DataType[d])
  /\ IF CanRelease(pool, arrays[c])
     THEN AdoptLike(c, Release(pool, arrays[c]), IF c = d THEN NoArrays ELSE arrays[d],
                    SameType(c, d), Slot, foreign[c])
     ELSE Fail("throw")

\* move(other), called by operator=: gives the old arrays back whatever the
\* flag says.
Move(c, d) ==
  /\ Live(c) /\ Live(d) /\ c # d /\ SameClass(c, d) /\ Settled(c) /\ Settled(d)
  /\ Allowed("range_target", foreign[c])
  /\ IF CanRelease(pool, arrays[c])
     THEN /\ HandOver(d, c)
          /\ pool' = Release(pool, arrays[c])
          /\ heap' = HeapWith(pool', NoArrays, <<>>)
          /\ UNCHANGED <<live, fault>>
     ELSE Fail("throw")

\* Writes data to the arrays of c in the slots of S.
Overwrite(c, S, data) ==
  /\ heap' = [a \in Addr |->
                LET hit == {s \in S : Sized(arrays[c][s]) /\ arrays[c][s][1] = a}
                IN  IF hit = {} THEN heap[a] ELSE data[CHOOSE s \in hit : TRUE]]
  /\ UNCHANGED <<live, arrays, foreign, origin, pool, fault>>

\* format(value)
Format(c, v) == Live(c) /\ Overwrite(c, ElementSlot, [s \in Slot |-> v])

\* _copy_content(other, full), called by copy: both have the same arrays.
CopyContent(c, d, full) ==
  /\ Live(c) /\ Live(d) /\ SameClass(c, d)
  /\ SizedIn(arrays[c]) = SizedIn(arrays[d]) /\ ZeroIn(arrays[c]) = ZeroIn(arrays[d])
  /\ Overwrite(c, IF full THEN Slot ELSE ElementSlot, View(d))

----------------------------------------------------------------------------
(* Matrix layouts.                                                         *)

\* layout(): a SparseLayout that shares the index arrays of a matrix.
MakeLayout(l, c) ==
  /\ New(l) /\ Live(c) /\ ~foreign[c] /\ IndexType[l] = IndexType[c]
  /\ Adopt(l, pool, Only(arrays[c], IndexSlot), {}, {}, <<>>, FALSE)

\* SparseMatrixCSR(layout): shares the index arrays, allocates data.
FromLayout(c, l) ==
  /\ New(c) /\ Live(l) /\ IndexType[c] = IndexType[l] /\ SizedIn(arrays[l]) # {}
  /\ Adopt(c, pool, arrays[l], ElementSlot, {}, [s \in Slot |-> Undef], FALSE)

\* operator=(layout): gives back all arrays first.
AssignLayout(c, l) ==
  /\ Live(c) /\ Live(l) /\ IndexType[c] = IndexType[l] /\ SizedIn(arrays[l]) # {}
  /\ ~foreign[c] /\ Settled(c)
  /\ IF CanRelease(pool, arrays[c])
     THEN Adopt(c, Release(pool, arrays[c]), arrays[l], ElementSlot, {},
                [s \in Slot |-> Undef], foreign[c])
     ELSE Fail("throw")

\* SparseLayout(), SparseLayout(SparseLayout&&), operator=(SparseLayout&&),
\* which overwrites the arrays it held, and ~SparseLayout().
NewLayout(l) ==
  /\ New(l)
  /\ live' = live \cup {l}
  /\ UNCHANGED <<arrays, foreign, origin, pool, heap, fault>>

MoveConstructLayout(l, k) ==
  /\ New(l) /\ Live(k) /\ IndexType[l] = IndexType[k]
  /\ HandOver(k, l)
  /\ live' = live \cup {l}
  /\ UNCHANGED <<pool, heap, fault>>

MoveLayout(l, k) ==
  /\ Live(l) /\ Live(k) /\ l # k /\ IndexType[l] = IndexType[k]
  /\ Allowed("layout_over", arrays[l] # NoArrays)
  /\ HandOver(k, l)
  /\ UNCHANGED <<live, pool, heap, fault>>

DestroyLayout(l) ==
  /\ Live(l)
  /\ IF CanRelease(pool, arrays[l]) THEN Discard(l) /\ live' = live \ {l} ELSE Fail("throw")

----------------------------------------------------------------------------
\* Runtime::finalise calls MemoryPool<Mem::Main>::finalise when the program has
\* destroyed its objects; an array left over ends it with an error.
Finalise ==
  /\ fault = "none" /\ live = {}
  /\ Fail(IF \E a \in Addr : InPool(pool, a) THEN "leak" ELSE "done")

----------------------------------------------------------------------------
LifeOf(c) ==
  \/ \E shape \in Shapes, v \in Content : Construct(c, shape, v)
  \/ \E S \in SUBSET Slot : \E parts \in [S -> Con] : S \cap ElementSlot # {} /\ Wrap(c, parts)
  \/ \E d \in Con, inside \in {0, 1} : MakeRange(c, d, inside)
  \/ \E d \in Con : MoveConstruct(c, d)
  \/ Destroy(c)

UseOf(c) ==
  \/ Clear(c)
  \/ \E d \in Con, mode \in CloneMode : Clone(c, d, mode) \/ CloneAcross(c, d, mode)
  \/ \E d \in Con : Assign(c, d) \/ Move(c, d)
  \/ \E v \in Val : Format(c, v)
  \/ \E d \in Con, full \in BOOLEAN : CopyContent(c, d, full)

LayoutStep(l) ==
  \/ NewLayout(l) \/ DestroyLayout(l)
  \/ \E c \in Con : MakeLayout(l, c) \/ FromLayout(c, l) \/ AssignLayout(c, l)
  \/ \E k \in Layout : MoveConstructLayout(l, k) \/ MoveLayout(l, k)

Next ==
  \/ \E c \in Con : LifeOf(c) \/ UseOf(c)
  \/ \E l \in Layout : LayoutStep(l)
  \/ Finalise

Spec == Init /\ [][Next]_vars

----------------------------------------------------------------------------
(* Properties.                                                             *)

TypeOK ==
  /\ live \subseteq Object
  /\ arrays \in [Object -> [Slot -> Pointer]]
  /\ foreign \in [Object -> BOOLEAN]
  /\ origin \in [Object -> Object]
  /\ pool \in Pool
  /\ heap \in [Addr -> Content]
  /\ fault \in {"none", "assert", "throw", "leak", "done"}

\* The places that own a reference to the array at a.
Owners(a) == {os \in Object \X Slot : ~foreign[os[1]] /\ arrays[os[1]][os[2]] = Start(a)}

\* The counter of every array is the number of places that own a reference to
\* it, over every sequence of constructions, clones of any mode, conversions,
\* moves and destructions: no array is freed early, none is leaked.
RefCount == \A a \in Addr : pool[a] = Cardinality(Owners(a))

\* No object, range or not, holds a pointer to memory that was given back.
LiveMemory ==
  \A o \in Object : \A s \in SizedIn(arrays[o]) : InPool(pool, arrays[o][s][1])

\* No sequence of calls ends the program: release_memory and increase_memory
\* always find their address, their assertion holds, and the pool is empty
\* when the program has destroyed its objects.
NoFault == fault \in {"none", "done"}

\* A deep clone is independent: no other object refers to its arrays, and it
\* holds what its source held, even where the source lost its last other
\* reference to the target's old arrays.
DeepCloneIsIndependent ==
  [][\A c, d \in Con : Clone(c, d, "Deep") /\ fault' = "none" =>
       /\ View(c)' = View(d) /\ View(d)' = View(d)
       /\ \A o \in Object \ {c} : \A s \in Slot, t \in SizedIn(arrays'[c]) :
            Sized(arrays'[o][s]) => arrays'[o][s][1] # arrays'[c][t][1]]_vars

\* Containers behave as objects that share garbage-collected cells: a step
\* changes what an object shows only if it is a call on this object or a
\* write through an object that shares the array.
Cells == INSTANCE SharedArrays WITH
  Obj <- Object, Cell <- Addr, Value <- Content, NoCell <- NoPtr,
  ref <- [o \in Object |-> [s \in Slot |->
            IF Sized(arrays[o][s]) THEN arrays[o][s][1] ELSE NoPtr]],
  val <- heap

ImplementsSharedArrays == Cells!Spec

----------------------------------------------------------------------------
(* The inductive invariant behind RefCount and LiveMemory, for a program   *)
(* that makes none of the delicate calls.                                  *)

\* An object that is not constructed holds nothing.
IdleObjects ==
  \A o \in Object \ live : arrays[o] = NoArrays /\ ~foreign[o] /\ origin[o] = o

\* Whoever answers for its arrays holds their start addresses.
OwnersHoldStarts ==
  \A o \in Object : ~foreign[o] =>
    \A s \in Slot : arrays[o][s] \in {NullPtr, NoPtr} \cup {Start(a) : a \in Addr}

\* A range points into arrays that its origin, a live container, owns; what is left of a range
\* that was moved from points nowhere; and only foreign objects are ranges.
RangesPointIntoOrigin ==
  \A o \in Object :
    /\ foreign[o] /\ origin[o] = o => arrays[o] = NoArrays
    /\ origin[o] # o =>
         /\ foreign[o] /\ ~foreign[origin[o]] /\ origin[o] \in live \cap Con
         /\ \A s \in SizedIn(arrays[o]) : arrays[origin[o]][s] = Start(arrays[o][s][1])

\* A layout is no range and has index arrays only.
LayoutsHoldIndices ==
  \A l \in Layout : ~foreign[l] /\ \A s \in ElementSlot : arrays[l][s] = NoPtr

Inv ==
  /\ TypeOK
  /\ RefCount
  /\ IdleObjects
  /\ OwnersHoldStarts
  /\ RangesPointIntoOrigin
  /\ LayoutsHoldIndices

(***************************************************************************)
(* What NoFault needs beyond it, for a program that constructs no arrays   *)
(* without entries: there is no null pointer to increase, and a range has  *)
(* no index array to share.                                                *)
(***************************************************************************)
NoNullPointers == \A o \in Object : \A s \in Slot : arrays[o][s] # NullPtr

RangesHoldNoIndices ==
  \A o \in Object : foreign[o] => \A s \in IndexSlot : arrays[o][s] = NoPtr

FaultFree == Inv /\ NoNullPointers /\ RangesHoldNoIndices /\ NoFault
=============================================================================
